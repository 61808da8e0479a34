------------------------------ MODULE Delivery ------------------------------
(***************************************************************************)
(* What the outbox and the inbox promise together: delivery at least once, *)
(* with duplicates recognised.  An event reaches the channel only if its   *)
(* transaction was committed; it is settled, and so relayed no more, only  *)
(* once the channel has it.  A handler may act on an event more than once, *)
(* but only because a receipt was lost after it acted: never while another *)
(* handling of the event is open, and never once the event is known.       *)
(***************************************************************************)
EXTENDS Sequences

CONSTANT Event
VARIABLES
    sent, accepted, settled,
    handled,     \* what handlers did, in order
    open,        \* events that were handled and whose receipt is not decided
    known        \* events with a receipt

vars == <<sent, accepted, settled, handled, open, known>>

Init ==
    /\ sent = {} /\ accepted = {} /\ settled = {}
    /\ handled = <<>> /\ open = {} /\ known = {}

Send(e) ==
    /\ e \notin sent
    /\ sent' = sent \cup {e}
    /\ UNCHANGED <<accepted, settled, handled, open, known>>

Accept(e) ==
    /\ e \in sent
    /\ accepted' = accepted \cup {e}
    /\ UNCHANGED <<sent, settled, handled, open, known>>

Settle ==
    /\ settled \subseteq settled' /\ settled' \subseteq accepted
    /\ UNCHANGED <<sent, accepted, handled, open, known>>

Handle(e) ==
    /\ e \in accepted /\ e \notin open /\ e \notin known
    /\ handled' = Append(handled, e)
    /\ open' = open \cup {e}
    /\ UNCHANGED <<sent, accepted, settled, known>>

Know(e) ==
    /\ e \in open
    /\ open' = open \ {e} /\ known' = known \cup {e}
    /\ UNCHANGED <<sent, accepted, settled, handled>>

Lose(e) ==
    /\ e \in open
    /\ open' = open \ {e}
    /\ UNCHANGED <<sent, accepted, settled, handled, known>>

Next == Settle \/ \E e \in Event : Send(e) \/ Accept(e) \/ Handle(e) \/ Know(e) \/ Lose(e)

Spec == Init /\ [][Next]_vars
=============================================================================

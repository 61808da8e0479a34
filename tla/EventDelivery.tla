--------------------------- MODULE EventDelivery ---------------------------
(***************************************************************************)
(* Facts and events on their way out: business transactions append to the  *)
(* tenant's audit chain and to the outbox, relays publish outbox rows to a *)
(* channel, consumers deduplicate what the channel delivers through the    *)
(* inbox.                                                                  *)
(*                                                                         *)
(* Every transaction is open for some time and commits or is lost.  The    *)
(* tenant's advisory lock is held until its end, unique keys make a later  *)
(* inserter wait for an earlier one and fail if that one commits.          *)
(*                                                                         *)
(* External: PostgreSQL; the channel, which keeps what it accepted and     *)
(* delivers it any number of times in any order; the handlers, which get a *)
(* message id and no session: what they do is not part of the receive      *)
(* transaction and stays when that one is lost.                            *)
(***************************************************************************)
EXTENDS Integers, Sequences

CONSTANTS
    Fact,            \* events recorded with the audit chain (_add_outbox)
    Envelope,        \* events sent as message envelopes (OutboxWriter)
    Tenant, TenantOf,
    Relay, Consumer, None,
    Batch,           \* batch size of a relay
    MaxFailures      \* bound: lost transactions, failing publishers and handlers

Event == Fact \cup Envelope

ASSUME DeliveryAssumption ==
    /\ Fact \cap Envelope = {} /\ None \notin Event
    /\ TenantOf \in [Event -> Tenant]
    /\ Batch \in Nat \ {0} /\ MaxFailures \in Nat

VARIABLES
    tx,             \* the business transaction of every event
    clock,          \* transactions begun; created_at is taken at the begin
    audit,          \* audit_events of every tenant, by sequence
    outbox,         \* committed rows
    publishedRows,  \* rows with published_at
    relay,          \* poll_and_publish transactions
    channel,        \* what publishers accepted
    consumer,       \* receive transactions
    inbox,          \* committed slots
    applied,        \* effects of handlers, in the order they took place
    failures

deliveryVars == <<tx, clock, audit, outbox, publishedRows, relay, channel, consumer, inbox,
                  applied, failures>>
business == <<tx, clock, audit, outbox>>
consumption == <<consumer, inbox, applied>>

NoTx == [pc |-> "none", stamp |-> 0, last |-> 0]
IdleRelay == [pc |-> "idle", rows |-> <<>>, marked |-> {}]
IdleConsumer == [pc |-> "idle", event |-> None]

TxRow == [pc : {"none", "open", "appending", "committed", "aborted"}, stamp : Nat, last : Nat]
ChainEntry == [event : Fact, sequence : Nat, previous : Fact \cup {None}]
PollRow == [pc : {"idle", "polling"}, rows : Seq(Event), marked : SUBSET Envelope]
ReceiptRow == [pc : {"idle", "selected", "reserved", "handled"}, event : Envelope \cup {None}]

\* Transactions, rows and messages are in states the code knows; only envelopes are published.
DeliveryTypeOK ==
    /\ tx \in [Event -> TxRow] /\ clock \in Nat
    /\ audit \in [Tenant -> Seq(ChainEntry)]
    /\ outbox \subseteq Event /\ publishedRows \subseteq Envelope
    /\ relay \in [Relay -> PollRow]
    /\ channel \subseteq Envelope /\ inbox \subseteq Envelope
    /\ consumer \in [Consumer -> ReceiptRow]
    /\ applied \in Seq(Envelope)
    /\ failures \in 0..MaxFailures

DeliveryInit ==
    /\ tx = [e \in Event |-> NoTx]
    /\ clock = 0
    /\ audit = [t \in Tenant |-> <<>>]
    /\ outbox = {} /\ publishedRows = {} /\ channel = {} /\ inbox = {}
    /\ relay = [r \in Relay |-> IdleRelay]
    /\ consumer = [c \in Consumer |-> IdleConsumer]
    /\ applied = <<>>
    /\ failures = 0

Failure == failures < MaxFailures /\ failures' = failures + 1

-----------------------------------------------------------------------------
(* Business transactions.                                                   *)

Begin(e) ==
    /\ tx[e].pc = "none"
    /\ clock' = clock + 1
    /\ tx' = [tx EXCEPT ![e].pc = "open", ![e].stamp = clock + 1]
    /\ UNCHANGED <<audit, outbox, publishedRows, relay, channel, consumption, failures>>

Genesis == None

\* Mutant: the lock is a session's, given back before the commit.
LockNotHeld(t) == TRUE

\* pg_advisory_xact_lock: one open transaction per tenant is past this point.
LockFree(t) == \A f \in Fact : TenantOf[f] = t => tx[f].pc # "appending"

\* _add_audit: take the tenant's lock, read the last event of its chain.
LockChain(f) ==
    /\ tx[f].pc = "open" /\ f \in Fact
    /\ LockFree(TenantOf[f])
    /\ tx' = [tx EXCEPT ![f].pc = "appending", ![f].last = Len(audit[TenantOf[f]])]
    /\ UNCHANGED <<clock, audit, outbox, publishedRows, relay, channel, consumption, failures>>

\* AuditEvent.chained: the digest covers the event and the digest before it, so an event
\* stands for its own digest.
Chained(f, chain, last) ==
    [event |-> f, sequence |-> last + 1,
     previous |-> IF last = 0 THEN Genesis ELSE chain[last].event]

\* uq_audit_event_tenant_sequence.
SequenceFree(f) == Len(audit[TenantOf[f]]) = tx[f].last

\* _record_fact commits: the fact, its place in the chain and its outbox row at once.
CommitFact(f) ==
    LET t == TenantOf[f]
    IN  /\ tx[f].pc = "appending"
        /\ IF SequenceFree(f)
           THEN /\ audit' = [audit EXCEPT ![t] = Append(@, Chained(f, @, tx[f].last))]
                /\ outbox' = outbox \cup {f}
                /\ tx' = [tx EXCEPT ![f].pc = "committed", ![f].last = 0]
           ELSE /\ tx' = [tx EXCEPT ![f] = [NoTx EXCEPT !.pc = "aborted"]]
                /\ UNCHANGED <<audit, outbox>>
        /\ UNCHANGED <<clock, publishedRows, relay, channel, consumption, failures>>

\* OutboxWriter.publish inside the caller's transaction, which commits.
CommitEnvelope(e) ==
    /\ tx[e].pc = "open" /\ e \in Envelope
    /\ outbox' = outbox \cup {e}
    /\ tx' = [tx EXCEPT ![e].pc = "committed"]
    /\ UNCHANGED <<clock, audit, publishedRows, relay, channel, consumption, failures>>

Abort(e) ==
    /\ tx[e].pc \in {"open", "appending"}
    /\ Failure
    /\ tx' = [tx EXCEPT ![e] = [NoTx EXCEPT !.pc = "aborted"]]
    /\ UNCHANGED <<clock, audit, outbox, publishedRows, relay, channel, consumption>>

-----------------------------------------------------------------------------
(* OutboxRelay.poll_and_publish.                                            *)

Pending == outbox \ publishedRows

\* The oldest rows first, at most a batch of them: what is left out is younger.
OldestFirst(S) ==
    {s \in UNION {[1..n -> S] : n \in 1..Batch} :
        /\ \A i, j \in DOMAIN s : i < j => tx[s[i]].stamp < tx[s[j]].stamp
        /\ \A e \in S :
             \/ \E i \in DOMAIN s : s[i] = e
             \/ Len(s) = Batch /\ tx[s[Batch]].stamp < tx[e].stamp}

PollOutbox(r) ==
    /\ relay[r].pc = "idle"
    /\ \E rows \in OldestFirst(Pending) :
         relay' = [relay EXCEPT ![r] = [pc |-> "polling", rows |-> rows, marked |-> {}]]
    /\ UNCHANGED <<business, publishedRows, channel, consumption, failures>>

Head1(r) == Head(relay[r].rows)
Rest(r) == Tail(relay[r].rows)

\* A row of _add_outbox has no envelope fields: _payload_to_envelope raises, and with it the
\* poll; the marks of the batch are lost, what was published stays published.
PollRaises(r) ==
    /\ relay[r].pc = "polling" /\ relay[r].rows # <<>>
    /\ Head1(r) \in Fact
    /\ relay' = [relay EXCEPT ![r] = IdleRelay]
    /\ UNCHANGED <<business, publishedRows, channel, consumption, failures>>

Publish(r) ==
    /\ relay[r].pc = "polling" /\ relay[r].rows # <<>>
    /\ Head1(r) \notin Fact
    /\ channel' = channel \cup {Head1(r)}
    /\ relay' = [relay EXCEPT ![r].rows = Rest(r), ![r].marked = @ \cup {Head1(r)}]
    /\ UNCHANGED <<business, publishedRows, consumption, failures>>

\* The publisher raises, before or after the channel took the message: the row stays.
PublishFails(r) ==
    /\ relay[r].pc = "polling" /\ relay[r].rows # <<>>
    /\ Head1(r) \notin Fact
    /\ Failure
    /\ channel' \in {channel, channel \cup {Head1(r)}}
    /\ relay' = [relay EXCEPT ![r].rows = Rest(r)]
    /\ UNCHANGED <<business, publishedRows, consumption>>

CommitPoll(r) ==
    /\ relay[r].pc = "polling" /\ relay[r].rows = <<>>
    /\ publishedRows' = publishedRows \cup relay[r].marked
    /\ relay' = [relay EXCEPT ![r] = IdleRelay]
    /\ UNCHANGED <<business, channel, consumption, failures>>

RelayDies(r) ==
    /\ relay[r].pc = "polling"
    /\ Failure
    /\ relay' = [relay EXCEPT ![r] = IdleRelay]
    /\ UNCHANGED <<business, publishedRows, channel, consumption>>

RelayStep(r) == PollOutbox(r) \/ PollRaises(r) \/ Publish(r) \/ CommitPoll(r)

-----------------------------------------------------------------------------
(* InboxConsumer.receive.                                                   *)

Delivering == <<business, publishedRows, relay, channel>>

\* The message is known: skip.  Otherwise go on to reserve its slot.
Receive(c, e) ==
    /\ consumer[c] = IdleConsumer
    /\ e \in channel
    /\ e \notin inbox
    /\ consumer' = [consumer EXCEPT ![c] = [pc |-> "selected", event |-> e]]
    /\ UNCHANGED <<Delivering, inbox, applied, failures>>

\* Mutant: no unique key on the message.
NoUniqueMessage(c) == TRUE

Holding == {"reserved", "handled"}

\* uq_inbox_message: the insert waits for an open reservation of the same message.
SlotAvailable(c) ==
    \A o \in Consumer : o # c /\ consumer[o].event = consumer[c].event =>
                          consumer[o].pc \notin Holding

Reserve(c) ==
    /\ consumer[c].pc = "selected"
    /\ SlotAvailable(c)
    /\ consumer' = [consumer EXCEPT ![c] =
                      IF consumer[c].event \in inbox THEN IdleConsumer ELSE [@ EXCEPT !.pc = "reserved"]]
    /\ UNCHANGED <<Delivering, inbox, applied, failures>>

\* The handler acts, in whatever transaction or service of its own.
Handle(c) ==
    /\ consumer[c].pc = "reserved"
    /\ applied' = Append(applied, consumer[c].event)
    /\ consumer' = [consumer EXCEPT ![c].pc = "handled"]
    /\ UNCHANGED <<Delivering, inbox, failures>>

\* The handler has returned: the slot is committed.
CommitReceipt(c) ==
    /\ consumer[c].pc = "handled"
    /\ inbox' = inbox \cup {consumer[c].event}
    /\ consumer' = [consumer EXCEPT ![c] = IdleConsumer]
    /\ UNCHANGED <<Delivering, applied, failures>>

\* The handler raises, before or after it acted, the consumer dies or its commit fails: the
\* slot is free again.
ReceiptLost(c) ==
    /\ consumer[c] # IdleConsumer
    /\ Failure
    /\ consumer' = [consumer EXCEPT ![c] = IdleConsumer]
    /\ UNCHANGED <<Delivering, inbox, applied>>

ConsumerStep(c) ==
    (\E e \in Envelope : Receive(c, e)) \/ Reserve(c) \/ Handle(c) \/ CommitReceipt(c)

-----------------------------------------------------------------------------
DeliveryNext ==
    \/ \E e \in Event : Begin(e) \/ LockChain(e) \/ CommitFact(e) \/ CommitEnvelope(e) \/ Abort(e)
    \/ \E r \in Relay : RelayStep(r) \/ PublishFails(r) \/ RelayDies(r)
    \/ \E c \in Consumer : ConsumerStep(c) \/ ReceiptLost(c)

DeliverySpec == DeliveryInit /\ [][DeliveryNext]_deliveryVars

-----------------------------------------------------------------------------
(* Properties.                                                              *)

\* verify_audit_chain, for a chain that may still be empty.
VerifyAuditChain(chain) ==
    \A i \in DOMAIN chain :
        /\ chain[i].sequence = i
        /\ chain[i].previous = IF i = 1 THEN Genesis ELSE chain[i - 1].event

\* Every tenant's chain verifies, and a fact in preparation extends its newest event, so that
\* the unique key never throws away a business transaction, however the transactions of a
\* tenant overlap and abort (_add_audit).
ChainIsLinear ==
    /\ \A t \in Tenant : VerifyAuditChain(audit[t])
    /\ \A f \in Fact : tx[f].pc = "appending" => SequenceFree(f)

InHand == {consumer[c].event : c \in {d \in Consumer : consumer[d].pc = "handled"}}

Promise == INSTANCE Delivery
           WITH Event <- Envelope, sent <- outbox \cap Envelope, accepted <- channel,
                settled <- publishedRows, handled <- applied, open <- InHand, known <- inbox

\* Relays that publish the same row, polls that are lost after publishing, duplicate
\* deliveries and consumers that race or die: a row is marked published only if the channel
\* has its message, and a handler acts on a message again only after a receipt of it was lost,
\* never beside another consumer and never once its slot is committed (poll_and_publish,
\* receive).
AtLeastOnce == Promise!Spec
=============================================================================

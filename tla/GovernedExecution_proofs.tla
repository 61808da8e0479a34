----------------------- MODULE GovernedExecution_proofs -----------------------
(***************************************************************************)
(* Proofs about GovernedExecution, for any number of Actions, workers,     *)
(* reviewers, Runs, switches and policy versions, and any budget: an       *)
(* effect happens once and is charged once, what the gateway decided on    *)
(* earlier still counts when it matters, a late worker overwrites nothing, *)
(* and kill switch, shadow guard and approval hold for every request.      *)
(***************************************************************************)
EXTENDS GovernedExecution, TLAPS, FiniteSetTheorems

USE ConstantsAssumption DEF envVars, extVars, histVars

\* An idle worker is reset to a request of the right type.
LEMMA NoRequestIsRequest == NoRequest \in Request
<1>1. 1 \in Policies
  BY DEF Policies
<1>2. QED
  BY <1>1 DEF NoRequest, Request, ApprovalStatus

\* The receipt and reservation tables of the gateway are total.
LEMMA ReceiptTables ==
    /\ \A r \in ReceiptStatus : ResultFromReceipt(r) \in {"succeeded", "failed", "unknown"}
    /\ \A r \in ReceiptStatus : FiledAs(r) \in ReservationStatus \ {"none", "pending"}
    /\ \A s \in ReservationStatus : CachedReceipt(s) \in {"succeeded", "failed"}
BY DEF ReceiptStatus, ResultFromReceipt, FiledAs, CachedReceipt, ReservationStatus

\* The four ways a worker moves keep its memory well typed.
LEMMA WorkerMoves ==
    ASSUME WorkersOK, NEW w \in Worker
    PROVE  /\ Retire(w) => WorkersOK'
           /\ \A p \in Pcs : pc[w] # "idle" /\ Goto(w, p) => WorkersOK'
           /\ \A s \in ActionStatus : pc[w] # "idle" /\ Return(w, s) => WorkersOK'
           /\ \A s \in ReceiptStatus, p \in Pcs :
                pc[w] # "idle" /\ Answer(w, s, p) => WorkersOK'
<1>1. Retire(w) => WorkersOK'
  BY NoRequestIsRequest DEF WorkersOK, Retire, Pcs, ReceiptStatus, ActionStatus
<1>2. ASSUME NEW p \in Pcs, pc[w] # "idle", Goto(w, p) PROVE WorkersOK'
  BY <1>2 DEF WorkersOK, Goto
<1>3. ASSUME NEW s \in ActionStatus, pc[w] # "idle", Return(w, s) PROVE WorkersOK'
  BY <1>3 DEF WorkersOK, Return, Pcs
<1>4. ASSUME NEW s \in ReceiptStatus, NEW p \in Pcs, pc[w] # "idle", Answer(w, s, p)
      PROVE  WorkersOK'
  BY <1>4 DEF WorkersOK, Answer
<1>5. QED
  BY <1>1, <1>2, <1>3, <1>4

\* A worker that is running has an Action and a positive cost.
LEMMA RunningHasAction ==
    ASSUME WorkersOK, NEW w \in Worker, pc[w] # "idle"
    PROVE  req[w].act \in Action /\ req[w].cost \in Nat \ {0} /\ req[w].base \in Nat
BY DEF WorkersOK, Request

\* Every step keeps every row and every worker well typed.
LEMMA TypeStep ==
    ASSUME TypeOK, [Next]_vars
    PROVE  TypeOK'
<1> RowsOK /\ WorkersOK
  BY DEF TypeOK
<1> DEFINE Kept == RowsOK' /\ WorkersOK'
<1> HIDE DEF Kept
<1>1. ASSUME NEW w \in Worker, Load(w) PROVE Kept
  <2>1. PICK a \in Action, v \in Policies, c \in Costs, id \in Action \cup {None} :
          /\ pc' = [pc EXCEPT ![w] = "guard"]
          /\ req' = [req EXCEPT ![w] =
               [act |-> a, base |-> action[a].version, id |-> id,
                status |-> IF id = None THEN "none" ELSE approval[id].status,
                bound |-> IF id = None THEN 1 ELSE approval[id].policy,
                asked |-> v, cost |-> c]]
          /\ held' = [held EXCEPT ![w] = kill]
    BY <1>1, ZenonT(30) DEF Load
  <2>2. req' \in [Worker -> Request] /\ req'[w].act \in Action /\ req'[w].cost \in Costs
    BY <2>1 DEF Request, ApprovalStatus, Policies, RowsOK, WorkersOK
  <2>3. WorkersOK'
    BY <1>1, <2>1, <2>2 DEF Load, Pcs, WorkersOK, RowsOK
  <2>4. RowsOK'
    BY <1>1 DEF Load, RowsOK
  <2>5. QED
    BY <2>3, <2>4 DEF Kept
<1>2. ASSUME NEW w \in Worker, ShadowGuard(w) PROVE Kept
  <2>1. RowsOK'
    BY <1>2 DEF ShadowGuard, RowsOK
  <2>2. QED
    BY <1>2, <2>1, WorkerMoves DEF ShadowGuard, At, Pcs, Kept
<1>3. ASSUME NEW w \in Worker, CheckDelegation(w) PROVE Kept
  <2>1. RowsOK'
    BY <1>3 DEF CheckDelegation, RowsOK
  <2>2. QED
    BY <1>3, <2>1, WorkerMoves DEF CheckDelegation, At, Pcs, ActionStatus, Kept
<1>4. ASSUME NEW w \in Worker, CheckPolicy(w) PROVE Kept
  <2>1. RowsOK'
    BY <1>4 DEF CheckPolicy, RowsOK
  <2>2. QED
    BY <1>4, <2>1, WorkerMoves DEF CheckPolicy, At, Pcs, ActionStatus, Kept
<1>5. ASSUME NEW w \in Worker, CheckKillSwitch(w) PROVE Kept
  <2>1. RowsOK'
    BY <1>5 DEF CheckKillSwitch, RowsOK
  <2>2. QED
    BY <1>5, <2>1, WorkerMoves DEF CheckKillSwitch, At, Pcs, ActionStatus, Kept
<1>6. ASSUME NEW w \in Worker, CheckApproval(w) PROVE Kept
  <2>1. RowsOK'
    BY <1>6 DEF CheckApproval, RowsOK
  <2>2. QED
    BY <1>6, <2>1, WorkerMoves DEF CheckApproval, At, Pcs, ActionStatus, Kept
<1>7. ASSUME NEW w \in Worker, Reserve(w) PROVE Kept
  <2>1. req[w].act \in Action /\ req[w].cost \in Nat /\ pc[w] # "idle"
    BY <1>7, RunningHasAction DEF Reserve, At
  <2>2. ResultFromReceipt(CachedReceipt(reservation[req[w].act].status)) \in ActionStatus
    <3>1. CachedReceipt(reservation[req[w].act].status) \in ReceiptStatus
      BY <2>1 DEF CachedReceipt, ReceiptStatus
    <3>2. QED
      BY <3>1, ReceiptTables DEF ActionStatus
  <2>3. WorkersOK'
    BY <1>7, <2>1, <2>2, WorkerMoves DEF Reserve, At, Pcs, ActionStatus
  <2>r. \/ /\ reservation' = [reservation EXCEPT ![req[w].act] =
                                  [status |-> "pending", cost |-> req[w].cost]]
           /\ used' = [used EXCEPT ![RunOf[req[w].act]] = @ + req[w].cost]
        \/ UNCHANGED <<reservation, used>>
    BY <1>7 DEF Reserve, Charge
  <2>t. /\ reservation \in [Action -> [status: ReservationStatus, cost: Nat]]
        /\ used \in [Run -> Nat]
    BY DEF TypeOK, RowsOK
  <2>4. reservation' \in [Action -> [status: ReservationStatus, cost: Nat]]
    BY <2>1, <2>r, <2>t DEF ReservationStatus
  <2>5. used' \in [Run -> Nat]
    BY <2>1, <2>r, <2>t
  <2>6. RowsOK'
    BY <1>7, <2>4, <2>5 DEF Reserve, RowsOK
  <2>7. QED
    BY <2>3, <2>6 DEF Kept
<1>8. ASSUME NEW w \in Worker, Send(w) PROVE Kept
  <2>1. RowsOK'
    BY <1>8 DEF Send, RowsOK
  <2>2. QED
    BY <1>8, <2>1, WorkerMoves DEF Send, At, Pcs, ReceiptStatus, Kept
<1>9. ASSUME NEW w \in Worker, Await(w) PROVE Kept
  <2>1. req[w].act \in Action
    BY <1>9, RunningHasAction DEF Await, At
  <2>2. outstanding' \in [Action -> Nat]
    <3>1. outstanding \in [Action -> Nat]
      BY DEF RowsOK
    <3>2. \/ UNCHANGED outstanding
          \/ /\ outstanding[req[w].act] > 0
             /\ outstanding' = [outstanding EXCEPT ![req[w].act] = @ - 1]
      BY <1>9 DEF Await
    <3>3. QED
      BY <2>1, <3>1, <3>2
  <2>3. RowsOK'
    BY <1>9, <2>2 DEF Await, RowsOK
  <2>4. QED
    BY <1>9, <2>3, WorkerMoves DEF Await, At, Pcs, ReceiptStatus, Kept
<1>10. ASSUME NEW w \in Worker, Verify(w) PROVE Kept
  <2>1. RowsOK'
    BY <1>10 DEF Verify, RowsOK
  <2>2. VerifiedReceipts(req[w].act) \subseteq ReceiptStatus
    BY DEF VerifiedReceipts, ReceiptStatus
  <2>3. QED
    BY <1>10, <2>1, <2>2, WorkerMoves DEF Verify, At, Pcs, Kept
<1>11. ASSUME NEW w \in Worker, Complete(w) PROVE Kept
  <2>1. req[w].act \in Action /\ pc[w] # "idle"
    BY <1>11, RunningHasAction DEF Complete, At
  <2>2. FiledAs(receipt[w]) \in ReservationStatus
        /\ ResultFromReceipt(receipt[w]) \in ActionStatus
    BY ReceiptTables DEF ActionStatus, WorkersOK
  <2>3. reservation' \in [Action -> [status: ReservationStatus, cost: Nat]]
    <3>1. [status |-> FiledAs(receipt[w]), cost |-> reservation[req[w].act].cost]
            \in [status: ReservationStatus, cost: Nat]
      BY <2>1, <2>2 DEF RowsOK
    <3>2. \/ UNCHANGED reservation
          \/ \E row \in [status: ReservationStatus, cost: Nat] :
               reservation' = [reservation EXCEPT ![req[w].act] = row]
      BY <1>11, <3>1 DEF Complete
    <3>3. reservation \in [Action -> [status: ReservationStatus, cost: Nat]]
      BY DEF RowsOK
    <3>4. QED
      BY <2>1, <3>2, <3>3
  <2>4. RowsOK'
    BY <1>11, <2>3 DEF Complete, RowsOK
  <2>5. QED
    BY <1>11, <2>1, <2>2, <2>4, WorkerMoves DEF Complete, Kept
<1>12. ASSUME NEW w \in Worker, Commit(w) PROVE Kept
  <2>1. req[w].act \in Action /\ VersionAfter(w) \in Nat
    BY <1>12, RunningHasAction DEF Commit, At, VersionAfter
  <2>2. result[w] \in ActionStatus
    BY DEF WorkersOK
  <2>3. action' \in [Action -> [status: ActionStatus, version: Nat]]
    <3>1. [status |-> result[w], version |-> VersionAfter(w)]
            \in [status: ActionStatus, version: Nat]
      BY <2>1, <2>2
    <3>2. \/ UNCHANGED action
          \/ action' = [action EXCEPT ![req[w].act] =
                            [status |-> result[w], version |-> VersionAfter(w)]]
      BY <1>12 DEF Commit
    <3>3. action \in [Action -> [status: ActionStatus, version: Nat]]
      BY DEF RowsOK
    <3>4. QED
      BY <2>1, <3>1, <3>2, <3>3
  <2>4. attempts' \in [Action -> Nat]
    <3>1. attempts \in [Action -> Nat]
      BY DEF RowsOK
    <3>2. UNCHANGED attempts \/ attempts' = [attempts EXCEPT ![req[w].act] = @ + 1]
      BY <1>12 DEF Commit
    <3>3. QED
      BY <2>1, <3>1, <3>2
  <2>5. RowsOK'
    BY <1>12, <2>3, <2>4 DEF Commit, RowsOK
  <2>6. QED
    BY <1>12, <2>5, WorkerMoves DEF Commit, Kept
<1>13. ASSUME NEW w \in Worker, Crash(w) PROVE Kept
  <2>1. RowsOK'
    BY <1>13, RunningHasAction DEF Crash, RowsOK
  <2>2. QED
    BY <1>13, <2>1, WorkerMoves DEF Crash, Kept
<1>14. ASSUME UNCHANGED workVars PROVE WorkersOK'
  BY <1>14 DEF WorkersOK, workVars
<1>15. ASSUME NEW a \in Action, RequestApproval(a) PROVE Kept
  <2>1. PICK v \in Policies :
          approval' = [approval EXCEPT ![a] = [status |-> "pending", policy |-> v,
                                               reviews |-> <<>>]]
    BY <1>15 DEF RequestApproval
  <2>2. approval' \in [Action -> [status: ApprovalStatus, policy: Policies, reviews: Reviews]]
    <3>1. [status |-> "pending", policy |-> v, reviews |-> <<>>]
            \in [status: ApprovalStatus, policy: Policies, reviews: Reviews]
      BY DEF ApprovalStatus, Reviews
    <3>2. QED
      BY <2>1, <3>1 DEF RowsOK
  <2>3. action' \in [Action -> [status: ActionStatus, version: Nat]]
    <3>1. action[a].version \in Nat
      BY DEF RowsOK
    <3>2. [status |-> "awaiting_approval", version |-> action[a].version + 1]
            \in [status: ActionStatus, version: Nat]
      BY <3>1 DEF ActionStatus
    <3>3. action' = [action EXCEPT ![a] = [status |-> "awaiting_approval",
                                           version |-> action[a].version + 1]]
      BY <1>15 DEF RequestApproval
    <3>4. QED
      BY <3>2, <3>3 DEF RowsOK
  <2>4. RowsOK'
    BY <1>15, <2>2, <2>3 DEF RequestApproval, RowsOK
  <2>5. QED
    BY <1>14, <1>15, <2>4 DEF RequestApproval, Kept
<1>16. ASSUME NEW a \in Action, DecideApproval(a) PROVE Kept
  <2>1. PICK p \in Principal, approved \in BOOLEAN :
          /\ approval' = [approval EXCEPT ![a] = Decided(a, p, approved)]
          /\ \/ action' = [action EXCEPT ![a] = [status |-> "denied",
                                                 version |-> @.version + 1]]
             \/ UNCHANGED action
          /\ UNCHANGED <<reservation, used, attempts, envVars, extVars, workVars, histVars>>
    BY <1>16 DEF DecideApproval
  <2>2. ReviewStatus(a, p, approved) \in ApprovalStatus
    BY DEF ReviewStatus, ApprovalStatus
  <2>3. Decided(a, p, approved) \in [status: ApprovalStatus, policy: Policies,
                                     reviews: Reviews]
    BY <2>2 DEF Decided, RowsOK, Reviews
  <2>4. /\ action' \in [Action -> [status: ActionStatus, version: Nat]]
        /\ approval' \in [Action -> [status: ApprovalStatus, policy: Policies,
                                     reviews: Reviews]]
    <3>1. \A n \in Nat : [status |-> "denied", version |-> n + 1]
                            \in [status: ActionStatus, version: Nat]
      BY DEF ActionStatus
    <3>2. action' \in [Action -> [status: ActionStatus, version: Nat]]
      <4>1. action[a].version \in Nat
        BY DEF RowsOK
      <4>2. [status |-> "denied", version |-> action[a].version + 1]
              \in [status: ActionStatus, version: Nat]
        BY <4>1, <3>1
      <4>3. \/ UNCHANGED action
            \/ \E row \in [status: ActionStatus, version: Nat] :
                 action' = [action EXCEPT ![a] = row]
        BY <2>1, <4>2
      <4>4. QED
        BY <4>3 DEF RowsOK
    <3>3. QED
      BY <2>1, <2>3, <3>2 DEF RowsOK
  <2>5. RowsOK'
    BY <2>1, <2>4 DEF RowsOK
  <2>6. QED
    BY <1>14, <2>1, <2>5 DEF Kept
<1>17. ASSUME NEW a \in Action, Reconcile(a) PROVE Kept
  <2>1. RowsOK'
    BY <1>17 DEF Reconcile, RowsOK, ActionStatus
  <2>2. QED
    BY <1>14, <1>17, <2>1 DEF Reconcile, Kept
<1>18. ASSUME NEW a \in Action, ProviderApplies(a) \/ ProviderDrops(a) PROVE Kept
  <2>1. outstanding' \in [Action -> Nat] /\ effects' \in [Action -> Nat]
    <3>1. outstanding[a] \in Nat /\ effects[a] \in Nat /\ outstanding[a] > 0
      BY <1>18 DEF ProviderApplies, ProviderDrops, RowsOK
    <3>2. outstanding[a] - 1 \in Nat /\ effects[a] + 1 \in Nat
      BY <3>1
    <3>3. QED
      <4>1. CASE ProviderApplies(a)
        BY <4>1, <3>2 DEF ProviderApplies, RowsOK
      <4>2. CASE ProviderDrops(a)
        BY <4>2, <3>2 DEF ProviderDrops, RowsOK
      <4>3. QED
        BY <1>18, <4>1, <4>2
  <2>2. RowsOK'
    BY <1>18, <2>1 DEF ProviderApplies, ProviderDrops, RowsOK
  <2>3. QED
    BY <1>14, <1>18, <2>2 DEF ProviderApplies, ProviderDrops, Kept
<1>19. ASSUME NEW a \in Action, ApprovalExpires(a) \/ RevokeDelegation(a) PROVE Kept
  <2>1. RowsOK'
    BY <1>19 DEF ApprovalExpires, RevokeDelegation, RowsOK
  <2>2. QED
    BY <1>14, <1>19, <2>1 DEF ApprovalExpires, RevokeDelegation, Kept
<1>20. ASSUME NEW s \in Switch, ActivateSwitch(s) PROVE Kept
  <2>1. RowsOK'
    BY <1>20 DEF ActivateSwitch, RowsOK
  <2>2. QED
    BY <1>14, <1>20, <2>1 DEF ActivateSwitch, Kept
<1>21. ASSUME NEW s \in Switch, DeactivateSwitch(s) PROVE Kept
  <2>1. RowsOK'
    BY <1>21 DEF DeactivateSwitch, RowsOK
  <2>2. WorkersOK'
    BY <1>21 DEF DeactivateSwitch, WorkersOK
  <2>3. QED
    BY <2>1, <2>2 DEF Kept
<1>22. ASSUME NEW r \in Run, LeaveShadow(r) PROVE Kept
  <2>1. RowsOK'
    BY <1>22 DEF LeaveShadow, RowsOK
  <2>2. QED
    BY <1>14, <1>22, <2>1 DEF LeaveShadow, Kept
<1>23. ASSUME PolicyChanges PROVE Kept
  <2>1. RowsOK'
    BY <1>23 DEF PolicyChanges, RowsOK, Policies
  <2>2. QED
    BY <1>14, <1>23, <2>1 DEF PolicyChanges, Kept
<1>24. ASSUME UNCHANGED vars PROVE Kept
  BY <1>14, <1>24 DEF vars, RowsOK, Kept
<1>25. ASSUME NEW w \in Worker, Gateway(w) PROVE Kept
  BY <1>1, <1>2, <1>3, <1>4, <1>5, <1>6, <1>7, <1>8, <1>9, <1>10, <1>11, <1>12, <1>25
     DEF Gateway
<1>26. ASSUME NEW a \in Action, People(a) PROVE Kept
  BY <1>15, <1>16, <1>17, <1>26 DEF People
<1>27. ASSUME Surroundings PROVE Kept
  BY <1>18, <1>19, <1>20, <1>21, <1>22, <1>23, <1>27 DEF Surroundings
<1>28. QED
  BY <1>13, <1>24, <1>25, <1>26, <1>27 DEF Next, Kept, TypeOK

\* Every row and every worker of the execution model keeps its type: in particular the
\* gateway never files a reservation status its own table does not know.
THEOREM TypeCorrect == Spec => []TypeOK
<1>1. Init => TypeOK
  <2> SUFFICES ASSUME Init PROVE TypeOK
    OBVIOUS
  <2>1. 1 \in Policies
    BY DEF Policies
  <2>2. WorkersOK
    BY NoRequestIsRequest DEF Init, WorkersOK, Pcs, ReceiptStatus, ActionStatus
  <2>3. RowsOK
    BY <2>1 DEF Init, RowsOK, ActionStatus, ApprovalStatus, ReservationStatus, Reviews
  <2>4. QED
    BY <2>2, <2>3 DEF TypeOK
<1>2. TypeOK /\ [Next]_vars => TypeOK'
  BY TypeStep
<1>3. QED
  BY <1>1, <1>2, PTL DEF Spec

-----------------------------------------------------------------------------
(* At most one effect.  The claim of AtMostOnceEffect says nothing of the   *)
(* reservation, so it is not inductive: what stops a second request is that *)
(* the row exists from before the request leaves, that only its holder      *)
(* sends, and that the holder has sent nothing yet.                         *)

\* What has left for the provider, or has arrived there, was reserved.
SentIsReserved ==
    \A a \in Action : effects[a] + outstanding[a] > 0 => reservation[a].status # "none"

\* A worker about to send is the first to send.
NothingSentBefore ==
    \A w \in Worker : pc[w] = "send" =>
        effects[req[w].act] = 0 /\ outstanding[req[w].act] = 0

OnceInv == AtMostOnceEffect /\ HolderOwnsReservation /\ SentIsReserved /\ NothingSentBefore

\* A step that leaves the rows and the provider alone, and puts no worker in charge of a
\* reservation, keeps the invariant.
LEMMA QuietStep ==
    ASSUME OnceInv, UNCHANGED <<reservation, outstanding, effects>>,
           \A u \in Worker : pc'[u] \in Holding => pc[u] \in Holding /\ req'[u].act = req[u].act,
           \A u \in Worker : pc'[u] = "send" => pc[u] = "send"
    PROVE  OnceInv'
<1>1. AtMostOnceEffect' /\ SentIsReserved'
  BY DEF OnceInv, AtMostOnceEffect, SentIsReserved
<1>2. HolderOwnsReservation'
  BY DEF OnceInv, HolderOwnsReservation
<1>3. NothingSentBefore'
  BY DEF OnceInv, NothingSentBefore, Holding
<1>4. QED
  BY <1>1, <1>2, <1>3 DEF OnceInv

\* The moves of one worker that are quiet: the end of the call, a step towards the
\* reservation, a result, an answer of the egress.
LEMMA QuietMoves ==
    ASSUME WorkersOK, OnceInv, UNCHANGED <<reservation, outstanding, effects>>,
           NEW w \in Worker
    PROVE  /\ Retire(w) => OnceInv'
           /\ \A p \in Pcs \ Holding : Goto(w, p) => OnceInv'
           /\ \A s \in ActionStatus : Return(w, s) => OnceInv'
           /\ \A s \in ReceiptStatus, p \in Pcs \ {"send"} :
                pc[w] \in Holding /\ Answer(w, s, p) => OnceInv'
<1>1. ASSUME Retire(w) PROVE OnceInv'
  BY <1>1, QuietStep DEF Retire, Holding, WorkersOK
<1>2. ASSUME NEW p \in Pcs \ Holding, Goto(w, p) PROVE OnceInv'
  BY <1>2, QuietStep DEF Goto, Holding, WorkersOK
<1>3. ASSUME NEW s \in ActionStatus, Return(w, s) PROVE OnceInv'
  BY <1>3, QuietStep DEF Return, Holding, WorkersOK
<1>4. ASSUME NEW s \in ReceiptStatus, NEW p \in Pcs \ {"send"}, pc[w] \in Holding,
             Answer(w, s, p)
      PROVE  OnceInv'
  BY <1>4, QuietStep DEF Answer, WorkersOK
<1>5. QED
  BY <1>1, <1>2, <1>3, <1>4

\* Reserving: the worker that finds no row becomes its only holder, and finds that
\* nothing was sent.
LEMMA ReserveOnce ==
    ASSUME TypeOK, OnceInv, NEW w \in Worker, Reserve(w)
    PROVE  OnceInv'
<1> DEFINE a == req[w].act
<1>1. a \in Action /\ pc[w] = "reserve"
  BY RunningHasAction DEF Reserve, At, TypeOK
<1>2. CASE ReservationDecision(a, req[w].cost) # "acquired"
  <2>1. CachedReceipt(reservation[a].status) \in ReceiptStatus
    BY DEF CachedReceipt, ReceiptStatus
  <2>2. ResultFromReceipt(CachedReceipt(reservation[a].status)) \in ActionStatus
    BY <2>1, ReceiptTables DEF ActionStatus
  <2>3. UNCHANGED <<reservation, outstanding, effects>>
    BY <1>2 DEF Reserve
  <2>4. \E s \in ActionStatus : Return(w, s)
    BY <1>2, <2>2 DEF Reserve, ActionStatus
  <2>5. QED
    BY <2>3, <2>4, QuietMoves DEF TypeOK
<1>3. CASE ReservationDecision(a, req[w].cost) = "acquired"
  <2>1. reservation[a].status = "none"
    BY <1>3 DEF ReservationDecision, ExistingDecision
  <2>2. /\ reservation' = [reservation EXCEPT ![a] = [status |-> "pending", cost |-> req[w].cost]]
        /\ pc' = [pc EXCEPT ![w] = "send"]
        /\ UNCHANGED <<req, outstanding, effects>>
    BY <1>3 DEF Reserve, Goto
  <2>3. effects[a] = 0 /\ outstanding[a] = 0
    BY <1>1, <2>1 DEF OnceInv, SentIsReserved, TypeOK, RowsOK
  <2>4. AtMostOnceEffect' /\ SentIsReserved'
    BY <1>1, <2>2 DEF OnceInv, AtMostOnceEffect, SentIsReserved, TypeOK, RowsOK
  <2>5. \A u \in Worker : pc[u] \in Holding => req[u].act # a
    BY <2>1 DEF OnceInv, HolderOwnsReservation
  <2>6. \A u \in Worker : pc'[u] \in Holding => u = w \/ pc[u] \in Holding
    BY <2>2 DEF TypeOK, WorkersOK
  <2>7. \A u \in Worker : pc'[u] \in Holding => reservation'[req'[u].act].status = "pending"
    <3> SUFFICES ASSUME NEW u \in Worker, pc'[u] \in Holding
                 PROVE  reservation'[req'[u].act].status = "pending"
      OBVIOUS
    <3>1. CASE u = w
      BY <1>1, <2>2, <3>1 DEF TypeOK, RowsOK
    <3>2. CASE u # w
      <4>1. pc[u] \in Holding /\ req[u].act # a /\ reservation[req[u].act].status = "pending"
        BY <2>5, <2>6, <3>2 DEF OnceInv, HolderOwnsReservation
      <4>2. req[u].act \in Action
        BY <4>1, RunningHasAction DEF Holding, TypeOK
      <4>3. QED
        BY <2>2, <4>1, <4>2 DEF TypeOK, RowsOK
    <3>3. QED
      BY <3>1, <3>2
  <2>8. HolderOwnsReservation'
    BY <2>2, <2>5, <2>6, <2>7 DEF OnceInv, HolderOwnsReservation
  <2>9. NothingSentBefore'
    BY <2>2, <2>3 DEF OnceInv, NothingSentBefore, TypeOK, WorkersOK
  <2>10. QED
    BY <2>4, <2>8, <2>9 DEF OnceInv
<1>4. QED
  BY <1>2, <1>3

\* The request leaves: it is the first, and no other worker is about to send for the Action.
LEMMA SendOnce ==
    ASSUME TypeOK, OnceInv, NEW w \in Worker, Send(w)
    PROVE  OnceInv'
<1> DEFINE a == req[w].act
<1>1. a \in Action /\ pc[w] = "send" /\ pc[w] \in Holding
  BY RunningHasAction DEF Send, At, TypeOK, Holding
<1>2. CASE UNCHANGED outstanding /\ Answer(w, "failed", "complete")
  BY <1>1, <1>2, QuietMoves DEF Send, TypeOK, ReceiptStatus, Pcs
<1>3. CASE Goto(w, "await") /\ outstanding' = [outstanding EXCEPT ![a] = @ + 1]
  <2>1. pc' = [pc EXCEPT ![w] = "await"] /\ UNCHANGED <<req, reservation, effects>>
    BY <1>3 DEF Send, Goto
  <2>2. effects[a] = 0 /\ outstanding[a] = 0 /\ outstanding'[a] = 1 /\ effects'[a] = 0
    BY <1>1, <1>3, <2>1 DEF OnceInv, NothingSentBefore, TypeOK, RowsOK
  <2>3. \A b \in Action : b # a => outstanding'[b] = outstanding[b] /\ effects'[b] = effects[b]
    BY <1>1, <1>3, <2>1 DEF TypeOK, RowsOK
  <2>4. AtMostOnceEffect'
    BY <2>2, <2>3 DEF OnceInv, AtMostOnceEffect
  <2>5. SentIsReserved'
    BY <1>1, <2>1, <2>2, <2>3 DEF OnceInv, SentIsReserved, HolderOwnsReservation
  <2>6. \A u \in Worker : /\ pc'[u] \in Holding => pc[u] \in Holding
                          /\ pc'[u] = "send" => pc[u] = "send" /\ u # w
    BY <1>1, <2>1 DEF TypeOK, WorkersOK
  <2>7. HolderOwnsReservation'
    BY <2>1, <2>6 DEF OnceInv, HolderOwnsReservation
  <2>8. NothingSentBefore'
    <3> SUFFICES ASSUME NEW u \in Worker, pc'[u] = "send"
                 PROVE  effects'[req'[u].act] = 0 /\ outstanding'[req'[u].act] = 0
      BY DEF NothingSentBefore
    <3>1. pc[u] = "send" /\ u # w /\ pc[u] \in Holding
      BY <2>6 DEF Holding
    <3>2. req[u].act # a
      BY <1>1, <3>1 DEF OnceInv, HolderOwnsReservation
    <3>3. req[u].act \in Action
      BY <3>1, RunningHasAction DEF TypeOK
    <3>4. QED
      BY <2>1, <2>3, <3>1, <3>2, <3>3 DEF OnceInv, NothingSentBefore
  <2>9. QED
    BY <2>4, <2>5, <2>7, <2>8 DEF OnceInv
<1>4. QED
  BY <1>2, <1>3 DEF Send

\* The provider takes what was sent or loses it, and a refusal takes the request back: none
\* of them makes more of it.
LEMMA FewerOutstanding ==
    ASSUME TypeOK, OnceInv, NEW a \in Action, UNCHANGED reservation,
           outstanding[a] > 0, outstanding' = [outstanding EXCEPT ![a] = @ - 1],
           effects' = effects \/ effects' = [effects EXCEPT ![a] = @ + 1],
           \A u \in Worker : pc'[u] \in Holding => pc[u] \in Holding /\ req'[u].act = req[u].act,
           \A u \in Worker : pc'[u] = "send" => pc[u] = "send"
    PROVE  OnceInv'
<1>1. outstanding[a] \in Nat /\ effects[a] \in Nat /\ outstanding'[a] = outstanding[a] - 1
      /\ effects'[a] + outstanding'[a] <= effects[a] + outstanding[a]
  BY DEF TypeOK, RowsOK
<1>2. \A b \in Action : b # a => outstanding'[b] = outstanding[b] /\ effects'[b] = effects[b]
  BY DEF TypeOK, RowsOK
<1>3. AtMostOnceEffect'
  <2> SUFFICES ASSUME NEW b \in Action PROVE effects'[b] + outstanding'[b] <= 1
    BY DEF AtMostOnceEffect
  <2>1. effects[b] + outstanding[b] <= 1
    BY DEF OnceInv, AtMostOnceEffect
  <2>2. CASE b = a
    <3>1. outstanding[a] = 1 /\ effects[a] = 0
      BY <1>1, <2>1, <2>2
    <3>2. outstanding'[a] = 0 /\ effects'[a] \in {0, 1}
      BY <1>1, <3>1 DEF TypeOK, RowsOK
    <3>3. QED
      BY <2>2, <3>2
  <2>3. CASE b # a
    BY <1>2, <2>1, <2>3
  <2>4. QED
    BY <2>2, <2>3
<1>4. SentIsReserved'
  <2> SUFFICES ASSUME NEW b \in Action, effects'[b] + outstanding'[b] > 0
               PROVE  reservation[b].status # "none"
    BY DEF SentIsReserved
  <2>1. CASE b = a
    <3>1. effects[a] + outstanding[a] > 0
      BY <1>1
    <3>2. QED
      BY <2>1, <3>1 DEF OnceInv, SentIsReserved
  <2>2. CASE b # a
    BY <1>2, <2>2 DEF OnceInv, SentIsReserved
  <2>3. QED
    BY <2>1, <2>2
<1>5. HolderOwnsReservation'
  BY DEF OnceInv, HolderOwnsReservation
<1>6. NothingSentBefore'
  <2> SUFFICES ASSUME NEW u \in Worker, pc'[u] = "send"
               PROVE  effects'[req'[u].act] = 0 /\ outstanding'[req'[u].act] = 0
    BY DEF NothingSentBefore
  <2>1. pc[u] = "send" /\ req'[u].act = req[u].act
    BY DEF Holding
  <2>2. req[u].act \in Action
    BY <2>1, RunningHasAction DEF TypeOK
  <2>3. effects[req[u].act] = 0 /\ outstanding[req[u].act] = 0
    BY <2>1 DEF OnceInv, NothingSentBefore
  <2>4. QED
    BY <1>2, <2>1, <2>2, <2>3
<1>7. QED
  BY <1>3, <1>4, <1>5, <1>6 DEF OnceInv

\* Waiting for the provider's answer.
LEMMA AwaitOnce ==
    ASSUME TypeOK, OnceInv, NEW w \in Worker, Await(w)
    PROVE  OnceInv'
<1>1. req[w].act \in Action /\ pc[w] \in Holding
  BY RunningHasAction DEF Await, At, TypeOK, Holding
<1>2. PICK s \in ReceiptStatus, p \in {"verify", "complete"} : Answer(w, s, p)
  BY DEF Await, ReceiptStatus
<1>3. CASE UNCHANGED outstanding
  BY <1>1, <1>2, <1>3, QuietMoves DEF Await, TypeOK, Pcs
<1>4. CASE outstanding[req[w].act] > 0
           /\ outstanding' = [outstanding EXCEPT ![req[w].act] = @ - 1]
  <2>1. \A u \in Worker : pc'[u] \in Holding => pc[u] \in Holding /\ req'[u].act = req[u].act
    BY <1>1, <1>2 DEF Answer, TypeOK, WorkersOK
  <2>2. \A u \in Worker : pc'[u] = "send" => pc[u] = "send"
    BY <1>1, <1>2 DEF Answer, TypeOK, WorkersOK
  <2>3. UNCHANGED <<reservation, effects>>
    BY DEF Await
  <2>4. QED
    BY <1>1, <1>4, <2>1, <2>2, <2>3, FewerOutstanding
<1>5. QED
  BY <1>3, <1>4 DEF Await

\* Filing the receipt: the row stays taken, and the worker lets go of it.
LEMMA CompleteOnce ==
    ASSUME TypeOK, OnceInv, NEW w \in Worker, Complete(w)
    PROVE  OnceInv'
<1> DEFINE a == req[w].act
<1>1. a \in Action /\ pc[w] \in Holding /\ receipt[w] \in ReceiptStatus
  BY RunningHasAction DEF Complete, At, TypeOK, WorkersOK, Holding
<1>2. reservation[a].status = "pending"
  BY <1>1 DEF OnceInv, HolderOwnsReservation
<1>3. FiledAs(receipt[w]) # "none"
  BY <1>1, ReceiptTables
<1>4. PICK row \in [status: ReservationStatus \ {"none"}, cost: Nat] :
        reservation' = [reservation EXCEPT ![a] = row]
  <2>1. [status |-> FiledAs(receipt[w]), cost |-> reservation[a].cost]
          \in [status: ReservationStatus \ {"none"}, cost: Nat]
    BY <1>1, ReceiptTables DEF TypeOK, RowsOK
  <2>2. QED
    BY <1>2, <2>1 DEF Complete
<1>5. pc' = [pc EXCEPT ![w] = "commit"] /\ UNCHANGED <<req, outstanding, effects>>
  BY <1>2 DEF Complete, Return
<1>6. AtMostOnceEffect' /\ NothingSentBefore'
  BY <1>5 DEF OnceInv, AtMostOnceEffect, NothingSentBefore, TypeOK, WorkersOK
<1>7. SentIsReserved'
  <2>1. reservation'[a].status # "none"
    BY <1>1, <1>4 DEF TypeOK, RowsOK
  <2>2. \A b \in Action : b # a => reservation'[b] = reservation[b]
    BY <1>1, <1>4 DEF TypeOK, RowsOK
  <2>3. QED
    BY <1>5, <2>1, <2>2 DEF OnceInv, SentIsReserved
<1>8. HolderOwnsReservation'
  <2>1. \A u \in Worker : pc'[u] \in Holding =>
            pc[u] \in Holding /\ u # w /\ req[u].act # a /\ req[u].act \in Action
    BY <1>1, <1>5, RunningHasAction DEF OnceInv, HolderOwnsReservation, TypeOK, WorkersOK, Holding
  <2>2. \A b \in Action : b # a => reservation'[b] = reservation[b]
    BY <1>1, <1>4 DEF TypeOK, RowsOK
  <2>3. QED
    BY <1>5, <2>1, <2>2 DEF OnceInv, HolderOwnsReservation
<1>9. QED
  BY <1>6, <1>7, <1>8 DEF OnceInv

\* Every step keeps the invariant.
LEMMA OnceStep ==
    ASSUME TypeOK, OnceInv, [Next]_vars
    PROVE  OnceInv'
<1> DEFINE Kept == OnceInv'
<1> HIDE DEF Kept
<1> WorkersOK
  BY DEF TypeOK
<1>1. ASSUME NEW w \in Worker, Load(w) PROVE Kept
  <2>1. UNCHANGED <<reservation, outstanding, effects>>
    BY <1>1 DEF Load
  <2>2. \A u \in Worker : pc'[u] \in Holding => pc[u] \in Holding /\ req'[u].act = req[u].act
    BY <1>1 DEF Load, Holding, WorkersOK
  <2>3. \A u \in Worker : pc'[u] = "send" => pc[u] = "send"
    BY <1>1 DEF Load, WorkersOK
  <2>4. QED
    BY <2>1, <2>2, <2>3, QuietStep DEF Kept
<1>2. ASSUME NEW w \in Worker, \/ ShadowGuard(w) \/ CheckDelegation(w) \/ CheckPolicy(w)
                               \/ CheckKillSwitch(w) \/ CheckApproval(w)
      PROVE  Kept
  <2>1. UNCHANGED <<reservation, outstanding, effects>>
    BY <1>2 DEF ShadowGuard, CheckDelegation, CheckPolicy, CheckKillSwitch, CheckApproval
  <2>2. \/ Retire(w) \/ Return(w, "denied")
        \/ \E p \in {"delegation", "policy", "killswitch", "approval", "reserve"} : Goto(w, p)
    BY <1>2 DEF ShadowGuard, CheckDelegation, CheckPolicy, CheckKillSwitch, CheckApproval
  <2>3. QED
    BY <2>1, <2>2, QuietMoves DEF Kept, Pcs, Holding, ActionStatus
<1>3. ASSUME NEW w \in Worker, Verify(w) PROVE Kept
  <2>1. UNCHANGED <<reservation, outstanding, effects>> /\ pc[w] \in Holding
    BY <1>3 DEF Verify, At, Holding
  <2>2. \E s \in ReceiptStatus : Answer(w, s, "complete")
    BY <1>3 DEF Verify, VerifiedReceipts, ReceiptStatus
  <2>3. QED
    BY <2>1, <2>2, QuietMoves DEF Kept, Pcs
<1>4. ASSUME NEW w \in Worker, Commit(w) \/ Crash(w) PROVE Kept
  BY <1>4, QuietMoves DEF Commit, Crash, Kept
<1>5. ASSUME NEW w \in Worker, Gateway(w) PROVE Kept
  BY <1>1, <1>2, <1>3, <1>4, <1>5, ReserveOnce, SendOnce, AwaitOnce, CompleteOnce
     DEF Gateway, Kept
<1>6. ASSUME UNCHANGED <<reservation, outstanding, effects, pc, req>> PROVE Kept
  BY <1>6, QuietStep DEF Kept, Holding
<1>7. ASSUME NEW a \in Action, People(a) PROVE Kept
  BY <1>6, <1>7 DEF People, RequestApproval, DecideApproval, Reconcile, workVars
<1>8. ASSUME NEW a \in Action, ProviderApplies(a) \/ ProviderDrops(a) PROVE Kept
  <2>1. /\ UNCHANGED <<reservation, pc, req>>
        /\ outstanding[a] > 0 /\ outstanding' = [outstanding EXCEPT ![a] = @ - 1]
        /\ effects' = effects \/ effects' = [effects EXCEPT ![a] = @ + 1]
    BY <1>8 DEF ProviderApplies, ProviderDrops, workVars
  <2>2. QED
    BY <2>1, FewerOutstanding DEF Kept, Holding
<1>9. ASSUME NEW a \in Action, ApprovalExpires(a) \/ RevokeDelegation(a) PROVE Kept
  BY <1>6, <1>9 DEF ApprovalExpires, RevokeDelegation, workVars
<1>10. ASSUME NEW s \in Switch, ActivateSwitch(s) \/ DeactivateSwitch(s) PROVE Kept
  BY <1>6, <1>10 DEF ActivateSwitch, DeactivateSwitch, workVars
<1>11. ASSUME NEW r \in Run, LeaveShadow(r) PROVE Kept
  BY <1>6, <1>11 DEF LeaveShadow, workVars
<1>12. ASSUME PolicyChanges \/ UNCHANGED vars PROVE Kept
  BY <1>6, <1>12 DEF PolicyChanges, vars, workVars
<1>13. ASSUME Surroundings PROVE Kept
  BY <1>8, <1>9, <1>10, <1>11, <1>12, <1>13 DEF Surroundings
<1>14. QED
  BY <1>4, <1>5, <1>7, <1>12, <1>13 DEF Next, Kept

\* The invariant holds before anything was sent.
LEMMA OnceInit == ASSUME Init PROVE OnceInv
<1>1. \A w \in Worker : pc[w] = "idle"
  BY DEF Init
<1>2. \A a \in Action : effects[a] = 0 /\ outstanding[a] = 0
  BY DEF Init
<1>3. QED
  BY <1>1, <1>2 DEF OnceInv, AtMostOnceEffect, HolderOwnsReservation, SentIsReserved,
     NothingSentBefore, Holding

\* No Action takes effect more than once, and a worker that runs the egress is alone on its
\* Action with a pending row, for any number of workers, crashes and retries.
THEOREM EffectAtMostOnce == Spec => [](AtMostOnceEffect /\ HolderOwnsReservation)
<1>1. Init => OnceInv
  BY OnceInit
<1>2. TypeOK /\ OnceInv /\ [Next]_vars => OnceInv'
  BY OnceStep
<1>3. OnceInv => AtMostOnceEffect /\ HolderOwnsReservation
  BY DEF OnceInv
<1>4. QED
  BY <1>1, <1>2, <1>3, TypeCorrect, PTL DEF Spec

-----------------------------------------------------------------------------
(* Refinement of the effect ledger.                                         *)

Charged == {a \in Action : reservation[a].status # "none"}

\* Only an acquired reservation charges, once and within the budget; only a provider that
\* applies a reserved request takes effect.
LEMMA LedgerStep ==
    ASSUME TypeOK, OnceInv, [Next]_vars
    PROVE  [Ledger!Next]_(Ledger!ledgerVars)
<1> USE DEF Charged
<1> DEFINE Kept == [Ledger!Next]_(Ledger!ledgerVars)
<1> HIDE DEF Kept
<1>1. ASSUME UNCHANGED <<used, effects>>, Charged' = Charged PROVE Kept
  BY <1>1 DEF Kept, Ledger!ledgerVars
<1>2. ASSUME UNCHANGED <<reservation, used, effects>> PROVE Kept
  BY <1>1, <1>2
<1>3. ASSUME NEW w \in Worker, Reserve(w) PROVE Kept
  <2>1. /\ req[w].act \in Action
        /\ req[w].cost \in Costs /\ req[w].cost \in Nat
    BY <1>3 DEF Reserve, At, TypeOK, WorkersOK, Request
  <2> PICK a \in Action : a = req[w].act
    BY <2>1
  <2>2. CASE ReservationDecision(a, req[w].cost) # "acquired"
    BY <1>2, <1>3, <2>2 DEF Reserve
  <2>3. CASE ReservationDecision(a, req[w].cost) = "acquired"
    <3>1. reservation[a].status = "none" /\ ~(used[RunOf[a]] + req[w].cost > Budget)
      BY <2>3 DEF ReservationDecision, ExistingDecision
    <3>2. /\ reservation' = [reservation EXCEPT ![a] =
                               [status |-> "pending", cost |-> req[w].cost]]
          /\ used' = [used EXCEPT ![RunOf[a]] = @ + req[w].cost]
          /\ UNCHANGED effects
      BY <1>3, <2>3 DEF Reserve, Charge
    <3>3. a \notin Charged /\ Charged' = Charged \cup {a}
      <4>1. reservation'[a].status = "pending"
        BY <2>1, <3>2 DEF TypeOK, RowsOK
      <4>2. \A b \in Action : b # a => reservation'[b] = reservation[b]
        BY <3>2 DEF TypeOK, RowsOK
      <4>3. QED
        BY <2>1, <3>1, <4>1, <4>2
    <3>4. used[RunOf[a]] + req[w].cost <= Budget
      BY <2>1, <3>1 DEF TypeOK, RowsOK
    <3>5. Ledger!ChargeOnce(a)
      BY <2>1, <3>2, <3>3, <3>4 DEF Ledger!ChargeOnce
    <3>6. QED
      BY <3>5 DEF Kept, Ledger!Next
  <2>4. QED
    BY <2>2, <2>3
<1>4. ASSUME NEW w \in Worker, Complete(w) PROVE Kept
  <2>1. req[w].act \in Action /\ receipt[w] \in ReceiptStatus
    BY <1>4, RunningHasAction DEF Complete, At, TypeOK, WorkersOK
  <2>2. FiledAs(receipt[w]) # "none"
    BY <2>1, ReceiptTables
  <2>3. UNCHANGED <<used, effects>>
    BY <1>4 DEF Complete
  <2>4. \A a \in Action : (reservation'[a].status # "none") = (reservation[a].status # "none")
    <3>1. CASE reservation[req[w].act].status = "pending"
      <4>1. reservation' = [reservation EXCEPT ![req[w].act] =
               [status |-> FiledAs(receipt[w]), cost |-> reservation[req[w].act].cost]]
        BY <1>4, <3>1 DEF Complete
      <4>2. reservation'[req[w].act].status = FiledAs(receipt[w])
        BY <2>1, <4>1 DEF TypeOK, RowsOK
      <4>3. \A b \in Action : b # req[w].act => reservation'[b] = reservation[b]
        BY <4>1 DEF TypeOK, RowsOK
      <4>4. QED
        BY <2>1, <2>2, <3>1, <4>2, <4>3
    <3>2. CASE reservation[req[w].act].status # "pending"
      BY <1>4, <3>2 DEF Complete
    <3>3. QED
      BY <3>1, <3>2
  <2>5. QED
    BY <1>1, <2>3, <2>4
<1>5. ASSUME NEW w \in Worker, Gateway(w) \/ Crash(w) PROVE Kept
  BY <1>2, <1>3, <1>4, <1>5
     DEF Gateway, Load, ShadowGuard, CheckDelegation, CheckPolicy, CheckKillSwitch,
         CheckApproval, Send, Await, Verify, Commit, Crash
<1>6. ASSUME NEW a \in Action, People(a) PROVE Kept
  BY <1>2, <1>6 DEF People, RequestApproval, DecideApproval, Reconcile
<1>7. ASSUME NEW a \in Action, ProviderApplies(a) PROVE Kept
  <2>1. outstanding[a] \in Nat /\ effects[a] \in Nat /\ outstanding[a] > 0
        /\ effects[a] + outstanding[a] <= 1
    BY <1>7 DEF ProviderApplies, TypeOK, RowsOK, OnceInv, AtMostOnceEffect
  <2>2. effects[a] = 0 /\ effects[a] + outstanding[a] > 0
    BY <2>1
  <2>3. a \in Charged
    BY <2>2 DEF OnceInv, SentIsReserved
  <2>4. Ledger!TakeEffect(a)
    BY <1>7, <2>2, <2>3 DEF ProviderApplies, Ledger!TakeEffect
  <2>5. QED
    BY <2>4 DEF Kept, Ledger!Next
<1>8. ASSUME Surroundings PROVE Kept
  BY <1>2, <1>7, <1>8
     DEF Surroundings, ProviderDrops, ApprovalExpires, RevokeDelegation, ActivateSwitch,
         DeactivateSwitch, LeaveShadow, PolicyChanges
<1>9. ASSUME UNCHANGED vars PROVE Kept
  BY <1>2, <1>9 DEF vars
<1>10. QED
  BY <1>5, <1>6, <1>8, <1>9 DEF Next, Kept

\* Governed execution implements the effect ledger: whatever the gateway does, each Action
\* is charged at most once and within the budget of its Run, and takes effect at most once
\* and only when it was charged.
THEOREM LedgerRefined == Spec => ImplementsLedger
<1>1. Init => Ledger!Init /\ OnceInv
  <2> SUFFICES ASSUME Init PROVE Ledger!Init /\ OnceInv
    OBVIOUS
  <2>1. Ledger!Init
    BY DEF Init, Ledger!Init
  <2>2. OnceInv
    BY OnceInit
  <2>3. QED
    BY <2>1, <2>2
<1>2. TypeOK /\ OnceInv /\ [Next]_vars => OnceInv'
  BY OnceStep
<1>3. TypeOK /\ OnceInv /\ [Next]_vars => [Ledger!Next]_(Ledger!ledgerVars)
  BY LedgerStep
<1>4. QED
  BY <1>1, <1>2, <1>3, TypeCorrect, PTL DEF Spec, ImplementsLedger, Ledger!Spec

-----------------------------------------------------------------------------
(* How workers and Actions move.                                            *)

\* A step of a worker starts its call, or is one of the four moves.
LEMMA WorkerStepKinds ==
    ASSUME NEW w \in Worker, Gateway(w) \/ Crash(w)
    PROVE  \/ Load(w)
           \/ pc[w] # "idle" /\ (\/ Retire(w) \/ \E p : Goto(w, p) \/ \E s : Return(w, s)
                                 \/ \E s, p : Answer(w, s, p))
<1>1. CASE \/ ShadowGuard(w) \/ CheckDelegation(w) \/ CheckPolicy(w) \/ CheckKillSwitch(w)
           \/ CheckApproval(w)
  BY <1>1 DEF ShadowGuard, CheckDelegation, CheckPolicy, CheckKillSwitch, CheckApproval, At
<1>2. CASE Reserve(w) \/ Complete(w) \/ Commit(w) \/ Crash(w)
  BY <1>2 DEF Reserve, Complete, Commit, Crash, At
<1>3. CASE Send(w) \/ Await(w) \/ Verify(w)
  BY <1>3 DEF Send, Await, Verify, At
<1>4. QED
  BY <1>1, <1>2, <1>3 DEF Gateway

\* A worker that is running after a step was running before it with the same request, or
\* has just read its Action.
LEMMA CallStays ==
    ASSUME TypeOK, [Next]_vars, NEW u \in Worker, pc'[u] # "idle"
    PROVE  Load(u) \/ (pc[u] # "idle" /\ req'[u] = req[u])
<1> WorkersOK
  BY DEF TypeOK
<1>1. ASSUME NEW w \in Worker, Gateway(w) \/ Crash(w)
      PROVE  Load(u) \/ (pc[u] # "idle" /\ req'[u] = req[u])
  <2>1. CASE Load(w)
    <3>1. u # w => pc'[u] = pc[u] /\ req'[u] = req[u]
      BY <2>1 DEF Load, WorkersOK
    <3>2. QED
      BY <2>1, <3>1
  <2>2. CASE pc[w] # "idle" /\ Retire(w)
    BY <2>2 DEF Retire, WorkersOK
  <2>3. CASE pc[w] # "idle" /\ \E p : Goto(w, p)
    BY <2>3 DEF Goto, WorkersOK
  <2>4. CASE pc[w] # "idle" /\ \E s : Return(w, s)
    BY <2>4 DEF Return, WorkersOK
  <2>5. CASE pc[w] # "idle" /\ \E s, p : Answer(w, s, p)
    BY <2>5 DEF Answer, WorkersOK
  <2>6. QED
    BY <1>1, <2>1, <2>2, <2>3, <2>4, <2>5, WorkerStepKinds
<1>2. CASE UNCHANGED <<pc, req>>
  BY <1>2
<1>3. ASSUME NEW a \in Action, People(a) PROVE UNCHANGED <<pc, req>>
  BY <1>3 DEF People, RequestApproval, DecideApproval, Reconcile, workVars
<1>4. ASSUME Surroundings PROVE UNCHANGED <<pc, req>>
  BY <1>4 DEF Surroundings, ProviderApplies, ProviderDrops, ApprovalExpires, RevokeDelegation,
     ActivateSwitch, DeactivateSwitch, LeaveShadow, PolicyChanges, workVars
<1>5. ASSUME UNCHANGED vars PROVE UNCHANGED <<pc, req>>
  BY <1>5 DEF vars, workVars
<1>6. QED
  BY <1>1, <1>2, <1>3, <1>4, <1>5 DEF Next

-----------------------------------------------------------------------------
(* Settled Actions.  The compare-and-swap of the second transaction stops a *)
(* late worker only because every move of an Action raises its version and  *)
(* because the version read belongs to an executable state.                 *)

\* A running worker's Action is at the version it read, and then still executable, or past it.
FreshInv ==
    \A w \in Worker : pc[w] # "idle" =>
        /\ req[w].base <= action[req[w].act].version
        /\ req[w].base = action[req[w].act].version => action[req[w].act].status \in Executable

\* Whoever moves an Action raises its version, and moves no settled Action.
LEMMA ActionMoves ==
    ASSUME TypeOK, FreshInv, [Next]_vars, NEW a \in Action
    PROVE  \/ action'[a] = action[a]
           \/ action'[a].version > action[a].version /\ action[a].status \notin Settled
<1> DEFINE Kept == \/ action'[a] = action[a]
                   \/ action'[a].version > action[a].version /\ action[a].status \notin Settled
<1> HIDE DEF Kept
<1> action \in [Action -> [status: ActionStatus, version: Nat]]
  BY DEF TypeOK, RowsOK
<1> action[a].version \in Nat
  OBVIOUS
<1>1. ASSUME NEW w \in Worker, Commit(w) PROVE Kept
  <2>1. /\ req[w].act \in Action /\ req[w].base \in Nat
        /\ req[w].base = action[req[w].act].version => action[req[w].act].status \in Executable
    BY <1>1, RunningHasAction DEF Commit, At, TypeOK, FreshInv
  <2>2. CASE Unmoved(w) /\ req[w].act = a
    <3>1. action'[a] = [status |-> result[w], version |-> VersionAfter(w)]
      BY <1>1, <2>2 DEF Commit
    <3>2. VersionAfter(w) > action[a].version
      BY <2>1, <2>2 DEF VersionAfter, Unmoved
    <3>3. action[a].status \notin Settled
      BY <2>1, <2>2 DEF Unmoved, Settled, Executable
    <3>4. QED
      BY <3>1, <3>2, <3>3 DEF Kept
  <2>3. CASE ~(Unmoved(w) /\ req[w].act = a)
    BY <1>1, <2>1, <2>3 DEF Commit, Kept
  <2>4. QED
    BY <2>2, <2>3
<1>2. ASSUME NEW w \in Worker, Gateway(w) \/ Crash(w) PROVE Kept
  <2>1. Commit(w) \/ UNCHANGED action
    BY <1>2 DEF Gateway, Load, ShadowGuard, CheckDelegation, CheckPolicy, CheckKillSwitch,
       CheckApproval, Reserve, Send, Await, Verify, Complete, Crash
  <2>2. QED
    BY <1>1, <2>1 DEF Kept
<1>3. ASSUME NEW b \in Action, People(b) PROVE Kept
  <2>1. \/ UNCHANGED action
        \/ /\ action[b].status \notin Settled
           /\ \E s \in ActionStatus :
                action' = [action EXCEPT ![b] = [status |-> s, version |-> @.version + 1]]
    <3>1. CASE RequestApproval(b)
      BY <3>1 DEF RequestApproval, Settled, ActionStatus
    <3>2. CASE DecideApproval(b)
      BY <3>2 DEF DecideApproval, CanMove, ActionTransitions, Settled, ActionStatus
    <3>3. CASE Reconcile(b)
      BY <3>3 DEF Reconcile, Settled, ActionStatus
    <3>4. QED
      BY <1>3, <3>1, <3>2, <3>3 DEF People
  <2>2. QED
    BY <2>1 DEF Kept
<1>4. ASSUME Surroundings \/ UNCHANGED vars PROVE Kept
  BY <1>4 DEF Surroundings, ProviderApplies, ProviderDrops, ApprovalExpires, RevokeDelegation,
     ActivateSwitch, DeactivateSwitch, LeaveShadow, PolicyChanges, vars, Kept
<1>5. QED
  BY <1>2, <1>3, <1>4 DEF Next, Kept

\* The version a worker read never gets ahead of its Action.
LEMMA FreshStep ==
    ASSUME TypeOK, FreshInv, [Next]_vars
    PROVE  FreshInv'
<1> SUFFICES ASSUME NEW u \in Worker, pc'[u] # "idle"
             PROVE  /\ req'[u].base <= action'[req'[u].act].version
                    /\ req'[u].base = action'[req'[u].act].version
                         => action'[req'[u].act].status \in Executable
  BY DEF FreshInv
<1>1. CASE Load(u)
  <2>1. PICK a \in Action : /\ action[a].status \in Executable
                            /\ req'[u].act = a /\ req'[u].base = action[a].version
    BY <1>1 DEF Load, TypeOK, WorkersOK
  <2>2. UNCHANGED action /\ action[a].version \in Nat
    BY <1>1 DEF Load, TypeOK, RowsOK
  <2>3. QED
    BY <2>1, <2>2
<1>2. CASE pc[u] # "idle" /\ req'[u] = req[u]
  <2>1. PICK a \in Action : a = req[u].act
    BY <1>2, RunningHasAction DEF TypeOK
  <2>2. /\ req[u].base \in Nat /\ action[a].version \in Nat
        /\ req[u].base <= action[a].version
        /\ req[u].base = action[a].version => action[a].status \in Executable
    BY <1>2, <2>1, RunningHasAction DEF TypeOK, RowsOK, FreshInv
  <2>3. action'[a].version \in Nat
    BY TypeStep DEF TypeOK, RowsOK
  <2>4. action'[a] = action[a] \/ action'[a].version > action[a].version
    BY ActionMoves
  <2>5. QED
    BY <1>2, <2>1, <2>2, <2>3, <2>4
<1>3. QED
  BY <1>1, <1>2, CallStays

\* A settled Action is never moved again: denial, reconciliation and the result of one
\* worker survive every other worker, however late it commits.
THEOREM SettledStaysSettled == Spec => SettledIsFinal
<1>1. Init => FreshInv
  BY DEF Init, FreshInv
<1>2. TypeOK /\ FreshInv /\ [Next]_vars => FreshInv'
  BY FreshStep
<1>3. TypeOK /\ FreshInv /\ [Next]_vars
        => [\A a \in Action : action[a].status \in Settled => action'[a] = action[a]]_vars
  BY ActionMoves
<1>4. QED
  BY <1>1, <1>2, <1>3, TypeCorrect, PTL DEF Spec, SettledIsFinal

-----------------------------------------------------------------------------
(* The gates are passed in order.                                           *)

\* Program counters after the shadow guard and after the delegation gate.
PastGuard == {"delegation", "policy", "killswitch"} \cup PastKillSwitch
PastDelegation == {"policy", "killswitch"} \cup PastKillSwitch

\* A step leaves worker u where it is or lets it through the next gate.
LetThrough(u) ==
    /\ req'[u] = req[u]
    /\ held'[u] \subseteq held[u]
    /\ \/ pc'[u] = pc[u]
       \/ pc[u] = "guard" /\ pc'[u] = "delegation" /\ ~ShadowBlocks(req[u].act)
       \/ pc[u] = "delegation" /\ pc'[u] = "policy" /\ Entitled(req[u].act)
       \/ pc[u] = "policy" /\ pc'[u] = "killswitch"
       \/ pc[u] = "killswitch" /\ pc'[u] = "approval" /\ ~KillSwitchBlocks(req[u].act)
       \/ /\ pc[u] = "approval" /\ pc'[u] = "reserve"
          /\ req[u].act \in NeedsApproval => ApprovalIsExact(u)
       \/ pc[u] \in {"reserve"} \cup Holding /\ pc'[u] \in Holding

\* A worker that is past a gate after a step was past it before with the same request and
\* history, or has just been let through.
LEMMA GateOrder ==
    ASSUME TypeOK, [Next]_vars, NEW u \in Worker, pc'[u] \in PastGuard
    PROVE  LetThrough(u)
<1> WorkersOK
  BY DEF TypeOK
<1>1. ASSUME UNCHANGED <<pc, req>>, held'[u] \subseteq held[u] PROVE LetThrough(u)
  BY <1>1 DEF LetThrough
<1>2. ASSUME NEW w \in Worker, w # u, Gateway(w) \/ Crash(w) PROVE LetThrough(u)
  <2>1. pc'[u] = pc[u] /\ req'[u] = req[u] /\ held'[u] = held[u]
    <3>1. CASE Load(w)
      BY <1>2, <3>1 DEF Load, WorkersOK
    <3>2. CASE Retire(w)
      BY <1>2, <3>2 DEF Retire, WorkersOK
    <3>3. CASE \E p : Goto(w, p)
      BY <1>2, <3>3 DEF Goto, WorkersOK
    <3>4. CASE \E s : Return(w, s)
      BY <1>2, <3>4 DEF Return, WorkersOK
    <3>5. CASE \E s, p : Answer(w, s, p)
      BY <1>2, <3>5 DEF Answer, WorkersOK
    <3>6. QED
      BY <1>2, <3>1, <3>2, <3>3, <3>4, <3>5, WorkerStepKinds
  <2>2. QED
    BY <2>1 DEF LetThrough
<1>3. ~Retire(u) /\ ~Load(u) /\ \A s : ~Return(u, s)
  BY DEF Retire, Load, Return, WorkersOK, PastGuard, PastKillSwitch, Holding
<1>4. \A p : Goto(u, p) => pc'[u] = p /\ req'[u] = req[u] /\ held'[u] = held[u]
  BY DEF Goto, WorkersOK
<1>5. \A s, p : Answer(u, s, p) => pc'[u] = p /\ req'[u] = req[u] /\ held'[u] = held[u]
  BY DEF Answer, WorkersOK
<1>6. CASE ShadowGuard(u) \/ CheckDelegation(u) \/ CheckPolicy(u) \/ CheckKillSwitch(u)
  BY <1>3, <1>4, <1>6 DEF ShadowGuard, CheckDelegation, CheckPolicy, CheckKillSwitch, At, LetThrough
<1>7. CASE CheckApproval(u)
  BY <1>3, <1>4, <1>7 DEF CheckApproval, At, LetThrough
<1>8. CASE Reserve(u)
  BY <1>3, <1>4, <1>8 DEF Reserve, At, LetThrough, Holding
<1>9. CASE Send(u) \/ Await(u) \/ Verify(u)
  BY <1>4, <1>5, <1>9 DEF Send, Await, Verify, At, LetThrough, Holding
<1>10. CASE Complete(u) \/ Commit(u) \/ Crash(u)
  BY <1>3, <1>10 DEF Complete, Commit, Crash
<1>11. ASSUME NEW w \in Worker, Gateway(w) \/ Crash(w) PROVE LetThrough(u)
  BY <1>2, <1>3, <1>6, <1>7, <1>8, <1>9, <1>10, <1>11 DEF Gateway, LetThrough
<1>12. ASSUME NEW a \in Action, People(a) PROVE LetThrough(u)
  BY <1>1, <1>12 DEF People, RequestApproval, DecideApproval, Reconcile, workVars
<1>13. ASSUME NEW s \in Switch, DeactivateSwitch(s) PROVE LetThrough(u)
  BY <1>1, <1>13 DEF DeactivateSwitch, WorkersOK
<1>14. ASSUME Surroundings PROVE LetThrough(u)
  BY <1>1, <1>13, <1>14
     DEF Surroundings, ProviderApplies, ProviderDrops, ApprovalExpires, RevokeDelegation,
         ActivateSwitch, LeaveShadow, PolicyChanges, workVars
<1>15. ASSUME UNCHANGED vars PROVE LetThrough(u)
  BY <1>1, <1>15 DEF vars, workVars
<1>16. QED
  BY <1>11, <1>12, <1>14, <1>15 DEF Next, LetThrough

\* What is at the provider, or was applied by it, was so before or is sent by this step.
LEMMA SentBySender ==
    ASSUME TypeOK, [Next]_vars, NEW a \in Action, effects'[a] + outstanding'[a] > 0
    PROVE  \/ effects[a] + outstanding[a] > 0
           \/ \E w \in Worker : pc[w] = "send" /\ req[w].act = a
<1> DEFINE Kept == \/ effects[a] + outstanding[a] > 0
                   \/ \E w \in Worker : pc[w] = "send" /\ req[w].act = a
<1> HIDE DEF Kept
<1>1. outstanding \in [Action -> Nat] /\ effects \in [Action -> Nat]
  BY DEF TypeOK, RowsOK
<1>2. ASSUME UNCHANGED <<outstanding, effects>> PROVE Kept
  BY <1>2 DEF Kept
<1>3. ASSUME NEW b \in Action, outstanding[b] > 0, UNCHANGED effects,
             outstanding' = [outstanding EXCEPT ![b] = @ - 1]
      PROVE  Kept
  BY <1>1, <1>3 DEF Kept
<1>4. ASSUME NEW w \in Worker, Gateway(w) \/ Crash(w) PROVE Kept
  <2>1. CASE Send(w)
    BY <1>1, <1>2, <2>1 DEF Send, At, Kept
  <2>2. CASE Await(w)
    <3>1. req[w].act \in Action
      BY <2>2, RunningHasAction DEF Await, At, TypeOK
    <3>2. QED
      BY <1>2, <1>3, <2>2, <3>1 DEF Await
  <2>3. QED
    BY <1>2, <1>4, <2>1, <2>2
       DEF Gateway, Load, ShadowGuard, CheckDelegation, CheckPolicy, CheckKillSwitch,
           CheckApproval, Reserve, Verify, Complete, Commit, Crash
<1>5. ASSUME NEW b \in Action, ProviderApplies(b) PROVE Kept
  BY <1>1, <1>5 DEF ProviderApplies, Kept
<1>6. ASSUME NEW b \in Action, People(b) PROVE Kept
  BY <1>2, <1>6 DEF People, RequestApproval, DecideApproval, Reconcile
<1>7. ASSUME Surroundings PROVE Kept
  BY <1>2, <1>3, <1>5, <1>7
     DEF Surroundings, ProviderDrops, ApprovalExpires, RevokeDelegation, ActivateSwitch,
         DeactivateSwitch, LeaveShadow, PolicyChanges
<1>8. ASSUME UNCHANGED vars PROVE Kept
  BY <1>2, <1>8 DEF vars
<1>9. QED
  BY <1>4, <1>6, <1>7, <1>8 DEF Next, Kept

-----------------------------------------------------------------------------
(* Kill switches.                                                           *)

\* A switch that was on since a worker read its Action is on.
HeldIsOn == \A w \in Worker : held[w] \subseteq kill

\* Every step keeps what was on at the read on record.
LEMMA HeldStep ==
    ASSUME TypeOK, HeldIsOn, [Next]_vars
    PROVE  HeldIsOn'
<1> DEFINE Kept == HeldIsOn'
<1> HIDE DEF Kept
<1> WorkersOK
  BY DEF TypeOK
<1>1. ASSUME NEW w \in Worker, UNCHANGED kill, held' = [held EXCEPT ![w] = {}] PROVE Kept
  BY <1>1 DEF HeldIsOn, WorkersOK, Kept
<1>2. ASSUME UNCHANGED <<kill, held>> PROVE Kept
  BY <1>2 DEF HeldIsOn, Kept
<1>3. ASSUME NEW w \in Worker, Gateway(w) \/ Crash(w) PROVE Kept
  <2>1. UNCHANGED kill
    BY <1>3 DEF Gateway, Load, ShadowGuard, CheckDelegation, CheckPolicy, CheckKillSwitch,
       CheckApproval, Reserve, Send, Await, Verify, Complete, Commit, Crash
  <2>2. CASE Load(w)
    BY <2>2 DEF Load, HeldIsOn, WorkersOK, Kept
  <2>3. CASE \/ Retire(w) \/ \E p : Goto(w, p) \/ \E s : Return(w, s)
             \/ \E s, p : Answer(w, s, p)
    BY <1>1, <1>2, <2>1, <2>3 DEF Retire, Goto, Return, Answer
  <2>4. QED
    BY <1>3, <2>2, <2>3, WorkerStepKinds
<1>4. ASSUME NEW a \in Action, People(a) PROVE Kept
  BY <1>2, <1>4 DEF People, RequestApproval, DecideApproval, Reconcile, workVars
<1>5. ASSUME NEW s \in Switch, ActivateSwitch(s) \/ DeactivateSwitch(s) PROVE Kept
  BY <1>5 DEF ActivateSwitch, DeactivateSwitch, HeldIsOn, WorkersOK, workVars, Kept
<1>6. ASSUME Surroundings PROVE Kept
  BY <1>2, <1>5, <1>6
     DEF Surroundings, ProviderApplies, ProviderDrops, ApprovalExpires, RevokeDelegation,
         LeaveShadow, PolicyChanges, workVars
<1>7. ASSUME UNCHANGED vars PROVE Kept
  BY <1>2, <1>7 DEF vars, workVars
<1>8. QED
  BY <1>3, <1>4, <1>6, <1>7 DEF Next, Kept

\* A call that reads its Action under a matching kill switch that stays on never reaches
\* the approval gate, the reservation or the provider.
THEOREM KillSwitchHolds == Spec => []KillSwitchStopsNewCalls
<1>1. Init => HeldIsOn /\ KillSwitchStopsNewCalls
  BY DEF Init, HeldIsOn, KillSwitchStopsNewCalls, PastKillSwitch, Holding
<1>2. TypeOK /\ HeldIsOn /\ KillSwitchStopsNewCalls /\ [Next]_vars
        => HeldIsOn' /\ KillSwitchStopsNewCalls'
  <2> SUFFICES ASSUME TypeOK, HeldIsOn, KillSwitchStopsNewCalls, [Next]_vars,
                      NEW u \in Worker, pc'[u] \in PastKillSwitch
               PROVE  held'[u] \cap SwitchesOf[req'[u].act] = {}
    BY HeldStep DEF KillSwitchStopsNewCalls
  <2>1. LetThrough(u)
    BY GateOrder DEF PastGuard
  <2>2. CASE pc[u] \in PastKillSwitch
    BY <2>1, <2>2 DEF LetThrough, KillSwitchStopsNewCalls
  <2>3. CASE pc[u] = "killswitch" /\ ~KillSwitchBlocks(req[u].act)
    BY <2>1, <2>3 DEF LetThrough, KillSwitchBlocks, HeldIsOn
  <2>4. QED
    BY <2>1, <2>2, <2>3 DEF LetThrough, PastKillSwitch, Holding
<1>3. QED
  BY <1>1, <1>2, TypeCorrect, PTL DEF Spec

-----------------------------------------------------------------------------
(* Shadow.                                                                  *)

\* A worker past the guard with a write is not in a Shadow Run.
WriterIsLive ==
    \A w \in Worker : pc[w] \in PastGuard /\ req[w].act \in WriteRisk =>
        RunOf[req[w].act] \notin shadow

\* A write of a Run in Shadow leaves no trace outside, although the guard reads the
\* deployment once and long before the request: a deployment never re-enters Shadow.
THEOREM ShadowHolds == Spec => []ShadowRunsNeverWrite
<1>1. Init => WriterIsLive /\ ShadowRunsNeverWrite
  BY DEF Init, WriterIsLive, ShadowRunsNeverWrite, PastGuard, PastKillSwitch, Holding
<1>2. TypeOK /\ WriterIsLive /\ ShadowRunsNeverWrite /\ [Next]_vars
        => WriterIsLive' /\ ShadowRunsNeverWrite'
  <2> SUFFICES ASSUME TypeOK, WriterIsLive, ShadowRunsNeverWrite, [Next]_vars
               PROVE  WriterIsLive' /\ ShadowRunsNeverWrite'
    OBVIOUS
  <2>1. shadow' \subseteq shadow
    <3>1. ASSUME NEW w \in Worker, Gateway(w) \/ Crash(w) PROVE UNCHANGED shadow
      BY <3>1 DEF Gateway, Load, ShadowGuard, CheckDelegation, CheckPolicy, CheckKillSwitch,
         CheckApproval, Reserve, Send, Await, Verify, Complete, Commit, Crash
    <3>2. ASSUME NEW a \in Action, People(a) PROVE UNCHANGED shadow
      BY <3>2 DEF People, RequestApproval, DecideApproval, Reconcile
    <3>3. ASSUME Surroundings PROVE shadow' \subseteq shadow
      BY <3>3 DEF Surroundings, ProviderApplies, ProviderDrops, ApprovalExpires,
         RevokeDelegation, ActivateSwitch, DeactivateSwitch, LeaveShadow, PolicyChanges
    <3>4. ASSUME UNCHANGED vars PROVE UNCHANGED shadow
      BY <3>4 DEF vars
    <3>5. QED
      BY <3>1, <3>2, <3>3, <3>4 DEF Next
  <2>2. WriterIsLive'
    <3> SUFFICES ASSUME NEW u \in Worker, pc'[u] \in PastGuard, req'[u].act \in WriteRisk
                 PROVE  RunOf[req'[u].act] \notin shadow
      BY <2>1 DEF WriterIsLive
    <3>1. LetThrough(u)
      BY GateOrder
    <3>2. CASE pc[u] = "guard" /\ ~ShadowBlocks(req[u].act)
      BY <3>1, <3>2 DEF LetThrough, ShadowBlocks
    <3>3. CASE pc[u] \in PastGuard
      BY <3>1, <3>3 DEF LetThrough, WriterIsLive
    <3>4. QED
      BY <3>1, <3>2, <3>3 DEF LetThrough, PastGuard, PastKillSwitch, Holding
  <2>3. ShadowRunsNeverWrite'
    <3> SUFFICES ASSUME NEW a \in WriteRisk, RunOf[a] \in shadow,
                        effects'[a] + outstanding'[a] # 0
                 PROVE  FALSE
      BY <2>1 DEF ShadowRunsNeverWrite
    <3>1. effects[a] + outstanding[a] = 0
      BY DEF ShadowRunsNeverWrite
    <3>2. effects'[a] + outstanding'[a] > 0
      BY TypeStep DEF TypeOK, RowsOK
    <3>3. PICK w \in Worker : pc[w] = "send" /\ req[w].act = a
      BY <3>1, <3>2, SentBySender
    <3>4. QED
      BY <3>3 DEF WriterIsLive, PastGuard, PastKillSwitch, Holding
  <2>4. QED
    BY <2>2, <2>3
<1>3. QED
  BY <1>1, <1>2, TypeCorrect, PTL DEF Spec

-----------------------------------------------------------------------------
(* Approvals.  The gateway decides on a copy of the approval; the copy is   *)
(* as good as the row because an approved approval never changes again, and *)
(* that because an Action with an approval is no longer "proposed".         *)

OneApproval ==
    /\ \A a \in Action : action[a].status = "proposed" => approval[a].status = "none"
    /\ \A w \in Worker : result[w] # "proposed"

ReviewsCounted ==
    \A a \in Action : /\ IsFiniteSet(Reviewers(a))
                      /\ Cardinality(Reviewers(a)) = Len(approval[a].reviews)
                      /\ approval[a].status = "approved" =>
                           Len(approval[a].reviews) >= RequiredReviews[a]

\* An approved approval is not asked for again and not reviewed again.
LEMMA ApprovedStays ==
    ASSUME TypeOK, OneApproval, [Next]_vars, NEW a \in Action, approval[a].status = "approved"
    PROVE  approval'[a] = approval[a]
<1> DEFINE Kept == approval'[a] = approval[a]
<1> HIDE DEF Kept
<1>1. approval \in [Action -> [status: ApprovalStatus, policy: Policies,
                               reviews: Reviews]]
  BY DEF TypeOK, RowsOK
<1>2. ASSUME NEW b \in Action, RequestApproval(b) PROVE Kept
  <2>1. b # a
    BY <1>2 DEF RequestApproval, OneApproval
  <2>2. QED
    BY <1>1, <1>2, <2>1 DEF RequestApproval, Kept
<1>3. ASSUME NEW b \in Action, DecideApproval(b) PROVE Kept
  <2>1. b # a
    BY <1>3 DEF DecideApproval, MayReview
  <2>2. QED
    BY <1>1, <1>3, <2>1 DEF DecideApproval, Kept
<1>4. ASSUME NEW w \in Worker, Gateway(w) \/ Crash(w) PROVE Kept
  BY <1>4 DEF Gateway, Load, ShadowGuard, CheckDelegation, CheckPolicy, CheckKillSwitch,
     CheckApproval, Reserve, Send, Await, Verify, Complete, Commit, Crash, Kept
<1>5. ASSUME NEW b \in Action, People(b) PROVE Kept
  BY <1>2, <1>3, <1>5 DEF People, Reconcile, Kept
<1>6. ASSUME Surroundings PROVE Kept
  BY <1>6 DEF Surroundings, ProviderApplies, ProviderDrops, ApprovalExpires, RevokeDelegation,
     ActivateSwitch, DeactivateSwitch, LeaveShadow, PolicyChanges, Kept
<1>7. ASSUME UNCHANGED vars PROVE Kept
  BY <1>7 DEF vars, Kept
<1>8. QED
  BY <1>4, <1>5, <1>6, <1>7 DEF Next, Kept

\* A call never returns its Action as proposed.
LEMMA ResultsStep ==
    ASSUME TypeOK, OneApproval, [Next]_vars
    PROVE  \A u \in Worker : result'[u] # "proposed"
<1> DEFINE Kept == \A u \in Worker : result'[u] # "proposed"
<1> HIDE DEF Kept
<1> WorkersOK
  BY DEF TypeOK
<1>1. ASSUME UNCHANGED result PROVE Kept
  BY <1>1 DEF OneApproval, Kept
<1>2. ASSUME NEW w \in Worker, NEW s, s # "proposed", result' = [result EXCEPT ![w] = s]
      PROVE  Kept
  BY <1>2 DEF OneApproval, Kept, WorkersOK
<1>3. ASSUME NEW w \in Worker, Retire(w) \/ (\E p : Goto(w, p)) \/ (\E s, p : Answer(w, s, p))
      PROVE  Kept
  BY <1>1, <1>2, <1>3 DEF Retire, Goto, Answer
<1>4. ASSUME NEW w \in Worker, NEW s, s # "proposed", Return(w, s) PROVE Kept
  BY <1>2, <1>4 DEF Return
<1>5. ASSUME NEW w \in Worker, Reserve(w) PROVE Kept
  <2>1. ResultFromReceipt(CachedReceipt(reservation[req[w].act].status)) # "proposed"
    BY DEF ResultFromReceipt, CachedReceipt
  <2>2. QED
    BY <1>3, <1>4, <1>5, <2>1 DEF Reserve
<1>6. ASSUME NEW w \in Worker, Complete(w) PROVE Kept
  <2>1. ResultFromReceipt(receipt[w]) # "proposed"
    BY DEF ResultFromReceipt
  <2>2. QED
    BY <1>3, <1>4, <1>6, <2>1 DEF Complete
<1>7. ASSUME NEW w \in Worker, \/ ShadowGuard(w) \/ CheckDelegation(w) \/ CheckPolicy(w)
                               \/ CheckKillSwitch(w) \/ CheckApproval(w)
      PROVE  Kept
  BY <1>3, <1>4, <1>7 DEF ShadowGuard, CheckDelegation, CheckPolicy, CheckKillSwitch,
     CheckApproval
<1>8. ASSUME NEW w \in Worker, Gateway(w) \/ Crash(w) PROVE Kept
  BY <1>1, <1>3, <1>5, <1>6, <1>7, <1>8 DEF Gateway, Load, Send, Await, Verify, Commit, Crash
<1>9. ASSUME NEW a \in Action, People(a) PROVE Kept
  BY <1>1, <1>9 DEF People, RequestApproval, DecideApproval, Reconcile, workVars
<1>10. ASSUME Surroundings PROVE Kept
  BY <1>1, <1>10 DEF Surroundings, ProviderApplies, ProviderDrops, ApprovalExpires,
     RevokeDelegation, ActivateSwitch, DeactivateSwitch, LeaveShadow, PolicyChanges, workVars
<1>11. ASSUME UNCHANGED vars PROVE Kept
  BY <1>1, <1>11 DEF vars, workVars
<1>12. QED
  BY <1>8, <1>9, <1>10, <1>11 DEF Next, Kept

\* An Action is asked for one approval at most, and an approved one has its reviews.
LEMMA ApprovalStep ==
    ASSUME TypeOK, OneApproval, ReviewsCounted, [Next]_vars
    PROVE  OneApproval' /\ ReviewsCounted'
<1> DEFINE Kept == /\ \A a \in Action : action'[a].status = "proposed" =>
                                          approval'[a].status = "none"
                   /\ ReviewsCounted'
<1> HIDE DEF Kept
<1>1. /\ action \in [Action -> [status: ActionStatus, version: Nat]]
      /\ approval \in [Action -> [status: ApprovalStatus, policy: Policies,
                                  reviews: Reviews]]
  BY DEF TypeOK, RowsOK
<1>2. ASSUME UNCHANGED approval, NEW a \in Action, NEW s, NEW v, s # "proposed",
             action' = [action EXCEPT ![a] = [status |-> s, version |-> v]]
      PROVE  Kept
  <2>1. ReviewsCounted'
    <3>1. \A b \in Action : Reviewers(b)' = Reviewers(b)
      BY <1>2 DEF Reviewers
    <3>2. QED
      BY <1>2, <3>1 DEF ReviewsCounted
  <2>2. QED
    BY <1>1, <1>2, <2>1 DEF OneApproval, Kept
<1>3. ASSUME UNCHANGED <<action, approval>> PROVE Kept
  <2>1. ReviewsCounted'
    <3>1. \A b \in Action : Reviewers(b)' = Reviewers(b)
      BY <1>3 DEF Reviewers
    <3>2. QED
      BY <1>3, <3>1 DEF ReviewsCounted
  <2>2. QED
    BY <1>3, <2>1 DEF OneApproval, Kept
<1>4. ASSUME NEW a \in Action, RequestApproval(a) PROVE Kept
  <2>1. PICK v : approval' = [approval EXCEPT ![a] = [status |-> "pending", policy |-> v,
                                                      reviews |-> <<>>]]
    BY <1>4 DEF RequestApproval
  <2>2. action'[a].status = "awaiting_approval" /\ \A b \in Action : b # a => action'[b] = action[b]
    BY <1>1, <1>4 DEF RequestApproval
  <2>3. approval'[a].status = "pending" /\ approval'[a].reviews = <<>>
    BY <1>1, <2>1
  <2>4. \A b \in Action : b # a => approval'[b] = approval[b]
    BY <1>1, <2>1
  <2>5. Reviewers(a)' = {} /\ \A b \in Action : b # a => Reviewers(b)' = Reviewers(b)
    BY <2>3, <2>4 DEF Reviewers
  <2>6. IsFiniteSet({}) /\ Cardinality({}) = Len(<<>>)
    BY FS_EmptySet
  <2>7. QED
    BY <2>2, <2>3, <2>4, <2>5, <2>6 DEF OneApproval, ReviewsCounted, Kept
<1>5. ASSUME NEW a \in Action, DecideApproval(a) PROVE Kept
  <2>1. PICK p \in Principal, approved \in BOOLEAN :
          /\ approval[a].status = "pending" /\ p \notin Reviewers(a)
          /\ approval' = [approval EXCEPT ![a] = Decided(a, p, approved)]
          /\ \/ action' = [action EXCEPT ![a] = [status |-> "denied", version |-> @.version + 1]]
             \/ UNCHANGED action
    BY <1>5 DEF DecideApproval, MayReview
  <2>2. \A b \in Action : b # a => approval'[b] = approval[b] /\ action'[b] = action[b]
    BY <1>1, <2>1
  <2>3. action'[a].status # "proposed"
    BY <1>1, <2>1 DEF OneApproval
  <2>4. /\ approval'[a].status = ReviewStatus(a, p, approved)
        /\ approval'[a].reviews = IF a \in expired THEN approval[a].reviews
                                  ELSE Append(approval[a].reviews, p)
    BY <1>1, <2>1 DEF Decided
  <2>5. /\ approval[a].reviews \in Seq(Principal) /\ IsFiniteSet(Reviewers(a))
        /\ Cardinality(Reviewers(a)) = Len(approval[a].reviews)
    BY <1>1 DEF ReviewsCounted, Reviews
  <2>6. CASE a \in expired
    <3>1. approval'[a].status = "expired" /\ Reviewers(a)' = Reviewers(a)
      BY <2>4, <2>6 DEF ReviewStatus, Reviewers
    <3>2. approval'[a].reviews = approval[a].reviews
      BY <2>4, <2>6
    <3>3. \A b \in Action : b # a => Reviewers(b)' = Reviewers(b)
      BY <2>2 DEF Reviewers
    <3>4. ReviewsCounted'
      BY <2>2, <3>1, <3>2, <3>3 DEF ReviewsCounted
    <3>5. QED
      BY <2>2, <2>3, <3>4 DEF OneApproval, Kept
  <2>7. CASE a \notin expired
    <3>1. approval'[a].reviews = Append(approval[a].reviews, p)
      BY <2>4, <2>7
    <3>2. Reviewers(a)' = Reviewers(a) \cup {p}
      <4>1. PICK s : s = approval[a].reviews
        OBVIOUS
      <4>2. s \in Seq(Principal)
        BY <2>5, <4>1
      <4>3. /\ DOMAIN Append(s, p) = DOMAIN s \cup {Len(s) + 1}
            /\ \A n \in DOMAIN s : Append(s, p)[n] = s[n]
            /\ Append(s, p)[Len(s) + 1] = p
        BY <4>2
      <4>4. {Append(s, p)[n] : n \in DOMAIN Append(s, p)} = {s[n] : n \in DOMAIN s} \cup {p}
        BY <4>3
      <4>5. QED
        BY <3>1, <4>1, <4>4 DEF Reviewers
    <3>3. IsFiniteSet(Reviewers(a)') /\ Cardinality(Reviewers(a)') = Len(approval[a].reviews) + 1
      <4>1. \A S, x : IsFiniteSet(S) /\ x \notin S =>
                        IsFiniteSet(S \cup {x}) /\ Cardinality(S \cup {x}) = Cardinality(S) + 1
        BY FS_AddElement
      <4>2. Cardinality(Reviewers(a) \cup {p}) = Cardinality(Reviewers(a)) + 1
            /\ IsFiniteSet(Reviewers(a) \cup {p})
        BY <2>1, <2>5, <4>1
      <4>3. QED
        BY <2>5, <3>2, <4>2
    <3>4. Len(approval'[a].reviews) = Len(approval[a].reviews) + 1 /\ Len(approval[a].reviews) \in Nat
      BY <2>5, <3>1
    <3>5. approval'[a].status = "approved" => Len(approval'[a].reviews) >= RequiredReviews[a]
      BY <2>4, <3>4, ConstantsAssumption DEF ConstantsAssumption, ReviewStatus
    <3>6. \A b \in Action : b # a => Reviewers(b)' = Reviewers(b)
      BY <2>2 DEF Reviewers
    <3>7. ReviewsCounted'
      BY <2>2, <3>3, <3>4, <3>5, <3>6 DEF ReviewsCounted
    <3>8. QED
      BY <2>2, <2>3, <3>7 DEF OneApproval, Kept
  <2>8. QED
    BY <2>6, <2>7
<1>6. ASSUME NEW a \in Action, Reconcile(a) PROVE Kept
  BY <1>2, <1>6 DEF Reconcile
<1>7. ASSUME NEW w \in Worker, Gateway(w) \/ Crash(w) PROVE Kept
  <2>1. CASE Commit(w)
    <3>1. req[w].act \in Action /\ result[w] # "proposed"
      BY <2>1, RunningHasAction DEF Commit, At, TypeOK, OneApproval
    <3>2. QED
      BY <1>2, <1>3, <2>1, <3>1 DEF Commit
  <2>2. QED
    BY <1>3, <1>7, <2>1
       DEF Gateway, Load, ShadowGuard, CheckDelegation, CheckPolicy, CheckKillSwitch,
           CheckApproval, Reserve, Send, Await, Verify, Complete, Crash
<1>8. ASSUME NEW a \in Action, People(a) PROVE Kept
  BY <1>4, <1>5, <1>6, <1>8 DEF People
<1>9. ASSUME Surroundings PROVE Kept
  BY <1>3, <1>9 DEF Surroundings, ProviderApplies, ProviderDrops, ApprovalExpires,
     RevokeDelegation, ActivateSwitch, DeactivateSwitch, LeaveShadow, PolicyChanges
<1>10. ASSUME UNCHANGED vars PROVE Kept
  BY <1>3, <1>10 DEF vars
<1>11. Kept
  BY <1>7, <1>8, <1>9, <1>10 DEF Next
<1>12. QED
  BY <1>11, ResultsStep DEF Kept, OneApproval

\* An Action the static gates admit, with its approval where policy asks for one.
Cleared(a) == /\ a \in Admissible
              /\ a \in NeedsApproval => approval[a].status = "approved"

\* The copy a worker holds of an approved approval is still true; a worker past a gate has
\* what the gate asks for; so has what was sent.
ClearedInv ==
    /\ \A w \in Worker : /\ pc[w] # "idle" /\ req[w].id \in Action /\ req[w].status = "approved"
                              => approval[req[w].id].status = "approved"
                         /\ pc[w] \in PastDelegation => req[w].act \in Admissible
                         /\ pc[w] \in {"reserve"} \cup Holding => Cleared(req[w].act)
    /\ \A a \in Action : effects[a] + outstanding[a] > 0 => Cleared(a)

\* Every step keeps what was cleared cleared.
LEMMA ClearedStep ==
    ASSUME TypeOK, OneApproval, ClearedInv, [Next]_vars
    PROVE  ClearedInv'
<1>1. \A a \in Action : approval[a].status = "approved" => approval'[a].status = "approved"
  BY ApprovedStays
<1>2. \A a \in Action : Cleared(a) => Cleared(a)'
  BY <1>1 DEF Cleared
<1>3. ASSUME NEW u \in Worker, pc'[u] # "idle", req'[u].id \in Action,
             req'[u].status = "approved"
      PROVE  approval'[req'[u].id].status = "approved"
  <2>1. CASE Load(u)
    <3>1. approval[req'[u].id].status = "approved"
      BY <1>3, <2>1 DEF Load, TypeOK, WorkersOK
    <3>2. QED
      BY <1>1, <1>3, <3>1
  <2>2. CASE pc[u] # "idle" /\ req'[u] = req[u]
    BY <1>1, <1>3, <2>2 DEF ClearedInv
  <2>3. QED
    BY <1>3, <2>1, <2>2, CallStays
<1>4. ASSUME NEW u \in Worker, pc'[u] \in PastDelegation PROVE req'[u].act \in Admissible
  <2>1. LetThrough(u)
    BY <1>4, GateOrder DEF PastDelegation, PastGuard
  <2>2. CASE pc[u] \in PastDelegation
    BY <2>1, <2>2 DEF LetThrough, ClearedInv
  <2>3. CASE pc[u] = "delegation" /\ Entitled(req[u].act)
    BY <2>1, <2>3 DEF LetThrough, Entitled
  <2>4. QED
    BY <1>4, <2>1, <2>2, <2>3 DEF LetThrough, PastDelegation, PastKillSwitch, Holding
<1>5. ASSUME NEW u \in Worker, pc'[u] \in {"reserve"} \cup Holding
      PROVE  Cleared(req[u].act)' /\ req'[u] = req[u]
  <2>1. LetThrough(u) /\ req'[u] = req[u]
    BY <1>5, GateOrder DEF PastGuard, PastKillSwitch, LetThrough
  <2>2. pc'[u] # "idle" /\ pc[u] # "idle"
    BY <1>5, <2>1 DEF LetThrough, Holding
  <2>3. PICK a \in Action : a = req[u].act
    BY <2>2, RunningHasAction DEF TypeOK
  <2>4. Cleared(a)
    <3>1. CASE pc[u] \in {"reserve"} \cup Holding
      BY <2>3, <3>1 DEF ClearedInv
    <3>2. CASE pc[u] = "approval" /\ (req[u].act \in NeedsApproval => ApprovalIsExact(u))
      <4>1. a \in Admissible
        BY <2>3, <3>2 DEF ClearedInv, PastDelegation, PastKillSwitch
      <4>2. a \in NeedsApproval => approval[a].status = "approved"
        BY <2>2, <2>3, <3>2 DEF ApprovalIsExact, ClearedInv
      <4>3. QED
        BY <4>1, <4>2 DEF Cleared
    <3>3. QED
      BY <1>5, <2>1, <3>1, <3>2 DEF LetThrough, Holding
  <2>5. Cleared(a)'
    BY <1>2, <2>4
  <2>6. Cleared(req[u].act)'
    <3>1. req'[u].act = a
      BY <2>1, <2>3
    <3>2. QED
      BY <2>1, <2>5, <3>1 DEF Cleared
  <2>7. QED
    BY <2>1, <2>6
<1>6. ASSUME NEW a \in Action, effects'[a] + outstanding'[a] > 0 PROVE Cleared(a)'
  <2>1. CASE effects[a] + outstanding[a] > 0
    BY <1>2, <2>1 DEF ClearedInv
  <2>2. CASE \E w \in Worker : pc[w] = "send" /\ req[w].act = a
    <3>1. Cleared(a)
      BY <2>2 DEF ClearedInv, Holding
    <3>2. QED
      BY <1>2, <3>1
  <2>3. QED
    BY <1>6, <2>1, <2>2, SentBySender
<1>7. \A u \in Worker : pc'[u] \in {"reserve"} \cup Holding => Cleared(req[u].act)'
  BY <1>5
<1>8. QED
  BY <1>3, <1>4, <1>6, <1>7 DEF ClearedInv

\* A request reaches the provider only for an admissible Action and, where policy asks for
\* it, with an approval by as many distinct principals as the risk needs.
THEOREM OnlyGovernedEffects == Spec => []EffectsAreGoverned
<1>1. Init => OneApproval /\ ReviewsCounted /\ ClearedInv
  <2> SUFFICES ASSUME Init PROVE OneApproval /\ ReviewsCounted /\ ClearedInv
    OBVIOUS
  <2>1. OneApproval
    BY DEF Init, OneApproval
  <2>2. ReviewsCounted
    <3>1. \A a \in Action : approval[a].status = "none" /\ approval[a].reviews = <<>>
      BY DEF Init
    <3>2. \A a \in Action : Reviewers(a) = {}
      BY <3>1 DEF Reviewers
    <3>3. IsFiniteSet({}) /\ Cardinality({}) = Len(<<>>)
      BY FS_EmptySet
    <3>4. QED
      BY <3>1, <3>2, <3>3 DEF ReviewsCounted
  <2>3. \A w \in Worker : pc[w] = "idle"
    BY DEF Init
  <2>4. \A a \in Action : ~(effects[a] + outstanding[a] > 0)
    BY DEF Init
  <2>5. ClearedInv
    BY <2>3, <2>4 DEF ClearedInv, PastDelegation, PastKillSwitch, Holding
  <2>6. QED
    BY <2>1, <2>2, <2>5
<1>2. TypeOK /\ OneApproval /\ ReviewsCounted /\ [Next]_vars => OneApproval' /\ ReviewsCounted'
  BY ApprovalStep
<1>3. TypeOK /\ OneApproval /\ ClearedInv /\ [Next]_vars => ClearedInv'
  BY ClearedStep
<1>4. ReviewsCounted /\ ClearedInv => EffectsAreGoverned
  BY DEF ReviewsCounted, ClearedInv, Cleared, EffectsAreGoverned
<1>5. QED
  BY <1>1, <1>2, <1>3, <1>4, TypeCorrect, PTL DEF Spec

-----------------------------------------------------------------------------
(* Success.  A success is recorded on the word of a worker's memory or of   *)
(* the reservation row; both must stand for an applied effect.              *)

SuccessInv ==
    /\ \A a \in Action : reservation[a].status = "completed" => effects[a] = 1
    /\ \A w \in Worker : /\ pc[w] = "complete" /\ receipt[w] = "succeeded"
                              => effects[req[w].act] = 1
                         /\ pc[w] = "commit" /\ result[w] = "succeeded"
                              => effects[req[w].act] = 1
    /\ SucceededIsReal

\* What was applied stays applied, once.
LEMMA EffectStays ==
    ASSUME TypeOK, OnceInv, [Next]_vars, NEW a \in Action, effects[a] = 1
    PROVE  effects'[a] = 1
<1> DEFINE Kept == effects'[a] = 1
<1> HIDE DEF Kept
<1>1. ASSUME UNCHANGED effects PROVE Kept
  BY <1>1 DEF Kept
<1>2. ASSUME NEW b \in Action, ProviderApplies(b) PROVE Kept
  <2>1. outstanding[b] \in Nat /\ outstanding[b] > 0 /\ effects[b] + outstanding[b] <= 1
    BY <1>2 DEF ProviderApplies, TypeOK, RowsOK, OnceInv, AtMostOnceEffect
  <2>2. b # a
    BY <2>1
  <2>3. QED
    BY <1>2, <2>2 DEF ProviderApplies, TypeOK, RowsOK, Kept
<1>3. ASSUME NEW w \in Worker, Gateway(w) \/ Crash(w) PROVE Kept
  BY <1>1, <1>3 DEF Gateway, Load, ShadowGuard, CheckDelegation, CheckPolicy, CheckKillSwitch,
     CheckApproval, Reserve, Send, Await, Verify, Complete, Commit, Crash
<1>4. ASSUME NEW b \in Action, People(b) PROVE Kept
  BY <1>1, <1>4 DEF People, RequestApproval, DecideApproval, Reconcile
<1>5. ASSUME Surroundings PROVE Kept
  BY <1>1, <1>2, <1>5 DEF Surroundings, ProviderDrops, ApprovalExpires, RevokeDelegation,
     ActivateSwitch, DeactivateSwitch, LeaveShadow, PolicyChanges
<1>6. ASSUME UNCHANGED vars PROVE Kept
  BY <1>1, <1>6 DEF vars
<1>7. QED
  BY <1>3, <1>4, <1>5, <1>6 DEF Next, Kept

\* A row becomes "completed" only when the receipt it is filed under is a success.
LEMMA RowsTellTheTruth ==
    ASSUME TypeOK, OnceInv, SuccessInv, [Next]_vars, NEW a \in Action,
           reservation'[a].status = "completed"
    PROVE  effects'[a] = 1
<1> DEFINE Kept == effects'[a] = 1
<1> HIDE DEF Kept
<1>1. ASSUME effects[a] = 1 PROVE Kept
  BY <1>1, EffectStays DEF Kept
<1>2. ASSUME UNCHANGED reservation PROVE Kept
  BY <1>1, <1>2 DEF SuccessInv
<1>3. ASSUME NEW w \in Worker, Reserve(w) PROVE Kept
  <2>1. reservation[a].status = "completed"
    BY <1>3 DEF Reserve, TypeOK, RowsOK
  <2>2. QED
    BY <1>1, <2>1 DEF SuccessInv
<1>4. ASSUME NEW w \in Worker, Complete(w) PROVE Kept
  <2>1. req[w].act \in Action /\ receipt[w] \in ReceiptStatus /\ pc[w] = "complete"
    BY <1>4, RunningHasAction DEF Complete, At, TypeOK, WorkersOK
  <2>2. CASE reservation[req[w].act].status = "pending" /\ req[w].act = a
    <3>1. reservation'[a].status = FiledAs(receipt[w])
      BY <1>4, <2>2 DEF Complete, TypeOK, RowsOK
    <3>2. receipt[w] = "succeeded"
      BY <2>1, <3>1 DEF FiledAs, ReceiptStatus
    <3>3. QED
      BY <1>1, <2>1, <2>2, <3>2 DEF SuccessInv
  <2>3. CASE ~(reservation[req[w].act].status = "pending" /\ req[w].act = a)
    <3>1. reservation[a].status = "completed"
      BY <1>4, <2>3 DEF Complete, TypeOK, RowsOK
    <3>2. QED
      BY <1>1, <3>1 DEF SuccessInv
  <2>4. QED
    BY <2>2, <2>3
<1>5. ASSUME NEW w \in Worker, Gateway(w) \/ Crash(w) PROVE Kept
  BY <1>2, <1>3, <1>4, <1>5
     DEF Gateway, Load, ShadowGuard, CheckDelegation, CheckPolicy, CheckKillSwitch,
         CheckApproval, Send, Await, Verify, Commit, Crash
<1>6. ASSUME NEW b \in Action, People(b) PROVE Kept
  BY <1>2, <1>6 DEF People, RequestApproval, DecideApproval, Reconcile
<1>7. ASSUME Surroundings PROVE Kept
  BY <1>2, <1>7 DEF Surroundings, ProviderApplies, ProviderDrops, ApprovalExpires,
     RevokeDelegation, ActivateSwitch, DeactivateSwitch, LeaveShadow, PolicyChanges
<1>8. ASSUME UNCHANGED vars PROVE Kept
  BY <1>2, <1>8 DEF vars
<1>9. QED
  BY <1>5, <1>6, <1>7, <1>8 DEF Next, Kept

\* What a worker remembers of a success is true.
LEMMA MemoryTellsTheTruth ==
    ASSUME TypeOK, OnceInv, SuccessInv, [Next]_vars, NEW u \in Worker,
           \/ pc'[u] = "complete" /\ receipt'[u] = "succeeded"
           \/ pc'[u] = "commit" /\ result'[u] = "succeeded"
    PROVE  effects'[req'[u].act] = 1
<1> DEFINE Kept == effects'[req'[u].act] = 1
<1> HIDE DEF Kept
<1> WorkersOK
  BY DEF TypeOK
<1>1. ASSUME pc[u] # "idle", req'[u] = req[u], effects[req[u].act] = 1 PROVE Kept
  <2>1. req[u].act \in Action
    BY <1>1, RunningHasAction
  <2>2. QED
    BY <1>1, <2>1, EffectStays DEF Kept
<1>2. ASSUME pc'[u] = pc[u], req'[u] = req[u], receipt'[u] = receipt[u], result'[u] = result[u]
      PROVE  Kept
  BY <1>1, <1>2 DEF SuccessInv
<1>3. ASSUME NEW w \in Worker, w # u, Gateway(w) \/ Crash(w) PROVE Kept
  <2>1. pc'[u] = pc[u] /\ req'[u] = req[u] /\ receipt'[u] = receipt[u] /\ result'[u] = result[u]
    <3>1. CASE Load(w)
      BY <1>3, <3>1 DEF Load, WorkersOK
    <3>2. CASE Retire(w)
      BY <1>3, <3>2 DEF Retire, WorkersOK
    <3>3. CASE \E p : Goto(w, p)
      BY <1>3, <3>3 DEF Goto, WorkersOK
    <3>4. CASE \E s : Return(w, s)
      BY <1>3, <3>4 DEF Return, WorkersOK
    <3>5. CASE \E s, p : Answer(w, s, p)
      BY <1>3, <3>5 DEF Answer, WorkersOK
    <3>6. QED
      BY <1>3, <3>1, <3>2, <3>3, <3>4, <3>5, WorkerStepKinds
  <2>2. QED
    BY <1>2, <2>1
<1>4. \A p : p \notin {"complete", "commit"} => ~Goto(u, p)
  BY DEF Goto, WorkersOK
<1>5. \A s : Return(u, s) => /\ pc'[u] = "commit" /\ result'[u] = s /\ req'[u] = req[u]
                             /\ s = "succeeded"
  BY DEF Return, WorkersOK
<1>6. \A s, p : Answer(u, s, p) /\ p \in {"complete", "verify"} =>
                    p = "complete" /\ s = "succeeded" /\ req'[u] = req[u]
  BY DEF Answer, WorkersOK
<1>7. ~Retire(u) /\ ~Load(u)
  BY DEF Retire, Load, WorkersOK
<1>8. ASSUME Reserve(u) PROVE Kept
  <2>1. req[u].act \in Action /\ pc[u] # "idle"
    BY <1>8, RunningHasAction DEF Reserve, At
  <2>2. ResultFromReceipt(CachedReceipt(reservation[req[u].act].status)) = "succeeded"
    BY <1>4, <1>5, <1>8 DEF Reserve
  <2>3. reservation[req[u].act].status = "completed"
    BY <2>2 DEF ResultFromReceipt, CachedReceipt
  <2>4. req'[u] = req[u]
    BY <1>4, <1>5, <1>8 DEF Reserve
  <2>5. QED
    BY <1>1, <2>1, <2>3, <2>4 DEF SuccessInv
<1>9. ASSUME Verify(u) PROVE Kept
  <2>1. req[u].act \in Action /\ pc[u] # "idle"
    BY <1>9, RunningHasAction DEF Verify, At
  <2>2. "succeeded" \in VerifiedReceipts(req[u].act) /\ req'[u] = req[u]
    BY <1>6, <1>9 DEF Verify
  <2>3. effects[req[u].act] \in Nat /\ effects[req[u].act] > 0
        /\ outstanding[req[u].act] \in Nat /\ effects[req[u].act] + outstanding[req[u].act] <= 1
    BY <2>1, <2>2 DEF VerifiedReceipts, TypeOK, RowsOK, OnceInv, AtMostOnceEffect
  <2>4. QED
    BY <1>1, <2>1, <2>2, <2>3
<1>10. ASSUME Complete(u) PROVE Kept
  <2>1. ResultFromReceipt(receipt[u]) = "succeeded" /\ req'[u] = req[u] /\ pc[u] = "complete"
    BY <1>5, <1>7, <1>10 DEF Complete, At
  <2>2. receipt[u] = "succeeded"
    BY <2>1 DEF ResultFromReceipt
  <2>3. QED
    BY <1>1, <2>1, <2>2 DEF SuccessInv
<1>11. ~Send(u) /\ ~Await(u)
  BY <1>4, <1>6 DEF Send, Await
<1>12. ~ShadowGuard(u) /\ ~CheckDelegation(u) /\ ~CheckPolicy(u) /\ ~CheckKillSwitch(u)
       /\ ~CheckApproval(u) /\ ~Commit(u) /\ ~Crash(u)
  BY <1>4, <1>5, <1>7 DEF ShadowGuard, CheckDelegation, CheckPolicy, CheckKillSwitch,
     CheckApproval, Commit, Crash
<1>13. ASSUME NEW w \in Worker, Gateway(w) \/ Crash(w) PROVE Kept
  BY <1>3, <1>7, <1>8, <1>9, <1>10, <1>11, <1>12, <1>13 DEF Gateway
<1>14. ASSUME NEW a \in Action, People(a) PROVE Kept
  BY <1>2, <1>14 DEF People, RequestApproval, DecideApproval, Reconcile, workVars
<1>15. ASSUME Surroundings PROVE Kept
  BY <1>2, <1>15 DEF Surroundings, ProviderApplies, ProviderDrops, ApprovalExpires,
     RevokeDelegation, ActivateSwitch, DeactivateSwitch, LeaveShadow, PolicyChanges, workVars
<1>16. ASSUME UNCHANGED vars PROVE Kept
  BY <1>2, <1>16 DEF vars, workVars
<1>17. QED
  BY <1>13, <1>14, <1>15, <1>16 DEF Next, Kept

\* An Action becomes "succeeded" only on the word of an operator or of a worker.
LEMMA SuccessRecorded ==
    ASSUME TypeOK, OnceInv, SuccessInv, [Next]_vars, NEW a \in Action,
           action'[a].status = "succeeded", a \notin reconciled'
    PROVE  effects'[a] = 1
<1> DEFINE Kept == effects'[a] = 1
<1> HIDE DEF Kept
<1>1. ASSUME effects[a] = 1 PROVE Kept
  BY <1>1, EffectStays DEF Kept
<1>2. ASSUME action'[a] = action[a], a \notin reconciled PROVE Kept
  BY <1>1, <1>2 DEF SuccessInv, SucceededIsReal
<1>3. ASSUME NEW w \in Worker, Gateway(w) \/ Crash(w) PROVE Kept
  <2>1. UNCHANGED reconciled
    BY <1>3 DEF Gateway, Load, ShadowGuard, CheckDelegation, CheckPolicy, CheckKillSwitch,
       CheckApproval, Reserve, Send, Await, Verify, Complete, Commit, Crash
  <2>2. CASE Commit(w)
    <3>1. req[w].act \in Action /\ pc[w] = "commit"
      BY <2>2, RunningHasAction DEF Commit, At, TypeOK
    <3>2. CASE Unmoved(w) /\ req[w].act = a
      <4>1. action'[a].status = result[w]
        BY <2>2, <3>1, <3>2 DEF Commit, TypeOK, RowsOK
      <4>2. QED
        BY <1>1, <3>1, <3>2, <4>1 DEF SuccessInv
    <3>3. CASE ~(Unmoved(w) /\ req[w].act = a)
      BY <1>2, <2>1, <2>2, <3>1, <3>3 DEF Commit, TypeOK, RowsOK
    <3>4. QED
      BY <3>2, <3>3
  <2>3. CASE UNCHANGED action
    BY <1>2, <2>1, <2>3
  <2>4. QED
    BY <1>3, <2>2, <2>3
       DEF Gateway, Load, ShadowGuard, CheckDelegation, CheckPolicy, CheckKillSwitch,
           CheckApproval, Reserve, Send, Await, Verify, Complete, Crash
<1>4. ASSUME NEW b \in Action, People(b) PROVE Kept
  <2>1. a \notin reconciled
    BY <1>4 DEF People, RequestApproval, DecideApproval, Reconcile
  <2>2. action'[a] = action[a]
    <3>1. CASE RequestApproval(b)
      BY <3>1 DEF RequestApproval, TypeOK, RowsOK
    <3>2. CASE DecideApproval(b)
      BY <3>2 DEF DecideApproval, TypeOK, RowsOK
    <3>3. CASE Reconcile(b)
      BY <3>3 DEF Reconcile, TypeOK, RowsOK
    <3>4. QED
      BY <1>4, <3>1, <3>2, <3>3 DEF People
  <2>3. QED
    BY <1>2, <2>1, <2>2
<1>5. ASSUME Surroundings PROVE Kept
  BY <1>2, <1>5 DEF Surroundings, ProviderApplies, ProviderDrops, ApprovalExpires,
     RevokeDelegation, ActivateSwitch, DeactivateSwitch, LeaveShadow, PolicyChanges
<1>6. ASSUME UNCHANGED vars PROVE Kept
  BY <1>2, <1>6 DEF vars
<1>7. QED
  BY <1>3, <1>4, <1>5, <1>6 DEF Next, Kept

\* An Action recorded as succeeded by the gateway, also one replayed from the reservation by
\* a worker that sent nothing, has taken effect.
THEOREM SuccessIsReal == Spec => []SucceededIsReal
<1>1. Init => OnceInv /\ SuccessInv
  <2> SUFFICES ASSUME Init PROVE OnceInv /\ SuccessInv
    OBVIOUS
  <2>1. SuccessInv
    BY DEF Init, SuccessInv, SucceededIsReal
  <2>2. QED
    BY <2>1, OnceInit
<1>2. TypeOK /\ OnceInv /\ [Next]_vars => OnceInv'
  BY OnceStep
<1>3. TypeOK /\ OnceInv /\ SuccessInv /\ [Next]_vars => SuccessInv'
  BY RowsTellTheTruth, MemoryTellsTheTruth, SuccessRecorded DEF SuccessInv, SucceededIsReal
<1>4. SuccessInv => SucceededIsReal
  BY DEF SuccessInv
<1>5. QED
  BY <1>1, <1>2, <1>3, <1>4, TypeCorrect, PTL DEF Spec
=============================================================================

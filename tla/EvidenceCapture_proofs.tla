------------------------ MODULE EvidenceCapture_proofs ------------------------
(***************************************************************************)
(* Proofs about EvidenceCapture: verified Evidence is backed by its bytes, *)
(* and deleted bytes are gone.                                             *)
(***************************************************************************)
EXTENDS EvidenceCapture, TLAPS

-----------------------------------------------------------------------------
(* The inductive invariant.                                                 *)

\* An intent was admitted; what the store holds under a key is what the intent announced; the
\* Evidence, the end of the saga and the idempotency record come together.
SagaHolds(k) ==
    /\ saga[k].status = "none" => saga[k] = NoSaga /\ artifact[k] = None
    /\ saga[k].status # "none" =>
         /\ saga[k].content \in Content /\ Admitted(saga[k].content)
         /\ saga[k].class = Effective(saga[k].content)
         /\ artifact[k] \in {None, saga[k].content}
    /\ saga[k].status # "committed" => evidence[k] = NoEvidence
    /\ saga[k].status = "committed" =>
         /\ evidence[k] = [integrity |-> "verified", content |-> saga[k].content,
                           class |-> saga[k].class]
         /\ k \in remembered

\* Bytes of committed Evidence are there until a deletion after the retention period.
BytesHold(k) ==
    saga[k].status = "committed" =>
      artifact[k] = saga[k].content \/ (artifact[k] = None /\ k \in expired /\ deletion[k] # "none")

\* A call that has its saga carries what the saga announced, and is at the commit only when
\* these bytes are stored, or were until the Evidence that another call committed was deleted.
CallHolds(c) ==
    /\ call[c].pc # "idle" => call[c].key \in Key
    /\ call[c].pc = "start" =>
         /\ call[c].content \in Content /\ Admitted(call[c].content)
         /\ call[c].class = Effective(call[c].content)
    /\ call[c].pc \in {"recover", "restore", "store", "verify", "commit"} =>
         /\ saga[call[c].key].status # "none"
         /\ saga[call[c].key].content = call[c].content /\ saga[call[c].key].class = call[c].class
    /\ call[c].pc \in {"verify", "commit"} /\ evidence[call[c].key] = NoEvidence =>
         artifact[call[c].key] = call[c].content

\* A deletion is of Evidence that exists, was asked for before anything was erased, and reports
\* what it did.
ErasureHolds(a) ==
    /\ erasure[a].pc # "idle" => erasure[a].id \in Id /\ evidence[erasure[a].id] # NoEvidence
    /\ erasure[a].pc \in {"erase", "final"} => deletion[erasure[a].id] # "none"
    /\ erasure[a].pc = "final" => erasure[a].result # "none"
    /\ erasure[a].pc = "final" /\ erasure[a].result = "deleted" =>
         erasure[a].id \in expired \cap Key /\ artifact[erasure[a].id] = None

\* What is deleted was an artifact of ours.
DeletedIsOurs == \A i \in Id : deletion[i] = "deleted" => i \in Key

CaptureInv ==
    /\ \A k \in Key : SagaHolds(k)
    /\ \A k \in Key : BytesHold(k)
    /\ \A c \in Caller : CallHolds(c)
    /\ \A a \in Admin : ErasureHolds(a)
    /\ DeletedIsGone /\ DeletedIsOurs

-----------------------------------------------------------------------------
(* Types.                                                                   *)

\* admit: what it lets pass is no secret and is classified between what was found in it and
\* what the Goal allows.
LEMMA AdmittedRank ==
    ASSUME NEW x \in Content, Admitted(x)
    PROVE  /\ Detected[x] # "secret"
           /\ Effective(x) \in DOMAIN Rank
           /\ Rank[Effective(x)] \in Rank[DetectedClass(x)]..Rank[Maximum]
BY EvidenceAssumption DEF Admitted, Effective, DetectedClass, Rank

LEMMA EffectiveType ==
    ASSUME NEW x \in Content
    PROVE  Effective(x) \in Class
BY EvidenceAssumption DEF Effective, DetectedClass, Rank, Class

LEMMA NoneType == None \notin Content /\ None \notin Key /\ None \notin Manual
BY EvidenceAssumption

LEMMA InitType == Init => TypeOK
<1>1. "none" \in Class
  BY DEF Class
<1>2. NoSaga \in SagaRow /\ NoEvidence \in EvidenceRow /\ Idle \in CallRow /\ NoErasure \in ErasureRow
  BY <1>1 DEF NoSaga, NoEvidence, Idle, NoErasure, SagaRow, EvidenceRow, CallPc, CallRow, ErasureRow
<1>3. 0 \in 0..MaxFaults
  BY EvidenceAssumption
<1>4. QED
  BY <1>2, <1>3 DEF Init, TypeOK

\* The record the call of c becomes; every capture step writes one.
Becomes(c, r) == call' = [call EXCEPT ![c] = r]

CallRecord(p, k, x, cl) == [pc |-> p, key |-> k, content |-> x, class |-> cl]

LEMMA GotoBecomes ==
    ASSUME call \in [Caller -> CallRow], NEW c \in Caller, NEW p \in CallPc, Goto(c, p)
    PROVE  /\ Becomes(c, CallRecord(p, call[c].key, call[c].content, call[c].class))
           /\ CallRecord(p, call[c].key, call[c].content, call[c].class) \in CallRow
<1>1. [call[c] EXCEPT !.pc = p] = CallRecord(p, call[c].key, call[c].content, call[c].class)
  BY DEF CallRow, CallRecord
<1>2. CallRecord(p, call[c].key, call[c].content, call[c].class) \in CallRow
  BY DEF CallRow, CallRecord
<1>3. QED
  BY <1>1, <1>2 DEF Goto, Becomes

LEMMA ReturnBecomes ==
    ASSUME NEW c \in Caller, Return(c)
    PROVE  Becomes(c, Idle) /\ Idle \in CallRow
BY DEF Return, Becomes, Idle, CallRow, CallPc, Class

\* One field of a call at a time.
LEMMA FieldUpdate ==
    ASSUME NEW r \in CallRow
    PROVE  /\ \A p \in CallPc :
                [r EXCEPT !.pc = p] = CallRecord(p, r.key, r.content, r.class) /\ [r EXCEPT !.pc = p] \in CallRow
           /\ \A k \in Key \cup {None} :
                [r EXCEPT !.key = k] = CallRecord(r.pc, k, r.content, r.class) /\ [r EXCEPT !.key = k] \in CallRow
           /\ \A x \in Content \cup {None} :
                [r EXCEPT !.content = x] = CallRecord(r.pc, r.key, x, r.class) /\ [r EXCEPT !.content = x] \in CallRow
           /\ \A cl \in Class :
                [r EXCEPT !.class = cl] = CallRecord(r.pc, r.key, r.content, cl) /\ [r EXCEPT !.class = cl] \in CallRow
BY DEF CallRow, CallRecord

LEMMA BeginUpdate ==
    ASSUME NEW r \in CallRow, NEW p \in CallPc, NEW k \in Key
    PROVE  [r EXCEPT !.pc = p, !.key = k] = CallRecord(p, k, r.content, r.class)
<1>1. PICK r1 \in CallRow : r1 = [r EXCEPT !.pc = p] /\ r1 = CallRecord(p, r.key, r.content, r.class)
  BY FieldUpdate
<1>2. [r1 EXCEPT !.key = k] = CallRecord(r1.pc, k, r1.content, r1.class)
  BY FieldUpdate
<1>3. r1.pc = p /\ r1.content = r.content /\ r1.class = r.class
  BY <1>1 DEF CallRecord
<1>4. [r EXCEPT !.pc = p, !.key = k] = [r1 EXCEPT !.key = k]
  BY <1>1
<1>5. QED
  BY <1>2, <1>3, <1>4

LEMMA ErasureFieldUpdate ==
    ASSUME NEW r \in ErasureRow
    PROVE  /\ [r EXCEPT !.pc = "request"] = [pc |-> "request", id |-> r.id, result |-> r.result]
           /\ [r EXCEPT !.pc = "request"] \in ErasureRow
           /\ \A i \in Id : [r EXCEPT !.id = i] = [pc |-> r.pc, id |-> i, result |-> r.result]
BY DEF ErasureRow

LEMMA RequestUpdate ==
    ASSUME NEW r \in ErasureRow, NEW i \in Id
    PROVE  [r EXCEPT !.pc = "request", !.id = i] = [pc |-> "request", id |-> i, result |-> r.result]
<1>1. PICK r1 \in ErasureRow :
         r1 = [r EXCEPT !.pc = "request"] /\ r1 = [pc |-> "request", id |-> r.id, result |-> r.result]
  BY ErasureFieldUpdate
<1>2. [r1 EXCEPT !.id = i] = [pc |-> r1.pc, id |-> i, result |-> r1.result]
  BY ErasureFieldUpdate
<1>3. r1.pc = "request" /\ r1.result = r.result
  BY <1>1
<1>4. [r EXCEPT !.pc = "request", !.id = i] = [r1 EXCEPT !.id = i]
  BY <1>1
<1>5. QED
  BY <1>2, <1>3, <1>4

\* LoadSaga that finds a pending saga, Observe that admits a content, BeginCapture.
LEMMA TakesBecomes ==
    ASSUME call \in [Caller -> CallRow], NEW c \in Caller, NEW p \in CallPc,
           NEW x \in Content \cup {None}, NEW cl \in Class,
           call' = [call EXCEPT ![c].pc = p, ![c].content = x, ![c].class = cl]
    PROVE  /\ Becomes(c, CallRecord(p, call[c].key, x, cl))
           /\ CallRecord(p, call[c].key, x, cl) \in CallRow
<1>1. [call[c] EXCEPT !.pc = p, !.content = x, !.class = cl] = CallRecord(p, call[c].key, x, cl)
  <2>1. PICK r1 \in CallRow : /\ r1 = [call[c] EXCEPT !.pc = p]
                              /\ r1 = CallRecord(p, call[c].key, call[c].content, call[c].class)
    BY FieldUpdate
  <2>2. PICK r2 \in CallRow : r2 = [r1 EXCEPT !.content = x] /\ r2 = CallRecord(r1.pc, r1.key, x, r1.class)
    BY FieldUpdate
  <2>3. [r2 EXCEPT !.class = cl] = CallRecord(r2.pc, r2.key, r2.content, cl)
    BY FieldUpdate
  <2>4. r1.pc = p /\ r1.key = call[c].key /\ r2.pc = r1.pc /\ r2.key = r1.key /\ r2.content = x
    BY <2>1, <2>2 DEF CallRecord
  <2>5. [call[c] EXCEPT !.pc = p, !.content = x, !.class = cl] = [r2 EXCEPT !.class = cl]
    BY <2>1, <2>2
  <2>6. QED
    BY <2>3, <2>4, <2>5
<1>2. CallRecord(p, call[c].key, x, cl) \in CallRow
  BY DEF CallRow, CallRecord
<1>3. call' = [call EXCEPT ![c] = [call[c] EXCEPT !.pc = p, !.content = x, !.class = cl]]
  OBVIOUS
<1>4. QED
  BY <1>1, <1>2, <1>3 DEF Becomes

LEMMA BeginBecomes ==
    ASSUME NEW c \in Caller, NEW k \in Key, BeginCapture(c, k), call \in [Caller -> CallRow]
    PROVE  /\ Becomes(c, CallRecord("load", k, None, "none"))
           /\ CallRecord("load", k, None, "none") \in CallRow
<1>1. [call[c] EXCEPT !.pc = "load", !.key = k] = CallRecord("load", k, None, "none")
  <2>1. PICK r \in CallRow : r = call[c] /\ r.content = None /\ r.class = "none"
    BY DEF BeginCapture, Idle
  <2>2. [r EXCEPT !.pc = "load", !.key = k] = CallRecord("load", k, r.content, r.class)
    BY BeginUpdate DEF CallPc
  <2>3. QED
    BY <2>1, <2>2
<1>2. CallRecord("load", k, None, "none") \in CallRow
  BY DEF CallRow, CallPc, Class, CallRecord
<1>3. call' = [call EXCEPT ![c] = [call[c] EXCEPT !.pc = "load", !.key = k]]
  BY DEF BeginCapture
<1>4. QED
  BY <1>1, <1>2, <1>3 DEF Becomes

LEMMA BecomesType ==
    ASSUME call \in [Caller -> CallRow], NEW c \in Caller, NEW r \in CallRow, Becomes(c, r)
    PROVE  /\ call' \in [Caller -> CallRow]
           /\ call'[c] = r
           /\ \A d \in Caller : d # c => call'[d] = call[d]
BY DEF Becomes

\* A put is accepted and the call goes on, or it is refused and the call ends.
LEMMA StoreType ==
    ASSUME TypeOK, NEW c \in Caller, NEW p \in CallPc, Store(c, p)
    PROVE  artifact' \in [Key -> Content \cup {None}] /\ call' \in [Caller -> CallRow]
<1>1. call \in [Caller -> CallRow] /\ artifact \in [Key -> Content \cup {None}]
  BY DEF TypeOK
<1>2. CASE PutAccepted(call[c].key)
  <2>1. Goto(c, p)
    BY <1>2 DEF Store
  <2>2. call' \in [Caller -> CallRow]
    BY <1>1, <2>1, GotoBecomes, BecomesType
  <2>3. call[c].content \in Content \cup {None}
    BY <1>1 DEF CallRow
  <2>4. artifact' \in [Key -> Content \cup {None}]
    BY <1>1, <1>2, <2>3 DEF Store
  <2>5. QED
    BY <2>2, <2>4
<1>3. CASE ~PutAccepted(call[c].key)
  BY <1>1, <1>3, ReturnBecomes, BecomesType DEF Store
<1>4. QED
  BY <1>2, <1>3

LEMMA CaptureStepType ==
    ASSUME TypeOK, CaptureInv, NEW c \in Caller, CaptureStep(c)
    PROVE  TypeOK'
<1> USE DEF TypeOK, deleting, CallPc
<1>0. call[c].pc # "idle" => call[c].key \in Key
  BY DEF CaptureInv, CallHolds
<1>1. CASE LoadSaga(c)
  <2>1. call[c].key \in Key
    BY <1>0, <1>1 DEF LoadSaga
  <2>2. /\ saga[call[c].key].status \in {"none", "pending", "committed"}
        /\ saga[call[c].key].content \in Content \cup {None} /\ saga[call[c].key].class \in Class
    BY <2>1 DEF SagaRow
  <2>3. PICK r \in CallRow : Becomes(c, r)
    <3>1. CASE saga[call[c].key].status = "none"
      BY <1>1, <3>1, GotoBecomes DEF LoadSaga
    <3>2. CASE saga[call[c].key].status = "committed"
      BY <1>1, <3>2, ReturnBecomes DEF LoadSaga
    <3>3. CASE saga[call[c].key].status = "pending"
      <4>1. PICK x \in Content \cup {None}, cl \in Class :
               x = saga[call[c].key].content /\ cl = saga[call[c].key].class
        BY <2>2
      <4>2. call' = [call EXCEPT ![c].pc = "recover", ![c].content = x, ![c].class = cl]
        BY <1>1, <3>3, <4>1 DEF LoadSaga
      <4>3. "recover" \in CallPc /\ call \in [Caller -> CallRow]
        OBVIOUS
      <4>4. QED
        BY ONLY <4>2, <4>3, TakesBecomes, c \in Caller, x \in Content \cup {None}, cl \in Class
    <3>4. QED
      BY <2>2, <3>1, <3>2, <3>3
  <2>4. QED
    BY <1>1, <2>3, BecomesType DEF LoadSaga
<1>2. CASE Recover(c)
  BY <1>2, GotoBecomes, ReturnBecomes, BecomesType DEF Recover, AfterRecovery
<1>3. CASE Restore(c)
  BY <1>3, StoreType DEF Restore
<1>4. ASSUME NEW content \in Content, Observe(c, content)
      PROVE  TypeOK'
  <2>1. PICK r \in CallRow : Becomes(c, r)
    BY <1>4, EffectiveType, ReturnBecomes, TakesBecomes DEF Observe
  <2>2. QED
    BY <1>4, <2>1, BecomesType DEF Observe
<1>5. CASE StartSaga(c)
  <2>1. [status |-> "pending", content |-> call[c].content, class |-> call[c].class] \in SagaRow
    BY DEF CallRow, SagaRow
  <2>2. saga' \in [Key -> SagaRow]
    BY <1>5, <2>1 DEF StartSaga
  <2>3. PICK r \in CallRow : Becomes(c, r)
    BY <1>5, GotoBecomes, ReturnBecomes DEF StartSaga
  <2>4. QED
    BY <1>5, <2>2, <2>3, BecomesType DEF StartSaga
<1>6. CASE StoreArtifact(c)
  BY <1>6, StoreType DEF StoreArtifact
<1>7. CASE VerifyArtifact(c)
  BY <1>7, GotoBecomes, ReturnBecomes, BecomesType DEF VerifyArtifact
<1>8. CASE CommitCapture(c)
  <2>1. call[c].key \in Key
    BY <1>0, <1>8 DEF CommitCapture
  <2>2. VerifiedEvidence(c) \in EvidenceRow
    BY DEF VerifiedEvidence, CallRow, EvidenceRow
  <2>3. evidence' \in [Id -> EvidenceRow] /\ remembered' \subseteq Key
    BY <1>8, <2>1, <2>2 DEF CommitCapture, AddEvidence, Remember
  <2>4. saga' \in [Key -> SagaRow]
    BY <1>8, <2>1 DEF CommitCapture, CompleteSaga, SagaRow
  <2>5. QED
    BY <1>8, <2>3, <2>4, ReturnBecomes, BecomesType DEF CommitCapture
<1>9. QED
  BY <1>1, <1>2, <1>3, <1>4, <1>5, <1>6, <1>7, <1>8 DEF CaptureStep

LEMMA DeletionStepType ==
    ASSUME TypeOK, CaptureInv, NEW a \in Admin, DeletionStep(a)
    PROVE  TypeOK'
<1> USE DEF TypeOK, capturing, NoErasure, ErasureRow
<1>1. CASE RequestDeletion(a)
  BY <1>1 DEF RequestDeletion
<1>2. CASE Erase(a)
  <2>1. artifact' \in [Key -> Content \cup {None}] /\ faults' \in 0..MaxFaults
    BY <1>2, EvidenceAssumption DEF Erase, Fault
  <2>2. PICK r \in {"failed", "retention_blocked", "deleted"} : Concludes(a, r)
    BY <1>2 DEF Erase
  <2>3. QED
    BY <1>2, <2>1, <2>2 DEF Erase, Concludes
<1>3. CASE FinalizeDeletion(a)
  <2>1. erasure[a].result \in {"failed", "retention_blocked", "deleted"}
    BY <1>3 DEF FinalizeDeletion, CaptureInv, ErasureHolds
  <2>2. QED
    BY <1>3, <2>1 DEF FinalizeDeletion
<1>4. QED
  BY <1>1, <1>2, <1>3 DEF DeletionStep

LEMMA NextType ==
    ASSUME TypeOK, CaptureInv, [Next]_vars
    PROVE  TypeOK'
<1>1. CASE ActionSucceeds
  BY <1>1 DEF ActionSucceeds, TypeOK, capturing, deleting
<1>2. ASSUME NEW i \in Manual, RecordEvidence(i)
      PROVE  TypeOK'
  BY <1>2 DEF RecordEvidence, TypeOK, EvidenceRow, deleting, Id
<1>3. ASSUME NEW c \in Caller, CaptureDies(c)
      PROVE  TypeOK'
  <2>1. "none" \in Class
    BY DEF Class
  <2>2. faults' \in 0..MaxFaults
    BY <1>3, EvidenceAssumption DEF CaptureDies, Fault, TypeOK
  <2>3. QED
    BY <1>3, <2>1, <2>2 DEF CaptureDies, Return, Idle, TypeOK, CallRow, CallPc, deleting
<1>4. ASSUME NEW c \in Caller, NEW k \in Key, BeginCapture(c, k)
      PROVE  TypeOK'
  BY <1>4, BeginBecomes, BecomesType DEF BeginCapture, deleting, TypeOK
<1>5. ASSUME NEW i \in Id, RetentionEnds(i)
      PROVE  TypeOK'
  BY <1>5 DEF RetentionEnds, TypeOK, capturing
<1>6. ASSUME NEW a \in Admin, DeletionDies(a)
      PROVE  TypeOK'
  <2>1. faults' \in 0..MaxFaults
    BY <1>6, EvidenceAssumption DEF DeletionDies, Fault, TypeOK
  <2>2. QED
    BY <1>6, <2>1 DEF DeletionDies, NoErasure, TypeOK, ErasureRow, capturing
<1>7. ASSUME NEW a \in Admin, NEW i \in Id, BeginDeletion(a, i)
      PROVE  TypeOK'
  <2>1. [pc |-> "request", id |-> i, result |-> erasure[a].result] \in ErasureRow
    BY DEF ErasureRow, TypeOK
  <2>2. erasure' = [erasure EXCEPT ![a] = [pc |-> "request", id |-> i, result |-> erasure[a].result]]
    <3>1. [erasure[a] EXCEPT !.pc = "request", !.id = i]
            = [pc |-> "request", id |-> i, result |-> erasure[a].result]
      <4>1. PICK r \in ErasureRow : r = erasure[a]
        BY DEF TypeOK
      <4>2. [r EXCEPT !.pc = "request", !.id = i] = [pc |-> "request", id |-> i, result |-> r.result]
        BY RequestUpdate
      <4>3. QED
        BY <4>1, <4>2
    <3>2. erasure' = [erasure EXCEPT ![a] = [erasure[a] EXCEPT !.pc = "request", !.id = i]]
      BY <1>7 DEF BeginDeletion, TypeOK
    <3>3. QED
      BY <3>1, <3>2
  <2>3. erasure' \in [Admin -> ErasureRow]
    BY <2>1, <2>2 DEF TypeOK
  <2>4. QED
    BY <1>7, <2>3 DEF BeginDeletion, capturing, TypeOK
<1>8. CASE UNCHANGED vars
  BY <1>8 DEF vars, TypeOK
<1>9. QED
  BY <1>1, <1>2, <1>3, <1>4, <1>5, <1>6, <1>7, <1>8, CaptureStepType, DeletionStepType DEF Next

-----------------------------------------------------------------------------
(* The invariant is inductive.                                              *)

LEMMA InitInv == Init => CaptureInv
<1> SUFFICES ASSUME Init PROVE CaptureInv
  OBVIOUS
<1>1. \A k \in Key : SagaHolds(k) /\ BytesHold(k)
  BY DEF Init, SagaHolds, BytesHold, NoSaga, NoEvidence, Id
<1>2. \A c \in Caller : CallHolds(c)
  BY DEF Init, CallHolds, Idle
<1>3. \A a \in Admin : ErasureHolds(a)
  BY DEF Init, ErasureHolds, NoErasure
<1>4. DeletedIsGone
  BY DEF Init, DeletedIsGone
<1>5. DeletedIsOurs
  BY DEF Init, DeletedIsOurs
<1>6. QED
  BY <1>1, <1>2, <1>3, <1>4, <1>5 DEF CaptureInv

\* A call at work has a key.
LEMMA LiveKey ==
    ASSUME TypeOK, CaptureInv, NEW c \in Caller, call[c].pc # "idle"
    PROVE  call[c].key \in Key /\ call[c].key \in Id
BY DEF CaptureInv, CallHolds, Id

\* A step that only moves the call of c.
LEMMA CallMoves ==
    ASSUME TypeOK, CaptureInv, NEW c \in Caller, NEW r \in CallRow, Becomes(c, r),
           UNCHANGED <<saga, evidence, remembered, artifact, deletion, expired, erasure>>,
           CallHolds(c)'
    PROVE  CaptureInv'
<1>1. /\ call'[c] = r
      /\ \A d \in Caller : d # c => call'[d] = call[d]
  BY BecomesType DEF TypeOK
<1>2. \A k \in Key : SagaHolds(k)'
  BY DEF CaptureInv, SagaHolds
<1>3. \A k \in Key : BytesHold(k)'
  BY <1>1 DEF CaptureInv, BytesHold
<1>4. \A d \in Caller : CallHolds(d)'
  BY <1>1 DEF CaptureInv, CallHolds
<1>5. (\A a \in Admin : ErasureHolds(a)') /\ DeletedIsGone' /\ DeletedIsOurs'
  BY DEF CaptureInv, ErasureHolds, DeletedIsGone, DeletedIsOurs
<1>6. QED
  BY <1>2, <1>3, <1>4, <1>5 DEF CaptureInv

LEMMA ReturnInv ==
    ASSUME TypeOK, CaptureInv, NEW c \in Caller, Return(c),
           UNCHANGED <<saga, evidence, remembered, artifact, deletion, expired, erasure>>
    PROVE  CaptureInv'
<1>1. Becomes(c, Idle) /\ Idle \in CallRow
  BY ReturnBecomes
<1>2. call'[c] = Idle
  BY <1>1, BecomesType DEF TypeOK
<1>3. CallHolds(c)'
  BY <1>2 DEF CallHolds, Idle
<1>4. QED
  BY <1>1, <1>3, CallMoves

\* A step that only moves the call of c to p, where what must hold at p holds already.
LEMMA GotoInv ==
    ASSUME TypeOK, CaptureInv, NEW c \in Caller, NEW p \in CallPc, Goto(c, p), call[c].pc # "idle",
           UNCHANGED <<saga, evidence, remembered, artifact, deletion, expired, erasure>>,
           p # "start",
           p \in {"recover", "restore", "store", "verify", "commit"} =>
             call[c].pc \in {"recover", "restore", "store", "verify", "commit"},
           p \in {"verify", "commit"} => artifact[call[c].key] = call[c].content
    PROVE  CaptureInv'
<1> DEFINE r == CallRecord(p, call[c].key, call[c].content, call[c].class)
<1>1. Becomes(c, r) /\ r \in CallRow
  BY GotoBecomes DEF TypeOK
<1>2. r.pc = p /\ r.key = call[c].key /\ r.content = call[c].content /\ r.class = call[c].class
  BY DEF CallRecord
<1>3. call[c].key \in Key
  BY LiveKey
<1>4. call'[c] = r
  BY <1>1, BecomesType DEF TypeOK
<1>5. CallHolds(c)
  BY DEF CaptureInv
<1> HIDE DEF r
<1>6. CallHolds(c)'
  BY <1>2, <1>3, <1>4, <1>5 DEF CallHolds
<1>7. QED
  BY <1>1, <1>2, <1>3, <1>6, CallMoves

LEMMA LoadSagaInv ==
    ASSUME TypeOK, CaptureInv, NEW c \in Caller, LoadSaga(c)
    PROVE  CaptureInv'
<1> USE DEF deleting
<1>1. call[c].pc = "load" /\ call[c].key \in Key
  BY LiveKey DEF LoadSaga
<1>2. /\ saga[call[c].key].status \in {"none", "pending", "committed"}
      /\ saga[call[c].key].content \in Content \cup {None} /\ saga[call[c].key].class \in Class
  BY <1>1 DEF SagaRow, TypeOK
<1>3. CASE saga[call[c].key].status = "none"
  BY <1>1, <1>3, GotoInv DEF LoadSaga, CallPc
<1>4. CASE saga[call[c].key].status = "committed"
  BY <1>4, ReturnInv DEF LoadSaga
<1>5. CASE saga[call[c].key].status = "pending"
  <2>1. PICK x \in Content \cup {None}, cl \in Class :
           x = saga[call[c].key].content /\ cl = saga[call[c].key].class
    BY <1>2
  <2>2. call' = [call EXCEPT ![c].pc = "recover", ![c].content = x, ![c].class = cl]
    BY <1>5, <2>1 DEF LoadSaga
  <2>3. "recover" \in CallPc /\ call \in [Caller -> CallRow]
    BY DEF CallPc, TypeOK
  <2> DEFINE r == CallRecord("recover", call[c].key, x, cl)
  <2>4. Becomes(c, r) /\ r \in CallRow
    BY ONLY <2>2, <2>3, TakesBecomes, c \in Caller, x \in Content \cup {None}, cl \in Class
  <2>5. r.pc = "recover" /\ r.key = call[c].key /\ r.content = x /\ r.class = cl
    BY DEF CallRecord
  <2> HIDE DEF r
  <2>6. call'[c] = r
    BY <2>3, <2>4, BecomesType
  <2>7. CallHolds(c)'
    BY <1>1, <1>5, <2>1, <2>5, <2>6 DEF CallHolds, LoadSaga
  <2>8. QED
    BY <1>1, <2>4, <2>5, <2>7, CallMoves DEF LoadSaga
<1>6. QED
  BY <1>2, <1>3, <1>4, <1>5

LEMMA ObserveInv ==
    ASSUME TypeOK, CaptureInv, NEW c \in Caller, NEW content \in Content, Observe(c, content)
    PROVE  CaptureInv'
<1> USE DEF deleting
<1>1. CASE succeeded /\ Admitted(content)
  <2>1. call[c].key \in Key
    BY LiveKey DEF Observe
  <2>2. PICK cl \in Class : cl = Effective(content)
    BY EffectiveType
  <2>3. call' = [call EXCEPT ![c].pc = "start", ![c].content = content, ![c].class = cl]
    BY <1>1, <2>2 DEF Observe
  <2>4. "start" \in CallPc /\ call \in [Caller -> CallRow] /\ content \in Content \cup {None}
    BY DEF CallPc, TypeOK
  <2> DEFINE r == CallRecord("start", call[c].key, content, cl)
  <2>5. Becomes(c, r) /\ r \in CallRow
    BY ONLY <2>3, <2>4, TakesBecomes, c \in Caller, cl \in Class
  <2>6. r.pc = "start" /\ r.key = call[c].key /\ r.content = content /\ r.class = cl
    BY DEF CallRecord
  <2> HIDE DEF r
  <2>7. call'[c] = r
    BY <2>4, <2>5, BecomesType
  <2>8. CallHolds(c)'
    BY <1>1, <2>1, <2>2, <2>6, <2>7 DEF CallHolds
  <2>9. QED
    BY <2>1, <2>5, <2>6, <2>8, CallMoves DEF Observe
<1>2. CASE ~(succeeded /\ Admitted(content))
  BY <1>2, ReturnInv DEF Observe
<1>3. QED
  BY <1>1, <1>2

LEMMA BeginCaptureInv ==
    ASSUME TypeOK, CaptureInv, NEW c \in Caller, NEW k \in Key, BeginCapture(c, k)
    PROVE  CaptureInv'
<1> DEFINE r == CallRecord("load", k, None, "none")
<1>1. Becomes(c, r) /\ r \in CallRow
  BY BeginBecomes DEF TypeOK
<1>2. r.pc = "load" /\ r.key = k
  BY DEF CallRecord
<1> HIDE DEF r
<1>3. call'[c] = r
  BY <1>1, BecomesType DEF TypeOK
<1>4. CallHolds(c)'
  BY <1>2, <1>3 DEF CallHolds
<1>5. QED
  BY <1>1, <1>4, CallMoves DEF BeginCapture, deleting

\* An intent is written under a key that has none: nothing was stored, no other call has it.
LEMMA StartSagaInv ==
    ASSUME TypeOK, TypeOK', CaptureInv, NEW c \in Caller, StartSaga(c)
    PROVE  CaptureInv'
<1> DEFINE k == call[c].key
           row == [status |-> "pending", content |-> call[c].content, class |-> call[c].class]
<1>1. CASE saga[k] # NoSaga
  BY <1>1, ReturnInv DEF StartSaga, deleting
<1>2. CASE saga[k] = NoSaga
  <2>1. /\ k \in Key
        /\ call[c].content \in Content /\ Admitted(call[c].content)
        /\ call[c].class = Effective(call[c].content)
    BY LiveKey DEF StartSaga, CaptureInv, CallHolds
  <2> DEFINE r == CallRecord("store", k, call[c].content, call[c].class)
  <2>2. Becomes(c, r) /\ r \in CallRow
    BY <1>2, GotoBecomes DEF StartSaga, TypeOK, CallPc
  <2>3. r.pc = "store" /\ r.key = k /\ r.content = call[c].content /\ r.class = call[c].class
    BY DEF CallRecord
  <2>4. call'[c] = r /\ \A d \in Caller : d # c => call'[d] = call[d]
    BY <2>2, BecomesType DEF TypeOK
  <2>5. /\ saga'[k] = row
        /\ \A j \in Key : j # k => saga'[j] = saga[j]
    BY <1>2, <2>1 DEF StartSaga, TypeOK
  <2>6. row.status = "pending" /\ row.content = call[c].content /\ row.class = call[c].class
    OBVIOUS
  <2>7. saga[k].status = "none" /\ artifact[k] = None /\ evidence[k] = NoEvidence
    <3>1. saga[k].status = "none"
      BY <1>2 DEF NoSaga
    <3>2. SagaHolds(k)
      BY <2>1 DEF CaptureInv
    <3>3. QED
      BY <3>1, <3>2 DEF SagaHolds
  <2>8. UNCHANGED <<evidence, remembered, artifact, deletion, expired, erasure>>
    BY DEF StartSaga, deleting
  <2> HIDE DEF r, row, k
  <2>9. \A j \in Key : SagaHolds(j)'
    BY <2>1, <2>5, <2>6, <2>7, <2>8 DEF CaptureInv, SagaHolds
  <2>10. \A j \in Key : BytesHold(j)'
    BY <2>1, <2>3, <2>4, <2>5, <2>6, <2>7, <2>8 DEF CaptureInv, BytesHold
  <2>11. \A d \in Caller : CallHolds(d)'
    <3>1. CallHolds(c)'
      BY <2>1, <2>3, <2>4, <2>5, <2>6 DEF CallHolds
    <3>2. ASSUME NEW d \in Caller, d # c
          PROVE  CallHolds(d)'
      <4>1. call'[d] = call[d] /\ CallHolds(d)
        BY <2>4, <3>2 DEF CaptureInv
      <4>2. QED
        BY <2>5, <2>7, <2>8, <4>1 DEF CallHolds
    <3>3. QED
      BY <3>1, <3>2
  <2>12. (\A a \in Admin : ErasureHolds(a)') /\ DeletedIsGone' /\ DeletedIsOurs'
    BY <2>8 DEF CaptureInv, ErasureHolds, DeletedIsGone, DeletedIsOurs
  <2>13. QED
    BY <2>9, <2>10, <2>11, <2>12 DEF CaptureInv
<1>3. QED
  BY <1>1, <1>2

\* A put that is accepted writes what the saga of the key announced, and where bytes were
\* deleted no put is accepted.
LEMMA StoresInv ==
    ASSUME TypeOK, CaptureInv, NEW c \in Caller, NEW p \in {"verify", "commit"},
           call[c].pc \in {"restore", "store"}, Store(c, p),
           UNCHANGED <<saga, evidence, remembered, deletion, expired, erasure>>
    PROVE  CaptureInv'
<1> DEFINE k == call[c].key
           r == CallRecord(p, k, call[c].content, call[c].class)
<1>0. CASE ~PutAccepted(k)
  BY <1>0, ReturnInv DEF Store
<1>1. CASE PutAccepted(k)
  <2>1. /\ k \in Key
        /\ saga[k].status # "none"
        /\ saga[k].content = call[c].content /\ saga[k].class = call[c].class
        /\ saga[k].content \in Content /\ artifact[k] \in {None, saga[k].content}
    BY LiveKey DEF CaptureInv, CallHolds, SagaHolds
  <2>2. Goto(c, p)
    BY <1>1 DEF Store
  <2>3. Becomes(c, r) /\ r \in CallRow
    BY <2>2, GotoBecomes DEF TypeOK, CallPc
  <2>4. r.pc = p /\ r.key = k /\ r.content = call[c].content /\ r.class = call[c].class
    BY DEF CallRecord
  <2>5. call'[c] = r /\ \A d \in Caller : d # c => call'[d] = call[d]
    BY <2>3, BecomesType DEF TypeOK
  <2>6. /\ artifact'[k] = call[c].content
        /\ \A j \in Key : j # k => artifact'[j] = artifact[j]
    BY <1>1, <2>1 DEF Store, TypeOK
  <2>7. \A j \in Key : j \in expired /\ artifact[j] = None => artifact'[j] = None
    BY <1>1, <2>6 DEF PutAccepted
  <2> HIDE DEF r, k
  <2>8. \A j \in Key : SagaHolds(j)'
    BY <2>1, <2>6 DEF CaptureInv, SagaHolds
  <2>9. \A j \in Key : BytesHold(j)'
    BY <2>1, <2>6 DEF CaptureInv, BytesHold
  <2>10. \A d \in Caller : CallHolds(d)'
    <3>1. CallHolds(c)'
      BY <2>1, <2>4, <2>5, <2>6 DEF CallHolds
    <3>2. ASSUME NEW d \in Caller, d # c
          PROVE  CallHolds(d)'
      <4>1. call'[d] = call[d] /\ CallHolds(d)
        BY <2>5, <3>2 DEF CaptureInv
      <4>2. QED
        BY <2>1, <2>6, <4>1 DEF CallHolds
    <3>3. QED
      BY <3>1, <3>2
  <2>11. \A a \in Admin : ErasureHolds(a)'
    BY <2>7 DEF CaptureInv, ErasureHolds
  <2>12. DeletedIsGone' /\ DeletedIsOurs'
    BY <2>7 DEF CaptureInv, DeletedIsGone, DeletedIsOurs
  <2>13. QED
    BY <2>8, <2>9, <2>10, <2>11, <2>12 DEF CaptureInv
<1>2. QED
  BY <1>0, <1>1

\* The one transaction: the call's saga is pending, and its bytes are there.
LEMMA CommitInv ==
    ASSUME TypeOK, TypeOK', CaptureInv, NEW c \in Caller, CommitCapture(c)
    PROVE  CaptureInv'
<1> DEFINE k == call[c].key
<1>1. CASE evidence[k] # NoEvidence
  BY <1>1, ReturnInv DEF CommitCapture, deleting
<1>2. CASE evidence[k] = NoEvidence
  <2>1. /\ k \in Key /\ k \in Id
        /\ saga[k].status # "none"
        /\ saga[k].content = call[c].content /\ saga[k].class = call[c].class
        /\ artifact[k] = call[c].content
    BY <1>2, LiveKey DEF CommitCapture, CaptureInv, CallHolds
  <2>2. call'[c] = Idle /\ \A d \in Caller : d # c => call'[d] = call[d]
    BY ReturnBecomes, BecomesType DEF CommitCapture, TypeOK
  <2>3. /\ saga'[k].status = "committed"
        /\ saga'[k].content = saga[k].content /\ saga'[k].class = saga[k].class
        /\ \A j \in Key : j # k => saga'[j] = saga[j]
    BY <1>2, <2>1 DEF CommitCapture, CompleteSaga, TypeOK, SagaRow
  <2>4. /\ evidence'[k] = [integrity |-> "verified", content |-> call[c].content,
                           class |-> call[c].class]
        /\ \A j \in Key : j # k => evidence'[j] = evidence[j]
    BY <1>2, <2>1 DEF CommitCapture, AddEvidence, VerifiedEvidence, TypeOK, Id
  <2>5. remembered' = remembered \cup {k}
    BY <1>2 DEF CommitCapture, Remember
  <2>6. UNCHANGED <<artifact, deletion, expired, erasure>>
    BY DEF CommitCapture, deleting
  <2>7. Idle.pc = "idle" /\ Idle.key = None
    BY DEF Idle
  <2> HIDE DEF k
  <2>8. \A j \in Key : SagaHolds(j)'
    <3>1. ASSUME NEW j \in Key, j = k
          PROVE  SagaHolds(j)'
      <4>1. SagaHolds(j)
        BY DEF CaptureInv
      <4>2. QED
        BY <2>1, <2>3, <2>4, <2>5, <2>6, <3>1, <4>1 DEF SagaHolds
    <3>2. ASSUME NEW j \in Key, j # k
          PROVE  SagaHolds(j)'
      <4>1. SagaHolds(j) /\ saga'[j] = saga[j] /\ evidence'[j] = evidence[j]
        BY <2>3, <2>4, <3>2 DEF CaptureInv
      <4>2. QED
        BY <2>5, <2>6, <4>1 DEF SagaHolds
    <3>3. QED
      BY <3>1, <3>2
  <2>9. \A j \in Key : BytesHold(j)'
    BY <2>1, <2>2, <2>3, <2>6, <2>7, NoneType DEF CaptureInv, BytesHold
  <2>10. \A d \in Caller : CallHolds(d)'
    <3>1. CallHolds(c)'
      BY <2>2, <2>7 DEF CallHolds
    <3>2. ASSUME NEW d \in Caller, d # c
          PROVE  CallHolds(d)'
      <4>1. call'[d] = call[d] /\ CallHolds(d)
        BY <2>2, <3>2 DEF CaptureInv
      <4>2. /\ call[d].pc # "idle" => call[d].key \in Id
            /\ call[d].key \in Id /\ evidence'[call[d].key] = NoEvidence =>
                 evidence[call[d].key] = NoEvidence
        BY <1>2, <2>1, LiveKey DEF CommitCapture, AddEvidence, VerifiedEvidence, NoEvidence, TypeOK
      <4>3. QED
        BY <2>3, <2>6, <4>1, <4>2 DEF CallHolds
    <3>3. QED
      BY <3>1, <3>2
  <2>11. \A i \in Id : evidence[i] # NoEvidence => evidence'[i] # NoEvidence
    BY <1>2, <2>1 DEF CommitCapture, AddEvidence, VerifiedEvidence, NoEvidence, TypeOK
  <2>12. (\A a \in Admin : ErasureHolds(a)') /\ DeletedIsGone' /\ DeletedIsOurs'
    BY <2>6, <2>11 DEF CaptureInv, ErasureHolds, DeletedIsGone, DeletedIsOurs
  <2>13. QED
    BY <2>8, <2>9, <2>10, <2>12 DEF CaptureInv
<1>3. QED
  BY <1>1, <1>2

LEMMA CaptureStepInv ==
    ASSUME TypeOK, TypeOK', CaptureInv, NEW c \in Caller, CaptureStep(c)
    PROVE  CaptureInv'
<1> USE DEF deleting
<1>1. CASE Recover(c)
  BY <1>1, GotoInv, ReturnInv DEF Recover, AfterRecovery, CallPc
<1>2. CASE Restore(c)
  BY <1>2, StoresInv DEF Restore
<1>3. CASE StoreArtifact(c)
  BY <1>3, StoresInv DEF StoreArtifact
<1>4. CASE VerifyArtifact(c)
  BY <1>4, GotoInv, ReturnInv DEF VerifyArtifact, Retrievable, CallPc
<1>5. QED
  BY <1>1, <1>2, <1>3, <1>4, LoadSagaInv, ObserveInv, StartSagaInv, CommitInv DEF CaptureStep

\* The steps of a deletion leave sagas, Evidence and captures alone.
LEMMA SagaStays ==
    ASSUME CaptureInv, UNCHANGED <<capturing, artifact>>
    PROVE  (\A k \in Key : SagaHolds(k)') /\ (\A c \in Caller : CallHolds(c)')
BY DEF CaptureInv, capturing, SagaHolds, CallHolds

\* A deletion that has not erased anything, and one that is over, promise little.
LEMMA ErasureMoves ==
    ASSUME TypeOK, CaptureInv, NEW a \in Admin,
           \A b \in Admin : b # a => erasure'[b] = erasure[b],
           ErasureHolds(a)', UNCHANGED <<capturing, artifact, deletion, expired>>
    PROVE  CaptureInv'
<1>1. (\A k \in Key : SagaHolds(k)') /\ (\A c \in Caller : CallHolds(c)')
  BY SagaStays
<1>2. \A k \in Key : BytesHold(k)'
  BY DEF CaptureInv, BytesHold, capturing
<1>3. \A b \in Admin : ErasureHolds(b)'
  BY DEF CaptureInv, ErasureHolds, capturing
<1>4. DeletedIsGone' /\ DeletedIsOurs'
  BY DEF CaptureInv, DeletedIsGone, DeletedIsOurs
<1>5. QED
  BY <1>1, <1>2, <1>3, <1>4 DEF CaptureInv

LEMMA RequestInv ==
    ASSUME TypeOK, CaptureInv, NEW a \in Admin, RequestDeletion(a)
    PROVE  CaptureInv'
<1>1. erasure[a].id \in Id /\ evidence[erasure[a].id] # NoEvidence
  BY DEF RequestDeletion, CaptureInv, ErasureHolds
<1>2. /\ deletion'[erasure[a].id] = "requested"
      /\ \A i \in Id : i # erasure[a].id => deletion'[i] = deletion[i]
  BY <1>1 DEF RequestDeletion, TypeOK
<1>3. /\ erasure'[a].pc = "erase" /\ erasure'[a].id = erasure[a].id
      /\ \A b \in Admin : b # a => erasure'[b] = erasure[b]
  BY DEF RequestDeletion, TypeOK, ErasureRow
<1>4. UNCHANGED <<capturing, artifact, expired>>
  BY DEF RequestDeletion
<1>5. (\A k \in Key : SagaHolds(k)') /\ (\A c \in Caller : CallHolds(c)')
  BY <1>4, SagaStays
<1>6. \A k \in Key : BytesHold(k)'
  BY <1>2, <1>4 DEF CaptureInv, BytesHold, capturing, Id
<1>7. \A b \in Admin : ErasureHolds(b)'
  <2>1. ErasureHolds(a)'
    BY <1>1, <1>2, <1>3, <1>4 DEF ErasureHolds, capturing
  <2>2. ASSUME NEW b \in Admin, b # a
        PROVE  ErasureHolds(b)'
    <3>1. erasure'[b] = erasure[b] /\ ErasureHolds(b)
      BY <1>3, <2>2 DEF CaptureInv
    <3>2. QED
      BY <1>2, <1>4, <3>1 DEF ErasureHolds, capturing
  <2>3. QED
    BY <2>1, <2>2
<1>8. DeletedIsGone' /\ DeletedIsOurs'
  BY <1>2, <1>4 DEF CaptureInv, DeletedIsGone, DeletedIsOurs
<1>9. QED
  BY <1>5, <1>6, <1>7, <1>8 DEF CaptureInv

\* Bytes are erased after the retention period and once there is Evidence, so that no call on
\* their key has a commit to make.
LEMMA EraseInv ==
    ASSUME TypeOK, CaptureInv, NEW a \in Admin, Erase(a)
    PROVE  CaptureInv'
<1>1. /\ erasure[a].id \in Id /\ deletion[erasure[a].id] # "none"
      /\ evidence[erasure[a].id] # NoEvidence
  BY DEF Erase, CaptureInv, ErasureHolds
<1>2. PICK result \in {"failed", "retention_blocked", "deleted"} :
         /\ Concludes(a, result)
         /\ result = "deleted" => /\ erasure[a].id \in expired \cap Key
                                  /\ artifact' = [artifact EXCEPT ![erasure[a].id] = None]
  BY DEF Erase, RetentionBlocks
<1>3. /\ erasure'[a].pc = "final" /\ erasure'[a].id = erasure[a].id /\ erasure'[a].result = result
      /\ \A b \in Admin : b # a => erasure'[b] = erasure[b]
  BY <1>2 DEF Concludes, TypeOK, ErasureRow
<1>4. /\ \A k \in Key : k # erasure[a].id => artifact'[k] = artifact[k]
      /\ \A k \in Key : artifact'[k] \in {artifact[k], None}
      /\ \A k \in Key : k \notin expired => artifact'[k] = artifact[k]
  BY DEF Erase, RetentionBlocks, TypeOK
<1>5. result = "deleted" => artifact'[erasure[a].id] = None
  BY <1>2 DEF TypeOK
<1>6. UNCHANGED <<capturing, deletion, expired>>
  BY DEF Erase
<1>7. \A k \in Key : SagaHolds(k)'
  BY <1>4, <1>6 DEF CaptureInv, SagaHolds, capturing
<1>8. \A k \in Key : BytesHold(k)'
  <2> SUFFICES ASSUME NEW k \in Key PROVE BytesHold(k)'
    OBVIOUS
  <2>1. BytesHold(k) /\ saga' = saga /\ call' = call /\ artifact'[k] \in {artifact[k], None}
    BY <1>4, <1>6 DEF CaptureInv, capturing
  <2>2. artifact'[k] # artifact[k] => k \in expired /\ deletion[k] # "none"
    BY <1>1, <1>4
  <2>3. QED
    BY <1>6, <2>1, <2>2 DEF BytesHold
<1>9. \A c \in Caller : CallHolds(c)'
  <2> SUFFICES ASSUME NEW c \in Caller PROVE CallHolds(c)'
    OBVIOUS
  <2>1. CallHolds(c) /\ saga' = saga /\ call' = call /\ evidence' = evidence
    BY <1>6 DEF CaptureInv, capturing
  <2>2. call[c].pc # "idle" /\ evidence[call[c].key] = NoEvidence =>
          artifact'[call[c].key] = artifact[call[c].key]
    BY <1>1, <1>4, LiveKey
  <2>3. QED
    BY <2>1, <2>2 DEF CallHolds
<1>10. \A b \in Admin : ErasureHolds(b)'
  <2>1. ErasureHolds(a)'
    BY <1>1, <1>2, <1>3, <1>5, <1>6 DEF ErasureHolds, capturing
  <2>2. ASSUME NEW b \in Admin, b # a
        PROVE  ErasureHolds(b)'
    <3>1. erasure'[b] = erasure[b] /\ ErasureHolds(b)
      BY <1>3, <2>2 DEF CaptureInv
    <3>2. QED
      BY <1>4, <1>6, <3>1 DEF ErasureHolds, capturing
  <2>3. QED
    BY <2>1, <2>2
<1>11. DeletedIsGone' /\ DeletedIsOurs'
  BY <1>4, <1>6 DEF CaptureInv, DeletedIsGone, DeletedIsOurs
<1>12. QED
  BY <1>7, <1>8, <1>9, <1>10, <1>11 DEF CaptureInv

LEMMA FinalizeInv ==
    ASSUME TypeOK, CaptureInv, NEW a \in Admin, FinalizeDeletion(a)
    PROVE  CaptureInv'
<1>1. /\ erasure[a].id \in Id /\ erasure[a].result # "none"
      /\ erasure[a].result = "deleted" => erasure[a].id \in expired \cap Key /\ artifact[erasure[a].id] = None
  BY DEF FinalizeDeletion, CaptureInv, ErasureHolds
<1>2. /\ deletion'[erasure[a].id] = erasure[a].result
      /\ \A i \in Id : i # erasure[a].id => deletion'[i] = deletion[i]
  BY <1>1 DEF FinalizeDeletion, TypeOK
<1>3. erasure'[a] = NoErasure /\ \A b \in Admin : b # a => erasure'[b] = erasure[b]
  BY DEF FinalizeDeletion, TypeOK
<1>4. UNCHANGED <<capturing, artifact, expired>>
  BY DEF FinalizeDeletion
<1>5. (\A k \in Key : SagaHolds(k)') /\ (\A c \in Caller : CallHolds(c)')
  BY <1>4, SagaStays
<1>6. \A k \in Key : BytesHold(k)'
  BY <1>1, <1>2, <1>4 DEF CaptureInv, BytesHold, capturing, Id
<1>7. \A b \in Admin : ErasureHolds(b)'
  <2>1. ErasureHolds(a)'
    BY <1>3 DEF ErasureHolds, NoErasure
  <2>2. ASSUME NEW b \in Admin, b # a
        PROVE  ErasureHolds(b)'
    <3>1. erasure'[b] = erasure[b] /\ ErasureHolds(b)
      BY <1>3, <2>2 DEF CaptureInv
    <3>2. QED
      BY <1>1, <1>2, <1>4, <3>1 DEF ErasureHolds, capturing
  <2>3. QED
    BY <2>1, <2>2
<1>8. DeletedIsGone' /\ DeletedIsOurs'
  BY <1>1, <1>2, <1>4 DEF CaptureInv, DeletedIsGone, DeletedIsOurs
<1>9. QED
  BY <1>5, <1>6, <1>7, <1>8 DEF CaptureInv

\* The end of a retention period takes nothing away; it only allows.
LEMMA RetentionInv ==
    ASSUME TypeOK, CaptureInv, NEW i \in Id, RetentionEnds(i)
    PROVE  CaptureInv'
<1>1. UNCHANGED <<capturing, artifact, deletion, erasure>> /\ expired' = expired \cup {i}
  BY DEF RetentionEnds
<1>2. (\A j \in Key : SagaHolds(j)') /\ (\A c \in Caller : CallHolds(c)')
  BY <1>1, SagaStays
<1>3. \A j \in Key : BytesHold(j)'
  BY <1>1 DEF CaptureInv, BytesHold, capturing
<1>4. (\A a \in Admin : ErasureHolds(a)') /\ DeletedIsGone' /\ DeletedIsOurs'
  BY <1>1 DEF CaptureInv, ErasureHolds, DeletedIsGone, DeletedIsOurs, capturing
<1>5. QED
  BY <1>2, <1>3, <1>4 DEF CaptureInv

LEMMA NextInv ==
    ASSUME TypeOK, TypeOK', CaptureInv, [Next]_vars
    PROVE  CaptureInv'
<1>1. CASE ActionSucceeds \/ UNCHANGED vars
  <2>1. UNCHANGED <<saga, evidence, remembered, call, artifact, deletion, expired, erasure>>
    BY <1>1 DEF ActionSucceeds, vars, capturing, deleting
  <2>2. QED
    BY <2>1 DEF CaptureInv, SagaHolds, BytesHold, CallHolds, ErasureHolds, DeletedIsGone,
       DeletedIsOurs
<1>2. ASSUME NEW i \in Manual, RecordEvidence(i)
      PROVE  CaptureInv'
  <2>1. /\ \A k \in Key : evidence'[k] = evidence[k]
        /\ \A j \in Id : evidence[j] # NoEvidence => evidence'[j] = evidence[j]
    BY <1>2, EvidenceAssumption DEF RecordEvidence, TypeOK, Id
  <2>2. UNCHANGED <<saga, remembered, call, artifact, deletion, expired, erasure>>
    BY <1>2 DEF RecordEvidence, deleting
  <2>3. QED
    BY <2>1, <2>2 DEF CaptureInv, SagaHolds, BytesHold, CallHolds, ErasureHolds, DeletedIsGone,
       DeletedIsOurs
<1>3. ASSUME NEW c \in Caller, CaptureDies(c)
      PROVE  CaptureInv'
  BY <1>3, ReturnInv DEF CaptureDies, deleting
<1>4. ASSUME NEW a \in Admin, DeletionStep(a)
      PROVE  CaptureInv'
  BY <1>4, RequestInv, EraseInv, FinalizeInv DEF DeletionStep
<1>5. ASSUME NEW a \in Admin, DeletionDies(a)
      PROVE  CaptureInv'
  <2>1. erasure'[a] = NoErasure /\ \A b \in Admin : b # a => erasure'[b] = erasure[b]
    BY <1>5 DEF DeletionDies, TypeOK
  <2>2. ErasureHolds(a)'
    BY <2>1 DEF ErasureHolds, NoErasure
  <2>3. QED
    BY <1>5, <2>1, <2>2, ErasureMoves DEF DeletionDies
<1>6. ASSUME NEW a \in Admin, NEW i \in Id, BeginDeletion(a, i)
      PROVE  CaptureInv'
  <2>1. /\ erasure'[a].pc = "request" /\ erasure'[a].id = i
        /\ \A b \in Admin : b # a => erasure'[b] = erasure[b]
    BY <1>6 DEF BeginDeletion, TypeOK, ErasureRow
  <2>2. ErasureHolds(a)'
    BY <1>6, <2>1 DEF ErasureHolds, BeginDeletion, capturing
  <2>3. QED
    BY <1>6, <2>1, <2>2, ErasureMoves DEF BeginDeletion
<1>7. QED
  BY <1>1, <1>2, <1>3, <1>4, <1>5, <1>6, CaptureStepInv, BeginCaptureInv, RetentionInv DEF Next

\* Types and the invariant are proved together: a call that is not idle has a key.
LEMMA Inductive == Spec => [](TypeOK /\ CaptureInv)
<1>1. Init => TypeOK /\ CaptureInv
  BY InitType, InitInv
<1>2. TypeOK /\ CaptureInv /\ [Next]_vars => (TypeOK /\ CaptureInv)'
  BY NextType, NextInv
<1>3. QED
  BY <1>1, <1>2, PTL DEF Spec

-----------------------------------------------------------------------------
(* Theorems.                                                                *)

\* Rows, objects and calls of captures and deletions hold values the code knows, whichever
\* calls overlap or die.
THEOREM EvidenceTypeCorrect == Spec => []TypeOK
BY Inductive, PTL

\* capture_authoritative_evidence: verified Evidence has the bytes its intent announced, for any
\* number of keys, callers, deletions and faults.
THEOREM VerifiedBacked == Spec => []VerifiedIsBacked
<1>1. TypeOK /\ CaptureInv => VerifiedIsBacked
  <2> SUFFICES ASSUME TypeOK, CaptureInv, NEW k \in Key, evidence[k].integrity = "verified"
               PROVE  VerifiedIsBacked!(k)!2
    BY DEF VerifiedIsBacked
  <2>1. SagaHolds(k) /\ BytesHold(k)
    BY DEF CaptureInv
  <2>2. saga[k].status = "committed"
    BY <2>1 DEF SagaHolds, NoEvidence
  <2>3. /\ evidence[k].content = saga[k].content /\ evidence[k].class = saga[k].class
        /\ saga[k].content \in Content /\ Admitted(saga[k].content)
        /\ saga[k].class = Effective(saga[k].content)
    BY <2>1, <2>2 DEF SagaHolds
  <2>4. saga[k] = [status |-> "committed", content |-> evidence[k].content, class |-> evidence[k].class]
    BY <2>2, <2>3 DEF TypeOK, SagaRow
  <2>5. /\ Detected[evidence[k].content] # "secret"
        /\ Rank[evidence[k].class] \in Rank[DetectedClass(evidence[k].content)]..Rank[Maximum]
    BY <2>3, AdmittedRank
  <2>6. \/ artifact[k] = evidence[k].content
        \/ artifact[k] = None /\ k \in expired /\ deletion[k] # "none"
    BY <2>1, <2>2, <2>3 DEF BytesHold
  <2>7. QED
    BY <2>4, <2>5, <2>6
<1>2. QED
  BY <1>1, Inductive, PTL

\* request_evidence_deletion: a deletion recorded as done is done and stays done, although
\* captures of the same key may be anywhere in their recovery while it goes on: the invariant
\* has no call wait for a deletion, a put of deleted bytes is refused for its retention date.
THEOREM DeletedGone == Spec => []DeletedIsGone
<1>1. CaptureInv => DeletedIsGone
  BY DEF CaptureInv
<1>2. QED
  BY <1>1, Inductive, PTL

=============================================================================

--------------------------- MODULE EvidenceCapture ---------------------------
(***************************************************************************)
(* Capture and deletion of Evidence artifacts: an intent in the database,  *)
(* the bytes in an object store under retention, the Evidence row, and a   *)
(* tombstone when the bytes are deleted.  The object store and the         *)
(* database share no transaction, so a capture is a saga that a retry with *)
(* the same idempotency key takes up where it was left.                    *)
(*                                                                         *)
(* The Evidence id is derived from the idempotency key, so a key stands    *)
(* for both.  A content stands for its digest.  Time is the end of the     *)
(* retention period, which the intent fixes: it may come while the saga is *)
(* pending, while calls recover it and while others delete.                *)
(* External: the authority that is read back, the object store.            *)
(***************************************************************************)
EXTENDS Integers, FiniteSets

CONSTANTS
    Key,             \* keys of authoritative captures
    Manual,          \* ids of Evidence recorded by hand
    Content, None,
    Detected,        \* what the patterns find in a content
    Declared,        \* classification the command declares
    Maximum,         \* maximum classification of the Goal
    Caller, Admin,   \* concurrent captures; concurrent deletions
    MaxFaults        \* bound: crashes and errors of the object store

Rank == [public |-> 0, internal |-> 1, confidential |-> 2, restricted |-> 3]

ASSUME EvidenceAssumption ==
    /\ Key \cap Manual = {} /\ None \notin Content \cup Key \cup Manual
    /\ Detected \in [Content -> {"empty", "secret", "pii", "plain"}]
    /\ Declared \in DOMAIN Rank /\ Maximum \in DOMAIN Rank
    /\ MaxFaults \in Nat

VARIABLES
    succeeded,   \* the Action has succeeded
    saga,        \* evidence_capture_sagas
    evidence,    \* evidence table
    remembered,  \* idempotency records
    artifact,    \* object store
    deletion,    \* evidence_deletions
    expired,     \* Evidence and intents whose retention period is over
    call,        \* captures in flight
    erasure,     \* deletions in flight
    faults

vars == <<succeeded, saga, evidence, remembered, artifact, deletion, expired, call, erasure, faults>>
capturing == <<saga, evidence, remembered, call>>
deleting == <<deletion, erasure, expired>>

Id == Key \cup Manual
NoSaga == [status |-> "none", content |-> None, class |-> "none"]
NoEvidence == [integrity |-> "none", content |-> None, class |-> "none"]
Idle == [pc |-> "idle", key |-> None, content |-> None, class |-> "none"]
NoErasure == [pc |-> "idle", id |-> None, result |-> "none"]

Init ==
    /\ succeeded = FALSE
    /\ saga = [k \in Key |-> NoSaga]
    /\ evidence = [i \in Id |-> NoEvidence]
    /\ remembered = {}
    /\ artifact = [k \in Key |-> None]
    /\ deletion = [i \in Id |-> "none"]
    /\ expired = {}
    /\ call = [c \in Caller |-> Idle]
    /\ erasure = [a \in Admin |-> NoErasure]
    /\ faults = 0

Class == DOMAIN Rank \cup {"none"}
CallPc == {"idle", "load", "recover", "restore", "observe", "start", "store", "verify", "commit"}
SagaRow == [status : {"none", "pending", "committed"}, content : Content \cup {None}, class : Class]
EvidenceRow ==
    [integrity : {"none", "unverified", "verified"}, content : Content \cup {None}, class : Class]
CallRow == [pc : CallPc, key : Key \cup {None}, content : Content \cup {None}, class : Class]
ErasureRow ==
    [pc : {"idle", "request", "erase", "final"}, id : Id \cup {None},
     result : {"none", "failed", "retention_blocked", "deleted"}]

\* Rows, objects and calls hold values the code knows.
TypeOK ==
    /\ succeeded \in BOOLEAN
    /\ saga \in [Key -> SagaRow]
    /\ evidence \in [Id -> EvidenceRow]
    /\ remembered \subseteq Key
    /\ artifact \in [Key -> Content \cup {None}]
    /\ deletion \in [Id -> {"none", "requested", "failed", "retention_blocked", "deleted"}]
    /\ expired \subseteq Id
    /\ call \in [Caller -> CallRow]
    /\ erasure \in [Admin -> ErasureRow]
    /\ faults \in 0..MaxFaults

Fault == faults < MaxFaults /\ faults' = faults + 1

ActionSucceeds ==
    /\ ~succeeded
    /\ succeeded' = TRUE
    /\ UNCHANGED <<capturing, artifact, deleting, faults>>

\* record_evidence: unverified Evidence of a succeeded Action, with no artifact of ours.
RecordEvidence(i) ==
    /\ succeeded
    /\ evidence[i] = NoEvidence
    /\ evidence' = [evidence EXCEPT ![i].integrity = "unverified"]
    /\ UNCHANGED <<succeeded, saga, remembered, call, artifact, deleting, faults>>

-----------------------------------------------------------------------------
(* EvidenceAdmissionPolicy.                                                 *)

DetectedClass(content) == IF Detected[content] = "pii" THEN "confidential" ELSE "internal"

\* The higher of the declared and the detected classification.
Effective(content) ==
    IF Rank[Declared] >= Rank[DetectedClass(content)] THEN Declared ELSE DetectedClass(content)

\* admit: no empty content, no secret, nothing above what the Goal allows.
Admitted(content) ==
    /\ Detected[content] \notin {"empty", "secret"}
    /\ Rank[Effective(content)] <= Rank[Maximum]

-----------------------------------------------------------------------------
(* MinioEvidenceStore over the object store.                                *)

\* Mutant: the put names no retention date.
NoLockDate(k) == TRUE

\* An object that head_object finds is not put again.  put_object names COMPLIANCE mode and
\* retained_until, and S3 refuses a date that has passed (external, and taken to go by the
\* clock that delete goes by; the object store of the unit tests does not refuse it).
PutAccepted(k) == artifact[k] # None \/ k \notin expired

Goto(c, pc) == call' = [call EXCEPT ![c].pc = pc]
Return(c) == call' = [call EXCEPT ![c] = Idle]

\* store: a content-addressed put; what is there already stays.  A refusal ends the call.
Store(c, next) ==
    LET k == call[c].key
    IN  IF PutAccepted(k)
        THEN /\ artifact' = [artifact EXCEPT ![k] = IF @ = None THEN call[c].content ELSE @]
             /\ Goto(c, next)
        ELSE Return(c) /\ UNCHANGED artifact

\* retrieve_verified: the bytes are there and have the expected digest.
Retrievable(k, content) == artifact[k] = content

-----------------------------------------------------------------------------
(* capture_authoritative_evidence.                                          *)

\* get_idempotency: a key that has its answer is answered with it.
Known(k) == k \in remembered

BeginCapture(c, k) ==
    /\ call[c] = Idle /\ ~Known(k)
    /\ call' = [call EXCEPT ![c].pc = "load", ![c].key = k]
    /\ UNCHANGED <<succeeded, saga, evidence, remembered, artifact, deleting, faults>>

\* The idempotency record was missing; is there a saga of this key?
LoadSaga(c) ==
    LET known == saga[call[c].key]
    IN  /\ call[c].pc = "load"
        /\ CASE known.status = "none"      -> Goto(c, "observe")
             [] known.status = "committed" -> Return(c)
             [] known.status = "pending"   ->
                  call' = [call EXCEPT ![c].pc = "recover", ![c].content = known.content,
                                       ![c].class = known.class]
        /\ UNCHANGED <<succeeded, saga, evidence, remembered, artifact, deleting, faults>>

\* Mutant: a pending saga is nobody's to finish.
NeverRecovers(c) == Return(c)

\* The artifact of a pending saga must be there; otherwise the retry fails, like every later one.
AfterRecovery(c) ==
    IF Retrievable(call[c].key, call[c].content) THEN Goto(c, "restore") ELSE Return(c)

Recover(c) ==
    /\ call[c].pc = "recover"
    /\ AfterRecovery(c)
    /\ UNCHANGED <<succeeded, saga, evidence, remembered, artifact, deleting, faults>>

Restore(c) ==
    /\ call[c].pc = "restore"
    /\ Store(c, "commit")
    /\ UNCHANGED <<succeeded, saga, evidence, remembered, deleting, faults>>

\* The authority answers with its present state.
Observe(c, content) ==
    /\ call[c].pc = "observe"
    /\ IF succeeded /\ Admitted(content)
       THEN call' = [call EXCEPT ![c].pc = "start", ![c].content = content,
                                 ![c].class = Effective(content)]
       ELSE Return(c)
    /\ UNCHANGED <<succeeded, saga, evidence, remembered, artifact, deleting, faults>>

\* Mutant: a later intent replaces the earlier one.
OverwritesIntent(c) ==
    /\ call[c].pc = "start"
    /\ saga' = [saga EXCEPT ![call[c].key] = [status |-> "pending", content |-> call[c].content,
                                             class |-> call[c].class]]
    /\ Goto(c, "store")
    /\ UNCHANGED <<succeeded, evidence, remembered, artifact, deleting, faults>>

\* start_evidence_capture: the intent.  Another one under this key was captured at another
\* time, and two different intents conflict.
StartSaga(c) ==
    LET k == call[c].key
    IN  /\ call[c].pc = "start"
        /\ IF saga[k] = NoSaga
           THEN /\ saga' = [saga EXCEPT ![k] = [status |-> "pending", content |-> call[c].content,
                                                class |-> call[c].class]]
                /\ Goto(c, "store")
           ELSE Return(c) /\ UNCHANGED saga
        /\ UNCHANGED <<succeeded, evidence, remembered, artifact, deleting, faults>>

StoreArtifact(c) ==
    /\ call[c].pc = "store"
    /\ Store(c, "verify")
    /\ UNCHANGED <<succeeded, saga, evidence, remembered, deleting, faults>>

VerifyArtifact(c) ==
    /\ call[c].pc = "verify"
    /\ IF Retrievable(call[c].key, call[c].content) THEN Goto(c, "commit") ELSE Return(c)
    /\ UNCHANGED <<succeeded, saga, evidence, remembered, artifact, deleting, faults>>

\* The Evidence of the call's saga, and the three writes that make it one: the row, the end of
\* a pending saga, and the idempotency record.
VerifiedEvidence(c) ==
    [integrity |-> "verified", content |-> call[c].content, class |-> call[c].class]
AddEvidence(k, item) == evidence' = [evidence EXCEPT ![k] = item]
CompleteSaga(k) == saga' = [saga EXCEPT ![k].status = "committed"]
Remember(k) == remembered' = remembered \cup {k}

\* _commit_evidence_capture: the Evidence, the end of the saga and the idempotency record in
\* one transaction, of which the Evidence id allows one.
CommitCapture(c) ==
    LET k == call[c].key
    IN  /\ call[c].pc = "commit"
        /\ IF evidence[k] = NoEvidence
           THEN AddEvidence(k, VerifiedEvidence(c)) /\ CompleteSaga(k) /\ Remember(k)
           ELSE UNCHANGED <<evidence, saga, remembered>>
        /\ Return(c)
        /\ UNCHANGED <<succeeded, artifact, deleting, faults>>

CaptureDies(c) ==
    /\ call[c] # Idle
    /\ Fault
    /\ Return(c)
    /\ UNCHANGED <<succeeded, saga, evidence, remembered, artifact, deleting>>

CaptureStep(c) ==
    \/ LoadSaga(c) \/ Recover(c) \/ Restore(c) \/ (\E content \in Content : Observe(c, content))
    \/ StartSaga(c) \/ StoreArtifact(c) \/ VerifyArtifact(c) \/ CommitCapture(c)

-----------------------------------------------------------------------------
(* request_evidence_deletion.                                               *)

\* retained_until is fixed by the intent, or with the row of Evidence recorded by hand.
Dated(i) == IF i \in Key THEN saga[i] # NoSaga ELSE evidence[i] # NoEvidence

RetentionEnds(i) ==
    /\ Dated(i) /\ i \notin expired
    /\ expired' = expired \cup {i}
    /\ UNCHANGED <<succeeded, capturing, artifact, deletion, erasure, faults>>

BeginDeletion(a, i) ==
    /\ erasure[a] = NoErasure
    /\ evidence[i] # NoEvidence
    /\ erasure' = [erasure EXCEPT ![a].pc = "request", ![a].id = i]
    /\ UNCHANGED <<succeeded, capturing, artifact, deletion, expired, faults>>

\* record_evidence_deletion overwrites the record of an earlier request.
RequestDeletion(a) ==
    /\ erasure[a].pc = "request"
    /\ deletion' = [deletion EXCEPT ![erasure[a].id] = "requested"]
    /\ erasure' = [erasure EXCEPT ![a].pc = "erase"]
    /\ UNCHANGED <<succeeded, capturing, artifact, expired, faults>>

Concludes(a, result) == erasure' = [erasure EXCEPT ![a].pc = "final", ![a].result = result]

\* delete refuses before the end of the retention period.
RetentionBlocks(i) == i \notin expired

Erase(a) ==
    LET i == erasure[a].id
    IN  /\ erasure[a].pc = "erase"
        /\ \/ /\ i \in Manual /\ ~RetentionBlocks(i)  \* not in the tenant's namespace
              /\ Concludes(a, "failed") /\ UNCHANGED <<artifact, faults>>
           \/ /\ RetentionBlocks(i)
              /\ Concludes(a, "retention_blocked") /\ UNCHANGED <<artifact, faults>>
           \/ /\ i \in Key /\ ~RetentionBlocks(i)
              /\ artifact' = [artifact EXCEPT ![i] = None]
              /\ Concludes(a, "deleted") /\ UNCHANGED faults
           \/ /\ i \in Key /\ ~RetentionBlocks(i)   \* an error of the store, before or after
              /\ Fault
              /\ artifact' \in {artifact, [artifact EXCEPT ![i] = None]}
              /\ Concludes(a, "failed")
        /\ UNCHANGED <<succeeded, capturing, deletion, expired>>

FinalizeDeletion(a) ==
    /\ erasure[a].pc = "final"
    /\ deletion' = [deletion EXCEPT ![erasure[a].id] = erasure[a].result]
    /\ erasure' = [erasure EXCEPT ![a] = NoErasure]
    /\ UNCHANGED <<succeeded, capturing, artifact, expired, faults>>

DeletionDies(a) ==
    /\ erasure[a] # NoErasure
    /\ Fault
    /\ erasure' = [erasure EXCEPT ![a] = NoErasure]
    /\ UNCHANGED <<succeeded, capturing, artifact, deletion, expired>>

DeletionStep(a) == RequestDeletion(a) \/ Erase(a) \/ FinalizeDeletion(a)

-----------------------------------------------------------------------------
Next ==
    \/ ActionSucceeds
    \/ \E i \in Manual : RecordEvidence(i)
    \/ \E c \in Caller : CaptureStep(c) \/ CaptureDies(c) \/ (\E k \in Key : BeginCapture(c, k))
    \/ \E i \in Id : RetentionEnds(i)
    \/ \E a \in Admin : DeletionStep(a) \/ DeletionDies(a) \/ (\E i \in Id : BeginDeletion(a, i))

\* Calls that run go on, and a client repeats its key until it is answered.
Fairness ==
    /\ \A c \in Caller : WF_vars(CaptureStep(c))
    /\ \A k \in Key : SF_vars(\E c \in Caller : BeginCapture(c, k))
    /\ \A a \in Admin : WF_vars(DeletionStep(a))

Spec == Init /\ [][Next]_vars /\ Fairness

-----------------------------------------------------------------------------
(* Properties.                                                              *)

\* Verified Evidence has its bytes in the store, the very ones its saga announced before they
\* were written and classified at least as high as what was found in them, until a deletion
\* was asked for and the retention period was over - whichever calls of its key overlapped,
\* died or took over from each other (capture_authoritative_evidence).
VerifiedIsBacked ==
    \A k \in Key : evidence[k].integrity = "verified" =>
        /\ saga[k] = [status |-> "committed", content |-> evidence[k].content,
                      class |-> evidence[k].class]
        /\ Detected[evidence[k].content] # "secret"
        /\ Rank[evidence[k].class] \in Rank[DetectedClass(evidence[k].content)]..Rank[Maximum]
        /\ \/ artifact[k] = evidence[k].content
           \/ artifact[k] = None /\ k \in expired /\ deletion[k] # "none"

\* A deletion that is recorded as done is done: no bytes are left, they were kept for their
\* retention period, and no capture brings them back, not even a recovery that read them
\* before the deletion and stores them after it (request_evidence_deletion, and the recovery
\* of capture_authoritative_evidence).
DeletedIsGone ==
    \A i \in Id : deletion[i] = "deleted" => i \in expired /\ artifact[i] = None

\* A capture whose bytes reached the store is completed by a retry of its key, wherever its
\* first call died (the recovery path of capture_authoritative_evidence).
StoredIsCommitted ==
    \A k \in Key : artifact[k] # None ~> saga[k].status = "committed"
=============================================================================

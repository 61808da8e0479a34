---------------------------- MODULE MemoryContext ----------------------------
(***************************************************************************)
(* Long-term memory and the contexts of Runs: observations pass the Write  *)
(* Gate into memory_records, a deletion follows the deletion graph, and    *)
(* prepare_run_context assembles the one snapshot of a Run from what it    *)
(* reads, which create_validated_plan then binds.                          *)
(*                                                                         *)
(* A use case is a READ COMMITTED transaction: every statement sees what   *)
(* others have committed by then, and its own writes appear at the commit. *)
(* Rows from before revision 0008 have no definition and no ledger entry.  *)
(*                                                                         *)
(* External: who writes observations, deletion edges and projections (the  *)
(* repository has no caller for them but tests), and the clock.  Nor does  *)
(* the repository connect MemoryWriteService to PostgreSQL: that its store *)
(* is add_memory, and that nothing else calls add_memory, is assumed.      *)
(***************************************************************************)
EXTENDS ContextAssembly

CONSTANTS
    Memory,      \* memory ids
    Observed,    \* the observation with each id
    Legacy,      \* ids stored before revision 0008
    Run, TenantOf,
    Request,     \* PrepareRunContext commands
    Key,         \* idempotency keys
    ApproverRoles,  \* sets of roles writers may show
    Caller, NoSnapshot,
    Indexed,     \* memories an indexer projects
    Derivation,  \* which memory may be derived from which
    MaxTime      \* bound of the clock

ASSUME MemoryAssumption ==
    /\ Legacy \subseteq Memory /\ Indexed \subseteq Memory /\ MaxTime \in Nat
    /\ Observed \in [Memory -> MemoryRecord] /\ TenantOf \in [Run -> STRING]
    /\ \A d \in Derivation : Observed[d[1]].tenant = Observed[d[2]].tenant
    /\ \A m \in Memory : ValidMemory(Observed[m])
    /\ \A request \in Request :
         /\ request.facts \in Seq(EnvironmentFact) /\ request.memories \subseteq Memory
         /\ \A i \in DOMAIN request.facts : ValidFact(request.facts[i])

VARIABLES
    clock,
    status,       \* memory_records: status of each id
    ledger,       \* memory_ledger
    journal,      \* what MemoryWriteService recorded of its writes
    edges,        \* memory_deletion_edges
    projections,  \* vector_index_projections
    context,      \* context_snapshots, one per Run
    plan,         \* the snapshot each Run's Plan is bound to
    remembered,   \* idempotency keys and the Run they answered for
    call,         \* transactions in flight
    late          \* history: edges, or their children, added behind a deletion's back

vars == <<clock, status, ledger, edges, projections, context, plan, remembered, call, late, journal>>
store == <<status, ledger, edges, projections, late, journal>>
contexts == <<context, plan, remembered>>

Idle == [op |-> "idle"]

Init ==
    /\ clock = 0
    /\ status = [m \in Memory |-> IF m \in Legacy THEN "stable" ELSE "none"]
    /\ ledger = {} /\ edges = {} /\ projections = {} /\ late = {} /\ journal = {}
    /\ context = [r \in Run |-> NoSnapshot]
    /\ plan = [r \in Run |-> NoSnapshot]
    /\ remembered = {}
    /\ call = [k \in Caller |-> Idle]

\* Transactions: a write and a preparation hold memories as they were read.
IsReading(memories) ==
    DOMAIN memories \subseteq Memory /\ memories \in [DOMAIN memories -> MemoryRecord]
IsWrite(c) ==
    /\ c \in [op : {"write"}, memory : Memory, roles : ApproverRoles, existing : {c.existing}]
    /\ IsReading(c.existing)
IsRecord(c) == c \in [op : {"record"}, memory : Memory, kind : {"write", "merge"}]
IsPrepare(c) ==
    /\ c \in [op : {"prepare"}, run : Run, request : Request, key : Key, read : {c.read},
              todo : SUBSET Memory, gone : SUBSET Memory]
    /\ IsReading(c.read)
IsInsert(c) ==
    /\ c \in [op : {"insert"}, run : Run, key : Key, gone : SUBSET Memory, at : 0..MaxTime,
              tenant : STRING, snapshot : {c.snapshot}]
    /\ c.snapshot.memories \subseteq Memory
IsDelete(c) == c \in [op : {"delete"}, root : Memory, affected : SUBSET Memory]
IsTombstone(c) == c \in [op : {"tombstone"}, root : Memory, existing : SUBSET Memory]
IsCall(c) ==
    \/ c = Idle
    \/ c.op = "write" /\ IsWrite(c)
    \/ c.op = "record" /\ IsRecord(c)
    \/ c.op = "prepare" /\ IsPrepare(c)
    \/ c.op = "insert" /\ IsInsert(c)
    \/ c.op = "delete" /\ IsDelete(c)
    \/ c.op = "tombstone" /\ IsTombstone(c)

\* Rows have a status the schema knows, references are to memory ids, and every transaction is
\* one of the code's.
TypeOK ==
    /\ clock \in 0..MaxTime
    /\ status \in [Memory -> {"none", "stable", "deleted"}]
    /\ ledger \subseteq ({"write"} \X Memory) \cup ({"delete"} \X Memory \X Memory)
    /\ edges \subseteq Memory \X Memory /\ late \subseteq edges
    /\ projections \subseteq Memory /\ journal \subseteq {"write", "merge"} \X Memory
    /\ context = [r \in Run |-> context[r]] /\ plan = [r \in Run |-> plan[r]]
    /\ \A r \in Run : context[r] = NoSnapshot \/ context[r].payload.memories \subseteq Memory
    /\ remembered \subseteq Key \X Run
    /\ call = [k \in Caller |-> call[k]] /\ \A k \in Caller : IsCall(call[k])

Start(k, transaction) == call[k] = Idle /\ call' = [call EXCEPT ![k] = transaction]
Return(k) == call' = [call EXCEPT ![k] = Idle]

\* memory_from_row: a row without a definition is internal, advisory and conflict-free.
FromRow(m) ==
    LET row == [Observed[m] EXCEPT !.status = status[m]]
    IN  IF m \in Legacy
        THEN [row EXCEPT !.class = "internal", !.trust = "advisory", !.pii = FALSE, !.keys = {}]
        ELSE row

-----------------------------------------------------------------------------
(* MemoryWriteService.write over list_memory and add_memory.                *)

\* The caller lists the tenant's memories that are not deleted; observations have fresh ids.
WriteLook(k, m, roles) ==
    /\ status[m] = "none"
    /\ LET listed == {x \in Memory : status[x] = "stable" /\ Observed[x].tenant = Observed[m].tenant}
       IN  Start(k, [op |-> "write", memory |-> m, roles |-> roles,
                     existing |-> [x \in listed |-> FromRow(x)]])
    /\ UNCHANGED <<clock, store, contexts>>

\* What a deletion in flight is about to take.
Collected(k) ==
    CASE call[k].op = "delete"    -> call[k].affected
      [] call[k].op = "tombstone" -> call[k].existing
      [] OTHER                    -> {}

\* The deletion of a parent has read the graph, or the rows, and takes no notice of the child.
Escapes(parent, child) ==
    \/ status[parent] = "deleted"
    \/ \E k \in Caller : parent \in Collected(k) /\ child \notin Collected(k)

\* add_memory: the row and its ledger entry.
AddMemory(m) ==
    /\ status' = [status EXCEPT ![m] = "stable"]
    /\ ledger' = ledger \cup {<<"write", m>>}
    /\ late' = late \cup {e \in edges : e[2] = m /\ Escapes(e[1], m)}

\* A rejected observation and a taken id raise; an accepted or merged one is stored as a memory
\* of its own.
Admit(k, decision) ==
    /\ call[k].op = "write"
    /\ LET m == call[k].memory
       IN  /\ decision \in GateDecisions(Observed[m], call[k].existing, call[k].roles, clock)
           /\ IF decision = "reject" \/ status[m] # "none"
              THEN Return(k) /\ UNCHANGED <<status, ledger, late>>
              ELSE /\ AddMemory(m)
                   /\ call' = [call EXCEPT ![k] =
                        [op |-> "record", memory |-> m,
                         kind |-> IF decision = "merge" THEN "merge" ELSE "write"]]
    /\ UNCHANGED <<clock, edges, projections, journal, contexts>>

\* The service's own record comes after the store's commit, and may be lost before it is made.
RecordWrite(k) ==
    /\ call[k].op = "record"
    /\ journal' = journal \cup {<<call[k].kind, call[k].memory>>}
    /\ Return(k)
    /\ UNCHANGED <<clock, status, ledger, edges, projections, late, contexts>>

-----------------------------------------------------------------------------
(* delete_memory.                                                           *)

\* A memory derived from another; no foreign key asks for either row.
Derive(parent, child) ==
    /\ <<parent, child>> \in Derivation \ edges
    /\ edges' = edges \cup {<<parent, child>>}
    /\ late' = IF Escapes(parent, child) THEN late \cup {<<parent, child>>} ELSE late
    /\ UNCHANGED <<clock, status, ledger, projections, journal, contexts, call>>

Project(m) ==
    /\ status[m] = "stable" /\ m \notin projections
    /\ projections' = projections \cup {m}
    /\ UNCHANGED <<clock, status, ledger, edges, late, journal, contexts, call>>

\* Mutant: the deletion graph is followed one step.
DirectChildren(root) == {root} \cup {m \in Memory : <<root, m>> \in edges}

\* The recursive query: the root and everything reachable from it.
Affected(root) ==
    LET closed(S) == root \in S /\ \A e \in edges : e[1] \in S => e[2] \in S
    IN  {m \in Memory : \A S \in SUBSET Memory : closed(S) => m \in S}

\* An id needs no row: what was derived from it is deleted all the same.
DeleteLook(k, root) ==
    /\ Start(k, [op |-> "delete", root |-> root, affected |-> Affected(root)])
    /\ UNCHANGED <<clock, store, contexts>>

\* The rows not deleted yet; without any the transaction ends.
DeleteExisting(k) ==
    /\ call[k].op = "delete"
    /\ LET existing == {m \in call[k].affected : status[m] = "stable"}
       IN  IF existing = {} THEN Return(k)
           ELSE call' = [call EXCEPT ![k] = [op |-> "tombstone", root |-> call[k].root,
                                             existing |-> existing]]
    /\ UNCHANGED <<clock, store, contexts>>

Entries(root, existing) == {<<"delete", m, root>> : m \in existing}

\* Two deletions may have listed the same row: both write it off.
Tombstone(k) ==
    /\ call[k].op = "tombstone"
    /\ status' = [m \in Memory |-> IF m \in call[k].existing THEN "deleted" ELSE status[m]]
    /\ projections' = projections \ call[k].existing
    /\ ledger' = ledger \cup Entries(call[k].root, call[k].existing)
    /\ Return(k)
    /\ UNCHANGED <<clock, edges, late, journal, contexts>>

-----------------------------------------------------------------------------
(* prepare_run_context and create_validated_plan.                           *)

\* A known key is answered with the Run's snapshot.
Prepare(k, r, request, key) ==
    /\ request.tenant = TenantOf[r]
    /\ <<key, r>> \notin remembered
    /\ Start(k, [op |-> "prepare", run |-> r, request |-> request, key |-> key,
                 read |-> [m \in {} |-> FromRow(m)], todo |-> request.memories,
                 gone |-> {m \in Memory : status[m] = "deleted"}])
    /\ UNCHANGED <<clock, store, contexts>>

\* get_memory, one id after the other; an unknown id, or one of another tenant, raises.
ReadMemory(k) ==
    /\ call[k].op = "prepare" /\ call[k].todo # {}
    /\ \E m \in call[k].todo :
         IF status[m] = "none" \/ Observed[m].tenant # call[k].request.tenant
         THEN Return(k)
         ELSE call' = [call EXCEPT ![k].todo = @ \ {m},
                           ![k].read = [x \in DOMAIN @ \cup {m} |-> IF x = m THEN FromRow(m) ELSE @[x]]]
    /\ UNCHANGED <<clock, store, contexts>>

\* The snapshot, with the conflicts the command itself reports.
AssembleContext(k) ==
    /\ call[k].op = "prepare" /\ call[k].todo = {}
    /\ LET assembled == Assemble(call[k].request, call[k].read, clock)
       IN  IF ValidSnapshot(assembled, call[k].request.tenant)
           THEN call' = [call EXCEPT ![k] =
                    [op |-> "insert", run |-> call[k].run, key |-> call[k].key, gone |-> call[k].gone,
                     at |-> clock, tenant |-> call[k].request.tenant,
                     snapshot |-> [assembled EXCEPT !.conflicts = @ \cup call[k].request.conflicts]]]
           ELSE Return(k)
    /\ UNCHANGED <<clock, store, contexts>>

SnapshotSlotFree(r) == context[r] = NoSnapshot

\* The row of a snapshot, with what was deleted when its preparation began and when it was
\* assembled; and the snapshot read back from it.
Row(k) == [payload |-> call[k].snapshot, digest |-> ContentDigest(call[k].snapshot, call[k].run),
           gone |-> call[k].gone, at |-> call[k].at]
ContextFromRow(r) == context[r].payload

\* add_context_snapshot, the audit event and the idempotency key, in one commit.
InsertContext(k) ==
    /\ call[k].op = "insert"
    /\ LET r == call[k].run
       IN  IF SnapshotSlotFree(r)
           THEN /\ context' = [context EXCEPT ![r] = Row(k)]
                /\ remembered' = remembered \cup {<<call[k].key, r>>}
           ELSE UNCHANGED <<context, remembered>>
    /\ Return(k)
    /\ UNCHANGED <<clock, store, plan>>

\* create_validated_plan: a pending Run is bound to its snapshot, if it has one.
CreatePlan(r) ==
    /\ context[r] # NoSnapshot /\ plan[r] = NoSnapshot
    /\ plan' = [plan EXCEPT ![r] = ContextFromRow(r)]
    /\ UNCHANGED <<clock, store, context, remembered, call>>

Rollback(k) == call[k] # Idle /\ Return(k) /\ UNCHANGED <<clock, store, contexts>>

Tick == clock < MaxTime /\ clock' = clock + 1 /\ UNCHANGED <<store, contexts, call>>

-----------------------------------------------------------------------------
Next ==
    \/ \E k \in Caller, m \in Memory, roles \in ApproverRoles : WriteLook(k, m, roles)
    \/ \E k \in Caller, decision \in {"reject", "merge", "accept"} : Admit(k, decision)
    \/ \E k \in Caller : RecordWrite(k)
    \/ \E parent, child \in Memory : Derive(parent, child)
    \/ \E m \in Indexed : Project(m)
    \/ \E k \in Caller, root \in Memory : DeleteLook(k, root)
    \/ \E k \in Caller : DeleteExisting(k) \/ Tombstone(k)
    \/ \E k \in Caller, r \in Run, request \in Request, key \in Key : Prepare(k, r, request, key)
    \/ \E k \in Caller : ReadMemory(k) \/ AssembleContext(k) \/ InsertContext(k)
    \/ \E r \in Run : CreatePlan(r)
    \/ \E k \in Caller : Rollback(k)
    \/ Tick

Spec == Init /\ [][Next]_vars

-----------------------------------------------------------------------------
(* Properties.                                                              *)

Snapshots == {r \in Run : context[r] # NoSnapshot}

\* What is forgotten stays out: a memory whose deletion had committed when the preparation of
\* a Run's context began is in no snapshot of it, although the row is still there and get_memory
\* still answers with it (delete_memory, check_memory).
ForgottenStaysOut == \A r \in Snapshots : context[r].payload.memories \cap context[r].gone = {}

\* A deletion is total: with a memory everything derived from it is deleted, unless it was
\* derived or stored after the deletion had read the graph; what is deleted is out of the index;
\* memory_ledger tells of every write and every deletion and of no other, and the service's own
\* record of nothing that was not stored - whatever writers and deletions run beside it
\* (delete_memory, add_memory, MemoryWriteService.write).
DeletionIsTotal ==
    /\ \A e \in edges \ late : status[e[1]] = "deleted" => status[e[2]] # "stable"
    /\ \A m \in projections : status[m] # "deleted"
    /\ \A m \in Memory :
         /\ <<"write", m>> \in ledger <=> m \notin Legacy /\ status[m] # "none"
         /\ (\E root \in Memory : <<"delete", m, root>> \in ledger) <=> status[m] = "deleted"
    /\ \A entry \in journal : status[entry[2]] # "none"

\* A context is what it declares to be: facts of one key that contradict each other and facts
\* used past their time are named in its conflicts, but for facts whose policy is lax, which may
\* be stale unnamed; marked facts are untrusted; and every memory in it with a definition came
\* from a source the Write Gate trusts, as far as every writer passes it, and belongs to the
\* Run's tenant (assemble, detect, mark_prompt_injection, MemoryWriteGate.evaluate).
ContextIsVetted ==
    \A r \in Snapshots :
        LET body == context[r].payload
            facts == body.facts
        IN  /\ \A i, j \in DOMAIN facts :
                 SameKey(facts, i, j) /\ facts[i].value # facts[j].value =>
                     <<"environment", facts[i].subject, facts[i].id>> \in body.conflicts
            /\ \A i \in DOMAIN facts :
                 /\ context[r].at > facts[i].until /\ facts[i].policy # "lax" =>
                        <<"stale", facts[i].id>> \in body.conflicts
                 /\ facts[i].injected => facts[i].trust = "untrusted"
            /\ \A m \in body.memories :
                 /\ Observed[m].tenant = TenantOf[r]
                 /\ m \notin Legacy => Observed[m].trust # "untrusted"
=============================================================================

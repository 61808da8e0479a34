--------------------------- MODULE ContextAssembly ---------------------------
(***************************************************************************)
(* What may enter a Run's context and what may become stable memory: the   *)
(* freshness checks, the access list, conflict detection, the assembler    *)
(* and the Write Gate.  Constant-level.                                    *)
(*                                                                         *)
(* An environment fact, a knowledge reference and a memory are records;    *)
(* whether a fact's value carries an injection marker is a field of it,    *)
(* confidence is counted in tenths, time in ticks.                         *)
(***************************************************************************)
EXTENDS Integers, Sequences, FiniteSets

CONSTANTS
    MaxFactAge,     \* ticks a fact stays fresh whatever its validity
    MaxMemoryAge,   \* ticks a memory stays fresh
    MinConfidence   \* of the Write Gate

ASSUME AgesAssumption == MaxFactAge \in Nat /\ MaxMemoryAge \in Nat /\ MinConfidence \in 0..10

Rank == [public |-> 0, internal |-> 1, confidential |-> 2, restricted |-> 3]
Trust == {"untrusted", "advisory", "authoritative"}

Classification == {"public", "internal", "confidential", "restricted"}

\* The dataclasses: names, contents and values stand for what is compared of them.
EnvironmentFact ==
    [tenant : STRING, id : STRING, subject : STRING, value : Int, observed : Int, until : Int,
     trust : Trust, class : Classification, policy : {"strict", "warn", "lax"}, injected : BOOLEAN,
     roles : SUBSET STRING, purposes : SUBSET STRING]
MemoryRecord ==
    [tenant : STRING, content : STRING, keys : SUBSET STRING, provenance : STRING,
     confidence : 0..10, trust : Trust, class : Classification, pii : BOOLEAN, created : Int,
     expires : Int, status : {"proposed", "stable", "deleted"},
     roles : SUBSET STRING, purposes : SUBSET STRING]

-----------------------------------------------------------------------------
(* Freshness and access.                                                    *)

\* A constructed fact does not end before it was observed.
ValidFact(fact) == fact \in EnvironmentFact /\ fact.observed <= fact.until

Stale(fact, now) == now > fact.until \/ now - fact.observed > MaxFactAge
FactPasses(fact, now) == ~Stale(fact, now) \/ fact.policy # "strict"
Warned(fact, now) == Stale(fact, now) /\ fact.policy = "warn"

\* A constructed memory has a provenance, a confidence between zero and one and a TTL ahead.
ValidMemory(memory) ==
    memory \in MemoryRecord /\ memory.provenance # "" /\ memory.expires > memory.created

\* Mutant: a tombstone is a memory like any other.
ServesTombstones(memory, now) ==
    now < memory.expires /\ now - memory.created <= MaxMemoryAge

MemoryPasses(memory, now) ==
    /\ memory.status = "stable"
    /\ now < memory.expires
    /\ now - memory.created <= MaxMemoryAge

\* ContextACL.check_access.  A memory has neither roles nor purposes of its own; untrusted
\* items and doubtful memories are let in as data.
CheckAccess(item, request) ==
    /\ item.tenant = request.tenant
    /\ Rank[item.class] <= Rank[request.clearance]
    /\ item.roles = {} \/ item.roles \cap request.roles # {}
    /\ item.purposes = {} \/ request.purpose \in item.purposes

\* The row filter on subjects, for facts only.
RowVisible(fact, request) == request.subjects = {} \/ fact.subject \in request.subjects

MarkPromptInjection(fact) == IF fact.injected THEN [fact EXCEPT !.trust = "untrusted"] ELSE fact

-----------------------------------------------------------------------------
(* Assembly.                                                                *)

SameKey(facts, i, j) == facts[i].subject = facts[j].subject /\ facts[i].id = facts[j].id

Reports(facts, i) == <<"environment", facts[i].subject, facts[i].id>>

\* Mutant: a fact is compared with its neighbour.
ComparesNeighbours(facts) ==
    LET last(j, i) == j < i /\ \A l \in DOMAIN facts : ~(j < l /\ l < i)
    IN  {Reports(facts, i) :
            i \in {i \in DOMAIN facts : \E j \in DOMAIN facts :
                      last(j, i) /\ SameKey(facts, j, i) /\ facts[j].value # facts[i].value}}

\* ConflictDetector.detect: a fact against the last one before it with the same key.
Detect(facts) ==
    LET last(j, i) == /\ j < i /\ SameKey(facts, j, i)
                      /\ \A l \in DOMAIN facts : j < l /\ l < i => ~SameKey(facts, l, i)
    IN  {Reports(facts, i) :
            i \in {i \in DOMAIN facts : \E j \in DOMAIN facts :
                      last(j, i) /\ facts[j].value # facts[i].value}}

\* The facts that pass, marked, each at the position the command gives it.
KeptFacts(request, now) ==
    LET marked(i) == MarkPromptInjection(request.facts[i])
        keep(fact) == FactPasses(fact, now) /\ CheckAccess(fact, request) /\ RowVisible(fact, request)
    IN  [i \in {i \in DOMAIN request.facts : keep(marked(i))} |-> marked(i)]

Warnings(facts, now) ==
    {<<"stale", facts[i].id>> : i \in {i \in DOMAIN facts : Warned(facts[i], now)}}

\* ContextAssembler.assemble at time `now`; the memories are what the rows say.
Assemble(request, memories, now) ==
    LET facts == KeptFacts(request, now)
    IN  [facts     |-> facts,
         refs      |-> {ref \in request.refs : CheckAccess(ref, request)},
         memories  |-> {m \in DOMAIN memories : MemoryPasses(memories[m], now)
                                                  /\ CheckAccess(memories[m], request)},
         conflicts |-> Detect(facts) \cup Warnings(facts, now),
         history   |-> request.history,
         tools     |-> request.tools]

\* ContextSnapshot: what its digest covers, and what its constructor refuses.
ValidSnapshot(snapshot, tenant) ==
    /\ snapshot.history # ""
    /\ \A i \in DOMAIN snapshot.facts : snapshot.facts[i].tenant = tenant
    /\ \A ref \in snapshot.refs : ref.tenant = tenant
ContentDigest(snapshot, run) == <<run, snapshot>>

-----------------------------------------------------------------------------
(* The Write Gate.                                                          *)

PrivacyRoles == {"privacy_reviewer", "data_steward"}

\* What the gate asks of an observation by itself.
Acceptable(candidate, roles, now) ==
    /\ candidate.confidence >= MinConfidence
    /\ candidate.trust # "untrusted" /\ candidate.provenance \notin {"untrusted", "unknown"}
    /\ candidate.expires > now
    /\ candidate.pii \/ candidate.class = "restricted" => roles \cap PrivacyRoles # {}

Contradicts(existing, candidate) ==
    existing.keys \cap candidate.keys # {} /\ existing.content # candidate.content

\* MemoryWriteGate.evaluate: the first existing memory that contradicts the candidate or has
\* its provenance decides; the rows come in no particular order, so any may be the first.
GateDecisions(candidate, existing, roles, now) ==
    LET against == {m \in DOMAIN existing : Contradicts(existing[m], candidate)}
        same == {m \in DOMAIN existing : existing[m].provenance = candidate.provenance} \ against
    IN  IF ~Acceptable(candidate, roles, now) THEN {"reject"}
        ELSE IF against = {} /\ same = {} THEN {"accept"}
        ELSE {"reject" : m \in against} \cup {"merge" : m \in same}
=============================================================================

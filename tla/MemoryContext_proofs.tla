-------------------------- MODULE MemoryContext_proofs --------------------------
(***************************************************************************)
(* MemoryContext, for every value of its constants: its type invariant,    *)
(* what is forgotten stays out of contexts, deletions are total, and       *)
(* contexts are what they declare to be.                                   *)
(***************************************************************************)
EXTENDS MemoryContext, TLAPS, WellFoundedInduction

\* What a snapshot taken at time `at` declares about its facts.
FactsVetted(body, at) ==
    LET facts == body.facts
    IN  /\ \A i, j \in DOMAIN facts :
             SameKey(facts, i, j) /\ facts[i].value # facts[j].value =>
                 <<"environment", facts[i].subject, facts[i].id>> \in body.conflicts
        /\ \A i \in DOMAIN facts :
             /\ at > facts[i].until /\ facts[i].policy # "lax" =>
                    <<"stale", facts[i].id>> \in body.conflicts
             /\ facts[i].injected => facts[i].trust = "untrusted"

MemoriesVetted(body, tenant) ==
    \A m \in body.memories :
        /\ m \in Memory /\ Observed[m].tenant = tenant
        /\ m \notin Legacy => Observed[m].trust # "untrusted"

\* What a transaction holds: a deletion, everything derived from what it deletes; a preparation,
\* memories of its tenant, the forgotten ones as such; an insertion, a snapshot that keeps its word.
DeleteHolds(c) == \A e \in edges \ late : e[1] \in c.affected => e[2] \in c.affected
TombstoneHolds(c) ==
    /\ \A m \in c.existing : status[m] # "none"
    /\ \A e \in edges \ late : e[1] \in c.existing => e[2] \in c.existing \/ status[e[2]] # "stable"
PrepareHolds(c) ==
    /\ c.request.tenant = TenantOf[c.run]
    /\ \A m \in c.gone : status[m] = "deleted"
    /\ \A m \in DOMAIN c.read :
         /\ Observed[m].tenant = TenantOf[c.run] /\ status[m] # "none"
         /\ m \in c.gone => c.read[m].status = "deleted"
InsertHolds(c) ==
    /\ FactsVetted(c.snapshot, c.at) /\ MemoriesVetted(c.snapshot, TenantOf[c.run])
    /\ c.snapshot.memories \cap c.gone = {}

CallHolds(k) ==
    /\ call[k].op = "delete" => DeleteHolds(call[k])
    /\ call[k].op = "tombstone" => TombstoneHolds(call[k])
    /\ call[k].op = "record" => status[call[k].memory] # "none"
    /\ call[k].op = "prepare" => PrepareHolds(call[k])
    /\ call[k].op = "insert" => InsertHolds(call[k])

SnapshotHolds(r) ==
    context[r] # NoSnapshot =>
        /\ FactsVetted(context[r].payload, context[r].at)
        /\ MemoriesVetted(context[r].payload, TenantOf[r])
        /\ context[r].payload.memories \cap context[r].gone = {}

\* What passed the Write Gate came from a source it trusts.
GateHolds == \A m \in Memory \ Legacy : status[m] # "none" => Observed[m].trust # "untrusted"

\* Rows from before the revision were never absent.
LegacyHolds == \A m \in Legacy : status[m] # "none"

MemoryInv ==
    /\ \A k \in Caller : CallHolds(k)
    /\ \A r \in Run : SnapshotHolds(r)
    /\ GateHolds
    /\ LegacyHolds
    /\ DeletionIsTotal

Inv == TypeOK /\ MemoryInv

-----------------------------------------------------------------------------
(* Assembly, a matter of constants.                                         *)

LEMMA Least ==
    ASSUME NEW T, T \subseteq Nat, T # {}
    PROVE  \E x \in T : \A y \in T : x <= y
<1>1. PICK x \in T : \A y \in T : ~(<<y, x>> \in OpToRel(<, Nat))
  BY WFMin, NatLessThanWellFounded
<1>2. ASSUME NEW y \in T
      PROVE  x <= y
  <2>1. y \in Nat /\ x \in Nat
    OBVIOUS
  <2>2. ~(y < x)
    BY <1>1, <2>1 DEF OpToRel
  <2>3. QED
    BY <2>1, <2>2
<1>3. QED
  BY <1>2

LEMMA Greatest ==
    ASSUME NEW T, T \subseteq Nat, T # {}, NEW n \in Nat, \A x \in T : x <= n
    PROVE  \E x \in T : \A y \in T : y <= x
<1> DEFINE below == {n - x : x \in T}
<1>1. below \subseteq Nat /\ below # {}
  <2>1. \A x \in T : n - x \in Nat
    OBVIOUS
  <2>2. QED
    BY <2>1
<1>2. PICK b \in below : \A c \in below : b <= c
  BY <1>1, Least
<1>3. PICK x \in T : b = n - x
  BY <1>2
<1>4. ASSUME NEW y \in T
      PROVE  y <= x
  <2>1. n - y \in below
    OBVIOUS
  <2>2. n - x <= n - y
    BY <1>2, <1>3, <2>1
  <2>3. QED
    BY <2>2
<1>5. QED
  BY <1>4

\* detect compares a fact only with the last one of its key: of two that contradict each other,
\* however far apart, some step from the one to the other is a contradiction.
LEMMA DetectFindsLater ==
    ASSUME NEW facts, DOMAIN facts \subseteq Nat, NEW i \in DOMAIN facts, NEW j \in DOMAIN facts,
           i < j, SameKey(facts, i, j), facts[i].value # facts[j].value
    PROVE  Reports(facts, i) \in Detect(facts)
<1> DEFINE T == {l \in DOMAIN facts : i < l /\ SameKey(facts, i, l) /\ facts[l].value # facts[i].value}
<1>1. T \subseteq Nat /\ T # {}
  OBVIOUS
<1>2. PICK n \in T : \A y \in T : n <= y
  BY <1>1, Least
<1>3. /\ n \in DOMAIN facts /\ n \in Nat /\ i \in Nat /\ i < n
      /\ SameKey(facts, i, n) /\ facts[n].value # facts[i].value
  OBVIOUS
<1> DEFINE U == {l \in DOMAIN facts : i <= l /\ l < n /\ SameKey(facts, l, n)}
<1>4. U \subseteq Nat /\ i \in U /\ \A x \in U : x <= n
  BY <1>3
<1>5. PICK p \in U : \A y \in U : y <= p
  BY <1>3, <1>4, Greatest
<1>6. p \in DOMAIN facts /\ p \in Nat /\ i <= p /\ p < n /\ SameKey(facts, p, n)
  BY <1>4
<1>7. facts[p].value = facts[i].value
  <2>1. SameKey(facts, i, p)
    BY <1>3, <1>6 DEF SameKey
  <2>2. CASE p = i
    BY <2>2
  <2>3. CASE i < p
    <3>1. p \notin T
      BY <1>2, <1>3, <1>6
    <3>2. QED
      BY <1>6, <2>1, <2>3, <3>1
  <2>4. QED
    BY <1>3, <1>6, <2>2, <2>3
<1>8. \A l \in DOMAIN facts : p < l /\ l < n => ~SameKey(facts, l, n)
  <2> SUFFICES ASSUME NEW l \in DOMAIN facts, p < l, l < n, SameKey(facts, l, n)
               PROVE  FALSE
    OBVIOUS
  <2>1. l \in Nat
    OBVIOUS
  <2>2. l \in U
    BY <1>3, <1>6, <2>1
  <2>3. QED
    BY <1>5, <1>6, <2>1, <2>2
<1> HIDE DEF T, U
<1>9. Reports(facts, n) \in Detect(facts)
  BY <1>3, <1>6, <1>7, <1>8 DEF Detect
<1>10. QED
  BY <1>3, <1>9 DEF Reports, SameKey

LEMMA DetectFinds ==
    ASSUME NEW facts, DOMAIN facts \subseteq Nat, NEW i \in DOMAIN facts, NEW j \in DOMAIN facts,
           SameKey(facts, i, j), facts[i].value # facts[j].value
    PROVE  Reports(facts, i) \in Detect(facts)
<1>1. i \in Nat /\ j \in Nat /\ i # j
  OBVIOUS
<1>2. CASE i < j
  BY <1>2, DetectFindsLater
<1>3. CASE j < i
  <2>1. SameKey(facts, j, i) /\ facts[j].value # facts[i].value
    BY DEF SameKey
  <2>2. Reports(facts, j) \in Detect(facts)
    BY <1>3, <2>1, DetectFindsLater
  <2>3. QED
    BY <2>2 DEF Reports, SameKey
<1>4. QED
  BY <1>1, <1>2, <1>3

\* mark_prompt_injection changes nothing but the trust.
LEMMA MarkedFact ==
    ASSUME NEW fact \in EnvironmentFact
    PROVE  /\ MarkPromptInjection(fact) \in EnvironmentFact
           /\ MarkPromptInjection(fact).injected = fact.injected
           /\ fact.injected => MarkPromptInjection(fact).trust = "untrusted"
<1>1. CASE fact.injected
  <2>1. MarkPromptInjection(fact) = [fact EXCEPT !.trust = "untrusted"]
    BY <1>1 DEF MarkPromptInjection
  <2>2. QED
    BY <2>1 DEF EnvironmentFact, Trust
<1>2. CASE ~fact.injected
  BY <1>2 DEF MarkPromptInjection
<1>3. QED
  BY <1>1, <1>2

LEMMA FactFields ==
    ASSUME NEW fact \in EnvironmentFact
    PROVE  /\ fact.until \in Int /\ fact.observed \in Int /\ fact.injected \in BOOLEAN
           /\ fact.policy \in {"strict", "warn", "lax"}
BY DEF EnvironmentFact

LEMMA KeptFactsHold ==
    ASSUME NEW request \in Request, NEW now \in Nat
    PROVE  LET facts == KeptFacts(request, now)
           IN  /\ DOMAIN facts \subseteq Nat
               /\ \A i \in DOMAIN facts :
                    /\ facts[i] \in EnvironmentFact /\ FactPasses(facts[i], now)
                    /\ facts[i].injected => facts[i].trust = "untrusted"
<1> DEFINE facts == KeptFacts(request, now)
<1>1. request.facts \in Seq(EnvironmentFact)
  BY MemoryAssumption DEF MemoryAssumption
<1>2. DOMAIN request.facts \subseteq Nat /\ \A i \in DOMAIN request.facts : request.facts[i] \in EnvironmentFact
  BY <1>1
<1>3. /\ DOMAIN facts \subseteq DOMAIN request.facts
      /\ \A i \in DOMAIN facts : /\ facts[i] = MarkPromptInjection(request.facts[i])
                                 /\ FactPasses(facts[i], now)
  BY DEF KeptFacts
<1> HIDE DEF facts
<1>4. ASSUME NEW i \in DOMAIN facts
      PROVE  facts[i] \in EnvironmentFact /\ (facts[i].injected => facts[i].trust = "untrusted")
  BY <1>2, <1>3, MarkedFact
<1>5. QED
  BY <1>2, <1>3, <1>4 DEF facts

LEMMA AssembledFacts ==
    ASSUME NEW request \in Request, NEW now \in Nat, NEW body,
           body.facts = KeptFacts(request, now),
           Detect(body.facts) \cup Warnings(body.facts, now) \subseteq body.conflicts
    PROVE  FactsVetted(body, now)
<1> DEFINE facts == body.facts
<1>1. /\ DOMAIN facts \subseteq Nat
      /\ \A i \in DOMAIN facts :
           /\ facts[i] \in EnvironmentFact /\ FactPasses(facts[i], now)
           /\ facts[i].injected => facts[i].trust = "untrusted"
  BY KeptFactsHold
<1>2. ASSUME NEW i \in DOMAIN facts, NEW j \in DOMAIN facts,
             SameKey(facts, i, j), facts[i].value # facts[j].value
      PROVE  <<"environment", facts[i].subject, facts[i].id>> \in body.conflicts
  <2>1. Reports(facts, i) \in Detect(facts)
    BY <1>1, <1>2, DetectFinds
  <2>2. QED
    BY <2>1 DEF Reports
<1>3. ASSUME NEW i \in DOMAIN facts, now > facts[i].until, facts[i].policy # "lax"
      PROVE  <<"stale", facts[i].id>> \in body.conflicts
  <2>1. Stale(facts[i], now)
    BY <1>3 DEF Stale
  <2>2. facts[i].policy = "warn"
    BY <1>1, <1>3, <2>1, FactFields DEF FactPasses
  <2>3. <<"stale", facts[i].id>> \in Warnings(facts, now)
    BY <2>1, <2>2 DEF Warnings, Warned
  <2>4. QED
    BY <2>3
<1>4. QED
  BY <1>1, <1>2, <1>3 DEF FactsVetted

LEMMA RowFields ==
    ASSUME TypeOK, NEW m \in Memory, status[m] # "none"
    PROVE  FromRow(m) \in MemoryRecord /\ FromRow(m).status = status[m]
<1>1. Observed[m] \in MemoryRecord /\ status[m] \in {"stable", "deleted"}
  BY MemoryAssumption DEF MemoryAssumption, TypeOK
<1>2. PICK row : row = [Observed[m] EXCEPT !.status = status[m]]
  OBVIOUS
<1>3. row \in MemoryRecord /\ row.status = status[m]
  BY <1>1, <1>2 DEF MemoryRecord
<1>4. CASE m \notin Legacy
  BY <1>2, <1>3, <1>4 DEF FromRow
<1>5. CASE m \in Legacy
  <2>1. FromRow(m) = [row EXCEPT !.class = "internal", !.trust = "advisory", !.pii = FALSE, !.keys = {}]
    BY <1>2, <1>5 DEF FromRow
  <2>2. PICK a : a = [row EXCEPT !.class = "internal"]
    OBVIOUS
  <2>3. PICK b : b = [a EXCEPT !.trust = "advisory"]
    OBVIOUS
  <2>4. PICK c : c = [b EXCEPT !.pii = FALSE]
    OBVIOUS
  <2>5. a \in MemoryRecord /\ a.status = status[m]
    BY <1>3, <2>2 DEF MemoryRecord, Classification
  <2>6. b \in MemoryRecord /\ b.status = status[m]
    BY <2>3, <2>5 DEF MemoryRecord, Trust
  <2>7. c \in MemoryRecord /\ c.status = status[m]
    BY <2>4, <2>6 DEF MemoryRecord
  <2>8. FromRow(m) = [c EXCEPT !.keys = {}]
    BY <2>1, <2>2, <2>3, <2>4
  <2>9. QED
    BY <2>7, <2>8 DEF MemoryRecord
<1>6. QED
  BY <1>4, <1>5

-----------------------------------------------------------------------------
(* Frames.                                                                  *)

LEMMA CallBecomes ==
    ASSUME TypeOK, NEW k \in Caller, NEW c, IsCall(c), call' = [call EXCEPT ![k] = c]
    PROVE  /\ call' = [j \in Caller |-> call'[j]] /\ call'[k] = c
           /\ \A j \in Caller : j # k => call'[j] = call[j]
           /\ \A j \in Caller : IsCall(call'[j])
<1>1. call = [j \in Caller |-> call[j]] /\ \A j \in Caller : IsCall(call[j])
  BY DEF TypeOK
<1>2. /\ call' = [j \in Caller |-> call'[j]] /\ call'[k] = c
      /\ \A j \in Caller : j # k => call'[j] = call[j]
  BY <1>1
<1>3. QED
  BY <1>1, <1>2

LEMMA IdleCall == IsCall(Idle) /\ Idle.op = "idle"
BY DEF IsCall, Idle

\* Rows never go back: what is there stays there, what is deleted stays deleted.
StatusGrows ==
    \A m \in Memory : /\ status[m] # "none" => status'[m] # "none"
                      /\ status[m] = "deleted" => status'[m] = "deleted"

\* No edge that is new, and none whose child is new, leads out of what a deletion collected.
NoWayOut(j) ==
    \A e \in edges' \ late' :
        \/ e \in edges \ late /\ (status'[e[2]] = "stable" => status[e[2]] = "stable")
        \/ e[1] \in Collected(j) => e[2] \in Collected(j)

LEMMA CollectedBy ==
    ASSUME NEW j
    PROVE  /\ call[j].op = "delete" => Collected(j) = call[j].affected
           /\ call[j].op = "tombstone" => Collected(j) = call[j].existing
BY DEF Collected

\* A transaction that stays where it is.
LEMMA CallKept ==
    ASSUME Inv, NEW j \in Caller, call'[j] = call[j], StatusGrows, NoWayOut(j)
    PROVE  CallHolds(j)'
<1>1. PICK c : c = call[j]
  OBVIOUS
<1>2. IsCall(c) /\ c = call'[j]
  BY <1>1 DEF Inv, TypeOK
<1>3. CASE c.op = "delete"
  <2>1. Collected(j) = c.affected /\ DeleteHolds(c)
    BY <1>1, <1>3, CollectedBy DEF Inv, MemoryInv, CallHolds
  <2>2. DeleteHolds(c)'
    BY <2>1 DEF DeleteHolds, NoWayOut
  <2>3. QED
    BY <1>2, <1>3, <2>2 DEF CallHolds, DeleteHolds
<1>4. CASE c.op = "tombstone"
  <2>1. c.existing \subseteq Memory
    BY <1>2, <1>4 DEF IsCall, Idle, IsTombstone
  <2>2. Collected(j) = c.existing /\ TombstoneHolds(c)
    BY <1>1, <1>4, CollectedBy DEF Inv, MemoryInv, CallHolds
  <2>3. \A e \in edges' \ late' : e[1] \in c.existing => e[2] \in c.existing \/ status'[e[2]] # "stable"
    BY <2>2 DEF TombstoneHolds, NoWayOut
  <2>4. TombstoneHolds(c)'
    BY <2>1, <2>2, <2>3 DEF TombstoneHolds, StatusGrows
  <2>5. QED
    BY <1>2, <1>4, <2>4 DEF CallHolds, TombstoneHolds
<1>5. CASE c.op = "prepare"
  <2>1. c.gone \subseteq Memory /\ DOMAIN c.read \subseteq Memory
    BY <1>2, <1>5 DEF IsCall, Idle, IsPrepare, IsReading
  <2>2. PrepareHolds(c)
    BY <1>1, <1>5 DEF Inv, MemoryInv, CallHolds
  <2>3. PrepareHolds(c)'
    BY <2>1, <2>2 DEF PrepareHolds, StatusGrows
  <2>4. QED
    BY <1>2, <1>5, <2>3 DEF CallHolds, PrepareHolds
<1>6. CASE c.op = "insert"
  BY <1>1, <1>2, <1>6 DEF Inv, MemoryInv, CallHolds, InsertHolds
<1>7. CASE c.op = "record"
  <2>1. c.memory \in Memory /\ status[c.memory] # "none"
    BY <1>1, <1>2, <1>7 DEF IsCall, Idle, IsRecord, Inv, MemoryInv, CallHolds
  <2>2. QED
    BY <1>2, <1>7, <2>1 DEF CallHolds, StatusGrows
<1>8. QED
  BY <1>2, <1>3, <1>4, <1>5, <1>6, <1>7 DEF CallHolds

\* Nothing new is stored or derived.
LEMMA NothingNew ==
    ASSUME UNCHANGED <<status, edges, late>>
    PROVE  StatusGrows /\ \A j \in Caller : NoWayOut(j)
BY DEF StatusGrows, NoWayOut

\* A transaction reads or ends: nothing is written.
LEMMA CallMoves ==
    ASSUME Inv, NEW k \in Caller, NEW c, IsCall(c), call' = [call EXCEPT ![k] = c],
           UNCHANGED <<store, contexts>>, UNCHANGED clock,
           CallHolds(k)'
    PROVE  Inv'
<1>1. UNCHANGED <<status, ledger, edges, projections, late, journal, context, plan, remembered, clock>>
  BY DEF store, contexts
<1>2. /\ call' = [j \in Caller |-> call'[j]]
      /\ \A j \in Caller : j # k => call'[j] = call[j]
      /\ \A j \in Caller : IsCall(call'[j])
  BY CallBecomes DEF Inv
<1>3. TypeOK'
  BY <1>1, <1>2 DEF Inv, TypeOK
<1>4. \A j \in Caller : CallHolds(j)'
  <2>1. StatusGrows /\ \A j \in Caller : NoWayOut(j)
    BY <1>1, NothingNew
  <2>2. QED
    BY <1>1, <1>2, <2>1, CallKept
<1>5. \A r \in Run : SnapshotHolds(r)'
  BY <1>1 DEF Inv, MemoryInv, SnapshotHolds
<1>6. GateHolds' /\ LegacyHolds' /\ DeletionIsTotal'
  BY <1>1 DEF Inv, MemoryInv, GateHolds, LegacyHolds, DeletionIsTotal
<1>7. QED
  BY <1>3, <1>4, <1>5, <1>6 DEF Inv, MemoryInv

LEMMA ReturnsOnly ==
    ASSUME Inv, NEW k \in Caller, Return(k), UNCHANGED <<store, contexts>>, UNCHANGED clock
    PROVE  Inv'
<1>1. call' = [call EXCEPT ![k] = Idle] /\ IsCall(Idle)
  BY IdleCall DEF Return
<1>2. call'[k] = Idle
  BY <1>1, CallBecomes DEF Inv
<1>3. CallHolds(k)'
  BY <1>2, IdleCall DEF CallHolds
<1>4. QED
  BY <1>1, <1>3, CallMoves

\* What is stored of contexts, when they are left alone.
LEMMA SnapshotsKept ==
    ASSUME Inv, UNCHANGED context
    PROVE  \A r \in Run : SnapshotHolds(r)'
BY DEF Inv, MemoryInv, SnapshotHolds

-----------------------------------------------------------------------------
(* Steps.                                                                   *)

LEMMA WriteLookInv ==
    ASSUME Inv, NEW k \in Caller, NEW m \in Memory, NEW roles \in ApproverRoles,
           WriteLook(k, m, roles)
    PROVE  Inv'
<1> DEFINE listed == {x \in Memory : status[x] = "stable" /\ Observed[x].tenant = Observed[m].tenant}
           rows == [x \in listed |-> FromRow(x)]
<1>1. PICK c : c = [op |-> "write", memory |-> m, roles |-> roles, existing |-> rows]
  OBVIOUS
<1>2. /\ call' = [call EXCEPT ![k] = c] /\ UNCHANGED <<store, contexts>> /\ UNCHANGED clock
  BY <1>1 DEF WriteLook, Start
<1>3. IsReading(rows)
  <2>1. \A x \in listed : FromRow(x) \in MemoryRecord
    BY RowFields DEF Inv
  <2>2. QED
    BY <2>1 DEF IsReading
<1>4. IsCall(c)
  BY <1>1, <1>3 DEF IsCall, IsWrite
<1>5. call'[k] = c
  BY <1>2, <1>4, CallBecomes DEF Inv
<1>6. CallHolds(k)'
  BY <1>1, <1>5 DEF CallHolds
<1>7. QED
  BY <1>2, <1>4, <1>6, CallMoves

\* The recursive query is closed under the edges it saw.
LEMMA AffectedClosed ==
    ASSUME TypeOK, NEW root \in Memory
    PROVE  /\ Affected(root) \subseteq Memory
           /\ \A e \in edges : e[1] \in Affected(root) => e[2] \in Affected(root)
<1>1. \A e \in edges : e[2] \in Memory
  BY DEF TypeOK
<1>2. QED
  BY <1>1 DEF Affected

LEMMA DeleteLookInv ==
    ASSUME Inv, NEW k \in Caller, NEW root \in Memory, DeleteLook(k, root)
    PROVE  Inv'
<1>1. PICK c : c = [op |-> "delete", root |-> root, affected |-> Affected(root)]
  OBVIOUS
<1>2. call' = [call EXCEPT ![k] = c] /\ UNCHANGED <<store, contexts>> /\ UNCHANGED clock
  BY <1>1 DEF DeleteLook, Start
<1>3. /\ Affected(root) \subseteq Memory
      /\ \A e \in edges : e[1] \in Affected(root) => e[2] \in Affected(root)
  BY AffectedClosed DEF Inv
<1>4. IsCall(c)
  BY <1>1, <1>3 DEF IsCall, IsDelete
<1>5. call'[k] = c
  BY <1>2, <1>4, CallBecomes DEF Inv
<1>6. CallHolds(k)'
  <2>1. c.op = "delete" /\ \A e \in edges \ late : e[1] \in c.affected => e[2] \in c.affected
    BY <1>1, <1>3
  <2>2. QED
    BY <1>2, <1>5, <2>1 DEF CallHolds, DeleteHolds, store
<1>7. QED
  BY <1>2, <1>4, <1>6, CallMoves

LEMMA DeleteExistingInv ==
    ASSUME Inv, NEW k \in Caller, DeleteExisting(k)
    PROVE  Inv'
<1> DEFINE existing == {m \in call[k].affected : status[m] = "stable"}
<1>1. UNCHANGED <<store, contexts>> /\ UNCHANGED clock /\ call[k].op = "delete"
  BY DEF DeleteExisting
<1>2. CASE existing = {}
  BY <1>1, <1>2, ReturnsOnly DEF DeleteExisting
<1>3. CASE existing # {}
  <2>1. PICK c : c = [op |-> "tombstone", root |-> call[k].root, existing |-> existing]
    OBVIOUS
  <2>2. call' = [call EXCEPT ![k] = c]
    BY <1>3, <2>1 DEF DeleteExisting
  <2>3. IsDelete(call[k])
    BY <1>1 DEF Inv, TypeOK, IsCall, Idle
  <2>4. IsCall(c)
    BY <2>1, <2>3 DEF IsCall, IsDelete, IsTombstone
  <2>5. call'[k] = c
    BY <2>2, <2>4, CallBecomes DEF Inv
  <2>6. ASSUME NEW e \in edges \ late, e[1] \in existing
        PROVE  e[2] \in existing \/ status[e[2]] # "stable"
    BY <1>1, <2>6 DEF Inv, MemoryInv, CallHolds, DeleteHolds
  <2>7. CallHolds(k)'
    <3>1. c.op = "tombstone" /\ c.existing = existing
      BY <2>1
    <3>2. TombstoneHolds(c)
      BY <2>6, <3>1 DEF TombstoneHolds
    <3>3. QED
      BY <1>1, <2>5, <3>1, <3>2 DEF CallHolds, TombstoneHolds, store
  <2>8. QED
    BY <1>1, <2>2, <2>4, <2>7, CallMoves
<1>4. QED
  BY <1>2, <1>3

LEMMA PrepareInv ==
    ASSUME Inv, NEW k \in Caller, NEW r \in Run, NEW request \in Request, NEW key \in Key,
           Prepare(k, r, request, key)
    PROVE  Inv'
<1> DEFINE none == [m \in {} |-> FromRow(m)]
           gone == {m \in Memory : status[m] = "deleted"}
<1>1. PICK c : c = [op |-> "prepare", run |-> r, request |-> request, key |-> key, read |-> none,
                    todo |-> request.memories, gone |-> gone]
  OBVIOUS
<1>2. /\ call' = [call EXCEPT ![k] = c] /\ UNCHANGED <<store, contexts>> /\ UNCHANGED clock
      /\ request.tenant = TenantOf[r]
  BY <1>1 DEF Prepare, Start
<1>3. IsReading(none) /\ DOMAIN none = {}
  BY DEF IsReading
<1>4. request.memories \subseteq Memory
  BY MemoryAssumption DEF MemoryAssumption
<1> HIDE DEF none
<1>5. IsCall(c)
  BY <1>1, <1>3, <1>4 DEF IsCall, IsPrepare
<1>6. call'[k] = c
  BY <1>2, <1>5, CallBecomes DEF Inv
<1>7. c.op = "prepare" /\ PrepareHolds(c)
  BY <1>1, <1>2, <1>3 DEF PrepareHolds
<1>8. CallHolds(k)'
  BY <1>2, <1>6, <1>7 DEF CallHolds, PrepareHolds, store
<1>9. QED
  BY <1>2, <1>5, <1>8, CallMoves

LEMMA ReadMemoryInv ==
    ASSUME Inv, NEW k \in Caller, ReadMemory(k)
    PROVE  Inv'
<1>1. /\ UNCHANGED <<store, contexts>> /\ UNCHANGED clock
      /\ call[k].op = "prepare" /\ PrepareHolds(call[k])
  BY DEF ReadMemory, Inv, MemoryInv, CallHolds
<1>2. IsPrepare(call[k])
  BY <1>1 DEF Inv, TypeOK, IsCall, Idle
<1>3. PICK m \in call[k].todo :
        IF status[m] = "none" \/ Observed[m].tenant # call[k].request.tenant
        THEN Return(k)
        ELSE call' = [call EXCEPT ![k].todo = @ \ {m},
                          ![k].read = [x \in DOMAIN @ \cup {m} |-> IF x = m THEN FromRow(m) ELSE @[x]]]
  BY DEF ReadMemory
<1>4. CASE status[m] = "none" \/ Observed[m].tenant # call[k].request.tenant
  BY <1>1, <1>3, <1>4, ReturnsOnly
<1>5. CASE status[m] # "none" /\ Observed[m].tenant = call[k].request.tenant
  <2>1. PICK a : a = call[k]
    OBVIOUS
  <2>2. PICK read : read = [x \in DOMAIN a.read \cup {m} |-> IF x = m THEN FromRow(m) ELSE a.read[x]]
    OBVIOUS
  <2>3. /\ a \in [op : {"prepare"}, run : Run, request : Request, key : Key, read : {a.read},
                  todo : SUBSET Memory, gone : SUBSET Memory]
        /\ DOMAIN a.read \subseteq Memory /\ a.read \in [DOMAIN a.read -> MemoryRecord]
        /\ m \in Memory
    BY <1>2, <2>1 DEF IsPrepare, IsReading
  <2>4. PICK c : c = [op |-> "prepare", run |-> a.run, request |-> a.request, key |-> a.key,
                      read |-> read, todo |-> a.todo \ {m}, gone |-> a.gone]
    OBVIOUS
  <2>5. call' = [call EXCEPT ![k] = c]
    <3>1. call' = [call EXCEPT ![k].todo = @ \ {m},
                       ![k].read = [x \in DOMAIN @ \cup {m} |-> IF x = m THEN FromRow(m) ELSE @[x]]]
      BY <1>3, <1>5
    <3>2. PICK b : b = [a EXCEPT !.todo = @ \ {m}]
      OBVIOUS
    <3>3. /\ b \in [op : {"prepare"}, run : Run, request : Request, key : Key, read : {a.read},
                    todo : SUBSET Memory, gone : SUBSET Memory]
          /\ b.todo = a.todo \ {m} /\ b.run = a.run /\ b.request = a.request /\ b.key = a.key
          /\ b.read = a.read /\ b.gone = a.gone
      BY <2>3, <3>2
    <3>4. c = [b EXCEPT !.read = read]
      BY <2>4, <3>3
    <3>5. call = [j \in Caller |-> call[j]]
      BY DEF Inv, TypeOK
    <3>6. call' = [call EXCEPT ![k] = [b EXCEPT !.read = read]]
      BY <2>1, <2>2, <3>1, <3>2, <3>3, <3>5
    <3>7. QED
      BY <3>4, <3>6
  <2>6. FromRow(m) \in MemoryRecord /\ FromRow(m).status = status[m]
    BY <1>5, <2>3, RowFields DEF Inv
  <2>7. DOMAIN read = DOMAIN a.read \cup {m} /\ read[m] = FromRow(m)
        /\ \A x \in DOMAIN a.read : x # m => read[x] = a.read[x]
    BY <2>2
  <2>8. IsReading(read)
    BY <2>2, <2>3, <2>6 DEF IsReading
  <2>9. IsCall(c)
    BY <2>3, <2>4, <2>8 DEF IsCall, IsPrepare
  <2>10. call'[k] = c
    BY <2>5, <2>9, CallBecomes DEF Inv
  <2>11. c.op = "prepare" /\ PrepareHolds(c)
    <3>1. /\ c.run = a.run /\ c.request = a.request /\ c.gone = a.gone /\ c.read = read
          /\ c.op = "prepare"
      BY <2>4
    <3>2. PrepareHolds(a)
      BY <1>1, <2>1
    <3>3. Observed[m].tenant = TenantOf[a.run]
      BY <1>5, <2>1, <3>2 DEF PrepareHolds
    <3>4. m \in a.gone => status[m] = "deleted"
      BY <3>2 DEF PrepareHolds
    <3>5. QED
      BY <1>5, <2>6, <2>7, <3>1, <3>2, <3>3, <3>4 DEF PrepareHolds
  <2>12. CallHolds(k)'
    BY <1>1, <2>10, <2>11 DEF CallHolds, PrepareHolds, store
  <2>13. QED
    BY <1>1, <2>5, <2>9, <2>12, CallMoves
<1>6. QED
  BY <1>4, <1>5

LEMMA AssembleContextInv ==
    ASSUME Inv, NEW k \in Caller, AssembleContext(k)
    PROVE  Inv'
<1>1. /\ UNCHANGED <<store, contexts>> /\ UNCHANGED clock
      /\ call[k].op = "prepare" /\ PrepareHolds(call[k])
  BY DEF AssembleContext, Inv, MemoryInv, CallHolds
<1>2. IsPrepare(call[k])
  BY <1>1 DEF Inv, TypeOK, IsCall, Idle
<1>3. PICK a : a = call[k]
  OBVIOUS
<1>4. /\ a.run \in Run /\ a.request \in Request /\ a.key \in Key /\ a.gone \subseteq Memory
      /\ DOMAIN a.read \subseteq Memory /\ PrepareHolds(a)
      /\ clock \in Nat /\ clock \in 0..MaxTime
  BY <1>1, <1>2, <1>3 DEF IsPrepare, IsReading, Inv, TypeOK
<1>5. PICK assembled : assembled = Assemble(a.request, a.read, clock)
  OBVIOUS
<1>6. CASE ~ValidSnapshot(assembled, a.request.tenant)
  BY <1>1, <1>3, <1>5, <1>6, ReturnsOnly DEF AssembleContext
<1>7. CASE ValidSnapshot(assembled, a.request.tenant)
  <2>1. PICK body : body = [assembled EXCEPT !.conflicts = @ \cup a.request.conflicts]
    OBVIOUS
  <2>2. PICK c : c = [op |-> "insert", run |-> a.run, key |-> a.key, gone |-> a.gone, at |-> clock,
                      tenant |-> a.request.tenant, snapshot |-> body]
    OBVIOUS
  <2>3. call' = [call EXCEPT ![k] = c]
    BY <1>3, <1>5, <1>7, <2>1, <2>2 DEF AssembleContext
  <2>4. /\ body.facts = KeptFacts(a.request, clock)
        /\ Detect(body.facts) \cup Warnings(body.facts, clock) \subseteq body.conflicts
        /\ body.memories = {m \in DOMAIN a.read : MemoryPasses(a.read[m], clock)
                                                    /\ CheckAccess(a.read[m], a.request)}
    BY <1>5, <2>1 DEF Assemble
  <2>5. FactsVetted(body, clock)
    BY <1>4, <2>4, AssembledFacts
  <2>6. ASSUME NEW m \in body.memories
        PROVE  /\ m \in Memory /\ Observed[m].tenant = TenantOf[a.run] /\ m \notin a.gone
               /\ m \notin Legacy => Observed[m].trust # "untrusted"
    <3>1. m \in DOMAIN a.read /\ m \in Memory /\ a.read[m].status = "stable"
      BY <1>4, <2>4 DEF MemoryPasses
    <3>2. /\ Observed[m].tenant = TenantOf[a.run] /\ status[m] # "none"
          /\ m \in a.gone => a.read[m].status = "deleted"
      BY <1>4, <3>1 DEF PrepareHolds
    <3>3. QED
      BY <3>1, <3>2 DEF Inv, MemoryInv, GateHolds
  <2>7. a.request.tenant \in STRING
    BY <1>4, MemoryAssumption DEF PrepareHolds, MemoryAssumption
  <2>8. IsCall(c)
    <3>1. c.op = "insert" /\ c.snapshot = body
      BY <2>2
    <3>2. c \in [op : {"insert"}, run : Run, key : Key, gone : SUBSET Memory, at : 0..MaxTime,
                 tenant : STRING, snapshot : {c.snapshot}]
      BY <1>4, <2>2, <2>7, <3>1
    <3>3. QED
      BY <2>6, <3>1, <3>2 DEF IsCall, IsInsert
  <2>9. call'[k] = c
    BY <2>3, <2>8, CallBecomes DEF Inv
  <2>10. /\ c.op = "insert" /\ c.snapshot = body /\ c.at = clock /\ c.gone = a.gone
         /\ c.run = a.run
    BY <2>2
  <2>11. InsertHolds(c)
    BY <2>5, <2>6, <2>10 DEF InsertHolds, MemoriesVetted
  <2>12. CallHolds(k)'
    BY <2>9, <2>10, <2>11 DEF CallHolds, InsertHolds
  <2>13. QED
    BY <1>1, <2>3, <2>8, <2>12, CallMoves
<1>8. QED
  BY <1>6, <1>7

LEMMA InsertContextInv ==
    ASSUME Inv, NEW k \in Caller, InsertContext(k)
    PROVE  Inv'
<1>1. PICK a : a = call[k]
  OBVIOUS
<1>2. /\ UNCHANGED <<clock, store, plan>> /\ Return(k) /\ a.op = "insert" /\ InsertHolds(a)
  BY <1>1 DEF InsertContext, Inv, MemoryInv, CallHolds
<1>3. IsInsert(a)
  BY <1>1, <1>2 DEF Inv, TypeOK, IsCall, Idle
<1>4. CASE ~SnapshotSlotFree(a.run)
  <2>1. UNCHANGED <<store, contexts>> /\ UNCHANGED clock
    BY <1>1, <1>4 DEF InsertContext, contexts
  <2>2. QED
    BY <1>2, <2>1, ReturnsOnly
<1>5. CASE SnapshotSlotFree(a.run)
  <2>1. PICK row : row = Row(k)
    OBVIOUS
  <2>2. row.payload = a.snapshot /\ row.gone = a.gone /\ row.at = a.at
    BY <1>1, <2>1 DEF Row
  <2>3. /\ context' = [context EXCEPT ![a.run] = row]
        /\ remembered' = remembered \cup {<<a.key, a.run>>}
    BY <1>1, <1>5, <2>1 DEF InsertContext
  <2>4. a.run \in Run /\ a.key \in Key /\ a.snapshot.memories \subseteq Memory
    BY <1>3 DEF IsInsert
  <2>5. context = [r \in Run |-> context[r]]
    BY DEF Inv, TypeOK
  <2>6. /\ context' = [r \in Run |-> context'[r]] /\ context'[a.run] = row
        /\ \A r \in Run : r # a.run => context'[r] = context[r]
    BY <2>3, <2>4, <2>5
  <2>7. UNCHANGED <<status, ledger, edges, projections, late, journal, clock, plan>>
    BY <1>2 DEF store
  <2>8. call' = [call EXCEPT ![k] = Idle] /\ IsCall(Idle)
    BY <1>2, IdleCall DEF Return
  <2>9. /\ call' = [j \in Caller |-> call'[j]] /\ call'[k] = Idle
        /\ \A j \in Caller : j # k => call'[j] = call[j]
        /\ \A j \in Caller : IsCall(call'[j])
    BY <2>8, CallBecomes DEF Inv
  <2>10. TypeOK'
    BY <2>2, <2>3, <2>4, <2>6, <2>7, <2>9 DEF Inv, TypeOK
  <2>11. \A j \in Caller : CallHolds(j)'
    <3>1. CallHolds(k)'
      BY <2>9, IdleCall DEF CallHolds
    <3>2. StatusGrows /\ \A j \in Caller : NoWayOut(j)
      BY <2>7, NothingNew
    <3>3. QED
      BY <2>7, <2>9, <3>1, <3>2, CallKept
  <2>12. ASSUME NEW r \in Run
         PROVE  SnapshotHolds(r)'
    <3>1. CASE r = a.run
      BY <1>2, <2>2, <2>6, <3>1 DEF InsertHolds, SnapshotHolds
    <3>2. CASE r # a.run
      BY <2>6, <3>2 DEF Inv, MemoryInv, SnapshotHolds
    <3>3. QED
      BY <3>1, <3>2
  <2>13. GateHolds' /\ LegacyHolds' /\ DeletionIsTotal'
    BY <2>7 DEF Inv, MemoryInv, GateHolds, LegacyHolds, DeletionIsTotal
  <2>14. QED
    BY <2>10, <2>11, <2>12, <2>13 DEF Inv, MemoryInv
<1>6. QED
  BY <1>4, <1>5

LEMMA AdmitInv ==
    ASSUME Inv, NEW k \in Caller, NEW decision, Admit(k, decision)
    PROVE  Inv'
<1>1. PICK m : m = call[k].memory
  OBVIOUS
<1>2. UNCHANGED <<clock, edges, projections, journal, contexts>> /\ call[k].op = "write"
  BY DEF Admit
<1>3. m \in Memory
  BY <1>1, <1>2 DEF Inv, TypeOK, IsCall, Idle, IsWrite
<1>4. CASE decision = "reject" \/ status[m] # "none"
  <2>1. Return(k) /\ UNCHANGED <<store, contexts>> /\ UNCHANGED clock
    BY <1>1, <1>2, <1>4 DEF Admit, store
  <2>2. QED
    BY <2>1, ReturnsOnly
<1>5. CASE decision # "reject" /\ status[m] = "none"
  <2>1. PICK kind : kind = IF decision = "merge" THEN "merge" ELSE "write"
    OBVIOUS
  <2>2. PICK c : c = [op |-> "record", memory |-> m, kind |-> kind]
    OBVIOUS
  <2>3. /\ status' = [status EXCEPT ![m] = "stable"]
        /\ ledger' = ledger \cup {<<"write", m>>}
        /\ late' = late \cup {e \in edges : e[2] = m /\ Escapes(e[1], m)}
        /\ call' = [call EXCEPT ![k] = c]
    BY <1>1, <1>5, <2>1, <2>2 DEF Admit, AddMemory
  <2>4. Observed[m].trust # "untrusted"
    BY <1>1, <1>5 DEF Admit, GateDecisions, Acceptable
  <2>5. status \in [Memory -> {"none", "stable", "deleted"}]
    BY DEF Inv, TypeOK
  <2>6. /\ status' \in [Memory -> {"none", "stable", "deleted"}] /\ status'[m] = "stable"
        /\ \A x \in Memory : x # m => status'[x] = status[x]
    BY <1>3, <2>3, <2>5
  <2>7. UNCHANGED <<clock, edges, projections, journal, context, plan, remembered>>
    BY <1>2 DEF contexts
  <2>8. IsCall(c) /\ c.op = "record" /\ c.memory = m
    BY <1>3, <2>1, <2>2 DEF IsCall, IsRecord
  <2>9. /\ call' = [j \in Caller |-> call'[j]] /\ call'[k] = c
        /\ \A j \in Caller : j # k => call'[j] = call[j]
        /\ \A j \in Caller : IsCall(call'[j])
    BY <2>3, <2>8, CallBecomes DEF Inv
  <2>10. StatusGrows
    BY <1>5, <2>6 DEF StatusGrows
  <2>11. \A e \in edges : e[1] \in Memory /\ e[2] \in Memory
    BY DEF Inv, TypeOK
  <2>12. TypeOK'
    <3>1. ledger' \subseteq ({"write"} \X Memory) \cup ({"delete"} \X Memory \X Memory)
      BY <1>3, <2>3 DEF Inv, TypeOK
    <3>2. late' \subseteq edges'
      BY <2>3, <2>7 DEF Inv, TypeOK
    <3>3. QED
      BY <2>6, <2>7, <2>9, <3>1, <3>2 DEF Inv, TypeOK
  <2>13. \A j \in Caller : CallHolds(j)'
    <3>1. CallHolds(k)'
      BY <2>6, <2>8, <2>9 DEF CallHolds
    <3>2. ASSUME NEW j \in Caller
          PROVE  NoWayOut(j)
      <4>1. ASSUME NEW e \in edges' \ late', e[1] \in Collected(j), e[2] \notin Collected(j)
            PROVE  e \in edges \ late /\ (status'[e[2]] = "stable" => status[e[2]] = "stable")
        <5>1. e \in edges \ late /\ Escapes(e[1], e[2])
          BY <2>3, <2>7, <4>1 DEF Escapes
        <5>2. e[2] # m
          BY <2>3, <2>7, <4>1, <5>1
        <5>3. QED
          BY <2>6, <2>11, <5>1, <5>2
      <4>2. QED
        BY <4>1 DEF NoWayOut
    <3>3. QED
      BY <2>9, <2>10, <3>1, <3>2, CallKept
  <2>14. GateHolds'
    BY <2>4, <2>6 DEF Inv, MemoryInv, GateHolds
  <2>15. DeletionIsTotal'
    <3>1. m \notin Legacy
      BY <1>3, <1>5 DEF Inv, MemoryInv, LegacyHolds
    <3>2. ASSUME NEW e \in edges' \ late', status'[e[1]] = "deleted"
          PROVE  status'[e[2]] # "stable"
      <4>1. e \in edges \ late /\ e[1] # m /\ status[e[1]] = "deleted"
        BY <2>3, <2>6, <2>7, <2>11, <3>2
      <4>2. e[2] # m
        BY <2>3, <3>2, <4>1 DEF Escapes
      <4>3. QED
        BY <2>6, <2>11, <4>1, <4>2 DEF Inv, MemoryInv, DeletionIsTotal
    <3>3. ASSUME NEW x \in Memory
          PROVE  <<"write", x>> \in ledger' <=> x \notin Legacy /\ status'[x] # "none"
      BY <2>3, <2>6, <3>1 DEF Inv, MemoryInv, DeletionIsTotal
    <3>4. ASSUME NEW x \in Memory
          PROVE  (\E root \in Memory : <<"delete", x, root>> \in ledger') <=> status'[x] = "deleted"
      <4>1. \A root \in Memory : <<"delete", x, root>> \in ledger' <=> <<"delete", x, root>> \in ledger
        BY <2>3
      <4>2. status'[x] = "deleted" <=> status[x] = "deleted"
        BY <1>5, <2>6
      <4>3. QED
        BY <4>1, <4>2 DEF Inv, MemoryInv, DeletionIsTotal
    <3>5. \A x \in projections' : status'[x] # "deleted"
      BY <1>5, <2>6, <2>7 DEF Inv, TypeOK, MemoryInv, DeletionIsTotal
    <3>6. \A entry \in journal' : status'[entry[2]] # "none"
      <4>1. \A entry \in journal : entry[2] \in Memory
        BY DEF Inv, TypeOK
      <4>2. QED
        BY <2>7, <2>10, <4>1 DEF Inv, MemoryInv, DeletionIsTotal, StatusGrows
    <3>7. QED
      BY <3>2, <3>3, <3>4, <3>5, <3>6 DEF DeletionIsTotal
  <2>16. LegacyHolds'
    BY <2>10, MemoryAssumption DEF MemoryAssumption, Inv, MemoryInv, LegacyHolds, StatusGrows
  <2>17. QED
    BY <2>7, <2>12, <2>13, <2>14, <2>15, <2>16, SnapshotsKept DEF Inv, MemoryInv
<1>6. QED
  BY <1>4, <1>5

LEMMA RecordWriteInv ==
    ASSUME Inv, NEW k \in Caller, RecordWrite(k)
    PROVE  Inv'
<1>1. PICK a : a = call[k]
  OBVIOUS
<1>2. /\ a.op = "record" /\ journal' = journal \cup {<<a.kind, a.memory>>}
      /\ UNCHANGED <<clock, status, ledger, edges, projections, late, contexts>>
      /\ call' = [call EXCEPT ![k] = Idle] /\ IsCall(Idle)
  BY <1>1, IdleCall DEF RecordWrite, Return
<1>3. a.memory \in Memory /\ a.kind \in {"write", "merge"} /\ status[a.memory] # "none"
  BY <1>1, <1>2 DEF Inv, TypeOK, IsCall, Idle, IsRecord, MemoryInv, CallHolds
<1>4. UNCHANGED <<context, plan, remembered>>
  BY <1>2 DEF contexts
<1>5. /\ call' = [j \in Caller |-> call'[j]] /\ call'[k] = Idle
      /\ \A j \in Caller : j # k => call'[j] = call[j]
      /\ \A j \in Caller : IsCall(call'[j])
  BY <1>2, CallBecomes DEF Inv
<1>6. TypeOK'
  BY <1>2, <1>3, <1>4, <1>5 DEF Inv, TypeOK
<1>7. \A j \in Caller : CallHolds(j)'
  <2>1. CallHolds(k)'
    BY <1>5, IdleCall DEF CallHolds
  <2>2. StatusGrows /\ \A j \in Caller : NoWayOut(j)
    BY <1>2, NothingNew
  <2>3. QED
    BY <1>5, <2>1, <2>2, CallKept
<1>8. DeletionIsTotal'
  <2>1. \A entry \in journal' : status'[entry[2]] # "none"
    BY <1>2, <1>3 DEF Inv, MemoryInv, DeletionIsTotal
  <2>2. QED
    BY <1>2, <2>1 DEF Inv, MemoryInv, DeletionIsTotal
<1>9. GateHolds' /\ LegacyHolds'
  BY <1>2 DEF Inv, MemoryInv, GateHolds, LegacyHolds
<1>10. QED
  BY <1>4, <1>6, <1>7, <1>8, <1>9, SnapshotsKept DEF Inv, MemoryInv

LEMMA DeriveInv ==
    ASSUME Inv, NEW parent \in Memory, NEW child \in Memory, Derive(parent, child)
    PROVE  Inv'
<1> DEFINE e == <<parent, child>>
<1>1. /\ UNCHANGED <<clock, status, ledger, projections, journal, contexts, call>>
      /\ edges' = edges \cup {e}
      /\ late' = IF Escapes(parent, child) THEN late \cup {e} ELSE late
  BY DEF Derive
<1>2. UNCHANGED <<context, plan, remembered>>
  BY <1>1 DEF contexts
<1>3. e[1] = parent /\ e[2] = child /\ e \in Memory \X Memory
  OBVIOUS
<1> HIDE DEF e
<1>4. TypeOK'
  BY <1>1, <1>2, <1>3 DEF Inv, TypeOK
<1>5. StatusGrows
  BY <1>1 DEF StatusGrows
<1>6. ASSUME NEW j \in Caller
      PROVE  CallHolds(j)'
  <2>1. ASSUME NEW f \in edges' \ late', f \notin edges \ late
        PROVE  f[1] \in Collected(j) => f[2] \in Collected(j)
    <3>1. f = e /\ ~Escapes(parent, child)
      BY <1>1, <2>1
    <3>2. QED
      BY <1>3, <3>1 DEF Escapes
  <2>2. NoWayOut(j)
    BY <1>1, <2>1 DEF NoWayOut
  <2>3. QED
    BY <1>1, <1>5, <2>2, CallKept
<1>7. DeletionIsTotal'
  <2>1. ASSUME NEW f \in edges' \ late', status[f[1]] = "deleted"
        PROVE  status[f[2]] # "stable"
    <3>1. f # e \/ f \in edges \ late
      BY <1>1, <1>3, <2>1 DEF Escapes
    <3>2. f \in edges \ late
      BY <1>1, <2>1, <3>1
    <3>3. QED
      BY <2>1, <3>2 DEF Inv, MemoryInv, DeletionIsTotal
  <2>2. QED
    BY <1>1, <2>1 DEF Inv, MemoryInv, DeletionIsTotal
<1>8. GateHolds' /\ LegacyHolds'
  BY <1>1 DEF Inv, MemoryInv, GateHolds, LegacyHolds
<1>9. QED
  BY <1>2, <1>4, <1>6, <1>7, <1>8, SnapshotsKept DEF Inv, MemoryInv

LEMMA TombstoneInv ==
    ASSUME Inv, NEW k \in Caller, Tombstone(k)
    PROVE  Inv'
<1>1. PICK a : a = call[k]
  OBVIOUS
<1>2. a.op = "tombstone" /\ TombstoneHolds(a)
  BY <1>1 DEF Tombstone, Inv, MemoryInv, CallHolds
<1>3. a.root \in Memory /\ a.existing \subseteq Memory
  BY <1>1, <1>2 DEF Inv, TypeOK, IsCall, Idle, IsTombstone
<1>4. /\ status' = [m \in Memory |-> IF m \in a.existing THEN "deleted" ELSE status[m]]
      /\ projections' = projections \ a.existing
      /\ ledger' = ledger \cup Entries(a.root, a.existing)
      /\ call' = [call EXCEPT ![k] = Idle] /\ IsCall(Idle)
      /\ UNCHANGED <<clock, edges, late, journal, contexts>>
  BY <1>1, IdleCall DEF Tombstone, Return
<1>5. UNCHANGED <<context, plan, remembered>>
  BY <1>4 DEF contexts
<1>6. status \in [Memory -> {"none", "stable", "deleted"}]
  BY DEF Inv, TypeOK
<1>7. /\ status' \in [Memory -> {"none", "stable", "deleted"}]
      /\ \A m \in a.existing : status'[m] = "deleted"
      /\ \A m \in Memory \ a.existing : status'[m] = status[m]
  BY <1>3, <1>4, <1>6
<1>8. StatusGrows
  BY <1>7 DEF StatusGrows
<1>9. \A m \in Memory : status'[m] # "none" <=> status[m] # "none"
  BY <1>2, <1>7 DEF TombstoneHolds
<1>10. /\ call' = [j \in Caller |-> call'[j]] /\ call'[k] = Idle
       /\ \A j \in Caller : j # k => call'[j] = call[j]
       /\ \A j \in Caller : IsCall(call'[j])
  BY <1>4, CallBecomes DEF Inv
<1>11. Entries(a.root, a.existing) \subseteq {"delete"} \X Memory \X Memory
  BY <1>3 DEF Entries
<1>12. TypeOK'
  BY <1>4, <1>5, <1>7, <1>10, <1>11 DEF Inv, TypeOK
<1>13. \A j \in Caller : CallHolds(j)'
  <2>1. CallHolds(k)'
    BY <1>10, IdleCall DEF CallHolds
  <2>2. \A m \in Memory : status'[m] = "stable" => status[m] = "stable"
    BY <1>7
  <2>3. \A j \in Caller : NoWayOut(j)
    BY <1>4, <2>2 DEF Inv, TypeOK, NoWayOut
  <2>4. QED
    BY <1>8, <1>10, <2>1, <2>3, CallKept
<1>14. GateHolds' /\ LegacyHolds'
  BY <1>9, MemoryAssumption DEF MemoryAssumption, Inv, MemoryInv, GateHolds, LegacyHolds
<1>15. DeletionIsTotal'
  <2>1. ASSUME NEW e \in edges \ late, status'[e[1]] = "deleted"
        PROVE  status'[e[2]] # "stable"
    <3>1. e[1] \in Memory /\ e[2] \in Memory
      BY DEF Inv, TypeOK
    <3>2. CASE e[1] \in a.existing
      BY <1>2, <1>7, <3>1, <3>2 DEF TombstoneHolds
    <3>3. CASE e[1] \notin a.existing
      BY <1>7, <2>1, <3>1, <3>3 DEF Inv, MemoryInv, DeletionIsTotal
    <3>4. QED
      BY <3>2, <3>3
  <2>2. ASSUME NEW m \in Memory
        PROVE  <<"write", m>> \in ledger' <=> m \notin Legacy /\ status'[m] # "none"
    <3>1. <<"write", m>> \notin Entries(a.root, a.existing)
      BY DEF Entries
    <3>2. QED
      BY <1>4, <1>9, <3>1 DEF Inv, MemoryInv, DeletionIsTotal
  <2>3. ASSUME NEW m \in Memory
        PROVE  (\E root \in Memory : <<"delete", m, root>> \in ledger') <=> status'[m] = "deleted"
    <3>1. CASE m \in a.existing
      <4>1. <<"delete", m, a.root>> \in ledger'
        BY <1>4, <3>1 DEF Entries
      <4>2. QED
        BY <1>3, <1>7, <3>1, <4>1
    <3>2. CASE m \notin a.existing
      <4>1. \A root \in Memory : <<"delete", m, root>> \notin Entries(a.root, a.existing)
        BY <3>2 DEF Entries
      <4>2. QED
        BY <1>4, <1>7, <3>2, <4>1 DEF Inv, MemoryInv, DeletionIsTotal
    <3>3. QED
      BY <3>1, <3>2
  <2>4. \A m \in projections' : status'[m] # "deleted"
    BY <1>4, <1>7 DEF Inv, TypeOK, MemoryInv, DeletionIsTotal
  <2>5. \A entry \in journal' : status'[entry[2]] # "none"
    <3>1. \A entry \in journal : entry[2] \in Memory
      BY DEF Inv, TypeOK
    <3>2. QED
      BY <1>4, <1>9, <3>1 DEF Inv, MemoryInv, DeletionIsTotal
  <2>6. QED
    BY <1>4, <2>1, <2>2, <2>3, <2>4, <2>5 DEF DeletionIsTotal
<1>16. QED
  BY <1>5, <1>12, <1>13, <1>14, <1>15, SnapshotsKept DEF Inv, MemoryInv

\* An index entry, a Plan or a tick touches nothing that the invariant speaks of.
LEMMA AsideInv ==
    ASSUME Inv, UNCHANGED <<status, ledger, edges, late, journal, context, remembered, call>>,
           clock' \in 0..MaxTime, projections' \subseteq Memory, plan' = [r \in Run |-> plan'[r]],
           \A m \in projections' : status[m] # "deleted"
    PROVE  Inv'
<1>1. TypeOK'
  BY DEF Inv, TypeOK
<1>2. StatusGrows /\ \A j \in Caller : NoWayOut(j)
  BY NothingNew
<1>3. \A j \in Caller : CallHolds(j)'
  BY <1>2, CallKept
<1>4. GateHolds' /\ LegacyHolds' /\ DeletionIsTotal'
  BY DEF Inv, MemoryInv, GateHolds, LegacyHolds, DeletionIsTotal
<1>5. QED
  BY <1>1, <1>3, <1>4, SnapshotsKept DEF Inv, MemoryInv

LEMMA ProjectInv ==
    ASSUME Inv, NEW m \in Indexed, Project(m)
    PROVE  Inv'
<1>1. /\ projections' \subseteq Memory /\ clock' \in 0..MaxTime /\ plan' = [r \in Run |-> plan'[r]]
      /\ \A x \in projections' : status[x] # "deleted"
  BY MemoryAssumption
     DEF MemoryAssumption, Project, contexts, Inv, TypeOK, MemoryInv, DeletionIsTotal
<1>2. QED
  BY <1>1, AsideInv DEF Project, contexts

LEMMA CreatePlanInv ==
    ASSUME Inv, NEW r \in Run, CreatePlan(r)
    PROVE  Inv'
<1>1. plan = [s \in Run |-> plan[s]]
  BY DEF Inv, TypeOK
<1>2. plan' = [s \in Run |-> plan'[s]]
  BY <1>1 DEF CreatePlan
<1>3. /\ clock' \in 0..MaxTime /\ projections' \subseteq Memory
      /\ \A m \in projections' : status[m] # "deleted"
  BY DEF CreatePlan, store, Inv, TypeOK, MemoryInv, DeletionIsTotal
<1>4. QED
  BY <1>2, <1>3, AsideInv DEF CreatePlan, store

LEMMA TickInv ==
    ASSUME Inv, Tick
    PROVE  Inv'
<1>1. /\ clock' \in 0..MaxTime /\ projections' \subseteq Memory /\ plan' = [r \in Run |-> plan'[r]]
      /\ \A m \in projections' : status[m] # "deleted"
  BY MemoryAssumption
     DEF MemoryAssumption, Tick, store, contexts, Inv, TypeOK, MemoryInv, DeletionIsTotal
<1>2. QED
  BY <1>1, AsideInv DEF Tick, store, contexts

LEMMA InitInv == Init => Inv
<1> SUFFICES ASSUME Init PROVE Inv
  OBVIOUS
<1>1. TypeOK
  BY IdleCall, MemoryAssumption DEF MemoryAssumption, Init, TypeOK
<1>2. \A k \in Caller : CallHolds(k)
  BY IdleCall DEF Init, CallHolds
<1>3. \A r \in Run : SnapshotHolds(r)
  BY DEF Init, SnapshotHolds
<1>4. GateHolds /\ LegacyHolds /\ DeletionIsTotal
  BY MemoryAssumption DEF MemoryAssumption, Init, GateHolds, LegacyHolds, DeletionIsTotal
<1>5. QED
  BY <1>1, <1>2, <1>3, <1>4 DEF Inv, MemoryInv

LEMMA NextInv ==
    ASSUME Inv, [Next]_vars
    PROVE  Inv'
<1>1. CASE UNCHANGED vars
  <2>1. UNCHANGED <<status, ledger, edges, late, journal, context, remembered, call>>
        /\ UNCHANGED <<clock, projections, plan>>
    BY <1>1 DEF vars
  <2>2. /\ clock' \in 0..MaxTime /\ projections' \subseteq Memory /\ plan' = [r \in Run |-> plan'[r]]
        /\ \A m \in projections' : status[m] # "deleted"
    BY <2>1 DEF Inv, TypeOK, MemoryInv, DeletionIsTotal
  <2>3. QED
    BY <2>1, <2>2, AsideInv
<1>2. ASSUME NEW k \in Caller, Rollback(k)
      PROVE  Inv'
  BY <1>2, ReturnsOnly DEF Rollback
<1>3. QED
  BY <1>1, <1>2, WriteLookInv, AdmitInv, RecordWriteInv, DeriveInv, ProjectInv, DeleteLookInv, DeleteExistingInv,
     TombstoneInv, PrepareInv, ReadMemoryInv, AssembleContextInv, InsertContextInv, CreatePlanInv,
     TickInv DEF Next

LEMMA Inductive == Spec => []Inv
<1>1. Inv /\ [Next]_vars => Inv'
  BY NextInv
<1>2. QED
  BY <1>1, InitInv, PTL DEF Spec

-----------------------------------------------------------------------------
(* Theorems.                                                                *)

\* Rows, references and transactions stay well formed, whoever writes, deletes and prepares.
THEOREM MemoryTypeCorrect == Spec => []TypeOK
<1>1. Inv => TypeOK
  BY DEF Inv
<1>2. QED
  BY <1>1, Inductive, PTL

\* delete_memory and check_memory: what was forgotten when a preparation began is in no
\* snapshot it makes, for any memories, callers and commands.
THEOREM ForgottenIsOut == Spec => []ForgottenStaysOut
<1>1. Inv => ForgottenStaysOut
  BY DEF Inv, MemoryInv, SnapshotHolds, ForgottenStaysOut, Snapshots
<1>2. QED
  BY <1>1, Inductive, PTL

\* delete_memory and add_memory: whatever deletion graph is derived and whatever runs beside it,
\* a deletion takes everything derived from it and stored before it looked, out of the index too,
\* and the ledger tells exactly what happened.
THEOREM DeletionsAreTotal == Spec => []DeletionIsTotal
<1>1. Inv => DeletionIsTotal
  BY DEF Inv, MemoryInv
<1>2. QED
  BY <1>1, Inductive, PTL

\* assemble, detect, mark_prompt_injection and MemoryWriteGate.evaluate: for facts in any number
\* and order, a context names its contradictions and its stale facts, and its memories are the
\* tenant's and trusted.
THEOREM ContextsAreVetted == Spec => []ContextIsVetted
<1>1. Inv => ContextIsVetted
  BY DEF Inv, MemoryInv, SnapshotHolds, FactsVetted, MemoriesVetted, ContextIsVetted, Snapshots
<1>2. QED
  BY <1>1, Inductive, PTL

=============================================================================

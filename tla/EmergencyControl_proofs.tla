----------------------- MODULE EmergencyControl_proofs -----------------------
(***************************************************************************)
(* Proofs about EmergencyControl, for any number of tenants, principals,   *)
(* authorizations, requests and checks: the trail tells the platform's     *)
(* state, no hand serves itself, and a handover of stops leaves no gap.    *)
(***************************************************************************)
EXTENDS EmergencyControl, TLAPS

-----------------------------------------------------------------------------
(* The inductive invariants.                                                *)

\* A pending change was asked for under an authorization of the one who asks.
ChangeHolds(k) ==
    request[k].pc \in {"activate", "deactivate", "insert", "close"} =>
        /\ auths[request[k].auth] # None
        /\ auths[request[k].auth].principal = request[k].principal

\* The row a request is about to close exists; the platform's is locked by it and still on.
RowHolds(k) ==
    /\ request[k].pc = "lift" => request[k].row \in DOMAIN switches[request[k].tenant]
    /\ request[k].pc = "close" =>
         /\ lock = k
         /\ request[k].row \in DOMAIN platform /\ platform[request[k].row]

\* Only the newest row of the platform may be on, and every row but an active one has two
\* events.
RowsAndTrail ==
    /\ \A i \in DOMAIN platform : platform[i] => i = Len(platform)
    /\ Len(trail) = IF PlatformActive THEN 2 * Len(platform) - 1 ELSE 2 * Len(platform)
    /\ \A n \in DOMAIN trail : trail[n].event = IF n % 2 = 1 THEN Opened ELSE Closed
    /\ \A n \in DOMAIN trail : trail[n].row = (n + 1) \div 2

\* Grants were made and reviewed by others than the principal they are for, and what is in the
\* trail was done under one of them.
HandsHold ==
    /\ \A a \in Auth : auths[a] # None =>
         auths[a].issuer # auths[a].principal /\ auths[a].reviewer # auths[a].principal
    /\ \A n \in DOMAIN trail :
         auths[trail[n].auth] # None /\ auths[trail[n].auth].principal = trail[n].principal

\* A check that was stopped all the time and is past its first query found the platform switch
\* off, and it has been off since.
GateHolds(g) ==
    /\ gate[g] = "second" /\ covered[g] => ~PlatformActive
    /\ gate[g] = "open" => ~covered[g]

EmergencyInv ==
    /\ \A k \in Request : ChangeHolds(k)
    /\ \A k \in Request : RowHolds(k)
    /\ RowsAndTrail
    /\ HandsHold
    /\ \A g \in Gate : GateHolds(g)

-----------------------------------------------------------------------------
(* Requests and identities.                                                 *)

\* What a request carries at each point.
LEMMA RequestFields ==
    ASSUME NEW r \in RequestRow
    PROVE  /\ r.pc \in {"idle", "lift", "audit", "activate", "deactivate", "insert", "close"}
           /\ r.pc = "lift" => r.tenant \in Tenant /\ r.row \in Nat
           /\ r.pc = "audit" => r.fact \in AuditFact
           /\ r.pc \in {"activate", "deactivate", "insert", "close"} =>
                r.principal \in Principal /\ r.auth \in Auth
           /\ r.pc = "close" => r.row \in Nat
BY DEF RequestRow, Idle

\* OIDCValidator.validate: an identity has a tenant and a principal.
LEMMA IdentityType ==
    ASSUME NEW roles, NEW who \in InRole(roles)
    PROVE  who.tenant \in Tenant /\ who.principal \in Principal
<1>1. PICK tok \in Token : who = Identity(tok)
  BY DEF InRole
<1>2. QED
  BY <1>1, EmergencyAssumption DEF Identity

LEMMA NoneType == None \notin Request /\ None \notin Principal /\ None \notin AuthRow
BY EmergencyAssumption

Becomes(k, r) == request' = [request EXCEPT ![k] = r]

LEMMA BecomesType ==
    ASSUME request \in [Request -> RequestRow], NEW k \in Request, NEW r \in RequestRow, Becomes(k, r)
    PROVE  /\ request' \in [Request -> RequestRow]
           /\ request'[k] = r
           /\ \A j \in Request : j # k => request'[j] = request[j]
BY DEF Becomes

LEMMA ReturnBecomes ==
    ASSUME NEW k \in Request, Return(k)
    PROVE  Becomes(k, Idle) /\ Idle \in RequestRow /\ Idle.pc = "idle"
BY DEF Return, Becomes, RequestRow, Idle

LEMMA AuditedBecomes ==
    ASSUME NEW k \in Request, NEW fact \in AuditFact, Audited(k, fact)
    PROVE  /\ Becomes(k, [pc |-> "audit", fact |-> fact])
           /\ [pc |-> "audit", fact |-> fact] \in RequestRow
BY DEF Audited, Becomes, RequestRow

-----------------------------------------------------------------------------
(* What a step leaves alone.                                                *)

\* Watch keeps the history right for checks that do not move.
LEMMA GatesKept ==
    ASSUME TypeOK, EmergencyInv, Watch, UNCHANGED gate
    PROVE  covered' \in [Gate -> BOOLEAN] /\ \A g \in Gate : GateHolds(g)'
<1>1. covered' \in [Gate -> BOOLEAN]
  BY DEF Watch, TypeOK, Stopped, PlatformActive, TenantStopped
<1>2. ASSUME NEW g \in Gate
      PROVE  GateHolds(g)'
  <2>1. GateHolds(g)
    BY DEF EmergencyInv
  <2>2. CASE gate[g] = "second"
    <3>1. covered'[g] => covered[g] /\ (PlatformActive' => PlatformActive)
      BY <2>2 DEF Watch, Checking
    <3>2. QED
      BY <2>1, <2>2, <3>1 DEF GateHolds
  <2>3. CASE gate[g] = "open"
    <3>1. covered'[g] = covered[g]
      BY <2>3 DEF Watch, Checking
    <3>2. QED
      BY <2>1, <2>3, <3>1 DEF GateHolds
  <2>4. QED
    BY <2>2, <2>3 DEF GateHolds
<1>3. QED
  BY <1>1, <1>2

\* Authorizations are neither withdrawn nor passed on.
GrantsKept ==
    \A a \in Auth : auths[a] # None => auths'[a] # None /\ auths'[a].principal = auths[a].principal

LEMMA ChangesKept ==
    ASSUME TypeOK, EmergencyInv, GrantsKept, NEW k \in Request, NEW r \in RequestRow, Becomes(k, r),
           r.pc \in {"activate", "deactivate", "insert", "close"} =>
             auths'[r.auth] # None /\ auths'[r.auth].principal = r.principal
    PROVE  \A j \in Request : ChangeHolds(j)'
<1>1. request'[k] = r /\ \A j \in Request : j # k => request'[j] = request[j]
  BY BecomesType DEF TypeOK
<1>2. ASSUME NEW j \in Request, j # k
      PROVE  ChangeHolds(j)'
  <2>1. ChangeHolds(j) /\ request'[j] = request[j] /\ request[j] \in RequestRow
    BY <1>1, <1>2 DEF EmergencyInv, TypeOK
  <2>2. QED
    BY <2>1, RequestFields DEF ChangeHolds, GrantsKept
<1>3. ChangeHolds(k)'
  BY <1>1 DEF ChangeHolds
<1>4. QED
  BY <1>2, <1>3

\* Rows are never removed, so a request that goes elsewhere disturbs no other.
LEMMA RowsKept ==
    ASSUME TypeOK, EmergencyInv, NEW k \in Request, NEW r \in RequestRow, Becomes(k, r),
           \A t \in Tenant : DOMAIN switches[t] \subseteq DOMAIN switches'[t],
           UNCHANGED <<platform, lock>>,
           r.pc = "lift" => r.row \in DOMAIN switches'[r.tenant], r.pc # "close"
    PROVE  \A j \in Request : RowHolds(j)'
<1>1. request'[k] = r /\ \A j \in Request : j # k => request'[j] = request[j]
  BY BecomesType DEF TypeOK
<1>2. ASSUME NEW j \in Request, j # k
      PROVE  RowHolds(j)'
  <2>1. RowHolds(j) /\ request'[j] = request[j] /\ request[j] \in RequestRow
    BY <1>1, <1>2 DEF EmergencyInv, TypeOK
  <2>2. QED
    BY <2>1, RequestFields DEF RowHolds
<1>3. RowHolds(k)'
  BY <1>1 DEF RowHolds
<1>4. QED
  BY <1>2, <1>3

LEMMA TrailKept ==
    ASSUME EmergencyInv, UNCHANGED <<platform, trail>>
    PROVE  RowsAndTrail'
BY DEF EmergencyInv, RowsAndTrail, PlatformActive

LEMMA HandsKept ==
    ASSUME EmergencyInv, UNCHANGED <<auths, trail>>
    PROVE  HandsHold' /\ GrantsKept
BY DEF EmergencyInv, HandsHold, GrantsKept

\* A step of k that only moves k.
LEMMA MovesOnly ==
    ASSUME TypeOK, EmergencyInv, NEW k \in Request, NEW r \in RequestRow, Becomes(k, r),
           UNCHANGED <<switches, platform, trail, auths, lock, gate>>, audit' \subseteq AuditFact, Watch,
           r.pc \in {"activate", "deactivate", "insert"} =>
             auths[r.auth] # None /\ auths[r.auth].principal = r.principal,
           r.pc = "lift" => r.row \in DOMAIN switches[r.tenant], r.pc # "close"
    PROVE  TypeOK' /\ EmergencyInv'
<1>1. TypeOK'
  BY BecomesType, GatesKept DEF TypeOK
<1>2. HandsHold' /\ GrantsKept
  BY HandsKept
<1>3. \A j \in Request : ChangeHolds(j)'
  BY <1>2, ChangesKept
<1>4. \A j \in Request : RowHolds(j)'
  BY RowsKept
<1>5. QED
  BY <1>1, <1>2, <1>3, <1>4, TrailKept, GatesKept DEF EmergencyInv

LEMMA ReturnsOnly ==
    ASSUME TypeOK, EmergencyInv, NEW k \in Request, Return(k),
           UNCHANGED <<switches, platform, trail, auths, lock, gate>>, audit' \subseteq AuditFact, Watch
    PROVE  TypeOK' /\ EmergencyInv'
<1>1. Becomes(k, Idle) /\ Idle \in RequestRow /\ Idle.pc = "idle"
  BY ReturnBecomes
<1>2. QED
  BY <1>1, MovesOnly

-----------------------------------------------------------------------------
(* Switches of a tenant.                                                    *)

LEMMA InitInv == Init => TypeOK /\ EmergencyInv
<1> SUFFICES ASSUME Init PROVE TypeOK /\ EmergencyInv
  OBVIOUS
<1>1. Idle \in RequestRow /\ Idle.pc = "idle"
  BY DEF RequestRow, Idle
<1>2. TypeOK
  BY <1>1 DEF Init, TypeOK
<1>3. \A k \in Request : request[k].pc = "idle"
  BY <1>1 DEF Init
<1>4. ~PlatformActive /\ Len(platform) = 0 /\ Len(trail) = 0
  BY DEF Init, PlatformActive
<1>5. RowsAndTrail /\ HandsHold
  BY <1>4 DEF Init, RowsAndTrail, HandsHold
<1>6. \A g \in Gate : GateHolds(g)
  BY DEF Init, GateHolds
<1>7. QED
  BY <1>2, <1>3, <1>5, <1>6 DEF EmergencyInv, ChangeHolds, RowHolds

LEMMA ActivateInv ==
    ASSUME TypeOK, EmergencyInv, NEW who, who.tenant \in Tenant, NEW s \in Stop, Activate(who, s)
    PROVE  TypeOK' /\ EmergencyInv'
<1>1. UNCHANGED <<platform, trail, auths, audit, request, lock, gate>> /\ Watch
  BY DEF Activate
<1>2. [stop |-> s, active |-> TRUE] \in SwitchRow
  BY DEF SwitchRow
<1>3. /\ switches' \in [Tenant -> Seq(SwitchRow)]
      /\ \A t \in Tenant : DOMAIN switches[t] \subseteq DOMAIN switches'[t]
  BY <1>2 DEF Activate, TypeOK
<1>4. TypeOK'
  BY <1>1, <1>3, GatesKept DEF TypeOK
<1>5. \A k \in Request : ChangeHolds(k)'
  BY <1>1 DEF EmergencyInv, ChangeHolds
<1>6. ASSUME NEW k \in Request
      PROVE  RowHolds(k)'
  <2>1. RowHolds(k) /\ request[k] \in RequestRow
    BY DEF EmergencyInv, TypeOK
  <2>2. QED
    BY <1>1, <1>3, <2>1, RequestFields DEF RowHolds
<1>7. QED
  BY <1>1, <1>4, <1>5, <1>6, TrailKept, HandsKept, GatesKept DEF EmergencyInv

LEMMA DeactivateSelectInv ==
    ASSUME TypeOK, EmergencyInv, NEW k \in Request, NEW who, who.tenant \in Tenant, NEW s \in Stop,
           NEW i \in 1..MaxRows, DeactivateSelect(k, who, s, i)
    PROVE  TypeOK' /\ EmergencyInv'
<1> DEFINE r == [pc |-> "lift", tenant |-> who.tenant, row |-> i]
<1>1. Becomes(k, r) /\ i \in DOMAIN switches[who.tenant]
  BY DEF DeactivateSelect, Becomes, ActiveRows
<1>2. r \in RequestRow
  BY EmergencyAssumption DEF RequestRow
<1>3. r.pc = "lift" /\ r.row \in DOMAIN switches[r.tenant]
  BY <1>1
<1>4. UNCHANGED <<switches, platform, trail, auths, lock, gate>> /\ Watch /\ audit' \subseteq AuditFact
  BY DEF DeactivateSelect, stored, TypeOK
<1> HIDE DEF r
<1>5. QED
  BY <1>1, <1>2, <1>3, <1>4, MovesOnly

LEMMA DeactivateUpdateInv ==
    ASSUME TypeOK, EmergencyInv, NEW k \in Request, DeactivateUpdate(k)
    PROVE  TypeOK' /\ EmergencyInv'
<1>1. /\ UNCHANGED <<platform, trail, auths, audit, lock, gate>> /\ Watch
      /\ Becomes(k, Idle) /\ Idle \in RequestRow /\ Idle.pc = "idle"
  BY ReturnBecomes DEF DeactivateUpdate
<1>2. request[k].tenant \in Tenant /\ request[k].row \in DOMAIN switches[request[k].tenant]
  BY RequestFields DEF DeactivateUpdate, At, EmergencyInv, RowHolds, TypeOK
<1> DEFINE t == request[k].tenant
           i == request[k].row
<1>3. /\ [switches[t][i] EXCEPT !.active = FALSE] \in SwitchRow
      /\ RowClosed(t, i) = [switches[t] EXCEPT ![i] = [switches[t][i] EXCEPT !.active = FALSE]]
  <2>1. switches[t] \in Seq(SwitchRow)
    BY <1>2 DEF TypeOK
  <2>2. switches[t][i] \in SwitchRow
    BY <1>2, <2>1
  <2>3. QED
    BY <2>2 DEF RowClosed, SwitchRow
<1>4. RowClosed(t, i) \in Seq(SwitchRow) /\ DOMAIN RowClosed(t, i) = DOMAIN switches[t]
  <2>1. switches[t] \in Seq(SwitchRow)
    BY <1>2 DEF TypeOK
  <2>2. QED
    BY <1>2, <1>3, <2>1
<1>5. switches' = [switches EXCEPT ![t] = RowClosed(t, i)]
  BY DEF DeactivateUpdate
<1> HIDE DEF t, i
<1>6. /\ switches' \in [Tenant -> Seq(SwitchRow)]
      /\ \A u \in Tenant : DOMAIN switches[u] \subseteq DOMAIN switches'[u]
  BY <1>2, <1>4, <1>5 DEF TypeOK
<1>7. TypeOK'
  BY <1>1, <1>6, BecomesType, GatesKept DEF TypeOK
<1>8. HandsHold' /\ GrantsKept
  BY <1>1, HandsKept
<1>9. (\A j \in Request : ChangeHolds(j)') /\ (\A j \in Request : RowHolds(j)')
  BY <1>1, <1>6, <1>8, ChangesKept, RowsKept
<1>10. QED
  BY <1>1, <1>7, <1>8, <1>9, TrailKept, GatesKept DEF EmergencyInv

-----------------------------------------------------------------------------
(* Authorizations.                                                          *)

\* A step that writes a row of auths: the grants in use stay, nobody serves himself.
LEMMA GrantWritten ==
    ASSUME TypeOK, EmergencyInv, NEW k \in Request, NEW r \in RequestRow, Becomes(k, r), r.pc = "audit",
           NEW a \in Auth, NEW row \in AuthRow, auths' = [auths EXCEPT ![a] = row],
           auths[a] # None => row.principal = auths[a].principal,
           row.issuer # row.principal, row.reviewer # row.principal,
           UNCHANGED <<switches, platform, trail, audit, lock, gate>>, Watch
    PROVE  TypeOK' /\ EmergencyInv'
<1>1. /\ auths' \in [Auth -> AuthRow \cup {None}]
      /\ auths'[a] = row /\ \A b \in Auth : b # a => auths'[b] = auths[b]
  BY DEF TypeOK
<1>2. row # None
  BY NoneType
<1>3. GrantsKept
  BY <1>1, <1>2 DEF GrantsKept
<1>4. TypeOK'
  BY <1>1, BecomesType, GatesKept DEF TypeOK
<1>5. HandsHold'
  <2>1. \A b \in Auth : auths'[b] # None =>
           auths'[b].issuer # auths'[b].principal /\ auths'[b].reviewer # auths'[b].principal
    BY <1>1 DEF EmergencyInv, HandsHold
  <2>2. ASSUME NEW n \in DOMAIN trail
        PROVE  auths'[trail[n].auth] # None /\ auths'[trail[n].auth].principal = trail[n].principal
    <3>1. trail[n] \in TrailRow
      BY DEF TypeOK
    <3>2. QED
      BY <1>3, <3>1 DEF EmergencyInv, HandsHold, GrantsKept, TrailRow
  <2>3. QED
    BY <2>1, <2>2 DEF HandsHold
<1>6. (\A j \in Request : ChangeHolds(j)') /\ (\A j \in Request : RowHolds(j)')
  BY <1>3, ChangesKept, RowsKept
<1>7. QED
  BY <1>4, <1>5, <1>6, TrailKept, GatesKept DEF EmergencyInv

LEMMA IssueInv ==
    ASSUME TypeOK, EmergencyInv, NEW k \in Request, NEW who, who.tenant \in Tenant,
           who.principal \in Principal, NEW a \in Auth, NEW grantee \in Principal,
           Issue(k, who, a, grantee)
    PROVE  TypeOK' /\ EmergencyInv'
<1> DEFINE row == [tenant |-> who.tenant, principal |-> grantee, issuer |-> who.principal,
                   expired |-> FALSE, reviewer |-> None]
           r == [pc |-> "audit", fact |-> <<"issued", a>>]
<1>1. row \in AuthRow
  BY DEF AuthRow
<1>2. row.issuer # row.principal /\ row.reviewer # row.principal
  BY NoneType DEF Issue, MayGrant
<1>3. <<"issued", a>> \in AuditFact
  BY DEF AuditFact
<1>4. Becomes(k, r) /\ r \in RequestRow /\ r.pc = "audit"
  BY <1>3, AuditedBecomes DEF Issue
<1>5. /\ auths' = [auths EXCEPT ![a] = row] /\ auths[a] = None
      /\ UNCHANGED <<switches, platform, trail, audit, lock, gate>> /\ Watch
  BY DEF Issue
<1> HIDE DEF row, r
<1>6. QED
  BY <1>1, <1>2, <1>4, <1>5, GrantWritten

LEMMA ReviewInv ==
    ASSUME TypeOK, EmergencyInv, NEW k \in Request, NEW who, who.principal \in Principal,
           NEW a \in Auth, Review(k, who, a)
    PROVE  TypeOK' /\ EmergencyInv'
<1> DEFINE row == [auths[a] EXCEPT !.reviewer = who.principal]
           r == [pc |-> "audit", fact |-> <<"reviewed", a>>]
<1>1. auths[a] \in AuthRow
  BY DEF Review, TypeOK
<1>2. /\ row \in AuthRow /\ row.principal = auths[a].principal /\ row.issuer = auths[a].issuer
      /\ row.reviewer = who.principal
  BY <1>1 DEF AuthRow
<1>3. row.issuer # row.principal /\ row.reviewer # row.principal
  BY <1>2 DEF Review, EmergencyInv, HandsHold
<1>4. <<"reviewed", a>> \in AuditFact
  BY DEF AuditFact
<1>5. Becomes(k, r) /\ r \in RequestRow /\ r.pc = "audit"
  BY <1>4, AuditedBecomes DEF Review
<1>6. /\ auths' = [auths EXCEPT ![a] = row]
      /\ UNCHANGED <<switches, platform, trail, audit, lock, gate>> /\ Watch
  BY DEF Review
<1> HIDE DEF row, r
<1>7. QED
  BY <1>2, <1>3, <1>5, <1>6, GrantWritten

LEMMA ExpireInv ==
    ASSUME TypeOK, EmergencyInv, NEW a \in Auth, Expire(a)
    PROVE  TypeOK' /\ EmergencyInv'
<1> DEFINE row == [auths[a] EXCEPT !.expired = TRUE]
<1>1. UNCHANGED <<switches, platform, trail, audit, request, lock, gate>> /\ Watch
  BY DEF Expire
<1>2. auths[a] \in AuthRow
  BY DEF Expire, TypeOK
<1>3. /\ row \in AuthRow /\ row.principal = auths[a].principal
      /\ row.issuer = auths[a].issuer /\ row.reviewer = auths[a].reviewer
  BY <1>2 DEF AuthRow
<1>4. auths' = [auths EXCEPT ![a] = row]
  BY DEF Expire
<1> HIDE DEF row
<1>5. /\ auths' \in [Auth -> AuthRow \cup {None}] /\ auths'[a] = row
      /\ \A b \in Auth : b # a => auths'[b] = auths[b]
  BY <1>3, <1>4 DEF TypeOK
<1>6. \A b \in Auth : auths[b] # None <=> auths'[b] # None
  BY <1>2, <1>3, <1>5, NoneType
<1>7. \A b \in Auth : auths[b] # None =>
         /\ auths'[b].principal = auths[b].principal
         /\ auths'[b].issuer = auths[b].issuer /\ auths'[b].reviewer = auths[b].reviewer
  BY <1>3, <1>5
<1>8. HandsHold'
  <2>1. \A n \in DOMAIN trail : trail[n].auth \in Auth
    <3>1. \A n \in DOMAIN trail : trail[n] \in TrailRow
      BY DEF TypeOK
    <3>2. QED
      BY <3>1 DEF TrailRow
  <2>2. QED
    BY <1>1, <1>6, <1>7, <2>1 DEF EmergencyInv, HandsHold
<1>9. ASSUME NEW k \in Request
      PROVE  ChangeHolds(k)'
  <2>1. ChangeHolds(k) /\ request[k] \in RequestRow
    BY DEF EmergencyInv, TypeOK
  <2>2. QED
    BY <1>1, <1>6, <1>7, <2>1, RequestFields DEF ChangeHolds
<1>10. \A k \in Request : RowHolds(k)'
  BY <1>1 DEF EmergencyInv, RowHolds
<1>11. TypeOK'
  BY <1>1, <1>5, GatesKept DEF TypeOK
<1>12. QED
  BY <1>1, <1>8, <1>9, <1>10, <1>11, TrailKept, GatesKept DEF EmergencyInv

-----------------------------------------------------------------------------
(* The platform switch.                                                     *)

LEMMA BreakGlassInv ==
    ASSUME TypeOK, EmergencyInv, NEW k \in Request, NEW who, who.principal \in Principal,
           NEW a \in Auth, NEW change \in {"activate", "deactivate"}, BreakGlass(k, who, a, change)
    PROVE  TypeOK' /\ EmergencyInv'
<1> DEFINE r == [pc |-> change, principal |-> who.principal, auth |-> a]
<1>1. Becomes(k, r)
  BY DEF BreakGlass, Becomes
<1>2. r \in RequestRow
  BY DEF RequestRow
<1>3. r.pc = change /\ auths[r.auth] # None /\ auths[r.auth].principal = r.principal
  BY DEF BreakGlass, RequireActive
<1>4. UNCHANGED <<switches, platform, trail, auths, lock, gate>> /\ Watch /\ audit' \subseteq AuditFact
  BY DEF BreakGlass, stored, TypeOK
<1> HIDE DEF r
<1>5. QED
  BY <1>1, <1>2, <1>3, <1>4, MovesOnly

LEMMA ActivateSelectInv ==
    ASSUME TypeOK, EmergencyInv, NEW k \in Request, ActivateSelect(k)
    PROVE  TypeOK' /\ EmergencyInv'
<1>1. UNCHANGED <<switches, platform, trail, auths, lock, gate>> /\ Watch /\ audit' \subseteq AuditFact
  BY DEF ActivateSelect, stored, TypeOK
<1>2. CASE PlatformActive
  BY <1>1, <1>2, ReturnsOnly DEF ActivateSelect
<1>3. CASE ~PlatformActive
  <2> DEFINE r == [request[k] EXCEPT !.pc = "insert"]
  <2>1. request[k] \in [pc : {"activate", "deactivate", "insert"}, principal : Principal, auth : Auth]
    <3>1. request[k] \in RequestRow /\ request[k].pc = "activate"
      BY DEF ActivateSelect, At, TypeOK
    <3>2. QED
      BY <3>1 DEF RequestRow, Idle
  <2>2. /\ r \in [pc : {"activate", "deactivate", "insert"}, principal : Principal, auth : Auth]
        /\ r.pc = "insert" /\ r.principal = request[k].principal /\ r.auth = request[k].auth
    BY <2>1
  <2>3. Becomes(k, r)
    BY <1>3 DEF ActivateSelect, Goto, Becomes
  <2>4. ChangeHolds(k) /\ request[k].pc = "activate"
    BY DEF ActivateSelect, At, EmergencyInv
  <2> HIDE DEF r
  <2>5. r \in RequestRow
    BY <2>2 DEF RequestRow
  <2>6. auths[r.auth] # None /\ auths[r.auth].principal = r.principal
    BY <2>2, <2>4 DEF ChangeHolds
  <2>7. QED
    BY <1>1, <2>2, <2>3, <2>5, <2>6, MovesOnly
<1>4. QED
  BY <1>2, <1>3

\* The event of a change is made under the authorization the request came with.
LEMMA ToldRow ==
    ASSUME TypeOK, EmergencyInv, NEW k \in Request, request[k].pc \in {"insert", "close"},
           NEW event \in {Opened, Closed}, NEW i \in Nat, trail' = Told(k, event, i), UNCHANGED auths
    PROVE  /\ trail' \in Seq(TrailRow) /\ Len(trail') = Len(trail) + 1
           /\ \A n \in DOMAIN trail : trail'[n] = trail[n]
           /\ DOMAIN trail' = 1..(Len(trail) + 1)
           /\ trail'[Len(trail) + 1].event = event /\ trail'[Len(trail) + 1].row = i
           /\ HandsHold'
<1> DEFINE row == [event |-> event, row |-> i, principal |-> request[k].principal,
                   auth |-> request[k].auth]
<1>1. request[k] \in RequestRow
  BY DEF TypeOK
<1>2. request[k].principal \in Principal /\ request[k].auth \in Auth
  BY <1>1, RequestFields
<1>3. row \in TrailRow
  BY <1>2 DEF TrailRow, Opened, Closed
<1>4. trail' = Append(trail, row) /\ trail \in Seq(TrailRow)
  BY DEF Told, TypeOK
<1>5. /\ row.event = event /\ row.row = i
      /\ row.principal = request[k].principal /\ row.auth = request[k].auth
  OBVIOUS
<1>6. auths[row.auth] # None /\ auths[row.auth].principal = row.principal
  BY <1>5 DEF EmergencyInv, ChangeHolds
<1> HIDE DEF row
<1>7. /\ trail' \in Seq(TrailRow) /\ Len(trail') = Len(trail) + 1
      /\ \A n \in DOMAIN trail : trail'[n] = trail[n]
      /\ DOMAIN trail' = 1..(Len(trail) + 1) /\ trail'[Len(trail) + 1] = row
  BY <1>3, <1>4
<1>8. HandsHold'
  <2>1. ASSUME NEW n \in DOMAIN trail'
        PROVE  auths[trail'[n].auth] # None /\ auths[trail'[n].auth].principal = trail'[n].principal
    <3>1. n \in DOMAIN trail \/ n = Len(trail) + 1
      BY <1>4, <1>7
    <3>2. QED
      BY <1>6, <1>7, <3>1 DEF EmergencyInv, HandsHold
  <2>2. QED
    BY <2>1 DEF EmergencyInv, HandsHold
<1>9. QED
  BY <1>5, <1>7, <1>8

LEMMA SwitchedOn ==
    ASSUME NEW p \in Seq(BOOLEAN), NEW b \in BOOLEAN
    PROVE  /\ Append(p, b) \in Seq(BOOLEAN) /\ Len(Append(p, b)) = Len(p) + 1
           /\ DOMAIN Append(p, b) = 1..(Len(p) + 1)
           /\ Append(p, b)[Len(p) + 1] = b
           /\ \A j \in DOMAIN p : Append(p, b)[j] = p[j]
OBVIOUS

\* Rows and events of the trail: the odd events open, the even ones close.
LEMMA Parity ==
    ASSUME NEW m \in Nat
    PROVE  /\ (2 * m) % 2 = 0 /\ (2 * m + 1) \div 2 = m
           /\ (2 * m - 1) % 2 = 1
OBVIOUS

LEMMA ActivateInsertInv ==
    ASSUME TypeOK, EmergencyInv, NEW k \in Request, ActivateInsert(k)
    PROVE  TypeOK' /\ EmergencyInv'
<1>1. UNCHANGED <<switches, auths, audit, lock, gate>> /\ Watch
  BY DEF ActivateInsert
<1>2. CASE PlatformActive
  BY <1>1, <1>2, ReturnsOnly DEF ActivateInsert, UniqueActive, TypeOK
<1>3. CASE ~PlatformActive
  <2> DEFINE i == Len(platform) + 1
             r == [pc |-> "audit", fact |-> <<"alert", i>>]
  <2>1. platform' = Append(platform, TRUE) /\ trail' = Told(k, Opened, i) /\ Audited(k, <<"alert", i>>)
    BY <1>3 DEF ActivateInsert, UniqueActive
  <2>2. i \in Nat /\ platform \in Seq(BOOLEAN)
    BY DEF TypeOK
  <2>3. <<"alert", i>> \in AuditFact
    BY <2>2 DEF AuditFact
  <2>4. Becomes(k, r) /\ r \in RequestRow /\ r.pc = "audit"
    BY <2>1, <2>3, AuditedBecomes
  <2> HIDE DEF r
  <2>5. /\ platform' \in Seq(BOOLEAN) /\ Len(platform') = i /\ DOMAIN platform' = 1..i
        /\ platform'[i] /\ \A j \in DOMAIN platform : platform'[j] = platform[j]
    BY <2>1, <2>2, SwitchedOn
  <2>6. \A j \in DOMAIN platform : ~platform'[j]
    BY <1>3, <2>5 DEF PlatformActive
  <2>7. PlatformActive'
    BY <2>2, <2>5 DEF PlatformActive
  <2>8. /\ trail' \in Seq(TrailRow) /\ Len(trail') = Len(trail) + 1
        /\ \A n \in DOMAIN trail : trail'[n] = trail[n]
        /\ DOMAIN trail' = 1..(Len(trail) + 1)
        /\ trail'[Len(trail) + 1].event = Opened /\ trail'[Len(trail) + 1].row = i
        /\ HandsHold'
    BY <1>1, <2>1, <2>2, ToldRow DEF ActivateInsert, At
  <2>9. Len(trail) \in Nat /\ Len(platform) \in Nat /\ DOMAIN trail = 1..Len(trail)
        /\ DOMAIN platform = 1..Len(platform)
    BY DEF TypeOK
  <2>10. Len(trail) = 2 * Len(platform)
    BY <1>3 DEF EmergencyInv, RowsAndTrail
  <2>11. RowsAndTrail'
    <3>1. \A j \in DOMAIN platform' : platform'[j] => j = Len(platform')
      BY <2>5, <2>6, <2>9
    <3>2. Len(trail') = 2 * Len(platform') - 1
      BY <2>5, <2>8, <2>9, <2>10
    <3>3. ASSUME NEW n \in DOMAIN trail'
          PROVE  /\ trail'[n].event = IF n % 2 = 1 THEN Opened ELSE Closed
                 /\ trail'[n].row = (n + 1) \div 2
      <4>1. CASE n \in DOMAIN trail
        BY <2>8, <4>1 DEF EmergencyInv, RowsAndTrail
      <4>2. CASE n = Len(trail) + 1
        <5>1. n % 2 = 1 /\ (n + 1) \div 2 = i
          BY <2>9, <2>10, <4>2
        <5>2. QED
          BY <2>8, <4>2, <5>1
      <4>3. QED
        BY <2>8, <2>9, <4>1, <4>2
    <3>4. QED
      BY <2>7, <3>1, <3>2, <3>3 DEF RowsAndTrail
  <2>12. TypeOK'
    BY <1>1, <2>4, <2>5, <2>8, BecomesType, GatesKept DEF TypeOK
  <2>13. GrantsKept
    BY <1>1 DEF GrantsKept
  <2>14. \A j \in Request : ChangeHolds(j)'
    BY <2>4, <2>13, ChangesKept
  <2>15. \A j \in Request : RowHolds(j)'
    <3>1. request'[k] = r /\ \A j \in Request : j # k => request'[j] = request[j]
      BY <2>4, BecomesType DEF TypeOK
    <3>2. \A j \in Request : request[j].pc # "close"
      BY <1>3 DEF EmergencyInv, RowHolds, PlatformActive
    <3>3. QED
      BY <1>1, <2>4, <3>1, <3>2 DEF EmergencyInv, RowHolds
  <2>16. QED
    BY <1>1, <2>8, <2>11, <2>12, <2>14, <2>15, GatesKept DEF EmergencyInv
<1>4. QED
  BY <1>2, <1>3

LEMMA DeactivateLockInv ==
    ASSUME TypeOK, EmergencyInv, NEW k \in Request, DeactivateLock(k)
    PROVE  TypeOK' /\ EmergencyInv'
<1>1. UNCHANGED <<switches, platform, trail, auths, audit, gate>> /\ Watch
  BY DEF DeactivateLock, stored
<1>2. CASE ~PlatformActive
  BY <1>1, <1>2, ReturnsOnly DEF DeactivateLock, TypeOK
<1>3. CASE PlatformActive
  <2>1. PICK i \in DOMAIN platform :
          /\ platform[i]
          /\ request' = [request EXCEPT ![k] =
               [pc |-> "close", principal |-> @.principal, auth |-> @.auth, row |-> i]]
    BY <1>3 DEF DeactivateLock
  <2>2. lock = None /\ lock' = k
    BY <1>3 DEF DeactivateLock, RowLocked
  <2> DEFINE r == [pc |-> "close", principal |-> request[k].principal, auth |-> request[k].auth,
                   row |-> i]
  <2>3. request[k] \in RequestRow /\ request[k].pc = "deactivate" /\ i \in Nat
    BY DEF DeactivateLock, At, TypeOK
  <2>4. request[k].principal \in Principal /\ request[k].auth \in Auth
    BY <2>3, RequestFields
  <2>5. r \in RequestRow
    BY <2>3, <2>4 DEF RequestRow
  <2>6. Becomes(k, r)
    BY <2>1 DEF Becomes
  <2>7. /\ r.pc = "close" /\ r.row = i
        /\ r.principal = request[k].principal /\ r.auth = request[k].auth
    OBVIOUS
  <2> HIDE DEF r
  <2>8. auths[r.auth] # None /\ auths[r.auth].principal = r.principal
    BY <2>3, <2>7 DEF EmergencyInv, ChangeHolds
  <2>9. TypeOK'
    BY <1>1, <2>2, <2>5, <2>6, BecomesType, GatesKept DEF TypeOK
  <2>10. HandsHold' /\ GrantsKept
    BY <1>1, HandsKept
  <2>11. \A j \in Request : ChangeHolds(j)'
    BY <1>1, <2>5, <2>6, <2>8, <2>10, ChangesKept
  <2>12. \A j \in Request : RowHolds(j)'
    <3>1. request'[k] = r /\ \A j \in Request : j # k => request'[j] = request[j]
      BY <2>5, <2>6, BecomesType DEF TypeOK
    <3>2. \A j \in Request : request[j].pc # "close"
      BY <2>2, NoneType DEF EmergencyInv, RowHolds
    <3>3. QED
      BY <1>1, <2>1, <2>2, <2>7, <3>1, <3>2 DEF EmergencyInv, RowHolds
  <2>13. QED
    BY <1>1, <2>9, <2>10, <2>11, <2>12, TrailKept, GatesKept DEF EmergencyInv
<1>4. QED
  BY <1>2, <1>3

LEMMA DeactivateCloseInv ==
    ASSUME TypeOK, EmergencyInv, NEW k \in Request, DeactivateClose(k)
    PROVE  TypeOK' /\ EmergencyInv'
<1> DEFINE i == request[k].row
<1>1. UNCHANGED <<switches, auths, audit, gate>> /\ Watch /\ lock' = None
  BY DEF DeactivateClose
<1>2. Becomes(k, Idle) /\ Idle \in RequestRow /\ Idle.pc = "idle"
  BY ReturnBecomes DEF DeactivateClose
<1>3. lock = k /\ i \in DOMAIN platform /\ platform[i] /\ i = Len(platform)
  BY DEF DeactivateClose, At, EmergencyInv, RowHolds, RowsAndTrail
<1>4. /\ Len(trail) \in Nat /\ Len(platform) \in Nat /\ DOMAIN trail = 1..Len(trail)
      /\ DOMAIN platform = 1..Len(platform) /\ platform \in Seq(BOOLEAN)
  BY DEF TypeOK
<1>5. /\ platform' \in Seq(BOOLEAN) /\ Len(platform') = Len(platform)
      /\ \A j \in DOMAIN platform' : ~platform'[j]
  <2>1. platform' = [platform EXCEPT ![i] = FALSE]
    BY DEF DeactivateClose
  <2>2. platform' \in Seq(BOOLEAN) /\ Len(platform') = Len(platform) /\ DOMAIN platform' = DOMAIN platform
    BY <1>3, <1>4, <2>1
  <2>3. \A j \in DOMAIN platform : ~platform'[j]
    BY <1>3, <1>4, <2>1 DEF EmergencyInv, RowsAndTrail
  <2>4. QED
    BY <2>2, <2>3
<1>6. PlatformActive /\ ~PlatformActive'
  BY <1>3, <1>5 DEF PlatformActive
<1>7. /\ trail' \in Seq(TrailRow) /\ Len(trail') = Len(trail) + 1
      /\ \A n \in DOMAIN trail : trail'[n] = trail[n]
      /\ DOMAIN trail' = 1..(Len(trail) + 1)
      /\ trail'[Len(trail) + 1].event = Closed /\ trail'[Len(trail) + 1].row = i
      /\ HandsHold'
  BY <1>1, <1>3, <1>4, ToldRow DEF DeactivateClose, At
<1>8. Len(trail) = 2 * Len(platform) - 1
  BY <1>6 DEF EmergencyInv, RowsAndTrail
<1>9. RowsAndTrail'
  <2>1. Len(trail') = 2 * Len(platform')
    BY <1>4, <1>5, <1>7, <1>8
  <2>2. ASSUME NEW n \in DOMAIN trail'
        PROVE  /\ trail'[n].event = IF n % 2 = 1 THEN Opened ELSE Closed
               /\ trail'[n].row = (n + 1) \div 2
    <3>1. CASE n \in DOMAIN trail
      BY <1>7, <3>1 DEF EmergencyInv, RowsAndTrail
    <3>2. CASE n = Len(trail) + 1
      <4>1. n % 2 # 1 /\ (n + 1) \div 2 = Len(platform)
        <5>1. n = 2 * Len(platform)
          BY <1>4, <1>8, <3>2
        <5>2. (2 * Len(platform)) % 2 = 0 /\ (2 * Len(platform) + 1) \div 2 = Len(platform)
          BY <1>4, Parity
        <5>3. QED
          BY <5>1, <5>2
      <4>2. QED
        BY <1>3, <1>7, <3>2, <4>1
    <3>3. QED
      BY <1>4, <1>7, <3>1, <3>2
  <2>3. QED
    BY <1>5, <1>6, <2>1, <2>2 DEF RowsAndTrail
<1>10. TypeOK'
  BY <1>1, <1>2, <1>5, <1>7, BecomesType, GatesKept DEF TypeOK
<1>11. GrantsKept
  BY <1>1 DEF GrantsKept
<1>12. \A j \in Request : ChangeHolds(j)'
  BY <1>2, <1>11, ChangesKept
<1>13. \A j \in Request : RowHolds(j)'
  <2>1. request'[k] = Idle /\ \A j \in Request : j # k => request'[j] = request[j]
    BY <1>2, BecomesType DEF TypeOK
  <2>2. \A j \in Request : j # k => request[j].pc # "close"
    BY <1>3 DEF EmergencyInv, RowHolds
  <2>3. QED
    BY <1>1, <1>2, <2>1, <2>2 DEF EmergencyInv, RowHolds
<1>14. QED
  BY <1>1, <1>7, <1>9, <1>10, <1>12, <1>13, GatesKept DEF EmergencyInv

LEMMA DieInv ==
    ASSUME TypeOK, EmergencyInv, NEW k \in Request, Die(k)
    PROVE  TypeOK' /\ EmergencyInv'
<1>1. UNCHANGED <<switches, platform, trail, auths, audit, gate>> /\ Watch
  BY DEF Die, stored
<1>2. Becomes(k, Idle) /\ Idle \in RequestRow /\ Idle.pc = "idle"
  BY ReturnBecomes DEF Die
<1>3. lock' = IF lock = k THEN None ELSE lock
  BY DEF Die
<1>4. TypeOK'
  BY <1>1, <1>2, <1>3, BecomesType, GatesKept DEF TypeOK
<1>5. HandsHold' /\ GrantsKept
  BY <1>1, HandsKept
<1>6. \A j \in Request : ChangeHolds(j)'
  BY <1>2, <1>5, ChangesKept
<1>7. \A j \in Request : RowHolds(j)'
  <2>1. request'[k] = Idle /\ \A j \in Request : j # k => request'[j] = request[j]
    BY <1>2, BecomesType DEF TypeOK
  <2>2. ASSUME NEW j \in Request, j # k
        PROVE  RowHolds(j)'
    <3>1. RowHolds(j) /\ request'[j] = request[j]
      BY <2>1, <2>2 DEF EmergencyInv
    <3>2. QED
      BY <1>1, <1>3, <2>2, <3>1 DEF RowHolds
  <2>3. RowHolds(k)'
    BY <1>2, <2>1 DEF RowHolds
  <2>4. QED
    BY <2>2, <2>3
<1>8. QED
  BY <1>1, <1>4, <1>5, <1>6, <1>7, TrailKept, GatesKept DEF EmergencyInv

-----------------------------------------------------------------------------
(* Checks of the gateway.                                                   *)

\* A step that moves the check g and nothing else.
LEMMA CheckMoves ==
    ASSUME TypeOK, EmergencyInv, NEW g \in Gate, NEW from, NEW to \in {"first", "second", "blocked", "open"},
           CheckStep(g, from, to), GateHolds(g)'
    PROVE  TypeOK' /\ EmergencyInv'
<1>1. UNCHANGED <<switches, platform, trail, auths, audit, request, lock>> /\ Watch
  BY DEF CheckStep, stored
<1>2. /\ gate' \in [Gate -> {"idle", "first", "second", "blocked", "open"}]
      /\ \A h \in Gate : h # g => gate'[h] = gate[h]
  BY DEF CheckStep, TypeOK
<1>3. covered' \in [Gate -> BOOLEAN]
  BY <1>1 DEF Watch, TypeOK, Stopped, PlatformActive, TenantStopped
<1>4. ASSUME NEW h \in Gate, h # g
      PROVE  GateHolds(h)'
  <2>1. GateHolds(h) /\ gate'[h] = gate[h] /\ PlatformActive' = PlatformActive
    BY <1>1, <1>2, <1>4 DEF EmergencyInv, PlatformActive
  <2>2. CASE gate[h] = "second"
    <3>1. covered'[h] => covered[h]
      BY <1>1, <2>2 DEF Watch, Checking
    <3>2. QED
      BY <2>1, <2>2, <3>1 DEF GateHolds
  <2>3. CASE gate[h] = "open"
    <3>1. covered'[h] = covered[h]
      BY <1>1, <2>1, <2>3 DEF Watch, Checking
    <3>2. QED
      BY <2>1, <2>3, <3>1 DEF GateHolds
  <2>4. QED
    BY <2>1, <2>2, <2>3 DEF GateHolds
<1>5. (\A k \in Request : ChangeHolds(k)') /\ (\A k \in Request : RowHolds(k)')
  BY <1>1 DEF EmergencyInv, ChangeHolds, RowHolds
<1>6. TypeOK'
  BY <1>1, <1>2, <1>3 DEF TypeOK
<1>7. QED
  BY <1>1, <1>4, <1>5, <1>6, TrailKept, HandsKept DEF EmergencyInv

LEMMA CheckInv ==
    ASSUME TypeOK, EmergencyInv, NEW g \in Gate, CheckBegins(g) \/ CheckFirst(g) \/ CheckSecond(g)
    PROVE  TypeOK' /\ EmergencyInv'
<1> USE DEF TypeOK
<1>1. CASE CheckBegins(g)
  <2>1. CheckStep(g, {"idle", "open", "blocked"}, "first") /\ gate'[g] = "first"
    BY <1>1 DEF CheckBegins, CheckStep
  <2>2. GateHolds(g)'
    BY <2>1 DEF GateHolds
  <2>3. QED
    BY <2>1, <2>2, CheckMoves
<1>2. CASE CheckFirst(g)
  <2>1. Seen(g, Queries[1]) = PlatformActive
    BY DEF Seen, Queries
  <2>2. CheckStep(g, {"first"}, IF PlatformActive THEN "blocked" ELSE "second")
    BY <1>2, <2>1 DEF CheckFirst
  <2>3. PlatformActive' = PlatformActive
    BY <2>2 DEF CheckStep, stored, PlatformActive
  <2>4. CASE PlatformActive
    <3>1. CheckStep(g, {"first"}, "blocked") /\ gate'[g] = "blocked"
      BY <2>2, <2>4 DEF CheckStep
    <3>2. GateHolds(g)'
      BY <3>1 DEF GateHolds
    <3>3. QED
      BY <3>1, <3>2, CheckMoves
  <2>5. CASE ~PlatformActive
    <3>1. CheckStep(g, {"first"}, "second") /\ gate'[g] = "second"
      BY <2>2, <2>5 DEF CheckStep
    <3>2. GateHolds(g)'
      BY <2>3, <2>5, <3>1 DEF GateHolds
    <3>3. QED
      BY <3>1, <3>2, CheckMoves
  <2>6. QED
    BY <2>4, <2>5
<1>3. CASE CheckSecond(g)
  <2>1. Seen(g, Queries[2]) = TenantStopped(g)
    BY DEF Seen, Queries
  <2>2. CheckStep(g, {"second"}, IF TenantStopped(g) THEN "blocked" ELSE "open")
    BY <1>3, <2>1 DEF CheckSecond
  <2>3. CASE TenantStopped(g)
    <3>1. CheckStep(g, {"second"}, "blocked") /\ gate'[g] = "blocked"
      BY <2>2, <2>3 DEF CheckStep
    <3>2. GateHolds(g)'
      BY <3>1 DEF GateHolds
    <3>3. QED
      BY <3>1, <3>2, CheckMoves
  <2>4. CASE ~TenantStopped(g)
    <3>1. CheckStep(g, {"second"}, "open") /\ gate'[g] = "open" /\ gate[g] = "second"
      BY <2>2, <2>4 DEF CheckStep
    <3>2. covered'[g] => covered[g] /\ Stopped(g)'
      BY <3>1 DEF CheckStep, Watch, Checking
    <3>3. PlatformActive' = PlatformActive /\ ~TenantStopped(g)'
      BY <2>4, <3>1 DEF CheckStep, stored, PlatformActive, TenantStopped, ActiveRows
    <3>4. ~covered'[g]
      BY <3>1, <3>2, <3>3 DEF Stopped, EmergencyInv, GateHolds
    <3>5. GateHolds(g)'
      BY <3>1, <3>4 DEF GateHolds
    <3>6. QED
      BY <3>1, <3>5, CheckMoves
  <2>5. QED
    BY <2>3, <2>4
<1>4. QED
  BY <1>1, <1>2, <1>3

-----------------------------------------------------------------------------
LEMMA HandleInv ==
    ASSUME TypeOK, EmergencyInv, NEW k \in Request, Handle(k)
    PROVE  TypeOK' /\ EmergencyInv'
<1>1. CASE \E who \in Operators : \E s \in Stop : \E i \in 1..MaxRows : DeactivateSelect(k, who, s, i)
  BY <1>1, IdentityType, DeactivateSelectInv DEF Operators
<1>2. CASE \E who \in InRole({"security_admin"}) :
             \E a \in Auth : \E p \in Principal : Issue(k, who, a, p)
  BY <1>2, IdentityType, IssueInv
<1>3. CASE \E who \in InRole({"security_auditor"}) : \E a \in Auth : Review(k, who, a)
  BY <1>3, IdentityType, ReviewInv
<1>4. CASE \E who \in InRole({"break_glass"}) : \E a \in Auth :
             \E change \in {"activate", "deactivate"} : BreakGlass(k, who, a, change)
  BY <1>4, IdentityType, BreakGlassInv
<1>5. CASE RecordAudit(k)
  <2>1. request[k] \in RequestRow /\ request[k].pc = "audit"
    BY <1>5 DEF RecordAudit, At, TypeOK
  <2>2. audit' \subseteq AuditFact
    BY <1>5, <2>1, RequestFields DEF RecordAudit, TypeOK
  <2>3. QED
    BY <1>5, <2>2, ReturnsOnly DEF RecordAudit
<1>6. QED
  BY <1>1, <1>2, <1>3, <1>4, <1>5, DeactivateUpdateInv, ActivateSelectInv, ActivateInsertInv,
     DeactivateLockInv, DeactivateCloseInv, DieInv DEF Handle

LEMMA Inductive == Spec => [](TypeOK /\ EmergencyInv)
<1>1. Init => TypeOK /\ EmergencyInv
  BY InitInv
<1>2. TypeOK /\ EmergencyInv /\ [Next]_vars => (TypeOK /\ EmergencyInv)'
  <2> SUFFICES ASSUME TypeOK, EmergencyInv, [Next]_vars PROVE TypeOK' /\ EmergencyInv'
    OBVIOUS
  <2>1. CASE \E who \in Operators : \E s \in Stop : Activate(who, s)
    BY <2>1, IdentityType, ActivateInv DEF Operators
  <2>2. CASE UNCHANGED vars
    <3>1. UNCHANGED <<switches, platform, trail, auths, audit, request, lock, gate, covered>>
      BY <2>2 DEF vars, stored
    <3>2. PlatformActive' = PlatformActive
      BY <3>1 DEF PlatformActive
    <3>3. QED
      BY <3>1, <3>2, TrailKept, HandsKept DEF TypeOK, EmergencyInv, ChangeHolds, RowHolds, GateHolds
  <2>3. QED
    BY <2>1, <2>2, HandleInv, ExpireInv, CheckInv DEF Next
<1>3. QED
  BY <1>1, <1>2, PTL DEF Spec

-----------------------------------------------------------------------------
(* Theorems.                                                                *)

\* Rows, requests and checks hold values the code knows, whoever races whom and whoever dies.
THEOREM EmergencyTypeCorrect == Spec => []TypeOK
BY Inductive, PTL

\* The places of a row's two events.
LEMMA Places ==
    ASSUME NEW n \in Nat, NEW i \in Nat
    PROVE  /\ n % 2 = 1 /\ (n + 1) \div 2 = i <=> n = 2 * i - 1
           /\ n % 2 # 1 /\ (n + 1) \div 2 = i <=> n = 2 * i
OBVIOUS

\* SqlPlatformKillSwitchStore: the platform's audit trail has the activation and the deactivation
\* of every switch there was, each once, and no more, for any number of requests that race and
\* die.
THEOREM TrailIsTrue == Spec => []TrailTellsThePlatform
<1>1. TypeOK /\ EmergencyInv => TrailTellsThePlatform
  <2> SUFFICES ASSUME TypeOK, EmergencyInv PROVE TrailTellsThePlatform
    OBVIOUS
  <2>1. /\ Len(platform) \in Nat /\ DOMAIN platform = 1..Len(platform)
        /\ Len(trail) \in Nat /\ DOMAIN trail = 1..Len(trail)
    BY DEF TypeOK
  <2>2. RowsAndTrail
    BY DEF EmergencyInv
  <2>3. /\ PlatformActive => Len(trail) = 2 * Len(platform) - 1
        /\ ~PlatformActive => Len(trail) = 2 * Len(platform)
    BY <2>2 DEF RowsAndTrail
  <2>4. ASSUME NEW n \in DOMAIN trail PROVE trail[n].row \in DOMAIN platform
    <3>1. trail[n].row = (n + 1) \div 2 /\ n \in 1..Len(trail) /\ Len(trail) <= 2 * Len(platform)
      BY <2>1, <2>2, <2>3 DEF RowsAndTrail
    <3>2. (n + 1) \div 2 \in 1..Len(platform)
      BY <2>1, <3>1
    <3>3. QED
      BY <2>1, <3>1, <3>2
  <2>5. ASSUME NEW i \in DOMAIN platform, NEW n \in DOMAIN trail
        PROVE  /\ n \in Telling(Opened, i) <=> n = 2 * i - 1
               /\ n \in Telling(Closed, i) <=> n = 2 * i
    <3>1. n \in Nat /\ i \in Nat
      BY <2>1
    <3>2. trail[n].event = (IF n % 2 = 1 THEN Opened ELSE Closed) /\ trail[n].row = (n + 1) \div 2
      BY <2>2 DEF RowsAndTrail
    <3>3. /\ trail[n].event = Opened <=> n % 2 = 1
          /\ trail[n].event = Closed <=> n % 2 # 1
      BY <3>2 DEF Opened, Closed
    <3>4. QED
      BY <3>1, <3>2, <3>3, Places DEF Telling
  <2>6. ASSUME NEW i \in DOMAIN platform
        PROVE  /\ \E n \in DOMAIN trail : Telling(Opened, i) = {n}
               /\ IF platform[i] THEN Telling(Closed, i) = {}
                                 ELSE \E n \in DOMAIN trail : Telling(Closed, i) = {n}
    <3>1. /\ i \in 1..Len(platform) /\ 2 * i - 1 \in DOMAIN trail
          /\ platform[i] => 2 * i \notin DOMAIN trail
          /\ ~platform[i] => 2 * i \in DOMAIN trail
      <4>1. i \in 1..Len(platform) /\ (platform[i] => i = Len(platform) /\ PlatformActive)
        BY <2>1, <2>2 DEF RowsAndTrail, PlatformActive
      <4>2. ~platform[i] /\ PlatformActive => i # Len(platform)
        BY <2>2 DEF RowsAndTrail, PlatformActive
      <4>3. CASE PlatformActive
        <5>1. Len(trail) = 2 * Len(platform) - 1
          BY <2>3, <4>3
        <5>2. 2 * i - 1 \in 1..Len(trail) /\ (2 * i \in 1..Len(trail) <=> i # Len(platform))
          BY <2>1, <4>1, <5>1
        <5>3. QED
          BY <2>1, <4>1, <4>2, <4>3, <5>2
      <4>4. CASE ~PlatformActive
        <5>1. Len(trail) = 2 * Len(platform)
          BY <2>3, <4>4
        <5>2. 2 * i - 1 \in 1..Len(trail) /\ 2 * i \in 1..Len(trail)
          BY <2>1, <4>1, <5>1
        <5>3. QED
          BY <2>1, <4>1, <4>4, <5>2
      <4>5. QED
        BY <4>3, <4>4
    <3>2. Telling(Opened, i) \subseteq DOMAIN trail /\ Telling(Closed, i) \subseteq DOMAIN trail
      BY DEF Telling
    <3>3. Telling(Opened, i) = {2 * i - 1}
      BY <2>5, <3>1, <3>2
    <3>4. CASE platform[i]
      BY <2>5, <3>1, <3>2, <3>3, <3>4
    <3>5. CASE ~platform[i]
      <4>1. Telling(Closed, i) = {2 * i}
        BY <2>5, <3>1, <3>2, <3>5
      <4>2. QED
        BY <3>1, <3>3, <3>5, <4>1
    <3>6. QED
      BY <3>4, <3>5
  <2>7. \A i, j \in DOMAIN platform : platform[i] /\ platform[j] => i = j
    BY <2>2 DEF RowsAndTrail
  <2>8. QED
    BY <2>4, <2>6, <2>7 DEF TrailTellsThePlatform
<1>2. QED
  BY <1>1, Inductive, PTL

\* issue_temporary_authorization, require_active and review: no principal opens or closes the
\* platform switch by himself, for any identities the tokens give.
THEOREM HandsAreIndependent == Spec => []IndependentHands
<1>1. TypeOK /\ EmergencyInv => IndependentHands
  <2> SUFFICES ASSUME TypeOK, EmergencyInv PROVE IndependentHands
    OBVIOUS
  <2>1. \A n \in DOMAIN trail : trail[n].auth \in Auth
    <3>1. \A n \in DOMAIN trail : trail[n] \in TrailRow
      BY DEF TypeOK
    <3>2. QED
      BY <3>1 DEF TrailRow
  <2>2. QED
    BY <2>1 DEF EmergencyInv, HandsHold, IndependentHands
<1>2. QED
  BY <1>1, Inductive, PTL

\* is_blocked: because the platform switch is read before the tenant's, a check that something
\* stopped throughout is refused, for any tenants, switches and checks.
THEOREM HandoverHasNoGap == Spec => []NoGapInHandover
<1>1. EmergencyInv => NoGapInHandover
  BY DEF EmergencyInv, GateHolds, NoGapInHandover
<1>2. QED
  BY <1>1, Inductive, PTL

=============================================================================

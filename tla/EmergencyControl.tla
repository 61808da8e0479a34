--------------------------- MODULE EmergencyControl ---------------------------
(***************************************************************************)
(* Kill switches: the switches of a tenant, the platform switch behind     *)
(* Break-glass authorizations, and the check that every governed call      *)
(* makes of both.                                                          *)
(*                                                                         *)
(* The PostgreSQL stores are modelled, at READ COMMITTED: a statement sees *)
(* what is committed when it runs.  A step is what one statement or one    *)
(* short transaction does; a request may die between any two.  The stores  *)
(* in memory, for development, are not modelled.                           *)
(***************************************************************************)
EXTENDS Naturals, Sequences, FiniteSets

CONSTANTS
    Tenant, Principal,
    Stop,           \* dimensions and targets of a tenant's switches
    Token,          \* bearer tokens that are presented
    Trusted,        \* issuer, audience and token types of OIDCSettings
    Auth,           \* authorization ids
    Request,        \* concurrent requests of the API
    Gate,           \* concurrent checks of the governed gateway
    TenantOf,       \* tenant of a check
    StopsOf,        \* tenant switches a check asks for
    MaxRows, MaxPlatform,   \* bounds on rows
    None

AuthRow == [tenant : Tenant, principal : Principal, issuer : Principal, expired : BOOLEAN,
            reviewer : Principal \cup {None}]

ASSUME EmergencyAssumption ==
    /\ TenantOf \in [Gate -> Tenant] /\ StopsOf \in [Gate -> SUBSET Stop]
    /\ MaxRows \in Nat /\ MaxPlatform \in Nat
    /\ None \notin Auth \cup Request \cup Principal \cup Tenant \cup AuthRow
    /\ \A tok \in Token : tok.tenant \in Tenant /\ tok.subject \in Principal
                          /\ tok.principal \in Principal \cup {None}

VARIABLES
    switches,    \* kill_switches of each tenant, in order of insertion
    platform,    \* platform_kill_switches: which rows are active
    trail,       \* platform_audit_events, each with its breakglass_alerts row, as inserted
    auths,       \* temporary_authorizations
    audit,       \* what the tenant's audit events tell
    request,     \* requests in flight
    lock,        \* who holds the row lock on the active platform switch
    gate,        \* progress of the checks
    covered      \* history: see Watch

stored == <<switches, platform, trail, auths, audit>>
vars == <<stored, request, lock, gate, covered>>

Idle == [pc |-> "idle"]

Init ==
    /\ switches = [t \in Tenant |-> <<>>]
    /\ platform = <<>> /\ trail = <<>>
    /\ auths = [a \in Auth |-> None] /\ audit = {}
    /\ request = [k \in Request |-> Idle] /\ lock = None
    /\ gate = [g \in Gate |-> "idle"]
    /\ covered = [g \in Gate |-> FALSE]

SwitchRow == [stop : Stop, active : BOOLEAN]
TrailRow == [event : {"activated", "deactivated"}, row : Nat, principal : Principal, auth : Auth]
AuditFact == ({"issued", "reviewed"} \X Auth) \cup ({"alert"} \X Nat)
RequestRow ==
    {Idle} \cup [pc : {"lift"}, tenant : Tenant, row : Nat] \cup [pc : {"audit"}, fact : AuditFact]
        \cup [pc : {"activate", "deactivate", "insert"}, principal : Principal, auth : Auth]
        \cup [pc : {"close"}, principal : Principal, auth : Auth, row : Nat]

\* Rows and requests hold values the code knows.
TypeOK ==
    /\ switches \in [Tenant -> Seq(SwitchRow)]
    /\ platform \in Seq(BOOLEAN) /\ trail \in Seq(TrailRow)
    /\ auths \in [Auth -> AuthRow \cup {None}] /\ audit \subseteq AuditFact
    /\ request \in [Request -> RequestRow] /\ lock \in Request \cup {None}
    /\ gate \in [Gate -> {"idle", "first", "second", "blocked", "open"}]
    /\ covered \in [Gate -> BOOLEAN]

Goto(k, pc) == request' = [request EXCEPT ![k].pc = pc]
Return(k) == request' = [request EXCEPT ![k] = Idle]
At(k, pc) == request[k].pc = pc

-----------------------------------------------------------------------------
(* What is stopped.                                                         *)

ActiveRows(t, s) ==
    {i \in DOMAIN switches[t] : switches[t][i].stop = s /\ switches[t][i].active}

TenantStopped(g) == \E s \in StopsOf[g] : ActiveRows(TenantOf[g], s) # {}
PlatformActive == \E i \in DOMAIN platform : platform[i]
Stopped(g) == PlatformActive \/ TenantStopped(g)

Checking == {"first", "second"}

\* History, written by every step: covered[g] says that at every moment of the check
\* something stopped it, and that the platform switch was not activated meanwhile.
Watch ==
    covered' = [g \in Gate |->
        IF gate[g] \in Checking
        THEN covered[g] /\ Stopped(g)' /\ (PlatformActive' => PlatformActive)
        ELSE IF gate'[g] \in Checking THEN Stopped(g)' ELSE covered[g]]

-----------------------------------------------------------------------------
(* Who is asking.                                                           *)

\* OIDCValidator.validate.
Valid(tok) ==
    /\ tok.signed /\ ~tok.expired
    /\ tok.issuer = Trusted.issuer /\ tok.audience = Trusted.audience
    /\ tok.type \in Trusted.types

\* The identity of a valid token: the principal is the subject unless a claim says otherwise.
Identity(tok) ==
    [tenant |-> tok.tenant, roles |-> tok.roles,
     principal |-> IF tok.principal = None THEN tok.subject ELSE tok.principal]

\* Identities that a request with one of these roles can have.
InRole(allowed) == {Identity(tok) : tok \in {u \in Token : Valid(u) /\ u.roles \cap allowed # {}}}

Operators == InRole({"platform_admin", "tenant_admin", "operator"})

-----------------------------------------------------------------------------
(* Switches of a tenant.                                                    *)

Activate(who, s) ==
    /\ Len(switches[who.tenant]) < MaxRows
    /\ switches' = [switches EXCEPT ![who.tenant] = Append(@, [stop |-> s, active |-> TRUE])]
    /\ UNCHANGED <<platform, trail, auths, audit, request, lock, gate>>
    /\ Watch

\* The update is by id.
RowClosed(t, i) == [switches[t] EXCEPT ![i].active = FALSE]

\* deactivate selects one of the active rows, unlocked, ...
DeactivateSelect(k, who, s, i) ==
    /\ request[k] = Idle
    /\ i \in ActiveRows(who.tenant, s)
    /\ request' = [request EXCEPT ![k] = [pc |-> "lift", tenant |-> who.tenant, row |-> i]]
    /\ UNCHANGED <<stored, lock, gate>>
    /\ Watch

\* ... closes it, whatever has happened to it since, and answers.
DeactivateUpdate(k) ==
    /\ At(k, "lift")
    /\ LET r == request[k]
       IN  switches' = [switches EXCEPT ![r.tenant] = RowClosed(r.tenant, r.row)]
    /\ Return(k)
    /\ UNCHANGED <<platform, trail, auths, audit, lock, gate>>
    /\ Watch

-----------------------------------------------------------------------------
(* Break-glass authorizations.                                              *)

\* Mutant: a security admin serves himself.
AnyGrantee(who, grantee) == TRUE

\* issue_temporary_authorization: granted to another principal.
MayGrant(who, grantee) == grantee # who.principal

Audited(k, fact) ==
    request' = [request EXCEPT ![k] = [pc |-> "audit", fact |-> fact]]

Issue(k, who, a, grantee) ==
    /\ request[k] = Idle /\ auths[a] = None
    /\ MayGrant(who, grantee)
    /\ auths' = [auths EXCEPT ![a] =
                   [tenant |-> who.tenant, principal |-> grantee, issuer |-> who.principal,
                    expired |-> FALSE, reviewer |-> None]]
    /\ Audited(k, <<"issued", a>>)
    /\ UNCHANGED <<switches, platform, trail, audit, lock, gate>>
    /\ Watch

\* review: independent of the principal who was authorized, and the last review stays.
Review(k, who, a) ==
    /\ request[k] = Idle /\ auths[a] # None
    /\ auths[a].tenant = who.tenant /\ auths[a].principal # who.principal
    /\ auths' = [auths EXCEPT ![a].reviewer = who.principal]
    /\ Audited(k, <<"reviewed", a>>)
    /\ UNCHANGED <<switches, platform, trail, audit, lock, gate>>
    /\ Watch

\* record_audit, a transaction of its own after what it tells of.
RecordAudit(k) ==
    /\ At(k, "audit")
    /\ audit' = audit \cup {request[k].fact}
    /\ Return(k)
    /\ UNCHANGED <<switches, platform, trail, auths, lock, gate>>
    /\ Watch

Expire(a) ==
    /\ auths[a] # None /\ ~auths[a].expired
    /\ auths' = [auths EXCEPT ![a].expired = TRUE]
    /\ UNCHANGED <<switches, platform, trail, audit, request, lock, gate>>
    /\ Watch

-----------------------------------------------------------------------------
(* The platform switch.                                                     *)

Closed == "deactivated"
Opened == "activated"

\* require_active.
RequireActive(who, a) ==
    /\ auths[a] # None /\ ~auths[a].expired
    /\ auths[a].tenant = who.tenant /\ auths[a].principal = who.principal

BreakGlass(k, who, a, change) ==
    /\ request[k] = Idle
    /\ RequireActive(who, a)
    /\ request' = [request EXCEPT ![k] = [pc |-> change, principal |-> who.principal, auth |-> a]]
    /\ UNCHANGED <<stored, lock, gate>>
    /\ Watch

\* platform_audit_events and breakglass_alerts.  The authorization is history: neither row
\* names it.  Nor does the table keep the order of insertion: list_audit sorts by created_at,
\* which a request takes before its transaction, so places in the trail mean nothing to a
\* reader.
Told(k, event, i) ==
    Append(trail, [event |-> event, row |-> i,
                   principal |-> request[k].principal, auth |-> request[k].auth])

\* SqlPlatformKillSwitchStore.activate looks for an active row ...
ActivateSelect(k) ==
    /\ At(k, "activate")
    /\ IF PlatformActive THEN Return(k) ELSE Goto(k, "insert")
    /\ UNCHANGED <<stored, lock, gate>>
    /\ Watch

\* Mutant: no uq_active_platform_kill_switch.
NoUniqueActive == TRUE

\* uq_active_platform_kill_switch.
UniqueActive == ~PlatformActive

\* ... and inserts one, with its audit event, in the same transaction.
ActivateInsert(k) ==
    /\ At(k, "insert") /\ Len(platform) < MaxPlatform
    /\ IF UniqueActive
       THEN LET i == Len(platform) + 1 IN
              /\ platform' = Append(platform, TRUE)
              /\ trail' = Told(k, Opened, i)
              /\ Audited(k, <<"alert", i>>)
       ELSE Return(k) /\ UNCHANGED <<platform, trail>>
    /\ UNCHANGED <<switches, auths, audit, lock, gate>>
    /\ Watch

\* SELECT ... FOR UPDATE: whoever waits sees the row again once it is free.
RowLocked(k) == k

DeactivateLock(k) ==
    /\ At(k, "deactivate")
    /\ IF PlatformActive
       THEN /\ lock = None /\ lock' = RowLocked(k)
            /\ \E i \in DOMAIN platform :
                 /\ platform[i]
                 /\ request' = [request EXCEPT ![k] =
                      [pc |-> "close", principal |-> @.principal, auth |-> @.auth, row |-> i]]
       ELSE Return(k) /\ lock' = lock
    /\ UNCHANGED <<stored, gate>>
    /\ Watch

DeactivateClose(k) ==
    /\ At(k, "close")
    /\ platform' = [platform EXCEPT ![request[k].row] = FALSE]
    /\ trail' = Told(k, Closed, request[k].row)
    /\ lock' = None
    /\ Return(k)
    /\ UNCHANGED <<switches, auths, audit, gate>>
    /\ Watch

\* The process dies, and with it the transaction it has open.
Die(k) ==
    /\ request[k] # Idle
    /\ Return(k)
    /\ lock' = IF lock = k THEN None ELSE lock
    /\ UNCHANGED <<stored, gate>>
    /\ Watch

-----------------------------------------------------------------------------
(* is_blocked: a query of the platform switch, then one of the tenant's.    *)

CheckStep(g, from, to) ==
    /\ gate[g] \in from
    /\ gate' = [gate EXCEPT ![g] = to]
    /\ UNCHANGED <<stored, request, lock>>
    /\ Watch

CheckBegins(g) == CheckStep(g, {"idle", "open", "blocked"}, "first")

\* Mutant: the tenant's switches are read first.
TenantFirst == <<"tenant", "platform">>

Queries == <<"platform", "tenant">>

Seen(g, query) == IF query = "platform" THEN PlatformActive ELSE TenantStopped(g)

CheckFirst(g) == CheckStep(g, {"first"}, IF Seen(g, Queries[1]) THEN "blocked" ELSE "second")

CheckSecond(g) == CheckStep(g, {"second"}, IF Seen(g, Queries[2]) THEN "blocked" ELSE "open")

-----------------------------------------------------------------------------
Handle(k) ==
    \/ \E who \in Operators : \E s \in Stop : \E i \in 1..MaxRows : DeactivateSelect(k, who, s, i)
    \/ \E who \in InRole({"security_admin"}) :
         \E a \in Auth : \E p \in Principal : Issue(k, who, a, p)
    \/ \E who \in InRole({"security_auditor"}) : \E a \in Auth : Review(k, who, a)
    \/ \E who \in InRole({"break_glass"}) : \E a \in Auth :
         \E change \in {"activate", "deactivate"} : BreakGlass(k, who, a, change)
    \/ DeactivateUpdate(k) \/ RecordAudit(k)
    \/ ActivateSelect(k) \/ ActivateInsert(k) \/ DeactivateLock(k) \/ DeactivateClose(k)
    \/ Die(k)

Next ==
    \/ \E k \in Request : Handle(k)
    \/ \E who \in Operators : \E s \in Stop : Activate(who, s)
    \/ \E a \in Auth : Expire(a)
    \/ \E g \in Gate : CheckBegins(g) \/ CheckFirst(g) \/ CheckSecond(g)

Spec == Init /\ [][Next]_vars

-----------------------------------------------------------------------------
(* Properties.                                                              *)

Telling(event, i) == {n \in DOMAIN trail : trail[n].event = event /\ trail[n].row = i}

\* Of every row of the platform switch the audit trail tells the activation exactly once, the
\* deactivation exactly once if it is over and not at all if it is not, and it tells of nothing
\* else; at most one row is active.  So whether the switch is on can be told from the events,
\* in whatever order they are listed - whoever races whom and whoever dies
\* (SqlPlatformKillSwitchStore: FOR UPDATE, the unique index, the audit row of the same
\* transaction).
TrailTellsThePlatform ==
    /\ \A n \in DOMAIN trail : trail[n].row \in DOMAIN platform
    /\ \A i \in DOMAIN platform :
         /\ \E n \in DOMAIN trail : Telling(Opened, i) = {n}
         /\ IF platform[i] THEN Telling(Closed, i) = {}
                           ELSE \E n \in DOMAIN trail : Telling(Closed, i) = {n}
    /\ \A i, j \in DOMAIN platform : platform[i] /\ platform[j] => i = j

\* Replacing the platform stop by a tenant's leaves no gap: a check that something stopped all
\* the time is refused, unless the platform switch came on in between (is_blocked reads the
\* platform switch first).
NoGapInHandover == \A g \in Gate : gate[g] = "open" => ~covered[g]

\* Every change of the platform switch was made under an authorization that another principal
\* had issued, and no principal reviewed what he was authorized to do
\* (issue_temporary_authorization, require_active, TemporaryAuthorization.review).
IndependentHands ==
    /\ \A n \in DOMAIN trail :
         LET a == auths[trail[n].auth]
         IN  a.principal = trail[n].principal /\ a.issuer # a.principal
    /\ \A a \in Auth : auths[a] # None => auths[a].reviewer # auths[a].principal
=============================================================================

----------------------------- MODULE PackCatalog -----------------------------
(***************************************************************************)
(* The Capability Packs of a tenant: installation, enabling, revocation,   *)
(* the stable channel, and the two readers that act on them - a Run, whose *)
(* goal type a pack defines, and a Trial, whose subject is code of a pack. *)
(*                                                                         *)
(* The service has no transaction of its own: each call of the store is    *)
(* one.  There are two stores, PostgreSQL and the process's memory, and    *)
(* where they differ both are modelled.  Tenants share nothing; one is     *)
(* modelled.  The readers change nothing and are operators.                *)
(***************************************************************************)
EXTENDS PackManifest, FiniteSets, FiniteSetsExt

CONSTANTS
    Offered,        \* manifests that are submitted
    Local,          \* those that an operator gives a starting process
    PackOrder,      \* pack ids in their sort order
    Sources, Keys,  \* allowlists of the verifier
    Caller,         \* concurrent calls of the service
    Zero            \* version 0.0.0

ReleaseOf(m) == <<m.pack, m.version>>
Release == {ReleaseOf(m) : m \in Offered}
Pack == {PackOrder[i] : i \in DOMAIN PackOrder}
Version == {m.version : m \in Offered}
Stores == {"postgresql", "memory"}

\* A row of capability_packs, and a call of the service with what it has read.
PackRow == [manifest : Offered, enabled : BOOLEAN, revoked : BOOLEAN]
CallRow == [pc : {"idle", "deps", "install", "enable", "pin_revoked", "pin_deps",
                  "pin_dependents", "pin"},
            manifest : Offered \cup {None}, release : Release \cup {None}]

ASSUME CatalogAssumption ==
    /\ {m.pack : m \in Offered} \subseteq Pack /\ Local \subseteq Offered
    /\ None \notin Offered \cup Version \cup Pack \cup PackRow \cup Release

VARIABLES
    store,       \* configured_store, fixed
    registered,  \* the pack a process registers in its memory store when it starts, fixed
    row,         \* capability_packs
    channel,     \* capability_pack_channels
    call         \* calls in flight

catalogVars == <<store, registered, row, channel, call>>

Idle == [pc |-> "idle", manifest |-> None, release |-> None]

\* Rows, channels and calls are in states the service knows.
CatalogTypeOK ==
    /\ store \in Stores
    /\ registered \in Offered \cup {None}
    /\ row \in [Release -> PackRow \cup {None}]
    /\ channel \in [Pack -> Version \cup {None}]
    /\ call \in [Caller -> CallRow]

\* The memory store's part of the bootstrap (lifespan, register_pack): the pack of the process's
\* environment is parsed, not verified, and belongs to no tenant.
Registrable == {m \in Local : ParseManifest(m)}

CatalogInit ==
    /\ store \in Stores
    /\ registered \in {None} \cup (IF store = "memory" THEN Registrable ELSE {})
    /\ row = [r \in Release |-> None]
    /\ channel = [p \in Pack |-> None]
    /\ call = [k \in Caller |-> Idle]

Goto(k, pc) == call' = [call EXCEPT ![k].pc = pc]
CatalogReturn(k) == call' = [call EXCEPT ![k] = Idle]
Installed(r) == row[r] # None

-----------------------------------------------------------------------------
(* What readers see.                                                        *)

\* Mutant: revocation is nothing but disabling.
DisabledOnly(r) == Installed(r) /\ row[r].enabled

\* list_capability_packs: neither disabled nor revoked.
Listable(r) == Installed(r) /\ row[r].enabled /\ ~row[r].revoked

TenantListed(p) == {row[r].manifest : r \in {s \in Release : s[1] = p /\ Listable(s)}}

\* What the process registered, in a memory store; PostgreSQL has nothing of the kind.
Registered == IF registered = None THEN {} ELSE {registered}

\* A tenant none of whose packs is listable sees the registered one instead.
Listed(p) ==
    IF \E r \in Release : Listable(r) THEN TenantListed(p) ELSE {m \in Registered : m.pack = p}

\* The versions that a dictionary by pack id may keep of several: the rows of one pack come
\* in no particular order, and the last one stays.
LastListed == {f \in [Pack -> Offered \cup {None}] :
                 \A p \in Pack : IF Listed(p) = {} THEN f[p] = None ELSE f[p] \in Listed(p)}

\* _assert_dependencies_available.
DependenciesAvailable(m, available) ==
    \A i \in DOMAIN m.deps :
        LET found == available[m.deps[i].pack]
        IN  found # None /\ VersionSatisfies(m.deps[i].spec, found.version)

\* _assert_no_dependent_breaks.
NoDependentBreaks(r) ==
    \A p \in Pack : \A m \in Listed(p) : \A i \in DOMAIN m.deps :
        m.deps[i].pack = r[1] => VersionSatisfies(m.deps[i].spec, r[2])

-----------------------------------------------------------------------------
(* Installation.                                                            *)

NewRow(m) == [manifest |-> m, enabled |-> TRUE, revoked |-> FALSE]

\* install_pack of the store, uq_capability_pack_version: the same content again changes
\* nothing, other content is a conflict.
StoreInstall(m) ==
    row' = IF Installed(ReleaseOf(m)) THEN row ELSE [row EXCEPT ![ReleaseOf(m)] = NewRow(m)]

\* parse_manifest and verify_install: what comes through.
Verified == {m \in Offered : ParseManifest(m) /\ VerifyInstall(m, Sources, Keys)}

\* install_pack: parsed and verified before anything is read.
InstallVerify(k, m) ==
    /\ call[k] = Idle
    /\ m \in Verified
    /\ call' = [call EXCEPT ![k].pc = "deps", ![k].manifest = m]
    /\ UNCHANGED <<store, registered, row, channel>>

InstallDependencies(k) ==
    /\ call[k].pc = "deps"
    /\ \E available \in LastListed :
         IF DependenciesAvailable(call[k].manifest, available)
         THEN Goto(k, "install") ELSE CatalogReturn(k)
    /\ UNCHANGED <<store, registered, row, channel>>

InstallCommit(k) ==
    /\ call[k].pc = "install"
    /\ StoreInstall(call[k].manifest)
    /\ CatalogReturn(k)
    /\ UNCHANGED <<store, registered, channel>>

\* The bootstrap of a starting API on PostgreSQL verifies and installs, whatever the dependencies.
Bootstrap(m) ==
    /\ m \in Verified
    /\ store = "postgresql"
    /\ StoreInstall(m)
    /\ UNCHANGED <<store, registered, channel, call>>

-----------------------------------------------------------------------------
(* Enabling, disabling, revoking.                                           *)

SetEnabled(r, enabled) == row' = [row EXCEPT ![r].enabled = enabled]

Disable(r) ==
    /\ Installed(r)
    /\ SetEnabled(r, FALSE)
    /\ UNCHANGED <<store, registered, channel, call>>

\* enable_pack: is it revoked?  Then, in a transaction of its own, it is enabled.
EnableCheck(k, r) ==
    /\ call[k] = Idle
    /\ Installed(r) /\ ~row[r].revoked
    /\ call' = [call EXCEPT ![k].pc = "enable", ![k].release = r]
    /\ UNCHANGED <<store, registered, row, channel>>

EnableCommit(k) ==
    /\ call[k].pc = "enable"
    /\ SetEnabled(call[k].release, TRUE)
    /\ CatalogReturn(k)
    /\ UNCHANGED <<store, registered, channel>>

Revoke(r) ==
    /\ Installed(r)
    /\ row' = [row EXCEPT ![r].enabled = FALSE, ![r].revoked = TRUE]
    /\ UNCHANGED <<store, registered, channel, call>>

-----------------------------------------------------------------------------
(* set_stable_channel.                                                      *)

StableTarget(k, r) ==
    /\ call[k] = Idle
    /\ Installed(r)
    /\ call' = [call EXCEPT ![k].pc = "pin_revoked", ![k].release = r,
                            ![k].manifest = row[r].manifest]
    /\ UNCHANGED <<store, registered, row, channel>>

StableRevoked(k) ==
    /\ call[k].pc = "pin_revoked"
    /\ IF row[call[k].release].revoked THEN CatalogReturn(k) ELSE Goto(k, "pin_deps")
    /\ UNCHANGED <<store, registered, row, channel>>

StableDependencies(k) ==
    /\ call[k].pc = "pin_deps"
    /\ \E available \in LastListed :
         IF DependenciesAvailable(call[k].manifest, available)
         THEN Goto(k, "pin_dependents") ELSE CatalogReturn(k)
    /\ UNCHANGED <<store, registered, row, channel>>

StableDependents(k) ==
    /\ call[k].pc = "pin_dependents"
    /\ IF NoDependentBreaks(call[k].release) THEN Goto(k, "pin") ELSE CatalogReturn(k)
    /\ UNCHANGED <<store, registered, row, channel>>

\* The row that PostgreSQL is given lacks created_at, which is not nullable: the transaction
\* fails, always.
ChannelStored(r) ==
    channel' = IF store = "memory" THEN [channel EXCEPT ![r[1]] = r[2]] ELSE channel

StableCommit(k) ==
    /\ call[k].pc = "pin"
    /\ ChannelStored(call[k].release)
    /\ CatalogReturn(k)
    /\ UNCHANGED <<store, registered, row>>

-----------------------------------------------------------------------------
(* Readers.                                                                 *)

Types(m) == {m.goals[i].type : i \in DOMAIN m.goals}

\* get_goal_type of PostgreSQL, one pack: the pinned version, else the versions that sort
\* lowest by their comparison with 0.0.0, which nearly all of them have in common.
QueryCandidates(p, goal) ==
    LET pinned == {m \in TenantListed(p) : m.version = channel[p]}
        offering == {m \in IF channel[p] = None THEN TenantListed(p) ELSE pinned : goal \in Types(m)}
    IN  {m \in offering : \A n \in offering :
            CompareVersions(m.version, Zero) <= CompareVersions(n.version, Zero)}

\* The first pack in sort order that answers.
QueryAnswers(goal) ==
    LET answering == {i \in DOMAIN PackOrder : QueryCandidates(PackOrder[i], goal) # {}}
    IN  IF answering = {} THEN {} ELSE QueryCandidates(PackOrder[Min(answering)], goal)

\* _refresh_tenant_goal_types: of every pack the pinned version, else the newest.
IndexedOf(p) ==
    {m \in TenantListed(p) : IF channel[p] = None
                             THEN \A n \in TenantListed(p) : ~Older(m.version, n.version)
                             ELSE m.version = channel[p]}

\* get_goal_type of the memory store: the last pack in sort order has overwritten the others; a
\* goal type that no pack of the tenant answers is looked up in the registered pack.
IndexAnswers(goal) ==
    LET answering == {i \in DOMAIN PackOrder : \E m \in IndexedOf(PackOrder[i]) : goal \in Types(m)}
    IN  IF answering = {} THEN {m \in Registered : goal \in Types(m)}
                          ELSE IndexedOf(PackOrder[Max(answering)])

GoalTypeAnswers(goal) == IF store = "postgresql" THEN QueryAnswers(goal) ELSE IndexAnswers(goal)

\* SandboxedPackSubjectRuntime: the pack is looked up for every execution of its subject.
SubjectAnswers(r) == {m \in Listed(r[1]) : m.version = r[2] /\ m.subject # None}

-----------------------------------------------------------------------------
GoalType == UNION {Types(m) : m \in Offered}

Lifecycle(k) ==
    \/ \E m \in Offered : InstallVerify(k, m)
    \/ InstallDependencies(k) \/ StableDependencies(k)
    \/ InstallCommit(k) \/ EnableCommit(k)
    \/ \E r \in Release : EnableCheck(k, r) \/ StableTarget(k, r)
    \/ StableRevoked(k) \/ StableDependents(k) \/ StableCommit(k)

CatalogNext ==
    \/ \E k \in Caller : Lifecycle(k)
    \/ \E m \in Local : Bootstrap(m)
    \/ \E r \in Release : Disable(r) \/ Revoke(r)

CatalogSpec == CatalogInit /\ [][CatalogNext]_catalogVars

-----------------------------------------------------------------------------
(* Properties.                                                              *)

\* What a Run or a Trial that starts now is handed.
HandedOut == (UNION {GoalTypeAnswers(goal) : goal \in GoalType})
                \cup (UNION {SubjectAnswers(r) : r \in Release})

\* Whatever a Run or a Trial is handed is the content an allowlisted publisher signed, and is
\* not revoked - also when the revocation overtakes a call of enable_pack that has already
\* looked.  The one exception is the memory store's: the pack its process registered, which
\* nobody verified and no revocation reaches, is handed out where the tenant's own packs give
\* no answer (enable_pack, revoke_pack, list_capability_packs, get_goal_type, register_pack).
UsedIsTrusted ==
    \A m \in HandedOut :
        \/ store = "memory" /\ m = registered
        \/ /\ m \in Verified
           /\ row[ReleaseOf(m)].manifest = m
           /\ ~row[ReleaseOf(m)].revoked
=============================================================================

---------------------------- MODULE PackManifest ----------------------------
(***************************************************************************)
(* Capability Pack manifests: semantic versions, dependency ranges, what   *)
(* parsing accepts and what the supply-chain verifier accepts.             *)
(* Constant-level.                                                         *)
(*                                                                         *)
(* A version is its numbers and its prerelease identifiers, each of them   *)
(* <<0, n>> for a number and <<1, n>> for a word, n its rank.  A digest    *)
(* stands for what it is a digest of, a signature for its key and the      *)
(* payload it commits to.  External: the regular expressions, ed25519.     *)
(***************************************************************************)
EXTENDS Integers, Sequences, SequencesExt

CONSTANT None

\* _semver_key: a release outranks the prereleases of its triple.
SemverKey(v) == v.core \o <<IF v.pre = <<>> THEN 1 ELSE 0>> \o FlattenSeq(v.pre)

\* Python's order of tuples.
TupleLess(s, t) ==
    \/ IsStrictPrefix(s, t)
    \/ \E i \in DOMAIN s \cap DOMAIN t :
         SubSeq(s, 1, i - 1) = SubSeq(t, 1, i - 1) /\ s[i] < t[i]

Older(v, w) == TupleLess(SemverKey(v), SemverKey(w))

CompareVersions(v, w) == IF Older(v, w) THEN -1 ELSE IF Older(w, v) THEN 1 ELSE 0

\* _version_satisfies_one: "*" goes with every operator.
SatisfiesOne(item, v) ==
    \/ item.target = None
    \/ CASE item.op = "="  -> CompareVersions(v, item.target) = 0
         [] item.op = ">"  -> CompareVersions(v, item.target) = 1
         [] item.op = ">=" -> CompareVersions(v, item.target) >= 0
         [] item.op = "<"  -> CompareVersions(v, item.target) = -1
         [] item.op = "<=" -> CompareVersions(v, item.target) <= 0

\* version_satisfies: every comparator of the range holds.
VersionSatisfies(spec, v) == \A i \in DOMAIN spec : SatisfiesOne(spec[i], v)

Distinct(s, field(_)) == \A i, j \in DOMAIN s : field(s[i]) = field(s[j]) => i = j

\* PackDependency: a range has at least one comparator.
ValidDependency(d) == d.spec # <<>>

\* parse_manifest: goal types, at least one and each of them once; each dependency once; entry
\* points in the module of the pack.
ParseManifest(m) ==
    /\ m.goals # <<>> /\ Distinct(m.goals, LAMBDA g : g.type)
    /\ \A i \in DOMAIN m.deps : ValidDependency(m.deps[i])
    /\ Distinct(m.deps, LAMBDA d : d.pack)
    /\ m.owner = m.pack
    /\ m.subject \in {None, m.pack}

\* manifest_content_digest: of the declarative part, not of the supply-chain fields.
ContentDigest(m) == [pack |-> m.pack, version |-> m.version, owner |-> m.owner,
                     subject |-> m.subject, goals |-> m.goals, deps |-> m.deps]

\* canonical_unsigned_payload: everything but the signature.
UnsignedPayload(m) == [content |-> ContentDigest(m), source |-> m.source, digest |-> m.digest,
                       sbom |-> m.sbom]

\* verify_manifest_signature: some allowlisted key signed this payload.
SignatureVerifies(m, keys) ==
    \E key \in keys : m.signature = [key |-> key, over |-> UnsignedPayload(m)]

\* StrictSupplyChainVerifier.verify_install.
VerifyInstall(m, sources, keys) ==
    /\ m.source \in sources
    /\ m.digest = ContentDigest(m)
    /\ SignatureVerifies(m, keys)
    /\ m.sbom # None

\* sign_manifest_payload, supply_chain_fields: what a publisher attaches.
Published(m, source, sbom, key) ==
    LET attached == [m EXCEPT !.source = source, !.digest = ContentDigest(m), !.sbom = sbom]
    IN  [attached EXCEPT !.signature = [key |-> key, over |-> UnsignedPayload(attached)]]
=============================================================================

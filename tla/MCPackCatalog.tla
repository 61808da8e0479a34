---------------------------- MODULE MCPackCatalog ----------------------------
(***************************************************************************)
(* An instance of PackCatalog for TLC.                                     *)
(***************************************************************************)
EXTENDS PackCatalog, TLC

CONSTANTS base, top, hub, key, sbom, handler

At(major) == [core |-> <<major, 0, 0>>, pre |-> <<>>]
Rc(major, n) == [core |-> <<major, 0, 0>>, pre |-> <<<<1, 1>>, <<0, n>>>>]

Draft(p, v, type, deps) ==
    [pack |-> p, version |-> v, owner |-> p, subject |-> p,
     goals |-> <<[type |-> type, agent |-> handler]>>, deps |-> deps,
     source |-> None, digest |-> None, sbom |-> None, signature |-> None]

Signed(m) == Published(m, hub, sbom, key)

\* From the second release candidate of version 1 on, below version 2.
OfBase == <<[pack |-> base, spec |-> <<[op |-> ">=", target |-> Rc(1, 2)],
                                       [op |-> "<", target |-> At(2)]>>]>>

BaseRc == Signed(Draft(base, Rc(1, 1), "order", <<>>))
BaseOne == Signed(Draft(base, At(1), "order", <<>>))
\* Other content under the same version, once signed again and once tampered with.
BaseOneAgain == Signed(Draft(base, At(1), "order", OfBase))
BaseOneForged == [BaseOneAgain EXCEPT !.signature = BaseOne.signature]
TopOne == Signed(Draft(top, At(1), "visit", OfBase))

Manifests == {BaseRc, BaseOne, BaseOneAgain, BaseOneForged, TopOne}
\* One that nobody signed, and one whose dependency is missing.
LocalManifests == {BaseOneForged, TopOne}
SortedPacks == <<base, top>>
VersionZero == At(0)
Interchangeable == Permutations(Caller)
=============================================================================

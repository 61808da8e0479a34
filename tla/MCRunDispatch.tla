--------------------------- MODULE MCRunDispatch ---------------------------
(***************************************************************************)
(* Instances of RunDispatch for TLC.                                       *)
(***************************************************************************)
EXTENDS RunDispatch, TLC

CONSTANTS r1, r2, d1, d2

\* Two processes of the younger Run's pool; the older Run's pool has no process, so its
\* event stays in front of the other one until its Run ends.
SamePool == (d1 :> {r2}) @@ (d2 :> {r2})
InOrder == (r1 :> 1) @@ (r2 :> 2)
=============================================================================

-------------------------- MODULE MCConfigRevisions --------------------------
(* Model-checking instances of ConfigRevisions.                            *)
EXTENDS ConfigRevisions, TLC

Symmetry      == Permutations(Req)
SymmetryPub   == Permutations(Req) \cup Permutations(Pub)

PublishedOps  == {"create", "publish"}
\* What two requests interleave: the operations left out, add, render and diff,
\* are prefixes of these; Serial has them all.
InterleavedOps == {"create", "publish", "edit", "apply", "rollback"}
NoFaults      == {}
AllFaults     == {"abort", "oserror"}
==============================================================================

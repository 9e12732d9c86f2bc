--------------------------- MODULE StudioUpdateMC ---------------------------
EXTENDS StudioUpdate, TLC

\* Version 2 is offered, then no longer listed, then revoked; version 3 is a
\* prerelease.
MCListed == 1 :> {1, 2} @@ 2 :> {3} @@ 3 :> {2, 3}
MCRevoked == 1 :> {} @@ 2 :> {} @@ 3 :> {2}
MCMinUpdater == 1 :> 1 @@ 2 :> 1 @@ 3 :> 1
Symmetry == Permutations(Studios)
==============================================================================

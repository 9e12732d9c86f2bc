--------------------------- MODULE SecurityStateMC ---------------------------
(* Two processes, two of the three documents, two sequences and two contents. *)
EXTENDS SecurityState, TLC

CONSTANTS a, b, manifest, keyring, x, y
Symmetry == Permutations({a, b}) \cup Permutations({manifest, keyring})
              \cup Permutations({x, y})
=============================================================================

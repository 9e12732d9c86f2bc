--------------------------- MODULE OutputCommitMC ---------------------------
(* Two writers, two temporary names and files of two chunks: a writer can meet a
   leftover, the other writer, a kill and a power loss at every step. *)
EXTENDS OutputCommit

CONSTANTS w1, w2, n1, n2
=============================================================================

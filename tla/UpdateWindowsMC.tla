--------------------------- MODULE UpdateWindowsMC ---------------------------
(* Two AWJ processes: the one that updates and one more, or the one that starts
   next. *)
EXTENDS UpdateWindows

CONSTANTS u1, u2
=============================================================================

---------------------------- MODULE UpdateLinuxMC ----------------------------
(* Two AWJ processes: the one that stages the update and one that starts while
   the helper, or the recovery of the other, is at work. *)
EXTENDS UpdateLinux

CONSTANTS u1, u2
=============================================================================

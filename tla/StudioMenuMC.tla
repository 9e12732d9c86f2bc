---------------------------- MODULE StudioMenuMC -----------------------------
(* One extension that may have a parent of the current user or not, three sets of
   parameters of which one does not validate and another adds the second command,
   and two places of the program. *)
EXTENDS StudioMenu
==============================================================================

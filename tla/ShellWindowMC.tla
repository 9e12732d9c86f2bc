---- MODULE ShellWindowMC ----
(* Three processes of one selection: one has an input that is too long for a *)
(* message, and one input was selected twice.                                *)
EXTENDS ShellWindow, TLC

CONSTANTS p, q, r

MCLaunched == (p :> <<1>>) @@ (q :> <<2, 3>>) @@ (r :> <<1>>)
====

----------------------------- MODULE StudioMenu ------------------------------
(***************************************************************************)
(* The context-menu page of the Studio: its parameters, the configuration  *)
(* file that keeps them, and the menu in the registry that was installed   *)
(* with them.  The page is what the user sees; the configuration is        *)
(* written when it differs from what was written last, by a timer, when    *)
(* the window closes, and by the two buttons of the page.                  *)
(***************************************************************************)
EXTENDS ShellMenu

CONSTANTS
  BadParams,  \* parameters that do not validate
  NoFile,     \* there is no configuration file
  MaxEdits,   \* bound on edits of the page
  MaxFaults,  \* bound on failed calls and kills
  MaxOutside  \* bound on what others do to the registry and the system

ASSUME ConfigAssumption ==
  /\ BadParams \subseteq Params /\ NoFile \notin Params
  /\ {MaxEdits, MaxFaults, MaxOutside} \subseteq Nat

VARIABLES
  on,       \* the Studio runs
  page,     \* the parameters of the page: capture_studio_config
  file,     \* the parameters in the configuration file
  snapshot, \* last_config_snapshot
  warning,  \* the page shows a warning
  unnoted,  \* the file was written and the snapshot was not
  edits, faults, outside

vars == <<reg, fallback, exe, op, on, page, file, snapshot, warning, unnoted,
          edits, faults, outside>>

Default == CHOOSE p \in Params \ BadParams : p \notin WithSuffix

\* apply_studio_config_file: what the file does not say is the default.
Loaded == IF file = NoFile THEN Default ELSE file

Init ==
  /\ reg \in {[k \in Keys |-> Absent],
              [k \in Keys |-> IF k = "legacy" THEN Odd ELSE Absent]}
  /\ fallback \in SUBSET Exts /\ exe \in Paths /\ op = NoOp
  /\ on = FALSE /\ file = NoFile
  /\ page = Default /\ snapshot = Default
  /\ warning = FALSE /\ unnoted = FALSE
  /\ edits = 0 /\ faults = 0 /\ outside = 0

Fault == faults < MaxFaults /\ faults' = faults + 1
Idle == on /\ op = NoOp

\* validate_menu_params.
Valid == page \notin BadParams

\* write_studio_config_file: only what differs from the defaults is written,
\* into a temporary file that replaces the configuration.
Saved(ok) ==
  IF ok THEN file' = page /\ UNCHANGED faults ELSE Fault /\ UNCHANGED file

\* run_studio_ui: the file is read, the snapshot taken, the menu checked.
StartStudio ==
  /\ ~on /\ on' = TRUE
  /\ page' = Loaded /\ snapshot' = Loaded /\ unnoted' = FALSE
  /\ warning' = Warns(Loaded, fallback, exe)
  /\ UNCHANGED <<reg, fallback, exe, op, file, edits, faults, outside>>

EditPage(p) ==
  /\ Idle /\ p # page /\ edits < MaxEdits
  /\ page' = p /\ edits' = edits + 1
  /\ UNCHANGED <<reg, fallback, exe, op, on, file, snapshot, warning, unnoted,
                 faults, outside>>

\* persist_studio_config_if_changed.
Persist(ok) ==
  IF page = snapshot THEN UNCHANGED <<file, snapshot, unnoted, faults>>
  ELSE /\ Saved(ok)
       /\ snapshot' = IF ok THEN page ELSE snapshot
       /\ unnoted' = (unnoted /\ ~ok)

ConfigTimer(ok) ==
  /\ Idle /\ Persist(ok)
  /\ UNCHANGED <<reg, fallback, exe, op, on, page, warning, edits, outside>>

\* on_close_requested: the window closes whether or not this succeeds.
CloseStudio(ok) ==
  /\ Idle /\ Persist(ok) /\ on' = FALSE
  /\ UNCHANGED <<reg, fallback, exe, op, page, warning, edits, outside>>

\* on_save_menu_params_requested.
SaveMenu(ok) ==
  /\ Idle /\ Valid
  /\ Saved(ok)
  /\ IF ok THEN /\ snapshot' = page /\ unnoted' = FALSE
                /\ warning' = Warns(page, fallback, exe)
     ELSE UNCHANGED <<snapshot, unnoted, warning>>
  /\ UNCHANGED <<reg, fallback, exe, op, on, page, edits, outside>>

\* Mutant: the menu is installed although its parameters were not written.
InstallMenuFirst(ok) ==
  /\ Idle /\ Valid
  /\ Saved(ok)
  /\ op' = InstallOp(page) /\ unnoted' = (page # snapshot)
  /\ UNCHANGED <<reg, fallback, exe, on, page, snapshot, warning, edits, outside>>

\* on_install_context_menu_requested: the configuration first.
InstallMenu(ok) ==
  /\ Idle /\ Valid
  /\ Saved(ok)
  /\ IF ok THEN op' = InstallOp(page) /\ unnoted' = (page # snapshot)
     ELSE UNCHANGED <<op, unnoted>>
  /\ UNCHANGED <<reg, fallback, exe, on, page, snapshot, warning, edits, outside>>

\* on_remove_context_menu_requested, and a click on the warning.
RemoveMenu ==
  /\ Idle /\ op' = RemoveOp(page)
  /\ UNCHANGED <<reg, fallback, exe, on, page, file, snapshot, warning, unnoted,
                 edits, faults, outside>>

\* The calls of the operation, one at a time.
RegistryStep ==
  /\ on
  /\ \/ UNCHANGED faults /\ (Clean(FALSE) \/ Cleaned \/ Apply(FALSE) \/ Applied \/ RolledBack)
     \/ Fault /\ (Clean(TRUE) \/ Apply(TRUE))
  /\ UNCHANGED <<fallback, exe, on, page, file, snapshot, warning, unnoted,
                 edits, outside>>

\* The callback goes on with what the operation returned.
OperationReturns ==
  /\ on /\ op.kind = "ended" /\ op' = NoOp
  /\ warning' = (warning /\ ~op.ok)
  /\ IF op.ok /\ op.was.kind = "install"
     THEN snapshot' = page /\ unnoted' = FALSE ELSE UNCHANGED <<snapshot, unnoted>>
  /\ UNCHANGED <<reg, fallback, exe, on, page, file, edits, faults, outside>>

----------------------------------------------------------------------------
(* Around the Studio. *)

Kill ==
  /\ on /\ Fault /\ on' = FALSE /\ op' = NoOp
  /\ UNCHANGED <<reg, fallback, exe, page, file, snapshot, warning, unnoted,
                 edits, outside>>

Outside == outside < MaxOutside /\ outside' = outside + 1

\* Someone edits the registry, or the system classifies files in another way.
Meddle ==
  /\ Outside
  /\ \/ \E k \in Keys : /\ k \in Below => Exists("shared")
                        /\ reg[k] # Odd /\ reg' = [reg EXCEPT ![k] = Odd]
                        /\ UNCHANGED <<fallback, exe>>
     \/ \E k \in Keys \ {"shared"} : /\ Exists(k) /\ reg' = [reg EXCEPT ![k] = Absent]
                        /\ UNCHANGED <<fallback, exe>>
     \/ fallback' \in SUBSET Exts \ {fallback} /\ UNCHANGED <<reg, exe>>
     \/ ~on /\ exe' \in Paths \ {exe} /\ UNCHANGED <<reg, fallback>>
  /\ UNCHANGED <<op, on, page, file, snapshot, warning, unnoted, edits, faults>>

Next ==
  \/ StartStudio \/ RemoveMenu \/ RegistryStep \/ OperationReturns \/ Kill \/ Meddle
  \/ \E p \in Params : EditPage(p)
  \/ \E ok \in BOOLEAN : ConfigTimer(ok) \/ CloseStudio(ok) \/ SaveMenu(ok) \/ InstallMenu(ok)

Spec == Init /\ [][Next]_vars

----------------------------------------------------------------------------
(* What the page promises. *)

TypeOK ==
  /\ reg \in [Keys -> Contents] /\ fallback \subseteq Exts /\ exe \in Paths
  /\ op.kind \in {"none", "install", "remove", "ended"}
  /\ on \in BOOLEAN /\ page \in Params /\ snapshot \in Params
  /\ file \in Params \union {NoFile}
  /\ warning \in BOOLEAN /\ unnoted \in BOOLEAN
  /\ edits \in 0 .. MaxEdits /\ faults \in 0 .. MaxFaults /\ outside \in 0 .. MaxOutside

\* An installation that reports success left exactly its menu, and its
\* parameters are those of the configuration file: the next start finds
\* nothing to complain about.
InstalledIsSaved ==
  [][op'.kind = "ended" /\ op.kind = "install" /\ op'.ok /\ outside = 0 =>
       /\ reg' = Schema(page, fallback, exe)
       /\ file' = page]_vars

\* One that reports a failure left the menu as a whole or nothing: it is
\* either deleted again or the user is told that this failed too.
FailedLeavesNothing ==
  [][op'.kind = "ended" /\ op.kind = "install" /\ ~op'.ok /\ outside = 0 =>
       op.failed \/ ~AnyOwned']_vars

\* The page is never believed to be in the file when it is not: a change is
\* written by the timer or on closing.  The exception is a file written for an
\* installation that then failed.
SnapshotIsFile ==
  on /\ ~unnoted /\ op = NoOp => snapshot = Loaded

\* Whenever the warning changes, it becomes what a check would say now: a
\* removal or an installation that left something behind does not silence it.
WarningTruthful ==
  [][warning' # warning /\ outside = 0 => warning' = Warns(page, fallback, exe)']_vars

\* The warning of the window is right.  The check it comes from is exact: it is
\* silent only if the program owns nothing in the registry or owns exactly the
\* menu these parameters, this path and the system's view of the extensions ask
\* for, whatever interrupted installations and other programs left there.  And a
\* finished operation leaves the warning as that check would set it.
WarningHonest ==
  /\ [](op = NoOp => (~Warns(page, fallback, exe) <=>
                        ~AnyOwned \/ reg = Schema(page, fallback, exe)))
  /\ WarningTruthful

\* The parameters in the file are those of the page and of the installed menu.
SavedExact == [](TypeOK /\ SnapshotIsFile) /\ InstalledIsSaved
==============================================================================

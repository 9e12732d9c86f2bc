---------------------------- MODULE UpdateWindows ----------------------------
(* The Windows update transaction of src/src/update/update_windows.ixx.

   A running AWJ stages an update of AWJ.exe and AWJ.com and starts a helper, which
   waits for it to exit, copies both files to the stage, writes a pointer to the
   stage, replaces the files one after the other, starts the new program, waits for
   its health signal and commits.  A failure copies the backups back.  An AWJ that
   starts and finds an uncommitted transaction starts a recovery helper and exits;
   the recovery helper waits for that exit and copies the backups back.

   A replacement is a rename and atomic; a copy is not: whoever is killed in it
   leaves a torn file.  A running AWJ.exe can be neither replaced nor overwritten.

   Bounds: one transaction.  Not modelled: power loss, errors of looking a file up
   or of reading one that is there. *)
CONSTANTS Users,     \* AWJ.exe processes
          Helper,    \* run_update_helper
          Recovery,  \* run_update_recovery_helper
          NoUser,
          Victims,   \* processes that may be killed
          Refusals,  \* the system may refuse operations, and waits may time out
          Overlap    \* AWJ may be started while another process swaps files

ASSUME WindowsAssumption ==
  /\ Helper \notin Users /\ Recovery \notin Users /\ Helper # Recovery
  /\ NoUser \notin Users
  /\ Refusals \in BOOLEAN
  /\ Overlap \in BOOLEAN

VARIABLES
  installed,  \* install/AWJ.exe and AWJ.com
  backup,     \* stage/AWJ.exe.old and AWJ.com.old
  pending,    \* stage/AWJ.exe.new and AWJ.com.new are there
  pointer,    \* install/.awj-update-transaction is there
  journal,    \* stage/state.txt
  sound,      \* the new program works
  checked,    \* the health signal was seen
  committed,  \* the journal or the missing pointer says so
  stuck,      \* a removal of the pointer was refused
  probe,      \* the program started for the health check runs
  parent,     \* the process the helper waits for
  caller,     \* the process the recovery helper waits for
  pc

vars  == <<installed, backup, pending, pointer, journal, sound, checked, committed,
           stuck, probe, parent, caller, pc>>
stage == <<backup, pending, journal>>
past  == <<sound, checked, committed>>
mark  == <<pointer, stuck>>
waits == <<parent, caller>>

Parts == {"exe", "com"}
Processes == Users \cup {Helper, Recovery}
Saving    == [exe |-> "saveExe", com |-> "saveCom"]
Placing   == [exe |-> "placeExe", com |-> "placeCom"]
Noting    == [exe |-> "noteExe", com |-> "noteCom"]
Undoing   == [exe |-> "undoExe", com |-> "undoCom"]
Restoring == {"undoExe", "undoCom", "drop"}
Starting  == {"check", "read", "lookup", "spawn", "forget"}
Swapping  == {"saveExe", "saveCom", "pointer", "prepared", "placeExe", "noteExe",
              "placeCom", "noteCom", "start", "observe", "commit", "unpoint"}
               \cup Restoring
Ended     == {"quit", "rolled", "stranded", "done", "dead"}

Init ==
  /\ installed = [x \in Parts |-> "old"]
  /\ backup = [x \in Parts |-> "none"]
  /\ pending = FALSE /\ pointer = FALSE /\ stuck = FALSE
  /\ journal = "none"
  /\ sound \in BOOLEAN
  /\ checked = FALSE /\ committed = FALSE /\ probe = FALSE
  /\ parent = NoUser /\ caller = NoUser
  /\ pc = [p \in Processes |-> IF p = Helper THEN "none"
                               ELSE IF p = Recovery THEN "idle" ELSE "off"]

Goto(p, step) == pc' = [pc EXCEPT ![p] = step]
Fail(p, step) == Refusals /\ Goto(p, step)
At(step) == pc[Helper] = step

Starts(version) == version = "old" \/ (version = "new" /\ sound)

\* The image of a running program is locked.
Writable(x) == x = "com" \/ (~probe /\ \A u \in Users : pc[u] = "off")

\* No AWJ looks at the transaction and no recovery runs.
Calm ==
  /\ \A u \in Users : pc[u] \in {"off", "running", "leaving"}
  /\ pc[Recovery] \in {"idle", "clean"}

\* make_stage_directory never hands out the same stage twice.
Unstaged == At("none")

\* stage_and_launch_update; its failures leave the installation alone.
Stage(u) ==
  /\ pc[u] = "running" /\ Unstaged
  /\ pending' = TRUE
  /\ journal' = "staged"
  /\ parent' = u
  /\ Goto(Helper, "wait")
  /\ UNCHANGED <<installed, backup, mark, past, probe, caller>>

-----------------------------------------------------------------------------
(* restore_backups, run by both helpers. *)

RestoreFailed(p) == IF p = Helper THEN "stranded" ELSE "idle"

AfterUndo == [exe |-> "undoCom", com |-> "drop"]

\* flush_copy overwrites the installed file in place; a missing backup is skipped.
Undo(p, x) ==
  /\ pc[p] = Undoing[x]
  /\ \/ backup[x] = "none" /\ Goto(p, AfterUndo[x]) /\ UNCHANGED installed
     \/ /\ backup[x] # "none" /\ Writable(x)
        /\ installed' = [installed EXCEPT ![x] = backup[x]]
        /\ Goto(p, AfterUndo[x])
     \/ /\ backup[x] # "none"
        /\ IF Writable(x) THEN Fail(p, RestoreFailed(p)) ELSE Goto(p, RestoreFailed(p))
        /\ \/ UNCHANGED installed
           \/ Writable(x) /\ installed' = [installed EXCEPT ![x] = "torn"]
  /\ UNCHANGED <<stage, mark, past, probe, waits>>

\* fs::remove(pointer), an error ignored.
RemovePointer ==
  \/ pointer' = FALSE /\ UNCHANGED stuck
  \/ Refusals /\ stuck' = TRUE /\ UNCHANGED pointer

DropPointer(p) ==
  /\ pc[p] = "drop"
  /\ RemovePointer
  /\ Goto(p, IF p = Helper THEN "rolled" ELSE "clean")
  /\ UNCHANGED <<installed, stage, past, probe, waits>>

-----------------------------------------------------------------------------
(* run_update_helper. *)

\* Mutant: the helper waits for its parent without a limit.
Forever == FALSE

\* WaitForSingleObject(parent, 60000).
TimesOut == TRUE

\* A parent that is gone, or a document that is refused, ends the helper at once.
WaitForParent ==
  /\ At("wait")
  /\ \/ Goto(Helper, "quit") /\ (TimesOut \/ parent = NoUser)
     \/ Goto(Helper, "saveExe") /\ parent = NoUser /\ (Overlap \/ Calm)
  /\ UNCHANGED <<installed, stage, mark, past, probe, waits>>

AfterSave == [exe |-> "saveCom", com |-> "pointer"]

\* Mutant: a failed backup is ignored.
SaveAnyway(x) == AfterSave[x]

OnSaveError(x) == "quit"

\* flush_copy to the stage.
Save(x) ==
  /\ At(Saving[x])
  /\ \/ backup' = [backup EXCEPT ![x] = installed[x]] /\ Goto(Helper, AfterSave[x])
     \/ /\ Fail(Helper, OnSaveError(x))
        /\ backup' \in {backup, [backup EXCEPT ![x] = "torn"]}
  /\ UNCHANGED <<installed, pending, journal, mark, past, probe, waits>>

\* atomic_text_replace; a failure here returns without a rollback.
WritePointer ==
  /\ At("pointer")
  /\ \/ pointer' = TRUE /\ Goto(Helper, "prepared")
     \/ UNCHANGED pointer /\ Fail(Helper, "quit")
  /\ UNCHANGED <<installed, stage, stuck, past, probe, waits>>

MarkPrepared ==
  /\ At("prepared")
  /\ \/ journal' = "prepared" /\ Goto(Helper, "placeExe")
     \/ UNCHANGED journal /\ Fail(Helper, "quit")
  /\ UNCHANGED <<installed, backup, pending, mark, past, probe, waits>>

\* replace_from_stage: a copy beside the target, then a rename over it.
Place(x) ==
  /\ At(Placing[x])
  /\ \/ /\ pending /\ Writable(x)
        /\ installed' = [installed EXCEPT ![x] = "new"]
        /\ Goto(Helper, Noting[x])
     \/ /\ Refusals \/ ~pending \/ ~Writable(x)
        /\ Goto(Helper, "undoExe") /\ UNCHANGED installed
  /\ UNCHANGED <<stage, mark, past, probe, waits>>

\* An error of this write is ignored.
NoteIn(text) == journal' = text \/ (Refusals /\ UNCHANGED journal)

NotePlaced(x) ==
  /\ At(Noting[x])
  /\ NoteIn(IF x = "exe" THEN "exe-replaced" ELSE "files-replaced")
  /\ Goto(Helper, IF x = "exe" THEN "placeCom" ELSE "start")
  /\ UNCHANGED <<installed, backup, pending, mark, past, probe, waits>>

\* CreateEvent, CreateProcess.
StartProbe ==
  /\ At("start")
  /\ \/ Starts(installed["exe"]) /\ probe' = TRUE /\ Goto(Helper, "observe")
     \/ /\ Refusals \/ ~Starts(installed["exe"])
        /\ Goto(Helper, "undoExe") /\ UNCHANGED probe
  /\ UNCHANGED <<installed, stage, mark, past, waits>>

ProbeExits ==
  /\ probe
  /\ probe' = FALSE
  /\ UNCHANGED <<installed, stage, mark, past, waits, pc>>

\* Only the new version signals, and it must live on for three seconds; otherwise
\* it is terminated.
Observe ==
  /\ At("observe")
  /\ \/ /\ probe /\ installed["exe"] = "new"
        /\ checked' = TRUE
        /\ Goto(Helper, "commit")
        /\ UNCHANGED probe
     \/ /\ Goto(Helper, "undoExe")
        /\ probe' = FALSE \/ (Refusals /\ UNCHANGED probe)
        /\ UNCHANGED checked
  /\ UNCHANGED <<installed, stage, mark, sound, committed, waits>>

Commit ==
  /\ At("commit")
  /\ NoteIn("committed")
  /\ committed' = (committed \/ journal' = "committed")
  /\ Goto(Helper, "unpoint")
  /\ UNCHANGED <<installed, backup, pending, mark, sound, checked, probe, waits>>

Unpoint ==
  /\ At("unpoint")
  /\ RemovePointer
  /\ committed' = (committed \/ ~pointer')
  /\ Goto(Helper, "cleanExe")
  /\ UNCHANGED <<installed, stage, sound, checked, probe, waits>>

\* cleanup_stage_after_success, in this order, every error ignored.
CleanBackup(x) ==
  /\ At(IF x = "exe" THEN "cleanExe" ELSE "cleanCom")
  /\ backup' = [backup EXCEPT ![x] = "none"] \/ (Refusals /\ UNCHANGED backup)
  /\ Goto(Helper, IF x = "exe" THEN "cleanCom" ELSE "cleanState")
  /\ UNCHANGED <<installed, pending, journal, mark, past, probe, waits>>

CleanState ==
  /\ At("cleanState")
  /\ NoteIn("none")
  /\ Goto(Helper, "done")
  /\ UNCHANGED <<installed, backup, pending, mark, past, probe, waits>>

-----------------------------------------------------------------------------
(* An AWJ process: launch_update_recovery_if_needed, then the window. *)

\* Without Overlap nobody starts AWJ in the seconds in which a helper is at work.
Launch(u) ==
  /\ pc[u] = "off"
  /\ Starts(installed["exe"])
  /\ Overlap \/ (pc[Helper] \notin Swapping /\ Calm)
  /\ Goto(u, "check")
  /\ UNCHANGED <<installed, stage, mark, past, probe, waits>>

CheckPointer(u) ==
  /\ pc[u] = "check"
  /\ Goto(u, IF pointer THEN "read" ELSE "running")
  /\ UNCHANGED <<installed, stage, mark, past, probe, waits>>

\* Mutant: every transaction with a pointer is rolled back.
AnyState == TRUE

Unfinished == journal # "committed"

ReadJournal(u) ==
  /\ pc[u] = "read"
  /\ Goto(u, IF Unfinished THEN "lookup" ELSE "forget")
  /\ UNCHANGED <<installed, stage, mark, past, probe, waits>>

\* Without a backup of AWJ.exe nothing was replaced, or all of it was removed.
LookUpBackup(u) ==
  /\ pc[u] = "lookup"
  /\ Goto(u, IF backup["exe"] = "none" THEN "forget" ELSE "spawn")
  /\ UNCHANGED <<installed, stage, mark, past, probe, waits>>

Forget(u) ==
  /\ pc[u] = "forget"
  /\ RemovePointer
  /\ Goto(u, "running")
  /\ UNCHANGED <<installed, stage, past, probe, waits>>

\* A copy of AWJ.exe in the stage is started; while one runs it cannot be replaced.
SpawnRecovery(u) ==
  /\ pc[u] = "spawn"
  /\ \/ /\ pc[Recovery] = "idle"
        /\ caller' = u
        /\ pc' = [pc EXCEPT ![u] = "leaving", ![Recovery] = "open"]
     \/ /\ Refusals \/ pc[Recovery] # "idle"
        /\ Goto(u, "running") /\ UNCHANGED caller
  /\ UNCHANGED <<installed, stage, mark, past, probe, parent>>

Leave(u) ==
  /\ parent' = IF parent = u THEN NoUser ELSE parent
  /\ caller' = IF caller = u THEN NoUser ELSE caller

Quit(u) ==
  /\ pc[u] = "running"
  /\ Goto(u, "off") /\ Leave(u)
  /\ UNCHANGED <<installed, stage, mark, past, probe>>

\* The process that started the recovery returns from main.
Exit(u) ==
  /\ pc[u] = "leaving"
  /\ Goto(u, "off") /\ Leave(u)
  /\ UNCHANGED <<installed, stage, mark, past, probe>>

-----------------------------------------------------------------------------
(* run_update_recovery_helper. *)

\* OpenProcess fails when the process has already exited.
OpenCaller ==
  /\ pc[Recovery] = "open"
  /\ \/ caller # NoUser /\ Goto(Recovery, "rwait")
     \/ Goto(Recovery, "idle") /\ (caller = NoUser \/ Refusals)
  /\ UNCHANGED <<installed, stage, mark, past, probe, waits>>

WaitForCaller ==
  /\ pc[Recovery] = "rwait"
  /\ \/ caller = NoUser /\ Goto(Recovery, "undoExe")
     \/ Fail(Recovery, "idle")
  /\ UNCHANGED <<installed, stage, mark, past, probe, waits>>

\* Documents, state.txt and the new files; the backups stay.
CleanRecovered ==
  /\ pc[Recovery] = "clean"
  /\ NoteIn("none")
  /\ pending' = FALSE \/ (Refusals /\ UNCHANGED pending)
  /\ Goto(Recovery, "idle")
  /\ UNCHANGED <<installed, backup, mark, past, probe, waits>>

-----------------------------------------------------------------------------

\* A copy that is interrupted leaves part of the file.
Kill(p) ==
  /\ p \in Victims
  /\ IF p = Helper THEN pc[p] \notin {"none"} \cup Ended
                   ELSE pc[p] \notin {"idle", "off"}
  /\ Goto(p, IF p = Helper THEN "dead" ELSE IF p = Recovery THEN "idle" ELSE "off")
  /\ Leave(p)
  /\ \/ UNCHANGED <<installed, backup>>
     \/ \E x \in Parts : /\ pc[p] = Undoing[x] /\ backup[x] # "none" /\ Writable(x)
                         /\ installed' = [installed EXCEPT ![x] = "torn"]
                         /\ UNCHANGED backup
     \/ \E x \in Parts : /\ pc[p] = Saving[x]
                         /\ backup' = [backup EXCEPT ![x] = "torn"]
                         /\ UNCHANGED installed
  /\ UNCHANGED <<pending, journal, mark, past, probe>>

Restore(p) == DropPointer(p) \/ \E x \in Parts : Undo(p, x)

HelperStep ==
  \/ WaitForParent \/ WritePointer \/ MarkPrepared \/ StartProbe \/ Observe \/ Commit
  \/ Unpoint \/ CleanState \/ Restore(Helper)
  \/ \E x \in Parts : Save(x) \/ Place(x) \/ NotePlaced(x) \/ CleanBackup(x)

RecoveryStep == OpenCaller \/ WaitForCaller \/ CleanRecovered \/ Restore(Recovery)

StartStep(u) ==
  CheckPointer(u) \/ ReadJournal(u) \/ LookUpBackup(u) \/ Forget(u) \/ SpawnRecovery(u)
    \/ Exit(u)

Next ==
  \/ HelperStep \/ RecoveryStep \/ ProbeExits
  \/ \E u \in Users : Launch(u) \/ Stage(u) \/ StartStep(u) \/ Quit(u)
  \/ \E p \in Processes : Kill(p)

Spec == Init /\ [][Next]_vars /\ WF_vars(HelperStep)

\* The user quits AWJ and starts it again, and every process makes progress.
RestartSpec ==
  /\ Spec /\ WF_vars(RecoveryStep)
  /\ \A u \in Users : WF_vars(StartStep(u)) /\ WF_vars(Launch(u)) /\ WF_vars(Quit(u))

-----------------------------------------------------------------------------
(* Properties. *)

TypeOK ==
  /\ installed \in [Parts -> {"old", "new", "torn"}]
  /\ backup \in [Parts -> {"none", "old", "torn"}]
  /\ pending \in BOOLEAN /\ pointer \in BOOLEAN /\ stuck \in BOOLEAN
  /\ journal \in {"none", "staged", "prepared", "exe-replaced", "files-replaced",
                  "committed"}
  /\ sound \in BOOLEAN /\ checked \in BOOLEAN /\ committed \in BOOLEAN
  /\ probe \in BOOLEAN
  /\ parent \in Users \cup {NoUser} /\ caller \in Users \cup {NoUser}
  /\ pc \in [Processes -> {"off", "running", "leaving", "none", "wait", "idle", "open",
                           "rwait", "clean", "cleanExe", "cleanCom", "cleanState"}
                            \cup Starting \cup Swapping \cup Ended]

Pair(version) == installed = [x \in Parts |-> version]

\* At every moment the pair is the old one, or the new one with its health check
\* passed, or both backups are whole and the pointer leads to them.
PairRecoverable ==
  ~stuck => \/ Pair("old")
            \/ Pair("new") /\ checked
            \/ pointer /\ backup = [x \in Parts |-> "old"]

\* The pointer is only removed when there is nothing left to recover.
PointerDroppedLast ==
  [][pointer /\ ~pointer' /\ ~stuck => Pair("old") \/ (Pair("new") /\ checked)]_vars

\* No later start of the program rolls a committed update back, not even in part.
CommittedStays ==
  [][committed /\ Pair("new") /\ ~stuck => Pair("new")']_vars

\* The helper ends whatever its parent does.
HelperEnds == At("wait") ~> pc[Helper] \in Ended

\* When nobody is at work the two installed files are of one version.
\* It does not hold when a rollback or a recovery gives up between the two.
PairAtRest ==
  pc[Helper] \in Ended /\ Calm => installed["exe"] = installed["com"]

\* The next starts of a working program recover an interrupted transaction.
\* It does not hold: see README.md, "What does not hold".
NextLaunchRecovers == (sound /\ pointer) ~> ~pointer
=============================================================================

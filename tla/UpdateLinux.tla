----------------------------- MODULE UpdateLinux -----------------------------
(* The Linux update transaction of src/src/update/update_linux.ixx.

   A running AWJ stages an update and starts a helper, which waits for it to
   exit, moves the program AWJ to the stage as AWJ.old, writes a pointer to the
   stage, moves AWJ.new into place, checks that it starts, and commits.  A failure
   restores the backup.  Every AWJ that starts looks for the pointer first and
   rolls an uncommitted transaction back.  Any process may be killed between two
   system calls.

   Bounds: one transaction.  Not modelled: power loss, errors of reading a file
   that is there. *)
CONSTANTS Users,    \* AWJ processes
          Helper,   \* the process of run_linux_update_helper
          NoUser,
          Overlap   \* AWJ may be started while another process swaps the program

ASSUME LinuxAssumption ==
  /\ Helper \notin Users
  /\ NoUser \notin Users
  /\ Overlap \in BOOLEAN

VARIABLES
  target,     \* install/AWJ: "old", "new" or "none"
  backup,     \* stage/AWJ.old
  pending,    \* stage/AWJ.new is there
  pointer,    \* install/.awj-update-transaction is there
  journal,    \* stage/state.txt
  sound,      \* the new program can start
  checked,    \* the health check has passed
  committed,  \* state.txt said "committed" at some time
  stuck,      \* a removal of the pointer was refused
  parent,     \* the process the helper waits for
  pc

vars  == <<target, backup, pending, pointer, journal, sound, checked, committed,
           stuck, parent, pc>>
past  == <<sound, checked, committed>>
stage == <<backup, pending, journal>>
mark  == <<pointer, stuck>>

Processes == Users \cup {Helper}
Restoring == {"restore", "remove", "rename", "rsync", "drop"}
Starting  == {"check", "read", "forget"}
Swapping  == {"backup", "pointer", "prepared", "install", "mark", "health",
              "commit", "unpoint", "launch"} \cup Restoring
Ended     == {"quit", "rolled", "stranded", "done", "dead"}
Steps     == {"off", "running", "none", "wait", "clean"} \cup Starting
               \cup Swapping \cup Ended

Init ==
  /\ target = "old" /\ backup = "none"
  /\ pending = FALSE /\ pointer = FALSE
  /\ journal = "none"
  /\ sound \in BOOLEAN
  /\ checked = FALSE /\ committed = FALSE /\ stuck = FALSE
  /\ parent = NoUser
  /\ pc = [p \in Processes |-> IF p = Helper THEN "none" ELSE "off"]

Goto(p, step) == pc' = [pc EXCEPT ![p] = step]

At(step) == pc[Helper] = step

\* No AWJ process looks at the transaction.
Calm == \A u \in Users : pc[u] \in {"off", "running", "clean"}

\* make_stage_directory never hands out the same stage twice.
Unstaged == At("none")

\* stage_and_launch_linux_update; its failures leave the installation alone.
Stage(u) ==
  /\ pc[u] = "running" /\ Unstaged
  /\ pending' = TRUE
  /\ journal' = "staged"
  /\ parent' = u
  /\ Goto(Helper, "wait")
  /\ UNCHANGED <<target, backup, mark, past>>

-----------------------------------------------------------------------------
(* restore_backup, run by the helper and by an AWJ that starts. *)

HasBackup == backup # "none"

CheckBackup(p) ==
  /\ pc[p] = "restore"
  /\ Goto(p, IF HasBackup THEN "remove" ELSE "drop")
  /\ UNCHANGED <<target, stage, mark, past, parent>>

\* fs::remove(target); an error is ignored.
RemoveTarget(p) ==
  /\ pc[p] = "remove"
  /\ target' \in {"none", target}
  /\ Goto(p, "rename")
  /\ UNCHANGED <<stage, mark, past, parent>>

\* Mutant: the failure is ignored and the pointer removed.
IgnoreFailure(p) == "drop"

\* The helper returns; an AWJ that starts carries on with the pointer in place.
RestoreFailed(p) == IF p = Helper THEN "stranded" ELSE "running"

RenameBack(p) ==
  /\ pc[p] = "rename"
  /\ \/ /\ backup # "none"
        /\ target' = backup /\ backup' = "none"
        /\ Goto(p, "rsync")
     \/ /\ Goto(p, RestoreFailed(p))
        /\ UNCHANGED <<target, backup>>
  /\ UNCHANGED <<pending, journal, mark, past, parent>>

\* fsync_directory(install).
SyncRestored(p) ==
  /\ pc[p] = "rsync"
  /\ \E ok \in BOOLEAN : Goto(p, IF ok THEN "drop" ELSE RestoreFailed(p))
  /\ UNCHANGED <<target, stage, mark, past, parent>>

\* fs::remove(pointer), an error ignored.
RemovePointer ==
  \/ pointer' = FALSE /\ UNCHANGED stuck
  \/ stuck' = TRUE /\ UNCHANGED pointer

\* The helper returns; an AWJ that recovered starts the old program (a Launch)
\* and removes the stage.
DropPointer(p) ==
  /\ pc[p] = "drop"
  /\ RemovePointer
  /\ Goto(p, IF p = Helper THEN "rolled" ELSE "clean")
  /\ UNCHANGED <<target, stage, past, parent>>

\* fs::remove_all(stage), in any order, ended by an error or by the last file.
Clean(p) ==
  /\ pc[p] = "clean"
  /\ \/ backup' = "none" /\ UNCHANGED <<pending, journal, pc>>
     \/ pending' = FALSE /\ UNCHANGED <<backup, journal, pc>>
     \/ journal' = "none" /\ UNCHANGED <<backup, pending, pc>>
     \/ Goto(p, IF p = Helper THEN "done" ELSE "off") /\ UNCHANGED stage
  /\ UNCHANGED <<target, mark, past, parent>>

-----------------------------------------------------------------------------
(* run_linux_update_helper. *)

\* wait_for_exit gives up after a minute.
TimesOut == TRUE

\* verify_stage may refuse; otherwise wait for the parent to exit.
WaitForParent ==
  /\ At("wait")
  /\ \/ Goto(Helper, "quit") /\ (TimesOut \/ parent = NoUser)
     \/ Goto(Helper, "backup") /\ parent = NoUser /\ (Overlap \/ Calm)
  /\ UNCHANGED <<target, stage, mark, past, parent>>

MoveAway ==
  /\ At("backup")
  /\ \/ /\ target # "none"
        /\ backup' = target /\ target' = "none"
        /\ Goto(Helper, "pointer")
     \/ Goto(Helper, "restore") /\ UNCHANGED <<target, backup>>
  /\ UNCHANGED <<pending, journal, mark, past, parent>>

\* atomic_write_text: an error is reported before or after the rename.
WritePointer ==
  /\ At("pointer")
  /\ \/ pointer' = TRUE /\ Goto(Helper, "prepared")
     \/ (pointer' = TRUE \/ UNCHANGED pointer) /\ Goto(Helper, "restore")
  /\ UNCHANGED <<target, stage, stuck, past, parent>>

\* Without its directory, removed by a recovering AWJ, state.txt cannot be written.
WriteJournal(text, next, onError) ==
  \/ journal # "none" /\ journal' = text /\ Goto(Helper, next)
  \/ journal' \in {journal, text} /\ (journal = "none" => journal' = "none")
       /\ Goto(Helper, onError)

MarkPrepared ==
  /\ At("prepared")
  /\ WriteJournal("prepared", "install", "restore")
  /\ UNCHANGED <<target, backup, pending, mark, past, parent>>

Install ==
  /\ At("install")
  /\ \/ pending /\ target' = "new" /\ pending' = FALSE /\ Goto(Helper, "mark")
     \/ Goto(Helper, "restore") /\ UNCHANGED <<target, pending>>
  /\ UNCHANGED <<backup, journal, mark, past, parent>>

\* With the fsync_directory that follows.
MarkReplaced ==
  /\ At("mark")
  /\ WriteJournal("files-replaced", "health", "restore")
  /\ UNCHANGED <<target, backup, pending, mark, past, parent>>

\* Mutant: the helper returns without the rollback.
JustReturn == "quit"

OnBadHealth == "restore"

\* run_health_check: the program must start and exit with 0 in time.
HealthCheck ==
  /\ At("health")
  /\ \/ /\ target = "old" \/ (target = "new" /\ sound)
        /\ checked' = TRUE
        /\ Goto(Helper, "commit")
     \/ Goto(Helper, OnBadHealth) /\ UNCHANGED checked
  /\ UNCHANGED <<target, stage, mark, sound, committed, parent>>

\* An error here leaves everything as it is.
Commit ==
  /\ At("commit")
  /\ WriteJournal("committed", "unpoint", "quit")
  /\ committed' = (committed \/ journal' = "committed")
  /\ UNCHANGED <<target, backup, pending, mark, sound, checked, parent>>

Unpoint ==
  /\ At("unpoint")
  /\ RemovePointer
  /\ Goto(Helper, "launch")
  /\ UNCHANGED <<target, stage, past, parent>>

\* launch_studio: the program it starts is a Launch.
LaunchStudio ==
  /\ At("launch")
  /\ Goto(Helper, "clean") \/ Goto(Helper, "quit")
  /\ UNCHANGED <<target, stage, mark, past, parent>>

-----------------------------------------------------------------------------
(* An AWJ process: launch_linux_update_recovery_if_needed, then the window. *)

\* Without Overlap nobody starts AWJ in the seconds in which the helper or
\* another AWJ swaps programs.
Launch(u) ==
  /\ pc[u] = "off"
  /\ target = "old" \/ (target = "new" /\ sound)
  /\ Overlap \/ (pc[Helper] \notin Swapping /\ Calm)
  /\ Goto(u, "check")
  /\ UNCHANGED <<target, stage, mark, past, parent>>

CheckPointer(u) ==
  /\ pc[u] = "check"
  /\ Goto(u, IF pointer THEN "read" ELSE "running")
  /\ UNCHANGED <<target, stage, mark, past, parent>>

\* Mutant: every transaction with a pointer is rolled back.
AnyState == TRUE

Unfinished == journal # "committed"

ReadJournal(u) ==
  /\ pc[u] = "read"
  /\ Goto(u, IF Unfinished THEN "restore" ELSE "forget")
  /\ UNCHANGED <<target, stage, mark, past, parent>>

Forget(u) ==
  /\ pc[u] = "forget"
  /\ RemovePointer
  /\ Goto(u, "running")
  /\ UNCHANGED <<target, stage, past, parent>>

Leave(u) == parent' = IF parent = u THEN NoUser ELSE parent

Quit(u) ==
  /\ pc[u] = "running"
  /\ Goto(u, "off")
  /\ Leave(u)
  /\ UNCHANGED <<target, stage, mark, past>>

Kill(p) ==
  /\ IF p = Helper THEN pc[p] \in {"wait", "clean"} \cup Swapping
                   ELSE pc[p] # "off"
  /\ Goto(p, IF p = Helper THEN "dead" ELSE "off")
  /\ Leave(p)
  /\ UNCHANGED <<target, stage, mark, past>>

Restore(p) ==
  CheckBackup(p) \/ RemoveTarget(p) \/ RenameBack(p) \/ SyncRestored(p) \/ DropPointer(p)

HelperStep ==
  \/ WaitForParent \/ MoveAway \/ WritePointer \/ MarkPrepared \/ Install
  \/ MarkReplaced \/ HealthCheck \/ Commit \/ Unpoint \/ LaunchStudio
  \/ Restore(Helper)

UserStep(u) ==
  \/ Launch(u) \/ Stage(u) \/ CheckPointer(u) \/ ReadJournal(u) \/ Forget(u) \/ Quit(u)
  \/ Restore(u)

Next ==
  \/ HelperStep
  \/ \E u \in Users : UserStep(u)
  \/ \E p \in Processes : Clean(p) \/ Kill(p)

Spec == Init /\ [][Next]_vars /\ WF_vars(HelperStep)

-----------------------------------------------------------------------------
(* Properties. *)

TypeOK ==
  /\ target \in {"old", "new", "none"}
  /\ backup \in {"old", "none"}
  /\ pending \in BOOLEAN
  /\ pointer \in BOOLEAN
  /\ journal \in {"none", "staged", "prepared", "files-replaced", "committed"}
  /\ sound \in BOOLEAN /\ checked \in BOOLEAN /\ committed \in BOOLEAN
  /\ stuck \in BOOLEAN
  /\ parent \in Users \cup {NoUser}
  /\ pc \in [Processes -> Steps]

\* Whatever fails and whoever is killed, a copy of the program is left: in place
\* or as a backup.
SomeProgramLeft == ~stuck => target # "none" \/ backup # "none"

\* A new program that was never checked is only left in place together with the
\* pointer, so that the next start rolls it back.
UncheckedIsPointed ==
  ~stuck /\ pc[Helper] \in Ended /\ target = "new" /\ ~checked => pointer

\* At every moment an interrupted update can be recovered: a copy of the program
\* is left, and one that was never checked is pointed at for the next start.
UpdateRecoverable == SomeProgramLeft /\ UncheckedIsPointed

\* When the helper ends by itself, and its rollback worked, the program in place is
\* the old one or has passed its check.
EndsRunnable ==
  [][~stuck' /\ pc[Helper] # pc'[Helper] /\ pc'[Helper] \in {"quit", "rolled", "done"}
       => target' = "old" \/ (target' = "new" /\ checked')]_vars

\* A committed update is never rolled back by a later start of the program.
CommittedStays ==
  [][committed /\ target = "new" /\ ~stuck => target' = "new"]_vars

\* The helper ends whatever its parent does.
HelperEnds == At("wait") ~> pc[Helper] \in Ended \cup {"clean"}

\* The helper ends, and by itself only with a program that runs.
EndsWell == HelperEnds /\ EndsRunnable

\* An interrupted or failed update leaves a program that can be started.
\* It does not hold after a power loss: the entry may be on disk before its bytes.
StillStartable ==
  pc[Helper] \in Ended /\ Calm => target = "old" \/ (target = "new" /\ sound)
=============================================================================

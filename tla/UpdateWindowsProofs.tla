------------------------- MODULE UpdateWindowsProofs -------------------------
(* Proofs about UpdateWindows for any number of AWJ processes, when nobody starts
   AWJ while another process swaps files (~Overlap). *)
EXTENDS UpdateWindows, TLAPS

Early   == {"none", "wait", "saveExe", "saveCom"}
Tidying == {"cleanExe", "cleanCom", "cleanState"}
Open    == {"open", "rwait"} \cup Restoring

Exe(version) == installed["exe"] = version
Com(version) == installed["com"] = version

(* Who may be where: one AWJ at a time looks at the transaction, none while a
   helper swaps files, and a recovery only runs when the first helper is through. *)
Apart ==
  /\ pc[Helper] \in {"none", "wait"} \cup Tidying \cup Swapping \cup Ended
  /\ pc[Recovery] \in {"idle", "clean"} \cup Open
  /\ \A u \in Users : pc[u] \in {"off", "running", "leaving"} \cup Starting
  /\ \A u, v \in Users : pc[u] \in Starting /\ pc[v] \in Starting => u = v
  /\ pc[Helper] \in Swapping \cup {"none", "wait"} => pc[Recovery] = "idle"
  /\ pc[Helper] \in Swapping \/ pc[Recovery] \in Open =>
       \A u \in Users : pc[u] \notin Starting
  /\ pc[Helper] \in {"none", "wait"} =>
       \A u \in Users : pc[u] \in {"off", "running", "check"}
  /\ pc[Helper] \in Early => Exe("old") /\ Com("old") /\ ~pointer /\ ~committed
                               /\ journal # "committed"

(* What the files say, as long as no removal of the pointer was refused. *)
Files ==
  /\ pointer => backup["exe"] = "old" /\ backup["com"] = "old"
  /\ ~pointer /\ ~committed => Exe("old") /\ Com("old")
  /\ committed => checked /\ Exe("new") /\ Com("new")
  /\ committed /\ pointer => journal = "committed"
  /\ journal = "committed" => committed

Phase ==
  /\ pc[Helper] \in {"saveCom", "pointer"} => backup["exe"] = "old"
  /\ pc[Helper] = "pointer" => backup["com"] = "old" /\ ~pointer
  /\ pc[Helper] \in Swapping \ ({"unpoint"} \cup Restoring) => ~committed
  /\ pc[Helper] \in Swapping \ {"saveExe", "saveCom", "pointer"} => pointer
  /\ pc[Helper] \in {"pointer", "prepared", "placeExe"} => Exe("old") /\ Com("old")
  /\ pc[Helper] \in {"noteExe", "placeCom"} => Exe("new") /\ Com("old")
  /\ pc[Helper] \in {"noteCom", "start", "observe", "commit", "unpoint"} =>
       Exe("new") /\ Com("new")
  /\ pc[Helper] \in {"commit", "unpoint"} => checked
  /\ pc[Helper] \in Tidying => committed /\ ~pointer
  /\ pc[Recovery] \in Open => pointer
  /\ \A p \in {Helper, Recovery} :
       /\ pc[p] \in Open => ~committed
       /\ pc[p] \in {"undoCom", "drop"} => Exe("old")
       /\ pc[p] = "drop" => Com("old")
  /\ pc[Recovery] = "clean" => ~pointer
  /\ \A u \in Users :
       /\ pc[u] \in Starting \ {"check"} => pointer
       /\ pc[u] \in {"lookup", "spawn"} => ~committed
       /\ pc[u] = "forget" => committed

IInv == TypeOK /\ Apart /\ (~stuck => Files /\ Phase)

(* The flags; the provers want Boolean assignments on their own. *)
Flags ==
  /\ pending \in BOOLEAN /\ pointer \in BOOLEAN /\ stuck \in BOOLEAN
  /\ sound \in BOOLEAN /\ checked \in BOOLEAN /\ committed \in BOOLEAN
  /\ probe \in BOOLEAN

LEMMA FlagSteps ==
  ASSUME Flags
  PROVE  /\ \A u \in Users : Stage(u) \/ Forget(u) => Flags'
         /\ \A p \in Processes : DropPointer(p) => Flags'
         /\ WritePointer => Flags'
         /\ StartProbe => Flags'
         /\ ProbeExits => Flags'
         /\ Observe => Flags'
         /\ Commit => Flags'
         /\ Unpoint => Flags'
         /\ CleanRecovered => Flags'
<1> USE DEF Flags, stage, mark, past
<1>1. ASSUME NEW u \in Users, Stage(u) \/ Forget(u) PROVE Flags'
  <2>1. CASE Stage(u)
    BY <2>1, Zenon DEF Stage
  <2>2. CASE Forget(u)
    BY <2>2, Zenon DEF Forget, RemovePointer
  <2> QED
    BY <1>1, <2>1, <2>2
<1>2. ASSUME NEW p \in Processes, DropPointer(p) PROVE Flags'
  BY <1>2, Zenon DEF DropPointer, RemovePointer
<1>3. WritePointer => Flags'
  BY Zenon DEF WritePointer
<1>4. StartProbe => Flags'
  BY Zenon DEF StartProbe
<1>5. ProbeExits => Flags'
  BY Zenon DEF ProbeExits
<1>6. Observe => Flags'
  BY Zenon DEF Observe
<1>7. Commit => Flags'
  BY Zenon DEF Commit
<1>8. Unpoint => Flags'
  BY Zenon DEF Unpoint, RemovePointer
<1>9. CleanRecovered => Flags'
  BY Zenon DEF CleanRecovered
<1> QED
  BY <1>1, <1>2, <1>3, <1>4, <1>5, <1>6, <1>7, <1>8, <1>9

LEMMA InitIInv == Init => IInv
<1> SUFFICES ASSUME Init PROVE IInv
  OBVIOUS
<1> USE WindowsAssumption DEF Init, Parts, Processes, Starting, Restoring, Swapping,
        Ended
<1>0. Flags
  BY Zenon DEF Flags
<1>1. TypeOK
  BY <1>0 DEF Flags, TypeOK
<1>2. Apart
  BY DEF Apart, Early, Tidying, Open, Exe, Com
<1>3. Files
  BY DEF Files, Exe, Com
<1>4. Phase
  BY DEF Phase, Tidying, Open, Exe, Com
<1> QED
  BY <1>1, <1>2, <1>3, <1>4 DEF IInv

\* Copying the backups back, by either helper.
LEMMA RestoreKeeps ==
  ASSUME ~Overlap, IInv, NEW p \in {Helper, Recovery}, Restore(p)
  PROVE  IInv'
<1> USE WindowsAssumption DEF IInv, TypeOK, Apart, Files, Phase, Early, Tidying, Open,
        Exe, Com, Parts, Starting, Restoring, Swapping, Ended, Processes, Goto, stage,
        mark, past, waits
<1>1. CASE Undo(p, "exe")
  BY <1>1 DEF Undo, Undoing, AfterUndo, RestoreFailed, Fail
<1>2. CASE Undo(p, "com")
  <2>1. TypeOK'
    BY <1>2 DEF Undo, Undoing, AfterUndo, RestoreFailed, Fail
  <2>2. Apart'
    BY <1>2 DEF Undo, Undoing, AfterUndo, RestoreFailed, Fail
  <2>3. ~stuck' => Files'
    BY <1>2 DEF Undo, Undoing, AfterUndo, RestoreFailed, Fail
  <2>4. ~stuck' => Phase'
    BY <1>2 DEF Undo, Undoing, AfterUndo, RestoreFailed, Fail
  <2> QED
    BY <2>1, <2>2, <2>3, <2>4
<1>3. CASE DropPointer(p)
  <2>0. Flags'
    BY <1>3, FlagSteps DEF Flags
  <2>1. TypeOK'
    BY <1>3, <2>0 DEF Flags, DropPointer
  <2>2. Apart'
    BY <1>3 DEF DropPointer, RemovePointer
  <2>3. ~stuck' => Files'
    BY <1>3, <2>0 DEF Flags, DropPointer, RemovePointer
  <2>4. ~stuck' => Phase'
    BY <1>3, <2>0 DEF Flags, DropPointer, RemovePointer
  <2> QED
    BY <2>1, <2>2, <2>3, <2>4
<1> QED
  BY <1>1, <1>2, <1>3 DEF Restore

\* The other steps of the helper.
LEMMA HelperKeeps ==
  ASSUME ~Overlap, IInv, HelperStep
  PROVE  IInv'
<1> USE WindowsAssumption DEF IInv, TypeOK, Apart, Files, Phase, Early, Tidying, Open,
        Exe, Com, Parts, Starting, Restoring, Swapping, Ended, Processes, Goto, At, stage,
        mark, past, waits
<1>1. CASE WaitForParent
  BY <1>1 DEF WaitForParent, Calm, TimesOut
<1>2. CASE Save("exe") \/ Save("com")
  BY <1>2 DEF Save, Saving, AfterSave, OnSaveError, Fail
<1>3. CASE WritePointer
  <2>0. Flags'
    BY <1>3, FlagSteps DEF Flags
  <2>1. TypeOK'
    BY <1>3, <2>0 DEF Flags, WritePointer, Fail
  <2>2. Apart'
    BY <1>3 DEF WritePointer, Fail
  <2>3. ~stuck' => Files'
    BY <1>3, <2>0 DEF Flags, WritePointer, Fail
  <2>4. ~stuck' => Phase'
    BY <1>3, <2>0 DEF Flags, WritePointer, Fail
  <2> QED
    BY <2>1, <2>2, <2>3, <2>4
<1>4. CASE MarkPrepared
  BY <1>4 DEF MarkPrepared, Fail
<1>5. CASE Place("exe") \/ Place("com")
  <2>1. TypeOK'
    BY <1>5 DEF Place, Placing, Noting
  <2>2. Apart'
    BY <1>5 DEF Place, Placing, Noting
  <2>3. ~stuck' => Files'
    BY <1>5 DEF Place, Placing, Noting
  <2>4. ~stuck' => Phase'
    BY <1>5 DEF Place, Placing, Noting
  <2> QED
    BY <2>1, <2>2, <2>3, <2>4
<1>6. CASE NotePlaced("exe") \/ NotePlaced("com")
  BY <1>6 DEF NotePlaced, Noting, NoteIn
<1>7. CASE StartProbe
  <2>0. Flags'
    BY <1>7, FlagSteps DEF Flags
  <2>1. TypeOK'
    BY <1>7, <2>0 DEF Flags, StartProbe
  <2>2. Apart'
    BY <1>7 DEF StartProbe
  <2>3. ~stuck' => Files'
    BY <1>7 DEF StartProbe
  <2>4. ~stuck' => Phase'
    BY <1>7 DEF StartProbe
  <2> QED
    BY <2>1, <2>2, <2>3, <2>4
<1>8. CASE Observe
  <2>0. Flags'
    BY <1>8, FlagSteps DEF Flags
  <2>1. TypeOK'
    BY <1>8, <2>0 DEF Flags, Observe
  <2>2. Apart'
    BY <1>8 DEF Observe
  <2>3. ~stuck' => Files'
    BY <1>8 DEF Observe
  <2>4. ~stuck' => Phase'
    BY <1>8 DEF Observe
  <2> QED
    BY <2>1, <2>2, <2>3, <2>4
<1>9. CASE Commit
  <2>0. Flags'
    BY <1>9, FlagSteps DEF Flags
  <2>1. TypeOK'
    BY <1>9, <2>0 DEF Flags, Commit, NoteIn
  <2>2. Apart'
    BY <1>9 DEF Commit, NoteIn
  <2>3. ~stuck' => Files'
    BY <1>9 DEF Commit, NoteIn
  <2>4. ~stuck' => Phase'
    BY <1>9 DEF Commit, NoteIn
  <2> QED
    BY <2>1, <2>2, <2>3, <2>4
<1>10. CASE Unpoint
  <2>0. Flags'
    BY <1>10, FlagSteps DEF Flags
  <2>1. TypeOK'
    BY <1>10, <2>0 DEF Flags, Unpoint
  <2>2. Apart'
    BY <1>10 DEF Unpoint, RemovePointer
  <2>3. ~stuck' => Files'
    BY <1>10, <2>0 DEF Flags, Unpoint, RemovePointer
  <2>4. ~stuck' => Phase'
    BY <1>10, <2>0 DEF Flags, Unpoint, RemovePointer
  <2> QED
    BY <2>1, <2>2, <2>3, <2>4
<1>11. CASE CleanBackup("exe") \/ CleanBackup("com")
  BY <1>11 DEF CleanBackup
<1>12. CASE CleanState
  BY <1>12 DEF CleanState, NoteIn
<1>13. CASE Restore(Helper)
  BY <1>13, RestoreKeeps
<1> QED
  BY <1>1, <1>2, <1>3, <1>4, <1>5, <1>6, <1>7, <1>8, <1>9, <1>10, <1>11, <1>12, <1>13
     DEF HelperStep

\* The steps of an AWJ process.
LEMMA UserKeeps ==
  ASSUME ~Overlap, IInv, NEW u \in Users,
         Launch(u) \/ Stage(u) \/ StartStep(u) \/ Quit(u)
  PROVE  IInv'
<1> USE WindowsAssumption DEF IInv, TypeOK, Apart, Files, Phase, Early, Tidying, Open,
        Exe, Com, Parts, Starting, Restoring, Swapping, Ended, Processes, Goto, At, stage,
        mark, past, waits
<1>1. CASE Launch(u)
  BY <1>1 DEF Launch, Calm
<1>2. CASE Stage(u)
  <2>0. Flags'
    BY <1>2, FlagSteps DEF Flags
  <2>1. TypeOK'
    BY <1>2, <2>0 DEF Flags, Stage, Unstaged
  <2>2. Apart'
    BY <1>2 DEF Stage, Unstaged
  <2>3. ~stuck' => Files' /\ Phase'
    BY <1>2 DEF Stage, Unstaged
  <2> QED
    BY <2>1, <2>2, <2>3
<1>3. CASE CheckPointer(u)
  BY <1>3 DEF CheckPointer
<1>4. CASE ReadJournal(u)
  BY <1>4 DEF ReadJournal, Unfinished
<1>5. CASE LookUpBackup(u)
  BY <1>5 DEF LookUpBackup
<1>6. CASE Forget(u)
  <2>0. Flags'
    BY <1>6, FlagSteps DEF Flags
  <2>1. TypeOK'
    BY <1>6, <2>0 DEF Flags, Forget
  <2>2. Apart'
    BY <1>6 DEF Forget, RemovePointer
  <2>3. ~stuck' => Files'
    BY <1>6, <2>0 DEF Flags, Forget, RemovePointer
  <2>4. ~stuck' => Phase'
    BY <1>6, <2>0 DEF Flags, Forget, RemovePointer
  <2> QED
    BY <2>1, <2>2, <2>3, <2>4
<1>7. CASE SpawnRecovery(u)
  BY <1>7 DEF SpawnRecovery
<1>8. CASE Quit(u) \/ Exit(u)
  BY <1>8 DEF Quit, Exit, Leave
<1> QED
  BY <1>1, <1>2, <1>3, <1>4, <1>5, <1>6, <1>7, <1>8 DEF StartStep

\* The recovery helper, the end of the checked program, and kills.
LEMMA OthersKeep ==
  ASSUME ~Overlap, IInv, RecoveryStep \/ ProbeExits \/ \E p \in Processes : Kill(p)
  PROVE  IInv'
<1> USE WindowsAssumption DEF IInv, TypeOK, Apart, Files, Phase, Early, Tidying, Open,
        Exe, Com, Parts, Starting, Restoring, Swapping, Ended, Processes, Goto, stage,
        mark, past, waits
<1>1. CASE OpenCaller \/ WaitForCaller
  BY <1>1 DEF OpenCaller, WaitForCaller, Fail
<1>2. CASE CleanRecovered
  <2>0. Flags'
    BY <1>2, FlagSteps DEF Flags
  <2>1. TypeOK'
    BY <1>2, <2>0 DEF Flags, CleanRecovered, NoteIn
  <2>2. Apart'
    BY <1>2 DEF CleanRecovered, NoteIn
  <2>3. ~stuck' => Files' /\ Phase'
    BY <1>2 DEF CleanRecovered, NoteIn
  <2> QED
    BY <2>1, <2>2, <2>3
<1>3. CASE ProbeExits
  <2>0. Flags'
    BY <1>3, FlagSteps DEF Flags
  <2> QED
    BY <1>3, <2>0 DEF Flags, ProbeExits
<1>4. CASE Restore(Recovery)
  BY <1>4, RestoreKeeps
<1>5. ASSUME NEW p \in Processes, Kill(p) PROVE IInv'
  <2> USE <1>5 DEF Kill, Leave, Undoing, Saving
  <2>1. TypeOK'
    OBVIOUS
  <2>2. Apart'
    OBVIOUS
  <2>3. ~stuck' => Files'
    OBVIOUS
  <2>4. ~stuck' => Phase'
    OBVIOUS
  <2> QED
    BY <2>1, <2>2, <2>3, <2>4
<1> QED
  BY <1>1, <1>2, <1>3, <1>4, <1>5 DEF RecoveryStep

LEMMA StepKeeps == ASSUME ~Overlap PROVE IInv /\ [Next]_vars => IInv'
<1> SUFFICES ASSUME IInv, [Next]_vars PROVE IInv'
  OBVIOUS
<1>1. CASE HelperStep
  BY <1>1, HelperKeeps
<1>2. CASE \E u \in Users : Launch(u) \/ Stage(u) \/ StartStep(u) \/ Quit(u)
  BY <1>2, UserKeeps
<1>3. CASE RecoveryStep \/ ProbeExits \/ \E p \in Processes : Kill(p)
  BY <1>3, OthersKeep
<1>4. CASE UNCHANGED vars
  BY <1>4 DEF vars, IInv, TypeOK, Apart, Files, Phase, Exe, Com
<1> QED
  BY <1>1, <1>2, <1>3, <1>4 DEF Next

THEOREM InvHolds == ASSUME ~Overlap PROVE Spec => []IInv
  BY InitIInv, StepKeeps, PTL DEF Spec

LEMMA Pairs ==
  ASSUME TypeOK, NEW version
  PROVE  Pair(version) <=> Exe(version) /\ Com(version)
  BY DEF TypeOK, Pair, Exe, Com, Parts

\* Every reachable state is well typed; no backup is ever of the new program.
THEOREM TypeCorrect == ASSUME ~Overlap PROVE Spec => []TypeOK
<1>1. IInv => TypeOK
  BY DEF IInv
<1> QED
  BY <1>1, InvHolds, PTL

\* Whatever fails or is killed, the pair is whole or the pointer leads to both backups.
THEOREM Recoverable == ASSUME ~Overlap PROVE Spec => []PairRecoverable
<1>1. ASSUME IInv PROVE PairRecoverable
  <2> SUFFICES ASSUME ~stuck, ~(Pair("old") \/ (Pair("new") /\ checked))
               PROVE  pointer /\ backup = [x \in Parts |-> "old"]
    BY DEF PairRecoverable
  <2>1. pointer
    BY <1>1, Pairs DEF IInv, Files
  <2> QED
    BY <1>1, <2>1 DEF IInv, TypeOK, Files, Parts
<1> QED
  BY <1>1, InvHolds, PTL

\* Only a pair that needs no recovery loses its pointer.
THEOREM PointerLast == ASSUME ~Overlap PROVE Spec => PointerDroppedLast
<1>1. ASSUME IInv, [Next]_vars
      PROVE  [pointer /\ ~pointer' /\ ~stuck => Pair("old") \/ (Pair("new") /\ checked)]_vars
  <2> SUFFICES ASSUME pointer, ~pointer', ~stuck, Next
               PROVE  (Exe("old") /\ Com("old")) \/ (Exe("new") /\ Com("new") /\ checked)
    BY <1>1, Pairs DEF IInv
  <2>1. pointer' # pointer
    OBVIOUS
  <2>2. CASE HelperStep
    <3>1. Unpoint \/ DropPointer(Helper)
      BY <2>1, <2>2 DEF HelperStep, WaitForParent, WritePointer, MarkPrepared, StartProbe,
         Observe, Commit, CleanState, Restore, Undo, Save, Place, NotePlaced, CleanBackup,
         mark
    <3> QED
      BY <1>1, <3>1 DEF IInv, Phase, Unpoint, DropPointer, At
  <2>3. CASE RecoveryStep
    <3>1. DropPointer(Recovery)
      BY <2>1, <2>3 DEF RecoveryStep, OpenCaller, WaitForCaller, CleanRecovered, Restore,
         Undo, mark
    <3> QED
      BY <1>1, <3>1 DEF IInv, Phase, DropPointer
  <2>4. CASE ProbeExits \/ \E p \in Processes : Kill(p)
    BY <2>1, <2>4 DEF ProbeExits, Kill, mark
  <2>5. ASSUME NEW u \in Users, Launch(u) \/ Stage(u) \/ StartStep(u) \/ Quit(u)
        PROVE  Exe("new") /\ Com("new") /\ checked
    <3>1. Forget(u)
      BY <2>1, <2>5 DEF Launch, Stage, StartStep, CheckPointer, ReadJournal, LookUpBackup,
         SpawnRecovery, Exit, Quit, mark
    <3> QED
      BY <1>1, <3>1 DEF IInv, Files, Phase, Forget
  <2> QED
    BY <2>2, <2>3, <2>4, <2>5 DEF Next
<1> QED
  BY <1>1, InvHolds, PTL DEF Spec, PointerDroppedLast

\* Nothing replaces a committed pair.
THEOREM CommitIsFinal == ASSUME ~Overlap PROVE Spec => CommittedStays
<1>1. ASSUME IInv, [Next]_vars
      PROVE  [committed /\ Pair("new") /\ ~stuck => Pair("new")']_vars
  <2> SUFFICES ASSUME committed, ~stuck, Next
               PROVE  installed' = installed
    BY <1>1 DEF Pair
  <2>1. ASSUME NEW p \in {Helper, Recovery}, Restore(p) PROVE installed' = installed
    <3>1. pc[p] \notin Restoring
      BY <1>1 DEF IInv, Phase, Open
    <3> QED
      BY <2>1, <3>1 DEF Restore, Undo, Undoing, Restoring, DropPointer, Parts
  <2>2. CASE HelperStep
    <3>1. ~Place("exe") /\ ~Place("com")
      BY <1>1 DEF IInv, Phase, Place, Placing, Swapping, Restoring, At
    <3> QED
      BY <2>1, <2>2, <3>1 DEF HelperStep, WaitForParent, WritePointer, MarkPrepared,
         StartProbe, Observe, Commit, Unpoint, CleanState, Save, NotePlaced, CleanBackup,
         Parts
  <2>3. CASE RecoveryStep
    BY <2>1, <2>3 DEF RecoveryStep, OpenCaller, WaitForCaller, CleanRecovered
  <2>4. ASSUME NEW p \in Processes, Kill(p) PROVE installed' = installed
    <3>1. pc[p] \notin {"undoExe", "undoCom"}
      BY <1>1 DEF IInv, Apart, Phase, Open, Restoring, Starting, Processes
    <3> QED
      BY <2>4, <3>1 DEF Kill, Undoing, Parts
  <2>5. CASE ProbeExits
    BY <2>5 DEF ProbeExits
  <2>6. ASSUME NEW u \in Users, Launch(u) \/ Stage(u) \/ StartStep(u) \/ Quit(u)
        PROVE  installed' = installed
    BY <2>6 DEF Launch, Stage, StartStep, CheckPointer, ReadJournal, LookUpBackup, Forget,
       SpawnRecovery, Exit, Quit
  <2> QED
    BY <2>2, <2>3, <2>4, <2>5, <2>6 DEF Next
<1> QED
  BY <1>1, InvHolds, PTL DEF Spec, CommittedStays
=============================================================================

-------------------------- MODULE UpdateLinuxProofs --------------------------
(* Proofs about UpdateLinux for any number of AWJ processes, when nobody starts
   AWJ while another process swaps programs (~Overlap). *)
EXTENDS UpdateLinux, TLAPS

Early == {"none", "wait", "backup"}

(* Who may be where: one AWJ at a time looks at the transaction, and none while
   the helper swaps programs. *)
Apart ==
  /\ pc[Helper] \in {"none", "wait", "clean"} \cup Swapping \cup Ended
  /\ \A u \in Users : pc[u] \in {"off", "running", "clean"} \cup Starting \cup Restoring
  /\ \A u, v \in Users :
       pc[u] \in Starting \cup Restoring /\ pc[v] \in Starting \cup Restoring => u = v
  /\ pc[Helper] \in Swapping => \A u \in Users : pc[u] \in {"off", "running"}
  /\ pc[Helper] \in {"none", "wait"} =>
       \A u \in Users : pc[u] \in {"off", "running", "check"}
  /\ pc[Helper] \in Early =>
       target = "old" /\ backup = "none" /\ ~pointer /\ ~committed

(* What the files say, as long as no removal of the pointer was refused. *)
Files ==
  /\ target = "none" => backup = "old"
  /\ target = "new" /\ ~committed => backup = "old" /\ pointer
  /\ committed => checked /\ target = "new"
  /\ committed /\ pointer => journal = "committed"
  /\ journal = "committed" => committed

Phase ==
  /\ pc[Helper] \in {"pointer", "prepared", "install"} =>
       target = "none" /\ ~committed
  /\ pc[Helper] \in {"prepared", "install"} => pointer
  /\ pc[Helper] \in {"mark", "health", "commit"} => target = "new" /\ ~committed
  /\ pc[Helper] = "commit" => checked
  /\ pc[Helper] \in {"unpoint", "launch"} => committed
  /\ pc[Helper] = "launch" => ~pointer
  /\ \A p \in Processes :
       /\ pc[p] \in Restoring => ~committed
       /\ pc[p] \in {"remove", "rename"} => backup = "old"
       /\ pc[p] \in {"rsync", "drop"} => target = "old"
       /\ pc[p] = "clean" => ~pointer /\ (target = "old" \/ committed)
  /\ \A u \in Users :
       /\ pc[u] \in {"read", "forget"} \cup Restoring => pointer
       /\ pc[u] = "forget" => committed

IInv == TypeOK /\ Apart /\ (~stuck => Files /\ Phase)

(* The flags of the files; the provers want Boolean assignments on their own. *)
Flags ==
  /\ pending \in BOOLEAN /\ pointer \in BOOLEAN /\ stuck \in BOOLEAN
  /\ sound \in BOOLEAN /\ checked \in BOOLEAN /\ committed \in BOOLEAN

LEMMA FlagSteps ==
  ASSUME Flags
  PROVE  /\ Install => Flags'
         /\ WritePointer => Flags'
         /\ HealthCheck => Flags'
         /\ Unpoint => Flags'
         /\ Commit => Flags'
         /\ \A p \in Processes : Clean(p) => Flags'
         /\ \A p \in Processes : DropPointer(p) => Flags'
         /\ \A u \in Users : Forget(u) => Flags'
<1> USE DEF Flags, stage, mark, past
<1>1. Install => Flags'
  BY Zenon DEF Install
<1>2. WritePointer => Flags'
  BY Zenon DEF WritePointer
<1>3. HealthCheck => Flags'
  BY Zenon DEF HealthCheck
<1>4. Unpoint => Flags'
  BY Zenon DEF Unpoint, RemovePointer
<1>5. Commit => Flags'
  BY Zenon DEF Commit
<1>6. ASSUME NEW p \in Processes, Clean(p) PROVE Flags'
  BY <1>6, Zenon DEF Clean
<1>7. ASSUME NEW p \in Processes, DropPointer(p) PROVE Flags'
  BY <1>7, Zenon DEF DropPointer, RemovePointer
<1>8. ASSUME NEW u \in Users, Forget(u) PROVE Flags'
  BY <1>8, Zenon DEF Forget, RemovePointer
<1> QED
  BY <1>1, <1>2, <1>3, <1>4, <1>5, <1>6, <1>7, <1>8

LEMMA InitIInv == Init => IInv
  BY LinuxAssumption DEF Init, IInv, TypeOK, Apart, Files, Phase, Early, Starting,
     Restoring, Swapping, Ended, Steps, Processes

\* The helper's own steps.
LEMMA HelperKeeps ==
  ASSUME ~Overlap, IInv, HelperStep
  PROVE  IInv'
<1> USE LinuxAssumption DEF IInv, TypeOK, Apart, Files, Phase, Early, Starting,
        Restoring, Swapping, Ended, Steps, Processes, Goto, At, stage, mark, past
<1>1. CASE WaitForParent
  BY <1>1 DEF WaitForParent, Calm
<1>2. CASE MoveAway
  BY <1>2 DEF MoveAway
<1>3. CASE WritePointer
  <2>0. Flags'
    BY <1>3, FlagSteps DEF Flags
  <2>1. TypeOK'
    BY <1>3, <2>0 DEF Flags, WritePointer
  <2>2. Apart'
    BY <1>3 DEF WritePointer
  <2>3. ~stuck' => Files'
    BY <1>3 DEF WritePointer
  <2>4. ~stuck' => Phase'
    BY <1>3 DEF WritePointer
  <2> QED
    BY <2>1, <2>2, <2>3, <2>4
<1>4. CASE MarkPrepared
  BY <1>4 DEF MarkPrepared, WriteJournal
<1>5. CASE Install
  <2>0. Flags'
    BY <1>5, FlagSteps DEF Flags
  <2>1. TypeOK'
    BY <1>5, <2>0 DEF Flags, Install
  <2>2. Apart'
    BY <1>5 DEF Install
  <2>3. ~stuck' => Files'
    BY <1>5 DEF Install
  <2>4. ~stuck' => Phase'
    BY <1>5 DEF Install
  <2> QED
    BY <2>1, <2>2, <2>3, <2>4
<1>6. CASE MarkReplaced
  BY <1>6 DEF MarkReplaced, WriteJournal
<1>7. CASE HealthCheck
  <2>0. Flags'
    BY <1>7, FlagSteps DEF Flags
  <2>1. TypeOK'
    BY <1>7, <2>0 DEF Flags, HealthCheck, OnBadHealth
  <2>2. Apart'
    BY <1>7 DEF HealthCheck, OnBadHealth
  <2>3. ~stuck' => Files'
    BY <1>7 DEF HealthCheck, OnBadHealth
  <2>4. ~stuck' => Phase'
    BY <1>7 DEF HealthCheck, OnBadHealth
  <2> QED
    BY <2>1, <2>2, <2>3, <2>4
<1>8. CASE Commit
  BY <1>8 DEF Commit, WriteJournal
<1>9. CASE Unpoint
  <2>0. Flags'
    BY <1>9, FlagSteps DEF Flags
  <2>1. TypeOK'
    BY <1>9, <2>0 DEF Flags, Unpoint, RemovePointer
  <2>2. Apart'
    BY <1>9 DEF Unpoint, RemovePointer
  <2>3. ~stuck' => Files'
    BY <1>9 DEF Unpoint, RemovePointer
  <2>4. ~stuck' => Phase'
    BY <1>9 DEF Unpoint, RemovePointer
  <2> QED
    BY <2>1, <2>2, <2>3, <2>4
<1>10. CASE LaunchStudio
  BY <1>10 DEF LaunchStudio
<1>11. CASE Restore(Helper)
  <2>1. CASE CheckBackup(Helper)
    BY <2>1 DEF CheckBackup, HasBackup
  <2>2. CASE RemoveTarget(Helper)
    BY <2>2 DEF RemoveTarget
  <2>3. CASE RenameBack(Helper)
    BY <2>3 DEF RenameBack, RestoreFailed
  <2>4. CASE SyncRestored(Helper)
    BY <2>4 DEF SyncRestored, RestoreFailed
  <2>5. CASE DropPointer(Helper)
    <3>0. Flags'
      BY <2>5, FlagSteps DEF Flags
    <3>1. TypeOK'
      BY <2>5, <3>0 DEF Flags, DropPointer, RemovePointer
    <3>2. Apart'
      BY <2>5 DEF DropPointer, RemovePointer
    <3>3. ~stuck' => Files' /\ Phase'
      BY <2>5, <3>0 DEF Flags, DropPointer, RemovePointer
    <3> QED
      BY <3>1, <3>2, <3>3
  <2> QED
    BY <1>11, <2>1, <2>2, <2>3, <2>4, <2>5 DEF Restore
<1> QED
  BY <1>1, <1>2, <1>3, <1>4, <1>5, <1>6, <1>7, <1>8, <1>9, <1>10, <1>11 DEF HelperStep

\* The steps of an AWJ process.
LEMMA UserKeeps ==
  ASSUME ~Overlap, IInv, NEW u \in Users, UserStep(u)
  PROVE  IInv'
<1> USE LinuxAssumption DEF IInv, TypeOK, Apart, Files, Phase, Early, Starting,
        Restoring, Swapping, Ended, Steps, Processes, Goto, At, stage, mark, past
<1>1. CASE Launch(u)
  BY <1>1 DEF Launch, Calm
<1>2. CASE Stage(u)
  BY <1>2 DEF Stage, Unstaged
<1>3. CASE CheckPointer(u)
  BY <1>3 DEF CheckPointer
<1>4. CASE ReadJournal(u)
  BY <1>4 DEF ReadJournal, Unfinished
<1>5. CASE Forget(u)
  <2>0. Flags'
    BY <1>5, FlagSteps DEF Flags
  <2>1. TypeOK'
    BY <1>5, <2>0 DEF Flags, Forget, RemovePointer
  <2>2. Apart'
    BY <1>5 DEF Forget, RemovePointer
  <2>3. ~stuck' => Files'
    BY <1>5, <2>0 DEF Flags, Forget, RemovePointer
  <2>4. ~stuck' => Phase'
    BY <1>5 DEF Forget, RemovePointer
  <2> QED
    BY <2>1, <2>2, <2>3, <2>4
<1>6. CASE Quit(u)
  BY <1>6 DEF Quit, Leave
<1>7. CASE Restore(u)
  <2>1. CASE CheckBackup(u)
    BY <2>1 DEF CheckBackup, HasBackup
  <2>2. CASE RemoveTarget(u)
    BY <2>2 DEF RemoveTarget
  <2>3. CASE RenameBack(u)
    BY <2>3 DEF RenameBack, RestoreFailed
  <2>4. CASE SyncRestored(u)
    BY <2>4 DEF SyncRestored, RestoreFailed
  <2>5. CASE DropPointer(u)
    <3>0. Flags'
      BY <2>5, FlagSteps DEF Flags
    <3>1. TypeOK'
      BY <2>5, <3>0 DEF Flags, DropPointer, RemovePointer
    <3>2. Apart'
      BY <2>5 DEF DropPointer, RemovePointer
    <3>3. ~stuck' => Files'
      BY <2>5 DEF DropPointer, RemovePointer
    <3>4. ~stuck' => Phase'
      BY <2>5 DEF DropPointer, RemovePointer
    <3> QED
      BY <3>1, <3>2, <3>3, <3>4
  <2> QED
    BY <1>7, <2>1, <2>2, <2>3, <2>4, <2>5 DEF Restore
<1> QED
  BY <1>1, <1>2, <1>3, <1>4, <1>5, <1>6, <1>7 DEF UserStep

\* Removing the stage and being killed.
LEMMA OthersKeep ==
  ASSUME ~Overlap, IInv, NEW p \in Processes, Clean(p) \/ Kill(p)
  PROVE  IInv'
<1> USE LinuxAssumption DEF IInv, TypeOK, Apart, Files, Phase, Early, Starting,
        Restoring, Swapping, Ended, Steps, Processes, Goto, stage, mark, past
<1>1. CASE Clean(p)
  <2>0. Flags'
    BY <1>1, FlagSteps DEF Flags
  <2>1. TypeOK'
    BY <1>1, <2>0 DEF Flags, Clean
  <2>2. Apart'
    BY <1>1 DEF Clean
  <2>3. ~stuck' => Files'
    BY <1>1 DEF Clean
  <2>4. ~stuck' => Phase'
    BY <1>1 DEF Clean
  <2> QED
    BY <2>1, <2>2, <2>3, <2>4
<1>2. CASE Kill(p)
  BY <1>2 DEF Kill, Leave
<1> QED
  BY <1>1, <1>2

LEMMA StepKeeps == ASSUME ~Overlap PROVE IInv /\ [Next]_vars => IInv'
<1> SUFFICES ASSUME IInv, [Next]_vars PROVE IInv'
  OBVIOUS
<1>1. CASE HelperStep
  BY <1>1, HelperKeeps
<1>2. CASE \E u \in Users : UserStep(u)
  BY <1>2, UserKeeps
<1>3. CASE \E p \in Processes : Clean(p) \/ Kill(p)
  BY <1>3, OthersKeep
<1>4. CASE UNCHANGED vars
  BY <1>4 DEF vars, IInv, TypeOK, Apart, Files, Phase
<1> QED
  BY <1>1, <1>2, <1>3, <1>4 DEF Next

THEOREM InvHolds == ASSUME ~Overlap PROVE Spec => []IInv
  BY InitIInv, StepKeeps, PTL DEF Spec

\* Every reachable state is well typed; the backup is always the old program.
THEOREM TypeCorrect == ASSUME ~Overlap PROVE Spec => []TypeOK
<1>1. IInv => TypeOK
  BY DEF IInv
<1> QED
  BY <1>1, InvHolds, PTL

\* A copy of the program is left at every moment, whatever fails or is killed.
THEOREM ProgramLeft == ASSUME ~Overlap PROVE Spec => []SomeProgramLeft
<1>1. IInv => SomeProgramLeft
  BY DEF IInv, Files, SomeProgramLeft
<1> QED
  BY <1>1, InvHolds, PTL

\* An unchecked program in place is always pointed at for the next start.
THEOREM Pointed == ASSUME ~Overlap PROVE Spec => []UncheckedIsPointed
<1>1. IInv => UncheckedIsPointed
  BY DEF IInv, Files, UncheckedIsPointed
<1> QED
  BY <1>1, InvHolds, PTL

\* An interrupted update can be recovered at every moment.
THEOREM Recoverable == ASSUME ~Overlap PROVE Spec => []UpdateRecoverable
<1>1. SomeProgramLeft /\ UncheckedIsPointed => UpdateRecoverable
  BY DEF UpdateRecoverable
<1> QED
  BY <1>1, ProgramLeft, Pointed, PTL

\* Nothing replaces a committed program.
THEOREM CommitIsFinal == ASSUME ~Overlap PROVE Spec => CommittedStays
<1>1. IInv' => (committed' /\ ~stuck' => target' = "new")
  BY DEF IInv, Files
<1>2. [Next]_vars => (committed => committed') /\ (stuck' = stuck \/ target' = target)
  <2> USE DEF vars, stage, mark, past, RemovePointer, Goto
  <2>1. ASSUME HelperStep
        PROVE  (committed => committed') /\ (stuck' = stuck \/ target' = target)
    <3>1. CASE WaitForParent \/ MoveAway \/ MarkPrepared \/ Install
      BY <3>1 DEF WaitForParent, MoveAway, MarkPrepared, Install
    <3>5. CASE WritePointer
      BY <3>5 DEF WritePointer
    <3>2. CASE MarkReplaced \/ HealthCheck \/ Unpoint \/ LaunchStudio
      BY <3>2 DEF MarkReplaced, HealthCheck, Unpoint, LaunchStudio
    <3>3. CASE Commit
      BY <3>3 DEF Commit
    <3>4. CASE Restore(Helper)
      BY <3>4 DEF Restore, CheckBackup, RemoveTarget, RenameBack, SyncRestored,
         DropPointer
    <3> QED
      BY <2>1, <3>1, <3>2, <3>3, <3>4, <3>5 DEF HelperStep
  <2>2. ASSUME NEW u \in Users, UserStep(u)
        PROVE  (committed => committed') /\ (stuck' = stuck \/ target' = target)
    BY <2>2 DEF UserStep, Launch, Stage, CheckPointer, ReadJournal, Forget, Quit, Restore,
       CheckBackup, RemoveTarget, RenameBack, SyncRestored, DropPointer
  <2>3. ASSUME NEW p \in Processes, Clean(p) \/ Kill(p)
        PROVE  (committed => committed') /\ (stuck' = stuck \/ target' = target)
    BY <2>3 DEF Clean, Kill
  <2> QED
    BY <2>1, <2>2, <2>3 DEF Next
<1>3. IInv /\ [Next]_vars /\ IInv'
        => [committed /\ target = "new" /\ ~stuck => target' = "new"]_vars
  BY <1>1, <1>2
<1> QED
  BY <1>3, InvHolds, PTL DEF Spec, CommittedStays
=============================================================================

-------------------------- MODULE OutputCommitProofs --------------------------
(* The commit protocol publishes whole files for any number of writers, names
   and chunks, and implements AtomicPublish. *)
EXTENDS OutputCommit, TLAPS

\* A writer that holds a temporary file is the owner of the file under its name:
\* what it commits is its own.
TempOwned == \A w \in Writers : pc[w] \in Holding => cand[w] \in Names /\ temp[cand[w]] = w

\* Only complete files are flushed, and only flushed files leave "write".
FlushedWhole ==
  /\ \A w \in Writers : synced[w] => written[w] = Chunks
  /\ \A w \in Writers : pc[w] \in {"ready", "commit", "unlink", "sync", "ok"} => synced[w]
  /\ \A w \in Writers : pc[w] \in {"idle", "name", "write"} => ~synced[w]

\* What the path shows, now or after a power loss, is flushed.
PathsFlushed ==
  /\ target \in Writers => synced[target]
  /\ disk \in Writers => synced[disk]

Inv == TypeOK /\ TempOwned /\ FlushedWhole /\ PathsFlushed

LEMMA InitInv == Init => Inv
<1> SUFFICES ASSUME Init PROVE Inv
  OBVIOUS
<1>1. TypeOK
  <2>1. 0 \in 0..Chunks /\ 0 \in 0..MaxAttempts
    BY CommitAssumption
  <2>2. /\ attempts \in [Writers -> 0..MaxAttempts]
        /\ written \in [Writers -> 0..Chunks]
    BY <2>1 DEF Init
  <2>3. /\ temp \in [Names -> Writers \cup {NoFile, Leftover}]
        /\ cand \in [Writers -> Names \cup {NoName}]
        /\ synced \in [Writers -> BOOLEAN]
        /\ pc \in [Writers -> Steps]
    BY DEF Init, Steps
  <2> QED
    BY <2>2, <2>3 DEF Init, TypeOK
<1>2. TempOwned
  BY DEF Init, TempOwned, Holding
<1>3. FlushedWhole
  BY DEF Init, FlushedWhole
<1>4. PathsFlushed
  BY CommitAssumption DEF Init, PathsFlushed
<1> QED
  BY <1>1, <1>2, <1>3, <1>4 DEF Inv

\* A writer that gives up removes at most its own temporary file.
LEMMA GiveUpInv ==
  ASSUME Inv, NEW w \in Writers, pc[w] \in Holding,
         NEW end \in {"failed", "canceled"}, GiveUp(w, end),
         UNCHANGED <<setting, stop, paths, bytes, naming, outage>>
  PROVE  Inv'
<1> USE CommitAssumption DEF Inv, GiveUp, Goto, Discard, setting, paths, bytes, naming
<1>1. TypeOK'
  BY DEF TypeOK, TempOwned, Steps
<1>2. TempOwned'
  BY DEF TypeOK, TempOwned, Holding
<1>3. FlushedWhole' /\ PathsFlushed'
  BY DEF TypeOK, FlushedWhole, PathsFlushed
<1> QED
  BY <1>1, <1>2, <1>3

LEMMA WriterInv == ASSUME Inv, NEW w \in Writers, Writer(w) PROVE Inv'
<1> USE CommitAssumption DEF Inv, Goto, setting, paths, temps, bytes, naming
<1>1. CASE Begin(w)
  BY <1>1 DEF Begin, TypeOK, TempOwned, FlushedWhole, PathsFlushed, Steps, Holding
<1>2. CASE CreateTemp(w)
  <2>1. TypeOK'
    BY <1>2 DEF CreateTemp, AttemptsLeft, TypeOK, Steps
  <2>2. TempOwned'
    BY <1>2 DEF CreateTemp, Creatable, TypeOK, TempOwned, Holding
  <2>3. FlushedWhole' /\ PathsFlushed'
    BY <1>2 DEF CreateTemp, TypeOK, FlushedWhole, PathsFlushed
  <2> QED
    BY <2>1, <2>2, <2>3
<1>3. CASE WriteChunk(w)
  <2>1. CASE UNCHANGED <<temps, pc>> /\ written' = [written EXCEPT ![w] = @ + 1]
    <3>1. TypeOK' /\ TempOwned'
      BY <1>3, <2>1 DEF WriteChunk, TypeOK, TempOwned
    <3>2. FlushedWhole' /\ PathsFlushed'
      BY <1>3, <2>1 DEF WriteChunk, TypeOK, FlushedWhole, PathsFlushed
    <3> QED
      BY <3>1, <3>2
  <2>2. CASE UNCHANGED written /\ \E end \in {"failed", "canceled"} : GiveUp(w, end)
    BY <1>3, <2>2, GiveUpInv DEF WriteChunk, Holding
  <2> QED
    BY <1>3, <2>1, <2>2 DEF WriteChunk
<1>4. CASE Flush(w)
  <2>1. CASE synced' = [synced EXCEPT ![w] = TRUE] /\ Goto(w, "ready") /\ UNCHANGED temps
    <3>1. TypeOK' /\ TempOwned'
      BY <1>4, <2>1 DEF Flush, TypeOK, TempOwned, Steps, Holding
    <3>2. FlushedWhole'
      BY <1>4, <2>1 DEF Flush, TypeOK, FlushedWhole
    <3>3. PathsFlushed'
      BY <1>4, <2>1 DEF Flush, TypeOK, PathsFlushed
    <3> QED
      BY <3>1, <3>2, <3>3
  <2>2. CASE UNCHANGED synced /\ GiveUp(w, "failed")
    BY <1>4, <2>2, GiveUpInv DEF Flush, Holding
  <2> QED
    BY <1>4, <2>1, <2>2 DEF Flush, Flushed
<1>5. CASE CheckStop(w)
  <2>1. CASE Goto(w, "commit") /\ UNCHANGED temps
    BY <1>5, <2>1 DEF CheckStop, TypeOK, TempOwned, FlushedWhole, PathsFlushed, Steps, Holding
  <2>2. CASE \E end \in {"failed", "canceled"} : GiveUp(w, end)
    BY <1>5, <2>2, GiveUpInv DEF CheckStop, Holding
  <2> QED
    BY <1>5, <2>1, <2>2 DEF CheckStop
<1>6. CASE Commit(w)
  <2>1. pc[w] = "commit" /\ cand[w] \in Names /\ temp[cand[w]] = w /\ synced[w]
    BY <1>6 DEF Commit, TempOwned, FlushedWhole, Holding
  <2>2. CASE UNCHANGED paths /\ \E end \in {"failed", "canceled"} : GiveUp(w, end)
    BY <1>6, <2>1, <2>2, GiveUpInv DEF Commit, Holding
  <2>3. CASE /\ target' = temp[cand[w]]
             /\ disk' = IF platform = "windows" THEN target' ELSE disk
             /\ UNCHANGED leaked
             /\ \/ Goto(w, "unlink") /\ UNCHANGED temp
                \/ Goto(w, "sync") /\ temp' = [temp EXCEPT ![cand[w]] = NoFile]
    <3>1. TypeOK'
      BY <1>6, <2>1, <2>3 DEF Commit, TypeOK, Steps
    <3>2. TempOwned'
      BY <1>6, <2>1, <2>3 DEF Commit, TypeOK, TempOwned, Holding
    <3>3. FlushedWhole'
      BY <1>6, <2>1, <2>3 DEF Commit, TypeOK, FlushedWhole
    <3>4. PathsFlushed'
      BY <1>6, <2>1, <2>3 DEF Commit, TypeOK, PathsFlushed
    <3> QED
      BY <3>1, <3>2, <3>3, <3>4
  <2> QED
    BY <1>6, <2>2, <2>3 DEF Commit
<1>7. CASE Unlink(w)
  <2>1. TypeOK'
    BY <1>7 DEF Unlink, Discard, TypeOK, TempOwned, Holding, Steps
  <2>2. TempOwned'
    BY <1>7 DEF Unlink, Discard, TypeOK, TempOwned, Holding
  <2>3. FlushedWhole' /\ PathsFlushed'
    BY <1>7 DEF Unlink, TypeOK, FlushedWhole, PathsFlushed
  <2> QED
    BY <2>1, <2>2, <2>3
<1>8. CASE SyncDirectory(w)
  BY <1>8 DEF SyncDirectory, TypeOK, TempOwned, FlushedWhole, PathsFlushed, Steps, Holding
<1> QED
  BY <1>1, <1>2, <1>3, <1>4, <1>5, <1>6, <1>7, <1>8 DEF Writer

LEMMA NextInv == Inv /\ [Next]_vars => Inv'
<1> SUFFICES ASSUME Inv, [Next]_vars PROVE Inv'
  OBVIOUS
<1> USE CommitAssumption DEF Inv, setting, paths, temps, bytes, naming
<1>1. CASE UNCHANGED vars
  BY <1>1 DEF vars, TypeOK, TempOwned, FlushedWhole, PathsFlushed
<1>2. ASSUME NEW w \in Writers, Writer(w) PROVE Inv'
  BY <1>2, WriterInv
<1>3. ASSUME NEW w \in Writers, Kill(w) PROVE Inv'
  BY <1>3 DEF Kill, Goto, TypeOK, TempOwned, FlushedWhole, PathsFlushed, Steps, Holding
<1>4. CASE RequestStop
  BY <1>4 DEF RequestStop, TypeOK, TempOwned, FlushedWhole, PathsFlushed
<1>5. CASE WriteBack
  BY <1>5 DEF WriteBack, TypeOK, TempOwned, FlushedWhole, PathsFlushed
<1>6. CASE ForeignCreate
  BY <1>6 DEF ForeignCreate, TypeOK, TempOwned, FlushedWhole, PathsFlushed
<1>7. CASE PowerLoss
  <2>1. TypeOK'
    BY <1>7 DEF PowerLoss, TypeOK, Steps, Settled
  <2>2. TempOwned'
    BY <1>7 DEF PowerLoss, TypeOK, Holding, Settled, TempOwned
  <2>3. FlushedWhole'
    BY <1>7 DEF PowerLoss, TypeOK, FlushedWhole, Settled
  <2>4. PathsFlushed'
    BY <1>7 DEF PowerLoss, TypeOK, PathsFlushed
  <2> QED
    BY <2>1, <2>2, <2>3, <2>4
<1> QED
  BY <1>1, <1>2, <1>3, <1>4, <1>5, <1>6, <1>7 DEF Next

\* The inductive invariant of the commit protocol.
THEOREM InvHolds == Spec => []Inv
<1> QED
  BY InitInv, NextInv, PTL DEF Spec

\* The target path never shows a partial file, whatever is killed and even after
\* a power loss.
THEOREM WholeFiles == Spec => []TargetWhole
<1>1. Inv => TargetWhole
  BY DEF Inv, FlushedWhole, PathsFlushed, TargetWhole
<1> QED
  BY <1>1, InvHolds, PTL

\* Every reachable state is well typed; no writer tries more names than it may.
THEOREM TypeCorrect == Spec => []TypeOK
<1>1. Inv => TypeOK
  BY DEF Inv
<1> QED
  BY <1>1, InvHolds, PTL

-----------------------------------------------------------------------------
(* Who wins, and what is left. *)

\* A writer that must not replace a file and has published is the one whose file the
\* path shows.
WinnerShown ==
  ~replace /\ ~outage =>
    \A w \in Writers : pc[w] \in {"unlink", "sync", "ok"} => target = w

\* A temporary file belongs to a writer that still uses it, or died, or could not
\* remove it.
TempExplained ==
  \A n \in Names : temp[n] \in Writers =>
    \/ n \in leaked
    \/ pc[temp[n]] = "dead"
    \/ pc[temp[n]] \in Holding /\ cand[temp[n]] = n

\* A writer that gives up changes neither.
LEMMA GiveUpExplained ==
  ASSUME Inv, WinnerShown, TempExplained, NEW w \in Writers, pc[w] \in Holding,
         NEW end \in {"failed", "canceled"}, GiveUp(w, end),
         UNCHANGED <<setting, paths, naming, outage>>
  PROVE  (WinnerShown /\ TempExplained)'
<1> USE CommitAssumption DEF GiveUp, Goto, setting, paths, naming
<1>1. pc' = [pc EXCEPT ![w] = end] /\ pc \in [Writers -> Steps]
  BY DEF Inv, TypeOK
<1>2. WinnerShown'
  BY <1>1 DEF WinnerShown
<1>3. TempExplained'
  BY <1>1 DEF Discard, Inv, TypeOK, TempOwned, TempExplained, Holding
<1> QED
  BY <1>2, <1>3

LEMMA NextExplained ==
  ASSUME Inv, WinnerShown, TempExplained, [Next]_vars
  PROVE  (WinnerShown /\ TempExplained)'
<1> USE CommitAssumption DEF setting, paths, temps, bytes, naming, Goto
<1>1. CASE UNCHANGED vars
  BY <1>1 DEF vars, WinnerShown, TempExplained
<1>2. ASSUME NEW w \in Writers, Writer(w) PROVE (WinnerShown /\ TempExplained)'
  <2>1. CASE \E end \in {"failed", "canceled"} : pc[w] \in Holding /\ GiveUp(w, end)
             /\ UNCHANGED <<setting, paths, naming, outage>>
    BY <2>1, GiveUpExplained
  <2>2. CASE Begin(w)
    BY <2>2 DEF Begin, Inv, TypeOK, WinnerShown, TempExplained, Holding
  <2>3. CASE CreateTemp(w)
    <3>1. WinnerShown'
      BY <2>3 DEF CreateTemp, Inv, TypeOK, WinnerShown
    <3>2. TempExplained'
      BY <2>3 DEF CreateTemp, Creatable, Inv, TypeOK, TempExplained, Holding
    <3> QED
      BY <3>1, <3>2
  <2>4. CASE WriteChunk(w) /\ UNCHANGED <<temps, pc>>
    BY <2>4 DEF WriteChunk, WinnerShown, TempExplained
  <2>5. CASE Flush(w) /\ Goto(w, "ready") /\ UNCHANGED temps
    BY <2>5 DEF Flush, Inv, TypeOK, WinnerShown, TempExplained, Holding
  <2>6. CASE CheckStop(w) /\ Goto(w, "commit") /\ UNCHANGED temps
    BY <2>6 DEF CheckStop, Inv, TypeOK, WinnerShown, TempExplained, Holding
  <2>7. CASE Commit(w) /\ UNCHANGED leaked
             /\ MayCommit /\ target' = temp[cand[w]]
             /\ \/ Goto(w, "unlink") /\ UNCHANGED temp
                \/ Goto(w, "sync") /\ temp' = [temp EXCEPT ![cand[w]] = NoFile]
    <3>1. /\ pc[w] = "commit" /\ target' = w /\ temp[cand[w]] = w /\ cand[w] \in Names
          /\ UNCHANGED <<replace, cand, outage>>
      BY <2>7 DEF Commit, Inv, TempOwned, Holding
    <3>2. WinnerShown'
      BY <2>7, <3>1 DEF MayCommit, Inv, TypeOK, WinnerShown
    <3>3. TempExplained'
      BY <2>7, <3>1 DEF Inv, TypeOK, TempExplained, Holding
    <3> QED
      BY <3>2, <3>3
  <2>8. CASE Unlink(w)
    <3>1. pc[w] = "unlink" /\ temp[cand[w]] = w /\ cand[w] \in Names
      BY <2>8 DEF Unlink, Inv, TempOwned, Holding
    <3>2. WinnerShown'
      BY <2>8 DEF Unlink, Inv, TypeOK, WinnerShown
    <3>3. TempExplained'
      BY <2>8, <3>1 DEF Unlink, Discard, Inv, TypeOK, TempExplained, Holding
    <3> QED
      BY <3>2, <3>3
  <2>9. CASE SyncDirectory(w)
    BY <2>9 DEF SyncDirectory, Inv, TypeOK, WinnerShown, TempExplained, Holding
  <2> QED
    BY <1>2, <2>1, <2>2, <2>3, <2>4, <2>5, <2>6, <2>7, <2>8, <2>9
    DEF Writer, WriteChunk, Flush, CheckStop, Commit, Holding
<1>3. ASSUME NEW w \in Writers, Kill(w) PROVE (WinnerShown /\ TempExplained)'
  BY <1>3 DEF Kill, Inv, TypeOK, WinnerShown, TempExplained, Holding
<1>4. CASE RequestStop \/ WriteBack
  BY <1>4 DEF RequestStop, WriteBack, WinnerShown, TempExplained
<1>5. CASE ForeignCreate
  BY <1>5 DEF ForeignCreate, WinnerShown, TempExplained
<1>6. CASE PowerLoss
  <2>1. WinnerShown'
    BY <1>6 DEF PowerLoss, WinnerShown
  <2>2. TempExplained'
    BY <1>6 DEF PowerLoss, TempExplained
  <2> QED
    BY <2>1, <2>2
<1> QED
  BY <1>1, <1>2, <1>3, <1>4, <1>5, <1>6 DEF Next

\* Both hold in every reachable state.
LEMMA Explained == Spec => [](WinnerShown /\ TempExplained)
<1>1. Init => WinnerShown /\ TempExplained
  BY CommitAssumption DEF Init, WinnerShown, TempExplained
<1> QED
  BY <1>1, NextExplained, InvHolds, PTL DEF Spec

\* Two writers that must not replace a file never both report success, for any
\* number of writers and however their checks and commits interleave.
THEOREM OnlyOneWins == Spec => []OneWinner
<1>1. WinnerShown => OneWinner
  BY DEF WinnerShown, OneWinner
<1> QED
  BY <1>1, Explained, PTL

\* When all writers have returned, every temporary file that is left is one whose
\* removal the system refused.
THEOREM CleanAfterwards == Spec => []NoTempLeft
<1>1. TempExplained => NoTempLeft
  BY DEF TempExplained, NoTempLeft, Holding
<1> QED
  BY <1>1, Explained, PTL

\* A file that another process left under a temporary name survives every step.
THEOREM LeftoversSafe == Spec => LeftoversKept
<1>1. Inv /\ [Next]_vars =>
        [\A n \in Names : temp[n] = Leftover => temp'[n] = Leftover]_vars
  <2> SUFFICES ASSUME Inv, Next, NEW n \in Names, temp[n] = Leftover
               PROVE  temp'[n] = Leftover
    OBVIOUS
  <2> USE CommitAssumption DEF setting, temps, naming
  <2>1. ASSUME NEW w \in Writers, Writer(w) PROVE temp'[n] = Leftover
    <3>1. pc[w] \in Holding => cand[w] # n
      BY DEF Inv, TempOwned
    <3>2. Discard(w) /\ pc[w] \in Holding => temp'[n] = Leftover
      BY <3>1 DEF Discard, Inv, TypeOK
    <3> QED
      BY <2>1, <3>1, <3>2 DEF Writer, Begin, CreateTemp, Creatable, WriteChunk, Flush,
         CheckStop, Commit, Unlink, SyncDirectory, GiveUp, Holding, Inv, TypeOK
  <2>2. ASSUME NEW w \in Writers, Kill(w) PROVE temp'[n] = Leftover
    BY <2>2 DEF Kill
  <2>3. CASE RequestStop \/ WriteBack \/ ForeignCreate \/ PowerLoss
    BY <2>3 DEF RequestStop, WriteBack, ForeignCreate, PowerLoss
  <2> QED
    BY <2>1, <2>2, <2>3 DEF Next
<1> QED
  BY <1>1, InvHolds, PTL DEF Spec, LeftoversKept

\* The writers remove their own temporary files and nobody else's, for any number of
\* writers and of files left by earlier processes.
THEOREM Tidy == Spec => TempsTidy
<1> QED
  BY TypeCorrect, CleanAfterwards, LeftoversSafe, PTL DEF TempsTidy

-----------------------------------------------------------------------------
(* The refinement. *)

Verdicts == [w \in Writers |-> VerdictOf(w)]

\* A flushed file is shown whole.
LEMMA ShownWhole == Inv => Shown(target) = target /\ Shown(disk) = disk
BY CommitAssumption DEF Inv, TypeOK, FlushedWhole, PathsFlushed, Shown

LEMMA ShownWholeNext == Inv' => Shown(target)' = target' /\ Shown(disk)' = disk'
BY CommitAssumption DEF Inv, TypeOK, FlushedWhole, PathsFlushed, Shown

\* The abstract protocol sees a step of one writer as a change of its verdict.
LEMMA OneVerdict ==
  ASSUME NEW w \in Writers, \A v \in Writers \ {w} : pc'[v] = pc[v]
  PROVE  Verdicts' = [Verdicts EXCEPT ![w] = VerdictOf(w)']
BY DEF Verdicts, VerdictOf

\* A step that leaves the path alone and either keeps the writer's verdict or
\* refuses it is a step of the abstract protocol.
LEMMA StillOrRefused ==
  ASSUME Inv, Inv', UNCHANGED <<replace, target, disk>>, NEW w \in Writers,
         \A v \in Writers \ {w} : pc'[v] = pc[v],
         \/ VerdictOf(w)' = VerdictOf(w)
         \/ VerdictOf(w) = "pending" /\ VerdictOf(w)' = "refused"
  PROVE  [Publication!Next]_(Publication!vars)
<1>1. Shown(target)' = Shown(target) /\ Shown(disk)' = Shown(disk)
  BY ShownWhole, ShownWholeNext
<1>2. Verdicts' = [Verdicts EXCEPT ![w] = VerdictOf(w)']
  BY OneVerdict
<1>3. CASE VerdictOf(w)' = VerdictOf(w)
  <2>1. Verdicts' = Verdicts
    BY <1>2, <1>3 DEF Verdicts
  <2> QED
    BY <1>1, <2>1 DEF Publication!vars, Verdicts
<1>4. CASE VerdictOf(w) = "pending" /\ VerdictOf(w)' = "refused"
  <2>1. Publication!Refuse(w)
    BY <1>1, <1>2, <1>4 DEF Publication!Refuse, Verdicts
  <2> QED
    BY <2>1 DEF Publication!Next
<1> QED
  BY <1>3, <1>4

LEMMA WriterRefines ==
  ASSUME Inv, Inv', NEW w \in Writers, Writer(w)
  PROVE  [Publication!Next]_(Publication!vars)
<1> USE DEF Inv, Goto, setting, paths
<1>1. CASE Commit(w) /\ pc'[w] \in {"unlink", "sync"}
  <2>1. target' = w /\ disk' \in {disk, w} /\ (replace \/ target = NoFile)
    BY <1>1 DEF Commit, GiveUp, TypeOK, TempOwned, Holding, MayCommit
  <2>2. VerdictOf(w) = "pending" /\ VerdictOf(w)' = "published"
    BY <1>1 DEF Commit, VerdictOf, TypeOK
  <2>3. Verdicts' = [Verdicts EXCEPT ![w] = "published"]
    <3>1. \A v \in Writers \ {w} : pc'[v] = pc[v]
      BY <1>1 DEF Commit, GiveUp, TypeOK
    <3> QED
      BY <2>2, <3>1, OneVerdict
  <2>4. Publication!Publish(w)
    BY <1>1, <2>1, <2>2, <2>3, ShownWhole, ShownWholeNext
    DEF Publication!Publish, Verdicts, Commit
  <2> QED
    BY <2>4 DEF Publication!Next
<1>2. CASE SyncDirectory(w)
  <2>1. Verdicts' = Verdicts
    <3>1. VerdictOf(w)' = VerdictOf(w)
      BY <1>2 DEF SyncDirectory, VerdictOf, TypeOK
    <3>2. Verdicts' = [Verdicts EXCEPT ![w] = VerdictOf(w)']
      BY <1>2, OneVerdict DEF SyncDirectory, TypeOK
    <3> QED
      BY <3>1, <3>2 DEF Verdicts
  <2>2. target' = target /\ disk' \in {disk, target} /\ replace' = replace
    BY <1>2 DEF SyncDirectory
  <2>3. Publication!Persist \/ UNCHANGED Publication!vars
    BY <2>1, <2>2, ShownWhole, ShownWholeNext
    DEF Publication!Persist, Publication!vars, Verdicts
  <2> QED
    BY <2>3 DEF Publication!Next
<1>3. CASE ~(Commit(w) /\ pc'[w] \in {"unlink", "sync"}) /\ ~SyncDirectory(w)
  <2>1. UNCHANGED <<replace, target, disk>>
    BY <1>3 DEF Writer, Begin, CreateTemp, WriteChunk, Flush, CheckStop, Commit, Unlink,
       TypeOK
  <2>2. \A v \in Writers \ {w} : pc'[v] = pc[v]
    BY <1>3 DEF Writer, Begin, CreateTemp, WriteChunk, Flush, CheckStop, Commit, Unlink,
       GiveUp, TypeOK
  <2>3. \/ VerdictOf(w)' = VerdictOf(w)
        \/ VerdictOf(w) = "pending" /\ VerdictOf(w)' = "refused"
    BY <1>3 DEF Writer, Begin, CreateTemp, WriteChunk, Flush, CheckStop, Commit, Unlink,
       GiveUp, TypeOK, VerdictOf
  <2> QED
    BY <2>1, <2>2, <2>3, StillOrRefused
<1> QED
  BY <1>1, <1>2, <1>3

LEMMA InitRefines == Init => Publication!Init
<1> SUFFICES ASSUME Init PROVE Publication!Init
  OBVIOUS
<1>1. Shown(target) = target /\ Shown(disk) = disk
  BY InitInv, ShownWhole
<1>2. Verdicts = [w \in Writers |-> "pending"]
  BY DEF Init, Verdicts, VerdictOf
<1> QED
  BY <1>1, <1>2 DEF Init, Publication!Init, Verdicts

LEMMA NextRefines ==
  ASSUME Inv, Inv', [Next]_vars
  PROVE  [Publication!Next]_(Publication!vars)
<1> USE DEF setting, paths, Goto
<1>1. CASE UNCHANGED vars
  BY <1>1 DEF vars, Publication!vars, Shown, VerdictOf
<1>2. ASSUME NEW w \in Writers, Writer(w) PROVE [Publication!Next]_(Publication!vars)
  BY <1>2, WriterRefines
<1>3. ASSUME NEW w \in Writers, Kill(w) PROVE [Publication!Next]_(Publication!vars)
  <2>1. VerdictOf(w) \in {"pending", "published"} /\ VerdictOf(w)' = "killed"
    BY <1>3 DEF Kill, Inv, TypeOK, VerdictOf, Settled
  <2>2. Verdicts' = [Verdicts EXCEPT ![w] = "killed"]
    BY <1>3, <2>1, OneVerdict DEF Kill, Inv, TypeOK
  <2>3. Publication!Kill(w)
    BY <1>3, <2>1, <2>2, ShownWhole, ShownWholeNext DEF Publication!Kill, Verdicts, Kill
  <2> QED
    BY <2>3 DEF Publication!Next
<1>4. CASE RequestStop
  BY <1>4, ShownWhole, ShownWholeNext DEF RequestStop, Publication!vars, VerdictOf
<1>5. CASE WriteBack
  <2>1. Publication!Persist
    BY <1>5, ShownWhole, ShownWholeNext DEF WriteBack, Publication!Persist, VerdictOf
  <2> QED
    BY <2>1 DEF Publication!Next
<1>6. CASE ForeignCreate
  <2>1. Publication!ForeignCreate
    BY <1>6, ShownWhole, ShownWholeNext
    DEF ForeignCreate, Publication!ForeignCreate, VerdictOf
  <2> QED
    BY <2>1 DEF Publication!Next
<1>7. CASE PowerLoss
  <2> DEFINE Running == {w \in Writers : pc[w] \notin Settled \cup {"idle"}}
  <2>1. Running \in SUBSET {w \in Writers : Verdicts[w] \in {"pending", "published"}}
    BY DEF Inv, TypeOK, Steps, Settled, Verdicts, VerdictOf
  <2>2. Verdicts' = [w \in Writers |-> IF w \in Running THEN "killed" ELSE Verdicts[w]]
    BY <1>7 DEF PowerLoss, Verdicts, VerdictOf, Settled
  <2>3. target' = disk /\ disk' = disk /\ replace' = replace
    BY <1>7 DEF PowerLoss
  <2>4. Publication!PowerLoss
    BY <2>1, <2>2, <2>3, ShownWhole, ShownWholeNext DEF Publication!PowerLoss, Verdicts
  <2> QED
    BY <2>4 DEF Publication!Next
<1> QED
  BY <1>1, <1>2, <1>3, <1>4, <1>5, <1>6, <1>7 DEF Next

\* The commit protocol implements the atomic publication of complete files, for
\* any number of writers and in spite of kills and power losses.
THEOREM Atomicity == Spec => PublishesAtomically
<1> QED
  BY InitRefines, NextRefines, InvHolds, PTL
  DEF Spec, PublishesAtomically, Publication!Spec
=============================================================================

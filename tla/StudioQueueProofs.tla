--------------------------- MODULE StudioQueueProofs ---------------------------
(***************************************************************************)
(* Proofs about the Windows Studio, for any file system, any number of     *)
(* runs and any failures of its threads:                                   *)
(*   - at most one worker process runs, and no run leaves its manifest;    *)
(*   - a scan finds every image of its folders once and accounts for what  *)
(*     it visited, and no file is in the queue twice;                      *)
(*   - events of the worker find their item, verdicts are final, and the   *)
(*     button and the items tell whether a run is on.                      *)
(* IInv is the part about processes and monitors; QInv adds the queue, its *)
(* items and the closures that wait.                                       *)
(***************************************************************************)
EXTENDS StudioQueue, SequenceTheorems, FunctionTheorems, FiniteSetTheorems, TLAPS

\* A run has the fields that matter here.
Shaped(x) ==
  /\ {"proc", "code", "cancel", "forced", "mon", "manifest"} \subseteq DOMAIN x
  /\ x.forced \in BOOLEAN

\* What was forced to end has ended, and a monitor that is done removed the manifest.
RunOK(x) ==
  /\ Shaped(x)
  /\ x.forced = TRUE => x.proc # "alive"
  /\ x.mon \in {"posted", "ended"} => x.manifest = FALSE

\* Posted closures are a sequence, whatever they carry.
Sequence(s) == \E S : s \in Seq(S)

Typed ==
  /\ DOMAIN runs = Runs /\ \A r \in Runs : RunOK(runs[r])
  /\ runId \in 0..MaxRuns /\ activeChild \in 0..MaxRuns /\ active \in BOOLEAN
  /\ Sequence(posts)

\* A process that runs is the one of the current run, and that run is active.
AliveIsCurrent ==
  \A r \in Runs : runs[r].proc = "alive" =>
    active = TRUE /\ activeChild = r /\ runId = r

\* A monitor exists for runs that were started, and the end of a run is posted when
\* its process is gone.
Past ==
  /\ \A r \in Runs : runs[r].mon # "none" => r <= runId
  /\ \A i \in DOMAIN posts : posts[i].kind = "end" =>
       /\ posts[i].run \in Runs /\ posts[i].run <= runId
       /\ runs[posts[i].run].proc # "alive"

IInv == Typed /\ AliveIsCurrent /\ Past

\* What a run becomes without a process starting.
Settles(x, y) ==
  /\ RunOK(y)
  /\ y.proc = "alive" => x.proc = "alive"
  /\ y.mon # "none" => x.mon # "none"

\* Nothing is started at first.
LEMMA Starts == Init => IInv
<1> SUFFICES ASSUME Init PROVE IInv
  OBVIOUS
<1> USE StudioAssumption
<1>1. RunOK(NoRun) /\ NoRun.proc = "none" /\ NoRun.mon = "none"
  BY DEF NoRun, RunOK, Shaped
<1>2. Sequence(<<>>)
  BY EmptySeq DEF Sequence
<1>3. Typed
  <2>1. runs = [r \in Runs |-> NoRun] /\ posts = <<>> /\ runId = 0 /\ activeChild = 0
    BY DEF Init
  <2>2. DOMAIN runs = Runs /\ \A r \in Runs : runs[r] = NoRun
    BY <2>1
  <2>3. active \in BOOLEAN
    BY DEF Init
  <2>4. \A r \in Runs : RunOK(runs[r])
    BY <1>1, <2>2
  <2>5. Sequence(posts)
    BY <1>2, <2>1
  <2> HIDE DEF Runs
  <2> QED
    BY <2>1, <2>2, <2>3, <2>4, <2>5 DEF Typed
<1>4. AliveIsCurrent /\ Past
  BY <1>1 DEF Init, AliveIsCurrent, Past
<1> QED
  BY <1>3, <1>4 DEF IInv

\* Asking for a stop and terminating never start a process.
LEMMA Terminates ==
  ASSUME NEW x, RunOK(x), NEW ok \in BOOLEAN
  PROVE  /\ Settles(x, Terminate(x, ok)) /\ Settles(x, RequestCancel(x))
         /\ Terminate(x, TRUE).proc # "alive"
         /\ Terminate(x, ok).mon = x.mon
<1> DEFINE killed == [[x EXCEPT !.cancel = TRUE] EXCEPT
                        !.forced = TRUE, !.proc = "exited",
                        !.code = IF x.proc = "alive" THEN 130 ELSE @]
<1>1. Settles(x, RequestCancel(x)) /\ RequestCancel(x).mon = x.mon
  BY DEF RunOK, Shaped, Settles, RequestCancel
<1>2. Settles(x, killed) /\ killed.mon = x.mon /\ killed.proc = "exited"
  BY DEF RunOK, Shaped, Settles
<1>3. Settles(x, x)
  BY DEF Settles
<1>4. Terminate(x, ok) = IF x.forced THEN x ELSE IF ~ok THEN RequestCancel(x) ELSE killed
  BY DEF Terminate, RequestCancel
<1>5. Terminate(x, TRUE) = IF x.forced THEN x ELSE killed
  BY DEF Terminate, RequestCancel
<1>6. x.forced \in BOOLEAN /\ (x.forced => x.proc # "alive")
  BY DEF RunOK, Shaped
<1> HIDE DEF killed
<1> QED
  BY <1>1, <1>2, <1>3, <1>4, <1>5, <1>6

\* One more closure waits.
LEMMA Appends ==
  ASSUME Sequence(posts), NEW m, posts' = Append(posts, m)
  PROVE  /\ Sequence(posts')
         /\ \A i \in DOMAIN posts' : posts'[i] = m \/ (i \in DOMAIN posts /\ posts'[i] = posts[i])
<1>1. PICK S : posts \in Seq(S)
  BY DEF Sequence
<1>2. posts \in Seq(S \cup {m})
  BY <1>1
<1>3. posts' \in Seq(S \cup {m})
  BY <1>2, AppendProperties
<1>4. \A i \in DOMAIN posts' : posts'[i] = m \/ (i \in DOMAIN posts /\ posts'[i] = posts[i])
  BY <1>2, AppendProperties
<1> QED
  BY <1>3, <1>4 DEF Sequence

\* A step in which runs at most settle and the current run stays as it is.
LEMMA Stays ==
  ASSUME IInv, DOMAIN runs' = Runs,
         \A r \in Runs : Settles(runs[r], runs'[r]),
         UNCHANGED <<runId, active, activeChild>>, Sequence(posts'),
         \A i \in DOMAIN posts' : posts'[i].kind = "end" =>
           /\ posts'[i].run \in Runs /\ posts'[i].run <= runId
           /\ runs'[posts'[i].run].proc # "alive"
  PROVE  IInv'
<1>1. Typed'
  BY DEF IInv, Typed, Settles
<1>2. AliveIsCurrent'
  BY DEF IInv, AliveIsCurrent, Settles
<1>3. Past'
  BY DEF IInv, Past, Settles
<1> QED
  BY <1>1, <1>2, <1>3 DEF IInv

\* The same, when at most one closure is posted.
LEMMA Posts ==
  ASSUME IInv, DOMAIN runs' = Runs,
         \A r \in Runs : Settles(runs[r], runs'[r]),
         UNCHANGED <<runId, active, activeChild>>,
         NEW m,
         posts' = posts \/ posts' = Posted(m) \/ posts' = Append(posts, m),
         m.kind = "end" =>
           /\ m.run \in Runs /\ m.run <= runId
           /\ runs'[m.run].proc # "alive"
  PROVE  IInv'
<1> DEFINE Ended(e) == e.kind = "end" => /\ e.run \in Runs /\ e.run <= runId
                                         /\ runs'[e.run].proc # "alive"
<1>1. \A i \in DOMAIN posts : Ended(posts[i])
  BY DEF IInv, Past, Settles
<1>2. Sequence(posts') /\ \A i \in DOMAIN posts' : Ended(posts'[i])
  <2>1. CASE posts' = posts
    BY <1>1, <2>1 DEF IInv, Typed
  <2>2. CASE posts' = Append(posts, m)
    <3>1. Sequence(posts)
      BY DEF IInv, Typed
    <3>2. Ended(m)
      OBVIOUS
    <3> HIDE DEF Ended
    <3>3. /\ Sequence(posts')
          /\ \A i \in DOMAIN posts' :
               posts'[i] = m \/ (i \in DOMAIN posts /\ posts'[i] = posts[i])
      BY <2>2, <3>1, Appends
    <3> QED
      BY <1>1, <3>2, <3>3
  <2> QED
    BY <2>1, <2>2 DEF Posted
<1> QED
  BY <1>2, Stays

\* The same, when nothing is posted.
LEMMA Quiet ==
  ASSUME IInv, DOMAIN runs' = Runs,
         \A r \in Runs : Settles(runs[r], runs'[r]),
         UNCHANGED <<runId, active, activeChild, posts>>
  PROVE  IInv'
<1> DEFINE m == [kind |-> "none"]
<1>1. m.kind # "end"
  OBVIOUS
<1> HIDE DEF m
<1> QED
  BY <1>1, Posts

\* One run settles and the others stay.
LEMMA OneRun ==
  ASSUME Typed, NEW r \in Runs, NEW y, Settles(runs[r], y),
         runs' = [runs EXCEPT ![r] = y]
  PROVE  /\ DOMAIN runs' = Runs /\ runs'[r] = y
         /\ \A q \in Runs : Settles(runs[q], runs'[q])
<1>1. DOMAIN runs' = Runs /\ runs'[r] = y /\ \A q \in Runs \ {r} : runs'[q] = runs[q]
  BY DEF Typed
<1>2. \A q \in Runs : Settles(runs[q], runs[q])
  BY DEF Typed, Settles
<1> QED
  BY <1>1, <1>2

\* Fields that change without starting a process.
LEMMA Fields ==
  ASSUME NEW x, RunOK(x)
  PROVE  /\ \A v \in {"drain", "threw", "cleared"} :
              x.mon # "none" => Settles(x, [x EXCEPT !.mon = v])
         /\ x.mon = "posted" => Settles(x, [x EXCEPT !.mon = "ended"])
         /\ \A v : Settles(x, [x EXCEPT !.left = v])
         /\ \A v : Settles(x, [x EXCEPT !.stop = v])
         /\ \A v, c : Settles(x, [[x EXCEPT !.proc = "exited"] EXCEPT !.code = v])
         /\ \A v : x.mon # "none" =>
              /\ Settles(x, [[x EXCEPT !.mon = v] EXCEPT !.manifest = FALSE])
              /\ [[x EXCEPT !.mon = v] EXCEPT !.manifest = FALSE].proc = x.proc
<1>0. x.mon = "posted" => Settles(x, [x EXCEPT !.mon = "ended"])
  BY DEF RunOK, Shaped, Settles
<1>1. \A v \in {"drain", "threw", "cleared"} :
        x.mon # "none" => Settles(x, [x EXCEPT !.mon = v])
  BY DEF RunOK, Shaped, Settles
<1>2. \A v : Settles(x, [x EXCEPT !.left = v])
  BY DEF RunOK, Shaped, Settles
<1>3. \A v : Settles(x, [x EXCEPT !.stop = v])
  BY DEF RunOK, Shaped, Settles
<1>4. \A v : Settles(x, [[x EXCEPT !.proc = "exited"] EXCEPT !.code = v])
  BY DEF RunOK, Shaped, Settles
<1>5. \A v : x.mon # "none" =>
        /\ Settles(x, [[x EXCEPT !.mon = v] EXCEPT !.manifest = FALSE])
        /\ [[x EXCEPT !.mon = v] EXCEPT !.manifest = FALSE].proc = x.proc
  BY DEF RunOK, Shaped, Settles
<1> QED
  BY <1>0, <1>1, <1>2, <1>3, <1>4, <1>5

----------------------------------------------------------------------------
(* The worker processes and the monitor threads. *)

LEMMA WorkerBegins ==
  ASSUME IInv, NEW r \in Runs, NEW i, WorkerStarts(r, i)
  PROVE  IInv'
<1> USE DEF IInv
<1> DEFINE y == [runs[r] EXCEPT !.left = [@ EXCEPT ![i] = "busy"]]
<1>1. RunOK(runs[r]) /\ Typed
  BY DEF Typed
<1>2. runs' = [runs EXCEPT ![r] = y]
  BY DEF WorkerStarts
<1>3. Settles(runs[r], y)
  BY <1>1, Fields
<1> HIDE DEF y
<1>4. DOMAIN runs' = Runs /\ \A q \in Runs : Settles(runs[q], runs'[q])
  BY <1>1, <1>2, <1>3, OneRun
<1>5. posts' = posts
        \/ posts' = Posted([kind |-> "item", run |-> r, ix |-> i, st |-> "running"])
  BY DEF WorkerStarts, Published
<1> QED
  BY <1>4, <1>5, Posts DEF WorkerStarts

LEMMA WorkerReports ==
  ASSUME IInv, NEW r \in Runs, NEW i, NEW st, WorkerFinishes(r, i, st)
  PROVE  IInv'
<1> USE DEF IInv
<1> DEFINE y == [runs[r] EXCEPT !.left = [@ EXCEPT ![i] = "over"]]
<1>1. RunOK(runs[r]) /\ Typed
  BY DEF Typed
<1>2. runs' = [runs EXCEPT ![r] = y]
  BY DEF WorkerFinishes
<1>3. Settles(runs[r], y)
  BY <1>1, Fields
<1> HIDE DEF y
<1>4. DOMAIN runs' = Runs /\ \A q \in Runs : Settles(runs[q], runs'[q])
  BY <1>1, <1>2, <1>3, OneRun
<1>5. posts' = posts
        \/ posts' = Posted([kind |-> "item", run |-> r, ix |-> i, st |-> st])
  BY DEF WorkerFinishes, Published
<1> QED
  BY <1>4, <1>5, Posts DEF WorkerFinishes

LEMMA WorkerGone ==
  ASSUME IInv, NEW r \in Runs, NEW code, WorkerExits(r, code) \/ WorkerCrashes(r, code)
  PROVE  IInv'
<1> USE DEF IInv
<1> DEFINE y == [[runs[r] EXCEPT !.proc = "exited"] EXCEPT !.code = code]
<1>1. RunOK(runs[r]) /\ Typed
  BY DEF Typed
<1>2. runs' = [runs EXCEPT ![r] = y]
  BY DEF WorkerExits, WorkerCrashes
<1>3. Settles(runs[r], y)
  BY <1>1, Fields
<1> HIDE DEF y
<1>4. DOMAIN runs' = Runs /\ \A q \in Runs : Settles(runs[q], runs'[q])
  BY <1>1, <1>2, <1>3, OneRun
<1>5. UNCHANGED <<runId, active, activeChild, posts>>
  BY DEF WorkerExits, WorkerCrashes
<1> QED
  BY <1>4, <1>5, Quiet

LEMMA Leaves ==
  ASSUME IInv, NEW r \in Runs, MonitorLeavesLoop(r) \/ MonitorReturns(r) \/ MonitorThrows(r)
  PROVE  IInv'
<1> USE DEF IInv
<1>1. RunOK(runs[r]) /\ Typed
  BY DEF Typed
<1>2. \E y : Settles(runs[r], y) /\ runs' = [runs EXCEPT ![r] = y]
  <2>1. CASE MonitorReturns(r) \/ MonitorThrows(r)
    <3>1. \/ runs' = [runs EXCEPT ![r].mon = "ended"] /\ runs[r].mon = "posted"
          \/ runs' = [runs EXCEPT ![r].mon = "threw"] /\ runs[r].mon # "none"
      BY <2>1 DEF MonitorReturns, MonitorThrows
    <3> QED
      BY <1>1, <3>1, Fields
  <2>2. CASE MonitorLeavesLoop(r)
    <3>1. CASE runs' = [runs EXCEPT ![r].mon = "drain"]
      BY <1>1, <2>2, <3>1, Fields DEF MonitorLeavesLoop
    <3>2. ASSUME NEW ok \in BOOLEAN,
                 runs' = [runs EXCEPT ![r] = [Terminate(runs[r], ok) EXCEPT !.mon = "drain"]]
          PROVE  \E y : Settles(runs[r], y) /\ runs' = [runs EXCEPT ![r] = y]
      <4> DEFINE t == Terminate(runs[r], ok)
      <4>1. Settles(runs[r], t) /\ t.mon = runs[r].mon /\ runs[r].mon # "none"
        BY <1>1, <2>2, Terminates DEF MonitorLeavesLoop
      <4> HIDE DEF t
      <4>2. Settles(t, [t EXCEPT !.mon = "drain"])
        BY <4>1, Fields DEF Settles
      <4>3. Settles(runs[r], [t EXCEPT !.mon = "drain"])
        BY <4>1, <4>2 DEF Settles
      <4> QED
        BY <3>2, <4>3 DEF t
    <3> QED
      BY <2>2, <3>1, <3>2 DEF MonitorLeavesLoop
  <2> QED
    BY <2>1, <2>2
<1>3. DOMAIN runs' = Runs /\ \A q \in Runs : Settles(runs[q], runs'[q])
  BY <1>1, <1>2, OneRun
<1>4. UNCHANGED <<runId, active, activeChild, posts>>
  BY DEF MonitorLeavesLoop, MonitorReturns, MonitorThrows
<1> QED
  BY <1>3, <1>4, Quiet

LEMMA Ends ==
  ASSUME IInv, NEW r \in Runs, MonitorPostsEnd(r)
  PROVE  IInv'
<1> USE DEF IInv
<1> DEFINE y == [[runs[r] EXCEPT !.mon = "posted"] EXCEPT !.manifest = FALSE]
<1> DEFINE m == [kind |-> "end", run |-> r, verdict |-> Verdict(runs[r])]
<1>1. RunOK(runs[r]) /\ Typed
  BY DEF Typed
<1>2. runs' = [runs EXCEPT ![r] = y] /\ runs[r].mon # "none" /\ runs[r].proc # "alive"
  BY DEF MonitorPostsEnd
<1>3. Settles(runs[r], y) /\ y.proc = runs[r].proc
  BY <1>1, <1>2, Fields
<1>4. m.run = r /\ posts' = Posted(m)
  BY DEF MonitorPostsEnd
<1> HIDE DEF y, m
<1>5. DOMAIN runs' = Runs /\ runs'[r] = y /\ \A q \in Runs : Settles(runs[q], runs'[q])
  BY <1>1, <1>2, <1>3, OneRun
<1>6. r <= runId
  BY <1>2 DEF Past
<1> QED
  BY <1>2, <1>3, <1>4, <1>5, <1>6, Posts DEF MonitorPostsEnd

LEMMA Reports ==
  ASSUME IInv, NEW r \in Runs, MonitorReports(r)
  PROVE  IInv'
<1> USE DEF IInv
<1> DEFINE y == [NoRun EXCEPT !.list = runs[r].list, !.cancel = runs[r].cancel,
                              !.mon = "failed"]
<1>1. Typed /\ runs[r].mon # "none"
  BY DEF MonitorReports
<1>2. runs' = [runs EXCEPT ![r] = y] /\ posts' = Posted([kind |-> "error"])
  BY DEF MonitorReports
<1>3. RunOK(y) /\ y.proc = "none"
  BY DEF NoRun, RunOK, Shaped
<1> HIDE DEF y
<1>4. Settles(runs[r], y)
  BY <1>1, <1>3 DEF Settles
<1>5. DOMAIN runs' = Runs /\ \A q \in Runs : Settles(runs[q], runs'[q])
  BY <1>1, <1>2, <1>4, OneRun
<1> QED
  BY <1>2, <1>5, Posts, [kind |-> "error"].kind # "end" DEF MonitorReports

\* The thread that failed ends its run: if it is the current one, nothing runs.
LEMMA Clears ==
  ASSUME IInv, NEW r \in Runs, MonitorClears(r)
  PROVE  IInv'
<1> USE DEF IInv
<1> DEFINE y == [runs[r] EXCEPT !.mon = "cleared"]
           cleared == [runs EXCEPT ![r].mon = "cleared"]
<1>1. RunOK(runs[r]) /\ Typed /\ runs[r].mon # "none"
  BY DEF Typed, MonitorClears
<1>2. Settles(runs[r], y) /\ cleared = [runs EXCEPT ![r] = y]
  BY <1>1, Fields
<1> HIDE DEF y
<1>3. DOMAIN cleared = Runs /\ \A q \in Runs : Settles(runs[q], cleared[q])
  <2>1. /\ DOMAIN cleared = Runs /\ cleared[r] = y
        /\ \A q \in Runs \ {r} : cleared[q] = runs[q]
    BY <1>1, <1>2 DEF Typed
  <2>2. \A q \in Runs : Settles(runs[q], runs[q])
    BY DEF Typed, Settles
  <2> QED
    BY <1>2, <2>1, <2>2
<1> HIDE DEF cleared
<1>4. UNCHANGED <<posts, runId>>
  BY DEF MonitorClears
<1>5. CASE runId # r
  <2>1. runs' = cleared /\ UNCHANGED <<active, activeChild>>
    BY <1>5 DEF MonitorClears, cleared
  <2> QED
    BY <1>3, <1>4, <2>1, Quiet
<1>6. CASE runId = r
  <2>1. active' = FALSE /\ activeChild' = 0
    BY <1>6 DEF MonitorClears
  <2>2. /\ DOMAIN runs' = Runs
        /\ \A q \in Runs : Settles(runs[q], runs'[q]) /\ runs'[q].proc # "alive"
    <3>1. CASE activeChild = 0
      <4>1. runs' = cleared
        BY <1>6, <3>1 DEF MonitorClears, cleared
      <4> QED
        BY <1>3, <3>1, <4>1 DEF AliveIsCurrent, Settles, Runs
    <3>2. CASE activeChild # 0
      <4> DEFINE t == Terminate(cleared[activeChild], TRUE)
      <4>1. activeChild \in Runs
        BY <3>2, StudioAssumption DEF Typed, Runs
      <4>2. Settles(cleared[activeChild], t) /\ t.proc # "alive"
        BY <1>3, <4>1, Terminates DEF Settles
      <4>3. runs' = [cleared EXCEPT ![activeChild] = t]
        BY <1>6, <3>2 DEF MonitorClears, cleared
      <4> HIDE DEF t
      <4>4. /\ DOMAIN runs' = Runs /\ runs'[activeChild] = t
            /\ \A q \in Runs \ {activeChild} : runs'[q] = cleared[q]
        BY <1>3, <4>1, <4>3
      <4>5. \A q \in Runs : Settles(runs[q], runs'[q])
        BY <1>3, <4>2, <4>4 DEF Settles
      <4>6. \A q \in Runs : runs'[q].proc # "alive"
        BY <4>2, <4>4, <4>5 DEF AliveIsCurrent, Settles
      <4> QED
        BY <4>4, <4>5, <4>6
    <3> QED
      BY <3>1, <3>2
  <2>3. activeChild' \in 0..MaxRuns
    BY <2>1, StudioAssumption
  <2>4. Typed'
    <3>1. active' \in BOOLEAN
      BY <2>1
    <3> QED
      BY <1>4, <2>2, <2>3, <3>1 DEF Typed, Settles
  <2>5. AliveIsCurrent' /\ Past'
    BY <1>4, <2>2 DEF AliveIsCurrent, Past, Settles
  <2> QED
    BY <2>4, <2>5
<1> QED
  BY <1>5, <1>6

----------------------------------------------------------------------------
(* The interface starts and stops runs. *)

\* No process runs while no run is active.
LEMMA Idle ==
  ASSUME IInv, ~active
  PROVE  \A r \in Runs : runs[r].proc # "alive"
BY DEF IInv, AliveIsCurrent

LEMMA Launches ==
  ASSUME IInv, ~active, runId < MaxRuns, runId' = runId + 1, posts' = posts,
         NEW kind, NEW list, Launch(kind, list)
  PROVE  IInv'
<1> USE DEF IInv
<1> DEFINE n == runId + 1
           new == [NoRun EXCEPT !.kind = kind, !.list = list, !.proc = "alive",
                                !.left = [i \in DOMAIN list |-> "todo"],
                                !.manifest = kind = "queue", !.mon = "watch"]
<1>1. n \in Runs /\ n \in 0..MaxRuns /\ runId \in Nat /\ n > runId
  BY StudioAssumption DEF Typed, Runs
<1>2. RunOK(new) /\ new.mon = "watch"
  BY DEF NoRun, RunOK, Shaped
<1>3. runs' = [r \in Runs |-> IF r = n THEN new
                 ELSE IF r = worker THEN [runs[r] EXCEPT !.stop = TRUE] ELSE runs[r]]
  BY DEF Launch
<1>4. active' = TRUE /\ activeChild' = n /\ runId' = n
  BY DEF Launch
<1> HIDE DEF n, new
<1>5. \A r \in Runs : Settles(runs[r], runs[r])
  BY DEF Typed, Settles
<1>6. DOMAIN runs' = Runs /\ runs'[n] = new
      /\ \A r \in Runs \ {n} : Settles(runs[r], runs'[r])
  <2>1. \A r \in Runs : Settles(runs[r], [runs[r] EXCEPT !.stop = TRUE])
    BY Fields DEF Typed
  <2> QED
    BY <1>1, <1>3, <1>5, <2>1
<1>7. \A r \in Runs \ {n} : runs'[r].proc # "alive"
  BY <1>6, Idle DEF Settles
<1>8. Typed'
  <2>1. active' \in BOOLEAN
    BY <1>4
  <2>2. \A r \in Runs : RunOK(runs'[r])
    BY <1>2, <1>6 DEF Settles
  <2> QED
    BY <1>1, <1>4, <1>6, <2>1, <2>2 DEF Typed
<1>9. AliveIsCurrent'
  BY <1>4, <1>7 DEF AliveIsCurrent
<1>10. Past'
  <2>1. \A r \in Runs : runs'[r].mon # "none" => r <= n
    BY <1>1, <1>6 DEF Past, Settles, Runs
  <2>2. \A i \in DOMAIN posts : posts[i].kind = "end" =>
          posts[i].run \in Runs \ {n} /\ posts[i].run <= n
    BY <1>1 DEF Past, Runs
  <2> QED
    BY <1>4, <1>7, <2>1, <2>2 DEF Past
<1> QED
  BY <1>8, <1>9, <1>10

LEMMA LaunchesNot ==
  ASSUME IInv, ~active, runId < MaxRuns, runId' = runId + 1, posts' = posts, LaunchFails
  PROVE  IInv'
<1> USE DEF IInv
<1>1. runId' \in 0..MaxRuns /\ runId \in Nat /\ \A r \in Runs : r <= runId => r <= runId'
  BY StudioAssumption DEF Typed, Runs
<1>2. active' = FALSE /\ activeChild' = 0 /\ runs' = runs
  BY DEF LaunchFails
<1>3. Typed'
  <2>1. active' \in BOOLEAN
    BY <1>2
  <2>2. activeChild' \in 0..MaxRuns
    BY <1>2, StudioAssumption
  <2> QED
    BY <1>1, <1>2, <2>1, <2>2 DEF Typed
<1>4. AliveIsCurrent'
  BY <1>2, Idle DEF AliveIsCurrent
<1>5. Past'
  BY <1>1, <1>2 DEF Past
<1> QED
  BY <1>3, <1>4, <1>5

\* A run starts from the queue or for the large-image row.
LEMMA RunStarts ==
  ASSUME IInv, StartLargeRun \/ \E f \in BOOLEAN : StartQueueRun(f)
  PROVE  IInv'
<1>1. CASE StartLargeRun
  BY <1>1, Launches, LaunchesNot DEF StartLargeRun
<1>2. ASSUME NEW f \in BOOLEAN, StartQueueRun(f)
      PROVE  IInv'
  BY <1>2, Launches, LaunchesNot DEF StartQueueRun
<1> QED
  BY <1>1, <1>2

\* A process is asked to stop, or terminated.
LEMMA RunStops ==
  ASSUME IInv, CancelRun \/ ForceStop
  PROVE  IInv'
<1> USE DEF IInv
<1>1. UNCHANGED <<runId, active, activeChild, posts>>
  BY DEF CancelRun, ForceStop
<1>2. DOMAIN runs' = Runs /\ \A r \in Runs : Settles(runs[r], runs'[r])
  <2>1. CASE runs' = runs
    BY <2>1 DEF Typed, Settles
  <2>2. CASE activeChild # 0 /\ \E ok \in BOOLEAN :
               \/ runs' = [runs EXCEPT ![activeChild] = RequestCancel(@)]
               \/ runs' = [runs EXCEPT ![activeChild] = Terminate(@, ok)]
    <3>1. activeChild \in Runs /\ Typed
      BY <2>2, StudioAssumption DEF Typed, Runs
    <3>2. \E y : Settles(runs[activeChild], y) /\ runs' = [runs EXCEPT ![activeChild] = y]
      BY <2>2, <3>1, Terminates DEF Typed
    <3> QED
      BY <3>1, <3>2, OneRun
  <2> QED
    BY <2>1, <2>2 DEF CancelRun, ForceStop
<1> QED
  BY <1>1, <1>2, Quiet

\* Closing the window terminates the process and drops what is posted.
LEMMA Closes ==
  ASSUME IInv, CloseWindow
  PROVE  IInv'
<1> USE DEF IInv
<1>1. UNCHANGED <<runId, active, activeChild>> /\ posts' = <<>>
  BY DEF CloseWindow
<1>2. PICK ok \in BOOLEAN :
        runs' = [r \in Runs |-> IF r = activeChild THEN Terminate(Stopped(r), ok)
                                                   ELSE Stopped(r)]
  BY DEF CloseWindow
<1>3. \A r \in Runs : Settles(runs[r], Stopped(r))
  <2>1. \A r \in Runs : Settles(runs[r], [runs[r] EXCEPT !.stop = TRUE])
    BY Fields DEF Typed
  <2>2. \A r \in Runs : Settles(runs[r], runs[r])
    BY DEF Typed, Settles
  <2> QED
    BY <2>1, <2>2 DEF Stopped
<1>4. \A r \in Runs : Settles(Stopped(r), Terminate(Stopped(r), ok))
  BY <1>3, Terminates DEF Settles
<1>5. \A r \in Runs : Settles(runs[r], Terminate(Stopped(r), ok))
  BY <1>3, <1>4 DEF Settles
<1>6. DOMAIN runs' = Runs /\ \A r \in Runs : Settles(runs[r], runs'[r])
  BY <1>2, <1>3, <1>5
<1>7. Sequence(posts') /\ DOMAIN posts' = {}
  BY <1>1, EmptySeq DEF Sequence
<1> QED
  BY <1>1, <1>6, <1>7, Stays

----------------------------------------------------------------------------
(* The event loop runs the oldest closure. *)

LEMMA Tails ==
  ASSUME Sequence(posts), posts # <<>>, posts' = Tail(posts)
  PROVE  /\ Sequence(posts') /\ 1 \in DOMAIN posts /\ Head(posts) = posts[1]
         /\ \A i \in DOMAIN posts' : \E j \in DOMAIN posts : posts'[i] = posts[j]
<1>1. PICK S : posts \in Seq(S)
  BY DEF Sequence
<1>2. /\ posts' \in Seq(S) /\ Len(posts') = Len(posts) - 1
      /\ \A i \in 1..Len(posts) - 1 : posts'[i] = posts[i + 1]
  BY <1>1, HeadTailProperties
<1>3. Len(posts) \in Nat /\ Len(posts) # 0 /\ DOMAIN posts = 1..Len(posts)
      /\ DOMAIN posts' = 1..Len(posts')
  BY <1>1, <1>2, LenProperties, EmptySeq
<1>4. \A i \in DOMAIN posts' : i + 1 \in DOMAIN posts /\ posts'[i] = posts[i + 1]
  BY <1>2, <1>3
<1>5. 1 \in DOMAIN posts /\ Head(posts) = posts[1]
  BY <1>1, <1>3, HeadTailProperties
<1> QED
  BY <1>2, <1>4, <1>5 DEF Sequence

LEMMA LoopRuns ==
  ASSUME IInv, RunPost
  PROVE  IInv'
<1> USE DEF IInv
<1> DEFINE m == Head(posts)
<1>1. /\ Sequence(posts') /\ m = posts[1] /\ 1 \in DOMAIN posts
      /\ \A i \in DOMAIN posts' : \E j \in DOMAIN posts : posts'[i] = posts[j]
  BY Tails DEF RunPost, Typed
<1>2. \/ UNCHANGED <<runId, active, activeChild, runs>>
      \/ m.kind = "end" /\ runId = m.run /\ EndRun(m)
  BY DEF RunPost, AddImport, ShowItem, EndRun, runVars, queueVars
<1> HIDE DEF m
<1>3. CASE UNCHANGED <<runId, active, activeChild, runs>>
  <2>1. DOMAIN runs' = Runs /\ \A r \in Runs : Settles(runs[r], runs'[r])
    BY <1>3 DEF Typed, Settles
  <2>2. \A i \in DOMAIN posts' : posts'[i].kind = "end" =>
          /\ posts'[i].run \in Runs /\ posts'[i].run <= runId
          /\ runs'[posts'[i].run].proc # "alive"
    BY <1>1, <1>3 DEF Past
  <2> QED
    BY <1>1, <1>3, <2>1, <2>2, Stays
<1>4. CASE m.kind = "end" /\ runId = m.run /\ EndRun(m)
  <2> DEFINE y == [NoRun EXCEPT !.mon = runs[runId].mon]
  <2>1. runId \in Runs
    BY <1>1, <1>4 DEF Past
  <2>2. /\ active' = FALSE /\ activeChild' = 0 /\ runId' = runId
        /\ runs' = [runs EXCEPT ![runId] = y]
    BY <1>4 DEF EndRun
  <2>3. RunOK(y) /\ y.proc = "none" /\ y.mon = runs[runId].mon
    BY DEF NoRun, RunOK, Shaped
  <2> HIDE DEF y
  <2>4. /\ DOMAIN runs' = Runs /\ runs'[runId] = y
        /\ \A r \in Runs \ {runId} : runs'[r] = runs[r]
    BY <2>1, <2>2 DEF Typed
  <2>5. \A r \in Runs : runs'[r].proc # "alive"
    BY <2>3, <2>4 DEF AliveIsCurrent
  <2>6. Typed'
    <3>1. active' \in BOOLEAN
      BY <2>2
    <3>2. activeChild' \in 0..MaxRuns
      BY <2>2, StudioAssumption
    <3>3. \A r \in Runs : RunOK(runs'[r])
      BY <2>3, <2>4 DEF Typed
    <3> QED
      BY <1>1, <2>2, <2>4, <3>1, <3>2, <3>3 DEF Typed
  <2>7. AliveIsCurrent'
    BY <2>5 DEF AliveIsCurrent
  <2>8. Past'
    <3>1. \A r \in Runs : runs'[r].mon # "none" => r <= runId'
      BY <2>2, <2>3, <2>4 DEF Past
    <3>2. \A i \in DOMAIN posts' : posts'[i].kind = "end" =>
            posts'[i].run \in Runs /\ posts'[i].run <= runId'
      BY <1>1, <2>2 DEF Past
    <3> QED
      BY <2>5, <3>1, <3>2 DEF Past
  <2> QED
    BY <2>6, <2>7, <2>8
<1> QED
  BY <1>2, <1>3, <1>4

----------------------------------------------------------------------------
(* Everything else leaves the runs alone. *)

LEMMA RunsUntouched ==
  ASSUME IInv, UNCHANGED <<runId, active, activeChild, runs, posts>>
  PROVE  IInv'
<1>1. DOMAIN runs' = Runs /\ \A r \in Runs : Settles(runs[r], runs'[r])
  BY DEF IInv, Typed, Settles
<1> QED
  BY <1>1, Quiet

\* The import thread posts results, never the end of a run.
LEMMA Imports ==
  ASSUME IInv, ImportStep
  PROVE  IInv'
<1>1. DOMAIN runs' = Runs /\ \A r \in Runs : Settles(runs[r], runs'[r])
  BY DEF IInv, Typed, Settles, ImportStep, runVars
<1>2. UNCHANGED <<runId, active, activeChild>>
  BY DEF ImportStep, runVars
<1>3. CASE ScanJob
  <2> DEFINE m == [kind |-> "import", request |-> Head(jobs), result |-> Scan(Head(jobs))]
  <2>1. m.kind # "end" /\ posts' = Append(posts, m)
    BY <1>3 DEF ScanJob
  <2> HIDE DEF m
  <2> QED
    BY <1>1, <1>2, <2>1, Posts
<1>4. CASE StopSeen
  BY <1>1, <1>2, <1>4, Quiet DEF StopSeen
<1> QED
  BY <1>3, <1>4 DEF ImportStep, ImportThread

\* Requests, edits of the queue and the last joins.
LEMMA Edits ==
  ASSUME IInv,
         \/ \E request \in Requests :
              IF Len(request) = 1 THEN PickPath(request[1]) ELSE DropPaths(request)
         \/ \E i \in DOMAIN queue :
              RemoveItem(i) \/ \E action \in MenuActions : MenuMove(i, action)
         \/ \E id \in Ids, slot \in 1..Len(queue) + 1 : DropItem(id, slot)
         \/ ClearTasks \/ JoinedLast \/ JoinMonitor \/ JoinImport \/ UNCHANGED vars
  PROVE  IInv'
<1>1. \A request : RequestImport(request) => UNCHANGED <<runVars, posts>>
  BY DEF RequestImport
<1>2. \A i, j : MoveItem(i, j) => UNCHANGED <<runVars, posts>>
  BY DEF MoveItem
<1>3. \A i : RemoveItem(i) => UNCHANGED <<runVars, posts>>
  BY DEF RemoveItem
<1>4. UNCHANGED <<runId, active, activeChild, runs, posts>>
  <2>1. ASSUME NEW request \in Requests,
               IF Len(request) = 1 THEN PickPath(request[1]) ELSE DropPaths(request)
        PROVE  UNCHANGED <<runVars, posts>>
    BY <1>1, <2>1 DEF PickPath, DropPaths
  <2>2. ASSUME NEW i \in DOMAIN queue,
               RemoveItem(i) \/ \E action \in MenuActions : MenuMove(i, action)
        PROVE  UNCHANGED <<runVars, posts>>
    BY <1>2, <1>3, <2>2 DEF MenuMove
  <2>3. ASSUME NEW id \in Ids, NEW slot, DropItem(id, slot)
        PROVE  UNCHANGED <<runVars, posts>>
    BY <1>2, <2>3 DEF DropItem
  <2>4. CASE ClearTasks \/ JoinedLast \/ JoinMonitor \/ JoinImport \/ UNCHANGED vars
    BY <2>4 DEF ClearTasks, JoinedLast, JoinMonitor, JoinImport, vars, runVars
  <2>5. UNCHANGED <<runVars, posts>> => UNCHANGED <<runId, active, activeChild, runs, posts>>
    BY DEF runVars
  <2> QED
    BY <2>1, <2>2, <2>3, <2>4, <2>5
<1> QED
  BY <1>4, RunsUntouched

\* Every step keeps the invariant.
LEMMA Kept == IInv /\ [Next]_vars => IInv'
<1> SUFFICES ASSUME IInv, [Next]_vars
             PROVE  IInv'
  OBVIOUS
<1>1. CASE User
  BY <1>1, RunStarts, RunStops, Closes, Edits DEF User
<1>2. CASE Loop \/ ImportStep
  BY <1>2, LoopRuns, Imports, Edits DEF Loop
<1>3. ASSUME NEW r \in Runs, WorkerWorks(r) \/ WorkerEnds(r)
      PROVE  IInv'
  BY <1>3, WorkerBegins, WorkerReports, WorkerGone DEF WorkerWorks, WorkerEnds
<1>4. ASSUME NEW r \in Runs, Monitor(r)
      PROVE  IInv'
  BY <1>4, Leaves, Ends, Clears, Reports DEF Monitor
<1>5. CASE Fails
  BY <1>5, Leaves, WorkerGone DEF Fails
<1>6. CASE Exited \/ UNCHANGED vars
  BY <1>6, Edits DEF Exited
<1> QED
  BY <1>1, <1>2, <1>3, <1>4, <1>5, <1>6 DEF Next, System

\* Only the current run has a process that runs.
LEMMA One == IInv => OneWorker
<1> SUFFICES ASSUME IInv PROVE OneWorker
  OBVIOUS
<1> DEFINE A == {r \in Runs : runs[r].proc = "alive"}
<1>1. A \subseteq {activeChild}
  BY DEF IInv, AliveIsCurrent
<1>2. IsFiniteSet({activeChild}) /\ Cardinality({activeChild}) = 1
  BY FS_Singleton
<1>3. Cardinality(A) <= 1
  BY <1>1, <1>2, FS_Subset
<1> QED
  BY <1>3 DEF OneWorker

\* At most one worker process of the Studio runs at any time, also when a monitor
\* thread fails and the next run starts before its closure was shown.
THEOREM WorkersOneAtATime == Spec => []OneWorker
<1>1. Spec => []IInv
  BY Starts, Kept, PTL DEF Spec
<1> QED
  BY <1>1, One, PTL

\* The manifest of a run is gone once its monitor has returned.
THEOREM NoManifestLeft == Spec => []ManifestRemoved
<1>1. Spec => []IInv
  BY Starts, Kept, PTL DEF Spec
<1>2. IInv => ManifestRemoved
  BY DEF IInv, Typed, RunOK, ManifestRemoved
<1> QED
  BY <1>1, <1>2, PTL

----------------------------------------------------------------------------
(* Induction on numbers, from the fact that no finite set fits into a smaller one. *)

\* A set of numbers closed under successor has them all: otherwise the successor
\* would map its numbers below a missing one into themselves without 0.
LEMMA Induction ==
  ASSUME NEW S \in SUBSET Nat, 0 \in S, \A n \in S : n + 1 \in S
  PROVE  S = Nat
<1> SUFFICES ASSUME NEW N \in Nat, N \notin S PROVE FALSE
  OBVIOUS
<1> DEFINE X == {n \in S : n <= N}
           f == [n \in X |-> n + 1]
<1>1. IsFiniteSet(X) /\ 0 \in X
  BY FS_BoundedSetOfNaturals
<1>2. IsFiniteSet(X \ {0}) /\ Cardinality(X \ {0}) = Cardinality(X) - 1
      /\ Cardinality(X) \in Nat
  BY <1>1, FS_RemoveElement, FS_CardinalityType
<1>3. f \in [X -> X \ {0}]
  <2>1. ASSUME NEW n \in X PROVE n + 1 \in X \ {0}
    BY <2>1
  <2> QED
    BY <2>1
<1>4. \E x, y \in X : x # y /\ f[x] = f[y]
  <2> HIDE DEF X, f
  <2>1. Cardinality(X \ {0}) < Cardinality(X)
    BY <1>2
  <2> QED
    BY <1>1, <1>2, <1>3, <2>1, FS_PigeonHole
<1> QED
  BY <1>4

\* The first n steps of F from a.
Iterates(g, a, F, n) == g[0] = a /\ \A k \in 1..n : g[k] = F[g[k - 1]]

\* Taking a step N times over is a function of the number of steps.
LEMMA Iteration ==
  ASSUME NEW A, NEW a \in A, NEW F \in [A -> A], NEW N \in Nat
  PROVE  \E g \in [0..N -> A] : Iterates(g, a, F, N)
<1> DEFINE Upto(n, g) == g[0] = a /\ \A k \in 1..n : g[k] = F[g[k - 1]]
           S == {n \in Nat : \E g \in [0..n -> A] : Upto(n, g)}
<1>1. 0 \in S
  <2>1. [k \in 0..0 |-> a] \in [0..0 -> A] /\ Upto(0, [k \in 0..0 |-> a])
    OBVIOUS
  <2> QED
    BY <2>1
<1>2. ASSUME NEW n \in S PROVE n + 1 \in S
  <2>1. PICK g \in [0..n -> A] : Upto(n, g)
    OBVIOUS
  <2> DEFINE h == [k \in 0..n + 1 |-> IF k = n + 1 THEN F[g[n]] ELSE g[k]]
  <2>2. h \in [0..n + 1 -> A]
    <3>1. F[g[n]] \in A
      BY <2>1
    <3> QED
      BY <2>1, <3>1
  <2>3. h[0] = a /\ h[n + 1] = F[g[n]] /\ h[n] = g[n]
    BY <2>1
  <2>4. ASSUME NEW k \in 1..n PROVE h[k] = F[h[k - 1]]
    <3>1. h[k] = g[k] /\ h[k - 1] = g[k - 1]
      BY <2>4
    <3> QED
      BY <2>1, <3>1
  <2> HIDE DEF h
  <2>5. \A k \in 1..n + 1 : k \in 1..n \/ k = n + 1
    OBVIOUS
  <2>6. n + 1 - 1 = n
    OBVIOUS
  <2>7. Upto(n + 1, h)
    BY <2>3, <2>4, <2>5, <2>6
  <2> QED
    BY <2>2, <2>7
<1>3. PICK g \in [0..N -> A] : Upto(N, g)
  <2>1. S \in SUBSET Nat
    OBVIOUS
  <2> HIDE DEF S
  <2>2. N \in S
    BY <1>1, <1>2, <2>1, Induction
  <2> QED
    BY <2>2 DEF S
<1> QED
  BY <1>3 DEF Iterates

----------------------------------------------------------------------------
(* The scan of a request. *)

Results == [files : SUBSET Paths, visited : Nat, dup : Nat, odd : Nat, gone : Nat]
Scans == [roots : Seq(Paths), pending : Seq(Paths), entries : Seq(Paths),
          result : Results]

\* What holds at the start of a scan and is kept by its steps holds at its end.
LEMMA ScanInduction ==
  ASSUME NEW request \in Requests, NEW I, ScanStart(request) \in I,
         \A s \in I : ScanStep(s) \in I
  PROVE  ScanOf[request] \in I
<1> USE TreeAssumption
<1> DEFINE F == [s \in I |-> ScanStep(s)]
           Solves(g) == g = [n \in 0..ScanSteps |->
                          IF n = 0 THEN ScanStart(request) ELSE ScanStep(g[n - 1])]
           after == CHOOSE g : Solves(g)
<1>1. F \in [I -> I]
  OBVIOUS
<1>2. PICK g \in [0..ScanSteps -> I] : Iterates(g, ScanStart(request), F, ScanSteps)
  <2> HIDE DEF F
  <2> DEFINE a == ScanStart(request)
  <2>1. a \in I
    OBVIOUS
  <2> HIDE DEF a
  <2>2. \E g \in [0..ScanSteps -> I] : Iterates(g, a, F, ScanSteps)
    BY <1>1, <2>1, Iteration
  <2> QED
    BY <2>2 DEF a
<1>3. g = [n \in 0..ScanSteps |-> IF n = 0 THEN ScanStart(request) ELSE ScanStep(g[n - 1])]
  <2>1. \A n \in 0..ScanSteps : n # 0 => n \in 1..ScanSteps /\ n - 1 \in 0..ScanSteps
    OBVIOUS
  <2>2. \A n \in 0..ScanSteps : n # 0 => g[n - 1] \in I /\ F[g[n - 1]] = ScanStep(g[n - 1])
    BY <1>2, <2>1
  <2> HIDE DEF F
  <2>3. \A n \in 0..ScanSteps : g[n] = IF n = 0 THEN ScanStart(request) ELSE ScanStep(g[n - 1])
    BY <1>2, <2>1, <2>2 DEF Iterates
  <2> QED
    BY <1>2, <2>3
<1>4. Solves(after)
  <2>1. Solves(g)
    BY <1>3
  <2> HIDE DEF Solves
  <2> QED
    BY <2>1, Zenon
<1>6. ScanOf[request] = after[ScanSteps]
  BY DEF ScanOf
<1> HIDE DEF F, after
<1>5. \A n \in 0..ScanSteps : after[n] \in I
  <2> DEFINE S == {n \in Nat : n <= ScanSteps => after[n] \in I}
  <2>1. 0 \in S
    BY <1>4
  <2>2. ASSUME NEW n \in S PROVE n + 1 \in S
    <3> SUFFICES ASSUME n + 1 <= ScanSteps PROVE after[n + 1] \in I
      OBVIOUS
    <3>1. after[n] \in I /\ n + 1 \in 0..ScanSteps /\ n + 1 # 0 /\ n + 1 - 1 = n
      OBVIOUS
    <3>2. after[n + 1] = ScanStep(after[n])
      BY <1>4, <3>1
    <3> QED
      BY <3>1, <3>2
  <2>3. S \in SUBSET Nat
    OBVIOUS
  <2> HIDE DEF S
  <2>4. S = Nat
    BY <2>1, <2>2, <2>3, Induction
  <2> QED
    BY <2>4 DEF S
<1> QED
  BY <1>5, <1>6

\* The first element of a sequence and the rest of it, and one more in front.
LEMMA Parts ==
  ASSUME NEW S, NEW s \in Seq(S)
  PROVE  /\ Range(s) \subseteq S
         /\ s # <<>> => /\ Head(s) \in S /\ Tail(s) \in Seq(S)
                        /\ Range(s) = {Head(s)} \cup Range(Tail(s))
         /\ \A x \in S : <<x>> \o s \in Seq(S) /\ Range(<<x>> \o s) = {x} \cup Range(s)
<1> DEFINE n == Len(s)
<1>1. n \in Nat /\ s \in [1..n -> S] /\ DOMAIN s = 1..n /\ Range(s) \subseteq S
  BY LenProperties DEF Range
<1>2. ASSUME s # <<>>
      PROVE  /\ Head(s) \in S /\ Tail(s) \in Seq(S)
             /\ Range(s) = {Head(s)} \cup Range(Tail(s))
  <2>1. n # 0 /\ Head(s) = s[1]
    BY <1>2, EmptySeq
  <2>2. /\ Head(s) \in S /\ Tail(s) \in Seq(S)
        /\ DOMAIN Tail(s) = 1..n - 1 /\ \A i \in 1..n - 1 : Tail(s)[i] = s[i + 1]
    BY <1>2, HeadTailProperties, LenProperties
  <2>3. \A i \in 1..n : i = 1 \/ (i - 1 \in 1..n - 1 /\ i - 1 + 1 = i)
    BY <1>1
  <2>4. Range(s) \subseteq {Head(s)} \cup Range(Tail(s))
    BY <1>1, <2>1, <2>2, <2>3 DEF Range
  <2>5. {Head(s)} \cup Range(Tail(s)) \subseteq Range(s)
    <3>1. 1 \in 1..n /\ \A i \in 1..n - 1 : i + 1 \in 1..n
      BY <1>1, <2>1
    <3> QED
      BY <1>1, <2>1, <2>2, <3>1 DEF Range
  <2> QED
    BY <2>2, <2>4, <2>5
<1>3. ASSUME NEW x \in S
      PROVE  <<x>> \o s \in Seq(S) /\ Range(<<x>> \o s) = {x} \cup Range(s)
  <2> DEFINE t == <<x>> \o s
  <2> DEFINE u == <<x>>
  <2>1. u \in Seq(S) /\ Len(u) = 1 /\ u[1] = x
    OBVIOUS
  <2>2. t \in Seq(S) /\ DOMAIN t = 1..n + 1
        /\ \A i \in 1..n + 1 : t[i] = IF i <= 1 THEN x ELSE s[i - 1]
    <3> HIDE DEF u
    <3>1. /\ u \o s \in Seq(S) /\ Len(u \o s) = Len(u) + Len(s)
          /\ \A i \in 1..Len(u) + Len(s) :
               (u \o s)[i] = IF i <= Len(u) THEN u[i] ELSE s[i - Len(u)]
      BY <2>1, ConcatProperties
    <3>2. /\ u \o s \in Seq(S) /\ Len(u \o s) = n + 1
          /\ \A i \in 1..n + 1 : (u \o s)[i] = IF i <= 1 THEN u[i] ELSE s[i - 1]
      <4>1. Len(u) + Len(s) = n + 1
        BY <1>1, <2>1
      <4> QED
        BY <2>1, <3>1, <4>1
    <3>3. DOMAIN (u \o s) = 1..n + 1
      BY <3>2, LenProperties
    <3>4. \A i \in 1..n + 1 : i <= 1 => u[i] = x
      BY <1>1, <2>1
    <3>5. t = u \o s
      BY DEF u
    <3> HIDE DEF t
    <3> QED
      BY <3>2, <3>3, <3>4, <3>5
  <2> HIDE DEF t
  <2>3. Range(t) \subseteq {x} \cup Range(s)
    <3>1. \A i \in 1..n + 1 : i <= 1 \/ i - 1 \in 1..n
      BY <1>1
    <3> QED
      BY <1>1, <2>2, <3>1 DEF Range
  <2>4. {x} \cup Range(s) \subseteq Range(t)
    <3>1. 1 \in 1..n + 1 /\ \A i \in 1..n : i + 1 \in 1..n + 1 /\ ~(i + 1 <= 1) /\ i + 1 - 1 = i
      BY <1>1
    <3>2. t[1] = x
      BY <2>2, <3>1
    <3>3. \A i \in 1..n : t[i + 1] = s[i]
      BY <2>2, <3>1
    <3> QED
      BY <1>1, <2>2, <3>1, <3>2, <3>3 DEF Range
  <2> QED
    BY <2>2, <2>3, <2>4 DEF t
<1> QED
  BY <1>1, <1>2, <1>3

\* A set without a repeated key has as many elements as keys.
LEMMA KeysCount ==
  ASSUME NEW F \in SUBSET Paths, IsFiniteSet(F),
         \A p, q \in F : Key(p) = Key(q) => p = q
  PROVE  Cardinality(F) = Cardinality({Key(p) : p \in F})
<1> DEFINE K == {Key(p) : p \in F}
           f == [p \in F |-> Key(p)]
<1>1. f \in [F -> K] /\ (\A a, b \in F : f[a] = f[b] => a = b)
      /\ \A t \in K : \E s \in F : f[s] = t
  OBVIOUS
<1> HIDE DEF f, K
<1>2. f \in Injection(F, K)
  BY <1>1, Fun_IsInj
<1>3. f \in Surjection(F, K)
  BY <1>1, Fun_IsSurj
<1>4. Cardinality(K) = Cardinality(F)
  BY <1>2, <1>3, FS_Surjection
<1> QED
  BY <1>4 DEF K

\* What is true of the files and counts of a scan at any time.
Accounted(r) ==
  /\ r \in Results /\ IsFiniteSet(r.files)
  /\ Cardinality(r.files) + r.dup + r.odd + r.gone = r.visited
  /\ \A f \in r.files : Tree[f].kind = "image"
  /\ \A f, g \in r.files : Key(f) = Key(g) => f = g

\* The ways a result grows by one entry.
Result(f, v, d, o, g) == [files |-> f, visited |-> v, dup |-> d, odd |-> o, gone |-> g]

LEMMA Grows ==
  ASSUME NEW r \in Results, NEW p
  PROVE  /\ r.visited \in Nat /\ r.dup \in Nat /\ r.odd \in Nat /\ r.gone \in Nat
         /\ [r EXCEPT !.visited = @ + 1, !.gone = @ + 1]
              = Result(r.files, r.visited + 1, r.dup, r.odd, r.gone + 1)
         /\ [r EXCEPT !.visited = @ + 1, !.odd = @ + 1]
              = Result(r.files, r.visited + 1, r.dup, r.odd + 1, r.gone)
         /\ [r EXCEPT !.visited = @ + 1, !.dup = @ + 1]
              = Result(r.files, r.visited + 1, r.dup + 1, r.odd, r.gone)
         /\ [r EXCEPT !.visited = @ + 1, !.files = @ \cup {p}]
              = Result(r.files \cup {p}, r.visited + 1, r.dup, r.odd, r.gone)
<1> DEFINE f == r.files  v == r.visited  d == r.dup  o == r.odd  g == r.gone
           t == [r EXCEPT !.visited = v + 1]
<1>1. r = Result(f, v, d, o, g) /\ v \in Nat /\ d \in Nat /\ o \in Nat /\ g \in Nat
  BY DEF Results, Result
<1>2. t = Result(f, v + 1, d, o, g)
  <2> HIDE DEF f, v, d, o, g
  <2>1. [r EXCEPT !.visited = v + 1] = Result(f, v + 1, d, o, g)
    BY <1>1 DEF Result
  <2> QED
    BY <2>1
<1>4. t.gone = g /\ t.odd = o /\ t.dup = d /\ t.files = f
  BY <1>2 DEF Result
<1>3. /\ [t EXCEPT !.gone = g + 1] = Result(f, v + 1, d, o, g + 1)
      /\ [t EXCEPT !.odd = o + 1] = Result(f, v + 1, d, o + 1, g)
      /\ [t EXCEPT !.dup = d + 1] = Result(f, v + 1, d + 1, o, g)
      /\ [t EXCEPT !.files = f \cup {p}] = Result(f \cup {p}, v + 1, d, o, g)
  <2> HIDE DEF f, v, d, o, g, t
  <2>1. [t EXCEPT !.gone = g + 1] = Result(f, v + 1, d, o, g + 1)
    BY <1>2 DEF Result
  <2>2. [t EXCEPT !.odd = o + 1] = Result(f, v + 1, d, o + 1, g)
    BY <1>2 DEF Result
  <2>3. [t EXCEPT !.dup = d + 1] = Result(f, v + 1, d + 1, o, g)
    BY <1>2 DEF Result
  <2>4. [t EXCEPT !.files = f \cup {p}] = Result(f \cup {p}, v + 1, d, o, g)
    BY <1>2 DEF Result
  <2> QED
    BY <2>1, <2>2, <2>3, <2>4
<1> QED
  BY <1>1, <1>3, <1>4

\* An entry is accounted for, and an image is found under its key.
LEMMA FileAccounted ==
  ASSUME NEW r, Accounted(r), NEW p \in Paths, Tree[p].kind \notin {"dir", "link"}
  PROVE  LET t == AppendFile(r, p)
         IN /\ Accounted(t) /\ r.files \subseteq t.files /\ t.files \subseteq r.files \cup {p}
            /\ Tree[p].kind = "image" => \E f \in t.files : Key(f) = Key(p)
<1> DEFINE t == AppendFile(r, p)
<1> USE DEF Accounted
<1>r. r \in Results
  OBVIOUS
<1>0. Tree[p].kind \in {"image", "odd", "gone"}
  BY TreeAssumption DEF Kinds
<1>1. Cardinality(r.files) \in Nat /\ r.visited \in Nat /\ r.dup \in Nat /\ r.odd \in Nat
      /\ r.gone \in Nat
  <2>1. Cardinality(r.files) \in Nat
    BY FS_CardinalityType
  <2> QED
    BY <1>r, <2>1 DEF Results
<1> DEFINE Fields4(v, d, o, g) ==
             /\ t \in Results /\ t.visited = v /\ t.dup = d /\ t.odd = o /\ t.gone = g
<1>2. CASE Tree[p].kind = "gone"
  <2>1. t = Result(r.files, r.visited + 1, r.dup, r.odd, r.gone + 1)
    <3>1. t = [r EXCEPT !.visited = @ + 1, !.gone = @ + 1]
      BY <1>2 DEF AppendFile
    <3>2. [r EXCEPT !.visited = @ + 1, !.gone = @ + 1]
            = Result(r.files, r.visited + 1, r.dup, r.odd, r.gone + 1)
      BY <1>r, Grows, Zenon
    <3> QED
      BY <3>1, <3>2
  <2>2. Fields4(r.visited + 1, r.dup, r.odd, r.gone + 1) /\ t.files = r.files
    BY <1>1, <2>1 DEF Results, Result
  <2> HIDE DEF t
  <2> QED
    BY <1>1, <1>2, <2>2 DEF t
<1>3. CASE Tree[p].kind = "odd"
  <2>1. t = Result(r.files, r.visited + 1, r.dup, r.odd + 1, r.gone)
    <3>1. t = [r EXCEPT !.visited = @ + 1, !.odd = @ + 1]
      BY <1>3 DEF AppendFile
    <3>2. [r EXCEPT !.visited = @ + 1, !.odd = @ + 1]
            = Result(r.files, r.visited + 1, r.dup, r.odd + 1, r.gone)
      BY <1>r, Grows, Zenon
    <3> QED
      BY <3>1, <3>2
  <2>2. Fields4(r.visited + 1, r.dup, r.odd + 1, r.gone) /\ t.files = r.files
    BY <1>1, <2>1 DEF Results, Result
  <2> HIDE DEF t
  <2> QED
    BY <1>1, <1>3, <2>2 DEF t
<1>4. CASE Tree[p].kind = "image" /\ \E f \in r.files : Key(f) = Key(p)
  <2>1. t = Result(r.files, r.visited + 1, r.dup + 1, r.odd, r.gone)
    <3>1. t = [r EXCEPT !.visited = @ + 1, !.dup = @ + 1]
      BY <1>4 DEF AppendFile
    <3>2. [r EXCEPT !.visited = @ + 1, !.dup = @ + 1]
            = Result(r.files, r.visited + 1, r.dup + 1, r.odd, r.gone)
      BY <1>r, Grows, Zenon
    <3> QED
      BY <3>1, <3>2
  <2>2. Fields4(r.visited + 1, r.dup + 1, r.odd, r.gone) /\ t.files = r.files
    BY <1>1, <2>1 DEF Results, Result
  <2> HIDE DEF t
  <2> QED
    BY <1>1, <1>4, <2>2 DEF t
<1>5. CASE Tree[p].kind = "image" /\ ~\E f \in r.files : Key(f) = Key(p)
  <2>1. t = Result(r.files \cup {p}, r.visited + 1, r.dup, r.odd, r.gone)
    <3>1. t = [r EXCEPT !.visited = @ + 1, !.files = @ \cup {p}]
      BY <1>5 DEF AppendFile
    <3>2. [r EXCEPT !.visited = @ + 1, !.files = @ \cup {p}]
            = Result(r.files \cup {p}, r.visited + 1, r.dup, r.odd, r.gone)
      BY <1>r, Grows, Zenon
    <3> QED
      BY <3>1, <3>2
  <2>2. p \notin r.files
    BY <1>5
  <2>3. IsFiniteSet(r.files \cup {p}) /\ Cardinality(r.files \cup {p}) = Cardinality(r.files) + 1
    BY <2>2, FS_AddElement
  <2>4. Fields4(r.visited + 1, r.dup, r.odd, r.gone) /\ t.files = r.files \cup {p}
    BY <1>1, <2>1 DEF Results, Result
  <2> HIDE DEF t
  <2> QED
    BY <1>1, <1>5, <2>3, <2>4 DEF t
<1> QED
  BY <1>0, <1>2, <1>3, <1>4, <1>5

----------------------------------------------------------------------------
(* What a scan has done of its request q and what is left of it: roots R, folders *)
(* P, entries E, and the files F found so far.                                     *)

\* Only what belongs to the request is visited.
Reached(q, X) == \A S \in SUBSET Paths : q \subseteq S /\ Closed(S) => X \subseteq S

\* The paths a scan is done with when it has opened the folders D.
Seen(D, P, F) ==
  {p \in Paths : /\ Tree[p].kind = "dir" => p \in D \cup P
                 /\ Tree[p].kind = "image" => \E f \in F : Key(f) = Key(p)}

\* Everything the request leads to is seen or left.
Covers(q, R, P, E, F) == \E D \in SUBSET Paths :
  /\ q \subseteq R \cup Seen(D, P, F)
  /\ \A p \in D : Range(Tree[p].kids) \subseteq E \cup Seen(D, P, F)

\* A path is done with: it is seen from now on.
LEMMA Covered ==
  ASSUME NEW q, NEW R, NEW P, NEW E, NEW F, NEW RR, NEW PP, NEW EE, NEW FF,
         Covers(q, R, P, E, F), NEW p \in Seen({}, PP, FF),
         R \subseteq RR \cup {p}, E \subseteq EE \cup {p}, P \subseteq PP, F \subseteq FF
  PROVE  Covers(q, RR, PP, EE, FF)
<1>1. PICK D \in SUBSET Paths :
        /\ q \subseteq R \cup Seen(D, P, F)
        /\ \A x \in D : Range(Tree[x].kids) \subseteq E \cup Seen(D, P, F)
  BY DEF Covers
<1>2. Seen(D, P, F) \cup {p} \subseteq Seen(D, PP, FF)
  BY DEF Seen
<1>3. q \subseteq RR \cup Seen(D, PP, FF)
  BY <1>1, <1>2
<1>4. \A x \in D : Range(Tree[x].kids) \subseteq EE \cup Seen(D, PP, FF)
  BY <1>1, <1>2
<1> QED
  BY <1>1, <1>3, <1>4 DEF Covers

\* A folder is opened: its entries are left.
LEMMA Opened ==
  ASSUME NEW q, NEW R, NEW P, NEW F, NEW PP, NEW p \in Paths,
         Covers(q, R, P, {}, F), P = {p} \cup PP
  PROVE  Covers(q, R, PP, Range(Tree[p].kids), F)
<1>1. PICK D \in SUBSET Paths :
        /\ q \subseteq R \cup Seen(D, P, F)
        /\ \A x \in D : Range(Tree[x].kids) \subseteq Seen(D, P, F)
  BY DEF Covers
<1>2. Seen(D, P, F) = Seen(D \cup {p}, PP, F)
  BY DEF Seen
<1>3. D \cup {p} \in SUBSET Paths
  OBVIOUS
<1>4. \A x \in D \cup {p} : Range(Tree[x].kids)
                              \subseteq Range(Tree[p].kids) \cup Seen(D \cup {p}, PP, F)
  BY <1>1, <1>2
<1> QED
  BY <1>1, <1>2, <1>3, <1>4 DEF Covers

\* What a folder of the request holds belongs to the request.
LEMMA Reaches ==
  ASSUME NEW q, NEW X, Reached(q, X), NEW p \in X \cap Paths, Tree[p].kind = "dir"
  PROVE  Reached(q, X \cup Range(Tree[p].kids))
<1> SUFFICES ASSUME NEW S \in SUBSET Paths, q \subseteq S, Closed(S)
             PROVE  Range(Tree[p].kids) \subseteq S /\ X \subseteq S
  BY DEF Reached
<1>1. X \subseteq S
  BY DEF Reached
<1>2. \A i \in DOMAIN Tree[p].kids : Tree[p].kids[i] \in S
  BY <1>1 DEF Closed
<1> QED
  BY <1>1, <1>2 DEF Range

\* What holds of a scan throughout.
Follows(q, ro, pe, en, re) ==
  /\ ro \in Seq(Paths) /\ pe \in Seq(Paths) /\ en \in Seq(Paths) /\ Accounted(re)
  /\ \A p \in Range(pe) : Tree[p].kind = "dir"
  /\ Reached(q, Range(ro) \cup Range(pe) \cup Range(en) \cup re.files)
  /\ Covers(q, Range(ro), Range(pe), Range(en), re.files)

Scanning(q) == {s \in Scans : Follows(q, s.roots, s.pending, s.entries, s.result)}

\* The end of a scan: every image of the request is found and nothing else.
LEMMA ScanDone ==
  ASSUME NEW request \in Requests, NEW r, Follows(Range(request), <<>>, <<>>, <<>>, r)
  PROVE  {Key(p) : p \in r.files} = {Key(p) : p \in Images[request]}
<1> DEFINE q == Range(request)
<1>1. Range(<<>>) = {}
  BY DEF Range
<1>2. Accounted(r) /\ Reached(q, r.files) /\ Covers(q, {}, {}, {}, r.files)
  BY <1>1 DEF Follows
<1>3. Images[request] = {p \in Paths : /\ Tree[p].kind = "image"
                                       /\ \A S \in SUBSET Paths : q \subseteq S /\ Closed(S) => p \in S}
  BY DEF Images
<1>4. r.files \subseteq Images[request]
  <2>1. r.files \in SUBSET Paths /\ \A f \in r.files : Tree[f].kind = "image"
    BY <1>2 DEF Accounted, Results
  <2> QED
    BY <1>2, <1>3, <2>1 DEF Reached
<1>5. ASSUME NEW p \in Images[request] PROVE \E f \in r.files : Key(f) = Key(p)
  <2>1. PICK D \in SUBSET Paths :
          /\ q \subseteq Seen(D, {}, r.files)
          /\ \A x \in D : Range(Tree[x].kids) \subseteq Seen(D, {}, r.files)
    BY <1>2 DEF Covers
  <2>2. Closed(Seen(D, {}, r.files))
    <3> SUFFICES ASSUME NEW x \in Seen(D, {}, r.files), Tree[x].kind = "dir",
                        NEW i \in DOMAIN Tree[x].kids
                 PROVE  Tree[x].kids[i] \in Seen(D, {}, r.files)
      BY DEF Closed
    <3>1. x \in D
      BY DEF Seen
    <3> QED
      BY <2>1, <3>1 DEF Range
  <2>3. Seen(D, {}, r.files) \in SUBSET Paths
    BY DEF Seen
  <2>4. p \in Seen(D, {}, r.files) /\ Tree[p].kind = "image"
    BY <1>3, <1>5, <2>1, <2>2, <2>3
  <2> QED
    BY <2>4 DEF Seen
<1> QED
  BY <1>4, <1>5

\* A path that is no folder, entry or root, is counted.
LEMMA EntryCounted ==
  ASSUME NEW q, NEW ro, NEW pe, NEW en, NEW re, Follows(q, ro, pe, en, re),
         NEW rr, NEW ee, NEW p \in Paths, Tree[p].kind \notin {"dir", "link"},
         rr \in Seq(Paths), ee \in Seq(Paths),
         Range(ro) \cup Range(en) = {p} \cup Range(rr) \cup Range(ee),
         Range(rr) \subseteq Range(ro), Range(ee) \subseteq Range(en),
         Range(ro) \subseteq Range(rr) \cup {p}, Range(en) \subseteq Range(ee) \cup {p}
  PROVE  Follows(q, rr, pe, ee, AppendFile(re, p))
<1> DEFINE t == AppendFile(re, p)
<1>1. /\ Accounted(t) /\ re.files \subseteq t.files /\ t.files \subseteq re.files \cup {p}
      /\ Tree[p].kind = "image" => \E f \in t.files : Key(f) = Key(p)
  BY FileAccounted DEF Follows
<1> HIDE DEF t
<1>2. p \in Seen({}, Range(pe), t.files)
  BY <1>1 DEF Seen
<1>3. Covers(q, Range(rr), Range(pe), Range(ee), t.files)
  BY <1>1, <1>2, Covered DEF Follows
<1>4. Reached(q, Range(rr) \cup Range(pe) \cup Range(ee) \cup t.files)
  BY <1>1 DEF Follows, Reached
<1> QED
  BY <1>1, <1>3, <1>4 DEF Follows, t

\* A link is not followed; as a root it is counted as gone.
LEMMA LinkSkipped ==
  ASSUME NEW q, NEW ro, NEW pe, NEW en, NEW re, Follows(q, ro, pe, en, re),
         NEW rr, NEW ee, NEW p \in Paths, Tree[p].kind = "link",
         rr \in Seq(Paths), ee \in Seq(Paths),
         Range(rr) \subseteq Range(ro), Range(ee) \subseteq Range(en),
         Range(ro) \subseteq Range(rr) \cup {p}, Range(en) \subseteq Range(ee) \cup {p},
         NEW t, Accounted(t), t.files = re.files
  PROVE  Follows(q, rr, pe, ee, t)
<1>1. p \in Seen({}, Range(pe), t.files)
  BY DEF Seen
<1>2. Covers(q, Range(rr), Range(pe), Range(ee), t.files)
  BY <1>1, Covered DEF Follows
<1>3. Reached(q, Range(rr) \cup Range(pe) \cup Range(ee) \cup t.files)
  BY DEF Follows, Reached
<1> QED
  BY <1>2, <1>3 DEF Follows

\* A folder, entry or root, is left for later.
LEMMA FolderLeft ==
  ASSUME NEW q, NEW ro, NEW pe, NEW en, NEW re, Follows(q, ro, pe, en, re),
         NEW rr, NEW pp, NEW ee, NEW p \in Paths, Tree[p].kind = "dir",
         rr \in Seq(Paths), ee \in Seq(Paths), pp \in Seq(Paths),
         Range(pp) = {p} \cup Range(pe), p \in Range(ro) \cup Range(en),
         Range(rr) \subseteq Range(ro), Range(ee) \subseteq Range(en),
         Range(ro) \subseteq Range(rr) \cup {p}, Range(en) \subseteq Range(ee) \cup {p}
  PROVE  Follows(q, rr, pp, ee, re)
<1>1. p \in Seen({}, Range(pp), re.files)
  BY DEF Seen
<1>2. Covers(q, Range(rr), Range(pp), Range(ee), re.files)
  BY <1>1, Covered DEF Follows
<1>3. Reached(q, Range(rr) \cup Range(pp) \cup Range(ee) \cup re.files)
  BY DEF Follows, Reached
<1> QED
  BY <1>2, <1>3 DEF Follows

\* A folder is read.
LEMMA FolderRead ==
  ASSUME NEW q, NEW ro, NEW pe, NEW re, Follows(q, ro, pe, <<>>, re), pe # <<>>
  PROVE  Follows(q, ro, Tail(pe), Tree[Head(pe)].kids, re)
<1> DEFINE p == Head(pe)
           pp == Tail(pe)
           kids == Tree[p].kids
<1>1. p \in Paths /\ pp \in Seq(Paths) /\ Range(pe) = {p} \cup Range(pp)
  BY Parts DEF Follows
<1>2. Range(<<>>) = {}
  BY DEF Range
<1>3. kids \in Seq(Paths) /\ Tree[p].kind = "dir"
  BY <1>1, TreeAssumption DEF Follows
<1> HIDE DEF p, pp
<1>4. Covers(q, Range(ro), Range(pp), Range(kids), re.files)
  BY <1>1, <1>2, Opened DEF Follows
<1>5. Reached(q, Range(ro) \cup Range(pp) \cup Range(kids) \cup re.files)
  <2> DEFINE X == Range(ro) \cup Range(pe) \cup re.files
  <2>1. Reached(q, X) /\ p \in X \cap Paths
    BY <1>1, <1>2 DEF Follows
  <2> HIDE DEF X, kids
  <2>2. Reached(q, X \cup Range(kids))
    BY <1>3, <2>1, Reaches DEF kids
  <2> QED
    BY <1>1, <2>2 DEF Reached, X
<1> QED
  BY <1>1, <1>3, <1>4, <1>5 DEF Follows, p, pp

\* A scan as its four parts.
At(ro, pe, en, re) == [roots |-> ro, pending |-> pe, entries |-> en, result |-> re]

LEMMA Parted ==
  ASSUME NEW q, NEW ro, NEW pe, NEW en, NEW re
  PROVE  Follows(q, ro, pe, en, re) => At(ro, pe, en, re) \in Scanning(q)
  BY DEF Scanning, Scans, Follows, Accounted, At

\* A link refused as a root counts as gone.
LEMMA RootGone ==
  ASSUME NEW r, Accounted(r)
  PROVE  LET t == [r EXCEPT !.visited = @ + 1, !.gone = @ + 1]
         IN Accounted(t) /\ t.files = r.files
<1> DEFINE t == Result(r.files, r.visited + 1, r.dup, r.odd, r.gone + 1)
<1>1. r \in Results
  BY DEF Accounted
<1>2. [r EXCEPT !.visited = @ + 1, !.gone = @ + 1] = t
  BY <1>1, Grows, Zenon
<1>3. t.files = r.files /\ Accounted(t)
  <2>1. Cardinality(r.files) \in Nat
    BY FS_CardinalityType DEF Accounted
  <2>2. /\ t \in Results /\ t.files = r.files /\ t.visited = r.visited + 1 /\ t.dup = r.dup
        /\ t.odd = r.odd /\ t.gone = r.gone + 1
        /\ r.visited \in Nat /\ r.dup \in Nat /\ r.odd \in Nat /\ r.gone \in Nat
    BY <1>1 DEF Results, Result
  <2> HIDE DEF t
  <2> QED
    BY <2>1, <2>2 DEF Accounted
<1> QED
  BY <1>2, <1>3

LEMMA EntryFollows ==
  ASSUME NEW q, NEW s \in Scanning(q), s.entries # <<>>
  PROVE  ScanEntry(s) \in Scanning(q)
<1> DEFINE ro == s.roots  pe == s.pending  en == s.entries  re == s.result
           p == Head(en)
           t == [s EXCEPT !.entries = Tail(@)]
<1>1. s = At(ro, pe, en, re) /\ Follows(q, ro, pe, en, re)
  BY DEF Scanning, Scans, At
<1>2. /\ ro \in Seq(Paths) /\ pe \in Seq(Paths) /\ en \in Seq(Paths)
      /\ p \in Paths /\ Tail(en) \in Seq(Paths) /\ Range(en) = {p} \cup Range(Tail(en))
      /\ <<p>> \o pe \in Seq(Paths) /\ Range(<<p>> \o pe) = {p} \cup Range(pe)
  <2>1. ro \in Seq(Paths) /\ pe \in Seq(Paths) /\ en \in Seq(Paths) /\ en # <<>>
    BY <1>1 DEF Follows
  <2> HIDE DEF ro, pe, en
  <2>2. p \in Paths /\ Tail(en) \in Seq(Paths) /\ Range(en) = {p} \cup Range(Tail(en))
    BY <2>1, Parts
  <2> QED
    BY <2>1, <2>2, Parts
<1>3. t = At(ro, pe, Tail(en), re)
  <2> DEFINE e == Tail(en)
  <2> HIDE DEF ro, pe, en, re, e
  <2>1. [s EXCEPT !.entries = e] = At(ro, pe, e, re)
    BY <1>1 DEF At
  <2> QED
    BY <2>1 DEF e, en
<1>4. t.pending = pe /\ t.result = re
  BY <1>3 DEF At
<1>5. ScanEntry(s) = CASE Tree[p].kind = "dir"  -> [t EXCEPT !.pending = <<p>> \o pe]
                       [] Tree[p].kind = "link" -> t
                       [] OTHER -> [t EXCEPT !.result = AppendFile(re, p)]
  <2> HIDE DEF re, pe
  <2> QED
    BY <1>4, Zenon DEF ScanEntry
<1> HIDE DEF ro, pe, en, re, p, t
<1>6. CASE Tree[p].kind = "dir"
  <2>1. ScanEntry(s) = At(ro, <<p>> \o pe, Tail(en), re)
    <3> DEFINE f == <<p>> \o pe
               e == Tail(en)
    <3>1. ScanEntry(s) = [t EXCEPT !.pending = f] /\ t = At(ro, pe, e, re)
      BY <1>3, <1>5, <1>6
    <3> HIDE DEF f, e
    <3>2. [t EXCEPT !.pending = f] = At(ro, f, e, re)
      BY <3>1 DEF At
    <3> QED
      BY <3>1, <3>2 DEF f, e
  <2>2. Follows(q, ro, <<p>> \o pe, Tail(en), re)
    BY <1>1, <1>2, <1>6, FolderLeft
  <2> QED
    BY <2>1, <2>2, Parted
<1>7. CASE Tree[p].kind = "link"
  <2>1. ScanEntry(s) = At(ro, pe, Tail(en), re)
    BY <1>3, <1>5, <1>7
  <2>2. Accounted(re)
    BY <1>1 DEF Follows
  <2>3. Follows(q, ro, pe, Tail(en), re)
    BY <1>1, <1>2, <1>7, <2>2, LinkSkipped
  <2> QED
    BY <2>1, <2>3, Parted
<1>8. CASE Tree[p].kind \notin {"dir", "link"}
  <2>1. ScanEntry(s) = At(ro, pe, Tail(en), AppendFile(re, p))
    <3> DEFINE f == AppendFile(re, p)
               e == Tail(en)
    <3>1. ScanEntry(s) = [t EXCEPT !.result = f] /\ t = At(ro, pe, e, re)
      BY <1>3, <1>5, <1>8
    <3> HIDE DEF f, e
    <3>2. [t EXCEPT !.result = f] = At(ro, pe, e, f)
      BY <3>1 DEF At
    <3> QED
      BY <3>1, <3>2 DEF f, e
  <2>2. Follows(q, ro, pe, Tail(en), AppendFile(re, p))
    BY <1>1, <1>2, <1>8, EntryCounted
  <2> QED
    BY <2>1, <2>2, Parted
<1> QED
  BY <1>6, <1>7, <1>8

LEMMA FolderFollows ==
  ASSUME NEW q, NEW s \in Scanning(q), s.entries = <<>>, s.pending # <<>>
  PROVE  ScanFolder(s) \in Scanning(q)
<1> DEFINE ro == s.roots  pe == s.pending  re == s.result
           pp == Tail(pe)
           ee == Tree[Head(pe)].kids
<1>1. s = At(ro, pe, <<>>, re) /\ Follows(q, ro, pe, <<>>, re)
  BY DEF Scanning, Scans, At
<1>2. Follows(q, ro, pp, ee, re)
  <2> HIDE DEF ro, pe, re
  <2> QED
    BY <1>1, FolderRead DEF pe
<1>3. ScanFolder(s) = At(ro, pp, ee, re)
  <2> HIDE DEF ro, pe, re, pp, ee
  <2>1. [s EXCEPT !.pending = pp, !.entries = ee] = At(ro, pp, ee, re)
    <3> DEFINE t == [s EXCEPT !.pending = pp]
    <3> DEFINE nil == <<>>
    <3>1. s = At(ro, pe, nil, re)
      BY <1>1
    <3> HIDE DEF nil
    <3>2. t = At(ro, pp, nil, re)
      BY <3>1 DEF At
    <3> HIDE DEF t
    <3>3. [t EXCEPT !.entries = ee] = At(ro, pp, ee, re)
      BY <3>2 DEF At
    <3> QED
      BY <3>3 DEF t
  <2> QED
    BY <2>1 DEF ScanFolder, pp, ee, pe
<1> HIDE DEF ro, pe, re, pp, ee
<1> QED
  BY <1>2, <1>3, Parted

LEMMA RootFollows ==
  ASSUME NEW q, NEW s \in Scanning(q), s.entries = <<>>, s.pending = <<>>, s.roots # <<>>
  PROVE  ScanRoot(s) \in Scanning(q)
<1> DEFINE ro == s.roots  nil == <<>>  re == s.result
           p == Head(ro)
           rr == Tail(ro)
           gone == [re EXCEPT !.visited = @ + 1, !.gone = @ + 1]
           t == [s EXCEPT !.roots = Tail(@)]
<1>1. s = At(ro, nil, nil, re) /\ Follows(q, ro, nil, nil, re)
  BY DEF Scanning, Scans, At
<1>2. /\ ro \in Seq(Paths) /\ p \in Paths /\ rr \in Seq(Paths) /\ nil \in Seq(Paths)
      /\ Range(ro) = {p} \cup Range(rr) /\ Range(nil) = {}
      /\ <<p>> \in Seq(Paths) /\ Range(<<p>>) = {p}
  <2>1. ro \in Seq(Paths) /\ ro # <<>>
    BY <1>1 DEF Follows
  <2> HIDE DEF ro
  <2>2. p \in Paths /\ rr \in Seq(Paths) /\ Range(ro) = {p} \cup Range(rr)
    BY <2>1, Parts
  <2>3. Range(<<p>>) = {p} /\ <<p>> \in Seq(Paths)
    BY <2>2 DEF Range
  <2>4. Range(nil) = {} /\ nil \in Seq(Paths)
    BY DEF Range
  <2> QED
    BY <2>1, <2>2, <2>3, <2>4
<1>3. t = At(rr, nil, nil, re)
  <2> HIDE DEF ro, nil, re, rr
  <2>1. [s EXCEPT !.roots = rr] = At(rr, nil, nil, re)
    BY <1>1 DEF At
  <2> QED
    BY <2>1 DEF rr, ro
<1>4. t.result = re
  BY <1>3 DEF At
<1>5. ScanRoot(s) = CASE Tree[p].kind = "dir"  -> [t EXCEPT !.pending = <<p>>]
                      [] Tree[p].kind = "link" -> [t EXCEPT !.result = gone]
                      [] OTHER -> [t EXCEPT !.result = AppendFile(re, p)]
  <2>1. [t EXCEPT !.result.visited = @ + 1, !.result.gone = @ + 1] = [t EXCEPT !.result = gone]
    <3> HIDE DEF ro, nil, re, rr, t
    <3> DEFINE a == [re EXCEPT !.visited = @ + 1]
               u == [t EXCEPT !.result = a]
    <3>1. u = At(rr, nil, nil, a)
      <4> HIDE DEF a
      <4> QED
        BY <1>3 DEF At
    <3>2. u.result = a /\ [u EXCEPT !.result = [a EXCEPT !.gone = @ + 1]]
                           = At(rr, nil, nil, [a EXCEPT !.gone = @ + 1])
      <4> DEFINE b == [a EXCEPT !.gone = @ + 1]
      <4> HIDE DEF a, u, b
      <4>1. u.result = a /\ [u EXCEPT !.result = b] = At(rr, nil, nil, b)
        BY <3>1 DEF At
      <4> QED
        BY <4>1 DEF b
    <3>3. [t EXCEPT !.result = gone] = At(rr, nil, nil, gone)
      <4> HIDE DEF gone
      <4> QED
        BY <1>3 DEF At
    <3>4. [t EXCEPT !.result.visited = @ + 1, !.result.gone = @ + 1]
            = [u EXCEPT !.result = [a EXCEPT !.gone = @ + 1]]
      BY <1>4, <3>2
    <3> QED
      BY <3>2, <3>3, <3>4
  <2> HIDE DEF re, gone
  <2> QED
    BY <1>4, <2>1, Zenon DEF ScanRoot
<1> HIDE DEF ro, re, p, t, rr, gone, nil
<1>6. CASE Tree[p].kind = "dir"
  <2> DEFINE f == <<p>>
  <2>1. ScanRoot(s) = [t EXCEPT !.pending = f]
    BY <1>5, <1>6
  <2> HIDE DEF f
  <2>2. ScanRoot(s) = At(rr, f, nil, re)
    BY <1>3, <2>1 DEF At
  <2>3. Follows(q, rr, f, nil, re)
    <3>1. /\ f \in Seq(Paths) /\ Range(f) = {p} \cup Range(nil)
          /\ p \in Range(ro) \cup Range(nil) /\ Range(rr) \subseteq Range(ro)
          /\ Range(ro) \subseteq Range(rr) \cup {p} /\ Range(nil) \subseteq Range(nil) \cup {p}
      BY <1>2 DEF f
    <3> QED
      BY <1>1, <1>2, <1>6, <3>1, FolderLeft
  <2> QED
    BY <2>2, <2>3, Parted
<1>7. CASE Tree[p].kind = "link"
  <2>1. ScanRoot(s) = [t EXCEPT !.result = gone]
    BY <1>5, <1>7
  <2>2. ScanRoot(s) = At(rr, nil, nil, gone)
    BY <1>3, <2>1 DEF At
  <2>3. Accounted(gone) /\ gone.files = re.files
    BY <1>1, RootGone, Zenon DEF Follows, gone
  <2>4. Follows(q, rr, nil, nil, gone)
    BY <1>1, <1>2, <1>7, <2>3, LinkSkipped
  <2> QED
    BY <2>2, <2>4, Parted
<1>8. CASE Tree[p].kind \notin {"dir", "link"}
  <2> DEFINE f == AppendFile(re, p)
  <2>1. ScanRoot(s) = [t EXCEPT !.result = f]
    BY <1>5, <1>8
  <2>3. Follows(q, rr, nil, nil, f)
    BY <1>1, <1>2, <1>8, EntryCounted
  <2> HIDE DEF f
  <2>2. ScanRoot(s) = At(rr, nil, nil, f)
    BY <1>3, <2>1 DEF At
  <2> QED
    BY <2>2, <2>3, Parted
<1> QED
  BY <1>6, <1>7, <1>8

\* A scan that has started.
LEMMA StartFollows ==
  ASSUME NEW request \in Requests
  PROVE  ScanStart(request) \in Scanning(Range(request))
<1> DEFINE q == Range(request)
<1>1. request \in Seq(Paths) /\ q \subseteq Paths /\ Range(<<>>) = {} /\ <<>> \in Seq(Paths)
  <2>1. request \in Seq(Paths)
    BY TreeAssumption
  <2> QED
    BY <2>1, Parts DEF Range
<1>2. Accounted(NoResult) /\ NoResult.files = {}
  BY FS_EmptySet DEF Accounted, NoResult, Results
<1>3. Reached(q, q)
  BY DEF Reached
<1>4. Covers(q, q, {}, {}, {})
  <2>1. {} \in SUBSET Paths /\ q \subseteq q \cup Seen({}, {}, {})
    OBVIOUS
  <2> QED
    BY <2>1 DEF Covers
<1> HIDE DEF q
<1>5. Follows(q, request, <<>>, <<>>, NoResult)
  BY <1>1, <1>2, <1>3, <1>4 DEF Follows, q
<1>6. ScanStart(request) = At(request, <<>>, <<>>, NoResult)
  BY DEF ScanStart, At
<1> QED
  BY <1>5, <1>6, Parted DEF q

\* A scan finds every image of its request under exactly one key and accounts for
\* every entry it visits.
LEMMA ScanExact ==
  ASSUME NEW request \in Requests
  PROVE  LET r == Scan(request)
         IN /\ Accounted(r)
            /\ {Key(p) : p \in r.files} = {Key(p) : p \in Images[request]}
            /\ Cardinality(r.files) = Cardinality({Key(p) : p \in r.files})
<1> DEFINE q == Range(request)
           e == ScanOf[request]
<1>1. \A s \in Scanning(q) : ScanStep(s) \in Scanning(q)
  <2> SUFFICES ASSUME NEW s \in Scanning(q) PROVE ScanStep(s) \in Scanning(q)
    OBVIOUS
  <2> HIDE DEF q
  <2>1. s.entries # <<>> => ScanStep(s) = ScanEntry(s)
    BY DEF ScanStep
  <2>3. s.entries = <<>> /\ s.pending # <<>> => ScanStep(s) = ScanFolder(s)
    BY DEF ScanStep
  <2>4. s.entries = <<>> /\ s.pending = <<>> /\ s.roots # <<>> => ScanStep(s) = ScanRoot(s)
    BY DEF ScanStep
  <2>5. s.entries = <<>> /\ s.pending = <<>> /\ s.roots = <<>> => ScanStep(s) = s
    BY DEF ScanStep
  <2> QED
    BY <2>1, <2>3, <2>4, <2>5, EntryFollows, FolderFollows, RootFollows
<1>2. e \in Scanning(q)
  <2> DEFINE I == Scanning(q)
  <2>1. ScanStart(request) \in I
    BY StartFollows
  <2>2. \A s \in I : ScanStep(s) \in I
    BY <1>1
  <2> HIDE DEF I
  <2> QED
    BY <2>1, <2>2, ScanInduction DEF I
<1>3. e.roots = <<>> /\ e.pending = <<>> /\ e.entries = <<>>
  BY ScanAssumption
<1>4. Follows(q, <<>>, <<>>, <<>>, e.result)
  BY <1>2, <1>3 DEF Scanning
<1>5. Accounted(e.result)
  BY <1>4 DEF Follows
<1>6. {Key(p) : p \in e.result.files} = {Key(p) : p \in Images[request]}
  BY <1>4, ScanDone
<1>7. Cardinality(e.result.files) = Cardinality({Key(p) : p \in e.result.files})
  <2>1. /\ e.result.files \in SUBSET Paths /\ IsFiniteSet(e.result.files)
        /\ \A f, g \in e.result.files : Key(f) = Key(g) => f = g
    BY <1>5 DEF Accounted, Results
  <2> QED
    BY <2>1, KeysCount
<1> QED
  BY <1>5, <1>6, <1>7 DEF Scan

----------------------------------------------------------------------------
(* The closures that wait and the items of the queue, against the runs they are of. *)

Failed == {"cleared", "failed"}

\* No monitor has failed.
Sound(rs) == \A r \in Runs : rs[r].mon \notin Failed

\* What is known of a run by itself.
RunFine(x) ==
  /\ {"kind", "list", "left", "code", "stop"} \subseteq DOMAIN x
  /\ DOMAIN x.left \subseteq DOMAIN x.list /\ 0 \notin DOMAIN x.list
  /\ x.kind # "queue" => DOMAIN x.left = {}
  /\ x.cancel \in BOOLEAN /\ (x.forced = TRUE => x.cancel = TRUE)
  /\ x.proc \in {"none", "alive", "exited"}
  /\ x.mon \in Over \cup {"watch", "drain", "posted", "threw", "cleared"}
  /\ x.code \in {0, 1, 130}

\* A run that was not started yet.
Unstarted == \A r \in Runs : r > runId => runs[r] = NoRun

\* A report of an item: its run lists the item, has nothing left of it once it has a
\* verdict, was asked to stop before it is canceled, and is active if it is current.
ReportOK(m, rs, id, act) ==
  /\ m.run \in Runs /\ m.run <= id
  /\ m.ix \in DOMAIN rs[m.run].list /\ m.st \in {"running"} \cup Finished
  /\ m.st \in Finished /\ m.ix \in DOMAIN rs[m.run].left => rs[m.run].left[m.ix] = "over"
  /\ m.st = "canceled" => rs[m.run].cancel = TRUE
  /\ m.run = id /\ Sound(rs) => act = TRUE /\ rs[m.run].kind = "queue"

\* The end of a run: its monitor is done, and the verdict speaks of a stop only when
\* one was asked for.
FinalOK(m, rs, id) ==
  /\ m.run \in Runs /\ m.run <= id
  /\ rs[m.run].mon \in {"posted", "ended"}
  /\ m.verdict.forced = TRUE \/ m.verdict.canceled = TRUE => rs[m.run].cancel = TRUE

EventOK(m, rs, id, act) ==
  /\ m.kind \in {"import", "item", "end", "error"}
  /\ m.kind = "import" => m.request \in Requests /\ m.result = Scan(m.request)
  /\ m.kind = "error" => ~Sound(rs)
  /\ m.kind = "item" => ReportOK(m, rs, id, act)
  /\ m.kind = "end" => FinalOK(m, rs, id)

\* m may wait before n: a verdict is the last report of its item, an end the last
\* closure of its run.
Before(m, n) ==
  /\ m.kind = "item" /\ n.kind = "item" /\ m.run = n.run /\ m.ix = n.ix
       => m.st \notin Finished
  /\ m.kind = "end" /\ n.kind \in {"item", "end"} => m.run # n.run

Events == /\ \A k \in DOMAIN posts : EventOK(posts[k], runs, runId, active)
          /\ \A k, l \in DOMAIN posts : k < l => Before(posts[k], posts[l])

\* Closure n is a report of item x in run id.
Concerns(n, x, id) == n.kind = "item" /\ n.run = id /\ n.ix = x.ri

\* An item of the queue carries the index under which the current run lists it, has
\* no verdict while that run has it left or a report of it waits, and looks as if it
\* were converted only while it may be.
ItemOK(x, nid, rs, id, act) ==
  /\ x \in Items /\ x.id < nid
  /\ id # 0 /\ x.ri \in DOMAIN rs[id].list => x.id = rs[id].list[x.ri]
  /\ id # 0 /\ x.ri \in DOMAIN rs[id].left /\ rs[id].left[x.ri] # "over"
       => x.status \notin Finished
  /\ x.status = "running" /\ Sound(rs)
       => act = TRUE /\ id # 0 /\ x.ri # 0 /\ rs[id].kind = "queue"

Unreported(x, ps, id) ==
  \A k \in DOMAIN ps : Concerns(ps[k], x, id) => x.status \notin Finished

ItemsOK ==
  /\ queue \in Seq(Items) /\ nextId \in Nat
  /\ \A i \in DOMAIN queue : ItemOK(queue[i], nextId, runs, runId, active)
  /\ \A i \in DOMAIN queue : Unreported(queue[i], posts, runId)
  /\ \A i, j \in DOMAIN queue : queue[i].id = queue[j].id => i = j
  /\ QueueDistinct

Plain ==
  /\ \A r \in Runs : RunFine(runs[r])
  /\ worker \in 0..MaxRuns /\ worker <= runId /\ running \in BOOLEAN /\ large \in BOOLEAN
  /\ ui \in {"open", "joining", "closed", "left", "exited"}
  /\ scanner \in {"idle", "ended"} /\ faults \in 0..MaxFaults
  /\ jobs \in Seq(Requests)
  /\ activeChild # 0 => active = TRUE /\ activeChild = runId
  /\ Sound(runs) => running = active

QInv == Plain /\ Unstarted /\ Events /\ ItemsOK

----------------------------------------------------------------------------
(* What the steps of runs leave true of closures and items. *)

\* A run goes on: it keeps its items, loses none that is not done with, and neither a
\* cancel request nor the end or the failure of its monitor is taken back.
Evolves(x, y) ==
  /\ RunFine(y) /\ y.list = x.list
  /\ \A i \in DOMAIN y.left : i \in DOMAIN x.left /\ (y.left[i] # "over" => x.left[i] # "over")
  /\ y.kind = x.kind \/ y.mon \in Failed
  /\ x.cancel = TRUE => y.cancel = TRUE
  /\ x.mon \in {"posted", "ended"} => y.mon \in {"posted", "ended"}
  /\ x.mon \in Failed => y.mon \in Failed

LEMMA EventLater ==
  ASSUME NEW m, NEW rs, NEW ts, NEW id, NEW act, NEW acu,
         \A r \in Runs : Evolves(rs[r], ts[r]),
         Sound(ts) => acu = act, EventOK(m, rs, id, act)
  PROVE  EventOK(m, ts, id, acu)
<1>1. Sound(ts) => Sound(rs)
  BY DEF Sound, Evolves
<1>2. ReportOK(m, rs, id, act) => ReportOK(m, ts, id, acu)
  <2> SUFFICES ASSUME ReportOK(m, rs, id, act) PROVE ReportOK(m, ts, id, acu)
    OBVIOUS
  <2>1. m.run \in Runs /\ Evolves(rs[m.run], ts[m.run])
    BY DEF ReportOK
  <2>2. Sound(ts) => ts[m.run].kind = rs[m.run].kind
    BY <2>1 DEF Sound, Evolves
  <2> QED
    BY <1>1, <2>1, <2>2 DEF ReportOK, Evolves
<1>3. FinalOK(m, rs, id) => FinalOK(m, ts, id)
  BY DEF FinalOK, Evolves
<1> QED
  BY <1>1, <1>2, <1>3 DEF EventOK

LEMMA ItemLater ==
  ASSUME NEW x, NEW nid \in Nat, NEW nud \in Nat, nid <= nud, NEW rs, NEW ts,
         NEW id \in 0..MaxRuns, NEW act, NEW acu,
         \A r \in Runs : Evolves(rs[r], ts[r]),
         Sound(ts) => acu = act, ItemOK(x, nid, rs, id, act)
  PROVE  ItemOK(x, nud, ts, id, acu)
<1>1. Sound(ts) => Sound(rs)
  BY DEF Sound, Evolves
<1>2. id # 0 => id \in Runs /\ Evolves(rs[id], ts[id])
  BY StudioAssumption DEF Runs
<1>3. id # 0 /\ Sound(ts) => ts[id].kind = rs[id].kind
  BY <1>2 DEF Sound, Evolves
<1>4. x \in Items /\ x.id < nud
  BY DEF ItemOK, Items
<1> QED
  BY <1>1, <1>2, <1>3, <1>4 DEF ItemOK, Evolves

\* What waits is a sequence, and one more closure is put behind it.
LEMMA Queued ==
  ASSUME NEW s, Sequence(s), NEW m
  PROVE  /\ Sequence(Append(s, m)) /\ DOMAIN Append(s, m) = 1..Len(s) + 1
         /\ Len(s) \in Nat /\ DOMAIN s = 1..Len(s)
         /\ Append(s, m)[Len(s) + 1] = m
         /\ \A k \in DOMAIN s : Append(s, m)[k] = s[k]
<1>1. PICK S : s \in Seq(S)
  BY DEF Sequence
<1>2. s \in Seq(S \cup {m})
  BY <1>1, SeqMonotonic
<1>3. /\ Append(s, m) \in Seq(S \cup {m}) /\ Len(Append(s, m)) = Len(s) + 1
      /\ \A k \in 1..Len(s) : Append(s, m)[k] = s[k]
      /\ Append(s, m)[Len(s) + 1] = m
  BY <1>2, AppendProperties
<1>4. Len(s) \in Nat /\ DOMAIN s = 1..Len(s) /\ DOMAIN Append(s, m) = 1..Len(s) + 1
  BY <1>2, <1>3, LenProperties
<1> QED
  BY <1>3, <1>4 DEF Sequence

\* The closures stay in order when one more waits that may.
LEMMA EventsGrow ==
  ASSUME NEW s, Sequence(s), NEW m, NEW rs, NEW id, NEW act,
         \A k \in DOMAIN s : EventOK(s[k], rs, id, act),
         \A k, l \in DOMAIN s : k < l => Before(s[k], s[l]),
         EventOK(m, rs, id, act), \A k \in DOMAIN s : Before(s[k], m)
  PROVE  LET t == Append(s, m)
         IN /\ \A k \in DOMAIN t : EventOK(t[k], rs, id, act)
            /\ \A k, l \in DOMAIN t : k < l => Before(t[k], t[l])
<1> DEFINE t == Append(s, m)
           n == Len(s)
<1>1. /\ DOMAIN t = 1..n + 1 /\ n \in Nat /\ DOMAIN s = 1..n
      /\ t[n + 1] = m /\ \A k \in 1..n : t[k] = s[k]
  BY Queued
<1>2. \A k \in 1..n + 1 : k \in 1..n \/ k = n + 1
  BY <1>1
<1>3. \A k, l \in 1..n + 1 : k < l => k \in 1..n
  BY <1>1
<1> HIDE DEF t, n
<1>4. \A k \in DOMAIN t : EventOK(t[k], rs, id, act)
  BY <1>1, <1>2
<1>5. \A k, l \in DOMAIN t : k < l => Before(t[k], t[l])
  BY <1>1, <1>2, <1>3
<1> QED
  BY <1>4, <1>5 DEF t

\* A step in which runs go on and no closure is put behind those that wait.
LEMMA RunsGoOn ==
  ASSUME IInv, Events, ItemsOK, UNCHANGED <<queue, nextId, runId, posts>>,
         \A r \in Runs : Evolves(runs[r], runs'[r]), Sound(runs') => active' = active
  PROVE  Events' /\ ItemsOK'
<1>1. runId \in 0..MaxRuns /\ nextId \in Nat /\ nextId <= nextId
  BY DEF IInv, Typed, ItemsOK
<1>2. \A k \in DOMAIN posts : EventOK(posts[k], runs', runId, active')
  BY EventLater DEF Events
<1>3. \A i \in DOMAIN queue : ItemOK(queue[i], nextId, runs', runId, active')
  BY <1>1, ItemLater DEF ItemsOK
<1>4. Events'
  BY <1>2 DEF Events
<1>5. ItemsOK'
  BY <1>3 DEF ItemsOK, QueueDistinct
<1> QED
  BY <1>4, <1>5

\* The same, with one more closure.
LEMMA RunsPost ==
  ASSUME IInv, Events, ItemsOK, UNCHANGED <<queue, nextId, runId>>,
         \A r \in Runs : Evolves(runs[r], runs'[r]), Sound(runs') => active' = active,
         NEW m, posts' = posts \/ posts' = Posted(m) \/ posts' = Append(posts, m),
         EventOK(m, runs', runId, active'), \A k \in DOMAIN posts : Before(posts[k], m),
         \A i \in DOMAIN queue : Concerns(m, queue[i], runId) => queue[i].status \notin Finished
  PROVE  Events' /\ ItemsOK'
<1>1. CASE posts' = posts
  BY <1>1, RunsGoOn
<1>2. CASE posts' = Append(posts, m)
  <2>1. runId \in 0..MaxRuns /\ nextId \in Nat /\ nextId <= nextId /\ Sequence(posts)
    BY DEF IInv, Typed, ItemsOK
  <2>2. \A k \in DOMAIN posts : EventOK(posts[k], runs', runId, active')
    BY EventLater DEF Events
  <2>3. \A i \in DOMAIN queue : ItemOK(queue[i], nextId, runs', runId, active')
    BY <2>1, ItemLater DEF ItemsOK
  <2>4. \A k, l \in DOMAIN posts : k < l => Before(posts[k], posts[l])
    BY DEF Events
  <2>5. Events'
    BY <1>2, <2>1, <2>2, <2>4, EventsGrow DEF Events
  <2>6. ASSUME NEW i \in DOMAIN queue PROVE Unreported(queue[i], posts', runId)
    <3>1. Unreported(queue[i], posts, runId)
      BY DEF ItemsOK
    <3>2. \A k \in DOMAIN posts' : posts'[k] = m \/ (k \in DOMAIN posts /\ posts'[k] = posts[k])
      BY <1>2, <2>1, Appends
    <3> QED
      BY <3>1, <3>2 DEF Unreported
  <2>7. ItemsOK'
    BY <2>3, <2>6 DEF ItemsOK, QueueDistinct
  <2> QED
    BY <2>5, <2>7
<1> QED
  BY <1>1, <1>2 DEF Posted

\* One run goes on and the others stay.
LEMMA OneGoesOn ==
  ASSUME Typed, Plain, NEW r \in Runs, NEW y, Evolves(runs[r], y),
         runs' = [runs EXCEPT ![r] = y]
  PROVE  /\ runs'[r] = y /\ \A q \in Runs \ {r} : runs'[q] = runs[q]
         /\ \A q \in Runs : Evolves(runs[q], runs'[q]) /\ RunFine(runs'[q])
         /\ Sound(runs') => Sound(runs) /\ y.mon \notin Failed
<1>1. runs'[r] = y /\ \A q \in Runs \ {r} : runs'[q] = runs[q]
  BY DEF Typed
<1>2. \A q \in Runs : Evolves(runs[q], runs[q])
  BY DEF Plain, Evolves
<1>3. \A q \in Runs : Evolves(runs[q], runs'[q])
  BY <1>1, <1>2
<1>4. Sound(runs') => Sound(runs) /\ y.mon \notin Failed
  BY <1>1, <1>3 DEF Sound, Evolves
<1> QED
  BY <1>1, <1>3, <1>4 DEF Evolves


LEMMA OneKeeps ==
  ASSUME IInv, Plain, Unstarted, NEW r \in Runs, NEW y, Evolves(runs[r], y), r <= runId,
         runs' = [runs EXCEPT ![r] = y], UNCHANGED <<runId, activeChild, worker, running, large>>,
         jobs' \in Seq(Requests), UNCHANGED scanner, UNCHANGED ui, faults' \in 0..MaxFaults,
         active' = active
  PROVE  Plain' /\ Unstarted'
<1>1. /\ runs'[r] = y /\ \A q \in Runs \ {r} : runs'[q] = runs[q]
      /\ \A q \in Runs : Evolves(runs[q], runs'[q]) /\ RunFine(runs'[q])
      /\ Sound(runs') => Sound(runs) /\ y.mon \notin Failed
  BY OneGoesOn DEF IInv
<1>2. Plain'
  BY <1>1 DEF Plain
<1>3. Unstarted'
  <2>1. \A q \in Runs : q > runId => q # r
    BY DEF IInv, Typed, Runs
  <2> QED
    BY <1>1, <2>1 DEF Unstarted
<1> QED
  BY <1>2, <1>3

\* How one field of a run goes on.
LEMMA GoesOn ==
  ASSUME NEW x, RunOK(x), RunFine(x)
  PROVE  /\ Evolves(x, x) /\ Evolves(x, RequestCancel(x))
         /\ \A i : x.left[i] # "over" => Evolves(x, [x EXCEPT !.left = [@ EXCEPT ![i] = "busy"]])
         /\ \A i : Evolves(x, [x EXCEPT !.left = [@ EXCEPT ![i] = "over"]])
         /\ \A v \in {0, 1, 130} : Evolves(x, [[x EXCEPT !.proc = "exited"] EXCEPT !.code = v])
         /\ \A v : Evolves(x, [x EXCEPT !.stop = v])
         /\ x.mon \in {"none", "watch", "drain", "threw"} =>
              \A v \in {"drain", "threw", "cleared"} : Evolves(x, [x EXCEPT !.mon = v])
         /\ x.mon = "posted" => Evolves(x, [x EXCEPT !.mon = "ended"])
         /\ x.mon = "drain" => Evolves(x, [[x EXCEPT !.mon = "posted"] EXCEPT !.manifest = FALSE])
<1> USE DEF RunFine, RunOK, Shaped, Evolves, Over, Failed
<1>1. Evolves(x, x)
  OBVIOUS
<1>2. Evolves(x, RequestCancel(x))
  BY DEF RequestCancel
<1>3. ASSUME NEW i, NEW v \in {"busy", "over"}, v = "busy" => x.left[i] # "over"
      PROVE  Evolves(x, [x EXCEPT !.left = [@ EXCEPT ![i] = v]])
  <2> DEFINE l == [x.left EXCEPT ![i] = v]
             y == [x EXCEPT !.left = l]
  <2>1. DOMAIN l = DOMAIN x.left /\ \A j \in DOMAIN l : l[j] # "over" => x.left[j] # "over"
    BY <1>3
  <2> HIDE DEF l
  <2>2. /\ y.left = l /\ DOMAIN y = DOMAIN x /\ y.list = x.list /\ y.kind = x.kind
        /\ y.cancel = x.cancel /\ y.forced = x.forced /\ y.proc = x.proc /\ y.mon = x.mon
        /\ y.code = x.code
    OBVIOUS
  <2> HIDE DEF y
  <2>3. Evolves(x, y)
    BY <2>1, <2>2
  <2> QED
    BY <2>3 DEF y, l
<1>4. ASSUME NEW v \in {0, 1, 130}
      PROVE  Evolves(x, [[x EXCEPT !.proc = "exited"] EXCEPT !.code = v])
  OBVIOUS
<1>5. ASSUME NEW v PROVE Evolves(x, [x EXCEPT !.stop = v])
  OBVIOUS
<1>6. ASSUME x.mon \in {"none", "watch", "drain", "threw"}, NEW v \in {"drain", "threw", "cleared"}
      PROVE  Evolves(x, [x EXCEPT !.mon = v])
  BY <1>6
<1>7. x.mon = "posted" => Evolves(x, [x EXCEPT !.mon = "ended"])
  OBVIOUS
<1>8. x.mon = "drain" => Evolves(x, [[x EXCEPT !.mon = "posted"] EXCEPT !.manifest = FALSE])
  OBVIOUS
<1> USE <1>1, <1>2, <1>3, <1>4, <1>5, <1>6, <1>7, <1>8
<1> HIDE DEF RunFine, RunOK, Shaped, Evolves, Over, Failed
<1> QED
  OBVIOUS

\* Terminating a run lets it go on as a run.
LEMMA EndedByForce ==
  ASSUME NEW x, RunOK(x), RunFine(x), NEW ok \in BOOLEAN
  PROVE  Evolves(x, Terminate(x, ok)) /\ Evolves(x, Terminate(x, TRUE))
         /\ Terminate(x, ok).mon = x.mon /\ Terminate(x, TRUE).mon = x.mon
         /\ RunOK(Terminate(x, ok)) /\ RunOK(Terminate(x, TRUE))
<1> DEFINE killed == [[x EXCEPT !.cancel = TRUE] EXCEPT
                        !.forced = TRUE, !.proc = "exited",
                        !.code = IF x.proc = "alive" THEN 130 ELSE @]
<1>1. Evolves(x, RequestCancel(x)) /\ Evolves(x, x)
  BY GoesOn
<1>2. Evolves(x, killed)
  <2> DEFINE c == IF x.proc = "alive" THEN 130 ELSE x.code
             y == [[x EXCEPT !.cancel = TRUE] EXCEPT !.forced = TRUE, !.proc = "exited", !.code = c]
  <2>1. c \in {0, 1, 130}
    BY DEF RunFine
  <2>2. killed = y
    OBVIOUS
  <2> HIDE DEF c
  <2>3. /\ DOMAIN y = DOMAIN x /\ y.list = x.list /\ y.kind = x.kind /\ y.left = x.left
        /\ y.cancel = TRUE /\ y.proc = "exited" /\ y.mon = x.mon /\ y.code = c
    BY DEF RunOK, RunFine, Shaped
  <2> HIDE DEF y
  <2> QED
    BY <2>1, <2>2, <2>3 DEF RunFine, Evolves
<1>3. Terminate(x, ok) = IF x.forced THEN x ELSE IF ~ok THEN RequestCancel(x) ELSE killed
  BY DEF Terminate, RequestCancel
<1>4. Terminate(x, TRUE) = IF x.forced THEN x ELSE killed
  BY DEF Terminate, RequestCancel
<1>5. x.forced \in BOOLEAN
  BY DEF RunOK, Shaped
<1> HIDE DEF killed
<1>6. Terminate(x, ok).mon = x.mon /\ Terminate(x, TRUE).mon = x.mon
  BY Terminates
<1>7. RunOK(Terminate(x, ok)) /\ RunOK(Terminate(x, TRUE))
  BY Terminates DEF Settles
<1> QED
  BY <1>1, <1>2, <1>3, <1>4, <1>5, <1>6, <1>7

\* Going on twice.
LEMMA Onwards ==
  ASSUME NEW x, NEW y, NEW z, Evolves(x, y), Evolves(y, z), x.kind = y.kind
  PROVE  Evolves(x, z)
  BY DEF Evolves

\* A process that runs is the one of the current run; reports wait only for a run that
\* was started.
LEMMA Alive ==
  ASSUME IInv, Plain, NEW r \in Runs, runs[r].proc = "alive" \/ runs[r].mon # "none"
  PROVE  /\ RunOK(runs[r]) /\ RunFine(runs[r]) /\ r <= runId
         /\ runs[r].proc = "alive" => r = runId /\ active = TRUE
  BY DEF IInv, Typed, AliveIsCurrent, Past, Plain, Runs

LEMMA StartsKeep ==
  ASSUME IInv, QInv, NEW r \in Runs, NEW i, WorkerStarts(r, i)
  PROVE  QInv'
<1> DEFINE y == [runs[r] EXCEPT !.left = [@ EXCEPT ![i] = "busy"]]
           m == [kind |-> "item", run |-> r, ix |-> i, st |-> "running"]
<1>1. /\ RunOK(runs[r]) /\ RunFine(runs[r]) /\ r = runId /\ active = TRUE /\ r <= runId
      /\ i \in DOMAIN runs[r].left /\ runs[r].left[i] = "todo"
  <2>1. runs[r].proc = "alive" /\ i \in DOMAIN runs[r].left /\ runs[r].left[i] = "todo"
    BY DEF WorkerStarts
  <2> QED
    BY <2>1, Alive DEF QInv
<1>2. runs' = [runs EXCEPT ![r] = y] /\ posts' = Published(r, i, "running")
      /\ UNCHANGED <<jobs, scanner, queue, nextId, runId, active, activeChild, worker,
                     running, large, ui, faults>>
  BY DEF WorkerStarts, importVars, queueVars
<1>3. Evolves(runs[r], y)
  <2>1. runs[r].left[i] # "over"
    BY <1>1
  <2> QED
    BY <1>1, <2>1, GoesOn, Zenon
<1>4. m.kind = "item" /\ m.run = r /\ m.ix = i /\ m.st = "running"
  OBVIOUS
<1>5. posts' = posts \/ posts' = Posted(m)
  BY <1>2 DEF Published
<1> HIDE DEF y, m
<1>6. Plain' /\ Unstarted'
  BY <1>1, <1>2, <1>3, OneKeeps DEF QInv, Plain
<1>7. \A q \in Runs : Evolves(runs[q], runs'[q]) /\ (q = r => runs'[q] = y)
  BY <1>2, <1>3, OneGoesOn DEF QInv, IInv
<1>8. EventOK(m, runs', runId, active')
  <2>1. (i \in DOMAIN runs'[r].list /\ runs'[r].kind = "queue") \/ ~Sound(runs')
    BY <1>1, <1>7 DEF RunFine, Evolves, Sound
  <2>2. i \in DOMAIN runs'[r].list
    BY <1>1, <1>7 DEF RunFine, Evolves
  <2> QED
    BY <1>1, <1>2, <1>4, <2>1, <2>2 DEF EventOK, ReportOK, Finished
<1>9. \A k \in DOMAIN posts : Before(posts[k], m)
  <2> SUFFICES ASSUME NEW k \in DOMAIN posts PROVE Before(posts[k], m)
    OBVIOUS
  <2>1. posts[k].kind = "end" => runs[posts[k].run].proc # "alive"
    BY DEF IInv, Past
  <2>2. EventOK(posts[k], runs, runId, active)
    BY DEF QInv, Events
  <2>3. posts[k].kind = "item" /\ posts[k].run = r /\ posts[k].ix = i => posts[k].st \notin Finished
    BY <1>1, <2>2 DEF EventOK, ReportOK
  <2> QED
    BY <1>4, <2>1, <2>3 DEF Before, WorkerStarts
<1>10. \A j \in DOMAIN queue : Concerns(m, queue[j], runId) => queue[j].status \notin Finished
  BY <1>1, <1>4 DEF QInv, ItemsOK, ItemOK, Concerns, Runs
<1>11. Events' /\ ItemsOK'
  BY <1>2, <1>5, <1>7, <1>8, <1>9, <1>10, RunsPost DEF QInv
<1> QED
  BY <1>6, <1>11 DEF QInv

LEMMA FinishesKeep ==
  ASSUME IInv, QInv, NEW r \in Runs, NEW i, NEW st \in Verdicts, WorkerFinishes(r, i, st)
  PROVE  QInv'
<1> DEFINE y == [runs[r] EXCEPT !.left = [@ EXCEPT ![i] = "over"]]
           m == [kind |-> "item", run |-> r, ix |-> i, st |-> st]
<1>1. /\ RunOK(runs[r]) /\ RunFine(runs[r]) /\ r = runId /\ active = TRUE /\ r <= runId
      /\ i \in DOMAIN runs[r].left /\ runs[r].left[i] # "over"
      /\ st = "canceled" => runs[r].cancel = TRUE
  <2>1. runs[r].proc = "alive"
    BY DEF WorkerFinishes
  <2>2. RunFine(runs[r])
    BY DEF QInv, Plain
  <2>3. st = "canceled" => runs[r].cancel = TRUE
    BY <2>2 DEF WorkerFinishes, RunFine
  <2>4. runs[r].left[i] # "over" /\ i \in DOMAIN runs[r].left
    BY DEF WorkerFinishes
  <2> QED
    BY <2>1, <2>2, <2>3, <2>4, Alive DEF QInv
<1>2. runs' = [runs EXCEPT ![r] = y] /\ posts' = Published(r, i, st)
      /\ UNCHANGED <<jobs, scanner, queue, nextId, runId, active, activeChild, worker,
                     running, large, ui, faults>>
  BY DEF WorkerFinishes, importVars, queueVars
<1>3. Evolves(runs[r], y) /\ (i \in DOMAIN y.left => y.left[i] = "over")
  <2>1. Evolves(runs[r], y)
    BY <1>1, GoesOn, Zenon
  <2>2. i \in DOMAIN y.left => y.left[i] = "over"
    BY <1>1 DEF RunFine
  <2> QED
    BY <2>1, <2>2
<1>4. m.kind = "item" /\ m.run = r /\ m.ix = i /\ m.st = st
  OBVIOUS
<1>5. posts' = posts \/ posts' = Posted(m)
  BY <1>2 DEF Published
<1> HIDE DEF y, m
<1>6. Plain' /\ Unstarted'
  BY <1>1, <1>2, <1>3, OneKeeps DEF QInv, Plain
<1>7. \A q \in Runs : Evolves(runs[q], runs'[q]) /\ (q = r => runs'[q] = y)
  BY <1>2, <1>3, OneGoesOn DEF QInv, IInv
<1>8. EventOK(m, runs', runId, active')
  <2>1. runs'[r].kind = "queue" \/ ~Sound(runs')
    BY <1>1, <1>7 DEF RunFine, Evolves, Sound
  <2>2. i \in DOMAIN runs'[r].list /\ (st = "canceled" => runs'[r].cancel = TRUE)
    BY <1>1, <1>7 DEF RunFine, Evolves
  <2>3. st \in Finished
    BY StudioAssumption
  <2> QED
    BY <1>1, <1>2, <1>3, <1>4, <1>7, <2>1, <2>2, <2>3 DEF EventOK, ReportOK
<1>9. \A k \in DOMAIN posts : Before(posts[k], m)
  <2> SUFFICES ASSUME NEW k \in DOMAIN posts PROVE Before(posts[k], m)
    OBVIOUS
  <2>1. posts[k].kind = "end" => runs[posts[k].run].proc # "alive"
    BY DEF IInv, Past
  <2>2. EventOK(posts[k], runs, runId, active)
    BY DEF QInv, Events
  <2>3. posts[k].kind = "item" /\ posts[k].run = r /\ posts[k].ix = i => posts[k].st \notin Finished
    BY <1>1, <2>2 DEF EventOK, ReportOK
  <2> QED
    BY <1>4, <2>1, <2>3 DEF Before, WorkerFinishes
<1>10. \A j \in DOMAIN queue : Concerns(m, queue[j], runId) => queue[j].status \notin Finished
  BY <1>1, <1>4 DEF QInv, ItemsOK, ItemOK, Concerns, Runs
<1>11. Events' /\ ItemsOK'
  BY <1>2, <1>5, <1>7, <1>8, <1>9, <1>10, RunsPost DEF QInv
<1> QED
  BY <1>6, <1>11 DEF QInv

\* A fault is counted up to the bound.
LEMMA Counts ==
  ASSUME Plain, UNCHANGED faults \/ Fault
  PROVE  faults' \in 0..MaxFaults
  BY StudioAssumption DEF Plain, Fault

\* A process ends, and a monitor goes on without posting.
LEMMA QuietKeeps ==
  ASSUME IInv, QInv, NEW r \in Runs, NEW y, Evolves(runs[r], y), r <= runId,
         runs' = [runs EXCEPT ![r] = y],
         UNCHANGED <<importVars, posts, queueVars, runId, active, activeChild, worker,
                     running, large, ui>>,
         UNCHANGED faults \/ Fault
  PROVE  QInv'
<1>1. faults' \in 0..MaxFaults
  BY Counts DEF QInv
<1>2. UNCHANGED <<jobs, scanner, queue, nextId>>
  BY DEF importVars, queueVars
<1>3. Plain' /\ Unstarted'
  BY <1>1, <1>2, OneKeeps DEF QInv, Plain
<1>4. \A q \in Runs : Evolves(runs[q], runs'[q])
  BY OneGoesOn DEF QInv, IInv
<1>5. Events' /\ ItemsOK'
  BY <1>2, <1>4, RunsGoOn DEF QInv
<1> QED
  BY <1>3, <1>5 DEF QInv

LEMMA GoneKeeps ==
  ASSUME IInv, QInv, NEW r \in Runs, NEW code \in {0, 1, 130},
         WorkerExits(r, code) \/ WorkerCrashes(r, code)
  PROVE  QInv'
<1> DEFINE y == [[runs[r] EXCEPT !.proc = "exited"] EXCEPT !.code = code]
<1>1. RunOK(runs[r]) /\ RunFine(runs[r]) /\ r <= runId
  BY Alive DEF WorkerExits, WorkerCrashes, QInv
<1>2. Evolves(runs[r], y)
  BY <1>1, GoesOn, Zenon
<1>3. runs' = [runs EXCEPT ![r] = y] /\ (UNCHANGED faults \/ Fault)
  <2>1. runs' = [runs EXCEPT ![r].proc = "exited", ![r].code = code]
    BY DEF WorkerExits, WorkerCrashes
  <2>3. runs' = [runs EXCEPT ![r] = y]
    BY <2>1 DEF IInv, Typed
  <2>2. UNCHANGED faults \/ Fault
    BY DEF WorkerExits, WorkerCrashes
  <2> QED
    BY <2>2, <2>3
<1> HIDE DEF y
<1> QED
  BY <1>1, <1>2, <1>3, QuietKeeps DEF WorkerExits, WorkerCrashes

LEMMA LeavesKeep ==
  ASSUME IInv, QInv, NEW r \in Runs, MonitorLeavesLoop(r) \/ MonitorReturns(r) \/ MonitorThrows(r)
  PROVE  QInv'
<1>1. RunOK(runs[r]) /\ RunFine(runs[r]) /\ r <= runId /\ runs[r].mon \in {"watch", "drain", "posted"}
  BY Alive DEF MonitorLeavesLoop, MonitorReturns, MonitorThrows, QInv
<1>2. UNCHANGED faults \/ Fault
  BY DEF MonitorLeavesLoop, MonitorReturns, MonitorThrows
<1>3. \E y : Evolves(runs[r], y) /\ runs' = [runs EXCEPT ![r] = y]
  <2>1. CASE MonitorReturns(r) \/ MonitorThrows(r)
    <3>1. CASE MonitorReturns(r)
      <4>1. runs[r].mon = "posted" /\ runs' = [runs EXCEPT ![r] = [runs[r] EXCEPT !.mon = "ended"]]
        BY <3>1 DEF MonitorReturns
      <4> QED
        BY <1>1, <4>1, GoesOn, Zenon
    <3>2. CASE MonitorThrows(r)
      <4>1. /\ runs[r].mon \in {"none", "watch", "drain", "threw"}
            /\ runs' = [runs EXCEPT ![r] = [runs[r] EXCEPT !.mon = "threw"]]
        BY <3>2 DEF MonitorThrows
      <4>2. Evolves(runs[r], [runs[r] EXCEPT !.mon = "threw"])
        BY <1>1, <4>1, GoesOn, Zenon
      <4> QED
        BY <4>1, <4>2, Zenon
    <3> QED
      BY <2>1, <3>1, <3>2
  <2>2. CASE runs' = [runs EXCEPT ![r].mon = "drain"] /\ runs[r].mon = "watch"
    <3>1. Evolves(runs[r], [runs[r] EXCEPT !.mon = "drain"])
      <4>1. runs[r].mon \in {"none", "watch", "drain", "threw"}
        BY <2>2
      <4> QED
        BY <1>1, <4>1, GoesOn, Zenon
    <3> QED
      BY <2>2, <3>1, Zenon
  <2>3. ASSUME NEW ok \in BOOLEAN, runs[r].mon = "watch",
               runs' = [runs EXCEPT ![r] = [Terminate(runs[r], ok) EXCEPT !.mon = "drain"]]
        PROVE  \E y : Evolves(runs[r], y) /\ runs' = [runs EXCEPT ![r] = y]
    <3> DEFINE t == Terminate(runs[r], ok)
               y == [t EXCEPT !.mon = "drain"]
    <3>1. Evolves(runs[r], t) /\ RunOK(t) /\ t.mon = "watch"
      BY <1>1, <2>3, EndedByForce
    <3> HIDE DEF t
    <3>2. RunFine(t) /\ runs[r].kind = t.kind
      BY <3>1 DEF Evolves, Failed
    <3>3. Evolves(t, y)
      <4>1. t.mon \in {"none", "watch", "drain", "threw"}
        BY <3>1
      <4> QED
        BY <3>1, <3>2, <4>1, GoesOn, Zenon
    <3> HIDE DEF y
    <3>4. Evolves(runs[r], y)
      BY <3>1, <3>2, <3>3, Onwards
    <3> QED
      BY <2>3, <3>4 DEF y, t
  <2> QED
    BY <2>1, <2>2, <2>3 DEF MonitorLeavesLoop
<1> QED
  BY <1>1, <1>2, <1>3, QuietKeeps DEF MonitorLeavesLoop, MonitorReturns, MonitorThrows

LEMMA EndsKeep ==
  ASSUME IInv, QInv, NEW r \in Runs, MonitorPostsEnd(r)
  PROVE  QInv'
<1> DEFINE y == [[runs[r] EXCEPT !.mon = "posted"] EXCEPT !.manifest = FALSE]
           v == Verdict(runs[r])
           m == [kind |-> "end", run |-> r, verdict |-> v]
<1>1. /\ RunOK(runs[r]) /\ RunFine(runs[r]) /\ r <= runId /\ runs[r].mon = "drain"
      /\ runs[r].proc = "exited"
  <2>1. runs[r].mon = "drain" /\ runs[r].proc = "exited"
    BY DEF MonitorPostsEnd
  <2> QED
    BY <2>1, Alive DEF QInv
<1>2. runs' = [runs EXCEPT ![r] = y]
  BY DEF MonitorPostsEnd
<1>3. posts' = Posted(m)
      /\ UNCHANGED <<jobs, scanner, queue, nextId, runId, active, activeChild, worker,
                     running, large, ui, faults>>
  BY DEF MonitorPostsEnd, importVars, queueVars
<1>4. Evolves(runs[r], y) /\ y.mon = "posted" /\ (runs[r].cancel = TRUE => y.cancel = TRUE)
  <2>1. Evolves(runs[r], y)
    BY <1>1, GoesOn, Zenon
  <2>2. y.mon = "posted"
    BY <1>1 DEF RunOK, Shaped
  <2> QED
    BY <2>1, <2>2 DEF Evolves
<1>5. v.forced = TRUE \/ v.canceled = TRUE => runs[r].cancel = TRUE
  <2>1. v.forced = runs[r].forced
        /\ v.canceled = (runs[r].cancel /\ ~runs[r].forced /\ runs[r].code = 130)
    BY DEF Verdict
  <2>2. runs[r].cancel \in BOOLEAN /\ (runs[r].forced = TRUE => runs[r].cancel = TRUE)
    BY <1>1 DEF RunFine
  <2> QED
    BY <2>1, <2>2
<1> HIDE DEF v
<1>6. m.kind = "end" /\ m.run = r /\ m.verdict = v
  OBVIOUS
<1> HIDE DEF y, m
<1>7. Plain' /\ Unstarted'
  BY <1>1, <1>2, <1>3, <1>4, OneKeeps DEF QInv, Plain
<1>8. \A q \in Runs : Evolves(runs[q], runs'[q]) /\ (q = r => runs'[q] = y)
  BY <1>2, <1>4, OneGoesOn DEF QInv, IInv
<1>9. EventOK(m, runs', runId, active')
  BY <1>1, <1>4, <1>5, <1>6, <1>8 DEF EventOK, FinalOK
<1>10. \A k \in DOMAIN posts : Before(posts[k], m)
  <2> SUFFICES ASSUME NEW k \in DOMAIN posts PROVE Before(posts[k], m)
    OBVIOUS
  <2>1. EventOK(posts[k], runs, runId, active)
    BY DEF QInv, Events
  <2>2. posts[k].kind = "end" => posts[k].run # r
    BY <1>1, <2>1 DEF EventOK, FinalOK
  <2> QED
    BY <1>6, <2>2 DEF Before
<1>11. \A j \in DOMAIN queue : ~Concerns(m, queue[j], runId)
  BY <1>6 DEF Concerns
<1>12. Events' /\ ItemsOK'
  BY <1>3, <1>8, <1>9, <1>10, <1>11, RunsPost DEF QInv
<1> QED
  BY <1>7, <1>12 DEF QInv

LEMMA ReportsKeep ==
  ASSUME IInv, QInv, NEW r \in Runs, MonitorReports(r)
  PROVE  QInv'
<1> DEFINE y == [NoRun EXCEPT !.list = runs[r].list, !.cancel = runs[r].cancel,
                              !.mon = "failed"]
           m == [kind |-> "error"]
<1>1. RunFine(runs[r]) /\ r <= runId /\ runs[r].mon = "cleared"
  <2>1. runs[r].mon = "cleared"
    BY DEF MonitorReports
  <2> QED
    BY <2>1, Alive DEF QInv
<1>2. runs' = [runs EXCEPT ![r] = y] /\ posts' = Posted(m)
      /\ UNCHANGED <<jobs, scanner, queue, nextId, runId, active, activeChild, worker,
                     running, large, ui, faults>>
  BY DEF MonitorReports, importVars, queueVars
<1>3. Evolves(runs[r], y) /\ y.mon = "failed"
  BY <1>1 DEF Evolves, RunFine, NoRun, Over, Failed
<1>4. m.kind = "error"
  OBVIOUS
<1> HIDE DEF y, m
<1>5. Plain' /\ Unstarted'
  BY <1>1, <1>2, <1>3, OneKeeps DEF QInv, Plain
<1>6. \A q \in Runs : Evolves(runs[q], runs'[q]) /\ (q = r => runs'[q] = y)
  BY <1>2, <1>3, OneGoesOn DEF QInv, IInv
<1>7. EventOK(m, runs', runId, active')
  <2>1. ~Sound(runs')
    BY <1>3, <1>6 DEF Sound, Failed
  <2> QED
    BY <1>4, <2>1 DEF EventOK
<1>8. \A k \in DOMAIN posts : Before(posts[k], m)
  BY <1>4 DEF Before
<1>9. \A j \in DOMAIN queue : ~Concerns(m, queue[j], runId)
  BY <1>4 DEF Concerns
<1>10. Events' /\ ItemsOK'
  BY <1>2, <1>6, <1>7, <1>8, <1>9, RunsPost DEF QInv
<1> QED
  BY <1>5, <1>10 DEF QInv

LEMMA ClearsKeep ==
  ASSUME IInv, QInv, NEW r \in Runs, MonitorClears(r)
  PROVE  QInv'
<1> DEFINE y == [runs[r] EXCEPT !.mon = "cleared"]
           z == Terminate(y, TRUE)
           cleared == [runs EXCEPT ![r].mon = "cleared"]
<1>1. RunOK(runs[r]) /\ RunFine(runs[r]) /\ r <= runId /\ runs[r].mon = "threw"
  <2>1. runs[r].mon = "threw"
    BY DEF MonitorClears
  <2> QED
    BY <2>1, Alive DEF QInv
<1>2. Evolves(runs[r], y) /\ RunOK(y) /\ y.mon = "cleared" /\ y.kind = runs[r].kind
  <2>1. Evolves(runs[r], y)
    BY <1>1, GoesOn, Zenon
  <2>2. RunOK(y) /\ y.mon = "cleared" /\ y.kind = runs[r].kind
    BY <1>1 DEF RunOK, Shaped
  <2> QED
    BY <2>1, <2>2
<1>3. Evolves(runs[r], z) /\ z.mon = "cleared"
  <2> HIDE DEF y
  <2>1. RunFine(y)
    BY <1>2 DEF Evolves
  <2>2. Evolves(y, z) /\ z.mon = "cleared"
    BY <1>2, <2>1, EndedByForce
  <2> QED
    BY <1>2, <2>2, Onwards
<1>4. cleared[r] = y /\ DOMAIN cleared = Runs /\ cleared = [runs EXCEPT ![r] = y]
  BY DEF IInv, Typed
<1>5. runs' = [runs EXCEPT ![r] = y] \/ runs' = [runs EXCEPT ![r] = z]
  <2>1. CASE runs' = cleared
    BY <1>4, <2>1
  <2>2. CASE runId = r /\ activeChild # 0 /\ runs' = [cleared EXCEPT ![activeChild] = Terminate(@, TRUE)]
    <3>1. activeChild = r
      BY <2>2 DEF QInv, Plain
    <3>2. runs' = [cleared EXCEPT ![r] = z]
      BY <1>4, <2>2, <3>1
    <3> HIDE DEF y, z, cleared
    <3> QED
      BY <1>4, <3>2
  <2> QED
    BY <2>1, <2>2 DEF MonitorClears
<1> HIDE DEF y, z, cleared
<1>6. /\ \A q \in Runs : Evolves(runs[q], runs'[q]) /\ (q # r => runs'[q] = runs[q])
      /\ runs'[r].mon = "cleared"
  <2>1. CASE runs' = [runs EXCEPT ![r] = y]
    BY <1>2, <2>1, OneGoesOn DEF QInv, IInv
  <2>2. CASE runs' = [runs EXCEPT ![r] = z]
    BY <1>3, <2>2, OneGoesOn DEF QInv, IInv
  <2> QED
    BY <1>5, <2>1, <2>2
<1>7. ~Sound(runs')
  BY <1>6 DEF Sound, Failed
<1>8. UNCHANGED <<jobs, scanner, posts, queue, nextId, runId, worker, running, large, ui, faults>>
      /\ ((active' = active /\ activeChild' = activeChild) \/ activeChild' = 0)
  BY DEF MonitorClears, importVars, queueVars
<1>9. Plain'
  BY <1>6, <1>7, <1>8 DEF QInv, Plain, Evolves
<1>10. Unstarted'
  <2>1. \A q \in Runs : q > runId => q # r
    BY <1>1 DEF IInv, Typed, Runs
  <2> QED
    BY <1>6, <1>8, <2>1 DEF QInv, Unstarted
<1>11. Events' /\ ItemsOK'
  BY <1>6, <1>7, <1>8, RunsGoOn DEF QInv
<1> QED
  BY <1>9, <1>10, <1>11 DEF QInv

\* Nothing that the closures and items are about changes.
LEMMA SameEvents ==
  ASSUME Events, ItemsOK, Unstarted, UNCHANGED <<posts, runs, runId, active, queue, nextId>>
  PROVE  Events' /\ ItemsOK' /\ Unstarted'
  BY DEF Events, ItemsOK, Unstarted, QueueDistinct

LEMMA JoinsKeep ==
  ASSUME QInv, JoinedLast \/ JoinMonitor \/ JoinImport \/ UNCHANGED vars
  PROVE  QInv'
<1>1. /\ UNCHANGED <<posts, runs, runId, active, queue, nextId, worker, activeChild, running,
                     large, faults, jobs, scanner>>
      /\ ui' \in {"open", "left", "exited", ui}
  BY DEF JoinedLast, JoinMonitor, JoinImport, vars, importVars, queueVars, runVars
<1>2. Events' /\ ItemsOK' /\ Unstarted'
  BY <1>1, SameEvents DEF QInv
<1>3. Plain'
  BY <1>1 DEF QInv, Plain
<1> QED
  BY <1>2, <1>3 DEF QInv

LEMMA ImportKeeps ==
  ASSUME IInv, QInv, ImportStep
  PROVE  QInv'
<1>1. UNCHANGED <<queue, nextId, runId, active, activeChild, worker, runs, running, large,
                  ui, faults>>
  BY DEF ImportStep, queueVars, runVars
<1>2. CASE ScanJob
  <2> DEFINE q == Head(jobs)
             m == [kind |-> "import", request |-> q, result |-> Scan(q)]
  <2>1. q \in Requests /\ Tail(jobs) \in Seq(Requests)
    BY <1>2, Parts DEF QInv, Plain, ScanJob
  <2> HIDE DEF q
  <2>2. m.kind = "import" /\ m.request = q /\ m.result = Scan(q)
    OBVIOUS
  <2>3. posts' = Append(posts, m) /\ jobs' = Tail(jobs) /\ UNCHANGED scanner
    BY <1>2 DEF ScanJob, q
  <2> HIDE DEF m
  <2>4. EventOK(m, runs', runId, active')
    BY <2>1, <2>2 DEF EventOK
  <2>5. \A k \in DOMAIN posts : Before(posts[k], m)
    BY <2>2 DEF Before
  <2>6. \A j \in DOMAIN queue : ~Concerns(m, queue[j], runId)
    BY <2>2 DEF Concerns
  <2>7. \A r \in Runs : Evolves(runs[r], runs'[r])
    BY <1>1 DEF QInv, Plain, Evolves
  <2>8. Events' /\ ItemsOK'
    BY <1>1, <2>3, <2>4, <2>5, <2>6, <2>7, RunsPost DEF QInv
  <2>9. Plain' /\ Unstarted'
    BY <1>1, <2>1, <2>3 DEF QInv, Plain, Unstarted
  <2> QED
    BY <2>8, <2>9 DEF QInv
<1>3. CASE StopSeen
  <2>1. UNCHANGED posts /\ jobs' = <<>> /\ scanner' = "ended"
    BY <1>3 DEF StopSeen
  <2>2. Events' /\ ItemsOK' /\ Unstarted'
    BY <1>1, <2>1, SameEvents DEF QInv
  <2>3. Plain'
    BY <1>1, <2>1 DEF QInv, Plain
  <2> QED
    BY <2>2, <2>3 DEF QInv
<1> QED
  BY <1>2, <1>3 DEF ImportStep, ImportThread

LEMMA RequestKeeps ==
  ASSUME QInv, NEW request \in Requests, RequestImport(request)
  PROVE  QInv'
<1>1. UNCHANGED <<posts, runs, runId, active, queue, nextId, worker, activeChild, running,
                  large, faults, ui, scanner>> /\ jobs' = Append(jobs, request)
  BY DEF RequestImport, EnqueueJob, queueVars, runVars
<1>2. jobs' \in Seq(Requests)
  BY <1>1, AppendProperties DEF QInv, Plain
<1>3. Events' /\ ItemsOK' /\ Unstarted'
  BY <1>1, SameEvents DEF QInv
<1>4. Plain'
  BY <1>1, <1>2 DEF QInv, Plain
<1> QED
  BY <1>3, <1>4 DEF QInv

\* A cancel request and a forced stop are for the current run.
LEMMA StopsKeep ==
  ASSUME IInv, QInv, CancelRun \/ ForceStop
  PROVE  QInv'
<1>1. /\ UNCHANGED <<jobs, scanner, posts, queue, nextId, runId, active, activeChild, worker,
                     large, ui>>
      /\ UNCHANGED faults \/ Fault
  BY DEF CancelRun, ForceStop, importVars, queueVars
<1>2. running' \in BOOLEAN /\ (Sound(runs) => running' = active)
  BY DEF CancelRun, ForceStop, QInv, Plain, IInv, Typed
<1>3. UNCHANGED runs \/ \E y : /\ activeChild \in Runs /\ activeChild = runId
                               /\ Evolves(runs[activeChild], y)
                               /\ runs' = [runs EXCEPT ![activeChild] = y]
  <2> SUFFICES ASSUME activeChild # 0
               PROVE  \E y : Evolves(runs[activeChild], y)
                             /\ (UNCHANGED runs \/ runs' = [runs EXCEPT ![activeChild] = y])
    <3>1. activeChild # 0 => activeChild \in Runs /\ activeChild = runId
      BY StudioAssumption DEF IInv, Typed, Runs, QInv, Plain
    <3> QED
      BY <3>1 DEF CancelRun, ForceStop
  <2>1. activeChild \in Runs /\ RunOK(runs[activeChild]) /\ RunFine(runs[activeChild])
    BY StudioAssumption DEF IInv, Typed, Runs, QInv, Plain
  <2>2. CASE CancelRun
    <3>1. runs' = [runs EXCEPT ![activeChild] = RequestCancel(@)]
      BY <2>2 DEF CancelRun
    <3> QED
      BY <2>1, <3>1, GoesOn, Zenon
  <2>3. CASE ForceStop
    <3>1. PICK ok \in BOOLEAN : runs' = [runs EXCEPT ![activeChild] = Terminate(@, ok)]
      BY <2>3 DEF ForceStop
    <3> QED
      BY <2>1, <3>1, EndedByForce, Zenon
  <2> QED
    BY <2>2, <2>3
<1>4. \A q \in Runs : Evolves(runs[q], runs'[q]) /\ (q # runId => runs'[q] = runs[q])
  <2>1. CASE UNCHANGED runs
    BY <2>1 DEF QInv, Plain, Evolves
  <2>2. CASE ~UNCHANGED runs
    BY <1>3, <2>2, OneGoesOn DEF QInv, IInv
  <2> QED
    BY <2>1, <2>2
<1>5. Sound(runs') => Sound(runs)
  BY <1>4 DEF Sound, Evolves
<1>6. Events' /\ ItemsOK'
  BY <1>1, <1>4, RunsGoOn DEF QInv
<1>7. faults' \in 0..MaxFaults
  BY <1>1, Counts DEF QInv
<1>8. Plain'
  BY <1>1, <1>2, <1>4, <1>5, <1>7 DEF QInv, Plain, Evolves
<1>9. Unstarted'
  <2>1. \A q \in Runs : q > runId => q # runId
    BY DEF IInv, Typed, Runs
  <2> QED
    BY <1>1, <1>4, <2>1 DEF QInv, Unstarted
<1> QED
  BY <1>6, <1>8, <1>9 DEF QInv

----------------------------------------------------------------------------
(* Editing the queue. *)

LEMMA Removed ==
  ASSUME NEW S, NEW s \in Seq(S), NEW i \in DOMAIN s
  PROVE  /\ RemoveAt(s, i) \in Seq(S) /\ Len(RemoveAt(s, i)) = Len(s) - 1
         /\ \A k \in 1..Len(s) - 1 : RemoveAt(s, i)[k] = s[IF k < i THEN k ELSE k + 1]
<1> DEFINE n == Len(s)
           a == SubSeq(s, 1, i - 1)
           b == SubSeq(s, i + 1, n)
<1>1. n \in Nat /\ DOMAIN s = 1..n /\ i \in 1..n /\ \A k \in 1..n : s[k] \in S
  BY LenProperties
<1>2. /\ a \in Seq(S) /\ Len(a) = i - 1
      /\ \A k \in 1..i - 1 : a[k] = s[k]
  <2>1. \A k \in 1..i - 1 : s[k] \in S
    BY <1>1
  <2>2. i - 1 \in Int /\ 1 \in Int /\ (IF 1 <= i - 1 THEN i - 1 - 1 + 1 ELSE 0) = i - 1
    BY <1>1
  <2>3. /\ a \in Seq(S) /\ Len(a) = i - 1
        /\ \A k \in 1..i - 1 - 1 + 1 : a[k] = s[1 + k - 1]
    BY <2>1, <2>2, SubSeqProperties
  <2>4. \A k \in 1..i - 1 : k \in 1..i - 1 - 1 + 1 /\ 1 + k - 1 = k
    BY <1>1
  <2> QED
    BY <2>3, <2>4
<1>3. /\ b \in Seq(S) /\ Len(b) = n - i
      /\ \A k \in 1..n - i : b[k] = s[i + k]
  <2>1. \A k \in i + 1..n : s[k] \in S
    BY <1>1
  <2>2. i + 1 \in Int /\ n \in Int /\ (IF i + 1 <= n THEN n - (i + 1) + 1 ELSE 0) = n - i
    BY <1>1
  <2>3. /\ b \in Seq(S) /\ Len(b) = n - i
        /\ \A k \in 1..n - (i + 1) + 1 : b[k] = s[i + 1 + k - 1]
    BY <2>1, <2>2, SubSeqProperties
  <2>4. \A k \in 1..n - i : k \in 1..n - (i + 1) + 1 /\ i + 1 + k - 1 = i + k
    BY <1>1
  <2> QED
    BY <2>3, <2>4
<1>4. RemoveAt(s, i) = a \o b
  BY DEF RemoveAt
<1> HIDE DEF a, b, n
<1>5. /\ a \o b \in Seq(S) /\ Len(a \o b) = Len(a) + Len(b)
      /\ \A k \in 1..Len(a) + Len(b) : (a \o b)[k] = IF k <= Len(a) THEN a[k] ELSE b[k - Len(a)]
  BY <1>2, <1>3, ConcatProperties
<1>6. Len(a) + Len(b) = n - 1
  BY <1>1, <1>2, <1>3
<1>7. ASSUME NEW k \in 1..n - 1 PROVE (a \o b)[k] = s[IF k < i THEN k ELSE k + 1]
  <2>1. CASE k < i
    <3>1. k <= Len(a) /\ k \in 1..i - 1
      BY <1>1, <1>2, <2>1
    <3> QED
      BY <1>2, <1>5, <1>6, <2>1, <3>1
  <2>2. CASE ~(k < i)
    <3>1. ~(k <= Len(a)) /\ k - Len(a) \in 1..n - i /\ i + (k - Len(a)) = k + 1
      BY <1>1, <1>2, <2>2
    <3>2. (a \o b)[k] = b[k - Len(a)]
      BY <1>5, <1>6, <3>1
    <3> QED
      BY <1>3, <2>2, <3>1, <3>2
  <2> QED
    BY <2>1, <2>2
<1> QED
  BY <1>4, <1>5, <1>6, <1>7 DEF n

IsInserted(t, S, s, j, e) ==
  /\ t \in Seq(S) /\ Len(t) = Len(s) + 1
  /\ \A k \in 1..Len(s) + 1 : t[k] = IF k = j THEN e ELSE s[IF k < j THEN k ELSE k - 1]

LEMMA Inserted ==
  ASSUME NEW S, NEW s \in Seq(S), NEW e \in S, NEW j \in 1..Len(s) + 1
  PROVE  IsInserted(InsertAt(s, j, e), S, s, j, e)
<1> DEFINE n == Len(s)
           a == SubSeq(s, 1, j - 1)
           u == <<e>>
           b == SubSeq(s, j, n)
           c == a \o u
<1>1. n \in Nat /\ DOMAIN s = 1..n /\ j \in 1..n + 1 /\ \A k \in 1..n : s[k] \in S
  BY LenProperties
<1>2. /\ a \in Seq(S) /\ Len(a) = j - 1
      /\ \A k \in 1..j - 1 : a[k] = s[k]
  <2>1. \A k \in 1..j - 1 : s[k] \in S
    BY <1>1
  <2>2. j - 1 \in Int /\ 1 \in Int /\ (IF 1 <= j - 1 THEN j - 1 - 1 + 1 ELSE 0) = j - 1
    BY <1>1
  <2>3. /\ a \in Seq(S) /\ Len(a) = j - 1
        /\ \A k \in 1..j - 1 - 1 + 1 : a[k] = s[1 + k - 1]
    BY <2>1, <2>2, SubSeqProperties
  <2>4. \A k \in 1..j - 1 : k \in 1..j - 1 - 1 + 1 /\ 1 + k - 1 = k
    BY <1>1
  <2> QED
    BY <2>3, <2>4
<1>3. /\ b \in Seq(S) /\ Len(b) = n - j + 1
      /\ \A k \in 1..n - j + 1 : b[k] = s[j + k - 1]
  <2>1. \A k \in j..n : s[k] \in S
    BY <1>1
  <2>2. j \in Int /\ n \in Int /\ (IF j <= n THEN n - j + 1 ELSE 0) = n - j + 1
    BY <1>1
  <2> QED
    BY <2>1, <2>2, SubSeqProperties
<1>4. u \in Seq(S) /\ Len(u) = 1 /\ u[1] = e
  OBVIOUS
<1>5. InsertAt(s, j, e) = c \o b
  BY DEF InsertAt
<1> HIDE DEF a, b, n, u
<1>6. /\ c \in Seq(S) /\ Len(c) = j
      /\ \A k \in 1..j : c[k] = IF k = j THEN e ELSE s[k]
  <2>1. /\ a \o u \in Seq(S) /\ Len(a \o u) = Len(a) + Len(u)
        /\ \A k \in 1..Len(a) + Len(u) :
             (a \o u)[k] = IF k <= Len(a) THEN a[k] ELSE u[k - Len(a)]
    BY <1>2, <1>4, ConcatProperties
  <2>2. Len(a) + Len(u) = j
    BY <1>1, <1>2, <1>4
  <2>3. ASSUME NEW k \in 1..j PROVE c[k] = IF k = j THEN e ELSE s[k]
    <3>1. CASE k = j
      <4>1. ~(k <= Len(a)) /\ k - Len(a) = 1
        BY <1>1, <1>2, <3>1
      <4> QED
        BY <1>4, <2>1, <2>2, <3>1, <4>1
    <3>2. CASE k # j
      <4>1. k <= Len(a) /\ k \in 1..j - 1
        BY <1>1, <1>2, <3>2
      <4> QED
        BY <1>2, <2>1, <2>2, <3>2, <4>1
    <3> QED
      BY <3>1, <3>2
  <2> QED
    BY <2>1, <2>2, <2>3
<1> HIDE DEF c
<1>7. /\ c \o b \in Seq(S) /\ Len(c \o b) = Len(c) + Len(b)
      /\ \A k \in 1..Len(c) + Len(b) : (c \o b)[k] = IF k <= Len(c) THEN c[k] ELSE b[k - Len(c)]
  BY <1>3, <1>6, ConcatProperties
<1>8. Len(c) + Len(b) = n + 1
  BY <1>1, <1>3, <1>6
<1>9. ASSUME NEW k \in 1..n + 1
      PROVE  (c \o b)[k] = IF k = j THEN e ELSE s[IF k < j THEN k ELSE k - 1]
  <2>1. CASE k <= j
    <3>1. k <= Len(c) /\ k \in 1..j
      BY <1>1, <1>6, <2>1
    <3>2. (c \o b)[k] = c[k]
      BY <1>7, <1>8, <3>1
    <3>3. k # j => k < j
      BY <1>1, <2>1
    <3> QED
      BY <1>6, <3>1, <3>2, <3>3
  <2>2. CASE ~(k <= j)
    <3>1. ~(k <= Len(c)) /\ k - Len(c) \in 1..n - j + 1 /\ j + (k - Len(c)) - 1 = k - 1
          /\ k # j /\ ~(k < j)
      BY <1>1, <1>6, <2>2
    <3>2. (c \o b)[k] = b[k - Len(c)]
      BY <1>7, <1>8, <3>1
    <3> QED
      BY <1>3, <3>1, <3>2
  <2> QED
    BY <2>1, <2>2
<1> QED
  BY <1>5, <1>7, <1>8, <1>9 DEF n, IsInserted

\* The rank of a member of a finite set by a key that tells its members apart: one
\* member for each number up to the size of the set.
Ranked(F, key) ==
  LET rank(p) == Cardinality({f \in F : key[f] <= key[p]})
  IN /\ Cardinality(F) \in Nat
     /\ \A p \in F : rank(p) \in 1..Cardinality(F)
     /\ \A p, q \in F : rank(p) = rank(q) => p = q
     /\ \A k \in 1..Cardinality(F) : \E p \in F : rank(p) = k

LEMMA Ranks ==
  ASSUME NEW F, IsFiniteSet(F), NEW key \in [F -> Nat],
         \A p, q \in F : key[p] = key[q] => p = q
  PROVE  Ranked(F, key)
<1> DEFINE upto(p) == {f \in F : key[f] <= key[p]}
           rank(p) == Cardinality(upto(p))
           n == Cardinality(F)
           R == [p \in F |-> rank(p)]
<1>1. n \in Nat
  BY FS_CardinalityType
<1>2. ASSUME NEW p \in F
      PROVE  IsFiniteSet(upto(p)) /\ rank(p) \in 1..n
  <2>1. upto(p) \in SUBSET F /\ p \in upto(p)
    OBVIOUS
  <2>2. IsFiniteSet(upto(p)) /\ rank(p) <= n
    BY <2>1, FS_Subset
  <2>3. rank(p) \in Nat /\ rank(p) # 0
    BY <2>1, <2>2, FS_CardinalityType, FS_EmptySet
  <2> QED
    BY <1>1, <2>2, <2>3
<1>3. ASSUME NEW p \in F, NEW q \in F, rank(p) = rank(q), key[p] <= key[q] PROVE p = q
  <2>1. upto(p) \in SUBSET upto(q)
    BY <1>3
  <2>2. upto(p) = upto(q)
    <3> HIDE DEF upto
    <3> QED
      BY <1>2, <1>3, <2>1, FS_Subset
  <2>3. q \in upto(p)
    BY <2>2
  <2>4. key[q] = key[p]
    BY <1>3, <2>3
  <2> QED
    BY <2>4
<1>4. \A p, q \in F : rank(p) = rank(q) => p = q
  <2> SUFFICES ASSUME NEW p \in F, NEW q \in F, rank(p) = rank(q) PROVE p = q
    OBVIOUS
  <2>1. key[p] <= key[q] \/ key[q] <= key[p]
    OBVIOUS
  <2> HIDE DEF rank
  <2> QED
    BY <1>3, <2>1
<1> HIDE DEF upto
<1>5. R \in [F -> 1..n] /\ \A p, q \in F : R[p] = R[q] => p = q
  BY <1>2, <1>4
<1>6. R \in Injection(F, 1..n)
  <2> HIDE DEF R, n
  <2> QED
    BY <1>5, Fun_IsInj
<1>7. IsFiniteSet(1..n) /\ Cardinality(1..n) = n
  BY <1>1, FS_Interval
<1>8. R \in Surjection(F, 1..n)
  <2> HIDE DEF R
  <2> QED
    BY <1>6, <1>7, FS_Injection DEF n
<1>9. \A k \in 1..n : \E p \in F : R[p] = k
  <2> HIDE DEF R, n
  <2> QED
    BY <1>8, Fun_SurjectionProperties
<1> QED
  BY <1>1, <1>2, <1>4, <1>9 DEF upto, Ranked

\* The files of a result as the queue receives them: each once.
LEMMA Files ==
  ASSUME NEW F \in SUBSET Paths, IsFiniteSet(F), \A p, q \in F : Key(p) = Key(q) => p = q
  PROVE  LET o == FileOrder(F)
         IN /\ Cardinality(F) \in Nat /\ o \in [1..Cardinality(F) -> F]
            /\ \A k, l \in 1..Cardinality(F) : o[k] = o[l] => k = l
<1> DEFINE key == [p \in F |-> Key(p)]
           rank(p) == Cardinality({f \in F : key[f] <= key[p]})
           Rank(p) == Cardinality({f \in F : Key(f) <= Key(p)})
           o == FileOrder(F)
           n == Cardinality(F)
<1>1. key \in [F -> Nat] /\ \A p, q \in F : key[p] = key[q] => p = q
  BY TreeAssumption DEF Key
<1>2. \A p \in F : rank(p) = Rank(p)
  <2> SUFFICES ASSUME NEW p \in F PROVE rank(p) = Rank(p)
    OBVIOUS
  <2>1. {f \in F : key[f] <= key[p]} = {f \in F : Key(f) <= Key(p)}
    OBVIOUS
  <2> QED
    BY <2>1
<1>3. n \in Nat /\ \A k \in 1..n : \E p \in F : rank(p) = k
  <2> HIDE DEF key
  <2>1. Ranked(F, key)
    BY <1>1, Ranks
  <2> QED
    BY <2>1 DEF Ranked
<1> HIDE DEF rank
<1>4. \A k \in 1..n : \E p \in F : Rank(p) = k
  BY <1>2, <1>3
<1> DEFINE c(k) == CHOOSE p \in F : Rank(p) = k
<1>5. o = [k \in 1..n |-> c(k)]
  BY DEF FileOrder
<1> HIDE DEF Rank, n, o
<1>6. \A k \in 1..n : o[k] \in F /\ Rank(o[k]) = k
  <2> SUFFICES ASSUME NEW k \in 1..n PROVE o[k] \in F /\ Rank(o[k]) = k
    OBVIOUS
  <2>1. \E p : p \in F /\ Rank(p) = k
    BY <1>4
  <2>2. c(k) \in F /\ Rank(c(k)) = k
    BY <2>1, Zenon DEF c
  <2>3. o[k] = c(k)
    <3> HIDE DEF c
    <3> QED
      BY <1>5
  <2> QED
    BY <2>2, <2>3
<1> HIDE DEF c
<1> QED
  BY <1>3, <1>5, <1>6 DEF n, o

\* The queue keeps some of its items, each once.
LEMMA Rearranged ==
  ASSUME ItemsOK, UNCHANGED <<posts, runs, runId, active, nextId>>,
         queue' \in Seq(Items), NEW g, \A i \in DOMAIN queue' : g[i] \in DOMAIN queue,
         \A i, j \in DOMAIN queue' : g[i] = g[j] => i = j,
         \A i \in DOMAIN queue' : queue'[i] = queue[g[i]]
  PROVE  ItemsOK'
<1>1. \A i \in DOMAIN queue' : ItemOK(queue'[i], nextId, runs, runId, active)
                               /\ Unreported(queue'[i], posts, runId)
  BY DEF ItemsOK
<1>2. \A i, j \in DOMAIN queue' : queue'[i].id = queue'[j].id => i = j
  BY DEF ItemsOK
<1>3. QueueDistinct'
  BY DEF ItemsOK, QueueDistinct
<1> QED
  BY <1>1, <1>2, <1>3 DEF ItemsOK

\* Where the items are after one of them moved from i to j.
Origin(n, i, j) == [k \in 1..n |->
  IF k = j THEN i
  ELSE IF k < j THEN (IF k < i THEN k ELSE k + 1)
  ELSE (IF k - 1 < i THEN k - 1 ELSE k)]

IsMoved(t, S, s, g) ==
  /\ t \in Seq(S) /\ DOMAIN t = DOMAIN s
  /\ \A k \in DOMAIN t : g[k] \in DOMAIN s /\ t[k] = s[g[k]]
  /\ \A k, l \in DOMAIN t : g[k] = g[l] => k = l

LEMMA Moved ==
  ASSUME NEW S, NEW s \in Seq(S), NEW i \in DOMAIN s, NEW j \in DOMAIN s
  PROVE  IsMoved(InsertAt(RemoveAt(s, i), j, s[i]), S, s, Origin(Len(s), i, j))
<1> DEFINE n == Len(s)
           r == RemoveAt(s, i)
           t == InsertAt(r, j, s[i])
           g == Origin(n, i, j)
<1>1. n \in Nat /\ DOMAIN s = 1..n /\ i \in 1..n /\ j \in 1..n /\ s[i] \in S
  BY LenProperties
<1>2. /\ r \in Seq(S) /\ Len(r) = n - 1
      /\ \A k \in 1..n - 1 : r[k] = s[IF k < i THEN k ELSE k + 1]
  BY Removed
<1> HIDE DEF r
<1>3. /\ t \in Seq(S) /\ Len(t) = n
      /\ \A k \in 1..n : t[k] = IF k = j THEN s[i] ELSE r[IF k < j THEN k ELSE k - 1]
  <2>1. j \in 1..Len(r) + 1 /\ Len(r) + 1 = n
    BY <1>1, <1>2
  <2> DEFINE e == s[i]
  <2>2. e \in S
    BY <1>1
  <2>3. IsInserted(t, S, r, j, e)
    BY <1>1, <1>2, <2>1, <2>2, Inserted
  <2> HIDE DEF t
  <2> QED
    BY <2>1, <2>3 DEF IsInserted
<1> HIDE DEF t
<1>4. DOMAIN t = 1..n
  BY <1>3, LenProperties
<1>5. \A k \in 1..n : g[k] = IF k = j THEN i
                             ELSE IF k < j THEN (IF k < i THEN k ELSE k + 1)
                             ELSE (IF k - 1 < i THEN k - 1 ELSE k)
  BY DEF Origin
<1> HIDE DEF g
<1>6. \A k \in 1..n : g[k] \in 1..n
  BY <1>1, <1>5
<1>7. \A k, l \in 1..n : g[k] = g[l] => k = l
  <2> SUFFICES ASSUME NEW k \in 1..n, NEW l \in 1..n, g[k] = g[l] PROVE k = l
    OBVIOUS
  <2>1. k # j => g[k] # i
    BY <1>1, <1>5
  <2>2. l # j => g[l] # i
    BY <1>1, <1>5
  <2>3. CASE k # j /\ l # j
    BY <1>1, <1>5, <2>3
  <2>4. g[j] = i
    BY <1>1, <1>5
  <2> QED
    BY <2>1, <2>2, <2>3, <2>4
<1>8. ASSUME NEW k \in 1..n PROVE t[k] = s[g[k]]
  <2>1. CASE k = j
    BY <1>3, <1>5, <2>1
  <2>2. CASE k < j
    <3>1. k \in 1..n - 1 /\ k # j
      BY <1>1, <2>2
    <3> QED
      BY <1>2, <1>3, <1>5, <2>2, <3>1
  <2>3. CASE ~(k < j) /\ k # j
    <3>1. k - 1 \in 1..n - 1 /\ k - 1 + 1 = k
      BY <1>1, <2>3
    <3> QED
      BY <1>2, <1>3, <1>5, <2>3, <3>1
  <2> QED
    BY <2>1, <2>2, <2>3
<1>9. IsMoved(t, S, s, g)
  BY <1>1, <1>3, <1>4, <1>6, <1>7, <1>8 DEF IsMoved
<1> QED
  BY <1>9, Zenon DEF g, t, r

LEMMA MoveKeeps ==
  ASSUME QInv, NEW i, NEW j, MoveItem(i, j)
  PROVE  QInv'
<1>1. /\ i \in DOMAIN queue /\ j \in DOMAIN queue
      /\ queue' = InsertAt(RemoveAt(queue, i), j, queue[i])
      /\ UNCHANGED <<jobs, scanner, posts, nextId, runId, active, activeChild, worker, runs,
                     running, large, ui, faults>>
  BY DEF MoveItem, Movable, importVars, runVars
<1>2. queue \in Seq(Items)
  BY DEF QInv, ItemsOK
<1> DEFINE g == Origin(Len(queue), i, j)
<1>3. /\ queue' \in Seq(Items)
      /\ \A k \in DOMAIN queue' : g[k] \in DOMAIN queue /\ queue'[k] = queue[g[k]]
      /\ \A k, l \in DOMAIN queue' : g[k] = g[l] => k = l
  <2>1. IsMoved(InsertAt(RemoveAt(queue, i), j, queue[i]), Items, queue, g)
    BY <1>1, <1>2, Moved
  <2> HIDE DEF g
  <2>2. IsMoved(queue', Items, queue, g)
    BY <1>1, <2>1
  <2> QED
    BY <2>2 DEF IsMoved
<1> HIDE DEF g
<1>4. ItemsOK'
  BY <1>1, <1>3, Rearranged DEF QInv
<1>5. Plain' /\ Unstarted' /\ Events'
  BY <1>1 DEF QInv, Plain, Unstarted, Events
<1> QED
  BY <1>4, <1>5 DEF QInv

LEMMA RemoveKeeps ==
  ASSUME QInv, NEW i \in DOMAIN queue, RemoveItem(i)
  PROVE  QInv'
<1>1. /\ queue' = RemoveAt(queue, i)
      /\ UNCHANGED <<jobs, scanner, posts, nextId, runId, active, activeChild, worker, runs,
                     running, large, ui, faults>>
  BY DEF RemoveItem, importVars, runVars
<1> DEFINE n == Len(queue)
           g == [k \in 1..n - 1 |-> IF k < i THEN k ELSE k + 1]
<1>2. queue \in Seq(Items) /\ n \in Nat /\ DOMAIN queue = 1..n /\ i \in 1..n
  BY LenProperties DEF QInv, ItemsOK
<1>3. /\ queue' \in Seq(Items) /\ DOMAIN queue' = 1..n - 1
      /\ \A k \in 1..n - 1 : queue'[k] = queue[g[k]]
  <2>1. /\ RemoveAt(queue, i) \in Seq(Items) /\ Len(RemoveAt(queue, i)) = n - 1
        /\ \A k \in 1..n - 1 : RemoveAt(queue, i)[k] = queue[IF k < i THEN k ELSE k + 1]
    BY <1>2, Removed
  <2>2. DOMAIN RemoveAt(queue, i) = 1..n - 1
    BY <2>1, LenProperties
  <2> QED
    BY <1>1, <2>1, <2>2
<1>4. /\ \A k \in 1..n - 1 : g[k] \in 1..n
      /\ \A k, l \in 1..n - 1 : g[k] = g[l] => k = l
  BY <1>2
<1> HIDE DEF g, n
<1>5. ItemsOK'
  BY <1>1, <1>2, <1>3, <1>4, Rearranged DEF QInv
<1>6. Plain' /\ Unstarted' /\ Events'
  BY <1>1 DEF QInv, Plain, Unstarted, Events
<1> QED
  BY <1>5, <1>6 DEF QInv

LEMMA ClearKeeps ==
  ASSUME QInv, ClearTasks
  PROVE  QInv'
<1>1. /\ queue' = <<>> /\ large' = FALSE
      /\ UNCHANGED <<jobs, scanner, posts, nextId, runId, active, activeChild, worker, runs,
                     running, ui, faults>>
  BY DEF ClearTasks, importVars
<1>2. ItemsOK'
  BY <1>1 DEF QInv, ItemsOK, QueueDistinct
<1>3. Plain' /\ Unstarted' /\ Events'
  BY <1>1 DEF QInv, Plain, Unstarted, Events
<1> QED
  BY <1>2, <1>3 DEF QInv

----------------------------------------------------------------------------
(* The event loop runs the oldest closure. *)

LEMMA Rest ==
  ASSUME IInv, Events, posts # <<>>, posts' = Tail(posts)
  PROVE  /\ 1 \in DOMAIN posts /\ Head(posts) = posts[1]
         /\ EventOK(Head(posts), runs, runId, active)
         /\ \A k \in DOMAIN posts' : /\ EventOK(posts'[k], runs, runId, active)
                                     /\ Before(Head(posts), posts'[k])
         /\ \A k, l \in DOMAIN posts' : k < l => Before(posts'[k], posts'[l])
         /\ \A k \in DOMAIN posts' : \E l \in DOMAIN posts : posts'[k] = posts[l]
<1>1. PICK S : posts \in Seq(S)
  BY DEF IInv, Typed, Sequence
<1>2. /\ posts' \in Seq(S) /\ Len(posts') = Len(posts) - 1
      /\ \A i \in 1..Len(posts) - 1 : posts'[i] = posts[i + 1]
  BY <1>1, HeadTailProperties
<1>3. Len(posts) \in Nat /\ Len(posts) # 0 /\ DOMAIN posts = 1..Len(posts)
      /\ DOMAIN posts' = 1..Len(posts')
  BY <1>1, <1>2, LenProperties, EmptySeq
<1>4. \A i \in DOMAIN posts' : /\ i + 1 \in DOMAIN posts /\ 1 < i + 1
                               /\ posts'[i] = posts[i + 1]
  BY <1>2, <1>3
<1>5. 1 \in DOMAIN posts /\ Head(posts) = posts[1]
  BY <1>1, <1>3, HeadTailProperties
<1>6. \A k, l \in DOMAIN posts' : k < l => k + 1 < l + 1
  BY <1>3
<1> QED
  BY <1>4, <1>5, <1>6 DEF Events

\* A file that was added waits, with a number of its own.
NewItem(id, p) == [id |-> id, path |-> p, status |-> "pending", ri |-> 0]

IsAppended(t, q, o, n, id) ==
  /\ t \in Seq(Items) /\ Len(t) = Len(q) + n /\ DOMAIN t = 1..Len(q) + n
  /\ \A k \in 1..Len(q) + n :
       t[k] = IF k <= Len(q) THEN q[k] ELSE NewItem(id + (k - Len(q)) - 1, o[k - Len(q)])

LEMMA Joined ==
  ASSUME NEW q \in Seq(Items), NEW id \in Nat, NEW n \in Nat, NEW o \in [1..n -> Paths]
  PROVE  IsAppended(Appended(q, o, id), q, o, n, id)
<1> DEFINE s == [k \in DOMAIN o |-> [id |-> id + k - 1, path |-> o[k],
                                     status |-> "pending", ri |-> 0]]
<1>1. DOMAIN s = 1..n /\ \A k \in 1..n : s[k] = NewItem(id + k - 1, o[k])
  BY DEF NewItem
<1>2. \A k \in 1..n : NewItem(id + k - 1, o[k]) \in Items
  BY DEF NewItem, Items, Statuses
<1>3. s \in [1..n -> Items]
  BY <1>1, <1>2
<1>4. Appended(q, o, id) = q \o s
  BY DEF Appended
<1> HIDE DEF s
<1>5. s \in Seq(Items) /\ Len(s) = n /\ Len(q) \in Nat
  BY <1>1, <1>3, LenProperties
<1>6. /\ q \o s \in Seq(Items) /\ Len(q \o s) = Len(q) + Len(s)
      /\ \A k \in 1..Len(q) + Len(s) :
           (q \o s)[k] = IF k <= Len(q) THEN q[k] ELSE s[k - Len(q)]
  BY <1>5, ConcatProperties
<1>7. DOMAIN (q \o s) = 1..Len(q) + n
  BY <1>5, <1>6, LenProperties
<1>8. \A k \in 1..Len(q) + n : ~(k <= Len(q)) => k - Len(q) \in 1..n
  BY <1>5
<1> DEFINE t == q \o s
<1> HIDE DEF t
<1>9. IsAppended(t, q, o, n, id)
  BY <1>1, <1>5, <1>6, <1>7, <1>8 DEF IsAppended, t
<1> QED
  BY <1>4, <1>9 DEF t

\* A report that waited for an item waits no longer, or still does.
LEMMA FewerReports ==
  ASSUME NEW x, NEW id, NEW ps, NEW pt, Unreported(x, ps, id),
         \A k \in DOMAIN pt : \E l \in DOMAIN ps : pt[k] = ps[l]
  PROVE  Unreported(x, pt, id)
  BY DEF Unreported

LEMMA AddsKeep ==
  ASSUME IInv, QInv, NEW F \in SUBSET Paths, IsFiniteSet(F),
         \A p, q \in F : Key(p) = Key(q) => p = q, AddImport(F),
         \A k \in DOMAIN posts' : \E l \in DOMAIN posts : posts'[k] = posts[l]
  PROVE  ItemsOK'
<1>1. UNCHANGED <<runs, runId, active>> /\ nextId \in Nat /\ queue \in Seq(Items)
  BY DEF AddImport, runVars, QInv, ItemsOK
<1>2. CASE active
  <2>1. UNCHANGED <<queue, nextId>>
    BY <1>2 DEF AddImport, queueVars
  <2>2. \A i \in DOMAIN queue : Unreported(queue[i], posts', runId)
    BY FewerReports DEF QInv, ItemsOK
  <2> QED
    BY <1>1, <2>1, <2>2 DEF QInv, ItemsOK, QueueDistinct
<1>3. CASE ~active
  <2> DEFINE G == {p \in F : \A i \in DOMAIN queue : Key(queue[i].path) # Key(p)}
             o == FileOrder(G)
             n == Cardinality(G)
             l == Len(queue)
  <2>1. IsFiniteSet(G) /\ G \in SUBSET Paths /\ \A p, q \in G : Key(p) = Key(q) => p = q
    <3>1. G \in SUBSET F
      OBVIOUS
    <3> QED
      BY <3>1, FS_Subset
  <2>2. \A p \in G : \A i \in DOMAIN queue : Key(queue[i].path) # Key(p)
    OBVIOUS
  <2>3. queue' = Appended(queue, o, nextId) /\ nextId' = nextId + Len(queue') - l
    BY <1>3 DEF AddImport, AddFiles
  <2> HIDE DEF G
  <2>4. n \in Nat /\ o \in [1..n -> G] /\ \A k, j \in 1..n : o[k] = o[j] => k = j
    BY <2>1, Files
  <2>5. o \in [1..n -> Paths] /\ l \in Nat /\ DOMAIN queue = 1..l
    BY <1>1, <2>1, <2>4, LenProperties
  <2> HIDE DEF o, n
  <2>6. IsAppended(queue', queue, o, n, nextId)
    BY <1>1, <2>3, <2>4, <2>5, Joined
  <2> HIDE DEF l
  <2>7. /\ queue' \in Seq(Items) /\ DOMAIN queue' = 1..l + n /\ nextId' = nextId + n
        /\ \A k \in 1..l + n : queue'[k] = IF k <= l THEN queue[k]
                                           ELSE NewItem(nextId + (k - l) - 1, o[k - l])
    BY <1>1, <2>3, <2>4, <2>5, <2>6 DEF IsAppended, l
  <2>8. \A k \in 1..l + n : (k <= l => k \in DOMAIN queue /\ queue'[k] = queue[k])
    BY <2>5, <2>7
  <2>9. \A k \in 1..l + n : ~(k <= l) =>
          k - l \in 1..n /\ queue'[k] = NewItem(nextId + (k - l) - 1, o[k - l])
    BY <2>4, <2>5, <2>7
  <2> DEFINE w(k) == nextId + (k - l) - 1
  <2>15. \A i, p : /\ NewItem(i, p).id = i /\ NewItem(i, p).path = p
                  /\ NewItem(i, p).status = "pending" /\ NewItem(i, p).ri = 0
    BY DEF NewItem
  <2>16. ASSUME NEW k \in 1..l + n, ~(k <= l)
         PROVE  /\ k - l \in 1..n /\ queue'[k].id = w(k) /\ queue'[k].path = o[k - l]
                /\ queue'[k].status = "pending" /\ queue'[k].ri = 0
    <3> DEFINE y == w(k)
               z == o[k - l]
    <3>1. k - l \in 1..n /\ queue'[k] = NewItem(y, z)
      BY <2>9, <2>16
    <3> HIDE DEF y, z
    <3>2. /\ queue'[k].id = y /\ queue'[k].path = z
          /\ queue'[k].status = "pending" /\ queue'[k].ri = 0
      BY <2>15, <3>1
    <3> QED
      BY <3>1, <3>2, Zenon DEF y, z
  <2>10. nextId' \in Nat /\ nextId <= nextId'
    BY <1>1, <2>4, <2>7
  <2>11. ASSUME NEW k \in 1..l + n, k <= l
         PROVE  ItemOK(queue'[k], nextId', runs, runId, active)
                /\ Unreported(queue'[k], posts', runId)
    <3>1. k \in DOMAIN queue /\ queue'[k] = queue[k]
      BY <2>8, <2>11
    <3>2. ItemOK(queue[k], nextId, runs, runId, active) /\ Unreported(queue[k], posts, runId)
      BY <3>1 DEF QInv, ItemsOK
    <3>3. ItemOK(queue[k], nextId', runs, runId, active)
      BY <1>1, <2>10, <3>2 DEF ItemOK, Items
    <3> QED
      BY <3>1, <3>2, <3>3, FewerReports
  <2>12. ASSUME NEW k \in 1..l + n, ~(k <= l)
         PROVE  ItemOK(queue'[k], nextId', runs, runId, active)
                /\ Unreported(queue'[k], posts', runId)
    <3> DEFINE x == queue'[k]
    <3>1. x \in Items /\ x.id = nextId + (k - l) - 1 /\ x.status = "pending" /\ x.ri = 0
      <4>1. x \in Items
        BY <2>7, <2>12, LenProperties, ElementOfSeq
      <4> QED
        BY <2>12, <2>16, <4>1
    <3>2. x.id < nextId'
      BY <1>1, <2>4, <2>5, <2>7, <2>9, <2>12, <3>1
    <3>3. runId # 0 => 0 \notin DOMAIN runs[runId].list /\ 0 \notin DOMAIN runs[runId].left
      BY StudioAssumption DEF QInv, Plain, RunFine, IInv, Typed, Runs
    <3> HIDE DEF x
    <3> QED
      BY <3>1, <3>2, <3>3 DEF ItemOK, Unreported, Finished, x
  <2>13. \A i, j \in 1..l + n : queue'[i].id = queue'[j].id => i = j
    <3>1. \A k \in 1..l + n : k <= l => queue'[k].id \in Nat /\ queue'[k].id < nextId
      BY <2>8 DEF QInv, ItemsOK, ItemOK, Items
    <3>2. \A k \in 1..l + n : ~(k <= l) => queue'[k].id = nextId + (k - l) - 1
      BY <2>16
    <3>3. \A i, j \in 1..l + n : i <= l /\ j <= l /\ queue'[i].id = queue'[j].id => i = j
      BY <2>8 DEF QInv, ItemsOK
    <3>4. \A k \in 1..l + n : ~(k <= l) => queue'[k].id \in Nat /\ nextId <= queue'[k].id
      BY <1>1, <2>4, <2>5, <3>2
    <3>5. \A i, j \in 1..l + n : ~(i <= l) /\ ~(j <= l) /\ queue'[i].id = queue'[j].id => i = j
      BY <1>1, <2>4, <2>5, <3>2
    <3> QED
      BY <1>1, <3>1, <3>3, <3>4, <3>5
  <2>14. \A i, j \in 1..l + n : Key(queue'[i].path) = Key(queue'[j].path) => i = j
    <3>1. \A k \in 1..l + n : ~(k <= l) => /\ k - l \in 1..n /\ queue'[k].path = o[k - l]
                                          /\ o[k - l] \in G
      BY <2>4, <2>16
    <3>2. \A i, j \in 1..l + n : i <= l /\ j <= l /\ Key(queue'[i].path) = Key(queue'[j].path)
                                   => i = j
      BY <2>8 DEF QInv, ItemsOK, QueueDistinct
    <3>3. \A i, j \in 1..l + n : i <= l /\ ~(j <= l) => Key(queue'[i].path) # Key(queue'[j].path)
      BY <2>2, <2>8, <3>1
    <3>4. ASSUME NEW i \in 1..l + n, NEW j \in 1..l + n, ~(i <= l), ~(j <= l),
                 Key(queue'[i].path) = Key(queue'[j].path)
          PROVE  i - l = j - l
      <4>1. o[i - l] \in G /\ o[j - l] \in G /\ Key(o[i - l]) = Key(o[j - l])
        BY <3>1, <3>4
      <4>2. o[i - l] = o[j - l]
        BY <2>1, <4>1, Zenon
      <4>3. i - l \in 1..n /\ j - l \in 1..n
        BY <3>1, <3>4
      <4> QED
        BY <2>4, <4>2, <4>3, Zenon
    <3>5. \A i, j \in 1..l + n : i - l = j - l => i = j
      BY <2>4, <2>5
    <3> QED
      BY <3>2, <3>3, <3>4, <3>5
  <2> QED
    BY <1>1, <2>7, <2>10, <2>11, <2>12, <2>13, <2>14 DEF ItemsOK, QueueDistinct
<1> QED
  BY <1>2, <1>3

\* The status of an item changes and nothing else of it.
Restated(x, y) == /\ y \in Items /\ y.id = x.id /\ y.path = x.path /\ y.ri = x.ri

LEMMA Restates ==
  ASSUME NEW x \in Items, NEW st \in Statuses
  PROVE  /\ Restated(x, [x EXCEPT !.status = st]) /\ [x EXCEPT !.status = st].status = st
         /\ Restated(x, x)
  BY DEF Restated, Items

\* An item other than by its status is what it was.
LEMMA SameItems ==
  ASSUME ItemsOK, UNCHANGED nextId, DOMAIN queue' = DOMAIN queue,
         queue' = [i \in DOMAIN queue |-> queue'[i]],
         \A i \in DOMAIN queue : Restated(queue[i], queue'[i]),
         \A i \in DOMAIN queue : ItemOK(queue'[i], nextId, runs', runId', active'),
         \A i \in DOMAIN queue : Unreported(queue'[i], posts', runId')
  PROVE  ItemsOK'
<1>1. queue' \in Seq(Items)
  <2>1. queue \in Seq(Items)
    BY DEF ItemsOK
  <2>2. Len(queue) \in Nat /\ DOMAIN queue = 1..Len(queue)
    BY <2>1, LenProperties
  <2> DEFINE n == Len(queue)
  <2>3. \A i \in 1..n : queue'[i] \in Items
    BY <2>2 DEF Restated
  <2>4. queue' = [i \in 1..n |-> queue'[i]] /\ n \in Nat
    BY <2>2
  <2> HIDE DEF n
  <2>5. queue' \in [1..n -> Items]
    BY <2>3, <2>4
  <2> QED
    BY <2>4, <2>5
<1>2. \A i, j \in DOMAIN queue : queue'[i].id = queue'[j].id => i = j
  BY DEF ItemsOK, Restated
<1>3. QueueDistinct'
  BY DEF ItemsOK, QueueDistinct, Restated
<1> QED
  BY <1>1, <1>2, <1>3 DEF ItemsOK

\* How a report changes the queue.
LEMMA Shows ==
  ASSUME ItemsOK, NEW m, ShowItem(m), m.st \in Statuses
  PROVE  /\ UNCHANGED <<runs, runId, active, nextId, activeChild, worker, running, large>>
         /\ DOMAIN queue' = DOMAIN queue /\ queue' = [i \in DOMAIN queue |-> queue'[i]]
         /\ \A i \in DOMAIN queue : /\ Restated(queue[i], queue'[i])
                                    /\ \/ queue'[i] = queue[i]
                                       \/ /\ runId = m.run /\ queue[i].ri = m.ix
                                          /\ queue'[i].status = m.st
<1>1. UNCHANGED <<runs, runId, active, nextId, activeChild, worker, running, large>>
  BY DEF ShowItem, runVars
<1>2. queue \in Seq(Items) /\ \A i \in DOMAIN queue : queue[i] \in Items
  BY DEF ItemsOK, ItemOK
<1>3. \A i \in DOMAIN queue : /\ Restated(queue[i], queue[i])
                              /\ Restated(queue[i], [queue[i] EXCEPT !.status = m.st])
                              /\ [queue[i] EXCEPT !.status = m.st].status = m.st
  BY <1>2, Restates
<1>4. CASE runId # m.run
  <2>1. queue' = queue /\ queue = [i \in DOMAIN queue |-> queue[i]]
    BY <1>2, <1>4 DEF ShowItem
  <2> QED
    BY <1>1, <1>3, <2>1
<1>5. CASE runId = m.run
  <2> DEFINE c(i) == [queue[i] EXCEPT !.status = m.st]
  <2>1. queue' = [i \in DOMAIN queue |-> IF queue[i].ri = m.ix THEN c(i) ELSE queue[i]]
    BY <1>5 DEF ShowItem
  <2>2. \A i \in DOMAIN queue : /\ Restated(queue[i], queue[i])
                                /\ Restated(queue[i], c(i)) /\ c(i).status = m.st
    BY <1>3
  <2> HIDE DEF c
  <2> QED
    BY <1>1, <1>5, <2>1, <2>2
<1> QED
  BY <1>4, <1>5

LEMMA ShowKeeps ==
  ASSUME IInv, QInv, posts # <<>>, posts' = Tail(posts), NEW m, m = Head(posts),
         m.kind = "item", ShowItem(m), UNCHANGED <<importVars, ui, faults>>
  PROVE  QInv'
<1>1. /\ EventOK(m, runs, runId, active)
      /\ \A k \in DOMAIN posts' : EventOK(posts'[k], runs, runId, active) /\ Before(m, posts'[k])
      /\ \A k, l \in DOMAIN posts' : k < l => Before(posts'[k], posts'[l])
      /\ \A k \in DOMAIN posts' : \E l \in DOMAIN posts : posts'[k] = posts[l]
  BY Rest DEF QInv
<1>2. ReportOK(m, runs, runId, active) /\ m.st \in Statuses
  BY <1>1 DEF EventOK, ReportOK, Statuses, Finished
<1>3. /\ UNCHANGED <<runs, runId, active, nextId, activeChild, worker, running, large>>
      /\ DOMAIN queue' = DOMAIN queue /\ queue' = [i \in DOMAIN queue |-> queue'[i]]
      /\ \A i \in DOMAIN queue : /\ Restated(queue[i], queue'[i])
                                 /\ \/ queue'[i] = queue[i]
                                    \/ /\ runId = m.run /\ queue[i].ri = m.ix
                                       /\ queue'[i].status = m.st
  BY <1>2, Shows DEF QInv
<1>4. ASSUME NEW i \in DOMAIN queue
      PROVE  ItemOK(queue'[i], nextId, runs', runId', active') /\ Unreported(queue'[i], posts', runId')
  <2> DEFINE x == queue[i]
             y == queue'[i]
  <2>1. ItemOK(x, nextId, runs, runId, active) /\ Unreported(x, posts, runId)
    BY DEF QInv, ItemsOK
  <2>2. CASE y = x
    BY <1>1, <1>3, <2>1, <2>2, FewerReports
  <2>3. CASE runId = m.run /\ x.ri = m.ix /\ y.status = m.st
    <3>1. Restated(x, y)
      BY <1>3
    <3> HIDE DEF x, y
    <3>2. runId \in Runs /\ RunFine(runs[runId]) /\ runId # 0
      BY <1>2, <2>3 DEF ReportOK, QInv, Plain, Runs
    <3>3. x.ri \in DOMAIN runs[runId].list /\ x.ri # 0
      BY <1>2, <2>3, <3>2 DEF ReportOK, RunFine
    <3>4. ItemOK(y, nextId, runs, runId, active)
      BY <1>2, <2>1, <2>3, <3>1, <3>2, <3>3 DEF ItemOK, Restated, ReportOK
    <3>5. Unreported(y, posts', runId)
      BY <1>1, <2>3, <3>1 DEF Unreported, Concerns, Before, Restated
    <3> QED
      BY <1>3, <3>4, <3>5 DEF x, y
  <2> QED
    BY <1>3, <2>2, <2>3
<1>5. ItemsOK'
  BY <1>3, <1>4, SameItems DEF QInv
<1>6. Events'
  BY <1>1, <1>3 DEF Events
<1>7. Plain' /\ Unstarted'
  BY <1>3 DEF QInv, Plain, Unstarted, importVars
<1> QED
  BY <1>5, <1>6, <1>7 DEF QInv

\* How the end of a run changes the queue.
LEMMA SettlesItems ==
  ASSUME ItemsOK, NEW v, queue' = Settled(queue, v)
  PROVE  /\ DOMAIN queue' = DOMAIN queue /\ queue' = [i \in DOMAIN queue |-> queue'[i]]
         /\ \A i \in DOMAIN queue :
              /\ Restated(queue[i], queue'[i])
              /\ \/ /\ queue'[i] = queue[i]
                    /\ queue[i].ri = 0 \/ queue[i].status \notin {"pending", "running"}
                 \/ /\ queue[i].status \in {"pending", "running"}
                    /\ \/ queue'[i].status = "failed"
                       \/ queue'[i].status = "canceled" /\ (v.forced \/ v.canceled)
<1> DEFINE st == IF v.forced \/ v.canceled THEN "canceled" ELSE "failed"
           c(i) == [queue[i] EXCEPT !.status = st]
<1>1. st \in Statuses /\ (st = "failed" \/ (st = "canceled" /\ (v.forced \/ v.canceled)))
  BY DEF Statuses
<1>2. \A i \in DOMAIN queue : queue[i] \in Items
  BY DEF ItemsOK, ItemOK
<1>3. queue' = [i \in DOMAIN queue |->
                  IF queue[i].ri = 0 \/ queue[i].status \notin {"pending", "running"}
                  THEN queue[i] ELSE c(i)]
  BY DEF Settled
<1> HIDE DEF st
<1>4. \A i \in DOMAIN queue : /\ Restated(queue[i], queue[i])
                              /\ Restated(queue[i], c(i)) /\ c(i).status = st
  BY <1>1, <1>2, Restates
<1> HIDE DEF c
<1> QED
  BY <1>1, <1>3, <1>4

LEMMA EndKeeps ==
  ASSUME IInv, QInv, posts # <<>>, posts' = Tail(posts), NEW m, m = Head(posts),
         m.kind = "end", EndRun(m), UNCHANGED <<importVars, ui, faults>>
  PROVE  QInv'
<1>1. /\ EventOK(m, runs, runId, active)
      /\ \A k \in DOMAIN posts' : EventOK(posts'[k], runs, runId, active) /\ Before(m, posts'[k])
      /\ \A k, l \in DOMAIN posts' : k < l => Before(posts'[k], posts'[l])
      /\ \A k \in DOMAIN posts' : \E l \in DOMAIN posts : posts'[k] = posts[l]
  BY Rest DEF QInv
<1>2. CASE runId # m.run
  <2>1. UNCHANGED <<queue, nextId, runs, runId, active, activeChild, worker, running, large,
                    jobs, scanner, ui, faults>>
    BY <1>2 DEF EndRun, queueVars, runVars, importVars
  <2>2. ASSUME NEW i \in DOMAIN queue
        PROVE  Unreported(queue[i], posts', runId)
    <3>1. Unreported(queue[i], posts, runId)
      BY DEF QInv, ItemsOK
    <3>2. \A k \in DOMAIN posts' : \E l \in DOMAIN posts : posts'[k] = posts[l]
      BY <1>1
    <3> QED
      BY <3>1, <3>2, FewerReports
  <2>3. ItemsOK'
    BY <2>1, <2>2 DEF QInv, ItemsOK, QueueDistinct
  <2>4. Events'
    BY <1>1, <2>1 DEF Events
  <2>5. Plain' /\ Unstarted'
    BY <2>1 DEF QInv, Plain, Unstarted
  <2> QED
    BY <2>3, <2>4, <2>5 DEF QInv
<1>3. CASE runId = m.run
  <2> DEFINE y == [NoRun EXCEPT !.mon = runs[m.run].mon]
             v == m.verdict
  <2>1. FinalOK(m, runs, runId) /\ runId \in Runs /\ runId # 0
    BY <1>1, <1>3 DEF EventOK, FinalOK, Runs
  <2>2. /\ active' = FALSE /\ activeChild' = 0 /\ running' = FALSE
        /\ runs' = [runs EXCEPT ![runId] = y]
        /\ UNCHANGED <<nextId, runId, worker, jobs, scanner, ui, faults>>
        /\ \/ runs[runId].kind = "queue" /\ queue' = Settled(queue, v) /\ UNCHANGED large
           \/ runs[runId].kind # "queue" /\ large' = FALSE /\ UNCHANGED queue
    BY <1>3 DEF EndRun, importVars
  <2>3. RunFine(y) /\ y.mon = runs[runId].mon /\ DOMAIN y.list = {} /\ DOMAIN y.left = {}
    <3>1. RunFine(runs[runId])
      BY <2>1 DEF QInv, Plain
    <3>2. DOMAIN <<>> = {}
      BY EmptySeq
    <3> QED
      BY <1>3, <3>1, <3>2 DEF NoRun, RunFine
  <2> HIDE DEF y, v
  <2>4. runs'[runId] = y /\ DOMAIN runs' = Runs /\ \A r \in Runs \ {runId} : runs'[r] = runs[r]
    BY <2>1, <2>2 DEF IInv, Typed
  <2>5. Sound(runs') <=> Sound(runs)
    BY <2>3, <2>4 DEF Sound
  <2>6. Plain' /\ Unstarted'
    <3>1. \A r \in Runs : RunFine(runs'[r])
      BY <2>3, <2>4 DEF QInv, Plain
    <3>2. \A r \in Runs : r > runId => r # runId
      BY <2>1 DEF Runs
    <3>3. Plain'
      BY <2>2, <3>1 DEF QInv, Plain
    <3>4. Unstarted'
      BY <2>2, <2>4, <3>2 DEF QInv, Unstarted
    <3> QED
      BY <3>3, <3>4
  <2>7. ASSUME NEW k \in DOMAIN posts'
        PROVE  /\ EventOK(posts'[k], runs', runId, FALSE)
               /\ \A x : ~Concerns(posts'[k], x, runId)
    <3> DEFINE n == posts'[k]
    <3>1. EventOK(n, runs, runId, active) /\ Before(m, n)
      BY <1>1
    <3> HIDE DEF n
    <3>2. n.kind \in {"item", "end"} => n.run # runId
      BY <1>3, <3>1 DEF Before
    <3>3. ReportOK(n, runs, runId, active) /\ n.run # runId => ReportOK(n, runs', runId, FALSE)
      BY <2>4 DEF ReportOK
    <3>4. FinalOK(n, runs, runId) /\ n.run # runId => FinalOK(n, runs', runId)
      BY <2>4 DEF FinalOK
    <3>5. EventOK(n, runs', runId, FALSE)
      BY <2>5, <3>1, <3>2, <3>3, <3>4 DEF EventOK
    <3>6. \A x : ~Concerns(n, x, runId)
      BY <3>2 DEF Concerns
    <3> QED
      BY <3>5, <3>6 DEF n
  <2>8. Events'
    BY <1>1, <2>2, <2>7 DEF Events
  <2>9. /\ DOMAIN queue' = DOMAIN queue /\ queue' = [i \in DOMAIN queue |-> queue'[i]]
        /\ \A i \in DOMAIN queue : Restated(queue[i], queue'[i])
        /\ \A i \in DOMAIN queue : queue'[i].status = "running" => ~Sound(runs)
    <3>1. \A i \in DOMAIN queue : queue[i].status = "running" /\ Sound(runs) =>
            queue[i].ri # 0 /\ runs[runId].kind = "queue"
      BY DEF QInv, ItemsOK, ItemOK
    <3>2. CASE queue' = Settled(queue, v)
      <4>1. /\ DOMAIN queue' = DOMAIN queue /\ queue' = [i \in DOMAIN queue |-> queue'[i]]
            /\ \A i \in DOMAIN queue :
                 /\ Restated(queue[i], queue'[i])
                 /\ \/ /\ queue'[i] = queue[i]
                       /\ queue[i].ri = 0 \/ queue[i].status \notin {"pending", "running"}
                    \/ queue'[i].status \in {"failed", "canceled"}
        BY <3>2, SettlesItems DEF QInv
      <4> QED
        BY <3>1, <4>1
    <3>3. CASE runs[runId].kind # "queue" /\ UNCHANGED queue
      <4>1. queue \in Seq(Items) /\ \A i \in DOMAIN queue : queue[i] \in Items
        BY DEF QInv, ItemsOK, ItemOK
      <4>2. queue = [i \in DOMAIN queue |-> queue[i]]
        BY <4>1
      <4>3. \A i \in DOMAIN queue : Restated(queue[i], queue[i])
        BY <4>1 DEF Restated
      <4> QED
        BY <3>1, <3>3, <4>2, <4>3
    <3> QED
      BY <2>2, <3>2, <3>3
  <2>10. ASSUME NEW i \in DOMAIN queue
         PROVE  ItemOK(queue'[i], nextId, runs', runId, FALSE)
                /\ Unreported(queue'[i], posts', runId)
    <3>1. queue'[i] \in Items /\ queue'[i].id < nextId
      <4>1. Restated(queue[i], queue'[i]) /\ queue[i].id < nextId
        BY <2>9 DEF QInv, ItemsOK, ItemOK
      <4> QED
        BY <4>1 DEF Restated
    <3>2. ItemOK(queue'[i], nextId, runs', runId, FALSE)
      BY <2>3, <2>4, <2>5, <2>9, <3>1 DEF ItemOK
    <3>3. Unreported(queue'[i], posts', runId)
      BY <2>7 DEF Unreported
    <3> QED
      BY <3>2, <3>3
  <2>11. ItemsOK'
    BY <2>2, <2>9, <2>10, SameItems DEF QInv
  <2> QED
    BY <2>6, <2>8, <2>11 DEF QInv
<1> QED
  BY <1>2, <1>3

LEMMA PostKeeps ==
  ASSUME IInv, QInv, RunPost
  PROVE  QInv'
<1> DEFINE m == Head(posts)
<1>1. posts # <<>> /\ posts' = Tail(posts) /\ UNCHANGED <<importVars, ui, faults>>
  BY DEF RunPost
<1>2. /\ EventOK(m, runs, runId, active)
      /\ \A k \in DOMAIN posts' : EventOK(posts'[k], runs, runId, active)
      /\ \A k, l \in DOMAIN posts' : k < l => Before(posts'[k], posts'[l])
      /\ \A k \in DOMAIN posts' : \E l \in DOMAIN posts : posts'[k] = posts[l]
  BY <1>1, Rest DEF QInv
<1>3. \/ m.kind = "import" /\ AddImport(m.result.files)
      \/ m.kind = "item" /\ ShowItem(m)
      \/ m.kind = "end" /\ EndRun(m)
      \/ /\ m.kind = "error" /\ running' = FALSE
         /\ UNCHANGED <<queueVars, runId, active, activeChild, worker, runs, large>>
  BY DEF RunPost
<1> HIDE DEF m
<1>4. CASE m.kind = "import" /\ AddImport(m.result.files)
  <2> DEFINE F == m.result.files
  <2>1. F \in SUBSET Paths /\ IsFiniteSet(F) /\ \A p, q \in F : Key(p) = Key(q) => p = q
    <3>1. m.request \in Requests /\ m.result = Scan(m.request)
      BY <1>2, <1>4 DEF EventOK
    <3>2. Accounted(m.result)
      BY <3>1, ScanExact
    <3> QED
      BY <3>2 DEF Accounted, Results
  <2>2. AddImport(F)
    BY <1>4
  <2> HIDE DEF F
  <2>3. ItemsOK'
    BY <1>2, <2>1, <2>2, AddsKeep
  <2>4. UNCHANGED <<runId, active, activeChild, worker, runs, running, large>>
    BY <2>2 DEF AddImport, runVars
  <2>5. Events'
    BY <1>2, <2>4 DEF Events
  <2>6. Plain' /\ Unstarted'
    BY <1>1, <2>4 DEF QInv, Plain, Unstarted, importVars
  <2> QED
    BY <2>3, <2>5, <2>6 DEF QInv
<1>5. CASE m.kind = "item" /\ ShowItem(m)
  BY <1>1, <1>5, ShowKeeps DEF m
<1>6. CASE m.kind = "end" /\ EndRun(m)
  BY <1>1, <1>6, EndKeeps DEF m
<1>7. CASE /\ m.kind = "error" /\ running' = FALSE
           /\ UNCHANGED <<queueVars, runId, active, activeChild, worker, runs, large>>
  <2>1. ~Sound(runs)
    BY <1>2, <1>7 DEF EventOK
  <2>2. \A i \in DOMAIN queue : Unreported(queue[i], posts', runId)
    BY <1>2, FewerReports DEF QInv, ItemsOK
  <2>3. ItemsOK'
    BY <1>7, <2>2 DEF QInv, ItemsOK, QueueDistinct, queueVars
  <2>4. Events'
    BY <1>2, <1>7 DEF Events
  <2>5. Plain' /\ Unstarted'
    BY <1>1, <1>7, <2>1 DEF QInv, Plain, Unstarted, importVars
  <2> QED
    BY <2>3, <2>4, <2>5 DEF QInv
<1> QED
  BY <1>3, <1>4, <1>5, <1>6, <1>7

----------------------------------------------------------------------------
(* The interface starts a run. *)

\* An item that is listed by its index waits.
Listed(x, list) == x.ri \in DOMAIN list => x.id = list[x.ri] /\ x.status = "pending"

\* A step that takes the next number for a run, with what it keeps of the others.
Begins ==
  /\ runId < MaxRuns /\ runId' = runId + 1
  /\ UNCHANGED <<posts, jobs, scanner, nextId>>
  /\ \A r \in Runs \ {runId + 1} : Evolves(runs[r], runs'[r])
  /\ RunFine(runs'[runId + 1]) /\ runs'[runId + 1].mon \notin Failed
  /\ \A r \in Runs : r > runId + 1 => runs'[r] = runs[r]
  /\ running' = active' /\ running' \in BOOLEAN /\ large' \in BOOLEAN
  /\ worker' \in 0..MaxRuns /\ worker' <= runId + 1
  /\ activeChild' # 0 => active' = TRUE /\ activeChild' = runId + 1
  /\ ui' \in {"open", "joining"} /\ faults' \in 0..MaxFaults

\* The items of the queue after a run started: where they were, listed or not.
Enlists ==
  /\ queue' \in Seq(Items) /\ DOMAIN queue' = DOMAIN queue
  /\ \A i \in DOMAIN queue :
       /\ queue'[i].id = queue[i].id /\ queue'[i].path = queue[i].path
       /\ Listed(queue'[i], runs'[runId + 1].list)
       /\ queue'[i].status \in {"pending", queue[i].status}

LEMMA BeginsKeep ==
  ASSUME IInv, QInv, ~active, Begins, Enlists
  PROVE  QInv'
<1> DEFINE n == runId + 1
<1>1. /\ n \in Runs /\ runId \in Nat /\ n # 0 /\ runId' = n
      /\ \A r \in Runs : r <= runId => r # n /\ r <= n
      /\ \A r \in Runs : r > n => r > runId
  BY StudioAssumption DEF Begins, IInv, Typed, Runs
<1>2. runs[n] = NoRun /\ runs[n].mon \notin Failed
  <2>1. runs[n] = NoRun
    BY <1>1 DEF QInv, Unstarted
  <2> QED
    BY <2>1 DEF NoRun, Failed
<1> HIDE DEF n
<1>3. /\ UNCHANGED <<posts, jobs, scanner, nextId>>
      /\ \A r \in Runs \ {n} : Evolves(runs[r], runs'[r])
      /\ RunFine(runs'[n]) /\ runs'[n].mon \notin Failed
      /\ \A r \in Runs : r > n => runs'[r] = runs[r]
      /\ running' = active' /\ running' \in BOOLEAN /\ large' \in BOOLEAN
      /\ worker' \in 0..MaxRuns /\ worker' <= n
      /\ activeChild' # 0 => active' = TRUE /\ activeChild' = n
      /\ ui' \in {"open", "joining"} /\ faults' \in 0..MaxFaults
  BY DEF Begins, n
<1>4. Sound(runs') => Sound(runs)
  BY <1>2, <1>3 DEF Sound, Evolves
<1>5. Plain' /\ Unstarted'
  <2>1. Plain'
    BY <1>1, <1>3 DEF QInv, Plain, Evolves
  <2>2. Unstarted'
    BY <1>1, <1>3 DEF QInv, Unstarted
  <2> QED
    BY <2>1, <2>2
<1>6. ASSUME NEW k \in DOMAIN posts
      PROVE  /\ EventOK(posts[k], runs', n, active')
             /\ \A x : ~Concerns(posts[k], x, n)
  <2> DEFINE m == posts[k]
  <2>1. EventOK(m, runs, runId, active)
    BY DEF QInv, Events
  <2> HIDE DEF m
  <2>2. ReportOK(m, runs, runId, active) => m.run # n /\ ReportOK(m, runs', n, active')
    <3> SUFFICES ASSUME ReportOK(m, runs, runId, active)
                 PROVE  m.run # n /\ ReportOK(m, runs', n, active')
      OBVIOUS
    <3>1. m.run \in Runs \ {n} /\ m.run <= n
      BY <1>1 DEF ReportOK
    <3>2. Evolves(runs[m.run], runs'[m.run])
      BY <1>3, <3>1
    <3> QED
      BY <3>1, <3>2 DEF ReportOK, Evolves
  <2>3. FinalOK(m, runs, runId) => FinalOK(m, runs', n)
    <3> SUFFICES ASSUME FinalOK(m, runs, runId) PROVE FinalOK(m, runs', n)
      OBVIOUS
    <3>1. m.run \in Runs \ {n} /\ m.run <= n
      BY <1>1 DEF FinalOK
    <3>2. Evolves(runs[m.run], runs'[m.run])
      BY <1>3, <3>1
    <3> QED
      BY <3>1, <3>2 DEF FinalOK, Evolves
  <2>4. EventOK(m, runs', n, active')
    BY <1>4, <2>1, <2>2, <2>3 DEF EventOK
  <2>5. \A x : ~Concerns(m, x, n)
    BY <2>1, <2>2 DEF EventOK, Concerns
  <2> QED
    BY <2>4, <2>5 DEF m
<1>7. Events'
  BY <1>1, <1>3, <1>6 DEF QInv, Events
<1>8. queue' \in Seq(Items) /\ DOMAIN queue' = DOMAIN queue
  BY DEF Enlists
<1>9. ASSUME NEW i \in DOMAIN queue
      PROVE  ItemOK(queue'[i], nextId, runs', n, active') /\ Unreported(queue'[i], posts, n)
  <2> DEFINE x == queue[i]
             y == queue'[i]
  <2>1. ItemOK(x, nextId, runs, runId, active)
    BY DEF QInv, ItemsOK
  <2>2. /\ y \in Items /\ y.id = x.id /\ y.path = x.path
        /\ Listed(y, runs'[n].list) /\ y.status \in {"pending", x.status}
    <3>1. queue'[i] \in Items
      BY <1>8, LenProperties, ElementOfSeq
    <3> QED
      BY <3>1 DEF Enlists, n
  <2> HIDE DEF x, y
  <2>3. x.status = "running" => ~Sound(runs)
    BY <2>1 DEF ItemOK
  <2>4. DOMAIN runs'[n].left \subseteq DOMAIN runs'[n].list
    BY <1>3 DEF RunFine
  <2>5. ItemOK(y, nextId, runs', n, active')
    BY <1>4, <2>1, <2>2, <2>3, <2>4 DEF ItemOK, Listed, Finished
  <2>6. Unreported(y, posts, n)
    BY <1>6 DEF Unreported
  <2> QED
    BY <2>5, <2>6 DEF y
<1>10. ItemsOK'
  <2>1. \A i, j \in DOMAIN queue : queue'[i].id = queue'[j].id => i = j
    BY DEF Enlists, QInv, ItemsOK
  <2>2. QueueDistinct'
    BY DEF Enlists, QInv, ItemsOK, QueueDistinct
  <2>3. nextId \in Nat
    BY DEF QInv, ItemsOK
  <2> QED
    BY <1>1, <1>3, <1>8, <1>9, <2>1, <2>2, <2>3 DEF ItemsOK
<1> QED
  BY <1>5, <1>7, <1>10 DEF QInv

\* What a launch makes of the runs.
LEMMA LaunchBegins ==
  ASSUME IInv, QInv, runId < MaxRuns, runId' = runId + 1,
         UNCHANGED <<posts, jobs, scanner, nextId>>, large' \in BOOLEAN, ui = "open",
         NEW kind, NEW list, DOMAIN list \subseteq Nat \ {0},
         kind # "queue" => DOMAIN list = {},
         Launch(kind, list)
  PROVE  Begins /\ runs'[runId + 1].list = list
<1> DEFINE n == runId + 1
           new == [NoRun EXCEPT !.kind = kind, !.list = list, !.proc = "alive",
                                !.left = [i \in DOMAIN list |-> "todo"],
                                !.manifest = kind = "queue", !.mon = "watch"]
<1>1. n \in Runs /\ n \in 0..MaxRuns /\ runId \in Nat /\ \A r \in Runs : r > n => r > runId
  BY StudioAssumption DEF IInv, Typed, Runs
<1>2. RunFine(new) /\ new.mon = "watch" /\ new.list = list
  BY DEF NoRun, RunFine, Over
<1>3. runs' = [r \in Runs |-> IF r = n THEN new
                 ELSE IF r = worker THEN [runs[r] EXCEPT !.stop = TRUE] ELSE runs[r]]
  BY DEF Launch
<1>4. /\ active' = TRUE /\ activeChild' = n /\ worker' = n /\ running' = TRUE
      /\ ui' \in {"open", "joining"} /\ UNCHANGED faults
  BY DEF Launch
<1> HIDE DEF n, new
<1>5. \A r \in Runs : /\ Evolves(runs[r], runs[r])
                      /\ Evolves(runs[r], [runs[r] EXCEPT !.stop = TRUE])
  <2> SUFFICES ASSUME NEW r \in Runs
               PROVE  /\ Evolves(runs[r], runs[r])
                      /\ Evolves(runs[r], [runs[r] EXCEPT !.stop = TRUE])
    OBVIOUS
  <2>1. RunOK(runs[r]) /\ RunFine(runs[r])
    BY DEF IInv, Typed, QInv, Plain
  <2> QED
    BY <2>1, GoesOn, Zenon
<1>6. \A r \in Runs \ {n} : Evolves(runs[r], runs'[r])
  <2> DEFINE s(r) == [runs[r] EXCEPT !.stop = TRUE]
  <2>1. \A r \in Runs : Evolves(runs[r], s(r))
    BY <1>5
  <2>2. runs' = [r \in Runs |-> IF r = n THEN new ELSE IF r = worker THEN s(r) ELSE runs[r]]
    BY <1>3
  <2> HIDE DEF s
  <2> QED
    BY <1>5, <2>1, <2>2
<1>7. runs'[n] = new
  BY <1>1, <1>3
<1>8. \A r \in Runs : r > n => runs'[r] = runs[r]
  <2>1. \A r \in Runs : r > n => r # n /\ r # worker
    BY <1>1 DEF QInv, Plain, Runs
  <2> QED
    BY <1>3, <2>1
<1>9. faults' \in 0..MaxFaults
  BY <1>4 DEF QInv, Plain
<1>10. n <= n
  BY <1>1
<1> QED
  BY <1>1, <1>2, <1>4, <1>6, <1>7, <1>8, <1>9, <1>10 DEF Begins, Failed, n

\* A run that could not be launched has its number and nothing else.
LEMMA NoLaunchBegins ==
  ASSUME IInv, QInv, runId < MaxRuns, runId' = runId + 1,
         UNCHANGED <<posts, jobs, scanner, nextId>>, large' \in BOOLEAN, ui = "open",
         LaunchFails
  PROVE  Begins /\ DOMAIN runs'[runId + 1].list = {}
<1>1. /\ runId + 1 \in Runs /\ runId \in Nat /\ worker <= runId + 1 /\ worker \in 0..MaxRuns
      /\ \A r \in Runs : RunFine(runs[r])
  BY StudioAssumption DEF IInv, Typed, Runs, QInv, Plain
<1>2. /\ active' = FALSE /\ activeChild' = 0 /\ running' = FALSE
      /\ UNCHANGED <<runs, worker, ui>> /\ Fault
  BY DEF LaunchFails
<1>3. runs[runId + 1] = NoRun
  BY <1>1 DEF QInv, Unstarted
<1>4. NoRun.mon \notin Failed /\ DOMAIN NoRun.list = {}
  BY EmptySeq DEF NoRun, Failed
<1>5. faults' \in 0..MaxFaults
  BY <1>2, Counts DEF QInv
<1>6. \A r \in Runs : Evolves(runs[r], runs'[r])
  BY <1>1, <1>2 DEF Evolves
<1> QED
  BY <1>1, <1>2, <1>3, <1>4, <1>5, <1>6 DEF Begins

\* The selected items are numbered from 1, each number once.
LEMMA Numbered ==
  ASSUME ItemsOK, NEW f \in BOOLEAN
  PROVE  LET S == SelectedIdx(f)
         IN /\ Cardinality(S) \in Nat
            /\ \A i \in S : RunIndex(i, f) \in 1..Cardinality(S)
            /\ \A i, j \in S : RunIndex(i, f) = RunIndex(j, f) => i = j
<1> DEFINE S == SelectedIdx(f)
           key == [i \in S |-> i]
           rank(i) == Cardinality({j \in S : key[j] <= key[i]})
<1>1. S \in SUBSET (1..Len(queue)) /\ IsFiniteSet(S)
  <2>1. Len(queue) \in Nat /\ DOMAIN queue = 1..Len(queue)
    BY LenProperties DEF ItemsOK
  <2>2. S \in SUBSET (1..Len(queue)) /\ IsFiniteSet(1..Len(queue))
    BY <2>1, FS_Interval DEF SelectedIdx
  <2> QED
    BY <2>2, FS_Subset
<1>2. \A i \in S : rank(i) = RunIndex(i, f)
  <2> SUFFICES ASSUME NEW i \in S PROVE rank(i) = RunIndex(i, f)
    OBVIOUS
  <2>1. {j \in S : key[j] <= key[i]} = {j \in S : j <= i}
    OBVIOUS
  <2> QED
    BY <2>1 DEF RunIndex
<1>3. key \in [S -> Nat] /\ \A i, j \in S : key[i] = key[j] => i = j
  BY <1>1
<1> HIDE DEF S
<1>4. Ranked(S, key)
  <2> HIDE DEF key
  <2> QED
    BY <1>1, <1>3, Ranks
<1>5. /\ Cardinality(S) \in Nat
      /\ \A i \in S : rank(i) \in 1..Cardinality(S)
      /\ \A i, j \in S : rank(i) = rank(j) => i = j
  BY <1>4 DEF Ranked
<1> HIDE DEF rank
<1>6. /\ Cardinality(S) \in Nat
      /\ \A i \in S : RunIndex(i, f) \in 1..Cardinality(S)
      /\ \A i, j \in S : RunIndex(i, f) = RunIndex(j, f) => i = j
  BY <1>2, <1>5
<1> QED
  BY <1>6 DEF S

\* Each selected item waits and is listed by its index; the others are not listed.
LEMMA Enrolled ==
  ASSUME ItemsOK, NEW f \in BOOLEAN, queue' = QueueOfRun(f)
  PROVE  /\ queue' \in Seq(Items) /\ DOMAIN queue' = DOMAIN queue
         /\ DOMAIN RunList(f) \subseteq Nat \ {0}
         /\ \A i \in DOMAIN queue :
              /\ queue'[i].id = queue[i].id /\ queue'[i].path = queue[i].path
              /\ Listed(queue'[i], RunList(f))
              /\ queue'[i].status \in {"pending", queue[i].status}
              /\ queue'[i].ri \in Nat
<1> DEFINE S == SelectedIdx(f)
           c == Cardinality(S)
           x(i) == [queue[i] EXCEPT !.status = "pending", !.ri = RunIndex(i, f)]
           y(i) == [queue[i] EXCEPT !.ri = 0]
           at(k) == CHOOSE i \in S : RunIndex(i, f) = k
           n == Len(queue)
<1>1. /\ c \in Nat /\ \A i \in S : RunIndex(i, f) \in 1..c
      /\ \A i, j \in S : RunIndex(i, f) = RunIndex(j, f) => i = j
  BY Numbered
<1>2. n \in Nat /\ DOMAIN queue = 1..n /\ \A i \in 1..n : queue[i] \in Items
  BY LenProperties, ElementOfSeq DEF ItemsOK
<1>3. queue' = [i \in DOMAIN queue |-> IF i \in S THEN x(i) ELSE y(i)]
  BY DEF QueueOfRun
<1>4. RunList(f) = [k \in 1..c |-> queue[at(k)].id]
  BY DEF RunList
<1>5. ASSUME NEW i \in S PROVE at(RunIndex(i, f)) = i
  <2> DEFINE k == RunIndex(i, f)
             j == at(k)
  <2>1. \E h : h \in S /\ RunIndex(h, f) = k
    OBVIOUS
  <2>2. j \in S /\ RunIndex(j, f) = k
    BY <2>1, Zenon
  <2> HIDE DEF j, S
  <2> QED
    BY <1>1, <2>2 DEF j
<1>6. S \subseteq DOMAIN queue
  BY DEF SelectedIdx
<1> HIDE DEF S, at, n
<1>7. ASSUME NEW i \in S, NEW k \in Nat
      PROVE  LET z == [queue[i] EXCEPT !.status = "pending", !.ri = k]
             IN z \in Items /\ z.id = queue[i].id /\ z.path = queue[i].path
                /\ z.status = "pending" /\ z.ri = k
  <2>1. queue[i] \in Items
    BY <1>2, <1>6
  <2> QED
    BY <2>1 DEF Items, Statuses
<1>8. ASSUME NEW i \in S
      PROVE  /\ x(i) \in Items /\ x(i).id = queue[i].id /\ x(i).path = queue[i].path
             /\ x(i).status = "pending" /\ x(i).ri = RunIndex(i, f)
  <2>1. RunIndex(i, f) \in Nat
    BY <1>1
  <2> QED
    BY <1>7, <2>1, Zenon
<1>9. ASSUME NEW i \in 1..n
      PROVE  /\ y(i) \in Items /\ y(i).id = queue[i].id /\ y(i).path = queue[i].path
             /\ y(i).status = queue[i].status /\ y(i).ri = 0
  <2>1. queue[i] \in Items
    BY <1>2
  <2> QED
    BY <2>1 DEF Items
<1> HIDE DEF x, y
<1>10. queue' \in Seq(Items) /\ DOMAIN queue' = DOMAIN queue
  <2>1. queue' = [i \in 1..n |-> queue'[i]]
    BY <1>2, <1>3
  <2>2. \A i \in 1..n : queue'[i] \in Items
    BY <1>2, <1>3, <1>8, <1>9
  <2>3. queue' \in [1..n -> Items]
    BY <2>1, <2>2
  <2> QED
    BY <1>2, <2>1, <2>3
<1>11. DOMAIN RunList(f) = 1..c /\ \A k \in 1..c : RunList(f)[k] = queue[at(k)].id
  <2> HIDE DEF c
  <2> QED
    BY <1>4
<1>12. DOMAIN RunList(f) \subseteq Nat \ {0} /\ 0 \notin DOMAIN RunList(f)
  BY <1>1, <1>11
<1>13. ASSUME NEW i \in DOMAIN queue
       PROVE  /\ queue'[i].id = queue[i].id /\ queue'[i].path = queue[i].path
              /\ Listed(queue'[i], RunList(f))
              /\ queue'[i].status \in {"pending", queue[i].status}
              /\ queue'[i].ri \in Nat
  <2>1. CASE i \in S
    <3>1. queue'[i] = x(i)
      BY <1>3, <2>1
    <3>2. RunList(f)[RunIndex(i, f)] = queue[i].id
      BY <1>1, <1>5, <1>11, <2>1
    <3> QED
      BY <1>1, <1>8, <2>1, <3>1, <3>2 DEF Listed
  <2>2. CASE i \notin S
    <3>1. queue'[i] = y(i)
      BY <1>3, <2>2
    <3> QED
      BY <1>2, <1>9, <1>12, <3>1 DEF Listed
  <2> QED
    BY <2>1, <2>2
<1> QED
  BY <1>10, <1>12, <1>13

LEMMA QueueRunKeeps ==
  ASSUME IInv, QInv, NEW f \in BOOLEAN, StartQueueRun(f)
  PROVE  QInv'
<1>1. /\ ui = "open" /\ ~active /\ runId < MaxRuns /\ runId' = runId + 1
      /\ queue' = QueueOfRun(f) /\ UNCHANGED <<posts, jobs, scanner, nextId>>
      /\ large' \in BOOLEAN
  BY DEF StartQueueRun, UiFree, importVars, QInv, Plain
<1> DEFINE list == RunList(f)
<1>2. /\ queue' \in Seq(Items) /\ DOMAIN queue' = DOMAIN queue
      /\ DOMAIN list \subseteq Nat \ {0}
      /\ \A i \in DOMAIN queue :
           /\ queue'[i].id = queue[i].id /\ queue'[i].path = queue[i].path
           /\ Listed(queue'[i], list)
           /\ queue'[i].status \in {"pending", queue[i].status}
  BY <1>1, Enrolled DEF QInv
<1>3. Launch("queue", list) \/ LaunchFails
  BY DEF StartQueueRun
<1> HIDE DEF list
<1>4. Begins /\ \A x : Listed(x, list) => Listed(x, runs'[runId + 1].list)
  <2>1. CASE Launch("queue", list)
    BY <1>1, <1>2, <2>1, LaunchBegins
  <2>2. CASE LaunchFails
    BY <1>1, <2>2, NoLaunchBegins DEF Listed
  <2> QED
    BY <1>3, <2>1, <2>2
<1>5. Enlists
  BY <1>2, <1>4 DEF Enlists
<1> QED
  BY <1>1, <1>4, <1>5, BeginsKeep

LEMMA LargeRunKeeps ==
  ASSUME IInv, QInv, StartLargeRun
  PROVE  QInv'
<1>1. /\ ui = "open" /\ ~active /\ runId < MaxRuns /\ runId' = runId + 1
      /\ UNCHANGED <<posts, jobs, scanner, nextId, queue>> /\ large' \in BOOLEAN
      /\ Launch("large", <<>>) \/ LaunchFails
  BY DEF StartLargeRun, UiFree, importVars, queueVars
<1>2. Begins /\ DOMAIN runs'[runId + 1].list = {}
  <2>1. CASE Launch("large", <<>>)
    <3> DEFINE list == <<>>
    <3>1. DOMAIN list = {}
      BY EmptySeq
    <3> HIDE DEF list
    <3>2. Launch("large", list)
      BY <2>1 DEF list
    <3> QED
      BY <1>1, <3>1, <3>2, LaunchBegins
  <2>2. CASE LaunchFails
    BY <1>1, <2>2, NoLaunchBegins
  <2> QED
    BY <1>1, <2>1, <2>2
<1>3. Enlists
  BY <1>1, <1>2 DEF Enlists, Listed, QInv, ItemsOK
<1> QED
  BY <1>1, <1>2, <1>3, BeginsKeep

----------------------------------------------------------------------------
(* Closing the window, and all steps together. *)

LEMMA CloseKeeps ==
  ASSUME IInv, QInv, CloseWindow
  PROVE  QInv'
<1>1. /\ ui' = "closed" /\ posts' = <<>>
      /\ UNCHANGED <<jobs, scanner, queue, nextId, runId, active, activeChild, worker,
                     running, large>>
  BY DEF CloseWindow, StopImport, queueVars
<1>2. PICK ok \in BOOLEAN :
        /\ runs' = [r \in Runs |-> IF r = activeChild THEN Terminate(Stopped(r), ok)
                                                      ELSE Stopped(r)]
        /\ UNCHANGED faults \/ Fault
  BY DEF CloseWindow
<1>3. \A r \in Runs : /\ Evolves(runs[r], Stopped(r)) /\ RunOK(Stopped(r)) /\ RunFine(Stopped(r))
                      /\ runs[r].kind = Stopped(r).kind
  <2> SUFFICES ASSUME NEW r \in Runs
               PROVE  /\ Evolves(runs[r], Stopped(r)) /\ RunOK(Stopped(r)) /\ RunFine(Stopped(r))
                      /\ runs[r].kind = Stopped(r).kind
    OBVIOUS
  <2> DEFINE x == runs[r]
             y == [x EXCEPT !.stop = TRUE]
  <2>1. RunOK(x) /\ RunFine(x)
    BY DEF IInv, Typed, QInv, Plain
  <2>2. Evolves(x, x) /\ Evolves(x, y)
    BY <2>1, GoesOn, Zenon
  <2>3. RunOK(y) /\ y.kind = x.kind
    <3> HIDE DEF x
    <3> QED
      BY <2>1 DEF RunOK, Shaped, RunFine
  <2>4. Stopped(r) = x \/ Stopped(r) = y
    BY DEF Stopped
  <2> HIDE DEF x, y
  <2>5. RunFine(y)
    BY <2>2 DEF Evolves
  <2> QED
    BY <2>1, <2>2, <2>3, <2>4, <2>5 DEF x
<1>4. \A r \in Runs : Evolves(runs[r], Terminate(Stopped(r), ok))
  <2> SUFFICES ASSUME NEW r \in Runs PROVE Evolves(runs[r], Terminate(Stopped(r), ok))
    OBVIOUS
  <2> DEFINE y == Stopped(r)
  <2>1. Evolves(runs[r], y) /\ RunOK(y) /\ RunFine(y) /\ runs[r].kind = y.kind
    BY <1>3
  <2> HIDE DEF y
  <2>2. Evolves(y, Terminate(y, ok))
    BY <2>1, EndedByForce
  <2>3. Evolves(runs[r], Terminate(y, ok))
    BY <2>1, <2>2, Onwards
  <2> QED
    BY <2>3 DEF y
<1>5. \A r \in Runs : Evolves(runs[r], runs'[r])
  BY <1>2, <1>3, <1>4
<1>6. \A r \in Runs : r > runId => runs'[r] = runs[r]
  <2>1. \A r \in Runs : r > runId => r # worker /\ r # activeChild
    BY DEF IInv, Typed, QInv, Plain, Runs
  <2> QED
    BY <1>2, <2>1 DEF Stopped
<1>7. Sound(runs') => Sound(runs)
  BY <1>5 DEF Sound, Evolves
<1>8. faults' \in 0..MaxFaults
  BY <1>2, Counts DEF QInv
<1>9. Plain' /\ Unstarted'
  <2>1. Plain'
    BY <1>1, <1>5, <1>7, <1>8 DEF QInv, Plain, Evolves
  <2>2. Unstarted'
    BY <1>1, <1>6 DEF QInv, Unstarted
  <2> QED
    BY <2>1, <2>2
<1>10. DOMAIN posts' = {}
  BY <1>1, EmptySeq
<1>11. Events'
  BY <1>10 DEF Events
<1>12. ItemsOK'
  <2>1. runId \in 0..MaxRuns /\ nextId \in Nat /\ nextId <= nextId
    BY DEF IInv, Typed, QInv, ItemsOK
  <2>2. \A i \in DOMAIN queue : ItemOK(queue[i], nextId, runs', runId, active)
    BY <1>5, <2>1, ItemLater DEF QInv, ItemsOK
  <2>3. \A i \in DOMAIN queue : Unreported(queue[i], posts', runId)
    BY <1>10 DEF Unreported
  <2> QED
    BY <1>1, <2>2, <2>3 DEF QInv, ItemsOK, QueueDistinct
<1> QED
  BY <1>9, <1>11, <1>12 DEF QInv

\* Requests and edits.
LEMMA EditsKeep ==
  ASSUME QInv,
         \/ \E request \in Requests :
              IF Len(request) = 1 THEN PickPath(request[1]) ELSE DropPaths(request)
         \/ \E i \in DOMAIN queue :
              RemoveItem(i) \/ \E action \in MenuActions : MenuMove(i, action)
         \/ \E id \in Ids, slot \in 1..Len(queue) + 1 : DropItem(id, slot)
         \/ ClearTasks
  PROVE  QInv'
<1>1. ASSUME NEW request \in Requests,
             IF Len(request) = 1 THEN PickPath(request[1]) ELSE DropPaths(request)
      PROVE  QInv'
  <2>1. CASE Len(request) = 1
    <3>1. request \in Seq(Paths)
      BY TreeAssumption
    <3>2. request = <<request[1]>>
      BY <2>1, <3>1
    <3>3. RequestImport(<<request[1]>>)
      BY <1>1, <2>1 DEF PickPath
    <3>4. RequestImport(request)
      BY <3>2, <3>3
    <3> QED
      BY <3>4, RequestKeeps
  <2>2. CASE Len(request) # 1
    BY <1>1, <2>2, RequestKeeps DEF DropPaths
  <2> QED
    BY <2>1, <2>2
<1>2. ASSUME NEW i \in DOMAIN queue,
             RemoveItem(i) \/ \E action \in MenuActions : MenuMove(i, action)
      PROVE  QInv'
  BY <1>2, RemoveKeeps, MoveKeeps DEF MenuMove
<1>3. ASSUME NEW id \in Ids, NEW slot, DropItem(id, slot)
      PROVE  QInv'
  BY <1>3, MoveKeeps DEF DropItem
<1> QED
  BY <1>1, <1>2, <1>3, ClearKeeps

\* The closures and the items keep true of the runs.
LEMMA QKept == IInv /\ QInv /\ [Next]_vars => QInv'
<1> SUFFICES ASSUME IInv, QInv, [Next]_vars
             PROVE  QInv'
  OBVIOUS
<1>1. CASE User
  BY <1>1, QueueRunKeeps, LargeRunKeeps, StopsKeep, EditsKeep, CloseKeeps DEF User
<1>2. CASE Loop \/ ImportStep
  BY <1>2, PostKeeps, JoinsKeep, ImportKeeps DEF Loop
<1>3. ASSUME NEW r \in Runs, WorkerWorks(r) \/ WorkerEnds(r)
      PROVE  QInv'
  BY <1>3, StartsKeep, FinishesKeep, GoneKeeps DEF WorkerWorks, WorkerEnds
<1>4. ASSUME NEW r \in Runs, Monitor(r)
      PROVE  QInv'
  BY <1>4, LeavesKeep, EndsKeep, ClearsKeep, ReportsKeep DEF Monitor
<1>5. CASE Fails
  BY <1>5, LeavesKeep, GoneKeeps DEF Fails
<1>6. CASE Exited \/ UNCHANGED vars
  BY <1>6, JoinsKeep DEF Exited
<1> QED
  BY <1>1, <1>2, <1>3, <1>4, <1>5, <1>6 DEF Next, System

\* Nothing waits and the queue is empty at first.
LEMMA QStarts == Init => QInv
<1> SUFFICES ASSUME Init PROVE QInv
  OBVIOUS
<1>1. /\ jobs = <<>> /\ scanner = "idle" /\ posts = <<>> /\ queue = <<>> /\ nextId = 1
      /\ runId = 0 /\ active = FALSE /\ activeChild = 0 /\ worker = 0 /\ faults = 0
      /\ runs = [r \in Runs |-> NoRun] /\ running = FALSE /\ large = FALSE /\ ui = "open"
  BY DEF Init, ImportInit
<1>2. RunFine(NoRun)
  BY EmptySeq DEF NoRun, RunFine, Over
<1>3. \A r \in Runs : runs[r] = NoRun
  BY <1>1
<1>4. Plain
  <2>1. jobs \in Seq(Requests)
    BY <1>1, EmptySeq
  <2>2. 0 \in 0..MaxRuns /\ 0 \in 0..MaxFaults
    BY StudioAssumption
  <2>3. worker \in 0..MaxRuns /\ faults \in 0..MaxFaults /\ worker <= runId
    BY <1>1, <2>2
  <2> QED
    BY <1>1, <1>2, <1>3, <2>1, <2>3 DEF Plain
<1>5. Unstarted
  BY <1>3 DEF Unstarted
<1>6. DOMAIN posts = {} /\ DOMAIN queue = {} /\ queue \in Seq(Items) /\ nextId \in Nat
  BY <1>1, EmptySeq
<1>7. Events /\ ItemsOK
  BY <1>6 DEF Events, ItemsOK, QueueDistinct
<1> QED
  BY <1>4, <1>5, <1>7 DEF QInv

LEMMA Invariants == Spec => [](IInv /\ QInv)
<1>1. Init => IInv /\ QInv
  BY Starts, QStarts
<1>2. IInv /\ QInv /\ [Next]_vars => (IInv /\ QInv)'
  BY Kept, QKept
<1> QED
  BY <1>1, <1>2, PTL DEF Spec

----------------------------------------------------------------------------
(* What follows from the invariants. *)

\* An import finds every image of the requested folders once and accounts for every
\* entry it visited, and no file is in the queue twice, for any file system and any
\* interleaving of imports, edits and runs.
THEOREM ImportsAreExact == Spec => []ImportsExact
<1>1. QInv => ImportsExact
  <2> SUFFICES ASSUME QInv PROVE ImportsExact
    OBVIOUS
  <2>1. ASSUME NEW i \in DOMAIN posts, posts[i].kind = "import"
        PROVE  LET r == posts[i].result
               IN /\ Cardinality(r.files) + r.dup + r.odd + r.gone = r.visited
                  /\ {Key(p) : p \in r.files} = {Key(p) : p \in Images[posts[i].request]}
                  /\ Cardinality(r.files) = Cardinality({Key(p) : p \in r.files})
    <3> DEFINE q == posts[i].request
               r == posts[i].result
    <3>1. q \in Requests /\ r = Scan(q)
      BY <2>1 DEF QInv, Events, EventOK
    <3>2. /\ Accounted(r)
          /\ {Key(p) : p \in r.files} = {Key(p) : p \in Images[q]}
          /\ Cardinality(r.files) = Cardinality({Key(p) : p \in r.files})
      <4> HIDE DEF q, r
      <4> QED
        BY <3>1, ScanExact
    <3> QED
      BY <3>2 DEF Accounted
  <2>2. ScanFaithful
    BY <2>1 DEF ScanFaithful
  <2>3. QueueDistinct
    BY DEF QInv, ItemsOK
  <2> QED
    BY <2>2, <2>3 DEF ImportsExact
<1> QED
  BY <1>1, Invariants, PTL

\* The Studio keeps its types, the start button tells whether a run is active once all
\* closures are shown, and no item looks as if it were converted when none is: unless
\* a monitor thread failed.
THEOREM RunIsShown == Spec => []RunShown
<1>1. IInv /\ QInv => RunShown
  <2> SUFFICES ASSUME IInv, QInv PROVE RunShown
    OBVIOUS
  <2>1. jobs \in Seq(Seq(Paths))
    BY TreeAssumption, SeqMonotonic DEF QInv, Plain
  <2>2. TypeOK
    BY <2>1 DEF TypeOK, QInv, Plain, ItemsOK, RunFine, IInv, Typed
  <2>3. (\A r \in Runs : runs[r].mon \notin {"cleared", "failed"}) <=> Sound(runs)
    BY DEF Sound, Failed
  <2>4. NothingLeftRunning
    BY <2>3 DEF NothingLeftRunning, QInv, ItemsOK, ItemOK
  <2>5. ButtonTruthful
    BY <2>3 DEF ButtonTruthful, QInv, Plain
  <2> QED
    BY <2>2, <2>4, <2>5 DEF RunShown
<1> QED
  BY <1>1, Invariants, PTL

\* The steps that change the queue.
QueueStep ==
  \/ UNCHANGED queue
  \/ \E f \in BOOLEAN : StartQueueRun(f)
  \/ ~active /\ posts' = posts /\ UNCHANGED <<runs, runId>>
     /\ \/ \E i, j : MoveItem(i, j)
        \/ \E i \in DOMAIN queue : RemoveItem(i)
        \/ ClearTasks
  \/ RunPost

LEMMA QueueSteps == [Next]_vars => QueueStep
<1> SUFFICES ASSUME [Next]_vars PROVE QueueStep
  OBVIOUS
<1> USE DEF QueueStep
<1>1. CASE User
  <2>1. CASE StartLargeRun \/ CancelRun \/ ForceStop \/ CloseWindow
    BY <2>1 DEF StartLargeRun, CancelRun, ForceStop, CloseWindow, queueVars
  <2>2. CASE \E request \in Requests :
               IF Len(request) = 1 THEN PickPath(request[1]) ELSE DropPaths(request)
    BY <2>2 DEF PickPath, DropPaths, RequestImport, queueVars
  <2>3. CASE \E i \in DOMAIN queue :
               RemoveItem(i) \/ \E action \in MenuActions : MenuMove(i, action)
    <3>1. ~active
      BY <2>3 DEF RemoveItem, MenuMove, MayEdit
    <3>2. posts' = posts /\ UNCHANGED <<runs, runId>>
      BY <2>3 DEF RemoveItem, MenuMove, MoveItem, runVars
    <3> QED
      BY <2>3, <3>1, <3>2 DEF MenuMove
  <2>4. CASE \E id \in Ids, slot \in 1..Len(queue) + 1 : DropItem(id, slot)
    <3>1. ~active
      BY <2>4 DEF DropItem, MayEdit
    <3>2. posts' = posts /\ UNCHANGED <<runs, runId>>
      BY <2>4 DEF DropItem, MoveItem, runVars
    <3> QED
      BY <2>4, <3>1, <3>2 DEF DropItem
  <2>5. CASE ClearTasks
    <3>1. ~active /\ posts' = posts /\ UNCHANGED <<runs, runId>>
      BY <2>5 DEF ClearTasks, MayEdit
    <3> QED
      BY <2>5, <3>1
  <2> QED
    BY <1>1, <2>1, <2>2, <2>3, <2>4, <2>5 DEF User
<1>2. CASE Loop \/ ImportStep
  BY <1>2 DEF Loop, JoinedLast, JoinMonitor, JoinImport, ImportStep, queueVars
<1>3. ASSUME NEW r \in Runs, WorkerWorks(r) \/ WorkerEnds(r)
      PROVE  UNCHANGED queue
  BY <1>3 DEF WorkerWorks, WorkerEnds, WorkerStarts, WorkerFinishes, WorkerExits, queueVars
<1>4. ASSUME NEW r \in Runs, Monitor(r)
      PROVE  UNCHANGED queue
  BY <1>4 DEF Monitor, MonitorLeavesLoop, MonitorPostsEnd, MonitorReturns, MonitorClears,
              MonitorReports, queueVars
<1>5. CASE Fails
  BY <1>5 DEF Fails, MonitorThrows, WorkerCrashes, queueVars
<1>6. CASE Exited \/ UNCHANGED vars
  BY <1>6 DEF Exited, vars, queueVars
<1> QED
  BY <1>1, <1>2, <1>3, <1>4, <1>5, <1>6 DEF Next, System

\* The status of an item is found by its number.
LEMMA StatusIs ==
  ASSUME NEW q, NEW i \in DOMAIN q, \A j, k \in DOMAIN q : q[j].id = q[k].id => j = k
  PROVE  StatusOf(q, q[i].id) = {q[i].status}
  BY DEF StatusOf

\* Edits between runs: what is in the queue afterwards was in it before.
LEMMA EditsOnly ==
  ASSUME QInv, \/ \E i, j : MoveItem(i, j)
               \/ \E i \in DOMAIN queue : RemoveItem(i)
               \/ ClearTasks
  PROVE  \A k \in DOMAIN queue' : \E l \in DOMAIN queue : queue'[k] = queue[l]
<1>1. queue \in Seq(Items) /\ DOMAIN queue = 1..Len(queue) /\ Len(queue) \in Nat
  BY LenProperties DEF QInv, ItemsOK
<1>2. ASSUME NEW i, NEW j, MoveItem(i, j)
      PROVE  \A k \in DOMAIN queue' : \E l \in DOMAIN queue : queue'[k] = queue[l]
  <2>1. i \in DOMAIN queue /\ j \in DOMAIN queue
        /\ queue' = InsertAt(RemoveAt(queue, i), j, queue[i])
    BY <1>2 DEF MoveItem, Movable
  <2> DEFINE g == Origin(Len(queue), i, j)
  <2>2. IsMoved(InsertAt(RemoveAt(queue, i), j, queue[i]), Items, queue, g)
    BY <1>1, <2>1, Moved
  <2> HIDE DEF g
  <2>3. IsMoved(queue', Items, queue, g)
    BY <2>1, <2>2
  <2> QED
    BY <2>3 DEF IsMoved
<1>3. ASSUME NEW i \in DOMAIN queue, RemoveItem(i)
      PROVE  \A k \in DOMAIN queue' : \E l \in DOMAIN queue : queue'[k] = queue[l]
  <2> DEFINE n == Len(queue)
             r == RemoveAt(queue, i)
  <2>1. r \in Seq(Items) /\ Len(r) = n - 1
        /\ \A k \in 1..n - 1 : r[k] = queue[IF k < i THEN k ELSE k + 1]
    BY <1>1, Removed
  <2>2. queue' = r
    BY <1>3 DEF RemoveItem
  <2> HIDE DEF r
  <2>3. DOMAIN r = 1..n - 1
    BY <2>1, LenProperties
  <2>4. \A k \in 1..n - 1 : (IF k < i THEN k ELSE k + 1) \in 1..n
    BY <1>1
  <2> QED
    BY <1>1, <2>1, <2>2, <2>3, <2>4
<1>4. CASE ClearTasks
  <2>1. queue' = <<>>
    BY <1>4 DEF ClearTasks
  <2>2. DOMAIN queue' = {}
    BY <2>1, EmptySeq
  <2> QED
    BY <2>2
<1> QED
  BY <1>2, <1>3, <1>4

\* What an import adds to the queue is new in it and waits.
LEMMA Added ==
  ASSUME IInv, QInv, NEW F \in SUBSET Paths, IsFiniteSet(F),
         \A p, q \in F : Key(p) = Key(q) => p = q, AddImport(F), ~active
  PROVE  \A k \in DOMAIN queue' :
           \/ k \in DOMAIN queue /\ queue'[k] = queue[k]
           \/ queue'[k].status = "pending" /\ nextId <= queue'[k].id
<1> DEFINE G == {p \in F : \A i \in DOMAIN queue : Key(queue[i].path) # Key(p)}
           o == FileOrder(G)
           n == Cardinality(G)
           l == Len(queue)
<1>1. nextId \in Nat /\ queue \in Seq(Items) /\ l \in Nat /\ DOMAIN queue = 1..l
  BY LenProperties DEF QInv, ItemsOK
<1>2. IsFiniteSet(G) /\ G \in SUBSET Paths /\ \A p, q \in G : Key(p) = Key(q) => p = q
  <2>1. G \in SUBSET F
    OBVIOUS
  <2> QED
    BY <2>1, FS_Subset
<1>3. queue' = Appended(queue, o, nextId)
  BY DEF AddImport, AddFiles
<1> HIDE DEF G
<1>4. n \in Nat /\ o \in [1..n -> Paths]
  BY <1>2, Files
<1> HIDE DEF o, n
<1>5. IsAppended(queue', queue, o, n, nextId)
  BY <1>1, <1>3, <1>4, Joined
<1> HIDE DEF l
<1>6. DOMAIN queue' = 1..l + n
      /\ \A k \in 1..l + n : queue'[k] = IF k <= l THEN queue[k]
                                         ELSE NewItem(nextId + (k - l) - 1, o[k - l])
  BY <1>5 DEF IsAppended, l
<1> SUFFICES ASSUME NEW k \in 1..l + n
             PROVE  \/ k \in DOMAIN queue /\ queue'[k] = queue[k]
                    \/ queue'[k].status = "pending" /\ nextId <= queue'[k].id
  BY <1>6
<1>7. CASE k <= l
  BY <1>1, <1>6, <1>7
<1>8. CASE ~(k <= l)
  <2> DEFINE w == nextId + (k - l) - 1
             z == o[k - l]
  <2>1. queue'[k] = NewItem(w, z)
    BY <1>6, <1>8
  <2>2. nextId <= w
    BY <1>1, <1>4, <1>8
  <2> HIDE DEF w, z
  <2>3. queue'[k].status = "pending" /\ queue'[k].id = w
    BY <2>1 DEF NewItem
  <2> QED
    BY <2>2, <2>3
<1> QED
  BY <1>7, <1>8

\* What one closure does to the queue.
LEMMA PostChanges ==
  ASSUME IInv, QInv, RunPost
  PROVE  LET m == Head(posts) IN
         /\ runId' = runId /\ posts # <<>> /\ posts' = Tail(posts)
         /\ \/ UNCHANGED queue
            \/ /\ m.kind = "import" /\ active = FALSE /\ active' = active
               /\ \A k \in DOMAIN queue' :
                    \/ k \in DOMAIN queue /\ queue'[k] = queue[k]
                    \/ queue'[k].status = "pending" /\ nextId <= queue'[k].id
            \/ /\ m.kind = "item" /\ ReportOK(m, runs, runId, active)
               /\ DOMAIN queue' = DOMAIN queue
               /\ \A i \in DOMAIN queue :
                    /\ Restated(queue[i], queue'[i])
                    /\ \/ queue'[i] = queue[i]
                       \/ /\ Concerns(m, queue[i], runId) /\ queue'[i].status = m.st
                          /\ queue[i].status \notin Finished
            \/ /\ m.kind = "end" /\ FinalOK(m, runs, runId) /\ m.run = runId
               /\ active' = FALSE /\ DOMAIN queue' = DOMAIN queue
               /\ \A i \in DOMAIN queue :
                    /\ Restated(queue[i], queue'[i])
                    /\ \/ queue'[i] = queue[i]
                       \/ /\ queue[i].status \notin Finished
                          /\ \/ queue'[i].status = "failed"
                             \/ /\ queue'[i].status = "canceled"
                                /\ m.verdict.forced \/ m.verdict.canceled
<1> DEFINE m == Head(posts)
<1>1. /\ posts # <<>> /\ posts' = Tail(posts)
      /\ \/ m.kind = "import" /\ AddImport(m.result.files)
         \/ m.kind = "item" /\ ShowItem(m)
         \/ m.kind = "end" /\ EndRun(m)
         \/ /\ m.kind = "error"
            /\ UNCHANGED <<queueVars, runId, active, activeChild, worker, runs, large>>
  BY DEF RunPost
<1>2. EventOK(m, runs, runId, active) /\ 1 \in DOMAIN posts /\ m = posts[1]
  BY <1>1, Rest DEF QInv
<1> HIDE DEF m
<1>3. CASE m.kind = "import" /\ AddImport(m.result.files)
  <2> DEFINE F == m.result.files
  <2>1. F \in SUBSET Paths /\ IsFiniteSet(F) /\ \A p, q \in F : Key(p) = Key(q) => p = q
    <3>1. m.request \in Requests /\ m.result = Scan(m.request)
      BY <1>2, <1>3 DEF EventOK
    <3>2. Accounted(m.result)
      BY <3>1, ScanExact
    <3> QED
      BY <3>2 DEF Accounted, Results
  <2>2. AddImport(F)
    BY <1>3
  <2> HIDE DEF F
  <2>3. runId' = runId /\ active' = active /\ (active => UNCHANGED queue) /\ active \in BOOLEAN
    BY <2>2 DEF AddImport, runVars, queueVars, IInv, Typed
  <2>4. ~active => \A k \in DOMAIN queue' :
                     \/ k \in DOMAIN queue /\ queue'[k] = queue[k]
                     \/ queue'[k].status = "pending" /\ nextId <= queue'[k].id
    BY <2>1, <2>2, Added
  <2> QED
    BY <1>1, <1>3, <2>3, <2>4 DEF m
<1>4. CASE m.kind = "item" /\ ShowItem(m)
  <2>1. ReportOK(m, runs, runId, active) /\ m.st \in Statuses
    BY <1>2, <1>4 DEF EventOK, ReportOK, Statuses, Finished
  <2>2. /\ UNCHANGED <<runs, runId, active, nextId, activeChild, worker, running, large>>
        /\ DOMAIN queue' = DOMAIN queue /\ queue' = [i \in DOMAIN queue |-> queue'[i]]
        /\ \A i \in DOMAIN queue : /\ Restated(queue[i], queue'[i])
                                   /\ \/ queue'[i] = queue[i]
                                      \/ /\ runId = m.run /\ queue[i].ri = m.ix
                                         /\ queue'[i].status = m.st
    BY <1>4, <2>1, Shows DEF QInv
  <2>3. \A i \in DOMAIN queue : runId = m.run /\ queue[i].ri = m.ix =>
          Concerns(m, queue[i], runId) /\ queue[i].status \notin Finished
    BY <1>2, <1>4 DEF QInv, ItemsOK, Unreported, Concerns
  <2> QED
    BY <1>1, <1>4, <2>1, <2>2, <2>3 DEF m
<1>5. CASE m.kind = "end" /\ EndRun(m)
  <2> DEFINE v == m.verdict
  <2>1. FinalOK(m, runs, runId)
    BY <1>2, <1>5 DEF EventOK
  <2>2. runId' = runId /\ (runId # m.run => UNCHANGED queue)
        /\ (runId = m.run => active' = FALSE /\ (queue' = Settled(queue, v) \/ UNCHANGED queue))
    BY <1>5 DEF EndRun, queueVars, runVars
  <2> HIDE DEF v
  <2>3. queue' = Settled(queue, v) =>
          /\ DOMAIN queue' = DOMAIN queue
          /\ \A i \in DOMAIN queue :
               /\ Restated(queue[i], queue'[i])
               /\ \/ queue'[i] = queue[i]
                  \/ /\ queue[i].status \in {"pending", "running"}
                     /\ \/ queue'[i].status = "failed"
                        \/ queue'[i].status = "canceled" /\ (v.forced \/ v.canceled)
    BY SettlesItems DEF QInv
  <2> QED
    BY <1>1, <1>5, <2>1, <2>2, <2>3 DEF m, v, Finished
<1>6. CASE m.kind = "error" /\ UNCHANGED <<queueVars, runId>>
  BY <1>1, <1>6 DEF m, queueVars
<1> QED
  BY <1>1, <1>3, <1>4, <1>5, <1>6

\* What the start of a run does to the queue.
LEMMA StartChanges ==
  ASSUME QInv, NEW f \in BOOLEAN, StartQueueRun(f)
  PROVE  /\ ~active /\ runId' = runId + 1 /\ posts' = posts /\ DOMAIN queue' = DOMAIN queue
         /\ \A i \in DOMAIN queue : /\ queue'[i].id = queue[i].id
                                    /\ queue'[i].status \in {"pending", queue[i].status}
<1>1. ~active /\ runId' = runId + 1 /\ posts' = posts /\ queue' = QueueOfRun(f)
  BY DEF StartQueueRun
<1> QED
  BY <1>1, Enrolled DEF QInv

LEMMA VerdictStays ==
  ASSUME IInv, QInv, QueueStep, runId' = runId, NEW i \in DOMAIN queue,
         queue[i].status \in Finished, NEW k \in DOMAIN queue', queue'[k].id = queue[i].id
  PROVE  queue'[k].status = queue[i].status
<1>1. /\ \A j, l \in DOMAIN queue : queue[j].id = queue[l].id => j = l
      /\ \A j \in DOMAIN queue : queue[j].id \in Nat /\ queue[j].id < nextId
      /\ nextId \in Nat /\ runId \in Nat
  BY DEF QInv, ItemsOK, ItemOK, Items, IInv, Typed
<1>2. CASE UNCHANGED queue
  BY <1>1, <1>2
<1>3. ASSUME NEW f \in BOOLEAN, StartQueueRun(f) PROVE FALSE
  <2>1. runId' = runId + 1
    BY <1>3 DEF StartQueueRun
  <2> QED
    BY <1>1, <2>1
<1>4. CASE \/ \E a, b : MoveItem(a, b)
           \/ \E a \in DOMAIN queue : RemoveItem(a)
           \/ ClearTasks
  <2>1. PICK l \in DOMAIN queue : queue'[k] = queue[l]
    BY <1>4, EditsOnly
  <2> QED
    BY <1>1, <2>1
<1>5. CASE RunPost
  <2> DEFINE m == Head(posts)
  <2>1. \/ UNCHANGED queue
        \/ \A j \in DOMAIN queue' :
             \/ j \in DOMAIN queue /\ queue'[j] = queue[j]
             \/ nextId <= queue'[j].id
        \/ /\ DOMAIN queue' = DOMAIN queue
           /\ \A j \in DOMAIN queue :
                /\ Restated(queue[j], queue'[j])
                /\ queue'[j] = queue[j] \/ queue[j].status \notin Finished
    BY <1>5, PostChanges
  <2>2. CASE \A j \in DOMAIN queue' :
               \/ j \in DOMAIN queue /\ queue'[j] = queue[j]
               \/ nextId <= queue'[j].id
    BY <1>1, <2>2
  <2>3. CASE /\ DOMAIN queue' = DOMAIN queue
             /\ \A j \in DOMAIN queue :
                  /\ Restated(queue[j], queue'[j])
                  /\ queue'[j] = queue[j] \/ queue[j].status \notin Finished
    BY <1>1, <2>3 DEF Restated
  <2> QED
    BY <1>2, <2>1, <2>2, <2>3
<1> QED
  BY <1>2, <1>3, <1>4, <1>5 DEF QueueStep

LEMMA CanceledWasAsked ==
  ASSUME IInv, QInv, QueueStep, NEW k \in DOMAIN queue', queue'[k].status = "canceled",
         \A l \in DOMAIN queue : queue[l].id = queue'[k].id => queue[l].status # "canceled"
  PROVE  runId # 0 /\ runs[runId].cancel = TRUE
<1>1. CASE UNCHANGED queue
  BY <1>1
<1>2. ASSUME NEW f \in BOOLEAN, StartQueueRun(f) PROVE FALSE
  BY <1>2, StartChanges
<1>3. CASE \/ \E a, b : MoveItem(a, b)
           \/ \E a \in DOMAIN queue : RemoveItem(a)
           \/ ClearTasks
  BY <1>3, EditsOnly
<1>4. CASE RunPost
  <2> DEFINE m == Head(posts)
             v == m.verdict
  <2>1. \/ UNCHANGED queue
        \/ \A j \in DOMAIN queue' :
             \/ j \in DOMAIN queue /\ queue'[j] = queue[j]
             \/ queue'[j].status = "pending"
        \/ /\ ReportOK(m, runs, runId, active) /\ DOMAIN queue' = DOMAIN queue
           /\ \A j \in DOMAIN queue :
                \/ queue'[j] = queue[j]
                \/ m.run = runId /\ queue'[j].status = m.st /\ queue'[j].id = queue[j].id
        \/ /\ FinalOK(m, runs, runId) /\ m.run = runId /\ DOMAIN queue' = DOMAIN queue
           /\ \A j \in DOMAIN queue :
                \/ queue'[j] = queue[j]
                \/ queue'[j].status = "failed"
                \/ v.forced \/ v.canceled
    BY <1>4, PostChanges DEF Restated, Concerns
  <2>2. CASE /\ ReportOK(m, runs, runId, active) /\ DOMAIN queue' = DOMAIN queue
             /\ \A j \in DOMAIN queue :
                  \/ queue'[j] = queue[j]
                  \/ m.run = runId /\ queue'[j].status = m.st /\ queue'[j].id = queue[j].id
    BY <2>2 DEF ReportOK, Runs
  <2>3. CASE /\ FinalOK(m, runs, runId) /\ m.run = runId /\ DOMAIN queue' = DOMAIN queue
             /\ \A j \in DOMAIN queue :
                  \/ queue'[j] = queue[j]
                  \/ queue'[j].status = "failed"
                  \/ v.forced \/ v.canceled
    <3>1. v.forced \/ v.canceled
      BY <2>3
    <3> QED
      BY <2>3, <3>1 DEF FinalOK, Runs
  <2> QED
    BY <1>1, <2>1, <2>2, <2>3
<1> QED
  BY <1>1, <1>2, <1>3, <1>4 DEF QueueStep

LEMMA EventHits ==
  ASSUME IInv, QInv, QueueStep, NEW i \in DOMAIN queue, posts # <<>>, posts' = Tail(posts),
         Head(posts).kind = "item", StatusOf(queue', queue[i].id) # {queue[i].status}
  PROVE  /\ Head(posts).ix \in DOMAIN runs[Head(posts).run].list
         /\ queue[i].id = runs[Head(posts).run].list[Head(posts).ix]
<1> DEFINE m == Head(posts)
<1>1. \A j, l \in DOMAIN queue : queue[j].id = queue[l].id => j = l
  BY DEF QInv, ItemsOK
<1>2. queue' # queue
  BY <1>1, StatusIs
<1>3. posts' # posts
  <2>1. PICK S : posts \in Seq(S)
    BY DEF IInv, Typed, Sequence
  <2> DEFINE n == Len(posts)
             k == Len(Tail(posts))
  <2>2. n \in Nat /\ k = n - 1
    BY <2>1, HeadTailProperties, LenProperties
  <2>3. posts' = posts => k = n
    OBVIOUS
  <2> HIDE DEF n, k
  <2> QED
    BY <2>2, <2>3
<1>4. RunPost
  BY <1>2, <1>3, StartChanges DEF QueueStep
<1>5. /\ ReportOK(m, runs, runId, active) /\ DOMAIN queue' = DOMAIN queue
      /\ \A j \in DOMAIN queue : /\ Restated(queue[j], queue'[j])
                                 /\ queue'[j] = queue[j] \/ Concerns(m, queue[j], runId)
  BY <1>2, <1>4, PostChanges
<1>6. \A j, l \in DOMAIN queue' : queue'[j].id = queue'[l].id => j = l
  BY <1>1, <1>5 DEF Restated
<1>7. StatusOf(queue', queue[i].id) = {queue'[i].status}
  <2> DEFINE q == queue'
  <2>1. i \in DOMAIN q /\ q[i].id = queue[i].id /\ \A j, l \in DOMAIN q : q[j].id = q[l].id => j = l
    BY <1>5, <1>6 DEF Restated
  <2> HIDE DEF q
  <2>2. StatusOf(q, q[i].id) = {q[i].status}
    BY <2>1, StatusIs
  <2> QED
    BY <2>1, <2>2 DEF q
<1>8. Concerns(m, queue[i], runId)
  BY <1>5, <1>7
<1> HIDE DEF m
<1>9. m.run \in Runs /\ m.run = runId /\ m.ix = queue[i].ri /\ m.ix \in DOMAIN runs[m.run].list
  BY <1>5, <1>8 DEF ReportOK, Concerns
<1>10. runId # 0 /\ queue[i].ri \in DOMAIN runs[runId].list
  BY <1>9 DEF Runs
<1>11. queue[i].id = runs[runId].list[queue[i].ri]
  BY <1>10 DEF QInv, ItemsOK, ItemOK
<1> QED
  BY <1>9, <1>11 DEF m

LEMMA QueueStays ==
  ASSUME IInv, QInv, QueueStep, active, active'
  PROVE  [i \in DOMAIN queue' |-> queue'[i].id] = [i \in DOMAIN queue |-> queue[i].id]
<1>1. UNCHANGED queue \/ RunPost
  BY StartChanges DEF QueueStep
<1>2. CASE UNCHANGED queue
  BY <1>2
<1>3. CASE RunPost
  <2>1. \/ UNCHANGED queue
        \/ /\ DOMAIN queue' = DOMAIN queue
           /\ \A j \in DOMAIN queue : Restated(queue[j], queue'[j])
    BY <1>3, PostChanges
  <2> QED
    BY <1>2, <2>1 DEF Restated
<1> QED
  BY <1>1, <1>2, <1>3

\* The verdict of an item is final within its run, whatever late event, forced stop or
\* final closure comes, and an item becomes canceled only in a run that was asked to
\* stop.
THEOREM VerdictsAreFinal == Spec => VerdictsStand
<1>1. IInv /\ QInv /\ [Next]_vars =>
        [runId' = runId =>
           \A i \in DOMAIN queue :
             (queue[i].ri # 0 /\ queue[i].status \in Finished)
               => StatusOf(queue', queue[i].id) \subseteq {queue[i].status}]_vars
  BY QueueSteps, VerdictStays DEF StatusOf
<1>2. IInv /\ QInv /\ [Next]_vars =>
        [\A i \in DOMAIN queue' :
           (/\ queue'[i].status = "canceled"
            /\ "canceled" \notin StatusOf(queue, queue'[i].id))
             => runId # 0 /\ runs[runId].cancel]_vars
  <2> SUFFICES ASSUME IInv, QInv, [Next]_vars, NEW i \in DOMAIN queue',
                      queue'[i].status = "canceled",
                      "canceled" \notin StatusOf(queue, queue'[i].id)
               PROVE  runId # 0 /\ runs[runId].cancel
    OBVIOUS
  <2>1. QueueStep
    BY QueueSteps
  <2>2. \A l \in DOMAIN queue : queue[l].id = queue'[i].id => queue[l].status # "canceled"
    BY DEF StatusOf
  <2> QED
    BY <2>1, <2>2, CanceledWasAsked
<1> QED
  BY <1>1, <1>2, Invariants, PTL DEF Spec, VerdictsStand, VerdictsFinal, CanceledOnAsk

\* An event of the worker changes the item it was reported for and no other, also when
\* it is shown after its run ended; while a run is active the queue keeps its items and
\* their order.
THEOREM QueueFollows == Spec => QueueFollowsRun
<1>1. IInv /\ QInv /\ [Next]_vars =>
        [\A i \in DOMAIN queue :
           (/\ posts # <<>> /\ posts' = Tail(posts) /\ Head(posts).kind = "item"
            /\ StatusOf(queue', queue[i].id) # {queue[i].status})
             => /\ Head(posts).ix \in DOMAIN runs[Head(posts).run].list
                /\ queue[i].id = runs[Head(posts).run].list[Head(posts).ix]]_vars
  BY QueueSteps, EventHits
<1>2. IInv /\ QInv /\ [Next]_vars =>
        [active /\ active' => [i \in DOMAIN queue' |-> queue'[i].id]
                              = [i \in DOMAIN queue |-> queue[i].id]]_vars
  BY QueueSteps, QueueStays
<1> QED
  BY <1>1, <1>2, Invariants, PTL DEF Spec, QueueFollowsRun, EventsHitTheirItem,
                                     QueueFixedWhileRunning
=============================================================================

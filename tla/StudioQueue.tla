---------------------------- MODULE StudioQueue ----------------------------
(***************************************************************************)
(* The Windows Studio around its conversion queue: the event loop of the   *)
(* user interface, one worker process per run with the monitor thread that *)
(* reads its output, the closures both background threads post to the      *)
(* event loop, and closing the window.  A callback of the interface is one *)
(* step; threads and processes move between any two of them.               *)
(***************************************************************************)
EXTENDS ImportService

CONSTANTS
  Verdicts,    \* what workers report of an item: statuses of Finished
  MaxPosts,    \* bound on the closures waiting when a worker reports
  MaxRuns,     \* bound on the runs ever started
  MaxFaults    \* bound on failures: a start, a termination, an exception


Runs == 1..MaxRuns
Statuses == {"pending", "running", "done", "failed", "canceled"}
Finished == {"done", "failed", "canceled"}

ASSUME StudioAssumption ==
  /\ MaxRuns \in Nat /\ MaxFaults \in Nat /\ MaxPosts \in Nat
  /\ Verdicts \subseteq Finished

VARIABLES
  queue,       \* queue_items: id, path, status and run_index (0: none)
  nextId,      \* next_queue_id
  runId,       \* run_id
  active,      \* worker_active
  activeChild, \* run whose process active_child points to (0: none)
  worker,      \* run whose monitor thread `worker` holds (0: none)
  runs,        \* each run's process, its output pipe and its monitor thread
  running,     \* the running property the start button shows
  large,       \* a large-image row shows that it is being encoded
  ui,          \* "open", "joining" the last thread, "closed", "left", "exited"
  faults

queueVars == <<queue, nextId>>
runVars == <<runId, active, activeChild, worker, runs, running, large>>
vars == <<importVars, posts, queueVars, runVars, ui, faults>>

\* Where a monitor thread is once it has returned, or was never started.
Over == {"none", "ended", "failed"}

NoRun == [kind |-> "none", list |-> <<>>, left |-> <<>>,
          proc |-> "none", code |-> 0, cancel |-> FALSE, forced |-> FALSE,
          manifest |-> FALSE, mon |-> "none", stop |-> FALSE]

Init ==
  /\ ImportInit /\ posts = <<>>
  /\ queue = <<>> /\ nextId = 1
  /\ runId = 0 /\ active = FALSE /\ activeChild = 0 /\ worker = 0
  /\ runs = [r \in Runs |-> NoRun]
  /\ running = FALSE /\ large = FALSE /\ ui = "open" /\ faults = 0

Ids == {queue[i].id : i \in DOMAIN queue}

\* A callback of the interface runs: the window is open and the thread is not
\* waiting for the last monitor.
UiFree == ui = "open"

\* reject_when_worker_active: the queue is edited between runs only.
MayEdit == UiFree /\ ~active

\* post_to_ui: once the event loop has returned nothing posted is kept.
Posted(m) == IF ui \in {"open", "joining"} THEN Append(posts, m) ELSE posts

Fault == faults < MaxFaults /\ faults' = faults + 1

----------------------------------------------------------------------------
(* The worker process of run r. *)

\* StudioChildProcess::request_cancel.
RequestCancel(run) == [run EXCEPT !.cancel = TRUE]

\* StudioChildProcess::terminate: the cancel request comes first, then the job
\* object, which can be terminated even when its process has already ended.
Terminate(run, ok) ==
  IF run.forced THEN run
  ELSE IF ~ok THEN RequestCancel(run)
  ELSE [RequestCancel(run) EXCEPT
          !.forced = TRUE, !.proc = "exited",
          !.code = IF run.proc = "alive" THEN 130 ELSE @]

\* consume_output and publish_item: each line of the worker becomes one closure;
\* after the monitor failed nobody reads the lines.
Published(r, i, st) ==
  IF runs[r].mon \in {"watch", "drain"}
  THEN Posted([kind |-> "item", run |-> r, ix |-> i, st |-> st]) ELSE posts

\* The batch engine reports an item started ...
WorkerStarts(r, i) ==
  /\ Len(posts) < MaxPosts
  /\ runs[r].proc = "alive" /\ i \in DOMAIN runs[r].left /\ runs[r].left[i] = "todo"
  /\ runs' = [runs EXCEPT ![r].left[i] = "busy"]
  /\ posts' = Published(r, i, "running")
  /\ UNCHANGED <<importVars, queueVars, runId, active, activeChild, worker,
                 running, large, ui, faults>>

\* ... or finished; only a stopped engine reports an item as canceled.
WorkerFinishes(r, i, st) ==
  /\ Len(posts) < MaxPosts
  /\ runs[r].proc = "alive" /\ i \in DOMAIN runs[r].left
  /\ \/ runs[r].left[i] = "busy" /\ st \in Verdicts \ {"canceled"}
     \/ runs[r].left[i] # "over" /\ st = "canceled" /\ runs[r].cancel
  /\ runs' = [runs EXCEPT ![r].left[i] = "over"]
  /\ posts' = Published(r, i, st)
  /\ UNCHANGED <<importVars, queueVars, runId, active, activeChild, worker,
                 running, large, ui, faults>>

\* The process ends with its work done, or stopped.
WorkerExits(r, code) ==
  /\ runs[r].proc = "alive"
  /\ \/ code \in {0, 1} /\ \A i \in DOMAIN runs[r].left : runs[r].left[i] = "over"
     \/ code = 130 /\ runs[r].cancel
  /\ runs' = [runs EXCEPT ![r].proc = "exited", ![r].code = code]
  /\ UNCHANGED <<importVars, posts, queueVars, runId, active, activeChild, worker,
                 running, large, ui, faults>>

\* The process ends early, with any code.
WorkerCrashes(r, code) ==
  /\ runs[r].proc = "alive" /\ Fault
  /\ runs' = [runs EXCEPT ![r].proc = "exited", ![r].code = code]
  /\ UNCHANGED <<importVars, posts, queueVars, runId, active, activeChild, worker,
                 running, large, ui>>

----------------------------------------------------------------------------
(* The monitor thread of run r. *)

\* The wait of the loop returns because the process ended, or the stop token was
\* set: then the process is terminated first.
MonitorLeavesLoop(r) ==
  /\ runs[r].mon = "watch"
  /\ \/ /\ ~runs[r].stop /\ runs[r].proc = "exited"
        /\ runs' = [runs EXCEPT ![r].mon = "drain"] /\ UNCHANGED faults
     \/ /\ runs[r].stop
        /\ \E ok \in BOOLEAN :
             /\ runs' = [runs EXCEPT ![r] = [Terminate(runs[r], ok)
                                               EXCEPT !.mon = "drain"]]
             /\ IF ok THEN UNCHANGED faults ELSE Fault
  /\ UNCHANGED <<importVars, posts, queueVars, runId, active, activeChild, worker,
                 running, large, ui>>

\* How the run ended, as the monitor reads it once the process is gone.
Verdict(run) ==
  [forced |-> run.forced,
   canceled |-> run.cancel /\ ~run.forced /\ run.code = 130]

\* The output is drained: the manifest is removed and the end is posted.
MonitorPostsEnd(r) ==
  /\ runs[r].mon = "drain" /\ runs[r].proc = "exited"
  /\ posts' = Posted([kind |-> "end", run |-> r, verdict |-> Verdict(runs[r])])
  /\ runs' = [runs EXCEPT ![r].mon = "posted", ![r].manifest = FALSE]
  /\ UNCHANGED <<importVars, queueVars, runId, active, activeChild, worker, running,
                 large, ui, faults>>

\* The thread returns.
MonitorReturns(r) ==
  /\ runs[r].mon = "posted"
  /\ runs' = [runs EXCEPT ![r].mon = "ended"]
  /\ UNCHANGED <<importVars, posts, queueVars, runId, active, activeChild, worker,
                 running, large, ui, faults>>

\* guarded_worker: an exception leaves the body of the thread ...
MonitorThrows(r) ==
  /\ runs[r].mon \in {"watch", "drain"} /\ Fault
  /\ runs' = [runs EXCEPT ![r].mon = "threw"]
  /\ UNCHANGED <<importVars, posts, queueVars, runId, active, activeChild, worker,
                 running, large, ui>>

\* ... clear_run_if_callback_not_posted ends the run under the mutex ...
\* Mutant: the process is let go without being terminated.
MonitorForgets(r) ==
  /\ runs[r].mon = "threw" /\ ui # "joining"
  /\ runs' = [runs EXCEPT ![r].mon = "cleared"]
  /\ IF runId = r THEN active' = FALSE /\ activeChild' = 0
                  ELSE UNCHANGED <<active, activeChild>>
  /\ UNCHANGED <<importVars, posts, queueVars, runId, worker, running, large, ui,
                 faults>>

\* Mutant: the process is terminated but the run stays active.
MonitorClearsChild(r) ==
  /\ runs[r].mon = "threw" /\ ui # "joining"
  /\ runs' = [[runs EXCEPT ![r].mon = "cleared"] EXCEPT ![r] = Terminate(@, TRUE)]
  /\ UNCHANGED <<importVars, posts, queueVars, runId, active, activeChild, worker,
                 running, large, ui, faults>>

MonitorClears(r) ==
  /\ runs[r].mon = "threw" /\ ui # "joining"
  /\ LET cleared == [runs EXCEPT ![r].mon = "cleared"] IN
     IF runId = r
     THEN /\ active' = FALSE /\ activeChild' = 0
          /\ runs' = IF activeChild = 0 THEN cleared
                     ELSE [cleared EXCEPT ![activeChild] = Terminate(@, TRUE)]
     ELSE runs' = cleared /\ UNCHANGED <<active, activeChild>>
  /\ UNCHANGED <<importVars, posts, queueVars, runId, worker, running, large, ui,
                 faults>>

\* ... and a closure is posted that shows the error.
MonitorReports(r) ==
  /\ runs[r].mon = "cleared"
  /\ posts' = Posted([kind |-> "error"])
  /\ runs' = [runs EXCEPT ![r] = [NoRun EXCEPT !.list = runs[r].list,
                                            !.cancel = runs[r].cancel, !.mon = "failed"]]
  /\ UNCHANGED <<importVars, queueVars, runId, active, activeChild, worker, running,
                 large, ui, faults>>

----------------------------------------------------------------------------
(* Starting and stopping a run, from the interface. *)

Editable(item) == item.status = "pending"

\* queue_item_selected_for_run.
Selected(item, failedOnly) ==
  IF failedOnly THEN item.status = "failed"
  ELSE item.status \in {"pending", "failed", "canceled"}

SelectedIdx(failedOnly) == {i \in DOMAIN queue : Selected(queue[i], failedOnly)}

\* Position of queue[i] among the selected items: its run_index, from 1.
RunIndex(i, failedOnly) ==
  Cardinality({j \in SelectedIdx(failedOnly) : j <= i})

\* The items of the run become pending and carry its indexes, the others none.
QueueOfRun(failedOnly) ==
  [i \in DOMAIN queue |->
     IF i \in SelectedIdx(failedOnly)
     THEN [queue[i] EXCEPT !.status = "pending", !.ri = RunIndex(i, failedOnly)]
     ELSE [queue[i] EXCEPT !.ri = 0]]

\* Ids of the items of the run by run index, as build_run_files lists them.
RunList(failedOnly) ==
  [k \in 1..Cardinality(SelectedIdx(failedOnly)) |->
     queue[CHOOSE i \in SelectedIdx(failedOnly) : RunIndex(i, failedOnly) = k].id]

\* The process runs and its monitor takes over; assigning the thread asks the
\* last one to stop and waits for it with the mutex held.
Launch(kind, list) ==
  /\ runs' = [r \in Runs |->
       IF r = runId + 1
       THEN [NoRun EXCEPT !.kind = kind, !.list = list, !.proc = "alive",
                          !.left = [i \in DOMAIN list |-> "todo"],
                          !.manifest = kind = "queue", !.mon = "watch"]
       ELSE IF r = worker THEN [runs[r] EXCEPT !.stop = TRUE] ELSE runs[r]]
  /\ active' = TRUE /\ activeChild' = runId + 1 /\ worker' = runId + 1
  /\ running' = TRUE
  /\ ui' = IF worker # 0 /\ runs[worker].mon \notin Over THEN "joining" ELSE ui
  /\ UNCHANGED faults

\* reset_failed_run: the manifest, the process or its monitor could not be made.
LaunchFails ==
  /\ active' = FALSE /\ activeChild' = 0 /\ running' = FALSE /\ Fault
  /\ UNCHANGED <<runs, worker, ui>>

\* begin_queue_conversion_run, from the start button or for the failed items.
StartQueueRun(failedOnly) ==
  /\ UiFree /\ ~active /\ runId < MaxRuns
  /\ SelectedIdx(failedOnly) # {}
  /\ runId' = runId + 1
  /\ queue' = QueueOfRun(failedOnly)
  /\ \/ Launch("queue", RunList(failedOnly))
     \/ LaunchFails
  /\ UNCHANGED <<importVars, posts, nextId, large>>

\* begin_child_conversion_run for the large-image row.
StartLargeRun ==
  /\ UiFree /\ ~active /\ runId < MaxRuns
  /\ runId' = runId + 1
  /\ \/ Launch("large", <<>>) /\ large' = TRUE
     \/ LaunchFails /\ large' = FALSE
  /\ UNCHANGED <<importVars, posts, queueVars>>

\* The assignment of the new thread returns once the last one has ended.
JoinedLast ==
  /\ ui = "joining"
  /\ \A r \in Runs : r < runId => runs[r].mon \in Over
  /\ ui' = "open"
  /\ UNCHANGED <<importVars, posts, queueVars, runVars, faults>>

\* on_cancel_conversion: the worker is asked to stop.
CancelRun ==
  /\ UiFree
  /\ IF activeChild # 0
     THEN runs' = [runs EXCEPT ![activeChild] = RequestCancel(@)] /\ running' = TRUE
     ELSE UNCHANGED runs /\ running' = active
  /\ UNCHANGED <<importVars, posts, queueVars, runId, active, activeChild, worker,
                 large, ui, faults>>

\* force_stop_current_worker, from the start button while a run is active.
ForceStop ==
  /\ UiFree /\ active /\ activeChild # 0
  /\ \E ok \in BOOLEAN :
       /\ runs' = [runs EXCEPT ![activeChild] = Terminate(@, ok)]
       /\ IF ok THEN UNCHANGED faults ELSE Fault
  /\ running' = TRUE
  /\ UNCHANGED <<importVars, posts, queueVars, runId, active, activeChild, worker,
                 large, ui>>

----------------------------------------------------------------------------
(* Editing the queue, from the interface. *)

\* append_prepared_import_file for each file of a result, in their order: a file
\* that is in the queue already is passed over.
Appended(q, new, id) ==
  q \o [k \in DOMAIN new |-> [id |-> id + k - 1, path |-> new[k],
                              status |-> "pending", ri |-> 0]]

\* Mutant: a file already in the queue is added again.
AddAlways(q, files, id) == Appended(q, FileOrder(files), id)

AddFiles(q, files, id) ==
  Appended(q, FileOrder({p \in files : \A i \in DOMAIN q : Key(q[i].path) # Key(p)}), id)

\* enqueue_import: a request is refused while a run is active.
RequestImport(request) ==
  /\ UiFree /\ ~active /\ accepted < MaxRequests
  /\ EnqueueJob(request)
  /\ UNCHANGED <<posts, queueVars, runVars, ui, faults>>

\* paths_dropped: what was dropped on the window is one request with many roots.
DropPaths(roots) == RequestImport(roots)

\* on_browse_input and on_input_path_accepted: one picked or typed path.
PickPath(root) == MayEdit /\ RequestImport(<<root>>)

\* move_queue_item: a waiting item takes the place of a waiting item.
Movable(i, j) ==
  i # j /\ {i, j} \subseteq DOMAIN queue /\ Editable(queue[i]) /\ Editable(queue[j])

MoveItem(i, j) ==
  /\ Movable(i, j)
  /\ queue' = InsertAt(RemoveAt(queue, i), j, queue[i])
  /\ UNCHANGED <<importVars, posts, nextId, runVars, ui, faults>>

\* first_pending_index and last_pending_index.
Waiting == {i \in DOMAIN queue : Editable(queue[i])}

\* handle_queue_menu_action, the actions that reorder.
MenuTarget(i, action) ==
  CASE action = "priority"  -> Min(Waiting)
    [] action = "last"      -> Max(Waiting)
    [] action = "move-up"   -> i - 1
    [] action = "move-down" -> i + 1

MenuActions == {"priority", "last", "move-up", "move-down"}

MenuMove(i, action) ==
  MayEdit /\ Editable(queue[i]) /\ MoveItem(i, MenuTarget(i, action))

\* queue_drop_target_index: a slot between items, in terms of the queue without
\* the item that is dragged.
DropTarget(i, slot) == IF slot > i THEN slot - 1 ELSE slot

\* handle_queue_drag_dropped: the drag carries the id of the item, found again
\* when it is dropped.
DropItem(id, slot) ==
  /\ MayEdit
  /\ \E i \in DOMAIN queue : queue[i].id = id /\ MoveItem(i, DropTarget(i, slot))

\* handle_queue_menu_action, "remove".
RemoveItem(i) ==
  /\ MayEdit
  /\ queue' = RemoveAt(queue, i)
  /\ UNCHANGED <<importVars, posts, nextId, runVars, ui, faults>>

\* on_clear_tasks.
ClearTasks ==
  /\ MayEdit
  /\ queue' = <<>> /\ large' = FALSE
  /\ UNCHANGED <<importVars, posts, nextId, runId, active, activeChild, worker, runs,
                 running, ui, faults>>

----------------------------------------------------------------------------
(* The event loop runs the oldest posted closure. *)

\* apply_import_result.
AddImport(files) ==
  /\ IF active THEN UNCHANGED queueVars
     ELSE /\ queue' = AddFiles(queue, files, nextId)
          /\ nextId' = nextId + Len(queue') - Len(queue)
  /\ UNCHANGED <<runVars>>

\* publish_item: the item that carries the run index takes the reported status.
\* Mutant: the run the event belongs to is not compared with the current one.
ShowItemOfAnyRun(m) ==
  /\ queue' = [i \in DOMAIN queue |->
                 IF queue[i].ri = m.ix THEN [queue[i] EXCEPT !.status = m.st]
                 ELSE queue[i]]
  /\ UNCHANGED <<nextId, runVars>>

ShowItem(m) ==
  /\ queue' = IF runId # m.run THEN queue
              ELSE [i \in DOMAIN queue |->
                      IF queue[i].ri = m.ix THEN [queue[i] EXCEPT !.status = m.st]
                      ELSE queue[i]]
  /\ UNCHANGED <<nextId, runVars>>

\* The final closure of a run: what the worker left unfinished gets its verdict
\* from how the run ended.
\* Mutant: a forced end also overwrites the verdicts the worker reported.
SettledAll(q, v) ==
  [i \in DOMAIN q |->
     IF q[i].ri = 0 \/ (q[i].status \notin {"pending", "running"} /\ ~v.forced)
     THEN q[i]
     ELSE [q[i] EXCEPT !.status = IF v.forced \/ v.canceled THEN "canceled"
                                  ELSE "failed"]]

\* Mutant: only the items that had started are settled.
SettledStarted(q, v) ==
  [i \in DOMAIN q |->
     IF q[i].ri = 0 \/ q[i].status # "pending" THEN q[i]
     ELSE [q[i] EXCEPT !.status = IF v.forced \/ v.canceled THEN "canceled"
                                  ELSE "failed"]]

Settled(q, v) ==
  [i \in DOMAIN q |->
     IF q[i].ri = 0 \/ q[i].status \notin {"pending", "running"} THEN q[i]
     ELSE [q[i] EXCEPT !.status = IF v.forced \/ v.canceled THEN "canceled"
                                  ELSE "failed"]]

EndRun(m) ==
  IF runId # m.run THEN UNCHANGED <<queueVars, runVars>>
  ELSE /\ active' = FALSE /\ activeChild' = 0 /\ running' = FALSE
       /\ IF runs[m.run].kind = "queue"
          THEN queue' = Settled(queue, m.verdict) /\ UNCHANGED large
          ELSE large' = FALSE /\ UNCHANGED queue
       /\ runs' = [runs EXCEPT ![m.run] = [NoRun EXCEPT !.mon = runs[m.run].mon]]
       /\ UNCHANGED <<nextId, runId, worker>>

RunPost ==
  /\ UiFree /\ posts # <<>>
  /\ posts' = Tail(posts)
  /\ LET m == Head(posts) IN
     \/ m.kind = "import" /\ AddImport(m.result.files)
     \/ m.kind = "item" /\ ShowItem(m)
     \/ m.kind = "end" /\ EndRun(m)
     \/ /\ m.kind = "error"
        /\ running' = FALSE
        /\ UNCHANGED <<queueVars, runId, active, activeChild, worker, runs, large>>
  /\ UNCHANGED <<importVars, ui, faults>>

----------------------------------------------------------------------------
(* Closing the window. *)

\* on_close_requested: the import is told to stop and the worker is forced to.
\* The hidden window ends the event loop: no posted closure runs any more, and the
\* monitor thread is asked to stop.
Stopped(r) == IF r = worker THEN [runs[r] EXCEPT !.stop = TRUE] ELSE runs[r]

CloseWindow ==
  /\ UiFree
  /\ ui' = "closed" /\ posts' = <<>>
  /\ StopImport
  /\ \E ok \in BOOLEAN :
       /\ runs' = [r \in Runs |-> IF r = activeChild THEN Terminate(Stopped(r), ok)
                                                     ELSE Stopped(r)]
       /\ IF ok THEN UNCHANGED faults ELSE activeChild # 0 /\ Fault
  /\ UNCHANGED <<queueVars, runId, active, activeChild, worker, running, large>>

\* run_studio_ui, after the loop: the monitor is joined, then the import thread.
\* Mutant: the monitor is left behind.
DetachMonitor ==
  /\ ui = "closed"
  /\ ui' = "left"
  /\ UNCHANGED <<importVars, posts, queueVars, runVars, faults>>

JoinMonitor ==
  /\ ui = "closed" /\ (\A r \in Runs : r = worker => runs[r].mon \in Over)
  /\ ui' = "left"
  /\ UNCHANGED <<importVars, posts, queueVars, runVars, faults>>

JoinImport ==
  /\ ui = "left" /\ scanner = "ended"
  /\ ui' = "exited"
  /\ UNCHANGED <<importVars, posts, queueVars, runVars, faults>>

Exited == ui = "exited" /\ UNCHANGED vars

----------------------------------------------------------------------------
ImportStep == ImportThread /\ UNCHANGED <<queueVars, runVars, ui, faults>>

WorkerWorks(r) == \E i \in DOMAIN runs[r].left :
  WorkerStarts(r, i) \/ \E st \in Verdicts : WorkerFinishes(r, i, st)

WorkerEnds(r) == \E code \in {0, 1, 130} : WorkerExits(r, code)

Monitor(r) == \/ MonitorLeavesLoop(r) \/ MonitorPostsEnd(r)
              \/ MonitorReturns(r) \/ MonitorClears(r) \/ MonitorReports(r)

User == \/ \E f \in BOOLEAN : StartQueueRun(f)
        \/ StartLargeRun \/ CancelRun \/ ForceStop
        \/ \E request \in Requests :
             IF Len(request) = 1 THEN PickPath(request[1]) ELSE DropPaths(request)
        \/ \E i \in DOMAIN queue :
             \/ RemoveItem(i)
             \/ \E action \in MenuActions : MenuMove(i, action)
        \/ \E id \in Ids, slot \in 1..Len(queue) + 1 : DropItem(id, slot)
        \/ ClearTasks \/ CloseWindow

Loop == RunPost \/ JoinedLast \/ JoinMonitor \/ JoinImport

Fails == \E r \in Runs : \/ MonitorThrows(r)
                         \/ \E code \in {1, 130} : WorkerCrashes(r, code)

System == \/ Loop \/ ImportStep
          \/ \E r \in Runs : WorkerWorks(r) \/ WorkerEnds(r) \/ Monitor(r)

Next == User \/ System \/ Fails \/ Exited

\* The threads, the event loop and the worker processes do not all stand still for
\* ever while one of them can move.  Nothing is assumed of the user.
Fairness == WF_vars(System)

Spec == Init /\ [][Next]_vars /\ Fairness

----------------------------------------------------------------------------
Items == [id : Nat, path : Paths, status : Statuses, ri : Nat]

TypeOK ==
  /\ queue \in Seq(Items) /\ nextId \in Nat
  /\ runId \in 0..MaxRuns /\ activeChild \in 0..MaxRuns /\ worker \in 0..MaxRuns
  /\ active \in BOOLEAN /\ running \in BOOLEAN /\ large \in BOOLEAN
  /\ ui \in {"open", "joining", "closed", "left", "exited"}
  /\ scanner \in {"idle", "ended"}
  /\ jobs \in Seq(Seq(Paths)) /\ faults \in 0..MaxFaults
  /\ \A r \in Runs :
       /\ runs[r].proc \in {"none", "alive", "exited"}
       /\ runs[r].mon \in Over \cup {"watch", "drain", "posted", "threw", "cleared"}
       /\ runs[r].code \in {0, 1, 130}

\* At most one worker process runs at any time, also when a monitor thread fails
\* and the next run starts before its closure was shown.
OneWorker == Cardinality({r \in Runs : runs[r].proc = "alive"}) <= 1

\* No file is in the queue twice, whatever imports and removals came before.
QueueDistinct ==
  \A i, j \in DOMAIN queue : Key(queue[i].path) = Key(queue[j].path) => i = j

\* An import finds every image of the requested paths once and accounts for every
\* entry it visited, and no file is in the queue twice.
ImportsExact == ScanFaithful /\ QueueDistinct

\* When no run is active no item is left running, unless the exception of a
\* monitor thread ended the run.
NothingLeftRunning ==
  ~active /\ (\A r \in Runs : runs[r].mon \notin {"cleared", "failed"})
    => \A i \in DOMAIN queue : queue[i].status # "running"

\* With every closure shown and no failed monitor, the start button tells whether
\* a run is active.
ButtonTruthful ==
  posts = <<>> /\ (\A r \in Runs : runs[r].mon \notin {"cleared", "failed"})
    => running = active

\* What the window shows of the run is so: the button tells whether one is active,
\* and no item looks as if it were converted when none is.
RunShown == TypeOK /\ NothingLeftRunning /\ ButtonTruthful

\* The manifest of a run is gone once its monitor has returned.
ManifestRemoved == \A r \in Runs : runs[r].mon = "ended" => ~runs[r].manifest

StatusOf(q, id) == {q[i].status : i \in {k \in DOMAIN q : q[k].id = id}}

\* Within a run a reported verdict is final: neither a late event, nor a force
\* stop that races the normal end, nor the final closure changes it.
VerdictsFinal ==
  [][runId' = runId =>
       \A i \in DOMAIN queue :
         (queue[i].ri # 0 /\ queue[i].status \in Finished)
           => StatusOf(queue', queue[i].id) \subseteq {queue[i].status}]_vars

\* An event of the worker changes the item it was reported for and no other, even
\* when it is shown after its run ended and the queue was edited or run again.
EventsHitTheirItem ==
  [][\A i \in DOMAIN queue :
       (/\ posts # <<>> /\ posts' = Tail(posts) /\ Head(posts).kind = "item"
        /\ StatusOf(queue', queue[i].id) # {queue[i].status})
         => /\ Head(posts).ix \in DOMAIN runs[Head(posts).run].list
            /\ queue[i].id = runs[Head(posts).run].list[Head(posts).ix]]_vars

\* While a run is active the queue keeps its items and their order: imports that
\* were under way when it started are not added.
QueueFixedWhileRunning ==
  [][active /\ active' => [i \in DOMAIN queue' |-> queue'[i].id]
                          = [i \in DOMAIN queue |-> queue[i].id]]_vars

\* An item becomes canceled only in a run that was asked to stop.
CanceledOnAsk ==
  [][\A i \in DOMAIN queue' :
       (/\ queue'[i].status = "canceled"
        /\ "canceled" \notin StatusOf(queue, queue'[i].id))
         => runId # 0 /\ runs[runId].cancel]_vars

\* The verdict of an item is final within its run, and canceled only if a stop was
\* asked for.
VerdictsStand == VerdictsFinal /\ CanceledOnAsk

\* The indexes of a run stay good: the queue keeps its items while the run is
\* active, and a late event finds its own item or none.
QueueFollowsRun == EventsHitTheirItem /\ QueueFixedWhileRunning

\* Every run ends while the window stays open.
RunEnds == active ~> (~active \/ ui # "open")

\* A closed Studio exits: no thread is waited for in vain, and no worker process is
\* left behind when it does.
StudioExits ==
  /\ ui = "closed" ~> ui = "exited"
  /\ [][ui' = "exited" => \A r \in Runs : runs[r].proc # "alive"]_vars
=============================================================================

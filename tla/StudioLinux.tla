----------------------------- MODULE StudioLinux -----------------------------
(***************************************************************************)
(* The conversion queue of the Linux Studio.  It has no worker process: a  *)
(* run is a thread of the program that calls the batch engine and posts a  *)
(* closure to the event loop for each of its events.  The closures carry   *)
(* no number of their run; they find their row by the path of the file.    *)
(* The queue holds the files, the rows show them, and a third list keeps   *)
(* the files that failed, for the button that retries them.                *)
(***************************************************************************)
EXTENDS Integers, Sequences, SequencesExt, FiniteSets

CONSTANTS
  Paths,      \* the files of the disk, absolute paths
  Key,        \* path -> what linux_queue_path_key makes of it
  Picks,      \* what a user adds: files and folders
  Scan,       \* pick -> the images found there, in order, or Unreadable
  Unreadable,
  NoFile,
  MaxAdds,    \* bound on additions to the queue
  MaxRuns,    \* bound on the runs started
  MaxPosts,   \* bound on the closures waiting when the engine reports
  MaxFaults   \* bound on the failures of the engine, of its threads and of a removal

ASSUME LinuxAssumption ==
  /\ Scan \in [Picks -> Seq(Paths) \union {Unreadable}]
  /\ Unreadable \notin Seq(Paths) /\ NoFile \notin Paths
  /\ {MaxAdds, MaxRuns, MaxPosts, MaxFaults} \subseteq Nat

VARIABLES
  queue,    \* queue_files, the files in the order they are converted in
  rows,     \* task_rows: path and state
  failed,   \* failed_paths
  running,  \* the running property
  drag,     \* the file that is being dragged, or NoFile
  thread,   \* the thread of the last run
  posts,    \* the closures posted to the event loop
  ui,       \* "open", "closed" (the loop has returned) or "exited"
  adds, runs, faults

queueVars == <<queue, rows, failed>>
vars == <<queueVars, running, drag, thread, posts, ui, adds, runs, faults>>

States == {"pending", "running", "done", "failed", "canceled"}
Keys == {Key[p] : p \in Paths}

Init ==
  /\ queue = <<>> /\ rows = <<>> /\ failed = {} /\ running = FALSE
  /\ drag = NoFile /\ posts = <<>> /\ ui = "open"
  /\ thread = [at |-> "none", retry |-> {}, left |-> <<>>, stop |-> FALSE,
               manifest |-> FALSE, error |-> FALSE]
  /\ adds = 0 /\ runs = 0 /\ faults = 0

Fault == faults < MaxFaults /\ faults' = faults + 1

\* The controls that edit the queue are disabled while a run is on.
MayEdit == ui = "open" /\ ~running

----------------------------------------------------------------------------
(* The queue. *)

InQueue(q, p) == \E i \in DOMAIN q : Key[q[i]] = Key[p]

Added(q, p) == IF InQueue(q, p) THEN q ELSE Append(q, p)

\* refresh_linux_pending_queue: new rows for the whole queue, all pending.
Pending(p) == [path |-> p, st |-> "pending"]
Refreshed(q) == [i \in DOMAIN q |-> Pending(q[i])]

\* add_linux_queue_from_path: what is found joins the queue file by file.  A pick
\* without images changes nothing, one whose images are all there refreshes the rows.
Found(pick) == IF Scan[pick] = Unreadable THEN <<>> ELSE Scan[pick]

Joined(q, found) ==
  LET joined[k \in 0 .. Len(found)] ==
        IF k = 0 THEN q ELSE Added(joined[k - 1], found[k])
  IN joined[Len(found)]

Add(found) ==
  /\ MayEdit /\ adds < MaxAdds /\ adds' = adds + 1
  /\ queue' = Joined(queue, found)
  /\ rows' = IF found = <<>> THEN rows ELSE Refreshed(queue')
  /\ UNCHANGED <<failed, running, drag, thread, posts, ui, runs, faults>>

BrowseInput(pick) == Add(Found(pick))

\* Two picks are dropped together: the second is added after the first.
DropInput(pick, next) == Add(Found(pick) \o Found(next))

ClearTasks ==
  /\ MayEdit
  /\ queue' = <<>> /\ rows' = <<>> /\ failed' = {}
  /\ UNCHANGED <<running, drag, thread, posts, ui, adds, runs, faults>>

\* A file is dragged within the queue; what is carried is its path.
DragFrom(i) ==
  /\ MayEdit /\ i \in DOMAIN queue
  /\ drag' = queue[i]
  /\ UNCHANGED <<queueVars, running, thread, posts, ui, adds, runs, faults>>

\* Where it may be dropped: the slots are the gaps before, between and after the
\* files; the two beside the file leave it where it is.
Current == {i \in DOMAIN queue : drag # NoFile /\ Key[queue[i]] = Key[drag]}
Target(i, slot) == IF slot > i THEN slot - 1 ELSE slot
MayDrop(i, slot) == slot \in 1 .. Len(queue) + 1 /\ Target(i, slot) # i

Drop(slot) ==
  /\ MayEdit /\ drag' = NoFile
  /\ \E i \in Current :
       /\ MayDrop(i, slot)
       /\ queue' = InsertAt(RemoveAt(queue, i), Target(i, slot), queue[i])
  /\ rows' = Refreshed(queue')
  /\ UNCHANGED <<failed, running, thread, posts, ui, adds, runs, faults>>

----------------------------------------------------------------------------
(* Starting a run. *)

\* build_linux_queue_files: the files of the queue with one of these keys.
Snapshot(only) == {p \in Range(queue) : \E o \in only : Key[o] = Key[p]}

\* The manifest is written and the thread starts; the thread it replaces is
\* joined, which is over at once.
Launch(retry, files) ==
  /\ runs < MaxRuns /\ runs' = runs + 1 /\ files # {}
  /\ running' = TRUE
  /\ thread' = [at |-> "batch", retry |-> retry, stop |-> FALSE, error |-> FALSE,
                manifest |-> TRUE, left |-> [p \in files |-> "todo"]]

StartConversion ==
  /\ MayEdit
  /\ Launch({}, Range(queue))
  /\ rows' = Refreshed(queue) /\ failed' = {}
  /\ UNCHANGED <<queue, drag, posts, ui, adds, faults>>

WithState(st) == {i \in DOMAIN rows : rows[i].st = st}

\* The button is enabled while a row shows a failure.
RetryFailed ==
  /\ MayEdit /\ WithState("failed") # {}
  /\ Launch(failed, Snapshot(failed))
  /\ rows' = [i \in DOMAIN rows |->
                IF rows[i].st = "failed" THEN Pending(rows[i].path) ELSE rows[i]]
  /\ UNCHANGED <<queue, failed, drag, posts, ui, adds, faults>>

\* Mutant: the run counts as over once it was asked to stop.
StopAtOnce ==
  /\ ui = "open" /\ running
  /\ thread' = [thread EXCEPT !.stop = TRUE] /\ running' = FALSE
  /\ UNCHANGED <<queueVars, drag, posts, ui, adds, runs, faults>>

\* The same button while a run is on.
StopConversion ==
  /\ ui = "open" /\ running
  /\ thread' = [thread EXCEPT !.stop = TRUE]
  /\ UNCHANGED <<queueVars, running, drag, posts, ui, adds, runs, faults>>

----------------------------------------------------------------------------
(* The thread: the batch engine (BatchPipeline), then the end of the run. *)

Posted(m) == IF ui = "open" THEN Append(posts, m) ELSE posts
Report(p, st) ==
  /\ Len(posts) < MaxPosts
  /\ posts' = Posted([kind |-> "item", path |-> p, st |-> st])

ItemStarts(p) ==
  /\ thread.at = "batch" /\ p \in DOMAIN thread.left /\ ~thread.stop
  /\ thread.left[p] = "todo" /\ thread' = [thread EXCEPT !.left[p] = "busy"]
  /\ Report(p, "running")
  /\ UNCHANGED <<queueVars, running, drag, ui, adds, runs, faults>>

ItemFinishes(p, st) ==
  /\ thread.at = "batch" /\ p \in DOMAIN thread.left
  /\ thread.left[p] = "busy" /\ thread' = [thread EXCEPT !.left[p] = "over"]
  /\ st = "canceled" => thread.stop
  /\ Report(p, st)
  /\ UNCHANGED <<queueVars, running, drag, ui, adds, runs, faults>>

\* A file beyond the memory limit is reported as failed and never started.
ItemRejected(p) ==
  /\ thread.at = "batch" /\ p \in DOMAIN thread.left /\ ~thread.stop
  /\ thread.left[p] = "todo" /\ thread' = [thread EXCEPT !.left[p] = "over"]
  /\ Report(p, "failed")
  /\ UNCHANGED <<queueVars, running, drag, ui, adds, runs, faults>>

\* An encoding thread of the engine fails with its file: no event follows.
ItemLost(p) ==
  /\ thread.at = "batch" /\ p \in DOMAIN thread.left /\ Fault
  /\ thread.left[p] = "busy" /\ thread' = [thread EXCEPT !.left[p] = "lost"]
  /\ UNCHANGED <<queueVars, running, drag, posts, ui, adds, runs>>

Idle == \A p \in DOMAIN thread.left : thread.left[p] # "busy"
Some(state) == \E p \in DOMAIN thread.left : thread.left[p] = state

\* Mutant: files that are being encoded are not waited for.
ReturnsEarly(fails, error) ==
  /\ thread.at = "batch"
  /\ IF fails THEN Fault ELSE UNCHANGED faults /\ ~error
  /\ thread' = [thread EXCEPT !.at = "returned", !.error = error]
  /\ UNCHANGED <<queueVars, running, drag, posts, ui, adds, runs>>

\* run_batch returns when no file is being encoded: a summary when every file had
\* its turn, a stop was asked for or a thread of the engine was lost; and whenever
\* it fails, an error, or a summary if it could not create its threads.  There is
\* no event for a file that was never started.
BatchReturns(fails, error) ==
  /\ thread.at = "batch" /\ Idle
  /\ IF fails THEN Fault
     ELSE UNCHANGED faults /\ ~error /\ (~Some("todo") \/ Some("lost") \/ thread.stop)
  /\ thread' = [thread EXCEPT !.at = "returned", !.error = error]
  /\ UNCHANGED <<queueVars, running, drag, posts, ui, adds, runs>>

\* Nobody looks whether the manifest could be removed.
RemoveManifest(removed) ==
  /\ thread.at = "returned"
  /\ IF removed THEN UNCHANGED faults ELSE Fault
  /\ thread' = [thread EXCEPT !.at = "removed", !.manifest = ~removed]
  /\ UNCHANGED <<queueVars, running, drag, posts, ui, adds, runs>>

PostEnd ==
  /\ thread.at = "removed"
  /\ thread' = [thread EXCEPT !.at = "over"]
  /\ posts' = Posted([kind |-> "end", retry |-> thread.retry, error |-> thread.error])
  /\ UNCHANGED <<queueVars, running, drag, ui, adds, runs, faults>>

----------------------------------------------------------------------------
(* The closures. *)

RowOf(p) == {i \in DOMAIN rows : rows[i].path = p}

\* mark_task_row_running, set_linux_task_row_result: the row with the path, or a
\* new one.
WithRow(p, st) ==
  IF RowOf(p) = {} THEN Append(rows, [path |-> p, st |-> st])
  ELSE [rows EXCEPT ![CHOOSE i \in RowOf(p) : \A j \in RowOf(p) : i <= j].st = st]

FailedAfter(p, st) ==
  IF st = "running" THEN failed
  ELSE (failed \ {p}) \union (IF st = "failed" THEN {p} ELSE {})

ShowItem(m) ==
  /\ m.kind = "item"
  /\ rows' = WithRow(m.path, m.st)
  /\ failed' = FailedAfter(m.path, m.st)
  /\ UNCHANGED running

\* Mutant: only the rows say that the retry failed.
ShowEndForgets(m) ==
  /\ m.kind = "end" /\ running' = FALSE /\ UNCHANGED failed
  /\ rows' = [i \in DOMAIN rows |-> IF m.error /\ rows[i].path \in m.retry
                THEN [rows[i] EXCEPT !.st = "failed"] ELSE rows[i]]

\* A retry that ends with an error has failed for all of its files.
ShowEnd(m) ==
  /\ m.kind = "end" /\ running' = FALSE
  /\ IF m.error /\ m.retry # {}
     THEN /\ failed' = m.retry
          /\ rows' = [i \in DOMAIN rows |-> IF rows[i].path \in m.retry
                        THEN [rows[i] EXCEPT !.st = "failed"] ELSE rows[i]]
     ELSE UNCHANGED <<rows, failed>>

RunPost ==
  /\ ui = "open" /\ posts # <<>>
  /\ posts' = Tail(posts)
  /\ ShowItem(Head(posts)) \/ ShowEnd(Head(posts))
  /\ UNCHANGED <<queue, drag, thread, ui, adds, runs, faults>>

----------------------------------------------------------------------------
(* Closing the window: the thread is asked to stop and the loop returns.  The *)
(* program then ends without joining the thread: what the thread has not done *)
(* by then is not done.                                                       *)

CloseWindow ==
  /\ ui = "open"
  /\ ui' = "closed" /\ posts' = <<>>
  /\ thread' = [thread EXCEPT !.stop = TRUE]
  /\ UNCHANGED <<queueVars, running, drag, adds, runs, faults>>

Exit ==
  /\ ui = "closed" /\ ui' = "exited"
  /\ thread' = [thread EXCEPT !.at = IF @ \in {"none", "over"} THEN @ ELSE "killed"]
  /\ UNCHANGED <<queueVars, running, drag, posts, adds, runs, faults>>

Exited == ui = "exited" /\ UNCHANGED vars

----------------------------------------------------------------------------
User ==
  \/ \E pick \in Picks : BrowseInput(pick) \/ \E next \in Picks : DropInput(pick, next)
  \/ ClearTasks
  \/ \E i \in DOMAIN queue : DragFrom(i)
  \/ \E slot \in 1 .. Len(queue) + 1 : Drop(slot)
  \/ StartConversion \/ RetryFailed \/ StopConversion \/ CloseWindow

Engine ==
  \/ \E p \in Paths : \/ ItemStarts(p) \/ ItemRejected(p)
                      \/ \E st \in {"done", "failed", "canceled"} : ItemFinishes(p, st)
  \/ BatchReturns(FALSE, FALSE) \/ RemoveManifest(TRUE) \/ PostEnd

Fails ==
  \/ \E p \in Paths : ItemLost(p)
  \/ \E error \in BOOLEAN : BatchReturns(TRUE, error)
  \/ RemoveManifest(FALSE)

Next == User \/ Engine \/ Fails \/ RunPost \/ Exit \/ Exited

\* The engine, the event loop and a closed program go on; nothing is assumed of
\* the user.
Spec == Init /\ [][Next]_vars /\ WF_vars(Engine) /\ WF_vars(RunPost \/ Exit)

----------------------------------------------------------------------------
\* Every value is of its type, and no file is in the queue twice.
TypeOK ==
  /\ queue \in Seq(Paths) /\ rows \in Seq([path : Paths, st : States])
  /\ Cardinality({Key[queue[i]] : i \in DOMAIN queue}) = Len(queue)
  /\ failed \subseteq Paths /\ running \in BOOLEAN /\ drag \in Paths \union {NoFile}
  /\ thread.at \in {"none", "batch", "returned", "removed", "over", "killed"}
  /\ thread.retry \subseteq Paths /\ DOMAIN thread.left \subseteq Paths
  /\ \A p \in DOMAIN thread.left : thread.left[p] \in {"todo", "busy", "over", "lost"}
  /\ ui \in {"open", "closed", "exited"}

\* The rows are the files of the queue in its order: an event finds the row of
\* its file and adds none, and what the user drags is what the row shows.
RowsMirrorQueue == [i \in DOMAIN rows |-> rows[i].path] = queue

\* Between two runs no thread works and no closure waits, so that a start never
\* waits for the thread it replaces and no closure of an earlier run reaches the
\* rows of a later one; nor is a manifest left, unless something failed.
QuietBetweenRuns ==
  ui = "open" /\ ~running =>
    /\ thread.at \in {"none", "over"} /\ posts = <<>>
    /\ thread.manifest => faults > 0

\* What a row shows as failed can be retried: it is kept as failed, and its file
\* is in the queue.
FailedCanBeRetried ==
  \A i \in WithState("failed") : rows[i].path \in failed /\ InQueue(queue, rows[i].path)

\* A retry takes every file that shows a failure and none that shows a conversion.
RetryIsExact ==
  [][runs' # runs /\ thread'.retry # {} =>
       /\ \A i \in WithState("failed") : rows[i].path \in DOMAIN thread'.left
       /\ \A i \in WithState("done") : rows[i].path \notin DOMAIN thread'.left]_vars

\* The queue, its rows and the list of failed files agree, so that a retry takes
\* every file that shows a failure and none that shows a conversion; it may also take
\* one that a stopped retry left pending.
RetryExact == [](TypeOK /\ RowsMirrorQueue /\ FailedCanBeRetried) /\ RetryIsExact

\* A run that nobody stopped and that met no failure of the engine leaves each of
\* its files converted or failed when it shows its end.
SettledAtEnd ==
  [][running /\ ~running' /\ ~thread.stop /\ faults = 0 =>
       \A i \in DOMAIN rows : rows[i].path \in DOMAIN thread.left
                                => rows[i].st \in {"done", "failed"}]_vars

\* Every run ends, as long as the window stays open.
RunEnds == running ~> (~running \/ ui # "open")

\* Every run ends, and one that was not disturbed with a verdict for each file.
RunSettles == RunEnds /\ SettledAtEnd
=============================================================================

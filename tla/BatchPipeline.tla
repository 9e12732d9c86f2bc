---------------------------- MODULE BatchPipeline ----------------------------
(* The batch engine of src/src/app/pipeline.ixx (run_batch, encode_work_groups,
   encode_large_work_groups, encode_large_mode_item, mark_unstarted_results)
   over the per-item encode of src/src/backends/native_backend.ixx.

   run_batch executes three phases one after the other: ordinary, deferred tail
   and large mode.  A phase groups its items by output path, starts up to `jobs`
   worker threads that pull groups from a shared counter, and joins them.
   A worker converts the items of its group in scan order.  The user may request
   a stop at any time, an encode may throw, a thread may fail to start, and
   another program may create a file at an output path.

   Abstracted: pixels, sizes and timings.  A file is its writer; the order in
   which groups are taken (descending size) is arbitrary. *)
EXTENDS Integers, FiniteSets

CONSTANTS NumItems,    \* inputs of the batch, 1..NumItems in scan order
          MaxWorkers,  \* the largest `jobs` a resource plan grants
          Modes,       \* collision modes the batch may be configured with
          Paths,       \* output paths (normalized keys)
          NoPath       \* "no group held"

ASSUME BatchAssumption ==
  /\ NumItems \in Nat \ {0}
  /\ MaxWorkers \in Nat \ {0}
  /\ Modes \subseteq {"overwrite", "skip", "suffix"}
  /\ NoPath \notin Paths

Items   == 1..NumItems
Workers == 1..MaxWorkers
NoItem  == 0

Classes == {"rejected", "ordinary", "deferred", "large"}
WorkPhases == {"ordinary", "deferred", "large"}

NoFile  == 0    \* the path does not exist
Foreign == -1   \* a file the batch did not write
Owners  == Items \cup {NoFile, Foreign}

Outcomes == {"ok", "skipped", "failed", "canceled"}
Statuses == Outcomes \cup {"unprocessed", "notStarted"}
Steps    == {"absent", "take", "item", "encode", "convert", "commit", "post",
             "record", "exit"}
Running  == 1000     \* exit code before run_batch returns
ExitCodes == {0, 2, 130, Running}

VARIABLES
  mode,       \* cfg.collision_mode
  path,       \* planned output path of each item
  class,      \* classification by classify_work_for_avif / memory budget
  file,       \* output directory: path -> who wrote the file there
  stop,       \* stop_token.stop_requested()
  phase,      \* phase run_batch is in: a WorkPhase, "summary" or "done"
  spawning,   \* run_batch is still creating the phase's threads
  jobs,       \* threads this phase may start
  spawned,    \* threads started so far in this phase
  groups,     \* output paths whose group no worker has taken yet
  pc,         \* step each worker is at
  group,      \* output path of the group a worker holds
  rest,       \* items of that group still to convert
  job,        \* item a worker is converting
  tries,      \* encode paths left for this item (large mode falls back once)
  outcome,    \* result of the item, before it is stored
  results,    \* results[i]: what the summary will say of item i
  completed,  \* the atomic progress counter
  failures,   \* worker_failures
  exitCode

plan   == <<mode, path, class>>
main   == <<phase, spawning, jobs, spawned, exitCode>>
local  == <<group, rest, job, tries, outcome>>
vars   == <<mode, path, class, file, stop, phase, spawning, jobs, spawned,
            groups, pc, group, rest, job, tries, outcome, results, completed,
            failures, exitCode>>

-----------------------------------------------------------------------------
(* Work groups. *)

\* The next image of a group: groups keep the scan order.
IsFirst(i, S) == i \in S /\ \A j \in S : i <= j

\* build_work_groups / build_large_work_groups: the items of one class that
\* share an output path form one group, converted in scan order.
GroupOf(p, ph) == {i \in Items : path[i] = p /\ class[i] = ph}

WorkOf(ph) == {p \in Paths : GroupOf(p, ph) # {}}

\* max(1, min(file_parallelism, memory_file_parallelism, #groups)).
JobsFor(work) == {n \in Workers : n = 1 \/ n <= Cardinality(work)}

-----------------------------------------------------------------------------
(* Planning leaves the batch in one of these states: suffix modes resolve every
   planned path to a free one that no other input of the batch reserved. *)
Init ==
  /\ mode \in Modes
  /\ path \in [Items -> Paths]
  /\ class \in [Items -> Classes]
  /\ file \in [Paths -> {NoFile, Foreign}]
  /\ mode = "suffix" => /\ \A i, j \in Items : path[i] = path[j] => i = j
                        /\ \A i \in Items : file[path[i]] = NoFile
  /\ stop \in BOOLEAN
  /\ phase = "ordinary"
  /\ groups = WorkOf("ordinary")
  /\ jobs \in JobsFor(groups)
  /\ spawning = TRUE
  /\ spawned = 0
  /\ pc = [w \in Workers |-> "absent"]
  /\ group = [w \in Workers |-> NoPath]
  /\ rest = [w \in Workers |-> {}]
  /\ job = [w \in Workers |-> NoItem]
  /\ tries = [w \in Workers |-> 0]
  /\ outcome = [w \in Workers |-> "failed"]
  /\ results = [i \in Items |-> IF class[i] = "rejected" THEN "failed"
                                                         ELSE "unprocessed"]
  /\ completed = IF stop THEN 0
                 ELSE Cardinality({i \in Items : class[i] = "rejected"})
  /\ failures = 0
  /\ exitCode = Running

-----------------------------------------------------------------------------
(* Environment. *)

\* Ctrl+C, the UI's cancel event or a broken pipe: request_stop on the token.
RequestStop ==
  /\ phase # "done"
  /\ ~stop
  /\ stop' = TRUE
  /\ UNCHANGED <<plan, file, main, groups, pc, local, results, completed, failures>>

\* Another program creates a file where the batch plans to write.
ForeignCreate(p) ==
  /\ phase # "done"
  /\ file[p] = NoFile
  /\ file' = [file EXCEPT ![p] = Foreign]
  /\ UNCHANGED <<plan, stop, main, groups, pc, local, results, completed, failures>>

-----------------------------------------------------------------------------
(* run_batch: start threads, join them, move to the next phase. *)

\* A thread starts; building its own configuration and backend may fail, which
\* ends it before it takes a group.
Spawn ==
  /\ phase \in WorkPhases /\ spawning
  /\ spawned < jobs
  /\ groups # {} \/ spawned > 0
  /\ spawned' = spawned + 1
  /\ \/ pc' = [pc EXCEPT ![spawned + 1] = "take"] /\ UNCHANGED failures
     \/ pc' = [pc EXCEPT ![spawned + 1] = "exit"] /\ failures' = failures + 1
  /\ UNCHANGED <<plan, file, stop, phase, spawning, jobs, exitCode, groups, local,
                 results, completed>>

\* vector::reserve or the jthread constructor throws: no further thread is
\* created and run_batch waits for those already started.
SpawnFails ==
  /\ phase \in WorkPhases /\ spawning
  /\ spawned < jobs
  /\ groups # {} \/ spawned > 0
  /\ spawning' = FALSE
  /\ failures' = failures + 1
  /\ UNCHANGED <<plan, file, stop, phase, jobs, spawned, exitCode, groups, pc,
                 local, results, completed>>

\* The loop over jobs ends, or the phase had no work at all.
AllSpawned ==
  /\ phase \in WorkPhases /\ spawning
  /\ spawned = jobs \/ (spawned = 0 /\ groups = {})
  /\ spawning' = FALSE
  /\ UNCHANGED <<plan, file, stop, phase, jobs, spawned, exitCode, groups, pc,
                 local, results, completed, failures>>

\* The phase after ph.  Deferred and large work is entered only without a stop.
PhaseAfter(ph) ==
  IF stop THEN "summary"
  ELSE IF ph = "ordinary" /\ WorkOf("deferred") # {} THEN "deferred"
  ELSE IF ph # "large" /\ WorkOf("large") # {} THEN "large" ELSE "summary"

\* Mutant: waits for every slot, also those whose thread never started.
JoinedAll(w) == pc[w] = "exit"

\* The thread in this slot has ended or was never started.
Joined(w) == pc[w] \in {"absent", "exit"}

\* workers.clear() has joined every thread of the phase.
Join ==
  /\ phase \in WorkPhases /\ ~spawning
  /\ \A w \in Workers : Joined(w)
  /\ phase' = PhaseAfter(phase)
  /\ IF phase' \in WorkPhases
     THEN /\ groups' = WorkOf(phase')
          /\ jobs' \in JobsFor(groups')
          /\ spawning' = TRUE
          /\ spawned' = 0
          /\ pc' = [w \in Workers |-> "absent"]
     ELSE UNCHANGED <<groups, jobs, spawning, spawned, pc>>
  /\ UNCHANGED <<plan, file, stop, exitCode, local, results, completed, failures>>

\* mark_unstarted_results.
Marked(canceled) ==
  [i \in Items |->
     IF results[i] # "unprocessed" THEN results[i]
     ELSE IF canceled THEN "canceled"
     ELSE IF failures > 0 THEN "notStarted" ELSE "unprocessed"]

\* summary.exit_code; csvFailed is write_csv or the size totals failing.
ExitCodeOf(verdicts, csvFailed) ==
  IF stop THEN 130
  ELSE IF \/ failures > 0 \/ csvFailed
          \/ \E i \in Items : verdicts[i] \notin {"ok", "skipped"}
       THEN 2 ELSE 0

Summarise ==
  /\ phase = "summary"
  /\ phase' = "done"
  /\ results' = Marked(stop)
  /\ \E csvFailed \in BOOLEAN : exitCode' = ExitCodeOf(results', csvFailed)
  /\ UNCHANGED <<plan, file, stop, spawning, jobs, spawned, groups, pc, local,
                 completed, failures>>

-----------------------------------------------------------------------------
(* A worker thread. *)

Leave(w) ==
  /\ pc' = [pc EXCEPT ![w] = "exit"]
  /\ group' = [group EXCEPT ![w] = NoPath]
  /\ rest' = [rest EXCEPT ![w] = {}]
  /\ job' = [job EXCEPT ![w] = NoItem]
  /\ tries' = [tries EXCEPT ![w] = 0]
  /\ outcome' = [outcome EXCEPT ![w] = "failed"]

\* Mutant: the group stays available to the other workers.
Shared(p) == groups

\* next.fetch_add(1): the group is this worker's alone.
Claimed(p) == groups \ {p}

\* while (true): stop or an exhausted counter ends the thread; otherwise
\* the worker takes a group.
TakeGroup(w) ==
  /\ pc[w] = "take"
  /\ IF stop \/ groups = {}
     THEN Leave(w) /\ UNCHANGED groups
     ELSE \E p \in groups :
            /\ groups' = Claimed(p)
            /\ group' = [group EXCEPT ![w] = p]
            /\ rest' = [rest EXCEPT ![w] = GroupOf(p, phase)]
            /\ pc' = [pc EXCEPT ![w] = "item"]
            /\ UNCHANGED <<job, tries, outcome>>
  /\ UNCHANGED <<plan, file, stop, main, results, completed, failures>>

\* for (image : group.files): a stop or the end of the group goes back to the
\* outer loop.  A large item may have zero, one or two usable encode paths.
\* Allocating the item's result or configuration may throw before anything that
\* would catch it: the worker ends and the item stays unprocessed.
NextItem(w) ==
  /\ pc[w] = "item"
  /\ \/ /\ stop \/ rest[w] = {}
        /\ pc' = [pc EXCEPT ![w] = "take"]
        /\ group' = [group EXCEPT ![w] = NoPath]
        /\ rest' = [rest EXCEPT ![w] = {}]
        /\ UNCHANGED <<job, tries, outcome, failures>>
     \/ /\ ~stop
        /\ \E i \in rest[w] :
             /\ IsFirst(i, rest[w])
             /\ job' = [job EXCEPT ![w] = i]
             /\ rest' = [rest EXCEPT ![w] = @ \ {i}]
        /\ \E n \in IF phase = "large" THEN 0..2 ELSE {1} :
             tries' = [tries EXCEPT ![w] = n]
        /\ pc' = [pc EXCEPT ![w] = "encode"]
        /\ UNCHANGED <<group, outcome, failures>>
     \/ /\ ~stop /\ rest[w] # {}
        /\ Leave(w) /\ failures' = failures + 1
  /\ UNCHANGED <<plan, file, stop, main, groups, results, completed>>

\* An encode path returns `out`.  In large mode a plain failure falls back to
\* the second path when one is left; everything else is the item's result.
Return(w, out) ==
  IF out = "failed" /\ tries[w] > 1
  THEN /\ pc' = [pc EXCEPT ![w] = "encode"]
       /\ tries' = [tries EXCEPT ![w] = @ - 1]
       /\ UNCHANGED outcome
  ELSE /\ pc' = [pc EXCEPT ![w] = "record"]
       /\ outcome' = [outcome EXCEPT ![w] = out]
       /\ UNCHANGED tries

\* An exception leaves the encode.  encode_large_mode_item turns it into a
\* failed result; in encode_work_groups it ends the worker, and the rest of its
\* group with it.
Throw(w) ==
  IF phase = "large"
  THEN /\ pc' = [pc EXCEPT ![w] = "record"]
       /\ outcome' = [outcome EXCEPT ![w] = "failed"]
       /\ UNCHANGED <<group, rest, job, tries, failures>>
  ELSE Leave(w) /\ failures' = failures + 1

\* NativeBackend::encode up to the skip check.  It fails early when no encode path
\* is usable or the output path cannot be resolved or looked up.
BeginEncode(w) ==
  /\ pc[w] = "encode"
  /\ \/ /\ stop
        /\ Return(w, "canceled")
     \/ /\ ~stop
        /\ Return(w, "failed")
     \/ /\ ~stop /\ tries[w] > 0
        /\ mode = "skip" /\ file[path[job[w]]] # NoFile
        /\ Return(w, "skipped")
     \/ /\ ~stop /\ tries[w] > 0
        /\ mode = "skip" => file[path[job[w]]] = NoFile
        /\ pc' = [pc EXCEPT ![w] = "convert"]
        /\ UNCHANGED <<tries, outcome>>
  /\ UNCHANGED <<plan, file, stop, main, groups, group, rest, job, results, completed,
                 failures>>

\* Decode, prepare, encode and write the temporary file.  The last stop check is
\* the one of write_output_bytes, after the temporary file is complete.
Convert(w) ==
  /\ pc[w] = "convert"
  /\ \/ /\ ~stop
        /\ pc' = [pc EXCEPT ![w] = "commit"]
        /\ UNCHANGED <<group, rest, job, tries, outcome, failures>>
     \/ \E out \in IF stop THEN {"failed", "canceled"} ELSE {"failed"} :
          Return(w, out) /\ UNCHANGED <<group, rest, job, failures>>
     \/ Throw(w)
  /\ UNCHANGED <<plan, file, stop, main, groups, results, completed>>

\* Mutant: the target is always replaced.
CommitAlways(p) == TRUE

\* commit_temp_output: rename over the target, or link/move that refuses an
\* existing one.
CommitAllowed(p) == mode = "overwrite" \/ file[p] = NoFile

\* Mutant: the error of the commit is ignored.
CommitIgnored == "ok"

\* finalize_result on a failed write.
CommitError == IF stop THEN "canceled" ELSE "failed"

Commit(w) ==
  /\ pc[w] = "commit"
  /\ \/ /\ CommitAllowed(path[job[w]])
        /\ file' = [file EXCEPT ![path[job[w]]] = job[w]]
        /\ pc' = [pc EXCEPT ![w] = "post"]
        /\ UNCHANGED <<tries, outcome>>
     \/ /\ Return(w, CommitError)
        /\ UNCHANGED file
  /\ UNCHANGED <<plan, stop, main, groups, group, rest, job, results, completed,
                 failures>>

\* Mutant: cancellation is checked once more after the commit.
LateCancel == IF stop THEN {"canceled"} ELSE {"ok", "failed"}

\* The result is not affected by a stop any more.
Committed == {"ok", "failed"}

\* After the commit: diagnostics and file times.  An allocation failure inside
\* encode_with_overrides becomes a failed result, one outside it escapes.
AfterCommit(w) ==
  /\ pc[w] = "post"
  /\ \/ \E out \in Committed :
          Return(w, out) /\ UNCHANGED <<group, rest, job, failures>>
     \/ Throw(w)
  /\ UNCHANGED <<plan, file, stop, main, groups, results, completed>>

\* results[index] = result; completed.fetch_add(1).
Record(w) ==
  /\ pc[w] = "record"
  /\ results' = [results EXCEPT ![job[w]] = outcome[w]]
  /\ completed' = completed + 1
  /\ job' = [job EXCEPT ![w] = NoItem]
  /\ tries' = [tries EXCEPT ![w] = 0]
  /\ outcome' = [outcome EXCEPT ![w] = "failed"]
  /\ pc' = [pc EXCEPT ![w] = "item"]
  /\ UNCHANGED <<plan, file, stop, main, groups, group, rest, failures>>

Worker(w) ==
  \/ TakeGroup(w) \/ NextItem(w) \/ BeginEncode(w) \/ Convert(w)
  \/ Commit(w) \/ AfterCommit(w) \/ Record(w)

RunBatch == Spawn \/ SpawnFails \/ AllSpawned \/ Join \/ Summarise

Environment == RequestStop \/ \E p \in Paths : ForeignCreate(p)

Next == RunBatch \/ (\E w \in Workers : Worker(w)) \/ Environment

\* Threads are scheduled by the operating system: one that can run eventually
\* runs.  Nothing is assumed about the user or about other programs.
Spec == /\ Init /\ [][Next]_vars
        /\ WF_vars(RunBatch) /\ \A w \in Workers : WF_vars(Worker(w))

-----------------------------------------------------------------------------
(* Properties. *)

TypeOK ==
  /\ mode \in Modes
  /\ path \in [Items -> Paths]
  /\ class \in [Items -> Classes]
  /\ file \in [Paths -> Owners]
  /\ stop \in BOOLEAN
  /\ phase \in WorkPhases \cup {"summary", "done"}
  /\ spawning \in BOOLEAN
  /\ jobs \in Workers
  /\ spawned \in 0..MaxWorkers
  /\ groups \subseteq Paths
  /\ pc \in [Workers -> Steps]
  /\ group \in [Workers -> Paths \cup {NoPath}]
  /\ rest \in [Workers -> SUBSET Items]
  /\ job \in [Workers -> Items \cup {NoItem}]
  /\ tries \in [Workers -> 0..2]
  /\ outcome \in [Workers -> Outcomes]
  /\ results \in [Items -> Statuses]
  /\ completed \in Nat
  /\ failures \in Nat
  /\ exitCode \in ExitCodes

\* Two workers never convert inputs with the same output path at the same time,
\* whatever the sizes, the classes and the thread failures.
OneWriterPerPath ==
  \A v, w \in Workers :
    v # w /\ job[v] # NoItem /\ job[w] # NoItem => path[job[v]] # path[job[w]]

\* An input reported as converted has an output file the batch wrote; unless the
\* mode is overwrite it is this input's own file, so no other input of the
\* batch, in this phase or a later one, replaced it.
OkMeansDelivered ==
  \A i \in Items : results[i] = "ok" =>
    /\ file[path[i]] \in Items
    /\ path[file[path[i]]] = path[i]
    /\ mode # "overwrite" => file[path[i]] = i

\* Outside overwrite mode a file the batch did not write is never replaced, even
\* one that appears between the skip check and the commit.
ForeignFilesKept ==
  [][\A p \in Paths : mode # "overwrite" /\ file[p] = Foreign
                        => file'[p] = Foreign]_vars

\* Exit code 0 promises that every input has an output on disk and that the
\* progress counter reached the total.
ExitZeroMeansDelivered ==
  exitCode = 0 => /\ \A i \in Items : file[path[i]] # NoFile
                  /\ completed = NumItems

\* Within one phase inputs that share an output path are written in scan order:
\* the file left behind is never an earlier one than a later reported success.
ScanOrderWithinPhase ==
  \A i, j \in Items :
    i < j /\ path[i] = path[j] /\ class[i] = class[j] /\ results[j] = "ok"
      => file[path[j]] # i

\* The scan order is kept for all inputs that share an output path (the comment
\* of build_work_groups), so after a run without failures the last one wins.
\* It does not hold across phases; ScanOrderWithinPhase does.
ScanOrderKept ==
  phase = "done" /\ mode = "overwrite" =>
    \A i, j \in Items :
      i < j /\ path[i] = path[j] /\ results[i] = "ok" /\ results[j] = "ok"
        => file[path[j]] # i

\* A canceled input of the ordinary or deferred phase left no output behind,
\* provided no worker died of an exception.
CanceledLeavesNothing ==
  \A i \in Items :
    results[i] = "canceled" /\ class[i] # "large" /\ failures = 0
      => file[path[i]] # i

\* When the run ends every input has a verdict: nothing is left unprocessed,
\* and without a stop and without worker failures everything was attempted.
EveryItemSettled ==
  phase = "done" =>
    /\ \A i \in Items : results[i] # "unprocessed"
    /\ ~stop /\ failures = 0 => completed = NumItems

\* What the summary says is true at every moment: every input of a finished run
\* has a verdict, exit code 0 means an output for each, a canceled input left
\* none, and a later success is not hidden behind an earlier input of its phase.
ResultsTruthful == /\ EveryItemSettled /\ ExitZeroMeansDelivered
                   /\ CanceledLeavesNothing /\ ScanOrderWithinPhase

\* The batch always ends, whatever fails and whenever it is stopped.
Terminates == <>(phase = "done")
=============================================================================

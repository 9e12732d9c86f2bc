---------------------------- MODULE OutputCommit ----------------------------
(* How an output file reaches its path: write_output_bytes, copy_file_to_output
   and commit_temp_output of src/src/backends/native_backend.ixx; write_csv of
   src/src/core/process.ixx follows the same protocol for summary.csv.

   A writer creates a temporary file with a fresh name beside the target, writes
   and flushes it, checks for a stop, and moves it over the target (or links it,
   when an existing target must be kept).  Writers are threads or processes that
   target the same path.  A process may be killed between any two steps and the
   machine may lose power.

   Abstracted: a file is its writer and the number of chunks written. *)
EXTENDS Integers

CONSTANTS Writers,      \* attempts to publish the path, each made once
          Names,        \* names of temporary files
          NoFile, Foreign, Leftover, NoName,
          Chunks,       \* writes a complete file takes
          MaxAttempts,  \* max_output_temp_path_attempts
          Platforms     \* subset of {"windows", "linux"}

ASSUME CommitAssumption ==
  /\ NoFile \notin Writers /\ Foreign \notin Writers /\ Leftover \notin Writers
  /\ NoFile # Foreign /\ NoFile # Leftover
  /\ NoName \notin Names
  /\ Chunks \in Nat \ {0}
  /\ MaxAttempts \in Nat \ {0}

VARIABLES
  platform,
  replace,   \* replace_existing: collision mode overwrite, or the summary
  stop,      \* stop_token.stop_requested()
  target,    \* whose file the target path shows
  disk,      \* whose file it shows after a power loss
  temp,      \* the temporary files: name -> whose
  leaked,    \* temporary files whose removal failed
  cand,      \* candidate name of each writer
  attempts,  \* names a writer found taken
  written,   \* chunks in each writer's file
  synced,    \* its data was flushed to the disk
  pc,
  outage     \* the power failed at least once

vars == <<platform, replace, stop, target, disk, temp, leaked, cand, attempts,
          written, synced, pc, outage>>
setting == <<platform, replace>>
paths   == <<target, disk>>
temps   == <<temp, leaked>>
bytes   == <<written, synced>>
naming  == <<cand, attempts>>

Steps == {"idle", "name", "write", "ready", "commit", "unlink", "sync",
          "ok", "failed", "canceled", "dead"}
Settled == {"ok", "failed", "canceled", "dead"}
Holding == {"write", "ready", "commit", "unlink"}   \* its temporary file exists

Init ==
  /\ platform \in Platforms
  /\ replace \in BOOLEAN
  /\ stop = FALSE
  /\ target \in {NoFile, Foreign}
  /\ disk = target
  /\ temp \in [Names -> {NoFile, Leftover}]
  /\ leaked = {}
  /\ cand = [w \in Writers |-> NoName]
  /\ attempts = [w \in Writers |-> 0]
  /\ written = [w \in Writers |-> 0]
  /\ synced = [w \in Writers |-> FALSE]
  /\ pc = [w \in Writers |-> "idle"]
  /\ outage = FALSE

Goto(w, step) == pc' = [pc EXCEPT ![w] = step]

-----------------------------------------------------------------------------
(* A writer. *)

\* Stop check, size checks and creation of the directory.
Begin(w) ==
  /\ pc[w] = "idle"
  /\ \/ stop /\ Goto(w, "canceled")
     \/ ~stop /\ Goto(w, "name")
     \/ Goto(w, "failed")
  /\ UNCHANGED <<setting, stop, paths, temps, bytes, naming, outage>>

\* make_output_temp_path: process id and counter, so no two running writers ever
\* hold the same name.
FreshFor(w, n) ==
  \A v \in Writers \ {w} : pc[v] \in Holding \cup {"sync"} => cand[v] # n

\* O_EXCL, CREATE_NEW.
Creatable(n) == temp[n] = NoFile

AttemptsLeft(w) == attempts[w] < MaxAttempts

CreateTemp(w) ==
  /\ pc[w] = "name"
  /\ \/ \E n \in Names :
          /\ AttemptsLeft(w)
          /\ FreshFor(w, n)
          /\ \/ /\ Creatable(n)
                /\ temp' = [temp EXCEPT ![n] = w]
                /\ cand' = [cand EXCEPT ![w] = n]
                /\ Goto(w, "write")
                /\ UNCHANGED attempts
             \/ /\ ~Creatable(n)
                /\ attempts' = [attempts EXCEPT ![w] = @ + 1]
                /\ UNCHANGED <<temp, cand, pc>>
     \/ /\ Goto(w, "failed")    \* no name left, or another error
        /\ UNCHANGED <<temp, naming>>
  /\ UNCHANGED <<setting, stop, paths, leaked, bytes, outage>>

\* Mutant: the temporary file stays behind.
DiscardNothing(w) == UNCHANGED temps

\* ~TempOutputFile: remove the temporary file; a failure is ignored.
Discard(w) ==
  \/ temp' = [temp EXCEPT ![cand[w]] = NoFile] /\ UNCHANGED leaked
  \/ leaked' = leaked \cup {cand[w]} /\ UNCHANGED temp

\* Every early return that follows the creation of the temporary file.
GiveUp(w, verdict) == Goto(w, verdict) /\ Discard(w)

\* copy_file_to_output also checks for a stop between two chunks.
WriteChunk(w) ==
  /\ pc[w] = "write" /\ written[w] < Chunks
  /\ \/ written' = [written EXCEPT ![w] = @ + 1] /\ UNCHANGED <<temps, pc>>
     \/ GiveUp(w, "failed") /\ UNCHANGED written
     \/ stop /\ GiveUp(w, "canceled") /\ UNCHANGED written
  /\ UNCHANGED <<setting, stop, paths, synced, naming, outage>>

\* FlushFileBuffers / fsync.
Flushed == TRUE

Flush(w) ==
  /\ pc[w] = "write" /\ written[w] = Chunks
  /\ \/ /\ synced' = [synced EXCEPT ![w] = Flushed]
        /\ Goto(w, "ready")
        /\ UNCHANGED temps
     \/ GiveUp(w, "failed") /\ UNCHANGED synced
  /\ UNCHANGED <<setting, stop, paths, written, naming, outage>>

\* The last stop check; clear_transient_file_attributes may fail.
CheckStop(w) ==
  /\ pc[w] = "ready"
  /\ \/ stop /\ GiveUp(w, "canceled")
     \/ ~stop /\ Goto(w, "commit") /\ UNCHANGED temps
     \/ ~stop /\ GiveUp(w, "failed")
  /\ UNCHANGED <<setting, stop, paths, bytes, naming, outage>>

\* Mutant: exists() checked earlier, then a replacing move.
MayCommitAlways == TRUE

\* rename and MOVEFILE_REPLACE_EXISTING replace; link and a plain MoveFileEx
\* refuse an existing target.
MayCommit == replace \/ target = NoFile

\* commit_temp_output up to the directory sync.
Commit(w) ==
  /\ pc[w] = "commit"
  /\ \/ /\ MayCommit
        /\ target' = temp[cand[w]]
        /\ disk' = IF platform = "windows" THEN target' ELSE disk  \* WRITE_THROUGH
        /\ IF platform = "linux" /\ ~replace
           THEN Goto(w, "unlink") /\ UNCHANGED temp
           ELSE Goto(w, "sync") /\ temp' = [temp EXCEPT ![cand[w]] = NoFile]
        /\ UNCHANGED leaked
     \/ /\ GiveUp(w, IF stop THEN "canceled" ELSE "failed")
        /\ UNCHANGED paths
  /\ UNCHANGED <<setting, stop, bytes, naming, outage>>

\* The second name of a linked file; a failure is ignored.
Unlink(w) ==
  /\ pc[w] = "unlink"
  /\ Discard(w)
  /\ Goto(w, "sync")
  /\ UNCHANGED <<setting, stop, paths, bytes, naming, outage>>

\* fsync of the directory, errors ignored; then temp.release() and success.
SyncDirectory(w) ==
  /\ pc[w] = "sync"
  /\ disk' \in IF platform = "linux" THEN {disk, target} ELSE {disk}
  /\ Goto(w, "ok")
  /\ UNCHANGED <<setting, stop, target, temps, bytes, naming, outage>>

-----------------------------------------------------------------------------
(* Environment. *)

RequestStop ==
  /\ ~stop /\ stop' = TRUE
  /\ UNCHANGED <<setting, paths, temps, bytes, naming, pc, outage>>

\* The file system writes the directory back in its own time.
WriteBack ==
  /\ disk # target /\ disk' = target
  /\ UNCHANGED <<setting, stop, target, temps, bytes, naming, pc, outage>>

ForeignCreate ==
  /\ target = NoFile /\ target' = Foreign
  /\ UNCHANGED <<setting, stop, disk, temps, bytes, naming, pc, outage>>

\* The process is terminated; the kernel keeps what it already did.
Kill(w) ==
  /\ pc[w] \notin Settled \cup {"idle"}
  /\ Goto(w, "dead")
  /\ UNCHANGED <<setting, stop, paths, temps, bytes, naming, outage>>

\* Every running writer dies, unflushed data is lost in part, the target shows
\* what the disk has, temporary files may be there or not.
PowerLoss ==
  /\ outage' = TRUE
  /\ target' = disk
  /\ written' \in [Writers -> 0..Chunks]
  /\ \A w \in Writers : IF synced[w] THEN written'[w] = written[w]
                                     ELSE written'[w] <= written[w]
  /\ temp' \in [Names -> {NoFile, Leftover}]
  /\ \A n \in Names : temp[n] = Leftover => temp'[n] = Leftover
  /\ pc' = [w \in Writers |-> IF pc[w] \in Settled \cup {"idle"} THEN pc[w] ELSE "dead"]
  /\ UNCHANGED <<setting, stop, disk, leaked, synced, naming>>

Writer(w) ==
  \/ Begin(w) \/ CreateTemp(w) \/ WriteChunk(w) \/ Flush(w) \/ CheckStop(w)
  \/ Commit(w) \/ Unlink(w) \/ SyncDirectory(w)

Next ==
  \/ \E w \in Writers : Writer(w) \/ Kill(w)
  \/ RequestStop \/ WriteBack \/ ForeignCreate \/ PowerLoss

Spec == Init /\ [][Next]_vars

-----------------------------------------------------------------------------
(* Properties. *)

TypeOK ==
  /\ platform \in Platforms
  /\ replace \in BOOLEAN
  /\ stop \in BOOLEAN
  /\ target \in Writers \cup {NoFile, Foreign}
  /\ disk \in Writers \cup {NoFile, Foreign}
  /\ temp \in [Names -> Writers \cup {NoFile, Leftover}]
  /\ leaked \subseteq Names
  /\ cand \in [Writers -> Names \cup {NoName}]
  /\ attempts \in [Writers -> 0..MaxAttempts]
  /\ written \in [Writers -> 0..Chunks]
  /\ synced \in [Writers -> BOOLEAN]
  /\ pc \in [Writers -> Steps]
  /\ outage \in BOOLEAN

\* The path never shows a partial file, not even after a power loss.
TargetWhole == target \in Writers => written[target] = Chunks

\* Two writers that must not replace an existing file never both report success,
\* however their existence checks and commits interleave.
OneWinner ==
  ~replace /\ ~outage =>
    \A v, w \in Writers : pc[v] = "ok" /\ pc[w] = "ok" => v = w

\* When every writer has returned, no temporary file is left except those whose
\* removal the system refused.
NoTempLeft ==
  (\A w \in Writers : pc[w] \in {"ok", "failed", "canceled"}) =>
    \A n \in Names : temp[n] \in Writers => n \in leaked

\* A file left by an earlier process under a temporary name is never truncated,
\* published or removed by a writer that runs into it.
LeftoversKept ==
  [][\A n \in Names : temp[n] = Leftover => temp'[n] = Leftover]_vars

\* The writers clean up after themselves and only after themselves: their own
\* temporary files go, those of earlier processes stay as they are.
TempsTidy == [](TypeOK /\ NoTempLeft) /\ LeftoversKept

\* The protocol implements the atomic publication of complete files.
Shown(who) == IF who \in Writers /\ written[who] < Chunks THEN "torn" ELSE who

VerdictOf(w) ==
  CASE pc[w] \in {"unlink", "sync", "ok"} -> "published"
    [] pc[w] \in {"failed", "canceled"}   -> "refused"
    [] pc[w] = "dead"                     -> "killed"
    [] OTHER                              -> "pending"

Publication == INSTANCE AtomicPublish
  WITH content <- Shown(target), durable <- Shown(disk),
       verdict <- [w \in Writers |-> VerdictOf(w)]

PublishesAtomically == Publication!Spec
=============================================================================

------------------------- MODULE BatchPipelineProofs -------------------------
(* Safety of the batch engine for any number of inputs, workers and paths. *)
EXTENDS BatchPipeline, FiniteSetTheorems, TLAPS

\* A worker at one of these steps is converting an item.
Converting == {"encode", "convert", "commit", "post", "record"}

\* Where a worker stands determines what it holds, and the slots of threads not
\* yet started hold nothing.
Control ==
  /\ \A w \in Workers : pc[w] \in {"absent", "take", "exit"} => group[w] = NoPath
  /\ \A w \in Workers : pc[w] \in Converting <=> job[w] # NoItem
  /\ \A w \in Workers : spawning /\ w > spawned => pc[w] = "absent"
  /\ spawned <= jobs

\* A group is in the hands of at most one worker, which only converts items of
\* that group: the reason why no two workers write the same path.
Ownership ==
  /\ \A w \in Workers : group[w] \notin groups
  /\ \A v, w \in Workers : v # w /\ group[v] # NoPath => group[v] # group[w]
  /\ \A w \in Workers : \A i \in rest[w] : path[i] = group[w]
  /\ \A w \in Workers : job[w] # NoItem => path[job[w]] = group[w]

Inv == TypeOK /\ Control /\ Ownership

LEMMA CompletedStart ==
  Cardinality({i \in Items : class[i] = "rejected"}) \in Nat
<1>1. IsFiniteSet(Items)
  BY BatchAssumption, FS_Interval DEF Items
<1>2. IsFiniteSet({i \in Items : class[i] = "rejected"})
  BY <1>1, FS_Subset
<1> QED
  BY <1>2, FS_CardinalityType

LEMMA InitInv == Init => Inv
<1> SUFFICES ASSUME Init PROVE Inv
  OBVIOUS
<1> USE BatchAssumption DEF Init, Items, Workers
<1>1. TypeOK
  BY CompletedStart DEF TypeOK, Owners, NoFile, Foreign, NoItem, Classes, WorkPhases,
     Steps, Outcomes, Statuses, ExitCodes, Running, WorkOf, JobsFor
<1>2. Control
  BY <1>1 DEF TypeOK, Control, Converting, NoItem
<1>3. Ownership
  BY DEF Ownership, WorkOf, NoItem
<1> QED
  BY <1>1, <1>2, <1>3 DEF Inv

LEMMA EnvironmentInv == Inv /\ Environment => Inv'
<1> SUFFICES ASSUME Inv, Environment PROVE Inv'
  OBVIOUS
<1>1. CASE RequestStop
  BY <1>1 DEF Inv, RequestStop, plan, main, local, TypeOK, Control, Ownership
<1>2. ASSUME NEW p \in Paths, ForeignCreate(p) PROVE Inv'
  BY <1>2 DEF Inv, ForeignCreate, plan, main, local, TypeOK, Control, Ownership, Owners
<1> QED
  BY <1>1, <1>2 DEF Environment

LEMMA RunBatchInv == Inv /\ RunBatch => Inv'
<1> SUFFICES ASSUME Inv, RunBatch PROVE Inv'
  OBVIOUS
<1> USE BatchAssumption DEF Inv, plan, main, local, Workers
<1>1. CASE Spawn
  <2>0. failures' \in Nat
    BY <1>1 DEF Spawn, TypeOK
  <2>1. TypeOK'
    BY <1>1, <2>0 DEF Spawn, TypeOK, Steps
  <2>2. Control'
    BY <1>1 DEF Spawn, TypeOK, Control, Converting
  <2>3. Ownership'
    BY <1>1 DEF Spawn, TypeOK, Ownership
  <2> QED
    BY <2>1, <2>2, <2>3
<1>2. CASE SpawnFails
  <2>1. failures' \in Nat
    BY <1>2 DEF SpawnFails, TypeOK
  <2>2. TypeOK'
    BY <1>2, <2>1 DEF SpawnFails, TypeOK
  <2>3. Control' /\ Ownership'
    BY <1>2 DEF SpawnFails, TypeOK, Control, Ownership
  <2> QED
    BY <2>2, <2>3
<1>3. CASE AllSpawned
  BY <1>3 DEF AllSpawned, TypeOK, Control, Ownership
<1>4. CASE Join
  <2>1. \A w \in Workers : group[w] = NoPath /\ job[w] = NoItem
    BY <1>4 DEF Join, Joined, TypeOK, Control, Converting
  <2>2. CASE phase' \in WorkPhases
    <3>1. TypeOK'
      BY <1>4, <2>2 DEF Join, TypeOK, WorkOf, JobsFor, Steps
    <3>2. Control'
      BY <1>4, <2>1, <2>2 DEF Join, TypeOK, Control, Converting, JobsFor
    <3>3. Ownership'
      BY <1>4, <2>1, <2>2 DEF Join, TypeOK, Ownership, WorkOf
    <3> QED
      BY <3>1, <3>2, <3>3
  <2>3. CASE phase' \notin WorkPhases
    <3>1. phase' = "summary"
      BY <1>4, <2>3 DEF Join, PhaseAfter, WorkPhases
    <3> QED
      BY <1>4, <2>3, <3>1 DEF Join, TypeOK, Control, Ownership
  <2> QED
    BY <2>2, <2>3
<1>5. CASE Summarise
  <2>1. results' \in [Items -> Statuses]
    BY <1>5 DEF Summarise, Marked, TypeOK, Statuses, Outcomes
  <2>2. exitCode' \in ExitCodes
    BY <1>5 DEF Summarise, ExitCodeOf, ExitCodes
  <2>3. TypeOK'
    BY <1>5, <2>1, <2>2 DEF Summarise, TypeOK
  <2>4. Control' /\ Ownership'
    BY <1>5 DEF Summarise, TypeOK, Control, Ownership
  <2> QED
    BY <2>3, <2>4
<1> QED
  BY <1>1, <1>2, <1>3, <1>4, <1>5 DEF RunBatch

\* A worker that is converting an item stays inside its own group.
LEMMA LeaveInv ==
  ASSUME Inv, NEW w \in Workers, pc[w] # "absent", Leave(w), groups' = groups,
         failures' \in Nat,
         UNCHANGED <<plan, file, stop, main, results, completed>>
  PROVE  Inv'
<1> USE BatchAssumption DEF Inv, plan, main, local, Leave
<1>1. TypeOK'
  BY DEF TypeOK, Steps, NoItem, Outcomes
<1>2. Control'
  BY DEF TypeOK, Control, Converting
<1>3. Ownership'
  BY DEF TypeOK, Ownership, NoItem
<1> QED
  BY <1>1, <1>2, <1>3

\* Returning a result keeps the worker on its item.
LEMMA KeepInv ==
  ASSUME Inv, NEW w \in Workers, pc[w] \in Converting,
         NEW s \in Converting, pc' = [pc EXCEPT ![w] = s],
         tries' \in [Workers -> 0..2], outcome' \in [Workers -> Outcomes],
         file' \in [Paths -> Owners], failures' \in Nat,
         UNCHANGED <<plan, stop, main, groups, group, rest, job, results, completed>>
  PROVE  Inv'
<1> USE BatchAssumption DEF Inv, plan, main, local
<1>1. TypeOK'
  BY DEF TypeOK, Steps, Converting
<1>2. Control'
  BY DEF TypeOK, Control, Converting
<1>3. Ownership'
  BY DEF TypeOK, Ownership
<1> QED
  BY <1>1, <1>2, <1>3

LEMMA ReturnKeeps ==
  ASSUME TypeOK, NEW w \in Workers, NEW out \in Outcomes, Return(w, out)
  PROVE  /\ \E s \in Converting : pc' = [pc EXCEPT ![w] = s]
         /\ tries' \in [Workers -> 0..2]
         /\ outcome' \in [Workers -> Outcomes]
BY DEF TypeOK, Return, Converting

LEMMA ThrowInv ==
  ASSUME Inv, NEW w \in Workers, pc[w] \in Converting, Throw(w),
         UNCHANGED <<plan, file, stop, main, groups, results, completed>>
  PROVE  Inv'
<1>1. CASE phase = "large"
  <2>1. /\ outcome' \in [Workers -> Outcomes] /\ tries' \in [Workers -> 0..2]
        /\ file' \in [Paths -> Owners] /\ failures' \in Nat
    BY <1>1 DEF Inv, Throw, TypeOK, Outcomes
  <2> QED
    BY <1>1, <2>1, KeepInv DEF Throw, Converting
<1>2. CASE phase # "large"
  BY <1>2, LeaveInv DEF Throw, Inv, TypeOK, Converting
<1> QED
  BY <1>1, <1>2

LEMMA WorkerInv == ASSUME Inv, NEW w \in Workers, Worker(w) PROVE Inv'
<1> USE BatchAssumption DEF Inv
<1>1. CASE TakeGroup(w)
  <2>1. CASE stop \/ groups = {}
    BY <1>1, <2>1, LeaveInv DEF TakeGroup, TypeOK
  <2>2. CASE ~(stop \/ groups = {})
    <3> PICK p \in groups :
          /\ groups' = groups \ {p}
          /\ group' = [group EXCEPT ![w] = p]
          /\ rest' = [rest EXCEPT ![w] = GroupOf(p, phase)]
          /\ pc' = [pc EXCEPT ![w] = "item"]
          /\ UNCHANGED <<job, tries, outcome>>
      BY <1>1, <2>2 DEF TakeGroup, Claimed
    <3>0. UNCHANGED <<plan, file, stop, main, results, completed, failures>> /\ pc[w] = "take"
      BY <1>1 DEF TakeGroup
    <3>1. TypeOK'
      BY <3>0 DEF TypeOK, plan, main, Steps, GroupOf
    <3>2. Control'
      BY <3>0 DEF TypeOK, Control, Converting, plan, main
    <3>3. Ownership'
      BY <3>0 DEF TypeOK, Control, Ownership, GroupOf, Converting, plan
    <3> QED
      BY <3>1, <3>2, <3>3
  <2> QED
    BY <2>1, <2>2
<1>2. CASE NextItem(w)
  <2>0. /\ UNCHANGED <<plan, file, stop, main, groups, results, completed>>
        /\ pc[w] = "item"
    BY <1>2 DEF NextItem
  <2>1. ASSUME pc' = [pc EXCEPT ![w] = "take"], group' = [group EXCEPT ![w] = NoPath],
               rest' = [rest EXCEPT ![w] = {}], UNCHANGED <<job, tries, outcome, failures>>
        PROVE  Inv'
    <3>1. TypeOK'
      BY <2>0, <2>1 DEF TypeOK, plan, main, Steps
    <3>2. Control'
      BY <2>0, <2>1 DEF TypeOK, Control, Converting, plan, main
    <3>3. Ownership'
      BY <2>0, <2>1 DEF TypeOK, Control, Ownership, Converting, plan
    <3> QED
      BY <3>1, <3>2, <3>3
  <2>2. ASSUME NEW i \in rest[w], job' = [job EXCEPT ![w] = i],
               rest' = [rest EXCEPT ![w] = @ \ {i}], tries' \in [Workers -> 0..2],
               pc' = [pc EXCEPT ![w] = "encode"], UNCHANGED <<group, outcome, failures>>
        PROVE  Inv'
    <3>1. TypeOK'
      BY <2>0, <2>2 DEF TypeOK, plan, main, Steps
    <3>2. Control'
      BY <2>0, <2>2 DEF TypeOK, Control, Converting, Items, NoItem, plan, main
    <3>3. Ownership'
      BY <2>0, <2>2 DEF TypeOK, Control, Ownership, plan
    <3> QED
      BY <3>1, <3>2, <3>3
  <2>3. ASSUME Leave(w), failures' = failures + 1 PROVE Inv'
    BY <2>0, <2>3, LeaveInv DEF TypeOK
  <2>4. \A n : n \in (IF phase = "large" THEN 0..2 ELSE {1})
            => [tries EXCEPT ![w] = n] \in [Workers -> 0..2]
    BY DEF TypeOK
  <2> QED
    BY <1>2, <2>1, <2>2, <2>3, <2>4 DEF NextItem
<1>3. CASE BeginEncode(w)
  <2>1. \E s \in Converting : pc' = [pc EXCEPT ![w] = s]
    BY <1>3, ReturnKeeps DEF BeginEncode, Outcomes, Converting
  <2>2. tries' \in [Workers -> 0..2] /\ outcome' \in [Workers -> Outcomes]
    BY <1>3, ReturnKeeps DEF BeginEncode, Outcomes, TypeOK
  <2> QED
    BY <1>3, <2>1, <2>2, KeepInv DEF BeginEncode, TypeOK, Converting
<1>4. CASE Convert(w)
  <2>1. CASE Throw(w)
    BY <1>4, <2>1, ThrowInv DEF Convert, Converting
  <2>2. CASE ~Throw(w)
    <3>1. \E s \in Converting : pc' = [pc EXCEPT ![w] = s]
      BY <1>4, <2>2, ReturnKeeps DEF Convert, Outcomes, Converting
    <3>2. /\ tries' \in [Workers -> 0..2] /\ outcome' \in [Workers -> Outcomes]
          /\ UNCHANGED <<group, rest, job, failures>>
      BY <1>4, <2>2, ReturnKeeps DEF Convert, Outcomes, TypeOK
    <3> QED
      BY <1>4, <3>1, <3>2, KeepInv DEF Convert, TypeOK, Converting
  <2> QED
    BY <2>1, <2>2
<1>5. CASE Commit(w)
  <2>1. job[w] \in Items
    BY <1>5 DEF Commit, TypeOK, Control, Converting
  <2>2. file' \in [Paths -> Owners]
    BY <1>5, <2>1 DEF Commit, TypeOK, Owners
  <2>3. \E s \in Converting : pc' = [pc EXCEPT ![w] = s]
    BY <1>5, ReturnKeeps DEF Commit, CommitError, Outcomes, Converting
  <2>4. tries' \in [Workers -> 0..2] /\ outcome' \in [Workers -> Outcomes]
    BY <1>5, ReturnKeeps DEF Commit, CommitError, Outcomes, TypeOK
  <2> QED
    BY <1>5, <2>2, <2>3, <2>4, KeepInv DEF Commit, TypeOK, Converting
<1>6. CASE AfterCommit(w)
  <2>1. CASE Throw(w)
    BY <1>6, <2>1, ThrowInv DEF AfterCommit, Converting
  <2>2. CASE ~Throw(w)
    <3>1. \E s \in Converting : pc' = [pc EXCEPT ![w] = s]
      BY <1>6, <2>2, ReturnKeeps DEF AfterCommit, Committed, Outcomes
    <3>2. /\ tries' \in [Workers -> 0..2] /\ outcome' \in [Workers -> Outcomes]
          /\ UNCHANGED <<group, rest, job, failures>>
      BY <1>6, <2>2, ReturnKeeps DEF AfterCommit, Committed, Outcomes
    <3> QED
      BY <1>6, <3>1, <3>2, KeepInv DEF AfterCommit, TypeOK, Converting
  <2> QED
    BY <2>1, <2>2
<1>7. CASE Record(w)
  <2>1. job[w] \in Items
    BY <1>7 DEF Record, TypeOK, Control, Converting
  <2>2. TypeOK'
    BY <1>7, <2>1 DEF Record, TypeOK, plan, main, Steps, Statuses, Outcomes, NoItem
  <2>3. Control'
    BY <1>7 DEF Record, TypeOK, Control, Converting, plan, main
  <2>4. Ownership'
    BY <1>7 DEF Record, TypeOK, Ownership, plan
  <2> QED
    BY <2>2, <2>3, <2>4
<1> QED
  BY <1>1, <1>2, <1>3, <1>4, <1>5, <1>6, <1>7 DEF Worker


LEMMA NextInv == Inv /\ [Next]_vars => Inv'
<1> SUFFICES ASSUME Inv, [Next]_vars PROVE Inv'
  OBVIOUS
<1> USE BatchAssumption DEF Inv
<1>1. ASSUME UNCHANGED vars PROVE Inv'
  BY <1>1 DEF vars, TypeOK, Control, Ownership
<1>2. ASSUME RunBatch PROVE Inv'
  BY <1>2, RunBatchInv
<1>3. ASSUME NEW w \in Workers, Worker(w) PROVE Inv'
  BY <1>3, WorkerInv
<1>4. ASSUME Environment PROVE Inv'
  BY <1>4, EnvironmentInv
<1> QED
  BY <1>1, <1>2, <1>3, <1>4 DEF Next

\* The inductive invariant of the batch engine: control, group ownership, types.
THEOREM InvHolds == Spec => []Inv
<1> QED
  BY InitInv, NextInv, PTL DEF Spec

\* The variables of the batch engine keep their types.
THEOREM TypeCorrect == Spec => []TypeOK
<1>1. Inv => TypeOK
  BY DEF Inv
<1> QED
  BY <1>1, InvHolds, PTL

\* No two workers convert inputs with the same output path at the same time.
THEOREM OneWriter == Spec => []OneWriterPerPath
<1>1. Inv => OneWriterPerPath
  BY BatchAssumption DEF Inv, TypeOK, Ownership, OneWriterPerPath
<1> QED
  BY <1>1, InvHolds, PTL

-----------------------------------------------------------------------------
(* Delivery: a success in the summary is backed by the file on disk. *)

Delivered(i) ==
  /\ file[path[i]] \in Items
  /\ path[file[path[i]]] = path[i]
  /\ mode # "overwrite" => file[path[i]] = i

\* Strengthening of OkMeansDelivered to items that are committed but whose
\* result is not stored yet.
DeliveryInv ==
  /\ \A i \in Items : results[i] = "ok" => Delivered(i)
  /\ \A w \in Workers :
       pc[w] = "post" \/ (pc[w] = "record" /\ outcome[w] = "ok") => Delivered(job[w])

\* A commit never takes away what another item delivered: it replaces a file
\* only in overwrite mode, and then by one of the same path.
LEMMA CommitKeepsDelivered ==
  ASSUME Inv, NEW w \in Workers, Commit(w)
  PROVE  /\ \A i \in Items : Delivered(i) => Delivered(i)'
         /\ pc'[w] = "post" => Delivered(job[w])'
<1> USE DEF Inv, plan, local
<1>1. job[w] \in Items
  BY DEF Commit, TypeOK, Control, Converting
<1>2. CASE UNCHANGED file
  BY <1>1, <1>2 DEF Commit, Return, TypeOK, Delivered, CommitAllowed
<1>3. CASE /\ CommitAllowed(path[job[w]])
           /\ file' = [file EXCEPT ![path[job[w]]] = job[w]]
           /\ pc' = [pc EXCEPT ![w] = "post"]
  <2>1. UNCHANGED <<mode, path, job>>
    BY DEF Commit
  <2>2. ASSUME NEW i \in Items, Delivered(i) PROVE Delivered(i)'
    BY <1>1, <1>3, <2>1, <2>2 DEF TypeOK, Delivered, CommitAllowed, NoFile, Items
  <2>3. Delivered(job[w])'
    BY <1>1, <1>3, <2>1 DEF TypeOK, Delivered, Items
  <2> QED
    BY <2>2, <2>3
<1> QED
  BY <1>2, <1>3 DEF Commit

LEMMA DeliveryNext == Inv /\ DeliveryInv /\ [Next]_vars => DeliveryInv'
<1> SUFFICES ASSUME Inv, DeliveryInv, [Next]_vars PROVE DeliveryInv'
  OBVIOUS
<1> USE DEF Inv, plan, main, local
<1>1. CASE UNCHANGED vars
  BY <1>1 DEF vars, DeliveryInv, Delivered
<1>2. CASE RunBatch
  <2>1. UNCHANGED <<file, path, mode, outcome, job>>
    BY <1>2 DEF RunBatch, Spawn, SpawnFails, AllSpawned, Join, Summarise
  <2>2. \A i \in Items : results'[i] = "ok" => results[i] = "ok"
    BY <1>2 DEF RunBatch, Spawn, SpawnFails, AllSpawned, Join, Summarise, Marked
  <2>3. \A v \in Workers : pc'[v] \in {"post", "record"} => pc[v] = pc'[v]
    BY <1>2 DEF RunBatch, Spawn, SpawnFails, AllSpawned, Join, Summarise, TypeOK
  <2> QED
    BY <2>1, <2>2, <2>3 DEF DeliveryInv, Delivered
<1>3. ASSUME NEW w \in Workers, Commit(w) PROVE DeliveryInv'
  <2>1. /\ UNCHANGED <<results, job>>
        /\ \A v \in Workers \ {w} : pc'[v] = pc[v] /\ outcome'[v] = outcome[v]
        /\ \/ pc'[w] \in {"post", "encode"}
           \/ pc'[w] = "record" /\ outcome'[w] # "ok"
    BY <1>3 DEF Commit, Return, CommitError, TypeOK
  <2>2. \A v \in Workers : pc[v] \in {"post", "record"} => job[v] \in Items
    BY DEF TypeOK, Control, Converting
  <2> QED
    BY <1>3, <2>1, <2>2, CommitKeepsDelivered DEF DeliveryInv
<1>4. ASSUME NEW w \in Workers, AfterCommit(w) PROVE DeliveryInv'
  <2>1. /\ UNCHANGED <<file, path, mode, results>>
        /\ \A v \in Workers \ {w} :
             pc'[v] = pc[v] /\ outcome'[v] = outcome[v] /\ job'[v] = job[v]
        /\ pc'[w] = "record" => job'[w] = job[w]
        /\ pc'[w] # "post" /\ pc[w] = "post"
    BY <1>4 DEF AfterCommit, Return, Throw, Leave, TypeOK
  <2>2. Delivered(job[w])
    BY <2>1 DEF DeliveryInv
  <2>3. ASSUME NEW v \in Workers,
               pc'[v] = "post" \/ (pc'[v] = "record" /\ outcome'[v] = "ok")
        PROVE  Delivered(job[v]) /\ job'[v] = job[v]
    BY <2>1, <2>2, <2>3 DEF DeliveryInv
  <2> QED
    BY <2>1, <2>3 DEF DeliveryInv, Delivered
<1>5. ASSUME NEW w \in Workers, Record(w) PROVE DeliveryInv'
  <2>1. /\ UNCHANGED <<file, path, mode>>
        /\ results' = [results EXCEPT ![job[w]] = outcome[w]]
        /\ \A v \in Workers \ {w} :
             pc'[v] = pc[v] /\ outcome'[v] = outcome[v] /\ job'[v] = job[v]
        /\ pc'[w] = "item" /\ pc[w] = "record"
    BY <1>5 DEF Record, TypeOK
  <2> QED
    BY <2>1 DEF DeliveryInv, Delivered, TypeOK
<1>6. ASSUME NEW w \in Workers,
             TakeGroup(w) \/ NextItem(w) \/ BeginEncode(w) \/ Convert(w)
      PROVE  DeliveryInv'
  <2>1. UNCHANGED <<file, path, mode, results>>
    BY <1>6 DEF TakeGroup, NextItem, BeginEncode, Convert
  <2>2. \A v \in Workers \ {w} :
          pc'[v] = pc[v] /\ outcome'[v] = outcome[v] /\ job'[v] = job[v]
    BY <1>6 DEF TakeGroup, NextItem, BeginEncode, Convert, Return, Throw, Leave, TypeOK
  <2>3. pc'[w] # "post" /\ (pc'[w] = "record" => outcome'[w] # "ok")
    BY <1>6 DEF TakeGroup, NextItem, BeginEncode, Convert, Return, Throw, Leave, TypeOK
  <2> QED
    BY <2>1, <2>2, <2>3 DEF DeliveryInv, Delivered
<1>7. CASE RequestStop
  BY <1>7 DEF RequestStop, DeliveryInv, Delivered
<1>8. ASSUME NEW p \in Paths, ForeignCreate(p) PROVE DeliveryInv'
  <2>1. /\ file' = [file EXCEPT ![p] = Foreign] /\ file[p] = NoFile
        /\ UNCHANGED <<path, mode, results, pc, outcome, job>>
    BY <1>8 DEF ForeignCreate
  <2>2. ASSUME NEW i \in Items, Delivered(i) PROVE Delivered(i)'
    BY <2>1, <2>2 DEF Delivered, TypeOK, NoFile, Items
  <2>3. \A v \in Workers : pc[v] \in {"post", "record"} => job[v] \in Items
    BY DEF TypeOK, Control, Converting
  <2> QED
    BY <2>1, <2>2, <2>3 DEF DeliveryInv
<1> QED
  BY <1>1, <1>2, <1>3, <1>4, <1>5, <1>6, <1>7, <1>8 DEF Next, Worker, Environment

\* A result "ok" is backed by the item's own file, or in overwrite mode by the
\* file of an input with the same output path, however the threads interleave.
THEOREM Delivery == Spec => []OkMeansDelivered
<1>1. Init => DeliveryInv
  BY DEF Init, DeliveryInv
<1>2. DeliveryInv => OkMeansDelivered
  BY DEF DeliveryInv, OkMeansDelivered, Delivered
<1> QED
  BY <1>1, <1>2, InvHolds, DeliveryNext, PTL DEF Spec

\* Outside overwrite mode no step replaces a file the batch did not write.
THEOREM ForeignFilesSafe == Spec => ForeignFilesKept
<1>1. ASSUME Inv, [Next]_vars
      PROVE  [\A p \in Paths : mode # "overwrite" /\ file[p] = Foreign
                                 => file'[p] = Foreign]_vars
  <2> SUFFICES ASSUME NEW p \in Paths, mode # "overwrite", file[p] = Foreign,
                      ~UNCHANGED vars
               PROVE  file'[p] = Foreign
    OBVIOUS
  <2> USE DEF plan, main, local
  <2>1. CASE RunBatch
    BY <2>1 DEF RunBatch, Spawn, SpawnFails, AllSpawned, Join, Summarise
  <2>2. ASSUME NEW w \in Workers, Commit(w) PROVE file'[p] = Foreign
    BY <1>1, <2>2 DEF Commit, CommitAllowed, Inv, TypeOK, NoFile, Foreign
  <2>3. ASSUME NEW w \in Workers, Worker(w), ~Commit(w) PROVE file'[p] = Foreign
    BY <2>3 DEF Worker, TakeGroup, NextItem, BeginEncode, Convert, AfterCommit, Record
  <2>4. CASE Environment
    BY <1>1, <2>4 DEF Environment, RequestStop, ForeignCreate, Inv, TypeOK
  <2> QED
    BY <1>1, <2>1, <2>2, <2>3, <2>4 DEF Next
<1> QED
  BY <1>1, InvHolds, PTL DEF Spec, ForeignFilesKept

-----------------------------------------------------------------------------
(* Truthful results: which items are settled, which file they left and what the
   exit code may say.  A worker's step has one of six shapes; the scheduling part
   of the invariant only depends on them. *)

\* The phases run_batch may still enter after ph.
Later(ph) == IF ph = "ordinary" THEN {"deferred", "large"}
             ELSE IF ph = "deferred" THEN {"large"} ELSE {}

\* Threads outside a group hold nothing, a second encode path exists only in the
\* large phase, and the batch sums up only after every thread was joined.
Idle ==
  /\ \A w \in Workers : pc[w] \in {"absent", "take", "exit"} => rest[w] = {}
  /\ \A w \in Workers : tries[w] > 1 => phase = "large" /\ job[w] # NoItem
  /\ phase \notin WorkPhases => \A w \in Workers : Joined(w)

\* Items of later phases, of groups nobody took and in a worker's hands have no
\* result yet.
Fresh ==
  /\ \A i \in Items : class[i] \in Later(phase) => results[i] = "unprocessed"
  /\ \A i \in Items : path[i] \in groups /\ class[i] = phase
                        => results[i] = "unprocessed"
  /\ \A w \in Workers : \A i \in rest[w] :
       class[i] = phase /\ results[i] = "unprocessed"
  /\ \A w \in Workers : job[w] # NoItem =>
       class[job[w]] = phase /\ results[job[w]] = "unprocessed"

\* A worker goes through its group in scan order: what it has recorded comes before
\* the item it converts, and that one before what is left.
Ordered ==
  /\ \A w \in Workers : job[w] # NoItem => \A i \in rest[w] : job[w] < i
  /\ \A w \in Workers, j \in Items :
       results[j] # "unprocessed" /\ class[j] = phase /\ path[j] = group[w]
         => /\ \A i \in rest[w] : j < i
            /\ job[w] # NoItem => j < job[w]

Schedule == Idle /\ Fresh /\ Ordered

\* What every step of a worker leaves alone.
Steady == UNCHANGED <<mode, path, class, stop, phase, spawning, jobs, spawned, exitCode>>

\* The thread ends: without failing only when nothing is left or a stop came.
Ends(w) ==
  /\ Leave(w) /\ pc[w] # "absent"
  /\ \/ failures' = failures + 1
     \/ failures' = failures /\ pc[w] = "take" /\ (stop \/ groups = {})
  /\ UNCHANGED <<file, groups, results, completed>>

Takes(w) ==
  /\ pc[w] = "take"
  /\ \E p \in groups : /\ groups' = groups \ {p}
                       /\ group' = [group EXCEPT ![w] = p]
                       /\ rest' = [rest EXCEPT ![w] = GroupOf(p, phase)]
  /\ pc' = [pc EXCEPT ![w] = "item"]
  /\ UNCHANGED <<file, job, tries, outcome, results, completed, failures>>

Drops(w) ==
  /\ pc[w] = "item" /\ (stop \/ rest[w] = {})
  /\ pc' = [pc EXCEPT ![w] = "take"]
  /\ group' = [group EXCEPT ![w] = NoPath]
  /\ rest' = [rest EXCEPT ![w] = {}]
  /\ UNCHANGED <<file, groups, job, tries, outcome, results, completed, failures>>

Picks(w) ==
  /\ pc[w] = "item"
  /\ \E i \in rest[w] : /\ IsFirst(i, rest[w])
                        /\ job' = [job EXCEPT ![w] = i]
                        /\ rest' = [rest EXCEPT ![w] = @ \ {i}]
  /\ \E n \in 0..2 : /\ tries' = [tries EXCEPT ![w] = n]
                     /\ n > 1 => phase = "large"
  /\ pc' = [pc EXCEPT ![w] = "encode"]
  /\ UNCHANGED <<file, groups, group, outcome, results, completed, failures>>

\* The worker goes on with its item, perhaps on the second encode path.
Stays(w) ==
  /\ pc[w] \in Converting
  /\ \E s \in Converting : pc' = [pc EXCEPT ![w] = s]
  /\ \E n \in 0..2 : n <= tries[w] /\ tries' = [tries EXCEPT ![w] = n]
  /\ UNCHANGED <<groups, group, rest, job, results, completed, failures>>

LEMMA ReturnStays ==
  ASSUME TypeOK, NEW w \in Workers, NEW out \in Outcomes, pc[w] \in Converting,
         Return(w, out),
         UNCHANGED <<groups, group, rest, job, results, completed, failures>>
  PROVE  Stays(w)
<1>1. \E s \in Converting : pc' = [pc EXCEPT ![w] = s]
  BY DEF Return, Converting
<1>2. tries[w] \in 0..2 /\ tries = [tries EXCEPT ![w] = tries[w]]
  BY DEF TypeOK
<1>3. \E n \in 0..2 : n <= tries[w] /\ tries' = [tries EXCEPT ![w] = n]
  <2>1. CASE out = "failed" /\ tries[w] > 1
    <3>1. tries[w] - 1 \in 0..2 /\ tries[w] - 1 <= tries[w]
      BY <1>2, <2>1
    <3>2. tries' = [tries EXCEPT ![w] = tries[w] - 1]
      BY <2>1 DEF Return
    <3> QED
      BY <3>1, <3>2
  <2>2. CASE ~(out = "failed" /\ tries[w] > 1)
    BY <1>2, <2>2 DEF Return
  <2> QED
    BY <2>1, <2>2
<1> QED
  BY <1>1, <1>3 DEF Stays

LEMMA ThrowShape ==
  ASSUME TypeOK, NEW w \in Workers, pc[w] \in Converting, Throw(w),
         UNCHANGED <<file, groups, results, completed>>
  PROVE  Ends(w) \/ Stays(w)
<1>1. CASE phase = "large"
  <2>1. tries[w] \in 0..2 /\ tries' = [tries EXCEPT ![w] = tries[w]] /\ tries[w] <= tries[w]
    BY <1>1 DEF Throw, TypeOK
  <2>2. \E s \in Converting : pc' = [pc EXCEPT ![w] = s]
    BY <1>1 DEF Throw, Converting
  <2> QED
    BY <1>1, <2>1, <2>2 DEF Throw, Stays
<1>2. CASE phase # "large"
  BY <1>2 DEF Throw, Ends, Converting
<1> QED
  BY <1>1, <1>2

\* Every step of a worker has one of the shapes.
LEMMA Shapes ==
  ASSUME Inv, NEW w \in Workers, Worker(w)
  PROVE  /\ Steady
         /\ Ends(w) \/ Takes(w) \/ Drops(w) \/ Picks(w) \/ Stays(w) \/ Record(w)
<1> USE DEF Inv
<1>1. Steady
  BY DEF Worker, TakeGroup, NextItem, BeginEncode, Convert, Commit, AfterCommit, Record,
     plan, main, Steady
<1>2. CASE TakeGroup(w)
  <2>1. CASE stop \/ groups = {}
    BY <1>1, <1>2, <2>1 DEF TakeGroup, Ends
  <2>2. CASE ~(stop \/ groups = {})
    BY <1>1, <1>2, <2>2 DEF TakeGroup, Takes, Claimed
  <2> QED
    BY <1>1, <2>1, <2>2
<1>3. CASE NextItem(w)
  <2>0. pc[w] = "item" /\ UNCHANGED <<file, groups, results, completed>>
    BY <1>3 DEF NextItem
  <2>1. ASSUME stop \/ rest[w] = {}, pc' = [pc EXCEPT ![w] = "take"],
               group' = [group EXCEPT ![w] = NoPath], rest' = [rest EXCEPT ![w] = {}],
               UNCHANGED <<job, tries, outcome, failures>>
        PROVE  Drops(w)
    BY <2>0, <2>1 DEF Drops
  <2>2. ASSUME NEW i \in rest[w], IsFirst(i, rest[w]), job' = [job EXCEPT ![w] = i],
               rest' = [rest EXCEPT ![w] = @ \ {i}],
               \E n \in IF phase = "large" THEN 0..2 ELSE {1} :
                 tries' = [tries EXCEPT ![w] = n],
               pc' = [pc EXCEPT ![w] = "encode"], UNCHANGED <<group, outcome, failures>>
        PROVE  Picks(w)
    <3>1. PICK n \in (IF phase = "large" THEN 0..2 ELSE {1}) :
                 tries' = [tries EXCEPT ![w] = n]
      BY <2>2
    <3>2. n \in 0..2 /\ (n > 1 => phase = "large")
      BY <3>1
    <3> QED
      BY <2>0, <2>2, <3>1, <3>2 DEF Picks
  <2>3. ASSUME Leave(w), failures' = failures + 1 PROVE Ends(w)
    BY <2>0, <2>3 DEF Ends
  <2> QED
    BY <1>1, <1>3, <2>1, <2>2, <2>3 DEF NextItem
<1>4. ASSUME UNCHANGED <<tries, outcome>>, pc[w] \in Converting,
             \E s \in Converting : pc' = [pc EXCEPT ![w] = s],
             UNCHANGED <<groups, group, rest, job, results, completed, failures>>
      PROVE  Stays(w)
  <2>1. tries[w] \in 0..2 /\ tries' = [tries EXCEPT ![w] = tries[w]] /\ tries[w] <= tries[w]
    BY <1>4 DEF TypeOK
  <2> QED
    BY <1>4, <2>1 DEF Stays
<1>5. CASE BeginEncode(w)
  <2>1. ASSUME NEW out \in Outcomes, Return(w, out) PROVE Stays(w)
    BY <1>5, <2>1, ReturnStays DEF BeginEncode, Converting
  <2> QED
    BY <1>1, <1>4, <1>5, <2>1 DEF BeginEncode, Outcomes, Converting
<1>6. CASE Convert(w)
  <2>1. ASSUME NEW out \in Outcomes, Return(w, out), UNCHANGED <<group, rest, job, failures>>
        PROVE Stays(w)
    BY <1>6, <2>1, ReturnStays DEF Convert, Converting
  <2>2. CASE Throw(w)
    BY <1>1, <1>6, <2>2, ThrowShape DEF Convert, Converting
  <2> QED
    BY <1>1, <1>4, <1>6, <2>1, <2>2 DEF Convert, Outcomes, Converting
<1>7. CASE Commit(w)
  <2>1. CASE Return(w, CommitError)
    BY <1>1, <1>7, <2>1, ReturnStays DEF Commit, Converting, CommitError, Outcomes
  <2>2. CASE ~Return(w, CommitError)
    BY <1>1, <1>4, <1>7, <2>2 DEF Commit, Converting
  <2> QED
    BY <2>1, <2>2
<1>8. CASE AfterCommit(w)
  <2>1. ASSUME NEW out \in Committed, Return(w, out), UNCHANGED <<group, rest, job, failures>>
        PROVE Stays(w)
    BY <1>8, <2>1, ReturnStays DEF AfterCommit, Converting, Committed, Outcomes
  <2>2. CASE Throw(w)
    BY <1>1, <1>8, <2>2, ThrowShape DEF AfterCommit, Converting
  <2> QED
    BY <1>1, <1>8, <2>1, <2>2 DEF AfterCommit
<1> QED
  BY <1>1, <1>2, <1>3, <1>5, <1>6, <1>7, <1>8 DEF Worker

LEMMA ScheduleWorker ==
  ASSUME Inv, Schedule, NEW w \in Workers, Worker(w)
  PROVE  Schedule'
<1> USE DEF Inv
<1>0. Inv' /\ Steady
  BY WorkerInv, Shapes
<1>1. CASE Ends(w)
  <2>1. Idle'
    BY <1>0, <1>1 DEF Ends, Leave, Steady, Schedule, Idle, TypeOK, Joined, NoItem
  <2>2. Fresh'
    BY <1>0, <1>1 DEF Ends, Leave, Steady, Schedule, Fresh, TypeOK
  <2>3. Ordered'
    BY <1>0, <1>1 DEF Ends, Leave, Steady, Schedule, Ordered, TypeOK
  <2> QED
    BY <2>1, <2>2, <2>3 DEF Schedule
<1>2. CASE Takes(w)
  <2> PICK p \in groups : /\ groups' = groups \ {p}
                          /\ group' = [group EXCEPT ![w] = p]
                          /\ rest' = [rest EXCEPT ![w] = GroupOf(p, phase)]
    BY <1>2 DEF Takes
  <2>0. /\ pc[w] = "take" /\ job[w] = NoItem
        /\ pc' = [pc EXCEPT ![w] = "item"]
        /\ UNCHANGED <<job, tries, results>>
    BY <1>2 DEF Takes, Control, Converting
  <2>1. Idle'
    BY <1>0, <2>0 DEF Steady, Schedule, Idle, TypeOK, Joined
  <2>2. Fresh'
    BY <1>0, <2>0 DEF Steady, Schedule, Fresh, TypeOK, GroupOf
  <2>3. Ordered'
    BY <1>0, <2>0 DEF Steady, Schedule, Fresh, Ordered, TypeOK
  <2> QED
    BY <2>1, <2>2, <2>3 DEF Schedule
<1>3. CASE Drops(w)
  <2>1. Idle'
    BY <1>0, <1>3 DEF Drops, Steady, Schedule, Idle, TypeOK, Joined
  <2>2. Fresh'
    BY <1>0, <1>3 DEF Drops, Steady, Schedule, Fresh, TypeOK
  <2>3. Ordered'
    BY <1>0, <1>3 DEF Drops, Steady, Schedule, Ordered, TypeOK, Control, Converting
  <2> QED
    BY <2>1, <2>2, <2>3 DEF Schedule
<1>4. CASE Picks(w)
  <2> PICK i \in rest[w] : /\ IsFirst(i, rest[w])
                           /\ job' = [job EXCEPT ![w] = i]
                           /\ rest' = [rest EXCEPT ![w] = @ \ {i}]
    BY <1>4 DEF Picks
  <2>0. /\ pc[w] = "item" /\ job[w] = NoItem /\ i # NoItem
        /\ pc' = [pc EXCEPT ![w] = "encode"]
        /\ UNCHANGED <<groups, group, results>>
        /\ i \in Items /\ rest[w] \subseteq Items
    BY <1>4 DEF Picks, Control, Converting, TypeOK, Items, NoItem
  <2>1. Idle'
    BY <1>0, <1>4, <2>0 DEF Picks, Steady, Schedule, Idle, TypeOK, Joined
  <2>2. Fresh'
    BY <1>0, <2>0 DEF Steady, Schedule, Fresh, TypeOK
  <2>3. Ordered'
    BY <1>0, <2>0 DEF Steady, Schedule, Ordered, TypeOK, IsFirst, Items
  <2> QED
    BY <2>1, <2>2, <2>3 DEF Schedule
<1>5. CASE Stays(w)
  <2>1. Idle'
    BY <1>0, <1>5 DEF Stays, Steady, Schedule, Idle, TypeOK, Joined, Converting
  <2>2. Fresh'
    BY <1>0, <1>5 DEF Stays, Steady, Schedule, Fresh
  <2>3. Ordered'
    BY <1>0, <1>5 DEF Stays, Steady, Schedule, Ordered
  <2> QED
    BY <2>1, <2>2, <2>3 DEF Schedule
<1>6. CASE Record(w)
  <2>0. /\ pc[w] = "record" /\ job[w] \in Items /\ job[w] # NoItem
        /\ results' = [results EXCEPT ![job[w]] = outcome[w]]
        /\ job' = [job EXCEPT ![w] = NoItem]
        /\ tries' = [tries EXCEPT ![w] = 0]
        /\ pc' = [pc EXCEPT ![w] = "item"]
        /\ UNCHANGED <<groups, group, rest>>
    BY <1>6 DEF Record, TypeOK, Control, Converting
  <2>1. Idle'
    BY <1>0, <2>0 DEF Steady, Schedule, Idle, TypeOK, Joined
  <2>2. Fresh'
    <3>1. job[w] \notin rest[w] /\ class[job[w]] = phase /\ path[job[w]] = group[w]
      BY <2>0 DEF Schedule, Ordered, Fresh, Ownership, TypeOK, Items
    <3>2. class[job[w]] \notin Later(phase)
      BY <2>0, <3>1 DEF Later, TypeOK, Classes
    <3>3. path[job[w]] \notin groups
      BY <3>1 DEF Ownership
    <3>4. ASSUME NEW v \in Workers PROVE job[w] \notin rest'[v] /\ job'[v] # job[w]
      BY <2>0, <3>1, <3>4, BatchAssumption DEF Ownership, TypeOK
    <3>5. \A i \in Items \ {job[w]} : results'[i] = results[i]
      BY <2>0 DEF TypeOK
    <3> QED
      BY <1>0, <2>0, <3>2, <3>3, <3>4, <3>5 DEF Steady, Schedule, Fresh, TypeOK
  <2>3. Ordered'
    <3>1. \A i \in Items \ {job[w]} : results'[i] = results[i]
      BY <2>0 DEF TypeOK
    <3>2. \A v \in Workers \ {w} :
            job'[v] = job[v] /\ (path[job[w]] = group[v] => group[v] = NoPath)
      BY <2>0 DEF Ownership, TypeOK
    <3>3. path[job[w]] # NoPath
      BY <2>0, BatchAssumption DEF TypeOK
    <3> QED
      BY <1>0, <2>0, <3>1, <3>2, <3>3 DEF Steady, Schedule, Ordered, TypeOK
  <2> QED
    BY <2>1, <2>2, <2>3 DEF Schedule
<1> QED
  BY <1>1, <1>2, <1>3, <1>4, <1>5, <1>6, Shapes

\* A thread that was joined holds no item.
LEMMA JoinedHoldsNothing ==
  ASSUME Inv, Idle, NEW w \in Workers, Joined(w)
  PROVE  rest[w] = {} /\ job[w] = NoItem /\ pc[w] \notin Converting
BY DEF Inv, Control, Idle, Joined, Converting

\* The next phase is a later one.
LEMMA PhaseMoves ==
  ASSUME Inv, Join
  PROVE  /\ phase \in WorkPhases
         /\ phase' \in Later(phase) \cup {"summary"}
         /\ Later(phase') \subseteq Later(phase)
         /\ phase' \notin Later(phase')
BY DEF Inv, TypeOK, Join, PhaseAfter, Later, WorkPhases

LEMMA ScheduleMain ==
  ASSUME Inv, Schedule, RunBatch \/ Environment \/ UNCHANGED vars
  PROVE  Schedule'
<1> USE DEF Inv, plan, main, local, Schedule
<1>1. ASSUME UNCHANGED <<path, class, phase, groups, group, rest, job, tries, results>>,
             \A w \in Workers : pc'[w] = pc[w] \/ (pc[w] = "absent" /\ phase \in WorkPhases)
      PROVE  Schedule'
  <2>1. Idle'
    BY <1>1 DEF Idle, Joined
  <2>2. Fresh' /\ Ordered'
    BY <1>1 DEF Fresh, Ordered
  <2> QED
    BY <2>1, <2>2
<1>2. CASE UNCHANGED vars
  BY <1>1, <1>2 DEF vars
<1>3. CASE Environment
  BY <1>1, <1>3 DEF Environment, RequestStop, ForeignCreate
<1>4. CASE Spawn \/ SpawnFails \/ AllSpawned
  <2>1. \A w \in Workers : pc'[w] = pc[w] \/ pc[w] = "absent"
    BY <1>4, BatchAssumption DEF Spawn, SpawnFails, AllSpawned, TypeOK, Control, Workers
  <2> QED
    BY <1>1, <1>4, <2>1 DEF Spawn, SpawnFails, AllSpawned
<1>5. CASE Join
  <2>1. \A w \in Workers : rest[w] = {} /\ job[w] = NoItem
    BY <1>5, JoinedHoldsNothing DEF Join
  <2>2. UNCHANGED <<class, results, rest, job, tries>>
    BY <1>5 DEF Join
  <2>3. \A w \in Workers : Joined(w)'
    BY <1>5 DEF Join, Joined
  <2>4. Idle'
    BY <2>1, <2>2, <2>3 DEF Idle
  <2>5. \A i \in Items : class[i] \in Later(phase') \/ class[i] = phase'
                            => results[i] = "unprocessed"
    BY <1>5, PhaseMoves DEF Fresh, TypeOK, Classes
  <2>6. Fresh' /\ Ordered'
    BY <2>1, <2>2, <2>5 DEF Fresh, Ordered
  <2> QED
    BY <2>4, <2>6
<1>6. CASE Summarise
  <2>1. /\ phase = "summary" /\ phase' = "done"
        /\ UNCHANGED <<class, pc, rest, job, tries, groups>>
    BY <1>6 DEF Summarise
  <2>2. \A w \in Workers : rest[w] = {} /\ job[w] = NoItem /\ Joined(w)
    BY <2>1, JoinedHoldsNothing DEF Idle, WorkPhases
  <2>3. \A i \in Items : class[i] \notin Later(phase') /\ class[i] # phase'
    BY <2>1 DEF TypeOK, Classes, Later
  <2>4. Idle'
    BY <2>1, <2>2 DEF Idle, Joined
  <2>5. Fresh' /\ Ordered'
    BY <2>1, <2>2, <2>3 DEF Fresh, Ordered
  <2> QED
    BY <2>4, <2>5
<1> QED
  BY <1>2, <1>3, <1>4, <1>5, <1>6 DEF RunBatch

LEMMA ScheduleNext == Inv /\ Schedule /\ [Next]_vars => Schedule'
BY ScheduleWorker, ScheduleMain DEF Next

LEMMA ScheduleInit == Init => Schedule
<1> SUFFICES ASSUME Init PROVE Schedule
  OBVIOUS
<1>0. \A w \in Workers : rest[w] = {} /\ job[w] = NoItem /\ tries[w] = 0
  BY DEF Init
<1>1. Idle
  BY <1>0 DEF Init, Idle, Joined
<1>2. Fresh
  BY <1>0 DEF Init, Fresh, Later
<1>3. Ordered
  BY <1>0 DEF Ordered
<1> QED
  BY <1>1, <1>2, <1>3 DEF Schedule

\* Why the file at the output path of item i may be its own: the item has a result
\* that says so, is about to get one, or was cut off after its commit.
Accounted(i) ==
  \/ results[i] \in Committed
  \/ class[i] = "large" \/ failures > 0
  \/ \E w \in Workers : /\ job[w] = i
                        /\ \/ pc[w] = "post"
                           \/ pc[w] = "record" /\ outcome[w] \in Committed

\* What a worker is about to report is what it left on disk.
Reports ==
  \A w \in Workers :
    /\ pc[w] = "post" \/ (pc[w] = "record" /\ outcome[w] = "ok")
         => file[path[job[w]]] = job[w]
    /\ pc[w] = "record" /\ outcome[w] = "skipped" => file[path[job[w]]] # NoFile

Written ==
  /\ \A i \in Items : file[path[i]] = i => Accounted(i)
  /\ \A i \in Items : results[i] \in {"ok", "skipped"} => file[path[i]] # NoFile

Files == Reports /\ Written /\ ScanOrderWithinPhase

CommitDone(w) ==
  /\ file' = [file EXCEPT ![path[job[w]]] = job[w]]
  /\ pc' = [pc EXCEPT ![w] = "post"]
  /\ pc[w] = "commit"
  /\ UNCHANGED <<path, class, job, outcome, results, failures>>

LEMMA FilesCommit ==
  ASSUME Inv, Schedule, Files, NEW w \in Workers, CommitDone(w)
  PROVE  Files'
<1> USE DEF Inv, CommitDone
<1>1. job[w] \in Items /\ path[job[w]] \in Paths /\ path[job[w]] = group[w] /\ job[w] # NoItem
  BY DEF TypeOK, Control, Converting, Items, NoItem, Ownership
<1>2. ASSUME NEW v \in Workers \ {w}, job[v] # NoItem
      PROVE  job[v] \in Items /\ path[job[v]] \in Paths /\ path[job[v]] # path[job[w]]
  BY <1>1, <1>2, BatchAssumption DEF TypeOK, Ownership
<1>3. Reports'
  <2>1. ASSUME NEW v \in Workers \ {w}, pc[v] \in {"post", "record"}
        PROVE  file'[path[job[v]]] = file[path[job[v]]]
    BY <1>1, <1>2, <2>1 DEF TypeOK, Control, Converting
  <2>2. pc'[w] = "post" /\ file'[path[job[w]]] = job[w]
    BY <1>1 DEF TypeOK
  <2>3. \A v \in Workers \ {w} : pc'[v] = pc[v]
    BY DEF TypeOK
  <2> QED
    BY <2>1, <2>2, <2>3 DEF Files, Reports
<1>4. Written'
  <2>1. ASSUME NEW i \in Items, file'[path[i]] = i PROVE Accounted(i)'
    <3>1. CASE i = job[w]
      BY <3>1 DEF Accounted, TypeOK
    <3>2. CASE i # job[w]
      <4>1. file[path[i]] = i
        BY <2>1, <3>2, <1>1 DEF TypeOK
      <4>2. Accounted(i)
        BY <4>1 DEF Files, Written
      <4> QED
        BY <4>2, <3>2 DEF Accounted, TypeOK
    <3> QED
      BY <3>1, <3>2
  <2>2. ASSUME NEW i \in Items, results[i] \in {"ok", "skipped"} PROVE file'[path[i]] # NoFile
    <3>1. file[path[i]] # NoFile
      BY <2>2 DEF Files, Written
    <3> QED
      BY <3>1, <1>1 DEF TypeOK, Items, NoFile
  <2> QED
    BY <2>1, <2>2 DEF Written
<1>5. ScanOrderWithinPhase'
  <2> SUFFICES ASSUME NEW i \in Items, NEW j \in Items, i < j, path[i] = path[j],
                      class[i] = class[j], results[j] = "ok", file'[path[j]] = i
               PROVE  FALSE
    BY DEF ScanOrderWithinPhase
  <2>1. file[path[j]] # i
    BY DEF Files, ScanOrderWithinPhase
  <2>2. i = job[w] /\ path[j] = path[job[w]]
    BY <1>1, <2>1 DEF TypeOK
  <2>3. class[j] = phase
    BY <1>1, <2>2 DEF Schedule, Fresh
  <2>4. j < job[w]
    BY <1>1, <2>2, <2>3 DEF Schedule, Ordered
  <2> QED
    BY <2>2, <2>4 DEF Items
<1> QED
  BY <1>3, <1>4, <1>5 DEF Files

LEMMA FilesRecord ==
  ASSUME Inv, Schedule, Files, NEW w \in Workers, Record(w)
  PROVE  Files'
<1> USE DEF Inv
<1>1. job[w] \in Items /\ path[job[w]] = group[w] /\ job[w] # NoItem
  BY DEF Record, TypeOK, Control, Converting, Items, NoItem, Ownership
<1>2. /\ results' = [results EXCEPT ![job[w]] = outcome[w]]
      /\ UNCHANGED <<path, class, file, failures>>
      /\ pc[w] = "record" /\ pc'[w] = "item"
      /\ \A v \in Workers \ {w} :
           pc'[v] = pc[v] /\ job'[v] = job[v] /\ outcome'[v] = outcome[v]
  BY DEF Record, TypeOK, plan
<1>3. \A v \in Workers \ {w} : job[v] # job[w]
  BY <1>1, BatchAssumption DEF TypeOK, Ownership
<1>4. Reports'
  BY <1>2 DEF Files, Reports
<1>5. Written'
  <2>1. ASSUME NEW i \in Items, file[path[i]] = i PROVE Accounted(i)'
    <3>1. Accounted(i)
      BY <2>1 DEF Files, Written
    <3>2. CASE i = job[w]
      <4>1. results[i] = "unprocessed"
        BY <1>1, <3>2 DEF Schedule, Fresh
      <4>2. class[i] = "large" \/ failures > 0 \/ outcome[w] \in Committed
        BY <1>2, <1>3, <3>1, <3>2, <4>1 DEF Accounted, Committed
      <4> QED
        BY <1>1, <1>2, <3>2, <4>2 DEF Accounted, TypeOK
    <3>3. CASE i # job[w]
      BY <1>2, <3>1, <3>3 DEF Accounted, TypeOK
    <3> QED
      BY <3>2, <3>3
  <2>2. ASSUME NEW i \in Items, results'[i] \in {"ok", "skipped"} PROVE file[path[i]] # NoFile
    BY <1>1, <1>2, <2>2 DEF Files, Written, Reports, TypeOK, Items, NoFile
  <2> QED
    BY <1>2, <2>1, <2>2 DEF Written
<1>6. ScanOrderWithinPhase'
  <2> SUFFICES ASSUME NEW i \in Items, NEW j \in Items, i < j, path[i] = path[j],
                      class[i] = class[j], results'[j] = "ok"
               PROVE  file[path[j]] # i
    BY <1>2 DEF ScanOrderWithinPhase
  <2>1. CASE j = job[w]
    BY <1>1, <1>2, <2>1 DEF Files, Reports, TypeOK, Items
  <2>2. CASE j # job[w]
    BY <1>2, <2>2 DEF Files, ScanOrderWithinPhase, TypeOK
  <2> QED
    BY <2>1, <2>2
<1> QED
  BY <1>4, <1>5, <1>6 DEF Files

\* Any other step of a worker: it reports what its item left on disk, or gives up an
\* item whose file is then excused.
LEMMA FilesOther ==
  ASSUME Inv, Schedule, Files, NEW w \in Workers,
         Worker(w), ~Record(w), ~CommitDone(w)
  PROVE  Files'
<1> USE DEF Inv
<1>1. UNCHANGED <<path, class, file, results>>
  BY DEF Worker, TakeGroup, NextItem, BeginEncode, Convert, Commit, AfterCommit, CommitDone,
     Return, plan
<1>2. \A v \in Workers \ {w} :
        pc'[v] = pc[v] /\ job'[v] = job[v] /\ outcome'[v] = outcome[v]
  BY DEF Worker, TakeGroup, NextItem, BeginEncode, Convert, Commit, AfterCommit, CommitDone,
     Return, Throw, Leave, TypeOK
<1>3. failures' \in Nat /\ (failures > 0 => failures' > 0)
  BY DEF Worker, TakeGroup, NextItem, BeginEncode, Convert, Commit, AfterCommit, CommitDone,
     Throw, TypeOK
<1>4. pc[w] # "record"
  BY DEF Worker, TakeGroup, NextItem, BeginEncode, Convert, Commit, AfterCommit
<1>5. pc'[w] # "post"
  BY DEF Worker, TakeGroup, NextItem, BeginEncode, Convert, Commit, AfterCommit, CommitDone,
     Return, Throw, Leave, TypeOK, local, plan
<1>6. ASSUME pc'[w] = "record"
      PROVE  /\ job'[w] = job[w]
             /\ outcome'[w] = "ok" => pc[w] = "post"
             /\ outcome'[w] = "skipped" => file[path[job[w]]] # NoFile
  <2>1. CASE BeginEncode(w)
    BY <1>6, <2>1 DEF BeginEncode, Return, TypeOK
  <2>2. CASE Convert(w)
    BY <1>6, <2>2 DEF Convert, Return, Throw, Leave, TypeOK
  <2>3. CASE Commit(w)
    BY <1>6, <2>3 DEF Commit, CommitDone, CommitError, Return, TypeOK, plan
  <2>4. CASE AfterCommit(w)
    BY <1>6, <2>4 DEF AfterCommit, Committed, Return, Throw, Leave, TypeOK
  <2>5. CASE TakeGroup(w) \/ NextItem(w)
    BY <1>6, <2>5 DEF TakeGroup, NextItem, Leave, TypeOK
  <2> QED
    BY <2>1, <2>2, <2>3, <2>4, <2>5 DEF Worker
<1>7. ASSUME pc[w] = "post"
      PROVE  \/ class[job[w]] = "large" \/ failures' > 0
             \/ pc'[w] = "record" /\ outcome'[w] \in Committed /\ job'[w] = job[w]
  <2>1. AfterCommit(w)
    BY <1>7 DEF Worker, TakeGroup, NextItem, BeginEncode, Convert, Commit
  <2>2. job[w] # NoItem /\ class[job[w]] = phase /\ (tries[w] > 1 => phase = "large")
    BY <1>7 DEF Control, Converting, Schedule, Fresh, Idle
  <2>3. ASSUME NEW out \in Committed, Return(w, out), job' = job
        PROVE  \/ class[job[w]] = "large"
               \/ pc'[w] = "record" /\ outcome'[w] \in Committed /\ job'[w] = job[w]
    BY <1>7, <2>2, <2>3 DEF Return, TypeOK, Committed
  <2>4. ASSUME Throw(w) PROVE
          class[job[w]] = "large" \/ failures' > 0
    BY <2>2, <2>4 DEF Throw, TypeOK
  <2> QED
    BY <2>1, <2>3, <2>4 DEF AfterCommit
<1>8. Reports'
  BY <1>1, <1>2, <1>5, <1>6 DEF Files, Reports
<1>9. Written'
  <2>1. ASSUME NEW i \in Items, Accounted(i) PROVE Accounted(i)'
    <3>1. CASE results[i] \in Committed \/ class[i] = "large" \/ failures > 0
      BY <1>1, <1>3, <3>1 DEF Accounted
    <3>2. ASSUME NEW v \in Workers, job[v] = i,
                 pc[v] = "post" \/ (pc[v] = "record" /\ outcome[v] \in Committed)
          PROVE  Accounted(i)'
      <4>1. CASE v = w
        BY <1>1, <1>4, <1>7, <3>2, <4>1 DEF Accounted
      <4>2. CASE v # w
        BY <1>2, <3>2, <4>2 DEF Accounted
      <4> QED
        BY <4>1, <4>2
    <3> QED
      BY <2>1, <3>1, <3>2 DEF Accounted
  <2> QED
    BY <1>1, <2>1 DEF Files, Written
<1>10. ScanOrderWithinPhase'
  BY <1>1 DEF Files, ScanOrderWithinPhase
<1> QED
  BY <1>8, <1>9, <1>10 DEF Files

LEMMA FilesMain ==
  ASSUME Inv, Schedule, Files, RunBatch \/ Environment \/ UNCHANGED vars
  PROVE  Files'
<1> USE DEF Inv, plan, main, local
<1>1. ASSUME UNCHANGED <<path, class, file, results, job, outcome>>,
             failures' \in Nat, failures > 0 => failures' > 0,
             \A w \in Workers : pc[w] \in Converting \/ pc'[w] \in Converting
                                  => pc'[w] = pc[w]
      PROVE  Files'
  <2>1. \A w \in Workers : 
          pc'[w] \in {"post", "record"} <=> (pc[w] \in {"post", "record"} /\ pc'[w] = pc[w])
    BY <1>1 DEF Converting
  <2>2. Reports'
    BY <1>1, <2>1 DEF Files, Reports
  <2>3. \A i \in Items : Accounted(i) => Accounted(i)'
    BY <1>1, <2>1 DEF Accounted, Converting
  <2> QED
    BY <1>1, <2>2, <2>3 DEF Files, Written, ScanOrderWithinPhase
<1>2. CASE UNCHANGED vars
  BY <1>1, <1>2 DEF vars, TypeOK
<1>3. CASE RequestStop
  BY <1>1, <1>3 DEF RequestStop, TypeOK
<1>4. ASSUME NEW p \in Paths, ForeignCreate(p) PROVE Files'
  <2>0. /\ file' = [file EXCEPT ![p] = Foreign] /\ file[p] = NoFile
        /\ UNCHANGED <<path, class, results, job, outcome, failures, pc>>
    BY <1>4 DEF ForeignCreate
  <2>1. \A w \in Workers : pc[w] \in {"post", "record"} => job[w] \in Items
    BY DEF TypeOK, Control, Converting
  <2>2. Reports'
    BY <2>0, <2>1 DEF Files, Reports, TypeOK, NoFile, Foreign, Items
  <2>3. \A i \in Items : file'[path[i]] = i => file[path[i]] = i
    BY <2>0 DEF TypeOK, Foreign, Items
  <2>4. \A i \in Items : Accounted(i)' <=> Accounted(i)
    BY <2>0 DEF Accounted
  <2>5. Written'
    BY <2>0, <2>3, <2>4 DEF Files, Written, TypeOK, NoFile, Foreign
  <2>6. ScanOrderWithinPhase'
    BY <2>0 DEF Files, ScanOrderWithinPhase, TypeOK, Foreign, Items
  <2> QED
    BY <2>2, <2>5, <2>6 DEF Files
<1>5. CASE Spawn \/ SpawnFails \/ AllSpawned
  <2>1. \A w \in Workers : pc'[w] = pc[w] \/ (pc[w] = "absent" /\ pc'[w] \in {"take", "exit"})
    BY <1>5, BatchAssumption DEF Spawn, SpawnFails, AllSpawned, TypeOK, Control, Workers
  <2> QED
    BY <1>1, <1>5, <2>1 DEF Spawn, SpawnFails, AllSpawned, TypeOK, Converting
<1>6. CASE Join
  <2>1. \A w \in Workers : pc[w] \notin Converting /\ pc'[w] \notin Converting
    BY <1>6 DEF Join, Joined, Converting
  <2> QED
    BY <1>1, <1>6, <2>1 DEF Join, TypeOK
<1>7. CASE Summarise
  <2>1. /\ UNCHANGED <<path, class, file, job, outcome, failures, pc>>
        /\ \A i \in Items : \/ results'[i] = results[i]
                            \/ results[i] = "unprocessed"
                               /\ results'[i] \in {"canceled", "notStarted"}
    BY <1>7 DEF Summarise, Marked
  <2>2. \A i \in Items : Accounted(i) => Accounted(i)'
    BY <2>1 DEF Accounted, Committed
  <2> QED
    BY <2>1, <2>2 DEF Files, Reports, Written, ScanOrderWithinPhase
<1> QED
  BY <1>2, <1>3, <1>4, <1>5, <1>6, <1>7 DEF RunBatch, Environment

LEMMA FilesNext == Inv /\ Schedule /\ Files /\ [Next]_vars => Files'
<1> SUFFICES ASSUME Inv, Schedule, Files, [Next]_vars PROVE Files'
  OBVIOUS
<1>1. ASSUME NEW w \in Workers, Worker(w) PROVE Files'
  BY <1>1, FilesCommit, FilesRecord, FilesOther
<1> QED
  BY <1>1, FilesMain DEF Next

Processed == {i \in Items : results[i] # "unprocessed"}

\* Somebody will come to the item: its group waits, or a worker has it.
InHand(i) == path[i] \in groups \/ \E w \in Workers : i \in rest[w] \/ job[w] = i

\* Without a stop and without failures nothing is forgotten: an item without a result
\* belongs to a later phase or is in hand, threads end only when every group is
\* taken, and a phase with groups starts a thread.
Complete ==
  /\ \A w \in Workers : pc[w] = "exit" => groups = {}
  /\ ~spawning => spawned > 0 \/ groups = {}
  /\ \A i \in Items \ Processed :
       /\ phase \in WorkPhases
       /\ class[i] \in Later(phase) \/ (class[i] = phase /\ InHand(i))

Covered ==
  /\ \A w \in Workers : w <= spawned => pc[w] # "absent"
  /\ ~stop /\ failures = 0 => Complete

LEMMA CoveredWorker ==
  ASSUME Inv, Schedule, Covered, NEW w \in Workers, Worker(w)
  PROVE  Covered'
<1> USE DEF Inv
<1>1. Steady
  BY Shapes
<1>2. \A v \in Workers : v <= spawned' => pc'[v] # "absent"
  BY <1>1, Shapes DEF Steady, Ends, Leave, Takes, Drops, Picks, Stays, Record, Covered,
     TypeOK, Converting
<1>3. failures' = 0 => failures = 0
  BY Shapes DEF Ends, Takes, Drops, Picks, Stays, Record, TypeOK
<1> SUFFICES ASSUME ~stop, failures' = 0 PROVE Complete'
  BY <1>1, <1>2 DEF Covered, Steady
<1>4. Complete
  BY <1>3 DEF Covered
<1>5. groups' \subseteq groups
  BY Shapes DEF Ends, Takes, Drops, Picks, Stays, Record
<1>6. \A v \in Workers : pc'[v] = "exit" => groups' = {}
  BY <1>4, <1>5, Shapes DEF Ends, Leave, Takes, Drops, Picks, Stays, Record, Complete, TypeOK,
     Converting
<1>7. ASSUME NEW i \in Items, results'[i] = "unprocessed"
      PROVE  i \in Items \ Processed /\ (InHand(i) /\ class[i] = phase => InHand(i)')
  <2>1. CASE Record(w)
    <3>1. /\ results' = [results EXCEPT ![job[w]] = outcome[w]]
          /\ \A v \in Workers \ {w} : job'[v] = job[v]
          /\ UNCHANGED <<groups, rest, path>> /\ job[w] \in Items
      BY <2>1 DEF Record, TypeOK, plan, Control, Converting
    <3>2. outcome[w] # "unprocessed"
      BY DEF TypeOK, Outcomes
    <3> QED
      BY <1>7, <3>1, <3>2 DEF TypeOK, Processed, InHand
  <2>2. CASE UNCHANGED results /\ ~Record(w)
    <3>0. i \in Items \ Processed
      BY <1>7, <2>2 DEF Processed
    <3>1. \A v \in Workers \ {w} : rest'[v] = rest[v] /\ job'[v] = job[v]
      BY <2>2, Shapes DEF Ends, Leave, Takes, Drops, Picks, Stays, TypeOK
    <3>2. CASE Ends(w)
      <4>1. failures' = failures /\ groups' = groups /\ pc[w] = "take"
        BY <1>3, <3>2 DEF Ends, TypeOK
      <4>2. rest[w] = {} /\ job[w] = NoItem
        BY <4>1 DEF Control, Converting, Schedule, Idle
      <4> QED
        BY <1>1, <3>0, <3>1, <4>1, <4>2 DEF InHand, Steady, NoItem, Items
    <3>3. CASE Takes(w)
      <4>1. PICK p \in groups : /\ groups' = groups \ {p}
                                /\ rest' = [rest EXCEPT ![w] = GroupOf(p, phase)]
        BY <3>3 DEF Takes
      <4>2. UNCHANGED job /\ rest[w] = {}
        BY <3>3 DEF Takes, Schedule, Idle
      <4> QED
        BY <3>0, <3>1, <4>1, <4>2, <1>1 DEF InHand, TypeOK, GroupOf, Steady
    <3>4. CASE Drops(w)
      BY <1>1, <3>0, <3>1, <3>4 DEF Drops, InHand, Steady
    <3>5. CASE Picks(w)
      BY <1>1, <3>0, <3>1, <3>5 DEF Picks, InHand, Steady, Control, Converting, NoItem, Items,
         TypeOK
    <3>6. CASE Stays(w)
      BY <1>1, <3>0, <3>6 DEF Stays, InHand, Steady
    <3> QED
      BY <2>2, <3>2, <3>3, <3>4, <3>5, <3>6, Shapes
  <2> QED
    BY <2>1, <2>2, Shapes DEF Ends, Takes, Drops, Picks, Stays
<1>8. \A i \in Items \ Processed' :
        /\ phase \in WorkPhases
        /\ class[i] \in Later(phase) \/ (class[i] = phase /\ InHand(i)')
  BY <1>4, <1>7 DEF Complete, Processed
<1> QED
  BY <1>1, <1>4, <1>5, <1>6, <1>8 DEF Complete, Steady

LEMMA CoveredMain ==
  ASSUME Inv, Schedule, Covered, RunBatch \/ Environment \/ UNCHANGED vars
  PROVE  Covered'
<1> USE DEF Inv, plan, main, local
<1>1. ASSUME UNCHANGED <<path, class, phase, spawned, spawning, groups, pc, rest, job, results,
                         failures>>,
             stop => stop'
      PROVE  Covered'
  BY <1>1 DEF Covered, Complete, Processed, InHand
<1>2. CASE UNCHANGED vars
  BY <1>1, <1>2 DEF vars
<1>3. CASE Environment
  BY <1>1, <1>3 DEF Environment, RequestStop, ForeignCreate
<1>4. CASE Spawn
  <2>1. /\ UNCHANGED <<path, class, phase, spawning, stop, groups, rest, job, results>>
        /\ spawned' = spawned + 1 /\ spawned + 1 \in Workers
        /\ spawning
        /\ \/ pc' = [pc EXCEPT ![spawned + 1] = "take"] /\ UNCHANGED failures
           \/ pc' = [pc EXCEPT ![spawned + 1] = "exit"] /\ failures' = failures + 1
    BY <1>4, BatchAssumption DEF Spawn, TypeOK, Workers
  <2>2. \A w \in Workers : w <= spawned' => pc'[w] # "absent"
    BY <2>1, BatchAssumption DEF Covered, TypeOK, Workers
  <2>3. ASSUME ~stop, failures' = 0 PROVE Complete'
    <3>1. Complete /\ pc' = [pc EXCEPT ![spawned + 1] = "take"]
      BY <2>1, <2>3 DEF Covered, TypeOK
    <3> QED
      BY <2>1, <3>1 DEF Complete, Processed, InHand, TypeOK
  <2> QED
    BY <2>1, <2>2, <2>3 DEF Covered
<1>5. CASE SpawnFails
  BY <1>5 DEF SpawnFails, Covered, TypeOK
<1>6. CASE AllSpawned
  <2>1. /\ UNCHANGED <<path, class, phase, spawned, stop, groups, pc, rest, job, results, failures>>
        /\ spawned > 0 \/ groups = {}
    BY <1>6, BatchAssumption DEF AllSpawned, TypeOK, Workers
  <2> QED
    BY <2>1 DEF Covered, Complete, Processed, InHand
<1>7. CASE Join
  <2>1. /\ UNCHANGED <<path, class, stop, rest, job, results, failures>> /\ ~spawning
        /\ \A w \in Workers : rest[w] = {} /\ job[w] = NoItem /\ Joined(w)
    BY <1>7, JoinedHoldsNothing DEF Join, Schedule
  <2>2. ASSUME ~stop, failures = 0
        PROVE  groups = {} /\ \A i \in Items \ Processed : class[i] \in Later(phase)
    <3>1. Complete
      BY <2>2 DEF Covered
    <3>2. CASE spawned > 0
      <4>1. 1 \in Workers /\ 1 <= spawned
        BY <3>2, BatchAssumption DEF TypeOK, Workers
      <4>2. pc[1] = "exit"
        BY <2>1, <4>1 DEF Covered, Joined
      <4> QED
        BY <2>1, <3>1, <4>1, <4>2 DEF Complete, InHand, Items, NoItem
    <3>3. CASE ~(spawned > 0)
      BY <2>1, <3>1, <3>3 DEF Complete, InHand, Items, NoItem
    <3> QED
      BY <3>2, <3>3
  <2>3. CASE phase' \in WorkPhases
    <3>1. /\ pc' = [w \in Workers |-> "absent"] /\ groups' = WorkOf(phase')
          /\ spawning' = TRUE /\ spawned' = 0
      BY <1>7, <2>3 DEF Join
    <3>2. \A w \in Workers : ~(w <= spawned')
      BY <3>1 DEF Workers
    <3>3. ASSUME ~stop, failures = 0 PROVE Complete'
      <4>1. ASSUME NEW i \in Items \ Processed
            PROVE  class[i] \in Later(phase') \/ (class[i] = phase' /\ path[i] \in groups')
        <5>1. class[i] \in Later(phase)
          BY <2>2, <3>3
        <5>2. path[i] \in WorkOf(class[i])
          BY DEF WorkOf, GroupOf, TypeOK
        <5> QED
          BY <1>7, <2>3, <3>1, <3>3, <5>1, <5>2 DEF Join, PhaseAfter, Later, WorkPhases
      <4> QED
        BY <2>1, <2>3, <3>1, <4>1 DEF Complete, Processed, InHand
    <3> QED
      BY <2>1, <3>2, <3>3 DEF Covered
  <2>4. CASE phase' \notin WorkPhases
    <3>1. UNCHANGED <<groups, spawning, spawned, pc>>
      BY <1>7, <2>4 DEF Join
    <3>2. ASSUME ~stop, failures = 0 PROVE Complete'
      <4>1. ASSUME NEW i \in Items \ Processed PROVE FALSE
        <5>1. class[i] \in Later(phase)
          BY <2>2, <3>2
        <5>2. path[i] \in WorkOf(class[i])
          BY DEF WorkOf, GroupOf, TypeOK
        <5> QED
          BY <1>7, <2>4, <3>2, <5>1, <5>2 DEF Join, PhaseAfter, Later, WorkPhases
      <4> QED
        BY <2>1, <2>2, <3>1, <3>2, <4>1 DEF Complete, Processed
    <3> QED
      BY <2>1, <3>1, <3>2 DEF Covered
  <2> QED
    BY <2>3, <2>4
<1>8. CASE Summarise
  <2>1. /\ UNCHANGED <<stop, spawning, spawned, groups, pc, failures>>
        /\ phase = "summary" /\ results' = Marked(stop)
    BY <1>8 DEF Summarise
  <2>2. ASSUME ~stop, failures = 0 PROVE Complete'
    <3>1. Complete
      BY <2>2 DEF Covered
    <3>2. \A i \in Items : results[i] # "unprocessed"
      BY <2>1, <3>1 DEF Complete, Processed, WorkPhases
    <3>3. \A i \in Items : results'[i] # "unprocessed"
      BY <2>1, <3>2 DEF Marked
    <3> QED
      BY <2>1, <3>1, <3>3 DEF Complete, Processed
  <2> QED
    BY <2>1, <2>2 DEF Covered
<1> QED
  BY <1>2, <1>3, <1>4, <1>5, <1>6, <1>7, <1>8 DEF RunBatch

\* The progress counter, and what the end of the run says.
Counted ==
  /\ ~stop /\ phase # "done" => completed = Cardinality(Processed)
  /\ exitCode # Running => phase = "done"
  /\ EveryItemSettled /\ ExitZeroMeansDelivered

LEMMA ItemsFinite ==
  /\ IsFiniteSet(Items) /\ Cardinality(Items) = NumItems
  /\ \A S \in SUBSET Items : IsFiniteSet(S)
<1>1. NumItems \in Int /\ 1 \in Int /\ ~(1 > NumItems) /\ NumItems - 1 + 1 = NumItems
  BY BatchAssumption
<1>2. IsFiniteSet(Items) /\ Cardinality(Items) = NumItems
  BY <1>1, FS_Interval DEF Items
<1>3. ASSUME NEW S \in SUBSET Items PROVE IsFiniteSet(S)
  BY <1>2, FS_Subset
<1> QED
  BY <1>2, <1>3

LEMMA CountedWorker ==
  ASSUME Inv, Schedule, Counted, NEW w \in Workers, Worker(w)
  PROVE  Counted'
<1> USE DEF Inv
<1>1. Steady
  BY Shapes
<1>2. phase # "done"
  <2>1. pc[w] \notin {"absent", "exit"}
    BY DEF Worker, TakeGroup, NextItem, BeginEncode, Convert, Commit, AfterCommit, Record
  <2> QED
    BY <2>1 DEF Schedule, Idle, Joined, WorkPhases
<1>3. phase' # "done" /\ exitCode' = Running
  BY <1>1, <1>2 DEF Steady, Counted
<1>4. ASSUME ~stop PROVE completed' = Cardinality(Processed')
  <2>1. completed = Cardinality(Processed)
    BY <1>2, <1>4 DEF Counted
  <2>2. CASE Record(w)
    <3>1. /\ results' = [results EXCEPT ![job[w]] = outcome[w]]
          /\ job[w] \in Items /\ results[job[w]] = "unprocessed"
          /\ outcome[w] # "unprocessed" /\ completed' = completed + 1
      BY <2>2 DEF Record, TypeOK, Control, Converting, Outcomes, Schedule, Fresh
    <3>2. job[w] \notin Processed /\ Processed' = Processed \cup {job[w]}
      BY <3>1 DEF Processed, TypeOK
    <3>3. IsFiniteSet(Processed)
      BY ItemsFinite DEF Processed
    <3> QED
      BY <2>1, <3>1, <3>2, <3>3, FS_AddElement
  <2>3. CASE UNCHANGED <<results, completed>>
    BY <2>1, <2>3 DEF Processed
  <2> QED
    BY <2>2, <2>3, Shapes DEF Ends, Takes, Drops, Picks, Stays
<1> QED
  BY <1>1, <1>3, <1>4 DEF Counted, Steady, EveryItemSettled, ExitZeroMeansDelivered, Running

LEMMA CountedMain ==
  ASSUME Inv, Schedule, Files, Covered, Counted, RunBatch \/ Environment \/ UNCHANGED vars
  PROVE  Counted'
<1> USE DEF Inv, plan, main, local
<1>1. CASE UNCHANGED vars
  BY <1>1 DEF vars, Counted, Processed, EveryItemSettled, ExitZeroMeansDelivered
<1>2. ASSUME phase # "done", phase' # "done", UNCHANGED <<results, completed, exitCode>>,
             stop => stop'
      PROVE  Counted'
  <2>1. exitCode' = Running
    BY <1>2 DEF Counted
  <2> QED
    BY <1>2, <2>1 DEF Counted, Processed, EveryItemSettled, ExitZeroMeansDelivered, Running
<1>3. CASE Environment
  BY <1>2, <1>3 DEF Environment, RequestStop, ForeignCreate
<1>4. CASE Spawn \/ SpawnFails \/ AllSpawned
  BY <1>2, <1>4 DEF Spawn, SpawnFails, AllSpawned, WorkPhases
<1>5. CASE Join
  <2>1. phase # "done" /\ phase' # "done"
    BY <1>5 DEF Join, PhaseAfter, WorkPhases
  <2> QED
    BY <1>2, <1>5, <2>1 DEF Join
<1>6. CASE Summarise
  <2>1. /\ phase = "summary" /\ phase' = "done" /\ results' = Marked(stop)
        /\ UNCHANGED <<path, file, stop, completed, failures>>
    BY <1>6 DEF Summarise
  <2>2. completed \in Nat /\ failures \in Nat /\ stop \in BOOLEAN
    BY DEF TypeOK
  <2>3. ASSUME ~stop, failures = 0
        PROVE  (\A i \in Items : results[i] # "unprocessed") /\ completed = NumItems
    <3>1. \A i \in Items : results[i] # "unprocessed"
      BY <2>1, <2>3 DEF Covered, Complete, Processed, WorkPhases
    <3>2. Processed = Items
      BY <3>1 DEF Processed
    <3> QED
      BY <2>1, <2>3, <3>1, <3>2, ItemsFinite DEF Counted
  <2>4. EveryItemSettled'
    <3>1. ASSUME NEW i \in Items PROVE results'[i] # "unprocessed"
      BY <2>1, <2>2, <2>3 DEF Marked
    <3> QED
      BY <2>1, <2>3, <3>1 DEF EveryItemSettled
  <2>5. ASSUME exitCode' = 0
        PROVE  (\A i \in Items : file[path[i]] # NoFile) /\ completed = NumItems
    <3>1. ~stop /\ failures = 0 /\ \A i \in Items : results'[i] \in {"ok", "skipped"}
      BY <1>6, <2>2, <2>5 DEF Summarise, ExitCodeOf
    <3>2. \A i \in Items : results[i] \in {"ok", "skipped"}
      BY <2>1, <2>3, <3>1 DEF Marked
    <3> QED
      BY <2>3, <3>1, <3>2 DEF Files, Written
  <2> QED
    BY <2>1, <2>4, <2>5 DEF Counted, ExitZeroMeansDelivered
<1> QED
  BY <1>1, <1>3, <1>4, <1>5, <1>6 DEF RunBatch

TruthInv == Schedule /\ Files /\ Covered /\ Counted

LEMMA TruthInit == Init => TruthInv
<1> SUFFICES ASSUME Init PROVE TruthInv
  OBVIOUS
<1>1. TypeOK
  BY InitInv DEF Inv
<1>2. Schedule
  BY ScheduleInit
<1>3. Files
  BY <1>1 DEF Init, Files, Reports, Written, ScanOrderWithinPhase, TypeOK, NoFile, Foreign, Items
<1>4. Covered
  <2>1. ASSUME NEW i \in Items \ Processed
        PROVE  class[i] \in Later(phase) \/ (class[i] = phase /\ InHand(i))
    <3>1. class[i] # "rejected" /\ phase = "ordinary"
      BY DEF Init, Processed
    <3>2. class[i] = "ordinary" => path[i] \in groups
      BY <1>1 DEF Init, WorkOf, GroupOf, TypeOK
    <3> QED
      BY <1>1, <3>1, <3>2 DEF Later, InHand, TypeOK, Classes
  <2> QED
    BY <1>1, <2>1 DEF Init, Covered, Complete, WorkPhases, TypeOK, Workers
<1>5. Counted
  <2>1. Processed = {i \in Items : class[i] = "rejected"}
    BY DEF Init, Processed
  <2> QED
    BY <2>1 DEF Init, Counted, EveryItemSettled, ExitZeroMeansDelivered, Running
<1> QED
  BY <1>2, <1>3, <1>4, <1>5 DEF TruthInv

LEMMA TruthNext == Inv /\ TruthInv /\ [Next]_vars => TruthInv'
<1> SUFFICES ASSUME Inv, TruthInv, [Next]_vars PROVE TruthInv'
  OBVIOUS
<1> USE DEF TruthInv
<1>1. Schedule' /\ Files'
  BY ScheduleNext, FilesNext
<1>2. ASSUME NEW w \in Workers, Worker(w) PROVE Covered' /\ Counted'
  BY <1>2, CoveredWorker, CountedWorker
<1>3. ASSUME RunBatch \/ Environment \/ UNCHANGED vars PROVE Covered' /\ Counted'
  BY <1>3, CoveredMain, CountedMain
<1> QED
  BY <1>1, <1>2, <1>3 DEF Next

\* What the summary says is true at every moment, for any number of inputs, threads
\* and paths: a finished run gave every input a verdict, exit code 0 means an output
\* for each of them, a canceled input left none unless a thread died, and a success
\* is not hidden behind an earlier input of its phase.
THEOREM Truthful == Spec => []ResultsTruthful
<1>1. Inv /\ TruthInv => ResultsTruthful
  <2> SUFFICES ASSUME Inv, TruthInv PROVE ResultsTruthful
    OBVIOUS
  <2>1. ASSUME NEW i \in Items, results[i] = "canceled", class[i] # "large", failures = 0,
               file[path[i]] = i
        PROVE  FALSE
    <3>1. Accounted(i)
      BY <2>1 DEF TruthInv, Files, Written
    <3>2. \A w \in Workers : job[w] # i
      BY <2>1 DEF TruthInv, Schedule, Fresh, Items, NoItem
    <3> QED
      BY <2>1, <3>1, <3>2 DEF Accounted, Committed
  <2> QED
    BY <2>1 DEF TruthInv, Counted, Files, ResultsTruthful, CanceledLeavesNothing
<1> QED
  BY <1>1, TruthInit, TruthNext, InvHolds, PTL DEF Spec
=============================================================================

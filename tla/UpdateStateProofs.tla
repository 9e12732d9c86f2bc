-------------------------- MODULE UpdateStateProofs --------------------------
(* TLAPS proofs about what is remembered of updates: about SecurityState, the
   record of accepted documents, for every number of processes, documents,
   sequences and contents, where the power fails on no platform but Windows, whose
   rename is written through; and about StudioUpdate, the update page, for every
   number of Studios, manifests and versions. *)
EXTENDS SecurityState, StudioUpdate, FiniteSetTheorems, TLAPS

----------------------------------------------------------------------------
(* SecurityState. *)

\* A process between acquire and its return holds the lock.
Exclusive == \A p \in Processes : pc[p] \in Inside => lock = p

\* What a process decides from is what the file says.
Current == \A p \in Processes : pc[p] \in {"decide", "save"} => view[p] = stored

Called == \A p \in Processes : pc[p] # "idle" => call[p] \in Calls

\* What is written is newer than what the file says.
Ahead == \A p \in Processes : pc[p] = "save" => call[p].seq > stored[call[p].doc].seq

Written == \A p \in Processes : pc[p] = "sync" => stored[call[p].doc] = Offered(p)

\* What was accepted is in the file, or something newer is.
Behind == \A d \in Docs : latest[d] = stored[d] \/ latest[d].seq < stored[d].seq

Durable == system = "windows" => disk = stored

StateInv ==
  StateTypeOK /\ Exclusive /\ Current /\ Called /\ Ahead /\ Written /\ Behind /\ Durable

(* The initial states satisfy the invariant. *)
LEMMA StateInitOK == ASSUME StateInit PROVE StateInv
  BY StateAssumption
  DEF StateInit, StateInv, StateTypeOK, Exclusive, Current, Called, Ahead, Written,
     Behind, Durable,
      Blank, Empty, Entry, Inside

(* Entries have a natural sequence, and an entry is its sequence and its bytes. *)
LEMMA Entries ==
  /\ \A e \in Entry : e.seq \in Nat
  /\ \A e, f \in Entry : e.seq = f.seq /\ e.bytes = f.bytes => e = f
  /\ Blank \in [Docs -> Entry]
  <1>1. Empty \in [seq : Nat, bytes : Contents \cup {NoBytes}]
    BY DEF Empty
  <1>2. [seq : Sequences, bytes : Contents] \subseteq [seq : Nat, bytes : Contents \cup {NoBytes}]
    BY StateAssumption
  <1>3. Entry \subseteq [seq : Nat, bytes : Contents \cup {NoBytes}]
    BY <1>1, <1>2 DEF Entry
  <1>4. \A e \in Entry : e.seq \in Nat /\ e = [seq |-> e.seq, bytes |-> e.bytes]
    BY <1>3
  <1>5. \A e, f \in Entry : e.seq = f.seq /\ e.bytes = f.bytes => e = f
    BY <1>4, Zenon
  <1>6. Blank \in [Docs -> Entry]
    BY DEF Entry, Blank
  <1> QED BY <1>4, <1>5, <1>6

(* A verified document arriving keeps the invariant. *)
LEMMA CallOK == ASSUME StateInv, NEW p \in Processes, Call(p) PROVE StateInv'
  <1>1. PICK d \in Docs, s \in Sequences \cup {0}, b \in Contents,
             f \in Sequences \cup {0} :
          /\ s # 0
          /\ call' = [call EXCEPT ![p] = [doc |-> d, seq |-> s, bytes |-> b, floor |-> f]]
    BY DEF Call, Numbered
  <1>2. [doc |-> d, seq |-> s, bytes |-> b, floor |-> f] \in Calls
    BY <1>1 DEF Calls
  <1>3. pc' = [pc EXCEPT ![p] = "lock"] /\ pc[p] = "idle"
        /\ UNCHANGED <<system, stored, disk, lock, view, latest>>
    BY DEF Call, Goto, files
  <1>4. StateTypeOK' /\ Called'
    BY <1>1, <1>2, <1>3 DEF StateInv, StateTypeOK, Called
  <1>5. (Exclusive /\ Current /\ Ahead /\ Written /\ Behind /\ Durable)'
    BY <1>1, <1>3 DEF StateInv, StateTypeOK, Exclusive, Current, Ahead, Written, Behind,
       Durable,
       Offered, Inside
  <1> QED BY <1>4, <1>5 DEF StateInv

(* A refusal at any step keeps the invariant. *)
LEMMA RefuseOK ==
  ASSUME StateInv, NEW p \in Processes, Refuse(p), UNCHANGED <<system, stored>>,
         Durable'
  PROVE  StateInv' \/ disk' # disk
  <1> SUFFICES ASSUME disk' = disk PROVE StateInv'
    OBVIOUS
  <1>1. /\ pc' = [pc EXCEPT ![p] = "idle"]
        /\ lock' = IF lock = p THEN NoProcess ELSE lock
        /\ call' = [call EXCEPT ![p] = NoCall]
        /\ view' = [view EXCEPT ![p] = Blank]
        /\ UNCHANGED <<system, stored, disk, latest>>
    BY DEF Refuse, Return, Goto
  <1>2. StateTypeOK'
    BY <1>1, Entries DEF StateInv, StateTypeOK
  <1>3. (Exclusive /\ Current /\ Called /\ Ahead /\ Written /\ Behind)'
    BY <1>1 DEF StateInv, StateTypeOK, Exclusive, Current, Called, Ahead, Written, Behind,
       Offered, Inside
  <1> QED BY <1>2, <1>3 DEF StateInv

(* Accepting what the file already says, when no other process is inside. *)
LEMMA AcceptOK ==
  ASSUME StateInv, NEW p \in Processes, Accept(p), pc[p] \in Inside,
         call[p] \in Calls,
         UNCHANGED system, stored' \in [Docs -> Entry], disk' \in [Docs -> Entry],
         Durable',
         \A d \in Docs : stored'[d] = stored[d] \/ stored'[d].seq > stored[d].seq,
         stored'[call[p].doc] = Offered(p)
  PROVE  StateInv'
  <1>1. /\ pc' = [pc EXCEPT ![p] = "idle"]
        /\ lock = p /\ lock' = NoProcess
        /\ call' = [call EXCEPT ![p] = NoCall]
        /\ view' = [view EXCEPT ![p] = Blank]
        /\ latest' = [latest EXCEPT ![call[p].doc] = Offered(p)]
    BY DEF Accept, Return, Goto, StateInv, Exclusive
  <1>2. Offered(p) \in Entry /\ call[p].doc \in Docs
    BY DEF Calls, Offered, Entry
  <1>3. StateTypeOK'
    BY <1>1, <1>2, Entries DEF StateInv, StateTypeOK
  <1>4. \A q \in Processes : q # p => pc[q] \notin Inside
    BY <1>1 DEF StateInv, Exclusive
  <1>5. (Exclusive /\ Current /\ Called /\ Ahead /\ Written)'
    BY <1>1, <1>4 DEF StateInv, StateTypeOK, Exclusive, Current, Called, Ahead, Written,
       Inside
  <1>6. Behind'
    <2> SUFFICES ASSUME NEW d \in Docs
                 PROVE  latest'[d] = stored'[d] \/ latest'[d].seq < stored'[d].seq
      BY DEF Behind
    <2>1. CASE d = call[p].doc
      BY <2>1, <1>1 DEF StateInv, StateTypeOK
    <2>2. CASE d # call[p].doc
      <3>1. latest'[d] = latest[d]
        BY <2>2, <1>1 DEF StateInv, StateTypeOK
      <3>2. latest[d].seq \in Nat /\ stored[d].seq \in Nat /\ stored'[d].seq \in Nat
        BY Entries DEF StateInv, StateTypeOK
      <3> QED BY <3>1, <3>2 DEF StateInv, Behind
    <2> QED BY <2>1, <2>2
  <1> QED BY <1>3, <1>5, <1>6 DEF StateInv

(* Waiting for the lock, or failing to get it. *)
LEMMA AcquireOK == ASSUME StateInv, NEW p \in Processes, Acquire(p) PROVE StateInv'
  <1>1. Durable'
    BY DEF Acquire, files, StateInv, Durable
  <1>2. CASE Refuse(p)
    BY <1>1, <1>2, RefuseOK DEF Acquire, files
  <1>3. CASE LockFree /\ lock' = p /\ Goto(p, "read") /\ UNCHANGED <<args, latest>>
    <2>1. /\ pc' = [pc EXCEPT ![p] = "read"] /\ pc[p] = "lock"
          /\ lock = NoProcess /\ lock' = p
          /\ UNCHANGED <<system, stored, disk, call, view, latest>>
      BY <1>3 DEF Acquire, LockFree, Goto, files, args
    <2>2. \A q \in Processes : pc[q] \notin Inside
      BY <2>1, StateAssumption DEF StateInv, Exclusive
    <2>3. StateTypeOK'
      BY <2>1 DEF StateInv, StateTypeOK, Inside
    <2>4. (Exclusive /\ Current /\ Called /\ Ahead /\ Written /\ Behind)'
      BY <2>1, <2>2 DEF StateInv, StateTypeOK, Exclusive, Current, Called, Ahead,
         Written, Behind,
         Offered, Inside
    <2> QED BY <1>1, <2>3, <2>4 DEF StateInv
  <1> QED BY <1>2, <1>3 DEF Acquire

(* Reading the file. *)
LEMMA ReadOK == ASSUME StateInv, NEW p \in Processes, Read(p) PROVE StateInv'
  <1>1. Durable'
    BY DEF Read, files, StateInv, Durable
  <1>2. CASE Refuse(p)
    BY <1>1, <1>2, RefuseOK DEF Read, files
  <1>3. CASE /\ view' = [view EXCEPT ![p] = stored]
             /\ Goto(p, "decide")
             /\ UNCHANGED <<lock, call, latest>>
    <2>1. /\ pc' = [pc EXCEPT ![p] = "decide"] /\ pc[p] = "read"
          /\ view' = [view EXCEPT ![p] = stored]
          /\ UNCHANGED <<system, stored, disk, lock, call, latest>>
      BY <1>3 DEF Read, Goto, files
    <2>2. StateTypeOK'
      BY <2>1 DEF StateInv, StateTypeOK, Inside
    <2>3. (Exclusive /\ Current /\ Called /\ Ahead /\ Written /\ Behind)'
      BY <2>1 DEF StateInv, StateTypeOK, Exclusive, Current, Called, Ahead, Written, Behind,
         Offered, Inside
    <2> QED BY <1>1, <2>2, <2>3 DEF StateInv
  <1> QED BY <1>2, <1>3 DEF Read

(* A document that is neither a step back, nor changed, nor the known one is newer. *)
LEMMA Progress ==
  ASSUME StateInv, NEW p \in Processes, pc[p] = "decide",
         ~StepBack(p), ~Changed(p), Offered(p) # Held(p)
  PROVE  call[p].seq > stored[call[p].doc].seq
  <1>1. call[p] \in Calls /\ view[p] = stored
    BY DEF StateInv, Called, Current
  <1>2. call[p].doc \in Docs /\ call[p].seq \in Nat /\ Offered(p) \in Entry
    BY <1>1, StateAssumption DEF Calls, Offered, Entry
  <1>3. Held(p) = stored[call[p].doc] /\ Held(p) \in Entry
    BY <1>1, <1>2 DEF Held, StateInv, StateTypeOK
  <1>4. ~(call[p].seq < Held(p).seq)
    BY DEF StepBack
  <1>5. ~(call[p].seq = Held(p).seq)
    <2>1. Offered(p).seq = call[p].seq /\ Offered(p).bytes = call[p].bytes
      BY DEF Offered
    <2> QED BY <2>1, <1>2, <1>3, Entries DEF Changed
  <1> QED BY <1>2, <1>3, <1>4, <1>5, Entries

(* The decision. *)
LEMMA DecideOK == ASSUME StateInv, NEW p \in Processes, Decide(p) PROVE StateInv'
  <1>1. Durable' /\ UNCHANGED <<system, stored, disk>> /\ pc[p] = "decide"
    BY DEF Decide, files, StateInv, Durable
  <1>2. CASE Refuse(p)
    BY <1>1, <1>2, RefuseOK
  <1>3. CASE Offered(p) = Held(p) /\ Accept(p)
    <2>1. call[p] \in Calls /\ view[p] = stored
      BY <1>1 DEF StateInv, Called, Current
    <2>2. stored'[call[p].doc] = Offered(p)
      BY <1>1, <1>3, <2>1 DEF Held
    <2>3. pc[p] \in Inside
      BY <1>1 DEF Inside
    <2>4. stored' \in [Docs -> Entry] /\ disk' \in [Docs -> Entry]
      BY <1>1 DEF StateInv, StateTypeOK
    <2> QED BY <1>1, <1>3, <2>1, <2>2, <2>3, <2>4, AcceptOK
  <1>4. CASE /\ ~StepBack(p) /\ ~Changed(p) /\ Offered(p) # Held(p)
             /\ Goto(p, "save")
             /\ UNCHANGED <<lock, args, latest>>
    <2>1. /\ pc' = [pc EXCEPT ![p] = "save"]
          /\ UNCHANGED <<system, stored, disk, lock, call, view, latest>>
      BY <1>1, <1>4 DEF Goto, args
    <2>2. call[p].seq > stored[call[p].doc].seq
      BY <1>1, <1>4, Progress
    <2>3. StateTypeOK'
      BY <2>1 DEF StateInv, StateTypeOK, Inside
    <2>4. (Exclusive /\ Current /\ Called /\ Ahead /\ Written /\ Behind)'
      BY <1>1, <2>1, <2>2 DEF StateInv, StateTypeOK, Exclusive, Current, Called, Ahead,
         Written,
         Behind, Offered, Inside
    <2> QED BY <1>1, <2>3, <2>4 DEF StateInv
  <1> QED BY <1>2, <1>3, <1>4 DEF Decide

(* What Save writes: this document's record, and no other, is newer. *)
LEMMA Forward ==
  ASSUME StateInv, NEW p \in Processes, pc[p] = "save", stored' = Updated(p)
  PROVE  /\ stored' \in [Docs -> Entry]
         /\ stored'[call[p].doc] = Offered(p)
         /\ \A d \in Docs : stored'[d] = stored[d] \/ stored'[d].seq > stored[d].seq
  <1>1. call[p] \in Calls /\ view[p] = stored /\ call[p].seq > stored[call[p].doc].seq
    BY DEF StateInv, Called, Current, Ahead
  <1>2. call[p].doc \in Docs /\ Offered(p) \in Entry /\ Offered(p).seq = call[p].seq
    BY <1>1 DEF Calls, Offered, Entry
  <1>3. stored' = [stored EXCEPT ![call[p].doc] = Offered(p)]
    BY <1>1 DEF Updated
  <1> QED BY <1>1, <1>2, <1>3 DEF StateInv, StateTypeOK

(* Writing the file. *)
LEMMA SaveOK == ASSUME StateInv, NEW p \in Processes, Save(p) PROVE StateInv'
  <1>1. pc[p] = "save" /\ system' = system /\ pc[p] \in Inside /\ call[p] \in Calls
    BY DEF Save, StateInv, Called, Inside
  <1>2. CASE Refuse(p) /\ UNCHANGED files
    BY <1>1, <1>2, RefuseOK DEF files, StateInv, Durable
  <1>3. CASE stored' = Updated(p) /\ system = "windows" /\ disk' = stored' /\ Accept(p)
    <2>1. Durable'
      BY <1>3 DEF Durable
    <2> QED BY <1>1, <1>3, <2>1, Forward, AcceptOK
  <1>4. CASE /\ stored' = Updated(p) /\ system # "windows"
             /\ Goto(p, "sync") /\ UNCHANGED <<disk, lock, args, latest>>
    <2>1. /\ pc' = [pc EXCEPT ![p] = "sync"]
          /\ UNCHANGED <<system, disk, lock, call, view, latest>>
      BY <1>1, <1>4 DEF Goto, args
    <2>2. /\ stored' \in [Docs -> Entry]
          /\ stored'[call[p].doc] = Offered(p)
          /\ \A d \in Docs : stored'[d] = stored[d] \/ stored'[d].seq > stored[d].seq
      BY <1>1, <1>4, Forward
    <2>3. lock = p /\ \A q \in Processes : q # p => pc[q] \notin Inside
      BY <1>1 DEF StateInv, Exclusive
    <2>4. StateTypeOK'
      BY <2>1, <2>2 DEF StateInv, StateTypeOK, Inside
    <2>5. (Exclusive /\ Current /\ Called /\ Ahead /\ Written)'
      BY <1>1, <2>1, <2>2, <2>3 DEF StateInv, StateTypeOK, Exclusive, Current, Called,
         Ahead,
         Written, Offered, Inside
    <2>6. Behind'
      <3>1. \A d \in Docs : latest[d].seq \in Nat /\ stored[d].seq \in Nat
                            /\ stored'[d].seq \in Nat
        BY <2>2, Entries DEF StateInv, StateTypeOK
      <3> QED BY <2>1, <2>2, <3>1 DEF StateInv, Behind
    <2>7. Durable'
      BY <1>4, <2>1 DEF Durable
    <2> QED BY <2>4, <2>5, <2>6, <2>7 DEF StateInv
  <1> QED BY <1>1, <1>2, <1>3, <1>4 DEF Save

(* Making the rename durable, or failing to. *)
LEMMA SyncOK == ASSUME StateInv, NEW p \in Processes, Sync(p) PROVE StateInv'
  <1>1. pc[p] = "sync" /\ UNCHANGED <<system, stored>> /\ pc[p] \in Inside
        /\ call[p] \in Calls
    BY DEF Sync, StateInv, Called, Inside
  <1>2. CASE Refuse(p) /\ UNCHANGED disk
    BY <1>1, <1>2, RefuseOK DEF StateInv, Durable
  <1>3. CASE disk' = stored /\ Accept(p)
    <2>1. Durable' /\ disk' \in [Docs -> Entry] /\ stored' \in [Docs -> Entry]
      BY <1>1, <1>3 DEF Durable, StateInv, StateTypeOK
    <2>2. stored'[call[p].doc] = Offered(p)
      BY <1>1 DEF StateInv, Written
    <2> QED BY <1>1, <1>3, <2>1, <2>2, AcceptOK
  <1> QED BY <1>2, <1>3 DEF Sync

(* A kill at any step. *)
LEMMA KilledOK == ASSUME StateInv, NEW p \in Processes, Killed(p) PROVE StateInv'
  BY RefuseOK DEF Killed, files, StateInv, Durable

(* The system writing back, and the power failing where renames are durable. *)
LEMMA OutsideOK ==
  ASSUME OutagesOn \subseteq {"windows"}, StateInv, WriteBack \/ PowerLoss
  PROVE  StateInv' /\ UNCHANGED <<stored, latest>>
  <1>1. CASE WriteBack
    BY <1>1 DEF WriteBack, args, StateInv, StateTypeOK, Exclusive, Current, Called,
       Ahead, Written,
       Behind, Durable, Offered, Inside
  <1>2. CASE PowerLoss
    <2>1. /\ system = "windows" /\ stored' = stored
          /\ lock' = NoProcess
          /\ pc' = [p \in Processes |-> "idle"]
          /\ call' = [p \in Processes |-> NoCall]
          /\ view' = [p \in Processes |-> Blank]
          /\ UNCHANGED <<system, disk, latest>>
      BY <1>2 DEF PowerLoss, StateInv, Durable
    <2>2. StateTypeOK'
      BY <2>1, Entries DEF StateInv, StateTypeOK
    <2>3. (Exclusive /\ Current /\ Called /\ Ahead /\ Written /\ Behind /\ Durable)'
      BY <2>1 DEF StateInv, Exclusive, Current, Called, Ahead, Written, Behind, Durable,
         Inside
    <2> QED BY <2>1, <2>2, <2>3 DEF StateInv
  <1> QED BY <1>1, <1>2

(* Every step keeps the invariant. *)
LEMMA StateNextOK ==
  ASSUME OutagesOn \subseteq {"windows"}, StateInv, [StateNext]_stateVars PROVE StateInv'
  <1>1. CASE UNCHANGED stateVars
    BY <1>1 DEF stateVars, files, args, StateInv, StateTypeOK, Exclusive, Current,
       Called, Ahead, Written,
       Behind, Durable, Offered, Inside
  <1>2. ASSUME NEW p \in Processes, Step(p) PROVE StateInv'
    BY <1>2, CallOK, AcquireOK, ReadOK, DecideOK, SaveOK, SyncOK, KilledOK DEF Step
  <1> QED BY <1>1, <1>2, OutsideOK DEF StateNext

(* The invariant holds in every reachable state. *)
THEOREM StateInvHolds == ASSUME OutagesOn \subseteq {"windows"} PROVE StateSpec => []StateInv
  BY StateInitOK, StateNextOK, PTL DEF StateSpec

(* Every variable keeps its type. *)
THEOREM StateTypeCorrect ==
  ASSUME OutagesOn \subseteq {"windows"} PROVE StateSpec => []StateTypeOK
  <1>1. StateInv => StateTypeOK
    BY DEF StateInv
  <1> QED BY <1>1, StateInvHolds, PTL

(* No step of any process loses or lowers a record that is in the file. *)
THEOREM RecordsKept == ASSUME OutagesOn \subseteq {"windows"} PROVE StateSpec => RecordsForward
  <1>1. StateInv /\ [StateNext]_stateVars =>
          [\A d \in Docs : stored'[d] = stored[d] \/ stored'[d].seq > stored[d].seq]_stateVars
    <2> SUFFICES ASSUME StateInv, StateNext, NEW d \in Docs
                 PROVE  stored'[d] = stored[d] \/ stored'[d].seq > stored[d].seq
      OBVIOUS
    <2>1. ASSUME NEW p \in Processes, Save(p)
          PROVE  stored'[d] = stored[d] \/ stored'[d].seq > stored[d].seq
      BY <2>1, Forward DEF Save, files
    <2>2. ASSUME NEW p \in Processes, Step(p), ~Save(p)
          PROVE  stored' = stored
      BY <2>2 DEF Step, Call, Acquire, Read, Decide, Sync, Killed, files
    <2>3. WriteBack \/ PowerLoss => stored' = stored
      BY OutsideOK
    <2> QED BY <2>1, <2>2, <2>3 DEF StateNext
  <1> QED BY <1>1, StateInvHolds, PTL DEF StateSpec, RecordsForward

(* No two processes accept documents of one kind out of order, or two that differ
   under one sequence. *)
THEOREM AcceptedForward ==
  ASSUME OutagesOn \subseteq {"windows"} PROVE StateSpec => AcceptsForward
  <1>1. StateInv /\ [StateNext]_stateVars =>
          [\A d \in Docs : latest'[d] = latest[d] \/ latest'[d].seq > latest[d].seq]_stateVars
    <2> SUFFICES ASSUME StateInv, StateNext, NEW d \in Docs
                 PROVE  latest'[d] = latest[d] \/ latest'[d].seq > latest[d].seq
      OBVIOUS
    <2>1. latest[d].seq \in Nat /\ stored[d].seq \in Nat
      BY Entries DEF StateInv, StateTypeOK
    <2>2. ASSUME NEW p \in Processes, Accept(p), call[p] \in Calls,
                 \/ Offered(p) = stored[call[p].doc]
                 \/ call[p].seq > stored[call[p].doc].seq
          PROVE  latest'[d] = latest[d] \/ latest'[d].seq > latest[d].seq
      <3>1. latest' = [latest EXCEPT ![call[p].doc] = Offered(p)]
        BY <2>2 DEF Accept
      <3>2. call[p].doc \in Docs /\ Offered(p).seq = call[p].seq /\ call[p].seq \in Nat
        BY <2>2, StateAssumption DEF Calls, Offered
      <3> QED BY <2>1, <2>2, <3>1, <3>2 DEF StateInv, Behind, StateTypeOK
    <2>3. ASSUME NEW p \in Processes, Step(p)
          PROVE  latest'[d] = latest[d] \/ latest'[d].seq > latest[d].seq
      <3>1. CASE Decide(p)
        <4>1. view[p] = stored /\ call[p] \in Calls
          BY <3>1 DEF Decide, StateInv, Current, Called
        <4> QED BY <3>1, <4>1, <2>2 DEF Decide, Refuse, Held
      <3>2. CASE Save(p)
        <4>1. call[p].seq > stored[call[p].doc].seq /\ call[p] \in Calls
          BY <3>2 DEF Save, StateInv, Ahead, Called
        <4> QED BY <3>2, <4>1, <2>2 DEF Save, Refuse
      <3>3. CASE Sync(p)
        <4>1. Offered(p) = stored[call[p].doc] /\ call[p] \in Calls
          BY <3>3 DEF Sync, StateInv, Written, Called
        <4> QED BY <3>3, <4>1, <2>2 DEF Sync, Refuse
      <3>4. CASE Call(p) \/ Acquire(p) \/ Read(p) \/ Killed(p)
        BY <3>4 DEF Call, Acquire, Read, Killed, Refuse
      <3> QED BY <2>3, <3>1, <3>2, <3>3, <3>4 DEF Step
    <2>4. WriteBack \/ PowerLoss => latest' = latest
      BY DEF WriteBack, PowerLoss
    <2> QED BY <2>3, <2>4 DEF StateNext
  <1> QED BY <1>1, StateInvHolds, PTL DEF StateSpec, AcceptsForward

----------------------------------------------------------------------------
(* StudioUpdate: numbers. *)

(* Induction over the numbers: no finite set fits into a smaller one. *)
LEMMA Induction ==
  ASSUME NEW S \in SUBSET Nat, 0 \in S, \A n \in S : n + 1 \in S
  PROVE  S = Nat
<1> SUFFICES ASSUME NEW N \in Nat, N \notin S PROVE FALSE
  OBVIOUS
<1> DEFINE X == {n \in S : n <= N}
           f == [n \in X |-> n + 1]
<1>1. IsFiniteSet(X) /\ 0 \in X
  BY FS_BoundedSetOfNaturals
<1>2. IsFiniteSet(X \ {0}) /\ Cardinality(X \ {0}) = Cardinality(X) - 1
      /\ Cardinality(X) \in Nat
  BY <1>1, FS_RemoveElement, FS_CardinalityType
<1>3. f \in [X -> X \ {0}]
  <2>1. ASSUME NEW n \in X PROVE n + 1 \in X \ {0}
    BY <2>1
  <2> QED
    BY <2>1
<1>4. \E x, y \in X : x # y /\ f[x] = f[y]
  <2> HIDE DEF X, f
  <2>1. Cardinality(X \ {0}) < Cardinality(X)
    BY <1>2
  <2> QED
    BY <1>1, <1>2, <1>3, <2>1, FS_PigeonHole
<1> QED
  BY <1>4

(* A finite set of numbers has a greatest and a least element. *)
LEMMA Extremes ==
  ASSUME NEW S \in SUBSET Nat, IsFiniteSet(S), S # {}
  PROVE  /\ Max(S) \in S /\ \A x \in S : x <= Max(S)
         /\ Min(S) \in S /\ \A x \in S : Min(S) <= x
<1> DEFINE Bounds(X) == \E low, high \in X : \A x \in X : low <= x /\ x <= high
           K == {k \in Nat : \A X \in SUBSET Nat :
                   IsFiniteSet(X) /\ Cardinality(X) = k + 1 => Bounds(X)}
<1>1. 0 \in K
  <2> SUFFICES ASSUME NEW X \in SUBSET Nat, IsFiniteSet(X), Cardinality(X) = 1
               PROVE  Bounds(X)
    OBVIOUS
  <2>1. PICK x \in X : TRUE
    <3>1. X # {}
      BY FS_EmptySet
    <3> QED
      BY <3>1
  <2>2. X \ {x} = {}
    <3>1. IsFiniteSet(X \ {x}) /\ Cardinality(X \ {x}) = 1 - 1
      BY <2>1, FS_RemoveElement
    <3> QED
      BY <3>1, FS_EmptySet
  <2>3. \A y \in X : y = x
    BY <2>2
  <2> QED
    BY <2>1, <2>3
<1>2. \A k \in K : k + 1 \in K
  <2> SUFFICES ASSUME NEW k \in K, NEW X \in SUBSET Nat, IsFiniteSet(X),
                      Cardinality(X) = k + 2
               PROVE  Bounds(X)
    OBVIOUS
  <2>1. PICK x \in X : TRUE
    <3>1. k + 2 # 0
      OBVIOUS
    <3>2. X # {}
      BY <3>1, FS_EmptySet
    <3> QED
      BY <3>2
  <2>2. IsFiniteSet(X \ {x}) /\ Cardinality(X \ {x}) = k + 1
    <3>1. (k + 2) - 1 = k + 1
      OBVIOUS
    <3> QED
      BY <3>1, <2>1, FS_RemoveElement
  <2>3. PICK low \in X \ {x}, high \in X \ {x} : \A y \in X \ {x} : low <= y /\ y <= high
    BY <2>2
  <2>4. \A y \in X : y = x \/ (low <= y /\ y <= high)
    BY <2>3
  <2>5. /\ (IF x < low THEN x ELSE low) \in X
        /\ (IF x > high THEN x ELSE high) \in X
    BY <2>1, <2>3
  <2>6. \A y \in X : /\ (IF x < low THEN x ELSE low) <= y
                     /\ y <= (IF x > high THEN x ELSE high)
    BY <2>1, <2>3, <2>4
  <2> QED
    BY <2>5, <2>6
<1>3. K = Nat
  <2> HIDE DEF K
  <2> QED
    BY <1>1, <1>2, Induction DEF K
<1>4. Cardinality(S) \in Nat /\ Cardinality(S) # 0
  BY FS_CardinalityType, FS_EmptySet
<1>5. Bounds(S)
  <2>1. Cardinality(S) - 1 \in K
    BY <1>3, <1>4
  <2> QED
    BY <2>1, <1>4
<1> QED
  BY <1>5 DEF Max, Min

(* The greater of two numbers. *)
LEMMA Greater ==
  ASSUME NEW i \in Nat, NEW j \in Nat
  PROVE  Max({i, j}) = IF i >= j THEN i ELSE j
  BY DEF Max

(* The constants. *)
LEMMA Numbers ==
  /\ Offers \subseteq Nat /\ Known \subseteq Nat /\ 0 \notin Versions /\ 0 \notin Manifests
  /\ Min(Versions) \in Versions
<1>1. Versions \subseteq Nat /\ IsFiniteSet(Versions) /\ Versions # {}
  BY UpdateAssumption
<1>2. Min(Versions) \in Versions
  BY <1>1, Extremes
<1> QED
  BY <1>2, UpdateAssumption DEF Offers, Known

(* The candidate is the greatest there is. *)
LEMMA Best ==
  ASSUME NEW m \in Manifests, NEW v \in Versions, NEW channel
  PROVE  /\ Candidate(m, v, channel) \in Candidates(m, v, channel) \union {0}
         /\ Candidate(m, v, channel) \in Offers
         /\ \A c \in Candidates(m, v, channel) : c <= Candidate(m, v, channel)
<1> DEFINE C == Candidates(m, v, channel)
<1>1. C \subseteq Versions
  BY UpdateAssumption DEF Candidates
<1>2. IsFiniteSet({0} \union C)
  <2>1. IsFiniteSet(C)
    BY <1>1, FS_Subset, UpdateAssumption
  <2> QED
    BY <2>1, FS_AddElement
<1>3. {0} \union C \in SUBSET Nat
  BY <1>1, Numbers DEF Offers
<1>4. Max({0} \union C) \in {0} \union C /\ \A x \in {0} \union C : x <= Max({0} \union C)
  <2> HIDE DEF C
  <2> QED
    BY <1>2, <1>3, Extremes
<1> QED
  BY <1>1, <1>4 DEF Candidate, Offers

----------------------------------------------------------------------------
(* The invariant. *)

\* The cached manifest is the one taken over last, and the pending version is
\* not one it revokes; r is the machine's record.
Good(u, r) ==
  /\ u.cache \in {0, u.sequence} /\ u.sequence <= r
  /\ u.sequence # 0 => u.pending \notin Revoked[u.sequence]

\* What is installed for a job is the best its manifest has for that version.
BestOf(job, m, version) ==
  /\ job.want \in Listed[m] \ Revoked[m] /\ job.want > version
  /\ \A v \in Candidates(m, version, job.channel) : v <= job.want

\* A job began with the sequence the Studio still has, and its answer is newer; a
\* download is of the best the manifest fetched for it has.
JobOK(st, r) ==
  /\ st.job.kind \in {"check", "install"} => st.job.number = st.mem.sequence
  /\ st.job.kind = "answered" /\ st.job.number # 0 =>
       st.mem.sequence <= st.job.number /\ st.job.number <= r
  /\ st.job.kind = "install" => st.job.want > st.version
  /\ st.job.kind = "loading" =>
       st.job.number \in Manifests /\ BestOf(st.job, st.job.number, st.version)

StudioOK(st, r) ==
  Good(st.mem, r) /\ JobOK(st, r) /\ st.history = History(st.version, st.mem.cache)

\* Two update states that look the same to the program of a version.
Same(u, w, v) ==
  /\ Offer(u, v) = Offer(w, v)
  /\ u.channel = w.channel /\ u.changelog = w.changelog
  /\ u.sequence = w.sequence /\ u.checked = w.checked

\* What a Studio read or wrote last is in its memory and in what it compares with.
Mirrors(st, f) == Same(st.mem, f, st.version) /\ Same(st.snapshot, f, st.version)

StudiosOK == \A s \in Studios : studio[s].on => StudioOK(studio[s], record)
InStepOK == \A s \in inStep : studio[s].on => Mirrors(studio[s], file)

\* A helper keeps the job and its manifest, and the version it replaced.
HelperOK(h) ==
  /\ h.asked.number \in Manifests /\ BestOf(h.asked, h.asked.number, h.by)
  /\ h.phase \in {"replaced", "started"} => h.from \in Versions
HelpersOK == \A s \in Studios : helper[s] # Idle => HelperOK(helper[s])

UpdateInv == TypeOK /\ Good(file, record) /\ StudiosOK /\ InStepOK /\ HelpersOK

----------------------------------------------------------------------------
(* What every step does to a Studio that goes on running, and to a helper. *)

\* An offer that is gone was revoked, or is for another channel.
OfferKept(st, y) ==
  Offer(st.mem, st.version) # 0 /\ Offer(y.mem, y.version) = 0 =>
    \/ st.mem.pending \in Revoked[y.mem.sequence]
    \/ y.mem.channel # st.mem.channel
    \/ st.job.channel # st.mem.channel

Onward(st, y) == y.mem.sequence >= st.mem.sequence /\ OfferKept(st, y)

\* A helper that goes on has the best of the newest manifest accepted.
Verified(s) ==
  Goes(s, "starts") /\ Goes(s, "waits")' =>
    BestOf(helper[s].asked, record', helper[s].by)

HelperSteps ==
  /\ helper' \in [Studios -> Helpers \union {Idle}]
  /\ HelpersOK' /\ \A s \in Studios : Verified(s)

StepOK ==
  /\ record' >= record
  /\ \A t \in Studios : studio[t].on /\ studio'[t].on => Onward(studio[t], studio'[t])
  /\ \A t \in Studios : Verified(t)

----------------------------------------------------------------------------
(* Update states. *)

(* The parts of a Studio that runs. *)
LEMMA Parts ==
  ASSUME NEW st \in Running
  PROVE  /\ st.on /\ st.version \in Versions /\ st.mem \in UpdateState
         /\ st.snapshot \in UpdateState /\ st.history \in SUBSET Versions
         /\ st.writable \in BOOLEAN /\ st.converting \in BOOLEAN /\ st.job \in Jobs
         /\ st.job.channel \in {"stable", "prerelease"} /\ st.job.number \in Known
         /\ st.job.want \in Offers
  BY DEF Running, Jobs

(* The parts of an update state. *)
LEMMA Fields ==
  ASSUME NEW u \in UpdateState
  PROVE  /\ u.channel \in {"stable", "prerelease"} /\ u.changelog \in BOOLEAN
         /\ u.language \in BOOLEAN /\ u.seen \in Offers /\ u.checked \in BOOLEAN
         /\ u.sequence \in Known /\ u.pending \in Offers /\ u.cache \in Known
  BY DEF UpdateState

(* A Studio that runs is a running one. *)
LEMMA On ==
  ASSUME TypeOK, NEW s \in Studios
  PROVE  /\ studio[s] \in Running \union {Off}
         /\ studio[s].on <=> studio[s] \in Running
         /\ Off.on = FALSE
<1>1. studio[s] \in Running \union {Off}
  BY DEF TypeOK
<1>2. Off.on = FALSE
  BY DEF Off
<1>3. \A st \in Running : st.on = TRUE
  BY DEF Running
<1> QED
  BY <1>1, <1>2, <1>3

(* The state at the very first start. *)
LEMMA Fallback == ASSUME NEW r \in Nat PROVE Defaults \in UpdateState /\ Good(Defaults, r)
<1>1. Defaults \in UpdateState
  BY DEF Defaults, UpdateState, Offers, Known
<1>2. Defaults.cache = 0 /\ Defaults.sequence = 0
  BY DEF Defaults
<1> QED
  BY <1>1, <1>2 DEF Good

(* A newer record covers what the older one did. *)
LEMMA Covers ==
  ASSUME NEW r \in Nat, NEW q \in Nat, r <= q,
         NEW u \in UpdateState, Good(u, r)
  PROVE  Good(u, q)
<1>1. u.sequence \in Nat
  BY Numbers, Fields
<1>2. u.sequence <= q
  BY <1>1 DEF Good
<1> QED
  BY <1>2 DEF Good

(* Restoring a cached manifest keeps the sequence and the pending version. *)
LEMMA CacheKept ==
  ASSUME NEW u \in UpdateState, NEW r \in Nat, Good(u, r), NEW verifies
  PROVE  /\ CacheRestored(u, verifies) \in UpdateState
         /\ Good(CacheRestored(u, verifies), r)
         /\ \A v \in Versions : Same(CacheRestored(u, verifies), u, v)
<1> DEFINE w == CacheRestored(u, verifies)
<1>1. CASE u.cache # 0 /\ verifies /\ Fresh(u.cache, u.sequence)
  <2>1. u.cache = u.sequence /\ u.sequence \in Nat
    BY <1>1, Numbers, Fields DEF Good
  <2>2. Max({u.sequence, u.cache}) = u.sequence
    BY <2>1, Greater
  <2>3. w = [u EXCEPT !.sequence = u.sequence]
    BY <1>1, <2>2 DEF CacheRestored
  <2>4. w = u
    BY <2>3 DEF UpdateState
  <2> QED
    BY <2>4 DEF Same
<1>2. CASE ~ (u.cache # 0 /\ verifies /\ Fresh(u.cache, u.sequence))
  <2>1. w = [u EXCEPT !.cache = 0]
    BY <1>2 DEF CacheRestored
  <2>2. w \in UpdateState
    BY <2>1 DEF UpdateState, Known
  <2>3. /\ w.cache = 0 /\ w.sequence = u.sequence /\ w.pending = u.pending
        /\ w.channel = u.channel /\ w.changelog = u.changelog /\ w.checked = u.checked
    BY <2>1 DEF UpdateState
  <2> QED
    BY <2>2, <2>3 DEF Good, Same, Offer, Newer
<1> QED
  BY <1>1, <1>2

(* What a Studio loads is as good as the file, and looks like it if it was read. *)
LEMMA LoadedOK ==
  ASSUME TypeOK, Good(file, record), NEW readable \in BOOLEAN, NEW verifies
  PROVE  /\ Loaded(readable, verifies) \in UpdateState
         /\ Good(Loaded(readable, verifies), record)
         /\ readable => \A v \in Versions : Same(Loaded(readable, verifies), file, v)
<1> DEFINE w == IF readable THEN file ELSE Defaults
<1>1. record \in Nat
  BY Numbers DEF TypeOK
<1>2. w \in UpdateState /\ Good(w, record)
  BY <1>1, Fallback DEF TypeOK
<1>3. Loaded(readable, verifies) = CacheRestored(w, verifies)
  BY DEF Loaded
<1> HIDE DEF w
<1>4. /\ CacheRestored(w, verifies) \in UpdateState /\ Good(CacheRestored(w, verifies), record)
      /\ \A v \in Versions : Same(CacheRestored(w, verifies), w, v)
  BY <1>1, <1>2, CacheKept
<1> QED
  BY <1>3, <1>4 DEF w

(* A pending version that is this program's own may go: it is no offer. *)
LEMMA ClearedOK ==
  ASSUME NEW u \in UpdateState, NEW r \in Nat, Good(u, r)
  PROVE  /\ Cleared(u) \in UpdateState /\ Good(Cleared(u), r)
         /\ Cleared(u).cache = u.cache /\ Cleared(u).sequence = u.sequence
         /\ \A w, v : Same(u, w, v) /\ v = u.pending /\ v \in Versions => Same(Cleared(u), w, v)
<1>1. Cleared(u) = [u EXCEPT !.pending = 0]
  BY DEF Cleared
<1>2. Cleared(u) \in UpdateState
  BY <1>1 DEF UpdateState, Offers
<1>3. /\ Cleared(u).cache = u.cache /\ Cleared(u).sequence = u.sequence
      /\ Cleared(u).channel = u.channel /\ Cleared(u).changelog = u.changelog
      /\ Cleared(u).checked = u.checked /\ Cleared(u).pending = 0
  BY <1>1 DEF UpdateState
<1>4. u.sequence # 0 => 0 \notin Revoked[u.sequence]
  BY Fields, UpdateAssumption DEF Known
<1>5. Good(Cleared(u), r)
  BY <1>3, <1>4 DEF Good
<1>6. ASSUME NEW w, NEW v, Same(u, w, v), v = u.pending, v \in Versions
      PROVE  Same(Cleared(u), w, v)
  <2>1. v \in Nat /\ v > 0
    BY <1>6, UpdateAssumption
  <2>2. Offer(u, v) = 0 /\ Offer(Cleared(u), v) = 0
    BY <1>3, <1>6, <2>1 DEF Offer, Newer
  <2> QED
    BY <1>3, <1>6, <2>2 DEF Same
<1> QED
  BY <1>2, <1>3, <1>5, <1>6

(* What a manifest makes of an update state. *)
LEMMA TakenOK ==
  ASSUME NEW st \in Running, NEW job \in Jobs, job.number # 0, NEW r \in Nat, job.number <= r
  PROVE  LET u == Taken(st, job)
             candidate == Candidate(job.number, st.version, job.channel)
         IN /\ u \in UpdateState /\ Good(u, r)
            /\ u.cache = job.number /\ u.sequence = job.number
            /\ u.channel = st.mem.channel
            /\ \/ u.pending = candidate /\ candidate # 0
               \/ u.pending = st.mem.pending
               \/ st.mem.pending \in Revoked[job.number]
<1> DEFINE m == job.number
           candidate == Candidate(m, st.version, job.channel)
           c == ClearedFor(st.mem, m)
           f == Found(c, candidate)
           u == Taken(st, job)
<1>1. m \in Manifests /\ st.version \in Versions /\ st.mem \in UpdateState
  BY Parts DEF Jobs, Known
<1>2. candidate \in Candidates(m, st.version, job.channel) \union {0} /\ candidate \in Offers
  BY <1>1, Best
<1>3. candidate # 0 => candidate \notin Revoked[m]
  BY <1>2 DEF Candidates
<1>4. 0 \notin Revoked[m]
  BY <1>1, UpdateAssumption
<1> HIDE DEF candidate, m
<1>5. /\ c \in UpdateState /\ c.channel = st.mem.channel
      /\ c.pending \notin Revoked[m]
      /\ c.pending = st.mem.pending \/ st.mem.pending \in Revoked[m]
  <2>1. CASE st.mem.pending \in Revoked[m]
    <3>1. c = [st.mem EXCEPT !.pending = 0]
      BY <2>1 DEF ClearedFor, Cleared
    <3> QED
      BY <1>1, <1>4, <2>1, <3>1 DEF UpdateState, Offers
  <2>2. CASE st.mem.pending \notin Revoked[m]
    BY <1>1, <2>2 DEF ClearedFor
  <2> QED
    BY <2>1, <2>2
<1> HIDE DEF c
<1>6. /\ f \in UpdateState /\ f.channel = st.mem.channel
      /\ f.pending \notin Revoked[m]
      /\ \/ f.pending = candidate /\ candidate # 0
         \/ f.pending = st.mem.pending
         \/ st.mem.pending \in Revoked[m]
  <2>1. CASE candidate = 0
    BY <1>5, <2>1 DEF Found
  <2>2. CASE candidate # 0
    <3>1. f = [c EXCEPT !.pending = candidate]
      BY <2>2 DEF Found
    <3> QED
      BY <1>2, <1>3, <1>5, <2>2, <3>1 DEF UpdateState
  <2> QED
    BY <2>1, <2>2
<1> HIDE DEF f
<1>7. u = [f EXCEPT !.cache = m, !.checked = TRUE, !.sequence = m]
  BY DEF Taken, f, c, candidate, m
<1> HIDE DEF u
<1>8. u \in UpdateState
  BY <1>1, <1>6, <1>7 DEF UpdateState, Known
<1>9. u.cache = m /\ u.sequence = m /\ u.pending = f.pending /\ u.channel = f.channel
  BY <1>6, <1>7 DEF UpdateState
<1>10. Good(u, r)
  BY <1>6, <1>9 DEF Good, m
<1> QED
  BY <1>6, <1>8, <1>9, <1>10 DEF u, candidate, m

(* Looking the same, for a state of which only the language changed. *)
LEMMA LanguageApart ==
  ASSUME NEW u \in UpdateState, NEW language \in BOOLEAN
  PROVE  LET w == [u EXCEPT !.language = language]
         IN /\ w \in UpdateState /\ w.sequence = u.sequence /\ w.pending = u.pending
            /\ w.channel = u.channel /\ w.cache = u.cache
            /\ \A r : Good(u, r) => Good(w, r)
            /\ \A f, v : Same(u, f, v) => Same(w, f, v)
<1> DEFINE w == [u EXCEPT !.language = language]
<1>1. /\ w \in UpdateState /\ w.sequence = u.sequence /\ w.pending = u.pending
      /\ w.channel = u.channel /\ w.cache = u.cache /\ w.changelog = u.changelog
      /\ w.checked = u.checked
  BY DEF UpdateState
<1> HIDE DEF w
<1>2. /\ \A r : Good(u, r) => Good(w, r)
      /\ \A f, v : Same(u, f, v) => Same(w, f, v)
  BY <1>1 DEF Good, Same, Offer, Newer
<1> QED
  BY <1>1, <1>2 DEF w

----------------------------------------------------------------------------
(* Steps. *)

(* A step that leaves the helpers alone. *)
LEMMA HelpersKept == ASSUME UpdateInv, helper' = helper PROVE HelperSteps
<1>1. HelpersOK' /\ helper' \in [Studios -> Helpers \union {Idle}]
  BY DEF UpdateInv, HelpersOK, TypeOK
<1>2. \A s \in Studios : Verified(s)
  BY DEF Verified, Goes
<1> QED
  BY <1>1, <1>2 DEF HelperSteps

(* A step that changes one helper. *)
LEMMA HelperChanged ==
  ASSUME UpdateInv, NEW s \in Studios, NEW h \in Helpers \union {Idle},
         helper' = [helper EXCEPT ![s] = h],
         h # Idle => HelperOK(h),
         Goes(s, "starts") /\ h.phase = "waits" =>
           BestOf(helper[s].asked, record', helper[s].by)
  PROVE  HelperSteps
<1>1. \A t \in Studios : helper'[t] = IF t = s THEN h ELSE helper[t]
  BY DEF UpdateInv, TypeOK
<1>2. helper' \in [Studios -> Helpers \union {Idle}]
  BY DEF UpdateInv, TypeOK
<1>3. HelpersOK'
  BY <1>1 DEF UpdateInv, HelpersOK
<1>4. ASSUME NEW t \in Studios PROVE Verified(t)
  <2>1. CASE t = s
    BY <1>1, <2>1 DEF Verified, Goes
  <2>2. CASE t # s
    BY <1>1, <2>2 DEF Verified, Goes
  <2> QED
    BY <2>1, <2>2
<1> QED
  BY <1>2, <1>3, <1>4 DEF HelperSteps

(* The parts of a helper that works. *)
LEMMA HelperParts ==
  ASSUME UpdateInv, NEW s \in Studios, helper[s] # Idle
  PROVE  /\ helper[s] \in Helpers /\ HelperOK(helper[s])
         /\ helper[s].asked \in Jobs /\ helper[s].asked.number \in Manifests
         /\ helper[s].asked.want \in Versions /\ helper[s].child \in Studios
<1>1. helper[s] \in Helpers /\ HelperOK(helper[s])
  BY DEF UpdateInv, TypeOK, HelpersOK
<1>2. helper[s].asked.number \in Manifests /\ helper[s].asked.want \in Versions
  BY <1>1, UpdateAssumption DEF HelperOK, BestOf
<1> QED
  BY <1>1, <1>2 DEF Helpers

\* What the file may be after a step of the Studio s.
Files(s) ==
  /\ file' \in UpdateState /\ Good(file', record')
  /\ inStep' \subseteq inStep \union {s}
  /\ \A t \in inStep' : t # s => t \in inStep /\ file' = file

(* A step that changes one Studio keeps the invariant, if that Studio does. *)
LEMMA OneStudio ==
  ASSUME UpdateInv, NEW s \in Studios, NEW y \in Running \union {Off},
         studio' = [studio EXCEPT ![s] = y],
         platform' = platform, installed' \in Versions, served' = served,
         record' \in Known, record <= record',
         HelperSteps,
         edits' \in 0 .. MaxEdits, faults' \in 0 .. MaxFaults, starts' \in 0 .. MaxStarts,
         Files(s),
         y \in Running => StudioOK(y, record'),
         y \in Running /\ s \in inStep' => Mirrors(y, file'),
         studio[s] \in Running /\ y \in Running => Onward(studio[s], y)
  PROVE  UpdateInv' /\ StepOK
<1>1. TypeOK'
  BY DEF UpdateInv, TypeOK, Files, HelperSteps
<1>2. \A t \in Studios : studio'[t] = IF t = s THEN y ELSE studio[t]
  BY DEF UpdateInv, TypeOK
<1>3. Good(file', record')
  BY DEF Files
<1>4. StudiosOK'
  <2> SUFFICES ASSUME NEW t \in Studios, studio'[t].on
               PROVE  StudioOK(studio'[t], record')
    BY DEF StudiosOK
  <2>1. CASE t = s
    <3>1. studio'[t] = y /\ y \in Running
      BY <1>2, <2>1, On DEF UpdateInv
    <3> QED
      BY <3>1
  <2>2. CASE t # s
    <3>1. studio'[t] = studio[t] /\ studio[t] \in Running
      BY <1>2, <2>2, On DEF UpdateInv
    <3>2. StudioOK(studio[t], record)
      BY <3>1, On DEF UpdateInv, StudiosOK
    <3>3. record \in Nat /\ record' \in Nat /\ studio[t].mem \in UpdateState
          /\ studio[t].job.number \in Nat
      BY <3>1, Numbers, Parts DEF UpdateInv, TypeOK
    <3>4. Good(studio[t].mem, record')
      BY <3>2, <3>3, Covers DEF StudioOK
    <3>5. JobOK(studio[t], record')
      BY <3>2, <3>3 DEF StudioOK, JobOK
    <3> QED
      BY <3>1, <3>2, <3>4, <3>5 DEF StudioOK
  <2> QED
    BY <2>1, <2>2
<1>5. InStepOK'
  <2> SUFFICES ASSUME NEW t \in inStep', studio'[t].on
               PROVE  Mirrors(studio'[t], file')
    BY DEF InStepOK
  <2>0. t \in Studios
    BY <1>1 DEF TypeOK
  <2>1. CASE t = s
    <3>1. studio'[t] = y /\ y \in Running
      BY <1>2, <2>0, <2>1, On DEF UpdateInv
    <3> QED
      BY <2>1, <3>1
  <2>2. CASE t # s
    <3>1. studio'[t] = studio[t] /\ t \in inStep /\ file' = file
      BY <1>2, <2>0, <2>2 DEF Files
    <3> QED
      BY <3>1 DEF UpdateInv, InStepOK
  <2> QED
    BY <2>1, <2>2
<1>6. StepOK
  <2>1. record' >= record
    BY Numbers DEF UpdateInv, TypeOK
  <2> SUFFICES ASSUME NEW t \in Studios, studio[t].on, studio'[t].on
               PROVE  Onward(studio[t], studio'[t])
    BY <2>1 DEF StepOK, HelperSteps
  <2>2. studio[t] \in Running
    BY On DEF UpdateInv
  <2>3. CASE t = s
    <3>1. studio'[t] = y /\ y \in Running
      BY <1>2, <2>3, On DEF UpdateInv
    <3> QED
      BY <2>2, <2>3, <3>1
  <2>4. CASE t # s
    <3>1. studio'[t] = studio[t]
      BY <1>2, <2>4
    <3>2. studio[t].mem.sequence \in Nat
      BY <2>2, Parts, Fields, Numbers
    <3> QED
      BY <3>1, <3>2 DEF Onward, OfferKept
  <2> QED
    BY <2>3, <2>4
<1> QED
  BY <1>1, <1>3, <1>4, <1>5, <1>6 DEF UpdateInv, HelperSteps

(* The counters. *)
LEMMA Counters ==
  ASSUME TypeOK
  PROVE  /\ Fault => faults' \in 0 .. MaxFaults
         /\ Edit => edits' \in 0 .. MaxEdits
         /\ Bounded => starts' \in 0 .. MaxStarts
         /\ edits \in 0 .. MaxEdits /\ faults \in 0 .. MaxFaults /\ starts \in 0 .. MaxStarts
  BY UpdateAssumption DEF TypeOK, Fault, Edit, Bounded

(* Saving a good state: the memory, the file and what was written last agree. *)
LEMMA SavedOK ==
  ASSUME UpdateInv, NEW s \in Studios, studio[s] \in Running,
         NEW st \in Running, st.mem = studio[s].mem, st.snapshot = studio[s].snapshot,
         st.version = studio[s].version,
         NEW u \in UpdateState, Good(u, record), record' = record,
         NEW checkedNow \in BOOLEAN, NEW outcome \in Outcomes(st, u, checkedNow),
         Saving(s, st, u, outcome)
  PROVE  LET y == Saved(st, u, outcome)
         IN /\ Files(s) /\ faults' \in 0 .. MaxFaults
            /\ y \in Running /\ Good(y.mem, record)
            /\ s \in inStep' => Mirrors(y, file')
            /\ y.version = st.version /\ y.history = st.history /\ y.job = st.job
            /\ outcome \notin Errors => y.mem = u
            /\ outcome \in Errors =>
                 /\ y.mem.sequence = st.mem.sequence /\ y.mem.pending = st.mem.pending
                 /\ y.mem.channel = st.mem.channel /\ y.mem.cache = st.mem.cache
<1> DEFINE y == Saved(st, u, outcome)
<1>1. Good(st.mem, record) /\ st.mem \in UpdateState /\ st.snapshot \in UpdateState
      /\ file \in UpdateState /\ Good(file, record)
  <2>1. studio[s].on
    BY Parts
  <2> QED
    BY <2>1, Parts DEF UpdateInv, StudiosOK, StudioOK, TypeOK
<1>2. s \in inStep => Mirrors(st, file)
  <2>1. studio[s].on
    BY Parts
  <2> QED
    BY <2>1 DEF UpdateInv, InStepOK, Mirrors
<1>3. faults' \in 0 .. MaxFaults
  BY Counters DEF Saving, UpdateInv
<1>4. outcome \in {"skipped", "failed", "unsynced", "written"}
  BY DEF Outcomes
<1>5. CASE outcome = "written"
  <2>1. file' = u /\ inStep' = {s}
    BY <1>5 DEF Saving, Write
  <2>2. y = [st EXCEPT !.mem = u, !.snapshot = u]
    BY <1>5 DEF Saved, Errors
  <2>3. y \in Running /\ y.mem = u /\ y.snapshot = u /\ y.version = st.version
        /\ y.history = st.history /\ y.job = st.job
    BY <2>2 DEF Running
  <2> HIDE DEF y
  <2>4. Files(s)
    BY <2>1 DEF Files
  <2>5. Mirrors(y, file')
    BY <2>1, <2>3 DEF Mirrors, Same
  <2> QED
    BY <1>3, <1>5, <2>3, <2>4, <2>5 DEF y, Errors
<1>6. CASE outcome = "skipped"
  <2>1. file' = file /\ inStep' = inStep
    BY <1>6 DEF Saving, NoWrite
  <2>2. Files(s)
    BY <1>1, <2>1 DEF Files
  <2>3. u = st.snapshot
    BY <1>6 DEF Outcomes
  <2>4. y = [st EXCEPT !.mem = u, !.snapshot = u]
    BY <1>6 DEF Saved, Errors
  <2>5. y \in Running /\ y.mem = u /\ y.snapshot = u /\ y.version = st.version
        /\ y.history = st.history /\ y.job = st.job
    BY <2>4 DEF Running
  <2> HIDE DEF y
  <2>6. s \in inStep' => Mirrors(y, file')
    BY <1>2, <2>1, <2>3, <2>5 DEF Mirrors
  <2> QED
    BY <1>3, <1>6, <2>2, <2>5, <2>6 DEF y, Errors
<1>7. CASE outcome \in Errors
  <2> DEFINE w == [st.mem EXCEPT !.language = u.language]
  <2>1. y = [st EXCEPT !.mem = w]
    BY <1>7 DEF Saved, Restored
  <2>2. /\ w \in UpdateState /\ w.sequence = st.mem.sequence
        /\ w.pending = st.mem.pending /\ w.channel = st.mem.channel
        /\ w.cache = st.mem.cache /\ Good(w, record)
        /\ \A f, v : Same(st.mem, f, v) => Same(w, f, v)
    BY <1>1, Fields, LanguageApart
  <2> HIDE DEF w
  <2>3. y \in Running /\ y.mem = w /\ y.snapshot = st.snapshot /\ y.version = st.version
        /\ y.history = st.history /\ y.job = st.job
    BY <2>1, <2>2 DEF Running
  <2> HIDE DEF y
  <2>4. /\ file' \in {file, u} /\ inStep' \subseteq inStep
        /\ inStep' # {} => file' = file
    BY <1>7 DEF Saving, WriteUnsynced, NoWrite, Errors
  <2>5. Files(s)
    BY <1>1, <2>4 DEF Files
  <2>6. s \in inStep' => Mirrors(y, file')
    BY <1>2, <2>2, <2>3, <2>4 DEF Mirrors
  <2> QED
    BY <1>3, <1>7, <2>2, <2>3, <2>5, <2>6 DEF y
<1> QED
  BY <1>4, <1>5, <1>6, <1>7 DEF Errors

(* A step that leaves the file and a Studio's update state alone. *)
LEMMA Untouched ==
  ASSUME UpdateInv, NEW s \in Studios, studio[s] \in Running, NEW y \in Running,
         y.mem = studio[s].mem, y.snapshot = studio[s].snapshot,
         y.version = studio[s].version, y.history = studio[s].history,
         record' \in Known, record <= record', JobOK(y, record'),
         UNCHANGED <<file, inStep>>
  PROVE  Files(s) /\ StudioOK(y, record') /\ (s \in inStep' => Mirrors(y, file'))
<1>1. studio[s].on /\ studio[s].mem \in UpdateState /\ file \in UpdateState
      /\ record \in Nat /\ record' \in Nat
  BY Parts, Numbers DEF UpdateInv, TypeOK
<1>2. StudioOK(studio[s], record) /\ Good(file, record)
      /\ (s \in inStep => Mirrors(studio[s], file))
  BY <1>1 DEF UpdateInv, StudiosOK, InStepOK
<1>3. Good(file, record') /\ Good(studio[s].mem, record')
  BY <1>1, <1>2, Covers DEF StudioOK
<1>4. Files(s)
  BY <1>1, <1>3 DEF Files
<1>5. StudioOK(y, record')
  BY <1>2, <1>3 DEF StudioOK
<1> QED
  BY <1>2, <1>4, <1>5 DEF Mirrors

(* The file as it was, for a step that ends a Studio or turns nothing. *)
LEMMA FileKept ==
  ASSUME UpdateInv, NEW s \in Studios, file' = file, inStep' \subseteq inStep \union {s},
         record' = record
  PROVE  Files(s)
  BY DEF UpdateInv, TypeOK, Files

(* The job of a Studio changes. *)
LEMMA JobChanged ==
  ASSUME NEW st \in Running, NEW j \in Jobs
  PROVE  LET y == [st EXCEPT !.job = j]
         IN /\ y \in Running /\ y.job = j /\ y.mem = st.mem /\ y.snapshot = st.snapshot
            /\ y.version = st.version /\ y.history = st.history
  BY DEF Running

(* A job as it goes on. *)
LEMMA JobGoesOn ==
  ASSUME NEW j \in Jobs,
         NEW kind \in JobKinds
  PROVE  /\ NoJob \in Jobs /\ NoJob.kind = "none"
         /\ [j EXCEPT !.kind = kind] \in Jobs
         /\ [j EXCEPT !.kind = kind].kind = kind
         /\ [j EXCEPT !.kind = kind].number = j.number
         /\ [j EXCEPT !.kind = kind].want = j.want
  BY DEF Jobs, JobKinds, NoJob, Known, Offers

(* The record after a manifest was accepted. *)
LEMMA RecordedOK ==
  ASSUME TypeOK, NEW m \in Manifests, NEW floor, Accepted(m, floor)
  PROVE  Recorded(m) = m /\ record <= m /\ m \in Known
<1>1. record \in Nat /\ m \in Nat /\ m >= record
  BY Numbers DEF TypeOK, Known, Accepted
<1>2. Recorded(m) = IF record >= m THEN record ELSE m
  BY <1>1, Greater DEF Recorded
<1> QED
  BY <1>1, <1>2 DEF Known

(* A step that changes the job only. *)
LEMMA JobStep ==
  ASSUME UpdateInv, NEW s \in Studios, studio[s] \in Running, NEW j \in Jobs,
         studio' = [studio EXCEPT ![s] = [studio[s] EXCEPT !.job = j]],
         JobOK([studio[s] EXCEPT !.job = j], record'),
         platform' = platform, installed' \in Versions, served' = served,
         record' \in Known, record <= record',
         HelperSteps, UNCHANGED <<file, inStep>>,
         edits' \in 0 .. MaxEdits, faults' \in 0 .. MaxFaults, starts' \in 0 .. MaxStarts
  PROVE  UpdateInv' /\ StepOK
<1> DEFINE st == studio[s]
           y == [st EXCEPT !.job = j]
<1>1. y \in Running /\ y.job = j /\ y.mem = st.mem /\ y.snapshot = st.snapshot
      /\ y.version = st.version /\ y.history = st.history
  BY JobChanged
<1> HIDE DEF y
<1>2. Files(s) /\ StudioOK(y, record') /\ (s \in inStep' => Mirrors(y, file'))
  BY <1>1, Untouched DEF y
<1>3. Onward(studio[s], y)
  <2>1. st.mem.sequence \in Nat
    BY Parts, Fields, Numbers
  <2> QED
    BY <1>1, <2>1 DEF Onward, OfferKept
<1> QED
  BY <1>1, <1>2, <1>3, OneStudio DEF y

(* A check gets an answer. *)
LEMMA FetchOK ==
  ASSUME UpdateInv, NEW s \in Studios, NEW m \in Manifests, Fetch(s, m)
  PROVE  UpdateInv' /\ StepOK
<1> DEFINE st == studio[s]
           j == [st.job EXCEPT !.kind = "answered", !.number = m]
<1>1. st \in Running /\ st.job.kind = "check" /\ TypeOK
  BY On DEF Fetch, UpdateInv
<1>2. studio' = [studio EXCEPT ![s] = [st EXCEPT !.job = j]]
  BY DEF Fetch
<1>3. record' = m /\ record <= m /\ m \in Known
  BY <1>1, RecordedOK DEF Fetch
<1>4. j \in Jobs /\ j.kind = "answered" /\ j.number = m
  <2>1. st.job \in Jobs
    BY <1>1, Parts
  <2> QED
    BY <1>3, <2>1 DEF Jobs, JobKinds
<1> HIDE DEF j
<1>5. JobOK([st EXCEPT !.job = j], record')
  <2>1. st.job.number = st.mem.sequence
    BY <1>1, Parts DEF UpdateInv, StudiosOK, StudioOK, JobOK
  <2>2. m >= st.job.number /\ st.job.number \in Nat /\ m \in Nat
    BY <1>1, <1>3, Parts, Numbers DEF Fetch, Accepted, Fresh
  <2> QED
    BY <1>1, <1>3, <1>4, <2>1, <2>2, JobChanged DEF JobOK
<1>6. UNCHANGED <<platform, installed, served, file, inStep, helper, edits, faults, starts>>
  BY DEF Fetch
<1> QED
  BY <1>1, <1>2, <1>3, <1>4, <1>5, <1>6, HelpersKept, JobStep DEF TypeOK

(* A record that was written by a fetch that failed. *)
LEMMA RecordAfterOK ==
  ASSUME TypeOK, NEW floor, RecordAfterFailure(floor)
  PROVE  record' \in Known /\ record <= record'
<1>1. record \in Known /\ record \in Nat
  BY Numbers DEF TypeOK
<1>2. CASE UNCHANGED record
  BY <1>1, <1>2
<1>3. CASE ~ UNCHANGED record
  <2>1. PICK m \in Manifests : Accepted(m, floor) /\ record' = Recorded(m)
    BY <1>3 DEF RecordAfterFailure
  <2> QED
    BY <2>1, RecordedOK
<1> QED
  BY <1>2, <1>3

(* A check fails. *)
LEMMA FetchFailsOK ==
  ASSUME UpdateInv, NEW s \in Studios, FetchFails(s)
  PROVE  UpdateInv' /\ StepOK
<1> DEFINE st == studio[s]
           j == [st.job EXCEPT !.kind = "answered", !.number = 0]
<1>1. st \in Running /\ TypeOK
  BY On DEF FetchFails, UpdateInv
<1>2. studio' = [studio EXCEPT ![s] = [st EXCEPT !.job = j]]
  BY DEF FetchFails
<1>3. j \in Jobs /\ j.kind = "answered" /\ j.number = 0
  <2>1. st.job \in Jobs
    BY <1>1, Parts
  <2> QED
    BY <2>1 DEF Jobs, JobKinds, Known
<1> HIDE DEF j
<1>4. JobOK([st EXCEPT !.job = j], record')
  BY <1>1, <1>3, JobChanged DEF JobOK
<1>5. /\ UNCHANGED <<platform, installed, served, file, inStep, helper, edits, starts>>
      /\ RecordAfterFailure(st.job.number)
  BY DEF FetchFails
<1>6. faults' \in 0 .. MaxFaults /\ record' \in Known /\ record <= record'
  BY <1>1, <1>5, Counters, RecordAfterOK DEF FetchFails
<1> QED
  BY <1>1, <1>2, <1>3, <1>4, <1>5, <1>6, HelpersKept, JobStep DEF TypeOK

(* The user asks for an installation. *)
LEMMA VersionClickedOK ==
  ASSUME UpdateInv, NEW s \in Studios, VersionClicked(s)
  PROVE  UpdateInv' /\ StepOK
<1> DEFINE st == studio[s]
           j == Asked(st)
<1>1. st \in Running /\ TypeOK
  BY On DEF VersionClicked, UpdateInv
<1>2. studio' = [studio EXCEPT ![s] = [st EXCEPT !.job = j]]
  BY DEF VersionClicked
<1>3. st.mem \in UpdateState
  BY <1>1, Parts
<1>4. j \in Jobs /\ j.kind = "install" /\ j.number = st.mem.sequence /\ j.want = st.mem.pending
  BY <1>3, Fields DEF Asked, Jobs, JobKinds
<1>5. st.mem.pending > st.version
  BY DEF VersionClicked, MayInstall, Newer
<1> HIDE DEF j
<1>6. JobOK([st EXCEPT !.job = j], record')
  BY <1>1, <1>4, <1>5, JobChanged DEF JobOK
<1>7. UNCHANGED <<platform, installed, served, record, file, inStep, helper, edits, faults, starts>>
  BY DEF VersionClicked
<1>8. record <= record'
  BY <1>1, <1>7, Numbers DEF TypeOK
<1> QED
  BY <1>1, <1>2, <1>4, <1>6, <1>7, <1>8, HelpersKept, JobStep DEF TypeOK

(* The manifest is fetched again: what was asked for is the best it has, or no longer. *)
LEMMA RefetchOK ==
  ASSUME UpdateInv, NEW s \in Studios, NEW m \in Manifests, Refetch(s, m)
  PROVE  UpdateInv' /\ StepOK
<1> DEFINE st == studio[s]
           j == IF StillAsked(m, st) THEN [st.job EXCEPT !.kind = "loading", !.number = m]
                ELSE [st.job EXCEPT !.kind = "failed"]
<1>1. st \in Running /\ TypeOK /\ st.job \in Jobs /\ st.job.kind = "install"
  BY On, Parts DEF Refetch, UpdateInv
<1>2. studio' = [studio EXCEPT ![s] = [st EXCEPT !.job = j]]
  BY DEF Refetch
<1>3. record' = m /\ record <= m /\ m \in Known
  BY <1>1, RecordedOK DEF Refetch
<1>4. st.version \in Versions /\ st.version \in Nat /\ st.job.want > st.version
  BY <1>1, Parts, Numbers DEF UpdateInv, StudiosOK, StudioOK, JobOK, Offers
<1>5. ASSUME StillAsked(m, st)
      PROVE  j \in Jobs /\ JobOK([st EXCEPT !.job = j], record')
  <2>1. Candidate(m, st.version, st.job.channel) = st.job.want
    BY <1>5 DEF StillAsked
  <2>2. /\ st.job.want \in Candidates(m, st.version, st.job.channel) \union {0}
        /\ \A v \in Candidates(m, st.version, st.job.channel) : v <= st.job.want
    BY <1>4, <2>1, Best
  <2>3. st.job.want \in Candidates(m, st.version, st.job.channel)
    BY <1>4, <2>2
  <2>4. BestOf(st.job, m, st.version)
    BY <1>4, <2>2, <2>3 DEF BestOf, Candidates
  <2>5. /\ j \in Jobs /\ j.kind = "loading" /\ j.number = m /\ j.want = st.job.want
        /\ j.channel = st.job.channel
    BY <1>1, <1>3, <1>5 DEF Jobs, JobKinds
  <2> HIDE DEF j
  <2>6. BestOf(j, m, st.version)
    BY <2>4, <2>5 DEF BestOf
  <2>7. JobOK([st EXCEPT !.job = j], record')
    BY <1>1, <2>5, <2>6, JobChanged DEF JobOK
  <2> QED
    BY <2>5, <2>7
<1>6. ASSUME ~StillAsked(m, st)
      PROVE  j \in Jobs /\ JobOK([st EXCEPT !.job = j], record')
  <2>1. j \in Jobs /\ j.kind = "failed"
    BY <1>1, <1>6 DEF Jobs, JobKinds
  <2> HIDE DEF j
  <2>2. JobOK([st EXCEPT !.job = j], record')
    BY <1>1, <2>1, JobChanged DEF JobOK
  <2> QED
    BY <2>1, <2>2
<1>7. j \in Jobs /\ JobOK([st EXCEPT !.job = j], record')
  BY <1>5, <1>6
<1> HIDE DEF j
<1>8. UNCHANGED <<platform, installed, served, file, inStep, helper, edits, faults, starts>>
  BY DEF Refetch
<1> QED
  BY <1>1, <1>2, <1>3, <1>7, <1>8, HelpersKept, JobStep DEF TypeOK

(* The helper is started for what the manifest fetched has. *)
LEMMA LaunchOK ==
  ASSUME UpdateInv, NEW s \in Studios, Launch(s)
  PROVE  UpdateInv' /\ StepOK
<1> DEFINE st == studio[s]
           j == [st.job EXCEPT !.kind = "staged"]
           h == [phase |-> "starts", asked |-> st.job, by |-> st.version,
                 from |-> 0, child |-> s]
<1>1. st \in Running /\ TypeOK /\ st.job \in Jobs /\ st.version \in Versions
      /\ st.job.kind = "loading" /\ JobOK(st, record)
  BY On, Parts DEF Launch, UpdateInv, StudiosOK, StudioOK
<1>2. studio' = [studio EXCEPT ![s] = [st EXCEPT !.job = j]]
  BY DEF Launch
<1>3. j \in Jobs /\ j.kind = "staged"
  BY <1>1, JobGoesOn DEF JobKinds
<1>4. HelperSteps
  <2>1. h \in Helpers
    BY <1>1 DEF Helpers, Offers
  <2>2. HelperOK(h)
    BY <1>1 DEF HelperOK, JobOK
  <2>3. helper' = [helper EXCEPT ![s] = h] /\ h.phase = "starts"
    BY DEF Launch
  <2> HIDE DEF h
  <2> QED
    BY <2>1, <2>2, <2>3, HelperChanged
<1> HIDE DEF j
<1>5. JobOK([st EXCEPT !.job = j], record')
  BY <1>1, <1>3, JobChanged DEF JobOK
<1>6. UNCHANGED <<platform, installed, served, record, file, inStep, edits, faults, starts>>
  BY DEF Launch
<1>7. record <= record'
  BY <1>1, <1>6, Numbers DEF TypeOK
<1> QED
  BY <1>1, <1>2, <1>3, <1>4, <1>5, <1>6, <1>7, JobStep DEF TypeOK

(* An installation fails. *)
LEMMA StageFailsOK ==
  ASSUME UpdateInv, NEW s \in Studios, StageFails(s)
  PROVE  UpdateInv' /\ StepOK
<1> DEFINE st == studio[s]
           j == [st.job EXCEPT !.kind = "failed"]
<1>1. st \in Running /\ TypeOK /\ st.job \in Jobs
  BY On, Parts DEF StageFails, UpdateInv
<1>2. studio' = [studio EXCEPT ![s] = [st EXCEPT !.job = j]]
  BY DEF StageFails
<1>3. j \in Jobs /\ j.kind = "failed"
  BY <1>1, JobGoesOn DEF JobKinds
<1> HIDE DEF j
<1>4. JobOK([st EXCEPT !.job = j], record')
  BY <1>1, <1>3, JobChanged DEF JobOK
<1>5. UNCHANGED <<platform, installed, served, file, inStep, helper, edits, starts>>
  BY DEF StageFails
<1>6. faults' \in 0 .. MaxFaults
  BY <1>1, Counters DEF StageFails
<1>7. record' \in Known /\ record <= record'
  <2>1. RecordAfterFailure(st.job.number) \/ UNCHANGED record
    BY DEF StageFails
  <2> QED
    BY <1>1, <2>1, RecordAfterOK, Numbers DEF TypeOK
<1> QED
  BY <1>1, <1>2, <1>3, <1>4, <1>5, <1>6, <1>7, HelpersKept, JobStep DEF TypeOK

(* The changelogs of a manifest are versions. *)
LEMMA HistoryOK ==
  ASSUME NEW v \in Versions, NEW m \in Known PROVE History(v, m) \in SUBSET Versions
  BY UpdateAssumption DEF History, Known

(* The answer of a check is shown. *)
LEMMA CheckReturnsOK ==
  ASSUME UpdateInv, NEW s \in Studios, CheckReturns(s)
  PROVE  UpdateInv' /\ StepOK
<1> DEFINE job == studio[s].job
           st == [studio[s] EXCEPT !.job = NoJob]
<1>1. studio[s] \in Running /\ studio[s].on /\ TypeOK /\ job \in Jobs /\ job.kind = "answered"
  BY On, Parts DEF CheckReturns, UpdateInv
<1>2. NoJob \in Jobs /\ NoJob.kind = "none"
  BY DEF NoJob, Jobs, JobKinds, Known, Offers
<1>3. /\ st \in Running /\ st.job = NoJob /\ st.mem = studio[s].mem
      /\ st.snapshot = studio[s].snapshot
      /\ st.version = studio[s].version /\ st.history = studio[s].history
  BY <1>1, <1>2, JobChanged
<1>4. UNCHANGED <<platform, installed, served, record, helper, edits, starts>>
  BY DEF CheckReturns
<1>5. record \in Nat /\ record <= record'
  BY <1>1, <1>4, Numbers DEF TypeOK
<1>6. CASE job.number = 0
  <2>1. studio' = [studio EXCEPT ![s] = st] /\ UNCHANGED <<file, inStep, faults>>
    BY <1>6 DEF CheckReturns, NoWrite
  <2>2. JobOK(st, record')
    BY <1>2, <1>3 DEF JobOK
  <2> QED
    BY <1>1, <1>2, <1>4, <1>5, <2>1, <2>2, HelpersKept, JobStep DEF TypeOK
<1>7. CASE job.number # 0
  <2> DEFINE u == Taken(st, job)
  <2>1. PICK outcome \in Outcomes(st, u, TRUE) :
          /\ Saving(s, st, u, outcome)
          /\ studio' = [studio EXCEPT ![s] =
               IF outcome \in Errors THEN Saved(st, u, outcome)
               ELSE [Saved(st, u, outcome) EXCEPT !.history = History(st.version, job.number)]]
    BY <1>7 DEF CheckReturns
  <2>2. studio[s].mem.sequence <= job.number /\ job.number <= record
    BY <1>1, <1>7 DEF UpdateInv, StudiosOK, StudioOK, JobOK
  <2>3. /\ u \in UpdateState /\ Good(u, record)
        /\ u.cache = job.number /\ u.sequence = job.number
        /\ u.channel = st.mem.channel
        /\ \/ /\ u.pending = Candidate(job.number, st.version, job.channel)
              /\ Candidate(job.number, st.version, job.channel) # 0
           \/ u.pending = st.mem.pending
           \/ st.mem.pending \in Revoked[job.number]
    BY <1>1, <1>3, <1>5, <1>7, <2>2, TakenOK
  <2> DEFINE z == Saved(st, u, outcome)
  <2>4. /\ Files(s) /\ faults' \in 0 .. MaxFaults
        /\ z \in Running /\ Good(z.mem, record)
        /\ s \in inStep' => Mirrors(z, file')
        /\ z.version = st.version /\ z.history = st.history /\ z.job = st.job
        /\ outcome \notin Errors => z.mem = u
        /\ outcome \in Errors =>
             /\ z.mem.sequence = st.mem.sequence /\ z.mem.pending = st.mem.pending
             /\ z.mem.channel = st.mem.channel /\ z.mem.cache = st.mem.cache
    <3> HIDE DEF u, st
    <3> QED
      BY <1>1, <1>3, <1>4, <2>1, <2>3, SavedOK
  <2> DEFINE y == IF outcome \in Errors THEN z
                  ELSE [z EXCEPT !.history = History(st.version, job.number)]
  <2>5. studio' = [studio EXCEPT ![s] = y]
    BY <2>1
  <2>6. /\ y \in Running /\ y.mem = z.mem /\ y.snapshot = z.snapshot
        /\ y.version = z.version /\ y.job = NoJob
        /\ y.history = IF outcome \in Errors THEN st.history
                       ELSE History(st.version, job.number)
    <3>1. History(st.version, job.number) \in SUBSET Versions
      BY <1>1, <1>3, HistoryOK, Parts
    <3> HIDE DEF z, st, u
    <3> QED
      BY <1>3, <2>4, <3>1 DEF Running
  <2> HIDE DEF y, z, u, st
  <2>7. StudioOK(y, record')
    <3>1. JobOK(y, record')
      BY <1>2, <2>6 DEF JobOK
    <3>2. studio[s].history = History(studio[s].version, studio[s].mem.cache)
      BY <1>1 DEF UpdateInv, StudiosOK, StudioOK
    <3>3. y.history = History(y.version, y.mem.cache)
      BY <1>3, <2>3, <2>4, <2>6, <3>2
    <3> QED
      BY <1>4, <2>4, <2>6, <3>1, <3>3 DEF StudioOK
  <2>8. s \in inStep' => Mirrors(y, file')
    BY <2>4, <2>6 DEF Mirrors
  <2>9. Onward(studio[s], y)
    <3>1. studio[s].mem.sequence \in Nat /\ job.number \in Nat /\ studio[s].version \in Versions
      BY <1>1, Parts, Fields, Numbers
    <3>2. y.mem.sequence >= studio[s].mem.sequence
      BY <1>3, <2>2, <2>3, <2>4, <2>6, <3>1
    <3>3. OfferKept(studio[s], y)
      <4>1. CASE outcome \in Errors
        BY <1>3, <2>4, <2>6, <4>1 DEF OfferKept, Offer, Newer
      <4>2. CASE outcome \notin Errors /\ u.pending = studio[s].mem.pending
        BY <1>3, <2>3, <2>4, <2>6, <4>2 DEF OfferKept, Offer, Newer
      <4>3. CASE outcome \notin Errors /\ studio[s].mem.pending \in Revoked[job.number]
        BY <2>3, <2>4, <2>6, <4>3 DEF OfferKept
      <4>4. CASE /\ outcome \notin Errors
                 /\ u.pending = Candidate(job.number, st.version, job.channel)
                 /\ Candidate(job.number, st.version, job.channel) # 0
        <5>1. job.number \in Manifests
          BY <1>1, <1>7, Parts DEF Known
        <5>2. u.pending \in Candidates(job.number, studio[s].version, job.channel)
          BY <1>3, <3>1, <4>4, <5>1, Best
        <5>3. u.pending > studio[s].version /\ VisibleTo(u.pending, job.channel)
              /\ u.pending # 0
          BY <4>4, <5>2 DEF Candidates
        <5>4. job.channel = studio[s].mem.channel => Offer(y.mem, y.version) = u.pending
          BY <1>3, <2>3, <2>4, <2>6, <4>4, <5>3 DEF Offer, Newer
        <5> QED
          BY <5>3, <5>4 DEF OfferKept
      <4> QED
        BY <1>3, <2>3, <4>1, <4>2, <4>3, <4>4
    <3> QED
      BY <1>2, <2>6, <3>2, <3>3 DEF Onward
  <2> QED
    BY <1>1, <1>4, <1>5, <2>4, <2>5, <2>6, <2>7, <2>8, <2>9, HelpersKept, OneStudio DEF TypeOK
<1> QED
  BY <1>6, <1>7

(* A setting is saved.  The offer goes only with the channel. *)
LEMMA SettingOK ==
  ASSUME UpdateInv, NEW s \in Studios, studio[s] \in Running,
         NEW u \in UpdateState, Good(u, record),
         u.sequence = studio[s].mem.sequence, u.pending = studio[s].mem.pending,
         u.cache = studio[s].mem.cache,
         NEW outcome \in Outcomes(studio[s], u, FALSE), Saving(s, studio[s], u, outcome),
         NEW y \in Running,
         y.mem = Saved(studio[s], u, outcome).mem,
         y.snapshot = Saved(studio[s], u, outcome).snapshot,
         y.version = studio[s].version, y.history = studio[s].history,
         JobOK(y, record),
         studio' = [studio EXCEPT ![s] = y],
         UNCHANGED <<platform, installed, served, record, helper, starts>>,
         edits' \in 0 .. MaxEdits
  PROVE  UpdateInv' /\ StepOK
<1> DEFINE st == studio[s]
           z == Saved(st, u, outcome)
<1>1. TypeOK /\ st.on /\ record \in Nat /\ st.mem.sequence \in Nat
      /\ st.history = History(st.version, st.mem.cache)
  BY Parts, Fields, Numbers DEF UpdateInv, TypeOK, StudiosOK, StudioOK
<1>2. /\ Files(s) /\ faults' \in 0 .. MaxFaults
      /\ z \in Running /\ Good(z.mem, record)
      /\ s \in inStep' => Mirrors(z, file')
      /\ z.version = st.version /\ z.history = st.history /\ z.job = st.job
      /\ outcome \notin Errors => z.mem = u
      /\ outcome \in Errors =>
           /\ z.mem.sequence = st.mem.sequence /\ z.mem.pending = st.mem.pending
           /\ z.mem.channel = st.mem.channel /\ z.mem.cache = st.mem.cache
  BY SavedOK
<1>3. /\ y.mem.sequence = st.mem.sequence /\ y.mem.pending = st.mem.pending
      /\ y.mem.cache = st.mem.cache
  BY <1>2
<1>4. StudioOK(y, record') /\ (s \in inStep' => Mirrors(y, file'))
  BY <1>1, <1>2, <1>3 DEF StudioOK, Mirrors
<1>5. Onward(st, y)
  BY <1>1, <1>3 DEF Onward, OfferKept, Offer, Newer
<1>6. /\ record <= record' /\ record' \in Known /\ installed' \in Versions
      /\ starts' \in 0 .. MaxStarts /\ HelperSteps
  BY <1>1, HelpersKept DEF TypeOK
<1> QED
  BY <1>2, <1>4, <1>5, <1>6, OneStudio

(* Jobs are true of a Studio with the same sequence. *)
LEMMA JobKept ==
  ASSUME NEW st \in Running, NEW y \in Running, NEW r, JobOK(st, r), y.job = st.job,
         y.mem.sequence = st.mem.sequence, y.version = st.version
  PROVE  JobOK(y, r)
  BY DEF JobOK

(* Settings are saved. *)
LEMMA SettingsOK ==
  ASSUME UpdateInv, NEW s \in Studios, studio[s] \in Running,
         NEW u \in UpdateState, Good(u, record),
         u.sequence = studio[s].mem.sequence, u.pending = studio[s].mem.pending,
         u.cache = studio[s].mem.cache,
         Settings(s, u), edits' \in 0 .. MaxEdits
  PROVE  UpdateInv' /\ StepOK
<1> DEFINE st == studio[s]
<1>1. PICK outcome \in Outcomes(st, u, FALSE) :
        Saving(s, st, u, outcome) /\ studio' = [studio EXCEPT ![s] = Saved(st, u, outcome)]
  BY DEF Settings
<1>2. UNCHANGED <<platform, installed, served, record, helper, starts>>
  BY DEF Settings
<1>3. /\ Saved(st, u, outcome) \in Running
      /\ Saved(st, u, outcome).version = st.version
      /\ Saved(st, u, outcome).history = st.history
      /\ Saved(st, u, outcome).job = st.job
      /\ Saved(st, u, outcome).mem.sequence = st.mem.sequence
  BY <1>1, <1>2, SavedOK
<1>4. JobOK(st, record)
  BY Parts DEF UpdateInv, StudiosOK, StudioOK
<1>5. JobOK(Saved(st, u, outcome), record)
  BY <1>3, <1>4, JobKept
<1> QED
  BY <1>1, <1>2, <1>3, <1>5, SettingOK

(* A changelog setting. *)
LEMMA ToggleChangelogOK ==
  ASSUME UpdateInv, NEW s \in Studios, ToggleChangelog(s)
  PROVE  UpdateInv' /\ StepOK
<1> DEFINE w == studio[s].mem
           u == [w EXCEPT !.changelog = ~ @]
<1>1. studio[s] \in Running /\ studio[s].on
  BY On DEF ToggleChangelog, UpdateInv
<1>2. w \in UpdateState /\ Good(w, record)
  BY <1>1, Parts DEF UpdateInv, StudiosOK, StudioOK
<1>3. u \in UpdateState /\ u.sequence = w.sequence /\ u.pending = w.pending
      /\ u.cache = w.cache
  BY <1>2 DEF UpdateState
<1>4. Settings(s, u) /\ Edit
  BY DEF ToggleChangelog
<1> HIDE DEF u
<1>5. Good(u, record)
  BY <1>2, <1>3 DEF Good
<1>6. edits' \in 0 .. MaxEdits
  BY <1>4, Counters DEF UpdateInv
<1> QED
  BY <1>1, <1>3, <1>4, <1>5, <1>6, SettingsOK

(* The timer saves what is not saved. *)
LEMMA ConfigTimerOK ==
  ASSUME UpdateInv, NEW s \in Studios, ConfigTimer(s)
  PROVE  UpdateInv' /\ StepOK
<1>1. studio[s] \in Running /\ studio[s].on
  BY On DEF ConfigTimer, UpdateInv
<1>2. studio[s].mem \in UpdateState /\ Good(studio[s].mem, record)
  BY <1>1, Parts DEF UpdateInv, StudiosOK, StudioOK
<1>3. Settings(s, studio[s].mem) /\ edits' = edits
  BY DEF ConfigTimer
<1>4. edits' \in 0 .. MaxEdits
  BY <1>3, Counters DEF UpdateInv
<1> QED
  BY <1>1, <1>2, <1>3, <1>4, SettingsOK

(* A check begins, if the thread is free. *)
LEMMA CheckStartedOK ==
  ASSUME NEW st \in Running, NEW r, JobOK(st, r)
  PROVE  LET y == CheckStarted(st)
         IN /\ y \in Running /\ y.mem = st.mem /\ y.snapshot = st.snapshot
            /\ y.version = st.version /\ y.history = st.history
            /\ JobOK(y, r)
<1> DEFINE j == [NoJob EXCEPT !.kind = "check", !.channel = st.mem.channel,
                              !.number = st.mem.sequence]
<1>1. CASE st.job.kind = "none"
  <2>1. st.mem \in UpdateState
    BY Parts
  <2>2. j \in Jobs /\ j.kind = "check" /\ j.number = st.mem.sequence
    BY <2>1, Fields DEF NoJob, Jobs, JobKinds, Offers
  <2>3. CheckStarted(st) = [st EXCEPT !.job = j]
    BY <1>1 DEF CheckStarted
  <2> HIDE DEF j
  <2> QED
    BY <2>2, <2>3, JobChanged DEF JobOK
<1>2. CASE st.job.kind # "none"
  BY <1>2 DEF CheckStarted
<1> QED
  BY <1>1, <1>2

(* The channel is switched. *)
LEMMA SelectChannelOK ==
  ASSUME UpdateInv, NEW s \in Studios, NEW channel \in {"stable", "prerelease"},
         SelectChannel(s, channel)
  PROVE  UpdateInv' /\ StepOK
<1> DEFINE st == studio[s]
           w == st.mem
           u == [w EXCEPT !.channel = channel]
<1>1. st \in Running /\ st.on /\ TypeOK
  BY On DEF SelectChannel, UpdateInv
<1>2. w \in UpdateState /\ Good(w, record) /\ JobOK(st, record)
  BY <1>1, Parts DEF UpdateInv, StudiosOK, StudioOK
<1>3. u \in UpdateState /\ u.sequence = w.sequence /\ u.pending = w.pending
      /\ u.cache = w.cache
  BY <1>2 DEF UpdateState
<1>4. PICK outcome \in Outcomes(st, u, FALSE) :
        /\ Saving(s, st, u, outcome)
        /\ studio' = [studio EXCEPT ![s] =
             IF outcome \in Errors THEN Saved(st, u, outcome)
             ELSE CheckStarted(Saved(st, u, outcome))]
  BY DEF SelectChannel
<1>5. UNCHANGED <<platform, installed, served, record, helper, starts>> /\ Edit
  BY DEF SelectChannel
<1>6. edits' \in 0 .. MaxEdits
  BY <1>1, <1>5, Counters
<1> HIDE DEF u
<1>7. Good(u, record)
  BY <1>2, <1>3 DEF Good
<1> DEFINE z == Saved(st, u, outcome)
<1>8. /\ z \in Running /\ z.version = st.version /\ z.history = st.history
      /\ z.job = st.job /\ z.mem.sequence = st.mem.sequence
  BY <1>1, <1>3, <1>4, <1>5, <1>7, SavedOK
<1> HIDE DEF z
<1>9. JobOK(z, record)
  BY <1>1, <1>2, <1>8, JobKept
<1> DEFINE y == IF outcome \in Errors THEN z ELSE CheckStarted(z)
<1>10. /\ y \in Running /\ y.mem = z.mem /\ y.snapshot = z.snapshot
       /\ y.version = st.version /\ y.history = st.history
       /\ JobOK(y, record)
  BY <1>8, <1>9, CheckStartedOK
<1>11. studio' = [studio EXCEPT ![s] = y]
  BY <1>4 DEF z
<1>12. /\ Saving(s, st, u, outcome)
       /\ y.mem = Saved(st, u, outcome).mem
       /\ y.snapshot = Saved(st, u, outcome).snapshot
  BY <1>4, <1>10 DEF z
<1> HIDE DEF y
<1> QED
  BY <1>1, <1>3, <1>5, <1>6, <1>7, <1>10, <1>11, <1>12, SettingOK

(* The language is chosen. *)
LEMMA SelectLanguageOK ==
  ASSUME UpdateInv, NEW s \in Studios, SelectLanguage(s)
  PROVE  UpdateInv' /\ StepOK
<1> DEFINE st == studio[s]
           w == [st.mem EXCEPT !.language = ~ st.mem.language]
           y == [st EXCEPT !.mem = w]
<1>1. st \in Running /\ st.on /\ TypeOK /\ st.mem \in UpdateState
  BY On, Parts DEF SelectLanguage, UpdateInv
<1>2. studio' = [studio EXCEPT ![s] = y] /\ Edit
  BY DEF SelectLanguage
<1>3. UNCHANGED <<platform, installed, served, record, helper, faults, starts, file, inStep>>
  BY DEF SelectLanguage, NoWrite
<1>4. /\ w \in UpdateState /\ w.sequence = st.mem.sequence
      /\ w.pending = st.mem.pending /\ w.channel = st.mem.channel
      /\ w.cache = st.mem.cache
      /\ \A r : Good(st.mem, r) => Good(w, r)
      /\ \A f, v : Same(st.mem, f, v) => Same(w, f, v)
  <2>1. (~ st.mem.language) \in BOOLEAN
    OBVIOUS
  <2> QED
    BY <1>1, <2>1, LanguageApart
<1> HIDE DEF w
<1>5. y \in Running /\ y.mem = w /\ y.snapshot = st.snapshot /\ y.version = st.version
      /\ y.history = st.history /\ y.job = st.job
  BY <1>1, <1>4 DEF Running
<1> HIDE DEF y
<1>6. /\ Good(st.mem, record) /\ JobOK(st, record)
      /\ st.history = History(st.version, st.mem.cache)
      /\ (s \in inStep => Mirrors(st, file))
  BY <1>1 DEF UpdateInv, StudiosOK, StudioOK, InStepOK
<1>7. StudioOK(y, record')
  BY <1>1, <1>3, <1>4, <1>5, <1>6, JobKept DEF StudioOK
<1>8. s \in inStep' => Mirrors(y, file')
  BY <1>3, <1>4, <1>5, <1>6 DEF Mirrors
<1>9. record \in Nat /\ st.mem.sequence \in Nat
  BY <1>1, Fields, Numbers DEF TypeOK
<1>10. Onward(st, y)
  BY <1>4, <1>5, <1>9 DEF Onward, OfferKept, Offer, Newer
<1>11. Files(s)
  BY <1>3, FileKept
<1>12. /\ record <= record' /\ record' \in Known /\ installed' \in Versions
       /\ starts' \in 0 .. MaxStarts /\ HelperSteps
       /\ faults' \in 0 .. MaxFaults /\ edits' \in 0 .. MaxEdits
  BY <1>1, <1>2, <1>3, <1>9, Counters, HelpersKept DEF TypeOK
<1> QED
  BY <1>2, <1>3, <1>5, <1>7, <1>8, <1>10, <1>11, <1>12, OneStudio

(* A conversion starts or ends. *)
LEMMA ConversionOK ==
  ASSUME UpdateInv, NEW s \in Studios, StartConversion(s) \/ ConversionEnds(s)
  PROVE  UpdateInv' /\ StepOK
<1>1. PICK b \in BOOLEAN : studio' = [studio EXCEPT ![s].converting = b]
  BY DEF StartConversion, ConversionEnds
<1> DEFINE st == studio[s]
           y == [st EXCEPT !.converting = b]
<1>2. st \in Running /\ TypeOK
  BY On DEF StartConversion, ConversionEnds, UpdateInv
<1>3. studio' = [studio EXCEPT ![s] = y]
  BY <1>1
<1>4. UNCHANGED <<platform, installed, served, record, file, inStep, helper, edits, faults, starts>>
  BY DEF StartConversion, ConversionEnds
<1>5. y \in Running /\ y.mem = st.mem /\ y.snapshot = st.snapshot /\ y.version = st.version
      /\ y.history = st.history /\ y.job = st.job
  BY <1>2 DEF Running
<1> HIDE DEF y
<1>6. record <= record' /\ record' = record /\ st.mem.sequence \in Nat
  BY <1>2, <1>4, Parts, Fields, Numbers DEF TypeOK
<1>7. JobOK(y, record')
  <2>1. JobOK(st, record)
    BY <1>2, Parts DEF UpdateInv, StudiosOK, StudioOK
  <2> QED
    BY <1>2, <1>5, <1>6, <2>1, JobKept
<1>8. Files(s) /\ StudioOK(y, record') /\ (s \in inStep' => Mirrors(y, file'))
  BY <1>2, <1>4, <1>5, <1>6, <1>7, Untouched DEF TypeOK
<1>9. Onward(st, y)
  BY <1>5, <1>6 DEF Onward, OfferKept
<1> QED
  BY <1>2, <1>3, <1>4, <1>5, <1>6, <1>8, <1>9, HelpersKept, OneStudio DEF TypeOK

(* A Studio ends. *)
LEMMA Ended ==
  ASSUME UpdateInv, NEW s \in Studios, studio' = [studio EXCEPT ![s] = Off],
         platform' = platform, installed' \in Versions, served' = served,
         record' = record, HelperSteps, Files(s),
         edits' = edits, faults' \in 0 .. MaxFaults, starts' = starts
  PROVE  UpdateInv' /\ StepOK
<1>1. Off \notin Running
  BY Parts DEF Off
<1>2. /\ record <= record' /\ record' \in Known
      /\ edits' \in 0 .. MaxEdits /\ starts' \in 0 .. MaxStarts
  BY Numbers DEF UpdateInv, TypeOK
<1> QED
  BY <1>1, <1>2, OneStudio

(* An installation was refused, or the Studio ends for the helper. *)
LEMMA InstallReturnsOK ==
  ASSUME UpdateInv, NEW s \in Studios, InstallReturns(s)
  PROVE  UpdateInv' /\ StepOK
<1>1. studio[s] \in Running /\ TypeOK
  BY On DEF InstallReturns, UpdateInv
<1>2. UNCHANGED <<platform, installed, served, record, file, inStep, helper, edits, faults, starts>>
  BY DEF InstallReturns
<1>3. CASE studio[s].job.kind = "staged"
  <2>1. studio' = [studio EXCEPT ![s] = Off]
    BY <1>3 DEF InstallReturns
  <2>2. Files(s)
    BY <1>2, FileKept
  <2> QED
    BY <1>1, <1>2, <2>1, <2>2, HelpersKept, Ended DEF TypeOK
<1>4. CASE studio[s].job.kind # "staged"
  <2>1. studio' = [studio EXCEPT ![s] = [studio[s] EXCEPT !.job = NoJob]]
    BY <1>4 DEF InstallReturns
  <2>2. NoJob \in Jobs /\ NoJob.kind = "none"
    BY DEF NoJob, Jobs, JobKinds, Known, Offers
  <2>3. JobOK([studio[s] EXCEPT !.job = NoJob], record')
    BY <1>1, <2>2, JobChanged DEF JobOK
  <2>4. record <= record'
    BY <1>1, <1>2, Numbers DEF TypeOK
  <2> QED
    BY <1>1, <1>2, <2>1, <2>2, <2>3, <2>4, HelpersKept, JobStep DEF TypeOK
<1> QED
  BY <1>3, <1>4

(* The process is killed. *)
LEMMA KillStudioOK ==
  ASSUME UpdateInv, NEW s \in Studios, Kill(s)
  PROVE  UpdateInv' /\ StepOK
<1>1. /\ studio' = [studio EXCEPT ![s] = Off] /\ Fault
      /\ UNCHANGED <<platform, installed, served, record, file, inStep, helper, edits, starts>>
  BY DEF Kill
<1>2. Files(s)
  BY <1>1, FileKept
<1>3. faults' \in 0 .. MaxFaults
  BY <1>1, Counters DEF UpdateInv
<1> QED
  BY <1>1, <1>2, <1>3, HelpersKept, Ended DEF UpdateInv, TypeOK

(* The window is closed. *)
LEMMA CloseOK ==
  ASSUME UpdateInv, NEW s \in Studios, Close(s)
  PROVE  UpdateInv' /\ StepOK
<1> DEFINE st == studio[s]
           u == [st.mem EXCEPT !.seen = st.version]
<1>1. st \in Running /\ st.on
  BY On DEF Close, UpdateInv
<1>2. PICK outcome \in Outcomes(st, u, FALSE) : Saving(s, st, u, outcome)
  BY DEF Close, Seen
<1>3. /\ studio' = [studio EXCEPT ![s] = Off]
      /\ UNCHANGED <<platform, installed, served, record, helper, edits, starts>>
  BY DEF Close
<1>4. st.mem \in UpdateState /\ Good(st.mem, record) /\ st.version \in Offers
  BY <1>1, Parts DEF UpdateInv, StudiosOK, StudioOK, Offers
<1>5. /\ u \in UpdateState /\ u.cache = st.mem.cache /\ u.sequence = st.mem.sequence
      /\ u.pending = st.mem.pending
  BY <1>4 DEF UpdateState
<1> HIDE DEF u
<1>6. Good(u, record)
  BY <1>4, <1>5 DEF Good
<1>7. Files(s) /\ faults' \in 0 .. MaxFaults
  BY <1>1, <1>2, <1>3, <1>5, <1>6, SavedOK
<1> QED
  BY <1>3, <1>7, HelpersKept, Ended DEF UpdateInv, TypeOK

(* What a Studio is when it has read the file. *)
LEMMA StartedOK ==
  ASSUME TypeOK, NEW readable \in BOOLEAN, NEW u \in UpdateState, NEW r, Good(u, r)
  PROVE  LET st == Started(readable, u)
         IN st \in Running /\ st.version = installed /\ st.mem = u /\ st.snapshot = u
            /\ StudioOK(st, r)
<1> DEFINE st == Started(readable, u)
<1>1. installed \in Versions
  BY DEF TypeOK
<1>2. History(installed, u.cache) \in SUBSET Versions
  BY <1>1, Fields, HistoryOK
<1>3. NoJob \in Jobs /\ NoJob.kind = "none"
  BY DEF NoJob, Jobs, JobKinds, Known, Offers
<1>4. (readable \/ platform = "windows") \in BOOLEAN
  OBVIOUS
<1>5. /\ st \in Running /\ st.version = installed /\ st.mem = u /\ st.snapshot = u
      /\ st.job = NoJob /\ st.history = History(installed, u.cache)
  BY <1>1, <1>2, <1>3, <1>4 DEF Started, Running
<1> HIDE DEF st
<1>6. JobOK(st, r)
  BY <1>3, <1>5 DEF JobOK
<1>7. StudioOK(st, r)
  BY <1>5, <1>6 DEF StudioOK
<1> QED
  BY <1>5, <1>7 DEF st

(* A Studio begins. *)
LEMMA Begins ==
  ASSUME UpdateInv, NEW s \in Studios, ~ studio[s].on, NEW y \in Running,
         studio' = [studio EXCEPT ![s] = y],
         platform' = platform, installed' = installed, served' = served, record' = record,
         HelperSteps, edits' = edits, Bounded,
         faults' \in 0 .. MaxFaults, Files(s), StudioOK(y, record),
         s \in inStep' => Mirrors(y, file')
  PROVE  UpdateInv' /\ StepOK
<1>1. studio[s] \notin Running
  BY Parts
<1>2. /\ record <= record' /\ record' \in Known /\ installed' \in Versions
      /\ edits' \in 0 .. MaxEdits /\ starts' \in 0 .. MaxStarts
  BY Numbers, Counters DEF UpdateInv, TypeOK
<1> QED
  BY <1>1, <1>2, OneStudio

(* A user starts a Studio. *)
LEMMA StartOK ==
  ASSUME UpdateInv, NEW s \in Studios, NEW readable \in BOOLEAN, NEW verifies \in BOOLEAN,
         NEW old \in BOOLEAN, Start(s, readable, verifies, old)
  PROVE  UpdateInv' /\ StepOK
<1> DEFINE u == Loaded(readable, verifies)
           st == Started(readable, u)
           y == IF Due(u, old) THEN CheckStarted(st) ELSE st
<1>1. TypeOK /\ Good(file, record) /\ installed \in Versions
  BY DEF UpdateInv, TypeOK
<1>2. u \in UpdateState /\ Good(u, record)
      /\ (readable => \A v \in Versions : Same(u, file, v))
  BY <1>1, LoadedOK
<1> HIDE DEF u
<1>3. st \in Running /\ st.version = installed /\ st.mem = u /\ st.snapshot = u
      /\ StudioOK(st, record)
  BY <1>1, <1>2, StartedOK
<1>4. studio' = [studio EXCEPT ![s] = y] /\ ~ studio[s].on /\ Bounded
      /\ LoadedIn(s, readable)
      /\ UNCHANGED <<platform, installed, served, record, helper, edits>>
  BY DEF Start, u
<1> HIDE DEF st
<1>5. /\ y \in Running /\ y.mem = u /\ y.snapshot = u /\ y.version = installed
      /\ y.history = st.history /\ JobOK(y, record)
  <2>1. JobOK(st, record)
    BY <1>3 DEF StudioOK
  <2> QED
    BY <1>3, <2>1, CheckStartedOK
<1> HIDE DEF y
<1>6. StudioOK(y, record)
  BY <1>3, <1>5 DEF StudioOK
<1>7. Files(s)
  <2>1. file' = file /\ inStep' \subseteq inStep \union {s}
    BY <1>4 DEF LoadedIn
  <2> QED
    BY <1>4, <2>1, FileKept
<1>8. s \in inStep' => Mirrors(y, file')
  BY <1>1, <1>2, <1>4, <1>5 DEF LoadedIn, Mirrors
<1>9. faults' \in 0 .. MaxFaults
  BY <1>1, Counters DEF Start
<1>10. HelperSteps
  BY <1>4, HelpersKept
<1> QED
  BY <1>4, <1>5, <1>6, <1>7, <1>8, <1>9, <1>10, Begins

(* The helper starts the new version. *)
LEMMA StartUpdatedOK ==
  ASSUME UpdateInv, NEW s \in Studios, NEW h \in Studios,
         NEW readable \in BOOLEAN, NEW verifies \in BOOLEAN,
         NEW saved \in BOOLEAN, StartUpdated(s, h, readable, verifies, saved)
  PROVE  UpdateInv' /\ StepOK
<1> DEFINE u == Loaded(readable, verifies)
           clears == installed = helper[h].asked.want /\ u.pending = installed
           w == IF clears THEN Cleared(u) ELSE u
           y == Started(readable, w)
<1>1. TypeOK /\ Good(file, record) /\ installed \in Versions /\ file \in UpdateState
  BY DEF UpdateInv, TypeOK
<1>2. u \in UpdateState /\ Good(u, record)
      /\ (readable => \A v \in Versions : Same(u, file, v))
  BY <1>1, LoadedOK
<1>3. /\ studio' = [studio EXCEPT ![s] = y] /\ ~ studio[s].on /\ Bounded
      /\ Goes(h, "replaced")
      /\ helper' = [helper EXCEPT ![h].phase = "started", ![h].child = s]
      /\ IF clears /\ saved THEN Write(s, Cleared(u)) ELSE LoadedIn(s, readable)
      /\ UNCHANGED <<platform, installed, served, record, edits>>
      /\ IF ~ readable \/ (clears /\ ~ saved) THEN Fault ELSE UNCHANGED faults
  BY DEF StartUpdated
<1> HIDE DEF u
<1>4. w \in UpdateState /\ Good(w, record)
      /\ (readable => Same(w, file, installed))
  BY <1>1, <1>2, Numbers, ClearedOK DEF TypeOK
<1>5. y \in Running /\ y.version = installed /\ y.mem = w /\ y.snapshot = w
      /\ StudioOK(y, record)
  BY <1>1, <1>4, StartedOK
<1>6. HelperSteps
  <2> DEFINE g == [helper[h] EXCEPT !.phase = "started", !.child = s]
  <2>1. helper[h] \in Helpers /\ HelperOK(helper[h]) /\ helper[h].phase = "replaced"
    BY <1>3, HelperParts DEF Goes
  <2>2. /\ g \in Helpers /\ g.phase = "started" /\ g.asked = helper[h].asked
        /\ g.by = helper[h].by /\ g.from = helper[h].from
    BY <2>1 DEF Helpers
  <2>3. helper' = [helper EXCEPT ![h] = g]
    BY <1>1, <1>3 DEF TypeOK
  <2> HIDE DEF g
  <2>4. HelperOK(g)
    BY <2>1, <2>2 DEF HelperOK
  <2> QED
    BY <2>2, <2>3, <2>4, HelperChanged
<1>7. faults' \in 0 .. MaxFaults
  BY <1>1, <1>3, Counters
<1> HIDE DEF y
<1>8. CASE clears /\ saved
  <2>1. file' = w /\ inStep' = {s}
    BY <1>3, <1>8 DEF Write
  <2> HIDE DEF w, clears
  <2>2. Files(s)
    BY <1>3, <1>4, <2>1 DEF Files
  <2>3. Mirrors(y, file')
    BY <1>5, <2>1 DEF Mirrors, Same
  <2> QED
    BY <1>3, <1>5, <1>6, <1>7, <2>2, <2>3, Begins
<1>9. CASE ~ (clears /\ saved)
  <2>1. LoadedIn(s, readable)
    BY <1>3, <1>9
  <2> HIDE DEF w, clears
  <2>2. file' = file /\ inStep' \subseteq inStep \union {s}
    BY <2>1 DEF LoadedIn
  <2>3. Files(s)
    BY <1>3, <2>2, FileKept
  <2>4. s \in inStep' => Mirrors(y, file')
    BY <1>4, <1>5, <2>1 DEF LoadedIn, Mirrors
  <2> QED
    BY <1>3, <1>5, <1>6, <1>7, <2>3, <2>4, Begins
<1> QED
  BY <1>8, <1>9

(* A step that leaves the Studios alone. *)
LEMMA StudiosKept ==
  ASSUME UpdateInv, UNCHANGED <<platform, file, inStep, studio, edits, starts>>,
         record' \in Known, record <= record',
         installed' \in Versions, served' \in Manifests, HelperSteps,
         faults' \in 0 .. MaxFaults
  PROVE  UpdateInv' /\ StepOK
<1>1. record \in Nat /\ record' \in Nat /\ file \in UpdateState /\ Good(file, record)
  BY Numbers DEF UpdateInv, TypeOK
<1>2. Good(file, record')
  BY <1>1, Covers
<1>3. ASSUME NEW t \in Studios, studio[t].on
      PROVE  StudioOK(studio[t], record') /\ Onward(studio[t], studio[t])
  <2>1. /\ StudioOK(studio[t], record) /\ studio[t].mem \in UpdateState
        /\ studio[t].job.number \in Nat /\ studio[t].mem.sequence \in Nat
    BY <1>3, On, Parts, Fields, Numbers DEF UpdateInv, StudiosOK
  <2>2. Good(studio[t].mem, record')
    BY <1>1, <2>1, Covers DEF StudioOK
  <2>3. JobOK(studio[t], record')
    BY <1>1, <2>1 DEF StudioOK, JobOK
  <2> QED
    BY <2>1, <2>2, <2>3 DEF StudioOK, Onward, OfferKept
<1>4. TypeOK'
  BY DEF UpdateInv, TypeOK, HelperSteps
<1>5. StudiosOK' /\ InStepOK'
  BY <1>3 DEF UpdateInv, StudiosOK, InStepOK
<1>6. UpdateInv'
  BY <1>2, <1>4, <1>5 DEF UpdateInv, HelperSteps
<1> QED
  BY <1>1, <1>3, <1>6 DEF StepOK, HelperSteps

(* The helper accepts the manifest of its installation once more: it is the newest. *)
LEMMA HelperVerifiesOK ==
  ASSUME UpdateInv, NEW s \in Studios, HelperVerifies(s)
  PROVE  UpdateInv' /\ StepOK
<1> DEFINE h == [helper[s] EXCEPT !.phase = "waits"]
           m == helper[s].asked.number
<1>1. TypeOK /\ helper[s] \in Helpers /\ HelperOK(helper[s]) /\ m \in Manifests
  BY HelperParts DEF HelperVerifies, Goes, UpdateInv
<1>2. record' = m /\ record <= m /\ m \in Known
  BY <1>1, RecordedOK DEF HelperVerifies, MayGoOn
<1>3. /\ h \in Helpers /\ h.phase = "waits" /\ h.asked = helper[s].asked
      /\ h.by = helper[s].by
  BY <1>1 DEF Helpers
<1>4. helper' = [helper EXCEPT ![s] = h]
  BY DEF HelperVerifies
<1> HIDE DEF h
<1>5. HelperOK(h) /\ BestOf(helper[s].asked, record', helper[s].by)
  BY <1>1, <1>2, <1>3 DEF HelperOK
<1>6. HelperSteps
  BY <1>3, <1>4, <1>5, HelperChanged
<1>7. UNCHANGED <<platform, installed, served, file, inStep, studio, edits, faults, starts>>
  BY DEF HelperVerifies
<1> QED
  BY <1>1, <1>2, <1>6, <1>7, StudiosKept DEF TypeOK

(* The helper ends: the manifest is refused, or the new version is committed. *)
LEMMA HelperEndsOK ==
  ASSUME UpdateInv, NEW s \in Studios, HelperRefuses(s) \/ HelperCommits(s)
  PROVE  UpdateInv' /\ StepOK
<1>1. /\ helper' = [helper EXCEPT ![s] = Idle]
      /\ UNCHANGED <<platform, installed, served, record, file, inStep, studio, edits,
                     faults, starts>>
  BY DEF HelperRefuses, HelperCommits, Ends
<1>2. HelperSteps
  BY <1>1, HelperChanged DEF Idle
<1>3. record <= record'
  BY <1>1, Numbers DEF UpdateInv, TypeOK
<1> QED
  BY <1>1, <1>2, <1>3, StudiosKept DEF UpdateInv, TypeOK

(* The helper replaces the program. *)
LEMMA HelperReplacesOK ==
  ASSUME UpdateInv, NEW s \in Studios, HelperReplaces(s)
  PROVE  UpdateInv' /\ StepOK
<1> DEFINE h == [helper[s] EXCEPT !.phase = "replaced", !.from = installed]
<1>1. TypeOK /\ helper[s] \in Helpers /\ HelperOK(helper[s])
      /\ helper[s].asked.want \in Versions
  BY HelperParts DEF HelperReplaces, Goes, UpdateInv
<1>2. installed \in Versions /\ installed \in Offers
  BY <1>1 DEF TypeOK, Offers
<1>3. /\ h \in Helpers /\ h.phase = "replaced" /\ h.asked = helper[s].asked
      /\ h.by = helper[s].by /\ h.from = installed
  BY <1>1, <1>2 DEF Helpers
<1>4. helper' = [helper EXCEPT ![s] = h]
  BY <1>1 DEF HelperReplaces, TypeOK
<1> HIDE DEF h
<1>5. HelperOK(h)
  BY <1>1, <1>2, <1>3 DEF HelperOK
<1>6. HelperSteps
  BY <1>3, <1>4, <1>5, HelperChanged
<1>7. /\ installed' = helper[s].asked.want
      /\ UNCHANGED <<platform, served, record, file, inStep, studio, edits, faults, starts>>
  BY DEF HelperReplaces
<1>8. record <= record'
  BY <1>1, <1>7, Numbers DEF TypeOK
<1> QED
  BY <1>1, <1>6, <1>7, <1>8, StudiosKept DEF TypeOK

(* The helper gives up. *)
LEMMA HelperGivesUpOK ==
  ASSUME UpdateInv, NEW s \in Studios, HelperGivesUp(s)
  PROVE  UpdateInv' /\ StepOK
<1>1. TypeOK /\ helper[s] \in Helpers /\ HelperOK(helper[s]) /\ helper[s].child \in Studios
  BY HelperParts DEF HelperGivesUp, UpdateInv
<1>2. /\ helper' = [helper EXCEPT ![s] = Idle] /\ Fault
      /\ UNCHANGED <<platform, served, record, file, inStep, edits, starts>>
  BY DEF HelperGivesUp, Ends
<1>3. HelperSteps
  BY <1>2, HelperChanged DEF Idle
<1>4. installed' \in Versions
  BY <1>1 DEF HelperGivesUp, HelperOK, Helpers, TypeOK
<1>5. faults' \in 0 .. MaxFaults /\ record <= record'
  BY <1>1, <1>2, Counters, Numbers DEF TypeOK
<1>6. CASE Goes(s, "started")
  <2>1. studio' = [studio EXCEPT ![helper[s].child] = Off]
    BY <1>6 DEF HelperGivesUp
  <2>2. Files(helper[s].child)
    BY <1>1, <1>2, FileKept
  <2> QED
    BY <1>1, <1>2, <1>3, <1>4, <1>5, <2>1, <2>2, Ended
<1>7. CASE ~Goes(s, "started")
  <2>1. studio' = studio
    BY <1>7 DEF HelperGivesUp
  <2> QED
    BY <1>1, <1>2, <1>3, <1>4, <1>5, <2>1, StudiosKept DEF TypeOK
<1> QED
  BY <1>6, <1>7

(* A release is published. *)
LEMMA PublishOK == ASSUME UpdateInv, Publish PROVE UpdateInv' /\ StepOK
<1>1. /\ served' \in Manifests
      /\ UNCHANGED <<platform, installed, record, file, inStep, studio, helper,
                     edits, faults, starts>>
  BY DEF Publish
<1>2. record <= record'
  BY <1>1, Numbers DEF UpdateInv, TypeOK
<1> QED
  BY <1>1, <1>2, HelpersKept, StudiosKept DEF UpdateInv, TypeOK

----------------------------------------------------------------------------
(* Theorems. *)

(* The initial states satisfy the invariant. *)
LEMMA UpdateInitOK == ASSUME Init PROVE UpdateInv
<1>1. record = 0 /\ Defaults \in UpdateState /\ Good(Defaults, 0)
  BY Fallback DEF Init
<1>2. TypeOK
  BY <1>1, Numbers, UpdateAssumption DEF Init, TypeOK, Known
<1>3. \A s \in Studios : studio[s].on = FALSE /\ helper[s] = Idle
  BY DEF Init, Off
<1> QED
  BY <1>1, <1>2, <1>3 DEF UpdateInv, StudiosOK, InStepOK, HelpersOK, Init

(* Every step keeps the invariant. *)
LEMMA UpdateNextOK == ASSUME UpdateInv, Next PROVE UpdateInv' /\ StepOK
<1>1. ASSUME NEW s \in Studios, NEW readable \in BOOLEAN, NEW verifies \in BOOLEAN,
             NEW also \in BOOLEAN,
             \/ Start(s, readable, verifies, also)
             \/ \E h \in Studios : StartUpdated(s, h, readable, verifies, also)
      PROVE  UpdateInv' /\ StepOK
  BY <1>1, StartOK, StartUpdatedOK
<1>2. ASSUME NEW s \in Studios, NEW m \in Manifests, Fetch(s, m) \/ Refetch(s, m)
      PROVE  UpdateInv' /\ StepOK
  BY <1>2, FetchOK, RefetchOK
<1>3. ASSUME NEW s \in Studios, NEW channel \in {"stable", "prerelease"},
             SelectChannel(s, channel)
      PROVE  UpdateInv' /\ StepOK
  BY <1>3, SelectChannelOK
<1>4. ASSUME NEW s \in Studios,
             \/ FetchFails(s) \/ CheckReturns(s) \/ ToggleChangelog(s) \/ SelectLanguage(s)
             \/ ConfigTimer(s) \/ StartConversion(s) \/ ConversionEnds(s)
             \/ VersionClicked(s) \/ StageFails(s) \/ Launch(s) \/ InstallReturns(s)
             \/ Close(s) \/ Kill(s)
      PROVE  UpdateInv' /\ StepOK
  BY <1>4, FetchFailsOK, CheckReturnsOK, ToggleChangelogOK, SelectLanguageOK, ConfigTimerOK,
     ConversionOK, VersionClickedOK, StageFailsOK, LaunchOK, InstallReturnsOK, CloseOK,
     KillStudioOK
<1>5. ASSUME NEW s \in Studios,
             \/ HelperVerifies(s) \/ HelperRefuses(s) \/ HelperReplaces(s)
             \/ HelperCommits(s) \/ HelperGivesUp(s)
      PROVE  UpdateInv' /\ StepOK
  BY <1>5, HelperVerifiesOK, HelperEndsOK, HelperReplacesOK, HelperGivesUpOK
<1> QED
  BY <1>1, <1>2, <1>3, <1>4, <1>5, PublishOK DEF Next

(* So does a step that changes nothing. *)
LEMMA UpdateStepOK ==
  ASSUME UpdateInv, [Next]_vars
  PROVE  UpdateInv' /\ (StepOK \/ UNCHANGED vars)
<1>1. CASE UNCHANGED vars
  BY <1>1 DEF vars, UpdateInv, TypeOK, StudiosOK, InStepOK, HelpersOK
<1> QED
  BY <1>1, UpdateNextOK

(* The invariant holds in every reachable state. *)
THEOREM UpdateInvHolds == Spec => []UpdateInv
<1>1. UpdateInv /\ [Next]_vars => UpdateInv'
  BY UpdateStepOK
<1> QED
  BY <1>1, UpdateInitOK, PTL DEF Spec

(* As long as the file holds what a Studio read from it, or was told that it wrote, the
   Studio shows what the next one will: its offer, channel, sequence and changelogs, whatever
   reads, saves and checks failed.  A save of the Linux Studio that reports an error after it
   replaced the file ends that, for every Studio. *)
THEOREM WhatIsShown == Spec => []ShownIsSaved
<1>1. UpdateInv => ShownIsSaved
  <2> SUFFICES ASSUME UpdateInv, NEW s \in inStep, studio[s].on
               PROVE  LET u == studio[s].mem
                          v == studio[s].version
                      IN /\ Offer(u, v) = Offer(file, v)
                         /\ u.channel = file.channel /\ u.changelog = file.changelog
                         /\ u.sequence = file.sequence /\ u.checked = file.checked
                         /\ studio[s].history = History(v, u.cache)
    BY DEF ShownIsSaved
  <2>1. s \in Studios
    BY DEF UpdateInv, TypeOK
  <2>2. Mirrors(studio[s], file) /\ StudioOK(studio[s], record)
    BY <2>1 DEF UpdateInv, InStepOK, StudiosOK
  <2> QED
    BY <2>2 DEF Mirrors, Same, StudioOK
<1> QED
  BY <1>1, UpdateInvHolds, PTL

(* A revoked version is not pending anywhere, and an offer goes for no other reason. *)
THEOREM OffersAreExact == Spec => OfferExact
<1> DEFINE Unrevoked == \A u \in States : u.sequence # 0 => u.pending \notin Revoked[u.sequence]
           Stays == \A s \in Studios :
              studio[s].on /\ studio'[s].on /\ Offer(studio[s].mem, studio[s].version) # 0
                /\ Offer(studio'[s].mem, studio'[s].version) = 0 =>
              \/ studio[s].mem.pending \in Revoked[studio'[s].mem.sequence]
              \/ studio'[s].mem.channel # studio[s].mem.channel
              \/ studio[s].job.channel # studio[s].mem.channel
<1>1. UpdateInv => Unrevoked
  BY DEF UpdateInv, StudiosOK, StudioOK, Good, States
<1>2. UpdateInv /\ [Next]_vars => [Stays]_vars
  <2> SUFFICES ASSUME UpdateInv, [Next]_vars, StepOK PROVE Stays
    BY UpdateStepOK
  <2> QED
    BY DEF StepOK, Onward, OfferKept
<1>3. OfferExact <=> []Unrevoked /\ [][Stays]_vars
  BY DEF OfferExact, OfferStays
<1> QED
  BY <1>1, <1>2, <1>3, UpdateInvHolds, PTL DEF Spec

(* No update state is ahead of the machine's record, and neither goes back. *)
THEOREM RecordIsAhead == Spec => RecordLeads
<1> DEFINE Forwards == /\ record' >= record
                       /\ \A s \in Studios : studio[s].on /\ studio'[s].on =>
                            studio'[s].mem.sequence >= studio[s].mem.sequence
<1>1. UpdateInv => TypeOK /\ RecordCoversStates
  <2> SUFFICES ASSUME UpdateInv, NEW u \in States
               PROVE  u.sequence <= record /\ u.cache <= record
    BY DEF RecordCoversStates, UpdateInv
  <2>1. Good(u, record)
    BY DEF UpdateInv, StudiosOK, StudioOK, States
  <2>2. record \in Nat
    BY Numbers DEF UpdateInv, TypeOK
  <2> QED
    BY <2>1, <2>2 DEF Good
<1>2. UpdateInv /\ [Next]_vars => [Forwards]_vars
  <2> SUFFICES ASSUME UpdateInv, [Next]_vars, StepOK PROVE Forwards
    BY UpdateStepOK
  <2> QED
    BY DEF StepOK, Onward
<1>3. RecordLeads <=> [](TypeOK /\ RecordCoversStates) /\ [][Forwards]_vars
  BY DEF RecordLeads, SequenceForward
<1> QED
  BY <1>1, <1>2, <1>3, UpdateInvHolds, PTL DEF Spec

(* A helper goes on only with the best version of the newest manifest that any Studio of this
   machine has accepted by then, whatever was accepted while the update was downloaded. *)
THEOREM BestIsVerified == Spec => VerifiesBestKnown
<1>1. UpdateInv /\ [Next]_vars =>
        [\A s \in Studios :
           Goes(s, "starts") /\ Goes(s, "waits")' =>
             LET v == helper[s].asked.want
             IN /\ v \in Listed[record'] \ Revoked[record'] /\ v > helper[s].by
                /\ \A w \in Candidates(record', helper[s].by, helper[s].asked.channel) :
                     w <= v]_vars
  <2> SUFFICES ASSUME UpdateInv, [Next]_vars, StepOK, NEW s \in Studios,
                      Goes(s, "starts"), Goes(s, "waits")'
               PROVE  BestOf(helper[s].asked, record', helper[s].by)
    BY UpdateStepOK DEF BestOf
  <2> QED
    BY DEF StepOK, Verified
<1> QED
  BY <1>1, UpdateInvHolds, PTL DEF Spec, VerifiesBestKnown
=============================================================================

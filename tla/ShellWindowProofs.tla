--------------------------- MODULE ShellWindowProofs ---------------------------
(***************************************************************************)
(* One process of a selection collects at a time, no input is lost or      *)
(* converted twice, and a window closes by itself only when it is done:    *)
(* proved for any number of processes, inputs, attempts and failures.      *)
(***************************************************************************)
EXTENDS ShellWindow, SequenceTheorems, FiniteSetTheorems, TLAPS

Verdicts == {"ok", "failed", "canceled"}
Windows == [done : Seq(Verdicts), stop : BOOLEAN, running : BOOLEAN,
            batch : {"run", "over"}]
Processes == [pc : Pcs, inputs : Seq(Inputs), next : Nat, unsent : Seq(Inputs),
              tries : 0..MaxTries, win : Windows]

Leading == {"lead", "collect", "closing", "drained"}
Reading == {"collect", "closing", "drained"}
Gated == {"closing", "drained", "gated", "send"}

\* Types, and an attempt is left for whoever may still need one.
Typed ==
  /\ proc \in [Procs -> Processes]
  /\ handles \subseteq Procs /\ slot \in Seq(Inputs) /\ faults \in 0..MaxFaults
  /\ mutex \in Procs \cup {None} /\ gate \in Procs \cup {None}
  /\ reader \in Procs \cup {None}

Hopeful ==
  \A p \in Procs : proc[p].pc \in {"new", "follow", "gated"} =>
                      proc[p].tries < MaxTries /\ proc[p].next = 1

\* Who owns what follows from where a process is, and the other way round.
Owners ==
  /\ \A p \in Procs : proc[p].pc \in Leading <=> mutex = p
  /\ \A p \in Procs : proc[p].pc \in Reading <=> reader = p
  /\ \A p \in Procs : proc[p].pc \in Gated <=> gate = p
  /\ \A p \in Procs : proc[p].pc \in Leading => p \in handles

\* A message waits only where somebody reads, and behind the closed gate none does.
Slots ==
  /\ slot # <<>> => reader # None
  /\ \A p \in Procs : proc[p].pc = "drained" => slot = <<>>

LInv == Typed /\ Hopeful /\ Owners /\ Slots

\* p gets to `pc`; of the other fields at most its window changes.
Moves(p, pc) ==
  /\ proc' \in [Procs -> Processes] /\ \A q \in Procs \ {p} : proc'[q] = proc[q]
  /\ proc'[p].pc = pc
  /\ proc'[p].inputs = proc[p].inputs /\ proc'[p].next = proc[p].next
  /\ proc'[p].unsent = proc[p].unsent /\ proc'[p].tries = proc[p].tries

\* One process changes.
LEMMA OneChanges ==
  ASSUME proc \in [Procs -> Processes], NEW p \in Procs, NEW r \in Processes,
         proc' = [proc EXCEPT ![p] = r]
  PROVE  /\ proc' \in [Procs -> Processes]
         /\ proc'[p] = r /\ \A q \in Procs \ {p} : proc'[q] = proc[q]
OBVIOUS

\* A process goes elsewhere and nothing else of it changes.
LEMMA Goes ==
  ASSUME proc \in [Procs -> Processes], NEW p \in Procs, NEW pc \in Pcs, Go(p, pc)
  PROVE  Moves(p, pc)
<1> DEFINE r == [proc[p] EXCEPT !.pc = pc]
<1>1. /\ r \in Processes
      /\ r.pc = pc /\ r.inputs = proc[p].inputs /\ r.next = proc[p].next
      /\ r.unsent = proc[p].unsent /\ r.tries = proc[p].tries
  <2>1. proc[p] \in Processes
    OBVIOUS
  <2> QED
    BY <2>1 DEF Processes
<1>2. proc' = [proc EXCEPT ![p] = r]
  BY DEF Go
<1> HIDE DEF r
<1>3. /\ proc' \in [Procs -> Processes]
      /\ proc'[p] = r /\ \A q \in Procs \ {p} : proc'[q] = proc[q]
  BY <1>1, <1>2, OneChanges
<1> QED
  BY <1>1, <1>3 DEF Moves

\* A process is left with `s` and converts it.
LEMMA Keeps ==
  ASSUME proc \in [Procs -> Processes], NEW p \in Procs, NEW s \in Seq(Inputs), Keep(p, s)
  PROVE  /\ proc' \in [Procs -> Processes] /\ \A q \in Procs \ {p} : proc'[q] = proc[q]
         /\ proc'[p].pc = "keeps" /\ proc'[p].inputs = s
         /\ s = proc[p].inputs => Moves(p, "keeps")
<1> DEFINE r == [proc[p] EXCEPT !.pc = "keeps", !.inputs = s]
<1>1. /\ r \in Processes
      /\ r.pc = "keeps" /\ r.inputs = s /\ r.next = proc[p].next
      /\ r.unsent = proc[p].unsent /\ r.tries = proc[p].tries
  <2>1. proc[p] \in Processes
    OBVIOUS
  <2> QED
    BY <2>1 DEF Processes, Pcs
<1>2. proc' = [proc EXCEPT ![p] = r]
  BY DEF Keep
<1> HIDE DEF r
<1>3. /\ proc' \in [Procs -> Processes]
      /\ proc'[p] = r /\ \A q \in Procs \ {p} : proc'[q] = proc[q]
  BY <1>1, <1>2, OneChanges
<1> QED
  BY <1>1, <1>3 DEF Moves

\* A window opens, works and closes.
LEMMA Windowed ==
  ASSUME LInv, NEW p \in Procs, ShowWindow(p) \/ Window(p) \/ User(p)
  PROVE  /\ \E pc \in {"window", "hidden", "exited", "terminated"} : Moves(p, pc)
         /\ proc[p].pc \in {"keeps", "window", "hidden"}
         /\ UNCHANGED <<mutex, gate, slot, reader>>
         /\ handles' \in {handles, handles \ {p}} /\ faults' \in 0..MaxFaults
<1>0. /\ proc \in [Procs -> Processes] /\ faults \in 0..MaxFaults
      /\ {"window", "hidden", "exited", "terminated"} \subseteq Pcs
  BY DEF LInv, Typed, Pcs, Over
<1>p. proc[p] \in Processes /\ proc[p].win \in Windows
  BY <1>0 DEF Processes
\* What only changes the window, and perhaps hides it.
<1>w. ASSUME NEW w \in Windows, NEW pc \in {proc[p].pc, "hidden"},
             proc' = [proc EXCEPT ![p] = [proc[p] EXCEPT !.win = w, !.pc = pc]]
      PROVE  Moves(p, pc)
  <2> DEFINE r == [proc[p] EXCEPT !.win = w, !.pc = pc]
  <2>1. /\ r \in Processes
        /\ r.pc = pc /\ r.inputs = proc[p].inputs /\ r.next = proc[p].next
        /\ r.unsent = proc[p].unsent /\ r.tries = proc[p].tries
    BY <1>0, <1>p DEF Processes
  <2>2. proc' = [proc EXCEPT ![p] = r]
    BY <1>w
  <2> HIDE DEF r
  <2>3. /\ proc' \in [Procs -> Processes]
        /\ proc'[p] = r /\ \A q \in Procs \ {p} : proc'[q] = proc[q]
    BY <1>0, <2>1, <2>2, OneChanges
  <2> QED
    BY <2>1, <2>3 DEF Moves
<1>1. CASE ShowWindow(p)
  BY <1>0, <1>1, Goes DEF ShowWindow, At
<1>2. CASE Convert(p)
  <2>1. PICK v \in Verdicts : proc' = [proc EXCEPT ![p].win.done = Append(@, v)]
    BY <1>2 DEF Convert, Verdicts
  <2>2. [proc[p].win EXCEPT !.done = Append(@, v)] \in Windows
    <3>1. proc[p].win.done \in Seq(Verdicts)
      BY <1>p DEF Windows
    <3>2. Append(proc[p].win.done, v) \in Seq(Verdicts)
      BY <3>1, AppendProperties
    <3>3. \A w \in Windows, t \in Seq(Verdicts) : [w EXCEPT !.done = t] \in Windows
      BY DEF Windows
    <3> QED
      BY <1>p, <3>2, <3>3
  <2>3. [proc[p] EXCEPT !.win = [proc[p].win EXCEPT !.done = Append(@, v)], !.pc = proc[p].pc]
          = [proc[p] EXCEPT !.win.done = Append(@, v)]
    BY <1>p DEF Processes
  <2>4. Moves(p, proc[p].pc)
    BY <1>w, <2>1, <2>2, <2>3
  <2>5. faults' \in 0..MaxFaults
    BY <1>0, <1>2, LaunchAssumption DEF Convert, Fault
  <2> QED
    BY <1>2, <2>4, <2>5 DEF Convert, windowOnly
<1>3. CASE BatchEnds(p)
  <2>1. [proc[p].win EXCEPT !.batch = "over"] \in Windows
    BY <1>p DEF Windows
  <2>2. [proc[p] EXCEPT !.win = [proc[p].win EXCEPT !.batch = "over"], !.pc = proc[p].pc]
          = [proc[p] EXCEPT !.win.batch = "over"]
    BY <1>p DEF Processes
  <2>3. Moves(p, proc[p].pc)
    BY <1>3, <1>w, <2>1, <2>2 DEF BatchEnds
  <2> QED
    BY <1>0, <1>3, <2>3 DEF BatchEnds, windowOnly
<1>4. CASE ShowEnd(p)
  <2>1. PICK pc \in {proc[p].pc, "hidden"} :
          proc' = [proc EXCEPT ![p].win.running = FALSE, ![p].pc = pc]
    BY <1>4 DEF ShowEnd
  <2>2. [proc[p].win EXCEPT !.running = FALSE] \in Windows
    BY <1>p DEF Windows
  <2>3. Moves(p, pc)
    BY <1>w, <2>1, <2>2
  <2> QED
    BY <1>0, <1>4, <2>3 DEF ShowEnd, windowOnly, At
<1>5. CASE Cancel(p)
  <2>1. [proc[p].win EXCEPT !.stop = TRUE] \in Windows
    BY <1>p DEF Windows
  <2>2. /\ [proc[p] EXCEPT !.win = [proc[p].win EXCEPT !.stop = TRUE], !.pc = proc[p].pc]
             = [proc[p] EXCEPT !.win.stop = TRUE]
    BY <1>p DEF Processes
  <2>3. CASE proc[p].win.running
    <3>1. Moves(p, proc[p].pc)
      BY <1>5, <1>w, <2>1, <2>2, <2>3 DEF Cancel
    <3> QED
      BY <1>0, <1>5, <3>1 DEF Cancel, windowOnly, At
  <2>4. CASE ~proc[p].win.running
    <3>1. Go(p, "hidden")
      BY <1>5, <2>4 DEF Cancel, Go
    <3> QED
      BY <1>0, <1>5, <3>1, Goes DEF Cancel, windowOnly, At
  <2> QED
    BY <2>3, <2>4
<1>6. CASE ForceTerminate(p)
  BY <1>0, <1>6, Goes DEF ForceTerminate, windowOnly, At
<1>7. CASE CloseRequested(p)
  BY <1>0, <1>7, Goes DEF CloseRequested, windowOnly, At
<1>8. CASE Exit(p)
  BY <1>0, <1>8, Goes DEF Exit, windowOnly, At
<1> QED
  BY <1>1, <1>2, <1>3, <1>4, <1>5, <1>6, <1>7, <1>8 DEF Window, User

\* What follows at the start.
LEMMA LStarts == Init => LInv
<1> SUFFICES ASSUME Init PROVE LInv
  OBVIOUS
<1> USE LaunchAssumption
<1>1. Typed
  <2>1. <<>> \in Seq(Inputs) /\ NoWindow \in Windows
    BY EmptySeq DEF NoWindow, Windows
  <2>2. \A p \in Procs :
          [pc |-> "new", inputs |-> Launched[p], next |-> 1, unsent |-> <<>>,
           tries |-> 0, win |-> NoWindow] \in Processes
    BY <2>1 DEF Processes, Pcs
  <2>3. proc \in [Procs -> Processes]
    BY <2>2 DEF Init
  <2> QED
    BY <2>1, <2>3 DEF Init, Typed
<1>2. Hopeful
  BY DEF Init, Hopeful
<1>3. Owners
  BY DEF Init, Owners, Leading, Reading, Gated
<1>4. Slots
  BY DEF Init, Slots
<1> QED
  BY <1>1, <1>2, <1>3, <1>4 DEF LInv

\* p gets to `pc`; its other fields are of their types.
Changes(p, pc) ==
  /\ proc' \in [Procs -> Processes] /\ \A q \in Procs \ {p} : proc'[q] = proc[q]
  /\ proc'[p].pc = pc

\* A step of one process keeps the invariant when what it owns follows it.
LEMMA LChanges ==
  ASSUME LInv, NEW p \in Procs, NEW pc, Changes(p, pc),
         handles' \subseteq Procs, slot' \in Seq(Inputs), faults' \in 0..MaxFaults,
         mutex' \in Procs \cup {None}, gate' \in Procs \cup {None},
         reader' \in Procs \cup {None},
         pc \in {"new", "follow", "gated"} =>
           proc'[p].tries < MaxTries /\ proc'[p].next = 1,
         pc \in Leading <=> mutex' = p, pc \in Reading <=> reader' = p,
         pc \in Gated <=> gate' = p,
         \A q \in Procs \ {p} :
           /\ mutex' = q <=> mutex = q
           /\ reader' = q <=> reader = q
           /\ gate' = q <=> gate = q
           /\ q \in handles => q \in handles',
         pc \in Leading => p \in handles', Slots'
  PROVE  LInv'
<1>1. Typed'
  BY DEF LInv, Typed, Changes
<1>2. Hopeful'
  BY DEF LInv, Hopeful, Changes
<1>3. Owners'
  <2> SUFFICES ASSUME NEW q \in Procs
               PROVE  /\ proc'[q].pc \in Leading <=> mutex' = q
                      /\ proc'[q].pc \in Reading <=> reader' = q
                      /\ proc'[q].pc \in Gated <=> gate' = q
                      /\ proc'[q].pc \in Leading => q \in handles'
    BY DEF Owners
  <2>1. CASE q = p
    BY <2>1 DEF Changes
  <2>2. CASE q # p
    BY <2>2 DEF LInv, Owners, Changes
  <2> QED
    BY <2>1, <2>2
<1> QED
  BY <1>1, <1>2, <1>3 DEF LInv

\* The same of a step that only moves it.
LEMMA LMoves ==
  ASSUME LInv, NEW p \in Procs, NEW pc, Moves(p, pc),
         handles' \subseteq Procs, slot' \in Seq(Inputs), faults' \in 0..MaxFaults,
         mutex' \in Procs \cup {None}, gate' \in Procs \cup {None},
         reader' \in Procs \cup {None},
         pc \in {"new", "follow", "gated"} => proc[p].pc \in {"new", "follow", "gated"},
         pc \in Leading <=> mutex' = p, pc \in Reading <=> reader' = p,
         pc \in Gated <=> gate' = p,
         \A q \in Procs \ {p} :
           /\ mutex' = q <=> mutex = q
           /\ reader' = q <=> reader = q
           /\ gate' = q <=> gate = q
           /\ q \in handles => q \in handles',
         pc \in Leading => p \in handles', Slots'
  PROVE  LInv'
<1>1. Changes(p, pc)
  BY DEF Moves, Changes
<1>2. pc \in {"new", "follow", "gated"} => proc'[p].tries < MaxTries /\ proc'[p].next = 1
  BY DEF Moves, LInv, Hopeful
<1> QED
  BY <1>1, <1>2, LChanges

\* A process is launched, collects and ends collecting.
LEMMA LCollect ==
  ASSUME LInv, NEW p \in Procs,
         \/ Launch(p) \/ CreateSlot(p) \/ Deadline(p)
         \/ DeadlineFails(p) \/ FinalDrain(p) \/ CloseSlot(p)
  PROVE  LInv' /\ \E pc : /\ Moves(p, pc) /\ pc # "send" /\ pc # "sent"
                          /\ slot' = slot \/ pc = "broken"
<1> USE LaunchAssumption
<1>0. /\ proc \in [Procs -> Processes] /\ None \notin Procs
      /\ Leading \cup {"follow", "keeps", "refused", "broken"} \subseteq Pcs
      /\ handles \subseteq Procs /\ slot \in Seq(Inputs) /\ faults \in 0..MaxFaults
      /\ mutex \in Procs \cup {None} /\ gate \in Procs \cup {None}
      /\ reader \in Procs \cup {None} /\ <<>> \in Seq(Inputs)
  BY EmptySeq DEF LInv, Typed, Pcs, Over, Leading
<1>f. Fault => faults' \in 0..MaxFaults
  BY <1>0 DEF Fault
<1>1. CASE Launch(p)
  <2>1. PICK pc \in {"lead", "follow"} :
          /\ Moves(p, pc) /\ (pc = "lead" <=> mutex' = p)
          /\ pc = "lead" => handles = {} /\ mutex' = p
          /\ pc = "follow" => mutex' = mutex
    <3>1. CASE handles = {}
      <4>1. Moves(p, "lead") /\ mutex' = p
        BY <1>0, <1>1, <3>1, Goes DEF Launch, Leading
      <4> QED
        BY <3>1, <4>1
    <3>2. CASE handles # {}
      <4>1. Moves(p, "follow") /\ mutex' = mutex
        BY <1>0, <1>1, <3>2, Goes DEF Launch
      <4>2. mutex # p
        BY <1>1 DEF Launch, At, LInv, Owners, Leading
      <4> QED
        BY <4>1, <4>2
    <3> QED
      BY <3>1, <3>2
  <2>2. /\ proc[p].pc = "new" /\ handles' = handles \cup {p}
        /\ UNCHANGED <<gate, slot, reader, faults>>
    BY <1>1 DEF Launch, At
  <2>3. /\ reader # p /\ gate # p /\ mutex # p
        /\ \A q \in Procs : mutex = q => q \in handles
    BY <2>2 DEF LInv, Owners, Leading, Reading, Gated
  <2>4. Slots'
    BY <2>1, <2>2 DEF Slots, LInv, Moves
  <2>5. /\ pc \in Leading <=> mutex' = p
        /\ pc \in Reading <=> reader' = p
        /\ pc \in Gated <=> gate' = p
    BY <2>1, <2>2, <2>3 DEF Leading, Reading, Gated
  <2>6. LInv'
    BY <1>0, <2>1, <2>2, <2>3, <2>4, <2>5, LMoves
  <2> QED
    BY <2>1, <2>2, <2>6
<1>2. CASE CreateSlot(p)
  <2>1. proc[p].pc = "lead" /\ gate = None /\ gate' = gate /\ slot' = slot
    BY <1>2 DEF CreateSlot, At
  <2>2. mutex = p /\ reader # p /\ p \in handles
    BY <2>1 DEF LInv, Owners, Leading, Reading
  <2>3. reader = None
    BY <1>0, <2>2 DEF LInv, Owners, Leading, Reading
  <2>4. slot = <<>>
    BY <2>3 DEF LInv, Slots
  <2>5. CASE reader' = p /\ Go(p, "collect") /\ UNCHANGED <<mutex, handles, faults>>
    <3>1. Moves(p, "collect")
      BY <1>0, <2>5, Goes DEF Leading
    <3>2. Slots'
      BY <2>1, <2>4 DEF Slots
    <3>3. LInv'
      BY <1>0, <2>1, <2>2, <2>3, <2>5, <3>1, <3>2, LMoves DEF Leading, Reading, Gated
    <3> QED
      BY <2>1, <3>1, <3>3
  <2>6. CASE /\ Fault /\ mutex' = None /\ handles' = handles \ {p}
             /\ Go(p, "refused") /\ UNCHANGED reader
    <3>1. Moves(p, "refused")
      BY <1>0, <2>6, Goes
    <3>2. Slots'
      BY <2>1, <2>4 DEF Slots
    <3>3. LInv'
      BY <1>0, <1>f, <2>1, <2>2, <2>3, <2>6, <3>1, <3>2, LMoves DEF Leading, Reading, Gated
    <3> QED
      BY <2>1, <3>1, <3>3
  <2> QED
    BY <1>2, <2>5, <2>6 DEF CreateSlot
<1>3. CASE Deadline(p)
  <2>1. Moves(p, "closing")
    BY <1>0, <1>3, Goes DEF Deadline, Leading
  <2>2. /\ proc[p].pc = "collect" /\ gate = None /\ gate' = p
        /\ UNCHANGED <<handles, mutex, slot, reader, faults>>
    BY <1>3 DEF Deadline, At
  <2>3. mutex = p /\ reader = p /\ p \in handles
    BY <2>2 DEF LInv, Owners, Leading, Reading
  <2>4. Slots'
    BY <2>1, <2>2 DEF Slots, LInv, Moves
  <2>5. LInv'
    BY <1>0, <2>1, <2>2, <2>3, <2>4, LMoves DEF Leading, Reading, Gated
  <2> QED
    BY <2>1, <2>2, <2>5
<1>4. CASE DeadlineFails(p)
  <2>1. Moves(p, "broken")
    BY <1>0, <1>4, Goes DEF DeadlineFails
  <2>2. /\ proc[p].pc = "collect" /\ gate' = gate /\ slot' = <<>> /\ mutex' = None
        /\ reader' = None /\ handles' = handles \ {p} /\ faults' \in 0..MaxFaults
    BY <1>4, <1>f DEF DeadlineFails, At
  <2>3. mutex = p /\ reader = p /\ gate # p
    BY <2>2 DEF LInv, Owners, Leading, Reading, Gated
  <2>4. Slots'
    BY <2>2 DEF Slots
  <2>5. LInv'
    BY <1>0, <2>1, <2>2, <2>3, <2>4, LMoves DEF Leading, Reading, Gated
  <2> QED
    BY <2>1, <2>2, <2>5
<1>5. CASE FinalDrain(p)
  <2>1. Moves(p, "drained")
    BY <1>0, <1>5, Goes DEF FinalDrain, Leading
  <2>2. /\ proc[p].pc = "closing" /\ slot = <<>>
        /\ UNCHANGED <<handles, mutex, gate, slot, reader, faults>>
    BY <1>5 DEF FinalDrain, At
  <2>3. mutex = p /\ reader = p /\ gate = p /\ p \in handles
    BY <2>2 DEF LInv, Owners, Leading, Reading, Gated
  <2>4. Slots'
    BY <2>2 DEF Slots
  <2>5. LInv'
    BY <1>0, <2>1, <2>2, <2>3, <2>4, LMoves DEF Leading, Reading, Gated
  <2> QED
    BY <2>1, <2>2, <2>5
<1>6. CASE CloseSlot(p)
  <2>1. Moves(p, "keeps")
    <3>1. proc[p].inputs \in Seq(Inputs)
      BY <1>0 DEF Processes
    <3> QED
      BY <1>0, <1>6, <3>1, Keeps DEF CloseSlot
  <2>2. proc[p].pc = "drained"
    BY <1>6 DEF CloseSlot, At
  <2>3. mutex = p /\ reader = p /\ gate = p
    BY <2>2 DEF LInv, Owners, Leading, Reading, Gated
  <2>4. /\ slot' = <<>> /\ mutex' = None /\ reader' = None /\ gate' = None
        /\ UNCHANGED <<handles, faults>>
    BY <1>6, <2>3 DEF CloseSlot
  <2>5. Slots'
    BY <2>4 DEF Slots
  <2>6. LInv'
    BY <1>0, <2>1, <2>2, <2>3, <2>4, <2>5, LMoves DEF Leading, Reading, Gated
  <2>7. slot = <<>>
    BY <2>2 DEF LInv, Slots
  <2> QED
    BY <2>1, <2>4, <2>6, <2>7
<1> QED
  BY <1>1, <1>2, <1>3, <1>4, <1>5, <1>6

\* A sender goes from step to step, is ended, or has a window.
LEMMA LSend ==
  ASSUME LInv, NEW p \in Procs,
         \/ TakeGate(p) \/ GateTimeout(p) \/ OpenSlot(p)
         \/ ShowWindow(p) \/ Window(p) \/ User(p)
  PROVE  /\ LInv' /\ slot' = slot
         /\ \E pc : /\ Moves(p, pc) /\ pc # "sent"
                    /\ pc = "send" => proc[p].pc = "gated"
<1> USE LaunchAssumption
<1>0. /\ proc \in [Procs -> Processes] /\ None \notin Procs
      /\ {"gated", "send", "keeps"} \subseteq Pcs /\ proc[p].inputs \in Seq(Inputs)
      /\ handles \subseteq Procs /\ slot \in Seq(Inputs) /\ faults \in 0..MaxFaults
      /\ mutex \in Procs \cup {None} /\ gate \in Procs \cup {None}
      /\ reader \in Procs \cup {None}
  <2>1. proc \in [Procs -> Processes]
    BY DEF LInv, Typed
  <2>2. proc[p].inputs \in Seq(Inputs)
    BY <2>1 DEF Processes
  <2> QED
    BY <2>1, <2>2 DEF LInv, Typed, Pcs
<1>1. CASE TakeGate(p)
  <2>1. proc[p].pc = "follow" /\ gate = None
        /\ UNCHANGED <<handles, mutex, slot, reader, faults>>
    BY <1>1 DEF TakeGate, At
  <2>2. mutex # p /\ reader # p /\ gate # p
    BY <2>1 DEF LInv, Owners, Leading, Reading, Gated
  <2>3. CASE mutex = None
    <3>1. Moves(p, "keeps") /\ gate' = gate
      BY <1>0, <1>1, <2>3, Keeps DEF TakeGate
    <3>2. Slots'
      BY <2>1, <3>1 DEF LInv, Slots, Moves
    <3>3. LInv'
      BY <1>0, <2>1, <2>2, <3>1, <3>2, LMoves DEF Leading, Reading, Gated
    <3> QED
      BY <2>1, <3>1, <3>3
  <2>4. CASE mutex # None
    <3>1. Moves(p, "gated") /\ gate' = p
      BY <1>0, <1>1, <2>4, Goes DEF TakeGate
    <3>2. Slots'
      BY <2>1, <3>1 DEF LInv, Slots, Moves
    <3>3. LInv'
      BY <1>0, <2>1, <2>2, <3>1, <3>2, LMoves DEF Leading, Reading, Gated
    <3> QED
      BY <2>1, <3>1, <3>3
  <2> QED
    BY <2>3, <2>4
<1>2. CASE GateTimeout(p)
  <2>1. proc[p].pc = "follow" /\ UNCHANGED <<handles, mutex, gate, slot, reader, faults>>
    BY <1>2 DEF GateTimeout, At
  <2>2. mutex # p /\ reader # p /\ gate # p
    BY <2>1 DEF LInv, Owners, Leading, Reading, Gated
  <2>3. Moves(p, "keeps")
    BY <1>0, <1>2, Keeps DEF GateTimeout
  <2>4. Slots'
    BY <2>1, <2>3 DEF LInv, Slots, Moves
  <2>5. LInv'
    BY <1>0, <2>1, <2>2, <2>3, <2>4, LMoves DEF Leading, Reading, Gated
  <2> QED
    BY <2>1, <2>3, <2>5
<1>3. CASE OpenSlot(p)
  <2>1. proc[p].pc = "gated" /\ UNCHANGED <<handles, mutex, gate, slot, reader, faults>>
    BY <1>3 DEF OpenSlot, At
  <2>2. mutex # p /\ reader # p /\ gate = p
    BY <2>1 DEF LInv, Owners, Leading, Reading, Gated
  <2>3. Moves(p, "send")
    BY <1>0, <1>3, Goes DEF OpenSlot
  <2>4. Slots'
    BY <2>1, <2>3 DEF LInv, Slots, Moves
  <2>5. LInv'
    BY <1>0, <2>1, <2>2, <2>3, <2>4, LMoves DEF Leading, Reading, Gated
  <2> QED
    BY <2>1, <2>3, <2>5
<1>4. CASE ShowWindow(p) \/ Window(p) \/ User(p)
  <2>1. PICK pc \in {"window", "hidden", "exited", "terminated"} : Moves(p, pc)
    BY <1>4, Windowed
  <2>2. /\ proc[p].pc \in {"keeps", "window", "hidden"}
        /\ UNCHANGED <<mutex, gate, slot, reader>>
        /\ handles' \in {handles, handles \ {p}} /\ faults' \in 0..MaxFaults
    BY <1>4, Windowed
  <2>3. mutex # p /\ reader # p /\ gate # p
    BY <2>2 DEF LInv, Owners, Leading, Reading, Gated
  <2>4. Slots'
    BY <2>1, <2>2 DEF LInv, Slots, Moves
  <2>5. LInv'
    BY <1>0, <2>1, <2>2, <2>3, <2>4, LMoves DEF Leading, Reading, Gated
  <2> QED
    BY <2>1, <2>2, <2>5
<1> QED
  BY <1>1, <1>2, <1>3, <1>4

\* The slot is not there: the search is repeated or given up.
LEMMA LTryAgain ==
  ASSUME LInv, NEW p \in Procs, TryAgain(p)
  PROVE  /\ LInv' /\ slot' = slot /\ proc'[p].inputs = proc[p].inputs
         /\ proc'[p].pc \in {"keeps", "follow"}
         /\ \A q \in Procs \ {p} : proc'[q] = proc[q]
<1> DEFINE pc == IF proc[p].tries + 1 = MaxTries THEN "keeps" ELSE "follow"
           n == proc[p].tries + 1
           r == [proc[p] EXCEPT !.tries = n, !.pc = pc]
<1>0. /\ proc \in [Procs -> Processes] /\ proc[p] \in Processes
      /\ handles \subseteq Procs /\ slot \in Seq(Inputs) /\ faults \in 0..MaxFaults
      /\ mutex \in Procs \cup {None} /\ gate \in Procs \cup {None}
      /\ reader \in Procs \cup {None} /\ {"follow", "keeps"} \subseteq Pcs
      /\ None \notin Procs
  BY LaunchAssumption DEF LInv, Typed, Pcs
<1>1. /\ proc[p].pc = "gated" /\ proc' = [proc EXCEPT ![p] = r] /\ gate' = None
      /\ UNCHANGED <<handles, mutex, slot, reader, faults>>
  BY DEF TryAgain, At
<1>2. /\ proc[p].tries \in 0..MaxTries /\ proc[p].tries < MaxTries /\ proc[p].next = 1
      /\ MaxTries \in Nat
  BY <1>0, <1>1, LaunchAssumption DEF LInv, Hopeful, Processes
<1>3. /\ pc \in {"keeps", "follow"} /\ n \in 0..MaxTries
      /\ pc = "follow" => n < MaxTries
  BY <1>2
<1> HIDE DEF pc, n
<1>4. /\ r \in Processes /\ r.pc = pc /\ r.tries = n
      /\ r.next = proc[p].next /\ r.inputs = proc[p].inputs
  BY <1>0, <1>3 DEF Processes
<1>5. pc = "follow" => r.tries < MaxTries
  BY <1>3, <1>4
<1> HIDE DEF r
<1>6. /\ proc' \in [Procs -> Processes] /\ proc'[p] = r
      /\ \A q \in Procs \ {p} : proc'[q] = proc[q]
  BY <1>0, <1>1, <1>4, OneChanges
<1>7. Changes(p, pc)
  BY <1>4, <1>6 DEF Changes
<1>8. mutex # p /\ reader # p /\ gate = p
  BY <1>1 DEF LInv, Owners, Leading, Reading, Gated
<1>9. Slots'
  BY <1>1, <1>3, <1>4, <1>6 DEF LInv, Slots
<1>10. LInv'
  BY <1>0, <1>1, <1>2, <1>3, <1>4, <1>5, <1>6, <1>7, <1>8, <1>9, LChanges
  DEF Leading, Reading, Gated
<1> QED
  BY <1>1, <1>3, <1>4, <1>6, <1>10

\* A process is killed: whatever it owned is free again.
LEMMA LKill ==
  ASSUME LInv, NEW p \in Procs, Kill(p)
  PROVE  LInv' /\ proc'[p].pc = "killed"
<1>0. /\ proc \in [Procs -> Processes] /\ None \notin Procs /\ "killed" \in Pcs
      /\ handles \subseteq Procs /\ slot \in Seq(Inputs) /\ faults \in 0..MaxFaults
      /\ mutex \in Procs \cup {None} /\ gate \in Procs \cup {None}
      /\ reader \in Procs \cup {None} /\ <<>> \in Seq(Inputs)
  BY EmptySeq, LaunchAssumption DEF LInv, Typed, Pcs, Over
<1>1. Moves(p, "killed") /\ faults' \in 0..MaxFaults
  BY <1>0, Goes, LaunchAssumption DEF Kill, Fault
<1>2. /\ handles' = handles \ {p}
      /\ mutex' = IF mutex = p THEN None ELSE mutex
      /\ gate' = IF gate = p THEN None ELSE gate
      /\ reader = p => reader' = None /\ slot' = <<>>
      /\ reader # p => reader' = reader /\ slot' = slot
  BY DEF Kill
<1>3. Slots'
  <2>1. CASE reader = p
    BY <1>2, <2>1 DEF Slots
  <2>2. CASE reader # p
    <3>1. slot' # <<>> => reader' # None
      BY <1>2, <2>2 DEF LInv, Slots
    <3>2. ASSUME NEW q \in Procs, proc'[q].pc = "drained" PROVE slot' = <<>>
      BY <1>1, <1>2, <2>2, <3>2 DEF LInv, Slots, Moves
    <3> QED
      BY <3>1, <3>2 DEF Slots
  <2> QED
    BY <2>1, <2>2
<1>4. LInv'
  BY <1>0, <1>1, <1>2, <1>3, LMoves DEF Leading, Reading, Gated
<1> QED
  BY <1>1, <1>4 DEF Moves

\* A message is taken out of the slot and collected.
LEMMA LDrain ==
  ASSUME LInv, NEW p \in Procs, Drain(p)
  PROVE  /\ LInv' /\ slot # <<>> /\ slot' = Tail(slot) /\ Head(slot) \in Inputs
         /\ proc[p].pc \in Reading /\ proc'[p].pc = proc[p].pc
         /\ proc'[p].inputs = Collected(proc[p].inputs, Head(slot))
         /\ proc'[p].inputs \in Seq(Inputs)
         /\ \A q \in Procs \ {p} : proc'[q] = proc[q]
<1> DEFINE s == Collected(proc[p].inputs, Head(slot))
           r == [proc[p] EXCEPT !.inputs = s]
<1>0. /\ proc \in [Procs -> Processes] /\ proc[p] \in Processes
      /\ handles \subseteq Procs /\ slot \in Seq(Inputs) /\ faults \in 0..MaxFaults
      /\ mutex \in Procs \cup {None} /\ gate \in Procs \cup {None}
      /\ reader \in Procs \cup {None}
  BY DEF LInv, Typed
<1>1. /\ proc[p].pc \in {"collect", "closing"} /\ proc' = [proc EXCEPT ![p] = r]
      /\ slot # <<>> /\ slot' = Tail(slot)
      /\ UNCHANGED <<handles, mutex, gate, reader, faults>>
  BY DEF Drain
<1>2. Head(slot) \in Inputs /\ Tail(slot) \in Seq(Inputs)
  BY <1>0, <1>1
<1>3. s \in Seq(Inputs)
  <2>1. proc[p].inputs \in Seq(Inputs)
    BY <1>0 DEF Processes
  <2>2. Append(proc[p].inputs, Head(slot)) \in Seq(Inputs)
    BY <1>2, <2>1, AppendProperties
  <2> QED
    BY <2>1, <2>2 DEF Collected
<1> HIDE DEF s
<1>4. r \in Processes /\ r.pc = proc[p].pc /\ r.inputs = s
  BY <1>0, <1>3 DEF Processes
<1> HIDE DEF r
<1>5. /\ proc' \in [Procs -> Processes] /\ proc'[p] = r
      /\ \A q \in Procs \ {p} : proc'[q] = proc[q]
  BY <1>0, <1>1, <1>4, OneChanges
<1>6. Changes(p, proc[p].pc)
  BY <1>4, <1>5 DEF Changes
<1>7. proc[p].pc \in Leading /\ proc[p].pc \in Reading
  BY <1>1 DEF Leading, Reading
<1>8. Slots'
  <2>1. reader = p /\ \A q \in Procs : proc[q].pc = "drained" => q = p
    BY <1>7 DEF LInv, Owners, Leading
  <2>2. None # p
    BY LaunchAssumption
  <2>3. \A q \in Procs : proc'[q].pc # "drained"
    BY <1>1, <1>4, <1>5, <2>1
  <2> QED
    BY <1>1, <2>1, <2>2, <2>3 DEF Slots
<1>9. LInv'
  BY <1>0, <1>1, <1>2, <1>6, <1>7, <1>8, LChanges DEF LInv, Owners
<1> QED
  BY <1>1, <1>2, <1>3, <1>4, <1>5, <1>7, <1>9 DEF s

\* One input is written into the slot or kept.
LEMMA LSendInput ==
  ASSUME LInv, NEW p \in Procs, SendInput(p)
  PROVE  LET input == proc[p].inputs[proc[p].next]
         IN /\ LInv' /\ input \in Inputs /\ proc[p].pc = "send" /\ proc'[p].pc = "send"
            /\ proc'[p].next = proc[p].next + 1 /\ proc'[p].inputs = proc[p].inputs
            /\ \A q \in Procs \ {p} : proc'[q] = proc[q]
            /\ \/ slot' = Append(slot, input) /\ proc'[p].unsent = proc[p].unsent
               \/ slot' = slot /\ proc'[p].unsent = Append(proc[p].unsent, input)
<1> DEFINE input == proc[p].inputs[proc[p].next]
           n == proc[p].next + 1
           u == Append(proc[p].unsent, input)
           sent == [proc[p] EXCEPT !.next = n]
           kept == [proc[p] EXCEPT !.next = n, !.unsent = u]
<1>0. /\ proc \in [Procs -> Processes] /\ proc[p] \in Processes
      /\ handles \subseteq Procs /\ slot \in Seq(Inputs) /\ faults \in 0..MaxFaults
      /\ mutex \in Procs \cup {None} /\ gate \in Procs \cup {None}
      /\ reader \in Procs \cup {None} /\ None \notin Procs
  BY LaunchAssumption DEF LInv, Typed
<1>1. /\ proc[p].pc = "send" /\ proc[p].next \in DOMAIN proc[p].inputs
      /\ UNCHANGED <<handles, mutex, gate, reader>>
      /\ \/ reader # None /\ slot' = Append(slot, input) /\ proc' = [proc EXCEPT ![p] = sent]
            /\ UNCHANGED faults
         \/ slot' = slot /\ proc' = [proc EXCEPT ![p] = kept]
            /\ (UNCHANGED faults \/ Fault)
  BY DEF SendInput, At
<1>2. faults' \in 0..MaxFaults
  BY <1>0, <1>1, LaunchAssumption DEF Fault
<1>3. input \in Inputs
  <2>1. proc[p].inputs \in Seq(Inputs)
    BY <1>0 DEF Processes
  <2> QED
    BY <1>1, <2>1
<1>4. Append(slot, input) \in Seq(Inputs) /\ u \in Seq(Inputs)
  <2>1. proc[p].unsent \in Seq(Inputs)
    BY <1>0 DEF Processes
  <2> QED
    BY <1>0, <1>3, <2>1, AppendProperties
<1>n. n \in Nat
  BY <1>0 DEF Processes
<1> HIDE DEF input, n, u
<1>5. /\ sent \in Processes /\ sent.pc = proc[p].pc /\ sent.next = n
      /\ sent.inputs = proc[p].inputs /\ sent.unsent = proc[p].unsent
  BY <1>0, <1>n DEF Processes
<1>6. /\ kept \in Processes /\ kept.pc = proc[p].pc /\ kept.next = n
      /\ kept.inputs = proc[p].inputs /\ kept.unsent = u
  BY <1>0, <1>4, <1>n DEF Processes
<1> HIDE DEF sent, kept
<1>7. /\ proc' \in [Procs -> Processes] /\ \A q \in Procs \ {p} : proc'[q] = proc[q]
      /\ proc'[p] \in {sent, kept}
      /\ \/ reader # None /\ slot' = Append(slot, input) /\ proc'[p] = sent
         \/ slot' = slot /\ proc'[p] = kept
  <2>1. CASE slot' = Append(slot, input) /\ reader # None /\ proc' = [proc EXCEPT ![p] = sent]
    BY <1>0, <1>5, <2>1, OneChanges
  <2>2. CASE slot' = slot /\ proc' = [proc EXCEPT ![p] = kept]
    BY <1>0, <1>6, <2>2, OneChanges
  <2> QED
    BY <1>1, <2>1, <2>2
<1>8. Changes(p, "send")
  BY <1>1, <1>5, <1>6, <1>7 DEF Changes
<1>9. gate = p /\ mutex # p /\ reader # p
  BY <1>1 DEF LInv, Owners, Leading, Reading, Gated
<1>10. Slots'
  <2>1. \A q \in Procs : proc[q].pc # "drained"
    BY <1>1, <1>9 DEF LInv, Owners, Gated
  <2>2. \A q \in Procs : proc'[q].pc # "drained"
    BY <1>8, <2>1 DEF Changes
  <2>3. slot' # <<>> => reader' # None
    BY <1>1, <1>7 DEF LInv, Slots
  <2> QED
    BY <2>2, <2>3 DEF Slots
<1>11. slot' \in Seq(Inputs)
  BY <1>0, <1>4, <1>7
<1>12. LInv'
  BY <1>0, <1>1, <1>2, <1>8, <1>9, <1>10, <1>11, LChanges DEF Leading, Reading, Gated
<1> QED
  BY <1>1, <1>3, <1>5, <1>6, <1>7, <1>8, <1>12 DEF input, n, u, Changes

\* Everything is sent, or what is left is converted here.
LEMMA LSent ==
  ASSUME LInv, NEW p \in Procs, Sent(p)
  PROVE  /\ LInv' /\ slot' = slot /\ proc[p].pc = "send"
         /\ proc[p].next > Len(proc[p].inputs)
         /\ \A q \in Procs \ {p} : proc'[q] = proc[q]
         /\ \/ proc[p].unsent = <<>> /\ proc'[p].pc = "sent"
            \/ proc'[p].pc = "keeps" /\ proc'[p].inputs = proc[p].unsent
<1>0. /\ proc \in [Procs -> Processes] /\ None \notin Procs /\ "sent" \in Pcs
      /\ handles \subseteq Procs /\ slot \in Seq(Inputs) /\ faults \in 0..MaxFaults
      /\ mutex \in Procs \cup {None} /\ gate \in Procs \cup {None}
      /\ reader \in Procs \cup {None}
  BY LaunchAssumption DEF LInv, Typed, Pcs, Over
<1>1. proc[p].unsent \in Seq(Inputs)
  BY <1>0 DEF Processes
<1>2. /\ proc[p].pc = "send" /\ proc[p].next > Len(proc[p].inputs) /\ gate' = None
      /\ UNCHANGED <<mutex, slot, reader, faults>>
  BY DEF Sent, At
<1>3. gate = p /\ mutex # p /\ reader # p
  BY <1>2 DEF LInv, Owners, Leading, Reading, Gated
<1>4. PICK pc \in {"sent", "keeps"} :
        /\ Changes(p, pc)
        /\ handles' \in {handles, handles \ {p}}
        /\ \/ proc[p].unsent = <<>> /\ pc = "sent"
           \/ pc = "keeps" /\ proc'[p].inputs = proc[p].unsent
  <2>1. CASE proc[p].unsent = <<>>
    BY <1>0, <2>1, Goes DEF Sent, Moves, Changes
  <2>2. CASE proc[p].unsent # <<>>
    BY <1>0, <1>1, <2>2, Keeps DEF Sent, Changes
  <2> QED
    BY <2>1, <2>2
<1>5. Slots'
  BY <1>2, <1>4 DEF LInv, Slots, Changes
<1>6. LInv'
  BY <1>0, <1>2, <1>3, <1>4, <1>5, LChanges DEF Leading, Reading, Gated
<1> QED
  BY <1>2, <1>4, <1>6 DEF Changes

\* No process was killed or failed to end its collecting.
Calm == \A p \in Procs : proc[p].pc \notin {"killed", "broken"}

\* x waits in the slot or is with a process other than those in `but`.
Apart(but, x) ==
  \/ x \in Range(slot)
  \/ \E q \in Procs \ but : proc[q].pc # "sent" /\ x \in Range(proc[q].inputs)

\* What a sender has passed is in the slot, with another process or kept.
Passed(p) ==
  \A i \in DOMAIN proc[p].inputs :
    i < proc[p].next =>
      \/ proc[p].inputs[i] \in Range(proc[p].unsent)
      \/ Apart({p}, proc[p].inputs[i])

Safe ==
  Calm => /\ \A x \in Inputs : Apart({}, x)
          /\ \A p \in Procs : proc[p].pc = "send" => Passed(p)

IInv == LInv /\ Safe

\* What is in a sequence after an element is added or taken away.
LEMMA Ranges ==
  ASSUME NEW S, NEW s \in Seq(S), NEW x
  PROVE  /\ x \in S => Range(Append(s, x)) = Range(s) \cup {x}
         /\ s # <<>> => Range(s) = {Head(s)} \cup Range(Tail(s))
         /\ Range(<<>>) = {}
<1>1. x \in S => Range(Append(s, x)) = Range(s) \cup {x}
  BY RangeOfSeq, AppendProperties DEF Range
<1>2. ASSUME s # <<>> PROVE Range(s) = {Head(s)} \cup Range(Tail(s))
  <2> DEFINE t == Tail(s)
  <2>1. /\ t \in Seq(S) /\ Len(t) = Len(s) - 1 /\ Head(s) = s[1] /\ Len(s) \in Nat \ {0}
        /\ \A i \in 1 .. Len(t) : t[i] = s[i + 1]
    BY <1>2, HeadTailProperties
  <2>2. Range(s) = {s[i] : i \in 1 .. Len(s)} /\ Range(t) = {t[i] : i \in 1 .. Len(t)}
    BY <2>1, RangeEquality
  <2> HIDE DEF t
  <2>3. ASSUME NEW i \in 1 .. Len(s) PROVE s[i] = s[1] \/ s[i] \in Range(t)
    <3>1. CASE i # 1
      <4>1. i - 1 \in 1 .. Len(t) /\ t[i - 1] = s[i]
        BY <2>1, <3>1
      <4> QED
        BY <2>2, <4>1
    <3> QED
      BY <3>1
  <2>4. ASSUME NEW i \in 1 .. Len(t) PROVE t[i] \in Range(s)
    <3>1. i + 1 \in 1 .. Len(s) /\ t[i] = s[i + 1]
      BY <2>1
    <3> QED
      BY <2>2, <3>1
  <2>5. s[1] \in Range(s)
    BY <2>1, <2>2
  <2> QED
    BY <2>1, <2>2, <2>3, <2>4, <2>5 DEF t
<1>3. Range(<<>>) = {}
  BY DEF Range
<1> QED
  BY <1>1, <1>2, <1>3

\* Nothing is lost by a step that only moves a process.
LEMMA SafeMoves ==
  ASSUME IInv, NEW p \in Procs, NEW pc, Moves(p, pc), pc # "sent",
         slot' = slot \/ pc = "broken", pc = "send" => proc[p].pc = "gated",
         proc[p].pc \notin {"sent", "killed", "broken"}
  PROVE  Safe'
<1> SUFFICES ASSUME Calm'
             PROVE  /\ \A x \in Inputs : Apart({}, x)'
                    /\ \A q \in Procs : proc'[q].pc = "send" => Passed(q)'
  BY DEF Safe
<1>1. slot' = slot /\ Calm
  BY DEF Moves, Calm
<1>2. \A q \in Procs : /\ proc'[q].pc # "sent" <=> proc[q].pc # "sent"
                       /\ proc'[q].inputs = proc[q].inputs
                       /\ proc'[q].next = proc[q].next /\ proc'[q].unsent = proc[q].unsent
  BY DEF Moves
<1>3. \A but, x : Apart(but, x)' <=> Apart(but, x)
  BY <1>1, <1>2 DEF Apart
<1>4. \A x \in Inputs : Apart({}, x)'
  BY <1>1, <1>3 DEF IInv, Safe
<1>5. ASSUME NEW q \in Procs, proc'[q].pc = "send" PROVE Passed(q)'
  <2>1. CASE q = p
    <3>1. proc[p].next = 1
      BY <1>5, <2>1 DEF Moves, IInv, LInv, Hopeful
    <3>2. \A i \in DOMAIN proc[p].inputs : ~(i < 1)
      <4>1. proc[p].inputs \in Seq(Inputs)
        BY DEF IInv, LInv, Typed, Processes
      <4> QED
        BY <4>1
    <3> QED
      BY <1>2, <2>1, <3>1, <3>2 DEF Passed
  <2>2. CASE q # p
    <3>1. Passed(q)
      BY <1>1, <1>5, <2>2 DEF Moves, IInv, Safe
    <3> QED
      BY <1>2, <1>3, <3>1 DEF Passed
  <2> QED
    BY <2>1, <2>2
<1> QED
  BY <1>4, <1>5

\* A message that leaves the slot is with the process that took it.
LEMMA SafeDrain ==
  ASSUME IInv, NEW p \in Procs, Drain(p)
  PROVE  Safe'
<1> SUFFICES ASSUME Calm'
             PROVE  /\ \A x \in Inputs : Apart({}, x)'
                    /\ \A q \in Procs : proc'[q].pc = "send" => Passed(q)'
  BY DEF Safe
<1>0. /\ slot # <<>> /\ slot' = Tail(slot) /\ proc[p].pc \in Reading
      /\ proc'[p].pc = proc[p].pc
      /\ proc'[p].inputs = Collected(proc[p].inputs, Head(slot))
      /\ Head(slot) \in Inputs /\ \A q \in Procs \ {p} : proc'[q] = proc[q]
  BY LDrain DEF IInv
<1>1. Calm
  BY <1>0 DEF Calm
<1>2. proc[p].pc # "sent" /\ proc[p].pc # "send"
  BY <1>0 DEF Reading
<1>3. slot \in Seq(Inputs) /\ proc[p].inputs \in Seq(Inputs)
  BY DEF IInv, LInv, Typed, Processes
<1>4. Range(proc'[p].inputs) = Range(proc[p].inputs) \cup {Head(slot)}
  BY <1>0, <1>3, Ranges DEF Collected
<1>5. Range(slot) = {Head(slot)} \cup Range(slot')
  BY <1>0, <1>3, Ranges
<1>6. ASSUME NEW but, p \notin but, NEW x, Apart(but, x) PROVE Apart(but, x)'
  <2>1. CASE x = Head(slot)
    BY <1>0, <1>2, <1>4, <1>6, <2>1 DEF Apart
  <2>2. CASE x # Head(slot) /\ x \in Range(slot)
    BY <1>5, <2>2 DEF Apart
  <2>3. CASE x \notin Range(slot)
    <3>1. PICK q \in Procs \ but : proc[q].pc # "sent" /\ x \in Range(proc[q].inputs)
      BY <1>6, <2>3 DEF Apart
    <3>2. proc'[q].pc # "sent" /\ x \in Range(proc'[q].inputs)
      BY <1>0, <1>4, <3>1
    <3> QED
      BY <3>1, <3>2 DEF Apart
  <2> QED
    BY <2>1, <2>2, <2>3
<1>7. \A x \in Inputs : Apart({}, x)'
  BY <1>1, <1>6 DEF IInv, Safe
<1>8. ASSUME NEW q \in Procs, proc'[q].pc = "send" PROVE Passed(q)'
  <2>1. q # p /\ proc'[q] = proc[q]
    BY <1>0, <1>2, <1>8
  <2>2. Passed(q)
    BY <1>1, <1>8, <2>1 DEF IInv, Safe
  <2> QED
    BY <1>6, <2>1, <2>2 DEF Passed
<1> QED
  BY <1>7, <1>8

\* The input a sender passes is in the slot or among those it keeps.
LEMMA SafeSendInput ==
  ASSUME IInv, NEW p \in Procs, SendInput(p)
  PROVE  Safe'
<1> SUFFICES ASSUME Calm'
             PROVE  /\ \A x \in Inputs : Apart({}, x)'
                    /\ \A q \in Procs : proc'[q].pc = "send" => Passed(q)'
  BY DEF Safe
<1> DEFINE input == proc[p].inputs[proc[p].next]
<1>0. /\ input \in Inputs /\ proc[p].pc = "send" /\ proc'[p].pc = "send"
      /\ proc'[p].next = proc[p].next + 1 /\ proc'[p].inputs = proc[p].inputs
      /\ \A q \in Procs \ {p} : proc'[q] = proc[q]
      /\ \/ slot' = Append(slot, input) /\ proc'[p].unsent = proc[p].unsent
         \/ slot' = slot /\ proc'[p].unsent = Append(proc[p].unsent, input)
  BY LSendInput DEF IInv
<1>1. Calm
  BY <1>0 DEF Calm
<1>2. /\ slot \in Seq(Inputs) /\ proc[p].inputs \in Seq(Inputs)
      /\ proc[p].unsent \in Seq(Inputs) /\ proc[p].next \in Nat
  BY DEF IInv, LInv, Typed, Processes
<1> HIDE DEF input
<1>3. \/ Range(slot') = Range(slot) \cup {input} /\ proc'[p].unsent = proc[p].unsent
      \/ slot' = slot /\ Range(proc'[p].unsent) = Range(proc[p].unsent) \cup {input}
  <2>1. /\ Range(Append(slot, input)) = Range(slot) \cup {input}
        /\ Range(Append(proc[p].unsent, input)) = Range(proc[p].unsent) \cup {input}
    BY <1>0, <1>2, Ranges
  <2> QED
    BY <1>0, <2>1
<1>4. \A q \in Procs : /\ proc'[q].pc # "sent" <=> proc[q].pc # "sent"
                       /\ proc'[q].inputs = proc[q].inputs
  BY <1>0
<1>5. \A but, x : Apart(but, x) => Apart(but, x)'
  BY <1>3, <1>4 DEF Apart
<1>6. \A x \in Inputs : Apart({}, x)'
  BY <1>1, <1>5 DEF IInv, Safe
<1>7. ASSUME NEW q \in Procs, proc'[q].pc = "send" PROVE Passed(q)'
  <2>1. q = p
    BY <1>0, <1>7 DEF IInv, LInv, Owners, Gated
  <2>2. Passed(p)
    BY <1>0, <1>1 DEF IInv, Safe
  <2>3. SUFFICES ASSUME NEW x, NEW i \in DOMAIN proc[p].inputs, i < proc[p].next + 1,
                        x = proc[p].inputs[i]
                 PROVE  x \in Range(proc'[p].unsent) \/ Apart({p}, x)'
    BY <1>0, <2>1 DEF Passed
  <2>4. CASE i < proc[p].next
    <3>1. x \in Range(proc[p].unsent) \/ Apart({p}, x)
      BY <2>2, <2>3, <2>4 DEF Passed
    <3>2. Range(proc[p].unsent) \subseteq Range(proc'[p].unsent)
      BY <1>3
    <3> QED
      BY <1>5, <3>1, <3>2
  <2>5. CASE i = proc[p].next
    <3>1. x \in Range(slot') \/ x \in Range(proc'[p].unsent)
      BY <1>3, <2>3, <2>5 DEF input
    <3> QED
      BY <3>1 DEF Apart
  <2>6. i \in Nat
    BY <1>2
  <2> QED
    BY <1>2, <2>3, <2>4, <2>5, <2>6
<1> QED
  BY <1>6, <1>7

\* When a sender leaves, what it does not keep is with another process.
LEMMA SafeSent ==
  ASSUME IInv, NEW p \in Procs, Sent(p)
  PROVE  Safe'
<1> SUFFICES ASSUME Calm'
             PROVE  /\ \A x \in Inputs : Apart({}, x)'
                    /\ \A q \in Procs : proc'[q].pc = "send" => Passed(q)'
  BY DEF Safe
<1>0. /\ slot' = slot /\ proc[p].pc = "send" /\ proc[p].next > Len(proc[p].inputs)
      /\ \A q \in Procs \ {p} : proc'[q] = proc[q]
      /\ \/ proc[p].unsent = <<>> /\ proc'[p].pc = "sent"
         \/ proc'[p].pc = "keeps" /\ proc'[p].inputs = proc[p].unsent
  BY LSent DEF IInv
<1>1. Calm
  BY <1>0 DEF Calm
<1>2. proc[p].inputs \in Seq(Inputs) /\ proc[p].next \in Nat
  BY DEF IInv, LInv, Typed, Processes
<1>3. Passed(p) /\ \A x \in Inputs : Apart({}, x)
  BY <1>0, <1>1 DEF IInv, Safe
<1>4. \A x : Apart({p}, x) => Apart({}, x)'
  BY <1>0 DEF Apart
<1>5. ASSUME NEW x \in Inputs PROVE Apart({}, x)'
  <2>1. CASE Apart({p}, x)
    BY <1>4, <2>1
  <2>2. CASE ~Apart({p}, x)
    <3>1. x \in Range(proc[p].inputs)
      BY <1>3, <2>2 DEF Apart
    <3>2. PICK i \in DOMAIN proc[p].inputs : x = proc[p].inputs[i]
      BY <3>1 DEF Range
    <3>3. i < proc[p].next
      BY <1>0, <1>2
    <3>4. x \in Range(proc[p].unsent)
      BY <1>3, <2>2, <3>2, <3>3 DEF Passed
    <3>5. proc'[p].pc = "keeps" /\ proc'[p].inputs = proc[p].unsent
      <4>1. Range(<<>>) = {}
        BY DEF Range
      <4> QED
        BY <1>0, <3>4, <4>1
    <3> QED
      BY <3>4, <3>5 DEF Apart
  <2> QED
    BY <2>1, <2>2
<1>6. ASSUME NEW q \in Procs PROVE proc'[q].pc # "send"
  <2>1. proc[q].pc = "send" => q = p
    BY <1>0 DEF IInv, LInv, Owners, Gated
  <2> QED
    BY <1>0, <2>1
<1> QED
  BY <1>5, <1>6

\* The search for the slot loses nothing.
LEMMA SafeTryAgain ==
  ASSUME IInv, NEW p \in Procs, TryAgain(p)
  PROVE  Safe'
<1> SUFFICES ASSUME Calm'
             PROVE  /\ \A x \in Inputs : Apart({}, x)'
                    /\ \A q \in Procs : proc'[q].pc = "send" => Passed(q)'
  BY DEF Safe
<1>0. /\ slot' = slot /\ proc'[p].inputs = proc[p].inputs /\ proc[p].pc = "gated"
      /\ proc'[p].pc \in {"keeps", "follow"} /\ \A q \in Procs \ {p} : proc'[q] = proc[q]
  BY LTryAgain DEF IInv, TryAgain, At
<1>1. Calm
  BY <1>0 DEF Calm
<1>2. \A q \in Procs : /\ proc'[q].pc # "sent" <=> proc[q].pc # "sent"
                       /\ proc'[q].inputs = proc[q].inputs
  BY <1>0
<1>3. \A but, x : Apart(but, x)' <=> Apart(but, x)
  BY <1>0, <1>2 DEF Apart
<1>4. ASSUME NEW q \in Procs PROVE proc'[q].pc # "send"
  <2>1. proc[q].pc # "send"
    BY <1>0 DEF IInv, LInv, Owners, Gated
  <2> QED
    BY <1>0, <2>1
<1> QED
  BY <1>1, <1>3, <1>4 DEF IInv, Safe

\* Where an action begins the process is alive.
LEMMA Alive ==
  ASSUME NEW p \in Procs,
         \/ Launch(p) \/ CreateSlot(p) \/ Deadline(p) \/ DeadlineFails(p) \/ FinalDrain(p)
         \/ CloseSlot(p) \/ TakeGate(p) \/ GateTimeout(p) \/ OpenSlot(p)
         \/ ShowWindow(p) \/ Window(p) \/ User(p)
  PROVE  proc[p].pc \notin {"sent", "killed", "broken"}
BY DEF Launch, CreateSlot, Deadline, DeadlineFails, FinalDrain, CloseSlot, TakeGate,
       GateTimeout, OpenSlot, ShowWindow, Window, User, Convert, BatchEnds, ShowEnd,
       Exit, Cancel, ForceTerminate, CloseRequested, At

\* The launched inputs are with the processes that were launched with them.
LEMMA Starts == Init => IInv
<1> SUFFICES ASSUME Init PROVE Safe
  BY LStarts DEF IInv
<1>1. \A p \in Procs : proc[p].pc = "new" /\ proc[p].inputs = Launched[p]
  BY DEF Init
<1>2. ASSUME NEW x \in Inputs PROVE Apart({}, x)
  <2>1. PICK p \in Procs : x \in Range(Launched[p])
    BY DEF Inputs
  <2> QED
    BY <1>1, <2>1 DEF Apart
<1> QED
  BY <1>1, <1>2 DEF Safe

\* One lemma for each kind of step.
LEMMA Kept == IInv /\ [Next]_vars => IInv'
<1> SUFFICES ASSUME IInv, [Next]_vars PROVE IInv'
  OBVIOUS
<1>1. ASSUME NEW p \in Procs,
             \/ Launch(p) \/ CreateSlot(p) \/ Deadline(p)
             \/ DeadlineFails(p) \/ FinalDrain(p) \/ CloseSlot(p)
      PROVE  IInv'
  <2>1. LInv' /\ \E pc : /\ Moves(p, pc) /\ pc # "send" /\ pc # "sent"
                         /\ slot' = slot \/ pc = "broken"
    BY <1>1, LCollect DEF IInv
  <2>2. proc[p].pc \notin {"sent", "killed", "broken"}
    BY <1>1, Alive
  <2> QED
    BY <2>1, <2>2, SafeMoves DEF IInv
<1>2. ASSUME NEW p \in Procs,
             \/ TakeGate(p) \/ GateTimeout(p) \/ OpenSlot(p)
             \/ ShowWindow(p) \/ Window(p) \/ User(p)
      PROVE  IInv'
  <2>1. /\ LInv' /\ slot' = slot
        /\ \E pc : /\ Moves(p, pc) /\ pc # "sent"
                   /\ pc = "send" => proc[p].pc = "gated"
    BY <1>2, LSend DEF IInv
  <2>2. proc[p].pc \notin {"sent", "killed", "broken"}
    BY <1>2, Alive
  <2> QED
    BY <2>1, <2>2, SafeMoves DEF IInv
<1>3. ASSUME NEW p \in Procs, Drain(p) PROVE IInv'
  BY <1>3, LDrain, SafeDrain DEF IInv
<1>4. ASSUME NEW p \in Procs, SendInput(p) PROVE IInv'
  <2>1. LInv'
    BY <1>4, LSendInput DEF IInv
  <2> QED
    BY <1>4, <2>1, SafeSendInput DEF IInv
<1>5. ASSUME NEW p \in Procs, Sent(p) PROVE IInv'
  BY <1>5, LSent, SafeSent DEF IInv
<1>6. ASSUME NEW p \in Procs, TryAgain(p) PROVE IInv'
  BY <1>6, LTryAgain, SafeTryAgain DEF IInv
<1>7. ASSUME NEW p \in Procs, Kill(p) PROVE IInv'
  <2>1. LInv' /\ proc'[p].pc = "killed"
    BY <1>7, LKill DEF IInv
  <2> QED
    BY <2>1 DEF IInv, Safe, Calm
<1>8. CASE UNCHANGED vars
  <2>1. LInv'
    BY <1>8 DEF IInv, LInv, Typed, Hopeful, Owners, Slots, vars
  <2>2. Safe'
    BY <1>8 DEF IInv, Safe, Calm, Apart, Passed, vars
  <2> QED
    BY <2>1, <2>2 DEF IInv
<1>9. CASE \E p \in Procs : Launch(p) \/ Collecting(p) \/ Kill(p)
  BY <1>1, <1>2, <1>3, <1>4, <1>5, <1>6, <1>7, <1>9 DEF Collecting
<1>10. CASE \E p \in Watched : Window(p) \/ User(p)
  <2>1. Watched \subseteq Procs
    BY LaunchAssumption
  <2> QED
    BY <1>2, <1>10, <2>1
<1> QED
  BY <1>8, <1>9, <1>10 DEF Next, Ended

\* What collects owns the mutex, so there is no second.
LEMMA One == IInv => OneCollector
<1> SUFFICES ASSUME IInv PROVE OneCollector
  OBVIOUS
<1> DEFINE C == {p \in Procs : proc[p].pc \in {"lead", "collect", "closing", "drained"}}
<1>1. C \subseteq {mutex}
  BY DEF IInv, LInv, Owners, Leading
<1>2. Cardinality({mutex}) = 1 /\ IsFiniteSet({mutex})
  BY FS_Singleton
<1>3. Cardinality(C) <= 1
  BY <1>1, <1>2, FS_Subset
<1>4. reader # None => mutex = reader
  BY DEF IInv, LInv, Typed, Owners, Leading, Reading
<1> QED
  BY <1>3, <1>4 DEF OneCollector

\* Mapped from the inductive invariant.
LEMMA AllHeld == IInv => NoInputLost
<1> SUFFICES ASSUME IInv, Calm, NEW x \in Inputs
             PROVE  x \in (UNION {Range(proc[p].inputs) : p \in Keepers}) \cup Range(slot)
  BY DEF NoInputLost, Calm
<1>1. Apart({}, x)
  BY DEF IInv, Safe
<1>2. ASSUME NEW q \in Procs, proc[q].pc # "sent", x \in Range(proc[q].inputs)
      PROVE  x \in UNION {Range(proc[p].inputs) : p \in Keepers}
  BY <1>2 DEF Keepers
<1>3. CASE x \notin Range(slot)
  <2>1. PICK q \in Procs : proc[q].pc # "sent" /\ x \in Range(proc[q].inputs)
    BY <1>1, <1>3 DEF Apart
  <2> QED
    BY <1>2, <2>1
<1> QED
  BY <1>3

\* At most one process of a selection collects at a time and only its mailslot
\* exists, whatever number is launched, fails or is killed.
THEOREM OneCollects == Spec => []OneCollector
<1>1. Spec => []IInv
  BY Starts, Kept, PTL DEF Spec
<1> QED
  BY <1>1, One, PTL

\* Every input of the selection is always with a process or in a mailslot that is
\* still drained, for any number of processes and inputs.
THEOREM NothingLost == Spec => []NoInputLost
<1>1. Spec => []IInv
  BY Starts, Kept, PTL DEF Spec
<1> QED
  BY <1>1, AllHeld, PTL

\* The types of the records are those of the property.
LEMMA WellTyped == IInv => TypeOK
<1> SUFFICES ASSUME IInv PROVE TypeOK
  OBVIOUS
<1>1. ASSUME NEW p \in Procs
      PROVE  /\ proc[p].pc \in Pcs
             /\ proc[p].inputs \in Seq(Inputs) /\ proc[p].unsent \in Seq(Inputs)
             /\ proc[p].tries \in 0..MaxTries
             /\ proc[p].win.done \in Seq({"ok", "failed", "canceled"})
  <2>1. proc[p] \in Processes
    BY DEF IInv, LInv, Typed
  <2> QED
    BY <2>1 DEF Processes, Windows, Verdicts
<1>2. /\ handles \subseteq Procs /\ slot \in Seq(Inputs) /\ faults \in 0..MaxFaults
      /\ {mutex, gate, reader} \subseteq Procs \cup {None}
  BY DEF IInv, LInv, Typed
<1> QED
  BY <1>1, <1>2 DEF TypeOK

\* Every reachable state is well typed: no process tries more often than it may.
THEOREM TypeCorrect == Spec => []TypeOK
<1>1. Spec => []IInv
  BY Starts, Kept, PTL DEF Spec
<1> QED
  BY <1>1, WellTyped, PTL

----------------------------------------------------------------------------
(* The window that closes by itself. *)

\* Where a process has no window yet.
Early == {"new", "lead", "collect", "closing", "drained", "follow", "gated", "send",
          "keeps"}

\* A batch is over when every input of the window is settled, and a window that is
\* hidden has shown the end.
Settled(p) ==
  /\ proc[p].pc \in Early => proc[p].win.batch = "run"
  /\ proc[p].win.batch = "over" => Len(proc[p].win.done) = Len(proc[p].inputs)
  /\ proc[p].pc = "hidden" => ~proc[p].win.running

WInv == IInv /\ \A p \in Procs : Settled(p)

\* Before the window a process leaves it as it is.
LEMMA BeforeWindow ==
  ASSUME IInv, NEW p \in Procs, Launch(p) \/ Collecting(p) \/ Kill(p)
  PROVE  \A q \in Procs :
           /\ proc'[q].win = proc[q].win
           /\ proc[q].pc \in Early \/ proc'[q].inputs = proc[q].inputs
           /\ proc'[q].pc \in Early => proc[q].pc \in Early
           /\ proc'[q].pc = "hidden" => proc[q].pc = "hidden"
<1>0. proc \in [Procs -> Processes]
  BY DEF IInv, LInv, Typed
<1>p. \A q \in Procs : proc[q] = [pc |-> proc[q].pc, inputs |-> proc[q].inputs,
          next |-> proc[q].next, unsent |-> proc[q].unsent, tries |-> proc[q].tries,
          win |-> proc[q].win]
  BY <1>0 DEF Processes
<1>g. ASSUME NEW pc, pc # "hidden", pc \in Early => proc[p].pc \in Early, Go(p, pc)
      PROVE  \A q \in Procs :
               /\ proc'[q].win = proc[q].win
               /\ proc'[q].inputs = proc[q].inputs
               /\ proc'[q].pc \in Early => proc[q].pc \in Early
               /\ proc'[q].pc = "hidden" => proc[q].pc = "hidden"
  BY <1>0, <1>p, <1>g DEF Go
<1>k. ASSUME NEW s, Keep(p, s), proc[p].pc \in Early
      PROVE  \A q \in Procs :
               /\ proc'[q].win = proc[q].win
               /\ proc[q].pc \in Early \/ proc'[q].inputs = proc[q].inputs
               /\ proc'[q].pc \in Early => proc[q].pc \in Early
               /\ proc'[q].pc = "hidden" => proc[q].pc = "hidden"
  BY <1>0, <1>p, <1>k DEF Keep
<1>1. CASE Launch(p) \/ CreateSlot(p) \/ Deadline(p) \/ DeadlineFails(p) \/ FinalDrain(p)
  BY <1>1, <1>g DEF Launch, CreateSlot, Deadline, DeadlineFails, FinalDrain, At, Early
<1>2. CASE CloseSlot(p) \/ GateTimeout(p)
  BY <1>2, <1>k DEF CloseSlot, GateTimeout, At, Early
<1>3. CASE TakeGate(p)
  BY <1>3, <1>g, <1>k DEF TakeGate, At, Early
<1>4. CASE OpenSlot(p) \/ ShowWindow(p) \/ Kill(p)
  BY <1>4, <1>g DEF OpenSlot, ShowWindow, Kill, At, Early
<1>5. CASE Sent(p)
  BY <1>5, <1>g, <1>k DEF Sent, At, Early
<1>6. CASE Drain(p)
  BY <1>0, <1>p, <1>6 DEF Drain, Early
<1>7. CASE TryAgain(p)
  BY <1>0, <1>p, <1>7 DEF TryAgain, At, Early
<1>8. CASE SendInput(p)
  BY <1>0, <1>p, <1>8 DEF SendInput, At, Early
<1> QED
  BY <1>1, <1>2, <1>3, <1>4, <1>5, <1>6, <1>7, <1>8 DEF Collecting

\* If this step closes the window before its end was shown, all is converted.
Closing(p) ==
  (proc[p].win.running /\ proc'[p].pc = "hidden")
    => proc[p].win.done = [i \in DOMAIN proc[p].inputs |-> "ok"]

\* Nothing but what is "ok" in a window whose run hides it.
LEMMA AllOk ==
  ASSUME NEW s \in Seq(Inputs), NEW t \in Seq(Verdicts), Len(t) = Len(s),
         Range(t) \subseteq {"ok"}
  PROVE  t = [i \in DOMAIN s |-> "ok"]
<1>1. DOMAIN t = DOMAIN s /\ t = [i \in DOMAIN t |-> t[i]]
  OBVIOUS
<1>2. \A i \in DOMAIN t : t[i] = "ok"
  BY DEF Range
<1> QED
  BY <1>1, <1>2

\* What a step of the window does to the window.
LEMMA WindowSteps ==
  ASSUME WInv, NEW p \in Procs, Window(p) \/ User(p)
  PROVE  Settled(p)' /\ Closing(p)
<1>0. proc \in [Procs -> Processes]
  BY DEF WInv, IInv, LInv, Typed
<1>p. /\ proc[p].inputs \in Seq(Inputs) /\ proc[p].win \in Windows
      /\ proc[p].win.done \in Seq(Verdicts) /\ proc[p] \in Processes
  BY <1>0 DEF Processes, Windows
<1>s. Settled(p)
  BY DEF WInv
\* A process that only goes on, to no place before its window.
<1>g. ASSUME NEW pc, pc \notin Early, pc = "hidden" => ~proc[p].win.running, Go(p, pc)
      PROVE  Settled(p)' /\ Closing(p)
  <2>1. /\ proc'[p].pc = pc /\ proc'[p].win = proc[p].win
        /\ proc'[p].inputs = proc[p].inputs
    BY <1>0, <1>p, <1>g DEF Go, Processes
  <2> QED
    BY <1>g, <1>s, <2>1 DEF Settled, Closing
<1>1. CASE Convert(p)
  <2>1. PICK v : proc' = [proc EXCEPT ![p].win.done = Append(@, v)]
    BY <1>1 DEF Convert
  <2>2. /\ proc'[p].pc = proc[p].pc /\ proc'[p].win.batch = proc[p].win.batch
        /\ proc'[p].win.running = proc[p].win.running
    BY <1>0, <1>p, <2>1 DEF Processes, Windows
  <2>3. Len(proc[p].win.done) < Len(proc[p].inputs) /\ proc[p].pc \notin Early
    BY <1>1 DEF Convert, Early
  <2>4. proc[p].win.batch # "over"
    BY <1>p, <1>s, <2>3 DEF Settled
  <2> QED
    BY <1>s, <2>2, <2>3, <2>4 DEF Settled, Closing
<1>2. CASE BatchEnds(p)
  <2>1. /\ proc'[p].pc = proc[p].pc /\ proc'[p].inputs = proc[p].inputs
        /\ proc'[p].win.done = proc[p].win.done
        /\ proc'[p].win.running = proc[p].win.running
    BY <1>0, <1>2, <1>p DEF BatchEnds, Processes, Windows
  <2>2. Len(proc[p].win.done) = Len(proc[p].inputs) /\ proc[p].pc \notin Early
    BY <1>2 DEF BatchEnds, Early
  <2> QED
    BY <1>s, <2>1, <2>2 DEF Settled, Closing
<1>3. CASE ShowEnd(p)
  <2>1. PICK pc : /\ proc' = [proc EXCEPT ![p].win.running = FALSE, ![p].pc = pc]
                  /\ pc = "hidden" => Range(proc[p].win.done) \subseteq {"ok"}
                  /\ pc \in {"window", "hidden"}
    BY <1>3 DEF ShowEnd, At
  <2>2. /\ proc'[p].pc = pc /\ proc'[p].inputs = proc[p].inputs
        /\ proc'[p].win.done = proc[p].win.done
        /\ proc'[p].win.batch = proc[p].win.batch
        /\ proc'[p].win.running = FALSE
    BY <1>0, <1>p, <2>1 DEF Processes, Windows
  <2>3. Len(proc[p].win.done) = Len(proc[p].inputs)
    BY <1>3, <1>s DEF ShowEnd, Settled
  <2>4. Settled(p)'
    BY <2>1, <2>2, <2>3 DEF Settled, Early
  <2>5. Closing(p)
    BY <1>p, <2>1, <2>2, <2>3, AllOk DEF Closing
  <2> QED
    BY <2>4, <2>5
<1>4. CASE Cancel(p)
  <2>1. CASE proc[p].win.running
    <3>1. proc' = [proc EXCEPT ![p].win.stop = TRUE] /\ proc[p].pc = "window"
      BY <1>4, <2>1 DEF Cancel, At
    <3>2. /\ proc'[p].pc = "window" /\ proc'[p].inputs = proc[p].inputs
          /\ proc'[p].win.done = proc[p].win.done
          /\ proc'[p].win.batch = proc[p].win.batch
      BY <1>0, <1>p, <3>1 DEF Processes, Windows
    <3> QED
      BY <1>s, <3>1, <3>2 DEF Settled, Closing, Early
  <2>2. CASE ~proc[p].win.running
    <3>1. Go(p, "hidden")
      BY <1>4, <2>2 DEF Cancel, Go
    <3> QED
      BY <1>g, <2>2, <3>1 DEF Early
  <2> QED
    BY <2>1, <2>2
<1>5. CASE ForceTerminate(p) \/ CloseRequested(p) \/ Exit(p)
  BY <1>5, <1>g DEF ForceTerminate, CloseRequested, Exit, Early
<1> QED
  BY <1>1, <1>2, <1>3, <1>4, <1>5 DEF Window, User

\* Every step keeps what is said of the windows, and closes only what is done.
LEMMA WKept == WInv /\ [Next]_vars => WInv' /\ \A p \in Procs : Closing(p)
<1> SUFFICES ASSUME WInv, [Next]_vars
             PROVE  WInv' /\ \A p \in Procs : Closing(p)
  OBVIOUS
<1>0. IInv' /\ IInv
  BY Kept DEF WInv
<1>1. ASSUME NEW p \in Procs, Launch(p) \/ Collecting(p) \/ Kill(p)
      PROVE  \A q \in Procs : Settled(q)' /\ Closing(q)
  <2> TAKE q \in Procs
  <2>1. /\ proc'[q].win = proc[q].win
        /\ proc[q].pc \in Early \/ proc'[q].inputs = proc[q].inputs
        /\ proc'[q].pc \in Early => proc[q].pc \in Early
        /\ proc'[q].pc = "hidden" => proc[q].pc = "hidden"
    BY <1>0, <1>1, BeforeWindow
  <2>2. Settled(q)
    BY DEF WInv
  <2> QED
    BY <2>1, <2>2 DEF Settled, Closing
<1>2. ASSUME NEW p \in Procs, Window(p) \/ User(p)
      PROVE  \A q \in Procs : Settled(q)' /\ Closing(q)
  <2> TAKE q \in Procs
  <2>1. CASE q = p
    BY <1>2, <2>1, WindowSteps
  <2>2. CASE q # p
    <3>1. proc'[q] = proc[q]
      BY <1>0, <1>2, <2>2, Windowed DEF IInv, Moves
    <3> QED
      BY <3>1 DEF WInv, Settled, Closing
  <2> QED
    BY <2>1, <2>2
<1>3. ASSUME NEW p \in Watched, Window(p) \/ User(p)
      PROVE  \A q \in Procs : Settled(q)' /\ Closing(q)
  BY <1>2, <1>3, LaunchAssumption
<1>4. \A q \in Procs : Settled(q)' /\ Closing(q)
  <2>1. CASE UNCHANGED vars
    BY <2>1 DEF WInv, Settled, Closing, vars
  <2>2. CASE ~UNCHANGED vars
    BY <1>1, <1>3, <2>2 DEF Next, Ended
  <2> QED
    BY <2>1, <2>2
<1> QED
  BY <1>0, <1>4 DEF WInv

\* A window closes by itself only when all it was given is converted, whatever the
\* user does meanwhile and however many processes there are.
THEOREM ClosesOnlyDone == Spec => ClosesItselfWhenOk
<1>1. Init => WInv
  BY Starts DEF WInv, Settled, Init, NoWindow
<1>2. WInv /\ [Next]_vars => WInv' /\ [\A p \in Procs : Closing(p)]_vars
  BY WKept
<1>3. [\A p \in Procs : Closing(p)]_vars
        => [\A p \in Procs :
              (proc[p].win.running /\ proc'[p].pc = "hidden")
                => proc[p].win.done = [i \in DOMAIN proc[p].inputs |-> "ok"]]_vars
  BY DEF Closing
<1> QED
  BY <1>1, <1>2, <1>3, PTL DEF Spec, ClosesItselfWhenOk

----------------------------------------------------------------------------
(* Nothing is converted twice. *)

\* No process is launched with an input twice.
Distinct == IsFiniteSet(Procs) /\ \A p \in Procs : IsInjective(Launched[p])

\* What only one process was launched with.
Alone == {x \in Inputs : Cardinality({p \in Procs : x \in Range(Launched[p])}) = 1}

Single(s, x) == \A i, j \in DOMAIN s : s[i] = x /\ s[j] = x => i = j

Waiting == {"new", "follow", "gated"}
Taking == Leading \cup {"keeps", "window", "hidden", "exited"}

\* p has still to pass x on.
Ahead(p, x) ==
  \E i \in DOMAIN proc[p].inputs : i >= proc[p].next /\ proc[p].inputs[i] = x

\* p has taken x or may still take it.
Has(p, x) ==
  \/ proc[p].pc \in Taking \cup Waiting /\ x \in Range(proc[p].inputs)
  \/ proc[p].pc = "send" /\ (Ahead(p, x) \/ x \in Range(proc[p].unsent))

\* What a sender keeps it does not pass on any more.
Sender(p, x) ==
  /\ proc[p].pc \in Waiting => proc[p].unsent = <<>> /\ Single(proc[p].inputs, x)
  /\ proc[p].pc = "send" => /\ Single(proc[p].inputs, x)
                            /\ x \in Range(proc[p].unsent) => ~Ahead(p, x)

\* x is with one process, or once in the slot.
Once(x) ==
  /\ \A p, q \in Procs : Has(p, x) /\ Has(q, x) => p = q
  /\ x \in Range(slot) => \A p \in Procs : ~Has(p, x)
  /\ Single(slot, x)
  /\ \A p \in Procs : Sender(p, x)

OInv == IInv /\ \A x \in Alone : Once(x)

\* A step of p keeps x in one place: it stays, leaves, or goes to or from the slot.
LEMMA OnceChanges ==
  ASSUME NEW x, Once(x), NEW p \in Procs, \A q \in Procs \ {p} : proc'[q] = proc[q],
         Sender(p, x)', Single(slot', x),
         Has(p, x)' => Has(p, x) \/ (x \in Range(slot) /\ x \notin Range(slot')),
         x \in Range(slot') => x \in Range(slot) \/ (Has(p, x) /\ ~Has(p, x)'),
         x \in Range(slot') /\ x \in Range(slot) => ~Has(p, x)'
  PROVE  Once(x)'
<1>1. \A q \in Procs \ {p} : (Has(q, x)' <=> Has(q, x)) /\ (Sender(q, x)' <=> Sender(q, x))
  BY DEF Has, Sender, Ahead
<1>2. \A q, r \in Procs : Has(q, x)' /\ Has(r, x)' => q = r
  BY <1>1 DEF Once
<1>3. x \in Range(slot') => \A q \in Procs : ~Has(q, x)'
  BY <1>1 DEF Once
<1>4. \A q \in Procs : Sender(q, x)'
  BY <1>1 DEF Once
<1> QED
  BY <1>2, <1>3, <1>4 DEF Once

\* Steps that only move a process.
LEMMA OnceMoves ==
  ASSUME NEW x, IInv, Once(x), NEW p \in Procs, NEW pc, Moves(p, pc),
         slot' = slot \/ slot' = <<>>,
         pc \in Taking \cup Waiting => proc[p].pc \in Taking \cup Waiting,
         pc \in Waiting => proc[p].pc \in Waiting,
         pc = "send" => proc[p].pc \in Waiting
  PROVE  Once(x)'
<1>1. /\ \A q \in Procs \ {p} : proc'[q] = proc[q]
      /\ proc'[p].pc = pc /\ proc'[p].inputs = proc[p].inputs
      /\ proc'[p].next = proc[p].next /\ proc'[p].unsent = proc[p].unsent
  BY DEF Moves
<1>2. Single(slot', x) /\ (x \in Range(slot') => x \in Range(slot))
  <2>1. Single(<<>>, x) /\ x \notin Range(<<>>)
    BY DEF Single, Range
  <2> QED
    BY <2>1 DEF Once
<1>3. Sender(p, x) /\ Range(<<>>) = {}
  BY DEF Once, Range
<1>4. Ahead(p, x)' <=> Ahead(p, x)
  BY <1>1 DEF Ahead
<1>5. Ahead(p, x) => x \in Range(proc[p].inputs)
  BY DEF Ahead, Range
<1>6. Sender(p, x)'
  BY <1>1, <1>3, <1>4 DEF Sender
<1>7. Has(p, x)' => Has(p, x)
  <2>1. CASE pc = "send"
    BY <1>1, <1>3, <1>4, <1>5, <2>1 DEF Has, Sender, Taking, Waiting, Leading
  <2>2. CASE pc # "send"
    BY <1>1, <2>2 DEF Has
  <2> QED
    BY <2>1, <2>2
<1>8. x \in Range(slot) => ~Has(p, x)
  BY DEF Once
<1> QED
  BY <1>1, <1>2, <1>6, <1>7, <1>8, OnceChanges

\* The collector takes x out of the slot.
LEMMA OnceDrain ==
  ASSUME NEW x, IInv, Once(x), NEW p \in Procs, Drain(p)
  PROVE  Once(x)'
<1>0. /\ slot # <<>> /\ slot' = Tail(slot) /\ proc[p].pc \in Reading
      /\ proc'[p].pc = proc[p].pc
      /\ proc'[p].inputs = Collected(proc[p].inputs, Head(slot))
      /\ Head(slot) \in Inputs /\ \A q \in Procs \ {p} : proc'[q] = proc[q]
  BY LDrain DEF IInv
<1>1. slot \in Seq(Inputs) /\ proc[p].inputs \in Seq(Inputs)
  BY DEF IInv, LInv, Typed, Processes
<1>2. Range(proc'[p].inputs) = Range(proc[p].inputs) \cup {Head(slot)}
  BY <1>0, <1>1, Ranges DEF Collected
<1>3. Range(slot) = {Head(slot)} \cup Range(slot')
  BY <1>0, <1>1, Ranges
<1>4. Single(slot', x) /\ (x = Head(slot) => x \notin Range(slot'))
  <2>1. Single(slot, x)
    BY DEF Once
  <2>2. /\ Len(slot') = Len(slot) - 1 /\ Head(slot) = slot[1] /\ slot' \in Seq(Inputs)
        /\ \A i \in 1 .. Len(slot') : slot'[i] = slot[i + 1]
    BY <1>0, <1>1, HeadTailProperties
  <2>3. /\ Len(slot) \in Nat /\ Len(slot') \in Nat
        /\ DOMAIN slot = 1 .. Len(slot) /\ DOMAIN slot' = 1 .. Len(slot')
    BY <1>1, <2>2
  <2>4. ASSUME NEW i \in DOMAIN slot'
        PROVE  i \in Nat \ {0} /\ i + 1 \in DOMAIN slot /\ slot'[i] = slot[i + 1]
    BY <2>2, <2>3
  <2>5. Single(slot', x)
    BY <2>1, <2>4 DEF Single
  <2>6. x = Head(slot) => x \notin Range(slot')
    <3> SUFFICES ASSUME NEW i \in DOMAIN slot', x = slot[1], slot'[i] = x
                 PROVE  FALSE
      BY <2>2 DEF Range
    <3>1. i + 1 = 1
      <4>1. 1 \in DOMAIN slot
        BY <2>3, <2>4
      <4> QED
        BY <2>1, <2>4, <4>1 DEF Single
    <3> QED
      BY <2>4, <3>1
  <2> QED
    BY <2>5, <2>6
<1>5. Sender(p, x)'
  BY <1>0 DEF Sender, Reading, Waiting
<1>6. proc[p].pc \in Taking /\ proc[p].pc # "send"
  BY <1>0 DEF Taking, Reading, Leading
<1>7. Has(p, x)' <=> Has(p, x) \/ x = Head(slot)
  BY <1>0, <1>2, <1>6 DEF Has
<1>8. x \in Range(slot) => ~Has(p, x)
  BY DEF Once
<1> QED
  BY <1>0, <1>3, <1>4, <1>5, <1>7, <1>8, OnceChanges

\* The sender passes x or keeps it, and has it no more ahead.
LEMMA OnceSendInput ==
  ASSUME NEW x, IInv, Once(x), NEW p \in Procs, SendInput(p)
  PROVE  Once(x)'
<1> DEFINE input == proc[p].inputs[proc[p].next]
<1>0. /\ input \in Inputs /\ proc[p].pc = "send" /\ proc'[p].pc = "send"
      /\ proc'[p].next = proc[p].next + 1 /\ proc'[p].inputs = proc[p].inputs
      /\ \A q \in Procs \ {p} : proc'[q] = proc[q]
      /\ \/ slot' = Append(slot, input) /\ proc'[p].unsent = proc[p].unsent
         \/ slot' = slot /\ proc'[p].unsent = Append(proc[p].unsent, input)
  BY LSendInput DEF IInv
<1>1. /\ slot \in Seq(Inputs) /\ proc[p].inputs \in Seq(Inputs)
      /\ proc[p].unsent \in Seq(Inputs) /\ proc[p].next \in Nat
      /\ proc[p].next \in DOMAIN proc[p].inputs
  BY DEF IInv, LInv, Typed, Processes, SendInput
<1>2. input = x => Ahead(p, x)
  BY <1>1 DEF Ahead
<1>3. Single(proc[p].inputs, x) /\ (x \in Range(proc[p].unsent) => ~Ahead(p, x))
  BY <1>0 DEF Once, Sender
<1>4. Ahead(p, x)' <=> Ahead(p, x) /\ input # x
  <2>1. ASSUME NEW i \in DOMAIN proc[p].inputs
        PROVE  i >= proc[p].next + 1 <=> i >= proc[p].next /\ i # proc[p].next
    <3>1. i \in Nat /\ proc[p].next \in Nat
      BY <1>1
    <3> QED
      BY <3>1
  <2> QED
    BY <1>0, <1>1, <1>3, <2>1 DEF Ahead, Single
<1> HIDE DEF input
<1>5. /\ Range(Append(slot, input)) = Range(slot) \cup {input}
      /\ Range(Append(proc[p].unsent, input)) = Range(proc[p].unsent) \cup {input}
  BY <1>0, <1>1, Ranges
<1>6. Has(p, x) <=> Ahead(p, x) \/ x \in Range(proc[p].unsent)
  BY <1>0 DEF Has, Taking, Waiting, Leading
<1>7. Has(p, x)' <=> Ahead(p, x)' \/ x \in Range(proc'[p].unsent)
  BY <1>0 DEF Has, Taking, Waiting, Leading
<1>8. Sender(p, x)'
  <2>1. x \in Range(proc'[p].unsent) => ~Ahead(p, x)'
    BY <1>0, <1>3, <1>4, <1>5
  <2> QED
    BY <1>0, <1>3, <2>1 DEF Sender, Waiting
<1>9. x \in Range(slot) => ~Has(p, x)
  BY DEF Once
<1>10. Single(slot, x)
  BY DEF Once
<1>11. CASE slot' = Append(slot, input) /\ proc'[p].unsent = proc[p].unsent
  <2>1. Single(slot', x)
    <3>1. /\ DOMAIN slot' = DOMAIN slot \cup {Len(slot) + 1}
          /\ \A i \in DOMAIN slot : slot'[i] = slot[i]
          /\ slot'[Len(slot) + 1] = input
      BY <1>0, <1>1, <1>11, AppendProperties
    <3>2. input = x => \A i \in DOMAIN slot : slot[i] # x
      BY <1>2, <1>6, <1>9 DEF Range
    <3> QED
      BY <1>10, <3>1, <3>2 DEF Single
  <2>2. x \in Range(slot') => x \in Range(slot) \/ (Has(p, x) /\ ~Has(p, x)')
    BY <1>2, <1>3, <1>4, <1>5, <1>6, <1>7, <1>11
  <2>3. Has(p, x)' => Has(p, x)
    BY <1>4, <1>6, <1>7, <1>11
  <2> QED
    BY <1>0, <1>8, <1>9, <2>1, <2>2, <2>3, OnceChanges
<1>12. CASE slot' = slot /\ proc'[p].unsent = Append(proc[p].unsent, input)
  <2>1. Has(p, x)' => Has(p, x)
    BY <1>2, <1>4, <1>5, <1>6, <1>7, <1>12
  <2> QED
    BY <1>0, <1>8, <1>9, <1>10, <1>12, <2>1, OnceChanges
<1> QED
  BY <1>0, <1>11, <1>12

\* A sender leaves, or is left with what it kept.
LEMMA OnceSent ==
  ASSUME NEW x, IInv, Once(x), NEW p \in Procs, Sent(p)
  PROVE  Once(x)'
<1>1. /\ slot' = slot /\ proc[p].pc = "send"
      /\ \A q \in Procs \ {p} : proc'[q] = proc[q]
      /\ \/ proc'[p].pc = "sent"
         \/ proc'[p].pc = "keeps" /\ proc'[p].inputs = proc[p].unsent
  BY LSent DEF IInv
<1>2. Has(p, x)' => Has(p, x)
  BY <1>1 DEF Has, Taking, Waiting, Leading
<1>3. Sender(p, x)'
  BY <1>1 DEF Sender, Waiting
<1> QED
  BY <1>1, <1>2, <1>3, OnceChanges DEF Once

\* The search for the slot moves the process.
LEMMA OnceTryAgain ==
  ASSUME NEW x, IInv, Once(x), NEW p \in Procs, TryAgain(p)
  PROVE  Once(x)'
<1>1. /\ slot' = slot /\ proc'[p].inputs = proc[p].inputs /\ proc[p].pc = "gated"
      /\ proc'[p].pc \in {"keeps", "follow"}
      /\ \A q \in Procs \ {p} : proc'[q] = proc[q]
  BY LTryAgain DEF IInv, TryAgain, At
<1>2. proc'[p].unsent = proc[p].unsent
  <2>1. proc \in [Procs -> Processes] /\ proc[p] \in Processes
    BY DEF IInv, LInv, Typed
  <2> QED
    BY <2>1 DEF TryAgain, Processes
<1>3. Has(p, x)' => Has(p, x)
  BY <1>1 DEF Has, Taking, Waiting, Leading
<1>4. Sender(p, x)'
  BY <1>1, <1>2 DEF Once, Sender, Waiting
<1> QED
  BY <1>1, <1>3, <1>4, OnceChanges DEF Once

\* Every step keeps an input in one place.
LEMMA OnceKept == OInv /\ [Next]_vars => OInv'
<1> SUFFICES ASSUME OInv, [Next]_vars, NEW x \in Alone
             PROVE  Once(x)'
  BY Kept DEF OInv, Alone
<1>0. IInv /\ LInv /\ Once(x)
  BY DEF OInv, IInv
<1>1. ASSUME NEW p \in Procs,
             \/ Launch(p) \/ CreateSlot(p) \/ Deadline(p)
             \/ DeadlineFails(p) \/ FinalDrain(p) \/ CloseSlot(p)
      PROVE  Once(x)'
  <2>1. PICK pc : Moves(p, pc) /\ pc # "send" /\ pc # "sent"
    BY <1>0, <1>1, LCollect
  <2>2. slot' = slot \/ slot' = <<>>
    BY <1>1 DEF Launch, CreateSlot, Deadline, DeadlineFails, FinalDrain, CloseSlot
  <2>3. proc[p].pc = "new" \/ (proc[p].pc \in Leading /\ pc \notin Waiting)
    <3>1. proc'[p].pc = pc /\ proc \in [Procs -> Processes]
      BY <1>0, <2>1 DEF Moves, LInv, Typed
    <3> QED
      BY <1>1, <3>1 DEF Launch, CreateSlot, Deadline, DeadlineFails, FinalDrain,
         CloseSlot, At, Go, Keep, Leading, Waiting, Processes
  <2> QED
    BY <1>0, <2>1, <2>2, <2>3, OnceMoves DEF Taking, Waiting
<1>2. ASSUME NEW p \in Procs,
             \/ TakeGate(p) \/ GateTimeout(p) \/ OpenSlot(p)
             \/ ShowWindow(p) \/ Window(p) \/ User(p)
      PROVE  Once(x)'
  <2>1. slot' = slot
    BY <1>0, <1>2, LSend
  <2>2. CASE ShowWindow(p) \/ Window(p) \/ User(p)
    <3>1. PICK pc \in {"window", "hidden", "exited", "terminated"} : Moves(p, pc)
      BY <1>0, <2>2, Windowed
    <3>2. proc[p].pc \in {"keeps", "window", "hidden"}
      BY <1>0, <2>2, Windowed
    <3> QED
      BY <1>0, <2>1, <3>1, <3>2, OnceMoves DEF Taking, Waiting
  <2>3. CASE TakeGate(p) \/ GateTimeout(p) \/ OpenSlot(p)
    <3>1. PICK pc : Moves(p, pc) /\ (pc = "send" => proc[p].pc = "gated")
      BY <1>0, <1>2, LSend
    <3>2. proc[p].pc \in Waiting
      BY <2>3 DEF TakeGate, GateTimeout, OpenSlot, At, Waiting
    <3> QED
      BY <1>0, <2>1, <3>1, <3>2, OnceMoves DEF Taking, Waiting
  <2> QED
    BY <1>2, <2>2, <2>3
<1>3. ASSUME NEW p \in Procs, Kill(p) PROVE Once(x)'
  <2>1. proc \in [Procs -> Processes] /\ "killed" \in Pcs
    BY <1>0 DEF LInv, Typed, Pcs, Over
  <2>2. Moves(p, "killed") /\ (slot' = slot \/ slot' = <<>>)
    BY <1>3, <2>1, Goes DEF Kill
  <2> QED
    BY <1>0, <2>2, OnceMoves DEF Taking, Waiting, Leading
<1>4. ASSUME NEW p \in Procs, Launch(p) \/ Collecting(p) \/ Kill(p)
      PROVE  Once(x)'
  BY <1>0, <1>1, <1>2, <1>3, <1>4, OnceDrain, OnceTryAgain, OnceSendInput, OnceSent
  DEF Collecting
<1>5. ASSUME NEW p \in Watched, Window(p) \/ User(p) PROVE Once(x)'
  BY <1>2, <1>5, LaunchAssumption
<1>6. CASE UNCHANGED vars
  BY <1>0, <1>6 DEF Once, Has, Ahead, Sender, Single, vars
<1> QED
  BY <1>4, <1>5, <1>6 DEF Next, Ended

\* An input launched once is with the process that was launched with it.
LEMMA OnceStarts == ASSUME Distinct PROVE Init => OInv
<1> SUFFICES ASSUME Init, NEW x \in Alone PROVE Once(x)
  BY Starts DEF OInv
<1> DEFINE P == {p \in Procs : x \in Range(Launched[p])}
<1>1. PICK o : P = {o}
  <2>1. IsFiniteSet(P) /\ Cardinality(P) = 1
    BY FS_Subset DEF Distinct, Alone
  <2> QED
    BY <2>1, FS_Singleton
<1>2. \A p \in Procs : /\ proc[p].pc = "new" /\ proc[p].inputs = Launched[p]
                       /\ proc[p].unsent = <<>>
  BY DEF Init
<1>3. \A p \in Procs : Has(p, x) => p = o
  BY <1>1, <1>2 DEF Has
<1>4. \A p \in Procs : Sender(p, x)
  BY <1>2 DEF Sender, Single, Distinct, IsInjective
<1>5. slot = <<>> /\ Range(<<>>) = {} /\ Single(<<>>, x)
  BY DEF Init, Single, Range
<1> QED
  BY <1>3, <1>4, <1>5 DEF Once

\* Where x is in one place it is converted at most once.
LEMMA OnceSuffices == OInv => NotTwice
<1> SUFFICES ASSUME OInv, NEW x \in Alone
             PROVE  Cardinality(Takers(x)) + (IF x \in Range(slot) THEN 1 ELSE 0) <= 1
  BY DEF NotTwice, Alone
<1>1. Once(x)
  BY DEF OInv
<1>2. \A p \in Takers(x) : p \in Procs /\ Has(p, x)
  BY DEF Takers, Has, Taking, Leading
<1>3. CASE Takers(x) = {}
  BY <1>3, FS_EmptySet
<1>4. CASE Takers(x) # {}
  <2>1. PICK p \in Takers(x) : TRUE
    BY <1>4
  <2>2. Takers(x) = {p} /\ x \notin Range(slot)
    BY <1>1, <1>2, <2>1 DEF Once
  <2> QED
    BY <2>2, FS_Singleton
<1> QED
  BY <1>3, <1>4

\* Every input of a selection is with a process or on its way to one, and what only
\* one process was launched with is converted by one: for any finite number of
\* processes, none of which was launched with an input twice.
THEOREM EachOnce == ASSUME Distinct PROVE Spec => []InputsOnce
<1>1. Spec => []OInv
  BY OnceStarts, OnceKept, PTL DEF Spec
<1>2. OInv => InputsOnce
  BY AllHeld, OnceSuffices DEF OInv, InputsOnce
<1> QED
  BY <1>1, <1>2, PTL
================================================================================

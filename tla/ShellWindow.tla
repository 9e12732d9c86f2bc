----------------------------- MODULE ShellWindow -----------------------------
(***************************************************************************)
(* A selection converted from the context menu.  Explorer may launch one   *)
(* process per selected file; the processes of one format merge their      *)
(* inputs: the first creates a named mutex and collects through a mailslot *)
(* what the others send, and each process that keeps inputs converts them  *)
(* in a window of its own.                                                 *)
(***************************************************************************)
EXTENDS Integers, Sequences, SequencesExt, FiniteSets

CONSTANTS
  Procs,      \* the launched processes
  Launched,   \* process -> sequence of the inputs it was launched with
  TooLong,    \* inputs whose path does not fit into a message
  MaxTries,   \* attempts to find the mailslot
  MaxFaults,  \* bound on failed calls, on kills and on failed conversions
  AutoClose,  \* the command says --close-on-finish
  Watched,    \* processes whose window is followed: no window affects another
  None        \* no process

Inputs == UNION {Range(Launched[p]) : p \in Procs}

ASSUME LaunchAssumption ==
  /\ \A p \in Procs : Launched[p] \in Seq(Inputs)
  /\ TooLong \subseteq Inputs /\ None \notin Procs
  /\ MaxTries \in Nat \ {0} /\ MaxFaults \in Nat /\ AutoClose \in BOOLEAN
  /\ Watched \subseteq Procs

VARIABLES
  proc,    \* each process: where it is, its inputs, its window
  handles, \* processes with a handle to the mutex: it exists while there is one
  mutex,   \* owner of the mutex: the collecting process
  gate,    \* owner of the send mutex
  slot,    \* messages waiting in the mailslot
  reader,  \* process whose handle keeps the mailslot (None: it does not exist)
  faults

vars == <<proc, handles, mutex, gate, slot, reader, faults>>

NoWindow == [done |-> <<>>, stop |-> FALSE, running |-> TRUE, batch |-> "run"]

Init ==
  /\ proc = [p \in Procs |-> [pc |-> "new", inputs |-> Launched[p], next |-> 1,
                              unsent |-> <<>>, tries |-> 0, win |-> NoWindow]]
  /\ handles = {} /\ mutex = None /\ gate = None
  /\ slot = <<>> /\ reader = None /\ faults = 0

At(p, pc) == proc[p].pc = pc
Fault == faults < MaxFaults /\ faults' = faults + 1

\* p goes on to `pc` and changes nothing else of itself.
Go(p, pc) == proc' = [proc EXCEPT ![p].pc = pc]

\* collect_shell_launch_inputs returns true: p converts these inputs itself.
Keep(p, inputs) == proc' = [proc EXCEPT ![p].pc = "keeps", ![p].inputs = inputs]

----------------------------------------------------------------------------
(* Collecting: the process that created the mutex. *)

\* CreateMutexW with initial ownership: only who creates the object owns it.
\* Mutant: whether the mutex existed before is not looked at.
LaunchLeads(p) ==
  /\ At(p, "new")
  /\ handles' = handles \cup {p}
  /\ mutex' = (IF handles = {} THEN p ELSE mutex) /\ Go(p, "lead")
  /\ UNCHANGED <<gate, slot, reader, faults>>

Launch(p) ==
  /\ At(p, "new")
  /\ handles' = handles \cup {p}
  /\ IF handles = {} THEN mutex' = p /\ Go(p, "lead")
                     ELSE Go(p, "follow") /\ UNCHANGED mutex
  /\ UNCHANGED <<gate, slot, reader, faults>>

\* The mailslot is created behind the gate, or cannot be: an error is shown.
CreateSlot(p) ==
  /\ At(p, "lead") /\ gate = None
  /\ \/ reader' = p /\ Go(p, "collect") /\ UNCHANGED <<mutex, handles, faults>>
     \/ /\ Fault /\ mutex' = None /\ handles' = handles \ {p}
        /\ Go(p, "refused") /\ UNCHANGED reader
  /\ UNCHANGED <<gate, slot>>

\* drain_messages: a path that is already collected is not collected again.
Collected(inputs, m) == IF m \in Range(inputs) THEN inputs ELSE Append(inputs, m)

Drain(p) ==
  /\ proc[p].pc \in {"collect", "closing"} /\ slot # <<>>
  /\ proc' = [proc EXCEPT ![p].inputs = Collected(@, Head(slot))]
  /\ slot' = Tail(slot)
  /\ UNCHANGED <<handles, mutex, gate, reader, faults>>

\* The deadline: the gate is taken, so that no writer is let in ...
Deadline(p) ==
  /\ At(p, "collect") /\ gate = None
  /\ gate' = p /\ Go(p, "closing")
  /\ UNCHANGED <<handles, mutex, slot, reader, faults>>

\* The wait for the gate fails: an error is shown and what was sent is dropped.
DeadlineFails(p) ==
  /\ At(p, "collect") /\ Fault
  /\ mutex' = None /\ handles' = handles \ {p} /\ reader' = None /\ slot' = <<>>
  /\ Go(p, "broken")
  /\ UNCHANGED gate

\* ... the slot is drained until it is empty ...
FinalDrain(p) ==
  /\ At(p, "closing") /\ slot = <<>>
  /\ Go(p, "drained")
  /\ UNCHANGED <<handles, mutex, gate, slot, reader, faults>>

\* ... and closed; then the mutex and the gate are released.
CloseSlot(p) ==
  /\ At(p, "drained")
  /\ slot' = <<>> /\ reader' = None /\ mutex' = None
  /\ gate' = IF gate = p THEN None ELSE gate
  /\ Keep(p, proc[p].inputs)
  /\ UNCHANGED <<handles, faults>>

----------------------------------------------------------------------------
(* Sending: the processes that found the mutex. *)

\* Behind the gate the mutex is tried: free or abandoned, nobody collects.
TakeGate(p) ==
  /\ At(p, "follow") /\ gate = None
  /\ IF mutex = None THEN Keep(p, proc[p].inputs) /\ UNCHANGED gate
                     ELSE gate' = p /\ Go(p, "gated")
  /\ UNCHANGED <<handles, mutex, slot, reader, faults>>

\* The gate stays closed for a second.
GateTimeout(p) ==
  /\ At(p, "follow") /\ gate # None
  /\ Keep(p, proc[p].inputs)
  /\ UNCHANGED <<handles, mutex, gate, slot, reader, faults>>

\* The slot is opened; while it does not exist the search is repeated.
OpenSlot(p) ==
  /\ At(p, "gated") /\ reader # None
  /\ Go(p, "send")
  /\ UNCHANGED <<handles, mutex, gate, slot, reader, faults>>

\* Mutant: the attempts are not counted.
TryAgainUncounted(p) ==
  /\ At(p, "gated") /\ reader = None
  /\ gate' = None
  /\ Go(p, "follow")
  /\ UNCHANGED <<handles, mutex, slot, reader, faults>>

TryAgain(p) ==
  /\ At(p, "gated") /\ reader = None
  /\ gate' = None
  /\ proc' = [proc EXCEPT ![p].tries = @ + 1,
                ![p].pc = IF proc[p].tries + 1 = MaxTries THEN "keeps" ELSE "follow"]
  /\ UNCHANGED <<handles, mutex, slot, reader, faults>>

\* One input becomes one message; what cannot be written is kept.
SendInput(p) ==
  /\ At(p, "send") /\ proc[p].next \in DOMAIN proc[p].inputs
  /\ LET input == proc[p].inputs[proc[p].next]
         kept == proc' = [proc EXCEPT ![p].next = @ + 1,
                                      ![p].unsent = Append(@, input)]
     IN \/ /\ input \notin TooLong /\ reader # None
           /\ slot' = Append(slot, input)
           /\ proc' = [proc EXCEPT ![p].next = @ + 1] /\ UNCHANGED faults
        \/ kept /\ (input \in TooLong \/ reader = None) /\ UNCHANGED <<slot, faults>>
        \/ kept /\ Fault /\ UNCHANGED slot
  /\ UNCHANGED <<handles, mutex, gate, reader>>

\* All inputs were sent: the process exits.  Otherwise it converts the rest.
\* Mutant: with something unsent it converts everything.
SentKeepsAll(p) ==
  /\ At(p, "send") /\ proc[p].next > Len(proc[p].inputs)
  /\ gate' = None
  /\ IF proc[p].unsent = <<>> THEN Go(p, "sent") /\ handles' = handles \ {p}
     ELSE Keep(p, proc[p].inputs) /\ UNCHANGED handles
  /\ UNCHANGED <<mutex, slot, reader, faults>>

Sent(p) ==
  /\ At(p, "send") /\ proc[p].next > Len(proc[p].inputs)
  /\ gate' = None
  /\ IF proc[p].unsent = <<>> THEN Go(p, "sent") /\ handles' = handles \ {p}
     ELSE Keep(p, proc[p].unsent) /\ UNCHANGED handles
  /\ UNCHANGED <<mutex, slot, reader, faults>>

----------------------------------------------------------------------------
(* Converting: run_shell_convert_window. *)

\* The function returns, its handles are closed, the window is shown and the
\* batch thread starts.
ShowWindow(p) ==
  /\ At(p, "keeps")
  /\ handles' = handles \ {p}
  /\ Go(p, "window")
  /\ UNCHANGED <<mutex, gate, slot, reader, faults>>

windowOnly == <<handles, mutex, gate, slot, reader>>

\* run_batch settles the next input; once stopped it cancels what is left.
Convert(p) ==
  /\ proc[p].pc \in {"window", "hidden"} /\ Len(proc[p].win.done) < Len(proc[p].inputs)
  /\ \E v \in {"ok", "failed", "canceled"} :
       /\ v = "canceled" => proc[p].win.stop
       /\ IF v = "failed" THEN Fault ELSE UNCHANGED faults
       /\ proc' = [proc EXCEPT ![p].win.done = Append(@, v)]
  /\ UNCHANGED windowOnly

\* run_batch returns: the closure that ends the run is posted.
BatchEnds(p) ==
  /\ proc[p].pc \in {"window", "hidden"} /\ proc[p].win.batch = "run"
  /\ Len(proc[p].win.done) = Len(proc[p].inputs)
  /\ proc' = [proc EXCEPT ![p].win.batch = "over"]
  /\ UNCHANGED <<windowOnly, faults>>

\* The closure: a run without a failure closes the window by itself.
\* Mutant: canceled inputs are not looked at.
ShowEndUnlessFailed(p) ==
  /\ At(p, "window") /\ proc[p].win.batch = "over" /\ proc[p].win.running
  /\ proc' = [proc EXCEPT ![p].win.running = FALSE,
       ![p].pc = IF AutoClose /\ "failed" \notin Range(proc[p].win.done)
                 THEN "hidden" ELSE @]
  /\ UNCHANGED <<windowOnly, faults>>

ShowEnd(p) ==
  /\ At(p, "window") /\ proc[p].win.batch = "over" /\ proc[p].win.running
  /\ proc' = [proc EXCEPT ![p].win.running = FALSE,
       ![p].pc = IF AutoClose /\ Range(proc[p].win.done) \subseteq {"ok"}
                 THEN "hidden" ELSE @]
  /\ UNCHANGED <<windowOnly, faults>>

\* on_cancel_requested: a running batch is stopped, a finished window closed.
Cancel(p) ==
  /\ At(p, "window")
  /\ proc' = IF proc[p].win.running THEN [proc EXCEPT ![p].win.stop = TRUE]
                                    ELSE [proc EXCEPT ![p].pc = "hidden"]
  /\ UNCHANGED <<windowOnly, faults>>

\* on_force_terminate_requested: the process ends itself.
ForceTerminate(p) ==
  At(p, "window") /\ Go(p, "terminated") /\ UNCHANGED <<windowOnly, faults>>

\* on_close_requested: closing a window that still converts ends the process.
CloseRequested(p) ==
  /\ At(p, "window")
  /\ Go(p, IF proc[p].win.running THEN "terminated" ELSE "hidden")
  /\ UNCHANGED <<windowOnly, faults>>

\* The loop ended: the batch is stopped, joined, and the process exits.
Exit(p) ==
  /\ At(p, "hidden") /\ proc[p].win.batch = "over"
  /\ Go(p, "exited")
  /\ UNCHANGED <<windowOnly, faults>>

\* A process that has ended.
Over == {"sent", "refused", "broken", "exited", "terminated", "killed"}

\* The process is killed: what it owned is abandoned, its handles are closed.
Kill(p) ==
  /\ proc[p].pc \notin {"new"} \cup Over
  /\ Fault
  /\ Go(p, "killed")
  /\ handles' = handles \ {p}
  /\ mutex' = IF mutex = p THEN None ELSE mutex
  /\ gate' = IF gate = p THEN None ELSE gate
  /\ IF reader = p THEN reader' = None /\ slot' = <<>> ELSE UNCHANGED <<reader, slot>>

----------------------------------------------------------------------------
Collecting(p) ==
  \/ CreateSlot(p) \/ Drain(p) \/ Deadline(p) \/ DeadlineFails(p) \/ FinalDrain(p) \/ CloseSlot(p)
  \/ TakeGate(p) \/ GateTimeout(p) \/ OpenSlot(p) \/ TryAgain(p) \/ SendInput(p) \/ Sent(p)
  \/ ShowWindow(p)

Window(p) == Convert(p) \/ BatchEnds(p) \/ ShowEnd(p) \/ Exit(p)

User(p) == Cancel(p) \/ ForceTerminate(p) \/ CloseRequested(p)

Ended ==
  /\ \A p \in Procs : proc[p].pc \in Over \cup IF p \in Watched THEN {} ELSE {"window"}
  /\ UNCHANGED vars

Next == \/ \E p \in Procs : Launch(p) \/ Collecting(p) \/ Kill(p)
        \/ \E p \in Watched : Window(p) \/ User(p)
        \/ Ended

\* A launched process runs, and so does its batch; the user owes nothing.
Fairness == \A p \in Procs : WF_vars(Collecting(p))

Spec == Init /\ [][Next]_vars /\ Fairness

----------------------------------------------------------------------------
Pcs == Over \cup {"new", "lead", "collect", "closing", "drained", "follow", "gated", "send", "keeps",
                  "window", "hidden"}

TypeOK ==
  /\ \A p \in Procs :
       /\ proc[p].pc \in Pcs
       /\ proc[p].inputs \in Seq(Inputs) /\ proc[p].unsent \in Seq(Inputs)
       /\ proc[p].tries \in 0..MaxTries
       /\ proc[p].win.done \in Seq({"ok", "failed", "canceled"})
  /\ handles \subseteq Procs /\ slot \in Seq(Inputs) /\ faults \in 0..MaxFaults
  /\ {mutex, gate, reader} \subseteq Procs \cup {None}

\* At most one process collects at a time, and only its mailslot exists.
OneCollector ==
  /\ Cardinality({p \in Procs : proc[p].pc \in {"lead", "collect", "closing", "drained"}}) <= 1
  /\ reader # None => mutex = reader

\* Processes whose inputs the process itself converts, or says it cannot.
Keepers == {p \in Procs : proc[p].pc # "sent"}

\* No input of the selection is dropped: until it is converted it is with a process
\* or in a mailslot that a process will still drain, unless a process was killed or
\* failed to end its collecting.
NoInputLost ==
  (\A p \in Procs : proc[p].pc \notin {"killed", "broken"}) =>
    Inputs \subseteq (UNION {Range(proc[p].inputs) : p \in Keepers}) \cup Range(slot)

\* Processes that have taken an input for their own window.
Takers(input) == {p \in Procs :
  /\ proc[p].pc \in {"lead", "collect", "closing", "drained", "keeps", "window", "hidden", "exited"}
  /\ input \in Range(proc[p].inputs)}

\* An input that one process was launched with is not converted twice.
NotTwice ==
  \A input \in Inputs :
    Cardinality({p \in Procs : input \in Range(Launched[p])}) = 1
      => Cardinality(Takers(input)) + (IF input \in Range(slot) THEN 1 ELSE 0) <= 1

\* Every input of the selection is converted, and once: none is lost between the
\* processes, and none is both sent and kept.
InputsOnce == NoInputLost /\ NotTwice

\* The window closes by itself only when every input it was given has been converted.
ClosesItselfWhenOk ==
  [][\A p \in Procs :
       (proc[p].win.running /\ proc'[p].pc = "hidden")
         => proc[p].win.done = [i \in DOMAIN proc[p].inputs |-> "ok"]]_vars

\* Merging ends: every launched process has a window, has sent everything, or says
\* why not.
CollectingEnds == \A p \in Procs : p \in handles ~> p \notin handles
=============================================================================

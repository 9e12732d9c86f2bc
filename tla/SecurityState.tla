---------------------------- MODULE SecurityState ----------------------------
(* The record of accepted update documents: accept_verified_update_document of
   src/src/update/update_security_state.ixx, called by every process that checks
   for, stages or installs an update.

   A state file beside the program holds, for each document (v1 manifest, v2
   manifest, keyring), the last sequence and the hash of its bytes.  A process
   locks it, reads it, decides, writes the whole file to a temporary one and
   renames it.  Processes may be killed, and the power may fail.

   Abstracted: the hash of a document is its bytes; sequences are small.  What
   StudioUpdate calls record, Spec and so on has another name here, since the
   proofs about both are in one module. *)
EXTENDS Naturals

CONSTANTS Processes, NoProcess,
          NoCall,
          Docs,       \* UpdateSecurityDocument
          Sequences,  \* sequence numbers of documents
          Contents, NoBytes,
          Systems,    \* subset of {"windows", "linux"}
          OutagesOn   \* platforms on which the power may fail

ASSUME StateAssumption ==
  /\ NoProcess \notin Processes
  /\ Sequences \subseteq Nat \ {0}
  /\ NoBytes \notin Contents
  /\ OutagesOn \subseteq Systems

VARIABLES
  system,
  stored,   \* the state file: document -> last sequence and bytes
  disk,     \* what the state file says after a power loss
  lock,     \* holder of the lock file
  pc,
  call,     \* arguments of each process's call
  view,     \* the state a process has read
  latest    \* history: the last accepted version of each document

stateVars == <<system, stored, disk, lock, pc, call, view, latest>>
files     == <<stored, disk>>
args      == <<call, view>>

Empty == [seq |-> 0, bytes |-> NoBytes]
Entry == {Empty} \cup [seq : Sequences, bytes : Contents]
Blank == [d \in Docs |-> Empty]
Calls == [doc : Docs, seq : Sequences, bytes : Contents, floor : Sequences \cup {0}]
Inside == {"read", "decide", "save", "sync"}

StateInit ==
  /\ system \in Systems
  /\ stored = Blank
  /\ disk = Blank
  /\ lock = NoProcess
  /\ pc = [p \in Processes |-> "idle"]
  /\ call = [p \in Processes |-> NoCall]
  /\ view = [p \in Processes |-> Blank]
  /\ latest = Blank

Goto(p, step) == pc' = [pc EXCEPT ![p] = step]

\* sequence == 0 is refused at once: 0 means "no document yet" in the file.
Numbered(s) == s # 0

\* A verified document arrives.
Call(p) ==
  /\ pc[p] = "idle"
  /\ \E d \in Docs, s \in Sequences \cup {0}, b \in Contents, f \in Sequences \cup {0} :
       /\ Numbered(s)
       /\ call' = [call EXCEPT ![p] = [doc |-> d, seq |-> s, bytes |-> b, floor |-> f]]
  /\ Goto(p, "lock")
  /\ UNCHANGED <<system, files, lock, view, latest>>

\* Mutant: a shared lock.
AnyTime == TRUE

\* LOCKFILE_EXCLUSIVE_LOCK, LOCK_EX.
LockFree == lock = NoProcess

\* Every return releases the lock.
Return(p) ==
  /\ Goto(p, "idle")
  /\ lock' = IF lock = p THEN NoProcess ELSE lock
  /\ call' = [call EXCEPT ![p] = NoCall]
  /\ view' = [view EXCEPT ![p] = Blank]

Offered(p) == [seq |-> call[p].seq, bytes |-> call[p].bytes]

Accept(p) ==
  /\ latest' = [latest EXCEPT ![call[p].doc] = Offered(p)]
  /\ Return(p)

Refuse(p) == Return(p) /\ UNCHANGED latest

\* StateLock::acquire waits for the lock, or fails.
Acquire(p) ==
  /\ pc[p] = "lock"
  /\ \/ LockFree /\ lock' = p /\ Goto(p, "read") /\ UNCHANGED <<args, latest>>
     \/ Refuse(p)
  /\ UNCHANGED <<system, files>>

\* read_state_or_default: a missing file is the empty state; it may fail.
Read(p) ==
  /\ pc[p] = "read"
  /\ \/ /\ view' = [view EXCEPT ![p] = stored]
        /\ Goto(p, "decide")
        /\ UNCHANGED <<lock, call, latest>>
     \/ Refuse(p)
  /\ UNCHANGED <<system, files>>

Held(p) == view[p][call[p].doc]

\* sequence < max(record.sequence, legacy_sequence_floor).
StepBack(p) == call[p].seq < Held(p).seq \/ call[p].seq < call[p].floor

\* Mutant: equal sequences are not compared.
NeverChanged(p) == FALSE

\* The same sequence with other bytes.
Changed(p) == call[p].seq = Held(p).seq /\ call[p].bytes # Held(p).bytes

Decide(p) ==
  /\ pc[p] = "decide"
  /\ \/ (StepBack(p) \/ Changed(p)) /\ Refuse(p)
     \/ ~StepBack(p) /\ ~Changed(p) /\ Offered(p) = Held(p) /\ Accept(p)
     \/ /\ ~StepBack(p) /\ ~Changed(p) /\ Offered(p) # Held(p)
        /\ Goto(p, "save")
        /\ UNCHANGED <<lock, args, latest>>
  /\ UNCHANGED <<system, files>>

\* The state as read, with the record of this document replaced.
Updated(p) == [view[p] EXCEPT ![call[p].doc] = Offered(p)]

\* write_state_atomically: the temporary file is flushed and renamed; Windows
\* writes the rename through.
Save(p) ==
  /\ pc[p] = "save"
  /\ \/ /\ stored' = Updated(p)
        /\ IF system = "windows"
           THEN disk' = stored' /\ Accept(p)
           ELSE Goto(p, "sync") /\ UNCHANGED <<disk, lock, args, latest>>
     \/ Refuse(p) /\ UNCHANGED files
  /\ UNCHANGED system

\* fsync_directory: an error is returned although the file was replaced.
Sync(p) ==
  /\ pc[p] = "sync"
  /\ \/ disk' = stored /\ Accept(p)
     \/ Refuse(p) /\ UNCHANGED disk
  /\ UNCHANGED <<system, stored>>

Killed(p) ==
  /\ pc[p] # "idle"
  /\ Refuse(p)
  /\ UNCHANGED <<system, files>>

WriteBack ==
  /\ disk # stored
  /\ disk' = stored
  /\ UNCHANGED <<system, stored, lock, pc, args, latest>>

PowerLoss ==
  /\ system \in OutagesOn
  /\ stored' = disk
  /\ lock' = NoProcess
  /\ pc' = [p \in Processes |-> "idle"]
  /\ call' = [p \in Processes |-> NoCall]
  /\ view' = [p \in Processes |-> Blank]
  /\ UNCHANGED <<system, disk, latest>>

Step(p) == Call(p) \/ Acquire(p) \/ Read(p) \/ Decide(p) \/ Save(p) \/ Sync(p) \/ Killed(p)

StateNext == (\E p \in Processes : Step(p)) \/ WriteBack \/ PowerLoss

StateSpec == StateInit /\ [][StateNext]_stateVars

-----------------------------------------------------------------------------
(* Properties. *)

StateTypeOK ==
  /\ system \in Systems
  /\ stored \in [Docs -> Entry]
  /\ disk \in [Docs -> Entry]
  /\ lock \in Processes \cup {NoProcess}
  /\ pc \in [Processes -> {"idle", "lock"} \cup Inside]
  /\ call \in [Processes -> Calls \cup {NoCall}]
  /\ view \in [Processes -> [Docs -> Entry]]
  /\ latest \in [Docs -> Entry]

\* What is accepted never steps back and never changes at one sequence, whichever
\* processes are asked, in any order and across restarts.
AcceptsForward ==
  [][\A d \in Docs : latest'[d] = latest[d] \/ latest'[d].seq > latest[d].seq]_stateVars

\* No call loses what another call recorded, for its own document or another one.
RecordsForward ==
  [][\A d \in Docs : stored'[d] = stored[d] \/ stored'[d].seq > stored[d].seq]_stateVars
=============================================================================

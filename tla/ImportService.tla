--------------------------- MODULE ImportService ---------------------------
(***************************************************************************)
(* The background import of the Windows Studio: a FIFO of requests, one    *)
(* thread that scans their roots, and the results it posts to the event    *)
(* loop of the user interface.  The queue the results go to is in          *)
(* StudioQueue, which composes this module with the rest of the Studio.    *)
(***************************************************************************)
EXTENDS Integers, Sequences, SequencesExt, FiniteSets

CONSTANTS
  Tree,          \* file system: path -> [kind, key, kids]
  Requests,      \* what may be imported: sequences of root paths
  MaxRequests,   \* bound on the requests ever accepted
  ScanSteps      \* bound on the steps of one scan

Paths == DOMAIN Tree
Kinds == {"image", "odd", "gone", "dir", "link"}

ASSUME TreeAssumption ==
  /\ \A p \in Paths : /\ Tree[p].kind \in Kinds
                      /\ Tree[p].key \in Nat
                      /\ Tree[p].kids \in Seq(Paths)
  /\ Requests \subseteq Seq(Paths)
  /\ MaxRequests \in Nat /\ ScanSteps \in Nat

VARIABLES
  jobs,       \* Dispatcher::Impl::jobs
  scanner,    \* where the thread is: "idle" or "ended"
  stopImport, \* stop token of the thread
  accepted,   \* number of requests enqueued
  posts       \* closures waiting in the event loop, in the order they run

importVars == <<jobs, scanner, stopImport, accepted>>

\* visited is a history count: the entries that must be accounted for.
NoResult == [files |-> {}, visited |-> 0, dup |-> 0, odd |-> 0, gone |-> 0]

ImportInit ==
  /\ jobs = <<>> /\ scanner = "idle" /\ stopImport = FALSE
  /\ accepted = 0

----------------------------------------------------------------------------
\* normalized_path_key: what tells two paths apart for the import and the queue.
Key(p) == Tree[p].key

\* append_file: each entry ends as an imported file or in exactly one count.
AppendFile(r, p) ==
  CASE Tree[p].kind = "gone" -> [r EXCEPT !.visited = @ + 1, !.gone = @ + 1]
    [] Tree[p].kind = "odd"  -> [r EXCEPT !.visited = @ + 1, !.odd = @ + 1]
    [] Tree[p].kind \notin {"gone", "odd"} /\ \E f \in r.files : Key(f) = Key(p) ->
         [r EXCEPT !.visited = @ + 1, !.dup = @ + 1]
    [] OTHER -> [r EXCEPT !.visited = @ + 1, !.files = @ \cup {p}]

\* Result::files as the queue receives them: ordered by key.
FileOrder(files) ==
  LET Rank(p) == Cardinality({f \in files : Key(f) <= Key(p)})
  IN [k \in 1..Cardinality(files) |-> CHOOSE p \in files : Rank(p) = k]

----------------------------------------------------------------------------
(* scan is three loops: over the roots, over the folders pending under a root and  *)
(* over the entries of a folder.  s holds what each of them has left.              *)

ScanStart(request) ==
  [roots |-> request, pending |-> <<>>, entries |-> <<>>, result |-> NoResult]

\* scan_directory, one entry of the folder being read: a folder is left for later, a
\* link is not followed.
ScanEntry(s) ==
  LET p == Head(s.entries)
      t == [s EXCEPT !.entries = Tail(@)]
  IN CASE Tree[p].kind = "dir"  -> [t EXCEPT !.pending = <<p>> \o @]
       [] Tree[p].kind = "link" -> t
       [] OTHER -> [t EXCEPT !.result = AppendFile(@, p)]

\* scan_directory, the folder that was found last is read next.
ScanFolder(s) ==
  [s EXCEPT !.pending = Tail(@), !.entries = Tree[Head(s.pending)].kids]

\* scan, one root: a folder is read, a link refused, anything else appended.
ScanRoot(s) ==
  LET p == Head(s.roots)
      t == [s EXCEPT !.roots = Tail(@)]
  IN CASE Tree[p].kind = "dir"  -> [t EXCEPT !.pending = <<p>>]
       [] Tree[p].kind = "link" -> [t EXCEPT !.result.visited = @ + 1,
                                             !.result.gone = @ + 1]
       [] OTHER -> [t EXCEPT !.result = AppendFile(@, p)]

ScanStep(s) == CASE s.entries # <<>> -> ScanEntry(s)
                 [] s.entries = <<>> /\ s.pending # <<>> -> ScanFolder(s)
                 [] s.entries = <<>> /\ s.pending = <<>> /\ s.roots # <<>> -> ScanRoot(s)
                 [] OTHER -> s

\* How far the scan of a request is after n steps.
ScanOf == [request \in Requests |->
  LET after[n \in 0..ScanSteps] ==
        IF n = 0 THEN ScanStart(request) ELSE ScanStep(after[n - 1])
  IN after[ScanSteps]]

\* A folder is not among its own entries when links are not followed: every scan ends.
ASSUME ScanAssumption ==
  \A request \in Requests :
    LET s == ScanOf[request]
    IN s.roots = <<>> /\ s.pending = <<>> /\ s.entries = <<>>

Scan(request) == ScanOf[request].result

----------------------------------------------------------------------------
\* enqueue: refused once the thread was asked to stop.
EnqueueJob(request) ==
  /\ ~stopImport
  /\ jobs' = Append(jobs, request) /\ accepted' = accepted + 1
  /\ UNCHANGED <<scanner, stopImport>>

\* request_stop: sets the token; the thread sees it at its next check.
StopImport == stopImport' = TRUE /\ UNCHANGED <<jobs, scanner, accepted>>

\* run: the oldest request is scanned and its result posted.
ScanJob ==
  /\ scanner = "idle" /\ ~stopImport /\ jobs # <<>>
  /\ jobs' = Tail(jobs)
  /\ posts' = Append(posts, [kind |-> "import", request |-> Head(jobs),
                             result |-> Scan(Head(jobs))])
  /\ UNCHANGED <<scanner, stopImport, accepted>>

\* run, a stop: seen while waiting, between two entries of a scan or after it; the
\* request under way and those behind it are dropped.
StopSeen ==
  /\ scanner = "idle" /\ stopImport
  /\ scanner' = "ended" /\ jobs' = <<>>
  /\ UNCHANGED <<stopImport, accepted, posts>>

ImportThread == ScanJob \/ StopSeen

----------------------------------------------------------------------------
\* A set of paths that holds the entries of each folder in it.
Closed(S) == \A p \in S : Tree[p].kind = "dir" =>
               \A i \in DOMAIN Tree[p].kids : Tree[p].kids[i] \in S

\* The images under the roots of a request, reached by following folders only.
Images == [request \in Requests |->
  {p \in Paths : /\ Tree[p].kind = "image"
                 /\ \A S \in SUBSET Paths : Range(request) \subseteq S /\ Closed(S)
                                             => p \in S}]

\* A posted result explains every entry of its request: each image under its roots
\* is imported once, whatever other path leads to it, and every visited entry is
\* imported or in exactly one count of the summary.
ScanFaithful ==
  \A i \in DOMAIN posts : posts[i].kind = "import" =>
    LET r == posts[i].result
    IN /\ Cardinality(r.files) + r.dup + r.odd + r.gone = r.visited
       /\ {Key(p) : p \in r.files} = {Key(p) : p \in Images[posts[i].request]}
       /\ Cardinality(r.files) = Cardinality({Key(p) : p \in r.files})
=============================================================================

--------------------------- MODULE StudioLinuxProofs ---------------------------
(***************************************************************************)
(* Proofs about the queue of the Linux Studio, for any files, any number   *)
(* of runs and any length of the queue: between two runs nothing of the    *)
(* last one is left, and the queue, its rows and the failed files agree,   *)
(* so that a retry takes every file that shows a failure.                  *)
(* IInv is about the thread and its closures, LInv about the three lists.  *)
(***************************************************************************)
EXTENDS StudioLinux, SequenceTheorems, FunctionTheorems, FiniteSetTheorems, TLAPS

\* Where the thread of a run still has something to do.
Working == {"batch", "returned", "removed"}

Items == [kind : {"item"}, path : Paths, st : States]
EndsOfRun == [kind : {"end"}, retry : SUBSET Paths, error : BOOLEAN]

\* What the thread is; the files it has left do not matter here.
ThreadOK ==
  /\ thread = [at |-> thread.at, retry |-> thread.retry, left |-> thread.left,
               stop |-> thread.stop, manifest |-> thread.manifest, error |-> thread.error]
  /\ thread.at \in Working \union {"none", "over", "killed"}
  /\ thread.retry \subseteq Paths /\ thread.error \in BOOLEAN
  /\ thread.manifest \in BOOLEAN /\ faults \in Nat
  /\ thread.at \in {"removed", "none", "over"} => (thread.manifest = TRUE => faults > 0)

PostsOK == posts \in Seq(Items \union EndsOfRun)

\* All closures that wait but perhaps the last are events of files.
ItemsUpTo(n) == \A i \in 1 .. n : posts[i].kind = "item"

\* While the thread works the button is on and no closure that waits ends the run;
\* the one that does is the last, and the button goes off when none is left.
Order ==
  ui = "open" =>
    /\ thread.at # "killed"
    /\ thread.at \in Working => running = TRUE /\ ItemsUpTo(Len(posts))
    /\ thread.at \notin Working /\ running = TRUE =>
         /\ posts # <<>> /\ posts[Len(posts)].kind = "end"
         /\ ItemsUpTo(Len(posts) - 1)
    /\ running = FALSE => posts = <<>>

IInv ==
  /\ failed \subseteq Paths /\ running \in BOOLEAN
  /\ ThreadOK /\ PostsOK /\ Order

\* The inductive invariant is at least the property.
LEMMA Quiet == IInv => QuietBetweenRuns
<1> SUFFICES ASSUME IInv, ui = "open", running = FALSE
             PROVE  /\ thread.at \in {"none", "over"} /\ posts = <<>>
                    /\ thread.manifest => faults > 0
  BY DEF IInv, QuietBetweenRuns
<1>1. posts = <<>> /\ thread.at # "killed" /\ thread.at \notin Working
  BY DEF IInv, Order
<1>2. thread.at \in {"none", "over"}
  BY <1>1 DEF IInv, ThreadOK, Working
<1> QED
  BY <1>1, <1>2 DEF IInv, ThreadOK

\* Nothing runs and nothing waits at the start.
LEMMA Starts == Init => IInv
<1> SUFFICES ASSUME Init PROVE IInv
  OBVIOUS
<1>1. failed \subseteq Paths /\ running \in BOOLEAN /\ PostsOK
  BY EmptySeq DEF Init, PostsOK
<1>2. ThreadOK
  BY DEF Init, ThreadOK, Working
<1>3. Order
  BY DEF Init, Order, Working
<1> QED
  BY <1>1, <1>2, <1>3 DEF IInv

\* A step that touches neither the button nor the thread, the closures or the window.
LEMMA Apart ==
  ASSUME IInv, failed' \subseteq Paths, UNCHANGED <<running, thread, posts, ui, faults>>
  PROVE  IInv'
BY DEF IInv, ThreadOK, PostsOK, Order, ItemsUpTo

\* The user edits the queue.
LEMMA Edits ==
  ASSUME IInv,
         \/ \E found : Add(found)
         \/ ClearTasks
         \/ \E i \in DOMAIN queue : DragFrom(i)
         \/ \E slot : Drop(slot)
  PROVE  IInv'
<1>1. failed' \subseteq Paths /\ UNCHANGED <<running, thread, posts, ui, faults>>
  BY DEF IInv, Add, ClearTasks, DragFrom, Drop, queueVars
<1> QED
  BY <1>1, Apart

\* A run starts: with the button off there is no thread at work and no closure.
LEMMA Launches ==
  ASSUME IInv, StartConversion \/ RetryFailed
  PROVE  IInv'
<1>1. /\ ui = "open" /\ ui' = "open" /\ running = FALSE /\ posts' = posts
      /\ failed' \subseteq Paths /\ running' = TRUE /\ faults' = faults
  BY DEF IInv, StartConversion, RetryFailed, MayEdit, Launch
<1>2. posts = <<>>
  BY <1>1 DEF IInv, Order
<1>3. PICK retry \in SUBSET Paths : \E left :
        thread' = [at |-> "batch", retry |-> retry, stop |-> FALSE, error |-> FALSE,
                   manifest |-> TRUE, left |-> left]
  BY Zenon DEF IInv, StartConversion, RetryFailed, Launch
<1>4. ThreadOK'
  BY <1>1, <1>3 DEF IInv, ThreadOK, Working
<1>5. thread'.at = "batch"
  BY <1>3
<1>6. Order' /\ PostsOK'
  BY <1>1, <1>2, <1>5 DEF Order, Working, PostsOK, ItemsUpTo
<1> QED
  BY <1>1, <1>4, <1>6 DEF IInv

\* The thread is asked to stop, or the window closes.
LEMMA Stops ==
  ASSUME IInv, StopConversion \/ CloseWindow
  PROVE  IInv'
<1>1. thread' = [thread EXCEPT !.stop = TRUE] /\ UNCHANGED <<running, failed, faults>>
  BY DEF StopConversion, CloseWindow, queueVars
<1>2. ThreadOK' /\ thread'.at = thread.at
  BY <1>1 DEF IInv, ThreadOK
<1>3. (UNCHANGED <<posts, ui>>) \/ (posts' = <<>> /\ ui' = "closed")
  BY DEF StopConversion, CloseWindow
<1>4. PostsOK'
  BY <1>3, EmptySeq DEF IInv, PostsOK
<1>5. Order'
  BY <1>1, <1>2, <1>3 DEF IInv, Order, ItemsUpTo
<1> QED
  BY <1>1, <1>2, <1>4, <1>5 DEF IInv

\* The thread reports on a file: one more event waits.
LEMMA Reports ==
  ASSUME IInv, NEW p \in Paths,
         \/ ItemStarts(p) \/ ItemRejected(p)
         \/ \E st \in {"done", "failed", "canceled"} : ItemFinishes(p, st)
  PROVE  IInv'
<1>1. PICK st \in States : posts' = Posted([kind |-> "item", path |-> p, st |-> st])
  BY DEF ItemStarts, ItemRejected, ItemFinishes, Report, States
<1>2. /\ UNCHANGED <<running, failed, ui, faults>> /\ thread.at = "batch"
      /\ \E left : thread' = [thread EXCEPT !.left = left]
  <2>1. UNCHANGED <<running, failed, ui, faults>> /\ thread.at = "batch"
    BY DEF ItemStarts, ItemRejected, ItemFinishes, queueVars
  <2>2. \E v : thread' = [thread EXCEPT !.left = [thread.left EXCEPT ![p] = v]]
    BY DEF ItemStarts, ItemRejected, ItemFinishes, IInv, ThreadOK
  <2> QED
    BY <2>1, <2>2
<1>3. ThreadOK' /\ thread'.at = "batch"
  BY <1>2 DEF IInv, ThreadOK
<1>4. [kind |-> "item", path |-> p, st |-> st] \in Items
  BY <1>1 DEF Items
<1>5. PostsOK'
  BY <1>1, <1>4 DEF IInv, PostsOK, Posted
<1>6. Order'
  <2> SUFFICES ASSUME ui = "open" PROVE Order'
    BY <1>2 DEF Order
  <2>1. posts' = Append(posts, [kind |-> "item", path |-> p, st |-> st])
    BY <1>1 DEF Posted
  <2>2. running' = TRUE /\ ItemsUpTo(Len(posts))
    BY <1>2 DEF IInv, Order, Working
  <2>3. /\ Len(posts') = Len(posts) + 1 /\ Len(posts) \in Nat
        /\ \A i \in 1 .. Len(posts) : posts'[i] = posts[i]
        /\ posts'[Len(posts) + 1].kind = "item"
    BY <2>1, <1>4 DEF IInv, PostsOK
  <2>4. ASSUME NEW i \in 1 .. Len(posts') PROVE posts'[i].kind = "item"
    <3>1. i \in 1 .. Len(posts) \/ i = Len(posts) + 1
      BY <2>3
    <3> QED
      BY <2>2, <2>3, <3>1 DEF ItemsUpTo
  <2>5. ItemsUpTo(Len(posts))'
    BY <2>4 DEF ItemsUpTo
  <2> QED
    BY <1>2, <1>3, <2>2, <2>5 DEF Order, Working
<1> QED
  BY <1>2, <1>3, <1>5, <1>6 DEF IInv

\* The thread goes on without a word.
LEMMA GoesOn ==
  ASSUME IInv,
         \/ \E p \in Paths : ItemLost(p)
         \/ \E fails, error \in BOOLEAN : BatchReturns(fails, error)
         \/ \E removed \in BOOLEAN : RemoveManifest(removed)
  PROVE  IInv'
<1>1. UNCHANGED <<running, failed, posts, ui>> /\ thread.at \in Working
      /\ faults' \in {faults, faults + 1}
  BY DEF ItemLost, BatchReturns, RemoveManifest, queueVars, Working, Fault
<1> faults \in Nat /\ faults' \in Nat
  BY <1>1 DEF IInv, ThreadOK
<1>2. ThreadOK' /\ thread'.at \in Working
  <2>1. CASE \E p \in Paths : ItemLost(p)
    <3>1. PICK p \in Paths : ItemLost(p)
      BY <2>1
    <3>2. thread.at = "batch"
          /\ thread' = [thread EXCEPT !.left = [thread.left EXCEPT ![p] = "lost"]]
      BY <3>1 DEF ItemLost, IInv, ThreadOK
    <3> QED
      BY <3>2 DEF IInv, ThreadOK, Working
  <2>2. CASE \E fails, error \in BOOLEAN : BatchReturns(fails, error)
    <3>1. PICK fails \in BOOLEAN, error \in BOOLEAN : BatchReturns(fails, error)
      BY <2>2
    <3>2. thread' = [thread EXCEPT !.at = "returned", !.error = error]
      BY <3>1 DEF BatchReturns
    <3> QED
      BY <3>2 DEF IInv, ThreadOK, Working
  <2>3. CASE \E removed \in BOOLEAN : RemoveManifest(removed)
    <3>1. PICK removed \in BOOLEAN : RemoveManifest(removed)
      BY <2>3
    <3>2. CASE removed = TRUE
      <4>1. thread' = [thread EXCEPT !.at = "removed", !.manifest = FALSE]
        BY <3>1, <3>2 DEF RemoveManifest
      <4> QED
        BY <4>1 DEF IInv, ThreadOK, Working
    <3>3. CASE removed = FALSE
      <4>1. thread' = [thread EXCEPT !.at = "removed", !.manifest = TRUE]
            /\ faults' = faults + 1
        BY <3>1, <3>3 DEF RemoveManifest, Fault
      <4>2. faults' > 0
        BY <4>1
      <4>3. /\ thread' = [at |-> "removed", retry |-> thread.retry, left |-> thread.left,
                          stop |-> thread.stop, manifest |-> TRUE, error |-> thread.error]
            /\ thread.retry \subseteq Paths /\ thread.error \in BOOLEAN
        BY <4>1 DEF IInv, ThreadOK
      <4> QED
        BY <4>2, <4>3 DEF ThreadOK, Working
    <3> QED
      BY <3>2, <3>3
  <2> QED
    BY <2>1, <2>2, <2>3
<1>3. Order' /\ PostsOK'
  BY <1>1, <1>2 DEF IInv, Order, PostsOK, ItemsUpTo, Working
<1> QED
  BY <1>1, <1>2, <1>3 DEF IInv

\* The thread posts the closure that ends the run; then it is over.
LEMMA Posts ==
  ASSUME IInv, PostEnd
  PROVE  IInv'
<1> DEFINE end == [kind |-> "end", retry |-> thread.retry, error |-> thread.error]
<1>1. /\ UNCHANGED <<running, failed, ui, faults>> /\ posts' = Posted(end)
      /\ thread.at = "removed" /\ thread' = [thread EXCEPT !.at = "over"]
  BY DEF PostEnd, queueVars
<1>2. ThreadOK' /\ thread'.at = "over"
  BY <1>1 DEF IInv, ThreadOK
<1>3. end \in EndsOfRun
  BY DEF EndsOfRun, IInv, ThreadOK
<1>4. PostsOK'
  BY <1>1, <1>3 DEF IInv, PostsOK, Posted
<1>5. Order'
  <2> SUFFICES ASSUME ui = "open" PROVE Order'
    BY <1>1 DEF Order
  <2>1. posts' = Append(posts, end)
    BY <1>1 DEF Posted
  <2>2. running' = TRUE /\ ItemsUpTo(Len(posts))
    BY <1>1 DEF IInv, Order, Working
  <2>3. /\ Len(posts') = Len(posts) + 1 /\ Len(posts) \in Nat
        /\ \A i \in 1 .. Len(posts) : posts'[i] = posts[i]
        /\ posts'[Len(posts')].kind = "end"
    BY <2>1, <1>3 DEF IInv, PostsOK
  <2>4. posts' # <<>>
    BY <2>3
  <2>5. (\A i \in 1 .. Len(posts) - 1 : posts[i].kind = "item")'
    BY <2>2, <2>3 DEF ItemsUpTo
  <2> QED
    BY <1>1, <1>2, <2>2, <2>3, <2>4, <2>5 DEF Order, Working, ItemsUpTo
<1> QED
  BY <1>1, <1>2, <1>4, <1>5 DEF IInv

\* The event loop takes a closure.  An event of a file leaves the button alone; the
\* end of the run is the last closure, and then the button goes off.
LEMMA Takes ==
  ASSUME IInv, RunPost
  PROVE  IInv'
<1> DEFINE m == Head(posts)
<1>1. /\ ui = "open" /\ UNCHANGED <<thread, ui, faults>> /\ posts # <<>>
      /\ posts' = Tail(posts) /\ (ShowItem(m) \/ ShowEnd(m))
  BY DEF RunPost
<1>2. /\ Len(posts) \in Nat \ {0} /\ Len(posts') = Len(posts) - 1
      /\ \A i \in 1 .. Len(posts) - 1 : posts'[i] = posts[i + 1]
      /\ m = posts[1] /\ m \in Items \union EndsOfRun
  BY <1>1 DEF IInv, PostsOK
<1>3. PostsOK'
  BY <1>1 DEF IInv, PostsOK
<1>4. ThreadOK'
  BY <1>1 DEF IInv, ThreadOK
<1>5. running = TRUE
  BY <1>1 DEF IInv, Order
<1>6. CASE ShowItem(m)
  <2>1. m.kind = "item" /\ running' = running
    BY <1>6 DEF ShowItem
  <2>2. failed' \subseteq Paths
    <3>1. m.path \in Paths
      BY <1>2, <2>1 DEF Items, EndsOfRun
    <3> QED
      BY <1>6, <3>1 DEF ShowItem, FailedAfter, IInv
  <2>3. CASE thread.at \in Working
    <3>1. ItemsUpTo(Len(posts))
      BY <1>1, <2>3 DEF IInv, Order
    <3>2. ItemsUpTo(Len(posts))'
      BY <1>2, <3>1 DEF ItemsUpTo
    <3> QED
      BY <1>1, <1>3, <1>4, <1>5, <2>1, <2>2, <2>3, <3>2 DEF IInv, Order, Working
  <2>4. CASE thread.at \notin Working
    <3>1. posts[Len(posts)].kind = "end" /\ ItemsUpTo(Len(posts) - 1)
      BY <1>1, <1>5, <2>4 DEF IInv, Order
    <3>2. Len(posts) > 1
      BY <1>2, <2>1, <3>1
    <3>3. posts' # <<>> /\ posts'[Len(posts')].kind = "end"
      BY <1>2, <3>1, <3>2
    <3>4. (\A i \in 1 .. Len(posts) - 1 : posts[i].kind = "item")'
      BY <1>2, <3>1 DEF ItemsUpTo
    <3> QED
      BY <1>1, <1>3, <1>4, <1>5, <2>1, <2>2, <2>4, <3>3, <3>4
      DEF IInv, Order, ItemsUpTo
  <2> QED
    BY <2>3, <2>4
<1>7. CASE ShowEnd(m)
  <2>1. m.kind = "end" /\ running' = FALSE
    BY <1>7 DEF ShowEnd
  <2>2. failed' \subseteq Paths
    <3>1. m.retry \subseteq Paths
      BY <1>2, <2>1 DEF Items, EndsOfRun
    <3> QED
      BY <1>7, <3>1 DEF ShowEnd, IInv
  <2>3. thread.at \notin Working
    BY <1>1, <1>2, <2>1 DEF IInv, Order, ItemsUpTo
  <2>4. Len(posts) = 1
    BY <1>1, <1>2, <1>5, <2>1, <2>3 DEF IInv, Order, ItemsUpTo
  <2>5. posts' = <<>>
    BY <1>1, <1>2, <1>3, <2>4, EmptySeq DEF PostsOK, IInv
  <2> QED
    BY <1>1, <1>3, <1>4, <2>1, <2>2, <2>3, <2>5 DEF IInv, Order
<1> QED
  BY <1>1, <1>6, <1>7

\* Once the window is closed nothing is promised of the thread.
LEMMA Leaves ==
  ASSUME IInv, Exit
  PROVE  IInv'
<1>1. UNCHANGED <<running, failed, posts, faults>> /\ ui' = "exited"
  BY DEF Exit, queueVars
<1>2. ThreadOK'
  BY <1>1 DEF Exit, IInv, ThreadOK, Working
<1> QED
  BY <1>1, <1>2 DEF IInv, Order, PostsOK

\* One lemma for each of the actions.
LEMMA Kept == IInv /\ [Next]_vars => IInv'
<1> SUFFICES ASSUME IInv, [Next]_vars PROVE IInv'
  OBVIOUS
<1>1. CASE User
  <2>1. CASE \E pick \in Picks : BrowseInput(pick) \/ \E next \in Picks : DropInput(pick, next)
    BY <2>1, Edits DEF BrowseInput, DropInput
  <2>2. CASE ClearTasks \/ (\E i \in DOMAIN queue : DragFrom(i))
             \/ (\E slot \in 1 .. Len(queue) + 1 : Drop(slot))
    BY <2>2, Edits
  <2>3. CASE StartConversion \/ RetryFailed
    BY <2>3, Launches
  <2>4. CASE StopConversion \/ CloseWindow
    BY <2>4, Stops
  <2> QED
    BY <1>1, <2>1, <2>2, <2>3, <2>4 DEF User
<1>2. CASE Engine
  BY <1>2, Reports, GoesOn, Posts DEF Engine
<1>3. CASE Fails
  BY <1>3, GoesOn DEF Fails
<1>4. CASE RunPost
  BY <1>4, Takes
<1>5. CASE Exit
  BY <1>5, Leaves
<1>6. CASE Exited \/ UNCHANGED vars
  <2>1. failed' \subseteq Paths /\ UNCHANGED <<running, thread, posts, ui, faults>>
    BY <1>6 DEF Exited, vars, queueVars, IInv
  <2> QED
    BY <2>1, Apart
<1> QED
  BY <1>1, <1>2, <1>3, <1>4, <1>5, <1>6 DEF Next

\* A start never waits for the thread it replaces, and no closure of an earlier run
\* reaches the rows of a later one, however the events of the two interleave.
THEOREM QuietCorrect == Spec => []QuietBetweenRuns
<1>1. Spec => []IInv
  BY Starts, Kept, PTL DEF Spec
<1> QED
  BY <1>1, Quiet, PTL

-----------------------------------------------------------------------------
(* Induction on numbers, from the fact that no finite set fits into a smaller one. *)

\* A set of numbers closed under successor has them all: otherwise the successor
\* would map its numbers below a missing one into themselves without 0.
LEMMA Induction ==
  ASSUME NEW S \in SUBSET Nat, 0 \in S, \A n \in S : n + 1 \in S
  PROVE  S = Nat
<1> SUFFICES ASSUME NEW N \in Nat, N \notin S PROVE FALSE
  OBVIOUS
<1> DEFINE X == {n \in S : n <= N}
           f == [n \in X |-> n + 1]
<1>1. IsFiniteSet(X) /\ 0 \in X
  BY FS_BoundedSetOfNaturals
<1>2. IsFiniteSet(X \ {0}) /\ Cardinality(X \ {0}) = Cardinality(X) - 1
      /\ Cardinality(X) \in Nat
  BY <1>1, FS_RemoveElement, FS_CardinalityType
<1>3. f \in [X -> X \ {0}]
  <2>1. ASSUME NEW n \in X PROVE n + 1 \in X \ {0}
    BY <2>1
  <2> QED
    BY <2>1
<1>4. \E x, y \in X : x # y /\ f[x] = f[y]
  <2> HIDE DEF X, f
  <2>1. Cardinality(X \ {0}) < Cardinality(X)
    BY <1>2
  <2> QED
    BY <1>1, <1>2, <1>3, <2>1, FS_PigeonHole
<1> QED
  BY <1>4

\* A loop of N steps, the k-th of which applies F[k], has a value after each of them.
Iterates(g, a, F, N) == g[0] = a /\ \A k \in 1..N : g[k] = F[k][g[k - 1]]

LEMMA Iteration ==
  ASSUME NEW A, NEW a \in A, NEW N \in Nat, NEW F \in [1..N -> [A -> A]]
  PROVE  \E g \in [0..N -> A] : Iterates(g, a, F, N)
<1> DEFINE Upto(n, g) == g[0] = a /\ \A k \in 1..n : g[k] = F[k][g[k - 1]]
           S == {n \in Nat : n <= N => \E g \in [0..n -> A] : Upto(n, g)}
<1>1. 0 \in S
  <2>1. [k \in 0..0 |-> a] \in [0..0 -> A] /\ Upto(0, [k \in 0..0 |-> a])
    OBVIOUS
  <2> QED
    BY <2>1
<1>2. ASSUME NEW n \in S PROVE n + 1 \in S
  <2> SUFFICES ASSUME n + 1 <= N PROVE \E g \in [0..n + 1 -> A] : Upto(n + 1, g)
    OBVIOUS
  <2>1. PICK g \in [0..n -> A] : Upto(n, g)
    OBVIOUS
  <2> DEFINE h == [k \in 0..n + 1 |-> IF k = n + 1 THEN F[n + 1][g[n]] ELSE g[k]]
  <2>2. h \in [0..n + 1 -> A]
    <3>1. n + 1 \in 1..N /\ g[n] \in A
      BY <2>1
    <3>2. F[n + 1][g[n]] \in A
      BY <3>1
    <3> QED
      BY <2>1, <3>2
  <2>3. h[0] = a /\ h[n + 1] = F[n + 1][g[n]] /\ h[n] = g[n]
    BY <2>1
  <2>4. ASSUME NEW k \in 1..n PROVE h[k] = F[k][h[k - 1]]
    <3>1. h[k] = g[k] /\ h[k - 1] = g[k - 1]
      BY <2>4
    <3> QED
      BY <2>1, <3>1
  <2> HIDE DEF h
  <2>5. \A k \in 1..n + 1 : k \in 1..n \/ k = n + 1
    OBVIOUS
  <2>6. n + 1 - 1 = n
    OBVIOUS
  <2>7. Upto(n + 1, h)
    BY <2>3, <2>4, <2>5, <2>6
  <2> QED
    BY <2>2, <2>7
<1>3. PICK g \in [0..N -> A] : Upto(N, g)
  <2>1. S \in SUBSET Nat
    OBVIOUS
  <2> HIDE DEF S
  <2>2. N \in S
    BY <1>1, <1>2, <2>1, Induction
  <2> QED
    BY <2>2 DEF S
<1> QED
  BY <1>3 DEF Iterates

\* What a list has and each addition keeps, it has when all that was found joined it.
LEMMA JoinInduction ==
  ASSUME NEW q, NEW found \in Seq(Paths), NEW I, q \in I,
         \A s \in I : \A p \in Paths : Added(s, p) \in I
  PROVE  Joined(q, found) \in I /\ (found = <<>> => Joined(q, found) = q)
<1> DEFINE N == Len(found)
           F == [k \in 1..N |-> [s \in I |-> Added(s, found[k])]]
           Solves(g) == g = [k \in 0..N |-> IF k = 0 THEN q ELSE Added(g[k - 1], found[k])]
           joined == CHOOSE g : Solves(g)
<1>1. N \in Nat /\ \A k \in 1..N : found[k] \in Paths
  BY LenProperties
<1>2. PICK g \in [0..N -> I] : Iterates(g, q, F, N)
  <2>1. F \in [1..N -> [I -> I]]
    BY <1>1
  <2> HIDE DEF F, N
  <2> QED
    BY <1>1, <2>1, Iteration
<1>3. g = [k \in 0..N |-> IF k = 0 THEN q ELSE Added(g[k - 1], found[k])]
  <2>1. \A k \in 0..N : k # 0 => k \in 1..N /\ k - 1 \in 0..N
    BY <1>1
  <2>2. \A k \in 0..N : k # 0 => g[k - 1] \in I /\ F[k][g[k - 1]] = Added(g[k - 1], found[k])
    BY <1>2, <2>1
  <2> HIDE DEF F, N
  <2>3. \A k \in 0..N : g[k] = IF k = 0 THEN q ELSE Added(g[k - 1], found[k])
    BY <1>2, <2>1, <2>2 DEF Iterates
  <2> QED
    BY <1>2, <2>3
<1>4. Solves(joined)
  <2>1. Solves(g)
    BY <1>3
  <2> HIDE DEF Solves
  <2> QED
    BY <2>1, Zenon
<1>5. Joined(q, found) = joined[N]
  BY DEF Joined
<1> HIDE DEF F, joined
<1>6. joined[0] = q /\ \A k \in 1..N : joined[k] = Added(joined[k - 1], found[k])
  <2>1. \A k \in 1..N : k \in 0..N /\ k # 0
    BY <1>1
  <2> HIDE DEF N
  <2> QED
    BY <1>1, <1>4, <2>1
<1>7. N \in {n \in Nat : n <= N => joined[n] \in I}
  <2> HIDE DEF N
  <2> DEFINE S == {n \in Nat : n <= N => joined[n] \in I}
  <2>1. 0 \in S
    BY <1>6
  <2>2. ASSUME NEW n \in S PROVE n + 1 \in S
    <3> SUFFICES ASSUME n + 1 <= N PROVE joined[n + 1] \in I
      OBVIOUS
    <3>1. joined[n] \in I /\ n + 1 \in 1..N /\ n + 1 - 1 = n
      BY <1>1
    <3>2. joined[n + 1] = Added(joined[n], found[n + 1]) /\ found[n + 1] \in Paths
      BY <1>1, <1>6, <3>1
    <3> QED
      BY <3>1, <3>2
  <2>3. S \in SUBSET Nat
    OBVIOUS
  <2> HIDE DEF S
  <2>4. S = Nat
    BY <2>1, <2>2, <2>3, Induction
  <2> QED
    BY <1>1, <2>4 DEF S
<1>8. found = <<>> => N = 0
  OBVIOUS
<1> HIDE DEF N
<1> QED
  BY <1>5, <1>6, <1>7, <1>8

-----------------------------------------------------------------------------
(* The sequence operators of the model. *)

\* A sequence without its element at i.
LEMMA Removed ==
  ASSUME NEW S, NEW s \in Seq(S), NEW i \in DOMAIN s
  PROVE  /\ RemoveAt(s, i) \in Seq(S) /\ Len(RemoveAt(s, i)) = Len(s) - 1
         /\ \A k \in 1..Len(s) - 1 : RemoveAt(s, i)[k] = s[IF k < i THEN k ELSE k + 1]
<1> DEFINE n == Len(s)
           a == SubSeq(s, 1, i - 1)
           b == SubSeq(s, i + 1, n)
<1>1. n \in Nat /\ DOMAIN s = 1..n /\ i \in 1..n /\ \A k \in 1..n : s[k] \in S
  BY LenProperties
<1>2. /\ a \in Seq(S) /\ Len(a) = i - 1
      /\ \A k \in 1..i - 1 : a[k] = s[k]
  <2>1. \A k \in 1..i - 1 : s[k] \in S
    BY <1>1
  <2>2. i - 1 \in Int /\ 1 \in Int /\ (IF 1 <= i - 1 THEN i - 1 - 1 + 1 ELSE 0) = i - 1
    BY <1>1
  <2>3. /\ a \in Seq(S) /\ Len(a) = i - 1
        /\ \A k \in 1..i - 1 - 1 + 1 : a[k] = s[1 + k - 1]
    BY <2>1, <2>2, SubSeqProperties
  <2>4. \A k \in 1..i - 1 : k \in 1..i - 1 - 1 + 1 /\ 1 + k - 1 = k
    BY <1>1
  <2> QED
    BY <2>3, <2>4
<1>3. /\ b \in Seq(S) /\ Len(b) = n - i
      /\ \A k \in 1..n - i : b[k] = s[i + k]
  <2>1. \A k \in i + 1..n : s[k] \in S
    BY <1>1
  <2>2. i + 1 \in Int /\ n \in Int /\ (IF i + 1 <= n THEN n - (i + 1) + 1 ELSE 0) = n - i
    BY <1>1
  <2>3. /\ b \in Seq(S) /\ Len(b) = n - i
        /\ \A k \in 1..n - (i + 1) + 1 : b[k] = s[i + 1 + k - 1]
    BY <2>1, <2>2, SubSeqProperties
  <2>4. \A k \in 1..n - i : k \in 1..n - (i + 1) + 1 /\ i + 1 + k - 1 = i + k
    BY <1>1
  <2> QED
    BY <2>3, <2>4
<1>4. RemoveAt(s, i) = a \o b
  BY DEF RemoveAt
<1> HIDE DEF a, b, n
<1>5. /\ a \o b \in Seq(S) /\ Len(a \o b) = Len(a) + Len(b)
      /\ \A k \in 1..Len(a) + Len(b) : (a \o b)[k] = IF k <= Len(a) THEN a[k] ELSE b[k - Len(a)]
  BY <1>2, <1>3, ConcatProperties
<1>6. Len(a) + Len(b) = n - 1
  BY <1>1, <1>2, <1>3
<1>7. ASSUME NEW k \in 1..n - 1 PROVE (a \o b)[k] = s[IF k < i THEN k ELSE k + 1]
  <2>1. CASE k < i
    <3>1. k <= Len(a) /\ k \in 1..i - 1
      BY <1>1, <1>2, <2>1
    <3> QED
      BY <1>2, <1>5, <1>6, <2>1, <3>1
  <2>2. CASE ~(k < i)
    <3>1. ~(k <= Len(a)) /\ k - Len(a) \in 1..n - i /\ i + (k - Len(a)) = k + 1
      BY <1>1, <1>2, <2>2
    <3>2. (a \o b)[k] = b[k - Len(a)]
      BY <1>5, <1>6, <3>1
    <3> QED
      BY <1>3, <2>2, <3>1, <3>2
  <2> QED
    BY <2>1, <2>2
<1> QED
  BY <1>4, <1>5, <1>6, <1>7 DEF n

\* t is s with e put in at j.
IsInserted(t, S, s, j, e) ==
  /\ t \in Seq(S) /\ Len(t) = Len(s) + 1
  /\ \A k \in 1..Len(s) + 1 : t[k] = IF k = j THEN e ELSE s[IF k < j THEN k ELSE k - 1]

LEMMA Inserted ==
  ASSUME NEW S, NEW s \in Seq(S), NEW e \in S, NEW j \in 1..Len(s) + 1
  PROVE  IsInserted(InsertAt(s, j, e), S, s, j, e)
<1> DEFINE n == Len(s)
           a == SubSeq(s, 1, j - 1)
           u == <<e>>
           b == SubSeq(s, j, n)
           c == a \o u
<1>1. n \in Nat /\ DOMAIN s = 1..n /\ j \in 1..n + 1 /\ \A k \in 1..n : s[k] \in S
  BY LenProperties
<1>2. /\ a \in Seq(S) /\ Len(a) = j - 1
      /\ \A k \in 1..j - 1 : a[k] = s[k]
  <2>1. \A k \in 1..j - 1 : s[k] \in S
    BY <1>1
  <2>2. j - 1 \in Int /\ 1 \in Int /\ (IF 1 <= j - 1 THEN j - 1 - 1 + 1 ELSE 0) = j - 1
    BY <1>1
  <2>3. /\ a \in Seq(S) /\ Len(a) = j - 1
        /\ \A k \in 1..j - 1 - 1 + 1 : a[k] = s[1 + k - 1]
    BY <2>1, <2>2, SubSeqProperties
  <2>4. \A k \in 1..j - 1 : k \in 1..j - 1 - 1 + 1 /\ 1 + k - 1 = k
    BY <1>1
  <2> QED
    BY <2>3, <2>4
<1>3. /\ b \in Seq(S) /\ Len(b) = n - j + 1
      /\ \A k \in 1..n - j + 1 : b[k] = s[j + k - 1]
  <2>1. \A k \in j..n : s[k] \in S
    BY <1>1
  <2>2. j \in Int /\ n \in Int /\ (IF j <= n THEN n - j + 1 ELSE 0) = n - j + 1
    BY <1>1
  <2> QED
    BY <2>1, <2>2, SubSeqProperties
<1>4. u \in Seq(S) /\ Len(u) = 1 /\ u[1] = e
  OBVIOUS
<1>5. InsertAt(s, j, e) = c \o b
  BY DEF InsertAt
<1> HIDE DEF a, b, n, u
<1>6. /\ c \in Seq(S) /\ Len(c) = j
      /\ \A k \in 1..j : c[k] = IF k = j THEN e ELSE s[k]
  <2>1. /\ a \o u \in Seq(S) /\ Len(a \o u) = Len(a) + Len(u)
        /\ \A k \in 1..Len(a) + Len(u) :
             (a \o u)[k] = IF k <= Len(a) THEN a[k] ELSE u[k - Len(a)]
    BY <1>2, <1>4, ConcatProperties
  <2>2. Len(a) + Len(u) = j
    BY <1>1, <1>2, <1>4
  <2>3. ASSUME NEW k \in 1..j PROVE c[k] = IF k = j THEN e ELSE s[k]
    <3>1. CASE k = j
      <4>1. ~(k <= Len(a)) /\ k - Len(a) = 1
        BY <1>1, <1>2, <3>1
      <4> QED
        BY <1>4, <2>1, <2>2, <3>1, <4>1
    <3>2. CASE k # j
      <4>1. k <= Len(a) /\ k \in 1..j - 1
        BY <1>1, <1>2, <3>2
      <4> QED
        BY <1>2, <2>1, <2>2, <3>2, <4>1
    <3> QED
      BY <3>1, <3>2
  <2> QED
    BY <2>1, <2>2, <2>3
<1> HIDE DEF c
<1>7. /\ c \o b \in Seq(S) /\ Len(c \o b) = Len(c) + Len(b)
      /\ \A k \in 1..Len(c) + Len(b) : (c \o b)[k] = IF k <= Len(c) THEN c[k] ELSE b[k - Len(c)]
  BY <1>3, <1>6, ConcatProperties
<1>8. Len(c) + Len(b) = n + 1
  BY <1>1, <1>3, <1>6
<1>9. ASSUME NEW k \in 1..n + 1
      PROVE  (c \o b)[k] = IF k = j THEN e ELSE s[IF k < j THEN k ELSE k - 1]
  <2>1. CASE k <= j
    <3>1. k <= Len(c) /\ k \in 1..j
      BY <1>1, <1>6, <2>1
    <3>2. (c \o b)[k] = c[k]
      BY <1>7, <1>8, <3>1
    <3>3. k # j => k < j
      BY <1>1, <2>1
    <3> QED
      BY <1>6, <3>1, <3>2, <3>3
  <2>2. CASE ~(k <= j)
    <3>1. ~(k <= Len(c)) /\ k - Len(c) \in 1..n - j + 1 /\ j + (k - Len(c)) - 1 = k - 1
          /\ k # j /\ ~(k < j)
      BY <1>1, <1>6, <2>2
    <3>2. (c \o b)[k] = b[k - Len(c)]
      BY <1>7, <1>8, <3>1
    <3> QED
      BY <1>3, <3>1, <3>2
  <2> QED
    BY <2>1, <2>2
<1> QED
  BY <1>5, <1>7, <1>8, <1>9 DEF n, IsInserted

\* Where the files are after one of them moved from i to j.
Origin(n, i, j) == [k \in 1..n |->
  IF k = j THEN i
  ELSE IF k < j THEN (IF k < i THEN k ELSE k + 1)
  ELSE (IF k - 1 < i THEN k - 1 ELSE k)]

\* t has the elements of s at other places; the one at k was at g[k].
IsMoved(t, S, s, g) ==
  /\ t \in Seq(S) /\ DOMAIN t = DOMAIN s
  /\ \A k \in DOMAIN t : g[k] \in DOMAIN s /\ t[k] = s[g[k]]
  /\ \A k, l \in DOMAIN t : g[k] = g[l] => k = l
  /\ \A k \in DOMAIN s : \E l \in DOMAIN t : g[l] = k

LEMMA Moved ==
  ASSUME NEW S, NEW s \in Seq(S), NEW i \in DOMAIN s, NEW j \in DOMAIN s
  PROVE  IsMoved(InsertAt(RemoveAt(s, i), j, s[i]), S, s, Origin(Len(s), i, j))
<1> DEFINE n == Len(s)
           r == RemoveAt(s, i)
           t == InsertAt(r, j, s[i])
           g == Origin(n, i, j)
<1>1. n \in Nat /\ DOMAIN s = 1..n /\ i \in 1..n /\ j \in 1..n /\ s[i] \in S
  BY LenProperties
<1>2. /\ r \in Seq(S) /\ Len(r) = n - 1
      /\ \A k \in 1..n - 1 : r[k] = s[IF k < i THEN k ELSE k + 1]
  BY Removed
<1> HIDE DEF r
<1>3. /\ t \in Seq(S) /\ Len(t) = n
      /\ \A k \in 1..n : t[k] = IF k = j THEN s[i] ELSE r[IF k < j THEN k ELSE k - 1]
  <2>1. j \in 1..Len(r) + 1 /\ Len(r) + 1 = n
    BY <1>1, <1>2
  <2> DEFINE e == s[i]
  <2>2. e \in S
    BY <1>1
  <2>3. IsInserted(t, S, r, j, e)
    BY <1>1, <1>2, <2>1, <2>2, Inserted
  <2> HIDE DEF t
  <2> QED
    BY <2>1, <2>3 DEF IsInserted
<1> HIDE DEF t
<1>4. DOMAIN t = 1..n
  BY <1>3, LenProperties
<1>5. \A k \in 1..n : g[k] = IF k = j THEN i
                             ELSE IF k < j THEN (IF k < i THEN k ELSE k + 1)
                             ELSE (IF k - 1 < i THEN k - 1 ELSE k)
  BY DEF Origin
<1> HIDE DEF g
<1>6. \A k \in 1..n : g[k] \in 1..n
  BY <1>1, <1>5
<1>7. \A k, l \in 1..n : g[k] = g[l] => k = l
  <2> SUFFICES ASSUME NEW k \in 1..n, NEW l \in 1..n, g[k] = g[l] PROVE k = l
    OBVIOUS
  <2>1. k # j => g[k] # i
    BY <1>1, <1>5
  <2>2. l # j => g[l] # i
    BY <1>1, <1>5
  <2>3. CASE k # j /\ l # j
    BY <1>1, <1>5, <2>3
  <2>4. g[j] = i
    BY <1>1, <1>5
  <2> QED
    BY <2>1, <2>2, <2>3, <2>4
<1>8. ASSUME NEW k \in 1..n PROVE t[k] = s[g[k]]
  <2>1. CASE k = j
    BY <1>3, <1>5, <2>1
  <2>2. CASE k < j
    <3>1. k \in 1..n - 1 /\ k # j
      BY <1>1, <2>2
    <3> QED
      BY <1>2, <1>3, <1>5, <2>2, <3>1
  <2>3. CASE ~(k < j) /\ k # j
    <3>1. k - 1 \in 1..n - 1 /\ k - 1 + 1 = k
      BY <1>1, <2>3
    <3> QED
      BY <1>2, <1>3, <1>5, <2>3, <3>1
  <2> QED
    BY <2>1, <2>2, <2>3
<1>9. ASSUME NEW k \in 1..n PROVE \E l \in 1..n : g[l] = k
  <2> DEFINE l == IF k = i THEN j
                  ELSE IF k < i THEN (IF k < j THEN k ELSE k + 1)
                  ELSE (IF k - 1 < j THEN k - 1 ELSE k)
  <2>1. l \in 1..n /\ g[l] = k
    BY <1>1, <1>5
  <2> QED
    BY <2>1
<1>10. IsMoved(t, S, s, g)
  BY <1>1, <1>3, <1>4, <1>6, <1>7, <1>8, <1>9 DEF IsMoved
<1> QED
  BY <1>10, Zenon DEF g, t, r

-----------------------------------------------------------------------------
(* The three lists: what the queue, its rows and the failed files say of each      *)
(* other, and what the run under way and its closures say of them.                 *)

Rows == [path : Paths, st : States]
Distinct(q) == \A i, j \in DOMAIN q : Key[q[i]] = Key[q[j]] => i = j

\* A row that shows a failure is kept as failed, one that shows a conversion is not.
Matches(rs, fs) ==
  \A i \in DOMAIN rs : /\ rs[i].st = "failed" => rs[i].path \in fs
                       /\ rs[i].st = "done" => rs[i].path \notin fs

Lists ==
  /\ queue \in Seq(Paths) /\ rows \in Seq(Rows) /\ RowsMirrorQueue
  /\ Distinct(queue) /\ failed \subseteq Range(queue) /\ Matches(rows, failed)
  /\ drag \in Paths \union {NoFile} /\ ui \in {"open", "closed", "exited"}

FilesOK ==
  /\ DOMAIN thread.left \subseteq Paths
  /\ \A p \in DOMAIN thread.left : thread.left[p] \in {"todo", "busy", "over", "lost"}

\* A closure is about a file of the run, or ends it for the files it retried.
OfThread(m) ==
  /\ m.kind = "item" => m.path \in DOMAIN thread.left
  /\ m.kind = "end" => m.retry = thread.retry

\* A retry is a run of files that had failed, and no other row shows a failure.
RetryOK ==
  thread.retry # {} =>
    /\ thread.retry \subseteq Range(queue) /\ DOMAIN thread.left \subseteq thread.retry
    /\ \A i \in DOMAIN rows : rows[i].st = "failed" => rows[i].path \in thread.retry

OfRun ==
  ui = "open" /\ running = TRUE =>
    /\ DOMAIN thread.left \subseteq Range(queue)
    /\ \A i \in DOMAIN posts : OfThread(posts[i])
    /\ RetryOK

LInv == Lists /\ FilesOK /\ OfRun

\* What is found joins the queue: the files that were there stay, and no file comes
\* in twice.
LEMMA Joins ==
  ASSUME NEW q \in Seq(Paths), Distinct(q), NEW found \in Seq(Paths)
  PROVE  /\ Joined(q, found) \in Seq(Paths) /\ Distinct(Joined(q, found))
         /\ Range(q) \subseteq Range(Joined(q, found))
         /\ found = <<>> => Joined(q, found) = q
<1> DEFINE I == {s \in Seq(Paths) : Distinct(s) /\ Range(q) \subseteq Range(s)}
<1>1. q \in I
  OBVIOUS
<1>2. ASSUME NEW s \in I, NEW p \in Paths PROVE Added(s, p) \in I
  <2>1. CASE InQueue(s, p)
    BY <2>1 DEF Added
  <2>2. CASE ~InQueue(s, p)
    <3> DEFINE t == Append(s, p)
               n == Len(s)
    <3>1. n \in Nat /\ DOMAIN s = 1..n
      BY LenProperties
    <3>2. /\ t \in Seq(Paths) /\ DOMAIN t = 1..n + 1 /\ t[n + 1] = p
          /\ \A k \in 1..n : t[k] = s[k]
      BY AppendProperties, LenProperties
    <3>3. Added(s, p) = t
      BY <2>2 DEF Added
    <3> HIDE DEF t, n
    <3>4. \A k \in 1..n + 1 : k \in 1..n \/ k = n + 1
      BY <3>1
    <3>5. \A k \in 1..n : Key[s[k]] # Key[p]
      BY <2>2, <3>1 DEF InQueue
    <3>6. Distinct(t)
      <4> SUFFICES ASSUME NEW i \in 1..n + 1, NEW j \in 1..n + 1, Key[t[i]] = Key[t[j]]
                   PROVE  i = j
        BY <3>2 DEF Distinct
      <4>1. CASE i \in 1..n /\ j \in 1..n
        BY <3>1, <3>2, <4>1 DEF Distinct
      <4> QED
        BY <3>2, <3>4, <3>5, <4>1
    <3>7. Range(s) \subseteq Range(t)
      <4>1. \A k \in 1..n : k \in DOMAIN t /\ t[k] = s[k]
        BY <3>1, <3>2
      <4> QED
        BY <3>1, <4>1 DEF Range
    <3> QED
      BY <3>2, <3>3, <3>6, <3>7
  <2> QED
    BY <2>1, <2>2
<1>3. Joined(q, found) \in I /\ (found = <<>> => Joined(q, found) = q)
  <2> HIDE DEF I
  <2> QED
    BY <1>1, <1>2, JoinInduction
<1> QED
  BY <1>3

\* New rows show the queue and nothing else.
LEMMA Refreshes ==
  ASSUME NEW q \in Seq(Paths)
  PROVE  /\ Refreshed(q) \in Seq(Rows) /\ DOMAIN Refreshed(q) = DOMAIN q
         /\ \A i \in DOMAIN q : Refreshed(q)[i].path = q[i] /\ Refreshed(q)[i].st = "pending"
         /\ [i \in DOMAIN Refreshed(q) |-> Refreshed(q)[i].path] = q
<1> DEFINE t == Refreshed(q)
<1>1. Len(q) \in Nat /\ DOMAIN q = 1..Len(q) /\ \A i \in 1..Len(q) : q[i] \in Paths
  BY LenProperties
<1>2. /\ t = [i \in 1..Len(q) |-> [path |-> q[i], st |-> "pending"]]
  BY <1>1 DEF Refreshed, Pending
<1>3. \A i \in 1..Len(q) : [path |-> q[i], st |-> "pending"] \in Rows
  BY <1>1 DEF Rows, States
<1>4. t \in Seq(Rows)
  BY <1>1, <1>2, <1>3, SeqDef
<1>5. DOMAIN t = DOMAIN q /\ \A i \in DOMAIN q : t[i].path = q[i] /\ t[i].st = "pending"
  BY <1>1, <1>2
<1>6. q = [i \in DOMAIN q |-> q[i]]
  BY SeqDef
<1> HIDE DEF t
<1>7. [i \in DOMAIN t |-> t[i].path] = q
  BY <1>5, <1>6
<1> QED
  BY <1>4, <1>5, <1>7 DEF t

\* The rows and the queue by their positions.
LEMMA Mirror ==
  ASSUME Lists
  PROVE  /\ DOMAIN rows = DOMAIN queue
         /\ \A i \in DOMAIN rows : rows[i].path = queue[i] /\ rows[i] \in Rows
         /\ \A i, j \in DOMAIN rows : rows[i].path = rows[j].path => i = j
         /\ \A i \in DOMAIN rows : rows[i].path \in Range(queue)
<1>1. DOMAIN rows = DOMAIN queue /\ \A i \in DOMAIN rows : rows[i].path = queue[i]
  BY DEF Lists, RowsMirrorQueue
<1>2. \A i \in DOMAIN rows : rows[i] \in Rows
  BY DEF Lists
<1>3. \A i, j \in DOMAIN queue : queue[i] = queue[j] => i = j
  BY DEF Lists, Distinct
<1> QED
  BY <1>1, <1>2, <1>3 DEF Range

LEMMA ListsStart == Init => LInv
<1> SUFFICES ASSUME Init PROVE LInv
  OBVIOUS
<1>1. /\ queue = <<>> /\ rows = <<>> /\ failed = {} /\ drag = NoFile /\ ui = "open"
      /\ running = FALSE /\ thread.left = <<>>
  BY DEF Init
<1>2. DOMAIN queue = {} /\ DOMAIN rows = {} /\ DOMAIN thread.left = {}
      /\ queue \in Seq(Paths) /\ rows \in Seq(Rows)
  BY <1>1, EmptySeq
<1>3. RowsMirrorQueue
  <2>1. [i \in {} |-> rows[i].path] = queue
    BY <1>1
  <2> QED
    BY <1>2, <2>1 DEF RowsMirrorQueue
<1>4. Lists
  BY <1>1, <1>2, <1>3 DEF Lists, Distinct, Matches
<1> QED
  BY <1>1, <1>2, <1>4 DEF LInv, FilesOK, OfRun

\* A step of the user between two runs: nothing is known of a run afterwards.
LEMMA Between ==
  ASSUME IInv, LInv, MayEdit, Lists', running' = running, thread' = thread
  PROVE  LInv'
<1>1. running = FALSE
  BY DEF MayEdit, IInv
<1> QED
  BY <1>1 DEF LInv, FilesOK, OfRun

LEMMA AddKeeps ==
  ASSUME IInv, LInv, NEW found \in Seq(Paths), Add(found)
  PROVE  LInv'
<1>1. /\ MayEdit /\ queue' = Joined(queue, found)
      /\ rows' = IF found = <<>> THEN rows ELSE Refreshed(queue')
      /\ UNCHANGED <<failed, running, drag, thread, ui>>
  BY DEF Add
<1>2. queue \in Seq(Paths) /\ Distinct(queue)
  BY DEF LInv, Lists
<1>3. /\ queue' \in Seq(Paths) /\ Distinct(queue') /\ Range(queue) \subseteq Range(queue')
      /\ found = <<>> => queue' = queue
  BY <1>1, <1>2, Joins
<1>4. CASE found = <<>>
  <2>1. Lists'
    BY <1>1, <1>3, <1>4 DEF LInv, Lists, RowsMirrorQueue
  <2> QED
    BY <1>1, <2>1, Between
<1>5. CASE found # <<>>
  <2>1. /\ rows' \in Seq(Rows) /\ DOMAIN rows' = DOMAIN queue'
        /\ \A i \in DOMAIN rows' : rows'[i].st = "pending"
        /\ [i \in DOMAIN rows' |-> rows'[i].path] = queue'
    BY <1>1, <1>3, <1>5, Refreshes
  <2>2. Lists'
    BY <1>1, <1>3, <2>1 DEF LInv, Lists, RowsMirrorQueue, Matches
  <2> QED
    BY <1>1, <2>2, Between
<1> QED
  BY <1>4, <1>5

LEMMA ClearKeeps ==
  ASSUME IInv, LInv, ClearTasks
  PROVE  LInv'
<1>1. /\ MayEdit /\ queue' = <<>> /\ rows' = <<>> /\ failed' = {}
      /\ UNCHANGED <<running, drag, thread, ui>>
  BY DEF ClearTasks
<1>2. queue' \in Seq(Paths) /\ rows' \in Seq(Rows) /\ DOMAIN queue' = {} /\ DOMAIN rows' = {}
  BY <1>1, EmptySeq
<1>3. [i \in {} |-> rows'[i].path] = queue'
  BY <1>1
<1>4. Lists'
  BY <1>1, <1>2, <1>3 DEF LInv, Lists, Distinct, Matches, RowsMirrorQueue
<1> QED
  BY <1>1, <1>4, Between

LEMMA DragKeeps ==
  ASSUME IInv, LInv, NEW i \in DOMAIN queue, DragFrom(i)
  PROVE  LInv'
<1>1. /\ MayEdit /\ drag' = queue[i] /\ UNCHANGED <<queue, rows, failed, running, thread, ui>>
  BY DEF DragFrom, queueVars
<1>2. drag' \in Paths
  BY <1>1 DEF LInv, Lists
<1>3. Lists'
  BY <1>1, <1>2 DEF LInv, Lists, RowsMirrorQueue
<1> QED
  BY <1>1, <1>3, Between

\* A file that is dragged changes its place; the files stay the same.
LEMMA DropKeeps ==
  ASSUME IInv, LInv, NEW slot, Drop(slot)
  PROVE  LInv'
<1>1. /\ MayEdit /\ drag' = NoFile /\ rows' = Refreshed(queue')
      /\ UNCHANGED <<failed, running, thread, ui>>
  BY DEF Drop
<1>2. PICK i \in DOMAIN queue : /\ MayDrop(i, slot)
                                /\ queue' = InsertAt(RemoveAt(queue, i), Target(i, slot), queue[i])
  BY DEF Drop, Current
<1>3. queue \in Seq(Paths) /\ Len(queue) \in Nat /\ DOMAIN queue = 1 .. Len(queue)
      /\ Distinct(queue) /\ failed \subseteq Range(queue)
  BY LenProperties DEF LInv, Lists
<1> DEFINE j == Target(i, slot)
           g == Origin(Len(queue), i, j)
<1>4. j \in DOMAIN queue
  BY <1>2, <1>3 DEF MayDrop, Target
<1>5. IsMoved(queue', Paths, queue, g)
  <2> HIDE DEF j
  <2>1. IsMoved(InsertAt(RemoveAt(queue, i), j, queue[i]), Paths, queue, Origin(Len(queue), i, j))
    BY <1>3, <1>4, Moved
  <2> QED
    BY <1>2, <2>1 DEF j
<1> HIDE DEF g
<1>6. /\ queue' \in Seq(Paths)
      /\ \A k \in DOMAIN queue' : g[k] \in DOMAIN queue /\ queue'[k] = queue[g[k]]
      /\ \A k, l \in DOMAIN queue' : g[k] = g[l] => k = l
      /\ \A k \in DOMAIN queue : \E l \in DOMAIN queue' : g[l] = k
  BY <1>5 DEF IsMoved
<1>7. Distinct(queue')
  BY <1>3, <1>6 DEF Distinct
<1>8. Range(queue) \subseteq Range(queue')
  <2> SUFFICES ASSUME NEW k \in DOMAIN queue PROVE queue[k] \in Range(queue')
    BY DEF Range
  <2>1. PICK l \in DOMAIN queue' : g[l] = k
    BY <1>6
  <2>2. queue'[l] = queue[k]
    BY <1>6, <2>1
  <2> QED
    BY <2>1, <2>2 DEF Range
<1>9. /\ rows' \in Seq(Rows) /\ DOMAIN rows' = DOMAIN queue'
      /\ \A k \in DOMAIN rows' : rows'[k].st = "pending"
      /\ [k \in DOMAIN rows' |-> rows'[k].path] = queue'
  BY <1>1, <1>6, Refreshes
<1>10. Lists'
  BY <1>1, <1>3, <1>6, <1>7, <1>8, <1>9 DEF LInv, Lists, RowsMirrorQueue, Matches
<1> QED
  BY <1>1, <1>10, Between

\* A run starts with the whole queue.
LEMMA StartKeeps ==
  ASSUME IInv, LInv, StartConversion
  PROVE  LInv'
<1>1. /\ ui = "open" /\ running = FALSE /\ rows' = Refreshed(queue) /\ failed' = {}
      /\ UNCHANGED <<queue, drag, posts, ui>>
      /\ thread' = [at |-> "batch", retry |-> {}, stop |-> FALSE, error |-> FALSE,
                    manifest |-> TRUE, left |-> [p \in Range(queue) |-> "todo"]]
  BY DEF StartConversion, Launch, MayEdit, IInv
<1>2. queue \in Seq(Paths) /\ Range(queue) \subseteq Paths
  BY LenProperties DEF LInv, Lists, Range
<1>3. posts' = <<>> /\ DOMAIN posts' = {}
  BY <1>1 DEF IInv, Order
<1>4. /\ rows' \in Seq(Rows) /\ DOMAIN rows' = DOMAIN queue
      /\ \A k \in DOMAIN rows' : rows'[k].st = "pending"
      /\ [k \in DOMAIN rows' |-> rows'[k].path] = queue
  BY <1>1, <1>2, Refreshes
<1>5. Lists'
  BY <1>1, <1>4 DEF LInv, Lists, RowsMirrorQueue, Matches
<1>6. /\ thread'.retry = {} /\ DOMAIN thread'.left = Range(queue)
      /\ \A p \in DOMAIN thread'.left : thread'.left[p] = "todo"
  BY <1>1
<1>7. FilesOK' /\ OfRun'
  BY <1>1, <1>2, <1>3, <1>6 DEF FilesOK, OfRun, RetryOK
<1> QED
  BY <1>5, <1>7 DEF LInv

\* The files of the queue with the key of a failed one are the failed files.
LEMMA SnapshotExact ==
  ASSUME Lists
  PROVE  Snapshot(failed) = failed
<1>1. \A i, j \in DOMAIN queue : Key[queue[i]] = Key[queue[j]] => i = j
  BY DEF Lists, Distinct
<1>2. failed \subseteq Range(queue)
  BY DEF Lists
<1>3. \A p, o \in Range(queue) : Key[o] = Key[p] => o = p
  BY <1>1 DEF Range
<1> QED
  BY <1>2, <1>3 DEF Snapshot

\* What a retry starts with.
LEMMA RetryStarts ==
  ASSUME IInv, LInv, RetryFailed
  PROVE  /\ ui = "open" /\ running = FALSE /\ UNCHANGED <<queue, failed, drag, posts, ui>>
         /\ thread'.retry = failed /\ DOMAIN thread'.left = failed
         /\ \A p \in DOMAIN thread'.left : thread'.left[p] = "todo"
         /\ rows' = [i \in DOMAIN rows |->
                IF rows[i].st = "failed" THEN Pending(rows[i].path) ELSE rows[i]]
<1>1. Snapshot(failed) = failed
  BY SnapshotExact DEF LInv
<1>2. thread' = [at |-> "batch", retry |-> failed, stop |-> FALSE, error |-> FALSE,
                 manifest |-> TRUE, left |-> [p \in failed |-> "todo"]]
  BY <1>1 DEF RetryFailed, Launch
<1> QED
  BY <1>2 DEF RetryFailed, MayEdit, IInv

\* A step that changes the state of some rows and no path.
LEMMA Restated ==
  ASSUME Lists, NEW F \in [DOMAIN rows -> States],
         rows' = [i \in DOMAIN rows |-> [path |-> rows[i].path, st |-> F[i]]],
         queue' = queue
  PROVE  /\ rows' \in Seq(Rows) /\ RowsMirrorQueue' /\ DOMAIN rows' = DOMAIN rows
         /\ \A i \in DOMAIN rows : rows'[i].path = rows[i].path /\ rows'[i].st = F[i]
<1>1. Len(rows) \in Nat /\ DOMAIN rows = 1 .. Len(rows) /\ \A i \in DOMAIN rows : rows[i] \in Rows
  BY LenProperties DEF Lists
<1>2. \A i \in DOMAIN rows : [path |-> rows[i].path, st |-> F[i]] \in Rows
  BY <1>1 DEF Rows
<1>3. rows' \in [1 .. Len(rows) -> Rows]
  BY <1>1, <1>2
<1>4. rows' \in Seq(Rows)
  BY <1>1, <1>3, SeqDef
<1>5. DOMAIN rows' = DOMAIN rows
      /\ \A i \in DOMAIN rows : rows'[i].path = rows[i].path /\ rows'[i].st = F[i]
  OBVIOUS
<1>6. [i \in DOMAIN rows' |-> rows'[i].path] = [i \in DOMAIN rows |-> rows[i].path]
  BY <1>5
<1> QED
  BY <1>4, <1>5, <1>6 DEF RowsMirrorQueue, Lists

LEMMA RetryKeeps ==
  ASSUME IInv, LInv, RetryFailed
  PROVE  LInv'
<1>1. /\ ui = "open" /\ running = FALSE /\ UNCHANGED <<queue, failed, drag, posts, ui>>
      /\ thread'.retry = failed /\ DOMAIN thread'.left = failed
      /\ \A p \in DOMAIN thread'.left : thread'.left[p] = "todo"
      /\ rows' = [i \in DOMAIN rows |->
                IF rows[i].st = "failed" THEN Pending(rows[i].path) ELSE rows[i]]
  BY RetryStarts
<1> DEFINE F == [i \in DOMAIN rows |-> IF rows[i].st = "failed" THEN "pending" ELSE rows[i].st]
<1>2. \A i \in DOMAIN rows : rows[i] \in Rows
  BY DEF LInv, Lists
<1>3. F \in [DOMAIN rows -> States]
  BY <1>2 DEF Rows, States
<1>4. rows' = [i \in DOMAIN rows |-> [path |-> rows[i].path, st |-> F[i]]]
  <2>1. \A i \in DOMAIN rows : rows[i] = [path |-> rows[i].path, st |-> rows[i].st]
    BY <1>2 DEF Rows
  <2> QED
    BY <1>1, <2>1 DEF Pending
<1>5. \A i \in DOMAIN rows : F[i] # "failed" /\ (F[i] = "done" => rows[i].st = "done")
  OBVIOUS
<1> HIDE DEF F
<1>6. /\ rows' \in Seq(Rows) /\ RowsMirrorQueue' /\ DOMAIN rows' = DOMAIN rows
      /\ \A i \in DOMAIN rows : rows'[i].path = rows[i].path /\ rows'[i].st = F[i]
  BY <1>1, <1>3, <1>4, Restated DEF LInv
<1>7. Lists'
  BY <1>1, <1>5, <1>6 DEF LInv, Lists, Matches
<1>8. posts' = <<>> /\ DOMAIN posts' = {}
  BY <1>1 DEF IInv, Order
<1>9. failed \subseteq Range(queue) /\ failed \subseteq Paths
  BY DEF LInv, Lists, IInv
<1>10. FilesOK' /\ OfRun'
  BY <1>1, <1>5, <1>6, <1>8, <1>9 DEF FilesOK, OfRun, RetryOK
<1> QED
  BY <1>7, <1>10 DEF LInv

\* A step of the thread or of the window: the lists stay, and the thread keeps its
\* files.
LEMMA Onward ==
  ASSUME LInv, UNCHANGED <<queue, rows, failed, running, drag>>,
         ui' \in {"open", "closed", "exited"}, ui' = "open" => ui = "open",
         thread'.retry = thread.retry, DOMAIN thread'.left = DOMAIN thread.left,
         \A p \in DOMAIN thread'.left : thread'.left[p] \in {"todo", "busy", "over", "lost"},
         ui' = "open" /\ running = TRUE => \A i \in DOMAIN posts' : OfThread(posts'[i])
  PROVE  LInv'
<1>1. Lists'
  BY DEF LInv, Lists, RowsMirrorQueue
<1>2. FilesOK'
  BY DEF LInv, FilesOK
<1>3. OfRun'
  BY DEF LInv, OfRun, OfThread, RetryOK
<1> QED
  BY <1>1, <1>2, <1>3 DEF LInv

\* One more closure waits.
LEMMA OneMore ==
  ASSUME IInv, LInv, NEW m \in Items \union EndsOfRun, posts' = Posted(m), OfThread(m),
         ui = "open", running = TRUE
  PROVE  \A i \in DOMAIN posts' : OfThread(posts'[i])
<1>1. posts' = Append(posts, m) /\ posts \in Seq(Items \union EndsOfRun)
  BY DEF Posted, IInv, PostsOK
<1>2. /\ DOMAIN posts' = 1 .. Len(posts) + 1 /\ DOMAIN posts = 1 .. Len(posts)
      /\ Len(posts) \in Nat /\ posts'[Len(posts) + 1] = m
      /\ \A i \in 1 .. Len(posts) : posts'[i] = posts[i]
  BY <1>1, AppendProperties, LenProperties
<1>3. \A i \in DOMAIN posts : OfThread(posts[i])
  BY DEF LInv, OfRun
<1>4. \A i \in 1 .. Len(posts) + 1 : i \in 1 .. Len(posts) \/ i = Len(posts) + 1
  BY <1>2
<1> QED
  BY <1>2, <1>3, <1>4

\* A file of the run goes on, with or without an event.
LEMMA FileKeeps ==
  ASSUME IInv, LInv, NEW p \in Paths,
         \/ ItemStarts(p) \/ ItemRejected(p)
         \/ \E st \in {"done", "failed", "canceled"} : ItemFinishes(p, st)
         \/ ItemLost(p)
  PROVE  LInv'
<1>1. /\ thread.at = "batch" /\ p \in DOMAIN thread.left
      /\ UNCHANGED <<queue, rows, failed, running, drag, ui>>
  BY DEF ItemStarts, ItemRejected, ItemFinishes, ItemLost, queueVars
<1>2. PICK v \in {"busy", "over", "lost"} : thread' = [thread EXCEPT !.left[p] = v]
  BY DEF ItemStarts, ItemRejected, ItemFinishes, ItemLost
<1>3. thread'.retry = thread.retry /\ thread'.left = [thread.left EXCEPT ![p] = v]
  BY <1>2 DEF IInv, ThreadOK
<1>4. /\ DOMAIN thread'.left = DOMAIN thread.left
      /\ \A q \in DOMAIN thread'.left : thread'.left[q] \in {"todo", "busy", "over", "lost"}
  BY <1>3 DEF LInv, FilesOK
<1>5. \/ posts' = posts
      \/ \E st \in States : posts' = Posted([kind |-> "item", path |-> p, st |-> st])
  BY DEF ItemStarts, ItemRejected, ItemFinishes, ItemLost, Report, States
<1>6. ASSUME ui' = "open", running = TRUE PROVE \A i \in DOMAIN posts' : OfThread(posts'[i])
  <2>1. CASE posts' = posts
    BY <1>1, <1>6, <2>1 DEF LInv, OfRun
  <2>2. CASE \E st \in States : posts' = Posted([kind |-> "item", path |-> p, st |-> st])
    <3>1. PICK st \in States : posts' = Posted([kind |-> "item", path |-> p, st |-> st])
      BY <2>2
    <3> DEFINE m == [kind |-> "item", path |-> p, st |-> st]
    <3>2. m \in Items /\ OfThread(m)
      BY <1>1 DEF Items, OfThread
    <3>3. posts' = Posted(m)
      BY <3>1
    <3> HIDE DEF m
    <3> QED
      BY <1>1, <1>6, <3>2, <3>3, OneMore
  <2> QED
    BY <1>5, <2>1, <2>2
<1>7. ui' \in {"open", "closed", "exited"}
  BY <1>1 DEF LInv, Lists
<1> QED
  BY <1>1, <1>3, <1>4, <1>6, <1>7, Onward

\* The thread goes on without an event, or is asked to stop; the window closes.
LEMMA QuietlyKeeps ==
  ASSUME IInv, LInv,
         \/ \E fails, error \in BOOLEAN : BatchReturns(fails, error)
         \/ \E removed \in BOOLEAN : RemoveManifest(removed)
         \/ StopConversion
         \/ CloseWindow
         \/ Exit
  PROVE  LInv'
<1>1. UNCHANGED <<queue, rows, failed, running, drag>>
      /\ thread'.retry = thread.retry /\ thread'.left = thread.left
  BY DEF BatchReturns, RemoveManifest, StopConversion, CloseWindow, Exit, queueVars, IInv, ThreadOK
<1>2. /\ ui' \in {"open", "closed", "exited"}
      /\ ui' = "open" => ui = "open" /\ posts' = posts
  BY DEF BatchReturns, RemoveManifest, StopConversion, CloseWindow, Exit, LInv, Lists
<1>3. ui' = "open" /\ running = TRUE => \A i \in DOMAIN posts' : OfThread(posts'[i])
  BY <1>2 DEF LInv, OfRun
<1>4. \A q \in DOMAIN thread'.left : thread'.left[q] \in {"todo", "busy", "over", "lost"}
  BY <1>1 DEF LInv, FilesOK
<1> QED
  BY <1>1, <1>2, <1>3, <1>4, Onward

LEMMA EndPosted ==
  ASSUME IInv, LInv, PostEnd
  PROVE  LInv'
<1> DEFINE end == [kind |-> "end", retry |-> thread.retry, error |-> thread.error]
<1>1. /\ UNCHANGED <<queue, rows, failed, running, drag, ui>> /\ posts' = Posted(end)
      /\ thread'.retry = thread.retry /\ thread'.left = thread.left
  BY DEF PostEnd, queueVars, IInv, ThreadOK
<1>2. end \in EndsOfRun /\ OfThread(end)
  BY DEF EndsOfRun, IInv, ThreadOK, OfThread
<1> HIDE DEF end
<1>3. ui' = "open" /\ running = TRUE => \A i \in DOMAIN posts' : OfThread(posts'[i])
  BY <1>1, <1>2, OneMore
<1>4. ui' \in {"open", "closed", "exited"}
  BY <1>1 DEF LInv, Lists
<1>5. \A q \in DOMAIN thread'.left : thread'.left[q] \in {"todo", "busy", "over", "lost"}
  BY <1>1 DEF LInv, FilesOK
<1> QED
  BY <1>1, <1>3, <1>4, <1>5, Onward

\* The rest of the closures is still about the run.
LEMMA OneLess ==
  ASSUME IInv, LInv, RunPost
  PROVE  /\ ui = "open" /\ running = TRUE /\ UNCHANGED <<queue, drag, thread, ui>>
         /\ Head(posts) \in Items \union EndsOfRun /\ OfThread(Head(posts))
         /\ (\A i \in DOMAIN posts : OfThread(posts[i]))'
<1>1. /\ ui = "open" /\ posts # <<>> /\ posts' = Tail(posts)
      /\ UNCHANGED <<queue, drag, thread, ui>>
  BY DEF RunPost
<1>2. running = TRUE
  BY <1>1 DEF IInv, Order
<1>3. /\ Len(posts) \in Nat \ {0} /\ DOMAIN posts = 1 .. Len(posts)
      /\ DOMAIN posts' = 1 .. Len(posts) - 1
      /\ \A i \in 1 .. Len(posts) - 1 : posts'[i] = posts[i + 1]
      /\ Head(posts) = posts[1] /\ Head(posts) \in Items \union EndsOfRun
  BY <1>1, LenProperties, HeadTailProperties DEF IInv, PostsOK
<1>4. \A i \in DOMAIN posts : OfThread(posts[i])
  BY <1>1, <1>2 DEF LInv, OfRun
<1>5. \A i \in DOMAIN posts' : OfThread(posts'[i])
  <2>1. \A i \in 1 .. Len(posts) - 1 : i + 1 \in DOMAIN posts
    BY <1>3
  <2> QED
    BY <1>3, <1>4, <2>1
<1>6. 1 \in DOMAIN posts
  BY <1>3
<1>7. OfThread(Head(posts))
  BY <1>3, <1>4, <1>6
<1>8. (\A i \in DOMAIN posts : OfThread(posts[i]))'
  BY <1>1, <1>5 DEF OfThread
<1> QED
  BY <1>1, <1>2, <1>3, <1>7, <1>8

\* An event finds the one row of its file.
LEMMA ShowItemKeeps ==
  ASSUME IInv, LInv, RunPost, ShowItem(Head(posts))
  PROVE  LInv'
<1> DEFINE p == Head(posts).path
           s == Head(posts).st
<1>1. /\ ui = "open" /\ running = TRUE /\ UNCHANGED <<queue, drag, thread, ui>>
      /\ Head(posts) \in Items \union EndsOfRun /\ OfThread(Head(posts))
      /\ (\A i \in DOMAIN posts : OfThread(posts[i]))'
  BY OneLess
<1>2. /\ Head(posts).kind = "item" /\ rows' = WithRow(p, s) /\ failed' = FailedAfter(p, s)
      /\ running' = running
  BY DEF ShowItem
<1>3. s \in States /\ p \in DOMAIN thread.left
  BY <1>1, <1>2 DEF Items, EndsOfRun, OfThread
<1>4. p \in Range(queue) /\ RetryOK
  BY <1>1, <1>3 DEF LInv, OfRun
<1> HIDE DEF p, s
<1>5. /\ DOMAIN rows = DOMAIN queue
      /\ \A i \in DOMAIN rows : rows[i].path = queue[i] /\ rows[i] \in Rows
      /\ \A i, j \in DOMAIN rows : rows[i].path = rows[j].path => i = j
  BY Mirror DEF LInv
<1>6. PICK k \in DOMAIN rows : rows[k].path = p
  BY <1>4, <1>5 DEF Range
<1>7. RowOf(p) = {k}
  BY <1>5, <1>6 DEF RowOf
<1>8. rows' = [rows EXCEPT ![k].st = s]
  <2>1. (CHOOSE i \in RowOf(p) : \A j \in RowOf(p) : i <= j) = k
    <3>1. k <= k
      BY LenProperties DEF LInv, Lists
    <3> QED
      BY <1>7, <3>1
  <2> QED
    BY <1>2, <1>7, <2>1 DEF WithRow
<1> DEFINE F == [i \in DOMAIN rows |-> IF i = k THEN s ELSE rows[i].st]
<1>9. F \in [DOMAIN rows -> States]
  BY <1>3, <1>5 DEF Rows
<1>10. rows' = [i \in DOMAIN rows |-> [path |-> rows[i].path, st |-> F[i]]]
  <2>1. \A i \in DOMAIN rows : rows[i] = [path |-> rows[i].path, st |-> rows[i].st]
    BY <1>5 DEF Rows
  <2>2. \A i \in DOMAIN rows :
          rows'[i] = IF i = k THEN [rows[k] EXCEPT !.st = s] ELSE rows[i]
    BY <1>8
  <2>3. \A i \in DOMAIN rows : rows'[i] = [path |-> rows[i].path, st |-> F[i]]
    BY <2>1, <2>2
  <2>4. rows' = [i \in DOMAIN rows |-> rows'[i]]
    BY <1>8
  <2> HIDE DEF F
  <2> QED
    BY <2>3, <2>4
<1>11. \A i \in DOMAIN rows : F[i] = IF i = k THEN s ELSE rows[i].st
  OBVIOUS
<1> HIDE DEF F
<1>12. /\ rows' \in Seq(Rows) /\ RowsMirrorQueue' /\ DOMAIN rows' = DOMAIN rows
       /\ \A i \in DOMAIN rows : rows'[i].path = rows[i].path /\ rows'[i].st = F[i]
  BY <1>1, <1>9, <1>10, Restated DEF LInv
<1>13. \A i \in DOMAIN rows : i # k => rows[i].path # p
  BY <1>5, <1>6
<1>14. /\ Matches(rows, failed) /\ failed \subseteq Range(queue)
  BY DEF LInv, Lists
<1>15. /\ s = "failed" => p \in failed'
       /\ s = "done" => p \notin failed'
       /\ \A q : q # p => (q \in failed' <=> q \in failed)
       /\ failed' \subseteq failed \union {p}
  BY <1>2 DEF FailedAfter
<1>16. Matches(rows', failed')
  <2> SUFFICES ASSUME NEW i \in DOMAIN rows
               PROVE  /\ F[i] = "failed" => rows[i].path \in failed'
                      /\ F[i] = "done" => rows[i].path \notin failed'
    BY <1>12 DEF Matches
  <2>1. CASE i = k
    BY <1>6, <1>11, <1>15, <2>1
  <2>2. CASE i # k
    BY <1>11, <1>13, <1>14, <1>15, <2>2 DEF Matches
  <2> QED
    BY <2>1, <2>2
<1>17. Lists'
  BY <1>1, <1>4, <1>12, <1>14, <1>15, <1>16 DEF LInv, Lists
<1>18. RetryOK'
  <2> SUFFICES ASSUME thread.retry # {} PROVE RetryOK'
    BY <1>1 DEF RetryOK
  <2>1. /\ thread.retry \subseteq Range(queue) /\ DOMAIN thread.left \subseteq thread.retry
        /\ \A i \in DOMAIN rows : rows[i].st = "failed" => rows[i].path \in thread.retry
    BY <1>4 DEF RetryOK
  <2>2. \A i \in DOMAIN rows : F[i] = "failed" => rows[i].path \in thread.retry
    BY <1>3, <1>6, <1>11, <2>1
  <2> QED
    BY <1>1, <1>12, <2>1, <2>2 DEF RetryOK
<1>19. FilesOK' /\ OfRun'
  BY <1>1, <1>18 DEF LInv, FilesOK, OfRun
<1> QED
  BY <1>17, <1>19 DEF LInv

\* The end of a run; a retry that ends with an error failed for all of its files.
LEMMA ShowEndKeeps ==
  ASSUME IInv, LInv, RunPost, ShowEnd(Head(posts))
  PROVE  LInv'
<1> DEFINE m == Head(posts)
<1>1. /\ ui = "open" /\ running = TRUE /\ UNCHANGED <<queue, drag, thread, ui>>
      /\ m \in Items \union EndsOfRun /\ OfThread(m)
  BY OneLess
<1>2. m.kind = "end" /\ running' = FALSE
  BY DEF ShowEnd
<1>3. m.retry = thread.retry /\ RetryOK
  BY <1>1, <1>2 DEF OfThread, LInv, OfRun
<1>4. FilesOK' /\ OfRun'
  BY <1>1, <1>2 DEF LInv, FilesOK, OfRun
<1>5. CASE m.error /\ m.retry # {}
  <2> DEFINE F == [i \in DOMAIN rows |->
                     IF rows[i].path \in m.retry THEN "failed" ELSE rows[i].st]
  <2>1. /\ failed' = m.retry
        /\ rows' = [i \in DOMAIN rows |-> IF rows[i].path \in m.retry
                      THEN [rows[i] EXCEPT !.st = "failed"] ELSE rows[i]]
    BY <1>5 DEF ShowEnd
  <2>2. \A i \in DOMAIN rows : rows[i] \in Rows
    BY Mirror DEF LInv
  <2>3. F \in [DOMAIN rows -> States]
    BY <2>2 DEF Rows, States
  <2>4. rows' = [i \in DOMAIN rows |-> [path |-> rows[i].path, st |-> F[i]]]
    <3>1. \A i \in DOMAIN rows : rows[i] = [path |-> rows[i].path, st |-> rows[i].st]
      BY <2>2 DEF Rows
    <3>2. \A i \in DOMAIN rows :
            (IF rows[i].path \in m.retry THEN [rows[i] EXCEPT !.st = "failed"] ELSE rows[i])
              = [path |-> rows[i].path, st |-> F[i]]
      BY <3>1
    <3> HIDE DEF F, m
    <3> QED
      BY <2>1, <3>2
  <2>5. \A i \in DOMAIN rows :
          F[i] = IF rows[i].path \in m.retry THEN "failed" ELSE rows[i].st
    OBVIOUS
  <2> HIDE DEF F, m
  <2>6. /\ rows' \in Seq(Rows) /\ RowsMirrorQueue' /\ DOMAIN rows' = DOMAIN rows
        /\ \A i \in DOMAIN rows : rows'[i].path = rows[i].path /\ rows'[i].st = F[i]
    BY <1>1, <2>3, <2>4, Restated DEF LInv
  <2>7. /\ m.retry \subseteq Range(queue)
        /\ \A i \in DOMAIN rows : rows[i].st = "failed" => rows[i].path \in m.retry
    BY <1>3, <1>5 DEF RetryOK
  <2>8. Matches(rows', failed')
    BY <2>1, <2>5, <2>6, <2>7 DEF Matches
  <2>9. Lists'
    BY <1>1, <2>1, <2>6, <2>7, <2>8 DEF LInv, Lists
  <2> QED
    BY <1>4, <2>9 DEF LInv
<1>6. CASE ~(m.error /\ m.retry # {})
  <2>1. UNCHANGED <<rows, failed>>
    BY <1>6 DEF ShowEnd
  <2>2. Lists'
    BY <1>1, <2>1 DEF LInv, Lists, RowsMirrorQueue
  <2> QED
    BY <1>4, <2>2 DEF LInv
<1> QED
  BY <1>5, <1>6

LEMMA ListsKept == IInv /\ LInv /\ [Next]_vars => LInv'
<1> SUFFICES ASSUME IInv, LInv, [Next]_vars PROVE LInv'
  OBVIOUS
<1>1. CASE User
  <2>1. \A pick \in Picks : Found(pick) \in Seq(Paths)
    BY LinuxAssumption, EmptySeq DEF Found
  <2>2. CASE \E pick \in Picks : BrowseInput(pick)
    BY <2>1, <2>2, AddKeeps DEF BrowseInput
  <2>3. CASE \E pick, next \in Picks : DropInput(pick, next)
    <3>1. PICK pick \in Picks, next \in Picks : Add(Found(pick) \o Found(next))
      BY <2>3 DEF DropInput
    <3>2. Found(pick) \o Found(next) \in Seq(Paths)
      BY <2>1, ConcatProperties
    <3> QED
      BY <3>1, <3>2, AddKeeps
  <2>4. CASE ClearTasks \/ (\E i \in DOMAIN queue : DragFrom(i))
             \/ (\E slot \in 1 .. Len(queue) + 1 : Drop(slot))
    BY <2>4, ClearKeeps, DragKeeps, DropKeeps
  <2>5. CASE StartConversion \/ RetryFailed \/ StopConversion \/ CloseWindow
    BY <2>5, StartKeeps, RetryKeeps, QuietlyKeeps
  <2> QED
    BY <1>1, <2>2, <2>3, <2>4, <2>5 DEF User
<1>2. CASE Engine
  BY <1>2, FileKeeps, QuietlyKeeps, EndPosted DEF Engine
<1>3. CASE Fails
  BY <1>3, FileKeeps, QuietlyKeeps DEF Fails
<1>4. CASE RunPost
  <2>1. ShowItem(Head(posts)) \/ ShowEnd(Head(posts))
    BY <1>4 DEF RunPost
  <2> QED
    BY <1>4, <2>1, ShowItemKeeps, ShowEndKeeps
<1>5. CASE Exit
  BY <1>5, QuietlyKeeps
<1>6. CASE Exited \/ UNCHANGED vars
  <2>1. UNCHANGED <<queue, rows, failed, running, drag, thread, posts, ui>>
    BY <1>6 DEF Exited, vars, queueVars
  <2> QED
    BY <2>1 DEF LInv, Lists, RowsMirrorQueue, FilesOK, OfRun, OfThread, RetryOK
<1> QED
  BY <1>1, <1>2, <1>3, <1>4, <1>5, <1>6 DEF Next

-----------------------------------------------------------------------------
(* What follows from the invariants. *)

\* A queue without repeated keys has as many keys as files.
LEMMA KeysCount ==
  ASSUME NEW q \in Seq(Paths), Distinct(q)
  PROVE  Cardinality({Key[q[i]] : i \in DOMAIN q}) = Len(q)
<1> DEFINE n == Len(q)
           K == {Key[q[i]] : i \in DOMAIN q}
           f == [i \in 1 .. n |-> Key[q[i]]]
<1>1. n \in Nat /\ DOMAIN q = 1 .. n
  BY LenProperties
<1>2. /\ f \in [1 .. n -> K] /\ (\A i, j \in 1 .. n : f[i] = f[j] => i = j)
      /\ \A k \in K : \E i \in 1 .. n : f[i] = k
  BY <1>1 DEF Distinct
<1> HIDE DEF f, K, n
<1>3. f \in Injection(1 .. n, K) /\ f \in Surjection(1 .. n, K)
  BY <1>2, Fun_IsInj, Fun_IsSurj
<1>4. IsFiniteSet(1 .. n) /\ Cardinality(1 .. n) = n
  <2>1. 1 \in Int /\ n \in Int /\ (IF 1 > n THEN 0 ELSE n - 1 + 1) = n
    BY <1>1
  <2> QED
    BY <2>1, FS_Interval
<1>5. Cardinality(K) = n
  BY <1>3, <1>4, FS_Surjection
<1> QED
  BY <1>5 DEF K, n

LEMMA Agree == IInv /\ LInv => TypeOK /\ RowsMirrorQueue /\ FailedCanBeRetried
<1> SUFFICES ASSUME IInv, LInv PROVE TypeOK /\ RowsMirrorQueue /\ FailedCanBeRetried
  OBVIOUS
<1>1. Cardinality({Key[queue[i]] : i \in DOMAIN queue}) = Len(queue)
  BY KeysCount DEF LInv, Lists
<1>2. TypeOK
  BY <1>1 DEF IInv, ThreadOK, Working, LInv, Lists, FilesOK, Rows, TypeOK
<1>3. FailedCanBeRetried
  <2> SUFFICES ASSUME NEW i \in WithState("failed")
               PROVE  rows[i].path \in failed /\ InQueue(queue, rows[i].path)
    BY DEF FailedCanBeRetried
  <2>1. i \in DOMAIN rows /\ rows[i].st = "failed"
    BY DEF WithState
  <2>2. i \in DOMAIN queue /\ rows[i].path = queue[i]
    BY <2>1, Mirror DEF LInv
  <2> QED
    BY <2>1, <2>2 DEF LInv, Lists, Matches, InQueue
<1> QED
  BY <1>2, <1>3 DEF LInv, Lists

\* Only a retry starts a run with files to retry.
LEMMA RetryTakes ==
  ASSUME IInv, LInv, [Next]_vars, runs' # runs, thread'.retry # {}
  PROVE  /\ \A i \in WithState("failed") : rows[i].path \in DOMAIN thread'.left
         /\ \A i \in WithState("done") : rows[i].path \notin DOMAIN thread'.left
<1>1. StartConversion \/ RetryFailed
  BY DEF Next, User, Engine, Fails, BrowseInput, DropInput, Add, ClearTasks, DragFrom, Drop,
         StopConversion, CloseWindow, ItemStarts, ItemRejected, ItemFinishes, ItemLost, BatchReturns,
         RemoveManifest, PostEnd, RunPost, Exit, Exited, vars, RetryFailed, StartConversion
<1>2. ~StartConversion
  BY DEF StartConversion, Launch
<1>3. DOMAIN thread'.left = failed
  BY <1>1, <1>2, RetryStarts
<1> QED
  BY <1>3 DEF LInv, Lists, Matches, WithState

\* The queue, its rows and the failed files agree in every state: the rows show the
\* files of the queue in its order, none is there twice, and a failure that is shown
\* can be retried.  A retry takes every file that shows a failure and none that shows a
\* conversion, whatever was added, dragged or converted since the failure.
THEOREM RetriesAreExact == Spec => RetryExact
<1>1. Spec => [](IInv /\ LInv)
  <2>1. IInv /\ LInv /\ [Next]_vars => (IInv /\ LInv)'
    BY Kept, ListsKept
  <2> QED
    BY <2>1, Starts, ListsStart, PTL DEF Spec
<1>2. IInv /\ LInv /\ [Next]_vars =>
        [runs' # runs /\ thread'.retry # {} =>
          /\ \A i \in WithState("failed") : rows[i].path \in DOMAIN thread'.left
          /\ \A i \in WithState("done") : rows[i].path \notin DOMAIN thread'.left]_vars
  BY RetryTakes
<1> QED
  BY <1>1, <1>2, Agree, PTL DEF Spec, RetryExact, RetryIsExact
=============================================================================

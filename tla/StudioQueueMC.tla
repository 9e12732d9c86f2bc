---- MODULE StudioQueueMC ----
(* A small file system for the Studio: two images, one of them reachable as *)
(* a file and through a folder, and the entries an import leaves out.       *)
EXTENDS StudioQueue

Leaf(kind, key) == [kind |-> kind, key |-> key, kids |-> <<>>]

MCTree == [a |-> Leaf("image", 1), A |-> Leaf("image", 1), b |-> Leaf("image", 2),
           x |-> Leaf("gone", 3), n |-> Leaf("odd", 4), l |-> Leaf("link", 5),
           d |-> [kind |-> "dir", key |-> 6, kids |-> <<"A", "s", "l", "n">>],
           s |-> [kind |-> "dir", key |-> 7, kids |-> <<"b", "x">>]]

MCRequests == {<<"l", "a", "d">>}
MCPicks == {<<"d">>}
====

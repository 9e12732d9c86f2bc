---------------------------- MODULE AtomicPublish ----------------------------
(* What the program promises about every file it publishes (converted images,
   summary.csv): whoever looks at the path finds nothing, a file of somebody
   else, or one writer's complete file, and the change from one to the other is
   a single step.  Abstract specification of OutputCommit. *)
CONSTANTS Writers, NoFile, Foreign

VARIABLES replace,   \* an existing file may be replaced
          content,   \* what the path shows
          durable,   \* what it will show after a power loss
          verdict    \* what became of each writer's attempt

vars == <<replace, content, durable, verdict>>

Whole == Writers \cup {NoFile, Foreign}

TypeOK ==
  /\ replace \in BOOLEAN
  /\ content \in Whole
  /\ durable \in Whole
  /\ verdict \in [Writers -> {"pending", "published", "refused", "killed"}]

Init ==
  /\ replace \in BOOLEAN
  /\ content \in {NoFile, Foreign}
  /\ durable = content
  /\ verdict = [w \in Writers |-> "pending"]

\* The file appears under the path at once; a write-through medium keeps it.
Publish(w) ==
  /\ verdict[w] = "pending"
  /\ replace \/ content = NoFile
  /\ content' = w
  /\ durable' \in {durable, w}
  /\ verdict' = [verdict EXCEPT ![w] = "published"]
  /\ UNCHANGED replace

\* A failed or canceled attempt leaves the path alone.
Refuse(w) ==
  /\ verdict[w] = "pending"
  /\ verdict' = [verdict EXCEPT ![w] = "refused"]
  /\ UNCHANGED <<replace, content, durable>>

\* The writer's process is killed.
Kill(w) ==
  /\ verdict[w] \in {"pending", "published"}
  /\ verdict' = [verdict EXCEPT ![w] = "killed"]
  /\ UNCHANGED <<replace, content, durable>>

\* The path's entry reaches the disk.
Persist ==
  /\ durable' = content
  /\ UNCHANGED <<replace, content, verdict>>

\* After a power loss the path shows its durable content; running writers died.
PowerLoss ==
  /\ content' = durable
  /\ \E dead \in SUBSET {w \in Writers : verdict[w] \in {"pending", "published"}} :
       verdict' = [w \in Writers |-> IF w \in dead THEN "killed" ELSE verdict[w]]
  /\ UNCHANGED <<replace, durable>>

\* Another program creates the file.
ForeignCreate ==
  /\ content = NoFile
  /\ content' = Foreign
  /\ UNCHANGED <<replace, durable, verdict>>

Next ==
  \/ \E w \in Writers : Publish(w) \/ Refuse(w) \/ Kill(w)
  \/ Persist \/ PowerLoss \/ ForeignCreate

Spec == Init /\ [][Next]_vars
=============================================================================

------------------------------ MODULE ShellMenu ------------------------------
(***************************************************************************)
(* The context menu in the registry: a shared tree of commands, and parent *)
(* keys that point to it.  A menu is installed call by call: every key the *)
(* program may ever have owned is deleted, then the keys of the schema are *)
(* created and then their values written.  A call that fails ends the      *)
(* installation and what was written is deleted again.                     *)
(***************************************************************************)
EXTENDS Integers, Sequences, SequencesExt, FiniteSets

CONSTANTS
  Exts,       \* extensions the menu supports
  Params,     \* parameters of the commands
  WithSuffix, \* those of them that ask for the AVIF.png command
  Paths       \* where the program may be

\* Keys: the shared tree and what is below it, the parents, and keys only
\* older versions created.  A command stands for its verb and its command key.
Commands == {"png", "avif-png"}
Below == {"shell", "stray"} \union Commands
Legacy == {"legacy"}
NoParent == {"icofile"}
Parents == {"image", "directory"} \union Exts
OwnedRoots == <<"legacy", "shared", "directory">> \o SetToSeq(Exts) \o <<"image", "icofile">>
Keys == Range(OwnedRoots) \union Below

ASSUME MenuAssumption ==
  /\ IsFiniteSet(Exts) /\ WithSuffix \subseteq Params
  /\ Exts \intersect ({"shared", "image", "directory"} \union Below \union Legacy \union NoParent) = {}

VARIABLES
  reg,       \* key -> what it holds
  fallback,  \* extensions the system does not perceive as images
  exe,       \* where the program is
  op         \* the operation that runs, or NoOp

\* What a key holds: nothing (it does not exist), no value, only some of its
\* values, a value nobody expects, its owner marks, or a command line.
Absent == [is |-> "absent"]
Empty == [is |-> "empty"]
Part == [is |-> "part"]
Odd == [is |-> "odd"]
Marked(at) == [is |-> "marked", at |-> at]
CommandLine(at, p) == [is |-> "command", at |-> at, params |-> p]
Contents == {Absent, Empty, Part, Odd} \union {Marked(x) : x \in Paths}
              \union {CommandLine(x, p) : x \in Paths, p \in Params}

NoOp == [kind |-> "none"]

----------------------------------------------------------------------------
(* The schema. *)

\* build_convert_command_line for one command, where it is installed at all.
Command(c, p, at) ==
  IF c = "avif-png" /\ p \notin WithSuffix THEN Absent ELSE CommandLine(at, p)

\* build_registry_schema: what every key should hold.
Schema(p, plan, at) ==
  [k \in Keys |->
    CASE k \in Commands -> Command(k, p, at)
      [] k = "shared" -> Marked(at)
      [] k = "shell" -> Empty
      [] k \in {"image", "directory"} \union plan -> Marked(at)
      [] OTHER -> Absent]

\* The keys in the order they are created: the tree before what points to it, the
\* parents sorted by their paths.
SchemaKeys(p, plan, at) ==
  SelectSeq(<<"shared", "shell", "png", "avif-png", "directory">> \o SetToSeq(Exts) \o <<"image">>,
            LAMBDA k : Schema(p, plan, at)[k] # Absent)
\* ... and those of them that have values.
SchemaValues(p, plan, at) ==
  SelectSeq(SchemaKeys(p, plan, at), LAMBDA k : Schema(p, plan, at)[k] # Empty)

Exists(k) == reg[k] # Absent
AnyOwned == \E k \in Range(OwnedRoots) : Exists(k)

\* Mutant: the children of the keys are not compared.
WarnsOfValues(p, plan, at) ==
  AnyOwned /\
    \/ \E k \in Legacy : Exists(k)
    \/ \E k \in Keys \ {"stray"} : Schema(p, plan, at)[k] # reg[k]

\* The checks of warning(), in its order: an old menu; a key that is missing;
\* a value that is wrong; values or children that are not expected; parents
\* that are not those of this plan; the key no plan has.
Warns(p, plan, at) ==
  LET schema == Schema(p, plan, at)
      mine == {k \in Keys : schema[k] # Absent}
  IN AnyOwned /\
       \/ \E k \in Legacy : Exists(k)
       \/ \E k \in mine : ~Exists(k)
       \/ \E k \in mine : schema[k] # Empty /\ reg[k] # schema[k]
       \/ \E k \in mine : schema[k] = Empty /\ reg[k] # Empty
       \/ \E k \in Below \ mine : Exists(k)
       \/ \E k \in Parents : Exists(k) # (k \in mine)
       \/ \E k \in NoParent : Exists(k)

----------------------------------------------------------------------------
(* The calls. *)

\* delete_tree: what is below the shared tree goes with it.
Deleted(root) ==
  [k \in Keys |-> IF k = root \/ (root = "shared" /\ k \in Below) THEN Absent ELSE reg[k]]

\* A tree that cannot be deleted may have lost some of what is below it, a key only
\* after the keys below itself.
DeleteFails(root) ==
  {[k \in Keys |-> IF k \in lost THEN Absent ELSE reg[k]] :
     lost \in {l \in SUBSET Below : /\ l # {} => root = "shared"
                                    /\ "shell" \in l => Commands \subseteq l}}

\* create_key opens the key if it exists, and creates what is above it.
Created(k) == [reg EXCEPT ![k] = IF @ = Absent THEN Empty ELSE @]

\* Setting the values of a key one after another; each call creates the key.
Begun(k) == [reg EXCEPT ![k] = Part]
Written(k, content) == [reg EXCEPT ![k] = content]

\* install detects its plan first; both operations clean first.
InstallOp(p) ==
  [kind |-> "install", phase |-> "clean", at |-> 1, failed |-> FALSE,
   params |-> p, plan |-> fallback, exe |-> exe]
RemoveOp(p) == [InstallOp(p) EXCEPT !.kind = "remove"]

\* The end of an operation: what it returns.
Ends(ok) == op' = [kind |-> "ended", ok |-> ok, was |-> op]

\* cleanup_owned_roots goes on after a root it cannot delete.
Clean(fails) ==
  /\ op.kind \in {"install", "remove"} /\ op.phase \in {"clean", "rollback"}
  /\ op.at <= Len(OwnedRoots)
  /\ IF fails THEN reg' \in DeleteFails(OwnedRoots[op.at])
     ELSE reg' = Deleted(OwnedRoots[op.at])
  /\ op' = [op EXCEPT !.at = @ + 1, !.failed = @ \/ fails]

\* After the cleaning an installation writes its schema, unless a root is left.
Cleaned ==
  /\ op.kind \in {"install", "remove"} /\ op.phase = "clean" /\ op.at > Len(OwnedRoots)
  /\ IF op.failed \/ op.kind = "remove" THEN Ends(~op.failed)
     ELSE op' = [op EXCEPT !.phase = "create", !.at = 1]
  /\ UNCHANGED reg

\* apply_schema: all keys, then the values; the first failure rolls back.
RollBack == op' = [op EXCEPT !.phase = "rollback", !.at = 1]

Apply(fails) ==
  LET keys == SchemaKeys(op.params, op.plan, op.exe)
      values == SchemaValues(op.params, op.plan, op.exe)
      schema == Schema(op.params, op.plan, op.exe)
  IN /\ op.kind = "install" /\ op.phase \in {"create", "write"}
     /\ \/ /\ op.phase = "create" /\ op.at <= Len(keys)
           /\ IF fails THEN RollBack /\ UNCHANGED reg
              ELSE reg' = Created(keys[op.at]) /\ op' = [op EXCEPT !.at = @ + 1]
        \/ /\ op.phase = "create" /\ op.at > Len(keys) /\ ~fails
           /\ op' = [op EXCEPT !.phase = "write", !.at = 1] /\ UNCHANGED reg
        \/ /\ op.phase = "write" /\ op.at <= Len(values)
           /\ IF fails THEN RollBack /\ reg' \in {reg, Begun(values[op.at])}
              ELSE /\ reg' = Written(values[op.at], schema[values[op.at]])
                   /\ op' = [op EXCEPT !.at = @ + 1]

Applied ==
  /\ op.kind = "install" /\ op.phase = "write"
  /\ op.at > Len(SchemaValues(op.params, op.plan, op.exe))
  /\ Ends(TRUE) /\ UNCHANGED reg

\* Mutant: what was written stays.
RolledBackNothing ==
  /\ op.kind = "install" /\ op.phase = "rollback"
  /\ Ends(FALSE) /\ UNCHANGED reg

RolledBack ==
  /\ op.kind = "install" /\ op.phase = "rollback" /\ op.at > Len(OwnedRoots)
  /\ Ends(FALSE) /\ UNCHANGED reg
==============================================================================

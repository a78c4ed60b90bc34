------------------------------ MODULE ToolAccess ------------------------------
(***************************************************************************)
(* The resource accesses a tool call declares and when two declarations    *)
(* conflict (loop/tool-access.ts).                                         *)
(*                                                                         *)
(* A path is the sequence of names between its runs of slashes, forward or *)
(* backward: what normalizePath's replacements and its dropped trailing    *)
(* slash leave to tell apart.  The root is the empty sequence.             *)
(***************************************************************************)
EXTENDS Sequences, Naturals

CONSTANTS Name,   \* the names paths are made of, as tools spell them
          Fold    \* toLowerCase: the spelling each name is compared by

ASSUME FoldAssumption == Fold \in [Name -> Name]

Path == Seq(Name)

Operation == {"read", "write", "readwrite", "search"}

FileAccess == [kind : {"file"}, operation : Operation,
               path : Path, recursive : BOOLEAN]

\* The access that stands for arbitrary side effects: exclusive with anything.
AccessAll == [kind |-> "all"]

Access == FileAccess \cup {AccessAll}

FileAt(op, p, rec) ==
  [kind |-> "file", operation |-> op, path |-> p, recursive |-> rec]
-----------------------------------------------------------------------------
OperationWrites(op) == op \in {"write", "readwrite"}

OperationsConflict(left, right) ==
  OperationWrites(left) \/ OperationWrites(right)

NormalizePath(path) == [i \in DOMAIN path |-> Fold[path[i]]]

\* left is right or one of its ancestors, both in normal form.
AtOrAbove(left, right) ==
  /\ Len(left) <= Len(right)
  /\ \A i \in 1 .. Len(left) : left[i] = right[i]

\* Mutant: only the left tree is looked into.
OverlapOneWay(left, right) ==
  LET l == NormalizePath(left.path)
      r == NormalizePath(right.path)
  IN  l = r \/ (left.recursive /\ AtOrAbove(l, r))

AccessesOverlap(left, right) ==
  LET l == NormalizePath(left.path)
      r == NormalizePath(right.path)
  IN  \/ l = r
      \/ left.recursive /\ AtOrAbove(l, r)
      \/ right.recursive /\ AtOrAbove(r, l)

AccessConflict(left, right) ==
  \/ left.kind = "all"
  \/ right.kind = "all"
  \/ /\ left.kind = "file" /\ right.kind = "file"
     /\ OperationsConflict(left.operation, right.operation)
     /\ AccessesOverlap(left, right)

\* Two declarations (sets of accesses) conflict when some pair does.
Conflict(left, right) ==
  \E a \in left : \E b \in right : AccessConflict(a, b)
=============================================================================

----------------------------- MODULE MCToolBatch -----------------------------
(* Constants for model checking ToolBatch.                                 *)
EXTENDS ToolBatch, TLC

MCSymmetry == Permutations(Key)

MCFold == [n \in {"A", "a", "b"} |-> IF n = "A" THEN "a" ELSE n]

\* Tree searches, which overlap each other, and writes below the tree, which
\* exclude the searches and one another in any spelling.
MCTreeAndWrite ==
  {{FileAt("search", <<>>, TRUE)}, {FileAt("write", <<"A">>, FALSE)}}

\* Tools with arbitrary side effects: every call waits for the one before.
MCAll == {{AccessAll}}
=============================================================================

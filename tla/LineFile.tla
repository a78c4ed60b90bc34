------------------------------ MODULE LineFile ------------------------------
(***************************************************************************)
(* A file of lines that a process appends to and that a later process      *)
(* reads back: the wire log of an agent and the event journal of a         *)
(* session.  The file is the sequence of its lines that end in a newline   *)
(* and a last line, if any, that does not.                                 *)
(***************************************************************************)
EXTENDS Integers, Sequences

CONSTANT Bad \* a line that does not parse

Empty == [lines |-> <<>>, tail |-> <<>>]

\* What a reader goes through: it takes a last line without newline as well, and skips
\* the lines that do not parse.
AllLines(f) == f.lines \o f.tail

\* The file after the lines s and the unfinished line t are written to its end: the
\* first of them goes on with the line that was there.
Put(f, s, t) ==
  LET joined(x) == IF f.tail = <<>> THEN x ELSE IF x = <<>> THEN f.tail ELSE <<Bad>>
  IN  IF s = <<>> THEN [f EXCEPT !.tail = joined(t)]
      ELSE [lines |-> f.lines \o joined(<<Head(s)>>) \o Tail(s), tail |-> t]

\* Writing s goes on with an unfinished line.
Glues(f, s) == f.tail # <<>> /\ s # <<>>

\* Every file that writing s may leave when it is interrupted.
Interrupted(f, s) ==
  UNION {{Put(f, SubSeq(s, 1, k), t) :
             t \in {<<>>} \cup (IF k < Len(s) THEN {<<Bad>>, <<s[k + 1]>>} ELSE {})}
         : k \in 0 .. Len(s)}

=============================================================================

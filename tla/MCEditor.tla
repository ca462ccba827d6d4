------------------------------- MODULE MCEditor -------------------------------
(***************************************************************************)
(* The full-screen editor on structured programs, with blocks to match and *)
(* to indent by, and on a numbered program with room for a line between    *)
(* its two.  Some programs meet two edits, the history's limit and         *)
(* failures on a wide screen, the others a screen that is narrower and     *)
(* lower than the program, and a second session.                           *)
(***************************************************************************)
EXTENDS ProgramEditor

Row(n, body) == [number |-> n, body |-> body]

Block == <<Row(1, <<"FOR">>), Row(2, <<" ", "NEXT">>)>>
Wrapped == <<Row(1, <<"a", "NEXT", "a">>), Row(3, <<"NEXT">>)>>

Sized(limit, room, mode, word, depth, edits, failures) ==
  [mode |-> mode, doc |-> <<Row(1, <<word>>)>>, limit |-> limit, room |-> room,
   columns |-> 8, visible |-> 8, depth |-> depth,
   edits |-> edits, faults |-> failures, sessions |-> 1]

Long(mode, word, depth, edits, failures) ==
  Sized(2, 2, mode, word, depth, edits, failures)

Narrow(mode, doc, room, columns) ==
  [mode |-> mode, doc |-> doc, limit |-> 3, room |-> room,
   columns |-> columns, visible |-> 2, depth |-> 2,
   edits |-> 1, faults |-> 0, sessions |-> 1]

Again(mode) ==
  [mode |-> mode, doc |-> <<>>, limit |-> 1, room |-> 1,
   columns |-> 8, visible |-> 8, depth |-> 0,
   edits |-> 1, faults |-> 1, sessions |-> 2]

MCPrograms ==
  {Sized(2, 1, "Structured", "FOR", 1, 2, 0), Sized(1, 2, "Structured", "FOR", 1, 2, 0),
   Sized(1, 2, "Classic", "a", 2, 2, 0),
   Long("Structured", "FOR", 2, 1, 1), Long("Classic", "a", 2, 1, 1),
   Narrow("Structured", Block, 2, 1), Narrow("Classic", Wrapped, 3, 2), Again("Classic")}

MCTypeable == {"NEXT"}
=============================================================================

-------------------------- MODULE MCProgramSession --------------------------
(* Instances of ProgramSession: three work file names (the live one, the   *)
(* next and an orphan), one user's file, two or three texts; the .cfg      *)
(* files choose the commands and one of these bounds.                      *)
EXTENDS ProgramSession

CONSTANTS w0, w1, w2

MCWorkSeq == <<w0, w1, w2>>

Bound(faults, recovery, crashes, stops, edits) ==
    [faults |-> faults, recovery |-> recovery, crashes |-> crashes,
     stops |-> stops, edits |-> edits]

(* A failing clean-up after a failing call, and a power loss.              *)
TwoFaultsOneCrash == {Bound(2, 0, 1, 0, 0), Bound(2, 0, 0, 1, 0)}

(* A misread recovery after a failing call, a power loss or none; and a    *)
(* change by a PC, over USB or with the machine switched off.              *)
Outsiders ==
    {Bound(1, 1, 0, 0, 0), Bound(0, 1, 1, 0, 0), Bound(0, 1, 0, 1, 0),
     Bound(0, 0, 0, 1, 1)}
=============================================================================

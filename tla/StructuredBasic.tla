-------------------------- MODULE StructuredBasic --------------------------
(***************************************************************************)
(* What a Structured program means, row by row, with no compiler and no    *)
(* jumps: the promise the compiled program is to keep.                     *)
(*                                                                         *)
(* Conditions, loop limits and CASE tests may come out either way.  at is  *)
(* the row control has reached and how it got there: "flow" from the row   *)
(* above, "test" when the branch before it was not taken, "after" when a   *)
(* function called from the row has returned.                              *)
(***************************************************************************)
EXTENDS BasicText

VARIABLES
    state,      \* "idle", "running", "done" or "aborted"
    text,       \* the program
    at,         \* [row, how]
    loops,      \* the FOR rows now running in this activation, outermost first
    calls       \* the callers: [row, loops]

vars == <<state, text, at, loops, calls>>

Nowhere == [row |-> 0, how |-> "flow"]

\* Control comes to row r, or to the first row from there that does anything.
Land(t, r) ==
    [row |-> Min({j \in r .. Len(t) + 1 : j = Len(t) + 1 \/ ~Silent(t, j)}), how |-> "flow"]

Go(r) == at' = Land(text, r) /\ UNCHANGED <<state, text>>
Keep == UNCHANGED <<loops, calls>>
After(i) == CloserOf(text, i) + 1       \* the row after the block row i opened

Init ==
    /\ state = "idle" /\ text = <<>> /\ at = Nowhere /\ loops = <<>> /\ calls = <<>>

Stop(how) ==
    /\ state' = how /\ at' = Nowhere /\ loops' = <<>> /\ calls' = <<>> /\ UNCHANGED text

Start ==
    /\ state # "running"
    /\ text' # <<>> /\ WellNested(text')
    /\ state' = "running" /\ at' = Land(text', 1) /\ loops' = <<>> /\ calls' = <<>>

\* The program is edited.
Clear == state # "running" /\ Init'

\* The branch after row j of block i is tried; ELSE and the end of an IF
\* need no trying.
Miss(i, j) ==
    LET b == NextBranch(text, i, j) IN
    IF Kind(text[b]) \in {"ELSE", "ENDIF"}
    THEN Go(b + 1)
    ELSE at' = [row |-> b, how |-> "test"] /\ UNCHANGED <<state, text>>

\* A dividing row reached from above ends the branch that was taken; the
\* first CASE of a SELECT is reached from above to be tried.
Tried(r) == at.how = "test" \/ (Kind(text[r]) \in {"CASE", "CASEELSE"} /\ FirstBranch(text, r))

For(r) ==
    \/ Go(r + 1) /\ loops' = Append(loops, r) /\ UNCHANGED calls
    \/ Go(After(r)) /\ Keep

NextRow(r) ==
    LET f == OpenerOf(text, r) IN
    /\ loops # <<>> /\ loops[Len(loops)] = f
    /\ \/ Go(f + 1) /\ Keep
       \/ Go(r + 1) /\ loops' = SubSeq(loops, 1, Len(loops) - 1) /\ UNCHANGED calls

ExitFor(r) ==
    LET f == Innermost(text, r, {"FOR"}) IN
    Go(After(f)) /\ loops' = SelectSeq(loops, LAMBDA l : l < f) /\ UNCHANGED calls

ExitDo(r) ==
    LET d == Innermost(text, r, {"DO", "DOWHILE"}) IN
    Go(After(d)) /\ loops' = SelectSeq(loops, LAMBDA l : l < d) /\ UNCHANGED calls

Branch(r) ==
    LET i == BlockOf(text, r) IN
    /\ Keep
    /\ \/ ~Tried(r) /\ Go(After(i))
       \/ Tried(r) /\ Go(r + 1)
       \/ Tried(r) /\ Kind(text[r]) \notin LastBranches /\ Miss(i, r)

Call(r, f) ==
    \/ /\ at.how = "flow"
       /\ Go(FunctionRow(text, f) + 1)
       /\ calls' = Append(calls, [row |-> r, loops |-> loops])
       /\ loops' = <<>>
    \/ at.how = "after" /\ Go(r + 1) /\ Keep

Return ==
    LET caller == calls[Len(calls)] IN
    /\ calls # <<>>
    /\ at' = [row |-> caller.row, how |-> "after"]
    /\ loops' = caller.loops
    /\ calls' = SubSeq(calls, 1, Len(calls) - 1)
    /\ UNCHANGED <<state, text>>

\* What statement s does at row r.
Does(s, r) ==
    \/ Kind(s) = "LET" /\ Go(r + 1) /\ Keep
    \/ Kind(s) = "END" /\ Stop("done")
    \/ Kind(s) = "FOR" /\ For(r)
    \/ Kind(s) = "NEXT" /\ NextRow(r)
    \/ Kind(s) \in {"WHILE", "DOWHILE"} /\ (Go(r + 1) \/ Go(After(r))) /\ Keep
    \/ Kind(s) \in {"WEND", "LOOP", "LOOPUNTIL"} /\ Go(OpenerOf(text, r)) /\ Keep
    \/ Kind(s) = "LOOPUNTIL" /\ Go(r + 1) /\ Keep
    \/ Kind(s) = "EXITFOR" /\ ExitFor(r)
    \/ Kind(s) = "EXITDO" /\ ExitDo(r)
    \/ Kind(s) = "IF" /\ (Go(r + 1) \/ Miss(r, r)) /\ Keep
    \/ Kind(s) \in {"ELSEIF", "ELSE", "CASE", "CASEELSE"} /\ Branch(r)
    \/ Kind(s) \in {"SELECT", "ENDSELECT"} /\ Go(r + 1) /\ Keep
    \/ Kind(s) = "FUNCTION" /\ Go(After(r)) /\ Keep
    \/ Kind(s) = "CALL" /\ Call(r, Arg(s))
    \/ Kind(s) = "RETURN" /\ Return

\* A single-line IF does one branch, or nothing when it has no ELSE.
DoesInline(branches, r) ==
    \/ \E b \in 1 .. Len(branches) : Does(branches[b], r)
    \/ Len(branches) = 1 /\ Go(r + 1) /\ Keep

Row ==
    /\ state = "running" /\ at.row \in 1 .. Len(text)
    /\ LET s == text[at.row] IN
       \/ Kind(s) # "THEN" /\ Does(s, at.row)
       \/ Kind(s) = "THEN" /\ DoesInline(Arg(s), at.row)

RunOut == state = "running" /\ at.row = Len(text) + 1 /\ Stop("done")

\* BREAK, a zero STEP, too many calls or loops, a function without RETURN.
Abort == state = "running" /\ Stop("aborted")

Next == Start \/ Clear \/ Row \/ RunOut \/ Abort

Spec == Init /\ [][Next]_vars
=============================================================================

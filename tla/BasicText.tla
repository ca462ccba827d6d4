----------------------------- MODULE BasicText -----------------------------
(***************************************************************************)
(* What a Structured program says, read from its rows alone.               *)
(*                                                                         *)
(* A statement is a pair <<kind, argument>>.  Nesting is read off the text *)
(* by counting openers and closers, so that nothing here depends on how    *)
(* the compiler keeps track of its open blocks: StructuredBasic gives the  *)
(* meaning of a program over these definitions, and BasicMachine compares  *)
(* what the compiler accepted and the machine executed against them.       *)
(***************************************************************************)
EXTENDS Integers, Sequences, FiniteSetsExt, TLC

Kind(s) == s[1]
Arg(s) == s[2]

\* Block statements, the kinds that may close each, and the rows that divide
\* a block.
Openers == {"FOR", "WHILE", "DO", "DOWHILE", "IF", "SELECT", "FUNCTION"}
ClosingKinds == {"NEXT", "WEND", "LOOP", "LOOPUNTIL", "ENDIF", "ENDSELECT", "ENDFUNCTION"}
Dividers == {"ELSEIF", "ELSE", "CASE", "CASEELSE"}

Closers(opener) ==
    CASE opener = "FOR" -> {"NEXT"}
      [] opener = "WHILE" -> {"WEND"}
      [] opener \in {"DO", "DOWHILE"} -> {"LOOP", "LOOPUNTIL"}
      [] opener = "IF" -> {"ENDIF"}
      [] opener = "SELECT" -> {"ENDSELECT"}
      [] opener = "FUNCTION" -> {"ENDFUNCTION"}

Divides(kind, opener) ==
    <<kind, opener>> \in {<<"ELSEIF", "IF">>, <<"ELSE", "IF">>,
                         <<"CASE", "SELECT">>, <<"CASEELSE", "SELECT">>}

LastBranches == {"ELSE", "CASEELSE"}

Opens(s) == Kind(s) \in Openers
Closes(s) == Kind(s) \in ClosingKinds

\* The number of blocks open after row i.
Depth(t, i) ==
    Cardinality({j \in 1 .. i : Opens(t[j])}) - Cardinality({j \in 1 .. i : Closes(t[j])})

\* The row that closes the block opened by row i, and the row that opened
\* the block row j closes.
CloserOf(t, i) == Min({j \in i + 1 .. Len(t) : Depth(t, j) = Depth(t, i) - 1})
OpenerOf(t, j) == Max({i \in 1 .. j - 1 : Opens(t[i]) /\ Depth(t, i) = Depth(t, j) + 1})

\* The innermost block of one of the kinds K around row r.
Around(t, r, K) == {i \in 1 .. r - 1 : Kind(t[i]) \in K /\ CloserOf(t, i) > r}
Innermost(t, r, K) == Max(Around(t, r, K))

\* The dividing rows of the block opened by row i; the block a dividing row
\* belongs to; and the next dividing row, or the closer, after row j of it.
Branches(t, i) ==
    {j \in i + 1 .. CloserOf(t, i) : Kind(t[j]) \in Dividers /\ Depth(t, j) = Depth(t, i)}
BlockOf(t, j) == Max({i \in 1 .. j - 1 : Opens(t[i]) /\ Depth(t, i) = Depth(t, j)})
NextBranch(t, i, j) == Min({b \in Branches(t, i) \cup {CloserOf(t, i)} : b > j})

FirstBranch(t, j) == j = Min(Branches(t, BlockOf(t, j)))
HasLastBranch(t, i) == \E j \in Branches(t, i) : Kind(t[j]) \in LastBranches

\* Rows that do nothing when the flow of control comes to them.
Silent(t, r) ==
    \/ Kind(t[r]) \in {"REM", "DO", "ENDIF"}
    \/ Kind(t[r]) = "ENDSELECT" /\ HasLastBranch(t, OpenerOf(t, r))

\* The row of the f-th FUNCTION.
FunctionRow(t, f) ==
    CHOOSE i \in 1 .. Len(t) :
        Kind(t[i]) = "FUNCTION" /\ Cardinality({j \in 1 .. i : Kind(t[j]) = "FUNCTION"}) = f

\* A single-line IF that opens, divides or closes a block in one of its branches.
Loose(t) ==
    \E i \in 1 .. Len(t) : Kind(t[i]) = "THEN" /\
        \E b \in 1 .. Len(Arg(t[i])) :
            Kind(Arg(t[i])[b]) \in Openers \cup Dividers \cup ClosingKinds

\* Every block is closed by a row of its own kind, functions stand alone,
\* and dividing rows lie directly inside a block they divide, ELSE and
\* CASE ELSE last.
WellNested(t) ==
    /\ \A i \in 1 .. Len(t) : Depth(t, i) >= 0
    /\ Depth(t, Len(t)) = 0
    /\ \A i \in 1 .. Len(t) : Opens(t[i]) =>
        /\ Kind(t[CloserOf(t, i)]) \in Closers(Kind(t[i]))
        /\ Kind(t[i]) = "FUNCTION" => Depth(t, i) = 1
        /\ \A j \in Branches(t, i) :
            /\ Divides(Kind(t[j]), Kind(t[i]))
            /\ Kind(t[j]) \in LastBranches => \A b \in Branches(t, i) : b <= j
    /\ \A j \in 1 .. Len(t) : Kind(t[j]) \in Dividers => Depth(t, j) > 0
=============================================================================

--------------------------- MODULE BasicCompiler ---------------------------
(***************************************************************************)
(* The control half of the BASIC compiler: how rows become jumps.          *)
(*                                                                         *)
(* A program is entered one row per step, in the order the compiler's      *)
(* second pass reads it; the first pass only collects FUNCTION signatures, *)
(* whose rules are checked here as the rows go by.  Expressions, PRINT and *)
(* the other statements without control flow are one statement, LET.  A    *)
(* statement operator returns the set of states the compiler can be in     *)
(* after it: empty when the statement is a compile error.                  *)
(*                                                                         *)
(* Positions are 1-based: the source's pc n is position n + 1, the next    *)
(* position is Len(code) + 1, and an unpatched -1 is 0.  The chains of     *)
(* jumps that the source threads through operands waiting to be patched    *)
(* are sets of positions.                                                  *)
(***************************************************************************)
EXTENDS BasicText, SequencesExt

CONSTANTS
    Profiles,       \* what programs are tried: [mode, statements, rows]
    MaxNesting,     \* open blocks of one kind (16 in the source)
    MaxCode         \* operations in a program (kMaxOps)

ASSUME NestingAssumption == MaxNesting \in Nat \ {0} /\ MaxCode \in Nat \ {0}

\* What may be entered: the rows that are statements, with their arguments.
StatementKinds ==
    {"LET", "END", "FOR", "NEXT", "WHILE", "WEND", "DO", "DOWHILE", "LOOP", "LOOPUNTIL",
     "EXITFOR", "EXITDO", "IF", "ELSEIF", "ELSE", "ENDIF", "SELECT", "CASE", "CASEELSE",
     "ENDSELECT", "RETURN", "CALL", "GOTO", "GOSUB", "ONGOTO", "ONGOSUB"}

IsStatement(s) ==
    /\ Kind(s) \in StatementKinds
    /\ Kind(s) \in {"FOR", "NEXT"} => Arg(s) \in STRING
    /\ Kind(s) = "CALL" => Arg(s) \in Nat \ {0}
    /\ Kind(s) \in {"GOTO", "GOSUB"} => Arg(s) \in Nat
    /\ Kind(s) \in {"ONGOTO", "ONGOSUB"} => Arg(s) \in Seq(Nat) \ {<<>>}
    /\ Kind(s) = "CASE" => Arg(s) \in Seq({"exact", "range"}) \ {<<>>}

IsRow(s) ==
    \/ Kind(s) \in {"REM", "FUNCTION", "ENDFUNCTION"}
    \/ Kind(s) = "THEN" /\ Len(Arg(s)) \in 1 .. 2 /\ \A b \in 1 .. Len(Arg(s)) : IsStatement(Arg(s)[b])
    \/ IsStatement(s)

ASSUME ProfileAssumption ==
    \A p \in Profiles :
        /\ p.mode \in {"Classic", "Structured"} /\ p.rows \in Nat
        /\ \A s \in p.statements : IsRow(s)

VARIABLES
    phase,          \* compiling, accepted, rejected, running, halted, failed
    profile,        \* what may still be entered
    text,           \* the rows read so far
    rows,           \* the position at which each row starts (source_rows, line_at)
    unit            \* CompiledProgram under construction with CompileControl

-----------------------------------------------------------------------------
(* Operations and the emitter *)

Op(name, target) == [op |-> name, a |-> target, b |-> 0, s |-> 0, v |-> ""]
OnSlot(name, v) == [Op(name, 0) EXCEPT !.v = v]

Expr(n) == Op("EXPR", n)            \* leaves n values on the operand stack
Store(n) == Op("STORE", n)          \* takes n of them

EmptyUnit(mode) ==
    [mode |-> mode, code |-> <<>>, size |-> 0, functions |-> <<>>, scope |-> 0,
     fors |-> <<>>, whiles |-> <<>>, dos |-> <<>>, ifs |-> <<>>, selects |-> <<>>]

Structured(u) == u.mode = "Structured"
Here(u) == Len(u.code) + 1

Emit(u, ops) == [u EXCEPT !.code = @ \o ops]

Patch(u, sites, target) ==
    [u EXCEPT !.code = [i \in DOMAIN u.code |->
        IF i \in sites THEN [u.code[i] EXCEPT !.a = target] ELSE u.code[i]]]

\* One resulting state if the guard holds, a compile error otherwise.
Provided(guard, result) == {u \in {result} : guard}

-----------------------------------------------------------------------------
(* CompileControl: the open blocks *)

Depths(u) ==
    [fors |-> Len(u.fors), whiles |-> Len(u.whiles), dos |-> Len(u.dos),
     ifs |-> Len(u.ifs), selects |-> Len(u.selects)]

Open(u) == Len(u.fors) + Len(u.whiles) + Len(u.dos) + Len(u.ifs) + Len(u.selects)

\* The block of this kind that opened at these depths is the innermost block.
AtBoundary(u, opening, stack) == Depths(u) = [opening EXCEPT ![stack] = @ + 1]

ClosableAnywhere(u, stack) == u[stack] # <<>>       \* mutant: blocks may cross

\* Classic programs may cross their loops; Structured ones may not.
Closable(u, stack) ==
    /\ u[stack] # <<>>
    /\ Structured(u) => AtBoundary(u, Last(u[stack]).opening, stack)

-----------------------------------------------------------------------------
(* Loops *)

\* A FOR variable is a local of the function unless it is declared GLOBAL.
LocalSlot(u, v) == u.scope > 0 /\ v # "G"
ForOp(u, v, local, global) == OnSlot(IF LocalSlot(u, v) THEN local ELSE global, v)

CompileFor(u, v) ==
    LET check == [ForOp(u, v, "FOR_LOCAL_CHECK", "FOR_CHECK") EXCEPT !.b = Here(u) + 4]
        ops == <<Expr(2), ForOp(u, v, "FOR_LOCAL_INIT", "FOR_INIT"), check, Op("JMP", 0)>>
        entry == [v |-> v, skip |-> Here(u) + 3, exits |-> {}, opening |-> Depths(u)]
    IN  Provided(Len(u.fors) < MaxNesting,
                 [Emit(u, ops) EXCEPT !.fors = Append(@, entry)])

CompileNext(u, v) ==
    LET entry == Last(u.fors)
        incr == [ForOp(u, entry.v, "FOR_LOCAL_INCR", "FOR_INCR") EXCEPT !.v = v]
        after == [Emit(u, <<incr>>) EXCEPT !.fors = Front(@)]
    IN  IF Closable(u, "fors") /\ v \in {"", entry.v}
        THEN {Patch(after, {entry.skip} \cup entry.exits, Here(after))}
        ELSE {}

CompileWhile(u) ==
    LET entry == [start |-> Here(u), jz |-> Here(u) + 1, opening |-> Depths(u)]
    IN  Provided(Len(u.whiles) < MaxNesting,
                 [Emit(u, <<Expr(1), Op("JZ", 0)>>) EXCEPT !.whiles = Append(@, entry)])

CompileWend(u) ==
    LET entry == Last(u.whiles)
        after == [Emit(u, <<Op("JMP", entry.start)>>) EXCEPT !.whiles = Front(@)]
    IN  IF Closable(u, "whiles") THEN {Patch(after, {entry.jz}, Here(after))} ELSE {}

CompileDo(u, while) ==
    LET entry == [start |-> Here(u), exit |-> IF while THEN {Here(u) + 1} ELSE {},
                  exits |-> {}, opening |-> Depths(u)]
        ops == IF while THEN <<Expr(1), Op("JZ", 0)>> ELSE <<>>
    IN  Provided(Len(u.dos) < MaxNesting,
                 [Emit(u, ops) EXCEPT !.dos = Append(@, entry)])

CompileLoop(u, until) ==
    LET entry == Last(u.dos)
        ops == IF until THEN <<Expr(1), Op("JZ", entry.start)>> ELSE <<Op("JMP", entry.start)>>
        after == [Emit(u, ops) EXCEPT !.dos = Front(@)]
    IN  IF Closable(u, "dos")
        THEN {Patch(after, entry.exit \cup entry.exits, Here(after))}
        ELSE {}

\* EXIT FOR discards one FOR frame, EXIT DO the frames of the loops opened
\* inside the DO; both record the depth the machine must find.
ExitLoop(u, discard) == [Op("EXIT_LOOP", 0) EXCEPT !.b = discard, !.s = Len(u.fors)]

AddExit(u, stack, discard) ==
    LET top == Len(u[stack])
    IN  [Emit(u, <<ExitLoop(u, discard)>>) EXCEPT ![stack][top].exits = @ \cup {Here(u)}]

CompileExitFor(u) ==
    IF Structured(u) /\ u.fors # <<>> THEN {AddExit(u, "fors", 1)} ELSE {}

CompileExitDoKeeping(u) ==          \* mutant: inner loops keep their frames
    IF Structured(u) /\ u.dos # <<>> THEN {AddExit(u, "dos", 0)} ELSE {}

CompileExitDo(u) ==
    IF Structured(u) /\ u.dos # <<>>
    THEN {AddExit(u, "dos", Len(u.fors) - Last(u.dos).opening.fors)}
    ELSE {}

-----------------------------------------------------------------------------
(* Block IF and SELECT CASE *)

\* IF with nothing after THEN: in Classic the branch is an empty statement.
CompileBlockIf(u) ==
    LET entry == [pending |-> Here(u) + 1, ends |-> {}, seenElse |-> FALSE, opening |-> Depths(u)]
    IN  IF Structured(u)
        THEN Provided(Len(u.ifs) < MaxNesting,
                      [Emit(u, <<Expr(1), Op("JZ", 0)>>) EXCEPT !.ifs = Append(@, entry)])
        ELSE {Emit(u, <<Expr(1), Op("JZ", Here(u) + 2)>>)}

\* ELSE and ELSEIF: end the branch above, and send its failed condition here.
CompileBranch(u, elseif) ==
    LET top == Len(u.ifs)
        entry == u.ifs[top]
        body == Patch(Emit(u, <<Op("JMP", 0)>>), {entry.pending}, Here(u) + 1)
        ended == [entry EXCEPT !.ends = @ \cup {Here(u)}, !.pending = 0]
        onElseIf == [Emit(body, <<Expr(1), Op("JZ", 0)>>)
                        EXCEPT !.ifs[top] = [ended EXCEPT !.pending = Here(u) + 2]]
        onElse == [body EXCEPT !.ifs[top] = [ended EXCEPT !.seenElse = TRUE]]
    IN  IF Structured(u) /\ top > 0 /\ Closable(u, "ifs") /\ ~entry.seenElse
        THEN {IF elseif THEN onElseIf ELSE onElse}
        ELSE {}

CompileEndIf(u) ==
    LET entry == Last(u.ifs)
    IN  IF Structured(u) /\ Closable(u, "ifs")
        THEN {Patch([u EXCEPT !.ifs = Front(@)], entry.ends \cup {entry.pending}, Here(u))}
        ELSE {}

CompileSelect(u) ==
    LET entry == [pending |-> 0, ends |-> {}, seenCase |-> FALSE, seenElse |-> FALSE,
                  opening |-> Depths(u)]
    IN  Provided(Structured(u) /\ Len(u.selects) < MaxNesting,
                 [Emit(u, <<Expr(1)>>) EXCEPT !.selects = Append(@, entry)])

\* The tests of one CASE row.  An exact literal takes four operations and a
\* range seven; a failed one goes on to the next literal, the last to the
\* JMP that leads to the next CASE, and a match to the DROP after that JMP.
TestLength(literal) == IF literal = "range" THEN 7 ELSE 4

LiteralTest(literal, fail, match) ==
    LET test == <<Op("DUP", 0), Op("TEST", 0), Op("JZ", fail)>>
    IN  (IF literal = "range" THEN test \o test ELSE test) \o <<Op("JMP", match)>>

\* startOf[i] is where the tests of the first i literals end.
CaseTests(at, literals) ==
    LET startOf[i \in 0 .. Len(literals)] ==
            IF i = 0 THEN at ELSE startOf[i - 1] + TestLength(literals[i])
        noMatch == startOf[Len(literals)]
        tests[i \in 0 .. Len(literals)] ==
            IF i = 0 THEN <<>>
            ELSE tests[i - 1] \o LiteralTest(literals[i], startOf[i], noMatch + 1)
    IN  tests[Len(literals)] \o <<Op("JMP", 0), Op("DROP", 0)>>

\* End the CASE above, and send its failed tests here.
EndCase(u) ==
    LET top == Len(u.selects)
        entry == u.selects[top]
        ended == Patch(Emit(u, <<Op("JMP", 0)>>), {entry.pending}, Here(u) + 1)
    IN  IF entry.seenCase
        THEN [ended EXCEPT !.selects[top] =
                 [entry EXCEPT !.ends = @ \cup {Here(u)}, !.pending = 0]]
        ELSE [u EXCEPT !.selects[top].seenCase = TRUE]

CompileCase(u, literals) ==
    LET top == Len(u.selects)
        above == EndCase(u)
        tests == Emit(above, CaseTests(Here(above), literals))
    IN  IF Closable(u, "selects") /\ ~u.selects[top].seenElse
        THEN {[tests EXCEPT !.selects[top].pending = Here(tests) - 2]}
        ELSE {}

CompileCaseElse(u) ==
    LET top == Len(u.selects)
        above == EndCase(u)
    IN  IF Closable(u, "selects") /\ ~u.selects[top].seenElse
        THEN {[Emit(above, <<Op("DROP", 0)>>) EXCEPT !.selects[top].seenElse = TRUE]}
        ELSE {}

CompileEndSelect(u) ==
    LET top == Len(u.selects)
        entry == u.selects[top]
        dropped == Patch(Emit(u, <<Op("JMP", 0), Op("DROP", 0)>>), {entry.pending}, Here(u) + 1)
        closed == IF entry.seenElse THEN u ELSE dropped
        ends == IF entry.seenElse THEN entry.ends ELSE entry.ends \cup {Here(u)}
    IN  IF Closable(u, "selects") /\ entry.seenCase
        THEN {[Patch(closed, ends, Here(closed)) EXCEPT !.selects = Front(@)]}
        ELSE {}

-----------------------------------------------------------------------------
(* Functions, calls and line branches *)

CompileFunction(u) ==
    LET header == Emit(u, <<Op("JMP", 0)>>)
        entry == [entry |-> Here(header), end |-> 0, hasReturn |-> FALSE]
    IN  Provided(Structured(u) /\ u.scope = 0 /\ Open(u) = 0,
                 [header EXCEPT !.functions = Append(@, entry), !.scope = Len(u.functions) + 1])

CompileEndFunction(u) ==
    LET f == u.functions[u.scope]
        body == Emit(u, <<Op("FUNCTION_FALLTHROUGH", 0)>>)
    IN  IF u.scope > 0 /\ Open(u) = 0 /\ f.hasReturn
        THEN {[Patch(body, {f.entry - 1}, Here(body))
                EXCEPT !.functions[u.scope].end = Here(body), !.scope = 0]}
        ELSE {}

CompileReturn(u) ==
    CASE ~Structured(u) -> {Emit(u, <<Op("RETSUB", 0)>>)}
      [] Structured(u) /\ u.scope > 0 ->
            {[Emit(u, <<Expr(1), Op("RETURN_USER", 0)>>)
                EXCEPT !.functions[u.scope].hasReturn = TRUE]}
      [] OTHER -> {}

\* A = B + F(C): an operand waits on the stack below the argument.
CompileCall(u, f) ==
    Provided(Structured(u), Emit(u, <<Expr(2), Op("CALL_USER", f), Store(2)>>))

\* b = 1 marks an operand that is still a line number.
LineJump(name, line) == [Op(name, line) EXCEPT !.b = 1]

CompileLineJump(u, name, line) ==
    Provided(~Structured(u), Emit(u, <<LineJump(name, line)>>))

\* ON n GOTO: the JMPs after the operation are its table of targets.
CompileOnBranch(u, name, lines) ==
    Provided(~Structured(u),
        Emit(u, <<Expr(1), Op(name, Len(lines))>>
                \o [k \in DOMAIN lines |-> LineJump("JMP", lines[k])]))

-----------------------------------------------------------------------------
(* Statements and rows *)

\* Between SELECT CASE and its first CASE nothing else may stand.
ExpectsCase(u) == Structured(u) /\ u.selects # <<>> /\ ~Last(u.selects).seenCase

CompileKind(s, u) ==
    LET k == Kind(s) arg == Arg(s) IN
    CASE k = "LET" -> {Emit(u, <<Expr(1), Store(1)>>)}
      [] k = "END" -> {Emit(u, <<Op("HALT", 0)>>)}
      [] k = "FOR" -> CompileFor(u, arg)
      [] k = "NEXT" -> CompileNext(u, arg)
      [] k = "WHILE" -> CompileWhile(u)
      [] k = "WEND" -> CompileWend(u)
      [] k = "DO" -> CompileDo(u, FALSE)
      [] k = "DOWHILE" -> CompileDo(u, TRUE)
      [] k = "LOOP" -> CompileLoop(u, FALSE)
      [] k = "LOOPUNTIL" -> CompileLoop(u, TRUE)
      [] k = "EXITFOR" -> CompileExitFor(u)
      [] k = "EXITDO" -> CompileExitDo(u)
      [] k = "IF" -> CompileBlockIf(u)
      [] k = "ELSEIF" -> CompileBranch(u, TRUE)
      [] k = "ELSE" -> CompileBranch(u, FALSE)
      [] k = "ENDIF" -> CompileEndIf(u)
      [] k = "SELECT" -> CompileSelect(u)
      [] k = "CASE" -> CompileCase(u, arg)
      [] k = "CASEELSE" -> CompileCaseElse(u)
      [] k = "ENDSELECT" -> CompileEndSelect(u)
      [] k = "RETURN" -> CompileReturn(u)
      [] k = "CALL" -> CompileCall(u, arg)
      [] k = "GOTO" -> CompileLineJump(u, "JMP", arg)
      [] k = "GOSUB" -> CompileLineJump(u, "GOSUB", arg)
      [] k = "ONGOTO" -> CompileOnBranch(u, "ON_GOTO", arg)
      [] k = "ONGOSUB" -> CompileOnBranch(u, "ON_GOSUB", arg)

CompileStatement(s, u) ==
    IF ExpectsCase(u) /\ Kind(s) \notin {"CASE", "CASEELSE", "ENDSELECT"}
    THEN {} ELSE CompileKind(s, u)

\* Single-line IF: a branch is any one statement, opening ones included.
CompileInlineIf(u, branches) ==
    LET jz == Here(u) + 1
        then == CompileStatement(branches[1], Emit(u, <<Expr(1), Op("JZ", 0)>>))
        otherwise(w) ==
            LET jump == Emit(w, <<Op("JMP", 0)>>)
            IN  {Patch(x, {Here(w)}, Here(x)) :
                    x \in CompileStatement(branches[2], Patch(jump, {jz}, Here(jump)))}
    IN  IF Len(branches) = 1
        THEN {Patch(w, {jz}, Here(w)) : w \in then}
        ELSE UNION {otherwise(w) : w \in then}

CompileRow(s, u) ==
    CASE Kind(s) = "REM" -> {u}
      [] Kind(s) = "FUNCTION" -> CompileFunction(u)
      [] Kind(s) = "ENDFUNCTION" -> CompileEndFunction(u)
      [] Kind(s) = "THEN" /\ ~ExpectsCase(u) -> CompileInlineIf(u, Arg(s))
      [] Kind(s) = "THEN" /\ ExpectsCase(u) -> {}
      [] OTHER -> CompileStatement(s, u)

-----------------------------------------------------------------------------
(* The end of the text *)

\* HALT ends the program unless the last operation already is one.
WithHalt(u) ==
    IF u.code # <<>> /\ Last(u.code).op = "HALT" THEN u ELSE Emit(u, <<Op("HALT", 0)>>)

LineTargets(u) == {u.code[i].a : i \in {j \in DOMAIN u.code : u.code[j].b = 1 /\
                                            u.code[j].op \in {"JMP", "GOSUB"}}}

Resolved(u, starts) ==
    [u EXCEPT !.code = [i \in DOMAIN u.code |->
        IF u.code[i].op \in {"JMP", "GOSUB"} /\ u.code[i].b = 1
        THEN [u.code[i] EXCEPT !.a = starts[u.code[i].a], !.b = 0]
        ELSE u.code[i]]]

\* The first pass has refused calls of functions the text does not define.
CallsKnown(u) ==
    \A i \in DOMAIN u.code : u.code[i].op = "CALL_USER" => u.code[i].a <= Len(u.functions)

Owner(u, n) == {f \in DOMAIN u.functions : u.functions[f].entry <= n /\ n < u.functions[f].end}

\* validate_compiled_program, over the operands this model keeps: every edge
\* stays inside the code and inside the function it starts in.
ValidEdge(u, from, to) == to \in DOMAIN u.code /\ Owner(u, from) = Owner(u, to)

ValidOperand(u, i) ==
    LET op == u.code[i] IN
    /\ op.op \in {"JMP", "JZ", "GOSUB", "EXIT_LOOP"} => ValidEdge(u, i, op.a)
    /\ op.op \in {"FOR_CHECK", "FOR_LOCAL_CHECK"} => ValidEdge(u, i, op.b)
    /\ op.op = "EXIT_LOOP" => Structured(u) /\ op.s <= MaxNesting /\ op.b \in 0 .. op.s
    /\ op.op \in {"ON_GOTO", "ON_GOSUB"} => op.a > 0 /\ i + op.a <= Len(u.code)
    /\ op.op = "CALL_USER" => op.a \in DOMAIN u.functions
    /\ op.op \in {"FOR_LOCAL_INIT", "FOR_LOCAL_CHECK", "FOR_LOCAL_INCR"} => Owner(u, i) # {}

ValidProgram(u) ==
    /\ \A f \in DOMAIN u.functions :
        /\ u.functions[f].entry < u.functions[f].end
        /\ u.functions[f].end <= Len(u.code) + 1
        /\ f > 1 => u.functions[f - 1].end <= u.functions[f].entry
    /\ \A i \in DOMAIN u.code : ValidOperand(u, i)

\* The positions the optimizer takes for flow entries (bit 2 of target): no
\* fused sequence may have one after its first operation.
Entries(u) ==
    LET marks(i) ==
            LET op == u.code[i] IN
            CASE op.op = "EXIT_LOOP" -> {i, op.a, i + 1}
              [] op.op \in {"JMP", "JZ", "GOSUB"} -> {op.a, i + 1}
              [] op.op \in {"FOR_CHECK", "FOR_LOCAL_CHECK"} -> {op.b, i, i + 1}
              [] op.op \in {"FOR_INIT", "FOR_LOCAL_INIT", "FOR_INCR", "FOR_LOCAL_INCR",
                             "CALL_USER", "RETURN_USER", "FUNCTION_FALLTHROUGH",
                             "RETSUB", "HALT"} -> {i, i + 1}
              [] op.op \in {"ON_GOTO", "ON_GOSUB"} -> {i, i + 1 + op.a}
              [] OTHER -> {}
    IN  ((UNION {marks(i) : i \in DOMAIN u.code}) \cup
            {u.functions[f].entry : f \in DOMAIN u.functions} \cup
            {u.functions[f].end : f \in DOMAIN u.functions}) \cap DOMAIN u.code

-----------------------------------------------------------------------------
(* compile_source *)

CompilerInit ==
    /\ phase = "compiling"
    /\ profile \in Profiles
    /\ text = <<>>
    /\ rows = <<>>
    /\ unit = EmptyUnit(profile.mode)

\* OutputGuard: a failed compilation leaves an empty program.
Reject ==
    /\ phase' = "rejected"
    /\ text' = <<>>
    /\ rows' = <<>>
    /\ unit' = EmptyUnit(profile.mode)
    /\ UNCHANGED profile

\* Bound: blocks that the rows still to come could not close are not opened.
WorthReading(u) == Open(u) + (IF u.scope > 0 THEN 1 ELSE 0) <= profile.rows - Len(text) - 1

ReadRow(s) ==
    /\ phase = "compiling"
    /\ Len(text) < profile.rows
    /\ \/ \E u \in CompileRow(s, unit) :
            /\ Len(u.code) <= MaxCode
            /\ WorthReading(u)
            /\ text' = Append(text, s)
            /\ rows' = Append(rows, Here(unit))
            /\ unit' = u
            /\ UNCHANGED <<phase, profile>>
       \/ /\ \A u \in CompileRow(s, unit) : Len(u.code) > MaxCode
          /\ Reject

FinishText ==
    /\ phase = "compiling"
    /\ text # <<>>
    /\ LET complete == WithHalt(unit)
           linked == Resolved(complete, rows)
           accepted ==
               /\ Open(unit) = 0 /\ unit.scope = 0
               /\ Len(complete.code) <= MaxCode
               /\ CallsKnown(unit)
               /\ LineTargets(complete) \subseteq DOMAIN rows
               /\ unit.functions # <<>> => ValidProgram(linked)
       IN  \/ /\ accepted
              /\ phase' = "accepted"
              /\ unit' = [linked EXCEPT !.size = Len(unit.code)]
              /\ UNCHANGED <<profile, text, rows>>
           \/ ~accepted /\ Reject

\* The text is edited: everything is compiled again from the first row.
Edit ==
    /\ phase \in {"accepted", "rejected", "halted", "failed"}
    /\ phase' = "compiling"
    /\ text' = <<>>
    /\ rows' = <<>>
    /\ unit' = EmptyUnit(profile.mode)
    /\ UNCHANGED profile

CompilerNext == (\E s \in profile.statements : ReadRow(s)) \/ FinishText \/ Edit
=============================================================================

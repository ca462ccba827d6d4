---------------------------- MODULE BasicMachine ----------------------------
(***************************************************************************)
(* The virtual machine's control flow over what BasicCompiler produced.    *)
(*                                                                         *)
(* One action per opcode family.  Values are abstracted: the operand stack *)
(* is its height, and JZ, FOR_CHECK, FOR_INCR and ON take any of the ways  *)
(* a value could send them.  Everything else is kept: the checks, their    *)
(* order, and what each opcode does to the FOR, GOSUB and call stacks.     *)
(***************************************************************************)
EXTENDS BasicCompiler

CONSTANTS
    StackSize,          \* kStackSize, 192
    ReturnStackSize,    \* kReturnStackSize, 64
    ForStackSize,       \* kForStackSize, 32
    MaxCallDepth        \* kMaxFunctionCallDepth, 16

ASSUME StackAssumption ==
    {StackSize, ReturnStackSize, ForStackSize, MaxCallDepth} \subseteq Nat \ {0}

VARIABLES
    pc,
    sp,             \* height of the operand stack
    for_stack,      \* ForFrame: [v, local, check, body]
    return_stack,   \* positions GOSUB returns to
    calls,          \* UserCallFrame, outermost first
    fault,          \* the message a failed run ended with
    plain           \* auxiliary: the program is one StructuredBasic speaks of

program == <<profile, text, rows, unit, plain>>
vars == <<phase, program, pc, sp, for_stack, return_stack, calls, fault>>

code == unit.code
op == code[pc]

Fresh ==
    pc' = 1 /\ sp' = 0 /\ for_stack' = <<>> /\ return_stack' = <<>> /\ calls' = <<>>

\* The run's stacks are locals of run_impl: they go when it returns.
Fail(message) ==
    /\ phase' = "failed" /\ fault' = message
    /\ Fresh /\ UNCHANGED program

Running == phase = "running" /\ pc \in DOMAIN code
At(names) == Running /\ op.op \in names
Quiet == UNCHANGED <<phase, program, fault>>

Goto(n) == pc' = n /\ Quiet

\* JMP and the taken JZ check their operand when they use it.
JumpTo(n) ==
    \/ n \in DOMAIN code /\ Goto(n) /\ UNCHANGED <<for_stack, return_stack, calls>>
    \/ n \notin DOMAIN code /\ Fail("BAD JUMP TARGET")

-----------------------------------------------------------------------------
(* Running and stopping *)

Run ==
    /\ phase \in {"accepted", "halted", "failed"}
    /\ phase' = "running" /\ fault' = ""
    /\ Fresh /\ UNCHANGED program

Halt ==
    /\ At({"HALT"})
    /\ phase' = "halted" /\ Fresh
    /\ UNCHANGED <<program, fault>>

\* BREAK is polled between operations; past the last one there is no other way on.
Interrupt ==
    /\ phase = "running"
    /\ Fail(IF pc \in DOMAIN code THEN "BREAK" ELSE "PC OUT OF RANGE")

-----------------------------------------------------------------------------
(* Operands and jumps *)

\* EXPR stands for the operations that compute values, STORE for those that
\* use them up; neither is one opcode, so neither checks the stack as one.
Push ==
    /\ At({"EXPR", "DUP"})
    /\ LET n == IF op.op = "DUP" THEN 1 ELSE op.a IN
       \/ /\ sp + n <= StackSize
          /\ op.op = "DUP" => sp > 0
          /\ sp' = sp + n /\ Goto(pc + 1) /\ UNCHANGED <<for_stack, return_stack, calls>>
       \/ op.op = "DUP" /\ sp = 0 /\ Fail("STACK UNDERFLOW")
       \/ sp + n > StackSize /\ Fail("STACK OVERFLOW")

Pop ==
    /\ At({"STORE", "DROP", "TEST"})
    /\ LET needs == IF op.op = "STORE" THEN op.a ELSE 1 IN
       \/ /\ sp >= needs
          /\ sp' = IF op.op = "TEST" THEN sp ELSE sp - needs
          /\ Goto(pc + 1) /\ UNCHANGED <<for_stack, return_stack, calls>>
       \/ sp < needs /\ Fail("STACK UNDERFLOW")

Jmp ==
    /\ At({"JMP"})
    /\ op.a \in DOMAIN code => UNCHANGED sp
    /\ JumpTo(op.a)

Jz ==
    /\ At({"JZ"})
    /\ \/ sp = 0 /\ Fail("STACK UNDERFLOW")
       \/ /\ sp > 0 /\ sp' = sp - 1
          /\ Goto(pc + 1) /\ UNCHANGED <<for_stack, return_stack, calls>>
       \/ /\ sp > 0 /\ (op.a \in DOMAIN code => sp' = sp - 1)
          /\ JumpTo(op.a)

Gosub ==
    /\ At({"GOSUB"})
    /\ \/ Len(return_stack) >= ReturnStackSize /\ Fail("GOSUB STACK OVERFLOW")
       \/ /\ Len(return_stack) < ReturnStackSize
          /\ op.a \notin DOMAIN code /\ Fail("BAD GOSUB TARGET")
       \/ /\ Len(return_stack) < ReturnStackSize
          /\ op.a \in DOMAIN code
          /\ return_stack' = Append(return_stack, pc + 1)
          /\ Goto(op.a) /\ UNCHANGED <<sp, for_stack, calls>>

Retsub ==
    /\ At({"RETSUB"})
    /\ \/ return_stack = <<>> /\ Fail("RETURN WITHOUT GOSUB")
       \/ /\ return_stack # <<>>
          /\ return_stack' = Front(return_stack)
          /\ Goto(Last(return_stack)) /\ UNCHANGED <<sp, for_stack, calls>>

\* The selector picks an entry of the table of JMPs, or none of them.
AfterTable == pc + 1 + op.a

OnBranch ==
    /\ At({"ON_GOTO", "ON_GOSUB"})
    /\ \/ sp = 0 /\ Fail("STACK UNDERFLOW")
       \/ sp > 0 /\ AfterTable > Len(code) + 1 /\ Fail("BAD ON TABLE")
       \/ /\ sp > 0 /\ AfterTable <= Len(code) + 1
          /\ \/ /\ sp' = sp - 1 /\ Goto(AfterTable)
                /\ UNCHANGED <<for_stack, return_stack, calls>>
             \/ \E k \in 1 .. op.a :
                LET entry == code[pc + k] IN
                \/ /\ entry.op # "JMP" \/ entry.a \notin DOMAIN code
                   /\ Fail("BAD ON TARGET")
                \/ /\ entry.op = "JMP" /\ entry.a \in DOMAIN code
                   /\ op.op = "ON_GOSUB" /\ Len(return_stack) >= ReturnStackSize
                   /\ Fail("GOSUB STACK OVERFLOW")
                \/ /\ entry.op = "JMP" /\ entry.a \in DOMAIN code
                   /\ op.op = "ON_GOSUB" => Len(return_stack) < ReturnStackSize
                   /\ return_stack' = IF op.op = "ON_GOSUB"
                                      THEN Append(return_stack, AfterTable) ELSE return_stack
                   /\ sp' = sp - 1 /\ Goto(entry.a) /\ UNCHANGED <<for_stack, calls>>

-----------------------------------------------------------------------------
(* FOR loops *)

\* Frames below this one belong to the callers.
Base == IF calls = <<>> THEN 0 ELSE Last(calls).for_base

IsLocal == op.op \in {"FOR_LOCAL_INIT", "FOR_LOCAL_CHECK", "FOR_LOCAL_INCR"}
\* A local loop outside any function.
Homeless == IsLocal /\ calls = <<>>

ForInit ==
    /\ At({"FOR_INIT", "FOR_LOCAL_INIT"})
    /\ \/ Homeless /\ Fail("LOCAL WITHOUT FUNCTION")
       \/ ~Homeless /\ sp < 2 /\ Fail("STACK UNDERFLOW")
       \/ ~Homeless /\ sp >= 2 /\ Fail("STEP CANNOT BE ZERO")
       \/ ~Homeless /\ sp >= 2 /\ Len(for_stack) >= ForStackSize /\ Fail("FOR STACK OVERFLOW")
       \/ /\ ~Homeless /\ sp >= 2 /\ Len(for_stack) < ForStackSize
          /\ for_stack' = Append(for_stack,
                [v |-> op.v, local |-> IsLocal, check |-> pc + 1, body |-> 0])
          /\ sp' = sp - 2 /\ Goto(pc + 1) /\ UNCHANGED <<return_stack, calls>>

\* Continue with the body, or drop the frame and go on.
LoopOrLeave(frames) ==
    /\ UNCHANGED <<sp, return_stack, calls>>
    /\ \/ for_stack' = frames /\ Goto(Last(frames).body)
       \/ for_stack' = Front(frames) /\ Goto(pc + 1)

ForCheck ==
    LET empty == IF IsLocal THEN Homeless \/ Len(for_stack) <= Base ELSE for_stack = <<>>
        top == Len(for_stack)
    IN
    /\ At({"FOR_CHECK", "FOR_LOCAL_CHECK"})
    /\ \/ empty /\ Fail("FOR STACK UNDERFLOW")
       \/ ~empty /\ for_stack[top].local # IsLocal /\ Fail("BAD FOR VARIABLE")
       \/ /\ ~empty /\ for_stack[top].local = IsLocal
          /\ LoopOrLeave([for_stack EXCEPT ![top].body = op.b])

\* NEXT with a variable drops the loops abandoned inside that variable's loop.
FoundAnywhere ==                    \* mutant: the callers' frames are searched too
    {k \in 1 .. Len(for_stack) :
        op.v = "" \/ (for_stack[k].v = op.v /\ for_stack[k].local = IsLocal)}

Found == {k \in Base + 1 .. Len(for_stack) :
            op.v = "" \/ (for_stack[k].v = op.v /\ for_stack[k].local = IsLocal)}

\* Without a variable NEXT takes the frame it finds: FOR_INCR on a local's
\* frame steps some cell before numbers_, and may go either way.
ForIncr ==
    LET frames == SubSeq(for_stack, 1, Max(Found)) IN
    /\ At({"FOR_INCR", "FOR_LOCAL_INCR"})
    /\ \/ Homeless /\ Fail("LOCAL WITHOUT FUNCTION")
       \/ ~Homeless /\ Found = {} /\ Fail("NEXT WITHOUT FOR")
       \/ /\ ~Homeless /\ Found # {} /\ IsLocal /\ ~Last(frames).local
          /\ Fail("BAD FOR VARIABLE")
       \/ /\ ~Homeless /\ Found # {}
          /\ IsLocal => Last(frames).local
          /\ LoopOrLeave(frames)

\* The depth recorded by the compiler must be the depth found.
ExitLoopOp ==
    /\ At({"EXIT_LOOP"})
    /\ LET depth == Len(for_stack) - Base
           owner == IF calls = <<>> THEN {} ELSE {Last(calls).function}
       IN  \/ /\ ~Structured(unit) \/ op.b \notin 0 .. op.s \/ depth # op.s
              /\ Fail("FOR STACK UNDERFLOW")
           \/ /\ Structured(unit) /\ op.b \in 0 .. op.s /\ depth = op.s
              /\ \/ /\ op.a \notin DOMAIN code \/ Owner(unit, op.a) # owner
                    /\ Fail("BAD EXIT TARGET")
                 \/ /\ op.a \in DOMAIN code /\ Owner(unit, op.a) = owner
                    /\ for_stack' = SubSeq(for_stack, 1, Len(for_stack) - op.b)
                    /\ Goto(op.a) /\ UNCHANGED <<sp, return_stack, calls>>

-----------------------------------------------------------------------------
(* Function calls: every function here takes one argument *)

CallUser ==
    /\ At({"CALL_USER"})
    /\ \/ op.a \notin DOMAIN unit.functions /\ Fail("BAD USER FUNCTION")
       \/ /\ op.a \in DOMAIN unit.functions /\ Len(calls) >= MaxCallDepth
          /\ Fail("FUNCTION CALL DEPTH")
       \/ /\ op.a \in DOMAIN unit.functions /\ Len(calls) < MaxCallDepth
          /\ sp < 1 /\ Fail("FUNCTION ARGUMENT COUNT")
       \/ /\ op.a \in DOMAIN unit.functions /\ Len(calls) < MaxCallDepth
          /\ sp >= 1 /\ Fail("OUT OF MEMORY")
       \/ /\ op.a \in DOMAIN unit.functions /\ Len(calls) < MaxCallDepth /\ sp >= 1
          /\ calls' = Append(calls,
                [function |-> op.a, call_pc |-> pc, return_pc |-> pc + 1,
                 expression_base |-> sp - 1, for_base |-> Len(for_stack),
                 return_base |-> Len(return_stack)])
          /\ sp' = sp - 1
          /\ Goto(unit.functions[op.a].entry) /\ UNCHANGED <<for_stack, return_stack>>

ReturnUser ==
    LET frame == Last(calls) IN
    /\ At({"RETURN_USER"})
    /\ \/ calls = <<>> /\ Fail("RETURN OUTSIDE FUNCTION")
       \/ calls # <<>> /\ sp <= frame.expression_base /\ Fail("FUNCTION RETURN MISSING")
       \/ /\ calls # <<>> /\ sp > frame.expression_base
          /\ calls' = Front(calls)
          /\ for_stack' = SubSeq(for_stack, 1, frame.for_base)
          /\ return_stack' = SubSeq(return_stack, 1, frame.return_base)
          /\ sp' = frame.expression_base + 1
          /\ Goto(frame.return_pc)

Fallthrough == At({"FUNCTION_FALLTHROUGH"}) /\ Fail("FUNCTION RETURN MISSING")

-----------------------------------------------------------------------------
Init == CompilerInit /\ pc = 1 /\ sp = 0 /\ for_stack = <<>> /\ return_stack = <<>>
        /\ calls = <<>> /\ fault = "" /\ plain = FALSE

\* The row-by-row meaning is claimed for valid Structured programs whose
\* single-line IFs open, divide and close no blocks.
Plain == phase = "accepted" /\ Structured(unit) /\ ~Loose(text) /\ ValidProgram(unit)

Compile == CompilerNext /\ Fresh /\ fault' = "" /\ plain' = Plain'

Execute ==
    \/ Halt \/ Interrupt
    \/ Push \/ Pop \/ Jmp \/ Jz \/ Gosub \/ Retsub \/ OnBranch
    \/ ForInit \/ ForCheck \/ ForIncr \/ ExitLoopOp
    \/ CallUser \/ ReturnUser \/ Fallthrough

Next == Compile \/ Run \/ Execute

Spec == Init /\ [][Next]_vars

-----------------------------------------------------------------------------
(* Properties *)

\* Every variable keeps the shape its declaration in the code gives it, and
\* no stack outgrows its array.
TypeOK ==
    /\ phase \in {"compiling", "rejected", "accepted", "running", "halted", "failed"}
    /\ Len(rows) = Len(text)
    /\ unit.mode = profile.mode /\ unit.scope \in 0 .. Len(unit.functions)
    /\ \A stack \in {"fors", "whiles", "dos", "ifs", "selects"} : Len(unit[stack]) <= MaxNesting
    /\ Len(code) <= MaxCode
    /\ pc \in 1 .. Len(code) + 1
    /\ sp \in 0 .. StackSize
    /\ Len(for_stack) <= ForStackSize /\ Len(return_stack) <= ReturnStackSize
    /\ Len(calls) <= MaxCallDepth

\* What the compiler accepts is well nested: for every mixture of blocks,
\* "CROSSED CONTROL BLOCK" and the checks around it leave no program whose
\* blocks cross, whose EXIT has no loop around it, or whose SELECT does
\* anything before its first CASE.
AcceptedProgramsNest ==
    phase = "accepted" /\ Structured(unit) /\ ~Loose(text) =>
        /\ WellNested(text)
        /\ \A r \in DOMAIN text :
            /\ Kind(text[r]) = "EXITFOR" => Around(text, r, {"FOR"}) # {}
            /\ Kind(text[r]) = "EXITDO" => Around(text, r, {"DO", "DOWHILE"}) # {}
            /\ Kind(text[r]) = "RETURN" => Around(text, r, {"FUNCTION"}) # {}
            /\ Kind(text[r]) = "SELECT" => FirstBranch(text, NextBranch(text, r, r))

\* A single-line IF that opens a SELECT: passed over, it leaves the CASE rows
\* below without the value they test.
SkipsSubject(t) ==
    \E i \in DOMAIN t : Kind(t[i]) = "THEN" /\
        \E b \in DOMAIN Arg(t[i]) : Kind(Arg(t[i])[b]) = "SELECT"

\* Whatever an accepted program does, loosely nested ones included, the
\* machine finds the tables and functions its code relies on, and the
\* operands unless a single-line IF opens a SELECT.
NeverStarved ==
    /\ fault = "STACK UNDERFLOW" => SkipsSubject(text)
    /\ fault \notin {"BAD ON TABLE", "PC OUT OF RANGE", "BAD USER FUNCTION",
                     "RETURN OUTSIDE FUNCTION", "FUNCTION ARGUMENT COUNT",
                     "LOCAL WITHOUT FUNCTION"}
    /\ fault \in {"BAD JUMP TARGET", "BAD GOSUB TARGET", "BAD ON TARGET", "BAD EXIT TARGET"} =>
        ~ValidProgram(unit)

\* The JMPs after ON are its table: the machine reads them and never runs
\* into them, whichever way it comes back from a GOSUB.
TablesAreNotRun ==
    phase = "running" =>
        ~\E i \in DOMAIN code : code[i].op \in {"ON_GOTO", "ON_GOSUB"} /\ pc \in i + 1 .. i + code[i].a

\* The checks of the compiler and of the machine fit together: what one
\* accepts never leaves the other without what it needs.
CompiledSound == TypeOK /\ AcceptedProgramsNest /\ NeverStarved /\ TablesAreNotRun

\* A function can neither drop nor change the FOR frames of its callers,
\* however its own loops are nested: NEXT and EXIT stop at for_base.
CallersKeepTheirLoops ==
    [][phase = "running" /\ phase' = "running" =>
        IsPrefix(SubSeq(for_stack, 1, Base), for_stack')]_vars

\* Control arrives from elsewhere only at a position the optimizer takes
\* for an entry, so it fuses no sequence that can be entered in the middle.
EntriesAreMarked ==
    [][phase = "running" /\ phase' = "running" /\ pc' # pc + 1 => pc' \in Entries(unit)]_vars

\* Control moves as compiler and optimizer assumed: into another operation
\* only at an entry, and out of a function with its caller's loops whole.
FlowKept == CallersKeepTheirLoops /\ EntriesAreMarked

\* Every compiled program passes validate_compiled_program, as the language
\* tests assert of each program they compile.
CompiledProgramsValidate == phase = "accepted" => ValidProgram(unit)

-----------------------------------------------------------------------------
(* The compiled program does what its rows say *)

Shown == phase \in {"running", "halted", "failed"} /\ plain

\* The row position n belongs to; the row after the last once the text is
\* used up.
RowAt(n) ==
    IF n > unit.size THEN Len(rows) + 1 ELSE Max({r \in DOMAIN rows : rows[r] <= n})

\* A dividing row begins with the JMP that ends the branch above it.
HowAt(n) ==
    LET r == RowAt(n) IN
    IF r > Len(text) THEN "flow"
    ELSE IF code[n] = Store(2) THEN "after"
    ELSE IF /\ Kind(text[r]) \in {"ELSEIF", "CASE", "CASEELSE", "ENDSELECT"} /\ n > rows[r]
            /\ Kind(text[r]) \in {"CASE", "CASEELSE"} => ~FirstBranch(text, r) THEN "test"
    ELSE "flow"

RowsOf(frames) == [k \in DOMAIN frames |-> RowAt(frames[k].check)]

\* A frame counts once FOR_CHECK has let control into the body.
Entered ==
    LET mine == SubSeq(for_stack, Base + 1, Len(for_stack))
    IN  IF At({"FOR_CHECK", "FOR_LOCAL_CHECK"}) THEN Front(mine) ELSE mine

CallerLoops(k) ==
    SubSeq(for_stack, (IF k = 1 THEN 0 ELSE calls[k - 1].for_base) + 1, calls[k].for_base)

OwnFaults ==
    {"BREAK", "STEP CANNOT BE ZERO", "FOR STACK OVERFLOW", "FUNCTION CALL DEPTH",
     "FUNCTION RETURN MISSING", "OUT OF MEMORY", "STACK OVERFLOW"}

Moving == Shown /\ phase = "running"

Meaning == INSTANCE StructuredBasic WITH
    state <- IF ~Shown THEN "idle"
             ELSE IF phase = "failed" THEN IF fault \in OwnFaults THEN "aborted" ELSE "broken"
             ELSE IF phase = "halted" THEN "done" ELSE "running",
    text <- IF Shown THEN text ELSE <<>>,
    at <- IF Moving THEN [row |-> RowAt(pc), how |-> HowAt(pc)] ELSE [row |-> 0, how |-> "flow"],
    loops <- IF Moving THEN RowsOf(Entered) ELSE <<>>,
    calls <- IF Moving
             THEN [k \in DOMAIN calls |->
                    [row |-> RowAt(calls[k].call_pc), loops |-> RowsOf(CallerLoops(k))]]
             ELSE <<>>

\* Every accepted, plainly nested and valid program runs as its rows say:
\* EXIT leaves exactly the loops it names, a NEXT continues the loop it
\* closes, one branch of each block runs, and calls return where they came
\* from with the caller's loops as they were.
RunsAsWritten == Meaning!Spec
=============================================================================

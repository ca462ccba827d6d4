---------------------------- MODULE BasicProofs ----------------------------
(***************************************************************************)
(* Proofs about BasicMachine: what the compiler makes of any text is       *)
(* threaded code, and the machine that runs it never leaves the thread.    *)
(*                                                                         *)
(* Compiler.  One lemma per statement shows that it keeps Woven: every     *)
(* jump leads to a position that may be entered, every FOR_INIT, FOR_CHECK *)
(* and JMP stand together, every ON is followed by its table of JMPs, and  *)
(* the chains of the open blocks hold jumps only.  So the end of the text  *)
(* (AcceptedIsLinked) gives a program without jumps that still wait for a  *)
(* line, and with a HALT at its end.                                       *)
(*                                                                         *)
(* Machine.  Inv says where pc may stand in such a program and what the    *)
(* FOR, GOSUB and call stacks may hold there; one lemma per operation      *)
(* shows that it keeps Inv and moves as FlowKept demands.                  *)
(*                                                                         *)
(* The theorems hold for every set of profiles that ProfileAssumption      *)
(* admits, programs of any length, and any limits of nesting, code, stacks *)
(* and calls.                                                              *)
(***************************************************************************)
EXTENDS BasicMachine, SequenceTheorems, WellFoundedInduction, TLAPS

-----------------------------------------------------------------------------
(* Threaded code.                                                          *)

Modes == {"Classic", "Structured"}

OpNames ==
    {"EXPR", "STORE", "DUP", "DROP", "TEST", "JMP", "JZ", "GOSUB", "RETSUB", "ON_GOTO", "ON_GOSUB",
     "FOR_INIT", "FOR_LOCAL_INIT", "FOR_CHECK", "FOR_LOCAL_CHECK", "FOR_INCR", "FOR_LOCAL_INCR",
     "EXIT_LOOP", "CALL_USER", "RETURN_USER", "FUNCTION_FALLTHROUGH", "HALT"}

\* Every statement that may be entered, and the variables they name.
Written ==
    LET lines == UNION {p.statements : p \in Profiles}
    IN  lines \cup UNION {{Arg(s)[1], Arg(s)[2]} : s \in lines}
Variables == {""} \cup {Arg(s) : s \in Written}

Ops == [op : OpNames, a : Nat, b : Int, s : Nat, v : Variables]

Checks == {"FOR_CHECK", "FOR_LOCAL_CHECK"}
Inits == {"FOR_INIT", "FOR_LOCAL_INIT"}
Tables == {"ON_GOTO", "ON_GOSUB"}
Jumps == {"JMP", "JZ", "GOSUB", "EXIT_LOOP"}

\* A jump to a line that has no position yet.
Waits(o) == (o.op \in {"JMP", "GOSUB"}) /\ o.b = 1

InTable(c, n) ==
    \E i \in DOMAIN c : c[i].op \in Tables /\ i < n /\ n <= i + c[i].a

\* Control may come to n from anywhere: not between FOR_INIT and FOR_CHECK,
\* and not into a table of ON.
Enterable(c, n) ==
    (n \in DOMAIN c => c[n].op \notin Checks) /\ ~InTable(c, n)

\* Positions that jumps lead to, the next one included, and the jumps that
\* the chains of open blocks may hold (0 for none).
Points(c) == {n \in 1 .. Len(c) + 1 : Enterable(c, n)}
Sites(c) == {0} \cup {i \in DOMAIN c : c[i].op \in {"JMP", "JZ", "EXIT_LOOP"}}

ForWhole(c, i) ==
    /\ c[i].op \in Inits => i + 1 \in DOMAIN c /\ c[i + 1].op \in Checks
    /\ c[i].op \in Checks =>
        /\ i - 1 \in DOMAIN c /\ c[i - 1].op \in Inits
        /\ i + 1 \in DOMAIN c /\ c[i + 1].op = "JMP" /\ c[i].b = i + 2

TableWhole(c, i) ==
    c[i].op \in Tables =>
        /\ c[i].a > 0 /\ i + c[i].a \in DOMAIN c
        /\ \A n \in i + 1 .. i + c[i].a : c[n].op = "JMP"

Led(c, i) ==
    c[i].op \in Jumps /\ ~Waits(c[i]) => c[i].a \in Points(c) \cup {0}

Threaded(c) ==
    /\ c \in Seq(Ops)
    /\ \A i \in DOMAIN c : ForWhole(c, i) /\ TableWhole(c, i) /\ Led(c, i)

Grows(c, d) == Sites(c) \subseteq Sites(d) /\ Points(c) \subseteq Points(d)

-----------------------------------------------------------------------------
(* Code grows by whole blocks at its end.                                  *)

LEMMA JoinedIs ==
  ASSUME NEW c \in Seq(Ops), NEW o \in Seq(Ops)
  PROVE  /\ c \o o \in Seq(Ops) /\ Len(c \o o) = Len(c) + Len(o)
         /\ Len(c) \in Nat /\ Len(o) \in Nat
         /\ DOMAIN c = 1 .. Len(c) /\ DOMAIN o = 1 .. Len(o)
         /\ DOMAIN (c \o o) = 1 .. Len(c) + Len(o)
         /\ \A i \in DOMAIN c : (c \o o)[i] = c[i]
         /\ \A k \in DOMAIN o : (c \o o)[Len(c) + k] = o[k]
         /\ \A i \in DOMAIN (c \o o) : i \notin DOMAIN c => i - Len(c) \in DOMAIN o
<1>1. /\ c \o o \in Seq(Ops) /\ Len(c \o o) = Len(c) + Len(o)
      /\ \A i \in 1 .. Len(c) + Len(o) : (c \o o)[i] = IF i <= Len(c) THEN c[i] ELSE o[i - Len(c)]
  BY ConcatProperties
<1>2. Len(c) \in Nat /\ Len(o) \in Nat
  BY LenProperties
<1>3. DOMAIN c = 1 .. Len(c) /\ DOMAIN o = 1 .. Len(o) /\ DOMAIN (c \o o) = 1 .. Len(c \o o)
  BY <1>1, LenProperties
<1>4. QED
  BY <1>1, <1>2, <1>3

LEMMA OpsIn ==
  ASSUME NEW c \in Seq(Ops), NEW i \in DOMAIN c
  PROVE  /\ c[i] \in Ops /\ i \in Nat /\ i > 0 /\ Len(c) \in Nat /\ i <= Len(c)
         /\ c[i].a \in Nat /\ c[i].b \in Int
<1>1. c[i] \in Ops /\ i \in 1 .. Len(c) /\ Len(c) \in Nat
  BY ElementOfSeq, LenProperties
<1>2. QED
  BY <1>1 DEF Ops

(* A position of the old code is as enterable as it was, and so is the one *)
(* after it.                                                               *)
LEMMA OldPoints ==
  ASSUME NEW c, Threaded(c), NEW o \in Seq(Ops), \A k \in DOMAIN o : k = 1 => o[k].op \notin Checks
  PROVE  Grows(c, c \o o)
<1> DEFINE d == c \o o
<1>1. c \in Seq(Ops)
  BY DEF Threaded
<1>2. /\ d \in Seq(Ops) /\ Len(d) = Len(c) + Len(o)
      /\ Len(c) \in Nat /\ Len(o) \in Nat
      /\ DOMAIN c = 1 .. Len(c) /\ DOMAIN o = 1 .. Len(o) /\ DOMAIN d = 1 .. Len(c) + Len(o)
      /\ \A i \in DOMAIN c : d[i] = c[i]
      /\ \A k \in DOMAIN o : d[Len(c) + k] = o[k]
  BY <1>1, JoinedIs
<1> HIDE DEF d
<1>3. Sites(c) \subseteq Sites(d)
  BY <1>2 DEF Sites
<1>4. ASSUME NEW n \in Points(c)
      PROVE  n \in Points(d)
  <2>1. n \in 1 .. Len(c) + 1 /\ Enterable(c, n)
    BY <1>4 DEF Points
  <2>2. n \in DOMAIN d => d[n].op \notin Checks
    <3>1. CASE n <= Len(c)
      BY <1>2, <2>1, <3>1 DEF Enterable
    <3>2. CASE n = Len(c) + 1
      BY <1>2, <3>2
    <3>3. QED
      BY <1>2, <2>1, <3>1, <3>2
  <2>3. ~InTable(d, n)
    <3>1. SUFFICES ASSUME NEW i \in DOMAIN d, d[i].op \in Tables, i < n, n <= i + d[i].a
                   PROVE  FALSE
      BY DEF InTable
    <3>2. i \in DOMAIN c /\ d[i] = c[i]
      BY <1>2, <2>1, <3>1
    <3>3. QED
      BY <2>1, <3>1, <3>2 DEF Enterable, InTable
  <2>4. QED
    BY <1>2, <2>1, <2>2, <2>3 DEF Points, Enterable
<1>5. QED
  BY <1>3, <1>4 DEF Grows, d

LEMMA BlockAppended ==
  ASSUME NEW c, Threaded(c), NEW o \in Seq(Ops),
         \A k \in DOMAIN o : k = 1 => o[k].op \notin Checks,
         \A k \in DOMAIN o :
            /\ ForWhole(c \o o, Len(c) + k) /\ TableWhole(c \o o, Len(c) + k)
            /\ Led(c \o o, Len(c) + k)
  PROVE  Threaded(c \o o) /\ Grows(c, c \o o)
<1> DEFINE d == c \o o
<1>1. c \in Seq(Ops) /\ Grows(c, d)
  BY OldPoints DEF Threaded
<1>2. /\ d \in Seq(Ops) /\ Len(d) = Len(c) + Len(o)
      /\ Len(c) \in Nat /\ Len(o) \in Nat
      /\ DOMAIN c = 1 .. Len(c) /\ DOMAIN o = 1 .. Len(o) /\ DOMAIN d = 1 .. Len(c) + Len(o)
      /\ \A i \in DOMAIN c : d[i] = c[i]
      /\ \A i \in DOMAIN d : i \notin DOMAIN c => i - Len(c) \in DOMAIN o
  BY <1>1, JoinedIs
<1>3. \A k \in DOMAIN o : ForWhole(d, Len(c) + k) /\ TableWhole(d, Len(c) + k) /\ Led(d, Len(c) + k)
  OBVIOUS
<1> HIDE DEF d
<1>4. ASSUME NEW i \in DOMAIN c
      PROVE  ForWhole(d, i) /\ TableWhole(d, i) /\ Led(d, i)
  <2>1. /\ ForWhole(c, i) /\ TableWhole(c, i) /\ Led(c, i)
        /\ c[i].a \in Nat /\ i \in Nat
    BY <1>1, OpsIn DEF Threaded
  <2>a. d[i] = c[i] /\ DOMAIN c \subseteq DOMAIN d /\ \A j \in DOMAIN c : d[j] = c[j]
    BY <1>2
  <2>2. ForWhole(d, i)
    BY <2>1, <2>a DEF ForWhole
  <2>3. TableWhole(d, i)
    <3>1. SUFFICES ASSUME c[i].op \in Tables
                   PROVE  /\ c[i].a > 0 /\ i + c[i].a \in DOMAIN d
                          /\ \A n \in i + 1 .. i + c[i].a : d[n].op = "JMP"
      BY <2>a DEF TableWhole
    <3>2. i + c[i].a \in DOMAIN c /\ c[i].a > 0
      BY <2>1, <3>1 DEF TableWhole
    <3>3. ASSUME NEW n \in i + 1 .. i + c[i].a
          PROVE  d[n].op = "JMP"
      <4>1. n \in DOMAIN c
        BY <1>2, <2>1, <3>2
      <4>2. c[n].op = "JMP"
        BY <2>1, <3>1 DEF TableWhole
      <4>3. QED
        BY <2>a, <4>1, <4>2
    <3>4. QED
      BY <2>a, <3>2, <3>3
  <2>4. Led(d, i)
    BY <1>1, <1>2, <2>1 DEF Led, Grows
  <2>5. QED
    BY <2>2, <2>3, <2>4
<1>5. ASSUME NEW i \in DOMAIN d
      PROVE  ForWhole(d, i) /\ TableWhole(d, i) /\ Led(d, i)
  <2>1. CASE i \in DOMAIN c
    BY <1>4, <2>1
  <2>2. CASE i \notin DOMAIN c
    <3>1. i - Len(c) \in DOMAIN o /\ Len(c) + (i - Len(c)) = i
      BY <1>2, <2>2
    <3>2. QED
      BY <1>3, <3>1
  <2>3. QED
    BY <2>1, <2>2
<1>6. QED
  BY <1>1, <1>2, <1>5 DEF Threaded, d

(* A block without loops and tables may jump into itself anywhere.         *)
Simple(o) == \A k \in DOMAIN o : o[k].op \notin Checks \cup Inits \cup Tables

LEMMA SimpleAppended ==
  ASSUME NEW c, Threaded(c), NEW o \in Seq(Ops), Simple(o),
         \A k \in DOMAIN o : o[k].op \in Jumps /\ ~Waits(o[k]) =>
            o[k].a \in {0} \cup Points(c) \cup (Len(c) + 1 .. Len(c) + Len(o) + 1)
  PROVE  Threaded(c \o o) /\ Grows(c, c \o o)
         /\ (Len(c) + 1 .. Len(c) + Len(o) + 1) \subseteq Points(c \o o)
<1> DEFINE d == c \o o
<1>1. c \in Seq(Ops) /\ Grows(c, d)
  BY OldPoints DEF Threaded, Simple
<1>2. /\ d \in Seq(Ops) /\ Len(d) = Len(c) + Len(o)
      /\ Len(c) \in Nat /\ Len(o) \in Nat
      /\ DOMAIN c = 1 .. Len(c) /\ DOMAIN o = 1 .. Len(o) /\ DOMAIN d = 1 .. Len(c) + Len(o)
      /\ \A i \in DOMAIN c : d[i] = c[i]
      /\ \A k \in DOMAIN o : d[Len(c) + k] = o[k]
      /\ \A i \in DOMAIN d : i \notin DOMAIN c => i - Len(c) \in DOMAIN o
  BY <1>1, JoinedIs
<1> HIDE DEF d
<1>3. ASSUME NEW n \in Len(c) + 1 .. Len(c) + Len(o) + 1
      PROVE  n \in Points(d)
  <2>1. n \in DOMAIN d => d[n].op \notin Checks
    <3>1. SUFFICES ASSUME n \in DOMAIN d
                   PROVE  d[n].op \notin Checks
      OBVIOUS
    <3>2. n - Len(c) \in DOMAIN o /\ Len(c) + (n - Len(c)) = n
      BY <1>2, <3>1
    <3>3. QED
      BY <1>2, <3>2 DEF Simple
  <2>2. ~InTable(d, n)
    <3>1. SUFFICES ASSUME NEW i \in DOMAIN d, d[i].op \in Tables, i < n, n <= i + d[i].a
                   PROVE  FALSE
      BY DEF InTable
    <3>2. CASE i \in DOMAIN c
      <4>1. TableWhole(c, i) /\ d[i] = c[i]
        BY <1>2, <3>2 DEF Threaded
      <4>2. i + c[i].a <= Len(c)
        BY <1>2, <3>1, <4>1 DEF TableWhole
      <4>3. QED
        BY <1>1, <1>2, <1>3, <3>1, <3>2, <4>1, <4>2, OpsIn
    <3>3. CASE i \notin DOMAIN c
      <4>1. i - Len(c) \in DOMAIN o /\ Len(c) + (i - Len(c)) = i
        BY <1>2, <3>3
      <4>2. QED
        BY <1>2, <3>1, <4>1 DEF Simple
    <3>4. QED
      BY <3>2, <3>3
  <2>3. QED
    BY <1>2, <2>1, <2>2 DEF Points, Enterable
<1>4. ASSUME NEW k \in DOMAIN o
      PROVE  ForWhole(d, Len(c) + k) /\ TableWhole(d, Len(c) + k) /\ Led(d, Len(c) + k)
  <2>1. d[Len(c) + k] = o[k] /\ o[k].op \notin Checks \cup Inits \cup Tables
    BY <1>2 DEF Simple
  <2>2. ForWhole(d, Len(c) + k) /\ TableWhole(d, Len(c) + k)
    BY <2>1 DEF ForWhole, TableWhole
  <2>3. Led(d, Len(c) + k)
    BY <1>1, <1>3, <2>1 DEF Led, Grows
  <2>4. QED
    BY <2>2, <2>3
<1>5. Threaded(d)
  <2>1. \A k \in DOMAIN o : k = 1 => o[k].op \notin Checks
    BY DEF Simple
  <2>2. \A k \in DOMAIN o : ForWhole(c \o o, Len(c) + k) /\ TableWhole(c \o o, Len(c) + k)
                              /\ Led(c \o o, Len(c) + k)
    BY <1>4 DEF d
  <2>3. QED
    BY <2>1, <2>2, BlockAppended DEF d
<1>6. QED
  BY <1>1, <1>3, <1>5 DEF d

-----------------------------------------------------------------------------
(* Jumps are given other targets, and nothing else changes.                *)

LEMMA SameShape ==
  ASSUME NEW c, Threaded(c), NEW d \in Seq(Ops), DOMAIN d = DOMAIN c,
         \A i \in DOMAIN c :
            /\ d[i].op = c[i].op
            /\ c[i].op \notin Jumps => d[i] = c[i]
            /\ c[i].op \in Jumps /\ ~Waits(d[i]) => d[i].a \in Points(c) \cup {0}
  PROVE  /\ Threaded(d) /\ Points(d) = Points(c) /\ Sites(d) = Sites(c)
         /\ Len(d) = Len(c)
<1>1. c \in Seq(Ops) /\ Len(d) = Len(c) /\ Len(c) \in Nat /\ DOMAIN c = 1 .. Len(c)
  <2>1. c \in Seq(Ops)
    BY DEF Threaded
  <2>2. /\ Len(c) \in Nat /\ DOMAIN c = 1 .. Len(c)
        /\ Len(d) \in Nat /\ DOMAIN d = 1 .. Len(d)
    BY <2>1, LenProperties
  <2>3. QED
    BY <2>1, <2>2
<1>2. \A n : InTable(d, n) <=> InTable(c, n)
  BY DEF InTable, Tables, Jumps
<1>3. \A n : Enterable(d, n) <=> Enterable(c, n)
  BY <1>2 DEF Enterable
<1>4. Points(d) = Points(c)
  BY <1>1, <1>3 DEF Points
<1>5. Sites(d) = Sites(c)
  BY DEF Sites
<1>6. ASSUME NEW i \in DOMAIN c
      PROVE  ForWhole(d, i) /\ TableWhole(d, i) /\ Led(d, i)
  <2>1. ForWhole(c, i) /\ TableWhole(c, i)
    BY DEF Threaded
  <2>2. ForWhole(d, i)
    BY <2>1 DEF ForWhole, Inits, Checks, Jumps
  <2>3. TableWhole(d, i)
    <3>1. SUFFICES ASSUME c[i].op \in Tables
                   PROVE  /\ c[i].a > 0 /\ i + c[i].a \in DOMAIN d
                          /\ \A n \in i + 1 .. i + c[i].a : d[n].op = "JMP"
      BY DEF TableWhole, Tables, Jumps
    <3>2. i + c[i].a \in DOMAIN c /\ c[i].a > 0
      BY <2>1, <3>1 DEF TableWhole
    <3>3. ASSUME NEW n \in i + 1 .. i + c[i].a
          PROVE  d[n].op = "JMP"
      <4>1. n \in DOMAIN c
        BY <1>1, <3>2, OpsIn
      <4>2. c[n].op = "JMP"
        BY <2>1, <3>1 DEF TableWhole
      <4>3. QED
        BY <4>1, <4>2
    <3>4. QED
      BY <3>2, <3>3
  <2>4. Led(d, i)
    BY <1>4 DEF Led
  <2>5. QED
    BY <2>2, <2>3, <2>4
<1>7. QED
  BY <1>1, <1>4, <1>5, <1>6 DEF Threaded

LEMMA TargetsIn ==
  ASSUME NEW c, NEW n \in Points(c) \cup {0}, c \in Seq(Ops)
  PROVE  n \in Nat
  BY LenProperties DEF Points

LEMMA Retargeted ==
  ASSUME NEW c, Threaded(c), NEW sites \in SUBSET Sites(c), NEW t \in Points(c) \cup {0}
  PROVE  LET d == [i \in DOMAIN c |-> IF i \in sites THEN [c[i] EXCEPT !.a = t] ELSE c[i]]
         IN  /\ Threaded(d) /\ Points(d) = Points(c) /\ Sites(d) = Sites(c)
             /\ Len(d) = Len(c)
<1> DEFINE d == [i \in DOMAIN c |-> IF i \in sites THEN [c[i] EXCEPT !.a = t] ELSE c[i]]
<1>1. c \in Seq(Ops)
  BY DEF Threaded
<1>2. t \in Nat
  BY <1>1, TargetsIn
<1>3. ASSUME NEW i \in DOMAIN c
      PROVE  /\ d[i] \in Ops /\ d[i].op = c[i].op
             /\ c[i].op \notin Jumps => d[i] = c[i]
             /\ c[i].op \in Jumps /\ ~Waits(d[i]) => d[i].a \in Points(c) \cup {0}
  <2>1. c[i] \in Ops /\ Led(c, i)
    BY <1>1, OpsIn DEF Threaded
  <2>2. CASE i \in sites
    <3>1. d[i] = [c[i] EXCEPT !.a = t] /\ c[i].op \in Jumps
      BY <1>1, <2>2, OpsIn DEF Sites, Jumps
    <3>2. QED
      BY <1>2, <2>1, <3>1 DEF Ops
  <2>3. CASE i \notin sites
    BY <2>1, <2>3 DEF Led
  <2>4. QED
    BY <2>2, <2>3
<1>4. d \in Seq(Ops) /\ DOMAIN d = DOMAIN c
  <2>1. DOMAIN c = 1 .. Len(c) /\ Len(c) \in Nat
    BY <1>1, LenProperties
  <2>2. d \in [1 .. Len(c) -> Ops]
    BY <1>3, <2>1
  <2>3. QED
    BY <2>1, <2>2, IsASeq
<1> HIDE DEF d
<1>5. QED
  BY <1>3, <1>4, SameShape DEF d

-----------------------------------------------------------------------------
(* The two blocks that are not simple.                                     *)

LEMMA LoopAppended ==
  ASSUME NEW c, Threaded(c), NEW x \in Ops, NEW init \in Ops, NEW check \in Ops, NEW jump \in Ops,
         x.op \notin Inits \cup Checks \cup Tables \cup Jumps,
         init.op \in Inits, check.op \in Checks, check.b = Len(c) + 5,
         jump.op = "JMP", jump.a = 0
  PROVE  LET o == <<x, init, check, jump>>
         IN  Threaded(c \o o) /\ Grows(c, c \o o) /\ Len(c) + 4 \in Sites(c \o o)
<1> DEFINE o == <<x, init, check, jump>>
           d == c \o o
<1>1. c \in Seq(Ops) /\ o \in Seq(Ops) /\ Len(o) = 4
  BY DEF Threaded
<1>2. /\ Len(c) \in Nat /\ DOMAIN o = 1 .. 4
      /\ o[1] = x /\ o[2] = init /\ o[3] = check /\ o[4] = jump
  BY <1>1, LenProperties
<1>3. /\ DOMAIN d = 1 .. Len(c) + 4
      /\ d[Len(c) + 1] = x /\ d[Len(c) + 2] = init /\ d[Len(c) + 3] = check /\ d[Len(c) + 4] = jump
  <2> HIDE DEF o
  <2>1. DOMAIN d = 1 .. Len(c) + Len(o) /\ \A k \in DOMAIN o : d[Len(c) + k] = o[k]
    BY <1>1, JoinedIs
  <2>2. QED
    BY <1>1, <1>2, <2>1
<1> HIDE DEF o, d
<1>4. \A k \in DOMAIN o : k = 1 => o[k].op \notin Checks
  BY <1>2
<1>5. ASSUME NEW k \in DOMAIN o
      PROVE  ForWhole(d, Len(c) + k) /\ TableWhole(d, Len(c) + k) /\ Led(d, Len(c) + k)
  <2>1. CASE k = 1
    BY <1>3, <2>1 DEF ForWhole, TableWhole, Led
  <2>2. CASE k = 2
    <3>1. (Len(c) + 2) + 1 = Len(c) + 3 /\ Len(c) + 3 \in DOMAIN d
      BY <1>2, <1>3
    <3>2. QED
      BY <1>3, <2>2, <3>1 DEF ForWhole, TableWhole, Led, Inits, Checks, Tables, Jumps
  <2>3. CASE k = 3
    <3>1. /\ (Len(c) + 3) + 1 = Len(c) + 4 /\ (Len(c) + 3) - 1 = Len(c) + 2
          /\ Len(c) + 4 \in DOMAIN d /\ Len(c) + 2 \in DOMAIN d
          /\ check.b = (Len(c) + 3) + 2
      BY <1>2, <1>3
    <3>2. QED
      BY <1>3, <2>3, <3>1 DEF ForWhole, TableWhole, Led, Inits, Checks, Tables, Jumps
  <2>4. CASE k = 4
    BY <1>3, <2>4 DEF ForWhole, TableWhole, Led, Inits, Checks, Tables, Jumps
  <2>5. QED
    BY <1>2, <2>1, <2>2, <2>3, <2>4
<1>6. Threaded(d) /\ Grows(c, d)
  BY <1>1, <1>4, <1>5, BlockAppended DEF d
<1>7. Len(c) + 4 \in Sites(d)
  BY <1>2, <1>3 DEF Sites
<1>8. QED
  BY <1>6, <1>7 DEF d, o

LEMMA TableAppended ==
  ASSUME NEW c, Threaded(c), NEW x \in Ops, NEW on \in Ops, NEW table \in Seq(Ops),
         x.op \notin Inits \cup Checks \cup Tables \cup Jumps,
         on.op \in Tables, on.a = Len(table), table # <<>>,
         \A k \in DOMAIN table : table[k].op = "JMP" /\ Waits(table[k])
  PROVE  LET o == <<x, on>> \o table
         IN  Threaded(c \o o) /\ Grows(c, c \o o)
<1> DEFINE o == <<x, on>> \o table
           d == c \o o
<1>1. c \in Seq(Ops) /\ <<x, on>> \in Seq(Ops) /\ Len(<<x, on>>) = 2
  BY DEF Threaded
<1>2. /\ o \in Seq(Ops) /\ Len(o) = 2 + Len(table) /\ Len(table) \in Nat
      /\ DOMAIN table = 1 .. Len(table) /\ DOMAIN o = 1 .. 2 + Len(table)
      /\ o[1] = x /\ o[2] = on
      /\ \A k \in 1 .. Len(table) : o[2 + k] = table[k]
  <2> DEFINE head == <<x, on>>
  <2>1. head \in Seq(Ops) /\ Len(head) = 2 /\ DOMAIN head = 1 .. 2 /\ head[1] = x /\ head[2] = on
    BY <1>1
  <2> HIDE DEF head
  <2>2. /\ head \o table \in Seq(Ops) /\ Len(head \o table) = Len(head) + Len(table)
        /\ Len(table) \in Nat /\ DOMAIN table = 1 .. Len(table)
        /\ DOMAIN (head \o table) = 1 .. Len(head) + Len(table)
        /\ \A i \in DOMAIN head : (head \o table)[i] = head[i]
        /\ \A k \in DOMAIN table : (head \o table)[Len(head) + k] = table[k]
    BY <2>1, JoinedIs
  <2>3. QED
    BY <2>1, <2>2 DEF head
<1>3. Len(table) > 0
  BY <1>2, EmptySeq
<1> HIDE DEF o
<1>4. /\ d \in Seq(Ops) /\ Len(c) \in Nat /\ DOMAIN d = 1 .. Len(c) + (2 + Len(table))
      /\ d[Len(c) + 1] = x /\ d[Len(c) + 2] = on
      /\ \A k \in 1 .. Len(table) : d[Len(c) + (2 + k)] = table[k]
  <2>1. /\ d \in Seq(Ops) /\ Len(c) \in Nat /\ DOMAIN d = 1 .. Len(c) + Len(o)
        /\ \A k \in DOMAIN o : d[Len(c) + k] = o[k]
    <3>1. o \in Seq(Ops) /\ c \in Seq(Ops)
      BY <1>1, <1>2
    <3>2. QED
      BY <3>1, JoinedIs
  <2>2. 1 \in DOMAIN o /\ 2 \in DOMAIN o /\ \A k \in 1 .. Len(table) : 2 + k \in DOMAIN o
    BY <1>2
  <2>3. QED
    BY <1>2, <2>1, <2>2
<1> HIDE DEF d
<1>5. \A k \in DOMAIN o : k = 1 => o[k].op \notin Checks
  BY <1>2
<1>6. ASSUME NEW n \in Len(c) + 3 .. Len(c) + (2 + Len(table))
      PROVE  d[n].op = "JMP" /\ Waits(d[n])
  <2>1. n - (Len(c) + 2) \in 1 .. Len(table) /\ Len(c) + (2 + (n - (Len(c) + 2))) = n
    BY <1>2, <1>4
  <2>2. d[n] = table[n - (Len(c) + 2)] /\ n - (Len(c) + 2) \in DOMAIN table
    BY <1>2, <1>4, <2>1
  <2>3. QED
    BY <2>2
<1>7. ASSUME NEW k \in DOMAIN o
      PROVE  ForWhole(d, Len(c) + k) /\ TableWhole(d, Len(c) + k) /\ Led(d, Len(c) + k)
  <2>1. CASE k = 1
    BY <1>4, <2>1 DEF ForWhole, TableWhole, Led
  <2>2. CASE k = 2
    <3>1. /\ (Len(c) + 2) + Len(table) = Len(c) + (2 + Len(table))
          /\ (Len(c) + 2) + 1 = Len(c) + 3
          /\ Len(c) + (2 + Len(table)) \in DOMAIN d
      BY <1>2, <1>3, <1>4
    <3>2. TableWhole(d, Len(c) + 2)
      BY <1>3, <1>4, <1>6, <3>1 DEF TableWhole
    <3>3. ForWhole(d, Len(c) + 2) /\ Led(d, Len(c) + 2)
      BY <1>4 DEF ForWhole, Led, Inits, Checks, Tables, Jumps
    <3>4. QED
      BY <2>2, <3>2, <3>3
  <2>3. CASE k > 2
    <3>1. Len(c) + k \in Len(c) + 3 .. Len(c) + (2 + Len(table))
      BY <1>2, <1>4, <2>3
    <3>2. QED
      BY <1>6, <3>1 DEF ForWhole, TableWhole, Led, Inits, Checks, Tables
  <2>4. QED
    BY <1>2, <2>1, <2>2, <2>3
<1>8. Threaded(d) /\ Grows(c, d)
  BY <1>1, <1>2, <1>5, <1>7, BlockAppended DEF d
<1>9. QED
  BY <1>8 DEF d, o

(* The code does nothing yet.                                              *)
LEMMA NoCode == Threaded(<<>>) /\ Points(<<>>) = {1} /\ Sites(<<>>) = {0}
<1>1. <<>> \in Seq(Ops) /\ DOMAIN <<>> = {} /\ Len(<<>>) = 0
  OBVIOUS
<1>2. QED
  BY <1>1 DEF Threaded, Points, Sites, Enterable, InTable

-----------------------------------------------------------------------------
(* Units: every chain of an open block holds sites, every loop returns to  *)
(* a point, and every function starts at one, behind the JMP around it.    *)

Stack(S) == {s \in Seq(S) : Len(s) <= MaxNesting}
Openings == [fors : Nat, whiles : Nat, dos : Nat, ifs : Nat, selects : Nat]

ForEntries(c) ==
    [v : Variables, skip : Sites(c), exits : SUBSET Sites(c), opening : Openings]
WhileEntries(c) == [start : Points(c), jz : Sites(c), opening : Openings]
DoEntries(c) ==
    [start : Points(c), exit : SUBSET Sites(c), exits : SUBSET Sites(c), opening : Openings]
IfEntries(c) ==
    [pending : Sites(c), ends : SUBSET Sites(c), seenElse : BOOLEAN, opening : Openings]
SelectEntries(c) ==
    [pending : Sites(c), ends : SUBSET Sites(c), seenCase : BOOLEAN, seenElse : BOOLEAN,
     opening : Openings]
FunctionEntries(c) ==
    {f \in [entry : Points(c), end : Nat, hasReturn : BOOLEAN] : f.entry - 1 \in Sites(c)}

Units(c) ==
    [mode : Modes, code : {c}, size : Nat, functions : Seq(FunctionEntries(c)), scope : Nat,
     fors : Stack(ForEntries(c)), whiles : Stack(WhileEntries(c)), dos : Stack(DoEntries(c)),
     ifs : Stack(IfEntries(c)), selects : Stack(SelectEntries(c))]

\* GOSUB and ON are Classic, functions Structured.
InMode(mode, o) ==
    /\ o.op \in Tables \cup {"GOSUB"} => mode = "Classic"
    /\ o.op = "CALL_USER" => mode = "Structured" /\ o.a > 0

Woven(u) ==
    /\ u \in Units(u.code)
    /\ Threaded(u.code)
    /\ \A i \in DOMAIN u.code : InMode(u.mode, u.code[i])
    /\ u.scope <= Len(u.functions)

Leads(u, w) == Woven(w) /\ w.mode = u.mode /\ Grows(u.code, w.code)

\* Only the code differs.
SameBlocks(u, w) ==
    /\ w.functions = u.functions /\ w.scope = u.scope
    /\ w.fors = u.fors /\ w.whiles = u.whiles /\ w.dos = u.dos
    /\ w.ifs = u.ifs /\ w.selects = u.selects

LEMMA LeadsOn ==
  ASSUME NEW u, NEW v, NEW w, Leads(u, v), Leads(v, w)
  PROVE  Leads(u, w)
  BY DEF Leads, Grows

LEMMA LeadsHere ==
  ASSUME NEW u, Woven(u)
  PROVE  Leads(u, u)
  BY DEF Leads, Grows

LEMMA MoreIn ==
  ASSUME NEW S, NEW T, S \subseteq T
  PROVE  Seq(S) \subseteq Seq(T) /\ Stack(S) \subseteq Stack(T)
<1>1. Seq(S) \subseteq Seq(T)
  BY SeqMonotonic
<1>2. QED
  BY <1>1 DEF Stack

LEMMA EntriesStay ==
  ASSUME NEW c, NEW d, Grows(c, d)
  PROVE  /\ Seq(FunctionEntries(c)) \subseteq Seq(FunctionEntries(d))
         /\ Stack(ForEntries(c)) \subseteq Stack(ForEntries(d))
         /\ Stack(WhileEntries(c)) \subseteq Stack(WhileEntries(d))
         /\ Stack(DoEntries(c)) \subseteq Stack(DoEntries(d))
         /\ Stack(IfEntries(c)) \subseteq Stack(IfEntries(d))
         /\ Stack(SelectEntries(c)) \subseteq Stack(SelectEntries(d))
<1>1. FunctionEntries(c) \subseteq FunctionEntries(d)
  BY DEF FunctionEntries, Grows
<1>2. ForEntries(c) \subseteq ForEntries(d)
  BY DEF ForEntries, Grows
<1>3. WhileEntries(c) \subseteq WhileEntries(d)
  BY DEF WhileEntries, Grows
<1>4. DoEntries(c) \subseteq DoEntries(d)
  BY DEF DoEntries, Grows
<1>5. IfEntries(c) \subseteq IfEntries(d)
  BY DEF IfEntries, Grows
<1>6. SelectEntries(c) \subseteq SelectEntries(d)
  BY DEF SelectEntries, Grows
<1>7. QED
  BY <1>1, <1>2, <1>3, <1>4, <1>5, <1>6, MoreIn

LEMMA UnitIs ==
  ASSUME NEW u, Woven(u)
  PROVE  /\ u.mode \in Modes /\ u.code \in Seq(Ops) /\ u.size \in Nat /\ u.scope \in Nat
         /\ u.functions \in Seq(FunctionEntries(u.code))
         /\ u.fors \in Stack(ForEntries(u.code)) /\ u.whiles \in Stack(WhileEntries(u.code))
         /\ u.dos \in Stack(DoEntries(u.code)) /\ u.ifs \in Stack(IfEntries(u.code))
         /\ u.selects \in Stack(SelectEntries(u.code))
         /\ Len(u.code) \in Nat /\ DOMAIN u.code = 1 .. Len(u.code)
         /\ Here(u) = Len(u.code) + 1 /\ Here(u) \in Nat /\ Here(u) \in Points(u.code)
<1>1. /\ u.mode \in Modes /\ u.code \in Seq(Ops) /\ u.size \in Nat /\ u.scope \in Nat
      /\ u.functions \in Seq(FunctionEntries(u.code))
      /\ u.fors \in Stack(ForEntries(u.code)) /\ u.whiles \in Stack(WhileEntries(u.code))
      /\ u.dos \in Stack(DoEntries(u.code)) /\ u.ifs \in Stack(IfEntries(u.code))
      /\ u.selects \in Stack(SelectEntries(u.code))
      /\ Threaded(u.code)
  BY DEF Woven, Units, Threaded
<1>2. /\ Len(u.code) \in Nat /\ DOMAIN u.code = 1 .. Len(u.code)
      /\ Here(u) = Len(u.code) + 1 /\ Here(u) \in Nat
  BY <1>1, LenProperties DEF Here
<1>3. ~InTable(u.code, Here(u))
  <2>1. SUFFICES ASSUME NEW i \in DOMAIN u.code, u.code[i].op \in Tables,
                        Here(u) <= i + u.code[i].a
                 PROVE  FALSE
    BY DEF InTable
  <2>2. i + u.code[i].a \in DOMAIN u.code
    BY <1>1, <2>1 DEF Threaded, TableWhole
  <2>3. QED
    BY <1>2, <2>1, <2>2
<1>4. Here(u) \in Points(u.code)
  BY <1>2, <1>3 DEF Points, Enterable
<1>5. QED
  BY <1>1, <1>2, <1>4

(* New code under the same blocks.                                         *)
LEMMA Recoded ==
  ASSUME NEW u, Woven(u), NEW d, Threaded(d), Grows(u.code, d),
         \A i \in DOMAIN d : InMode(u.mode, d[i])
  PROVE  LET w == [u EXCEPT !.code = d]
         IN  Leads(u, w) /\ SameBlocks(u, w) /\ w.code = d
<1> DEFINE w == [u EXCEPT !.code = d]
<1>1. /\ w.code = d /\ w.mode = u.mode /\ w.size = u.size /\ SameBlocks(u, w)
      /\ w \in [mode : {u.mode}, code : {d}, size : {u.size}, functions : {u.functions},
                scope : {u.scope}, fors : {u.fors}, whiles : {u.whiles}, dos : {u.dos},
                ifs : {u.ifs}, selects : {u.selects}]
  BY DEF Woven, Units, SameBlocks
<1>2. w \in Units(d)
  BY <1>1, UnitIs, EntriesStay DEF Units
<1> HIDE DEF w
<1>3. Woven(w)
  BY <1>1, <1>2 DEF Woven, SameBlocks
<1>4. QED
  BY <1>1, <1>3 DEF Leads, w

LEMMA EmitLeads ==
  ASSUME NEW u, Woven(u), NEW o \in Seq(Ops), Threaded(u.code \o o), Grows(u.code, u.code \o o),
         \A k \in DOMAIN o : InMode(u.mode, o[k])
  PROVE  LET w == Emit(u, o)
         IN  Leads(u, w) /\ SameBlocks(u, w) /\ w.code = u.code \o o
             /\ Here(w) = Here(u) + Len(o)
<1>1. u.code \in Seq(Ops)
  BY UnitIs
<1>2. ASSUME NEW i \in DOMAIN (u.code \o o)
      PROVE  InMode(u.mode, (u.code \o o)[i])
  <2>1. CASE i \in DOMAIN u.code
    BY <1>1, <2>1, JoinedIs DEF Woven
  <2>2. CASE i \notin DOMAIN u.code
    <3>1. /\ i - Len(u.code) \in DOMAIN o /\ i \in Nat /\ Len(u.code) \in Nat
          /\ \A k \in DOMAIN o : (u.code \o o)[Len(u.code) + k] = o[k]
      BY SMTT(30), <1>1, <2>2, JoinedIs
    <3>2. Len(u.code) + (i - Len(u.code)) = i
      BY <3>1
    <3>3. (u.code \o o)[i] = o[i - Len(u.code)]
      BY <3>1, <3>2
    <3>4. QED
      BY <3>1, <3>3
  <2>3. QED
    BY <2>1, <2>2
<1>3. Emit(u, o) = [u EXCEPT !.code = u.code \o o]
  BY DEF Emit
<1>4. Len(u.code \o o) = Len(u.code) + Len(o) /\ Len(u.code) \in Nat /\ Len(o) \in Nat
  BY <1>1, JoinedIs
<1>5. Leads(u, Emit(u, o)) /\ SameBlocks(u, Emit(u, o)) /\ Emit(u, o).code = u.code \o o
  BY <1>2, <1>3, Recoded
<1>6. QED
  BY <1>4, <1>5 DEF Here

LEMMA PatchLeads ==
  ASSUME NEW u, Woven(u), NEW sites \in SUBSET Sites(u.code),
         NEW t \in Points(u.code) \cup {0}
  PROVE  LET w == Patch(u, sites, t)
         IN  Leads(u, w) /\ SameBlocks(u, w) /\ Here(w) = Here(u)
             /\ Points(w.code) = Points(u.code) /\ Sites(w.code) = Sites(u.code)
<1> DEFINE d == [i \in DOMAIN u.code |->
                    IF i \in sites THEN [u.code[i] EXCEPT !.a = t] ELSE u.code[i]]
<1>1. /\ Threaded(d) /\ Points(d) = Points(u.code) /\ Sites(d) = Sites(u.code)
      /\ Len(d) = Len(u.code)
  BY Retargeted DEF Woven
<1>2. ASSUME NEW i \in DOMAIN d
      PROVE  InMode(u.mode, d[i])
  <2>1. i \in DOMAIN u.code /\ u.code[i] \in Ops /\ InMode(u.mode, u.code[i])
    BY OpsIn, UnitIs DEF Woven
  <2>2. CASE i \in sites
    <3>1. u.code[i].op \in {"JMP", "JZ", "EXIT_LOOP"} /\ d[i].op = u.code[i].op
      BY <2>1, <2>2, OpsIn, UnitIs DEF Sites, Ops
    <3>2. QED
      BY <3>1 DEF InMode, Tables
  <2>3. CASE i \notin sites
    BY <2>1, <2>3
  <2>4. QED
    BY <2>2, <2>3
<1>3. Patch(u, sites, t) = [u EXCEPT !.code = d]
  BY DEF Patch
<1> HIDE DEF d
<1>4. Grows(u.code, d)
  BY <1>1 DEF Grows
<1>5. /\ Leads(u, Patch(u, sites, t)) /\ SameBlocks(u, Patch(u, sites, t))
      /\ Patch(u, sites, t).code = d
  BY <1>1, <1>2, <1>3, <1>4, Recoded
<1>6. QED
  BY <1>1, <1>5 DEF Here

-----------------------------------------------------------------------------
(* Changes to the open blocks alone.                                       *)

LEMMA Reblocked ==
  ASSUME NEW u, Woven(u), NEW w \in Units(u.code), w.mode = u.mode, w.scope <= Len(w.functions)
  PROVE  Leads(u, w)
<1>1. w.code = u.code
  BY DEF Units
<1>2. QED
  BY <1>1 DEF Leads, Woven, Grows

LEMMA WithFors ==
  ASSUME NEW u, Woven(u), NEW s \in Stack(ForEntries(u.code))
  PROVE  Leads(u, [u EXCEPT !.fors = s])
<1>1. /\ [u EXCEPT !.fors = s] \in Units(u.code) /\ [u EXCEPT !.fors = s].mode = u.mode
      /\ [u EXCEPT !.fors = s].scope <= Len([u EXCEPT !.fors = s].functions)
  BY DEF Woven, Units
<1>2. QED
  BY <1>1, Reblocked

LEMMA WithWhiles ==
  ASSUME NEW u, Woven(u), NEW s \in Stack(WhileEntries(u.code))
  PROVE  Leads(u, [u EXCEPT !.whiles = s])
<1>1. /\ [u EXCEPT !.whiles = s] \in Units(u.code) /\ [u EXCEPT !.whiles = s].mode = u.mode
      /\ [u EXCEPT !.whiles = s].scope <= Len([u EXCEPT !.whiles = s].functions)
  BY DEF Woven, Units
<1>2. QED
  BY <1>1, Reblocked

LEMMA WithDos ==
  ASSUME NEW u, Woven(u), NEW s \in Stack(DoEntries(u.code))
  PROVE  Leads(u, [u EXCEPT !.dos = s])
<1>1. /\ [u EXCEPT !.dos = s] \in Units(u.code) /\ [u EXCEPT !.dos = s].mode = u.mode
      /\ [u EXCEPT !.dos = s].scope <= Len([u EXCEPT !.dos = s].functions)
  BY DEF Woven, Units
<1>2. QED
  BY <1>1, Reblocked

LEMMA WithIfs ==
  ASSUME NEW u, Woven(u), NEW s \in Stack(IfEntries(u.code))
  PROVE  Leads(u, [u EXCEPT !.ifs = s])
<1>1. /\ [u EXCEPT !.ifs = s] \in Units(u.code) /\ [u EXCEPT !.ifs = s].mode = u.mode
      /\ [u EXCEPT !.ifs = s].scope <= Len([u EXCEPT !.ifs = s].functions)
  BY DEF Woven, Units
<1>2. QED
  BY <1>1, Reblocked

LEMMA WithSelects ==
  ASSUME NEW u, Woven(u), NEW s \in Stack(SelectEntries(u.code))
  PROVE  Leads(u, [u EXCEPT !.selects = s])
<1>1. /\ [u EXCEPT !.selects = s] \in Units(u.code) /\ [u EXCEPT !.selects = s].mode = u.mode
      /\ [u EXCEPT !.selects = s].scope <= Len([u EXCEPT !.selects = s].functions)
  BY DEF Woven, Units
<1>2. QED
  BY <1>1, Reblocked

LEMMA WithFunctions ==
  ASSUME NEW u, Woven(u), NEW s \in Seq(FunctionEntries(u.code)), NEW n \in Nat, n <= Len(s)
  PROVE  Leads(u, [u EXCEPT !.functions = s, !.scope = n])
<1>1. /\ [u EXCEPT !.functions = s, !.scope = n] \in Units(u.code)
      /\ [u EXCEPT !.functions = s, !.scope = n].mode = u.mode
      /\ [u EXCEPT !.functions = s, !.scope = n].scope
            <= Len([u EXCEPT !.functions = s, !.scope = n].functions)
  BY DEF Woven, Units
<1>2. QED
  BY <1>1, Reblocked

LEMMA Pushed ==
  ASSUME NEW S, NEW s \in Stack(S), NEW e \in S, Len(s) < MaxNesting
  PROVE  Append(s, e) \in Stack(S)
<1>1. s \in Seq(S) /\ Len(s) \in Nat /\ MaxNesting \in Nat
  BY NestingAssumption, LenProperties DEF Stack
<1>2. Append(s, e) \in Seq(S) /\ Len(Append(s, e)) = Len(s) + 1
  BY <1>1, AppendProperties
<1>3. QED
  BY <1>1, <1>2 DEF Stack

LEMMA TopIs ==
  ASSUME NEW S, NEW s \in Seq(S), s # <<>>
  PROVE  /\ Len(s) \in DOMAIN s /\ s[Len(s)] \in S /\ Last(s) = s[Len(s)]
         /\ Front(s) \in Seq(S) /\ Len(Front(s)) = Len(s) - 1
         /\ Len(s) \in Nat /\ Len(s) > 0 /\ DOMAIN Front(s) = 1 .. Len(s) - 1
         /\ \A i \in 1 .. Len(s) - 1 : Front(s)[i] = s[i]
<1>1. Len(s) \in Nat /\ DOMAIN s = 1 .. Len(s) /\ Len(s) # 0
  BY EmptySeq, LenProperties
<1>2. s[Len(s)] \in S
  BY <1>1, ElementOfSeq
<1>3. Front(s) = SubSeq(s, 1, Len(s) - 1)
  BY DEF Front
<1>4. /\ SubSeq(s, 1, Len(s) - 1) \in Seq(S)
      /\ Len(SubSeq(s, 1, Len(s) - 1)) = Len(s) - 1
      /\ \A i \in 1 .. Len(s) - 1 : SubSeq(s, 1, Len(s) - 1)[i] = s[i]
  BY <1>1
<1>5. DOMAIN Front(s) = 1 .. Len(s) - 1
  BY <1>3, <1>4, LenProperties
<1>6. QED
  BY <1>1, <1>2, <1>3, <1>4, <1>5 DEF Last

LEMMA StackTop ==
  ASSUME NEW S, NEW s \in Stack(S), s # <<>>
  PROVE  /\ Last(s) \in S /\ Front(s) \in Stack(S)
         /\ Len(s) \in DOMAIN s /\ s[Len(s)] = Last(s) /\ Len(s) > 0
<1>1. s \in Seq(S) /\ Len(s) <= MaxNesting /\ MaxNesting \in Nat
  BY NestingAssumption DEF Stack
<1>2. QED
  BY <1>1, TopIs DEF Stack

LEMMA TopChanged ==
  ASSUME NEW S, NEW s \in Stack(S), NEW i \in DOMAIN s, NEW e \in S
  PROVE  [s EXCEPT ![i] = e] \in Stack(S)
<1>1. s \in Seq(S) /\ Len(s) <= MaxNesting
  BY DEF Stack
<1>2. [s EXCEPT ![i] = e] \in Seq(S) /\ Len([s EXCEPT ![i] = e]) = Len(s)
  BY <1>1, ExceptSeq
<1>3. QED
  BY <1>1, <1>2 DEF Stack

LEMMA DepthsIn ==
  ASSUME NEW u, Woven(u)
  PROVE  Depths(u) \in Openings
<1>1. /\ Len(u.fors) \in Nat /\ Len(u.whiles) \in Nat /\ Len(u.dos) \in Nat
      /\ Len(u.ifs) \in Nat /\ Len(u.selects) \in Nat
  BY UnitIs, LenProperties DEF Stack
<1>2. QED
  BY <1>1 DEF Depths, Openings

(* A block of plain operations, and the jumps among them.                  *)
LEMMA SimpleLeads ==
  ASSUME NEW u, Woven(u), NEW o \in Seq(Ops), Simple(o),
         \A k \in DOMAIN o : InMode(u.mode, o[k]),
         \A k \in DOMAIN o : o[k].op \in Jumps /\ ~Waits(o[k]) =>
            o[k].a \in {0} \cup Points(u.code) \cup (Here(u) .. Here(u) + Len(o))
  PROVE  LET w == Emit(u, o)
         IN  /\ Leads(u, w) /\ SameBlocks(u, w) /\ Here(w) = Here(u) + Len(o)
             /\ w.code = u.code \o o
             /\ (Here(u) .. Here(u) + Len(o)) \subseteq Points(w.code)
             /\ \A k \in DOMAIN o :
                    o[k].op \in {"JMP", "JZ", "EXIT_LOOP"} => Len(u.code) + k \in Sites(w.code)
<1>1. Here(u) = Len(u.code) + 1 /\ Len(u.code) \in Nat /\ Len(o) \in Nat /\ u.code \in Seq(Ops)
  BY UnitIs, LenProperties
<1>2. Here(u) + Len(o) = Len(u.code) + Len(o) + 1
  BY <1>1
<1>3. /\ Threaded(u.code \o o) /\ Grows(u.code, u.code \o o)
      /\ (Here(u) .. Here(u) + Len(o)) \subseteq Points(u.code \o o)
  BY <1>1, <1>2, SimpleAppended DEF Woven
<1>4. /\ Leads(u, Emit(u, o)) /\ SameBlocks(u, Emit(u, o)) /\ Emit(u, o).code = u.code \o o
      /\ Here(Emit(u, o)) = Here(u) + Len(o)
  BY <1>3, EmitLeads
<1>5. ASSUME NEW k \in DOMAIN o, o[k].op \in {"JMP", "JZ", "EXIT_LOOP"}
      PROVE  Len(u.code) + k \in Sites(u.code \o o)
  <2>1. /\ DOMAIN o = 1 .. Len(o) /\ DOMAIN (u.code \o o) = 1 .. Len(u.code) + Len(o)
        /\ (u.code \o o)[Len(u.code) + k] = o[k]
    BY <1>1, JoinedIs
  <2>2. Len(u.code) + k \in DOMAIN (u.code \o o)
    BY <1>1, <2>1
  <2>3. QED
    BY <1>5, <2>1, <2>2 DEF Sites
<1>6. QED
  BY <1>3, <1>4, <1>5

Blank == ""

LEMMA BlankIs ==
  /\ Blank \in Variables
  /\ \A name, t : Op(name, t) = [op |-> name, a |-> t, b |-> 0, s |-> 0, v |-> Blank]
<1>1. Blank \in Variables
  BY DEF Variables, Blank
<1>2. \A name, t : Op(name, t) = [op |-> name, a |-> t, b |-> 0, s |-> 0, v |-> Blank]
  BY DEF Op, Blank
<1>3. QED
  BY <1>1, <1>2

LEMMA OpIs ==
  ASSUME NEW name \in OpNames, NEW t \in Nat
  PROVE  /\ Op(name, t) \in Ops /\ Op(name, t).op = name /\ Op(name, t).a = t
         /\ Op(name, t).b = 0
  BY BlankIs DEF Ops

LEMMA ForOpIs ==
  ASSUME NEW u, NEW w \in Variables, NEW local \in OpNames, NEW global \in OpNames
  PROVE  /\ ForOp(u, w, local, global) \in Ops
         /\ ForOp(u, w, local, global).op \in {local, global}
         /\ ForOp(u, w, local, global).a = 0
<1>1. PICK name \in {local, global} : ForOp(u, w, local, global) = OnSlot(name, w)
  BY DEF ForOp
<1>2. /\ Op(name, 0) \in Ops /\ Op(name, 0).op = name /\ Op(name, 0).a = 0
      /\ OnSlot(name, w) = [Op(name, 0) EXCEPT !.v = w]
  BY OpIs DEF OnSlot
<1>3. QED
  BY <1>1, <1>2 DEF Ops

-----------------------------------------------------------------------------
(* The blocks of one and of two operations.                                *)

Plainly(u, x, to) ==
    /\ x \in Ops /\ x.op \notin Checks \cup Inits \cup Tables /\ InMode(u.mode, x)
    /\ x.op \in Jumps /\ ~Waits(x) => x.a \in {0, to} \cup Points(u.code)

LEMMA OneOp ==
  ASSUME NEW u, Woven(u), NEW x, Plainly(u, x, 0)
  PROVE  LET w == Emit(u, <<x>>)
         IN  /\ Leads(u, w) /\ SameBlocks(u, w) /\ Here(w) = Here(u) + 1
             /\ Here(u) \in Points(w.code) /\ Here(u) + 1 \in Points(w.code)
             /\ x.op \in {"JMP", "JZ", "EXIT_LOOP"} => Here(u) \in Sites(w.code)
<1> DEFINE o == <<x>>
<1>1. o \in Seq(Ops) /\ Len(o) = 1 /\ DOMAIN o = {1} /\ o[1] = x
  BY DEF Plainly
<1> HIDE DEF o
<1>2. Simple(o) /\ \A k \in DOMAIN o : InMode(u.mode, o[k])
  BY <1>1 DEF Simple, Plainly
<1>3. \A k \in DOMAIN o : o[k].op \in Jumps /\ ~Waits(o[k]) =>
         o[k].a \in {0} \cup Points(u.code) \cup (Here(u) .. Here(u) + Len(o))
  BY <1>1 DEF Plainly
<1>4. Here(u) = Len(u.code) + 1 /\ Len(u.code) \in Nat
  BY UnitIs
<1>5. /\ Leads(u, Emit(u, o)) /\ SameBlocks(u, Emit(u, o))
      /\ Here(Emit(u, o)) = Here(u) + Len(o)
      /\ (Here(u) .. Here(u) + Len(o)) \subseteq Points(Emit(u, o).code)
      /\ \A k \in DOMAIN o :
            o[k].op \in {"JMP", "JZ", "EXIT_LOOP"} => Len(u.code) + k \in Sites(Emit(u, o).code)
  BY <1>1, <1>2, <1>3, SimpleLeads
<1>6. /\ Here(u) \in Here(u) .. Here(u) + Len(o) /\ Here(u) + 1 \in Here(u) .. Here(u) + Len(o)
      /\ Len(u.code) + 1 = Here(u)
  BY <1>1, <1>4
<1>7. QED
  BY <1>1, <1>5, <1>6 DEF o

LEMMA TwoOps ==
  ASSUME NEW u, Woven(u), NEW x, NEW y,
         Plainly(u, x, Here(u) + 2), Plainly(u, y, Here(u) + 2)
  PROVE  LET w == Emit(u, <<x, y>>)
         IN  /\ Leads(u, w) /\ SameBlocks(u, w) /\ Here(w) = Here(u) + 2
             /\ Here(u) \in Points(w.code) /\ Here(u) + 1 \in Points(w.code)
             /\ Here(u) + 2 \in Points(w.code)
             /\ x.op \in {"JMP", "JZ", "EXIT_LOOP"} => Here(u) \in Sites(w.code)
             /\ y.op \in {"JMP", "JZ", "EXIT_LOOP"} => Here(u) + 1 \in Sites(w.code)
<1> DEFINE o == <<x, y>>
<1>1. o \in Seq(Ops) /\ Len(o) = 2 /\ DOMAIN o = {1, 2} /\ o[1] = x /\ o[2] = y
  BY DEF Plainly
<1> HIDE DEF o
<1>2. Simple(o) /\ \A k \in DOMAIN o : InMode(u.mode, o[k])
  BY <1>1 DEF Simple, Plainly
<1>3. Here(u) = Len(u.code) + 1 /\ Len(u.code) \in Nat
  BY UnitIs
<1>4. \A k \in DOMAIN o : o[k].op \in Jumps /\ ~Waits(o[k]) =>
         o[k].a \in {0} \cup Points(u.code) \cup (Here(u) .. Here(u) + Len(o))
  <2>1. Here(u) + 2 \in Here(u) .. Here(u) + Len(o)
    BY <1>1, <1>3
  <2>2. QED
    BY <1>1, <2>1 DEF Plainly
<1>5. /\ Leads(u, Emit(u, o)) /\ SameBlocks(u, Emit(u, o))
      /\ Here(Emit(u, o)) = Here(u) + Len(o)
      /\ (Here(u) .. Here(u) + Len(o)) \subseteq Points(Emit(u, o).code)
      /\ \A k \in DOMAIN o :
            o[k].op \in {"JMP", "JZ", "EXIT_LOOP"} => Len(u.code) + k \in Sites(Emit(u, o).code)
  BY <1>1, <1>2, <1>4, SimpleLeads
<1>6. /\ Here(u) \in Here(u) .. Here(u) + Len(o) /\ Here(u) + 1 \in Here(u) .. Here(u) + Len(o)
      /\ Here(u) + 2 \in Here(u) .. Here(u) + Len(o)
      /\ Len(u.code) + 1 = Here(u) /\ Len(u.code) + 2 = Here(u) + 1
  BY <1>1, <1>3
<1>7. QED
  BY <1>1, <1>5, <1>6 DEF o

LEMMA PlainOp ==
  ASSUME NEW u, NEW to, NEW t \in Nat,
         NEW name \in OpNames \ (Checks \cup Inits \cup Tables \cup Jumps \cup {"CALL_USER"})
  PROVE  Plainly(u, Op(name, t), to) /\ Op(name, t).op = name
<1>1. Op(name, t) \in Ops /\ Op(name, t).op = name
  BY OpIs
<1>2. QED
  BY <1>1 DEF Plainly, InMode, Jumps

LEMMA PlainJump ==
  ASSUME NEW u, NEW to, NEW name \in {"JMP", "JZ"}, NEW t \in Nat,
         t \in {0, to} \cup Points(u.code)
  PROVE  Plainly(u, Op(name, t), to) /\ Op(name, t).op = name
<1>1. Op(name, t) \in Ops /\ Op(name, t).op = name /\ Op(name, t).a = t
  BY OpIs DEF OpNames
<1>2. name \notin Checks \cup Inits \cup Tables
  BY DEF Checks, Inits, Tables
<1>3. QED
  BY <1>1, <1>2 DEF Plainly, InMode

-----------------------------------------------------------------------------
(* The statements, one lemma each.                                         *)

LEMMA CompileForLeads ==
  ASSUME NEW u, Woven(u), NEW v \in Variables, NEW w \in CompileFor(u, v)
  PROVE  Leads(u, w)
<1> DEFINE init == ForOp(u, v, "FOR_LOCAL_INIT", "FOR_INIT")
           plain0 == ForOp(u, v, "FOR_LOCAL_CHECK", "FOR_CHECK")
           check == [plain0 EXCEPT !.b = Here(u) + 4]
           ops == <<Expr(2), init, check, Op("JMP", 0)>>
           e == Emit(u, ops)
           entry == [v |-> v, skip |-> Here(u) + 3, exits |-> {}, opening |-> Depths(u)]
<1>1. Len(u.fors) < MaxNesting /\ w = [e EXCEPT !.fors = Append(e.fors, entry)]
  BY DEF CompileFor, Provided
<1>2. /\ Here(u) = Len(u.code) + 1 /\ Len(u.code) \in Nat /\ u.code \in Seq(Ops)
      /\ u.mode \in Modes
  BY UnitIs
<1>3. init \in Ops /\ init.op \in Inits
  BY ForOpIs DEF OpNames, Inits
<1>4. plain0 \in Ops /\ plain0.op \in Checks
  BY ForOpIs DEF OpNames, Checks
<1>5. check \in Ops /\ check.op \in Checks /\ check.b = Len(u.code) + 5
  BY <1>2, <1>4 DEF Ops
<1>6. /\ Expr(2) \in Ops /\ Expr(2).op = "EXPR"
      /\ Op("JMP", 0) \in Ops /\ Op("JMP", 0).op = "JMP" /\ Op("JMP", 0).a = 0
  BY OpIs DEF OpNames, Expr
<1> HIDE DEF init, plain0, check
<1>7. /\ Threaded(u.code \o ops) /\ Grows(u.code, u.code \o ops)
      /\ Len(u.code) + 4 \in Sites(u.code \o ops)
  <2>1. Expr(2).op \notin Inits \cup Checks \cup Tables \cup Jumps
    BY <1>6 DEF Inits, Checks, Tables, Jumps
  <2>2. QED
    BY <1>3, <1>5, <1>6, <2>1, LoopAppended DEF Woven
<1>8. ops \in Seq(Ops) /\ \A k \in DOMAIN ops : InMode(u.mode, ops[k])
  <2>1. ops \in Seq(Ops) /\ DOMAIN ops = 1 .. 4
    BY <1>3, <1>5, <1>6
  <2>2. /\ InMode(u.mode, Expr(2)) /\ InMode(u.mode, init) /\ InMode(u.mode, check)
        /\ InMode(u.mode, Op("JMP", 0))
    BY <1>3, <1>5, <1>6 DEF InMode, Inits, Checks, Tables
  <2>3. QED
    BY <2>1, <2>2
<1> HIDE DEF ops
<1>9. Leads(u, e) /\ SameBlocks(u, e) /\ e.code = u.code \o ops
  BY <1>7, <1>8, EmitLeads
<1> HIDE DEF e
<1>10. entry \in ForEntries(e.code)
  <2>1. Here(u) + 3 = Len(u.code) + 4
    BY <1>2
  <2>2. QED
    BY <1>7, <1>9, <2>1, DepthsIn DEF ForEntries
<1>11. Append(e.fors, entry) \in Stack(ForEntries(e.code))
  BY <1>1, <1>9, <1>10, UnitIs, Pushed DEF Leads, SameBlocks
<1>12. Leads(e, w)
  BY <1>1, <1>9, <1>11, WithFors DEF Leads
<1>13. QED
  BY <1>9, <1>12, LeadsOn

LEMMA CompileNextLeads ==
  ASSUME NEW u, Woven(u), NEW v \in Variables, NEW w \in CompileNext(u, v)
  PROVE  Leads(u, w)
<1> DEFINE entry == Last(u.fors)
           plain0 == ForOp(u, entry.v, "FOR_LOCAL_INCR", "FOR_INCR")
           incr == [plain0 EXCEPT !.v = v]
           e == Emit(u, <<incr>>)
           after == [e EXCEPT !.fors = Front(e.fors)]
<1>1. Closable(u, "fors") /\ w = Patch(after, {entry.skip} \cup entry.exits, Here(after))
  BY DEF CompileNext
<1>2. u.fors # <<>> /\ u.fors \in Stack(ForEntries(u.code))
  BY <1>1, UnitIs DEF Closable
<1>3. /\ entry \in ForEntries(u.code) /\ Front(u.fors) \in Stack(ForEntries(u.code))
  BY <1>2, StackTop
<1>4. /\ entry.v \in Variables /\ entry.skip \in Sites(u.code) /\ entry.exits \subseteq Sites(u.code)
  BY <1>3 DEF ForEntries
<1> HIDE DEF entry
<1>5. Plainly(u, incr, 0)
  <2>1. plain0 \in Ops /\ plain0.op \in {"FOR_LOCAL_INCR", "FOR_INCR"}
    BY <1>4, ForOpIs DEF OpNames
  <2>2. incr \in Ops /\ incr.op \in {"FOR_LOCAL_INCR", "FOR_INCR"}
    BY <2>1 DEF Ops
  <2>3. QED
    BY <2>2 DEF Plainly, InMode, Checks, Inits, Tables, Jumps
<1> HIDE DEF incr
<1>6. Leads(u, e) /\ SameBlocks(u, e)
  BY <1>5, OneOp
<1> HIDE DEF e
<1>7. Leads(e, after)
  <2>1. Front(e.fors) \in Stack(ForEntries(e.code))
    BY <1>3, <1>6, EntriesStay DEF Leads, SameBlocks
  <2>2. QED
    BY <1>6, <2>1, WithFors DEF Leads
<1> HIDE DEF after
<1>8. Leads(u, after)
  BY <1>6, <1>7, LeadsOn
<1>9. Leads(after, w)
  <2>1. /\ Woven(after) /\ {entry.skip} \cup entry.exits \in SUBSET Sites(after.code)
        /\ Here(after) \in Points(after.code)
    BY <1>4, <1>8, UnitIs DEF Leads, Grows
  <2>2. QED
    BY <1>1, <2>1, PatchLeads
<1>10. QED
  BY <1>8, <1>9, LeadsOn

LEMMA CompileWhileLeads ==
  ASSUME NEW u, Woven(u), NEW w \in CompileWhile(u)
  PROVE  Leads(u, w)
<1> DEFINE e == Emit(u, <<Expr(1), Op("JZ", 0)>>)
           entry == [start |-> Here(u), jz |-> Here(u) + 1, opening |-> Depths(u)]
<1>1. Len(u.whiles) < MaxNesting /\ w = [e EXCEPT !.whiles = Append(e.whiles, entry)]
  BY DEF CompileWhile, Provided
<1>2. /\ Plainly(u, Expr(1), Here(u) + 2)
      /\ Plainly(u, Op("JZ", 0), Here(u) + 2) /\ Op("JZ", 0).op = "JZ"
  BY PlainOp, PlainJump DEF OpNames, Expr, Checks, Inits, Tables, Jumps
<1>3. /\ Leads(u, e) /\ SameBlocks(u, e) /\ Here(u) \in Points(e.code)
      /\ Here(u) + 1 \in Sites(e.code)
  BY <1>2, TwoOps
<1> HIDE DEF e
<1>4. entry \in WhileEntries(e.code)
  BY <1>3, DepthsIn DEF WhileEntries
<1>5. Append(e.whiles, entry) \in Stack(WhileEntries(e.code))
  BY <1>1, <1>3, <1>4, UnitIs, Pushed DEF Leads, SameBlocks
<1>6. Leads(e, w)
  BY <1>1, <1>3, <1>5, WithWhiles DEF Leads
<1>7. QED
  BY <1>3, <1>6, LeadsOn

LEMMA CompileWendLeads ==
  ASSUME NEW u, Woven(u), NEW w \in CompileWend(u)
  PROVE  Leads(u, w)
<1> DEFINE entry == Last(u.whiles)
           e == Emit(u, <<Op("JMP", entry.start)>>)
           after == [e EXCEPT !.whiles = Front(e.whiles)]
<1>1. Closable(u, "whiles") /\ w = Patch(after, {entry.jz}, Here(after))
  BY DEF CompileWend
<1>2. u.whiles # <<>> /\ u.whiles \in Stack(WhileEntries(u.code)) /\ u.code \in Seq(Ops)
  BY <1>1, UnitIs DEF Closable
<1>3. /\ entry \in WhileEntries(u.code) /\ Front(u.whiles) \in Stack(WhileEntries(u.code))
  BY <1>2, StackTop
<1>4. entry.start \in Points(u.code) /\ entry.jz \in Sites(u.code) /\ entry.start \in Nat
  BY <1>2, <1>3, TargetsIn DEF WhileEntries
<1> HIDE DEF entry
<1>5. Leads(u, e) /\ SameBlocks(u, e)
  BY <1>4, PlainJump, OneOp
<1> HIDE DEF e
<1>6. Leads(e, after)
  <2>1. Front(e.whiles) \in Stack(WhileEntries(e.code))
    BY <1>3, <1>5, EntriesStay DEF Leads, SameBlocks
  <2>2. QED
    BY <1>5, <2>1, WithWhiles DEF Leads
<1> HIDE DEF after
<1>7. Leads(u, after)
  BY <1>5, <1>6, LeadsOn
<1>8. Leads(after, w)
  <2>1. /\ Woven(after) /\ {entry.jz} \in SUBSET Sites(after.code)
        /\ Here(after) \in Points(after.code)
    BY <1>4, <1>7, UnitIs DEF Leads, Grows
  <2>2. QED
    BY <1>1, <2>1, PatchLeads
<1>9. QED
  BY <1>7, <1>8, LeadsOn

LEMMA CompileDoLeads ==
  ASSUME NEW u, Woven(u), NEW while \in BOOLEAN, NEW w \in CompileDo(u, while)
  PROVE  Leads(u, w)
<1> DEFINE ops == IF while THEN <<Expr(1), Op("JZ", 0)>> ELSE <<>>
           e == Emit(u, ops)
           entry == [start |-> Here(u), exit |-> IF while THEN {Here(u) + 1} ELSE {},
                     exits |-> {}, opening |-> Depths(u)]
<1>1. Len(u.dos) < MaxNesting /\ w = [e EXCEPT !.dos = Append(e.dos, entry)]
  BY DEF CompileDo, Provided
<1>2. /\ Leads(u, e) /\ SameBlocks(u, e) /\ Here(u) \in Points(e.code)
      /\ while => Here(u) + 1 \in Sites(e.code)
  <2>1. CASE while
    <3>1. /\ Plainly(u, Expr(1), Here(u) + 2)
          /\ Plainly(u, Op("JZ", 0), Here(u) + 2) /\ Op("JZ", 0).op = "JZ"
      BY PlainOp, PlainJump DEF OpNames, Expr, Checks, Inits, Tables, Jumps
    <3>2. QED
      BY <2>1, <3>1, TwoOps
  <2>2. CASE ~while
    <3>1. e = u
      <4>1. u.code \o <<>> = u.code
        BY UnitIs, ConcatEmptySeq
      <4>2. e = [u EXCEPT !.code = u.code]
        BY <2>2, <4>1 DEF Emit
      <4>3. QED
        BY <4>2 DEF Woven, Units
    <3>2. QED
      BY <2>2, <3>1, LeadsHere, UnitIs DEF SameBlocks
  <2>3. QED
    BY <2>1, <2>2
<1> HIDE DEF e
<1>3. entry \in DoEntries(e.code)
  BY <1>2, DepthsIn DEF DoEntries
<1>4. Append(e.dos, entry) \in Stack(DoEntries(e.code))
  BY <1>1, <1>2, <1>3, UnitIs, Pushed DEF Leads, SameBlocks
<1>5. Leads(e, w)
  BY <1>1, <1>2, <1>4, WithDos DEF Leads
<1>6. QED
  BY <1>2, <1>5, LeadsOn

LEMMA CompileLoopLeads ==
  ASSUME NEW u, Woven(u), NEW until \in BOOLEAN, NEW w \in CompileLoop(u, until)
  PROVE  Leads(u, w)
<1> DEFINE entry == Last(u.dos)
           ops == IF until THEN <<Expr(1), Op("JZ", entry.start)>> ELSE <<Op("JMP", entry.start)>>
           e == Emit(u, ops)
           after == [e EXCEPT !.dos = Front(e.dos)]
<1>1. Closable(u, "dos") /\ w = Patch(after, entry.exit \cup entry.exits, Here(after))
  BY DEF CompileLoop
<1>2. u.dos # <<>> /\ u.dos \in Stack(DoEntries(u.code)) /\ u.code \in Seq(Ops)
  BY <1>1, UnitIs DEF Closable
<1>3. /\ entry \in DoEntries(u.code) /\ Front(u.dos) \in Stack(DoEntries(u.code))
  BY <1>2, StackTop
<1>4. /\ entry.start \in Points(u.code) /\ entry.exit \subseteq Sites(u.code)
      /\ entry.exits \subseteq Sites(u.code) /\ entry.start \in Nat
  BY <1>2, <1>3, TargetsIn DEF DoEntries
<1> HIDE DEF entry
<1>5. Leads(u, e) /\ SameBlocks(u, e)
  <2>1. CASE until
    <3>1. /\ Plainly(u, Expr(1), Here(u) + 2)
          /\ Plainly(u, Op("JZ", entry.start), Here(u) + 2)
      BY <1>4, PlainOp, PlainJump DEF OpNames, Expr, Checks, Inits, Tables, Jumps
    <3>2. QED
      BY <2>1, <3>1, TwoOps
  <2>2. CASE ~until
    <3>1. Plainly(u, Op("JMP", entry.start), 0)
      BY <1>4, PlainJump
    <3>2. QED
      BY <2>2, <3>1, OneOp
  <2>3. QED
    BY <2>1, <2>2
<1> HIDE DEF e
<1>6. Leads(e, after)
  <2>1. Front(e.dos) \in Stack(DoEntries(e.code))
    BY <1>3, <1>5, EntriesStay DEF Leads, SameBlocks
  <2>2. QED
    BY <1>5, <2>1, WithDos DEF Leads
<1> HIDE DEF after
<1>7. Leads(u, after)
  BY <1>5, <1>6, LeadsOn
<1>8. Leads(after, w)
  <2>1. /\ Woven(after) /\ entry.exit \cup entry.exits \in SUBSET Sites(after.code)
        /\ Here(after) \in Points(after.code)
    BY <1>4, <1>7, UnitIs DEF Leads, Grows
  <2>2. QED
    BY <1>1, <2>1, PatchLeads
<1>9. QED
  BY <1>7, <1>8, LeadsOn

LEMMA ExitLoopIs ==
  ASSUME NEW u, Woven(u), NEW discard \in Int
  PROVE  Plainly(u, ExitLoop(u, discard), 0) /\ ExitLoop(u, discard).op = "EXIT_LOOP"
<1>1. Op("EXIT_LOOP", 0) \in Ops /\ Op("EXIT_LOOP", 0).op = "EXIT_LOOP" /\ Op("EXIT_LOOP", 0).a = 0
  BY OpIs DEF OpNames
<1>2. Len(u.fors) \in Nat
  BY UnitIs, LenProperties DEF Stack
<1>3. /\ ExitLoop(u, discard) \in Ops /\ ExitLoop(u, discard).op = "EXIT_LOOP"
      /\ ExitLoop(u, discard).a = 0
  BY <1>1, <1>2 DEF ExitLoop, Ops
<1>4. QED
  BY <1>3 DEF Plainly, InMode, Checks, Inits, Tables

LEMMA CompileExitForLeads ==
  ASSUME NEW u, Woven(u), NEW w \in CompileExitFor(u)
  PROVE  Leads(u, w)
<1> DEFINE top == Len(u.fors)
           e == Emit(u, <<ExitLoop(u, 1)>>)
<1>1. u.fors # <<>> /\ w = AddExit(u, "fors", 1)
  BY DEF CompileExitFor
<1>2. w = [e EXCEPT !.fors[top].exits = @ \cup {Here(u)}]
  BY <1>1 DEF AddExit
<1>3. Leads(u, e) /\ SameBlocks(u, e) /\ Here(u) \in Sites(e.code)
  BY ExitLoopIs, OneOp
<1> HIDE DEF e
<1>4. e.fors = u.fors /\ e.fors \in Stack(ForEntries(e.code)) /\ Woven(e)
  BY <1>3, UnitIs DEF Leads, SameBlocks
<1>5. top \in DOMAIN e.fors /\ e.fors[top] \in ForEntries(e.code)
  BY <1>1, <1>4, StackTop
<1> DEFINE entry == [e.fors[top] EXCEPT !.exits = @ \cup {Here(u)}]
<1>6. entry \in ForEntries(e.code)
  BY <1>3, <1>5 DEF ForEntries
<1>7. w = [e EXCEPT !.fors = [e.fors EXCEPT ![top] = entry]]
  BY <1>2
<1> HIDE DEF entry
<1>8. Leads(e, w)
  BY <1>4, <1>5, <1>6, <1>7, TopChanged, WithFors
<1>9. QED
  BY <1>3, <1>8, LeadsOn

LEMMA CompileExitDoLeads ==
  ASSUME NEW u, Woven(u), NEW w \in CompileExitDo(u)
  PROVE  Leads(u, w)
<1> DEFINE top == Len(u.dos)
           discard == Len(u.fors) - Last(u.dos).opening.fors
           e == Emit(u, <<ExitLoop(u, discard)>>)
<1>1. u.dos # <<>> /\ w = AddExit(u, "dos", discard)
  BY DEF CompileExitDo
<1>2. w = [e EXCEPT !.dos[top].exits = @ \cup {Here(u)}]
  BY <1>1 DEF AddExit
<1>3. discard \in Int
  <2>1. Last(u.dos) \in DoEntries(u.code)
    BY <1>1, UnitIs, StackTop
  <2>2. Last(u.dos).opening.fors \in Nat
    BY <2>1 DEF DoEntries, Openings
  <2>3. Len(u.fors) \in Nat
    BY UnitIs, LenProperties DEF Stack
  <2>4. QED
    BY <2>2, <2>3
<1> HIDE DEF discard
<1>4. Leads(u, e) /\ SameBlocks(u, e) /\ Here(u) \in Sites(e.code)
  BY <1>3, ExitLoopIs, OneOp
<1> HIDE DEF e
<1>5. e.dos = u.dos /\ e.dos \in Stack(DoEntries(e.code)) /\ Woven(e)
  BY <1>4, UnitIs DEF Leads, SameBlocks
<1>6. top \in DOMAIN e.dos /\ e.dos[top] \in DoEntries(e.code)
  BY <1>1, <1>5, StackTop
<1> DEFINE entry == [e.dos[top] EXCEPT !.exits = @ \cup {Here(u)}]
<1>7. entry \in DoEntries(e.code)
  BY <1>4, <1>6 DEF DoEntries
<1>8. w = [e EXCEPT !.dos = [e.dos EXCEPT ![top] = entry]]
  BY <1>2
<1> HIDE DEF entry
<1>9. Leads(e, w)
  BY <1>5, <1>6, <1>7, <1>8, TopChanged, WithDos
<1>10. QED
  BY <1>4, <1>9, LeadsOn

LEMMA CompileBlockIfLeads ==
  ASSUME NEW u, Woven(u), NEW w \in CompileBlockIf(u)
  PROVE  Leads(u, w)
<1>1. Here(u) \in Nat
  BY UnitIs
<1>2. CASE Structured(u)
  <2> DEFINE e == Emit(u, <<Expr(1), Op("JZ", 0)>>)
             entry == [pending |-> Here(u) + 1, ends |-> {}, seenElse |-> FALSE,
                       opening |-> Depths(u)]
  <2>1. Len(u.ifs) < MaxNesting /\ w = [e EXCEPT !.ifs = Append(e.ifs, entry)]
    BY <1>2 DEF CompileBlockIf, Provided
  <2>2. /\ Plainly(u, Expr(1), Here(u) + 2)
        /\ Plainly(u, Op("JZ", 0), Here(u) + 2) /\ Op("JZ", 0).op = "JZ"
    BY PlainOp, PlainJump DEF OpNames, Expr, Checks, Inits, Tables, Jumps
  <2>3. Leads(u, e) /\ SameBlocks(u, e) /\ Here(u) + 1 \in Sites(e.code)
    BY <2>2, TwoOps
  <2> HIDE DEF e
  <2>4. entry \in IfEntries(e.code)
    BY <2>3, DepthsIn DEF IfEntries
  <2>5. Append(e.ifs, entry) \in Stack(IfEntries(e.code))
    BY <2>1, <2>3, <2>4, UnitIs, Pushed DEF Leads, SameBlocks
  <2>6. Leads(e, w)
    BY <2>1, <2>3, <2>5, WithIfs DEF Leads
  <2>7. QED
    BY <2>3, <2>6, LeadsOn
<1>3. CASE ~Structured(u)
  <2>1. w = Emit(u, <<Expr(1), Op("JZ", Here(u) + 2)>>)
    BY <1>3 DEF CompileBlockIf
  <2>2. Plainly(u, Expr(1), Here(u) + 2) /\ Plainly(u, Op("JZ", Here(u) + 2), Here(u) + 2)
    BY <1>1, PlainOp, PlainJump DEF OpNames, Expr, Checks, Inits, Tables, Jumps
  <2>3. QED
    BY <2>1, <2>2, TwoOps
<1>4. QED
  BY <1>2, <1>3

LEMMA CompileBranchLeads ==
  ASSUME NEW u, Woven(u), NEW elseif \in BOOLEAN, NEW w \in CompileBranch(u, elseif)
  PROVE  Leads(u, w)
<1> DEFINE top == Len(u.ifs)
           entry == u.ifs[top]
           jump == Emit(u, <<Op("JMP", 0)>>)
           body == Patch(jump, {entry.pending}, Here(u) + 1)
           ended == [entry EXCEPT !.ends = @ \cup {Here(u)}, !.pending = 0]
           tested == Emit(body, <<Expr(1), Op("JZ", 0)>>)
           waiting == [ended EXCEPT !.pending = Here(u) + 2]
           last == [ended EXCEPT !.seenElse = TRUE]
<1>1. /\ Closable(u, "ifs")
      /\ w = IF elseif THEN [tested EXCEPT !.ifs[top] = waiting] ELSE [body EXCEPT !.ifs[top] = last]
  BY DEF CompileBranch
<1>2. u.ifs # <<>> /\ u.ifs \in Stack(IfEntries(u.code)) /\ Here(u) \in Nat
  BY <1>1, UnitIs DEF Closable
<1>3. top \in DOMAIN u.ifs /\ entry \in IfEntries(u.code)
  BY <1>2, StackTop
<1>4. entry.pending \in Sites(u.code) /\ entry.ends \subseteq Sites(u.code)
  BY <1>3 DEF IfEntries
<1>5. /\ Leads(u, jump) /\ SameBlocks(u, jump) /\ Here(jump) = Here(u) + 1
      /\ Here(u) \in Sites(jump.code) /\ Here(u) + 1 \in Points(jump.code)
  BY PlainJump, OneOp
<1> HIDE DEF jump
<1>6. /\ Leads(jump, body) /\ SameBlocks(jump, body) /\ Here(body) = Here(u) + 1
      /\ Here(u) \in Sites(body.code)
  <2>1. Woven(jump) /\ {entry.pending} \in SUBSET Sites(jump.code)
    BY <1>4, <1>5 DEF Leads, Grows
  <2>2. QED
    BY <1>5, <2>1, PatchLeads
<1> HIDE DEF body
<1>7. Leads(u, body) /\ SameBlocks(u, body)
  BY <1>5, <1>6, LeadsOn DEF SameBlocks
<1>8. body.ifs = u.ifs /\ body.ifs \in Stack(IfEntries(body.code)) /\ Woven(body)
  BY <1>7, UnitIs DEF Leads, SameBlocks
<1>9. entry \in IfEntries(body.code) /\ ended \in IfEntries(body.code)
  <2>1. entry \in IfEntries(body.code)
    BY <1>3, <1>7 DEF IfEntries, Leads, Grows
  <2>2. 0 \in Sites(body.code)
    BY DEF Sites
  <2>3. QED
    BY <1>6, <2>1, <2>2 DEF IfEntries
<1>10. CASE elseif
  <2>1. /\ Plainly(body, Expr(1), Here(body) + 2)
        /\ Plainly(body, Op("JZ", 0), Here(body) + 2) /\ Op("JZ", 0).op = "JZ"
    BY PlainOp, PlainJump DEF OpNames, Expr, Checks, Inits, Tables, Jumps
  <2>2. /\ Leads(body, tested) /\ SameBlocks(body, tested) /\ Here(body) + 1 \in Sites(tested.code)
    BY <1>8, <2>1, TwoOps
  <2> HIDE DEF tested
  <2>3. tested.ifs = u.ifs /\ tested.ifs \in Stack(IfEntries(tested.code)) /\ Woven(tested)
    BY <1>8, <2>2, UnitIs DEF Leads, SameBlocks
  <2>4. Here(u) + 2 \in Sites(tested.code)
    BY <1>2, <1>6, <2>2
  <2>5. ended \in IfEntries(tested.code)
    BY <1>9, <2>2 DEF IfEntries, Leads, Grows
  <2> HIDE DEF ended, entry
  <2>6. waiting \in IfEntries(tested.code)
    BY <2>4, <2>5 DEF IfEntries
  <2>7. w = [tested EXCEPT !.ifs = [tested.ifs EXCEPT ![top] = waiting]]
    BY <1>1, <1>10
  <2> HIDE DEF waiting
  <2>8. Leads(tested, w)
    BY <1>3, <2>3, <2>6, <2>7, TopChanged, WithIfs
  <2>9. QED
    BY <1>7, <2>2, <2>8, LeadsOn
<1>11. CASE ~elseif
  <2> HIDE DEF ended, entry
  <2>1. last \in IfEntries(body.code)
    BY <1>9 DEF IfEntries
  <2>2. w = [body EXCEPT !.ifs = [body.ifs EXCEPT ![top] = last]]
    BY <1>1, <1>11
  <2> HIDE DEF last
  <2>3. Leads(body, w)
    BY <1>3, <1>8, <2>1, <2>2, TopChanged, WithIfs
  <2>4. QED
    BY <1>7, <2>3, LeadsOn
<1>12. QED
  BY <1>10, <1>11

LEMMA CompileEndIfLeads ==
  ASSUME NEW u, Woven(u), NEW w \in CompileEndIf(u)
  PROVE  Leads(u, w)
<1> DEFINE entry == Last(u.ifs)
           after == [u EXCEPT !.ifs = Front(u.ifs)]
<1>1. Closable(u, "ifs") /\ w = Patch(after, entry.ends \cup {entry.pending}, Here(u))
  BY DEF CompileEndIf
<1>2. u.ifs # <<>> /\ u.ifs \in Stack(IfEntries(u.code))
  BY <1>1, UnitIs DEF Closable
<1>3. entry \in IfEntries(u.code) /\ Front(u.ifs) \in Stack(IfEntries(u.code))
  BY <1>2, StackTop
<1>4. entry.pending \in Sites(u.code) /\ entry.ends \subseteq Sites(u.code)
  BY <1>3 DEF IfEntries
<1> HIDE DEF entry
<1>5. Leads(u, after)
  BY <1>3, WithIfs
<1> HIDE DEF after
<1>6. Leads(after, w)
  <2>1. /\ Woven(after) /\ entry.ends \cup {entry.pending} \in SUBSET Sites(after.code)
        /\ Here(u) \in Points(after.code)
    BY <1>4, <1>5, UnitIs DEF Leads, Grows
  <2>2. QED
    BY <1>1, <2>1, PatchLeads
<1>7. QED
  BY <1>5, <1>6, LeadsOn

LEMMA CompileSelectLeads ==
  ASSUME NEW u, Woven(u), NEW w \in CompileSelect(u)
  PROVE  Leads(u, w)
<1> DEFINE e == Emit(u, <<Expr(1)>>)
           entry == [pending |-> 0, ends |-> {}, seenCase |-> FALSE, seenElse |-> FALSE,
                     opening |-> Depths(u)]
<1>1. Len(u.selects) < MaxNesting /\ w = [e EXCEPT !.selects = Append(e.selects, entry)]
  BY DEF CompileSelect, Provided
<1>2. Plainly(u, Expr(1), 0)
  BY PlainOp DEF OpNames, Expr, Checks, Inits, Tables, Jumps
<1>3. Leads(u, e) /\ SameBlocks(u, e)
  BY <1>2, OneOp
<1> HIDE DEF e
<1>4. entry \in SelectEntries(e.code)
  BY <1>3, DepthsIn DEF SelectEntries, Sites
<1>5. Append(e.selects, entry) \in Stack(SelectEntries(e.code))
  BY <1>1, <1>3, <1>4, UnitIs, Pushed DEF Leads, SameBlocks
<1>6. Leads(e, w)
  BY <1>1, <1>3, <1>5, WithSelects DEF Leads
<1>7. QED
  BY <1>3, <1>6, LeadsOn

-----------------------------------------------------------------------------
(* The tests of one CASE row.                                              *)

LEMMA LeastElement ==
  ASSUME NEW T, T \subseteq Nat, T # {}
  PROVE  \E m \in T : \A k \in T : m <= k
<1>1. PICK m \in T : \A k \in T : <<k, m>> \notin OpToRel(<, Nat)
  BY NatLessThanWellFounded, WFMin
<1>2. \A k \in T : k \in Nat /\ ~(k < m)
  BY <1>1 DEF OpToRel
<1>3. \A k \in T : m <= k
  BY <1>2
<1>4. QED
  BY <1>3

LEMMA UpTo ==
  ASSUME NEW n \in Nat, NEW T, 0 \in T, \A i \in 1 .. n : i - 1 \in T => i \in T
  PROVE  0 .. n \subseteq T
<1> DEFINE missing == {i \in 0 .. n : i \notin T}
<1>1. SUFFICES ASSUME missing # {}
               PROVE  FALSE
  OBVIOUS
<1>2. missing \subseteq Nat
  OBVIOUS
<1>3. PICK m \in missing : \A k \in missing : m <= k
  BY <1>1, <1>2, LeastElement
<1>4. m \in 1 .. n /\ m - 1 \in 0 .. n /\ m - 1 \notin missing
  BY <1>3
<1>5. QED
  BY <1>3, <1>4

(* A function given by its first value and its steps exists.               *)
Steps(S, n, x, step) ==
    {f \in [0 .. n -> S] : f[0] = x /\ \A i \in 1 .. n : f[i] = step[<<i, f[i - 1]>>]}

LEMMA StepsExist ==
  ASSUME NEW S, NEW n \in Nat, NEW x \in S, NEW step \in [(1 .. n) \X S -> S]
  PROVE  Steps(S, n, x, step) # {}
<1> DEFINE T == {m \in 0 .. n : \E f \in [0 .. m -> S] :
                    f[0] = x /\ \A i \in 1 .. m : f[i] = step[<<i, f[i - 1]>>]}
<1>1. 0 \in T
  <2> DEFINE g == [i \in 0 .. 0 |-> x]
  <2>1. g \in [0 .. 0 -> S] /\ g[0] = x
    OBVIOUS
  <2> HIDE DEF g
  <2>2. \A i \in 1 .. 0 : g[i] = step[<<i, g[i - 1]>>]
    OBVIOUS
  <2>3. QED
    BY <2>1, <2>2
<1>2. ASSUME NEW m \in 1 .. n, m - 1 \in T
      PROVE  m \in T
  <2>1. PICK f \in [0 .. m - 1 -> S] :
            f[0] = x /\ \A i \in 1 .. m - 1 : f[i] = step[<<i, f[i - 1]>>]
    BY <1>2
  <2> DEFINE g == [i \in 0 .. m |-> IF i = m THEN step[<<m, f[m - 1]>>] ELSE f[i]]
  <2>2. g \in [0 .. m -> S]
    BY <2>1
  <2>3. g[0] = x
    BY <2>1
  <2>4. ASSUME NEW i \in 1 .. m
        PROVE  g[i] = step[<<i, g[i - 1]>>]
    <3>1. i - 1 \in 0 .. m /\ i - 1 # m /\ i \in 0 .. m
      OBVIOUS
    <3>2. g[i - 1] = f[i - 1]
      BY <3>1
    <3>3. CASE i = m
      <4>1. g[i] = step[<<m, f[m - 1]>>]
        BY <3>1, <3>3
      <4>2. QED
        BY <3>2, <3>3, <4>1
    <3>4. CASE i # m
      <4>1. g[i] = f[i] /\ i \in 1 .. m - 1
        BY <3>1, <3>4
      <4>2. QED
        BY <2>1, <3>2, <4>1
    <3>5. QED
      BY <3>3, <3>4
  <2> HIDE DEF g
  <2>5. QED
    BY <2>2, <2>3, <2>4
<1>3. 0 .. n \subseteq T
  <2> HIDE DEF T
  <2>1. QED
    BY <1>1, <1>2, UpTo
<1>4. n \in T
  BY <1>3
<1>5. QED
  BY <1>4 DEF Steps

Literals == {"exact", "range"}

TestOps(at, end) ==
    {o \in Ops : o.op \in {"DUP", "TEST", "JZ", "JMP", "DROP"} /\ o.a \in {0} \cup (at .. end)}

LEMMA TwoJoined ==
  ASSUME NEW S, NEW s \in Seq(S), NEW t \in Seq(S)
  PROVE  /\ s \o t \in Seq(S) /\ Len(s \o t) = Len(s) + Len(t)
         /\ Len(s) \in Nat /\ Len(t) \in Nat
  BY ConcatProperties, LenProperties

LEMMA LiteralTestIs ==
  ASSUME NEW at \in Nat, NEW end \in Nat, NEW literal \in Literals,
         NEW fail \in at .. end, NEW match \in at .. end
  PROVE  /\ LiteralTest(literal, fail, match) \in Seq(TestOps(at, end))
         /\ Len(LiteralTest(literal, fail, match)) = TestLength(literal)
<1> DEFINE S == TestOps(at, end)
           test == <<Op("DUP", 0), Op("TEST", 0), Op("JZ", fail)>>
<1>1. fail \in Nat /\ match \in Nat
  OBVIOUS
<1>2. /\ Op("DUP", 0) \in S /\ Op("TEST", 0) \in S /\ Op("JZ", fail) \in S /\ Op("JMP", match) \in S
  <2>1. /\ Op("DUP", 0) \in Ops /\ Op("DUP", 0).op = "DUP" /\ Op("DUP", 0).a = 0
        /\ Op("TEST", 0) \in Ops /\ Op("TEST", 0).op = "TEST" /\ Op("TEST", 0).a = 0
    BY OpIs DEF OpNames
  <2>2. /\ Op("JZ", fail) \in Ops /\ Op("JZ", fail).op = "JZ" /\ Op("JZ", fail).a = fail
        /\ Op("JMP", match) \in Ops /\ Op("JMP", match).op = "JMP" /\ Op("JMP", match).a = match
    BY <1>1, OpIs DEF OpNames
  <2>3. QED
    BY <2>1, <2>2 DEF TestOps
<1> HIDE DEF S
<1>3. test \in Seq(S) /\ Len(test) = 3 /\ <<Op("JMP", match)>> \in Seq(S)
      /\ Len(<<Op("JMP", match)>>) = 1
  BY <1>2
<1> HIDE DEF test
<1>4. /\ test \o test \in Seq(S) /\ Len(test \o test) = 6
  <2>1. test \o test \in Seq(S) /\ Len(test \o test) = Len(test) + Len(test)
    BY <1>3, TwoJoined
  <2>2. QED
    BY <1>3, <2>1
<1>5. /\ test \o <<Op("JMP", match)>> \in Seq(S) /\ Len(test \o <<Op("JMP", match)>>) = 4
      /\ (test \o test) \o <<Op("JMP", match)>> \in Seq(S)
      /\ Len((test \o test) \o <<Op("JMP", match)>>) = 7
  BY <1>3, <1>4, TwoJoined
<1>6. CASE literal = "range"
  BY <1>5, <1>6 DEF LiteralTest, TestLength, S, test
<1>7. CASE literal # "range"
  BY <1>5, <1>7 DEF LiteralTest, TestLength, S, test
<1>8. QED
  BY <1>6, <1>7

LEMMA CaseTestsAre ==
  ASSUME NEW at \in Nat, NEW literals \in Seq(Literals)
  PROVE  LET o == CaseTests(at, literals)
         IN  /\ o \in Seq(TestOps(at, at + Len(o))) /\ Len(o) >= 2
             /\ o[Len(o) - 1] = Op("JMP", 0)
<1> DEFINE n == Len(literals)
           F(f) == [i \in 0 .. n |-> IF i = 0 THEN at ELSE f[i - 1] + TestLength(literals[i])]
           startOf == CHOOSE f : f = F(f)
           noMatch == startOf[n]
           G(f) == [i \in 0 .. n |-> IF i = 0 THEN <<>>
                        ELSE f[i - 1] \o LiteralTest(literals[i], startOf[i], noMatch + 1)]
           tests == CHOOSE f : f = G(f)
           o == CaseTests(at, literals)
<1>1. o = tests[n] \o <<Op("JMP", 0), Op("DROP", 0)>>
  BY DEF CaseTests
<1>2. n \in Nat /\ \A i \in 1 .. n : literals[i] \in Literals
  BY LenProperties, ElementOfSeq
<1>3. \A i \in 1 .. n : TestLength(literals[i]) \in Nat
  BY DEF TestLength
<1> HIDE DEF n, o
<1>4. startOf = F(startOf)
  <2> DEFINE step == [p \in (1 .. n) \X Nat |-> p[2] + TestLength(literals[p[1]])]
  <2>1. \A i \in 1 .. n : \A y \in Nat : step[<<i, y>>] = y + TestLength(literals[i])
    OBVIOUS
  <2>a. step \in [(1 .. n) \X Nat -> Nat]
    BY <1>3
  <2> HIDE DEF step
  <2>b. Steps(Nat, n, at, step) # {}
    BY <1>2, <2>a, StepsExist
  <2>2. PICK f \in [0 .. n -> Nat] : f[0] = at /\ \A i \in 1 .. n : f[i] = step[<<i, f[i - 1]>>]
    BY <2>b DEF Steps
  <2>3. ASSUME NEW i \in 1 .. n
        PROVE  f[i] = f[i - 1] + TestLength(literals[i])
    <3>1. f[i - 1] \in Nat
      BY <1>2, <2>2
    <3>2. QED
      BY <2>1, <2>2, <3>1
  <2>4. f = F(f)
    <3>1. \A i \in 0 .. n : f[i] = F(f)[i]
      BY <1>2, <2>2, <2>3
    <3>2. DOMAIN f = 0 .. n /\ DOMAIN F(f) = 0 .. n /\ f = [i \in DOMAIN f |-> f[i]]
      BY <2>2
    <3>3. QED
      BY <3>1, <3>2
  <2>5. QED
    BY <2>4
<1> HIDE DEF startOf
<1>5. startOf[0] = at /\ \A i \in 1 .. n : startOf[i] = startOf[i - 1] + TestLength(literals[i])
  BY <1>2, <1>4
<1>6. \A j \in 0 .. n : startOf[j] \in Nat /\ \A i \in 0 .. j : at <= startOf[i] /\ startOf[i] <= startOf[j]
  <2> DEFINE T == {j \in 0 .. n : startOf[j] \in Nat /\
                        \A i \in 0 .. j : startOf[i] \in Nat /\ at <= startOf[i] /\ startOf[i] <= startOf[j]}
  <2>1. 0 \in T
    BY <1>2, <1>5
  <2>2. ASSUME NEW j \in 1 .. n, j - 1 \in T
        PROVE  j \in T
    <3>1. startOf[j] \in Nat /\ startOf[j - 1] <= startOf[j] /\ startOf[j - 1] \in Nat
      BY <1>3, <1>5, <2>2
    <3>2. ASSUME NEW i \in 0 .. j
          PROVE  startOf[i] \in Nat /\ at <= startOf[i] /\ startOf[i] <= startOf[j]
      <4>1. CASE i = j
        <5>1. at <= startOf[j - 1]
          BY <2>2
        <5>2. QED
          BY <3>1, <4>1, <5>1
      <4>2. CASE i # j
        <5>1. i \in 0 .. j - 1
          BY <4>2
        <5>2. startOf[i] \in Nat /\ at <= startOf[i] /\ startOf[i] <= startOf[j - 1]
          BY <2>2, <5>1
        <5>3. QED
          BY <3>1, <5>2
      <4>3. QED
        BY <4>1, <4>2
    <3>3. QED
      BY <3>1, <3>2
  <2>3. 0 .. n \subseteq T
    <3> HIDE DEF T
    <3>1. QED
      BY <1>2, <2>1, <2>2, UpTo
  <2>4. QED
    BY <2>3
<1>7. noMatch \in Nat /\ at <= noMatch /\ \A i \in 0 .. n : startOf[i] \in at .. noMatch
  BY <1>2, <1>6
<1> HIDE DEF noMatch
<1> DEFINE end == noMatch + 2
           S == TestOps(at, end)
<1>8. \A i \in 1 .. n : /\ LiteralTest(literals[i], startOf[i], noMatch + 1) \in Seq(S)
                        /\ Len(LiteralTest(literals[i], startOf[i], noMatch + 1)) = TestLength(literals[i])
  <2>1. \A i \in 1 .. n : startOf[i] \in at .. end
    BY <1>2, <1>7
  <2>2. noMatch + 1 \in at .. end /\ end \in Nat
    BY <1>7
  <2> HIDE DEF end
  <2>3. QED
    BY <1>2, <2>1, <2>2, LiteralTestIs
<1> HIDE DEF S
<1>9. /\ \A i \in 0 .. n : tests[i] \in Seq(S)
      /\ tests[0] = <<>>
      /\ \A i \in 1 .. n : tests[i] = tests[i - 1] \o LiteralTest(literals[i], startOf[i], noMatch + 1)
  <2> DEFINE step == [p \in (1 .. n) \X Seq(S) |->
                        p[2] \o LiteralTest(literals[p[1]], startOf[p[1]], noMatch + 1)]
  <2>1. \A i \in 1 .. n : \A y \in Seq(S) :
            step[<<i, y>>] = y \o LiteralTest(literals[i], startOf[i], noMatch + 1)
    OBVIOUS
  <2>a. step \in [(1 .. n) \X Seq(S) -> Seq(S)]
    <3>1. ASSUME NEW p \in (1 .. n) \X Seq(S)
          PROVE  p[2] \o LiteralTest(literals[p[1]], startOf[p[1]], noMatch + 1) \in Seq(S)
      <4>1. p[1] \in 1 .. n /\ p[2] \in Seq(S)
        OBVIOUS
      <4>2. QED
        BY <1>8, <4>1, TwoJoined
    <3>2. QED
      BY <3>1
  <2> HIDE DEF step
  <2>2. <<>> \in Seq(S)
    OBVIOUS
  <2>3. Steps(Seq(S), n, <<>>, step) # {}
    BY <1>2, <2>a, <2>2, StepsExist
  <2>4. PICK f \in [0 .. n -> Seq(S)] : f[0] = <<>> /\ \A i \in 1 .. n : f[i] = step[<<i, f[i - 1]>>]
    BY <2>3 DEF Steps
  <2>5. \A i \in 1 .. n : f[i] = f[i - 1] \o LiteralTest(literals[i], startOf[i], noMatch + 1)
    <3>1. \A i \in 1 .. n : f[i - 1] \in Seq(S)
      BY <1>2, <2>4
    <3>2. QED
      BY <2>1, <2>4, <3>1
  <2>6. f = G(f)
    <3>1. ASSUME NEW i \in 0 .. n
          PROVE  f[i] = G(f)[i]
      <4>1. CASE i = 0
        BY <2>4, <4>1
      <4>2. CASE i # 0
        <5>1. i \in 1 .. n
          BY <1>2, <4>2
        <5>2. QED
          BY <2>5, <4>2, <5>1
      <4>3. QED
        BY <4>1, <4>2
    <3>2. DOMAIN f = 0 .. n /\ DOMAIN G(f) = 0 .. n /\ f = [i \in DOMAIN f |-> f[i]]
      BY <2>4
    <3>3. QED
      BY <3>1, <3>2
  <2>7. tests = G(tests)
    BY <2>6
  <2> HIDE DEF tests
  <2>b. tests[0] = <<>>
    BY <1>2, <2>7
  <2>c. ASSUME NEW i \in 1 .. n
        PROVE  tests[i] = tests[i - 1] \o LiteralTest(literals[i], startOf[i], noMatch + 1)
    <3>1. i \in 0 .. n /\ i # 0
      BY <1>2
    <3>2. G(tests)[i] = tests[i - 1] \o LiteralTest(literals[i], startOf[i], noMatch + 1)
      BY <3>1
    <3> HIDE DEF G
    <3>3. QED
      BY <2>7, <3>2
  <2> DEFINE T == {i \in 0 .. n : tests[i] \in Seq(S)}
  <2>8. 0 .. n \subseteq T
    <3>1. 0 \in T
      <4>1. tests[0] \in Seq(S)
        BY <2>2, <2>b
      <4>2. 0 \in 0 .. n
        BY <1>2
      <4>3. QED
        BY <4>1, <4>2
    <3>2. ASSUME NEW i \in 1 .. n, i - 1 \in T
          PROVE  i \in T
      <4>1. tests[i] = tests[i - 1] \o LiteralTest(literals[i], startOf[i], noMatch + 1)
        BY <2>c
      <4>2. /\ tests[i - 1] \in Seq(S) /\ i \in 0 .. n
            /\ LiteralTest(literals[i], startOf[i], noMatch + 1) \in Seq(S)
        BY <1>2, <1>8, <3>2
      <4>3. tests[i] \in Seq(S)
        BY <4>1, <4>2, TwoJoined
      <4>4. QED
        BY <4>2, <4>3
    <3> HIDE DEF T
    <3>3. QED
      BY <1>2, <3>1, <3>2, UpTo
  <2>9. QED
    BY <2>8, <2>b, <2>c
<1> HIDE DEF tests
<1>11. \A i \in 0 .. n : at + Len(tests[i]) = startOf[i]
  <2> DEFINE T == {i \in 0 .. n : at + Len(tests[i]) = startOf[i]}
  <2>1. 0 \in T
    BY <1>2, <1>5, <1>9
  <2>2. ASSUME NEW i \in 1 .. n, i - 1 \in T
        PROVE  i \in T
    <3>1. tests[i - 1] \in Seq(S) /\ at + Len(tests[i - 1]) = startOf[i - 1]
      BY <1>9, <2>2
    <3> DEFINE test == LiteralTest(literals[i], startOf[i], noMatch + 1)
    <3>2. /\ test \in Seq(S) /\ Len(test) = TestLength(literals[i])
          /\ tests[i] = tests[i - 1] \o test
      BY <1>8, <1>9
    <3> HIDE DEF test
    <3> DEFINE before == tests[i - 1]
    <3>a. before \in Seq(S) /\ tests[i] = before \o test /\ before = tests[i - 1]
      BY <3>1, <3>2
    <3> HIDE DEF before
    <3>b. Len(tests[i]) = Len(before) + Len(test) /\ Len(before) \in Nat
      BY <3>a, <3>2, TwoJoined
    <3>3. Len(tests[i]) = Len(tests[i - 1]) + TestLength(literals[i]) /\ Len(tests[i - 1]) \in Nat
      BY <3>a, <3>b, <3>2
    <3>4. startOf[i] = startOf[i - 1] + TestLength(literals[i]) /\ TestLength(literals[i]) \in Nat
      BY <1>3, <1>5
    <3>5. at + Len(tests[i]) = startOf[i] /\ i \in 0 .. n
      BY <1>2, <3>1, <3>3, <3>4
    <3>6. QED
      BY <3>5
  <2>3. 0 .. n \subseteq T
    <3> HIDE DEF T
    <3>1. QED
      BY <1>2, <2>1, <2>2, UpTo
  <2>4. QED
    BY <2>3
<1>12. tests[n] \in Seq(S) /\ at + Len(tests[n]) = noMatch
  <2>1. n \in 0 .. n
    BY <1>2
  <2>2. tests[n] \in Seq(S) /\ at + Len(tests[n]) = startOf[n]
    BY <1>9, <1>11, <2>1
  <2>3. QED
    BY <2>2 DEF noMatch
<1> DEFINE tail == <<Op("JMP", 0), Op("DROP", 0)>>
<1>13. tail \in Seq(S) /\ Len(tail) = 2 /\ tail[1] = Op("JMP", 0)
  <2>1. /\ Op("JMP", 0) \in Ops /\ Op("JMP", 0).op = "JMP" /\ Op("JMP", 0).a = 0
        /\ Op("DROP", 0) \in Ops /\ Op("DROP", 0).op = "DROP" /\ Op("DROP", 0).a = 0
    BY OpIs DEF OpNames
  <2>2. Op("JMP", 0) \in S /\ Op("DROP", 0) \in S
    BY <2>1 DEF S, TestOps
  <2>3. QED
    BY <2>2
<1> HIDE DEF tail
<1>14. /\ o \in Seq(S) /\ Len(o) = Len(tests[n]) + 2 /\ Len(tests[n]) \in Nat
       /\ o[Len(tests[n]) + 1] = tail[1]
  <2>1. o = tests[n] \o tail
    BY <1>1 DEF tail
  <2>2. Len(tests[n]) \in Nat
    BY <1>12, LenProperties
  <2>3. /\ tests[n] \o tail \in Seq(S) /\ Len(tests[n] \o tail) = Len(tests[n]) + Len(tail)
        /\ \A i \in 1 .. Len(tests[n]) + Len(tail) : (tests[n] \o tail)[i] =
              IF i <= Len(tests[n]) THEN tests[n][i] ELSE tail[i - Len(tests[n])]
    BY <1>12, <1>13, ConcatProperties
  <2>4. Len(tests[n]) + 1 \in 1 .. Len(tests[n]) + Len(tail)
    BY <1>13, <2>2
  <2>5. QED
    BY <1>13, <2>1, <2>2, <2>3, <2>4
<1>15. Len(o) - 1 = Len(tests[n]) + 1 /\ Len(o) >= 2 /\ at + Len(o) = end
  BY <1>12, <1>14
<1>16. QED
  BY <1>13, <1>14, <1>15 DEF S, o

LEMMA EndCaseLeads ==
  ASSUME NEW u, Woven(u), u.selects # <<>>
  PROVE  /\ Leads(u, EndCase(u)) /\ Len(EndCase(u).selects) = Len(u.selects)
         /\ EndCase(u).selects # <<>>
<1> DEFINE top == Len(u.selects)
           entry == u.selects[top]
           jump == Emit(u, <<Op("JMP", 0)>>)
           body == Patch(jump, {entry.pending}, Here(u) + 1)
           ended == [entry EXCEPT !.ends = @ \cup {Here(u)}, !.pending = 0]
           seen == [entry EXCEPT !.seenCase = TRUE]
           w == EndCase(u)
<1>1. w = IF entry.seenCase THEN [body EXCEPT !.selects[top] = ended]
          ELSE [u EXCEPT !.selects[top].seenCase = TRUE]
  BY DEF EndCase
<1>2. u.selects \in Stack(SelectEntries(u.code)) /\ Here(u) \in Nat
  BY UnitIs
<1>3. top \in DOMAIN u.selects /\ entry \in SelectEntries(u.code)
  BY <1>2, StackTop
<1>4. entry.pending \in Sites(u.code) /\ entry.ends \subseteq Sites(u.code)
  BY <1>3 DEF SelectEntries
<1> HIDE DEF w
<1>6. CASE entry.seenCase
  <2>1. /\ Leads(u, jump) /\ SameBlocks(u, jump) /\ Here(jump) = Here(u) + 1
        /\ Here(u) \in Sites(jump.code) /\ Here(u) + 1 \in Points(jump.code)
    BY PlainJump, OneOp
  <2> HIDE DEF jump
  <2>2. /\ Leads(jump, body) /\ SameBlocks(jump, body) /\ Here(u) \in Sites(body.code)
    <3>1. Woven(jump) /\ {entry.pending} \in SUBSET Sites(jump.code)
      BY <1>4, <2>1 DEF Leads, Grows
    <3>2. QED
      BY <2>1, <3>1, PatchLeads
  <2> HIDE DEF body
  <2>3. Leads(u, body) /\ SameBlocks(u, body)
    BY <2>1, <2>2, LeadsOn DEF SameBlocks
  <2>4. body.selects = u.selects /\ body.selects \in Stack(SelectEntries(body.code)) /\ Woven(body)
    BY <2>3, UnitIs DEF Leads, SameBlocks
  <2>5. ended \in SelectEntries(body.code)
    <3>1. entry \in SelectEntries(body.code)
      BY <1>3, <2>3 DEF SelectEntries, Leads, Grows
    <3>2. 0 \in Sites(body.code)
      BY DEF Sites
    <3>3. QED
      BY <2>2, <3>1, <3>2 DEF SelectEntries
  <2>6. w = [body EXCEPT !.selects = [body.selects EXCEPT ![top] = ended]]
    BY <1>1, <1>6
  <2> HIDE DEF ended
  <2>7. Leads(body, w)
    BY <1>3, <2>4, <2>5, <2>6, TopChanged, WithSelects
  <2>8. w.selects = [u.selects EXCEPT ![top] = ended]
    BY <2>4, <2>6 DEF Woven, Units
  <2>9. Len(w.selects) = Len(u.selects) /\ w.selects # <<>>
    <3>1. u.selects \in Seq(SelectEntries(u.code))
      BY <1>2 DEF Stack
    <3>2. Len(w.selects) = Len(u.selects) /\ DOMAIN w.selects = DOMAIN u.selects
      <4>1. DOMAIN u.selects = 1 .. Len(u.selects) /\ Len(u.selects) \in Nat
        BY <3>1, LenProperties
      <4>2. DOMAIN w.selects = 1 .. Len(u.selects)
        BY <2>8, <4>1
      <4>3. QED
        BY <4>1, <4>2
    <3>3. QED
      BY <1>3, <3>2
  <2>10. QED
    BY <2>3, <2>7, <2>9, LeadsOn DEF w
<1>7. CASE ~entry.seenCase
  <2>1. seen \in SelectEntries(u.code)
    BY <1>3 DEF SelectEntries
  <2>2. w = [u EXCEPT !.selects = [u.selects EXCEPT ![top] = seen]]
    BY <1>1, <1>7
  <2> HIDE DEF seen
  <2>3. Leads(u, w)
    BY <1>2, <1>3, <2>1, <2>2, TopChanged, WithSelects
  <2>4. w.selects = [u.selects EXCEPT ![top] = seen]
    BY <2>2 DEF Woven, Units
  <2>5. Len(w.selects) = Len(u.selects) /\ w.selects # <<>>
    <3>1. u.selects \in Seq(SelectEntries(u.code))
      BY <1>2 DEF Stack
    <3>2. Len(w.selects) = Len(u.selects) /\ DOMAIN w.selects = DOMAIN u.selects
      <4>1. DOMAIN u.selects = 1 .. Len(u.selects) /\ Len(u.selects) \in Nat
        BY <3>1, LenProperties
      <4>2. DOMAIN w.selects = 1 .. Len(u.selects)
        BY <2>4, <4>1
      <4>3. QED
        BY <4>1, <4>2
    <3>3. QED
      BY <1>3, <3>2
  <2>6. QED
    BY <2>3, <2>5 DEF w
<1>8. QED
  BY <1>6, <1>7

LEMMA CompileCaseLeads ==
  ASSUME NEW u, Woven(u), NEW literals \in Seq(Literals), NEW w \in CompileCase(u, literals)
  PROVE  Leads(u, w)
<1> DEFINE top == Len(u.selects)
           above == EndCase(u)
           o == CaseTests(Here(above), literals)
           e == Emit(above, o)
<1>1. Closable(u, "selects") /\ w = [e EXCEPT !.selects[top].pending = Here(e) - 2]
  BY DEF CompileCase
<1>2. u.selects # <<>>
  BY <1>1 DEF Closable
<1>3. Leads(u, above) /\ Len(above.selects) = top /\ above.selects # <<>>
  BY <1>2, EndCaseLeads
<1> HIDE DEF above, top
<1>4. /\ Woven(above) /\ Here(above) \in Nat /\ Len(above.code) \in Nat
      /\ Here(above) = Len(above.code) + 1
  BY <1>3, UnitIs DEF Leads
<1>5. /\ o \in Seq(TestOps(Here(above), Here(above) + Len(o))) /\ Len(o) >= 2
      /\ o[Len(o) - 1] = Op("JMP", 0)
  BY <1>4, CaseTestsAre
<1> HIDE DEF o
<1> DEFINE S == TestOps(Here(above), Here(above) + Len(o))
<1>6. o \in Seq(Ops) /\ DOMAIN o = 1 .. Len(o) /\ Len(o) \in Nat /\ \A k \in DOMAIN o : o[k] \in S
  <2>1. S \subseteq Ops
    BY DEF TestOps
  <2> HIDE DEF S
  <2>2. o \in Seq(S)
    BY <1>5 DEF S
  <2>3. o \in Seq(Ops)
    BY <2>1, <2>2, SeqMonotonic
  <2>4. DOMAIN o = 1 .. Len(o) /\ Len(o) \in Nat
    BY <2>2, LenProperties
  <2>5. \A k \in 1 .. Len(o) : o[k] \in S
    BY <2>2, ElementOfSeq
  <2>6. QED
    BY <2>3, <2>4, <2>5
<1>7. /\ Simple(o) /\ \A k \in DOMAIN o : InMode(above.mode, o[k])
      /\ \A k \in DOMAIN o : o[k].op \in Jumps /\ ~Waits(o[k]) =>
            o[k].a \in {0} \cup Points(above.code) \cup (Here(above) .. Here(above) + Len(o))
  BY <1>6 DEF TestOps, Simple, InMode, Checks, Inits, Tables
<1> HIDE DEF S
<1>8. /\ Leads(above, e) /\ SameBlocks(above, e) /\ Here(e) = Here(above) + Len(o)
      /\ \A k \in DOMAIN o :
            o[k].op \in {"JMP", "JZ", "EXIT_LOOP"} => Len(above.code) + k \in Sites(e.code)
  BY <1>4, <1>6, <1>7, SimpleLeads
<1> HIDE DEF e
<1>9. Here(e) - 2 \in Sites(e.code)
  <2>1. Len(o) - 1 \in DOMAIN o /\ Here(e) - 2 = Len(above.code) + (Len(o) - 1)
    BY <1>4, <1>5, <1>6, <1>8
  <2>2. o[Len(o) - 1].op = "JMP"
    BY <1>5, OpIs DEF OpNames
  <2>3. QED
    BY <1>8, <2>1, <2>2
<1>10. /\ e.selects = above.selects /\ e.selects \in Stack(SelectEntries(e.code)) /\ Woven(e)
  BY <1>8, UnitIs DEF Leads, SameBlocks
<1>11. top \in DOMAIN e.selects /\ e.selects[top] \in SelectEntries(e.code)
  <2>1. e.selects # <<>> /\ Len(e.selects) = top
    BY <1>3, <1>10
  <2>2. Len(e.selects) \in DOMAIN e.selects /\ e.selects[Len(e.selects)] \in SelectEntries(e.code)
    BY <1>10, <2>1, StackTop
  <2>3. QED
    BY <2>1, <2>2
<1> DEFINE entry == [e.selects[top] EXCEPT !.pending = Here(e) - 2]
<1>12. entry \in SelectEntries(e.code)
  BY <1>9, <1>11 DEF SelectEntries
<1>13. w = [e EXCEPT !.selects = [e.selects EXCEPT ![top] = entry]]
  BY <1>1
<1> HIDE DEF entry
<1>14. Leads(e, w)
  BY <1>10, <1>11, <1>12, <1>13, TopChanged, WithSelects
<1>15. QED
  BY <1>3, <1>8, <1>14, LeadsOn

LEMMA CompileCaseElseLeads ==
  ASSUME NEW u, Woven(u), NEW w \in CompileCaseElse(u)
  PROVE  Leads(u, w)
<1> DEFINE top == Len(u.selects)
           above == EndCase(u)
           e == Emit(above, <<Op("DROP", 0)>>)
<1>1. Closable(u, "selects") /\ w = [e EXCEPT !.selects[top].seenElse = TRUE]
  BY DEF CompileCaseElse
<1>2. u.selects # <<>>
  BY <1>1 DEF Closable
<1>3. Leads(u, above) /\ Len(above.selects) = top /\ above.selects # <<>>
  BY <1>2, EndCaseLeads
<1> HIDE DEF above, top
<1>4. Woven(above)
  BY <1>3 DEF Leads
<1>5. Plainly(above, Op("DROP", 0), 0)
  BY PlainOp DEF OpNames, Checks, Inits, Tables, Jumps
<1>6. Leads(above, e) /\ SameBlocks(above, e)
  BY <1>4, <1>5, OneOp
<1> HIDE DEF e
<1>7. /\ e.selects = above.selects /\ e.selects \in Stack(SelectEntries(e.code)) /\ Woven(e)
  BY <1>6, UnitIs DEF Leads, SameBlocks
<1>8. top \in DOMAIN e.selects /\ e.selects[top] \in SelectEntries(e.code)
  <2>1. e.selects # <<>> /\ Len(e.selects) = top
    BY <1>3, <1>7
  <2>2. Len(e.selects) \in DOMAIN e.selects /\ e.selects[Len(e.selects)] \in SelectEntries(e.code)
    BY <1>7, <2>1, StackTop
  <2>3. QED
    BY <2>1, <2>2
<1> DEFINE entry == [e.selects[top] EXCEPT !.seenElse = TRUE]
<1>9. entry \in SelectEntries(e.code)
  BY <1>8 DEF SelectEntries
<1>10. w = [e EXCEPT !.selects = [e.selects EXCEPT ![top] = entry]]
  BY <1>1
<1> HIDE DEF entry
<1>11. Leads(e, w)
  BY <1>7, <1>8, <1>9, <1>10, TopChanged, WithSelects
<1>12. QED
  BY <1>3, <1>6, <1>11, LeadsOn

LEMMA CompileEndSelectLeads ==
  ASSUME NEW u, Woven(u), NEW w \in CompileEndSelect(u)
  PROVE  Leads(u, w)
<1> DEFINE entry == u.selects[Len(u.selects)]
           jump == Emit(u, <<Op("JMP", 0), Op("DROP", 0)>>)
           dropped == Patch(jump, {entry.pending}, Here(u) + 1)
           closed == IF entry.seenElse THEN u ELSE dropped
           ends == IF entry.seenElse THEN entry.ends ELSE entry.ends \cup {Here(u)}
           done == Patch(closed, ends, Here(closed))
<1>1. Closable(u, "selects") /\ w = [done EXCEPT !.selects = Front(done.selects)]
  BY DEF CompileEndSelect
<1>2. u.selects # <<>> /\ u.selects \in Stack(SelectEntries(u.code))
  BY <1>1, UnitIs DEF Closable
<1>3. entry \in SelectEntries(u.code) /\ Front(u.selects) \in Stack(SelectEntries(u.code))
  BY <1>2, StackTop
<1>4. entry.pending \in Sites(u.code) /\ entry.ends \subseteq Sites(u.code)
  BY <1>3 DEF SelectEntries
<1> HIDE DEF entry
<1>5. /\ Leads(u, jump) /\ SameBlocks(u, jump)
      /\ Here(u) \in Sites(jump.code) /\ Here(u) + 1 \in Points(jump.code)
  <2>1. /\ Plainly(u, Op("JMP", 0), Here(u) + 2) /\ Op("JMP", 0).op = "JMP"
        /\ Plainly(u, Op("DROP", 0), Here(u) + 2)
    BY PlainOp, PlainJump DEF OpNames, Checks, Inits, Tables, Jumps
  <2>2. QED
    BY <2>1, TwoOps
<1> HIDE DEF jump
<1>6. /\ Leads(jump, dropped) /\ SameBlocks(jump, dropped) /\ Here(u) \in Sites(dropped.code)
  <2>1. Woven(jump) /\ {entry.pending} \in SUBSET Sites(jump.code)
    BY <1>4, <1>5 DEF Leads, Grows
  <2>2. QED
    BY <1>5, <2>1, PatchLeads
<1> HIDE DEF dropped
<1>7. Leads(u, dropped) /\ SameBlocks(u, dropped)
  BY <1>5, <1>6, LeadsOn DEF SameBlocks
<1>8. Leads(u, closed) /\ SameBlocks(u, closed) /\ ends \subseteq Sites(closed.code)
  <2>1. Leads(u, u) /\ SameBlocks(u, u)
    BY LeadsHere DEF SameBlocks
  <2>2. entry.ends \subseteq Sites(dropped.code)
    BY <1>4, <1>7 DEF Leads, Grows
  <2>3. QED
    BY <1>4, <1>6, <1>7, <2>1, <2>2
<1> HIDE DEF closed, ends
<1>9. Leads(closed, done) /\ SameBlocks(closed, done)
  <2>1. Woven(closed) /\ Here(closed) \in Points(closed.code)
    BY <1>8, UnitIs DEF Leads
  <2>2. QED
    BY <1>8, <2>1, PatchLeads
<1> HIDE DEF done
<1>10. Leads(u, done) /\ done.selects = u.selects
  BY <1>8, <1>9, LeadsOn DEF SameBlocks
<1>11. Front(done.selects) \in Stack(SelectEntries(done.code))
  BY <1>3, <1>10, EntriesStay DEF Leads
<1>12. Leads(done, w)
  BY <1>1, <1>10, <1>11, WithSelects DEF Leads
<1>13. QED
  BY <1>10, <1>12, LeadsOn

LEMMA CompileFunctionLeads ==
  ASSUME NEW u, Woven(u), NEW w \in CompileFunction(u)
  PROVE  Leads(u, w)
<1> DEFINE header == Emit(u, <<Op("JMP", 0)>>)
           entry == [entry |-> Here(header), end |-> 0, hasReturn |-> FALSE]
<1>1. w = [header EXCEPT !.functions = Append(header.functions, entry), !.scope = Len(u.functions) + 1]
  BY DEF CompileFunction, Provided
<1>2. /\ Leads(u, header) /\ SameBlocks(u, header) /\ Here(header) = Here(u) + 1
      /\ Here(u) \in Sites(header.code) /\ Here(u) + 1 \in Points(header.code)
  BY PlainJump, OneOp
<1> HIDE DEF header
<1>3. Here(u) \in Nat
  BY UnitIs
<1>4. entry \in FunctionEntries(header.code)
  <2>1. Here(header) - 1 = Here(u)
    BY <1>2, <1>3
  <2>2. QED
    BY <1>2, <2>1 DEF FunctionEntries
<1> HIDE DEF entry
<1>5. /\ header.functions = u.functions /\ Woven(header)
      /\ header.functions \in Seq(FunctionEntries(header.code))
  BY <1>2, UnitIs DEF Leads, SameBlocks
<1>6. /\ Append(header.functions, entry) \in Seq(FunctionEntries(header.code))
      /\ Len(Append(header.functions, entry)) = Len(u.functions) + 1
      /\ Len(u.functions) + 1 \in Nat
  BY <1>4, <1>5, AppendProperties, LenProperties
<1> DEFINE s == Append(header.functions, entry)
           n == Len(u.functions) + 1
<1>7. Leads(header, w)
  <2>1. s \in Seq(FunctionEntries(header.code)) /\ n \in Nat /\ n <= Len(s)
    BY <1>6
  <2>2. w = [header EXCEPT !.functions = s, !.scope = n]
    BY <1>1
  <2> HIDE DEF s, n
  <2>3. Leads(header, [header EXCEPT !.functions = s, !.scope = n])
    BY <1>5, <2>1, WithFunctions
  <2>4. QED
    BY <2>2, <2>3
<1>8. QED
  BY <1>2, <1>7, LeadsOn

LEMMA ScopeIs ==
  ASSUME NEW u, Woven(u), u.scope > 0
  PROVE  /\ u.scope \in DOMAIN u.functions /\ u.functions[u.scope] \in FunctionEntries(u.code)
         /\ u.functions[u.scope].entry - 1 \in Sites(u.code)
<1>1. u.functions \in Seq(FunctionEntries(u.code)) /\ u.scope \in Nat /\ u.scope <= Len(u.functions)
  BY UnitIs DEF Woven
<1>2. u.scope \in 1 .. Len(u.functions) /\ DOMAIN u.functions = 1 .. Len(u.functions)
  BY <1>1, LenProperties
<1>3. u.functions[u.scope] \in FunctionEntries(u.code)
  BY <1>1, <1>2, ElementOfSeq
<1>4. QED
  BY <1>2, <1>3 DEF FunctionEntries

LEMMA FunctionChanged ==
  ASSUME NEW u, Woven(u), NEW k \in DOMAIN u.functions, NEW f \in FunctionEntries(u.code),
         NEW n \in Nat, n <= u.scope
  PROVE  Leads(u, [u EXCEPT !.functions = [u.functions EXCEPT ![k] = f], !.scope = n])
<1>1. u.functions \in Seq(FunctionEntries(u.code)) /\ u.scope <= Len(u.functions) /\ u.scope \in Nat
  BY UnitIs DEF Woven
<1>2. /\ [u.functions EXCEPT ![k] = f] \in Seq(FunctionEntries(u.code))
      /\ Len([u.functions EXCEPT ![k] = f]) = Len(u.functions) /\ Len(u.functions) \in Nat
  BY <1>1, ExceptSeq, LenProperties
<1> DEFINE s == [u.functions EXCEPT ![k] = f]
<1>3. s \in Seq(FunctionEntries(u.code)) /\ n <= Len(s)
  BY <1>1, <1>2
<1> HIDE DEF s
<1>4. Leads(u, [u EXCEPT !.functions = s, !.scope = n])
  BY <1>3, WithFunctions
<1>5. QED
  BY <1>4 DEF s

LEMMA CompileEndFunctionLeads ==
  ASSUME NEW u, Woven(u), NEW w \in CompileEndFunction(u)
  PROVE  Leads(u, w)
<1> DEFINE f == u.functions[u.scope]
           body == Emit(u, <<Op("FUNCTION_FALLTHROUGH", 0)>>)
           done == Patch(body, {f.entry - 1}, Here(body))
           ended == [done.functions[u.scope] EXCEPT !.end = Here(body)]
<1>1. u.scope > 0 /\ w = [done EXCEPT !.functions[u.scope].end = Here(body), !.scope = 0]
  BY DEF CompileEndFunction
<1>2. Plainly(u, Op("FUNCTION_FALLTHROUGH", 0), 0)
  BY PlainOp DEF OpNames, Checks, Inits, Tables, Jumps
<1>3. Leads(u, body) /\ SameBlocks(u, body)
  BY <1>2, OneOp
<1> HIDE DEF body
<1>4. u.scope \in DOMAIN u.functions /\ f.entry - 1 \in Sites(body.code)
  BY <1>1, <1>3, ScopeIs DEF Leads, Grows
<1> HIDE DEF f
<1>5. Woven(body) /\ Here(body) \in Points(body.code) /\ Here(body) \in Nat
  BY <1>3, UnitIs DEF Leads
<1>6. Leads(body, done) /\ SameBlocks(body, done)
  BY <1>4, <1>5, PatchLeads
<1> HIDE DEF done
<1>7. /\ Leads(u, done) /\ done.functions = u.functions /\ done.scope = u.scope /\ Woven(done)
  BY <1>3, <1>6, LeadsOn DEF SameBlocks, Leads
<1>8. /\ u.scope \in DOMAIN done.functions
      /\ done.functions[u.scope] \in FunctionEntries(done.code)
  BY <1>1, <1>7, ScopeIs
<1>9. ended \in FunctionEntries(done.code)
  BY <1>5, <1>8 DEF FunctionEntries
<1>10. w = [done EXCEPT !.functions = [done.functions EXCEPT ![u.scope] = ended], !.scope = 0]
  BY <1>1
<1> HIDE DEF ended
<1>11. Leads(done, w)
  <2>1. 0 \in Nat /\ 0 <= done.scope
    BY <1>7, UnitIs
  <2>2. Leads(done, [done EXCEPT !.functions = [done.functions EXCEPT ![u.scope] = ended], !.scope = 0])
    BY <1>7, <1>8, <1>9, <2>1, FunctionChanged
  <2>3. QED
    BY <1>10, <2>2
<1>12. QED
  BY <1>7, <1>11, LeadsOn

LEMMA CompileReturnLeads ==
  ASSUME NEW u, Woven(u), NEW w \in CompileReturn(u)
  PROVE  Leads(u, w)
<1>1. CASE ~Structured(u)
  <2>1. w = Emit(u, <<Op("RETSUB", 0)>>)
    BY <1>1 DEF CompileReturn
  <2>2. Plainly(u, Op("RETSUB", 0), 0)
    BY PlainOp DEF OpNames, Checks, Inits, Tables, Jumps
  <2>3. QED
    BY <2>1, <2>2, OneOp
<1>2. CASE Structured(u)
  <2> DEFINE e == Emit(u, <<Expr(1), Op("RETURN_USER", 0)>>)
             f == [e.functions[u.scope] EXCEPT !.hasReturn = TRUE]
  <2>1. u.scope > 0 /\ w = [e EXCEPT !.functions[u.scope].hasReturn = TRUE]
    BY <1>2 DEF CompileReturn
  <2>2. Plainly(u, Expr(1), Here(u) + 2) /\ Plainly(u, Op("RETURN_USER", 0), Here(u) + 2)
    BY PlainOp DEF OpNames, Expr, Checks, Inits, Tables, Jumps
  <2>3. Leads(u, e) /\ SameBlocks(u, e)
    BY <2>2, TwoOps
  <2> HIDE DEF e
  <2>4. e.functions = u.functions /\ e.scope = u.scope /\ Woven(e)
    BY <2>3 DEF SameBlocks, Leads
  <2>5. u.scope \in DOMAIN e.functions /\ e.functions[u.scope] \in FunctionEntries(e.code)
    BY <2>1, <2>4, ScopeIs
  <2>6. f \in FunctionEntries(e.code)
    BY <2>5 DEF FunctionEntries
  <2>7. w = [e EXCEPT !.functions = [e.functions EXCEPT ![u.scope] = f], !.scope = u.scope]
    <3>1. e = [e EXCEPT !.scope = u.scope]
      BY <2>4 DEF Woven, Units
    <3>2. w = [e EXCEPT !.functions = [e.functions EXCEPT ![u.scope] = f]]
      BY <2>1
    <3>3. QED
      BY <2>4, <3>1, <3>2 DEF Woven, Units
  <2> HIDE DEF f
  <2>8. u.scope \in Nat /\ u.scope <= e.scope
    BY <2>4, UnitIs
  <2>9. Leads(e, w)
    BY <2>4, <2>5, <2>6, <2>7, <2>8, FunctionChanged
  <2>10. QED
    BY <2>3, <2>9, LeadsOn
<1>3. QED
  BY <1>1, <1>2

LEMMA CompileCallLeads ==
  ASSUME NEW u, Woven(u), NEW f \in Nat \ {0}, NEW w \in CompileCall(u, f)
  PROVE  Leads(u, w)
<1> DEFINE o == <<Expr(2), Op("CALL_USER", f), Store(2)>>
<1>1. Structured(u) /\ w = Emit(u, o)
  BY DEF CompileCall, Provided
<1>2. /\ Expr(2) \in Ops /\ Expr(2).op = "EXPR" /\ Store(2) \in Ops /\ Store(2).op = "STORE"
      /\ Op("CALL_USER", f) \in Ops /\ Op("CALL_USER", f).op = "CALL_USER" /\ Op("CALL_USER", f).a = f
  BY OpIs DEF OpNames, Expr, Store
<1>3. o \in Seq(Ops) /\ DOMAIN o = 1 .. 3 /\ o[1] = Expr(2) /\ o[2] = Op("CALL_USER", f) /\ o[3] = Store(2)
  BY <1>2
<1> HIDE DEF o
<1>4. \A k \in DOMAIN o : o[k].op \in {"EXPR", "CALL_USER", "STORE"}
  BY <1>2, <1>3
<1>5. \A k \in DOMAIN o : InMode(u.mode, o[k])
  BY <1>1, <1>2, <1>3 DEF InMode, Tables, Structured
<1>6. Simple(o) /\ \A k \in DOMAIN o : o[k].op \notin Jumps
  BY <1>4 DEF Simple, Checks, Inits, Tables, Jumps
<1>7. QED
  BY <1>1, <1>3, <1>5, <1>6, SimpleLeads

LEMMA LineJumpIs ==
  ASSUME NEW name \in {"JMP", "GOSUB"}, NEW line \in Nat
  PROVE  LineJump(name, line) \in Ops /\ LineJump(name, line).op = name /\ LineJump(name, line).b = 1
<1>1. Op(name, line) \in Ops /\ Op(name, line).op = name
  BY OpIs DEF OpNames
<1>2. QED
  BY <1>1 DEF LineJump, Ops

LEMMA CompileLineJumpLeads ==
  ASSUME NEW u, Woven(u), NEW name \in {"JMP", "GOSUB"}, NEW line \in Nat,
         NEW w \in CompileLineJump(u, name, line)
  PROVE  Leads(u, w)
<1>1. ~Structured(u) /\ w = Emit(u, <<LineJump(name, line)>>)
  BY DEF CompileLineJump, Provided
<1>2. u.mode = "Classic"
  BY <1>1, UnitIs DEF Structured, Modes
<1>3. Plainly(u, LineJump(name, line), 0)
  BY <1>2, LineJumpIs DEF Plainly, Waits, InMode, Checks, Inits, Tables, Jumps
<1>4. QED
  BY <1>1, <1>3, OneOp

LEMMA CompileOnBranchLeads ==
  ASSUME NEW u, Woven(u), NEW name \in Tables, NEW lines \in Seq(Nat), lines # <<>>,
         NEW w \in CompileOnBranch(u, name, lines)
  PROVE  Leads(u, w)
<1> DEFINE table == [k \in DOMAIN lines |-> LineJump("JMP", lines[k])]
           on == Op(name, Len(lines))
           head == <<Expr(1), on>>
           o == head \o table
<1>1. ~Structured(u) /\ w = Emit(u, o)
  BY DEF CompileOnBranch, Provided
<1>2. u.mode = "Classic" /\ u.code \in Seq(Ops)
  BY <1>1, UnitIs DEF Structured, Modes
<1>3. /\ Len(lines) \in Nat /\ DOMAIN lines = 1 .. Len(lines) /\ Len(lines) # 0
      /\ \A k \in 1 .. Len(lines) : lines[k] \in Nat
  BY LenProperties, ElementOfSeq, EmptySeq
<1>4. /\ Expr(1) \in Ops /\ Expr(1).op = "EXPR"
      /\ on \in Ops /\ on.op = name /\ on.a = Len(lines)
  BY <1>3, OpIs DEF OpNames, Tables, Expr
<1>5. \A k \in 1 .. Len(lines) :
        /\ LineJump("JMP", lines[k]) \in Ops /\ LineJump("JMP", lines[k]).op = "JMP"
        /\ LineJump("JMP", lines[k]).b = 1
  BY <1>3, LineJumpIs
<1>6. /\ table \in Seq(Ops) /\ Len(table) = Len(lines) /\ DOMAIN table = 1 .. Len(lines)
      /\ \A k \in DOMAIN table : table[k].op = "JMP" /\ Waits(table[k])
  <2>1. table \in [1 .. Len(lines) -> Ops]
    BY <1>3, <1>5
  <2>2. table \in Seq(Ops) /\ Len(table) = Len(lines)
    BY <1>3, <2>1, IsASeq, LenProperties
  <2>3. \A k \in 1 .. Len(lines) : table[k].op = "JMP" /\ table[k].b = 1
    BY <1>3, <1>5
  <2>4. QED
    BY <1>3, <2>1, <2>2, <2>3 DEF Waits
<1> HIDE DEF table, on
<1>7. table # <<>>
  BY <1>3, <1>6, EmptySeq
<1>8. Threaded(u.code \o o) /\ Grows(u.code, u.code \o o)
  <2>1. Expr(1).op \notin Inits \cup Checks \cup Tables \cup Jumps
    BY <1>4 DEF Inits, Checks, Tables, Jumps
  <2>2. QED
    BY <1>4, <1>6, <1>7, <2>1, TableAppended DEF Woven
<1>9. head \in Seq(Ops) /\ Len(head) = 2 /\ head[1] = Expr(1) /\ head[2] = on /\ DOMAIN head = 1 .. 2
  BY <1>4
<1> HIDE DEF head
<1>10. o \in Seq(Ops) /\ \A k \in DOMAIN o : o[k] \in Ops /\ o[k].op # "CALL_USER"
  <2>1. /\ o \in Seq(Ops) /\ DOMAIN o = 1 .. Len(head) + Len(table)
        /\ \A k \in DOMAIN head : o[k] = head[k]
        /\ \A k \in DOMAIN table : o[Len(head) + k] = table[k]
        /\ \A k \in DOMAIN o : k \notin DOMAIN head => k - Len(head) \in DOMAIN table
    BY <1>6, <1>9, JoinedIs
  <2>2. \A k \in DOMAIN o : o[k] \in Ops
    BY <2>1, OpsIn
  <2>3. ASSUME NEW k \in DOMAIN o
        PROVE  o[k].op # "CALL_USER"
    <3>1. CASE k \in DOMAIN head
      BY <1>4, <1>9, <2>1, <3>1 DEF Tables
    <3>2. CASE k \notin DOMAIN head
      <4>1. k - Len(head) \in DOMAIN table /\ k \in Nat /\ Len(head) = 2
        BY <1>9, <2>1, <3>2, LenProperties
      <4>2. Len(head) + (k - Len(head)) = k
        BY <4>1
      <4>3. o[k] = table[k - Len(head)]
        BY <2>1, <4>1, <4>2
      <4>4. QED
        BY <1>6, <4>1, <4>3
    <3>3. QED
      BY <3>1, <3>2
  <2>4. QED
    BY <2>1, <2>2, <2>3
<1> HIDE DEF o
<1>11. \A k \in DOMAIN o : InMode(u.mode, o[k])
  BY <1>2, <1>10 DEF InMode
<1>12. QED
  BY <1>1, <1>8, <1>10, <1>11, EmitLeads

-----------------------------------------------------------------------------
(* Statements and rows.                                                    *)

LEMMA EntriesAreLegal ==
  ASSUME NEW p \in Profiles, NEW s \in p.statements
  PROVE  /\ IsRow(s) /\ s \in Written
         /\ Kind(s) = "THEN" =>
                /\ Len(Arg(s)) \in 1 .. 2
                /\ IsStatement(Arg(s)[1]) /\ Arg(s)[1] \in Written
                /\ Len(Arg(s)) # 1 => IsStatement(Arg(s)[2]) /\ Arg(s)[2] \in Written
<1>1. IsRow(s)
  BY ProfileAssumption
<1>2. s \in Written /\ Arg(s)[1] \in Written /\ Arg(s)[2] \in Written
  BY DEF Written
<1>3. ASSUME Kind(s) = "THEN"
      PROVE  /\ Len(Arg(s)) \in 1 .. 2 /\ IsStatement(Arg(s)[1])
             /\ Len(Arg(s)) # 1 => IsStatement(Arg(s)[2])
  <2>1. Len(Arg(s)) \in 1 .. 2 /\ \A b \in 1 .. Len(Arg(s)) : IsStatement(Arg(s)[b])
    BY <1>1, <1>3 DEF IsRow, IsStatement, StatementKinds
  <2>2. QED
    BY <2>1
<1>4. QED
  BY <1>1, <1>2, <1>3

LEMMA CompileKindLeads ==
  ASSUME NEW u, Woven(u), NEW s \in Written, IsStatement(s), NEW w \in CompileKind(s, u)
  PROVE  Leads(u, w)
<1> DEFINE k == Kind(s)
<1>1. /\ k \in StatementKinds
      /\ k = "CALL" => Arg(s) \in Nat \ {0}
      /\ k \in {"GOTO", "GOSUB"} => Arg(s) \in Nat
      /\ k \in {"ONGOTO", "ONGOSUB"} => Arg(s) \in Seq(Nat) /\ Arg(s) # <<>>
      /\ k = "CASE" => Arg(s) \in Seq(Literals)
  BY DEF IsStatement, Literals
<1>2. Arg(s) \in Variables
  BY DEF Variables
<1> DEFINE arg == Arg(s)
<1>3. CASE k = "LET"
  <2>1. w = Emit(u, <<Expr(1), Store(1)>>)
    BY <1>3 DEF CompileKind
  <2>2. Plainly(u, Expr(1), Here(u) + 2) /\ Plainly(u, Store(1), Here(u) + 2)
    BY PlainOp DEF OpNames, Expr, Store, Checks, Inits, Tables, Jumps
  <2>3. QED
    BY <2>1, <2>2, TwoOps
<1>4. CASE k = "END"
  <2>1. w = Emit(u, <<Op("HALT", 0)>>)
    BY <1>4 DEF CompileKind
  <2>2. Plainly(u, Op("HALT", 0), 0)
    BY PlainOp DEF OpNames, Checks, Inits, Tables, Jumps
  <2>3. QED
    BY <2>1, <2>2, OneOp
<1>5. CASE k = "FOR"
  <2>1. w \in CompileFor(u, Arg(s))
    BY <1>5 DEF CompileKind
  <2>2. QED
    BY <2>1, <1>5, <1>2, CompileForLeads
<1>6. CASE k = "NEXT"
  <2>1. w \in CompileNext(u, Arg(s))
    BY <1>6 DEF CompileKind
  <2>2. QED
    BY <2>1, <1>6, <1>2, CompileNextLeads
<1>7. CASE k = "WHILE"
  <2>1. w \in CompileWhile(u)
    BY <1>7 DEF CompileKind
  <2>2. QED
    BY <2>1, <1>7, CompileWhileLeads
<1>8. CASE k = "WEND"
  <2>1. w \in CompileWend(u)
    BY <1>8 DEF CompileKind
  <2>2. QED
    BY <2>1, <1>8, CompileWendLeads
<1>9. CASE k = "DO"
  <2>1. w \in CompileDo(u, FALSE)
    BY <1>9 DEF CompileKind
  <2>2. QED
    BY <2>1, <1>9, CompileDoLeads
<1>10. CASE k = "DOWHILE"
  <2>1. w \in CompileDo(u, TRUE)
    BY <1>10 DEF CompileKind
  <2>2. QED
    BY <2>1, <1>10, CompileDoLeads
<1>11. CASE k = "LOOP"
  <2>1. w \in CompileLoop(u, FALSE)
    BY <1>11 DEF CompileKind
  <2>2. QED
    BY <2>1, <1>11, CompileLoopLeads
<1>12. CASE k = "LOOPUNTIL"
  <2>1. w \in CompileLoop(u, TRUE)
    BY <1>12 DEF CompileKind
  <2>2. QED
    BY <2>1, <1>12, CompileLoopLeads
<1>13. CASE k = "EXITFOR"
  <2>1. w \in CompileExitFor(u)
    BY <1>13 DEF CompileKind
  <2>2. QED
    BY <2>1, <1>13, CompileExitForLeads
<1>14. CASE k = "EXITDO"
  <2>1. w \in CompileExitDo(u)
    BY <1>14 DEF CompileKind
  <2>2. QED
    BY <2>1, <1>14, CompileExitDoLeads
<1>15. CASE k = "IF"
  <2>1. w \in CompileBlockIf(u)
    BY <1>15 DEF CompileKind
  <2>2. QED
    BY <2>1, <1>15, CompileBlockIfLeads
<1>16. CASE k = "ELSEIF"
  <2>1. w \in CompileBranch(u, TRUE)
    BY <1>16 DEF CompileKind
  <2>2. QED
    BY <2>1, <1>16, CompileBranchLeads
<1>17. CASE k = "ELSE"
  <2>1. w \in CompileBranch(u, FALSE)
    BY <1>17 DEF CompileKind
  <2>2. QED
    BY <2>1, <1>17, CompileBranchLeads
<1>18. CASE k = "ENDIF"
  <2>1. w \in CompileEndIf(u)
    BY <1>18 DEF CompileKind
  <2>2. QED
    BY <2>1, <1>18, CompileEndIfLeads
<1>19. CASE k = "SELECT"
  <2>1. w \in CompileSelect(u)
    BY <1>19 DEF CompileKind
  <2>2. QED
    BY <2>1, <1>19, CompileSelectLeads
<1>20. CASE k = "CASE"
  <2>1. w \in CompileCase(u, Arg(s))
    BY <1>20 DEF CompileKind
  <2>2. QED
    BY <2>1, <1>20, <1>1, CompileCaseLeads
<1>21. CASE k = "CASEELSE"
  <2>1. w \in CompileCaseElse(u)
    BY <1>21 DEF CompileKind
  <2>2. QED
    BY <2>1, <1>21, CompileCaseElseLeads
<1>22. CASE k = "ENDSELECT"
  <2>1. w \in CompileEndSelect(u)
    BY <1>22 DEF CompileKind
  <2>2. QED
    BY <2>1, <1>22, CompileEndSelectLeads
<1>23. CASE k = "RETURN"
  <2>1. w \in CompileReturn(u)
    BY <1>23 DEF CompileKind
  <2>2. QED
    BY <2>1, <1>23, CompileReturnLeads
<1>24. CASE k = "CALL"
  <2>1. w \in CompileCall(u, Arg(s))
    BY <1>24 DEF CompileKind
  <2>2. QED
    BY <2>1, <1>24, <1>1, CompileCallLeads
<1>25. CASE k = "GOTO"
  <2>1. w \in CompileLineJump(u, "JMP", Arg(s))
    BY <1>25 DEF CompileKind
  <2>2. QED
    BY <2>1, <1>25, <1>1, CompileLineJumpLeads
<1>26. CASE k = "GOSUB"
  <2>1. w \in CompileLineJump(u, "GOSUB", Arg(s))
    BY <1>26 DEF CompileKind
  <2>2. QED
    BY <2>1, <1>26, <1>1, CompileLineJumpLeads
<1>27. CASE k = "ONGOTO"
  <2>1. w \in CompileOnBranch(u, "ON_GOTO", Arg(s))
    BY <1>27 DEF CompileKind
  <2>2. QED
    BY <2>1, <1>27, <1>1, CompileOnBranchLeads DEF Tables
<1>28. CASE k = "ONGOSUB"
  <2>1. w \in CompileOnBranch(u, "ON_GOSUB", Arg(s))
    BY <1>28 DEF CompileKind
  <2>2. QED
    BY <2>1, <1>28, <1>1, CompileOnBranchLeads DEF Tables
<1>29. QED
  BY <1>1, <1>3, <1>4, <1>5, <1>6, <1>7, <1>8, <1>9, <1>10, <1>11, <1>12, <1>13, <1>14, <1>15,
     <1>16, <1>17, <1>18, <1>19, <1>20, <1>21, <1>22, <1>23, <1>24, <1>25, <1>26, <1>27, <1>28 DEF StatementKinds

LEMMA CompileStatementLeads ==
  ASSUME NEW u, Woven(u), NEW s \in Written, IsStatement(s), NEW w \in CompileStatement(s, u)
  PROVE  Leads(u, w)
<1>1. w \in CompileKind(s, u)
  BY DEF CompileStatement
<1>2. QED
  BY <1>1, CompileKindLeads

LEMMA CompileInlineIfLeads ==
  ASSUME NEW u, Woven(u), NEW branches, Len(branches) \in 1 .. 2,
         IsStatement(branches[1]), branches[1] \in Written,
         Len(branches) # 1 => IsStatement(branches[2]) /\ branches[2] \in Written,
         NEW w \in CompileInlineIf(u, branches)
  PROVE  Leads(u, w)
<1> DEFINE head == Emit(u, <<Expr(1), Op("JZ", 0)>>)
           jz == Here(u) + 1
           jump(v) == Emit(v, <<Op("JMP", 0)>>)
           other(v) == Patch(jump(v), {jz}, Here(jump(v)))
<1>1. Leads(u, head) /\ jz \in Sites(head.code)
  <2>1. /\ Plainly(u, Expr(1), Here(u) + 2)
        /\ Plainly(u, Op("JZ", 0), Here(u) + 2) /\ Op("JZ", 0).op = "JZ"
    BY PlainOp, PlainJump DEF OpNames, Expr, Checks, Inits, Tables, Jumps
  <2>2. QED
    BY <2>1, TwoOps
<1> HIDE DEF head
<1>2. ASSUME NEW v \in CompileStatement(branches[1], head)
      PROVE  Leads(u, v) /\ Woven(v) /\ jz \in Sites(v.code) /\ Here(v) \in Points(v.code)
  <2>1. Leads(head, v)
    BY <1>1, CompileStatementLeads DEF Leads
  <2>2. QED
    BY <1>1, <2>1, LeadsOn, UnitIs DEF Leads, Grows
<1> HIDE DEF jz
<1>3. CASE Len(branches) = 1
  <2>1. PICK v \in CompileStatement(branches[1], head) : w = Patch(v, {jz}, Here(v))
    BY <1>3 DEF CompileInlineIf, head, jz
  <2>2. /\ Leads(u, v) /\ Woven(v) /\ {jz} \in SUBSET Sites(v.code) /\ Here(v) \in Points(v.code)
    BY <1>2
  <2>3. Leads(v, w)
    BY <2>1, <2>2, PatchLeads
  <2>4. QED
    BY <2>2, <2>3, LeadsOn
<1>4. CASE Len(branches) # 1
  <2>1. PICK v \in CompileStatement(branches[1], head) :
          \E x \in CompileStatement(branches[2], other(v)) : w = Patch(x, {Here(v)}, Here(x))
    BY <1>4 DEF CompileInlineIf, head, jz
  <2>2. PICK x \in CompileStatement(branches[2], other(v)) : w = Patch(x, {Here(v)}, Here(x))
    BY <2>1
  <2>3. /\ Leads(u, v) /\ Woven(v) /\ jz \in Sites(v.code)
    BY <1>2
  <2>4. Leads(v, jump(v)) /\ Here(v) \in Sites(jump(v).code)
    BY <2>3, PlainJump, OneOp
  <2> HIDE DEF jump
  <2>5. /\ Woven(jump(v)) /\ {jz} \in SUBSET Sites(jump(v).code)
        /\ Here(jump(v)) \in Points(jump(v).code)
    BY <2>3, <2>4, UnitIs DEF Leads, Grows
  <2>6. Leads(jump(v), other(v)) /\ Here(v) \in Sites(other(v).code)
    BY <2>4, <2>5, PatchLeads
  <2> HIDE DEF other
  <2>7. Leads(other(v), x)
    BY <1>4, <2>6, CompileStatementLeads DEF Leads
  <2>8. Woven(x) /\ {Here(v)} \in SUBSET Sites(x.code) /\ Here(x) \in Points(x.code)
    BY <2>6, <2>7, UnitIs DEF Leads, Grows
  <2>9. Leads(x, w)
    BY <2>2, <2>8, PatchLeads
  <2>10. QED
    BY <2>3, <2>4, <2>6, <2>7, <2>9, LeadsOn
<1>5. QED
  BY <1>3, <1>4

LEMMA CompileRowLeads ==
  ASSUME NEW p \in Profiles, NEW s \in p.statements, NEW u, Woven(u), NEW w \in CompileRow(s, u)
  PROVE  Leads(u, w)
<1>1. IsRow(s) /\ s \in Written
  BY EntriesAreLegal
<1>2. CASE Kind(s) = "REM"
  <2>1. w = u
    BY <1>2 DEF CompileRow
  <2>2. QED
    BY <2>1, LeadsHere
<1>3. CASE Kind(s) = "FUNCTION"
  <2>1. w \in CompileFunction(u)
    BY <1>3 DEF CompileRow
  <2>2. QED
    BY <2>1, CompileFunctionLeads
<1>4. CASE Kind(s) = "ENDFUNCTION"
  <2>1. w \in CompileEndFunction(u)
    BY <1>4 DEF CompileRow
  <2>2. QED
    BY <2>1, CompileEndFunctionLeads
<1>5. CASE Kind(s) = "THEN"
  <2>1. w \in CompileInlineIf(u, Arg(s))
    BY <1>5 DEF CompileRow
  <2>2. QED
    BY <1>5, <2>1, EntriesAreLegal, CompileInlineIfLeads
<1>6. CASE Kind(s) \notin {"REM", "FUNCTION", "ENDFUNCTION", "THEN"}
  <2>1. w \in CompileStatement(s, u)
    BY <1>6 DEF CompileRow
  <2>2. IsStatement(s)
    BY <1>1, <1>6 DEF IsRow
  <2>3. QED
    BY <1>1, <2>1, <2>2, CompileStatementLeads
<1>7. QED
  BY <1>2, <1>3, <1>4, <1>5, <1>6

LEMMA EmptyUnitIsWoven ==
  ASSUME NEW mode \in Modes
  PROVE  Woven(EmptyUnit(mode)) /\ EmptyUnit(mode).mode = mode /\ EmptyUnit(mode).code = <<>>
<1>1. \A S : <<>> \in Seq(S) /\ <<>> \in Stack(S)
  BY EmptySeq, NestingAssumption DEF Stack
<1>2. /\ EmptyUnit(mode).code = <<>> /\ EmptyUnit(mode).mode = mode
      /\ EmptyUnit(mode).scope = 0 /\ EmptyUnit(mode).functions = <<>>
  BY DEF EmptyUnit
<1>3. EmptyUnit(mode) \in Units(<<>>)
  BY <1>1 DEF EmptyUnit, Units
<1>4. Len(<<>>) = 0 /\ DOMAIN <<>> = {}
  OBVIOUS
<1>5. QED
  BY <1>2, <1>3, <1>4, NoCode DEF Woven

-----------------------------------------------------------------------------
(* The program that is run: no jump waits for a line, the last operation   *)
(* is a HALT, and every function starts inside the code.                   *)

Linked(u) ==
    /\ Woven(u)
    /\ \A i \in DOMAIN u.code : ~Waits(u.code[i])
    /\ u.code # <<>> /\ u.code[Len(u.code)].op = "HALT"
    /\ \A f \in DOMAIN u.functions : u.functions[f].entry \in DOMAIN u.code

LEMMA WithHaltLeads ==
  ASSUME NEW u, Woven(u)
  PROVE  /\ Leads(u, WithHalt(u)) /\ SameBlocks(u, WithHalt(u))
         /\ WithHalt(u).code # <<>> /\ WithHalt(u).code[Len(WithHalt(u).code)].op = "HALT"
<1>1. CASE u.code # <<>> /\ Last(u.code).op = "HALT"
  <2>1. WithHalt(u) = u
    BY <1>1 DEF WithHalt
  <2>2. Last(u.code) = u.code[Len(u.code)]
    BY <1>1, UnitIs, TopIs
  <2>3. QED
    BY <1>1, <2>1, <2>2, LeadsHere DEF SameBlocks
<1>2. CASE ~(u.code # <<>> /\ Last(u.code).op = "HALT")
  <2> DEFINE halt == Op("HALT", 0)
             o == <<halt>>
  <2>1. WithHalt(u) = Emit(u, o)
    BY <1>2 DEF WithHalt
  <2>2. Plainly(u, halt, 0) /\ halt.op = "HALT" /\ halt \in Ops
    BY PlainOp DEF OpNames, Checks, Inits, Tables, Jumps, Plainly
  <2>3. Leads(u, Emit(u, o)) /\ SameBlocks(u, Emit(u, o))
    BY <2>2, OneOp
  <2>4. Emit(u, o).code = u.code \o o /\ u.code \in Seq(Ops)
    BY UnitIs DEF Emit, Woven, Units
  <2>5. o \in Seq(Ops) /\ DOMAIN o = {1} /\ o[1] = halt /\ Len(o) = 1
    BY <2>2
  <2> HIDE DEF o, halt
  <2>6. /\ Len(u.code \o o) = Len(u.code) + 1 /\ (u.code \o o)[Len(u.code) + 1] = halt
        /\ Len(u.code) \in Nat /\ u.code \o o \in Seq(Ops)
    <3>1. /\ Len(u.code \o o) = Len(u.code) + Len(o) /\ Len(u.code) \in Nat
          /\ u.code \o o \in Seq(Ops)
          /\ \A k \in DOMAIN o : (u.code \o o)[Len(u.code) + k] = o[k]
      BY <2>4, <2>5, JoinedIs
    <3>2. 1 \in DOMAIN o
      BY <2>5
    <3>3. (u.code \o o)[Len(u.code) + 1] = o[1]
      BY <3>1, <3>2
    <3>4. QED
      BY <2>5, <3>1, <3>3
  <2>7. u.code \o o # <<>>
    BY <2>6, EmptySeq
  <2>8. QED
    BY <2>1, <2>2, <2>3, <2>4, <2>6, <2>7 DEF o, halt
<1>3. QED
  BY <1>1, <1>2

LEMMA ResolvedLeads ==
  ASSUME NEW u, Woven(u), NEW starts \in Seq(Points(u.code)), LineTargets(u) \subseteq DOMAIN starts
  PROVE  LET w == Resolved(u, starts)
         IN  /\ Leads(u, w) /\ SameBlocks(u, w) /\ Len(w.code) = Len(u.code)
             /\ Points(w.code) = Points(u.code)
             /\ \A i \in DOMAIN u.code : w.code[i].op = u.code[i].op
             /\ \A i \in DOMAIN w.code : ~Waits(w.code[i])
<1> DEFINE c == u.code
           d == [i \in DOMAIN c |->
                    IF c[i].op \in {"JMP", "GOSUB"} /\ c[i].b = 1
                    THEN [c[i] EXCEPT !.a = starts[c[i].a], !.b = 0] ELSE c[i]]
<1>1. Resolved(u, starts) = [u EXCEPT !.code = d]
  BY DEF Resolved
<1>2. c \in Seq(Ops) /\ DOMAIN c = 1 .. Len(c) /\ Len(c) \in Nat /\ Threaded(c)
  BY UnitIs DEF Woven
<1>3. ASSUME NEW i \in DOMAIN c, Waits(c[i])
      PROVE  starts[c[i].a] \in Points(c) /\ starts[c[i].a] \in Nat
  <2>1. c[i].a \in DOMAIN starts
    BY <1>3 DEF LineTargets, Waits
  <2>2. starts[c[i].a] \in Points(c)
    BY <2>1, ElementOfSeq, LenProperties
  <2>3. QED
    BY <1>2, <2>2, TargetsIn
<1>4. ASSUME NEW i \in DOMAIN c
      PROVE  /\ d[i] \in Ops /\ d[i].op = c[i].op /\ ~Waits(d[i])
             /\ c[i].op \notin Jumps => d[i] = c[i]
             /\ c[i].op \in Jumps /\ ~Waits(d[i]) => d[i].a \in Points(c) \cup {0}
             /\ c[i].op = "CALL_USER" => d[i] = c[i]
  <2>1. c[i] \in Ops /\ Led(c, i)
    BY <1>2, OpsIn DEF Threaded
  <2>2. CASE Waits(c[i])
    <3>1. d[i] = [c[i] EXCEPT !.a = starts[c[i].a], !.b = 0] /\ c[i].op \in {"JMP", "GOSUB"}
      BY <2>2 DEF Waits
    <3> DEFINE t == starts[c[i].a]
    <3>2. t \in Nat /\ t \in Points(c)
      BY <1>3, <2>2
    <3>3. PICK x \in Ops : x = c[i]
      BY <2>1
    <3>4. PICK y : y = d[i]
      OBVIOUS
    <3>5. y = [x EXCEPT !.a = t, !.b = 0]
      BY <3>1, <3>3, <3>4
    <3> HIDE DEF d, t
    <3>6. y = [op |-> x.op, a |-> t, b |-> 0, s |-> x.s, v |-> x.v]
      BY <3>5 DEF Ops
    <3>a. y \in Ops /\ y.op = x.op /\ y.b = 0 /\ y.a = t
      BY <3>2, <3>6 DEF Ops
    <3>7. d[i] \in Ops /\ d[i].op = c[i].op /\ d[i].b = 0 /\ d[i].a = t
      BY <3>3, <3>4, <3>a
    <3>8. QED
      BY <3>1, <3>2, <3>7 DEF Waits, Jumps
  <2>3. CASE ~Waits(c[i])
    <3>1. d[i] = c[i]
      BY <2>3 DEF Waits
    <3>2. QED
      BY <2>1, <2>3, <3>1 DEF Led
  <2>4. QED
    BY <2>2, <2>3
<1>5. d \in Seq(Ops) /\ DOMAIN d = DOMAIN c
  <2>1. \A i \in DOMAIN c : d[i] \in Ops
    BY <1>4
  <2>2. d \in [1 .. Len(c) -> Ops]
    BY <1>2, <2>1
  <2>3. DOMAIN d = DOMAIN c
    OBVIOUS
  <2> HIDE DEF d
  <2>4. QED
    BY <1>2, <2>2, <2>3, IsASeq
<1> HIDE DEF d
<1>6. Threaded(d) /\ Points(d) = Points(c) /\ Sites(d) = Sites(c) /\ Len(d) = Len(c)
  BY <1>2, <1>4, <1>5, SameShape
<1>7. \A i \in DOMAIN d : InMode(u.mode, d[i])
  <2>1. ASSUME NEW i \in DOMAIN d
        PROVE  InMode(u.mode, d[i])
    <3>1. InMode(u.mode, c[i]) /\ d[i].op = c[i].op /\ (c[i].op = "CALL_USER" => d[i] = c[i])
      BY <1>4, <1>5 DEF Woven
    <3>2. QED
      BY <3>1 DEF InMode
  <2>2. QED
    BY <2>1
<1>8. Grows(c, d)
  BY <1>6 DEF Grows
<1>9. LET w == [u EXCEPT !.code = d] IN Leads(u, w) /\ SameBlocks(u, w) /\ w.code = d
  BY <1>6, <1>7, <1>8, Recoded
<1>10. QED
  BY <1>1, <1>4, <1>5, <1>6, <1>9

LEMMA SizeLeads ==
  ASSUME NEW u, Woven(u), NEW n \in Nat
  PROVE  LET w == [u EXCEPT !.size = n]
         IN  Leads(u, w) /\ SameBlocks(u, w) /\ w.code = u.code
<1> DEFINE w == [u EXCEPT !.size = n]
<1>1. w \in Units(u.code) /\ w.mode = u.mode /\ w.scope <= Len(w.functions)
      /\ SameBlocks(u, w) /\ w.code = u.code
  BY DEF Woven, Units, SameBlocks
<1> HIDE DEF w
<1>2. Leads(u, w)
  BY <1>1, Reblocked
<1>3. QED
  BY <1>1, <1>2 DEF w

(* FinishText: what the compiler accepts can be run.                       *)
LEMMA AcceptedIsLinked ==
  ASSUME NEW u, Woven(u), NEW starts \in Seq(Points(u.code)), NEW n \in Nat,
         LineTargets(WithHalt(u)) \subseteq DOMAIN starts,
         u.functions # <<>> => ValidProgram(Resolved(WithHalt(u), starts))
  PROVE  LET w == [Resolved(WithHalt(u), starts) EXCEPT !.size = n]
         IN  /\ Linked(w) /\ Leads(u, w) /\ Len(w.code) = Len(WithHalt(u).code)
<1> DEFINE h == WithHalt(u)
           r == Resolved(h, starts)
           w == [r EXCEPT !.size = n]
<1>1. /\ Leads(u, h) /\ SameBlocks(u, h) /\ h.code # <<>> /\ h.code[Len(h.code)].op = "HALT"
  BY WithHaltLeads
<1> HIDE DEF h
<1>2. Woven(h) /\ starts \in Seq(Points(h.code))
  BY <1>1, SeqMonotonic DEF Leads, Grows
<1>3. /\ Leads(h, r) /\ SameBlocks(h, r) /\ Len(r.code) = Len(h.code)
      /\ \A i \in DOMAIN h.code : r.code[i].op = h.code[i].op
      /\ \A i \in DOMAIN r.code : ~Waits(r.code[i])
  BY <1>2, ResolvedLeads DEF h
<1>4. u.functions # <<>> => ValidProgram(r)
  BY DEF h
<1> HIDE DEF r
<1>5. Woven(r)
  BY <1>3 DEF Leads
<1>6. Leads(r, w) /\ SameBlocks(r, w) /\ w.code = r.code
  BY <1>5, SizeLeads
<1> HIDE DEF w
<1>7. Leads(u, w) /\ Woven(w) /\ w.functions = u.functions
  BY <1>1, <1>3, <1>6, LeadsOn DEF SameBlocks, Leads
<1>8. /\ Len(h.code) \in DOMAIN h.code /\ DOMAIN w.code = 1 .. Len(w.code) /\ Len(w.code) = Len(h.code)
      /\ Len(w.code) \in Nat
  <2>1. /\ h.code \in Seq(Ops) /\ DOMAIN h.code = 1 .. Len(h.code) /\ Len(h.code) \in Nat
        /\ DOMAIN w.code = 1 .. Len(w.code) /\ Len(w.code) = Len(h.code)
    BY <1>2, <1>3, <1>6, <1>7, UnitIs
  <2>2. Len(h.code) # 0
    BY <1>1, <2>1, EmptySeq
  <2>3. QED
    BY <2>1, <2>2
<1>9. w.code # <<>> /\ w.code[Len(w.code)].op = "HALT"
  <2>1. w.code[Len(w.code)].op = "HALT"
    BY <1>1, <1>3, <1>6, <1>8
  <2>2. w.code # <<>>
    BY <1>8
  <2>3. QED
    BY <2>1, <2>2
<1>10. ASSUME NEW f \in DOMAIN w.functions
       PROVE  w.functions[f].entry \in DOMAIN w.code
  <2>1. u.functions # <<>> /\ w.functions = r.functions
    BY <1>6, <1>7 DEF SameBlocks
  <2>2. r.functions[f].entry < r.functions[f].end /\ r.functions[f].end <= Len(r.code) + 1
    BY <1>4, <2>1 DEF ValidProgram
  <2>3. w.functions[f] \in FunctionEntries(w.code)
    <3>1. w.functions \in Seq(FunctionEntries(w.code))
      BY <1>7, UnitIs
    <3>2. QED
      BY <3>1, ElementOfSeq, LenProperties
  <2>4. w.functions[f].entry \in 1 .. Len(w.code) + 1 /\ w.functions[f].end \in Nat
    BY <2>3 DEF FunctionEntries, Points
  <2>5. Len(r.code) = Len(w.code)
    BY <1>6
  <2>6. QED
    BY <1>8, <2>1, <2>2, <2>4, <2>5
<1>11. \A i \in DOMAIN w.code : ~Waits(w.code[i])
  BY <1>3, <1>6
<1>12. QED
  BY <1>7, <1>8, <1>9, <1>10, <1>11 DEF Linked, w, r, h

-----------------------------------------------------------------------------
(* The machine on a linked program: pc stands outside every table and, but *)
(* for FOR_CHECK right behind its FOR_INIT, at no operation that needs     *)
(* another before it; every frame but the one under FOR_CHECK knows its    *)
(* body; and every frame of a call lies above its caller's.                *)

Bodies(c) == {c[i].b : i \in {j \in DOMAIN c : c[j].op \in Checks}}
Returns(c) ==
    {i + 1 : i \in {j \in DOMAIN c : c[j].op = "GOSUB"}} \cup
    {i + 1 + c[i].a : i \in {j \in DOMAIN c : c[j].op = "ON_GOSUB"}}

Frames == [v : Variables, local : BOOLEAN, check : Nat, body : Int]
CallFrames(c) ==
    {f \in [function : Nat, call_pc : DOMAIN c, return_pc : Nat,
            expression_base : 0 .. StackSize - 1, for_base : Nat, return_base : {0}] :
        c[f.call_pc].op = "CALL_USER" /\ f.return_pc = f.call_pc + 1}

BaseOf(cs) == IF cs = <<>> THEN 0 ELSE Last(cs).for_base

Looped(c, p, frames) ==
    /\ frames \in Seq(Frames) /\ Len(frames) <= ForStackSize
    /\ \A k \in DOMAIN frames :
        frames[k].body \in Bodies(c) \/ (k = Len(frames) /\ c[p].op \in Checks)

Returning(u, returns) ==
    /\ returns \in Seq(Returns(u.code)) /\ Len(returns) <= ReturnStackSize
    /\ u.mode = "Structured" => returns = <<>>

Called(u, depth, cs) ==
    /\ cs \in Seq(CallFrames(u.code)) /\ Len(cs) <= MaxCallDepth
    /\ cs # <<>> => u.mode = "Structured"
    /\ \A k \in DOMAIN cs : cs[k].for_base <= depth
    /\ \A k, l \in DOMAIN cs : k <= l => cs[k].for_base <= cs[l].for_base

Runs(u, p, s, frames, returns, cs) ==
    /\ p \in DOMAIN u.code /\ ~InTable(u.code, p)
    /\ s \in 0 .. StackSize
    /\ Looped(u.code, p, frames) /\ Returning(u, returns) /\ Called(u, Len(frames), cs)
    /\ u.code[p].op \in Checks => Len(frames) > BaseOf(cs)

Rests == pc = 1 /\ sp = 0 /\ for_stack = <<>> /\ return_stack = <<>> /\ calls = <<>>

Compiles ==
    /\ phase \in {"compiling", "rejected", "accepted", "running", "halted", "failed"}
    /\ profile \in Profiles /\ unit.mode = profile.mode /\ Woven(unit)
    /\ text \in Seq(Written) /\ rows \in Seq(Points(unit.code)) /\ Len(rows) = Len(text)
    /\ Len(unit.code) <= MaxCode
    /\ phase \in {"accepted", "running", "halted", "failed"} => Linked(unit)

Inv ==
    /\ Compiles
    /\ phase # "running" => Rests
    /\ phase = "running" => Runs(unit, pc, sp, for_stack, return_stack, calls)

-----------------------------------------------------------------------------
(* Where the machine may go from an operation of a linked program.         *)

LEMMA LinkedIs ==
  ASSUME NEW u, Linked(u)
  PROVE  /\ u.code \in Seq(Ops) /\ Len(u.code) \in Nat /\ DOMAIN u.code = 1 .. Len(u.code)
         /\ \A i \in DOMAIN u.code :
                ForWhole(u.code, i) /\ TableWhole(u.code, i) /\ Led(u.code, i) /\ ~Waits(u.code[i])
         /\ \A i \in DOMAIN u.code : u.code[i].op # "HALT" => i + 1 \in DOMAIN u.code
         /\ \A i \in DOMAIN u.code : InMode(u.mode, u.code[i])
         /\ u.mode \in Modes
<1>1. /\ u.code \in Seq(Ops) /\ Len(u.code) \in Nat /\ DOMAIN u.code = 1 .. Len(u.code)
      /\ u.mode \in Modes
  BY UnitIs DEF Linked
<1>2. \A i \in DOMAIN u.code : ForWhole(u.code, i) /\ TableWhole(u.code, i) /\ Led(u.code, i)
  BY DEF Linked, Woven, Threaded
<1>3. ASSUME NEW i \in DOMAIN u.code, u.code[i].op # "HALT"
      PROVE  i + 1 \in DOMAIN u.code
  <2>1. i # Len(u.code)
    BY <1>3 DEF Linked
  <2>2. QED
    BY <1>1, <2>1
<1>4. QED
  BY <1>1, <1>2, <1>3 DEF Linked, Woven

(* One step on, outside the tables, and at a check only behind its init.   *)
LEMMA OneOn ==
  ASSUME NEW u, Linked(u), NEW p \in DOMAIN u.code, ~InTable(u.code, p),
         u.code[p].op \notin Tables \cup {"HALT"}
  PROVE  /\ p + 1 \in DOMAIN u.code /\ ~InTable(u.code, p + 1)
         /\ u.code[p + 1].op \in Checks => u.code[p].op \in Inits
<1> DEFINE c == u.code
<1>1. /\ c \in Seq(Ops) /\ Len(c) \in Nat /\ DOMAIN c = 1 .. Len(c) /\ p + 1 \in DOMAIN c
      /\ ForWhole(c, p + 1)
  BY LinkedIs
<1>2. ~InTable(c, p + 1)
  <2>1. SUFFICES ASSUME NEW j \in DOMAIN c, c[j].op \in Tables, j < p + 1, p + 1 <= j + c[j].a
                 PROVE  FALSE
    BY DEF InTable
  <2>2. j \in Nat /\ c[j].a \in Nat /\ j # p
    BY <1>1, <2>1, OpsIn
  <2>3. j < p /\ p <= j + c[j].a
    BY <1>1, <2>1, <2>2
  <2>4. QED
    BY <2>1, <2>3 DEF InTable
<1>3. (p + 1) - 1 = p
  BY <1>1
<1>4. QED
  BY <1>1, <1>2, <1>3 DEF ForWhole

(* What is not a JMP is no entry of a table, and what follows it is none   *)
(* of another's.                                                           *)
LEMMA NotInTable ==
  ASSUME NEW u, Linked(u), NEW p \in DOMAIN u.code, u.code[p].op # "JMP"
  PROVE  ~InTable(u.code, p)
<1>1. SUFFICES ASSUME NEW j \in DOMAIN u.code, u.code[j].op \in Tables, j < p,
                      p <= j + u.code[j].a
               PROVE  FALSE
  BY DEF InTable
<1>2. j \in Nat /\ u.code[j].a \in Nat /\ p \in Nat
  BY LinkedIs, OpsIn
<1>3. p \in j + 1 .. j + u.code[j].a
  BY <1>1, <1>2
<1>4. QED
  BY <1>1, <1>3, LinkedIs DEF TableWhole

LEMMA Behind ==
  ASSUME NEW u, Linked(u), NEW p \in DOMAIN u.code,
         u.code[p].op \notin Tables \cup Inits \cup {"HALT", "JMP"}
  PROVE  p + 1 \in DOMAIN u.code /\ Enterable(u.code, p + 1)
<1>1. ~InTable(u.code, p)
  BY NotInTable
<1>2. QED
  BY <1>1, OneOn DEF Enterable

LEMMA BehindTable ==
  ASSUME NEW u, Linked(u), NEW p \in DOMAIN u.code, u.code[p].op \in Tables
  PROVE  /\ p + 1 + u.code[p].a \in DOMAIN u.code /\ Enterable(u.code, p + 1 + u.code[p].a)
         /\ \A k \in 1 .. u.code[p].a : p + k \in DOMAIN u.code /\ u.code[p + k].op = "JMP"
<1> DEFINE c == u.code
           a == c[p].a
           e == p + a
<1>1. /\ c \in Seq(Ops) /\ Len(c) \in Nat /\ DOMAIN c = 1 .. Len(c) /\ TableWhole(c, p)
      /\ a \in Nat /\ p \in Nat
  BY LinkedIs, OpsIn
<1>2. a > 0 /\ e \in DOMAIN c /\ \A n \in p + 1 .. e : c[n].op = "JMP"
  BY <1>1 DEF TableWhole
<1>3. c[e].op = "JMP" /\ e + 1 = p + 1 + a /\ (e + 1) - 1 = e
  <2>1. e + 1 = p + 1 + a /\ (e + 1) - 1 = e
    BY SMTT(30), <1>1
  <2>2. e \in p + 1 .. e
    BY SMTT(30), <1>1, <1>2
  <2>3. QED
    BY <1>2, <2>1, <2>2
<1> HIDE DEF a
<1>4. e + 1 \in DOMAIN c /\ ForWhole(c, e + 1)
  BY <1>2, <1>3, LinkedIs
<1>5. c[e + 1].op \notin Checks
  BY <1>3, <1>4 DEF ForWhole, Inits
<1>6. ~InTable(c, e + 1)
  <2>1. SUFFICES ASSUME NEW j \in DOMAIN c, c[j].op \in Tables, j < e + 1, e + 1 <= j + c[j].a
                 PROVE  FALSE
    BY DEF InTable
  <2>2. j \in Nat /\ c[j].a \in Nat
    BY <1>1, OpsIn
  <2>3. j \notin p + 1 .. e
    BY <1>2, <2>1 DEF Tables
  <2>4. j # p
    BY <1>1, <2>1, <2>2 DEF a
  <2>5. j < p /\ p <= j + c[j].a
    <3>1. j <= e /\ p <= e /\ e \in Nat
      BY <1>1, <2>1, <2>2
    <3>2. j < p
      BY <1>1, <2>2, <2>3, <2>4, <3>1
    <3>3. QED
      BY <1>1, <2>1, <2>2, <3>1, <3>2
  <2>6. InTable(c, p)
    BY <2>1, <2>5 DEF InTable
  <2>7. QED
    BY <2>6, NotInTable DEF Tables
<1>7. ASSUME NEW k \in 1 .. a
      PROVE  p + k \in DOMAIN c /\ c[p + k].op = "JMP"
  <2>1. p + k \in p + 1 .. e /\ p + k \in DOMAIN c
    BY <1>1, <1>2
  <2>2. QED
    BY <1>2, <2>1
<1>8. QED
  BY <1>3, <1>4, <1>5, <1>6, <1>7 DEF Enterable, a

(* The body of a loop begins behind the JMP that skips it.                 *)
LEMMA BehindCheck ==
  ASSUME NEW u, Linked(u), NEW b \in Bodies(u.code)
  PROVE  b \in DOMAIN u.code /\ Enterable(u.code, b)
<1> DEFINE c == u.code
<1>1. PICK p \in DOMAIN c : c[p].op \in Checks /\ b = c[p].b
  BY DEF Bodies
<1>2. /\ c \in Seq(Ops) /\ Len(c) \in Nat /\ DOMAIN c = 1 .. Len(c) /\ ForWhole(c, p)
      /\ p \in Nat
  BY <1>1, LinkedIs, OpsIn
<1>3. p + 1 \in DOMAIN c /\ c[p + 1].op = "JMP" /\ b = (p + 1) + 1
  BY <1>1, <1>2 DEF ForWhole
<1>4. ~InTable(c, p)
  BY <1>1, NotInTable DEF Checks
<1>5. ~InTable(c, p + 1)
  BY <1>1, <1>4, OneOn DEF Checks, Tables
<1>6. QED
  BY <1>3, <1>5, OneOn DEF Enterable, Tables, Inits

LEMMA JumpsTo ==
  ASSUME NEW u, Linked(u), NEW p \in DOMAIN u.code, u.code[p].op \in Jumps,
         u.code[p].a \in DOMAIN u.code
  PROVE  Enterable(u.code, u.code[p].a)
<1>1. u.code[p].a \in Points(u.code) \cup {0} /\ 0 \notin DOMAIN u.code
  BY LinkedIs DEF Led
<1>2. QED
  BY <1>1 DEF Points

LEMMA ReturnsTo ==
  ASSUME NEW u, Linked(u), NEW n \in Returns(u.code)
  PROVE  n \in DOMAIN u.code /\ Enterable(u.code, n)
<1>1. CASE \E i \in DOMAIN u.code : u.code[i].op = "GOSUB" /\ n = i + 1
  BY <1>1, Behind DEF Tables, Inits
<1>2. CASE \E i \in DOMAIN u.code : u.code[i].op = "ON_GOSUB" /\ n = i + 1 + u.code[i].a
  BY <1>2, BehindTable DEF Tables
<1>3. QED
  BY <1>1, <1>2 DEF Returns

-----------------------------------------------------------------------------
(* What the optimizer takes for entries.                                   *)

LEMMA MarksIn ==
  ASSUME NEW u, NEW i \in DOMAIN u.code
  PROVE  /\ u.code[i].op \in Jumps => {u.code[i].a} \cap DOMAIN u.code \subseteq Entries(u)
         /\ u.code[i].op \in {"GOSUB", "CALL_USER"} => {i + 1} \cap DOMAIN u.code \subseteq Entries(u)
         /\ u.code[i].op \in Checks => {u.code[i].b} \cap DOMAIN u.code \subseteq Entries(u)
         /\ u.code[i].op \in Tables =>
                {i + 1 + u.code[i].a} \cap DOMAIN u.code \subseteq Entries(u)
         /\ {u.functions[f].entry : f \in DOMAIN u.functions} \cap DOMAIN u.code
                \subseteq Entries(u)
<1> DEFINE marks(n) ==
            LET o == u.code[n] IN
            CASE o.op = "EXIT_LOOP" -> {n, o.a, n + 1}
              [] o.op \in {"JMP", "JZ", "GOSUB"} -> {o.a, n + 1}
              [] o.op \in {"FOR_CHECK", "FOR_LOCAL_CHECK"} -> {o.b, n, n + 1}
              [] o.op \in {"FOR_INIT", "FOR_LOCAL_INIT", "FOR_INCR", "FOR_LOCAL_INCR",
                             "CALL_USER", "RETURN_USER", "FUNCTION_FALLTHROUGH",
                             "RETSUB", "HALT"} -> {n, n + 1}
              [] o.op \in {"ON_GOTO", "ON_GOSUB"} -> {n, n + 1 + o.a}
              [] OTHER -> {}
<1> DEFINE marked == UNION {marks(n) : n \in DOMAIN u.code}
           starts == {u.functions[f].entry : f \in DOMAIN u.functions}
           ends == {u.functions[f].end : f \in DOMAIN u.functions}
<1>1. Entries(u) = (marked \cup starts \cup ends) \cap DOMAIN u.code
  BY DEF Entries
<1>2. u.code[i].op = "EXIT_LOOP" => marks(i) = {i, u.code[i].a, i + 1}
  OBVIOUS
<1>3. u.code[i].op \in {"JMP", "JZ", "GOSUB"} => marks(i) = {u.code[i].a, i + 1}
  OBVIOUS
<1>4. u.code[i].op \in Checks => marks(i) = {u.code[i].b, i, i + 1}
  BY DEF Checks
<1>5. u.code[i].op = "CALL_USER" => marks(i) = {i, i + 1}
  OBVIOUS
<1>6. u.code[i].op \in Tables => marks(i) = {i, i + 1 + u.code[i].a}
  BY DEF Tables
<1>7. marks(i) \subseteq marked
  OBVIOUS
<1> HIDE DEF marks, marked, starts, ends
<1>8. marks(i) \cap DOMAIN u.code \subseteq Entries(u) /\ starts \cap DOMAIN u.code \subseteq Entries(u)
  BY <1>1, <1>7
<1>9. QED
  BY <1>2, <1>3, <1>4, <1>5, <1>6, <1>8 DEF Jumps, starts

LEMMA EntryIs ==
  ASSUME NEW u, NEW n \in DOMAIN u.code
  PROVE  /\ n \in Bodies(u.code) => n \in Entries(u)
         /\ n \in Returns(u.code) => n \in Entries(u)
<1>1. n \in Bodies(u.code) => n \in Entries(u)
  BY MarksIn DEF Bodies
<1>2. \A i \in DOMAIN u.code : u.code[i].op = "GOSUB" /\ n = i + 1 => n \in Entries(u)
  BY MarksIn
<1>3. \A i \in DOMAIN u.code :
         u.code[i].op = "ON_GOSUB" /\ n = i + 1 + u.code[i].a => n \in Entries(u)
  BY MarksIn DEF Tables
<1>4. n \in Returns(u.code) => n \in Entries(u)
  BY <1>2, <1>3 DEF Returns
<1>5. QED
  BY <1>1, <1>4
-----------------------------------------------------------------------------
(* Sequences: what is kept below a height.                                 *)

LEMMA LowerPart ==
  ASSUME NEW S, NEW s \in Seq(S), NEW n \in 0 .. Len(s)
  PROVE  /\ SubSeq(s, 1, n) \in Seq(S) /\ Len(SubSeq(s, 1, n)) = n
         /\ DOMAIN SubSeq(s, 1, n) = 1 .. n
         /\ \A i \in 1 .. n : SubSeq(s, 1, n)[i] = s[i]
<1>1. n \in Nat /\ Len(s) \in Nat /\ \A i \in 1 .. n : s[i] \in S
  BY ElementOfSeq, LenProperties
<1>2. /\ SubSeq(s, 1, n) \in Seq(S) /\ Len(SubSeq(s, 1, n)) = IF 1 <= n THEN n - 1 + 1 ELSE 0
      /\ \A i \in 1 .. n - 1 + 1 : SubSeq(s, 1, n)[i] = s[1 + i - 1]
  BY <1>1, SubSeqProperties
<1>3. Len(SubSeq(s, 1, n)) = n /\ \A i \in 1 .. n : SubSeq(s, 1, n)[i] = s[i]
  BY <1>1, <1>2
<1>4. QED
  BY <1>2, <1>3, LenProperties

LEMMA PrefixIs ==
  ASSUME NEW S, NEW s \in Seq(S), NEW t \in Seq(S), NEW n \in Nat, n <= Len(s), n <= Len(t),
         \A i \in 1 .. n : t[i] = s[i]
  PROVE  IsPrefix(SubSeq(s, 1, n), t)
<1> DEFINE low == SubSeq(s, 1, n)
<1>1. Len(s) \in Nat /\ Len(t) \in Nat
  BY LenProperties
<1>2. /\ low \in Seq(S) /\ Len(low) = n /\ \A i \in 1 .. n : low[i] = s[i]
  BY <1>1, LowerPart
<1> HIDE DEF low
<1>3. /\ SubSeq(t, 1, n) \in Seq(S) /\ Len(SubSeq(t, 1, n)) = n
      /\ \A i \in 1 .. n : SubSeq(t, 1, n)[i] = t[i]
  BY <1>1, LowerPart
<1>4. SubSeq(low, 1, n) = low
  BY <1>2, SubSeqFull
<1>5. low = SubSeq(t, 1, n)
  BY <1>2, <1>3, SeqEqual
<1>6. QED
  BY <1>2, <1>4, <1>5 DEF IsPrefix, low

LEMMA MaxIs ==
  ASSUME NEW n \in Nat, NEW S \in SUBSET (1 .. n), S # {}
  PROVE  Max(S) \in S
<1> DEFINE T == {n - x : x \in S}
<1>1. PICK x \in S : TRUE
  OBVIOUS
<1>2. T \in SUBSET Nat /\ n - x \in T
  OBVIOUS
<1>3. PICK m \in T : \A y \in T : m <= y
  <2> HIDE DEF T
  <2>1. QED
    BY <1>2, LeastElement
<1>4. PICK z \in S : m = n - z
  BY <1>3
<1>5. \A y \in S : z >= y
  <2>1. ASSUME NEW y \in S PROVE z >= y
    <3>1. n - y \in T
      OBVIOUS
    <3>2. n - z <= n - y
      BY <1>3, <1>4, <3>1
    <3>3. QED
      BY <3>2
  <2>2. QED
    BY <2>1
<1>6. QED
  BY <1>5 DEF Max

-----------------------------------------------------------------------------
(* How the machine's stacks change.                                        *)

LEMMA BaseIs ==
  ASSUME NEW u, NEW depth \in Nat, NEW cs, Called(u, depth, cs)
  PROVE  /\ BaseOf(cs) \in Nat /\ BaseOf(cs) <= depth
         /\ \A n \in Nat : n >= BaseOf(cs) => Called(u, n, cs)
<1>1. CASE cs = <<>>
  <2>1. DOMAIN cs = {}
    BY <1>1
  <2>2. QED
    BY <1>1, <2>1 DEF BaseOf, Called
<1>2. CASE cs # <<>>
  <2>1. /\ Len(cs) \in DOMAIN cs /\ Last(cs) = cs[Len(cs)] /\ cs[Len(cs)] \in CallFrames(u.code)
        /\ \A k \in DOMAIN cs : k <= Len(cs) /\ cs[k] \in CallFrames(u.code)
    BY <1>2, TopIs, ElementOfSeq, LenProperties DEF Called
  <2>2. BaseOf(cs) = cs[Len(cs)].for_base
    BY <1>2, <2>1 DEF BaseOf
  <2>3. \A k \in DOMAIN cs : cs[k].for_base \in Nat /\ cs[k].for_base <= BaseOf(cs)
    BY <2>1, <2>2 DEF Called, CallFrames
  <2>4. QED
    BY <2>1, <2>2, <2>3 DEF Called
<1>3. QED
  BY <1>1, <1>2

LEMMA RunsIs ==
  ASSUME NEW u, Linked(u), NEW p, NEW s, NEW frames, NEW returns, NEW cs,
         Runs(u, p, s, frames, returns, cs)
  PROVE  /\ p \in DOMAIN u.code /\ p \in Nat /\ ~InTable(u.code, p) /\ u.code[p] \in Ops
         /\ u.code[p].a \in Nat /\ u.code[p].b \in Int
         /\ s \in 0 .. StackSize /\ StackSize \in Nat
         /\ frames \in Seq(Frames) /\ Len(frames) \in Nat /\ DOMAIN frames = 1 .. Len(frames)
         /\ Len(frames) <= ForStackSize
         /\ u.code[p].op \notin Checks => \A k \in DOMAIN frames : frames[k].body \in Bodies(u.code)
         /\ Returning(u, returns) /\ Called(u, Len(frames), cs)
         /\ BaseOf(cs) \in Nat /\ BaseOf(cs) <= Len(frames)
<1>1. frames \in Seq(Frames) /\ Len(frames) \in Nat /\ DOMAIN frames = 1 .. Len(frames)
  BY LenProperties DEF Runs, Looped
<1>2. BaseOf(cs) \in Nat /\ BaseOf(cs) <= Len(frames)
  BY <1>1, BaseIs DEF Runs
<1>3. StackSize \in Nat
  BY StackAssumption
<1>4. p \in Nat /\ u.code[p] \in Ops /\ u.code[p].a \in Nat /\ u.code[p].b \in Int
  BY LinkedIs, OpsIn DEF Runs
<1>5. QED
  BY <1>1, <1>2, <1>3, <1>4 DEF Runs, Looped

(* Control comes from elsewhere.                                           *)
LEMMA Arrives ==
  ASSUME NEW u, Linked(u), NEW p \in DOMAIN u.code, Enterable(u.code, p),
         NEW s \in 0 .. StackSize,
         NEW frames \in Seq(Frames), Len(frames) <= ForStackSize,
         \A k \in DOMAIN frames : frames[k].body \in Bodies(u.code),
         NEW returns, Returning(u, returns), NEW cs, Called(u, Len(frames), cs)
  PROVE  Runs(u, p, s, frames, returns, cs)
  BY DEF Runs, Looped, Enterable

(* Control goes to the next operation, no loop having begun.               *)
LEMMA Proceeds ==
  ASSUME NEW u, Linked(u), NEW p \in DOMAIN u.code, ~InTable(u.code, p),
         u.code[p].op \notin Tables \cup Inits \cup {"HALT"},
         NEW s \in 0 .. StackSize,
         NEW frames \in Seq(Frames), Len(frames) <= ForStackSize,
         \A k \in DOMAIN frames : frames[k].body \in Bodies(u.code),
         NEW returns, Returning(u, returns), NEW cs, Called(u, Len(frames), cs)
  PROVE  Runs(u, p + 1, s, frames, returns, cs)
<1>1. p + 1 \in DOMAIN u.code /\ Enterable(u.code, p + 1)
  BY OneOn DEF Enterable
<1>2. QED
  BY <1>1, Arrives

LEMMA Shortened ==
  ASSUME NEW c, NEW frames \in Seq(Frames), Len(frames) <= ForStackSize, NEW n \in 0 .. Len(frames),
         \A k \in 1 .. n : frames[k].body \in Bodies(c)
  PROVE  LET low == SubSeq(frames, 1, n)
         IN  /\ low \in Seq(Frames) /\ Len(low) = n /\ Len(low) <= ForStackSize
             /\ \A k \in DOMAIN low : low[k].body \in Bodies(c) /\ low[k] = frames[k]
<1>1. ForStackSize \in Nat /\ Len(frames) \in Nat
  BY StackAssumption, LenProperties
<1> DEFINE low == SubSeq(frames, 1, n)
<1>2. /\ low \in Seq(Frames) /\ Len(low) = n /\ DOMAIN low = 1 .. n
      /\ \A k \in 1 .. n : low[k] = frames[k]
  BY LowerPart
<1> HIDE DEF low
<1>3. QED
  BY <1>1, <1>2 DEF low
-----------------------------------------------------------------------------
(* A step of the machine.                                                  *)

Standing == Inv /\ phase = "running"

\* What FlowKept says of a step.
Flows ==
    phase' = "running" =>
        /\ IsPrefix(SubSeq(for_stack, 1, Base), for_stack')
        /\ pc' # pc + 1 => pc' \in Entries(unit)

LEMMA StandingIs ==
  ASSUME Standing
  PROVE  /\ Linked(unit) /\ Runs(unit, pc, sp, for_stack, return_stack, calls)
         /\ unit.code \in Seq(Ops)
         /\ op = unit.code[pc] /\ code = unit.code /\ Base = BaseOf(calls)
         /\ pc \in DOMAIN unit.code /\ pc \in Nat /\ ~InTable(unit.code, pc) /\ op \in Ops
         /\ op.a \in Nat /\ op.b \in Int
         /\ sp \in 0 .. StackSize /\ StackSize \in Nat
         /\ for_stack \in Seq(Frames) /\ Len(for_stack) \in Nat
         /\ DOMAIN for_stack = 1 .. Len(for_stack) /\ Len(for_stack) <= ForStackSize
         /\ op.op \notin Checks =>
                \A k \in DOMAIN for_stack : for_stack[k].body \in Bodies(unit.code)
         /\ Returning(unit, return_stack) /\ Called(unit, Len(for_stack), calls)
         /\ Base \in Nat /\ Base <= Len(for_stack)
<1>1. Linked(unit) /\ Runs(unit, pc, sp, for_stack, return_stack, calls)
  BY DEF Standing, Inv, Compiles
<1>2. op = unit.code[pc] /\ code = unit.code /\ Base = BaseOf(calls)
  BY DEF op, code, Base, BaseOf
<1>3. unit.code \in Seq(Ops)
  BY <1>1, LinkedIs
<1>4. QED
  BY <1>1, <1>2, <1>3, RunsIs

LEMMA FailKeeps ==
  ASSUME Standing, NEW message, Fail(message)
  PROVE  Inv' /\ Flows
<1>1. /\ phase' = "failed" /\ profile' = profile /\ text' = text /\ rows' = rows /\ unit' = unit
      /\ pc' = 1 /\ sp' = 0 /\ for_stack' = <<>> /\ return_stack' = <<>> /\ calls' = <<>>
  BY DEF Fail, Fresh, program
<1>2. Compiles'
  BY <1>1 DEF Standing, Inv, Compiles
<1>3. Rests'
  BY <1>1 DEF Rests
<1>4. QED
  BY <1>1, <1>2, <1>3 DEF Inv, Flows

LEMMA GoesOn ==
  ASSUME Standing, Quiet,
         Runs(unit, pc', sp', for_stack', return_stack', calls'),
         Base <= Len(for_stack'), \A k \in 1 .. Base : for_stack'[k] = for_stack[k],
         pc' # pc + 1 => pc' \in Entries(unit)
  PROVE  Inv' /\ Flows
<1>1. phase' = phase /\ profile' = profile /\ text' = text /\ rows' = rows /\ unit' = unit
  BY DEF Quiet, program
<1>2. Compiles'
  BY <1>1 DEF Standing, Inv, Compiles
<1>3. for_stack' \in Seq(Frames)
  BY DEF Runs, Looped
<1>4. IsPrefix(SubSeq(for_stack, 1, Base), for_stack')
  BY <1>3, StandingIs, PrefixIs
<1>5. phase' = "running"
  BY <1>1 DEF Standing
<1>6. QED
  BY <1>1, <1>2, <1>4, <1>5 DEF Inv, Flows

LEMMA Moves ==
  ASSUME Standing, Quiet,
         pc' \in DOMAIN unit.code, Enterable(unit.code, pc'),
         pc' # pc + 1 => pc' \in Entries(unit),
         sp' \in 0 .. StackSize,
         for_stack' \in Seq(Frames), Len(for_stack') <= ForStackSize,
         \A k \in DOMAIN for_stack' : for_stack'[k].body \in Bodies(unit.code),
         Base <= Len(for_stack'), \A k \in 1 .. Base : for_stack'[k] = for_stack[k],
         Returning(unit, return_stack'), Called(unit, Len(for_stack'), calls')
  PROVE  Inv' /\ Flows
<1>1. Runs(unit, pc', sp', for_stack', return_stack', calls')
  BY StandingIs, Arrives
<1>2. QED
  BY <1>1, GoesOn

(* On to the next operation, and to another one, with the loops as they    *)
(* are.                                                                    *)
LEMMA NextOne ==
  ASSUME Standing, op.op \notin Tables \cup Inits \cup Checks \cup {"HALT"}, Goto(pc + 1),
         sp' \in 0 .. StackSize, UNCHANGED <<for_stack, return_stack, calls>>
  PROVE  Inv' /\ Flows
<1>1. pc' = pc + 1 /\ Quiet
  BY DEF Goto
<1>2. /\ for_stack' = for_stack /\ return_stack' = return_stack /\ calls' = calls
  OBVIOUS
<1>3. pc + 1 \in DOMAIN unit.code /\ Enterable(unit.code, pc + 1)
  BY StandingIs, OneOn DEF Enterable
<1>4. QED
  BY <1>1, <1>2, <1>3, StandingIs, Moves

LEMMA OtherOne ==
  ASSUME Standing, op.op \notin Checks, NEW n \in DOMAIN unit.code, Goto(n),
         Enterable(unit.code, n), n \in Entries(unit),
         sp' \in 0 .. StackSize, UNCHANGED <<for_stack, calls>>, Returning(unit, return_stack')
  PROVE  Inv' /\ Flows
<1>1. pc' = n /\ Quiet
  BY DEF Goto
<1>2. for_stack' = for_stack /\ calls' = calls
  OBVIOUS
<1>3. QED
  BY <1>1, <1>2, StandingIs, Moves

LEMMA JumpLands ==
  ASSUME Standing, op.op \in Jumps, op.a \in DOMAIN unit.code
  PROVE  Enterable(unit.code, op.a) /\ op.a \in Entries(unit)
<1>1. Enterable(unit.code, op.a)
  BY StandingIs, JumpsTo
<1>2. op.a \in Entries(unit)
  BY StandingIs, MarksIn
<1>3. QED
  BY <1>1, <1>2

-----------------------------------------------------------------------------
(* Operands and jumps.                                                     *)

LEMMA PushKeeps ==
  ASSUME Standing, Push
  PROVE  Inv' /\ Flows
<1> DEFINE n == IF op.op = "DUP" THEN 1 ELSE op.a
<1>1. op.op \in {"EXPR", "DUP"}
  BY DEF Push, At
<1>2. CASE sp + n <= StackSize /\ sp' = sp + n /\ Goto(pc + 1)
           /\ UNCHANGED <<for_stack, return_stack, calls>>
  <2>1. n \in Nat
    BY StandingIs
  <2>2. sp' \in 0 .. StackSize
    BY SMTT(30), <1>2, <2>1, StandingIs
  <2>3. QED
    BY <1>1, <1>2, <2>2, NextOne DEF Tables, Inits, Checks
<1>3. CASE Fail("STACK UNDERFLOW") \/ Fail("STACK OVERFLOW")
  BY <1>3, FailKeeps
<1>4. QED
  BY <1>2, <1>3 DEF Push

LEMMA PopKeeps ==
  ASSUME Standing, Pop
  PROVE  Inv' /\ Flows
<1> DEFINE needs == IF op.op = "STORE" THEN op.a ELSE 1
<1>1. op.op \in {"STORE", "DROP", "TEST"}
  BY DEF Pop, At
<1>2. CASE sp >= needs /\ sp' = (IF op.op = "TEST" THEN sp ELSE sp - needs) /\ Goto(pc + 1)
           /\ UNCHANGED <<for_stack, return_stack, calls>>
  <2>1. needs \in Nat
    BY StandingIs
  <2>2. sp' \in 0 .. StackSize
    BY SMTT(30), <1>2, <2>1, StandingIs
  <2>3. QED
    BY <1>1, <1>2, <2>2, NextOne DEF Tables, Inits, Checks
<1>3. CASE Fail("STACK UNDERFLOW")
  BY <1>3, FailKeeps
<1>4. QED
  BY <1>2, <1>3 DEF Pop

LEMMA JumpToKeeps ==
  ASSUME Standing, op.op \in Jumps, JumpTo(op.a), op.a \in DOMAIN unit.code => sp' \in 0 .. StackSize
  PROVE  Inv' /\ Flows
<1>1. CASE op.a \in DOMAIN code /\ Goto(op.a) /\ UNCHANGED <<for_stack, return_stack, calls>>
  <2>1. op.a \in DOMAIN unit.code
    BY <1>1, StandingIs
  <2>2. op.op \notin Checks
    BY DEF Jumps, Checks
  <2>3. Returning(unit, return_stack')
    BY <1>1, StandingIs
  <2>4. QED
    BY <1>1, <2>1, <2>2, <2>3, JumpLands, OtherOne
<1>2. CASE Fail("BAD JUMP TARGET")
  BY <1>2, FailKeeps
<1>3. QED
  BY <1>1, <1>2 DEF JumpTo

LEMMA JmpKeeps ==
  ASSUME Standing, Jmp
  PROVE  Inv' /\ Flows
<1>1. op.op \in Jumps /\ JumpTo(op.a) /\ (op.a \in DOMAIN code => sp' = sp)
  BY DEF Jmp, At, Jumps
<1>2. QED
  BY <1>1, StandingIs, JumpToKeeps

LEMMA JzKeeps ==
  ASSUME Standing, Jz
  PROVE  Inv' /\ Flows
<1>1. op.op = "JZ" /\ op.op \in Jumps
  BY DEF Jz, At, Jumps
<1>2. CASE Fail("STACK UNDERFLOW")
  BY <1>2, FailKeeps
<1>3. CASE sp > 0 /\ sp' = sp - 1 /\ Goto(pc + 1) /\ UNCHANGED <<for_stack, return_stack, calls>>
  <2>1. sp' \in 0 .. StackSize
    BY <1>3, StandingIs
  <2>2. QED
    BY <1>1, <1>3, <2>1, NextOne DEF Tables, Inits, Checks
<1>4. CASE sp > 0 /\ (op.a \in DOMAIN code => sp' = sp - 1) /\ JumpTo(op.a)
  <2>1. op.a \in DOMAIN unit.code => sp' \in 0 .. StackSize
    BY <1>4, StandingIs
  <2>2. QED
    BY <1>1, <1>4, <2>1, JumpToKeeps
<1>5. QED
  BY <1>2, <1>3, <1>4 DEF Jz
LEMMA HaltKeeps ==
  ASSUME Standing, Halt
  PROVE  Inv' /\ Flows
<1>1. /\ phase' = "halted" /\ profile' = profile /\ text' = text /\ rows' = rows /\ unit' = unit
      /\ pc' = 1 /\ sp' = 0 /\ for_stack' = <<>> /\ return_stack' = <<>> /\ calls' = <<>>
  BY DEF Halt, Fresh, program
<1>2. Compiles'
  BY <1>1 DEF Standing, Inv, Compiles
<1>3. Rests'
  BY <1>1 DEF Rests
<1>4. QED
  BY <1>1, <1>2, <1>3 DEF Inv, Flows

LEMMA ReturnPushed ==
  ASSUME Standing, op.op \in {"GOSUB", "ON_GOSUB"}, NEW n \in Returns(unit.code),
         Len(return_stack) < ReturnStackSize
  PROVE  Returning(unit, Append(return_stack, n))
<1>1. InMode(unit.mode, op)
  BY StandingIs, LinkedIs
<1>2. unit.mode # "Structured"
  BY <1>1 DEF InMode, Tables
<1>3. return_stack \in Seq(Returns(unit.code)) /\ ReturnStackSize \in Nat
  BY StandingIs, StackAssumption DEF Returning
<1>4. /\ Append(return_stack, n) \in Seq(Returns(unit.code)) /\ Len(return_stack) \in Nat
      /\ Len(Append(return_stack, n)) = Len(return_stack) + 1
  BY <1>3, AppendProperties, LenProperties
<1>5. QED
  BY <1>2, <1>3, <1>4 DEF Returning

LEMMA GosubKeeps ==
  ASSUME Standing, Gosub
  PROVE  Inv' /\ Flows
<1>1. op.op = "GOSUB" /\ op.op \in Jumps /\ op.op \notin Checks
  BY DEF Gosub, At, Jumps, Checks
<1>2. CASE Fail("GOSUB STACK OVERFLOW") \/ Fail("BAD GOSUB TARGET")
  BY <1>2, FailKeeps
<1>3. CASE /\ Len(return_stack) < ReturnStackSize /\ op.a \in DOMAIN code
           /\ return_stack' = Append(return_stack, pc + 1)
           /\ Goto(op.a) /\ UNCHANGED <<sp, for_stack, calls>>
  <2>1. pc + 1 \in Returns(unit.code)
    BY <1>1, StandingIs DEF Returns
  <2>2. Returning(unit, return_stack')
    BY <1>1, <1>3, <2>1, ReturnPushed
  <2>3. op.a \in DOMAIN unit.code /\ sp' \in 0 .. StackSize
    BY <1>3, StandingIs
  <2>4. QED
    BY <1>1, <1>3, <2>2, <2>3, JumpLands, OtherOne
<1>4. QED
  BY <1>2, <1>3 DEF Gosub

LEMMA RetsubKeeps ==
  ASSUME Standing, Retsub
  PROVE  Inv' /\ Flows
<1>1. op.op = "RETSUB" /\ op.op \notin Checks
  BY DEF Retsub, At, Checks
<1>2. CASE Fail("RETURN WITHOUT GOSUB")
  BY <1>2, FailKeeps
<1>3. CASE /\ return_stack # <<>> /\ return_stack' = Front(return_stack)
           /\ Goto(Last(return_stack)) /\ UNCHANGED <<sp, for_stack, calls>>
  <2> DEFINE R == Returns(unit.code)
             n == Last(return_stack)
  <2>1. /\ return_stack \in Seq(R) /\ Len(return_stack) <= ReturnStackSize
        /\ unit.mode = "Structured" => return_stack = <<>> /\ ReturnStackSize \in Nat
    BY StandingIs, StackAssumption DEF Returning
  <2>2. /\ n \in R /\ Front(return_stack) \in Seq(R) /\ Len(return_stack) \in Nat
        /\ Len(Front(return_stack)) = Len(return_stack) - 1
    <3> HIDE DEF R
    <3>1. QED
      BY <1>3, <2>1, TopIs
  <2>3. ReturnStackSize \in Nat
    BY StackAssumption
  <2>4. Returning(unit, return_stack')
    BY <1>3, <2>1, <2>2, <2>3 DEF Returning
  <2>5. n \in DOMAIN unit.code /\ Enterable(unit.code, n) /\ n \in Entries(unit)
    BY <2>2, StandingIs, ReturnsTo, EntryIs
  <2>6. sp' \in 0 .. StackSize
    BY <1>3, StandingIs
  <2>7. QED
    BY <1>1, <1>3, <2>4, <2>5, <2>6, OtherOne
<1>4. QED
  BY <1>2, <1>3 DEF Retsub

LEMMA OnBranchKeeps ==
  ASSUME Standing, OnBranch
  PROVE  Inv' /\ Flows
<1>1. op.op \in Tables /\ op.op \in {"ON_GOTO", "ON_GOSUB"} /\ op.op \notin Checks
  BY DEF OnBranch, At, Tables, Checks
<1>2. /\ AfterTable \in DOMAIN unit.code /\ Enterable(unit.code, AfterTable)
      /\ AfterTable \in Entries(unit) /\ AfterTable = pc + 1 + unit.code[pc].a
      /\ \A k \in 1 .. op.a : pc + k \in DOMAIN unit.code /\ unit.code[pc + k].op = "JMP"
  <2>1. AfterTable = pc + 1 + unit.code[pc].a /\ op.a = unit.code[pc].a /\ pc \in DOMAIN unit.code
    BY StandingIs DEF AfterTable
  <2>2. /\ AfterTable \in DOMAIN unit.code /\ Enterable(unit.code, AfterTable)
        /\ \A k \in 1 .. op.a : pc + k \in DOMAIN unit.code /\ unit.code[pc + k].op = "JMP"
    BY <1>1, <2>1, StandingIs, BehindTable
  <2>3. {AfterTable} \cap DOMAIN unit.code \subseteq Entries(unit)
    BY <1>1, <2>1, StandingIs, MarksIn
  <2>4. QED
    BY <2>1, <2>2, <2>3
<1>3. CASE \E m \in {"STACK UNDERFLOW", "BAD ON TABLE", "BAD ON TARGET", "GOSUB STACK OVERFLOW"} : Fail(m)
  BY <1>3, FailKeeps
<1>4. CASE sp > 0 /\ sp' = sp - 1 /\ Goto(AfterTable) /\ UNCHANGED <<for_stack, return_stack, calls>>
  <2>1. sp' \in 0 .. StackSize /\ Returning(unit, return_stack')
    BY <1>4, StandingIs
  <2>2. QED
    BY <1>1, <1>2, <1>4, <2>1, OtherOne
<1>5. ASSUME NEW k \in 1 .. op.a, sp > 0,
             code[pc + k].a \in DOMAIN code,
             op.op = "ON_GOSUB" => Len(return_stack) < ReturnStackSize,
             return_stack' = IF op.op = "ON_GOSUB"
                             THEN Append(return_stack, AfterTable) ELSE return_stack,
             sp' = sp - 1, Goto(code[pc + k].a), UNCHANGED <<for_stack, calls>>
      PROVE  Inv' /\ Flows
  <2> DEFINE n == unit.code[pc + k].a
  <2>1. n \in DOMAIN unit.code /\ Goto(n)
    BY <1>5 DEF code
  <2>2. pc + k \in DOMAIN unit.code /\ unit.code[pc + k].op \in Jumps
    BY <1>2, <1>5 DEF Jumps
  <2>3. Enterable(unit.code, n)
    BY <2>1, <2>2, StandingIs, JumpsTo
  <2>4. n \in Entries(unit)
    BY <2>1, <2>2, MarksIn
  <2>5. Returning(unit, return_stack')
    <3>1. CASE op.op = "ON_GOSUB"
      <4>1. AfterTable \in Returns(unit.code)
        BY <1>2, <3>1, StandingIs DEF Returns
      <4>2. QED
        BY <1>5, <3>1, <4>1, ReturnPushed
    <3>2. CASE op.op # "ON_GOSUB"
      BY <1>5, <3>2, StandingIs
    <3>3. QED
      BY <3>1, <3>2
  <2>6. sp' \in 0 .. StackSize
    BY SMTT(30), <1>5, StandingIs
  <2> HIDE DEF n
  <2>7. QED
    BY <1>1, <1>5, <2>1, <2>3, <2>4, <2>5, <2>6, OtherOne
<1>6. QED
  BY <1>3, <1>4, <1>5 DEF OnBranch

-----------------------------------------------------------------------------
(* FOR loops.                                                              *)

LEMMA ForInitKeeps ==
  ASSUME Standing, ForInit
  PROVE  Inv' /\ Flows
<1>1. op.op \in Inits
  BY DEF ForInit, At, Inits
<1>2. CASE \E m \in {"LOCAL WITHOUT FUNCTION", "STACK UNDERFLOW", "STEP CANNOT BE ZERO",
                     "FOR STACK OVERFLOW"} : Fail(m)
  BY <1>2, FailKeeps
<1> DEFINE frame == [v |-> op.v, local |-> IsLocal, check |-> pc + 1, body |-> 0]
<1>3. CASE /\ sp >= 2 /\ Len(for_stack) < ForStackSize /\ for_stack' = Append(for_stack, frame)
           /\ sp' = sp - 2 /\ Goto(pc + 1) /\ UNCHANGED <<return_stack, calls>>
  <2>1. frame \in Frames
    <3>1. op.v \in Variables /\ IsLocal \in BOOLEAN /\ pc + 1 \in Nat /\ 0 \in Int
      BY SMTT(30), StandingIs DEF Ops, IsLocal
    <3>2. QED
      BY <3>1 DEF Frames
  <2> HIDE DEF frame
  <2>2. /\ for_stack' \in Seq(Frames) /\ Len(for_stack') = Len(for_stack) + 1
        /\ \A k \in 1 .. Len(for_stack) : for_stack'[k] = for_stack[k]
        /\ DOMAIN for_stack' = 1 .. Len(for_stack) + 1
    <3>1. for_stack' = Append(for_stack, frame) /\ for_stack \in Seq(Frames)
      BY <1>3, StandingIs
    <3>2. for_stack' \in Seq(Frames) /\ Len(for_stack') = Len(for_stack) + 1
          /\ \A k \in 1 .. Len(for_stack) : for_stack'[k] = for_stack[k]
      BY <2>1, <3>1, AppendProperties
    <3>3. QED
      BY <3>2, LenProperties
  <2>3. /\ pc + 1 \in DOMAIN unit.code /\ ~InTable(unit.code, pc + 1)
        /\ unit.code[pc + 1].op \in Checks
    <3>1. ForWhole(unit.code, pc)
      BY StandingIs, LinkedIs
    <3>2. unit.code[pc + 1].op \in Checks
      BY <1>1, <3>1, StandingIs DEF ForWhole
    <3>3. QED
      BY <1>1, <3>2, StandingIs, OneOn DEF Tables, Inits
  <2>4. pc' = pc + 1 /\ Quiet /\ return_stack' = return_stack /\ calls' = calls
    BY <1>3 DEF Goto
  <2>5. ForStackSize \in Nat
    BY StackAssumption
  <2>6. /\ op.op \notin Checks
        /\ \A k \in 1 .. Len(for_stack) : for_stack[k].body \in Bodies(unit.code)
    <3>1. op.op \notin Checks
      BY <1>1 DEF Inits, Checks
    <3>2. QED
      BY <3>1, StandingIs
  <2>7. Looped(unit.code, pc + 1, for_stack')
    <3>1. Len(for_stack') <= ForStackSize
      BY <1>3, <2>2, <2>5, StandingIs
    <3>2. ASSUME NEW k \in DOMAIN for_stack'
          PROVE  for_stack'[k].body \in Bodies(unit.code) \/ k = Len(for_stack')
      BY SMTT(30), <2>2, <2>6, StandingIs
    <3>3. QED
      BY <2>2, <2>3, <3>1, <3>2 DEF Looped
  <2>8. Called(unit, Len(for_stack'), calls) /\ Len(for_stack') > BaseOf(calls)
    BY <2>2, StandingIs, BaseIs
  <2>9. sp' \in 0 .. StackSize
    BY <1>3, StandingIs
  <2>10. Runs(unit, pc', sp', for_stack', return_stack', calls')
    BY <2>3, <2>4, <2>7, <2>8, <2>9, StandingIs DEF Runs
  <2>11. Base <= Len(for_stack') /\ \A k \in 1 .. Base : for_stack'[k] = for_stack[k]
    BY <2>2, StandingIs
  <2>12. QED
    BY <2>4, <2>10, <2>11, GoesOn
<1>4. QED
  BY <1>2, <1>3 DEF ForInit

LEMMA LoopOrLeaveKeeps ==
  ASSUME Standing, op.op \notin Tables \cup Inits \cup {"HALT"},
         NEW frames \in Seq(Frames), Len(frames) <= ForStackSize, Base < Len(frames),
         \A k \in DOMAIN frames : frames[k].body \in Bodies(unit.code),
         \A k \in 1 .. Base : frames[k] = for_stack[k],
         LoopOrLeave(frames)
  PROVE  Inv' /\ Flows
<1>1. Len(frames) \in Nat /\ DOMAIN frames = 1 .. Len(frames) /\ ForStackSize \in Nat
  BY LenProperties, StackAssumption
<1>2. sp' = sp /\ return_stack' = return_stack /\ calls' = calls
  BY DEF LoopOrLeave
<1>3. /\ sp' \in 0 .. StackSize /\ Returning(unit, return_stack')
      /\ \A n \in Nat : n >= Base => Called(unit, n, calls')
  <2>1. \A n \in Nat : n >= BaseOf(calls) => Called(unit, n, calls)
    BY StandingIs, BaseIs
  <2>2. QED
    BY <1>2, <2>1, StandingIs
<1>4. frames # <<>>
  BY <1>1, StandingIs
<1>5. /\ Last(frames) = frames[Len(frames)] /\ Len(frames) \in DOMAIN frames
      /\ Front(frames) \in Seq(Frames) /\ Len(Front(frames)) = Len(frames) - 1
      /\ DOMAIN Front(frames) = 1 .. Len(frames) - 1
      /\ \A k \in 1 .. Len(frames) - 1 : Front(frames)[k] = frames[k]
  BY <1>4, TopIs
<1>6. CASE for_stack' = frames /\ Goto(Last(frames).body)
  <2> DEFINE n == Last(frames).body
  <2>1. pc' = n /\ Quiet
    BY <1>6 DEF Goto
  <2>2. n \in Bodies(unit.code)
    BY <1>5
  <2>3. n \in DOMAIN unit.code /\ Enterable(unit.code, n) /\ n \in Entries(unit)
    BY <2>2, StandingIs, BehindCheck, EntryIs
  <2>4. Called(unit, Len(for_stack'), calls')
    BY <1>1, <1>3, <1>6, StandingIs
  <2> HIDE DEF n
  <2>5. QED
    BY <1>1, <1>3, <1>6, <2>1, <2>3, <2>4, StandingIs, Moves
<1>7. CASE for_stack' = Front(frames) /\ Goto(pc + 1)
  <2>1. pc' = pc + 1 /\ Quiet
    BY <1>7 DEF Goto
  <2>2. pc + 1 \in DOMAIN unit.code /\ Enterable(unit.code, pc + 1)
    BY StandingIs, OneOn DEF Enterable
  <2>3. /\ for_stack' \in Seq(Frames) /\ Len(for_stack') <= ForStackSize
        /\ Base <= Len(for_stack') /\ Len(for_stack') \in Nat
    BY SMTT(30), <1>1, <1>5, <1>7, StandingIs
  <2>4. \A k \in DOMAIN for_stack' : for_stack'[k].body \in Bodies(unit.code)
    BY <1>1, <1>5, <1>7
  <2>5. \A k \in 1 .. Base : for_stack'[k] = for_stack[k]
    BY <1>1, <1>5, <1>7, StandingIs
  <2>6. Called(unit, Len(for_stack'), calls')
    BY <1>3, <2>3
  <2>7. QED
    BY <1>3, <2>1, <2>2, <2>3, <2>4, <2>5, <2>6, Moves
<1>8. QED
  BY <1>6, <1>7 DEF LoopOrLeave
LEMMA ForCheckKeeps ==
  ASSUME Standing, ForCheck
  PROVE  Inv' /\ Flows
<1> DEFINE top == Len(for_stack)
           frames == [for_stack EXCEPT ![top].body = op.b]
<1>1. op.op \in Checks /\ op.op \notin Tables \cup Inits \cup {"HALT"}
  BY DEF ForCheck, At, Checks, Tables, Inits
<1>2. CASE Fail("FOR STACK UNDERFLOW") \/ Fail("BAD FOR VARIABLE")
  BY <1>2, FailKeeps
<1>3. CASE LoopOrLeave(frames)
  <2>1. Base < top /\ top \in DOMAIN for_stack
    <3>1. Len(for_stack) > BaseOf(calls)
      BY <1>1, StandingIs DEF Runs
    <3>2. QED
      BY <3>1, StandingIs
  <2>2. op.b \in Bodies(unit.code)
    BY <1>1, StandingIs DEF Bodies
  <2> DEFINE frame == [for_stack[top] EXCEPT !.body = op.b]
  <2>3. frame \in Frames /\ frame.body = op.b
    <3>1. for_stack[top] \in Frames
      BY <2>1, StandingIs, ElementOfSeq
    <3>2. op.b \in Int
      BY StandingIs
    <3>3. QED
      BY <3>1, <3>2 DEF Frames
  <2>4. frames = [for_stack EXCEPT ![top] = frame]
    BY <2>1
  <2> HIDE DEF frame, frames, top
  <2>5. /\ frames \in Seq(Frames) /\ Len(frames) = Len(for_stack) /\ frames[top] = frame
        /\ \A k \in 1 .. Len(for_stack) : k # top => frames[k] = for_stack[k]
    BY <2>1, <2>3, <2>4, StandingIs, ExceptSeq
  <2>6. DOMAIN frames = 1 .. Len(for_stack)
    BY <2>5, LenProperties
  <2>7. \A k \in DOMAIN frames : frames[k].body \in Bodies(unit.code)
    <3>1. \A k \in DOMAIN for_stack : k # top => for_stack[k].body \in Bodies(unit.code)
      BY StandingIs DEF Runs, Looped, top
    <3>2. QED
      BY <2>2, <2>3, <2>5, <2>6, <3>1, StandingIs
  <2>8. Len(frames) <= ForStackSize /\ Base < Len(frames)
    BY <2>1, <2>5, StandingIs DEF top
  <2>9. \A k \in 1 .. Base : frames[k] = for_stack[k]
    BY <2>1, <2>5, StandingIs DEF top
  <2>10. QED
    BY <1>1, <1>3, <2>5, <2>7, <2>8, <2>9, LoopOrLeaveKeeps
<1>4. QED
  BY <1>2, <1>3 DEF ForCheck

LEMMA ForIncrKeeps ==
  ASSUME Standing, ForIncr
  PROVE  Inv' /\ Flows
<1> DEFINE n == Max(Found)
           frames == SubSeq(for_stack, 1, n)
<1>1. op.op \notin Checks /\ op.op \notin Tables \cup Inits \cup {"HALT"}
  BY DEF ForIncr, At, Checks, Tables, Inits
<1>2. CASE \E m \in {"LOCAL WITHOUT FUNCTION", "NEXT WITHOUT FOR", "BAD FOR VARIABLE"} : Fail(m)
  BY <1>2, FailKeeps
<1>3. CASE Found # {} /\ LoopOrLeave(frames)
  <2>1. Found \subseteq Base + 1 .. Len(for_stack)
    BY DEF Found
  <2>2. n \in Found
    <3>1. Found \in SUBSET (1 .. Len(for_stack)) /\ Len(for_stack) \in Nat
      BY <2>1, StandingIs
    <3>2. QED
      BY <1>3, <3>1, MaxIs
  <2> HIDE DEF n
  <2>3. n \in 0 .. Len(for_stack) /\ n \in Nat /\ Base < n
    BY <2>1, <2>2, StandingIs
  <2>4. \A k \in 1 .. n : for_stack[k].body \in Bodies(unit.code)
    BY <1>1, <2>3, StandingIs
  <2>5. /\ frames \in Seq(Frames) /\ Len(frames) = n /\ Len(frames) <= ForStackSize
        /\ DOMAIN frames = 1 .. n
        /\ \A k \in DOMAIN frames : frames[k].body \in Bodies(unit.code) /\ frames[k] = for_stack[k]
    <3>1. for_stack \in Seq(Frames) /\ Len(for_stack) <= ForStackSize
      BY StandingIs
    <3>2. /\ frames \in Seq(Frames) /\ Len(frames) = n /\ Len(frames) <= ForStackSize
          /\ \A k \in DOMAIN frames :
                frames[k].body \in Bodies(unit.code) /\ frames[k] = for_stack[k]
      BY <2>3, <2>4, <3>1, Shortened
    <3> HIDE DEF frames
    <3>3. QED
      BY <3>2, LenProperties
  <2> HIDE DEF frames
  <2>6. \A k \in 1 .. Base : frames[k] = for_stack[k]
    BY <2>3, <2>5, StandingIs
  <2>7. QED
    BY <1>1, <1>3, <2>3, <2>5, <2>6, LoopOrLeaveKeeps
<1>4. QED
  BY <1>2, <1>3 DEF ForIncr

LEMMA ExitLoopKeeps ==
  ASSUME Standing, ExitLoopOp
  PROVE  Inv' /\ Flows
<1>1. op.op = "EXIT_LOOP" /\ op.op \in Jumps /\ op.op \notin Checks
  BY DEF ExitLoopOp, At, Jumps, Checks
<1>2. CASE Fail("FOR STACK UNDERFLOW") \/ Fail("BAD EXIT TARGET")
  BY <1>2, FailKeeps
<1>3. CASE /\ op.b \in 0 .. op.s /\ Len(for_stack) - Base = op.s
           /\ op.a \in DOMAIN code
           /\ for_stack' = SubSeq(for_stack, 1, Len(for_stack) - op.b)
           /\ Goto(op.a) /\ UNCHANGED <<sp, return_stack, calls>>
  <2> DEFINE n == Len(for_stack) - op.b
  <2>1. n \in 0 .. Len(for_stack) /\ n \in Nat /\ Base <= n
    BY SMTT(30), <1>3, StandingIs
  <2>2. \A k \in 1 .. n : for_stack[k].body \in Bodies(unit.code)
    BY <1>1, <2>1, StandingIs
  <2>3. for_stack' = SubSeq(for_stack, 1, n)
    BY <1>3
  <2> HIDE DEF n
  <2>4. /\ for_stack' \in Seq(Frames) /\ Len(for_stack') = n /\ Len(for_stack') <= ForStackSize
        /\ DOMAIN for_stack' = 1 .. n
        /\ \A k \in DOMAIN for_stack' :
                for_stack'[k].body \in Bodies(unit.code) /\ for_stack'[k] = for_stack[k]
    BY SMTT(30), <2>1, <2>2, <2>3, StandingIs, Shortened, LenProperties
  <2>5. \A k \in 1 .. Base : for_stack'[k] = for_stack[k]
    BY <2>1, <2>4, StandingIs
  <2>6. /\ sp' \in 0 .. StackSize /\ Returning(unit, return_stack')
        /\ Called(unit, Len(for_stack'), calls')
    <3>1. \A m \in Nat : m >= BaseOf(calls) => Called(unit, m, calls)
      BY StandingIs, BaseIs
    <3>2. calls' = calls /\ sp' = sp /\ return_stack' = return_stack
      BY <1>3
    <3>3. QED
      BY <2>1, <2>4, <3>1, <3>2, StandingIs
  <2>7. op.a \in DOMAIN unit.code /\ pc' = op.a /\ Quiet
    BY <1>3, StandingIs DEF Goto
  <2>8. Enterable(unit.code, op.a) /\ op.a \in Entries(unit)
    BY <1>1, <2>7, JumpLands
  <2>9. QED
    BY <2>1, <2>4, <2>5, <2>6, <2>7, <2>8, Moves
<1>4. QED
  BY <1>2, <1>3 DEF ExitLoopOp

-----------------------------------------------------------------------------
(* Function calls.                                                         *)

LEMMA EntryLands ==
  ASSUME NEW u, Linked(u), NEW f \in DOMAIN u.functions
  PROVE  /\ u.functions[f].entry \in DOMAIN u.code /\ Enterable(u.code, u.functions[f].entry)
         /\ u.functions[f].entry \in Entries(u)
<1> DEFINE n == u.functions[f].entry
<1>1. n \in DOMAIN u.code
  BY DEF Linked
<1>2. n \in Points(u.code)
  <2>1. u.functions \in Seq(FunctionEntries(u.code))
    BY UnitIs DEF Linked
  <2>2. u.functions[f] \in FunctionEntries(u.code)
    BY <2>1, ElementOfSeq, LenProperties
  <2>3. QED
    BY <2>2 DEF FunctionEntries
<1>3. n \in Entries(u)
  <2>1. {u.functions[g].entry : g \in DOMAIN u.functions} \cap DOMAIN u.code \subseteq Entries(u)
    BY <1>1, MarksIn
  <2>2. QED
    BY <1>1, <2>1
<1>4. QED
  BY <1>1, <1>2, <1>3 DEF Points

LEMMA CallPushed ==
  ASSUME Standing, op.op = "CALL_USER", sp >= 1, Len(calls) < MaxCallDepth,
         op.a \in DOMAIN unit.functions
  PROVE  Called(unit, Len(for_stack),
            Append(calls, [function |-> op.a, call_pc |-> pc, return_pc |-> pc + 1,
                           expression_base |-> sp - 1, for_base |-> Len(for_stack),
                           return_base |-> Len(return_stack)]))
<1> DEFINE frame == [function |-> op.a, call_pc |-> pc, return_pc |-> pc + 1,
                     expression_base |-> sp - 1, for_base |-> Len(for_stack),
                     return_base |-> Len(return_stack)]
           F == CallFrames(unit.code)
           d == Len(for_stack)
<1>1. unit.mode = "Structured"
  BY StandingIs, LinkedIs DEF InMode
<1>2. Len(return_stack) = 0
  BY <1>1, StandingIs DEF Returning
<1>3. frame \in F /\ frame.for_base = d
  BY SMTT(30), <1>2, StandingIs DEF CallFrames
<1>4. /\ calls \in Seq(F) /\ Len(calls) <= MaxCallDepth
      /\ \A k \in DOMAIN calls : calls[k].for_base <= d
      /\ \A k, l \in DOMAIN calls : k <= l => calls[k].for_base <= calls[l].for_base
  BY StandingIs DEF Called
<1>5. d \in Nat /\ MaxCallDepth \in Nat
  BY StandingIs, StackAssumption
<1> HIDE DEF frame, F, d
<1> DEFINE cs == Append(calls, frame)
<1>6. /\ Len(calls) \in Nat /\ DOMAIN calls = 1 .. Len(calls)
      /\ cs \in Seq(F) /\ Len(cs) = Len(calls) + 1
      /\ \A k \in 1 .. Len(calls) : cs[k] = calls[k]
      /\ cs[Len(calls) + 1] = frame
  BY <1>3, <1>4, AppendProperties, LenProperties
<1>7. DOMAIN cs = 1 .. Len(calls) + 1
  BY <1>6, LenProperties
<1> HIDE DEF cs
<1>8. \A k \in DOMAIN cs : cs[k].for_base <= d /\ (k \notin DOMAIN calls => cs[k].for_base = d)
  BY <1>3, <1>4, <1>5, <1>6, <1>7
<1>9. ASSUME NEW k \in DOMAIN cs, NEW l \in DOMAIN cs, k <= l
      PROVE  cs[k].for_base <= cs[l].for_base
  <2>1. CASE l \in DOMAIN calls
    BY <1>4, <1>6, <1>7, <1>9, <2>1
  <2>2. CASE l \notin DOMAIN calls
    BY <1>8, <1>9, <2>2
  <2>3. QED
    BY <2>1, <2>2
<1>10. Len(cs) <= MaxCallDepth
  BY <1>5, <1>6
<1>11. QED
  BY <1>1, <1>6, <1>8, <1>9, <1>10 DEF Called, cs, frame, F, d

LEMMA CallUserKeeps ==
  ASSUME Standing, CallUser
  PROVE  Inv' /\ Flows
<1>1. op.op = "CALL_USER" /\ op.op \notin Checks
  BY DEF CallUser, At, Checks
<1>2. CASE \E m \in {"BAD USER FUNCTION", "FUNCTION CALL DEPTH", "FUNCTION ARGUMENT COUNT",
                     "OUT OF MEMORY"} : Fail(m)
  BY <1>2, FailKeeps
<1>3. CASE /\ op.a \in DOMAIN unit.functions /\ Len(calls) < MaxCallDepth /\ sp >= 1
           /\ calls' = Append(calls,
                [function |-> op.a, call_pc |-> pc, return_pc |-> pc + 1,
                 expression_base |-> sp - 1, for_base |-> Len(for_stack),
                 return_base |-> Len(return_stack)])
           /\ sp' = sp - 1
           /\ Goto(unit.functions[op.a].entry) /\ UNCHANGED <<for_stack, return_stack>>
  <2> DEFINE n == unit.functions[op.a].entry
  <2>1. n \in DOMAIN unit.code /\ Enterable(unit.code, n) /\ n \in Entries(unit)
    BY <1>3, StandingIs, EntryLands
  <2>2. pc' = n /\ Quiet /\ for_stack' = for_stack /\ return_stack' = return_stack
    BY <1>3 DEF Goto
  <2>3. Called(unit, Len(for_stack'), calls')
    BY <1>1, <1>3, <2>2, CallPushed
  <2>4. sp' \in 0 .. StackSize
    BY SMTT(30), <1>3, StandingIs
  <2> HIDE DEF n
  <2>5. QED
    BY <1>1, <2>1, <2>2, <2>3, <2>4, StandingIs, Moves
<1>4. QED
  BY <1>2, <1>3 DEF CallUser

LEMMA CallPopped ==
  ASSUME NEW u, NEW depth \in Nat, NEW cs, Called(u, depth, cs), cs # <<>>
  PROVE  /\ Last(cs) \in CallFrames(u.code) /\ BaseOf(cs) = Last(cs).for_base
         /\ Called(u, Last(cs).for_base, Front(cs)) /\ u.mode = "Structured"
<1> DEFINE F == CallFrames(u.code)
<1>1. cs \in Seq(F) /\ Len(cs) <= MaxCallDepth /\ MaxCallDepth \in Nat
  BY StackAssumption DEF Called
<1> HIDE DEF F
<1>2. /\ Len(cs) \in DOMAIN cs /\ cs[Len(cs)] \in F /\ Last(cs) = cs[Len(cs)]
      /\ Front(cs) \in Seq(F) /\ Len(Front(cs)) = Len(cs) - 1
      /\ Len(cs) \in Nat /\ DOMAIN Front(cs) = 1 .. Len(cs) - 1
      /\ \A i \in 1 .. Len(cs) - 1 : Front(cs)[i] = cs[i]
  BY <1>1, TopIs
<1>3. DOMAIN cs = 1 .. Len(cs)
  BY <1>1, LenProperties
<1>4. \A k \in DOMAIN Front(cs) : /\ k \in DOMAIN cs /\ k <= Len(cs)
                                 /\ Front(cs)[k].for_base = cs[k].for_base
  BY <1>2, <1>3
<1>5. /\ \A k \in DOMAIN Front(cs) : Front(cs)[k].for_base <= Last(cs).for_base
      /\ \A k, l \in DOMAIN Front(cs) :
            k <= l => Front(cs)[k].for_base <= Front(cs)[l].for_base
  BY <1>2, <1>4 DEF Called
<1>6. Len(Front(cs)) <= MaxCallDepth
  BY <1>1, <1>2
<1>7. QED
  BY <1>2, <1>5, <1>6 DEF Called, BaseOf, F

LEMMA ReturnUserKeeps ==
  ASSUME Standing, ReturnUser
  PROVE  Inv' /\ Flows
<1> DEFINE frame == Last(calls)
           n == frame.for_base
<1>1. op.op = "RETURN_USER" /\ op.op \notin Checks
  BY DEF ReturnUser, At, Checks
<1>2. CASE Fail("RETURN OUTSIDE FUNCTION") \/ Fail("FUNCTION RETURN MISSING")
  BY <1>2, FailKeeps
<1>3. CASE /\ calls # <<>> /\ sp > frame.expression_base
           /\ calls' = Front(calls)
           /\ for_stack' = SubSeq(for_stack, 1, frame.for_base)
           /\ return_stack' = SubSeq(return_stack, 1, frame.return_base)
           /\ sp' = frame.expression_base + 1
           /\ Goto(frame.return_pc)
  <2>1. /\ frame \in CallFrames(unit.code) /\ Base = n
        /\ Called(unit, n, calls') /\ unit.mode = "Structured"
    BY <1>3, StandingIs, CallPopped
  <2>2. /\ n \in 0 .. Len(for_stack) /\ n \in Nat
        /\ \A k \in 1 .. n : for_stack[k].body \in Bodies(unit.code)
    BY <1>1, <2>1, StandingIs
  <2>3. for_stack' = SubSeq(for_stack, 1, n)
    BY <1>3
  <2>4. /\ frame.expression_base \in 0 .. StackSize - 1 /\ frame.return_base = 0
        /\ frame.call_pc \in DOMAIN unit.code /\ unit.code[frame.call_pc].op = "CALL_USER"
        /\ frame.return_pc = frame.call_pc + 1
    BY <2>1 DEF CallFrames
  <2> DEFINE m == frame.return_pc
  <2>5. m \in DOMAIN unit.code /\ Enterable(unit.code, m)
    BY <2>4, StandingIs, Behind DEF Tables, Inits
  <2>6. m \in Entries(unit)
    BY <2>4, <2>5, MarksIn
  <2>7. pc' = m /\ Quiet
    BY <1>3 DEF Goto
  <2>8. return_stack' = <<>> /\ Returning(unit, return_stack')
    <3>1. return_stack' = SubSeq(return_stack, 1, 0)
      BY <1>3, <2>4
    <3>2. return_stack' = <<>>
      BY <3>1, SubSeqEmpty
    <3>3. return_stack = <<>>
      BY <2>1, StandingIs DEF Returning
    <3>4. QED
      BY <3>2, <3>3, StandingIs
  <2>9. sp' \in 0 .. StackSize
    BY SMTT(30), <1>3, <2>4, StandingIs
  <2> HIDE DEF n, m, frame
  <2>10. /\ for_stack' \in Seq(Frames) /\ Len(for_stack') = n /\ Len(for_stack') <= ForStackSize
         /\ DOMAIN for_stack' = 1 .. n
         /\ \A k \in DOMAIN for_stack' :
                for_stack'[k].body \in Bodies(unit.code) /\ for_stack'[k] = for_stack[k]
    <3>1. n \in 0 .. Len(for_stack) /\ n \in Nat /\ \A k \in 1 .. n : for_stack[k].body \in Bodies(unit.code)
      BY <2>2
    <3>2. for_stack \in Seq(Frames) /\ Len(for_stack) <= ForStackSize
      BY StandingIs
    <3>3. /\ for_stack' \in Seq(Frames) /\ Len(for_stack') = n /\ Len(for_stack') <= ForStackSize
          /\ \A k \in DOMAIN for_stack' :
                for_stack'[k].body \in Bodies(unit.code) /\ for_stack'[k] = for_stack[k]
      BY <2>3, <3>1, <3>2, Shortened
    <3>4. QED
      BY <3>3, LenProperties
  <2>11. Base <= Len(for_stack') /\ \A k \in 1 .. Base : for_stack'[k] = for_stack[k]
    BY <2>1, <2>2, <2>10
  <2>12. QED
    BY <2>1, <2>5, <2>6, <2>7, <2>8, <2>9, <2>10, <2>11, Moves
<1>4. QED
  BY <1>2, <1>3 DEF ReturnUser

LEMMA ExecuteKeeps ==
  ASSUME Inv, Execute
  PROVE  phase = "running" /\ Inv' /\ Flows
<1>1. Standing
  BY DEF Standing, Execute, Halt, Interrupt, Push, Pop, Jmp, Jz, Gosub, Retsub, OnBranch, ForInit,
         ForCheck, ForIncr, ExitLoopOp, CallUser, ReturnUser, Fallthrough, At, Running
<1>2. ASSUME Interrupt \/ Fallthrough
      PROVE  Inv' /\ Flows
  <2>1. PICK m : Fail(m)
    BY <1>2 DEF Interrupt, Fallthrough
  <2>2. QED
    BY <1>1, <2>1, FailKeeps
<1>3. QED
  BY <1>1, <1>2, HaltKeeps, PushKeeps, PopKeeps, JmpKeeps, JzKeeps, GosubKeeps, RetsubKeeps,
     OnBranchKeeps, ForInitKeeps, ForCheckKeeps, ForIncrKeeps, ExitLoopKeeps, CallUserKeeps,
     ReturnUserKeeps
     DEF Execute, Standing
-----------------------------------------------------------------------------
(* A step of the compiler, and the start of a run.                         *)

LEMMA Begun ==
  ASSUME Inv, unit' = EmptyUnit(profile.mode), text' = <<>>, rows' = <<>>, profile' = profile,
         phase' \in {"rejected", "compiling"}, Fresh
  PROVE  Inv'
<1>1. profile \in Profiles /\ profile.mode \in Modes
  BY ProfileAssumption DEF Inv, Compiles, Modes
<1>2. /\ Woven(EmptyUnit(profile.mode)) /\ EmptyUnit(profile.mode).mode = profile.mode
      /\ EmptyUnit(profile.mode).code = <<>>
  BY <1>1, EmptyUnitIsWoven
<1>3. Len(<<>>) = 0 /\ 0 <= MaxCode /\ \A S : <<>> \in Seq(S)
  BY NestingAssumption, EmptySeq
<1>4. Compiles'
  <2>1. /\ phase' \in {"compiling", "rejected", "accepted", "running", "halted", "failed"}
        /\ phase' \notin {"accepted", "running", "halted", "failed"}
    OBVIOUS
  <2>2. profile' \in Profiles /\ unit'.mode = profile'.mode /\ Woven(unit') /\ unit'.code = <<>>
    BY <1>1, <1>2
  <2>3. text' \in Seq(Written) /\ rows' \in Seq(Points(unit'.code)) /\ Len(rows') = Len(text')
    BY <1>3
  <2>4. Len(unit'.code) <= MaxCode
    BY <1>3, <2>2
  <2>5. QED
    BY <2>1, <2>2, <2>3, <2>4 DEF Compiles
<1>5. Rests' /\ phase' # "running"
  BY DEF Rests, Fresh
<1>6. QED
  BY <1>4, <1>5 DEF Inv

LEMMA ReadRowKeeps ==
  ASSUME Inv, NEW s \in profile.statements, ReadRow(s), Fresh
  PROVE  Inv' /\ phase' # "running"
<1>1. CASE Reject
  BY <1>1, Begun DEF Reject
<1>2. ASSUME NEW u \in CompileRow(s, unit), Len(u.code) <= MaxCode,
             text' = Append(text, s), rows' = Append(rows, Here(unit)), unit' = u,
             phase' = phase, profile' = profile
      PROVE  Inv' /\ phase' # "running"
  <2>1. profile \in Profiles /\ Woven(unit) /\ unit.mode = profile.mode /\ phase = "compiling"
    BY DEF Inv, Compiles, ReadRow
  <2>2. Leads(unit, u) /\ s \in Written
    BY <1>2, <2>1, CompileRowLeads, EntriesAreLegal
  <2>3. /\ Woven(u) /\ u.mode = unit.mode /\ Points(unit.code) \subseteq Points(u.code)
    BY <2>2 DEF Leads, Grows
  <2>4. /\ text \in Seq(Written) /\ rows \in Seq(Points(u.code)) /\ Len(rows) = Len(text)
    <3>1. rows \in Seq(Points(unit.code))
      BY DEF Inv, Compiles
    <3>2. rows \in Seq(Points(u.code))
      BY <2>3, <3>1, SeqMonotonic
    <3>3. QED
      BY <3>2 DEF Inv, Compiles
  <2>5. Here(unit) \in Points(u.code)
    BY <2>1, <2>3, UnitIs
  <2>6. /\ text' \in Seq(Written) /\ Len(text') = Len(text) + 1
        /\ rows' \in Seq(Points(u.code)) /\ Len(rows') = Len(rows) + 1
    <3>1. text' \in Seq(Written) /\ Len(text') = Len(text) + 1
      BY <1>2, <2>2, <2>4, AppendProperties
    <3>2. rows' \in Seq(Points(u.code)) /\ Len(rows') = Len(rows) + 1
      BY <1>2, <2>4, <2>5, AppendProperties
    <3>3. QED
      BY <3>1, <3>2
  <2>7. Compiles'
    BY <1>2, <2>1, <2>3, <2>4, <2>6 DEF Compiles
  <2>8. Rests'
    BY DEF Rests, Fresh
  <2>9. QED
    BY <1>2, <2>1, <2>7, <2>8 DEF Inv
<1>3. QED
  <2>1. CASE Reject
    BY <1>1, <2>1 DEF Reject
  <2>2. CASE ~Reject
    BY <1>2, <2>2 DEF ReadRow
  <2>3. QED
    BY <2>1, <2>2

LEMMA FinishTextKeeps ==
  ASSUME Inv, FinishText, Fresh
  PROVE  Inv' /\ phase' # "running"
<1>1. CASE Reject
  BY <1>1, Begun DEF Reject
<1> DEFINE complete == WithHalt(unit)
           linked == Resolved(complete, rows)
           w == [linked EXCEPT !.size = Len(unit.code)]
<1>2. ASSUME Len(complete.code) <= MaxCode, CallsKnown(unit),
             LineTargets(complete) \subseteq DOMAIN rows,
             unit.functions # <<>> => ValidProgram(linked),
             phase' = "accepted", unit' = w,
             profile' = profile, text' = text, rows' = rows
      PROVE  Inv' /\ phase' # "running"
  <2>1. /\ profile \in Profiles /\ Woven(unit) /\ unit.mode = profile.mode
        /\ text \in Seq(Written) /\ rows \in Seq(Points(unit.code)) /\ Len(rows) = Len(text)
    BY DEF Inv, Compiles
  <2>2. Len(unit.code) \in Nat
    BY <2>1, UnitIs
  <2>3. Linked(w) /\ Leads(unit, w) /\ Len(w.code) = Len(complete.code)
    BY <1>2, <2>1, <2>2, AcceptedIsLinked
  <2> HIDE DEF w, linked, complete
  <2>4. Woven(w) /\ w.mode = unit.mode /\ rows \in Seq(Points(w.code))
    BY <2>1, <2>3, SeqMonotonic DEF Leads, Grows
  <2>5. Compiles'
    BY <1>2, <2>1, <2>3, <2>4 DEF Compiles
  <2>6. Rests'
    BY DEF Rests, Fresh
  <2>7. QED
    BY <1>2, <2>5, <2>6 DEF Inv
<1>3. QED
  <2>1. CASE Reject
    BY <1>1, <2>1 DEF Reject
  <2>2. CASE ~Reject
    BY <1>2, <2>2 DEF FinishText
  <2>3. QED
    BY <2>1, <2>2

LEMMA CompileKeeps ==
  ASSUME Inv, Compile
  PROVE  Inv' /\ phase' # "running"
<1>1. CASE \E s \in profile.statements : ReadRow(s)
  BY <1>1, ReadRowKeeps DEF Compile
<1>2. CASE FinishText
  BY <1>2, FinishTextKeeps DEF Compile
<1>3. CASE Edit
  BY <1>3, Begun DEF Compile, Edit
<1>4. QED
  BY <1>1, <1>2, <1>3 DEF Compile, CompilerNext

LEMMA RunKeeps ==
  ASSUME Inv, Run
  PROVE  Inv' /\ phase # "running"
<1>1. /\ phase' = "running" /\ profile' = profile /\ text' = text /\ rows' = rows /\ unit' = unit
      /\ pc' = 1 /\ sp' = 0 /\ for_stack' = <<>> /\ return_stack' = <<>> /\ calls' = <<>>
  BY DEF Run, Fresh, program
<1>2. Compiles' /\ Linked(unit)
  BY <1>1 DEF Run, Inv, Compiles
<1>3. /\ 1 \in DOMAIN unit.code /\ ~InTable(unit.code, 1) /\ unit.code[1].op \notin Checks
  <2>1. /\ DOMAIN unit.code = 1 .. Len(unit.code) /\ Len(unit.code) \in Nat
        /\ unit.code \in Seq(Ops) /\ unit.code # <<>>
    BY <1>2, LinkedIs DEF Linked
  <2>2. 1 \in DOMAIN unit.code
    BY <2>1, EmptySeq
  <2>3. ForWhole(unit.code, 1) /\ 1 - 1 \notin DOMAIN unit.code
    BY <1>2, <2>1, <2>2, LinkedIs
  <2>4. QED
    BY <2>1, <2>2, <2>3 DEF InTable, ForWhole
<1>4. /\ 0 \in 0 .. StackSize /\ 0 <= ForStackSize /\ 0 <= ReturnStackSize /\ 0 <= MaxCallDepth
  BY StackAssumption
<1>5. Len(<<>>) = 0 /\ DOMAIN <<>> = {} /\ \A S : <<>> \in Seq(S)
  BY EmptySeq
<1>6. Runs(unit, 1, 0, <<>>, <<>>, <<>>)
  BY <1>3, <1>4, <1>5 DEF Runs, Looped, Returning, Called
<1>7. QED
  BY <1>1, <1>2, <1>6 DEF Inv, Run

-----------------------------------------------------------------------------
(* The theorems.                                                           *)

LEMMA InitInv ==
  ASSUME Init
  PROVE  Inv
<1>1. /\ phase = "compiling" /\ profile \in Profiles /\ text = <<>> /\ rows = <<>>
      /\ unit = EmptyUnit(profile.mode)
      /\ pc = 1 /\ sp = 0 /\ for_stack = <<>> /\ return_stack = <<>> /\ calls = <<>>
  BY DEF Init, CompilerInit
<1>2. profile.mode \in Modes
  BY <1>1, ProfileAssumption DEF Modes
<1>3. Woven(unit) /\ unit.mode = profile.mode /\ unit.code = <<>>
  BY <1>1, <1>2, EmptyUnitIsWoven
<1>4. Len(<<>>) = 0 /\ 0 <= MaxCode /\ \A S : <<>> \in Seq(S)
  BY NestingAssumption, EmptySeq
<1>5. Compiles
  BY <1>1, <1>3, <1>4 DEF Compiles
<1>6. Rests
  BY <1>1 DEF Rests
<1>7. QED
  BY <1>1, <1>5, <1>6 DEF Inv

LEMMA NextInv ==
  ASSUME Inv, [Next]_vars
  PROVE  Inv' /\ (phase = "running" /\ phase' = "running" => Flows \/ UNCHANGED vars)
<1>1. CASE Compile
  BY <1>1, CompileKeeps
<1>2. CASE Run
  BY <1>2, RunKeeps
<1>3. CASE Execute
  BY <1>3, ExecuteKeeps
<1>4. CASE UNCHANGED vars
  <2>1. /\ phase' = phase /\ profile' = profile /\ text' = text /\ rows' = rows /\ unit' = unit
        /\ pc' = pc /\ sp' = sp /\ for_stack' = for_stack /\ return_stack' = return_stack
        /\ calls' = calls
    BY <1>4 DEF vars, program
  <2>2. Compiles' /\ (Rests' <=> Rests)
    BY <2>1 DEF Inv, Compiles, Rests
  <2>3. QED
    BY <1>4, <2>1, <2>2 DEF Inv
<1>5. QED
  BY <1>1, <1>2, <1>3, <1>4 DEF Next

(* Whatever is entered, edited and run, and whichever way each value sends *)
(* the machine, code and stacks keep the shape described above.            *)
THEOREM Invariance == Spec => []Inv
<1>1. Init => Inv
  BY InitInv
<1>2. Inv /\ [Next]_vars => Inv'
  BY NextInv
<1>3. QED
  BY <1>1, <1>2, PTL DEF Spec

(* No stack of CompileControl or of run_impl outgrows its array, and pc    *)
(* stays inside the code.                                                  *)
THEOREM StacksFit == Spec => []TypeOK
<1>1. ASSUME Inv PROVE TypeOK
  <2>1. /\ unit.scope \in 0 .. Len(unit.functions) /\ Len(unit.code) \in Nat
        /\ \A stack \in {"fors", "whiles", "dos", "ifs", "selects"} : Len(unit[stack]) <= MaxNesting
    <3>1. Woven(unit)
      BY <1>1 DEF Inv, Compiles
    <3>2. unit.scope \in Nat /\ unit.scope <= Len(unit.functions) /\ Len(unit.code) \in Nat
          /\ Len(unit.functions) \in Nat
      BY <3>1, UnitIs, LenProperties DEF Woven
    <3>3. /\ Len(unit["fors"]) <= MaxNesting /\ Len(unit["whiles"]) <= MaxNesting
          /\ Len(unit["dos"]) <= MaxNesting /\ Len(unit["ifs"]) <= MaxNesting
          /\ Len(unit["selects"]) <= MaxNesting
      BY <3>1, UnitIs DEF Stack
    <3>4. QED
      BY <3>2, <3>3
  <2>2. CASE phase = "running"
    <3>1. Standing
      BY <1>1, <2>2 DEF Standing
    <3>2. /\ pc \in 1 .. Len(unit.code) + 1 /\ sp \in 0 .. StackSize
          /\ Len(for_stack) <= ForStackSize /\ Len(return_stack) <= ReturnStackSize
          /\ Len(calls) <= MaxCallDepth
      <4>1. DOMAIN unit.code = 1 .. Len(unit.code)
        BY <3>1, StandingIs, LenProperties
      <4>2. QED
        BY <2>1, <3>1, <4>1, StandingIs DEF Returning, Called
    <3>3. QED
      BY <1>1, <2>1, <3>2 DEF TypeOK, Inv, Compiles, code
  <2>3. CASE phase # "running"
    <3>1. pc = 1 /\ sp = 0 /\ for_stack = <<>> /\ return_stack = <<>> /\ calls = <<>>
      BY <1>1, <2>3 DEF Inv, Rests
    <3>2. /\ pc \in 1 .. Len(unit.code) + 1 /\ sp \in 0 .. StackSize
          /\ Len(for_stack) <= ForStackSize /\ Len(return_stack) <= ReturnStackSize
          /\ Len(calls) <= MaxCallDepth
      BY <2>1, <3>1, StackAssumption
    <3>3. QED
      BY <1>1, <2>1, <3>2 DEF TypeOK, Inv, Compiles, code
  <2>4. QED
    BY <2>2, <2>3
<1>2. QED
  BY <1>1, Invariance, PTL

(* The machine never runs into the JMPs behind ON: neither by falling in,  *)
(* nor by a jump, nor by a RETURN into the middle of a table.              *)
THEOREM TablesAreOnlyRead == Spec => []TablesAreNotRun
<1>1. ASSUME Inv PROVE TablesAreNotRun
  <2>1. SUFFICES ASSUME phase = "running", NEW i \in DOMAIN code, code[i].op \in {"ON_GOTO", "ON_GOSUB"},
                        pc \in i + 1 .. i + code[i].a
                 PROVE  FALSE
    BY DEF TablesAreNotRun
  <2>2. Standing
    BY <1>1, <2>1 DEF Standing
  <2>3. code[i].a \in Nat /\ i \in Nat
    BY <2>1, <2>2, StandingIs, OpsIn
  <2>4. InTable(unit.code, pc)
    BY SMTT(30), <2>1, <2>2, <2>3, StandingIs DEF InTable, Tables
  <2>5. QED
    BY <2>2, <2>4, StandingIs
<1>2. QED
  BY <1>1, Invariance, PTL

(* Control moves elsewhere than to the next operation only where           *)
(* optimize_program marks a flow entry, so it never enters a fused         *)
(* sequence in its middle, and neither NEXT, EXIT nor RETURN, however      *)
(* loops and calls are nested, touches a FOR frame of the callers.         *)
THEOREM FlowIsKept == Spec => FlowKept
<1>1. Inv /\ [Next]_vars =>
        /\ [phase = "running" /\ phase' = "running" =>
                IsPrefix(SubSeq(for_stack, 1, Base), for_stack')]_vars
        /\ [phase = "running" /\ phase' = "running" /\ pc' # pc + 1 => pc' \in Entries(unit)]_vars
  BY NextInv DEF Flows
<1>2. QED
  BY <1>1, Invariance, PTL DEF Spec, FlowKept, CallersKeepTheirLoops, EntriesAreMarked
=============================================================================

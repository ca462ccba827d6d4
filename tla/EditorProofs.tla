---------------------------- MODULE EditorProofs ----------------------------
(***************************************************************************)
(* Proofs about ProgramEditor for any programs, words, numbers, limits of  *)
(* the store and depth of the history: undo and redo are exact, an editor  *)
(* that shows no change holds the file, and what it leaves is marked.      *)
(*                                                                         *)
(* The inductive invariant (EditorInv) files every text under its name and *)
(* says of each snapshot on a stack which text it leads from and to.  Each *)
(* key is one of: nothing done to the text (Quiet, Kept), a new text with  *)
(* its way back (NewState), one more key of a run (SameRun), a move along  *)
(* the history (Moved).                                                    *)
(***************************************************************************)
EXTENDS ProgramEditor, SequenceTheorems, WellFoundedInduction, TLAPS

-----------------------------------------------------------------------------
(* Sequences of any elements.                                              *)

(* A sequence, of elements of whatever kind.                               *)
IsSeq(s) == \E S : s \in Seq(S)

(* What a sequence is.                                                     *)
LEMMA SeqIs ==
  ASSUME NEW s, IsSeq(s)
  PROVE  Len(s) \in Nat /\ DOMAIN s = 1..Len(s) /\ s = [i \in 1..Len(s) |-> s[i]]
BY DEF IsSeq

(* A function on 1..n is a sequence.                                       *)
LEMMA IsSeqOf ==
  ASSUME NEW s, NEW n \in Nat, s = [i \in 1..n |-> s[i]]
  PROVE  IsSeq(s) /\ Len(s) = n
<1> DEFINE S == {s[i] : i \in 1..n}
<1>1. s \in [1..n -> S]
  OBVIOUS
<1>2. s \in Seq(S)
  BY <1>1, SeqDef
<1>3. Len(s) = n
  BY <1>1, <1>2
<1>. QED  BY <1>2, <1>3 DEF IsSeq

LEMMA SameSequence ==
  ASSUME NEW s, NEW t, IsSeq(s), IsSeq(t), Len(s) = Len(t),
         \A i \in 1..Len(s) : s[i] = t[i]
  PROVE  s = t
<1>1. s = [i \in 1..Len(s) |-> s[i]] /\ t = [i \in 1..Len(t) |-> t[i]]
  BY SeqIs
<1>. QED  BY <1>1

LEMMA InSeq ==
  ASSUME NEW s, NEW S, IsSeq(s), \A i \in 1..Len(s) : s[i] \in S
  PROVE  s \in Seq(S)
<1>1. s \in [1..Len(s) -> S] /\ Len(s) \in Nat
  BY SeqIs
<1>. QED  BY <1>1, SeqDef

LEMMA Concatenated ==
  ASSUME NEW s, NEW t, IsSeq(s), IsSeq(t)
  PROVE  /\ IsSeq(s \o t) /\ Len(s \o t) = Len(s) + Len(t)
         /\ \A i \in 1..Len(s) + Len(t) :
              (s \o t)[i] = IF i <= Len(s) THEN s[i] ELSE t[i - Len(s)]
<1>1. PICK S, T : s \in Seq(S) /\ t \in Seq(T)
  BY DEF IsSeq
<1> DEFINE U == S \cup T
<1>2. s \in Seq(U) /\ t \in Seq(U)
  <2>1. (\A i \in 1..Len(s) : s[i] \in U) /\ (\A i \in 1..Len(t) : t[i] \in U)
    BY <1>1
  <2>. QED  BY <2>1, InSeq
<1> HIDE DEF U
<1>3. s \o t \in Seq(U)
  BY <1>2
<1>. QED  BY <1>2, <1>3 DEF IsSeq

(* r is s followed by t, of lengths a and c.                               *)
JoinOf(r, s, t, a, c) ==
  /\ a \in Nat /\ c \in Nat /\ IsSeq(r) /\ Len(r) = a + c
  /\ \A i \in 1..a : r[i] = s[i]
  /\ \A i \in 1..c : r[a + i] = t[i]

LEMMA Joined ==
  ASSUME NEW s, NEW t, IsSeq(s), IsSeq(t)
  PROVE  JoinOf(s \o t, s, t, Len(s), Len(t))
<1> DEFINE r == s \o t
           a == Len(s)
           c == Len(t)
<1>1. /\ IsSeq(r) /\ Len(r) = a + c
      /\ \A i \in 1..a + c : r[i] = IF i <= a THEN s[i] ELSE t[i - a]
  BY Concatenated
<1>2. a \in Nat /\ c \in Nat
  BY SeqIs
<1> HIDE DEF r, a, c
<1>3. ASSUME NEW i \in 1..a PROVE r[i] = s[i]
  <2>1. i \in 1..a + c /\ i <= a
    BY <1>2
  <2>. QED  BY <1>1, <2>1
<1>4. ASSUME NEW i \in 1..c PROVE r[a + i] = t[i]
  <2> DEFINE p == a + i
  <2>1. p \in 1..a + c /\ ~(p <= a) /\ p - a = i
    BY <1>2
  <2> HIDE DEF p
  <2>2. r[p] = t[p - a]
    BY <1>1, <2>1
  <2>3. r[p] = t[i]
    BY <2>1, <2>2
  <2>. QED  BY <2>3 DEF p
<1>5. JoinOf(r, s, t, a, c)
  BY <1>1, <1>2, <1>3, <1>4 DEF JoinOf
<1>. QED  BY <1>5 DEF r, a, c

(* SubSeq, element by element.                                             *)
LEMMA SubSequence ==
  ASSUME NEW s, IsSeq(s), NEW m \in Nat, NEW n \in Nat, 1 <= m, n <= Len(s)
  PROVE  /\ IsSeq(SubSeq(s, m, n))
         /\ Len(SubSeq(s, m, n)) = (IF m <= n THEN n - m + 1 ELSE 0)
         /\ \A i \in 1..Len(SubSeq(s, m, n)) : SubSeq(s, m, n)[i] = s[m + i - 1]
<1>1. PICK S : s \in Seq(S)
  BY DEF IsSeq
<1>2. \A i \in m..n : s[i] \in S
  BY <1>1
<1>3. SubSeq(s, m, n) \in Seq(S)
  BY <1>1, <1>2, SubSeqProperties
<1>. QED  BY <1>1, <1>3, SubSeqProperties DEF IsSeq

LEMMA Singleton ==
  ASSUME NEW e
  PROVE  IsSeq(<<e>>) /\ Len(<<e>>) = 1 /\ <<e>>[1] = e
<1>1. <<e>> \in Seq({e})
  OBVIOUS
<1>. QED  BY <1>1 DEF IsSeq

LEMMA NoElements ==
  /\ IsSeq(<<>>) /\ Len(<<>>) = 0
  /\ \A s : IsSeq(s) => (s = <<>> <=> Len(s) = 0)
<1>1. IsSeq(<<>>) /\ Len(<<>>) = 0
  <2>1. <<>> \in Seq({})
    OBVIOUS
  <2>. QED  BY <2>1 DEF IsSeq
<1>2. ASSUME NEW s, IsSeq(s) PROVE s = <<>> <=> Len(s) = 0
  BY <1>2 DEF IsSeq
<1>. QED  BY <1>1, <1>2

(* Append, Tail and Front, element by element.                             *)
LEMMA Appended ==
  ASSUME NEW s, NEW e, IsSeq(s)
  PROVE  /\ IsSeq(Append(s, e)) /\ Len(Append(s, e)) = Len(s) + 1
         /\ Append(s, e)[Len(s) + 1] = e
         /\ \A i \in 1..Len(s) : Append(s, e)[i] = s[i]
<1>1. PICK S : s \in Seq(S)
  BY DEF IsSeq
<1>2. s \in Seq(S \cup {e})
  <2>1. \A i \in 1..Len(s) : s[i] \in S \cup {e}
    BY <1>1
  <2>. QED  BY <2>1, InSeq
<1>. QED  BY <1>2 DEF IsSeq

LEMMA Tailed ==
  ASSUME NEW s, IsSeq(s), s # <<>>
  PROVE  /\ IsSeq(Tail(s)) /\ Len(Tail(s)) = Len(s) - 1 /\ Len(s) > 0
         /\ \A i \in 1..Len(s) - 1 : Tail(s)[i] = s[i + 1]
<1>1. PICK S : s \in Seq(S)
  BY DEF IsSeq
<1>. QED  BY <1>1 DEF IsSeq

LEMMA Fronted ==
  ASSUME NEW s, IsSeq(s), s # <<>>
  PROVE  /\ IsSeq(Front(s)) /\ Len(Front(s)) = Len(s) - 1 /\ Len(s) > 0
         /\ Last(s) = s[Len(s)]
         /\ \A i \in 1..Len(s) - 1 : Front(s)[i] = s[i]
<1>1. Len(s) \in Nat /\ Len(s) # 0
  BY SeqIs, NoElements
<1> DEFINE m == Len(s) - 1
           q == SubSeq(s, 1, m)
<1>2. m \in Nat /\ m <= Len(s)
  BY <1>1
<1> HIDE DEF m
<1>3. /\ IsSeq(q) /\ Len(q) = (IF 1 <= m THEN m - 1 + 1 ELSE 0)
      /\ \A i \in 1..Len(q) : q[i] = s[1 + i - 1]
  BY <1>2, SubSequence
<1> HIDE DEF q
<1>4. Len(q) = m
  BY <1>2, <1>3
<1>5. \A i \in 1..m : q[i] = s[i]
  BY <1>2, <1>3, <1>4
<1>6. Front(s) = q /\ Last(s) = s[Len(s)]
  BY DEF Front, Last, q, m
<1>. QED  BY <1>1, <1>3, <1>4, <1>5, <1>6 DEF m

-----------------------------------------------------------------------------
(* Programs: lines in the order of their numbers.                          *)

IsLine(l) == l = [number |-> l.number, body |-> l.body] /\ l.number \in Nat

(* A program as the store keeps it: lines in the order of their numbers.   *)
InOrder(t) ==
  /\ IsSeq(t)
  /\ \A i \in 1..Len(t) : IsLine(t[i])
  /\ \A i, j \in 1..Len(t) : i < j => t[i].number < t[j].number

(* A structured program: the number of a line is its place.                *)
Positioned(t) == \A i \in 1..Len(t) : t[i].number = i

LinesOf(t) == {t[i] : i \in 1..Len(t)}

(* A set of numbers has a least one.                                       *)
LEMMA LeastElement ==
  ASSUME NEW T, T \subseteq Nat, T # {}
  PROVE  \E m \in T : \A k \in T : m <= k
<1>1. PICK m \in T : \A k \in T : <<k, m>> \notin OpToRel(<, Nat)
  BY NatLessThanWellFounded, WFMin
<1>2. \A k \in T : k \in Nat /\ ~(k < m)
  BY <1>1 DEF OpToRel
<1>3. \A k \in T : m <= k
  BY <1>2
<1>. QED  BY <1>3

\* One direction of the next lemma: s is a beginning of t.
(* One begins with the other.                                              *)
LEMMA SameLinesBegin ==
  ASSUME NEW s, NEW t, InOrder(s), InOrder(t), LinesOf(s) = LinesOf(t)
  PROVE  \A i \in 1..Len(s) : i <= Len(t) /\ s[i] = t[i]
<1> DEFINE T == {i \in 1..Len(s) : ~(i <= Len(t) /\ s[i] = t[i])}
<1>1. Len(s) \in Nat /\ Len(t) \in Nat
  BY SeqIs DEF InOrder
<1>2. ASSUME T # {} PROVE FALSE
  <2>1. PICK i \in T : \A k \in T : i <= k
    <3>1. T \subseteq Nat
      BY <1>1
    <3> HIDE DEF T
    <3>. QED  BY <1>2, <3>1, LeastElement
  <2>2. \A k \in 1..Len(s) : k < i => k <= Len(t) /\ s[k] = t[k]
    BY <1>1, <2>1
  <2>3. i \in 1..Len(s)
    OBVIOUS
  <2>4. PICK q \in 1..Len(t) : s[i] = t[q]
    <3>1. s[i] \in LinesOf(t)
      BY <2>3 DEF LinesOf
    <3>. QED  BY <3>1 DEF LinesOf
  <2>5. q >= i
    <3>1. ASSUME q < i PROVE FALSE
      <4>1. q \in 1..Len(s) /\ s[q] = s[i]
        BY <1>1, <2>2, <2>3, <2>4, <3>1
      <4>2. s[q].number < s[i].number /\ s[i].number \in Nat
        BY <2>3, <3>1, <4>1 DEF InOrder, IsLine
      <4>. QED  BY <4>1, <4>2
    <3>. QED  BY <1>1, <2>3, <3>1
  <2>6. i \in 1..Len(t)
    BY <1>1, <2>3, <2>5
  <2>7. PICK p \in 1..Len(s) : t[i] = s[p]
    <3>1. t[i] \in LinesOf(s)
      BY <2>6 DEF LinesOf
    <3>. QED  BY <3>1 DEF LinesOf
  <2>8. p >= i
    <3>1. ASSUME p < i PROVE FALSE
      <4>1. p \in 1..Len(t) /\ t[p] = t[i]
        BY <1>1, <2>2, <2>3, <2>7, <3>1
      <4>2. t[p].number < t[i].number /\ t[i].number \in Nat
        BY <2>6, <3>1, <4>1 DEF InOrder, IsLine
      <4>. QED  BY <4>1, <4>2
    <3>. QED  BY <1>1, <2>3, <3>1
  <2>9. /\ s[i].number \in Nat /\ t[i].number \in Nat
        /\ s[i].number <= s[p].number /\ t[i].number <= t[q].number
    <3>1. s[i].number \in Nat /\ t[i].number \in Nat
      BY <2>3, <2>6 DEF InOrder, IsLine
    <3>2. i = p \/ s[i].number < s[p].number
      BY <1>1, <2>3, <2>8 DEF InOrder
    <3>3. i = q \/ t[i].number < t[q].number
      BY <1>1, <2>6, <2>5 DEF InOrder
    <3>4. s[p].number \in Nat /\ t[q].number \in Nat
      BY DEF InOrder, IsLine
    <3>. QED  BY <3>1, <3>2, <3>3, <3>4
  <2>10. s[p].number = s[i].number
    BY <2>4, <2>7, <2>9
  <2>11. ~(i < p)
    BY <2>3, <2>9, <2>10 DEF InOrder
  <2>12. p = i
    BY <1>1, <2>3, <2>8, <2>11
  <2>. QED  BY <2>1, <2>6, <2>7, <2>12, <1>1
<1>. QED  BY <1>2

(* Two programs with the same lines are the same.                          *)
LEMMA SameLines ==
  ASSUME NEW s, NEW t, InOrder(s), InOrder(t), LinesOf(s) = LinesOf(t)
  PROVE  s = t
<1>1. Len(s) \in Nat /\ Len(t) \in Nat
  BY SeqIs DEF InOrder
<1>2. \A i \in 1..Len(s) : i <= Len(t) /\ s[i] = t[i]
  BY SameLinesBegin
<1>3. \A i \in 1..Len(t) : i <= Len(s) /\ t[i] = s[i]
  BY SameLinesBegin
<1>4. Len(s) = Len(t)
  <2>1. Len(s) <= Len(t)
    <3>1. CASE Len(s) = 0
      BY <1>1, <3>1
    <3>2. CASE Len(s) # 0
      <4>1. Len(s) \in 1..Len(s)
        BY <1>1, <3>2
      <4>. QED  BY <1>2, <4>1
    <3>. QED  BY <3>1, <3>2
  <2>2. Len(t) <= Len(s)
    <3>1. CASE Len(t) = 0
      BY <1>1, <3>1
    <3>2. CASE Len(t) # 0
      <4>1. Len(t) \in 1..Len(t)
        BY <1>1, <3>2
      <4>. QED  BY <1>3, <4>1
    <3>. QED  BY <3>1, <3>2
  <2>. QED  BY <1>1, <2>1, <2>2
<1>. QED  BY <1>2, <1>4, SameSequence DEF InOrder

-----------------------------------------------------------------------------
(* Where the line of a number is.                                          *)

(* k lines of t have a number below n.                                     *)
IsBelow(t, n, k) ==
  k \in 0..Len(t) /\ \A i \in 1..Len(t) : t[i].number < n <=> i <= k

(* Binary search has an answer, and LinesBelow is it.                      *)
LEMMA ThereIsBelow ==
  ASSUME NEW t, InOrder(t), NEW n \in Nat
  PROVE  \E k : IsBelow(t, n, k)
<1> DEFINE T == {i \in 1..Len(t) : t[i].number >= n}
<1>1. Len(t) \in Nat
  BY SeqIs DEF InOrder
<1>2. \A i \in 1..Len(t) : t[i].number \in Nat
  BY DEF InOrder, IsLine
<1>3. CASE T = {}
  <2>1. \A i \in 1..Len(t) : t[i].number < n /\ i <= Len(t)
    BY <1>1, <1>2, <1>3
  <2>2. IsBelow(t, n, Len(t))
    BY <1>1, <2>1 DEF IsBelow
  <2>. QED  BY <2>2
<1>4. CASE T # {}
  <2>1. PICK m \in T : \A k \in T : m <= k
    <3>1. T \subseteq Nat
      BY <1>1
    <3> HIDE DEF T
    <3>. QED  BY <1>4, <3>1, LeastElement
  <2>2. m \in 1..Len(t) /\ t[m].number >= n
    OBVIOUS
  <2>3. ASSUME NEW i \in 1..Len(t) PROVE t[i].number < n <=> i <= m - 1
    <3>1. CASE i < m
      <4>1. i \notin T
        BY <1>1, <2>1, <2>2, <3>1
      <4>. QED  BY <1>1, <1>2, <2>2, <3>1, <4>1
    <3>2. CASE i = m
      BY <1>1, <1>2, <2>2, <3>2
    <3>3. CASE i > m
      <4>1. t[m].number < t[i].number
        BY <2>2, <3>3 DEF InOrder
      <4>2. t[i].number \in Nat /\ t[m].number \in Nat
        BY <1>2, <2>2
      <4>. QED  BY <1>1, <2>2, <3>3, <4>1, <4>2
    <3>. QED  BY <1>1, <2>2, <3>1, <3>2, <3>3
  <2>4. m - 1 \in 0..Len(t)
    BY <1>1, <2>2
  <2>5. IsBelow(t, n, m - 1)
    BY <2>3, <2>4 DEF IsBelow
  <2>. QED  BY <2>5
<1>. QED  BY <1>3, <1>4

LEMMA BelowIs ==
  ASSUME NEW t, InOrder(t), NEW n \in Nat
  PROVE  /\ IsBelow(t, n, LinesBelow(t, n))
         /\ \A k : IsBelow(t, n, k) => k = LinesBelow(t, n)
<1>1. DOMAIN t = 1..Len(t) /\ Len(t) \in Nat
  BY SeqIs DEF InOrder
<1>2. IsBelow(t, n, LinesBelow(t, n))
  BY <1>1, ThereIsBelow DEF IsBelow, LinesBelow
<1>3. ASSUME NEW k, NEW j, IsBelow(t, n, k), IsBelow(t, n, j), j < k PROVE FALSE
  <2>1. k \in 1..Len(t) /\ j \in 0..Len(t)
    BY <1>1, <1>3 DEF IsBelow
  <2>2. t[k].number < n
    BY <1>3, <2>1 DEF IsBelow
  <2>3. ~(t[k].number < n)
    BY <1>1, <1>3, <2>1 DEF IsBelow
  <2>. QED  BY <2>2, <2>3
<1>4. ASSUME NEW k, IsBelow(t, n, k) PROVE k = LinesBelow(t, n)
  <2>1. k \in 0..Len(t) /\ LinesBelow(t, n) \in 0..Len(t)
    BY <1>2, <1>4 DEF IsBelow
  <2>2. ~(k < LinesBelow(t, n)) /\ ~(LinesBelow(t, n) < k)
    BY <1>2, <1>3, <1>4
  <2>. QED  BY <1>1, <2>1, <2>2
<1>. QED  BY <1>2, <1>4

(* The number of a line tells where it is.                                 *)
LEMMA LineAt ==
  ASSUME NEW t, InOrder(t), NEW i \in 1..Len(t)
  PROVE  /\ t[i].number \in Nat
         /\ LinesBelow(t, t[i].number) = i - 1
         /\ LinesBelow(t, t[i].number + 1) = i
<1>1. Len(t) \in Nat
  BY SeqIs DEF InOrder
<1>2. \A j \in 1..Len(t) : t[j].number \in Nat
  BY DEF InOrder, IsLine
<1>3. ASSUME NEW j \in 1..Len(t)
      PROVE  /\ t[j].number < t[i].number <=> j <= i - 1
             /\ t[j].number < t[i].number + 1 <=> j <= i
  <2>1. /\ i < j => t[i].number < t[j].number
        /\ j < i => t[j].number < t[i].number
    BY DEF InOrder
  <2>2. t[i].number \in Nat /\ t[j].number \in Nat
    BY <1>2
  <2>3. i < j \/ i = j \/ j < i
    BY <1>1
  <2>. QED  BY <1>1, <2>1, <2>2, <2>3
<1>4. IsBelow(t, t[i].number, i - 1) /\ IsBelow(t, t[i].number + 1, i)
  BY <1>1, <1>3 DEF IsBelow
<1>5. t[i].number \in Nat /\ t[i].number + 1 \in Nat
  BY <1>2
<1>. QED  BY <1>4, <1>5, BelowIs

-----------------------------------------------------------------------------
(* A program with the line of one number replaced, added or taken out.     *)

\* r is t with m lines in place of the line n; k lines come before it, and
\* what follows it begins behind line j.
(* r is t without its k+1-th to j-th line, and with the m lines of n in    *)
(* their place.                                                            *)
LineReplaced(r, t, n, b, m, k, j) ==
  /\ k \in 0..Len(t) /\ j \in 0..Len(t) /\ k <= j /\ j <= k + 1
  /\ IsSeq(r) /\ Len(r) = k + m + (Len(t) - j)
  /\ \A i \in 1..k : r[i] = t[i]
  /\ m = 1 => r[k + 1] = [number |-> n, body |-> b]
  /\ \A i \in 1..Len(t) - j : r[k + m + i] = t[j + i]

Count(is) == IF is THEN 1 ELSE 0

(* WithLine, element by element, and as a set of lines.                    *)
LEMMA WithLineElements ==
  ASSUME NEW t, InOrder(t), NEW n \in Nat, NEW is \in BOOLEAN, NEW b
  PROVE  LineReplaced(WithLine(t, n, LineIf(is, n, b)), t, n, b, Count(is),
                      LinesBelow(t, n), LinesBelow(t, n + 1))
<1> DEFINE r == WithLine(t, n, LineIf(is, n, b))
           m == Count(is)
           k == LinesBelow(t, n)
           j == LinesBelow(t, n + 1)
<1>0. /\ r = WithLine(t, n, LineIf(is, n, b)) /\ k = LinesBelow(t, n)
      /\ j = LinesBelow(t, n + 1) /\ m = IF is THEN 1 ELSE 0
  BY DEF Count
<1> HIDE DEF r, m, k, j
<1>1. Len(t) \in Nat /\ IsSeq(t)
  BY SeqIs DEF InOrder
<1>2. IsBelow(t, n, k) /\ IsBelow(t, n + 1, j)
  BY <1>0, BelowIs
<1>3. k \in 0..Len(t) /\ j \in 0..Len(t)
  BY <1>2 DEF IsBelow
<1>4. \A i \in 1..Len(t) : t[i].number \in Nat
  BY DEF InOrder, IsLine
<1>5. k <= j
  <2>1. ASSUME j < k PROVE FALSE
    <3>1. k \in 1..Len(t)
      BY <1>1, <1>3, <2>1
    <3>2. t[k].number < n /\ ~(t[k].number < n + 1)
      BY <1>1, <1>2, <1>3, <2>1, <3>1 DEF IsBelow
    <3>. QED  BY <1>4, <3>1, <3>2
  <2>. QED  BY <1>1, <1>3, <2>1
<1>6. j <= k + 1
  <2>1. ASSUME k + 1 < j PROVE FALSE
    <3>1. k + 1 \in 1..Len(t) /\ j \in 1..Len(t)
      BY <1>1, <1>3, <2>1
    <3>2. ~(t[k + 1].number < n) /\ t[j].number < n + 1
      <4>1. ~(k + 1 <= k) /\ j <= j
        BY <1>3
      <4>. QED  BY <1>2, <3>1, <4>1 DEF IsBelow
    <3>3. t[k + 1].number < t[j].number
      BY <2>1, <3>1 DEF InOrder
    <3>4. t[k + 1].number \in Nat /\ t[j].number \in Nat
      BY <1>4, <3>1
    <3>. QED  BY <3>2, <3>3, <3>4
  <2>. QED  BY <1>1, <1>3, <2>1
<1> DEFINE lo == SubSeq(t, 1, k)
           hi == SubSeq(t, j + 1, Len(t))
           mid == LineIf(is, n, b)
<1>7. r = (lo \o mid) \o hi
  BY <1>0 DEF WithLine, Below, Above
<1>8. IsSeq(lo) /\ Len(lo) = k /\ \A i \in 1..k : lo[i] = t[i]
  <2>1. /\ IsSeq(lo) /\ Len(lo) = (IF 1 <= k THEN k - 1 + 1 ELSE 0)
        /\ \A i \in 1..Len(lo) : lo[i] = t[1 + i - 1]
    BY <1>1, <1>3, SubSequence
  <2> HIDE DEF lo
  <2>2. Len(lo) = k
    BY <1>1, <1>3, <2>1
  <2>3. \A i \in 1..k : lo[i] = t[i]
    BY <1>1, <1>3, <2>1, <2>2
  <2>. QED  BY <2>1, <2>2, <2>3
<1>9. IsSeq(hi) /\ Len(hi) = Len(t) - j /\ \A i \in 1..Len(t) - j : hi[i] = t[j + i]
  <2>0. j + 1 \in Nat /\ 1 <= j + 1
    BY <1>1, <1>3
  <2>1. /\ IsSeq(hi) /\ Len(hi) = (IF j + 1 <= Len(t) THEN Len(t) - (j + 1) + 1 ELSE 0)
        /\ \A i \in 1..Len(hi) : hi[i] = t[j + 1 + i - 1]
    BY <1>1, <2>0, SubSequence
  <2> HIDE DEF hi
  <2>2. Len(hi) = Len(t) - j
    BY <1>1, <1>3, <2>1
  <2>3. ASSUME NEW i \in 1..Len(t) - j PROVE hi[i] = t[j + i]
    <3>1. j + 1 + i - 1 = j + i
      BY <1>1, <1>3
    <3>. QED  BY <2>1, <2>2, <3>1
  <2>. QED  BY <2>1, <2>2, <2>3
<1>10. IsSeq(mid) /\ Len(mid) = m /\ (is => mid[1] = [number |-> n, body |-> b])
  BY <1>0, Singleton, NoElements DEF LineIf, Line
<1> HIDE DEF lo, hi, mid
<1> DEFINE front == lo \o mid
<1>11. /\ IsSeq(front) /\ Len(front) = k + m /\ m \in Nat
       /\ \A i \in 1..k : front[i] = lo[i]
       /\ \A i \in 1..m : front[k + i] = mid[i]
  <2>1. JoinOf(front, lo, mid, Len(lo), Len(mid))
    BY <1>8, <1>10, Joined
  <2> HIDE DEF front
  <2>2. JoinOf(front, lo, mid, k, m)
    BY <1>8, <1>10, <2>1
  <2>. QED  BY <2>2 DEF JoinOf
<1>12. r = front \o hi
  BY <1>7
<1> HIDE DEF front
<1> DEFINE a == k + m
           c == Len(t) - j
<1>13. /\ IsSeq(r) /\ Len(r) = a + c
       /\ \A i \in 1..a : r[i] = front[i]
       /\ \A i \in 1..c : r[a + i] = hi[i]
  <2>1. a = Len(front) /\ c = Len(hi) /\ IsSeq(front) /\ IsSeq(hi)
    BY <1>9, <1>11 DEF a, c
  <2> HIDE DEF a, c
  <2>2. JoinOf(front \o hi, front, hi, Len(front), Len(hi))
    BY <2>1, Joined
  <2>3. JoinOf(r, front, hi, a, c)
    BY <1>12, <2>1, <2>2
  <2>. QED  BY <2>3 DEF JoinOf
<1>14. m \in 0..1 /\ (is => m = 1) /\ (m = 1 => is)
  BY <1>0
<1>15. ASSUME NEW i \in 1..k PROVE r[i] = t[i]
  <2>1. i \in 1..a
    BY <1>1, <1>3, <1>14
  <2> HIDE DEF a, c
  <2>. QED  BY <1>8, <1>11, <1>13, <2>1
<1>16. ASSUME is PROVE r[k + 1] = [number |-> n, body |-> b]
  <2>1. k + 1 \in 1..a /\ 1 \in 1..m
    BY <1>1, <1>3, <1>14, <1>16
  <2> HIDE DEF a, c
  <2>2. r[k + 1] = front[k + 1] /\ front[k + 1] = mid[1]
    BY <1>11, <1>13, <2>1
  <2>. QED  BY <1>10, <1>16, <2>2
<1>17. ASSUME NEW i \in 1..Len(t) - j PROVE r[k + m + i] = t[j + i]
  <2>1. r[a + i] = hi[i]
    <3>1. i \in 1..c
      OBVIOUS
    <3> HIDE DEF a, c
    <3>. QED  BY <1>13, <3>1
  <2>. QED  BY <1>9, <2>1
<1>18. LineReplaced(r, t, n, b, m, k, j)
  BY <1>3, <1>5, <1>6, <1>13, <1>14, <1>15, <1>16, <1>17 DEF LineReplaced
<1>. QED  BY <1>18 DEF r, m, k, j

(* The line of number n, the other lines, and the line that replaces it.   *)
Under(t, n) == {l \in LinesOf(t) : l.number = n}
Others(t, n) == {l \in LinesOf(t) : l.number # n}
One(is, n, b) == IF is THEN {[number |-> n, body |-> b]} ELSE {}

LEMMA WithLineIs ==
  ASSUME NEW t, InOrder(t), NEW n \in Nat, NEW is \in BOOLEAN, NEW b
  PROVE  /\ InOrder(WithLine(t, n, LineIf(is, n, b)))
         /\ LinesOf(WithLine(t, n, LineIf(is, n, b))) = Others(t, n) \cup One(is, n, b)
<1> DEFINE r == WithLine(t, n, LineIf(is, n, b))
           k == LinesBelow(t, n)
           j == LinesBelow(t, n + 1)
           m == IF is THEN 1 ELSE 0
<1>1. /\ k \in 0..Len(t) /\ j \in 0..Len(t) /\ k <= j /\ j <= k + 1
      /\ IsSeq(r) /\ Len(r) = k + m + (Len(t) - j)
      /\ \A i \in 1..k : r[i] = t[i]
      /\ is => r[k + 1] = [number |-> n, body |-> b]
      /\ \A i \in 1..Len(t) - j : r[k + m + i] = t[j + i]
  <2>1. LineReplaced(r, t, n, b, m, k, j)
    BY WithLineElements DEF Count
  <2> HIDE DEF r, k, j
  <2>. QED  BY <2>1 DEF LineReplaced
<1>2. IsBelow(t, n, k) /\ IsBelow(t, n + 1, j)
  BY BelowIs
<1>3. m \in 0..1 /\ (is => m = 1) /\ (~is => m = 0)
  OBVIOUS
<1>4. Len(t) \in Nat /\ \A i \in 1..Len(t) : t[i].number \in Nat /\ IsLine(t[i])
  BY SeqIs DEF InOrder, IsLine
<1> HIDE DEF r, k, j, m
\* Every line of r is one of t before or behind n, or the one of n.
<1>5. ASSUME NEW i \in 1..Len(r)
      PROVE  \/ i <= k /\ i \in 1..Len(t) /\ r[i] = t[i] /\ t[i].number < n
             \/ is /\ i = k + 1 /\ r[i] = [number |-> n, body |-> b]
             \/ /\ i > k + m /\ i - (k + m) + j \in 1..Len(t)
                /\ r[i] = t[i - (k + m) + j] /\ t[i - (k + m) + j].number > n
  <2>1. CASE i <= k
    <3>1. i \in 1..k /\ i \in 1..Len(t)
      BY <1>1, <1>4, <2>1
    <3>. QED  BY <1>1, <1>2, <2>1, <3>1 DEF IsBelow
  <2>2. CASE i > k /\ i <= k + m
    <3>1. is /\ i = k + 1
      BY <1>1, <1>3, <2>2
    <3>. QED  BY <1>1, <3>1
  <2>3. CASE i > k + m
    <3> DEFINE p == i - (k + m)
    <3>1. p \in 1..Len(t) - j /\ k + m + p = i /\ p + j = j + p /\ p + j \in 1..Len(t) /\ ~(p + j <= j)
      BY SMTT(30), <1>1, <1>3, <1>4, <2>3
    <3> HIDE DEF p
    <3>2. r[i] = t[p + j]
      BY <1>1, <3>1
    <3>3. t[p + j].number > n
      <4>1. ~(t[p + j].number < n + 1)
        BY <1>2, <3>1 DEF IsBelow
      <4>2. t[p + j].number \in Nat
        BY <1>4, <3>1
      <4>. QED  BY <4>1, <4>2
    <3>. QED  BY <2>3, <3>1, <3>2, <3>3 DEF p
  <2>. QED  BY <1>1, <1>3, <1>4, <2>1, <2>2, <2>3
<1>6. \A i \in 1..Len(r) : IsLine(r[i])
  <2>1. ASSUME NEW i \in 1..Len(r) PROVE IsLine(r[i])
    <3>1. CASE is /\ r[i] = [number |-> n, body |-> b]
      BY <3>1 DEF IsLine
    <3>. QED  BY <1>4, <1>5, <3>1
  <2>. QED  BY <2>1
<1>7. ASSUME NEW x \in 1..Len(r), NEW y \in 1..Len(r), x < y PROVE r[x].number < r[y].number
  <2> DEFINE p(z) == z - (k + m) + j
  <2>0. r[x].number \in Nat /\ r[y].number \in Nat
    BY <1>6 DEF IsLine
  <2>1. CASE x <= k /\ x \in 1..Len(t) /\ r[x] = t[x] /\ t[x].number < n
    <3>1. CASE y <= k /\ y \in 1..Len(t) /\ r[y] = t[y]
      BY <1>7, <2>1, <3>1 DEF InOrder
    <3>2. CASE is /\ r[y] = [number |-> n, body |-> b]
      BY <2>1, <3>2
    <3>3. CASE r[y] = t[p(y)] /\ t[p(y)].number > n
      <4> HIDE DEF p
      <4>. QED  BY <2>0, <2>1, <3>3
    <3>. QED  BY <1>5, <3>1, <3>2, <3>3
  <2>2. CASE is /\ x = k + 1 /\ r[x] = [number |-> n, body |-> b]
    <3>1. y > k + 1
      BY <1>7, <2>2
    <3>2. r[y] = t[p(y)] /\ t[p(y)].number > n
      <4> HIDE DEF p
      <4>1. ~(y <= k) /\ y # k + 1
        BY <1>1, <1>4, <3>1
      <4>. QED  BY <1>5, <4>1 DEF p
    <3> HIDE DEF p
    <3>. QED  BY <2>0, <2>2, <3>2
  <2>3. CASE x > k + m /\ p(x) \in 1..Len(t) /\ r[x] = t[p(x)]
    <3>1. ~(y <= k) /\ ~(is /\ y = k + 1)
      BY <1>1, <1>3, <1>4, <1>7, <2>3
    <3>2. p(y) \in 1..Len(t) /\ r[y] = t[p(y)]
      BY <1>5, <3>1
    <3>3. p(x) < p(y)
      BY <1>1, <1>3, <1>4, <1>7
    <3> HIDE DEF p
    <3>. QED  BY <2>3, <3>2, <3>3 DEF InOrder
  <2>. QED  BY <1>5, <2>1, <2>2, <2>3
<1>8. InOrder(r)
  BY <1>1, <1>6, <1>7 DEF InOrder
<1>9. ASSUME NEW l \in LinesOf(r) PROVE l \in Others(t, n) \cup One(is, n, b)
  <2>1. PICK i \in 1..Len(r) : l = r[i]
    BY DEF LinesOf
  <2>2. CASE \E q \in 1..Len(t) : l = t[q] /\ (t[q].number < n \/ t[q].number > n)
    <3>1. PICK q \in 1..Len(t) : l = t[q] /\ (t[q].number < n \/ t[q].number > n)
      BY <2>2
    <3>2. l.number # n
      BY <1>4, <3>1
    <3>. QED  BY <3>1, <3>2 DEF Others, LinesOf
  <2>3. CASE is /\ l = [number |-> n, body |-> b]
    BY <2>3 DEF One
  <2>. QED  BY <1>5, <2>1, <2>2, <2>3
<1>10. ASSUME NEW l \in Others(t, n) PROVE l \in LinesOf(r)
  <2>1. PICK i \in 1..Len(t) : l = t[i] /\ t[i].number # n
    BY DEF Others, LinesOf
  <2>2. CASE t[i].number < n
    <3>1. i <= k
      BY <1>2, <2>2 DEF IsBelow
    <3>2. i \in 1..k /\ i \in 1..Len(r)
      BY <1>1, <1>3, <1>4, <3>1
    <3>. QED  BY <1>1, <2>1, <3>2 DEF LinesOf
  <2>3. CASE ~(t[i].number < n)
    <3>1. ~(t[i].number < n + 1)
      BY <1>4, <2>1, <2>3
    <3>2. ~(i <= j)
      BY <1>2, <3>1 DEF IsBelow
    <3> DEFINE p == i - j
    <3>3. p \in 1..Len(t) - j /\ j + p = i /\ k + m + p \in 1..Len(r)
      BY <1>1, <1>3, <1>4, <3>2
    <3> HIDE DEF p
    <3>4. r[k + m + p] = l
      BY <1>1, <2>1, <3>3
    <3>. QED  BY <3>3, <3>4 DEF LinesOf
  <2>. QED  BY <2>2, <2>3
<1>11. ASSUME NEW l \in One(is, n, b) PROVE l \in LinesOf(r)
  <2>1. is /\ l = [number |-> n, body |-> b]
    BY DEF One
  <2>2. k + 1 \in 1..Len(r) /\ r[k + 1] = l
    BY <1>1, <1>3, <1>4, <2>1
  <2>. QED  BY <2>2 DEF LinesOf
<1>12. LinesOf(r) = Others(t, n) \cup One(is, n, b)
  BY <1>9, <1>10, <1>11
<1>. QED  BY <1>8, <1>12 DEF r

(* Two replacements: of the same line, and of two lines in either order.   *)
LEMMA ReplaceTwice ==
  ASSUME NEW t, InOrder(t), NEW n \in Nat, NEW x \in BOOLEAN, NEW b, NEW y \in BOOLEAN, NEW c
  PROVE  WithLine(WithLine(t, n, LineIf(x, n, b)), n, LineIf(y, n, c)) = WithLine(t, n, LineIf(y, n, c))
<1> DEFINE r == WithLine(t, n, LineIf(x, n, b))
           u == WithLine(t, n, LineIf(y, n, c))
           v == WithLine(r, n, LineIf(y, n, c))
<1>1. InOrder(r) /\ LinesOf(r) = Others(t, n) \cup One(x, n, b)
  BY WithLineIs
<1>2. InOrder(u) /\ LinesOf(u) = Others(t, n) \cup One(y, n, c)
  BY WithLineIs
<1>3. InOrder(v) /\ LinesOf(v) = Others(r, n) \cup One(y, n, c)
  <2> HIDE DEF r
  <2>. QED  BY <1>1, WithLineIs
<1> HIDE DEF r, u, v
<1>4. Others(r, n) = Others(t, n)
  BY <1>1 DEF Others, One
<1>5. v = u
  BY <1>2, <1>3, <1>4, SameLines
<1>. QED  BY <1>5 DEF r, u, v

(* Taking back one replacement: the line that was there, or none.          *)
LEMMA ReplaceBack ==
  ASSUME NEW t, InOrder(t), NEW n \in Nat, NEW x \in BOOLEAN, NEW b, NEW y \in BOOLEAN, NEW c,
         Under(t, n) = One(y, n, c)
  PROVE  WithLine(WithLine(t, n, LineIf(x, n, b)), n, LineIf(y, n, c)) = t
<1>1. InOrder(WithLine(t, n, LineIf(y, n, c)))
      /\ LinesOf(WithLine(t, n, LineIf(y, n, c))) = Others(t, n) \cup One(y, n, c)
  BY WithLineIs
<1>2. Others(t, n) \cup One(y, n, c) = LinesOf(t)
  BY DEF Others, Under
<1>3. WithLine(t, n, LineIf(y, n, c)) = t
  BY <1>1, <1>2, SameLines
<1>. QED  BY <1>3, ReplaceTwice

(* Two lines replaced, as replace_line_pair does it.                       *)
PairOf(t, n, x, b, m, y, c) ==
  WithLine(WithLine(t, n, LineIf(x, n, b)), m, LineIf(y, m, c))

(* The lines of neither number.                                            *)
OthersOfTwo(t, n, m) == {l \in LinesOf(t) : l.number # n /\ l.number # m}

(* The order of the two does not matter, and taking back both restores the *)
(* text.                                                                   *)
LEMMA PairIs ==
  ASSUME NEW t, InOrder(t), NEW n \in Nat, NEW x \in BOOLEAN, NEW b,
         NEW m \in Nat, NEW y \in BOOLEAN, NEW c, n # m
  PROVE  /\ InOrder(PairOf(t, n, x, b, m, y, c))
         /\ LinesOf(PairOf(t, n, x, b, m, y, c))
              = OthersOfTwo(t, n, m) \cup One(x, n, b) \cup One(y, m, c)
<1> DEFINE r == WithLine(t, n, LineIf(x, n, b))
           v == WithLine(r, m, LineIf(y, m, c))
<1>1. InOrder(r) /\ LinesOf(r) = Others(t, n) \cup One(x, n, b)
  BY WithLineIs
<1>2. InOrder(v) /\ LinesOf(v) = Others(r, m) \cup One(y, m, c)
  <2> HIDE DEF r
  <2>. QED  BY <1>1, WithLineIs
<1>3. v = PairOf(t, n, x, b, m, y, c)
  BY DEF PairOf
<1> HIDE DEF r, v
<1>4. Others(r, m) = OthersOfTwo(t, n, m) \cup One(x, n, b)
  BY <1>1 DEF Others, OthersOfTwo, One
<1>. QED  BY <1>2, <1>3, <1>4

LEMMA PairBack ==
  ASSUME NEW t, InOrder(t), NEW n \in Nat, NEW m \in Nat, n # m,
         NEW x \in BOOLEAN, NEW b, NEW y \in BOOLEAN, NEW c,
         NEW x2 \in BOOLEAN, NEW b2, NEW y2 \in BOOLEAN, NEW c2,
         Under(t, n) = One(x2, n, b2),
         Under(t, m) = One(y2, m, c2)
  PROVE  PairOf(PairOf(t, n, x, b, m, y, c), n, x2, b2, m, y2, c2) = t
<1> DEFINE r == PairOf(t, n, x, b, m, y, c)
           v == PairOf(r, n, x2, b2, m, y2, c2)
<1>1. InOrder(r) /\ LinesOf(r)
        = OthersOfTwo(t, n, m) \cup One(x, n, b) \cup One(y, m, c)
  <2>1. n # m /\ n \in Nat /\ m \in Nat /\ InOrder(t) /\ x \in BOOLEAN /\ y \in BOOLEAN
    OBVIOUS
  <2>. QED  BY ONLY <2>1, PairIs
<1>2. InOrder(v) /\ LinesOf(v)
        = OthersOfTwo(r, n, m) \cup One(x2, n, b2) \cup One(y2, m, c2)
  <2> HIDE DEF r
  <2>. QED  BY <1>1, PairIs
<1> HIDE DEF r, v
<1>3. OthersOfTwo(r, n, m) = OthersOfTwo(t, n, m)
  BY <1>1 DEF One, OthersOfTwo
<1>4. LinesOf(v) = LinesOf(t)
  BY <1>2, <1>3 DEF OthersOfTwo, Under
<1>5. v = t
  BY <1>2, <1>4, SameLines
<1>. QED  BY <1>5 DEF r, v

(* What the document holds under a number.                                 *)
LEMMA LineOf ==
  ASSUME NEW t, InOrder(t), NEW i \in 1..Len(t)
  PROVE  Under(t, t[i].number) = One(TRUE, t[i].number, t[i].body)
<1> DEFINE n == t[i].number
<1>1. t[i] = [number |-> n, body |-> t[i].body] /\ t[i] \in LinesOf(t)
  BY DEF InOrder, IsLine, LinesOf
<1>2. ASSUME NEW l \in LinesOf(t), l.number = n PROVE l = t[i]
  <2>1. PICK j \in 1..Len(t) : l = t[j]
    BY DEF LinesOf
  <2>2. ~(i < j) /\ ~(j < i)
    <3>1. t[i].number \in Nat
      BY DEF InOrder, IsLine
    <3>. QED  BY <1>2, <2>1, <3>1 DEF InOrder
  <2>3. Len(t) \in Nat
    BY SeqIs DEF InOrder
  <2>. QED  BY <2>1, <2>2, <2>3
<1>. QED  BY <1>1, <1>2 DEF One, Under

LEMMA NoLineOf ==
  ASSUME NEW t, NEW n, \A i \in 1..Len(t) : t[i].number # n, NEW b
  PROVE  Under(t, n) = One(FALSE, n, b)
BY DEF LinesOf, One, Under

(* A new body for a line that is there.                                    *)
BodyReplaced(r, t, i, n, b) ==
  /\ InOrder(r) /\ Len(r) = Len(t) /\ n \in Nat
  /\ r[i] = [number |-> n, body |-> b]
  /\ \A k \in 1..Len(t) : k # i => r[k] = t[k]

(* The other lines stay.                                                   *)
LEMMA NewBody ==
  ASSUME NEW t, InOrder(t), NEW i \in 1..Len(t), NEW n, n = t[i].number, NEW b
  PROVE  BodyReplaced(WithLine(t, n, LineIf(TRUE, n, b)), t, i, n, b)
<1> DEFINE r == WithLine(t, n, LineIf(TRUE, n, b))
<1>0. r = WithLine(t, n, LineIf(TRUE, n, b))
  OBVIOUS
<1> HIDE DEF r
<1>1. n \in Nat /\ LinesBelow(t, n) = i - 1 /\ LinesBelow(t, n + 1) = i
  BY LineAt
<1>2. Len(t) \in Nat
  BY SeqIs DEF InOrder
<1>3. LineReplaced(r, t, n, b, 1, i - 1, i)
  <2>1. LineReplaced(WithLine(t, n, LineIf(TRUE, n, b)), t, n, b, Count(TRUE),
                     LinesBelow(t, n), LinesBelow(t, n + 1))
    BY <1>1, WithLineElements
  <2>. QED  BY <1>0, <1>1, <2>1 DEF Count
<1>4. InOrder(r)
  BY <1>0, <1>1, WithLineIs
<1>5. Len(r) = Len(t)
  <2>1. Len(r) = i - 1 + 1 + (Len(t) - i)
    BY <1>3 DEF LineReplaced
  <2> DEFINE N == Len(t)
  <2>2. N \in Nat /\ i \in Nat
    BY <1>2
  <2>3. Len(r) = i - 1 + 1 + (N - i)
    BY <2>1
  <2> HIDE DEF N
  <2>4. i - 1 + 1 + (N - i) = N
    BY <2>2
  <2>5. Len(r) = N
    BY <2>3, <2>4, Zenon
  <2>. QED  BY <2>5 DEF N
<1>6. r[i] = [number |-> n, body |-> b]
  <2>1. i - 1 + 1 = i
    BY <1>2
  <2>. QED  BY <1>3, <2>1 DEF LineReplaced
<1>7. ASSUME NEW k \in 1..Len(t), k # i PROVE r[k] = t[k]
  <2>1. CASE k < i
    <3>1. k \in 1..(i - 1)
      BY <1>2, <2>1
    <3>. QED  BY <1>3, <3>1 DEF LineReplaced
  <2>2. CASE k > i
    <3> DEFINE p == k - i
    <3>1. p \in 1..(Len(t) - i) /\ i + p = k /\ i - 1 + 1 + p = k
      BY <1>2, <2>2
    <3> HIDE DEF p
    <3>2. r[i - 1 + 1 + p] = t[i + p]
      BY <1>3, <3>1 DEF LineReplaced
    <3>. QED  BY <3>1, <3>2
  <2>3. k < i \/ k > i
    BY <1>2, <1>7
  <2>. QED  BY <2>1, <2>2, <2>3
<1>8. BodyReplaced(r, t, i, n, b)
  BY <1>1, <1>4, <1>5, <1>6, <1>7 DEF BodyReplaced
<1>. QED  BY <1>8 DEF r


-----------------------------------------------------------------------------
(* The editor.                                                             *)

(* The fields of an editor, and those that are more than what is on the    *)
(* screen.                                                                 *)
Fields == {"mode", "doc", "limit", "room", "columns", "visible", "ok", "fault", "state",
           "saved", "next", "group", "groupLine", "groupCursor", "ready", "depth", "undo",
           "redo", "term", "has", "index", "number", "body", "cursor", "dirty", "preferred",
           "top", "row", "shown"}

\* The fields the invariant is about; the others say where the cursor is,
\* what the screen shows and what the program is limited to.
Core == {"mode", "doc", "ok", "state", "saved", "next", "group", "groupLine", "ready",
         "depth", "undo", "redo", "has", "index", "number", "body", "dirty"}

(* v shows something else than w, or shows it elsewhere, and is w          *)
(* otherwise.                                                              *)
SameCore(w, v) == DOMAIN v = Fields /\ \A f \in Core : v[f] = w[f]

(* The screen is no part of the text or the history.                       *)
LEMMA SameCoreFields ==
  ASSUME NEW w, NEW v, SameCore(w, v)
  PROVE  /\ DOMAIN v = Fields
         /\ v.mode = w.mode /\ v.doc = w.doc /\ v.ok = w.ok
         /\ v.state = w.state /\ v.saved = w.saved /\ v.next = w.next
         /\ v.group = w.group /\ v.groupLine = w.groupLine
         /\ v.ready = w.ready /\ v.depth = w.depth /\ v.undo = w.undo /\ v.redo = w.redo
         /\ v.has = w.has /\ v.index = w.index /\ v.number = w.number
         /\ v.body = w.body /\ v.dirty = w.dirty
BY DEF SameCore, Core

LEMMA SameCoreTwice ==
  ASSUME NEW w, NEW v, NEW u, SameCore(w, v), SameCore(v, u)
  PROVE  SameCore(w, u)
BY DEF SameCore

LEMMA SameCoreSelf == ASSUME NEW w, DOMAIN w = Fields PROVE SameCore(w, w)
BY DEF SameCore

LEMMA Loose ==
  ASSUME NEW w, DOMAIN w = Fields, NEW x
  PROVE  /\ SameCore(w, [w EXCEPT !.top = x]) /\ SameCore(w, [w EXCEPT !.row = x])
         /\ SameCore(w, [w EXCEPT !.shown = x]) /\ SameCore(w, [w EXCEPT !.cursor = x])
         /\ SameCore(w, [w EXCEPT !.preferred = x]) /\ SameCore(w, [w EXCEPT !.term = x])
         /\ SameCore(w, [w EXCEPT !.groupCursor = x]) /\ SameCore(w, [w EXCEPT !.fault = x])
BY DEF SameCore, Core, Fields

LEMMA Loose3 ==
  ASSUME NEW w, DOMAIN w = Fields, NEW x, NEW y, NEW z
  PROVE  SameCore(w, [w EXCEPT !.top = x, !.row = y, !.shown = z])
BY DEF SameCore, Core, Fields

LEMMA Loose2 ==
  ASSUME NEW w, DOMAIN w = Fields, NEW x, NEW y
  PROVE  SameCore(w, [w EXCEPT !.row = x, !.shown = y])
BY DEF SameCore, Core, Fields

(* Scrolling and placing the cursor only change what is shown.             *)
LEMMA NormalizeTopIsView ==
  ASSUME NEW w, DOMAIN w = Fields
  PROVE  SameCore(w, NormalizeTop(w))
BY Loose, Loose3 DEF NormalizeTop

LEMMA EnsureIsView ==
  ASSUME NEW w, DOMAIN w = Fields, w.has \in BOOLEAN
  PROVE  SameCore(w, EnsureCursorVisible(w))
<1> DEFINE n == NormalizeTop(w)
<1>1. SameCore(w, n)
  BY NormalizeTopIsView
<1>2. DOMAIN n = Fields /\ n.has \in BOOLEAN
  BY <1>1, SameCoreFields
<1> HIDE DEF n
<1>3. \A x, y, z : /\ SameCore(n, [n EXCEPT !.top = x, !.row = y, !.shown = z])
                   /\ SameCore(n, [n EXCEPT !.row = x, !.shown = y]) /\ SameCore(n, n)
  BY <1>2, Loose2, Loose3, SameCoreSelf
<1>4. SameCore(n, EnsureCursorVisible(w))
  BY <1>2, <1>3 DEF EnsureCursorVisible, n
<1>. QED  BY <1>1, <1>4, SameCoreTwice

LEMMA UpdateIsView ==
  ASSUME NEW w, DOMAIN w = Fields, w.has \in BOOLEAN, NEW previous
  PROVE  SameCore(w, UpdateNavigationView(w, previous))
<1>1. SameCore(w, EnsureCursorVisible(w)) /\ SameCore(w, w)
  BY EnsureIsView, SameCoreSelf
<1>2. \A x : SameCore(w, [w EXCEPT !.top = x]) /\ SameCore(w, [w EXCEPT !.row = x])
  BY Loose
<1>. QED  BY <1>1, <1>2 DEF UpdateNavigationView

LEMMA PlaceCursorIsView ==
  ASSUME NEW w, DOMAIN w = Fields, w.has \in BOOLEAN, NEW cursor
  PROVE  SameCore(w, PlaceCursor(w, cursor))
<1> DEFINE at == [w EXCEPT !.cursor = Min({cursor, Len(w.body)})]
           in == [at EXCEPT !.preferred = CursorColumn(at)]
<1>1. SameCore(w, at)
  BY Loose
<1>2. SameCore(at, in)
  <2> HIDE DEF at
  <2>. QED  BY <1>1, SameCoreFields, Loose
<1>3. SameCore(w, in)
  BY <1>1, <1>2, SameCoreTwice
<1>4. PlaceCursor(w, cursor) = EnsureCursorVisible(in)
  BY DEF PlaceCursor
<1> HIDE DEF in
<1>5. SameCore(in, EnsureCursorVisible(in))
  BY <1>3, SameCoreFields, EnsureIsView
<1>. QED  BY <1>3, <1>4, <1>5, SameCoreTwice

LEMMA PlaceInRowIsView ==
  ASSUME NEW w, NEW v, DOMAIN v = Fields, v.has \in BOOLEAN, NEW sub, NEW incremental
  PROVE  SameCore(v, PlaceInRow(w, v, sub, incremental))
<1> DEFINE wanted == [v EXCEPT !.preferred = w.preferred]
           at == [wanted EXCEPT !.cursor = CursorForRow(wanted, sub, w.preferred)]
<1>1. SameCore(v, wanted)
  BY Loose
<1>2. SameCore(wanted, at)
  <2> HIDE DEF wanted
  <2>. QED  BY <1>1, SameCoreFields, Loose
<1>3. SameCore(v, at)
  BY <1>1, <1>2, SameCoreTwice
<1>4. \/ PlaceInRow(w, v, sub, incremental) = UpdateNavigationView(at, CurrentPosition(w))
      \/ PlaceInRow(w, v, sub, incremental) = EnsureCursorVisible(at)
  BY DEF PlaceInRow
<1> HIDE DEF at
<1>5. /\ SameCore(at, UpdateNavigationView(at, CurrentPosition(w)))
      /\ SameCore(at, EnsureCursorVisible(at))
  BY <1>3, SameCoreFields, EnsureIsView, UpdateIsView
<1>. QED  BY <1>3, <1>4, <1>5, SameCoreTwice

-----------------------------------------------------------------------------
(* What holds of an editor between two keys.                               *)

(* A text the editor may hold.                                             *)
Proper(mode, t) == InOrder(t) /\ (mode = "Structured" => Positioned(t))

\* The line in hand is one of the document, under its number; it differs
\* from the document's only while it is dirty.
(* The line in hand is a line of the document, with its body until it is   *)
(* edited.                                                                 *)
InHand(w) ==
  /\ w.has \in BOOLEAN /\ w.dirty \in BOOLEAN
  /\ w.has => /\ w.index \in 1..Len(w.doc) /\ w.number = w.doc[w.index].number
              /\ ~w.dirty => w.body = w.doc[w.index].body
  /\ ~w.has => w.doc = <<>> /\ ~w.dirty /\ w.index = 1 /\ w.number \in Nat

(* Names of texts are given out in order.                                  *)
Named(w) == w.next \in Nat /\ w.state \in 0..(w.next - 1) /\ w.saved \in 0..(w.next - 1)

(* There are snapshots only when there is room to keep them.               *)
Stacks(w) ==
  /\ IsSeq(w.undo) /\ IsSeq(w.redo)
  /\ w.depth \in Nat /\ w.ready \in BOOLEAN
  /\ w.ready => w.depth > 0
  /\ ~w.ready => w.undo = <<>> /\ w.redo = <<>>

Based(w) == DOMAIN w = Fields /\ w.mode \in Modes /\ Named(w) /\ Stacks(w)

(* What holds of an editor between two keys, the history's meaning aside.  *)
Sane(w) == Based(w) /\ Proper(w.mode, w.doc) /\ InHand(w)

(* The line in hand may be another one; the rest is the same.              *)
Hand == {"has", "index", "number", "body", "dirty"}

\* Only the line in hand differs, and it is the document's own.
SameRest(w, v) == DOMAIN v = Fields /\ \A f \in Core \ Hand : v[f] = w[f]
(* v has another line in hand than w, read from the document.              *)
Focused(w, v) == SameRest(w, v) /\ InHand(v) /\ ~v.dirty

LEMMA SameRestFields ==
  ASSUME NEW w, NEW v, SameRest(w, v)
  PROVE  /\ DOMAIN v = Fields
         /\ v.mode = w.mode /\ v.doc = w.doc /\ v.ok = w.ok
         /\ v.state = w.state /\ v.saved = w.saved /\ v.next = w.next
         /\ v.group = w.group /\ v.groupLine = w.groupLine
         /\ v.ready = w.ready /\ v.depth = w.depth /\ v.undo = w.undo /\ v.redo = w.redo
BY DEF SameRest, Core, Hand

LEMMA SameRestFrom ==
  ASSUME NEW w, NEW v, NEW u
  PROVE  /\ SameCore(w, v) => SameRest(w, v)
         /\ SameRest(w, v) /\ SameRest(v, u) => SameRest(w, u)
BY DEF SameCore, SameRest

LEMMA SaneCore ==
  ASSUME NEW w, NEW v, SameCore(w, v), Sane(w)
  PROVE  Sane(v) /\ Text(v) = Text(w)
<1>1. Sane(v)
  BY SMTT(30), SameCoreFields DEF Sane, Based, InHand, Named, Stacks
<1>2. Text(v) = Text(w)
  BY SameCoreFields DEF Text, Body
<1>. QED  BY <1>1, <1>2

LEMMA FocusedCore ==
  ASSUME NEW w, NEW v, NEW u, Focused(w, v), SameCore(v, u)
  PROVE  Focused(w, u)
<1>1. SameRest(w, u)
  BY SameRestFrom DEF Focused
<1>2. InHand(u) /\ ~u.dirty
  BY SameCoreFields DEF Focused, InHand
<1>. QED  BY <1>1, <1>2 DEF Focused

(* Another line in hand.                                                   *)
LEMMA LoadIndexIs ==
  ASSUME NEW w, DOMAIN w = Fields, InOrder(w.doc), NEW i, NEW keep \in BOOLEAN,
         NEW synchronize \in BOOLEAN
  PROVE  /\ i \in 1..Len(w.doc) => Focused(w, LoadIndex(w, i, keep, synchronize))
                                    /\ LoadIndex(w, i, keep, synchronize).index = i
         /\ i \notin 1..Len(w.doc) => LoadIndex(w, i, keep, synchronize) = Refuse(w)
<1>1. DOMAIN w.doc = 1..Len(w.doc)
  BY SeqIs DEF InOrder
<1>2. CASE i \notin 1..Len(w.doc)
  BY <1>1, <1>2 DEF LoadIndex
<1>3. CASE i \in 1..Len(w.doc)
  <2> DEFINE line == w.doc[i]
             p == IF keep THEN w.preferred ELSE 0
             at == [w EXCEPT !.has = TRUE, !.index = i, !.number = line.number,
                             !.body = line.body, !.dirty = FALSE, !.cursor = 0,
                             !.preferred = p]
             c == IF keep THEN CursorForRow(at, 0, at.preferred) ELSE 0
             placed == [at EXCEPT !.cursor = c]
  <2>1. \/ LoadIndex(w, i, keep, synchronize) = EnsureCursorVisible(placed)
        \/ LoadIndex(w, i, keep, synchronize) = placed
    BY <1>1, <1>3 DEF LoadIndex
  <2>2. Focused(w, at) /\ at.has /\ at.index = i
    <3> HIDE DEF p
    <3>1. SameRest(w, at)
      BY DEF SameRest, Core, Hand, Fields
    <3>2. /\ at.has = TRUE /\ at.index = i /\ at.number = line.number
          /\ at.body = line.body /\ at.dirty = FALSE /\ at.doc = w.doc
      BY DEF Fields
    <3> HIDE DEF at
    <3>. QED  BY <1>3, <3>1, <3>2 DEF Focused, InHand
  <2> HIDE DEF at
  <2>3. SameCore(at, placed)
    <3> HIDE DEF c
    <3>. QED  BY <2>2, Loose DEF Focused, SameRest
  <2> HIDE DEF placed
  <2>4. SameCore(placed, EnsureCursorVisible(placed))
    BY <2>2, <2>3, SameCoreFields, EnsureIsView
  <2>5. SameCore(at, EnsureCursorVisible(placed))
    BY <2>3, <2>4, SameCoreTwice
  <2>6. SameCore(at, LoadIndex(w, i, keep, synchronize))
    BY <2>1, <2>3, <2>5
  <2>. QED  BY <1>3, <2>2, <2>6, FocusedCore, SameCoreFields
<1>. QED  BY <1>2, <1>3

LEMMA EmptyIs ==
  ASSUME NEW w, DOMAIN w = Fields, w.doc = <<>>
  PROVE  Focused(w, Empty(w))
<1> DEFINE v == Empty(w)
<1>1. DOMAIN NoLine = {"has", "index", "number", "body", "cursor", "dirty", "preferred",
                       "top", "row", "shown"}
  BY DEF NoLine
<1>2. DOMAIN v = Fields
  BY DEF Empty
<1>3. \A f \in Core \ Hand : v[f] = w[f]
  BY <1>1 DEF Empty, Core, Hand, Fields
<1>4. v.has = FALSE /\ v.index = 1 /\ v.dirty = FALSE /\ v.number = 0
  BY <1>1 DEF Empty, Fields, NoLine
<1>5. v.doc = <<>>
  BY <1>3 DEF Core, Hand
<1> HIDE DEF v
<1>6. v.number \in Nat
  <2>1. v.number = 0
    BY <1>4
  <2>. QED  BY ONLY <2>1
<1>7. v.has \in BOOLEAN /\ v.dirty \in BOOLEAN
  BY <1>4
<1>. QED  BY <1>2, <1>3, <1>4, <1>5, <1>6, <1>7 DEF Focused, SameRest, InHand, v

LEMMA FocusIs ==
  ASSUME NEW w, DOMAIN w = Fields, InOrder(w.doc), NEW index \in Nat \ {0}, NEW cursor
  PROVE  Focused(w, Focus(w, index, cursor))
<1>1. CASE w.doc = <<>>
  BY <1>1, EmptyIs DEF Focus
<1>2. CASE w.doc # <<>>
  <2> DEFINE i == Min({index, Len(w.doc)})
             v == LoadIndex(w, i, FALSE, TRUE)
  <2>1. Len(w.doc) \in Nat \ {0}
    BY <1>2, SeqIs, NoElements DEF InOrder
  <2>2. i \in 1..Len(w.doc)
    BY <2>1 DEF Min
  <2> HIDE DEF i
  <2>3. Focused(w, v)
    BY <2>2, LoadIndexIs
  <2>4. DOMAIN v = Fields /\ v.has \in BOOLEAN
    BY <2>3 DEF Focused, SameRest, InHand
  <2>5. SameCore(v, PlaceCursor(v, cursor))
    <3> HIDE DEF v
    <3>. QED  BY <2>4, PlaceCursorIsView
  <2>6. Focus(w, index, cursor) = PlaceCursor(v, cursor)
    BY <1>2 DEF Focus, i
  <2> HIDE DEF v
  <2>. QED  BY <2>3, <2>5, <2>6, FocusedCore
<1>. QED  BY <1>1, <1>2


-----------------------------------------------------------------------------
(* The text.                                                               *)

(* The text is the document with the line in hand.                         *)
LEMMA TextIs ==
  ASSUME NEW w, InOrder(w.doc), InHand(w)
  PROVE  /\ InOrder(Text(w)) /\ Len(Text(w)) = Len(w.doc)
         /\ \A i \in 1..Len(w.doc) :
              /\ Text(w)[i] = [number |-> w.doc[i].number, body |-> Body(w, i)]
              /\ Text(w)[i].number = w.doc[i].number /\ Text(w)[i].body = Body(w, i)
<1> DEFINE N == Len(w.doc)
           t == Text(w)
<1>1. N \in Nat /\ DOMAIN w.doc = 1..N
  BY SeqIs DEF InOrder
<1>2. \A i \in 1..N : w.doc[i] = [number |-> w.doc[i].number, body |-> w.doc[i].body]
                      /\ w.doc[i].number \in Nat
  BY DEF InOrder, IsLine
<1>3. t = [i \in 1..N |-> [w.doc[i] EXCEPT !.body = Body(w, i)]]
  BY <1>1 DEF Text
<1>4. ASSUME NEW i \in 1..N PROVE t[i] = [number |-> w.doc[i].number, body |-> Body(w, i)]
  <2>1. t[i] = [w.doc[i] EXCEPT !.body = Body(w, i)]
    BY <1>3
  <2> DEFINE l == w.doc[i]
             n == l.number
             b == l.body
             c == Body(w, i)
  <2>2. l = [number |-> n, body |-> b]
    BY <1>2
  <2> HIDE DEF n, b, c
  <2>3. [l EXCEPT !.body = c] = [number |-> n, body |-> c]
    <3> HIDE DEF l
    <3>. QED  BY <2>2
  <2>. QED  BY <2>1, <2>3 DEF n, c
<1>5. IsSeq(t) /\ Len(t) = N
  <2>1. t = [i \in 1..N |-> t[i]]
    BY <1>3
  <2> HIDE DEF t
  <2>. QED  BY <1>1, <2>1, IsSeqOf
<1> HIDE DEF t, N
<1>6. ASSUME NEW i \in 1..N PROVE t[i].number = w.doc[i].number /\ t[i].body = Body(w, i) /\ IsLine(t[i])
  <2> DEFINE n == w.doc[i].number
             b == Body(w, i)
             l == t[i]
  <2>1. n \in Nat /\ l = [number |-> n, body |-> b]
    BY <1>2, <1>4
  <2> HIDE DEF n, b, l
  <2>2. l.number = n /\ l.body = b /\ IsLine(l)
    BY <2>1 DEF IsLine
  <2>. QED  BY <2>2 DEF n, b, l
<1>7. \A i, j \in 1..N : i < j => w.doc[i].number < w.doc[j].number
  BY DEF InOrder, N
<1>8. InOrder(t)
  BY <1>5, <1>6, <1>7 DEF InOrder
<1>. QED  BY <1>4, <1>5, <1>6, <1>8 DEF t, N

\* The text is the document while the line in hand is the document's.
LEMMA CleanText ==
  ASSUME NEW w, InOrder(w.doc), InHand(w), ~w.dirty
  PROVE  Text(w) = w.doc
<1>1. \A i \in 1..Len(w.doc) : Body(w, i) = w.doc[i].body
  BY DEF Body, InHand
<1>2. \A i \in 1..Len(w.doc) : Text(w)[i] = w.doc[i]
  BY ZenonT(40), <1>1, TextIs DEF InOrder, IsLine
<1>. QED  BY <1>2, TextIs, SameSequence DEF InOrder

\* The text is the document with the line in hand written back.
LEMMA WrittenText ==
  ASSUME NEW w, InOrder(w.doc), InHand(w), w.has
  PROVE  /\ Text(w) = WithLine(w.doc, w.number, LineIf(TRUE, w.number, w.body))
         /\ Text(w)[w.index] = [number |-> w.number, body |-> w.body]
         /\ w.number \in Nat /\ w.index \in 1..Len(w.doc)
<1> DEFINE r == WithLine(w.doc, w.number, LineIf(TRUE, w.number, w.body))
<1>1. w.index \in 1..Len(w.doc) /\ w.number = w.doc[w.index].number
  BY DEF InHand
<1>2. /\ InOrder(r) /\ Len(r) = Len(w.doc) /\ w.number \in Nat
      /\ r[w.index] = [number |-> w.number, body |-> w.body]
      /\ \A k \in 1..Len(w.doc) : k # w.index => r[k] = w.doc[k]
  <2>1. BodyReplaced(r, w.doc, w.index, w.number, w.body)
    BY <1>1, NewBody
  <2> HIDE DEF r
  <2>. QED  BY <2>1 DEF BodyReplaced
<1> HIDE DEF r
<1>3. \A k \in 1..Len(w.doc) : Text(w)[k] = r[k]
  <2>1. ASSUME NEW k \in 1..Len(w.doc) PROVE Text(w)[k] = r[k]
    <3>1. CASE k = w.index
      <4>1. Body(w, k) = w.body
        BY <3>1 DEF Body
      <4>. QED  BY <1>1, <1>2, <3>1, <4>1, TextIs
    <3>2. CASE k # w.index
      <4>1. Body(w, k) = w.doc[k].body
        BY <3>2 DEF Body
      <4>2. w.doc[k] = [number |-> w.doc[k].number, body |-> w.doc[k].body]
        BY DEF InOrder, IsLine
      <4>. QED  BY <1>2, <3>2, <4>1, <4>2, TextIs
    <3>. QED  BY <3>1, <3>2
  <2>. QED  BY <2>1
<1>4. Text(w) = r
  BY <1>2, <1>3, TextIs, SameSequence DEF InOrder
<1>. QED  BY <1>1, <1>2, <1>4 DEF r

(* The text of an editor is a program.                                     *)
LEMMA TextProper ==
  ASSUME NEW w, Sane(w)
  PROVE  Proper(w.mode, Text(w))
<1>0. InOrder(w.doc) /\ InHand(w)
  BY DEF Sane, Proper
<1>1. InOrder(Text(w)) /\ Len(Text(w)) = Len(w.doc)
      /\ \A i \in 1..Len(w.doc) : Text(w)[i].number = w.doc[i].number
  BY <1>0, TextIs
<1>. QED  BY <1>1 DEF Sane, Proper, Positioned

-----------------------------------------------------------------------------
(* What an operation may do to the text and the history.                   *)

\* Nothing: at most a run of keys ends.
(* An operation that leaves the text, its name and the history alone; the  *)
(* run of keys may end.                                                    *)
Quiet(w, v) ==
  /\ Sane(v) /\ v.mode = w.mode /\ v.depth = w.depth /\ Text(v) = Text(w)
  /\ v.state = w.state /\ v.next = w.next /\ v.saved = w.saved
  /\ v.undo = w.undo /\ v.redo = w.redo /\ v.ready = w.ready
  /\ v.group = "None" \/ (v.group = w.group /\ v.groupLine = w.groupLine)

\* The text stays, the history may be given up.
(* The same, or the history is lost.                                       *)
Kept(w, v) ==
  /\ Sane(v) /\ v.mode = w.mode /\ v.depth = w.depth /\ Text(v) = Text(w)
  /\ v.state = w.state /\ v.next = w.next /\ v.saved = w.saved
  /\ \/ v.undo = w.undo /\ v.redo = w.redo
     \/ v.undo = <<>> /\ v.redo = <<>>
  /\ v.group = "None" \/ (v.group = w.group /\ v.groupLine = w.groupLine)

(* These compose.                                                          *)
LEMMA QuietKept ==
  ASSUME NEW w, NEW v, Quiet(w, v)
  PROVE  Kept(w, v)
BY DEF Quiet, Kept

LEMMA QuietThen ==
  ASSUME NEW w, NEW v, NEW u, Quiet(w, v)
  PROVE  (Quiet(v, u) => Quiet(w, u)) /\ (Kept(v, u) => Kept(w, u))
BY DEF Quiet, Kept

LEMMA QuietSelf == ASSUME NEW w, Sane(w) PROVE Quiet(w, w)
BY DEF Quiet

LEMMA QuietCore ==
  ASSUME NEW w, NEW v, Sane(w), SameCore(w, v)
  PROVE  Quiet(w, v)
BY SaneCore, SameCoreFields DEF Quiet

(* A refused operation leaves the text and the history alone.              *)
LEMMA RefuseIs ==
  ASSUME NEW w, Sane(w)
  PROVE  Quiet(w, Refuse(w)) /\ ~Refuse(w).ok
<1> DEFINE v == Refuse(w)
<1>1. DOMAIN v = Fields /\ v.ok = FALSE /\ \A f \in Core : f # "ok" => v[f] = w[f]
  BY DEF Refuse, Core, Fields, Sane, Based
<1>2. /\ v.mode = w.mode /\ v.doc = w.doc
      /\ v.state = w.state /\ v.saved = w.saved /\ v.next = w.next
      /\ v.group = w.group /\ v.groupLine = w.groupLine
      /\ v.ready = w.ready /\ v.depth = w.depth /\ v.undo = w.undo /\ v.redo = w.redo
      /\ v.has = w.has /\ v.index = w.index /\ v.number = w.number
      /\ v.body = w.body /\ v.dirty = w.dirty
  BY <1>1 DEF Core
<1> HIDE DEF v
<1>3. Sane(v)
  BY <1>1, <1>2 DEF Sane, Based, InHand, Named, Stacks
<1>4. Text(v) = Text(w)
  BY <1>2 DEF Text, Body
<1>5. Quiet(w, v) /\ ~v.ok
  BY <1>1, <1>2, <1>3, <1>4 DEF Quiet
<1>. QED  BY <1>5 DEF v

(* The end of a run, too.                                                  *)
LEMMA BoundaryIs ==
  ASSUME NEW w, Sane(w)
  PROVE  /\ Quiet(w, HistoryBoundary(w))
         /\ HistoryBoundary(w).group = "None"
         /\ \A f \in Fields \ {"group", "groupLine", "groupCursor"} :
              HistoryBoundary(w)[f] = w[f]
<1> DEFINE v == HistoryBoundary(w)
<1>1. DOMAIN v = Fields /\ v.group = "None"
      /\ \A f \in Fields \ {"group", "groupLine", "groupCursor"} : v[f] = w[f]
  BY DEF HistoryBoundary, Grouped, Fields, Sane, Based
<1>2. /\ v.mode = w.mode /\ v.doc = w.doc
      /\ v.state = w.state /\ v.saved = w.saved /\ v.next = w.next
      /\ v.ready = w.ready /\ v.depth = w.depth /\ v.undo = w.undo /\ v.redo = w.redo
      /\ v.has = w.has /\ v.index = w.index /\ v.number = w.number
      /\ v.body = w.body /\ v.dirty = w.dirty
  BY <1>1 DEF Fields
<1> HIDE DEF v
<1>3. Sane(v)
  BY <1>1, <1>2 DEF Sane, Based, InHand, Named, Stacks
<1>4. Text(v) = Text(w)
  BY <1>2 DEF Text, Body
<1>5. Quiet(w, v)
  BY <1>1, <1>2, <1>3, <1>4 DEF Quiet
<1>. QED  BY <1>1, <1>5 DEF v

\* The line in hand has been written back.
(* v is w with the line in hand written into the document.                 *)
Committed(w, v) ==
  /\ Quiet(w, v) /\ ~v.dirty /\ v.doc = Text(w) /\ Text(v) = v.doc
  /\ \A f \in Fields \ {"doc", "dirty"} : v[f] = w[f]

(* commit_line writes the line in hand, or is refused by the store.        *)
LEMMA CommitIs ==
  ASSUME NEW w, Sane(w)
  PROVE  Committed(w, Commit(w)) \/ Commit(w) = Refuse(w)
<1>1. CASE ~w.dirty
  <2>1. Commit(w) = w
    BY <1>1 DEF Commit
  <2>2. Text(w) = w.doc
    BY <1>1, CleanText DEF Sane, Proper
  <2>. QED  BY <1>1, <2>1, <2>2, QuietSelf DEF Committed
<1>2. CASE w.dirty /\ w.fault = "commit"
  BY <1>2 DEF Commit
<1>3. CASE w.dirty /\ w.fault # "commit"
  <2>1. w.has /\ InOrder(w.doc) /\ InHand(w) /\ DOMAIN w = Fields
    BY <1>3 DEF Sane, InHand, Proper, Based
  <2> DEFINE d == WithLine(w.doc, w.number, Line(w.number, w.body))
             v == [w EXCEPT !.doc = d, !.dirty = FALSE]
  <2>2. Commit(w) = v
    BY <1>3 DEF Commit
  <2>3. d = Text(w)
    BY <2>1, WrittenText DEF LineIf
  <2> HIDE DEF d
  <2>4. /\ DOMAIN v = Fields /\ v.doc = d /\ v.dirty = FALSE
        /\ \A f \in Fields \ {"doc", "dirty"} : v[f] = w[f]
    BY <2>1 DEF Fields
  <2>5. /\ v.mode = w.mode
        /\ v.state = w.state /\ v.saved = w.saved /\ v.next = w.next
        /\ v.group = w.group /\ v.groupLine = w.groupLine
        /\ v.ready = w.ready /\ v.depth = w.depth /\ v.undo = w.undo /\ v.redo = w.redo
        /\ v.has = w.has /\ v.index = w.index /\ v.number = w.number
        /\ v.body = w.body
    BY <2>4 DEF Fields
  <2> HIDE DEF v
  <2>6. Proper(v.mode, v.doc)
    BY <2>3, <2>4, <2>5, TextProper
  <2>7. InHand(v)
    <3>1. /\ w.index \in 1..Len(w.doc) /\ Len(d) = Len(w.doc)
          /\ d[w.index] = [number |-> w.number, body |-> w.body]
      BY <2>1, <2>3, WrittenText, TextIs
    <3>2. d[w.index].number = w.number /\ d[w.index].body = w.body
      BY <3>1
    <3>. QED  BY <2>1, <2>4, <2>5, <3>1, <3>2 DEF InHand
  <2>8. Sane(v)
    BY <2>4, <2>5, <2>6, <2>7 DEF Sane, Based, Named, Stacks
  <2>9. Text(v) = v.doc
    BY <2>4, <2>6, <2>7, CleanText DEF Proper
  <2>10. Quiet(w, v)
    BY <2>3, <2>4, <2>5, <2>8, <2>9 DEF Quiet
  <2>. QED  BY <2>2, <2>3, <2>4, <2>9, <2>10 DEF Committed
<1>. QED  BY <1>1, <1>2, <1>3 DEF Sane, InHand

LEMMA FocusedQuiet ==
  ASSUME NEW w, NEW v, Sane(w), ~w.dirty, Focused(w, v)
  PROVE  Quiet(w, v)
<1>1. /\ DOMAIN v = Fields
      /\ v.mode = w.mode /\ v.doc = w.doc /\ v.ok = w.ok
      /\ v.state = w.state /\ v.saved = w.saved /\ v.next = w.next
      /\ v.group = w.group /\ v.groupLine = w.groupLine
      /\ v.ready = w.ready /\ v.depth = w.depth /\ v.undo = w.undo /\ v.redo = w.redo
      /\ InHand(v) /\ ~v.dirty
  BY SameRestFields DEF Focused
<1>2. Sane(v)
  BY <1>1 DEF Sane, Based, Named, Stacks
<1>3. Text(v) = v.doc /\ Text(w) = w.doc
  BY <1>1, CleanText DEF Sane, Proper
<1>. QED  BY <1>1, <1>2, <1>3 DEF Quiet

\* A move to a line of the document, or a refusal.
LEMMA LoadQuiet ==
  ASSUME NEW w, Sane(w), ~w.dirty, NEW i, NEW keep \in BOOLEAN, NEW synchronize \in BOOLEAN
  PROVE  Quiet(w, LoadIndex(w, i, keep, synchronize))
<1>1. DOMAIN w = Fields /\ InOrder(w.doc)
  BY DEF Sane, Based, Proper
<1>. QED  BY <1>1, LoadIndexIs, FocusedQuiet, RefuseIs


-----------------------------------------------------------------------------
(* A new state of the text and the snapshot that leads back from it.       *)

\* What the snapshot s makes of the text t.
(* The text a snapshot leads back to.                                      *)
Back(t, s) == Restored([doc |-> t], s)

(* A snapshot that was taken of a text t was made from.                    *)
Usable(s, t) ==
  \/ s.kind = "line" /\ s.number \in Nat /\ s.index \in Nat \ {0} /\ s.existed \in BOOLEAN
  \/ /\ s.kind = "pair" /\ s.number \in Nat /\ s.other \in Nat /\ s.number # s.other
     /\ s.existed \in BOOLEAN /\ s.otherExisted \in BOOLEAN /\ s.focus \in Nat
  \/ /\ s.kind = "rows" /\ IsSeq(s.rows) /\ s.focus \in Nat \ {0} /\ Positioned(t)
     /\ s.first \in Nat \ {0} /\ s.replace \in Nat /\ s.first + s.replace <= Len(t) + 1

(* What each kind of snapshot leads back to.                               *)
LEMMA BackIs ==
  ASSUME NEW t, NEW s
  PROVE  /\ s.kind = "line" => Back(t, s) = WithLine(t, s.number, LineIf(s.existed, s.number, s.body))
         /\ s.kind = "pair" => Back(t, s) = PairOf(t, s.number, s.existed, s.body,
                                                   s.other, s.otherExisted, s.otherBody)
         /\ s.kind = "rows" => Back(t, s) = WithRows(t, s.first, s.replace, s.rows)
BY DEF Back, Restored, PairOf

LEMMA RestoredIs ==
  ASSUME NEW w, NEW s
  PROVE  Restored(w, s) = Back(w.doc, s)
BY DEF Back, Restored

\* The edit has a name of its own, and the snapshot s is the way back.
(* v has a new text under a new name, and s, pushed on the undo stack,     *)
(* leads back to w's.                                                      *)
NewStateBy(w, v, s) ==
  /\ Sane(v) /\ v.mode = w.mode /\ v.depth = w.depth
  /\ v.state = w.next /\ v.next = w.next + 1 /\ v.saved = w.saved
  /\ s.state = w.state /\ Usable(s, Text(v)) /\ Back(Text(v), s) = Text(w)
  /\ v.redo = <<>>
  /\ v.undo = <<>> \/ (w.depth > 0 /\ v.undo = Push(w, w.undo, s))
  /\ v.group # "None" => s.kind = "line" /\ s.existed = TRUE /\ s.number = v.groupLine

NewState(w, v) == \E s : NewStateBy(w, v, s)

LEMMA QuietNewState ==
  ASSUME NEW w, NEW v, NEW u, Quiet(w, v), NewState(v, u)
  PROVE  NewState(w, u)
<1>1. PICK s : NewStateBy(v, u, s)
  BY DEF NewState
<1>2. Push(v, v.undo, s) = Push(w, w.undo, s)
  BY DEF Quiet, Push
<1>3. NewStateBy(w, u, s)
  BY <1>1, <1>2 DEF NewStateBy, Quiet
<1>. QED  BY <1>3 DEF NewState

(* A full stack loses its oldest snapshot.                                 *)
LEMMA PushIs ==
  ASSUME NEW w, NEW stack, NEW s, IsSeq(stack), w.depth \in Nat, w.depth > 0
  PROVE  IsSeq(Push(w, stack, s))
<1>1. CASE Len(stack) < w.depth
  BY <1>1, Appended DEF Push
<1>2. CASE ~(Len(stack) < w.depth)
  <2>1. stack # <<>>
    BY <1>2, NoElements
  <2>2. IsSeq(Tail(stack))
    BY <2>1, Tailed
  <2>. QED  BY <1>2, <2>2, Appended DEF Push
<1>. QED  BY <1>1, <1>2

\* e is the editor after the edit and before its record; the history and the
\* names are still those of w.
(* e is w but for the line in hand and the document.                       *)
SameNames(w, e) ==
  /\ DOMAIN e = Fields /\ e.mode = w.mode /\ e.depth = w.depth /\ e.ready = w.ready
  /\ e.state = w.state /\ e.next = w.next /\ e.saved = w.saved
  /\ e.undo = w.undo /\ e.redo = w.redo

(* What record_edit writes.                                                *)
Recorded == {"state", "next", "group", "groupLine", "groupCursor", "ready", "undo", "redo"}

(* record_edit takes a new name and pushes the snapshot, if there is room. *)
LEMMA RecordEditIs ==
  ASSUME NEW e, DOMAIN e = Fields, Stacks(e), NEW before, NEW group
  PROVE  LET r == RecordEdit(e, before, group)
         IN  /\ DOMAIN r = Fields /\ \A f \in Fields \ Recorded : r[f] = e[f]
             /\ r.state = e.next /\ r.next = e.next + 1 /\ r.redo = <<>>
             /\ r.group = group /\ (group # "None" => r.groupLine = e.number)
             /\ \/ r.undo = <<>>
                \/ e.depth > 0 /\ r.undo = Push(e, e.undo, before)
             /\ Stacks(r)
<1> DEFINE g == Grouped(e, group)
           named == [g EXCEPT !.state = e.next, !.next = @ + 1]
<1>1. /\ DOMAIN g = Fields /\ g.group = group /\ (group # "None" => g.groupLine = e.number)
      /\ \A f \in Fields \ {"group", "groupLine", "groupCursor"} : g[f] = e[f]
  BY DEF Grouped, Fields
<1> HIDE DEF g
<1>2. /\ DOMAIN named = Fields /\ named.state = e.next /\ named.next = e.next + 1
      /\ \A f \in Fields \ {"state", "next"} : named[f] = g[f]
  BY <1>1 DEF Fields
<1>3. RecordEdit(e, before, group)
        = IF ~e.ready THEN named
          ELSE IF e.fault = "push" THEN HistoryFault(named)
          ELSE [named EXCEPT !.redo = <<>>, !.undo = Push(e, @, before)]
  BY DEF RecordEdit, g
<1> HIDE DEF named
<1>4. /\ \A f \in Fields \ Recorded : named[f] = e[f]
      /\ named.undo = e.undo /\ named.redo = e.redo /\ named.ready = e.ready
      /\ named.group = group /\ (group # "None" => named.groupLine = e.number)
      /\ named.depth = e.depth
  BY <1>1, <1>2 DEF Recorded, Fields
<1>5. CASE ~e.ready
  <2>1. named.undo = <<>> /\ named.redo = <<>>
    BY <1>4, <1>5 DEF Stacks
  <2>2. RecordEdit(e, before, group) = named
    BY <1>3, <1>5
  <2>3. Stacks(named)
    BY <1>4 DEF Stacks
  <2>. QED  BY <1>2, <1>4, <2>1, <2>2, <2>3
<1>6. CASE e.ready /\ e.fault = "push"
  <2> DEFINE r == HistoryFault(named)
  <2>1. RecordEdit(e, before, group) = r
    BY <1>3, <1>6
  <2>2. /\ DOMAIN r = Fields /\ r.ready = FALSE /\ r.undo = <<>> /\ r.redo = <<>>
        /\ \A f \in Fields \ {"ready", "undo", "redo"} : r[f] = named[f]
    BY <1>2 DEF HistoryFault, Fields
  <2> HIDE DEF r
  <2>3. /\ r.depth = e.depth /\ r.state = e.next /\ r.next = e.next + 1 /\ r.group = group
        /\ (group # "None" => r.groupLine = e.number)
        /\ \A f \in Fields \ Recorded : r[f] = e[f]
    BY <1>2, <1>4, <2>2 DEF Fields, Recorded
  <2>4. Stacks(r)
    BY <2>2, <2>3, NoElements DEF Stacks
  <2>. QED  BY <2>1, <2>2, <2>3, <2>4
<1>7. CASE e.ready /\ e.fault # "push"
  <2> DEFINE p == Push(e, e.undo, before)
             r == [named EXCEPT !.redo = <<>>, !.undo = p]
  <2>1. RecordEdit(e, before, group) = r
    BY <1>3, <1>4, <1>7
  <2>2. IsSeq(p) /\ e.depth > 0
    BY <1>7, PushIs DEF Stacks
  <2> HIDE DEF p
  <2>3. /\ DOMAIN r = Fields /\ r.undo = p /\ r.redo = <<>>
        /\ \A f \in Fields \ {"undo", "redo"} : r[f] = named[f]
    BY <1>2 DEF Fields
  <2> HIDE DEF r
  <2>4. /\ r.depth = e.depth /\ r.state = e.next /\ r.next = e.next + 1 /\ r.group = group
        /\ (group # "None" => r.groupLine = e.number) /\ r.ready = e.ready
        /\ \A f \in Fields \ Recorded : r[f] = e[f]
    BY <1>2, <1>4, <2>3 DEF Fields, Recorded
  <2>5. Stacks(r)
    BY <1>7, <2>2, <2>3, <2>4, NoElements DEF Stacks
  <2>. QED  BY <2>1, <2>2, <2>3, <2>4, <2>5 DEF p
<1>. QED  BY <1>5, <1>6, <1>7 DEF Stacks

\* The snapshot s leads from the text of v back to that of w.
(* s is named as w's text and leads from v's text back to it.              *)
LeadsBack(w, v, s) ==
  s.state = w.state /\ Usable(s, Text(v)) /\ Back(Text(v), s) = Text(w)

\* A run of keys begins with a snapshot of its line.
(* The first snapshot of a run of keys is that of the line they edit.      *)
BeginsRun(group, s, n) ==
  group # "None" => s.kind = "line" /\ s.existed = TRUE /\ s.number = n

\* An edit, its record, and the way to the line it leaves in hand.
(* An edit that is recorded gives a new text and the way back.             *)
LEMMA NewStateIs ==
  ASSUME NEW w, Sane(w), NEW e, SameNames(w, e), NEW before, NEW group,
         NEW v, SameRest(RecordEdit(e, before, group), v),
         Proper(w.mode, e.doc), InHand(v),
         LeadsBack(w, v, before), BeginsRun(group, before, e.number)
  PROVE  NewState(w, v) /\ v.ok = e.ok
<1> DEFINE r == RecordEdit(e, before, group)
<1>1. Stacks(e)
  BY DEF SameNames, Sane, Based, Stacks
<1>2. /\ DOMAIN r = Fields /\ \A f \in Fields \ Recorded : r[f] = e[f]
      /\ r.state = e.next /\ r.next = e.next + 1 /\ r.redo = <<>>
      /\ r.group = group /\ (group # "None" => r.groupLine = e.number)
      /\ \/ r.undo = <<>>
         \/ e.depth > 0 /\ r.undo = Push(e, e.undo, before)
      /\ Stacks(r)
  BY <1>1, RecordEditIs DEF SameNames
<1>3. SameRest(r, v)
  OBVIOUS
<1> HIDE DEF r
<1>4. r.mode = e.mode /\ r.depth = e.depth /\ r.saved = e.saved /\ r.doc = e.doc /\ r.ok = e.ok
  BY <1>2 DEF Fields, Recorded
<1>5. /\ DOMAIN v = Fields
      /\ v.mode = r.mode /\ v.doc = r.doc /\ v.ok = r.ok
      /\ v.state = r.state /\ v.saved = r.saved /\ v.next = r.next
      /\ v.group = r.group /\ v.groupLine = r.groupLine
      /\ v.ready = r.ready /\ v.depth = r.depth /\ v.undo = r.undo /\ v.redo = r.redo
  BY <1>3, SameRestFields
<1>6. Named(v)
  BY <1>2, <1>4, <1>5 DEF Named, Sane, Based, SameNames
<1>7. Stacks(v)
  BY <1>2, <1>5 DEF Stacks
<1>8. Sane(v)
  BY <1>4, <1>5, <1>6, <1>7 DEF Sane, Based, SameNames
<1>9. Push(e, e.undo, before) = Push(w, w.undo, before)
  BY DEF Push, SameNames
<1>10. NewStateBy(w, v, before)
  BY <1>2, <1>4, <1>5, <1>8, <1>9 DEF NewStateBy, SameNames, LeadsBack, BeginsRun
<1>. QED  BY <1>4, <1>5, <1>10 DEF NewState


-----------------------------------------------------------------------------
(* Rows of a structured program replaced by others.                        *)

\* r is t with the rows of bodies in place of `removed` rows behind row a.
(* r is t with the rows behind a replaced by others.                       *)
RowsReplaced(r, t, a, removed, bodies) ==
  LET m == Len(bodies)
  IN  /\ m \in Nat /\ IsSeq(r) /\ Len(r) = a + m + (Len(t) - a - removed)
      /\ \A i \in 1..a : r[i] = [number |-> i, body |-> t[i].body]
      /\ \A i \in 1..m : r[a + i] = [number |-> a + i, body |-> bodies[i]]
      /\ \A i \in 1..(Len(t) - a - removed) :
           r[a + m + i] = [number |-> a + m + i, body |-> t[a + removed + i].body]

(* WithRows, element by element.                                           *)
LEMMA WithRowsElements ==
  ASSUME NEW t, InOrder(t), NEW first \in Nat \ {0}, NEW removed \in Nat, first + removed <= Len(t) + 1,
         NEW bodies, IsSeq(bodies)
  PROVE  RowsReplaced(WithRows(t, first, removed, bodies), t, first - 1, removed, bodies)
<1> DEFINE N == Len(t)
           a == first - 1
           m == Len(bodies)
           kept == [i \in DOMAIN t |-> t[i].body]
           lo == SubSeq(kept, 1, first - 1)
           from == first + removed
           hi == SubSeq(kept, from, Len(kept))
           all == (lo \o bodies) \o hi
           r == [i \in DOMAIN all |-> [number |-> i, body |-> all[i]]]
           c == N - a - removed
<1>1. N \in Nat /\ m \in Nat /\ DOMAIN t = 1..N
  BY SeqIs DEF InOrder
<1>2. WithRows(t, first, removed, bodies) = r
  BY DEF WithRows
<1>3. IsSeq(kept) /\ Len(kept) = N /\ \A i \in 1..N : kept[i] = t[i].body
  <2>1. kept = [i \in 1..N |-> kept[i]] /\ \A i \in 1..N : kept[i] = t[i].body
    BY <1>1
  <2> HIDE DEF kept, N
  <2>. QED  BY <1>1, <2>1, IsSeqOf
<1> HIDE DEF kept
<1>4. a \in 0..N /\ a \in Nat /\ c \in Nat /\ from \in Nat /\ from = a + removed + 1
  BY <1>1
<1>5. IsSeq(lo) /\ Len(lo) = a /\ \A i \in 1..a : lo[i] = t[i].body
  <2>0. lo = SubSeq(kept, 1, a)
    OBVIOUS
  <2> HIDE DEF N, lo, a
  <2>1. /\ IsSeq(lo) /\ Len(lo) = (IF 1 <= a THEN a - 1 + 1 ELSE 0)
        /\ \A i \in 1..Len(lo) : lo[i] = kept[1 + i - 1]
    BY <1>1, <1>3, <1>4, <2>0, SubSequence
  <2>2. Len(lo) = a
    BY <1>4, <2>1
  <2>3. \A i \in 1..a : lo[i] = kept[i] /\ i \in 1..N
    BY <1>1, <1>4, <2>1, <2>2
  <2>. QED  BY <1>3, <2>1, <2>2, <2>3
<1>6. IsSeq(hi) /\ Len(hi) = c /\ \A i \in 1..c : hi[i] = t[a + removed + i].body
  <2>0. 1 <= from /\ Len(kept) \in Nat
    BY <1>1, <1>3
  <2> HIDE DEF from
  <2>1. /\ IsSeq(hi) /\ Len(hi) = (IF from <= Len(kept) THEN Len(kept) - from + 1 ELSE 0)
        /\ \A i \in 1..Len(hi) : hi[i] = kept[from + i - 1]
    BY <1>3, <1>4, <2>0, SubSequence
  <2> HIDE DEF hi
  <2>2. Len(hi) = c
    <3>1. (from <= N /\ N - from + 1 = c) \/ (~(from <= N) /\ c = 0)
      BY <1>1, <1>4
    <3> HIDE DEF c, N
    <3>. QED  BY <1>3, <2>1, <3>1
  <2>3. ASSUME NEW i \in 1..c PROVE hi[i] = t[a + removed + i].body
    <3> DEFINE p == a + removed + i
    <3>1. p \in 1..N /\ from + i - 1 = p
      BY <1>1, <1>4
    <3>2. hi[i] = kept[from + i - 1]
      <4> HIDE DEF c
      <4>. QED  BY <2>1, <2>2
    <3> HIDE DEF p
    <3>3. hi[i] = t[p].body
      BY <1>3, <3>1, <3>2
    <3>. QED  BY <3>3 DEF p
  <2>. QED  BY <2>1, <2>2, <2>3
<1> HIDE DEF lo, hi, a
<1> DEFINE front == lo \o bodies
           b == a + m
<1>7. JoinOf(front, lo, bodies, a, m)
  <2>1. JoinOf(front, lo, bodies, Len(lo), Len(bodies))
    BY <1>5, Joined
  <2>. QED  BY <1>5, <2>1
<1> HIDE DEF front
<1>8. IsSeq(front) /\ Len(front) = b
  BY <1>7 DEF JoinOf
<1>9. JoinOf(all, front, hi, b, c)
  <2> HIDE DEF b, c
  <2>1. JoinOf(front \o hi, front, hi, Len(front), Len(hi))
    BY <1>6, <1>8, Joined
  <2>. QED  BY <1>6, <1>8, <2>1 DEF front
<1> HIDE DEF all
<1>10. IsSeq(all) /\ Len(all) = b + c /\ DOMAIN all = 1..b + c
  BY <1>9, SeqIs DEF JoinOf
<1>11. IsSeq(r) /\ Len(r) = b + c /\ \A i \in 1..b + c : r[i] = [number |-> i, body |-> all[i]]
  <2> DEFINE M == b + c
  <2>1. M \in Nat
    BY <1>1, <1>4
  <2>2. r = [i \in 1..M |-> r[i]] /\ \A i \in 1..M : r[i] = [number |-> i, body |-> all[i]]
    BY <1>10
  <2> HIDE DEF M, r
  <2>3. IsSeq(r) /\ Len(r) = M
    BY <2>1, <2>2, IsSeqOf
  <2>. QED  BY <2>2, <2>3 DEF M
<1> HIDE DEF r
<1>12. ASSUME NEW i \in 1..a PROVE r[i] = [number |-> i, body |-> t[i].body]
  <2>1. i \in 1..b /\ i \in 1..b + c
    BY <1>1, <1>4
  <2>2. all[i] = lo[i]
    <3>1. all[i] = front[i]
      <4> HIDE DEF b, c
      <4>. QED  BY <1>9, <2>1 DEF JoinOf
    <3>. QED  BY <1>7, <3>1 DEF JoinOf
  <2>3. r[i] = [number |-> i, body |-> all[i]]
    <3> HIDE DEF b, c
    <3>. QED  BY <1>11, <2>1
  <2>. QED  BY <1>5, <2>2, <2>3
<1>13. ASSUME NEW i \in 1..m PROVE r[a + i] = [number |-> a + i, body |-> bodies[i]]
  <2> DEFINE p == a + i
  <2>1. p \in 1..b /\ p \in 1..b + c
    BY <1>1, <1>4
  <2>2. front[p] = bodies[i]
    BY <1>7 DEF JoinOf
  <2> HIDE DEF p
  <2>3. all[p] = front[p]
    <3> HIDE DEF b, c
    <3>. QED  BY <1>9, <2>1 DEF JoinOf
  <2>4. r[p] = [number |-> p, body |-> all[p]]
    <3> HIDE DEF b, c
    <3>. QED  BY <1>11, <2>1
  <2>5. r[p] = [number |-> p, body |-> bodies[i]]
    BY <2>2, <2>3, <2>4
  <2>. QED  BY <2>5 DEF p
<1>14. ASSUME NEW i \in 1..c
       PROVE  r[a + m + i] = [number |-> a + m + i, body |-> t[a + removed + i].body]
  <2> DEFINE p == b + i
             q == a + removed + i
  <2>1. p \in 1..b + c
    BY <1>1, <1>4
  <2>2. all[p] = hi[i]
    <3> HIDE DEF b, c
    <3>. QED  BY <1>9 DEF JoinOf
  <2>3. hi[i] = t[q].body
    <3> HIDE DEF c
    <3>. QED  BY <1>6
  <2> HIDE DEF p, q
  <2>4. r[p] = [number |-> p, body |-> all[p]]
    <3> HIDE DEF b, c
    <3>. QED  BY <1>11, <2>1
  <2>5. r[p] = [number |-> p, body |-> t[q].body]
    BY <2>2, <2>3, <2>4
  <2>. QED  BY <2>5 DEF p, q
<1>15. RowsReplaced(r, t, a, removed, bodies)
  BY <1>1, <1>11, <1>12, <1>13, <1>14 DEF RowsReplaced
<1>. QED  BY <1>2, <1>15 DEF a

LEMMA WithRowsIs ==
  ASSUME NEW t, InOrder(t), NEW first \in Nat \ {0}, NEW removed \in Nat, first + removed <= Len(t) + 1,
         NEW bodies, IsSeq(bodies)
  PROVE  LET r == WithRows(t, first, removed, bodies)
         IN  /\ InOrder(r) /\ Positioned(r)
             /\ Len(r) = first - 1 + Len(bodies) + (Len(t) - (first - 1) - removed)
<1> DEFINE r == WithRows(t, first, removed, bodies)
           a == first - 1
           m == Len(bodies)
           c == Len(t) - a - removed
<1>1. RowsReplaced(r, t, a, removed, bodies)
  BY WithRowsElements
<1>2. Len(t) \in Nat /\ a \in Nat /\ a + removed <= Len(t)
  BY SeqIs DEF InOrder
<1> HIDE DEF r, a
<1>3. m \in Nat /\ c \in Nat /\ IsSeq(r) /\ Len(r) = a + m + c
  BY <1>1, <1>2 DEF RowsReplaced
<1>4. ASSUME NEW i \in 1..Len(r) PROVE r[i].number = i /\ IsLine(r[i])
  <2>1. CASE i <= a
    <3>1. i \in 1..a
      BY <1>3, <2>1
    <3>2. r[i] = [number |-> i, body |-> t[i].body]
      BY <1>1, <3>1 DEF RowsReplaced
    <3> DEFINE x == t[i].body
    <3> HIDE DEF x
    <3>3. r[i] = [number |-> i, body |-> x] /\ i \in Nat
      BY <3>1, <3>2 DEF x
    <3>. QED  BY <3>3 DEF IsLine
  <2>2. CASE i > a /\ i <= a + m
    <3> DEFINE p == i - a
    <3>1. p \in 1..m /\ a + p = i /\ i \in Nat
      BY <1>2, <1>3, <2>2
    <3> HIDE DEF p
    <3>2. r[a + p] = [number |-> a + p, body |-> bodies[p]]
      BY <1>1, <3>1 DEF RowsReplaced
    <3> DEFINE x == bodies[p]
    <3> HIDE DEF x
    <3>3. r[i] = [number |-> i, body |-> x]
      BY <3>1, <3>2 DEF x
    <3>. QED  BY <3>1, <3>3 DEF IsLine
  <2>3. CASE i > a + m
    <3> DEFINE p == i - (a + m)
    <3>1. p \in 1..c /\ a + m + p = i /\ i \in Nat
      BY <1>2, <1>3, <2>3
    <3> HIDE DEF p
    <3>2. r[a + m + p] = [number |-> a + m + p, body |-> t[a + removed + p].body]
      BY <1>1, <3>1 DEF RowsReplaced
    <3> DEFINE x == t[a + removed + p].body
    <3> HIDE DEF x
    <3>3. r[i] = [number |-> i, body |-> x]
      BY <3>1, <3>2 DEF x
    <3>. QED  BY <3>1, <3>3 DEF IsLine
  <2>4. i <= a \/ (i > a /\ i <= a + m) \/ i > a + m
    BY <1>2, <1>3
  <2>. QED  BY <2>1, <2>2, <2>3, <2>4
<1>5. InOrder(r) /\ Positioned(r)
  BY <1>3, <1>4 DEF InOrder, Positioned
<1>. QED  BY <1>3, <1>5 DEF r, a

\* u is a text of as many rows that agrees with t outside the replaced ones.
(* u and t have the same rows outside those to be replaced.                *)
AgreeOutside(u, t, first, removed) ==
  /\ InOrder(u) /\ Positioned(u) /\ Len(u) = Len(t)
  /\ \A i \in 1..Len(t) : i < first \/ i >= first + removed => u[i].body = t[i].body

(* The bodies of the rows of u.                                            *)
RowsFrom(captured, u, first, removed) ==
  /\ IsSeq(captured) /\ Len(captured) = removed
  /\ \A i \in 1..removed : captured[i] = u[first + i - 1].body

\* Replacing back the rows u has there gives u.
(* Replacing the rows of a text by those it had restores it.               *)
LEMMA WithRowsBack ==
  ASSUME NEW t, InOrder(t), NEW first \in Nat \ {0}, NEW removed \in Nat,
         first + removed <= Len(t) + 1, NEW u, AgreeOutside(u, t, first, removed),
         NEW bodies, IsSeq(bodies), NEW captured, RowsFrom(captured, u, first, removed)
  PROVE  WithRows(WithRows(t, first, removed, bodies), first, Len(bodies), captured) = u
<1> DEFINE r == WithRows(t, first, removed, bodies)
           a == first - 1
           m == Len(bodies)
           c == Len(t) - a - removed
           v == WithRows(r, first, m, captured)
<1>0. /\ InOrder(u) /\ Positioned(u) /\ Len(u) = Len(t)
      /\ \A i \in 1..Len(t) : i < first \/ i >= first + removed => u[i].body = t[i].body
      /\ IsSeq(captured) /\ Len(captured) = removed
      /\ \A i \in 1..removed : captured[i] = u[first + i - 1].body
  BY DEF AgreeOutside, RowsFrom
<1>1. Len(t) \in Nat /\ m \in Nat /\ a \in Nat /\ a + removed <= Len(t)
  BY SeqIs DEF InOrder
<1>10. \A i \in 1..Len(t) : i <= a \/ i > a + removed => u[i].body = t[i].body
  BY <1>0, <1>1
<1>11. \A i \in 1..removed : captured[i] = u[a + i].body
  <2>1. \A i \in 1..removed : first + i - 1 = a + i
    OBVIOUS
  <2> HIDE DEF a
  <2>. QED  BY <1>0, <2>1
<1>2. RowsReplaced(r, t, a, removed, bodies) /\ InOrder(r) /\ Len(r) = a + m + c
  BY WithRowsElements, WithRowsIs
<1> HIDE DEF r
<1>12. first + m <= Len(r) + 1
  BY <1>1, <1>2
<1> HIDE DEF a
<1>3. c \in Nat /\ a + m <= Len(r) /\ Len(r) - a - m = c
  BY <1>1, <1>2
<1>4. RowsReplaced(v, r, a, m, captured) /\ InOrder(v)
  <2> HIDE DEF m
  <2>. QED  BY <1>0, <1>1, <1>2, <1>12, WithRowsElements, WithRowsIs DEF a
<1> HIDE DEF v
<1>5. /\ IsSeq(v) /\ Len(v) = a + removed + c
      /\ \A i \in 1..a : v[i] = [number |-> i, body |-> r[i].body]
      /\ \A i \in 1..removed : v[a + i] = [number |-> a + i, body |-> captured[i]]
      /\ \A i \in 1..c :
           v[a + removed + i] = [number |-> a + removed + i, body |-> r[a + m + i].body]
  <2> HIDE DEF m, c
  <2>. QED  BY <1>0, <1>3, <1>4 DEF RowsReplaced
<1>6. Len(v) = Len(u)
  BY SMTT(30), <1>0, <1>1, <1>3, <1>5
<1>7. ASSUME NEW i \in 1..Len(u) PROVE u[i] = [number |-> i, body |-> u[i].body]
  BY <1>0 DEF InOrder, IsLine, Positioned
<1>8. ASSUME NEW i \in 1..Len(u) PROVE v[i] = u[i]
  <2>1. CASE i <= a
    <3>1. i \in 1..a
      BY <1>0, <1>1, <2>1
    <3>2. r[i] = [number |-> i, body |-> t[i].body]
      BY <1>2, <3>1 DEF RowsReplaced
    <3>3. v[i] = [number |-> i, body |-> r[i].body]
      BY <1>5, <3>1
    <3>4. r[i].body = u[i].body
      BY <1>0, <1>10, <2>1, <3>2
    <3>. QED  BY <1>7, <3>3, <3>4
  <2>2. CASE i > a /\ i <= a + removed
    <3> DEFINE p == i - a
    <3>1. p \in 1..removed /\ a + p = i
      BY <1>0, <1>1, <2>2
    <3> HIDE DEF p
    <3>2. v[a + p] = [number |-> a + p, body |-> captured[p]] /\ captured[p] = u[a + p].body
      BY <1>5, <1>11, <3>1
    <3>. QED  BY <1>7, <3>1, <3>2
  <2>3. CASE i > a + removed
    <3> DEFINE p == i - (a + removed)
    <3>1. p \in 1..c /\ a + removed + p = i
      BY <1>0, <1>1, <1>3, <2>3
    <3> HIDE DEF p
    <3>2. v[i] = [number |-> i, body |-> r[a + m + p].body]
      <4>1. v[a + removed + p] = [number |-> a + removed + p, body |-> r[a + m + p].body]
        <5> HIDE DEF c
        <5>. QED  BY <1>5, <3>1
      <4>. QED  BY <3>1, <4>1
    <3>3. r[a + m + p] = [number |-> a + m + p, body |-> t[a + removed + p].body]
      BY <1>2, <3>1 DEF RowsReplaced
    <3>4. r[a + m + p].body = u[i].body
      <4>1. t[i].body = u[i].body
        BY <1>0, <1>10, <2>3
      <4>. QED  BY <3>1, <3>3, <4>1
    <3>. QED  BY <1>7, <3>2, <3>4
  <2>4. i <= a \/ (i > a /\ i <= a + removed) \/ i > a + removed
    BY <1>0, <1>1
  <2>. QED  BY <2>1, <2>2, <2>3, <2>4
<1>9. v = u
  BY <1>0, <1>5, <1>6, <1>8, SameSequence DEF InOrder
<1>. QED  BY <1>9 DEF v, r


-----------------------------------------------------------------------------
(* Typing.                                                                 *)

\* A run of keys goes on: the text changes under the name it has.
(* One more key of a run: the text changes under the name it has, and the  *)
(* snapshot of the run's line leads back to where it did.                  *)
SameRun(w, v) ==
  /\ Sane(v) /\ v.mode = w.mode /\ v.depth = w.depth
  /\ v.state = w.state /\ v.next = w.next /\ v.saved = w.saved
  /\ v.undo = w.undo /\ v.redo = w.redo
  /\ w.group # "None" /\ v.group = w.group /\ v.groupLine = w.groupLine
  /\ \A s : s.kind = "line" /\ s.existed = TRUE /\ s.number = w.groupLine
              => Back(Text(v), s) = Back(Text(w), s)

\* What a key that edits may do.
(* What an editing key does: nothing to the text, a new text, or one more  *)
(* key of a run.                                                           *)
Outcome(w, v) == Kept(w, v) \/ (v.ok /\ NewState(w, v)) \/ (v.ok /\ SameRun(w, v))

(* The snapshot of the line in hand leads back from whatever becomes of    *)
(* that line.                                                              *)
LEMMA LineSnapshotIs ==
  ASSUME NEW w, InOrder(w.doc), InHand(w), w.has, NEW u,
         NEW x \in BOOLEAN, NEW b, u = WithLine(w.doc, w.number, LineIf(x, w.number, b))
  PROVE  /\ LineSnapshot(w).state = w.state /\ LineSnapshot(w).kind = "line"
         /\ LineSnapshot(w).number = w.number /\ LineSnapshot(w).existed = TRUE
         /\ Usable(LineSnapshot(w), u) /\ Back(u, LineSnapshot(w)) = Text(w)
<1> DEFINE s == LineSnapshot(w)
<1>1. /\ s.state = w.state /\ s.kind = "line" /\ s.number = w.number /\ s.existed = w.has
      /\ s.body = w.body /\ s.index = w.index
  BY DEF LineSnapshot
<1>2. s.existed = TRUE
  BY <1>1 DEF InHand
<1> HIDE DEF s
<1>3. /\ w.number \in Nat /\ w.index \in 1..Len(w.doc)
      /\ Text(w) = WithLine(w.doc, w.number, LineIf(TRUE, w.number, w.body))
  BY WrittenText
<1>4. Usable(s, u)
  <2>1. w.index \in Nat \ {0}
    BY <1>3, SeqIs DEF InOrder
  <2>. QED  BY <1>1, <1>2, <1>3, <2>1 DEF Usable
<1>5. Back(u, s) = WithLine(u, w.number, LineIf(TRUE, w.number, w.body))
  <2>1. s.kind = "line" => Back(u, s) = WithLine(u, s.number, LineIf(s.existed, s.number, s.body))
    BY ONLY BackIs
  <2>. QED  BY <1>1, <1>2, <2>1
<1>6. Back(u, s) = Text(w)
  <2> DEFINE t == w.doc
             n == w.number
             c == w.body
             y == TRUE
  <2>1. InOrder(t) /\ n \in Nat /\ y \in BOOLEAN
    BY <1>3
  <2>2. /\ u = WithLine(t, n, LineIf(x, n, b)) /\ Text(w) = WithLine(t, n, LineIf(y, n, c))
        /\ Back(u, s) = WithLine(u, n, LineIf(y, n, c))
    BY <1>3, <1>5
  <2> HIDE DEF t, n, c, y
  <2>3. WithLine(WithLine(t, n, LineIf(x, n, b)), n, LineIf(y, n, c)) = WithLine(t, n, LineIf(y, n, c))
    BY <2>1, ReplaceTwice
  <2>. QED  BY <2>2, <2>3
<1>. QED  BY <1>1, <1>2, <1>4, <1>6 DEF s

(* A new body in hand.                                                     *)
LEMMA EditedIs ==
  ASSUME NEW w, Sane(w), w.has, NEW body, NEW cursor
  PROVE  LET e == Edited(w, body, cursor)
         IN  /\ Sane(e) /\ SameNames(w, e) /\ e.has /\ e.ok = w.ok /\ e.doc = w.doc
             /\ e.number = w.number /\ e.group = w.group /\ e.groupLine = w.groupLine
             /\ Text(e) = WithLine(w.doc, w.number, LineIf(TRUE, w.number, body))
<1> DEFINE x == [w EXCEPT !.body = body, !.cursor = cursor, !.dirty = TRUE]
           c == CursorColumn(x)
           e == [x EXCEPT !.preferred = c]
<1>1. Edited(w, body, cursor) = e
  BY DEF Edited
<1>2. DOMAIN w = Fields
  BY DEF Sane, Based
<1> HIDE DEF c
<1>3. /\ DOMAIN e = Fields /\ e.body = body /\ e.dirty = TRUE
      /\ e.mode = w.mode /\ e.doc = w.doc /\ e.ok = w.ok
      /\ e.state = w.state /\ e.saved = w.saved /\ e.next = w.next
      /\ e.group = w.group /\ e.groupLine = w.groupLine
      /\ e.ready = w.ready /\ e.depth = w.depth /\ e.undo = w.undo /\ e.redo = w.redo
      /\ e.has = w.has /\ e.index = w.index /\ e.number = w.number
  BY <1>2 DEF Fields
<1> HIDE DEF e
<1>4. Sane(e)
  BY <1>3 DEF Sane, Based, InHand, Named, Stacks
<1>5. SameNames(w, e)
  BY <1>3 DEF SameNames
<1>6. Text(e) = WithLine(w.doc, w.number, LineIf(TRUE, w.number, body))
  <2>1. InOrder(e.doc) /\ InHand(e) /\ e.has
    BY <1>3, <1>4 DEF Sane, Proper
  <2>2. Text(e) = WithLine(e.doc, e.number, LineIf(TRUE, e.number, e.body))
    BY <2>1, WrittenText
  <2>. QED  BY <1>3, <2>2
<1>. QED  BY <1>1, <1>3, <1>4, <1>5, <1>6

LEMMA EditedRecorded ==
  ASSUME NEW w, Sane(w), w.has, NEW body, NEW cursor, NEW group,
         NEW v, v = EnsureCursorVisible(RecordEdit(Edited(w, body, cursor), LineSnapshot(w), group))
  PROVE  NewState(w, v) /\ v.ok = w.ok
<1> DEFINE e == Edited(w, body, cursor)
           s == LineSnapshot(w)
           r == RecordEdit(e, s, group)
<1>1. /\ Sane(e) /\ SameNames(w, e) /\ e.has /\ e.ok = w.ok /\ e.doc = w.doc
      /\ e.number = w.number
      /\ Text(e) = WithLine(w.doc, w.number, LineIf(TRUE, w.number, body))
  BY ZenonT(40), EditedIs
<1> HIDE DEF e
<1>2. Stacks(e) /\ DOMAIN e = Fields
  BY <1>1 DEF Sane, Based
<1>3. InOrder(w.doc) /\ InHand(w)
  BY DEF Sane, Proper
<1>4. /\ s.state = w.state /\ s.kind = "line" /\ s.number = w.number /\ s.existed = TRUE
      /\ Usable(s, Text(e)) /\ Back(Text(e), s) = Text(w)
  BY <1>1, <1>3, LineSnapshotIs
<1> HIDE DEF s
<1>5. DOMAIN r = Fields /\ \A f \in Fields \ Recorded : r[f] = e[f]
  BY <1>2, RecordEditIs
<1> HIDE DEF r
<1>6. /\ r.mode = e.mode /\ r.doc = e.doc /\ r.has = e.has /\ r.index = e.index
      /\ r.number = e.number /\ r.body = e.body /\ r.dirty = e.dirty
  BY <1>5 DEF Fields, Recorded
<1>7. InHand(r) /\ r.has \in BOOLEAN
  BY <1>1, <1>6 DEF InHand, Sane
<1>8. SameCore(r, v)
  BY <1>5, <1>7, EnsureIsView DEF r, s, e
<1>9. InHand(v) /\ Text(v) = Text(e)
  <2>1. InHand(v)
    BY <1>7, <1>8, SameCoreFields DEF InHand
  <2>2. v.doc = e.doc /\ v.has = e.has /\ v.index = e.index /\ v.body = e.body
    BY <1>6, <1>8, SameCoreFields
  <2>. QED  BY <2>1, <2>2 DEF Text, Body
<1>10. SameRest(r, v)
  BY <1>8, SameRestFrom
<1>11. Proper(w.mode, e.doc)
  BY <1>1 DEF Sane
<1>12. SameRest(RecordEdit(e, s, group), v)
  BY <1>10 DEF r
<1>13. LeadsBack(w, v, s) /\ BeginsRun(group, s, e.number)
  BY <1>1, <1>4, <1>9 DEF LeadsBack, BeginsRun
<1>14. NewState(w, v) /\ v.ok = e.ok
  <2> HIDE DEF r
  <2>. QED  BY <1>1, <1>9, <1>11, <1>12, <1>13, NewStateIs
<1>. QED  BY <1>1, <1>14

(* Characters typed on one line are one run.                               *)
LEMMA TypedIs ==
  ASSUME NEW w, Sane(w), w.has, w.ok, NEW group, group # "None", NEW body, NEW cursor
  PROVE  Outcome(w, Typed(w, group, body, cursor))
<1> DEFINE e == Edited(w, body, cursor)
           v == Typed(w, group, body, cursor)
<1>1. CASE ~GroupMatches(w, group)
  <2>1. v = EnsureCursorVisible(RecordEdit(e, LineSnapshot(w), group))
    BY <1>1 DEF Typed
  <2>2. NewState(w, v) /\ v.ok = w.ok
    BY <2>1, EditedRecorded
  <2>. QED  BY <2>2 DEF Outcome
<1>2. CASE GroupMatches(w, group)
  <2> DEFINE r == [e EXCEPT !.groupCursor = cursor]
  <2>1. v = EnsureCursorVisible(r)
    BY <1>2 DEF Typed
  <2>2. /\ Sane(e) /\ SameNames(w, e) /\ e.has /\ e.ok = w.ok /\ e.doc = w.doc
        /\ e.number = w.number /\ e.group = w.group /\ e.groupLine = w.groupLine
        /\ Text(e) = WithLine(w.doc, w.number, LineIf(TRUE, w.number, body))
    BY EditedIs
  <2> HIDE DEF e, v
  <2>3. SameCore(e, r)
    BY <2>2, Loose DEF Sane, Based
  <2> HIDE DEF r
  <2>4. SameCore(r, v)
    BY <2>1, <2>2, <2>3, SameCoreFields, EnsureIsView DEF Sane, InHand
  <2>5. SameCore(e, v)
    BY <2>3, <2>4, SameCoreTwice
  <2>6. Sane(v) /\ Text(v) = Text(e)
    BY <2>2, <2>5, SaneCore
  <2>7. w.group = group /\ w.groupLine = w.number
    BY <1>2 DEF GroupMatches
  <2>8. /\ InOrder(w.doc) /\ w.number \in Nat
        /\ Text(w) = WithLine(w.doc, w.number, LineIf(TRUE, w.number, w.body))
    BY WrittenText DEF Sane, Proper
  <2>9. ASSUME NEW s, s.kind = "line", s.existed = TRUE, s.number = w.groupLine
        PROVE  Back(Text(v), s) = Back(Text(w), s)
    <3>1. /\ Back(Text(v), s) = WithLine(Text(v), w.number, LineIf(TRUE, w.number, s.body))
          /\ Back(Text(w), s) = WithLine(Text(w), w.number, LineIf(TRUE, w.number, s.body))
      BY <2>7, <2>9, BackIs
    <3> DEFINE t == w.doc
               n == w.number
               c == s.body
    <3>2. InOrder(t) /\ n \in Nat
      BY <2>8
    <3> HIDE DEF t, n, c
    <3> DEFINE y == TRUE
    <3>3. y \in BOOLEAN
      OBVIOUS
    <3>4. /\ Text(v) = WithLine(t, n, LineIf(y, n, body))
          /\ Text(w) = WithLine(t, n, LineIf(y, n, w.body))
      BY <2>2, <2>6, <2>8 DEF t, n
    <3> HIDE DEF y
    <3>5. /\ WithLine(Text(v), n, LineIf(y, n, c)) = WithLine(t, n, LineIf(y, n, c))
          /\ WithLine(Text(w), n, LineIf(y, n, c)) = WithLine(t, n, LineIf(y, n, c))
      BY <3>2, <3>3, <3>4, ReplaceTwice
    <3>. QED  BY <3>1, <3>5 DEF n, c, y
  <2>10. SameRun(w, v) /\ v.ok
    BY <2>2, <2>5, <2>6, <2>7, <2>9, SameCoreFields DEF SameRun, SameNames
  <2>. QED  BY <2>10 DEF Outcome, v
<1>. QED  BY <1>1, <1>2

LEMMA OutcomeKept ==
  ASSUME NEW w, NEW v, Kept(w, v) PROVE Outcome(w, v)
BY DEF Outcome

LEMMA RefuseOutcome ==
  ASSUME NEW w, Sane(w) PROVE Outcome(w, Refuse(w))
BY RefuseIs, QuietKept, OutcomeKept

(* The keys that edit the line in hand.                                    *)
LEMMA InsertCharIs ==
  ASSUME NEW w, Sane(w), w.ok, NEW word
  PROVE  Outcome(w, InsertChar(w, word))
<1>1. CASE ~w.has \/ Len(w.body) >= w.limit
  BY <1>1, RefuseOutcome DEF InsertChar
<1>2. CASE ~(~w.has \/ Len(w.body) >= w.limit)
  <2>1. InsertChar(w, word) = Typed(w, "Insert", Append(Before(w), word) \o After(w), w.cursor + 1)
    BY <1>2 DEF InsertChar
  <2>. QED  BY <1>2, <2>1, TypedIs
<1>. QED  BY <1>1, <1>2

LEMMA EditAloneIs ==
  ASSUME NEW w, Sane(w), w.ok, w.has, NEW body, NEW cursor
  PROVE  Outcome(w, EditAlone(w, body, cursor))
BY EditedRecorded DEF EditAlone, Outcome

LEMMA InsertTabIs ==
  ASSUME NEW w, Sane(w), w.ok
  PROVE  Outcome(w, InsertTab(w))
<1> DEFINE count == TabWidth - (w.cursor % TabWidth)
<1>1. InsertTab(w) = IF ~w.has \/ Len(w.body) + count > w.limit THEN Refuse(w)
                     ELSE EditAlone(w, Before(w) \o Spaces(count) \o After(w), w.cursor + count)
  BY DEF InsertTab
<1> HIDE DEF count
<1>2. CASE ~w.has \/ Len(w.body) + count > w.limit
  BY <1>1, <1>2, RefuseOutcome
<1>3. CASE ~(~w.has \/ Len(w.body) + count > w.limit)
  BY <1>1, <1>3, EditAloneIs
<1>. QED  BY <1>2, <1>3

LEMMA OutdentIs ==
  ASSUME NEW w, Sane(w), w.ok
  PROVE  Outcome(w, Outdent(w))
<1> DEFINE count == Min({TabWidth, LeadingSpace(w.body)})
           c == IF w.cursor > count THEN w.cursor - count ELSE 0
<1>1. Outdent(w) = IF ~Structured(w) \/ ~w.has THEN Refuse(w)
                   ELSE IF count = 0 THEN w
                   ELSE EditAlone(w, SubSeq(w.body, count + 1, Len(w.body)), c)
  BY DEF Outdent
<1> HIDE DEF count, c
<1>2. CASE ~Structured(w) \/ ~w.has
  BY <1>1, <1>2, RefuseOutcome
<1>3. CASE ~(~Structured(w) \/ ~w.has) /\ count = 0
  BY <1>1, <1>3, QuietSelf, QuietKept, OutcomeKept
<1>4. CASE ~(~Structured(w) \/ ~w.has) /\ count # 0
  BY <1>1, <1>4, EditAloneIs
<1>. QED  BY <1>2, <1>3, <1>4


-----------------------------------------------------------------------------
(* Operations that write the document at once.                             *)

(* One write of the store: whole, or not at all.                           *)
LEMMA WriteIs ==
  ASSUME NEW w, Sane(w), w.ok, NEW d
  PROVE  \/ Write(w, d) = Refuse(w) /\ ~Write(w, d).ok
         \/ Write(w, d) = [w EXCEPT !.doc = d] /\ Write(w, d).ok
<1>1. CASE w.fault = "write" \/ Len(d) > w.room
  BY <1>1, RefuseIs DEF Write
<1>2. CASE ~(w.fault = "write" \/ Len(d) > w.room)
  <2>1. Write(w, d) = [w EXCEPT !.doc = d]
    BY <1>2 DEF Write
  <2>2. [w EXCEPT !.doc = d].ok = w.ok
    BY DEF Sane, Based, Fields
  <2>. QED  BY <2>1, <2>2
<1>. QED  BY <1>1, <1>2

LEMMA WrittenIs ==
  ASSUME NEW w, Sane(w), NEW d
  PROVE  LET v == [w EXCEPT !.doc = d]
         IN  /\ DOMAIN v = Fields /\ v.doc = d /\ SameNames(w, v)
             /\ \A f \in Fields \ {"doc"} : v[f] = w[f]
<1> DEFINE v == [w EXCEPT !.doc = d]
<1>1. DOMAIN v = Fields /\ v.doc = d /\ \A f \in Fields \ {"doc"} : v[f] = w[f]
  BY DEF Sane, Based, Fields
<1> HIDE DEF v
<1>2. SameNames(w, v)
  BY <1>1 DEF SameNames, Fields
<1>. QED  BY <1>1, <1>2 DEF v

LEMMA QuietOutcome ==
  ASSUME NEW w, NEW v, NEW u, Quiet(w, v), v.group = "None", Outcome(v, u)
  PROVE  Outcome(w, u)
<1>1. ~SameRun(v, u)
  BY DEF SameRun
<1>2. Kept(v, u) => Kept(w, u)
  BY QuietThen
<1>3. NewState(v, u) => NewState(w, u)
  BY QuietNewState
<1>. QED  BY <1>1, <1>2, <1>3 DEF Outcome

LEMMA Two ==
  ASSUME NEW x, NEW y
  PROVE  IsSeq(<<x, y>>) /\ Len(<<x, y>>) = 2
<1>1. <<x, y>> \in Seq({x, y})
  OBVIOUS
<1>. QED  BY <1>1 DEF IsSeq

\* The snapshot of the rows that w's text has there leads back to it.
(* The snapshot of the rows to be replaced leads back.                     *)
LEMMA CaptureRowsIs ==
  ASSUME NEW w, Sane(w), Positioned(w.doc), NEW first \in Nat \ {0}, NEW removed \in Nat,
         first + removed <= Len(w.doc) + 1, NEW rows, IsSeq(rows),
         w.dirty => first <= w.index /\ w.index < first + removed
  PROVE  LET d == WithRows(w.doc, first, removed, rows)
             s == CaptureRows(w, first, removed, Len(rows))
         IN  InOrder(d) /\ Positioned(d) /\ s.state = w.state /\ Usable(s, d) /\ Back(d, s) = Text(w)
<1> DEFINE t == w.doc
           u == Text(w)
           m == Len(rows)
           d == WithRows(t, first, removed, rows)
           s == CaptureRows(w, first, removed, m)
           c == [i \in 1..removed |-> Body(w, first + i - 1)]
<1>1. /\ s.kind = "rows" /\ s.state = w.state /\ s.first = first /\ s.replace = m
      /\ s.rows = c /\ s.focus = w.index
  BY DEF CaptureRows
<1> HIDE DEF s
<1>2. InOrder(t) /\ InHand(w) /\ Len(t) \in Nat /\ m \in Nat
  BY SeqIs DEF Sane, Proper, InOrder
<1>3. IsSeq(c) /\ Len(c) = removed /\ \A i \in 1..removed : c[i] = Body(w, first + i - 1)
  <2>1. c = [i \in 1..removed |-> c[i]] /\ \A i \in 1..removed : c[i] = Body(w, first + i - 1)
    OBVIOUS
  <2> HIDE DEF c
  <2>. QED  BY <2>1, IsSeqOf
<1> HIDE DEF c
<1>4. /\ InOrder(d) /\ Positioned(d)
      /\ Len(d) = first - 1 + m + (Len(t) - (first - 1) - removed)
  <2> HIDE DEF m
  <2>. QED  BY ZenonT(40), <1>2, WithRowsIs DEF m
<1>5. /\ InOrder(u) /\ Len(u) = Len(t)
      /\ \A i \in 1..Len(t) : u[i].number = t[i].number /\ u[i].body = Body(w, i)
  BY <1>2, TextIs
<1> HIDE DEF u
<1>6. Positioned(u)
  <2>1. \A i \in 1..Len(t) : t[i].number = i
    BY DEF Positioned
  <2> HIDE DEF t
  <2>. QED  BY <1>5, <2>1 DEF Positioned
<1>7. ASSUME NEW i \in 1..Len(t), i < first \/ i >= first + removed
      PROVE  u[i].body = t[i].body
  <2>1. u[i].body = Body(w, i)
    BY <1>5
  <2>2. CASE w.has /\ i = w.index
    <3>1. ~w.dirty
      BY <1>2, <1>7, <2>2 DEF InHand
    <3>. QED  BY <1>2, <2>1, <2>2, <3>1 DEF Body, InHand
  <2>3. CASE ~(w.has /\ i = w.index)
    BY <2>1, <2>3 DEF Body
  <2>. QED  BY <2>2, <2>3
<1>8. ASSUME NEW i \in 1..removed PROVE c[i] = u[first + i - 1].body
  <2> DEFINE p == first + i - 1
  <2>1. p \in 1..Len(t)
    BY <1>2
  <2>2. c[i] = Body(w, p)
    BY <1>3
  <2> HIDE DEF p
  <2>3. u[p].body = Body(w, p)
    BY <1>5, <2>1
  <2>. QED  BY <2>2, <2>3 DEF p
<1>9. WithRows(d, first, m, c) = u
  <2>1. first + removed <= Len(t) + 1
    OBVIOUS
  <2> HIDE DEF t
  <2>2. \A i \in 1..Len(t) : i < first \/ i >= first + removed => u[i].body = t[i].body
    BY <1>7
  <2>3. \A i \in 1..removed : c[i] = u[first + i - 1].body
    BY <1>8
  <2>4. AgreeOutside(u, t, first, removed) /\ RowsFrom(c, u, first, removed)
    BY <1>3, <1>5, <1>6, <2>2, <2>3 DEF AgreeOutside, RowsFrom
  <2>. QED  BY <1>2, <2>1, <2>4, WithRowsBack
<1>10. Back(d, s) = u
  <2> HIDE DEF d, m
  <2>. QED  BY <1>1, <1>9, BackIs
<1>11. Usable(s, d)
  <2> DEFINE N == Len(t)
             L == Len(d)
  <2>0. N \in Nat /\ L = first - 1 + m + (N - (first - 1) - removed) /\ first + removed <= N + 1
    BY <1>2, <1>4
  <2> HIDE DEF N, L, m
  <2>3. first + m <= L + 1
    BY <1>2, <2>0
  <2>1. first + m <= Len(d) + 1
    BY <2>3 DEF L
  <2>2. w.index \in Nat \ {0}
    BY <1>2 DEF InHand
  <2> HIDE DEF d, m
  <2>. QED  BY <1>1, <1>2, <1>3, <1>4, <2>1, <2>2 DEF Usable
<1>. QED  BY <1>1, <1>4, <1>10, <1>11 DEF s, u

(* replace_rows of a structured program.                                   *)
LEMMA StructuredReplaceIs ==
  ASSUME NEW w, Sane(w), w.ok, Structured(w), NEW first \in Nat \ {0}, NEW removed \in Nat,
         first + removed <= Len(w.doc) + 1, NEW rows, IsSeq(rows),
         NEW focus \in Nat \ {0}, NEW cursor,
         w.dirty => first <= w.index /\ w.index < first + removed
  PROVE  Outcome(w, StructuredReplace(w, first, removed, rows, focus, cursor))
<1> DEFINE d == WithRows(w.doc, first, removed, rows)
           s == CaptureRows(w, first, removed, Len(rows))
           e == Write(w, d)
           r == RecordEdit(e, s, "None")
           v == Focus(r, focus, cursor)
<1>1. StructuredReplace(w, first, removed, rows, focus, cursor) = IF ~e.ok THEN e ELSE v
  BY DEF StructuredReplace
<1>2. Positioned(w.doc) /\ w.mode = "Structured"
  BY DEF Structured, Sane, Proper
<1>3. InOrder(d) /\ Positioned(d) /\ s.state = w.state /\ Usable(s, d) /\ Back(d, s) = Text(w)
  BY <1>2, CaptureRowsIs
<1> HIDE DEF d, s
<1>4. CASE e = Refuse(w) /\ ~e.ok
  BY <1>1, <1>4, RefuseOutcome
<1>5. CASE e = [w EXCEPT !.doc = d] /\ e.ok
  <2>1. DOMAIN e = Fields /\ e.doc = d /\ SameNames(w, e)
    <3> DEFINE x == [w EXCEPT !.doc = d]
    <3>1. DOMAIN x = Fields /\ x.doc = d /\ SameNames(w, x)
      BY WrittenIs
    <3> HIDE DEF x, e
    <3>2. e = x
      BY <1>5 DEF x
    <3>. QED  BY <3>1, <3>2
  <2> HIDE DEF e
  <2>2. Stacks(e)
    BY <2>1 DEF SameNames, Sane, Based, Stacks
  <2>3. DOMAIN r = Fields /\ \A f \in Fields \ Recorded : r[f] = e[f]
    BY <2>1, <2>2, RecordEditIs
  <2>4. r.doc = d
    BY <2>1, <2>3 DEF Fields, Recorded
  <2> HIDE DEF r
  <2>5. Focused(r, v)
    BY <1>3, <2>3, <2>4, FocusIs
  <2> HIDE DEF v
  <2>6. SameRest(r, v) /\ InHand(v) /\ ~v.dirty /\ v.doc = d
    BY <2>4, <2>5, SameRestFields DEF Focused
  <2>7. Text(v) = d
    BY <1>3, <2>6, CleanText
  <2>8. SameRest(RecordEdit(e, s, "None"), v) /\ Proper(w.mode, e.doc)
    BY <1>3, <2>1, <2>6 DEF r, Proper
  <2>9. Usable(s, Text(v)) /\ Back(Text(v), s) = Text(w)
    BY <1>3, <2>7
  <2> DEFINE g == "None"
  <2>10. NewState(w, v) /\ v.ok = e.ok
    <3>1. SameRest(RecordEdit(e, s, g), v) /\ BeginsRun(g, s, e.number)
      BY <2>8 DEF BeginsRun
    <3>2. LeadsBack(w, v, s)
      BY <1>3, <2>9 DEF LeadsBack
    <3> HIDE DEF g
    <3>. QED  BY <2>1, <2>6, <2>8, <3>1, <3>2, NewStateIs
  <2>. QED  BY <1>1, <1>5, <2>10 DEF Outcome
<1>. QED  BY <1>4, <1>5, WriteIs

LEMMA SplitRowIs ==
  ASSUME NEW w, Sane(w), w.ok, Structured(w), w.has
  PROVE  Outcome(w, SplitRow(w))
<1> DEFINE i == w.index
<1>1. i \in Nat \ {0} /\ i + 1 <= Len(w.doc) + 1 /\ i + 1 \in Nat \ {0} /\ i < i + 1 /\ i <= i
  <2>1. i \in 1..Len(w.doc) /\ Len(w.doc) \in Nat
    BY SeqIs DEF Sane, Proper, InOrder, InHand
  <2>. QED  BY <2>1
<1>2. \A rows, cursor : IsSeq(rows) =>
        /\ Outcome(w, StructuredReplace(w, i, 1, rows, i, cursor))
        /\ Outcome(w, StructuredReplace(w, i, 1, rows, i + 1, cursor))
  <2>1. 1 \in Nat
    OBVIOUS
  <2>. QED  BY <1>1, <2>1, StructuredReplaceIs
<1>3. \/ SplitRow(w) = Refuse(w)
      \/ \E x, y, cursor : \/ SplitRow(w) = StructuredReplace(w, i, 1, <<x, y>>, i, cursor)
                           \/ SplitRow(w) = StructuredReplace(w, i, 1, <<x, y>>, i + 1, cursor)
  <2>1. CASE w.cursor = 0
    <3>1. SplitRow(w) = StructuredReplace(w, i, 1, <<<<>>, w.body>>, i, 0)
      BY <2>1 DEF SplitRow
    <3>. QED  BY <3>1
  <2>2. CASE w.cursor = Len(w.body) /\ w.cursor # 0
    <3>1. \E left, next : SplitRow(w)
            = IF Len(left) > w.limit \/ next > w.limit THEN Refuse(w)
              ELSE StructuredReplace(w, i, 1, <<left, Spaces(next)>>, i + 1, next)
      BY <2>2 DEF SplitRow
    <3>. QED  BY <3>1
  <2>3. CASE w.cursor # 0 /\ ~(w.cursor = Len(w.body))
    <3>1. SplitRow(w) = StructuredReplace(w, i, 1, <<Before(w), After(w)>>, i + 1, 0)
      BY <2>3 DEF SplitRow
    <3>. QED  BY <3>1
  <2>. QED  BY <2>1, <2>2, <2>3
<1> HIDE DEF i
<1>. QED  BY <1>2, <1>3, RefuseOutcome, Two


-----------------------------------------------------------------------------
(* Numbered lines: split, join, insert and delete.                         *)

\* The numbers around n tell how many lines come before it.
(* Where a number falls between two lines.                                 *)
LEMMA Between ==
  ASSUME NEW t, InOrder(t), NEW k \in 0..Len(t), NEW n \in Nat,
         k > 0 => t[k].number < n, k < Len(t) => t[k + 1].number >= n
  PROVE  LinesBelow(t, n) = k
<1>1. Len(t) \in Nat /\ \A i \in 1..Len(t) : t[i].number \in Nat
  BY SeqIs DEF InOrder, IsLine
<1>2. ASSUME NEW i \in 1..Len(t) PROVE t[i].number < n <=> i <= k
  <2>1. CASE i <= k
    <3>1. k \in 1..Len(t) /\ k > 0
      BY <1>1, <2>1
    <3>2. i = k \/ t[i].number < t[k].number
      BY <1>1, <2>1, <3>1 DEF InOrder
    <3>3. t[i].number \in Nat /\ t[k].number \in Nat
      BY <1>1, <3>1
    <3>. QED  BY <2>1, <3>1, <3>2, <3>3
  <2>2. CASE ~(i <= k)
    <3> DEFINE j == k + 1
    <3>1. j \in 1..Len(t) /\ k < Len(t) /\ (i = j \/ j < i)
      BY <1>1, <2>2
    <3>2. t[j].number >= n
      BY <3>1
    <3> HIDE DEF j
    <3>3. i = j \/ t[j].number < t[i].number
      BY <1>1, <3>1 DEF InOrder
    <3>4. t[i].number \in Nat /\ t[j].number \in Nat
      BY <1>1, <3>1
    <3>. QED  BY <2>2, <3>2, <3>3, <3>4
  <2>. QED  BY <2>1, <2>2
<1>3. IsBelow(t, n, k)
  BY <1>2 DEF IsBelow
<1>. QED  BY <1>3, BelowIs

(* locate_line finds the line of a number.                                 *)
LEMMA LocateIs ==
  ASSUME NEW t, InOrder(t), NEW n \in Nat
  PROVE  /\ Locate(t, n) \in Nat \ {0}
         /\ t # <<>> => Locate(t, n) \in 1..Len(t)
         /\ \A i \in 1..Len(t) : t[i].number = n => Locate(t, n) = i
<1> DEFINE k == LinesBelow(t, n)
           N == Len(t)
           x == Min({k + 1, N})
           y == Max({1, x})
<1>1. N \in Nat /\ (t # <<>> => N # 0)
  BY SeqIs, NoElements DEF InOrder
<1>2. k \in 0..N
  BY BelowIs DEF IsBelow
<1>3. \A i \in 1..N : t[i].number = n => k = i - 1
  BY LineAt
<1>4. Locate(t, n) = y
  BY DEF Locate
<1> HIDE DEF k, N
<1>5. x = IF k + 1 <= N THEN k + 1 ELSE N
  BY <1>1, <1>2 DEF Min
<1> HIDE DEF x
<1>6. y = IF x <= 1 THEN 1 ELSE x
  BY <1>1, <1>2, <1>5 DEF Max
<1> HIDE DEF y
<1>7. y \in Nat \ {0} /\ (N # 0 => y \in 1..N)
  BY <1>1, <1>2, <1>5, <1>6
<1>8. ASSUME NEW i \in 1..N, t[i].number = n PROVE y = i
  <2>1. k + 1 = i
    BY <1>1, <1>2, <1>3, <1>8
  <2>. QED  BY <1>1, <1>2, <1>5, <1>6, <2>1
<1>. QED  BY <1>1, <1>4, <1>7, <1>8 DEF N

\* What the text holds under a number, as a snapshot takes it.
(* The line of another number, as the snapshot keeps it.                   *)
LEMMA OtherIs ==
  ASSUME NEW w, InOrder(w.doc), InHand(w), NEW n \in Nat,
         NEW b, b = IF Exact(w.doc, n) THEN Body(w, Locate(w.doc, n)) ELSE <<>>
  PROVE  Under(Text(w), n) = One(Exact(w.doc, n), n, b)
<1> DEFINE t == w.doc
           u == Text(w)
<1>1. DOMAIN t = 1..Len(t)
  BY SeqIs DEF InOrder
<1>2. /\ InOrder(u) /\ Len(u) = Len(t)
      /\ \A i \in 1..Len(t) : u[i].number = t[i].number /\ u[i].body = Body(w, i)
  BY TextIs
<1> HIDE DEF u
<1>3. CASE Exact(t, n)
  <2>1. PICK i \in 1..Len(t) : t[i].number = n
    BY <1>1, <1>3 DEF Exact
  <2>2. Locate(t, n) = i
    BY <2>1, LocateIs
  <2>3. u[i].number = n /\ u[i].body = b
    BY <1>2, <1>3, <2>1, <2>2
  <2>4. Under(u, u[i].number) = One(TRUE, u[i].number, u[i].body)
    BY <1>2, LineOf
  <2>. QED  BY <1>3, <2>3, <2>4 DEF One, u
<1>4. CASE ~Exact(t, n)
  <2>1. \A i \in 1..Len(t) : t[i].number # n
    BY <1>1, <1>4 DEF Exact
  <2>2. \A i \in 1..Len(u) : u[i].number # n
    BY <1>2, <2>1
  <2>3. Under(u, n) = One(FALSE, n, b)
    BY <2>2, NoLineOf
  <2>. QED  BY <1>4, <2>3 DEF One, u
<1>. QED  BY <1>3, <1>4

LEMMA PairSwap ==
  ASSUME NEW t, InOrder(t), NEW n \in Nat, NEW m \in Nat, n # m,
         NEW x \in BOOLEAN, NEW b, NEW y \in BOOLEAN, NEW c
  PROVE  PairOf(t, n, x, b, m, y, c) = PairOf(t, m, y, c, n, x, b)
<1> DEFINE r == PairOf(t, n, x, b, m, y, c)
           v == PairOf(t, m, y, c, n, x, b)
<1>1. InOrder(r) /\ LinesOf(r) = OthersOfTwo(t, n, m) \cup One(x, n, b) \cup One(y, m, c)
  BY PairIs
<1>2. InOrder(v) /\ LinesOf(v) = OthersOfTwo(t, m, n) \cup One(y, m, c) \cup One(x, n, b)
  BY PairIs
<1> HIDE DEF r, v
<1>3. OthersOfTwo(t, n, m) = OthersOfTwo(t, m, n)
  BY DEF OthersOfTwo
<1>4. LinesOf(r) = LinesOf(v)
  BY <1>1, <1>2, <1>3
<1>5. r = v
  BY <1>1, <1>2, <1>4, SameLines
<1>. QED  BY <1>5 DEF r, v

\* A snapshot of the line in hand and of another line leads back from the
\* program in which both were replaced.
(* The snapshot of two lines leads back from whatever becomes of both.     *)
LEMMA PairSnapshotIs ==
  ASSUME NEW w, Sane(w), w.has, NEW n \in Nat, n # w.number,
         NEW x \in BOOLEAN, NEW b, NEW y \in BOOLEAN, NEW c
  PROVE  LET s == CaptureOther(w, LineSnapshot(w), n)
             d == PairOf(w.doc, w.number, x, b, n, y, c)
         IN  s.state = w.state /\ Usable(s, d) /\ Back(d, s) = Text(w) /\ InOrder(d)
<1> DEFINE s == CaptureOther(w, LineSnapshot(w), n)
           d == PairOf(w.doc, w.number, x, b, n, y, c)
           t == Text(w)
           N == w.number
           z == TRUE
           q == IF Exact(w.doc, n) THEN Body(w, Locate(w.doc, n)) ELSE <<>>
           ex == Exact(w.doc, n)
           h == w.body
<1>1. InOrder(w.doc) /\ InHand(w)
  BY DEF Sane, Proper
<1>2. /\ s.kind = "pair" /\ s.state = w.state /\ s.number = N /\ s.existed = w.has
      /\ s.body = h /\ s.other = n /\ s.otherExisted = ex /\ s.otherBody = q
      /\ s.focus = N
  BY DEF CaptureOther, LineSnapshot
<1> HIDE DEF s
<1>3. s.existed = z /\ z \in BOOLEAN /\ ex \in BOOLEAN
  BY <1>1, <1>2 DEF InHand, Exact
<1>4. /\ N \in Nat /\ t = WithLine(w.doc, N, LineIf(z, N, h)) /\ w.index \in 1..Len(w.doc)
      /\ InOrder(t)
  BY <1>1, WrittenText, TextIs
<1>5. Under(t, n) = One(ex, n, q)
  BY <1>1, OtherIs
<1>6. Under(t, N) = One(z, N, h)
  <2>1. t[w.index].number = N /\ t[w.index].body = h /\ w.index \in 1..Len(t)
    BY <1>1, <1>4, TextIs, WrittenText DEF Body, InHand
  <2> HIDE DEF t, N, h
  <2>. QED  BY ZenonT(40), <1>4, <2>1, LineOf
<1>7. d = PairOf(t, N, x, b, n, y, c)
  <2> DEFINE k == w.doc
  <2>1. WithLine(WithLine(k, N, LineIf(z, N, h)), N, LineIf(x, N, b)) = WithLine(k, N, LineIf(x, N, b))
    <3> HIDE DEF z, N, h, k
    <3>. QED  BY <1>1, <1>3, <1>4, ReplaceTwice DEF k
  <2>2. WithLine(t, N, LineIf(x, N, b)) = WithLine(k, N, LineIf(x, N, b))
    BY <1>4, <2>1
  <2>. QED  BY <2>2 DEF PairOf
<1>8. N # n
  OBVIOUS
<1> HIDE DEF d, t, N, z, q, ex, h
<1>9. PairOf(PairOf(t, N, x, b, n, y, c), N, z, h, n, ex, q) = t
  BY <1>3, <1>4, <1>5, <1>6, <1>8, PairBack
<1>10. InOrder(d)
  BY <1>4, <1>7, <1>8, PairIs
<1>11. Back(d, s) = t
  BY <1>2, <1>3, <1>7, <1>9, BackIs
<1>12. Usable(s, d)
  BY <1>2, <1>3, <1>4, <1>8 DEF Usable
<1>. QED  BY <1>2, <1>10, <1>11, <1>12 DEF s, d, t, N


\* The edit leaves line i of d in hand.
(* Line i of d is that of number n, with body b.                           *)
LandsOn(d, i, n, b) ==
  InOrder(d) /\ i \in 1..Len(d) /\ d[i].number = n /\ d[i].body = b

(* An edit of numbered lines, then the cursor on one of them.              *)
LEMMA OnLineRecorded ==
  ASSUME NEW w, Sane(w), w.ok, w.has, ~Structured(w),
         NEW d, NEW i, NEW n, NEW b, LandsOn(d, i, n, b),
         NEW before, before.state = w.state, Usable(before, d), Back(d, before) = Text(w),
         NEW cursor, NEW v,
         v = EnsureCursorVisible(RecordEdit(OnLine([w EXCEPT !.doc = d], i, n, b, cursor),
                                            before, "None"))
  PROVE  NewState(w, v) /\ v.ok
<1> DEFINE a == [w EXCEPT !.doc = d]
           at == [a EXCEPT !.index = i, !.number = n, !.body = b, !.cursor = cursor,
                           !.dirty = FALSE]
           e == OnLine(a, i, n, b, cursor)
           g == "None"
           r == RecordEdit(e, before, g)
           p == CursorColumn(at)
<1>1. DOMAIN w = Fields /\ w.mode \in Modes /\ Stacks(w) /\ Named(w) /\ w.has \in BOOLEAN
  BY DEF Sane, Based, InHand
<1>2. /\ DOMAIN a = Fields /\ a.doc = d /\ SameNames(w, a)
      /\ \A f \in Fields \ {"doc"} : a[f] = w[f]
  BY WrittenIs
<1> HIDE DEF a
<1>3. /\ DOMAIN at = Fields /\ at.index = i /\ at.number = n /\ at.body = b /\ at.dirty = FALSE
      /\ \A f \in Fields \ {"index", "number", "body", "cursor", "dirty"} : at[f] = a[f]
  BY <1>2 DEF Fields
<1>4. e = [at EXCEPT !.preferred = p]
  BY DEF OnLine
<1> HIDE DEF at, p, e
<1>5. SameCore(at, e)
  BY <1>3, <1>4, Loose
<1>6. /\ DOMAIN e = Fields /\ e.index = i /\ e.number = n /\ e.body = b /\ e.dirty = FALSE
      /\ e.doc = d /\ e.has = w.has /\ e.ok = w.ok /\ SameNames(w, e)
  <2>1. /\ at.doc = d /\ at.has = w.has /\ at.ok = w.ok /\ at.mode = w.mode /\ at.depth = w.depth
        /\ at.ready = w.ready /\ at.state = w.state /\ at.next = w.next /\ at.saved = w.saved
        /\ at.undo = w.undo /\ at.redo = w.redo
    BY <1>2, <1>3 DEF Fields
  <2>2. /\ DOMAIN e = Fields /\ e.index = at.index /\ e.number = at.number /\ e.body = at.body
        /\ e.dirty = at.dirty /\ e.doc = at.doc /\ e.has = at.has /\ e.ok = at.ok
        /\ e.mode = at.mode /\ e.depth = at.depth /\ e.ready = at.ready /\ e.state = at.state
        /\ e.next = at.next /\ e.saved = at.saved /\ e.undo = at.undo /\ e.redo = at.redo
    BY <1>5, SameCoreFields
  <2>. QED  BY <1>3, <2>1, <2>2 DEF SameNames
<1>7. Stacks(e)
  BY <1>1, <1>6 DEF Stacks, SameNames
<1>8. DOMAIN r = Fields /\ \A f \in Fields \ Recorded : r[f] = e[f]
  BY <1>6, <1>7, RecordEditIs
<1> HIDE DEF r
<1>9. r.has = w.has /\ r.index = i /\ r.number = n /\ r.body = b /\ r.dirty = FALSE /\ r.doc = d
  BY <1>6, <1>8 DEF Fields, Recorded
<1>10. SameCore(r, v)
  <2>1. v = EnsureCursorVisible(r)
    BY DEF r, e, g, a
  <2>. QED  BY <1>1, <1>8, <1>9, <2>1, EnsureIsView
<1>11. SameRest(r, v)
  BY <1>10, SameRestFrom
<1>12. /\ v.has /\ v.index = i /\ v.number = n /\ v.body = b /\ ~v.dirty /\ v.doc = d
       /\ v.dirty \in BOOLEAN /\ v.has \in BOOLEAN
  <2>1. /\ v.has = r.has /\ v.index = r.index /\ v.number = r.number /\ v.body = r.body
        /\ v.dirty = r.dirty /\ v.doc = r.doc
    BY <1>10, SameCoreFields
  <2>. QED  BY <1>1, <1>9, <2>1
<1>13. InHand(v) /\ InOrder(v.doc)
  BY <1>12 DEF InHand, LandsOn
<1>14. Text(v) = d
  BY <1>12, <1>13, CleanText
<1>15. LeadsBack(w, v, before)
  BY <1>14 DEF LeadsBack
<1>16. BeginsRun(g, before, e.number)
  BY DEF BeginsRun
<1>17. Proper(w.mode, e.doc)
  BY <1>6 DEF Proper, LandsOn, Structured
<1>. QED  BY <1>6, <1>11, <1>13, <1>15, <1>16, <1>17, NewStateIs DEF r

\* Where the line of n is once two lines were replaced.
(* Where a new line is found.                                              *)
LEMMA PairLines ==
  ASSUME NEW t, InOrder(t), NEW n \in Nat, NEW x \in BOOLEAN, NEW b,
         NEW m \in Nat, NEW c, n # m, NEW k \in 1..Len(t), t[k].number = n
  PROVE  LET d == PairOf(t, n, TRUE, b, m, TRUE, c)
             j == LinesBelow(t, m)
         IN  /\ j \in 0..Len(t)
             /\ LandsOn(d, j + 1, m, c)
<1> DEFINE y == TRUE
           q == WithLine(t, n, LineIf(y, n, b))
           d == WithLine(q, m, LineIf(y, m, c))
           j == LinesBelow(t, m)
           h == LinesBelow(q, m)
<1>1. y \in BOOLEAN /\ Count(y) = 1 /\ Len(t) \in Nat
  BY SeqIs DEF Count, InOrder
<1> HIDE DEF y
<1>2. BodyReplaced(q, t, k, n, b)
  BY NewBody DEF y
<1> HIDE DEF q
<1>3. InOrder(q) /\ Len(q) = Len(t) /\ \A i \in 1..Len(t) : q[i].number = t[i].number
  BY <1>2 DEF BodyReplaced
<1>4. IsBelow(q, m, h) /\ IsBelow(t, m, j)
  BY <1>3, BelowIs
<1>5. IsBelow(q, m, j)
  BY <1>3, <1>4 DEF IsBelow
<1>6. h = j
  BY <1>3, <1>5, BelowIs
<1>7. LineReplaced(d, q, m, c, Count(y), h, LinesBelow(q, m + 1)) /\ InOrder(d)
  BY <1>1, <1>3, WithLineElements, WithLineIs
<1> HIDE DEF d
<1>8. d[h + 1] = [number |-> m, body |-> c] /\ h \in 0..Len(t)
  BY <1>1, <1>3, <1>7 DEF LineReplaced
<1>9. h + 1 \in 1..Len(d)
  <2> DEFINE L == LinesBelow(q, m + 1)
             N == Len(t)
             D == Len(d)
  <2>1. N \in Nat /\ L \in 0..N /\ h \in 0..N /\ D = h + Count(y) + (N - L)
    BY <1>1, <1>3, <1>7 DEF LineReplaced
  <2> HIDE DEF L, N, D
  <2>2. h + 1 \in 1..D
    BY <1>1, <2>1
  <2>. QED  BY <2>2 DEF D
<1>10. d = PairOf(t, n, y, b, m, y, c)
  BY DEF d, q, PairOf
<1>11. LandsOn(d, h + 1, m, c)
  BY <1>7, <1>8, <1>9 DEF LandsOn
<1>12. d = PairOf(t, n, TRUE, b, m, TRUE, c)
  BY <1>10 DEF y
<1>13. j \in 0..Len(t)
  BY <1>4 DEF IsBelow
<1> HIDE DEF j, h
<1>14. LandsOn(d, j + 1, m, c)
  BY <1>6, <1>11
<1>. QED  BY <1>12, <1>13, <1>14 DEF j


LEMMA LineIfIs ==
  ASSUME NEW n, NEW b
  PROVE  LineIf(TRUE, n, b) = Line(n, b) /\ LineIf(FALSE, n, b) = <<>>
BY DEF LineIf

(* ENTER, in a numbered program.                                           *)
LEMMA SplitNumberedIs ==
  ASSUME NEW w, Sane(w), w.ok, ~Structured(w), NEW n \in Nat
  PROVE  Outcome(w, SplitNumbered(w, n))
<1> DEFINE before == CaptureOther(w, LineSnapshot(w), n)
           b == IF w.cursor = 0 THEN w.body ELSE Before(w)
           c == IF w.cursor = 0 THEN <<>> ELSE After(w)
           y == TRUE
           d == PairOf(w.doc, w.number, y, b, n, y, c)
           i == IF w.cursor = 0 THEN w.index ELSE w.index + 1
           written == Write(w, d)
           o == 0
           v == EnsureCursorVisible(RecordEdit(OnLine(written, i, n, c, o), before, "None"))
           r == SplitNumbered(w, n)
<1>1. r = IF ~w.has \/ ~NumberFits(w, n) THEN Refuse(w) ELSE IF ~written.ok THEN written ELSE v
  <2>1. d = WithLine(WithLine(w.doc, w.number, Line(w.number, b)), n, Line(n, c))
    BY LineIfIs DEF PairOf
  <2> HIDE DEF d
  <2>2. CASE w.cursor = 0
    BY <2>1, <2>2 DEF SplitNumbered, PairWritten
  <2>3. CASE w.cursor # 0
    BY <2>1, <2>3 DEF SplitNumbered, PairWritten
  <2>. QED  BY <2>2, <2>3
<1> HIDE DEF r
<1>2. CASE ~w.has \/ ~NumberFits(w, n)
  <2>1. r = Refuse(w)
    BY <1>1, <1>2
  <2>. QED  BY <2>1, RefuseOutcome DEF r
<1>3. CASE w.has /\ NumberFits(w, n)
  <2>1. InOrder(w.doc) /\ InHand(w)
    BY DEF Sane, Proper
  <2>2. /\ w.index \in 1..Len(w.doc) /\ w.number = w.doc[w.index].number /\ Len(w.doc) \in Nat
        /\ \A k \in 1..Len(w.doc) : w.doc[k].number \in Nat
    BY <1>3, <2>1, SeqIs DEF InHand, InOrder, IsLine
  <2>3. n # w.number
    BY <1>3, <2>2 DEF NumberFits
  <2> DEFINE j == i - 1
             t == w.doc
  <2>4. j \in 0..Len(t) /\ j + 1 = i
    BY <2>2
  <2>5. (j > 0 => t[j].number < n) /\ (j < Len(t) => t[j + 1].number >= n)
    <3>1. CASE w.cursor = 0
      <4>1. j = w.index - 1 /\ j + 1 = w.index
        BY <2>2, <3>1
      <4>2. n < w.number /\ (w.index > 1 => n > w.doc[w.index - 1].number)
        BY <1>3, <3>1 DEF NumberFits
      <4> HIDE DEF j, i
      <4>3. w.doc[w.index].number >= n /\ w.index - 1 = j
        BY <2>2, <4>1, <4>2
      <4>4. j > 0 => t[j].number < n
        BY <2>2, <4>1, <4>2
      <4>5. t[j + 1].number >= n
        BY <4>1, <4>3
      <4>. QED  BY <4>4, <4>5
    <3>2. CASE w.cursor # 0
      <4>1. j = w.index
        BY <2>2, <3>2
      <4>2. n > w.number /\ (w.index < Len(w.doc) => n < w.doc[w.index + 1].number)
        BY <1>3, <3>2 DEF NumberFits
      <4>. QED  BY <2>2, <4>1, <4>2
    <3>. QED  BY <3>1, <3>2
  <2>6. LinesBelow(t, n) = j
    <3> HIDE DEF j, t
    <3>. QED  BY <2>1, <2>4, <2>5, Between DEF t
  <2>7. LandsOn(d, i, n, c)
    <3>1. LandsOn(PairOf(t, w.number, TRUE, b, n, TRUE, c), LinesBelow(t, n) + 1, n, c)
      <4> HIDE DEF b, c
      <4>. QED  BY <2>1, <2>2, <2>3, PairLines
    <3>. QED  BY <2>4, <2>6, <3>1
  <2>8. before.state = w.state /\ Usable(before, d) /\ Back(d, before) = Text(w)
    <3>1. y \in BOOLEAN
      OBVIOUS
    <3> HIDE DEF b, c, y
    <3>. QED  BY <1>3, <2>3, <3>1, PairSnapshotIs
  <2> HIDE DEF d, before, i, b, c, o
  <2>9. CASE ~written.ok
    <3>1. r = Refuse(w)
      BY <1>1, <1>3, <2>9, WriteIs
    <3>. QED  BY <3>1, RefuseOutcome DEF r
  <2>10. CASE written.ok
    <3>1. written = [w EXCEPT !.doc = d] /\ r = v
      BY <1>1, <1>3, <2>10, WriteIs, RefuseIs
    <3>2. NewState(w, v) /\ v.ok
      <4>1. v = EnsureCursorVisible(RecordEdit(OnLine([w EXCEPT !.doc = d], i, n, c, o), before, "None"))
        BY <3>1
      <4> HIDE DEF v
      <4>. QED  BY <1>3, <2>7, <2>8, <4>1, OnLineRecorded
    <3>. QED  BY <3>1, <3>2 DEF Outcome, r
  <2>. QED  BY <2>9, <2>10
<1>. QED  BY <1>2, <1>3 DEF r

\* Of two lines joined, the first is in hand.
(* Where the joined line is found.                                         *)
LEMMA JoinLines ==
  ASSUME NEW t, InOrder(t), NEW a \in 1..Len(t), a + 1 \in 1..Len(t), NEW b, NEW c
  PROVE  LandsOn(PairOf(t, t[a].number, TRUE, b, t[a + 1].number, FALSE, c), a, t[a].number, b)
<1> DEFINE y == TRUE
           x == FALSE
           p == a + 1
           n == t[a].number
           g == t[p].number
           q == WithLine(t, n, LineIf(y, n, b))
           d == WithLine(q, g, LineIf(x, g, c))
           h == LinesBelow(q, g)
<1>1. x \in BOOLEAN /\ Count(x) = 0 /\ Len(t) \in Nat /\ p \in 1..Len(t) /\ p # a
  BY SeqIs DEF Count, InOrder
<1>2. n \in Nat /\ g \in Nat
  BY <1>1 DEF InOrder, IsLine
<1> HIDE DEF p, n, g
<1>3. BodyReplaced(q, t, a, n, b)
  BY NewBody DEF n
<1> HIDE DEF q, x, y
<1>4. InOrder(q) /\ Len(q) = Len(t) /\ q[p].number = g /\ q[a] = [number |-> n, body |-> b]
  BY <1>1, <1>3 DEF BodyReplaced, g
<1>5. h = p - 1
  BY <1>1, <1>4, LineAt
<1>6. LineReplaced(d, q, g, c, Count(x), h, LinesBelow(q, g + 1)) /\ InOrder(d)
  BY <1>1, <1>2, <1>4, WithLineElements, WithLineIs
<1>7. h = a
  BY <1>5 DEF p
<1>8. d[a] = q[a] /\ a \in 1..Len(d)
  <2> DEFINE L == LinesBelow(q, g + 1)
             N == Len(t)
             D == Len(d)
  <2>1. N \in Nat /\ L \in 0..N /\ D = h + Count(x) + (N - L) /\ \A i \in 1..h : d[i] = q[i]
    BY <1>1, <1>4, <1>6 DEF LineReplaced
  <2> HIDE DEF L, N, D, d, h
  <2>2. a \in 1..h /\ a \in 1..D
    BY <1>1, <1>7, <2>1
  <2>. QED  BY <2>1, <2>2 DEF D
<1>9. LandsOn(d, a, n, b)
  BY <1>4, <1>6, <1>8 DEF LandsOn
<1>10. d = PairOf(t, n, TRUE, b, g, FALSE, c)
  BY DEF d, q, x, y, PairOf
<1>. QED  BY <1>9, <1>10 DEF n, g, p


\* The snapshot s leads from the document d back to the text of w.
(* s leads from the document d back to w's text.                           *)
LeadsFrom(w, d, s) == s.state = w.state /\ Usable(s, d) /\ Back(d, s) = Text(w)

LEMMA PairLeads ==
  ASSUME NEW w, Sane(w), w.has, NEW n \in Nat, n # w.number,
         NEW x \in BOOLEAN, NEW b, NEW y \in BOOLEAN, NEW c
  PROVE  LeadsFrom(w, PairOf(w.doc, w.number, x, b, n, y, c), CaptureOther(w, LineSnapshot(w), n))
BY ZenonT(40), PairSnapshotIs DEF LeadsFrom

\* The line in hand and the one before or behind it, and their numbers.
(* The two lines that a join makes one of: the one that stays and the one  *)
(* that goes.                                                              *)
Neighbours(w, a, previous, n, kept, gone) ==
  /\ a \in 1..Len(w.doc) /\ a + 1 \in 1..Len(w.doc) /\ previous \in BOOLEAN
  /\ w.index = (IF previous THEN a + 1 ELSE a)
  /\ n = w.doc[IF previous THEN a ELSE a + 1].number
  /\ kept = w.doc[a].number /\ gone = w.doc[a + 1].number

\* What joining them leaves.
(* What join_line makes of w.                                              *)
JoinedBy(w, v, a, n, kept, gone, b, cursor) ==
  LET written == PairWritten(v, kept, b, gone, <<>>)
  IN  IF ~written.ok THEN written
      ELSE EnsureCursorVisible(RecordEdit(OnLine(written, a, kept, b, cursor),
                                          CaptureOther(w, LineSnapshot(w), n), "None"))

(* Joining two lines, in a numbered program.                               *)
LEMMA JoinNumbered ==
  ASSUME NEW w, Sane(w), w.ok, w.has, ~Structured(w),
         NEW v, Quiet(w, v), v.group = "None", v.ok, v.doc = w.doc, v.has,
         NEW a, NEW previous, NEW n, NEW kept, NEW gone, Neighbours(w, a, previous, n, kept, gone),
         NEW b, NEW cursor
  PROVE  Outcome(w, JoinedBy(w, v, a, n, kept, gone, b, cursor))
<1> DEFINE x == FALSE
           y == TRUE
           c == <<>>
           before == CaptureOther(w, LineSnapshot(w), n)
           d == PairOf(w.doc, kept, y, b, gone, x, c)
           written == Write(v, d)
           u == EnsureCursorVisible(RecordEdit(OnLine(written, a, kept, b, cursor), before, "None"))
           r == IF ~written.ok THEN written ELSE u
<1>0. /\ a \in 1..Len(w.doc) /\ a + 1 \in 1..Len(w.doc) /\ previous \in BOOLEAN
      /\ w.index = (IF previous THEN a + 1 ELSE a)
      /\ n = w.doc[IF previous THEN a ELSE a + 1].number
      /\ kept = w.doc[a].number /\ gone = w.doc[a + 1].number
  BY DEF Neighbours
<1>1. PairWritten(v, kept, b, gone, <<>>) = written
  BY LineIfIs DEF PairWritten, PairOf
<1>2. /\ InOrder(w.doc) /\ InHand(w) /\ kept \in Nat /\ gone \in Nat /\ kept # gone
      /\ w.number = w.doc[w.index].number
  <2>1. InOrder(w.doc) /\ InHand(w)
    BY DEF Sane, Proper
  <2>2. Len(w.doc) \in Nat /\ a < a + 1
    BY <1>0, <2>1, SeqIs DEF InOrder
  <2>3. kept \in Nat /\ gone \in Nat /\ kept < gone
    BY <1>0, <2>1, <2>2 DEF InOrder, IsLine
  <2>4. w.number = w.doc[w.index].number
    BY <2>1 DEF InHand
  <2>. QED  BY <2>1, <2>3, <2>4
<1>3. LandsOn(d, a, kept, b)
  BY <1>0, <1>2, JoinLines
<1>4. before.state = w.state /\ Usable(before, d) /\ Back(d, before) = Text(w)
  <2>1. x \in BOOLEAN /\ y \in BOOLEAN
    OBVIOUS
  <2>2. CASE previous
    <3>1. w.number = gone /\ n = kept /\ n # w.number /\ n \in Nat
      BY <1>0, <1>2, <2>2
    <3> DEFINE q == PairOf(w.doc, w.number, x, c, n, y, b)
    <3>2. d = q
      <4> HIDE DEF x, y, c
      <4>1. d = PairOf(w.doc, gone, x, c, kept, y, b)
        BY <1>2, <2>1, PairSwap
      <4>. QED  BY <3>1, <4>1
    <3>3. LeadsFrom(w, q, before)
      <4> HIDE DEF x, y, c
      <4>. QED  BY <2>1, <3>1, PairLeads
    <3> HIDE DEF d, q, before
    <3>. QED  BY <3>2, <3>3 DEF LeadsFrom
  <2>3. CASE ~previous
    <3>1. w.number = kept /\ n = gone /\ n # w.number /\ n \in Nat
      BY <1>0, <1>2, <2>3
    <3> DEFINE q == PairOf(w.doc, w.number, y, b, n, x, c)
    <3>2. d = q
      BY <3>1
    <3>3. LeadsFrom(w, q, before)
      <4> HIDE DEF x, y, c
      <4>. QED  BY <2>1, <3>1, PairLeads
    <3> HIDE DEF d, q, before
    <3>. QED  BY <3>2, <3>3 DEF LeadsFrom
  <2>. QED  BY <2>2, <2>3
<1> HIDE DEF d, before
<1>5. Sane(v) /\ v.state = w.state /\ Text(v) = Text(w) /\ ~Structured(v)
  BY DEF Quiet, Structured
<1>6. Outcome(v, r)
  <2>1. CASE ~written.ok
    <3>1. r = Refuse(v)
      BY <1>5, <2>1, WriteIs
    <3> HIDE DEF r
    <3>. QED  BY <1>5, <3>1, RefuseOutcome
  <2>2. CASE written.ok
    <3>1. written = [v EXCEPT !.doc = d] /\ r = u
      BY <1>5, <2>2, WriteIs, RefuseIs
    <3>2. u = EnsureCursorVisible(RecordEdit(OnLine([v EXCEPT !.doc = d], a, kept, b, cursor), before, "None"))
      BY <3>1
    <3>3. before.state = v.state /\ Back(d, before) = Text(v)
      BY <1>4, <1>5
    <3> HIDE DEF u, written, r
    <3>4. NewState(v, u) /\ u.ok
      BY <1>3, <1>4, <1>5, <3>2, <3>3, OnLineRecorded
    <3>. QED  BY <3>1, <3>4 DEF Outcome
  <2>. QED  BY <2>1, <2>2
<1> HIDE DEF r
<1>7. Outcome(w, r)
  BY <1>6, QuietOutcome
<1>8. r = JoinedBy(w, v, a, n, kept, gone, b, cursor)
  BY <1>1 DEF r, u, before, JoinedBy
<1>. QED  BY <1>7, <1>8

LEMMA JoinLineIs ==
  ASSUME NEW w, Sane(w), w.ok, NEW previous \in BOOLEAN
  PROVE  Outcome(w, JoinLine(w, previous))
<1> DEFINE v == HistoryBoundary(w)
           other == IF previous THEN w.index - 1 ELSE w.index + 1
           n == w.doc[other].number
           body == w.doc[other].body
           joined == IF previous THEN body \o w.body ELSE w.body \o body
           seam == IF previous THEN Len(body) ELSE Len(w.body)
           index == Min({w.index, other})
           kept == IF previous THEN n ELSE w.number
           gone == IF previous THEN w.number ELSE n
           written == PairWritten(v, kept, joined, gone, <<>>)
           e == EnsureCursorVisible(RecordEdit(OnLine(written, index, kept, joined, seam),
                                               CaptureOther(w, LineSnapshot(w), n), "None"))
           r == JoinLine(w, previous)
           q == StructuredReplace(v, index, 2, <<joined>>, index, seam)
<1>1. r = IF ~w.has \/ other \notin DOMAIN w.doc \/ Len(joined) > w.limit THEN Refuse(v)
          ELSE IF Structured(w) THEN q ELSE IF ~written.ok THEN written ELSE e
  BY DEF JoinLine
<1> HIDE DEF r, q
<1>2. Quiet(w, v) /\ v.group = "None"
  BY BoundaryIs
<1>3. /\ Sane(v) /\ v.ok = w.ok /\ v.doc = w.doc /\ v.has = w.has /\ v.mode = w.mode
      /\ v.index = w.index /\ v.dirty = w.dirty
  BY ZenonT(40), <1>2, BoundaryIs DEF Quiet, Fields
<1>4. InOrder(w.doc) /\ InHand(w) /\ Len(w.doc) \in Nat /\ DOMAIN w.doc = 1..Len(w.doc)
  BY SeqIs DEF Sane, Proper, InOrder
<1> HIDE DEF v
<1>5. CASE ~w.has \/ other \notin DOMAIN w.doc \/ Len(joined) > w.limit
  <2>1. r = Refuse(v)
    BY <1>1, <1>5
  <2>2. Outcome(v, Refuse(v))
    BY <1>3, RefuseOutcome
  <2>3. Outcome(w, Refuse(v))
    BY <1>2, <2>2, QuietOutcome
  <2>. QED  BY <2>1, <2>3 DEF r
<1>6. CASE ~(~w.has \/ other \notin DOMAIN w.doc \/ Len(joined) > w.limit)
  <2> DEFINE a == IF previous THEN w.index - 1 ELSE w.index
  <2>1. w.index \in 1..Len(w.doc) /\ other \in 1..Len(w.doc)
    BY <1>4, <1>6 DEF InHand
  <2>2. /\ a \in 1..Len(w.doc) /\ a + 1 \in 1..Len(w.doc) /\ a \in Nat \ {0}
        /\ w.index = (IF previous THEN a + 1 ELSE a)
        /\ other = (IF previous THEN a ELSE a + 1)
    BY <1>4, <2>1
  <2>3. index = a
    <3> HIDE DEF a, other
    <3>1. Min({w.index, other}) = IF w.index <= other THEN w.index ELSE other
      BY <1>4, <2>1 DEF Min
    <3>2. index = IF w.index <= other THEN w.index ELSE other
      BY <3>1
    <3> HIDE DEF index
    <3>. QED  BY <1>4, <2>2, <3>2
  <2>4. CASE Structured(w)
    <3>1. r = q
      BY <1>1, <1>6, <2>4
    <3>2. IsSeq(<<joined>>)
      BY Singleton
    <3>3. a + 2 <= Len(v.doc) + 1 /\ (v.dirty => a <= v.index /\ v.index < a + 2)
      BY <1>3, <1>4, <2>2
    <3>4. Structured(v)
      BY <1>3, <2>4 DEF Structured
    <3>5. q = StructuredReplace(v, a, 2, <<joined>>, a, seam)
      BY <2>3 DEF q
    <3> DEFINE two == 2
    <3>6. two \in Nat
      OBVIOUS
    <3>7. Outcome(v, StructuredReplace(v, a, two, <<joined>>, a, seam))
      <4> HIDE DEF a, two, joined, seam
      <4>1. a + two <= Len(v.doc) + 1 /\ (v.dirty => a <= v.index /\ v.index < a + two)
        BY <3>3 DEF two
      <4>. QED  BY <1>3, <2>2, <3>2, <3>4, <3>6, <4>1, StructuredReplaceIs
    <3> HIDE DEF joined, seam
    <3>8. Outcome(v, r)
      BY <3>1, <3>5, <3>7
    <3>. QED  BY <1>2, <3>8, QuietOutcome DEF r
  <2>5. CASE ~Structured(w)
    <3>1. r = IF ~written.ok THEN written ELSE e
      BY <1>1, <1>6, <2>5
    <3>2. /\ n = w.doc[IF previous THEN a ELSE a + 1].number
          /\ kept = w.doc[a].number /\ gone = w.doc[a + 1].number
      <4>1. w.number = w.doc[w.index].number
        BY <1>4, <1>6 DEF InHand
      <4>2. other = IF previous THEN a ELSE a + 1
        BY <2>2
      <4> HIDE DEF a, other
      <4>. QED  BY <2>2, <4>1, <4>2
    <3>3. r = JoinedBy(w, v, a, n, kept, gone, joined, seam)
      BY <2>3, <3>1 DEF JoinedBy
    <3> HIDE DEF a, index, kept, gone, n, joined, seam
    <3>4. Neighbours(w, a, previous, n, kept, gone)
      BY <2>2, <3>2 DEF Neighbours
    <3>5. v.ok /\ v.has /\ w.has
      BY <1>3, <1>6
    <3>6. Outcome(w, JoinedBy(w, v, a, n, kept, gone, joined, seam))
      BY <1>2, <1>3, <2>5, <3>4, <3>5, JoinNumbered
    <3>. QED  BY <3>3, <3>6 DEF r
  <2>. QED  BY <2>4, <2>5
<1>. QED  BY <1>5, <1>6 DEF r


\* An edit, its record, and the move to a line of the document it leaves.
LEMMA FocusedRecorded ==
  ASSUME NEW w, Sane(w), w.ok, ~Structured(w), NEW d, InOrder(d),
         NEW before, LeadsFrom(w, d, before),
         NEW v, Focused(RecordEdit([w EXCEPT !.doc = d], before, "None"), v)
  PROVE  NewState(w, v) /\ v.ok
<1> DEFINE e == [w EXCEPT !.doc = d]
           g == "None"
           r == RecordEdit(e, before, g)
<1>1. DOMAIN e = Fields /\ e.doc = d /\ SameNames(w, e) /\ e.ok = w.ok
  <2>1. DOMAIN e = Fields /\ e.doc = d /\ SameNames(w, e)
        /\ \A f \in Fields \ {"doc"} : e[f] = w[f]
    BY WrittenIs
  <2> HIDE DEF e
  <2>2. e.ok = w.ok
    BY <2>1 DEF Fields
  <2>. QED  BY <2>1, <2>2
<1>2. Focused(r, v)
  OBVIOUS
<1> HIDE DEF e, g
<1>3. Stacks(e)
  BY <1>1 DEF SameNames, Sane, Based, Stacks
<1>4. DOMAIN r = Fields /\ \A f \in Fields \ Recorded : r[f] = e[f]
  BY <1>1, <1>3, RecordEditIs
<1> HIDE DEF r
<1>5. r.doc = d
  BY <1>1, <1>4 DEF Fields, Recorded
<1>6. SameRest(r, v) /\ InHand(v) /\ ~v.dirty /\ v.doc = d
  <2>1. SameRest(r, v) /\ InHand(v) /\ ~v.dirty
    BY <1>2 DEF Focused
  <2>2. v.doc = r.doc
    BY <2>1, SameRestFields
  <2>. QED  BY <1>5, <2>1, <2>2
<1>7. Text(v) = d
  BY <1>6, CleanText
<1>8. LeadsBack(w, v, before)
  BY <1>7 DEF LeadsBack, LeadsFrom
<1>9. BeginsRun(g, before, e.number)
  BY DEF BeginsRun, g
<1>10. Proper(w.mode, e.doc)
  BY <1>1 DEF Proper, Structured
<1>11. SameRest(RecordEdit(e, before, g), v)
  BY <1>6 DEF r
<1>. QED  BY <1>1, <1>6, <1>8, <1>9, <1>10, <1>11, NewStateIs

\* GoTo is a move to a line of the document.
LEMMA GoToIs ==
  ASSUME NEW w, DOMAIN w = Fields, InOrder(w.doc), NEW i
  PROVE  /\ i \in 1..Len(w.doc) => Focused(w, GoTo(w, i))
         /\ i \notin 1..Len(w.doc) => ~GoTo(w, i).ok
<1> DEFINE p == 0
           y == TRUE
           a == [w EXCEPT !.preferred = p]
<1>1. GoTo(w, i) = LoadIndex(a, i, y, y) /\ y \in BOOLEAN
  BY DEF GoTo
<1>2. SameCore(w, a)
  <2> HIDE DEF p
  <2>. QED  BY Loose
<1> HIDE DEF a, y
<1>3. DOMAIN a = Fields /\ a.doc = w.doc
  BY <1>2, SameCoreFields
<1>4. /\ i \in 1..Len(w.doc) => Focused(a, LoadIndex(a, i, y, y))
      /\ i \notin 1..Len(w.doc) => LoadIndex(a, i, y, y) = Refuse(a)
  BY <1>1, <1>3, LoadIndexIs
<1>5. ~Refuse(a).ok
  BY <1>3 DEF Refuse, Fields
<1>6. ASSUME NEW v, Focused(a, v) PROVE Focused(w, v)
  BY <1>2, <1>6, SameRestFrom DEF Focused
<1>. QED  BY <1>1, <1>4, <1>5, <1>6

(* A new line, in a numbered program.                                      *)
LEMMA InsertNumberedIs ==
  ASSUME NEW w, Sane(w), w.ok, ~Structured(w), ~w.dirty, NEW n \in Nat
  PROVE  Outcome(w, InsertNumbered(w, n))
<1> DEFINE t == w.doc
           x == TRUE
           y == FALSE
           b == <<>>
           before == [CaptureLine(w, n) EXCEPT !.index = Locate(w.doc, n)]
           d == WithLine(t, n, LineIf(x, n, b))
           v == Write(w, d)
           g == "None"
           u == GoTo(RecordEdit(v, before, g), Locate(v.doc, n))
           r == InsertNumbered(w, n)
<1>1. r = IF Exact(w.doc, n) THEN Refuse(w) ELSE IF ~v.ok THEN v ELSE u
  BY LineIfIs DEF InsertNumbered
<1>2. InOrder(t) /\ InHand(w) /\ DOMAIN t = 1..Len(t)
  BY SeqIs DEF Sane, Proper, InOrder
<1>3. x \in BOOLEAN /\ y \in BOOLEAN
  OBVIOUS
<1> HIDE DEF r, u
<1>4. CASE Exact(w.doc, n)
  <2>1. r = Refuse(w)
    BY <1>1, <1>4
  <2>. QED  BY <2>1, RefuseOutcome DEF r
<1>5. CASE ~Exact(w.doc, n)
  <2>1. before.kind = "line" /\ before.state = w.state /\ before.number = n
        /\ before.existed = y /\ before.body = b /\ before.index = Locate(t, n)
    BY <1>5 DEF CaptureLine
  <2> HIDE DEF before
  <2>2. Under(t, n) = One(y, n, b)
    <3>1. \A i \in 1..Len(t) : t[i].number # n
      BY <1>2, <1>5 DEF Exact
    <3>. QED  BY <3>1, NoLineOf
  <2> HIDE DEF x, y, b, t
  <2>3. WithLine(d, n, LineIf(y, n, b)) = t
    BY <1>2, <1>3, <2>2, ReplaceBack
  <2>4. Back(d, before) = Text(w)
    <3>1. Back(d, before) = WithLine(d, n, LineIf(y, n, b))
      BY <2>1, BackIs
    <3>2. Text(w) = t
      BY <1>2, CleanText DEF t
    <3>. QED  BY <2>3, <3>1, <3>2
  <2>5. Usable(before, d)
    <3>1. Locate(t, n) \in Nat \ {0}
      BY <1>2, LocateIs
    <3>. QED  BY <1>3, <2>1, <3>1 DEF Usable
  <2>6. LeadsFrom(w, d, before)
    BY <2>1, <2>4, <2>5 DEF LeadsFrom
  <2>7. InOrder(d) /\ LinesOf(d) = Others(t, n) \cup One(x, n, b)
    BY <1>2, <1>3, WithLineIs
  <2>8. d # <<>>
    <3>1. LinesOf(d) # {}
      BY <2>7 DEF One, x
    <3>2. \E i \in 1..Len(d) : TRUE
      BY <3>1 DEF LinesOf
    <3> HIDE DEF d
    <3>3. Len(d) # 0
      BY <3>2
    <3>. QED  BY <3>3, NoElements
  <2> HIDE DEF d
  <2>9. CASE ~v.ok
    <3>1. r = Refuse(w)
      BY <1>1, <1>5, <2>9, WriteIs
    <3>. QED  BY <3>1, RefuseOutcome DEF r
  <2>10. CASE v.ok
    <3> DEFINE e == [w EXCEPT !.doc = d]
               q == RecordEdit(e, before, g)
               i == Locate(d, n)
    <3>1. v = e
      BY <2>10, WriteIs, RefuseIs
    <3>2. DOMAIN e = Fields /\ e.doc = d /\ SameNames(w, e)
      BY WrittenIs
    <3>3. r = GoTo(q, i)
      BY <1>1, <1>5, <2>10, <3>1, <3>2 DEF u
    <3> HIDE DEF e, v
    <3>4. Stacks(e)
      BY <3>2 DEF SameNames, Sane, Based, Stacks
    <3>5. DOMAIN q = Fields /\ q.doc = d
      <4>1. DOMAIN q = Fields /\ \A f \in Fields \ Recorded : q[f] = e[f]
        BY <3>2, <3>4, RecordEditIs
      <4> HIDE DEF q
      <4>. QED  BY <3>2, <4>1 DEF Fields, Recorded
    <3>6. i \in 1..Len(q.doc)
      BY <2>7, <2>8, <3>5, LocateIs
    <3> HIDE DEF q, i
    <3>7. Focused(q, r)
      BY <2>7, <3>3, <3>5, <3>6, GoToIs
    <3>8. Focused(RecordEdit([w EXCEPT !.doc = d], before, "None"), r)
      BY <3>7 DEF q, e
    <3>9. NewState(w, r) /\ r.ok
      BY <2>6, <2>7, <3>8, FocusedRecorded
    <3>. QED  BY <3>9 DEF Outcome, r
  <2>. QED  BY <2>9, <2>10
<1>. QED  BY <1>4, <1>5


(* A line less, in a numbered program.                                     *)
LEMMA DeleteNumberedIs ==
  ASSUME NEW w, Sane(w), w.ok, w.has, ~Structured(w), ~w.dirty
  PROVE  Outcome(w, DeleteNumbered(w))
<1> DEFINE t == w.doc
           n == w.number
           y == FALSE
           b == <<>>
           before == LineSnapshot(w)
           d == WithLine(t, n, LineIf(y, n, b))
           v == Write(w, d)
           g == "None"
           q == RecordEdit(v, before, g)
           i == Min({w.index, Len(v.doc)})
           r == DeleteNumbered(w)
<1>1. r = IF ~v.ok THEN v ELSE IF v.doc = <<>> THEN Empty(q) ELSE GoTo(q, i)
  BY LineIfIs DEF DeleteNumbered
<1> HIDE DEF r
<1>2. InOrder(t) /\ InHand(w) /\ n \in Nat /\ w.index \in Nat \ {0}
  <2>1. InOrder(t) /\ InHand(w)
    BY DEF Sane, Proper
  <2>2. n \in Nat /\ w.index \in 1..Len(t)
    BY <2>1, WrittenText
  <2>3. Len(t) \in Nat
    BY <2>1, SeqIs DEF InOrder
  <2>. QED  BY <2>1, <2>2, <2>3
<1>3. LeadsFrom(w, d, before) /\ InOrder(d)
  <2>1. y \in BOOLEAN
    OBVIOUS
  <2> HIDE DEF b, y
  <2>2. before.state = w.state /\ Usable(before, d) /\ Back(d, before) = Text(w)
    BY <1>2, <2>1, LineSnapshotIs
  <2>3. InOrder(d)
    BY <1>2, <2>1, WithLineIs
  <2>. QED  BY <2>2, <2>3 DEF LeadsFrom
<1> HIDE DEF d, before
<1>4. CASE ~v.ok
  <2>1. r = Refuse(w)
    BY <1>1, <1>4, WriteIs
  <2>. QED  BY <2>1, RefuseOutcome DEF r
<1>5. CASE v.ok
  <2> DEFINE e == [w EXCEPT !.doc = d]
             z == RecordEdit(e, before, g)
  <2>1. v = e
    BY <1>5, WriteIs, RefuseIs
  <2>2. DOMAIN e = Fields /\ e.doc = d /\ SameNames(w, e)
    BY WrittenIs
  <2>3. q = z
    BY <2>1
  <2> HIDE DEF e, v, q
  <2>4. Stacks(e)
    BY <2>2 DEF SameNames, Sane, Based, Stacks
  <2>5. DOMAIN z = Fields /\ z.doc = d
    <3>1. DOMAIN z = Fields /\ \A f \in Fields \ Recorded : z[f] = e[f]
      BY <2>2, <2>4, RecordEditIs
    <3> HIDE DEF z
    <3>. QED  BY <2>2, <3>1 DEF Fields, Recorded
  <2> HIDE DEF z
  <2>6. Focused(z, r)
    <3>1. CASE d = <<>>
      <4>1. r = Empty(z)
        BY <1>1, <1>5, <2>1, <2>2, <2>3, <3>1
      <4>. QED  BY <2>5, <3>1, <4>1, EmptyIs
    <3>2. CASE d # <<>>
      <4>1. r = GoTo(z, i)
        BY <1>1, <1>5, <2>1, <2>2, <2>3, <3>2
      <4> DEFINE N == Len(d)
      <4>2. N \in Nat /\ N # 0 /\ i = Min({w.index, N})
        BY <1>3, <2>1, <2>2, <3>2, SeqIs, NoElements DEF InOrder
      <4> HIDE DEF N, i
      <4>3. i = IF w.index <= N THEN w.index ELSE N
        <5> DEFINE m == w.index
        <5>1. m \in Nat \ {0}
          BY <1>2
        <5> HIDE DEF m
        <5>2. Min({m, N}) = IF m <= N THEN m ELSE N
          BY <4>2, <5>1 DEF Min
        <5>. QED  BY <4>2, <5>2 DEF m
      <4>4. i \in 1..N
        BY <1>2, <4>2, <4>3
      <4>. QED  BY <1>3, <2>5, <4>1, <4>4, GoToIs DEF N
    <3>. QED  BY <3>1, <3>2
  <2>7. Focused(RecordEdit([w EXCEPT !.doc = d], before, "None"), r)
    BY <2>6 DEF z, e
  <2>8. NewState(w, r) /\ r.ok
    BY <1>3, <2>7, FocusedRecorded
  <2>. QED  BY <2>8 DEF Outcome, r
<1>. QED  BY <1>4, <1>5

\* The line in hand written back and the run of keys ended, or a refusal.
(* Every operation on whole lines ends the run and commits first.          *)
LEMMA BoundCommitIs ==
  ASSUME NEW w, Sane(w), w.ok
  PROVE  LET v == Commit(HistoryBoundary(w))
         IN  \/ /\ Quiet(w, v) /\ v.ok /\ ~v.dirty /\ v.group = "None"
                /\ v.has = w.has /\ v.doc = Text(w) /\ v.mode = w.mode /\ Sane(v)
                /\ v.ready = w.ready /\ v.undo = w.undo /\ v.redo = w.redo
                /\ v.state = w.state /\ v.fault = w.fault
             \/ ~v.ok /\ Quiet(w, v)
<1> DEFINE b == HistoryBoundary(w)
           v == Commit(b)
           g == "None"
<1>1. /\ Quiet(w, b) /\ b.group = g
      /\ \A f \in Fields \ {"group", "groupLine", "groupCursor"} : b[f] = w[f]
  BY BoundaryIs
<1> HIDE DEF b
<1>2. b.ok = w.ok /\ b.has = w.has /\ b.fault = w.fault
  BY <1>1 DEF Fields
<1>3. Sane(b) /\ Text(b) = Text(w)
  BY <1>1 DEF Quiet
<1>4. CASE Committed(b, v)
  <2> HIDE DEF v
  <2>1. Quiet(b, v) /\ ~v.dirty /\ v.doc = Text(b)
        /\ v.group = b.group /\ v.ok = b.ok /\ v.has = b.has /\ v.fault = b.fault
    BY <1>4 DEF Committed, Fields
  <2>2. Quiet(w, v)
    BY <1>1, <2>1, QuietThen
  <2>. QED  BY <1>1, <1>2, <1>3, <2>1, <2>2 DEF v, b, g, Quiet
<1>5. CASE v = Refuse(b)
  <2>1. Quiet(b, v) /\ ~v.ok
    BY <1>3, <1>5, RefuseIs
  <2> HIDE DEF v
  <2>2. Quiet(w, v)
    BY <1>1, <2>1, QuietThen
  <2>. QED  BY <2>1, <2>2 DEF v, b
<1>. QED  BY <1>3, <1>4, <1>5, CommitIs

(* The keys that edit whole lines.                                         *)
LEMMA InsertLineIs ==
  ASSUME NEW w, Sane(w), w.ok, NEW n \in Nat
  PROVE  Outcome(w, InsertLine(w, n))
<1> DEFINE v == Commit(HistoryBoundary(w))
           r == InsertLine(w, n)
           q == StructuredReplace(v, v.index, 0, <<<<>>>>, v.index, 0)
<1>1. r = IF ~v.ok THEN v ELSE IF Structured(v) THEN q ELSE InsertNumbered(v, n)
  BY DEF InsertLine
<1>2. Quiet(w, v) /\ (v.ok => Sane(v) /\ ~v.dirty /\ v.group = "None")
  BY BoundCommitIs
<1> HIDE DEF v, r
<1>3. CASE ~v.ok
  BY <1>1, <1>2, <1>3, QuietKept, OutcomeKept DEF r
<1>4. CASE v.ok /\ Structured(v)
  <2> DEFINE i == v.index
             z == 0
             rows == <<<<>>>>
  <2>1. i \in Nat \ {0} /\ i <= Len(v.doc) + 1
    <3>1. InHand(v) /\ Len(v.doc) \in Nat
      BY <1>2, <1>4, SeqIs DEF Sane, Proper, InOrder
    <3>. QED  BY <3>1 DEF InHand
  <2>2. z \in Nat /\ i + z <= Len(v.doc) + 1 /\ IsSeq(rows)
    BY <2>1, Singleton
  <2>3. r = StructuredReplace(v, i, z, rows, i, z)
    BY <1>1, <1>4
  <2> HIDE DEF i, z, rows
  <2>4. Outcome(v, r)
    BY <1>2, <1>4, <2>1, <2>2, <2>3, StructuredReplaceIs
  <2>. QED  BY <1>2, <1>4, <2>4, QuietOutcome DEF r
<1>5. CASE v.ok /\ ~Structured(v)
  <2>1. r = InsertNumbered(v, n)
    BY <1>1, <1>5
  <2>2. Outcome(v, r)
    BY <1>2, <1>5, <2>1, InsertNumberedIs
  <2>. QED  BY <1>2, <1>5, <2>2, QuietOutcome DEF r
<1>. QED  BY <1>3, <1>4, <1>5

LEMMA DeleteLineIs ==
  ASSUME NEW w, Sane(w), w.ok
  PROVE  Outcome(w, DeleteLine(w))
<1> DEFINE b == HistoryBoundary(w)
           v == Commit(b)
           r == DeleteLine(w)
           q == StructuredReplace(v, v.index, 1, <<>>, v.index, 0)
<1>1. r = IF ~w.has THEN Refuse(b) ELSE IF ~v.ok THEN v
          ELSE IF Structured(v) THEN q ELSE DeleteNumbered(v)
  BY DEF DeleteLine
<1>2. Quiet(w, v) /\ (v.ok => Sane(v) /\ ~v.dirty /\ v.group = "None" /\ v.has = w.has)
  BY BoundCommitIs
<1>3. Quiet(w, b) /\ Sane(b)
  BY BoundaryIs DEF Quiet
<1> HIDE DEF v, r, b
<1>4. CASE ~w.has
  <2>1. r = Refuse(b)
    BY <1>1, <1>4
  <2>2. Quiet(w, r)
    BY <1>3, <2>1, RefuseIs, QuietThen
  <2>. QED  BY <2>2, QuietKept, OutcomeKept DEF r
<1>5. CASE w.has /\ ~v.ok
  BY <1>1, <1>2, <1>5, QuietKept, OutcomeKept DEF r
<1>6. CASE w.has /\ v.ok /\ Structured(v)
  <2> DEFINE i == v.index
             z == 0
             y == 1
             rows == <<>>
  <2>1. i \in Nat \ {0} /\ i + 1 <= Len(v.doc) + 1
    <3>1. InHand(v) /\ Len(v.doc) \in Nat
      BY <1>2, <1>6, SeqIs DEF Sane, Proper, InOrder
    <3>2. v.has
      BY <1>2, <1>6
    <3>3. i \in 1..Len(v.doc)
      BY <3>1, <3>2 DEF InHand
    <3> HIDE DEF i
    <3>. QED  BY <3>1, <3>3
  <2>2. y \in Nat /\ i + y <= Len(v.doc) + 1 /\ IsSeq(rows)
    BY <2>1, NoElements
  <2>3. r = StructuredReplace(v, i, y, rows, i, z)
    BY <1>1, <1>6
  <2> HIDE DEF i, z, rows, y
  <2>4. Outcome(v, r)
    BY <1>2, <1>6, <2>1, <2>2, <2>3, StructuredReplaceIs
  <2>. QED  BY <1>2, <1>6, <2>4, QuietOutcome DEF r
<1>7. CASE w.has /\ v.ok /\ ~Structured(v)
  <2>1. r = DeleteNumbered(v)
    BY <1>1, <1>7
  <2>2. Outcome(v, r)
    BY <1>2, <1>7, <2>1, DeleteNumberedIs
  <2>. QED  BY <1>2, <1>7, <2>2, QuietOutcome DEF r
<1>. QED  BY <1>4, <1>5, <1>6, <1>7

\* An operation after the run of keys has ended.
LEMMA BoundOutcome ==
  ASSUME NEW w, Sane(w), w.ok
  PROVE  LET b == HistoryBoundary(w)
         IN  /\ Sane(b) /\ b.ok /\ b.mode = w.mode /\ b.has = w.has
             /\ \A u : Outcome(b, u) => Outcome(w, u)
             /\ \A u : Quiet(b, u) => Quiet(w, u)
<1> DEFINE b == HistoryBoundary(w)
<1>1. /\ Quiet(w, b) /\ b.group = "None"
      /\ \A f \in Fields \ {"group", "groupLine", "groupCursor"} : b[f] = w[f]
  BY BoundaryIs
<1> HIDE DEF b
<1>2. b.ok = w.ok /\ b.has = w.has /\ b.mode = w.mode
  BY <1>1 DEF Fields
<1>3. Sane(b)
  BY <1>1 DEF Quiet
<1>. QED  BY <1>1, <1>2, <1>3, QuietOutcome, QuietThen DEF b

LEMMA SplitLineIs ==
  ASSUME NEW w, Sane(w), w.ok, NEW n \in Nat
  PROVE  Outcome(w, SplitLine(w, n))
<1> DEFINE b == HistoryBoundary(w)
           z == 0
           r == SplitLine(w, n)
<1>1. r = IF ~Structured(w) THEN SplitNumbered(b, n)
          ELSE IF w.has THEN SplitRow(b) ELSE InsertLine(b, z)
  BY DEF SplitLine
<1>2. /\ Sane(b) /\ b.ok /\ b.mode = w.mode /\ b.has = w.has
      /\ \A u : Outcome(b, u) => Outcome(w, u)
  BY BoundOutcome
<1> HIDE DEF b, r
<1>3. Structured(b) <=> Structured(w)
  BY <1>2 DEF Structured
<1>4. CASE ~Structured(w)
  <2>1. r = SplitNumbered(b, n)
    BY <1>1, <1>4
  <2>. QED  BY <1>2, <1>3, <1>4, <2>1, SplitNumberedIs DEF r
<1>5. CASE Structured(w) /\ w.has
  <2>1. r = SplitRow(b)
    BY <1>1, <1>5
  <2>. QED  BY <1>2, <1>3, <1>5, <2>1, SplitRowIs DEF r
<1>6. CASE Structured(w) /\ ~w.has
  <2>1. r = InsertLine(b, z) /\ z \in Nat
    BY <1>1, <1>6
  <2> HIDE DEF z
  <2>. QED  BY <1>2, <2>1, InsertLineIs DEF r
<1>. QED  BY <1>4, <1>5, <1>6

LEMMA BackspaceIs ==
  ASSUME NEW w, Sane(w), w.ok
  PROVE  Outcome(w, Backspace(w))
<1> DEFINE y == TRUE
           g == "Backspace"
           r == Backspace(w)
           a == Front(Before(w)) \o After(w)
           c == w.cursor - 1
<1>1. r = IF ~w.has THEN Refuse(w) ELSE IF w.cursor = 0 THEN JoinLine(w, y)
          ELSE Typed(w, g, a, c)
  BY DEF Backspace
<1>2. y \in BOOLEAN /\ g # "None"
  OBVIOUS
<1> HIDE DEF y, g, r, a, c
<1>3. Outcome(w, Refuse(w)) /\ Outcome(w, JoinLine(w, y))
  BY <1>2, RefuseOutcome, JoinLineIs
<1>4. w.has => Outcome(w, Typed(w, g, a, c))
  BY <1>2, TypedIs
<1>. QED  BY <1>1, <1>3, <1>4 DEF r

LEMMA DeleteCharIs ==
  ASSUME NEW w, Sane(w), w.ok
  PROVE  Outcome(w, DeleteChar(w))
<1> DEFINE y == FALSE
           g == "Delete"
           r == DeleteChar(w)
           a == Before(w) \o Tail(After(w))
           c == w.cursor
<1>1. r = IF ~w.has THEN Refuse(w) ELSE IF w.cursor >= Len(w.body) THEN JoinLine(w, y)
          ELSE Typed(w, g, a, c)
  BY DEF DeleteChar
<1>2. y \in BOOLEAN /\ g # "None"
  OBVIOUS
<1> HIDE DEF y, g, r, a, c
<1>3. Outcome(w, Refuse(w)) /\ Outcome(w, JoinLine(w, y))
  BY <1>2, RefuseOutcome, JoinLineIs
<1>4. w.has => Outcome(w, Typed(w, g, a, c))
  BY <1>2, TypedIs
<1>. QED  BY <1>1, <1>3, <1>4 DEF r


-----------------------------------------------------------------------------
(* Moving: the text and the history stay.                                  *)

(* Quiet operations compose.                                               *)
LEMMA QuietOf ==
  ASSUME NEW w, NEW v, NEW u, Quiet(w, v), Quiet(v, u)
  PROVE  Quiet(w, u)
BY QuietThen

LEMMA QuietTo ==
  ASSUME NEW w, NEW v, NEW u, Quiet(w, v), SameCore(v, u)
  PROVE  Quiet(w, u)
<1>1. Quiet(v, u)
  BY QuietCore DEF Quiet
<1>. QED  BY <1>1, QuietThen

LEMMA QuietIs ==
  ASSUME NEW w, NEW v, Quiet(w, v)
  PROVE  DOMAIN v = Fields /\ v.has \in BOOLEAN /\ Sane(v)
BY DEF Quiet, Sane, Based, InHand

LEMMA RefuseBound ==
  ASSUME NEW w, Sane(w)
  PROVE  Quiet(w, Refuse(HistoryBoundary(w)))
<1>1. Quiet(w, HistoryBoundary(w))
  BY BoundaryIs
<1>2. Quiet(HistoryBoundary(w), Refuse(HistoryBoundary(w)))
  BY <1>1, QuietIs, RefuseIs
<1>. QED  BY <1>1, <1>2, QuietOf

(* The keys that move.                                                     *)
LEMMA MoveInLineIs ==
  ASSUME NEW w, Sane(w), NEW can, NEW cursor
  PROVE  Quiet(w, MoveInLine(w, can, cursor))
<1> DEFINE b == HistoryBoundary(w)
           moved == [b EXCEPT !.cursor = cursor]
           p == CursorColumn(moved)
           at == [moved EXCEPT !.preferred = p]
           u == UpdateNavigationView(at, CurrentPosition(w))
           r == MoveInLine(w, can, cursor)
<1>1. r = IF w.has /\ can THEN u ELSE Refuse(b)
  BY DEF MoveInLine
<1>2. Quiet(w, b)
  BY BoundaryIs
<1> HIDE DEF b, p, r
<1>3. Quiet(w, moved)
  BY <1>2, QuietIs, QuietTo, Loose
<1> HIDE DEF moved
<1>4. Quiet(w, at)
  BY <1>3, QuietIs, QuietTo, Loose
<1> HIDE DEF at
<1>5. Quiet(w, u)
  BY <1>4, QuietIs, QuietTo, UpdateIsView
<1>6. Quiet(w, Refuse(b))
  BY RefuseBound DEF b
<1>. QED  BY <1>1, <1>5, <1>6 DEF r

LEMMA MoveToEdgeIs ==
  ASSUME NEW w, Sane(w), NEW cursor
  PROVE  Quiet(w, MoveToEdge(w, cursor))
<1> DEFINE b == HistoryBoundary(w)
<1>1. Quiet(w, b)
  BY BoundaryIs
<1>2. Quiet(w, PlaceCursor(b, cursor))
  <2> HIDE DEF b
  <2>. QED  BY <1>1, QuietIs, QuietTo, PlaceCursorIsView
<1>3. Quiet(w, Refuse(b))
  BY RefuseBound
<1>4. MoveToEdge(w, cursor) = IF w.has THEN PlaceCursor(b, cursor) ELSE Refuse(b)
  BY DEF MoveToEdge
<1>. QED  BY <1>2, <1>3, <1>4

\* Writing the line in hand back, and a failure to, are quiet.
LEMMA CommitQuiet ==
  ASSUME NEW w, Sane(w)
  PROVE  Quiet(w, Commit(w)) /\ (Commit(w).ok => ~Commit(w).dirty)
<1>1. CASE Committed(w, Commit(w))
  BY <1>1 DEF Committed
<1>2. CASE Commit(w) = Refuse(w)
  BY <1>2, RefuseIs
<1>. QED  BY <1>1, <1>2, CommitIs

LEMMA MoveToVisualIs ==
  ASSUME NEW w, Sane(w), NEW position, NEW incremental
  PROVE  Quiet(w, MoveToVisual(w, position, incremental))
<1> DEFINE x == FALSE
           v == Commit(w)
           l == LoadIndex(v, position.line, x, x)
           p == PlaceInRow(w, w, position.sub, incremental)
           q == PlaceInRow(w, l, position.sub, incremental)
           r == MoveToVisual(w, position, incremental)
<1>1. r = IF position.line = w.index THEN p ELSE IF ~v.ok THEN v ELSE IF ~l.ok THEN l ELSE q
  BY DEF MoveToVisual
<1>2. Quiet(w, p)
  <2>1. Quiet(w, w)
    BY QuietSelf
  <2>. QED  BY <2>1, QuietIs, QuietTo, PlaceInRowIsView
<1>3. Quiet(w, v) /\ (v.ok => ~v.dirty)
  BY CommitQuiet
<1> HIDE DEF r, p, v
<1>4. v.ok => Quiet(w, l)
  <2>1. x \in BOOLEAN
    OBVIOUS
  <2> HIDE DEF x
  <2>2. v.ok => Quiet(v, l)
    BY <1>3, <2>1, QuietIs, LoadQuiet
  <2>. QED  BY <1>3, <2>2, QuietOf
<1> HIDE DEF l
<1>5. v.ok => Quiet(w, q)
  BY <1>4, QuietIs, QuietTo, PlaceInRowIsView
<1>. QED  BY <1>1, <1>2, <1>3, <1>4, <1>5 DEF r

LEMMA MoveVerticalIs ==
  ASSUME NEW w, Sane(w), NEW down
  PROVE  Quiet(w, MoveVertical(w, down))
<1> DEFINE b == HistoryBoundary(w)
           y == TRUE
           r == MoveVertical(w, down)
<1>1. Quiet(w, b)
  BY BoundaryIs
<1>2. r = Refuse(b) \/ \E position : r = MoveToVisual(b, position, y)
  BY DEF MoveVertical
<1>3. Quiet(w, Refuse(b))
  BY RefuseBound
<1> HIDE DEF b, y, r
<1>4. ASSUME NEW position PROVE Quiet(w, MoveToVisual(b, position, y))
  BY <1>1, QuietIs, MoveToVisualIs, QuietOf
<1>. QED  BY <1>2, <1>3, <1>4 DEF r

LEMMA MovePageIs ==
  ASSUME NEW w, Sane(w), NEW down
  PROVE  Quiet(w, MovePage(w, down))
<1> DEFINE b == HistoryBoundary(w)
           x == FALSE
           r == MovePage(w, down)
<1>1. Quiet(w, b)
  BY BoundaryIs
<1>2. \/ r = Refuse(b)
      \/ \E position, top : LET m == MoveToVisual(b, position, x)
                            IN  r = m \/ r = EnsureCursorVisible([m EXCEPT !.top = top])
  BY DEF MovePage
<1>3. Quiet(w, Refuse(b))
  BY RefuseBound
<1> HIDE DEF b, x, r
<1>4. ASSUME NEW position, NEW top
      PROVE  LET m == MoveToVisual(b, position, x)
             IN  Quiet(w, m) /\ Quiet(w, EnsureCursorVisible([m EXCEPT !.top = top]))
  <2> DEFINE m == MoveToVisual(b, position, x)
             n == [m EXCEPT !.top = top]
  <2>1. Quiet(w, m)
    BY <1>1, QuietIs, MoveToVisualIs, QuietOf
  <2> HIDE DEF m
  <2>2. Quiet(w, n)
    BY <2>1, QuietIs, QuietTo, Loose
  <2> HIDE DEF n
  <2>3. Quiet(w, EnsureCursorVisible(n))
    BY <2>2, QuietIs, QuietTo, EnsureIsView
  <2>. QED  BY <2>1, <2>3 DEF m, n
<1>. QED  BY <1>2, <1>3, <1>4 DEF r

LEMMA GoToQuiet ==
  ASSUME NEW w, Sane(w), ~w.dirty, NEW i
  PROVE  Quiet(w, GoTo(w, i))
<1> DEFINE p == 0
           y == TRUE
           a == [w EXCEPT !.preferred = p]
<1>1. GoTo(w, i) = LoadIndex(a, i, y, y) /\ y \in BOOLEAN
  BY DEF GoTo
<1>2. SameCore(w, a)
  <2>1. DOMAIN w = Fields
    BY QuietSelf, QuietIs
  <2> HIDE DEF p
  <2>. QED  BY <2>1, Loose
<1> HIDE DEF a, y
<1>3. Quiet(w, a) /\ Sane(a) /\ ~a.dirty
  BY <1>2, QuietCore, QuietIs, SameCoreFields
<1>4. Quiet(a, LoadIndex(a, i, y, y))
  BY <1>1, <1>3, LoadQuiet
<1>. QED  BY <1>1, <1>3, <1>4, QuietOf

LEMMA GotoLineIs ==
  ASSUME NEW w, Sane(w), w.ok, NEW n
  PROVE  Quiet(w, GotoLine(w, n))
<1> DEFINE v == Commit(HistoryBoundary(w))
           i == Locate(v.doc, n)
<1>1. GotoLine(w, n) = IF ~v.ok THEN v ELSE IF v.doc = <<>> THEN Refuse(v) ELSE GoTo(v, i)
  BY DEF GotoLine
<1>2. Quiet(w, v) /\ (v.ok => ~v.dirty)
  BY BoundCommitIs
<1> HIDE DEF v, i
<1>3. Quiet(v, Refuse(v)) /\ (v.ok => Quiet(v, GoTo(v, i)))
  BY <1>2, QuietIs, RefuseIs, GoToQuiet
<1>. QED  BY <1>1, <1>2, <1>3, QuietOf

LEMMA MatchBlockIs ==
  ASSUME NEW w, Sane(w)
  PROVE  Quiet(w, MatchBlock(w))
<1> DEFINE v == Commit(w)
           b == HistoryBoundary(v)
           r == MatchBlock(w)
<1>1. r = Refuse(w) \/ (~v.ok /\ r = v) \/ (v.ok /\ \E i : r = GoTo(b, i))
  BY DEF MatchBlock
<1>2. Quiet(w, v) /\ (v.ok => ~v.dirty)
  BY CommitQuiet
<1>3. Quiet(v, b) /\ b.dirty = v.dirty
  <2> HIDE DEF v
  <2>1. /\ Quiet(v, b)
        /\ \A f \in Fields \ {"group", "groupLine", "groupCursor"} : b[f] = v[f]
    BY <1>2, QuietIs, BoundaryIs
  <2> HIDE DEF b
  <2>. QED  BY <2>1 DEF Fields
<1> HIDE DEF v, b, r
<1>4. Quiet(w, b)
  BY <1>2, <1>3, QuietOf
<1>5. v.ok => \A i : Quiet(w, GoTo(b, i))
  BY <1>2, <1>3, <1>4, QuietIs, GoToQuiet, QuietOf
<1>. QED  BY <1>1, <1>2, <1>5, RefuseIs DEF r

\* A search ends at a word or in a refusal.
(* A search ends where it began, on the line found, or refused.            *)
Searched(v, r) ==
  r = Refuse(v) \/ \E i, cursor : r = PlaceCursor(LoadIndex(v, i, FALSE, TRUE), cursor)

LEMMA SearchedIs ==
  ASSUME NEW w, NEW v, Quiet(w, v), ~v.dirty, NEW r, Searched(v, r)
  PROVE  Quiet(w, r)
<1> DEFINE x == FALSE
           y == TRUE
<1>1. Sane(v) /\ Quiet(w, Refuse(v))
  BY QuietIs, RefuseIs, QuietOf
<1>2. ASSUME NEW i, NEW cursor PROVE Quiet(w, PlaceCursor(LoadIndex(v, i, x, y), cursor))
  <2> DEFINE l == LoadIndex(v, i, x, y)
  <2>1. x \in BOOLEAN /\ y \in BOOLEAN
    OBVIOUS
  <2> HIDE DEF x, y
  <2>2. Quiet(w, l)
    BY <1>1, <2>1, LoadQuiet, QuietOf
  <2> HIDE DEF l
  <2>3. Quiet(w, PlaceCursor(l, cursor))
    BY <2>2, QuietIs, QuietTo, PlaceCursorIsView
  <2>. QED  BY <2>3 DEF l
<1>. QED  BY <1>1, <1>2 DEF Searched

LEMMA SearchesAre ==
  ASSUME NEW v, NEW skip
  PROVE  Searched(v, Forward(v, skip)) /\ Searched(v, Backward(v))
<1>1. Searched(v, Forward(v, skip))
  BY DEF Searched, Forward
<1>2. Searched(v, Backward(v))
  BY DEF Searched, Backward
<1>. QED  BY <1>1, <1>2

LEMMA FindIs ==
  ASSUME NEW w, Sane(w), w.ok, NEW term, NEW next \in BOOLEAN
  PROVE  Quiet(w, Find(w, term, next)) /\ Quiet(w, FindPrevious(w))
<1> DEFINE b == HistoryBoundary(w)
           v == Commit(b)
           u == [v EXCEPT !.term = term]
           r == Find(w, term, next)
           q == FindPrevious(w)
           z == 0
           o == 1
<1>1. r = Refuse(b) \/ (~v.ok /\ r = v)
      \/ (v.ok /\ (r = Forward(u, z) \/ r = Refuse(v) \/ r = Forward(v, o)))
  BY DEF Find
<1>2. q = Refuse(b) \/ (~v.ok /\ q = v) \/ (v.ok /\ (q = Refuse(v) \/ q = Backward(v)))
  BY DEF FindPrevious
<1>3. Quiet(w, v) /\ (v.ok => ~v.dirty)
  BY BoundCommitIs
<1>4. Quiet(w, Refuse(b))
  BY RefuseBound
<1> HIDE DEF b, v, r, q, z, o
<1>5. Quiet(w, Refuse(v))
  BY <1>3, QuietIs, RefuseIs, QuietOf
<1>6. v.ok => Quiet(w, Forward(v, o)) /\ Quiet(w, Backward(v))
  BY <1>3, SearchesAre, SearchedIs
<1>7. SameCore(v, u)
  BY <1>3, QuietIs, Loose
<1>8. Quiet(w, u) /\ u.dirty = v.dirty
  BY <1>3, <1>7, QuietTo, SameCoreFields
<1> HIDE DEF u
<1>9. v.ok => Quiet(w, Forward(u, z))
  BY <1>3, <1>8, SearchesAre, SearchedIs
<1>10. Quiet(w, r)
  BY <1>1, <1>3, <1>4, <1>5, <1>6, <1>9
<1>11. Quiet(w, q)
  BY <1>2, <1>3, <1>4, <1>5, <1>6
<1>. QED  BY <1>10, <1>11 DEF r, q


-----------------------------------------------------------------------------
(* Undo and redo.                                                          *)

(* The line of a number, or that there is none.                            *)
LEMMA CaptureLineIs ==
  ASSUME NEW t, InOrder(t), NEW n \in Nat, NEW b,
         b = IF Exact(t, n) THEN t[LinesBelow(t, n) + 1].body ELSE <<>>
  PROVE  /\ Under(t, n) = One(Exact(t, n), n, b)
         /\ Exact(t, n) \in BOOLEAN /\ LinesBelow(t, n) + 1 \in Nat \ {0}
<1>1. DOMAIN t = 1..Len(t) /\ Len(t) \in Nat
  BY SeqIs DEF InOrder
<1>2. Exact(t, n) \in BOOLEAN
  BY DEF Exact
<1>3. LinesBelow(t, n) + 1 \in Nat \ {0}
  <2>1. LinesBelow(t, n) \in 0..Len(t)
    BY BelowIs DEF IsBelow
  <2>. QED  BY <1>1, <2>1
<1>4. CASE Exact(t, n)
  <2>1. PICK i \in 1..Len(t) : t[i].number = n
    BY <1>1, <1>4 DEF Exact
  <2>2. LinesBelow(t, n) = i - 1
    BY <2>1, LineAt
  <2>3. LinesBelow(t, n) + 1 = i
    BY <1>1, <2>2
  <2>4. b = t[i].body
    BY <1>4, <2>3
  <2>5. Under(t, t[i].number) = One(TRUE, t[i].number, t[i].body)
    BY <2>1, LineOf
  <2>6. Under(t, n) = One(TRUE, n, b)
    BY <2>1, <2>4, <2>5
  <2>7. One(TRUE, n, b) = One(Exact(t, n), n, b)
    BY <1>4 DEF One
  <2>. QED  BY <1>2, <1>3, <2>6, <2>7
<1>5. CASE ~Exact(t, n)
  <2>1. \A i \in 1..Len(t) : t[i].number # n
    BY <1>1, <1>5 DEF Exact
  <2>2. Under(t, n) = One(FALSE, n, b)
    BY <2>1, NoLineOf
  <2>3. One(FALSE, n, b) = One(Exact(t, n), n, b)
    BY <1>5 DEF One
  <2>. QED  BY <1>2, <1>3, <2>2, <2>3
<1>. QED  BY <1>4, <1>5

\* What undoing s keeps leads back to where the text was.
(* The snapshot for the other stack leads back from the restored text.     *)
LEMMA OppositeIs ==
  ASSUME NEW w, Sane(w), ~w.dirty, NEW s, Usable(s, w.doc)
  PROVE  LeadsFrom(w, Back(w.doc, s), Opposite(w, s))
<1> DEFINE t == w.doc
           o == Opposite(w, s)
           d == Back(t, s)
           n == s.number
           x == s.existed
           b == s.body
<1>1. InOrder(t) /\ InHand(w) /\ Text(w) = t
  BY CleanText DEF Sane, Proper
<1>2. CASE s.kind = "line" /\ s.number \in Nat /\ s.index \in Nat \ {0} /\ s.existed \in BOOLEAN
  <2> DEFINE ex == Exact(t, n)
             q == IF ex THEN t[LinesBelow(t, n) + 1].body ELSE <<>>
  <2>1. o = CaptureLine(w, n)
    BY <1>2 DEF Opposite
  <2>2. /\ o.kind = "line" /\ o.state = w.state /\ o.number = n /\ o.existed = ex
        /\ o.body = q /\ o.index = LinesBelow(t, n) + 1
    BY <2>1 DEF CaptureLine
  <2>3. Under(t, n) = One(ex, n, q) /\ ex \in BOOLEAN /\ LinesBelow(t, n) + 1 \in Nat \ {0}
    BY <1>1, <1>2, CaptureLineIs
  <2> HIDE DEF o, d, q, ex
  <2>4. d = WithLine(t, n, LineIf(x, n, b))
    BY <1>2, BackIs DEF d
  <2> HIDE DEF t, n, x, b
  <2>5. n \in Nat /\ x \in BOOLEAN
    BY <1>2 DEF n, x
  <2>6. WithLine(d, n, LineIf(ex, n, q)) = t
    BY <1>1, <2>3, <2>4, <2>5, ReplaceBack
  <2>7. Back(d, o) = t
    BY <2>2, <2>6, BackIs
  <2>8. Usable(o, d)
    BY <2>2, <2>3, <2>5 DEF Usable
  <2>9. LeadsFrom(w, d, o)
    BY <1>1, <2>2, <2>7, <2>8 DEF LeadsFrom
  <2>. QED  BY <2>9 DEF d, o, t
<1>3. CASE /\ s.kind = "pair" /\ s.number \in Nat /\ s.other \in Nat /\ s.number # s.other
           /\ s.existed \in BOOLEAN /\ s.otherExisted \in BOOLEAN /\ s.focus \in Nat
  <2> DEFINE ex == Exact(t, n)
             q == IF ex THEN t[LinesBelow(t, n) + 1].body ELSE <<>>
             m == s.other
             y == s.otherExisted
             c == s.otherBody
             ey == Exact(t, m)
             p == IF ey THEN Body(w, Locate(t, m)) ELSE <<>>
             l == CaptureLine(w, n)
  <2>1. o = CaptureOther(w, l, m)
    BY <1>3 DEF Opposite
  <2>2. /\ l.state = w.state /\ l.number = n /\ l.existed = ex /\ l.body = q
        /\ DOMAIN l = {"kind", "state", "number", "index", "existed", "body", "cursor"}
    BY DEF CaptureLine
  <2> HIDE DEF l, ex, q, n
  <2>3. /\ o.kind = "pair" /\ o.state = w.state /\ o.number = n /\ o.existed = ex
        /\ o.body = q /\ o.other = m /\ o.otherExisted = ey /\ o.otherBody = p
        /\ o.focus = w.number
    BY <2>1, <2>2 DEF CaptureOther
  <2>4. Under(t, n) = One(ex, n, q) /\ ex \in BOOLEAN
    BY <1>1, <1>3, CaptureLineIs DEF n, ex, q
  <2>5. Under(t, m) = One(ey, m, p) /\ ey \in BOOLEAN
    <3>1. Under(Text(w), m) = One(ey, m, p)
      BY <1>1, <1>3, OtherIs
    <3>. QED  BY <1>1, <3>1 DEF Exact
  <2>6. w.number \in Nat
    BY <1>1, WrittenText DEF InHand
  <2> HIDE DEF o, d, q, ex, p, ey
  <2>7. d = PairOf(t, n, x, b, m, y, c)
    BY <1>3, BackIs DEF d, n
  <2>8. n \in Nat /\ x \in BOOLEAN /\ m \in Nat /\ y \in BOOLEAN /\ n # m
    BY <1>3 DEF n
  <2> HIDE DEF t, n, x, b, m, y, c
  <2>9. PairOf(d, n, ex, q, m, ey, p) = t
    BY <1>1, <2>4, <2>5, <2>7, <2>8, PairBack
  <2>10. Back(d, o) = t
    BY <2>3, <2>9, BackIs
  <2>11. Usable(o, d)
    BY <2>3, <2>4, <2>5, <2>6, <2>8 DEF Usable
  <2>12. LeadsFrom(w, d, o)
    BY <1>1, <2>3, <2>10, <2>11 DEF LeadsFrom
  <2>. QED  BY <2>12 DEF d, o, t
<1>4. CASE /\ s.kind = "rows" /\ IsSeq(s.rows) /\ s.focus \in Nat \ {0} /\ Positioned(t)
           /\ s.first \in Nat \ {0} /\ s.replace \in Nat /\ s.first + s.replace <= Len(t) + 1
  <2> DEFINE e == WithRows(t, s.first, s.replace, s.rows)
             q == CaptureRows(w, s.first, s.replace, Len(s.rows))
  <2>1. o = q
    BY <1>4 DEF Opposite
  <2>2. d = e
    BY <1>4, BackIs
  <2>3. q.state = w.state /\ Usable(q, e) /\ Back(e, q) = Text(w)
    BY <1>4, CaptureRowsIs
  <2> HIDE DEF o, d, e, q
  <2>4. LeadsFrom(w, d, o)
    BY <2>1, <2>2, <2>3 DEF LeadsFrom
  <2>. QED  BY <2>4 DEF d, o, t
<1>5. Usable(s, t)
  OBVIOUS
<1> HIDE DEF o, d, t
<1>. QED  BY <1>2, <1>3, <1>4, <1>5 DEF Usable, n, x


LEMMA TextOf ==
  ASSUME NEW w, NEW v, v.doc = w.doc, v.has = w.has, v.index = w.index, v.body = w.body
  PROVE  Text(v) = Text(w)
BY DEF Text, Body

\* Only the history differs.
(* v has the text and the line of w.                                       *)
SameProgram(w, v) ==
  /\ v.mode = w.mode /\ v.doc = w.doc /\ v.has = w.has /\ v.index = w.index
  /\ v.number = w.number /\ v.body = w.body /\ v.dirty = w.dirty

LEMMA SameProgramIs ==
  ASSUME NEW w, NEW v, SameProgram(w, v), Proper(w.mode, w.doc), InHand(w), Based(v)
  PROVE  Sane(v) /\ Text(v) = Text(w)
<1>1. Text(v) = Text(w)
  BY TextOf DEF SameProgram
<1>2. InHand(v) /\ Proper(v.mode, v.doc)
  BY DEF SameProgram, InHand, Proper
<1>. QED  BY <1>1, <1>2 DEF Sane

(* A failed history is lost as a whole.                                    *)
LEMMA HistoryFaultIs ==
  ASSUME NEW w, Sane(w)
  PROVE  /\ Kept(w, HistoryFault(w)) /\ HistoryFault(w).undo = <<>> /\ HistoryFault(w).redo = <<>>
         /\ \A f \in Fields \ {"ready", "undo", "redo"} : HistoryFault(w)[f] = w[f]
<1> DEFINE v == HistoryFault(w)
<1>1. DOMAIN w = Fields /\ Named(w) /\ w.depth \in Nat /\ w.mode \in Modes
  BY DEF Sane, Based, Stacks
<1>2. /\ DOMAIN v = Fields /\ v.ready = FALSE /\ v.undo = <<>> /\ v.redo = <<>>
      /\ \A f \in Fields \ {"ready", "undo", "redo"} : v[f] = w[f]
  BY <1>1 DEF HistoryFault, Fields
<1> HIDE DEF v
<1>3. /\ SameProgram(w, v) /\ v.state = w.state /\ v.next = w.next /\ v.saved = w.saved
      /\ v.depth = w.depth /\ v.group = w.group /\ v.groupLine = w.groupLine /\ v.mode = w.mode
  BY <1>2 DEF SameProgram, Fields
<1>4. Stacks(v)
  <2>1. ~v.ready /\ v.ready \in BOOLEAN
    BY <1>2
  <2>. QED  BY <1>1, <1>2, <1>3, <2>1, NoElements DEF Stacks
<1>5. Based(v)
  BY <1>1, <1>2, <1>3, <1>4 DEF Based, Named
<1>6. Sane(v) /\ Text(v) = Text(w)
  BY <1>3, <1>5, SameProgramIs DEF Sane
<1>. QED  BY <1>2, <1>3, <1>6 DEF Kept, v

\* A snapshot that the text has a use for, and where it leads.
(* A snapshot on a stack, usable from the text now.                        *)
Restorable(w, s) ==
  /\ Usable(s, Text(w)) /\ Proper(w.mode, Back(Text(w), s)) /\ s.state \in 0..(w.next - 1)

(* restore_snapshot restores the text whole, or is refused.                *)
LEMMA RestoreIs ==
  ASSUME NEW w, Sane(w), w.ok, ~w.dirty, NEW s, Restorable(w, s)
  PROVE  \/ RestoreSnapshot(w, s) = Refuse(w) /\ ~RestoreSnapshot(w, s).ok
         \/ /\ Focused([w EXCEPT !.doc = Back(Text(w), s)], RestoreSnapshot(w, s))
            /\ RestoreSnapshot(w, s).ok
<1> DEFINE d == Back(w.doc, s)
           v == Write(w, Restored(w, s))
           x == [w EXCEPT !.doc = d]
           r == RestoreSnapshot(w, s)
           at == IF s.existed THEN Locate(v.doc, s.number) ELSE s.index
           c == IF s.existed THEN s.cursor ELSE 0
           i == Locate(v.doc, s.focus)
<1>1. Text(w) = w.doc
  BY CleanText DEF Sane, Proper
<1>2. Restored(w, s) = d
  BY RestoredIs
<1>3. InOrder(d) /\ Usable(s, w.doc)
  BY <1>1 DEF Restorable, Proper
<1>4. /\ ~v.ok => r = v
      /\ v.ok /\ s.kind = "rows" => r = Focus(v, s.focus, s.focusCursor)
      /\ v.ok /\ s.kind = "pair" => r = Focus(v, i, s.focusCursor)
      /\ v.ok /\ s.kind = "line" => r = Focus(v, at, c)
  BY DEF RestoreSnapshot
<1> HIDE DEF r
<1>5. (v = Refuse(w) /\ ~v.ok) \/ (v = x /\ v.ok)
  BY <1>2, WriteIs
<1>6. DOMAIN x = Fields /\ x.doc = d /\ x.ok = w.ok
  <2>1. DOMAIN x = Fields /\ x.doc = d /\ \A f \in Fields \ {"doc"} : x[f] = w[f]
    BY WrittenIs
  <2> HIDE DEF x
  <2>. QED  BY <2>1 DEF Fields
<1> HIDE DEF d, v, x
<1>7. CASE v = Refuse(w) /\ ~v.ok
  BY <1>4, <1>7 DEF r
<1>8. CASE v = x /\ v.ok
  <2>1. \E k \in Nat \ {0} : \E cursor : r = Focus(x, k, cursor)
    <3>1. CASE s.kind = "line" /\ s.number \in Nat /\ s.index \in Nat \ {0} /\ s.existed \in BOOLEAN
      <4>1. at \in Nat \ {0}
        BY <1>3, <1>6, <1>8, <3>1, LocateIs
      <4>. QED  BY <1>4, <1>8, <3>1, <4>1
    <3>2. CASE s.kind = "pair" /\ s.focus \in Nat
      <4>1. i \in Nat \ {0}
        BY <1>3, <1>6, <1>8, <3>2, LocateIs
      <4>. QED  BY <1>4, <1>8, <3>2, <4>1
    <3>3. CASE s.kind = "rows" /\ s.focus \in Nat \ {0}
      BY <1>4, <1>8, <3>3
    <3>. QED  BY <1>3, <3>1, <3>2, <3>3 DEF Usable
  <2>2. Focused(x, r)
    BY <1>3, <1>6, <2>1, FocusIs
  <2>3. r.ok
    <3>1. r.ok = x.ok
      BY <2>2, SameRestFields DEF Focused
    <3>. QED  BY <1>6, <3>1
  <2>. QED  BY <1>1, <2>2, <2>3 DEF x, d, r
<1>. QED  BY <1>5, <1>7, <1>8


\* back leads from the text of v to that of w.
(* The snapshot the other stack gets leads back.                           *)
WayBack(w, v, back) ==
  back.state = w.state /\ Usable(back, Text(v)) /\ Back(Text(v), back) = Text(w)

\* One snapshot of the stack `from` taken, the way back on the stack `to`.
(* One undo or redo: a snapshot is taken from one stack, the text is the   *)
(* one it leads to, and the way back is on the other.                      *)
Moved(w, v, from, to) ==
  /\ Sane(v) /\ v.mode = w.mode /\ v.depth = w.depth
  /\ v.next = w.next /\ v.saved = w.saved /\ v.group = "None"
  /\ w[from] # <<>> /\ w.depth > 0
  /\ v.state = Last(w[from]).state /\ Text(v) = Back(Text(w), Last(w[from]))
  /\ \/ v.undo = <<>> /\ v.redo = <<>>
     \/ /\ v[from] = Front(w[from])
        /\ \E back : WayBack(w, v, back) /\ v[to] = Push(w, w[to], back)

(* Undo and redo are each other's opposite.                                *)
TheStacks(from, to) == from \in {"undo", "redo"} /\ to \in {"undo", "redo"} /\ from # to

\* The stack without its last snapshot.
LEMMA TakenIs ==
  ASSUME NEW w, Sane(w), w.ready, NEW from, NEW to, TheStacks(from, to), w[from] # <<>>
  PROVE  LET v == [w EXCEPT ![from] = Front(@)]
         IN  /\ Sane(v) /\ Text(v) = Text(w) /\ DOMAIN v = Fields
             /\ v[from] = Front(w[from]) /\ \A f \in Fields \ {from} : v[f] = w[f]
<1> DEFINE v == [w EXCEPT ![from] = Front(@)]
<1>1. DOMAIN w = Fields /\ Named(w) /\ Stacks(w) /\ w.mode \in Modes
  BY DEF Sane, Based
<1>2. from \in Fields /\ DOMAIN v = Fields
  BY <1>1 DEF TheStacks, Fields
<1>3. v[from] = Front(w[from]) /\ \A f \in Fields \ {from} : v[f] = w[f]
  BY <1>1, <1>2
<1> HIDE DEF v
<1>4. /\ SameProgram(w, v) /\ v.state = w.state /\ v.next = w.next /\ v.saved = w.saved
      /\ v.depth = w.depth /\ v.ready = w.ready
  BY <1>3 DEF SameProgram, Fields, TheStacks
<1>5. IsSeq(v.undo) /\ IsSeq(v.redo)
  <2>1. IsSeq(w.undo) /\ IsSeq(w.redo)
    BY <1>1 DEF Stacks
  <2>2. IsSeq(w[from])
    BY <2>1 DEF TheStacks
  <2>3. IsSeq(Front(w[from]))
    BY <2>2, Fronted
  <2>4. \A f \in {"undo", "redo"} : v[f] = IF f = from THEN Front(w[from]) ELSE w[f]
    BY <1>3 DEF Fields
  <2>. QED  BY <2>1, <2>3, <2>4
<1>6. Stacks(v)
  BY <1>1, <1>4, <1>5 DEF Stacks
<1>7. Based(v)
  BY <1>1, <1>2, <1>4, <1>6 DEF Based, Named, SameProgram
<1>. QED  BY <1>2, <1>3, <1>4, <1>7, SameProgramIs DEF v, Sane

(* An undo or redo that succeeds moves one snapshot; one that fails        *)
(* changes no text.                                                        *)
LEMMA ApplyHistoryIs ==
  ASSUME NEW w, Sane(w), w.ok, NEW from, NEW to, TheStacks(from, to),
         w[from] # <<>> => Restorable(w, Last(w[from]))
  PROVE  LET r == ApplyHistory(w, from, to)
         IN  (~r.ok /\ Kept(w, r)) \/ (r.ok /\ Moved(w, r, from, to))
<1> DEFINE b == HistoryBoundary(w)
           v == Commit(b)
           s == Last(v[from])
           back == Opposite(v, s)
           a == [v EXCEPT ![from] = Front(@)]
           e == RestoreSnapshot(a, s)
           h == Refuse(HistoryFault(v))
           p == [e EXCEPT ![from] = v[from]]
           y == IF v.fault = "push" THEN HistoryFault(e)
                ELSE [e EXCEPT ![to] = Push(v, @, back)]
           z == [y EXCEPT !.state = s.state]
           r == ApplyHistory(w, from, to)
<1>1. r = IF ~w.ready \/ w[from] = <<>> THEN Refuse(b)
          ELSE IF ~v.ok THEN v ELSE IF v.fault = "pop" THEN h ELSE IF ~e.ok THEN p ELSE z
  BY DEF ApplyHistory
<1>2. \/ /\ Quiet(w, v) /\ v.ok /\ ~v.dirty /\ v.group = "None"
         /\ v.doc = Text(w) /\ v.mode = w.mode /\ Sane(v)
         /\ v.ready = w.ready /\ v.undo = w.undo /\ v.redo = w.redo /\ v.state = w.state
      \/ ~v.ok /\ Quiet(w, v)
  BY BoundCommitIs
<1>3. Quiet(w, Refuse(b)) /\ ~Refuse(b).ok
  <2>1. Quiet(w, b)
    BY BoundaryIs
  <2> HIDE DEF b
  <2>2. ~Refuse(b).ok
    BY <2>1, QuietIs, RefuseIs
  <2>. QED  BY <2>2, RefuseBound DEF b
<1> HIDE DEF r, b, v
<1>4. CASE ~w.ready \/ w[from] = <<>>
  BY <1>1, <1>3, <1>4, QuietKept DEF r
<1>5. CASE w.ready /\ w[from] # <<>> /\ ~v.ok
  BY <1>1, <1>2, <1>5, QuietKept DEF r
<1>6. CASE w.ready /\ w[from] # <<>> /\ v.ok
  <2>1. /\ Quiet(w, v) /\ ~v.dirty /\ v.group = "None" /\ v.doc = Text(w) /\ v.mode = w.mode
        /\ Sane(v) /\ v.ready /\ v.undo = w.undo /\ v.redo = w.redo /\ v.state = w.state
    BY <1>2, <1>6
  <2>2. /\ v[from] = w[from] /\ v[to] = w[to] /\ v[from] # <<>> /\ s = Last(w[from])
        /\ v.next = w.next /\ v.saved = w.saved /\ v.depth = w.depth /\ Text(v) = Text(w)
        /\ w.depth \in Nat /\ w.depth > 0
    BY <1>6, <2>1 DEF TheStacks, Quiet, Sane, Based, Stacks
  <2>3. Restorable(v, s) /\ Usable(s, v.doc)
    BY <1>6, <2>1, <2>2 DEF Restorable
  <2>4. CASE v.fault = "pop"
    <3>1. r = h
      BY <1>1, <1>6, <2>4
    <3>2. Kept(v, HistoryFault(v)) /\ Sane(HistoryFault(v))
      BY <2>1, HistoryFaultIs DEF Kept
    <3>3. Quiet(HistoryFault(v), h) /\ ~h.ok
      BY <3>2, RefuseIs
    <3> DEFINE x == HistoryFault(v)
    <3> HIDE DEF h, x
    <3>4. Kept(v, h)
      <4>1. Kept(v, x) /\ Quiet(x, h)
        BY <3>2, <3>3 DEF x
      <4>. QED  BY <4>1 DEF Kept, Quiet
    <3>5. Kept(w, h)
      BY <2>1, <3>4, QuietThen
    <3>. QED  BY <3>1, <3>3, <3>5 DEF r, x
  <2>5. CASE v.fault # "pop"
    <3>1. r = IF ~e.ok THEN p ELSE z
      BY <1>1, <1>6, <2>5
    <3>2. /\ Sane(a) /\ Text(a) = Text(v) /\ DOMAIN a = Fields
          /\ a[from] = Front(v[from]) /\ \A f \in Fields \ {from} : a[f] = v[f]
      BY <2>1, <2>2, TakenIs
    <3>3. a.ok = v.ok /\ a.dirty = v.dirty /\ a.mode = v.mode /\ a.next = v.next /\ a.doc = v.doc
          /\ a.saved = v.saved /\ a.group = v.group /\ a.depth = v.depth /\ a.ready = v.ready
      <4> HIDE DEF a
      <4>. QED  BY <3>2 DEF Fields, TheStacks
    <3>4. Restorable(a, s)
      <4> HIDE DEF a, s
      <4>. QED  BY <2>3, <3>2, <3>3 DEF Restorable
    <3>5. \/ e = Refuse(a) /\ ~e.ok
          \/ Focused([a EXCEPT !.doc = Back(Text(a), s)], e) /\ e.ok
      <4> HIDE DEF a, s
      <4>. QED  BY <1>6, <2>1, <3>2, <3>3, <3>4, RestoreIs
    <3>6. CASE e = Refuse(a) /\ ~e.ok
      <4>1. r = p
        BY <3>1, <3>6
      <4>2. p = Refuse(v)
        <5>1. DOMAIN v = Fields /\ from \in Fields /\ from # "ok"
          BY <2>1 DEF Sane, Based, TheStacks, Fields
        <5>2. e = [[v EXCEPT ![from] = Front(v[from])] EXCEPT !.ok = FALSE]
          BY <3>6 DEF Refuse
        <5> HIDE DEF e
        <5>3. p = [v EXCEPT !.ok = FALSE]
          BY <5>1, <5>2
        <5>. QED  BY <5>3 DEF Refuse
      <4>3. Quiet(v, r) /\ ~r.ok
        BY <2>1, <4>1, <4>2, RefuseIs
      <4>4. Kept(w, r)
        BY <2>1, <4>3, QuietOf, QuietKept
      <4>. QED  BY <4>3, <4>4 DEF r
    <3>7. CASE Focused([a EXCEPT !.doc = Back(Text(a), s)], e) /\ e.ok
      <4>1. r = z
        BY <3>1, <3>7
      <4> DEFINE d == Back(Text(w), s)
                 x == [a EXCEPT !.doc = d]
      <4>2. Focused(x, e)
        BY <2>2, <3>2, <3>7
      <4>3. DOMAIN x = Fields /\ x.doc = d /\ \A f \in Fields \ {"doc"} : x[f] = a[f]
        <5> HIDE DEF a, d
        <5>. QED  BY <3>2, WrittenIs
      <4>4. LeadsFrom(v, d, back)
        <5>1. LeadsFrom(v, Back(v.doc, s), back)
          BY <2>1, <2>3, OppositeIs
        <5>. QED  BY <2>1, <5>1
      <4>5. Proper(w.mode, d)
        BY <2>1, <2>2, <2>3 DEF Restorable
      <4> HIDE DEF x, a, back, e
      <4>6. /\ SameRest(x, e) /\ InHand(e) /\ ~e.dirty /\ DOMAIN e = Fields
            /\ e.doc = d /\ e.mode = w.mode /\ e.depth = w.depth /\ e.next = w.next
            /\ e.saved = w.saved /\ e.group = "None" /\ e.ready = v.ready /\ e.ok
            /\ e[from] = Front(w[from]) /\ e[to] = w[to]
        <5>1. x.mode = a.mode /\ x.depth = a.depth /\ x.next = a.next /\ x.saved = a.saved
              /\ x.group = a.group /\ x.ready = a.ready /\ x.undo = a.undo /\ x.redo = a.redo
          BY <4>3 DEF Fields
        <5>2. SameRest(x, e) /\ InHand(e) /\ ~e.dirty
          BY <4>2 DEF Focused
        <5>3. DOMAIN e = Fields /\ e.doc = x.doc /\ e.mode = x.mode /\ e.depth = x.depth
              /\ e.next = x.next /\ e.saved = x.saved /\ e.group = x.group /\ e.ready = x.ready
              /\ e.undo = x.undo /\ e.redo = x.redo
          BY <5>2, SameRestFields
        <5>4. e[from] = a[from] /\ e[to] = a[to]
          BY <5>1, <5>3 DEF TheStacks
        <5>5. a[to] = v[to]
          BY <3>2 DEF TheStacks, Fields
        <5>. QED  BY <2>1, <2>2, <3>2, <3>3, <3>7, <4>3, <5>1, <5>2, <5>3, <5>4, <5>5
      <4>7. Based(e) /\ Sane(e) /\ Text(e) = d
        <5>1. Stacks(e)
          <6>1. Stacks(a)
            BY <3>2 DEF Sane, Based
          <6>2. e.undo = a.undo /\ e.redo = a.redo /\ e.depth = a.depth /\ e.ready = a.ready
            <7>1. e.undo = x.undo /\ e.redo = x.redo
              BY <4>6, SameRestFields
            <7>2. x.undo = a.undo /\ x.redo = a.redo
              BY <4>3 DEF Fields
            <7>. QED  BY <2>1, <2>2, <3>3, <4>6, <7>1, <7>2
          <6>. QED  BY <6>1, <6>2 DEF Stacks
        <5>2. Named(e)
          <6>1. Named(a) /\ e.next = a.next /\ e.saved = a.saved
            BY <2>2, <3>2, <3>3, <4>6 DEF Sane, Based
          <6>2. e.state = a.state
            <7>1. e.state = x.state
              BY <4>6, SameRestFields
            <7>2. x.state = a.state
              BY <4>3 DEF Fields
            <7>. QED  BY <7>1, <7>2
          <6>. QED  BY <6>1, <6>2 DEF Named
        <5>3. w.mode \in Modes
          BY DEF Sane, Based
        <5>4. Based(e) /\ Sane(e)
          BY <4>5, <4>6, <5>1, <5>2, <5>3 DEF Based, Sane
        <5>5. Text(e) = e.doc
          BY <5>4, <4>6, CleanText DEF Sane, Proper
        <5>. QED  BY <4>6, <5>4, <5>5
      <4> DEFINE g == [e EXCEPT ![to] = Push(v, @, back)]
                 o == HistoryFault(e)
      <4>8. /\ Sane(y) /\ Text(y) = d /\ DOMAIN y = Fields
            /\ y.mode = w.mode /\ y.depth = w.depth /\ y.next = w.next /\ y.saved = w.saved
            /\ y.group = "None" /\ y.ok
            /\ \/ y.undo = <<>> /\ y.redo = <<>>
               \/ y[from] = Front(w[from]) /\ y[to] = Push(w, w[to], back)
        <5>1. CASE v.fault = "push"
          <6>1. y = o
            BY <5>1
          <6>2. /\ Kept(e, o) /\ o.undo = <<>> /\ o.redo = <<>>
                /\ \A f \in Fields \ {"ready", "undo", "redo"} : o[f] = e[f]
            BY <4>7, HistoryFaultIs
          <6> HIDE DEF o, y
          <6>3. o.mode = e.mode /\ o.depth = e.depth /\ o.next = e.next /\ o.saved = e.saved
                /\ o.group = e.group /\ o.ok = e.ok
            BY <6>2 DEF Fields
          <6>4. Sane(o) /\ Text(o) = Text(e) /\ DOMAIN o = Fields
            BY <6>2 DEF Kept, Sane, Based
          <6>. QED  BY <4>6, <4>7, <6>1, <6>2, <6>3, <6>4
        <5>2. CASE v.fault # "push"
          <6>1. y = g
            BY <5>2
          <6>2. /\ DOMAIN g = Fields /\ g[to] = Push(v, e[to], back)
                /\ \A f \in Fields \ {to} : g[f] = e[f]
            BY <4>6 DEF TheStacks, Fields
          <6> HIDE DEF g, y
          <6>3. /\ SameProgram(e, g) /\ g.state = e.state /\ g.next = e.next /\ g.saved = e.saved
                /\ g.depth = e.depth /\ g.ready = e.ready /\ g.group = e.group /\ g.ok = e.ok
                /\ g[from] = e[from]
            BY <6>2 DEF SameProgram, Fields, TheStacks
          <6>4. Push(v, e[to], back) = Push(w, w[to], back)
            BY <2>2, <4>6 DEF Push
          <6>5. Stacks(g)
            <7>1. IsSeq(e.undo) /\ IsSeq(e.redo) /\ Stacks(e)
              BY <4>7 DEF Based, Stacks
            <7>2. IsSeq(e[to])
              BY <7>1 DEF TheStacks
            <7>3. IsSeq(Push(v, e[to], back))
              BY <2>2, <7>2, PushIs
            <7>4. \A f \in {"undo", "redo"} : g[f] = IF f = to THEN Push(v, e[to], back) ELSE e[f]
              BY <6>2 DEF Fields
            <7>5. IsSeq(g.undo) /\ IsSeq(g.redo)
              BY <7>1, <7>3, <7>4
            <7>6. g.ready
              BY <2>1, <4>6, <6>3
            <7>. QED  BY <6>3, <7>1, <7>5, <7>6 DEF Stacks
          <6>6. Based(g)
            BY <4>7, <6>2, <6>3, <6>5 DEF Based, Named, SameProgram
          <6>7. Sane(g) /\ Text(g) = Text(e)
            BY <4>7, <6>3, <6>6, SameProgramIs DEF Sane
          <6>8. g.mode = e.mode
            BY <6>3 DEF SameProgram
          <6>. QED  BY <4>6, <4>7, <6>1, <6>2, <6>3, <6>4, <6>7, <6>8
        <5>. QED  BY <5>1, <5>2
      <4> HIDE DEF y, g, o
      <4>9. /\ Sane(z) /\ Text(z) = d /\ z.state = s.state
            /\ \A f \in Fields \ {"state"} : z[f] = y[f]
        <5>1. DOMAIN z = Fields /\ z.state = s.state /\ \A f \in Fields \ {"state"} : z[f] = y[f]
          BY <4>8 DEF Fields
        <5> HIDE DEF z
        <5>2. /\ SameProgram(y, z) /\ z.next = y.next /\ z.saved = y.saved /\ z.depth = y.depth
              /\ z.ready = y.ready /\ z.undo = y.undo /\ z.redo = y.redo
          BY <5>1 DEF SameProgram, Fields
        <5>3. Stacks(z)
          BY <4>8, <5>2 DEF Sane, Based, Stacks
        <5>4. Named(z)
          <6>1. Named(y) /\ y.next = w.next
            BY <4>8 DEF Sane, Based
          <6>2. s.state \in 0..(w.next - 1)
            BY <2>2, <2>3 DEF Restorable
          <6>. QED  BY <5>1, <5>2, <6>1, <6>2 DEF Named
        <5>5. Based(z)
          BY <4>8, <5>1, <5>2, <5>3, <5>4 DEF Sane, Based, SameProgram
        <5>6. Sane(z) /\ Text(z) = Text(y)
          BY <4>8, <5>2, <5>5, SameProgramIs DEF Sane
        <5>. QED  BY <4>8, <5>1, <5>6
      <4> HIDE DEF z
      <4>10. Moved(w, z, from, to) /\ z.ok
        <5>1. z.mode = w.mode /\ z.depth = w.depth /\ z.next = w.next /\ z.saved = w.saved
              /\ z.group = "None" /\ z.ok /\ z.undo = y.undo /\ z.redo = y.redo
          BY <4>8, <4>9 DEF Fields
        <5>2. z[from] = y[from] /\ z[to] = y[to]
          BY <5>1 DEF TheStacks
        <5>3. WayBack(w, z, back)
          BY <2>1, <2>2, <4>4, <4>9 DEF WayBack, LeadsFrom
        <5>4. w[from] # <<>> /\ z.state = Last(w[from]).state /\ Text(z) = Back(Text(w), Last(w[from]))
          BY <1>6, <2>2, <4>9
        <5>. QED  BY <2>2, <4>8, <4>9, <5>1, <5>2, <5>3, <5>4 DEF Moved
      <4>. QED  BY <4>1, <4>10 DEF r
    <3>. QED  BY <3>5, <3>6, <3>7
  <2>. QED  BY <2>4, <2>5
<1>. QED  BY <1>4, <1>5, <1>6


-----------------------------------------------------------------------------
(* The texts and their names.                                              *)

\* A run of keys that goes on: its text has no other name yet, and the
\* snapshot before it is one of the line it is in.
(* A run of keys: the last snapshot is that of its line, and the name of   *)
(* the text it edits is the newest, on no stack and not that of the saved  *)
(* text.                                                                   *)
InRun(w) ==
  w.group # "None" =>
    /\ w.redo = <<>> /\ w.state = w.next - 1 /\ w.saved # w.state
    /\ \A k \in 1..Len(w.undo) : w.undo[k].state # w.state
    /\ \A k \in 1..Len(w.undo) : k = Len(w.undo) =>
         w.undo[k].kind = "line" /\ w.undo[k].existed = TRUE /\ w.undo[k].number = w.groupLine

\* The snapshot s leads from the text t to the text its state is the name of.
(* Snapshot s leads from the text t to the text it names.                  *)
Leads(s, t, names) ==
  /\ s.state + 1 \in 1..Len(names) /\ s.state \in Nat
  /\ Usable(s, t) /\ Back(t, s) = names[s.state + 1]

\* Each snapshot of a stack leads on from where the one above it leads.
(* Each snapshot of a stack leads from the text the one above it leads to, *)
(* the last one from the text now.                                         *)
Chained(stack, now, names) ==
  \A k \in 1..Len(stack) :
    Leads(stack[k], IF k = Len(stack) THEN now ELSE names[stack[k + 1].state + 1], names)

(* names[id + 1] is the text of name id: that of the editor and those of   *)
(* both stacks.                                                            *)
TextsOf(w, names) ==
  /\ IsSeq(names) /\ Len(names) = w.next
  /\ \A id \in 1..w.next : Proper(w.mode, names[id])
  /\ Text(w) = names[w.state + 1]
  /\ Chained(w.undo, Text(w), names) /\ Chained(w.redo, Text(w), names)

(* What holds between two keys.                                            *)
Facts(w, names) == Sane(w) /\ InRun(w) /\ TextsOf(w, names)

LEMMA NothingChained ==
  ASSUME NEW t, NEW names
  PROVE  Chained(<<>>, t, names)
<1>1. Len(<<>>) = 0
  BY NoElements
<1>. QED  BY <1>1 DEF Chained

(* Without an edit, names and stacks stay.                                 *)
LEMMA KeptFacts ==
  ASSUME NEW w, NEW names, Facts(w, names), NEW v, Kept(w, v)
  PROVE  Facts(v, names)
<1>1. Chained(v.undo, Text(v), names) /\ Chained(v.redo, Text(v), names)
  BY NothingChained DEF Kept, Facts, TextsOf
<1>2. TextsOf(v, names)
  BY <1>1 DEF Kept, Facts, TextsOf
<1>3. InRun(v)
  <2>1. CASE v.group = "None"
    BY <2>1 DEF InRun
  <2>2. CASE v.group # "None"
    <3>1. InRun(w) /\ w.group # "None" /\ v.groupLine = w.groupLine
      BY <2>2 DEF Kept, Facts
    <3>2. v.redo = <<>> /\ v.state = v.next - 1 /\ v.saved # v.state
      BY <3>1 DEF Kept, InRun
    <3>3. CASE v.undo = w.undo
      BY <3>1, <3>2, <3>3 DEF Kept, InRun
    <3>4. CASE v.undo = <<>>
      <4>1. Len(v.undo) = 0
        BY <3>4, NoElements
      <4>. QED  BY <3>2, <4>1 DEF InRun
    <3>. QED  BY <3>3, <3>4 DEF Kept
  <2>. QED  BY <2>1, <2>2
<1>. QED  BY <1>2, <1>3 DEF Facts, Kept

\* What a push leaves: j snapshots of the stack fall off its end.
(* r is stack, without its oldest snapshots when it is full, and s.        *)
PushedOn(r, stack, s, m, j) ==
  /\ m \in Nat /\ j \in Nat /\ Len(stack) = m + j /\ IsSeq(r) /\ Len(r) = m + 1
  /\ r[m + 1] = s /\ \A k \in 1..m : r[k] = stack[k + j]

LEMMA PushElements ==
  ASSUME NEW w, NEW stack, NEW s, IsSeq(stack), w.depth \in Nat, w.depth > 0
  PROVE  \E m, j : PushedOn(Push(w, stack, s), stack, s, m, j)
<1>1. Len(stack) \in Nat
  BY SeqIs
<1>2. CASE Len(stack) < w.depth
  <2> DEFINE r == Append(stack, s)
             L == Len(stack)
             z == 0
  <2>1. /\ IsSeq(r) /\ Len(r) = L + 1 /\ r[L + 1] = s
        /\ \A i \in 1..L : r[i] = stack[i]
    BY Appended
  <2>2. Push(w, stack, s) = r
    BY <1>2 DEF Push
  <2> HIDE DEF r
  <2>3. L \in Nat /\ z \in Nat /\ L = L + z /\ \A k \in 1..L : k + z = k
    BY <1>1
  <2> HIDE DEF z
  <2>4. \A k \in 1..L : r[k] = stack[k + z]
    BY <2>1, <2>3
  <2>5. PushedOn(r, stack, s, L, z)
    BY <2>1, <2>3, <2>4 DEF PushedOn
  <2>. QED  BY <2>2, <2>5
<1>3. CASE ~(Len(stack) < w.depth)
  <2>1. stack # <<>> /\ Len(stack) > 0
    BY <1>1, <1>3, NoElements
  <2> DEFINE u == Tail(stack)
             r == Append(u, s)
             L == Len(u)
             o == 1
  <2>2. IsSeq(u) /\ Len(u) = Len(stack) - 1 /\ \A i \in 1..Len(stack) - 1 : u[i] = stack[i + 1]
    BY <2>1, Tailed
  <2>3. Push(w, stack, s) = r
    BY <1>3 DEF Push
  <2> HIDE DEF u
  <2>4. /\ IsSeq(r) /\ Len(r) = L + 1 /\ r[L + 1] = s
        /\ \A i \in 1..L : r[i] = u[i]
    BY <2>2, Appended
  <2> HIDE DEF r
  <2>5. L \in Nat /\ o \in Nat /\ Len(stack) = L + o
    BY <1>1, <2>1, <2>2
  <2>6. \A k \in 1..L : r[k] = stack[k + o]
    <3>1. L = Len(stack) - 1
      BY <2>2
    <3> HIDE DEF L
    <3>. QED  BY <2>2, <2>4, <3>1
  <2> HIDE DEF o
  <2>7. PushedOn(r, stack, s, L, o)
    BY <2>4, <2>5, <2>6 DEF PushedOn
  <2>. QED  BY <2>3, <2>7
<1>. QED  BY <1>2, <1>3

(* A stack stays chained when it grows, when its oldest snapshot is lost,  *)
(* and when its top is taken.                                              *)
LEMMA ChainPushed ==
  ASSUME NEW w, w.depth \in Nat, w.depth > 0, NEW stack, IsSeq(stack),
         NEW t, NEW names, Chained(stack, t, names),
         NEW s, NEW u, Leads(s, u, names), names[s.state + 1] = t
  PROVE  Chained(Push(w, stack, s), u, names)
<1> DEFINE r == Push(w, stack, s)
<1>1. PICK m, j : PushedOn(r, stack, s, m, j)
  BY PushElements
<1> HIDE DEF r
<1>2. /\ m \in Nat /\ j \in Nat /\ Len(stack) = m + j /\ Len(r) = m + 1
      /\ r[m + 1] = s /\ \A k \in 1..m : r[k] = stack[k + j]
  BY <1>1 DEF PushedOn
<1>3. ASSUME NEW k \in 1..m + 1
      PROVE  Leads(r[k], IF k = m + 1 THEN u ELSE names[r[k + 1].state + 1], names)
  <2>1. CASE k = m + 1
    BY <1>2, <2>1
  <2>2. CASE k # m + 1
    <3> DEFINE p == k + j
               q == k + 1
    <3>1. k \in 1..m /\ p \in 1..Len(stack) /\ q \in 1..m + 1
      BY <1>2, <2>2
    <3>2. r[k] = stack[p]
      BY <1>2, <3>1
    <3>3. Leads(stack[p], IF p = Len(stack) THEN t ELSE names[stack[p + 1].state + 1], names)
      <4> HIDE DEF p
      <4>. QED  BY <3>1 DEF Chained
    <3>4. CASE k = m
      <4>1. p = Len(stack) /\ q = m + 1
        BY <1>2, <3>4
      <4>2. names[r[q].state + 1] = t
        <5> HIDE DEF q
        <5>. QED  BY <1>2, <4>1
      <4>. QED  BY <2>2, <3>2, <3>3, <4>1, <4>2
    <3>5. CASE k # m
      <4>1. p # Len(stack) /\ q \in 1..m /\ p + 1 = q + j
        BY <1>2, <3>1, <3>5
      <4>2. r[q] = stack[p + 1]
        <5> HIDE DEF p, q
        <5>. QED  BY <1>2, <4>1
      <4> HIDE DEF p
      <4>. QED  BY <2>2, <3>2, <3>3, <4>1, <4>2
    <3>. QED  BY <3>4, <3>5
  <2>. QED  BY <2>1, <2>2
<1>4. Chained(r, u, names)
  BY <1>2, <1>3 DEF Chained
<1>. QED  BY <1>4 DEF r

LEMMA ChainFront ==
  ASSUME NEW stack, IsSeq(stack), stack # <<>>, NEW t, NEW names, Chained(stack, t, names)
  PROVE  /\ Leads(Last(stack), t, names)
         /\ Chained(Front(stack), names[Last(stack).state + 1], names)
<1> DEFINE r == Front(stack)
           L == Len(stack)
           m == L - 1
<1>1. /\ IsSeq(r) /\ Len(r) = m /\ L > 0 /\ Last(stack) = stack[L] /\ L \in Nat
      /\ \A i \in 1..m : r[i] = stack[i]
  BY Fronted, SeqIs
<1> HIDE DEF r
<1>2. \A k \in 1..L : Leads(stack[k], IF k = L THEN t ELSE names[stack[k + 1].state + 1], names)
  BY DEF Chained
<1> HIDE DEF L
<1>3. L \in 1..L /\ m \in Nat /\ m + 1 = L
  BY <1>1
<1>4. Leads(Last(stack), t, names)
  BY <1>1, <1>2, <1>3
<1> HIDE DEF m
<1>5. ASSUME NEW k \in 1..m
      PROVE  Leads(r[k], IF k = m THEN names[Last(stack).state + 1] ELSE names[r[k + 1].state + 1], names)
  <2> DEFINE q == k + 1
  <2>1. k \in 1..L /\ k # L /\ q \in 1..L /\ (k # m => q \in 1..m) /\ (k = m => q = L)
    BY <1>3
  <2>2. Leads(stack[k], names[stack[q].state + 1], names) /\ r[k] = stack[k]
    BY <1>1, <1>2, <2>1
  <2> HIDE DEF q
  <2>3. k = m => stack[q] = Last(stack)
    BY <1>1, <2>1
  <2>4. k # m => stack[q] = r[q]
    BY <1>1, <2>1
  <2>. QED  BY <2>2, <2>3, <2>4 DEF q
<1>6. Chained(r, names[Last(stack).state + 1], names)
  BY <1>1, <1>5 DEF Chained
<1>. QED  BY <1>4, <1>6 DEF r


\* The text of v gets the name it has in v.
(* The texts after a key: that of the editor is filed under its name.      *)
Renamed(v, names) == [id \in 1..v.next |-> IF id = v.state + 1 THEN Text(v) ELSE names[id]]

\* other has the names up to n that names has.
(* The first n names are of the same texts.                                *)
AgreeUpTo(names, other, n) ==
  Len(names) = n /\ n \in Nat /\ n <= Len(other) /\ Len(other) \in Nat
    /\ \A id \in 1..n : other[id] = names[id]

(* A chain does not see names given out later.                             *)
LEMMA ChainNames ==
  ASSUME NEW stack, IsSeq(stack), NEW t, NEW names, Chained(stack, t, names),
         NEW n, NEW other, AgreeUpTo(names, other, n)
  PROVE  Chained(stack, t, other)
<1> DEFINE L == Len(stack)
<1>1. /\ Len(names) = n /\ n \in Nat /\ n <= Len(other) /\ Len(other) \in Nat
      /\ \A id \in 1..n : other[id] = names[id]
  BY DEF AgreeUpTo
<1>2. L \in Nat
  BY SeqIs
<1>3. \A k \in 1..L : Leads(stack[k], IF k = L THEN t ELSE names[stack[k + 1].state + 1], names)
  BY DEF Chained
<1> HIDE DEF L
<1>4. ASSUME NEW k \in 1..L
      PROVE  /\ stack[k].state + 1 \in 1..n /\ stack[k].state + 1 \in 1..Len(other)
             /\ stack[k].state \in Nat
             /\ other[stack[k].state + 1] = names[stack[k].state + 1]
  <2>1. stack[k].state + 1 \in 1..n /\ stack[k].state \in Nat
    BY <1>1, <1>3 DEF Leads
  <2>. QED  BY <1>1, <2>1
<1>5. ASSUME NEW k \in 1..L
      PROVE  Leads(stack[k], IF k = L THEN t ELSE other[stack[k + 1].state + 1], other)
  <2> DEFINE u == IF k = L THEN t ELSE names[stack[k + 1].state + 1]
             v == IF k = L THEN t ELSE other[stack[k + 1].state + 1]
  <2>1. u = v
    <3>1. CASE k = L
      BY <3>1
    <3>2. CASE k # L
      <4> DEFINE q == k + 1
      <4>1. q \in 1..L
        BY <1>2, <3>2
      <4> HIDE DEF q
      <4>2. other[stack[q].state + 1] = names[stack[q].state + 1]
        BY <1>4, <4>1
      <4>. QED  BY <3>2, <4>2 DEF q
    <3>. QED  BY <3>1, <3>2
  <2>2. Leads(stack[k], u, names)
    BY <1>3
  <2> HIDE DEF u, v
  <2>3. Leads(stack[k], v, other)
    BY <1>4, <2>1, <2>2 DEF Leads
  <2>. QED  BY <2>3 DEF v
<1>. QED  BY <1>5 DEF Chained, L

\* What the names are once the text of v has its own.
LEMMA RenamedIs ==
  ASSUME NEW v, NEW names, v.next \in Nat, v.state \in 0..(v.next - 1)
  PROVE  LET r == Renamed(v, names)
         IN  /\ IsSeq(r) /\ Len(r) = v.next /\ r[v.state + 1] = Text(v)
             /\ \A id \in 1..v.next : id # v.state + 1 => r[id] = names[id]
<1> DEFINE r == Renamed(v, names)
           n == v.next
           p == v.state + 1
<1>1. n \in Nat /\ p \in 1..n
  OBVIOUS
<1>2. r = [id \in 1..n |-> IF id = p THEN Text(v) ELSE names[id]]
  BY DEF Renamed
<1> HIDE DEF r, n, p
<1>3. r = [id \in 1..n |-> r[id]]
  BY <1>2
<1>4. IsSeq(r) /\ Len(r) = n
  BY <1>1, <1>3, IsSeqOf
<1>5. r[p] = Text(v) /\ \A id \in 1..n : id # p => r[id] = names[id]
  BY <1>1, <1>2
<1>. QED  BY <1>4, <1>5 DEF r, n, p

LEMMA KeptNames ==
  ASSUME NEW w, NEW names, Facts(w, names), NEW v, Kept(w, v)
  PROVE  Renamed(v, names) = names
<1> DEFINE r == Renamed(v, names)
           p == v.state + 1
<1>1. /\ IsSeq(names) /\ Len(names) = w.next /\ Text(v) = names[p] /\ v.next = w.next
      /\ v.next \in Nat /\ v.state \in 0..(v.next - 1)
  BY DEF Facts, TextsOf, Kept, Sane, Based, Named
<1>2. /\ IsSeq(r) /\ Len(r) = v.next /\ r[p] = Text(v)
      /\ \A id \in 1..v.next : id # p => r[id] = names[id]
  BY <1>1, RenamedIs
<1> HIDE DEF r, p
<1>3. \A id \in 1..Len(r) : r[id] = names[id]
  BY <1>1, <1>2
<1>4. r = names
  BY <1>1, <1>2, <1>3, SameSequence
<1>. QED  BY <1>4 DEF r

(* A new text is filed under its new name.                                 *)
LEMMA NewStateFacts ==
  ASSUME NEW w, NEW names, Facts(w, names), NEW v, NewState(w, v)
  PROVE  /\ Facts(v, Renamed(v, names)) /\ v.saved = w.saved
         /\ Renamed(v, names)[v.saved + 1] = names[w.saved + 1]
<1> DEFINE r == Renamed(v, names)
           n == w.next
<1>1. PICK s : NewStateBy(w, v, s)
  BY DEF NewState
<1>2. /\ Sane(v) /\ v.mode = w.mode /\ v.depth = w.depth
      /\ v.state = n /\ v.next = n + 1 /\ v.saved = w.saved
      /\ s.state = w.state /\ Usable(s, Text(v)) /\ Back(Text(v), s) = Text(w)
      /\ v.redo = <<>>
      /\ v.undo = <<>> \/ (w.depth > 0 /\ v.undo = Push(w, w.undo, s))
      /\ v.group # "None" => s.kind = "line" /\ s.existed = TRUE /\ s.number = v.groupLine
  BY <1>1 DEF NewStateBy
<1>3. /\ n \in Nat /\ w.state \in 0..(n - 1) /\ w.saved \in 0..(n - 1)
      /\ IsSeq(names) /\ Len(names) = n
      /\ \A id \in 1..n : Proper(w.mode, names[id])
      /\ Text(w) = names[w.state + 1] /\ Chained(w.undo, Text(w), names)
      /\ w.depth \in Nat /\ IsSeq(w.undo)
  BY DEF Facts, TextsOf, Sane, Based, Named, Stacks
<1>4. v.next \in Nat /\ v.state \in 0..(v.next - 1) /\ v.state + 1 = n + 1
  BY <1>2, <1>3
<1>5. /\ IsSeq(r) /\ Len(r) = n + 1 /\ r[n + 1] = Text(v)
      /\ \A id \in 1..n + 1 : id # n + 1 => r[id] = names[id]
  <2>1. /\ IsSeq(r) /\ Len(r) = v.next /\ r[v.state + 1] = Text(v)
        /\ \A id \in 1..v.next : id # v.state + 1 => r[id] = names[id]
    BY <1>4, RenamedIs
  <2> HIDE DEF r
  <2>. QED  BY <1>2, <2>1
<1> HIDE DEF r, n
<1>6. \A id \in 1..n : r[id] = names[id]
  BY <1>3, <1>5
<1>7. AgreeUpTo(names, r, n)
  BY <1>3, <1>5, <1>6 DEF AgreeUpTo
<1>8. w.state + 1 \in 1..n /\ w.saved + 1 \in 1..n
  BY <1>3
<1>9. Leads(s, Text(v), r) /\ r[s.state + 1] = Text(w)
  <2>1. r[w.state + 1] = Text(w)
    BY <1>3, <1>6, <1>8
  <2>2. s.state + 1 \in 1..Len(r) /\ s.state \in Nat
    BY <1>2, <1>3, <1>5
  <2>. QED  BY <1>2, <2>1, <2>2 DEF Leads
<1>10. Chained(w.undo, Text(w), r)
  BY <1>3, <1>7, ChainNames
<1>11. Chained(v.undo, Text(v), r) /\ Chained(v.redo, Text(v), r)
  <2>1. w.depth > 0 => Chained(Push(w, w.undo, s), Text(v), r)
    BY <1>3, <1>9, <1>10, ChainPushed
  <2>. QED  BY <1>2, <2>1, NothingChained
<1>12. \A id \in 1..n + 1 : Proper(v.mode, r[id])
  <2>1. Proper(v.mode, Text(v))
    BY <1>2, TextProper
  <2>2. ASSUME NEW id \in 1..n + 1, id # n + 1 PROVE Proper(v.mode, r[id])
    <3>1. id \in 1..n
      BY <1>3, <2>2
    <3>. QED  BY <1>2, <1>3, <1>6, <3>1
  <2>. QED  BY <1>5, <2>1, <2>2
<1>13. TextsOf(v, r)
  BY <1>2, <1>4, <1>5, <1>11, <1>12 DEF TextsOf
<1>14. InRun(v)
  <2>1. v.state = v.next - 1 /\ v.saved # v.state
    BY <1>2, <1>3
  <2>2. \A k \in 1..Len(v.undo) : v.undo[k].state # v.state
    <3>1. CASE v.undo = <<>>
      <4>1. Len(v.undo) = 0
        BY <3>1, NoElements
      <4>. QED  BY <4>1
    <3>2. CASE w.depth > 0 /\ v.undo = Push(w, w.undo, s)
      <4>1. PICK m, j : PushedOn(v.undo, w.undo, s, m, j)
        BY <1>3, <3>2, PushElements
      <4>2. ASSUME NEW k \in 1..Len(w.undo) PROVE w.undo[k].state < n /\ w.undo[k].state \in Nat
        <5>1. w.undo[k].state + 1 \in 1..n /\ w.undo[k].state \in Nat
          BY <1>3 DEF Chained, Leads
        <5>. QED  BY <1>3, <5>1
      <4>3. ASSUME NEW k \in 1..Len(v.undo) PROVE v.undo[k].state # n
        <5>1. CASE k = m + 1
          BY <1>2, <1>3, <4>1, <5>1 DEF PushedOn
        <5>2. CASE k # m + 1
          <6>1. k \in 1..m /\ k + j \in 1..Len(w.undo)
            BY <4>1, <5>2 DEF PushedOn
          <6>2. v.undo[k] = w.undo[k + j]
            BY <4>1, <6>1 DEF PushedOn
          <6>. QED  BY <1>3, <4>2, <6>1, <6>2
        <5>. QED  BY <5>1, <5>2
      <4>. QED  BY <1>2, <4>3
    <3>. QED  BY <1>2, <3>1, <3>2
  <2>3. ASSUME v.group # "None", NEW k \in 1..Len(v.undo), k = Len(v.undo)
        PROVE  v.undo[k].kind = "line" /\ v.undo[k].existed = TRUE /\ v.undo[k].number = v.groupLine
    <3>1. CASE v.undo = <<>>
      <4>1. Len(v.undo) = 0
        BY <3>1, NoElements
      <4>. QED  BY <2>3, <4>1
    <3>2. CASE w.depth > 0 /\ v.undo = Push(w, w.undo, s)
      <4>1. PICK m, j : PushedOn(v.undo, w.undo, s, m, j)
        BY <1>3, <3>2, PushElements
      <4>2. v.undo[k] = s
        BY <2>3, <4>1 DEF PushedOn
      <4>. QED  BY <1>2, <2>3, <4>2
    <3>. QED  BY <1>2, <3>1, <3>2
  <2>. QED  BY <1>2, <2>1, <2>2, <2>3 DEF InRun
<1>15. Facts(v, r)
  BY <1>2, <1>13, <1>14 DEF Facts
<1>16. r[v.saved + 1] = names[w.saved + 1]
  BY <1>2, <1>6, <1>8
<1>. QED  BY <1>2, <1>15, <1>16 DEF r

(* One more key of a run is filed under the name it has, which no snapshot *)
(* has.                                                                    *)
LEMMA SameRunFacts ==
  ASSUME NEW w, NEW names, Facts(w, names), NEW v, SameRun(w, v)
  PROVE  /\ Facts(v, Renamed(v, names)) /\ v.saved = w.saved
         /\ Renamed(v, names)[v.saved + 1] = names[w.saved + 1]
<1> DEFINE r == Renamed(v, names)
           n == w.next
           p == w.state + 1
           U == w.undo
           L == Len(U)
<1>1. /\ Sane(v) /\ v.mode = w.mode /\ v.depth = w.depth /\ v.state = w.state /\ v.next = n
      /\ v.saved = w.saved /\ v.undo = U /\ v.redo = w.redo
      /\ w.group # "None" /\ v.group = w.group /\ v.groupLine = w.groupLine
      /\ \A s : s.kind = "line" /\ s.existed = TRUE /\ s.number = w.groupLine
                  => Back(Text(v), s) = Back(Text(w), s)
  BY DEF SameRun
<1>2. /\ n \in Nat /\ w.state \in 0..(n - 1) /\ w.saved \in 0..(n - 1)
      /\ IsSeq(names) /\ Len(names) = n
      /\ \A id \in 1..n : Proper(w.mode, names[id])
      /\ Chained(U, Text(w), names) /\ IsSeq(U)
  BY DEF Facts, TextsOf, Sane, Based, Named, Stacks
<1>3. /\ w.redo = <<>> /\ w.saved # w.state
      /\ \A k \in 1..L : U[k].state # w.state
      /\ \A k \in 1..L : k = L =>
           U[k].kind = "line" /\ U[k].existed = TRUE /\ U[k].number = w.groupLine
  BY <1>1 DEF Facts, InRun
<1>4. /\ IsSeq(r) /\ Len(r) = n /\ r[p] = Text(v)
      /\ \A id \in 1..n : id # p => r[id] = names[id]
  BY <1>1, <1>2, RenamedIs
<1>5. p \in 1..n /\ L \in Nat
  BY <1>2, SeqIs
<1>6. \A k \in 1..L : Leads(U[k], IF k = L THEN Text(w) ELSE names[U[k + 1].state + 1], names)
  BY <1>2 DEF Chained
<1> HIDE DEF r, n, L, U
<1>7. ASSUME NEW k \in 1..L
      PROVE  /\ U[k].state + 1 \in 1..n /\ U[k].state \in Nat
             /\ r[U[k].state + 1] = names[U[k].state + 1]
  <2>1. U[k].state + 1 \in 1..n /\ U[k].state \in Nat
    BY <1>2, <1>6 DEF Leads
  <2>2. U[k].state + 1 # p
    BY <1>2, <1>3, <2>1
  <2>. QED  BY <1>4, <2>1, <2>2
<1> HIDE DEF p
<1>8. ASSUME NEW k \in 1..L
      PROVE  Leads(U[k], IF k = L THEN Text(v) ELSE r[U[k + 1].state + 1], r)
  <2>1. CASE k = L
    <3>1. Leads(U[k], Text(w), names)
      BY <1>6, <2>1
    <3>2. U[k].kind = "line" /\ U[k].existed = TRUE /\ U[k].number = w.groupLine
      BY <1>3, <2>1
    <3>3. Back(Text(v), U[k]) = Back(Text(w), U[k])
      BY <1>1, <3>2
    <3>4. Usable(U[k], Text(v))
      BY <3>1, <3>2 DEF Leads, Usable
    <3>5. Leads(U[k], Text(v), r)
      BY <1>2, <1>4, <1>7, <3>1, <3>3, <3>4 DEF Leads
    <3>. QED  BY <2>1, <3>5
  <2>2. CASE k # L
    <3> DEFINE q == k + 1
    <3>1. q \in 1..L
      BY <1>5, <2>2
    <3>2. Leads(U[k], names[U[q].state + 1], names)
      BY <1>6, <2>2
    <3> HIDE DEF q
    <3>3. r[U[q].state + 1] = names[U[q].state + 1]
      BY <1>7, <3>1
    <3>4. Leads(U[k], r[U[q].state + 1], r)
      BY <1>2, <1>4, <1>7, <3>2, <3>3 DEF Leads
    <3>. QED  BY <2>2, <3>4 DEF q
  <2>. QED  BY <2>1, <2>2
<1>9. Chained(v.undo, Text(v), r) /\ Chained(v.redo, Text(v), r)
  <2>1. Chained(U, Text(v), r)
    BY <1>8 DEF Chained, L
  <2>. QED  BY <1>1, <1>3, <2>1, NothingChained
<1>10. \A id \in 1..n : Proper(v.mode, r[id])
  <2>1. Proper(v.mode, Text(v))
    BY <1>1, TextProper
  <2>. QED  BY <1>1, <1>2, <1>4, <2>1
<1>11. TextsOf(v, r)
  BY <1>1, <1>4, <1>9, <1>10 DEF TextsOf, p
<1>12. InRun(v)
  BY <1>1 DEF Facts, InRun, U, n
<1>13. Facts(v, r)
  BY <1>1, <1>11, <1>12 DEF Facts
<1>14. r[v.saved + 1] = names[w.saved + 1]
  <2>1. w.saved + 1 \in 1..n /\ w.saved + 1 # w.state + 1
    BY <1>2, <1>3
  <2>. QED  BY <1>1, <1>4, <2>1 DEF p
<1>. QED  BY <1>1, <1>13, <1>14 DEF r


(* Whatever an editing key does.                                           *)
LEMMA OutcomeFacts ==
  ASSUME NEW w, NEW names, Facts(w, names), NEW v, Outcome(w, v),
         NEW r, r = IF v.ok THEN Renamed(v, names) ELSE names
  PROVE  Facts(v, r) /\ v.saved = w.saved /\ r[v.saved + 1] = names[w.saved + 1]
<1>1. CASE Kept(w, v)
  <2>1. Renamed(v, names) = names
    BY <1>1, KeptNames
  <2>2. r = names
    BY <2>1
  <2>3. Facts(v, r) /\ v.saved = w.saved
    BY <1>1, <2>2, KeptFacts DEF Kept
  <2>. QED  BY <2>2, <2>3
<1>2. CASE v.ok /\ NewState(w, v)
  <2>1. r = Renamed(v, names)
    BY <1>2
  <2>. QED  BY <1>2, <2>1, NewStateFacts
<1>3. CASE v.ok /\ SameRun(w, v)
  <2>1. r = Renamed(v, names)
    BY <1>3
  <2>. QED  BY <1>3, <2>1, SameRunFacts
<1>. QED  BY <1>1, <1>2, <1>3 DEF Outcome

\* The last snapshot of either stack leads to a text that has a name.
(* The top of a stack can be restored.                                     *)
LEMMA StackRestorable ==
  ASSUME NEW w, NEW names, Facts(w, names), NEW from, from \in {"undo", "redo"}, w[from] # <<>>
  PROVE  /\ Restorable(w, Last(w[from]))
         /\ Leads(Last(w[from]), Text(w), names)
         /\ Chained(Front(w[from]), names[Last(w[from]).state + 1], names)
<1> DEFINE s == Last(w[from])
           stack == w[from]
<1>1. IsSeq(stack) /\ Chained(stack, Text(w), names)
  BY DEF Facts, TextsOf, Sane, Based, Stacks
<1> HIDE DEF stack
<1>2. Leads(Last(stack), Text(w), names) /\ Chained(Front(stack), names[Last(stack).state + 1], names)
  BY <1>1, ChainFront DEF stack
<1>3. Len(names) = w.next /\ w.next \in Nat /\ \A id \in 1..w.next : Proper(w.mode, names[id])
  BY DEF Facts, TextsOf, Sane, Based, Named
<1>4. Leads(s, Text(w), names)
  BY <1>2 DEF stack
<1> HIDE DEF s
<1>5. Restorable(w, s)
  <2>1. s.state + 1 \in 1..w.next /\ s.state \in Nat
    BY <1>3, <1>4 DEF Leads
  <2>2. s.state \in 0..(w.next - 1)
    BY <1>3, <2>1
  <2>. QED  BY <1>3, <1>4, <2>1, <2>2 DEF Leads, Restorable
<1>. QED  BY <1>2, <1>4, <1>5 DEF s, stack

(* An undo or redo gives the text its name back.                           *)
LEMMA MovedFacts ==
  ASSUME NEW w, NEW names, Facts(w, names), NEW from, NEW to, TheStacks(from, to),
         NEW v, Moved(w, v, from, to)
  PROVE  Facts(v, names) /\ v.saved = w.saved
<1> DEFINE s == Last(w[from])
           t == names[s.state + 1]
           F == w[from]
           T == w[to]
<1>1. /\ Sane(v) /\ v.mode = w.mode /\ v.depth = w.depth /\ v.next = w.next /\ v.saved = w.saved
      /\ v.group = "None" /\ F # <<>> /\ w.depth > 0
      /\ v.state = s.state /\ Text(v) = Back(Text(w), s)
      /\ \/ v.undo = <<>> /\ v.redo = <<>>
         \/ /\ v[from] = Front(F)
            /\ \E back : WayBack(w, v, back) /\ v[to] = Push(w, T, back)
  BY DEF Moved
<1>2. Leads(s, Text(w), names) /\ Chained(Front(F), t, names)
  BY <1>1, StackRestorable DEF TheStacks
<1>3. Text(v) = t
  BY <1>1, <1>2 DEF Leads
<1>4. /\ Len(names) = w.next /\ w.next \in Nat /\ w.state \in 0..(w.next - 1) /\ w.depth \in Nat
      /\ IsSeq(names) /\ Text(w) = names[w.state + 1]
      /\ \A id \in 1..w.next : Proper(w.mode, names[id])
  BY DEF Facts, TextsOf, Sane, Based, Named, Stacks
<1>5. IsSeq(T) /\ Chained(T, Text(w), names)
  BY DEF Facts, TextsOf, Sane, Based, Stacks, TheStacks
<1> HIDE DEF s, F, T
<1>6. Chained(v.undo, Text(v), names) /\ Chained(v.redo, Text(v), names)
  <2>1. CASE v.undo = <<>> /\ v.redo = <<>>
    BY <2>1, NothingChained
  <2>2. CASE v[from] = Front(F) /\ \E back : WayBack(w, v, back) /\ v[to] = Push(w, T, back)
    <3>1. PICK back : WayBack(w, v, back) /\ v[to] = Push(w, T, back)
      BY <2>2
    <3>2. Leads(back, Text(v), names) /\ names[back.state + 1] = Text(w)
      <4>1. back.state = w.state /\ Usable(back, Text(v)) /\ Back(Text(v), back) = Text(w)
        BY <3>1 DEF WayBack
      <4>2. back.state + 1 \in 1..Len(names) /\ back.state \in Nat
        BY <1>4, <4>1
      <4>. QED  BY <1>4, <4>1, <4>2 DEF Leads
    <3>3. Chained(v[to], Text(v), names)
      BY <1>1, <1>4, <1>5, <3>1, <3>2, ChainPushed
    <3>4. Chained(v[from], Text(v), names)
      BY <1>2, <1>3, <2>2
    <3>. QED  BY <3>3, <3>4 DEF TheStacks
  <2>. QED  BY <1>1, <2>1, <2>2
<1>7. TextsOf(v, names)
  BY <1>1, <1>3, <1>4, <1>6 DEF TextsOf
<1>8. InRun(v)
  BY <1>1 DEF InRun
<1>. QED  BY <1>1, <1>7, <1>8 DEF Facts

\* A program as the editor takes it up.
(* A program the editor can be opened on.                                  *)
IsProgram(p) ==
  {"mode", "doc", "depth"} \subseteq DOMAIN p /\ p.mode \in Modes /\ p.depth \in Nat
    /\ Proper(p.mode, p.doc)

(* An editor just opened.                                                  *)
LEMMA BeginIs ==
  ASSUME NEW p, IsProgram(p), NEW ready \in BOOLEAN, ready => p.depth > 0
  PROVE  LET w == Begin(p, ready)
         IN  /\ Facts(w, <<p.doc>>) /\ w.saved = 0 /\ w.state = 0 /\ w.mode = p.mode
             /\ w.depth = p.depth /\ w.doc = p.doc /\ ~w.dirty /\ w.ok
<1> DEFINE fresh == [mode |-> p.mode, doc |-> p.doc, limit |-> p.limit, room |-> p.room,
                     columns |-> p.columns, visible |-> p.visible,
                     ok |-> TRUE, fault |-> "none",
                     state |-> 0, saved |-> 0, next |-> 1, group |-> "None",
                     groupLine |-> 0, groupCursor |-> 0, ready |-> ready, depth |-> p.depth,
                     undo |-> <<>>, redo |-> <<>>, term |-> NoTerm]
           e == [field \in DOMAIN fresh \cup DOMAIN NoLine |->
                   IF field \in DOMAIN fresh THEN fresh[field] ELSE NoLine[field]]
           x == FALSE
           y == TRUE
           i == 1
           l == LoadIndex(e, i, x, y)
           w == Begin(p, ready)
<1>1. w = IF p.doc = <<>> THEN e ELSE l
  BY DEF Begin
<1>2. /\ DOMAIN e = Fields /\ e.mode = p.mode /\ e.doc = p.doc /\ e.ok = TRUE
      /\ e.state = 0 /\ e.saved = 0 /\ e.next = 1 /\ e.group = "None"
      /\ e.ready = ready /\ e.depth = p.depth /\ e.undo = <<>> /\ e.redo = <<>>
  BY DEF Fields, NoLine
<1>3. e.has = FALSE /\ e.index = 1 /\ e.number = 0 /\ e.dirty = FALSE
  BY DEF NoLine
<1> HIDE DEF fresh, e, w
<1>4. /\ DOMAIN w = Fields /\ w.mode = p.mode /\ w.doc = p.doc /\ w.ok = TRUE
      /\ w.state = 0 /\ w.saved = 0 /\ w.next = 1 /\ w.group = "None"
      /\ w.ready = ready /\ w.depth = p.depth /\ w.undo = <<>> /\ w.redo = <<>>
      /\ InHand(w) /\ ~w.dirty
  <2>1. CASE p.doc = <<>>
    <3>1. e.number \in Nat
      <4>1. e.number = 0
        BY <1>3
      <4>. QED  BY ONLY <4>1
    <3>2. InHand(e)
      BY <1>2, <1>3, <2>1, <3>1 DEF InHand
    <3>. QED  BY <1>1, <1>2, <1>3, <2>1, <3>2
  <2>2. CASE p.doc # <<>>
    <3>1. InOrder(e.doc) /\ i \in 1..Len(e.doc)
      <4>1. InOrder(p.doc)
        BY DEF IsProgram, Proper
      <4>2. Len(p.doc) \in Nat /\ Len(p.doc) # 0
        BY <2>2, <4>1, SeqIs, NoElements DEF InOrder
      <4>. QED  BY <1>2, <4>1, <4>2
    <3>2. x \in BOOLEAN /\ y \in BOOLEAN
      OBVIOUS
    <3> HIDE DEF x, y, i
    <3>3. Focused(e, l)
      BY <1>2, <3>1, <3>2, LoadIndexIs
    <3>4. SameRest(e, w) /\ InHand(w) /\ ~w.dirty
      BY <1>1, <2>2, <3>3 DEF Focused
    <3>. QED  BY <1>2, <3>4, SameRestFields
  <2>. QED  BY <2>1, <2>2
<1>5. Sane(w)
  <2>1. Named(w)
    <3> DEFINE n == w.next
               s == w.state
               o == w.saved
    <3>1. n = 1 /\ s = 0 /\ o = 0
      BY <1>4
    <3> HIDE DEF n, s, o
    <3>2. n \in Nat /\ s \in 0..(n - 1) /\ o \in 0..(n - 1)
      BY ONLY <3>1
    <3>. QED  BY <3>2 DEF Named, n, s, o
  <2>2. Stacks(w)
    BY <1>4, NoElements DEF Stacks, IsProgram
  <2>. QED  BY <1>4, <2>1, <2>2 DEF Sane, Based, IsProgram
<1>6. Text(w) = p.doc
  BY <1>4, <1>5, CleanText DEF Sane, Proper
<1>7. TextsOf(w, <<p.doc>>)
  <2> DEFINE t == p.doc
             names == <<t>>
             n == w.next
             s == w.state
  <2>1. IsSeq(names) /\ Len(names) = 1 /\ names[1] = t
    BY Singleton
  <2>2. Proper(w.mode, t)
    BY <1>4 DEF IsProgram
  <2>3. n = 1 /\ s = 0
    BY <1>4
  <2> HIDE DEF names, n, s, t
  <2>4. Len(names) = n /\ names[s + 1] = t /\ \A id \in 1..n : names[id] = t
    BY ONLY <2>1, <2>3
  <2>5. Chained(w.undo, Text(w), names) /\ Chained(w.redo, Text(w), names)
    BY <1>4, NothingChained
  <2>6. TextsOf(w, names)
    BY <1>6, <2>1, <2>2, <2>4, <2>5 DEF TextsOf, n, s, t
  <2>. QED  BY <2>6 DEF names, t
<1>8. InRun(w)
  BY <1>4 DEF InRun
<1>. QED  BY <1>4, <1>5, <1>7, <1>8 DEF Facts, w


-----------------------------------------------------------------------------
(* The invariant of a session.                                             *)

(* The programs the editor is opened on are programs.                      *)
LEMMA ProgramIs ==
  ASSUME NEW p \in Programs
  PROVE  IsProgram(p)
<1> DEFINE t == p.doc
           N == Len(t)
<1>1. /\ {"mode", "doc", "depth"} \subseteq DOMAIN p
      /\ p.mode \in Modes /\ p.depth \in Nat /\ N \in Nat
      /\ t = [i \in 1..N |-> [number |-> t[i].number, body |-> t[i].body]]
      /\ \A i \in 1..N : t[i].number \in Nat
      /\ \A i, j \in 1..N : i < j => t[i].number < t[j].number
      /\ p.mode = "Structured" => \A i \in 1..N : t[i].number = i
  BY ProgramsAssumption
<1>2. IsSeq(t)
  <2> DEFINE f(i) == [number |-> t[i].number, body |-> t[i].body]
  <2>1. t = [i \in 1..N |-> t[i]]
    <3> HIDE DEF t, N
    <3>. QED  BY <1>1
  <2>. QED  BY <1>1, <2>1, IsSeqOf
<1>3. \A i \in 1..N : t[i] = [number |-> t[i].number, body |-> t[i].body]
  <2> HIDE DEF t, N
  <2>. QED  BY <1>1
<1> HIDE DEF t
<1>4. InOrder(t)
  BY <1>1, <1>2, <1>3 DEF InOrder, IsLine
<1>. QED  BY <1>1, <1>4 DEF IsProgram, Proper, Positioned, t

\* The saved name is the name of the file's text.
(* The file is the text marked as saved, when the program was clean on     *)
(* entry.                                                                  *)
FileNamed == ~entryDirty => texts[ed.saved + 1] = file

\* Outside a session the line in hand is written back, and an editor that
\* asks what to do knows of changes.
(* Where the session is, and what it has left behind.                      *)
Left ==
  /\ session \in {"open", "asking", "closed"}
  /\ session = "asking" => storeDirty /\ progDirty
  /\ session # "open" => ~ed.dirty
  /\ LeftAsMarked

(* The inductive invariant.                                                *)
EditorInv ==
  /\ program \in Programs /\ ed.mode = program.mode /\ ed.depth = program.depth
  /\ Facts(ed, texts) /\ FileNamed /\ Left

(* Initially the program has been opened in the editor.                    *)
LEMMA EditorInvInit == Init => EditorInv
<1> SUFFICES ASSUME Init PROVE EditorInv
  OBVIOUS
<1>1. PICK p \in Programs :
        /\ program = p /\ ed = Begin(p, p.depth > 0) /\ texts = <<p.doc>> /\ file = p.doc
        /\ session = "open"
  BY DEF Init
<1> DEFINE ready == p.depth > 0
<1>2. IsProgram(p) /\ ready \in BOOLEAN
  BY ProgramIs
<1>3. ed = Begin(p, ready) /\ (ready => p.depth > 0)
  BY <1>1
<1> HIDE DEF ready
<1>4. Facts(ed, <<p.doc>>) /\ ed.saved = 0 /\ ed.mode = p.mode /\ ed.depth = p.depth
  BY <1>2, <1>3, BeginIs
<1>5. texts[ed.saved + 1] = file
  <2> DEFINE o == ed.saved
             t == p.doc
  <2>1. o = 0 /\ texts = <<t>> /\ file = t
    BY <1>1, <1>4
  <2> HIDE DEF o, t
  <2>2. o + 1 = 1
    BY <2>1
  <2>. QED  BY <2>1, <2>2, Singleton DEF o
<1>6. Left
  BY <1>1 DEF Left, LeftAsMarked
<1>. QED  BY <1>1, <1>4, <1>5, <1>6 DEF EditorInv, FileNamed

-----------------------------------------------------------------------------
(* Each key.                                                               *)

LEMMA GivenIs ==
  ASSUME EditorInv, NEW fault
  PROVE  LET w == Given(fault)
         IN  /\ Facts(w, texts) /\ Sane(w) /\ w.ok /\ w.mode = ed.mode /\ w.depth = ed.depth
             /\ w.saved = ed.saved /\ Kept(ed, w)
             /\ w.doc = ed.doc /\ w.dirty = ed.dirty /\ Text(w) = Text(ed) /\ w.state = ed.state
<1> DEFINE w == Given(fault)
           y == TRUE
           a == [ed EXCEPT !.ok = y]
<1>1. Facts(ed, texts) /\ Sane(ed) /\ DOMAIN ed = Fields
  BY DEF EditorInv, Facts, Sane, Based
<1>2. /\ DOMAIN w = Fields /\ w.ok = TRUE
      /\ \A f \in Fields \ {"ok", "fault"} : w[f] = ed[f]
  BY <1>1 DEF Given, Fields
<1> HIDE DEF w
<1>3. /\ SameProgram(ed, w) /\ w.state = ed.state /\ w.next = ed.next /\ w.saved = ed.saved
      /\ w.depth = ed.depth /\ w.ready = ed.ready /\ w.undo = ed.undo /\ w.redo = ed.redo
      /\ w.group = ed.group /\ w.groupLine = ed.groupLine
  BY <1>2 DEF SameProgram, Fields
<1>4. Based(w)
  BY <1>1, <1>2, <1>3 DEF Sane, Based, Named, Stacks, SameProgram
<1>5. Sane(w) /\ Text(w) = Text(ed)
  BY <1>1, <1>3, <1>4, SameProgramIs DEF Sane
<1>6. Kept(ed, w)
  BY <1>3, <1>5 DEF Kept, SameProgram
<1>7. Facts(w, texts)
  BY <1>1, <1>6, KeptFacts
<1>. QED  BY <1>2, <1>3, <1>5, <1>6, <1>7 DEF w, SameProgram

\* The editor once the key is done.
LEMMA SettledIs ==
  ASSUME NEW v, NEW names, Facts(v, names)
  PROVE  LET u == [v EXCEPT !.fault = "none"]
         IN  Facts(u, names) /\ SameCore(v, u)
<1> DEFINE x == "none"
           u == [v EXCEPT !.fault = x]
<1>1. Sane(v) /\ DOMAIN v = Fields
  BY DEF Facts, Sane, Based
<1>2. SameCore(v, u)
  <2> HIDE DEF x
  <2>. QED  BY <1>1, Loose
<1> HIDE DEF u
<1>3. Kept(v, u)
  BY <1>1, <1>2, QuietCore, QuietKept
<1>. QED  BY <1>2, <1>3, KeptFacts DEF u

LEMMA OutcomeSame ==
  ASSUME NEW w, NEW v, Outcome(w, v)
  PROVE  v.mode = w.mode /\ v.depth = w.depth
BY DEF Outcome, Kept, NewState, NewStateBy, SameRun

(* An editing key preserves the invariant.                                 *)
LEMMA EditKeyInv ==
  ASSUME EditorInv, NEW fault, NEW v, Outcome(Given(fault), v), EditKey(v, fault)
  PROVE  EditorInv'
<1> DEFINE w == Given(fault)
           r == IF v.ok THEN Renamed(v, texts) ELSE texts
           u == [v EXCEPT !.fault = "none"]
<1>1. /\ session = "open" /\ session' = session /\ program' = program
      /\ entryDirty' = entryDirty /\ file' = file
      /\ ed' = u /\ texts' = r
  BY DEF EditKey, NameText, Renamed
<1>2. Facts(w, texts) /\ w.mode = ed.mode /\ w.depth = ed.depth /\ w.saved = ed.saved
  BY GivenIs
<1> HIDE DEF w
<1>3. v.mode = w.mode /\ v.depth = w.depth
  BY OutcomeSame DEF w
<1>4. Facts(v, r) /\ v.saved = w.saved /\ r[v.saved + 1] = texts[w.saved + 1]
  BY <1>2, OutcomeFacts DEF w
<1> HIDE DEF r
<1>5. Facts(u, r) /\ SameCore(v, u)
  BY <1>4, SettledIs
<1> HIDE DEF u
<1>6. u.mode = v.mode /\ u.depth = v.depth /\ u.saved = v.saved
  BY <1>5, SameCoreFields
<1>7. Facts(ed', texts')
  BY <1>1, <1>5
<1>8. Facts(ed, texts)'
  BY <1>7 DEF Facts
<1>9. FileNamed'
  BY <1>1, <1>2, <1>4, <1>6 DEF FileNamed, EditorInv
<1>10. Left'
  BY <1>1 DEF Left, LeftAsMarked
<1>. QED  BY <1>1, <1>2, <1>3, <1>6, <1>8, <1>9, <1>10 DEF EditorInv


\* A key that leaves the names, the file and the session as they are.
(* What leaves the text or returns to an older one preserves it.           *)
LEMMA SameNamesInv ==
  ASSUME EditorInv, NEW v, Facts(v, texts), v.mode = ed.mode, v.depth = ed.depth,
         v.saved = ed.saved, session = "open", session' \in {session},
         UNCHANGED <<program, entryDirty, file, texts>>, ed' = [v EXCEPT !.fault = "none"]
  PROVE  EditorInv'
<1> DEFINE u == [v EXCEPT !.fault = "none"]
<1>1. Facts(u, texts) /\ SameCore(v, u)
  BY SettledIs
<1>2. ed' = u /\ program' = program /\ texts' = texts /\ entryDirty' = entryDirty /\ file' = file
      /\ session' = "open"
  OBVIOUS
<1> HIDE DEF u
<1>3. u.mode = v.mode /\ u.depth = v.depth /\ u.saved = v.saved
  BY <1>1, SameCoreFields
<1>4. Facts(ed', texts')
  BY <1>1, <1>2
<1>5. Facts(ed, texts)'
  BY <1>4 DEF Facts
<1>6. FileNamed'
  BY <1>2, <1>3 DEF FileNamed, EditorInv
<1>7. Left'
  BY <1>2 DEF Left, LeftAsMarked
<1>. QED  BY <1>2, <1>3, <1>5, <1>6, <1>7 DEF EditorInv

(* A moving key preserves it.                                              *)
LEMMA MoveKeyInv ==
  ASSUME EditorInv, NEW fault, NEW v, Quiet(Given(fault), v), MoveKey(v, fault)
  PROVE  EditorInv'
<1> DEFINE w == Given(fault)
<1>1. Facts(w, texts) /\ w.mode = ed.mode /\ w.depth = ed.depth /\ w.saved = ed.saved
  BY GivenIs
<1>2. Kept(w, v)
  BY QuietKept
<1> HIDE DEF w
<1>3. Facts(v, texts) /\ v.mode = ed.mode /\ v.depth = ed.depth /\ v.saved = ed.saved
  BY <1>1, <1>2, KeptFacts DEF Kept
<1>4. /\ session = "open" /\ session' \in {session}
      /\ UNCHANGED <<program, entryDirty, file, texts>> /\ ed' = [v EXCEPT !.fault = "none"]
  BY DEF MoveKey
<1>. QED  BY <1>3, <1>4, SameNamesInv

(* Undo and redo preserve it.                                              *)
LEMMA HistoryKeyInv ==
  ASSUME EditorInv, NEW fault, NEW from, NEW to, TheStacks(from, to), NEW given,
         HistoryKey(ApplyHistory(Given(given), from, to), fault)
  PROVE  EditorInv'
<1> DEFINE w == Given(given)
           v == ApplyHistory(w, from, to)
<1>1. /\ Facts(w, texts) /\ Sane(w) /\ w.ok /\ w.mode = ed.mode /\ w.depth = ed.depth
      /\ w.saved = ed.saved
  BY GivenIs
<1>2. /\ session = "open" /\ session' \in {session}
      /\ UNCHANGED <<program, entryDirty, file, texts>> /\ ed' = [v EXCEPT !.fault = "none"]
  BY DEF HistoryKey
<1> HIDE DEF w
<1>3. w[from] # <<>> => Restorable(w, Last(w[from]))
  BY <1>1, StackRestorable DEF TheStacks
<1>4. (~v.ok /\ Kept(w, v)) \/ (v.ok /\ Moved(w, v, from, to))
  BY <1>1, <1>3, ApplyHistoryIs
<1> HIDE DEF v
<1>5. Facts(v, texts) /\ v.saved = w.saved /\ v.mode = w.mode /\ v.depth = w.depth
  <2>1. CASE Kept(w, v)
    BY <1>1, <2>1, KeptFacts DEF Kept
  <2>2. CASE Moved(w, v, from, to)
    BY <1>1, <2>2, MovedFacts DEF Moved
  <2>. QED  BY <1>4, <2>1, <2>2
<1>. QED  BY <1>1, <1>2, <1>5, SameNamesInv

(* mark_saved names the text now as the saved one.                         *)
LEMMA MarkSavedIs ==
  ASSUME NEW w, NEW names, Facts(w, names)
  PROVE  LET v == MarkSaved(w)
         IN  /\ Facts(v, names) /\ v.saved = w.state /\ v.state = w.state /\ v.doc = w.doc
             /\ v.mode = w.mode /\ v.depth = w.depth /\ v.dirty = w.dirty /\ Text(v) = Text(w)
<1> DEFINE b == HistoryBoundary(w)
           v == MarkSaved(w)
<1>1. /\ Quiet(w, b) /\ b.group = "None"
      /\ \A f \in Fields \ {"group", "groupLine", "groupCursor"} : b[f] = w[f]
  BY BoundaryIs DEF Facts
<1>2. v = [b EXCEPT !.saved = w.state]
  BY DEF MarkSaved
<1> HIDE DEF b, v
<1>3. Facts(b, names) /\ Sane(b) /\ DOMAIN b = Fields /\ b.state = w.state
  BY <1>1, QuietKept, QuietIs, KeptFacts DEF Quiet
<1>4. /\ DOMAIN v = Fields /\ v.saved = w.state /\ \A f \in Fields \ {"saved"} : v[f] = b[f]
  BY <1>2, <1>3 DEF Fields
<1>5. /\ SameProgram(b, v) /\ v.state = b.state /\ v.next = b.next /\ v.depth = b.depth
      /\ v.ready = b.ready /\ v.undo = b.undo /\ v.redo = b.redo /\ v.group = b.group
  BY <1>4 DEF SameProgram, Fields
<1>6. Based(v)
  BY <1>3, <1>4, <1>5 DEF Sane, Based, Named, Stacks, SameProgram
<1>7. Sane(v) /\ Text(v) = Text(b)
  BY <1>3, <1>5, <1>6, SameProgramIs DEF Sane
<1>8. TextsOf(v, names)
  BY <1>3, <1>5, <1>7 DEF Facts, TextsOf, SameProgram
<1>9. InRun(v)
  BY <1>1, <1>5 DEF InRun
<1>10. b.doc = w.doc /\ b.mode = w.mode /\ b.depth = w.depth /\ b.dirty = w.dirty
  BY <1>1 DEF Fields
<1>. QED  BY <1>1, <1>3, <1>4, <1>5, <1>7, <1>8, <1>9, <1>10 DEF Facts, v, SameProgram, Quiet

\* Before a save and on leaving: the line in hand is written back.
(* Saving and leaving commit first.                                        *)
LEMMA CommitAsIs ==
  ASSUME EditorInv, NEW fault
  PROVE  LET w == CommitAs(fault)
         IN  /\ Facts(w, texts) /\ w.mode = ed.mode /\ w.depth = ed.depth /\ w.saved = ed.saved
             /\ w.ok => ~w.dirty
<1> DEFINE g == Given(fault)
           c == Commit(g)
           w == [c EXCEPT !.fault = "none"]
<1>1. CommitAs(fault) = w
  BY DEF CommitAs, Given
<1>2. Facts(g, texts) /\ Sane(g) /\ g.mode = ed.mode /\ g.depth = ed.depth /\ g.saved = ed.saved
  BY GivenIs
<1> HIDE DEF g
<1>3. Quiet(g, c) /\ (c.ok => ~c.dirty)
  BY <1>2, CommitQuiet
<1> HIDE DEF c
<1>4. Facts(c, texts) /\ c.mode = g.mode /\ c.depth = g.depth /\ c.saved = g.saved
  BY <1>2, <1>3, QuietKept, KeptFacts DEF Quiet
<1>5. Facts(w, texts) /\ SameCore(c, w)
  BY <1>4, SettledIs
<1> HIDE DEF w
<1>6. w.mode = c.mode /\ w.depth = c.depth /\ w.saved = c.saved /\ w.ok = c.ok /\ w.dirty = c.dirty
  BY <1>5, SameCoreFields
<1>. QED  BY <1>1, <1>2, <1>3, <1>4, <1>5, <1>6

\* The text of a clean editor is its document, under its name.
LEMMA CleanFacts ==
  ASSUME NEW w, NEW names, Facts(w, names), ~w.dirty
  PROVE  w.doc = names[w.state + 1]
BY CleanText DEF Facts, TextsOf, Sane, Proper

(* A save files the text.                                                  *)
LEMMA SaveWithInv ==
  ASSUME EditorInv, NEW w, Facts(w, texts), w.mode = ed.mode, w.depth = ed.depth,
         w.saved = ed.saved, w.ok => ~w.dirty, NEW saved, SaveWith(w, saved),
         UNCHANGED <<program, texts>>,
         \/ session' = "open"
         \/ session' = "closed" /\ saved /\ w.ok
  PROVE  EditorInv'
<1>1. program' = program /\ texts' = texts
  OBVIOUS
<1>2. CASE saved /\ w.ok
  <2> DEFINE v == MarkSaved(w)
  <2>1. ed' = v /\ file' = w.doc
    BY <1>2 DEF SaveWith
  <2>2. /\ Facts(v, texts) /\ v.saved = w.state /\ v.doc = w.doc
        /\ v.mode = w.mode /\ v.depth = w.depth /\ v.dirty = w.dirty
    BY MarkSavedIs
  <2> HIDE DEF v
  <2>3. Facts(ed', texts')
    BY <1>1, <2>1, <2>2
  <2>4. Facts(ed, texts)'
    BY <2>3 DEF Facts
  <2>5. FileNamed'
    <3>1. w.doc = texts[w.state + 1]
      BY <1>2, CleanFacts
    <3>. QED  BY <1>1, <2>1, <2>2, <3>1 DEF FileNamed
  <2>6. Left'
    BY <1>2, <2>1, <2>2 DEF Left, LeftAsMarked
  <2>. QED  BY <1>1, <2>1, <2>2, <2>4, <2>5, <2>6 DEF EditorInv
<1>3. CASE ~(saved /\ w.ok)
  <2>1. ed' = w /\ file' = file /\ entryDirty' = entryDirty /\ session' = "open"
    BY <1>3 DEF SaveWith
  <2>2. Facts(ed', texts')
    BY <1>1, <2>1
  <2>3. Facts(ed, texts)'
    BY <2>2 DEF Facts
  <2>4. FileNamed'
    BY <1>1, <2>1 DEF FileNamed, EditorInv
  <2>5. Left'
    BY <2>1 DEF Left, LeftAsMarked
  <2>. QED  BY <1>1, <2>1, <2>3, <2>4, <2>5 DEF EditorInv
<1>. QED  BY <1>2, <1>3

(* The save key preserves it.                                              *)
LEMMA SaveKeyInv ==
  ASSUME EditorInv, NEW saved, NEW fault, SaveKey(saved, fault)
  PROVE  EditorInv'
<1> DEFINE w == CommitAs(fault)
<1>1. /\ Facts(w, texts) /\ w.mode = ed.mode /\ w.depth = ed.depth /\ w.saved = ed.saved
      /\ w.ok => ~w.dirty
  BY CommitAsIs
<1>2. SaveWith(w, saved) /\ UNCHANGED <<program, texts>> /\ session' = "open"
  BY DEF SaveKey
<1> HIDE DEF w
<1>. QED  BY <1>1, <1>2, SaveWithInv

(* Leaving with a save preserves it.                                       *)
LEMMA ConfirmSaveInv ==
  ASSUME EditorInv, NEW saved \in BOOLEAN, ConfirmSave(saved)
  PROVE  EditorInv'
<1> DEFINE y == TRUE
           w == [ed EXCEPT !.ok = y]
<1>1. Facts(ed, texts) /\ Sane(ed) /\ DOMAIN ed = Fields /\ ~ed.dirty
  BY DEF EditorInv, Facts, Sane, Based, Left, ConfirmSave
<1>2. DOMAIN w = Fields /\ w.ok = TRUE /\ \A f \in Fields \ {"ok"} : w[f] = ed[f]
  BY <1>1 DEF Fields
<1>3. /\ SaveWith(w, saved) /\ UNCHANGED <<program, texts>>
      /\ session' = IF saved THEN "closed" ELSE "open"
  BY DEF ConfirmSave
<1> HIDE DEF w
<1>4. /\ SameProgram(ed, w) /\ w.state = ed.state /\ w.next = ed.next /\ w.saved = ed.saved
      /\ w.depth = ed.depth /\ w.ready = ed.ready /\ w.undo = ed.undo /\ w.redo = ed.redo
      /\ w.group = ed.group /\ w.groupLine = ed.groupLine
  BY <1>2 DEF SameProgram, Fields
<1>5. Based(w)
  BY <1>1, <1>2, <1>4 DEF Sane, Based, Named, Stacks, SameProgram
<1>6. Sane(w) /\ Text(w) = Text(ed)
  BY <1>1, <1>4, <1>5, SameProgramIs DEF Sane
<1>7. Kept(ed, w)
  BY <1>4, <1>6 DEF Kept, SameProgram
<1>8. Facts(w, texts)
  BY <1>1, <1>7, KeptFacts
<1>9. w.mode = ed.mode /\ (w.ok => ~w.dirty)
  BY <1>1, <1>4 DEF SameProgram
<1>10. session' = "open" \/ (session' = "closed" /\ saved /\ w.ok)
  BY <1>2, <1>3
<1>. QED  BY <1>3, <1>4, <1>8, <1>9, <1>10, SaveWithInv


(* Leaving without one, or going back to the text, preserves it.           *)
LEMMA ConfirmOtherInv ==
  ASSUME EditorInv, NEW keep \in BOOLEAN, ConfirmOther(keep)
  PROVE  EditorInv'
<1>1. /\ session = "asking" /\ session' = IF keep THEN "closed" ELSE "open"
      /\ UNCHANGED <<program, ed, entryDirty, progDirty, storeDirty, file, texts>>
  BY DEF ConfirmOther
<1>2. Facts(ed, texts)'
  <2>1. Facts(ed', texts')
    BY <1>1 DEF EditorInv
  <2>. QED  BY <2>1 DEF Facts
<1>3. FileNamed'
  BY <1>1 DEF EditorInv, FileNamed
<1>4. Left'
  BY <1>1 DEF EditorInv, Left, LeftAsMarked
<1>. QED  BY <1>1, <1>2, <1>3, <1>4 DEF EditorInv

(* The leave key preserves it.                                             *)
LEMMA LeaveWithInv ==
  ASSUME EditorInv, NEW fault, NEW next \in {"asking", "closed"}, LeaveWith(fault, next)
  PROVE  EditorInv'
<1> DEFINE given == IF fault = "flag" THEN "none" ELSE fault
           w == CommitAs(given)
           dirty == entryDirty \/ Changed(w)
           stored == storeDirty \/ Wrote(w)
           failed == fault = "flag" /\ stored # dirty
<1>1. /\ session = "open" /\ ed' = w
      /\ IF ~w.ok THEN storeDirty' = stored /\ UNCHANGED <<progDirty, session>>
         ELSE IF failed
           THEN storeDirty' = stored /\ progDirty' = TRUE /\ UNCHANGED session
           ELSE storeDirty' = dirty /\ progDirty' = dirty
                  /\ session' = IF next = "asking" /\ ~dirty THEN "closed" ELSE next
      /\ UNCHANGED <<program, entryDirty, file, texts>>
  BY DEF LeaveWith
<1> HIDE DEF given
<1>2. /\ Facts(w, texts) /\ w.mode = ed.mode /\ w.depth = ed.depth /\ w.saved = ed.saved
      /\ w.ok => ~w.dirty
  BY CommitAsIs
<1> HIDE DEF w, stored, failed
<1>3. Facts(ed, texts)'
  <2>1. Facts(ed', texts')
    BY <1>1, <1>2
  <2>. QED  BY <2>1 DEF Facts
<1>4. FileNamed'
  BY <1>1, <1>2 DEF FileNamed, EditorInv
<1>5. Left'
  <2>1. CASE ~w.ok \/ failed
    <3>1. session' = "open"
      BY <1>1, <2>1
    <3>. QED  BY <3>1 DEF Left, LeftAsMarked
  <2>2. CASE w.ok /\ ~failed
    <3>1. /\ storeDirty' = dirty /\ progDirty' = dirty
          /\ session' = IF next = "asking" /\ ~dirty THEN "closed" ELSE next
      BY <1>1, <2>2
    <3>2. session' \in {"asking", "closed"} /\ (session' = "asking" => dirty)
      BY <3>1
    <3>3. ~dirty => w.doc = file
      <4>1. ASSUME ~dirty PROVE w.doc = file
        <5>1. w.state = w.saved /\ ~entryDirty
          BY <4>1 DEF Changed
        <5>2. texts[w.saved + 1] = file
          BY <1>2, <5>1 DEF EditorInv, FileNamed
        <5>3. w.doc = texts[w.state + 1]
          BY <1>2, <2>2, CleanFacts
        <5>. QED  BY <5>1, <5>2, <5>3
      <4>. QED  BY <4>1
    <3> HIDE DEF dirty
    <3>. QED  BY <1>1, <1>2, <2>2, <3>1, <3>2, <3>3 DEF Left, LeftAsMarked
  <2>. QED  BY <2>1, <2>2
<1>. QED  BY <1>1, <1>2, <1>3, <1>4, <1>5 DEF EditorInv

(* Opening the editor again preserves it.                                  *)
LEMMA EditAgainInv ==
  ASSUME EditorInv, NEW ready \in {FALSE, program.depth > 0}, NEW n \in Numbers \cup {0},
         EditAgain(ready, n)
  PROVE  EditorInv'
<1> DEFINE t == ed.doc
           p == [program EXCEPT !.doc = t]
           w == Begin(p, ready)
           v == IF n > 0 THEN GotoLine(w, n) ELSE w
           names == <<t>>
<1>1. /\ session = "closed" /\ session' = "open" /\ entryDirty' = (progDirty \/ storeDirty)
      /\ ed' = v /\ texts' = names /\ program' = program /\ file' = file
  BY DEF EditAgain
<1>2. /\ program \in Programs /\ ed.mode = program.mode /\ ed.depth = program.depth
      /\ Sane(ed) /\ Left /\ IsProgram(program)
  BY ProgramIs DEF EditorInv, Facts
<1>3. IsProgram(p) /\ p.mode = program.mode /\ p.depth = program.depth /\ p.doc = t
  <2> HIDE DEF t
  <2>1. p.mode = program.mode /\ p.depth = program.depth /\ p.doc = t /\ DOMAIN p = DOMAIN program
    BY <1>2 DEF IsProgram
  <2>2. Proper(program.mode, t)
    BY <1>2 DEF Sane, t
  <2> HIDE DEF p
  <2>. QED  BY <1>2, <2>1, <2>2 DEF IsProgram
<1> HIDE DEF p
<1>4. ready \in BOOLEAN /\ (ready => p.depth > 0)
  <2> DEFINE deep == program.depth > 0
  <2>1. deep \in BOOLEAN
    OBVIOUS
  <2>2. ready \in {FALSE, deep}
    OBVIOUS
  <2>3. deep => p.depth > 0
    BY <1>3
  <2> HIDE DEF deep
  <2>4. CASE ready = FALSE
    BY ONLY <2>4
  <2>5. CASE ready = deep
    <3>1. CASE deep
      BY ONLY <3>1, <2>5, <2>3, <2>1
    <3>2. CASE ~deep
      BY ONLY <3>2, <2>5, <2>3, <2>1
    <3>. QED  BY ONLY <3>1, <3>2
  <2>. QED  BY ONLY <2>2, <2>4, <2>5
<1>5. /\ Facts(w, <<p.doc>>) /\ w.saved = 0 /\ w.mode = p.mode /\ w.depth = p.depth /\ w.ok
  BY <1>3, <1>4, BeginIs
<1>6. Facts(w, names) /\ Sane(w)
  BY <1>3, <1>5 DEF Facts
<1> HIDE DEF w, t, names
<1>7. Facts(v, names) /\ v.saved = w.saved /\ v.mode = w.mode /\ v.depth = w.depth
  <2>1. Quiet(w, GotoLine(w, n))
    BY <1>5, <1>6, GotoLineIs
  <2>2. Kept(w, GotoLine(w, n))
    BY <2>1, QuietKept
  <2>3. Facts(GotoLine(w, n), names)
    BY <1>6, <2>2, KeptFacts
  <2>. QED  BY <1>6, <2>2, <2>3 DEF Kept
<1> HIDE DEF v
<1>8. Facts(ed, texts)'
  <2>1. Facts(ed', texts')
    BY <1>1, <1>7
  <2>. QED  BY <2>1 DEF Facts
<1>9. FileNamed'
  <2>1. ASSUME ~entryDirty' PROVE texts'[ed'.saved + 1] = file'
    <3>1. t = file
      BY <1>1, <1>2, <2>1 DEF Left, LeftAsMarked, t
    <3> DEFINE o == ed'.saved
    <3>2. o = 0
      BY <1>1, <1>5, <1>7
    <3> HIDE DEF o
    <3>3. names[o + 1] = t
      <4>1. names[1] = t
        BY Singleton DEF names
      <4>2. o + 1 = 1
        BY ONLY <3>2
      <4>. QED  BY <4>1, <4>2
    <3>. QED  BY <1>1, <3>1, <3>3 DEF o
  <2>. QED  BY <2>1 DEF FileNamed
<1>10. Left'
  BY <1>1 DEF Left, LeftAsMarked
<1>. QED  BY <1>1, <1>2, <1>3, <1>5, <1>7, <1>8, <1>9, <1>10 DEF EditorInv

(* Doing nothing preserves it.                                             *)
LEMMA EditorInvUnchanged ==
  ASSUME EditorInv, UNCHANGED vars
  PROVE  EditorInv'
<1>1. UNCHANGED <<program, ed, session, entryDirty, progDirty, storeDirty, file, texts>>
  BY DEF vars
<1>2. Facts(ed, texts)'
  <2>1. Facts(ed', texts')
    BY <1>1 DEF EditorInv
  <2>. QED  BY <2>1 DEF Facts
<1>. QED  BY <1>1, <1>2 DEF EditorInv, FileNamed, Left, LeftAsMarked

-----------------------------------------------------------------------------
(* The keys that edit.                                                     *)

LEMMA EditKeysInv ==
  ASSUME EditorInv, NEW fault,
         \/ \E word \in Typeable : TypeKey(word, fault)
         \/ TabKey(fault) \/ OutdentKey(fault)
         \/ BackspaceKey(fault) \/ DeleteKey(fault) \/ DeleteLineKey(fault)
         \/ \E n \in Numbers : EnterKey(n, fault) \/ InsertLineKey(n, fault)
  PROVE  EditorInv'
<1> DEFINE w == Given(fault)
<1>1. Sane(w) /\ w.ok
  BY GivenIs
<1>2. Numbers \subseteq Nat
  BY ProgramsAssumption
<1>3. ASSUME NEW word \in Typeable, TypeKey(word, fault) PROVE EditorInv'
  <2>1. Outcome(w, InsertChar(w, word)) /\ EditKey(InsertChar(w, word), fault)
    BY <1>1, <1>3, InsertCharIs DEF TypeKey
  <2>. QED  BY <2>1, EditKeyInv
<1>4. ASSUME TabKey(fault) PROVE EditorInv'
  <2>1. Outcome(w, InsertTab(w)) /\ EditKey(InsertTab(w), fault)
    BY <1>1, <1>4, InsertTabIs DEF TabKey
  <2>. QED  BY <2>1, EditKeyInv
<1>5. ASSUME OutdentKey(fault) PROVE EditorInv'
  <2>1. Outcome(w, Outdent(w)) /\ EditKey(Outdent(w), fault)
    BY <1>1, <1>5, OutdentIs DEF OutdentKey
  <2>. QED  BY <2>1, EditKeyInv
<1>6. ASSUME BackspaceKey(fault) PROVE EditorInv'
  <2>1. Outcome(w, Backspace(w)) /\ EditKey(Backspace(w), fault)
    BY <1>1, <1>6, BackspaceIs DEF BackspaceKey
  <2>. QED  BY <2>1, EditKeyInv
<1>7. ASSUME DeleteKey(fault) PROVE EditorInv'
  <2>1. Outcome(w, DeleteChar(w)) /\ EditKey(DeleteChar(w), fault)
    BY <1>1, <1>7, DeleteCharIs DEF DeleteKey
  <2>. QED  BY <2>1, EditKeyInv
<1>8. ASSUME DeleteLineKey(fault) PROVE EditorInv'
  <2>1. Outcome(w, DeleteLine(w)) /\ EditKey(DeleteLine(w), fault)
    BY <1>1, <1>8, DeleteLineIs DEF DeleteLineKey
  <2>. QED  BY <2>1, EditKeyInv
<1>9. ASSUME NEW n \in Numbers, EnterKey(n, fault) PROVE EditorInv'
  <2>1. Outcome(w, InsertLine(w, n)) /\ Outcome(w, SplitLine(w, n))
    BY <1>1, <1>2, InsertLineIs, SplitLineIs
  <2>2. EditKey(InsertLine(w, n), fault) \/ EditKey(SplitLine(w, n), fault)
    BY <1>9 DEF EnterKey
  <2>. QED  BY <2>1, <2>2, EditKeyInv
<1>10. ASSUME NEW n \in Numbers, InsertLineKey(n, fault) PROVE EditorInv'
  <2>1. Outcome(w, InsertLine(w, n)) /\ EditKey(InsertLine(w, n), fault)
    BY <1>1, <1>2, <1>10, InsertLineIs DEF InsertLineKey
  <2>. QED  BY <2>1, EditKeyInv
<1>. QED  BY <1>3, <1>4, <1>5, <1>6, <1>7, <1>8, <1>9, <1>10

\* The keys that only move, or look for something.
(* The keys that move.                                                     *)
LEMMA MoveKeysInv ==
  ASSUME EditorInv, NEW fault,
         \/ \E n \in Numbers : GotoKey(n, fault)
         \/ \E word \in Typeable : FindKey(word, fault)
         \/ ArrowKey(fault) \/ MatchKey(fault)
         \/ \E down \in BOOLEAN : PageKey(down, fault)
  PROVE  EditorInv'
<1> DEFINE w == Given(fault)
           x == FALSE
           y == TRUE
<1>1. Sane(w) /\ w.ok
  BY GivenIs
<1>2. ASSUME NEW n \in Numbers, GotoKey(n, fault) PROVE EditorInv'
  <2>1. Quiet(w, GotoLine(w, n)) /\ MoveKey(GotoLine(w, n), fault)
    BY <1>1, <1>2, GotoLineIs DEF GotoKey
  <2>. QED  BY <2>1, MoveKeyInv
<1>3. ASSUME NEW word \in Typeable, FindKey(word, fault) PROVE EditorInv'
  <2>1. x \in BOOLEAN /\ y \in BOOLEAN
    OBVIOUS
  <2>2. \/ MoveKey(Find(w, word, x), fault) \/ MoveKey(Find(w, word, y), fault)
        \/ MoveKey(FindPrevious(w), fault)
    BY <1>3 DEF FindKey
  <2> HIDE DEF x, y
  <2>3. Quiet(w, Find(w, word, x)) /\ Quiet(w, Find(w, word, y)) /\ Quiet(w, FindPrevious(w))
    BY <1>1, <2>1, FindIs
  <2>. QED  BY <2>2, <2>3, MoveKeyInv
<1>4. ASSUME ArrowKey(fault) PROVE EditorInv'
  <2>1. \/ MoveKey(MoveLeft(w), fault) \/ MoveKey(MoveRight(w), fault)
        \/ MoveKey(MoveHome(w), fault) \/ MoveKey(MoveEnd(w), fault)
        \/ \E down \in BOOLEAN : MoveKey(MoveVertical(w, down), fault)
    BY <1>4 DEF ArrowKey
  <2>2. /\ Quiet(w, MoveLeft(w)) /\ Quiet(w, MoveRight(w)) /\ Quiet(w, MoveHome(w))
        /\ Quiet(w, MoveEnd(w)) /\ \A down : Quiet(w, MoveVertical(w, down))
    BY <1>1, MoveInLineIs, MoveToEdgeIs, MoveVerticalIs DEF MoveLeft, MoveRight, MoveHome, MoveEnd
  <2>. QED  BY <2>1, <2>2, MoveKeyInv
<1>5. ASSUME MatchKey(fault) PROVE EditorInv'
  <2>1. Quiet(w, MatchBlock(w)) /\ MoveKey(MatchBlock(w), fault)
    BY <1>1, <1>5, MatchBlockIs DEF MatchKey
  <2>. QED  BY <2>1, MoveKeyInv
<1>6. ASSUME NEW down \in BOOLEAN, PageKey(down, fault) PROVE EditorInv'
  <2>1. Quiet(w, MovePage(w, down)) /\ MoveKey(MovePage(w, down), fault)
    BY <1>1, <1>6, MovePageIs DEF PageKey
  <2>. QED  BY <2>1, MoveKeyInv
<1>. QED  BY <1>2, <1>3, <1>4, <1>5, <1>6

(* The keys of the history.                                                *)
LEMMA HistoryKeysInv ==
  ASSUME EditorInv, NEW fault, UndoKey(fault) \/ RedoKey(fault)
  PROVE  EditorInv'
<1> DEFINE u == "undo"
           r == "redo"
           given == InModel(fault)
<1>1. TheStacks(u, r) /\ TheStacks(r, u)
  BY DEF TheStacks
<1>2. \/ HistoryKey(ApplyHistory(Given(given), u, r), fault)
      \/ HistoryKey(ApplyHistory(Given(given), r, u), fault)
  BY DEF UndoKey, RedoKey, Undo, Redo
<1> HIDE DEF u, r, given
<1>. QED  BY <1>1, <1>2, HistoryKeyInv

(* Every key preserves the invariant.                                      *)
LEMMA EditorInvNext ==
  ASSUME EditorInv, [Next]_vars
  PROVE  EditorInv'
<1>1. ASSUME NEW fault \in {"none", "push"},
             \/ \E word \in Typeable : TypeKey(word, fault)
             \/ TabKey(fault) \/ OutdentKey(fault)
      PROVE  EditorInv'
  BY <1>1, EditKeysInv
<1>2. ASSUME NEW fault \in {"none", "push", "commit", "write"},
             \/ BackspaceKey(fault) \/ DeleteKey(fault) \/ DeleteLineKey(fault)
             \/ \E n \in Numbers : EnterKey(n, fault) \/ InsertLineKey(n, fault)
      PROVE  EditorInv'
  BY <1>2, EditKeysInv
<1>3. ASSUME NEW fault \in {"none", "commit"},
             \/ \E n \in Numbers : GotoKey(n, fault)
             \/ \E word \in Typeable : FindKey(word, fault)
             \/ ArrowKey(fault) \/ MatchKey(fault)
             \/ \E down \in BOOLEAN : PageKey(down, fault)
             \/ \E saved \in BOOLEAN : SaveKey(saved, fault)
      PROVE  EditorInv'
  BY <1>3, MoveKeysInv, SaveKeyInv
<1>4. ASSUME NEW fault \in {"none", "push", "pop", "commit", "write", "flag"},
             UndoKey(fault) \/ RedoKey(fault)
      PROVE  EditorInv'
  BY <1>4, HistoryKeysInv
<1>5. ASSUME NEW fault \in {"none", "commit", "flag"}, EscapeKey(fault) \/ RunKey(fault)
      PROVE  EditorInv'
  BY <1>5, LeaveWithInv DEF EscapeKey, RunKey
<1>6. ASSUME NEW saved \in BOOLEAN, ConfirmSave(saved) PROVE EditorInv'
  BY <1>6, ConfirmSaveInv
<1>7. ASSUME NEW keep \in BOOLEAN, ConfirmOther(keep) PROVE EditorInv'
  BY <1>7, ConfirmOtherInv
<1>8. ASSUME NEW ready \in {FALSE, program.depth > 0}, NEW n \in Numbers \cup {0},
             EditAgain(ready, n)
      PROVE  EditorInv'
  BY <1>8, EditAgainInv
<1>9. CASE UNCHANGED vars
  BY <1>9, EditorInvUnchanged
<1>. QED  BY <1>1, <1>2, <1>3, <1>4, <1>5, <1>6, <1>7, <1>8, <1>9 DEF Next

-----------------------------------------------------------------------------
(* The theorems.                                                           *)

(* EditorInv holds in every session: the snapshots of both stacks lead     *)
(* from text to text, and the names, the file and the marks agree with     *)
(* them.                                                                   *)
THEOREM EditorInvariant == EditorSpec => []EditorInv
BY EditorInvInit, EditorInvNext, PTL DEF EditorSpec

(* Undo and redo restore the texts they name: whatever was typed, split,   *)
(* joined, inserted, deleted, saved, undone or lost to a refused write, a  *)
(* text under a name is the text that had this name.                       *)
THEOREM UndoExact == EditorSpec => []UndoIsExact
<1>1. EditorInv => UndoIsExact
  BY DEF EditorInv, Facts, TextsOf, UndoIsExact
<1>. QED  BY <1>1, EditorInvariant, PTL

(* When the editor shows no change, and the program was clean on entry,    *)
(* the text is the file.                                                   *)
THEOREM SavedIsSaved == EditorSpec => []SavedMeansSaved
<1>1. EditorInv => SavedMeansSaved
  <2> SUFFICES ASSUME EditorInv, ~entryDirty, ~Changed(ed) PROVE Text(ed) = file
    BY DEF SavedMeansSaved
  <2>. QED  BY DEF EditorInv, Facts, TextsOf, FileNamed, Changed
<1>. QED  BY <1>1, EditorInvariant, PTL

(* A program that is not the one in the file is left marked as changed, in *)
(* the store and at the prompt, whichever way the editor was left.         *)
THEOREM LeftMarked == EditorSpec => []LeftAsMarked
<1>1. EditorInv => LeftAsMarked
  BY DEF EditorInv, Left
<1>. QED  BY <1>1, EditorInvariant, PTL

=============================================================================

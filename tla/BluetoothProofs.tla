--------------------------- MODULE BluetoothProofs ---------------------------
(***************************************************************************)
(* Proofs about BluetoothKeyboards and UnifiedKeyboard, for any keyboards, *)
(* rings and tables: the drivers and the radio never lose each other       *)
(* (LinksTracked), no key stays down on a keyboard without a link          *)
(* (NoKeysWithoutLink), the list to pair from shows what was heard         *)
(* (ListIsLive), and reading the last Caps Lock press settles all three    *)
(* keyboards (LastPressSettlesCaps).                                       *)
(***************************************************************************)
EXTENDS BluetoothKeyboards, UnifiedKeyboard, NaturalsInduction, WellFoundedInduction, TLAPS

-----------------------------------------------------------------------------
(* Keys (bluetooth_hid_keyboard_core.cpp).                                 *)

Usages == {"letter", "cursor", "enter", "caps"}
Typed == {"control", "A", "a", "cursor", "enter"}
Entries == [code : Typed \cup {CapsEvent}, again : BOOLEAN]

Keyboards ==
  [ring : Seq(Entries), held : SUBSET Usages, shift : BOOLEAN, ctrl : BOOLEAN,
   repeating : Usages \cup {NoUsage}, caps : BOOLEAN, overflowed : BOOLEAN]

(* Only a key that is held is repeated.                                    *)
GoodKeys == {k \in Keyboards : k.repeating # NoUsage => k.repeating \in k.held}

Rested(k) == k = KeysReset(k)

(* A keyboard on which every Caps Lock press has been read.                *)
Clear(k) == ~k.overflowed /\ ~CapsEventWaits(k)

(* Whoever finds all presses of l read, finds those of k read and Caps     *)
(* Lock as it was.                                                         *)
Follows(l, k) == Clear(l) => Clear(k) /\ l.caps = k.caps

LEMMA AtRestIsGood == KeyboardAtRest \in GoodKeys
<1>1. <<>> \in Seq(Entries)
  OBVIOUS
<1>2. QED
  BY <1>1 DEF KeyboardAtRest, GoodKeys, Keyboards

LEMMA ResetIsGood ==
  ASSUME NEW k \in Keyboards
  PROVE  KeysReset(k) \in GoodKeys /\ Rested(KeysReset(k))
<1>1. k.overflowed \in BOOLEAN
  BY DEF Keyboards
<1>2. KeysReset(k) = [KeyboardAtRest EXCEPT !.overflowed = k.overflowed]
  BY DEF KeysReset
<1>3. KeysReset(k) \in GoodKeys /\ KeysReset(k).overflowed = k.overflowed
  BY <1>1, <1>2, AtRestIsGood DEF GoodKeys, Keyboards
<1>4. KeysReset(KeysReset(k)) = KeysReset(k)
  BY <1>2, <1>3 DEF KeysReset
<1>5. QED
  BY <1>3, <1>4 DEF Rested

LEMMA EnqueuedIsTyped ==
  ASSUME NEW k \in Keyboards, NEW code \in Typed \cup {CapsEvent}, NEW again \in BOOLEAN
  PROVE  LET l == Enqueued(k, code, again)
         IN  /\ l \in Keyboards /\ l.held = k.held /\ l.repeating = k.repeating
             /\ l.caps = k.caps
             /\ \/ l.overflowed
                \/ /\ l.overflowed = k.overflowed
                   /\ l.ring = Append(k.ring, [code |-> code, again |-> again])
<1> DEFINE e == [code |-> code, again |-> again]
<1>1. e \in Entries
  BY DEF Entries
<1> HIDE DEF e
<1>2. CASE RingIsFull(k)
  BY <1>2 DEF Enqueued, Keyboards
<1>3. CASE ~RingIsFull(k)
  <2>1. Append(k.ring, e) \in Seq(Entries)
    BY <1>1 DEF Keyboards
  <2>2. Enqueued(k, code, again) = [k EXCEPT !.ring = Append(k.ring, e)]
    BY <1>3 DEF Enqueued, e
  <2>3. QED
    BY <2>1, <2>2 DEF Keyboards, e
<1>4. QED
  BY <1>2, <1>3

(* A code in the ring shows, and what was there still does.                *)
LEMMA AppendedFollows ==
  ASSUME NEW k \in Keyboards, NEW l \in Keyboards, NEW e \in Entries,
         \/ l.overflowed
         \/ l.overflowed = k.overflowed /\ l.ring = Append(k.ring, e),
         e.code = CapsEvent \/ l.caps = k.caps
  PROVE  Follows(l, k)
<1>1. CASE l.overflowed
  BY <1>1 DEF Follows, Clear
<1>2. CASE l.overflowed = k.overflowed /\ l.ring = Append(k.ring, e)
  <2>1. k.ring \in Seq(Entries)
    BY DEF Keyboards
  <2>2. /\ Len(k.ring) + 1 \in DOMAIN l.ring /\ l.ring[Len(k.ring) + 1] = e
        /\ \A i \in DOMAIN k.ring : i \in DOMAIN l.ring /\ l.ring[i] = k.ring[i]
    BY <1>2, <2>1
  <2>3. e.code = CapsEvent => CapsEventWaits(l)
    BY <2>2 DEF CapsEventWaits
  <2>4. CapsEventWaits(k) => CapsEventWaits(l)
    BY <2>2 DEF CapsEventWaits
  <2>5. QED
    BY <1>2, <2>3, <2>4 DEF Follows, Clear
<1>3. QED
  BY <1>1, <1>2

LEMMA PressedFollows ==
  ASSUME NEW k \in Keyboards, NEW u \in Usages
  PROVE  UsagePressed(k, u) \in Keyboards /\ Follows(UsagePressed(k, u), k)
<1>1. CASE u \in k.held
  BY <1>1 DEF UsagePressed, Follows
<1>2. CASE u \notin k.held /\ u = "caps"
  <2> DEFINE c == ~k.caps
             j == [k EXCEPT !.caps = c]
             l == Enqueued(j, CapsEvent, FALSE)
  <2>1. UsagePressed(k, u) = l
    BY <1>2, Zenon DEF UsagePressed
  <2>2. c \in BOOLEAN
    OBVIOUS
  <2> HIDE DEF c
  <2>3. j \in Keyboards /\ j.ring = k.ring /\ j.overflowed = k.overflowed
    BY <2>2 DEF Keyboards
  <2> HIDE DEF j
  <2>4. /\ l \in Keyboards
        /\ \/ l.overflowed
           \/ /\ l.overflowed = j.overflowed
              /\ l.ring = Append(j.ring, [code |-> CapsEvent, again |-> FALSE])
    BY <2>3, EnqueuedIsTyped
  <2> HIDE DEF l
  <2>5. [code |-> CapsEvent, again |-> FALSE] \in Entries
    BY DEF Entries
  <2>6. QED
    BY <2>1, <2>3, <2>4, <2>5, AppendedFollows
<1>3. CASE u \notin k.held /\ u # "caps"
  <2> DEFINE code == TranslateUsage(u, k)
             l == Enqueued(k, code, FALSE)
             r == IF RepeatableCode(code) /\ ~RingIsFull(k) THEN u ELSE l.repeating
  <2>1. code \in Typed
    BY <1>3 DEF TranslateUsage, Usages, Typed
  <2>2. code # NoKeyCode
    BY <2>1 DEF Typed, NoKeyCode
  <2>3. UsagePressed(k, u) = [l EXCEPT !.repeating = r]
    BY <1>3, <2>2 DEF UsagePressed
  <2> HIDE DEF code
  <2>4. /\ l \in Keyboards /\ l.held = k.held /\ l.caps = k.caps
        /\ \/ l.overflowed
           \/ /\ l.overflowed = k.overflowed
              /\ l.ring = Append(k.ring, [code |-> code, again |-> FALSE])
    BY <2>1, EnqueuedIsTyped
  <2>5. r \in Usages \cup {NoUsage}
    BY <2>4 DEF Keyboards
  <2> HIDE DEF l, r
  <2> DEFINE p == [l EXCEPT !.repeating = r]
  <2>6. /\ p \in Keyboards /\ p.held = l.held /\ p.caps = l.caps
        /\ p.overflowed = l.overflowed /\ p.ring = l.ring
    BY <2>4, <2>5 DEF Keyboards
  <2> HIDE DEF p
  <2>7. [code |-> code, again |-> FALSE] \in Entries
    BY <2>1 DEF Entries
  <2>8. QED
    BY <2>3, <2>4, <2>6, <2>7, AppendedFollows DEF p
<1>4. QED
  BY <1>1, <1>2, <1>3

(* A report of up to two usages, typed one after the other.                *)
LEMMA ReportFollows ==
  ASSUME NEW k \in Keyboards, NEW shift \in BOOLEAN, NEW ctrl \in BOOLEAN,
         NEW usages \in Seq(Usages), Len(usages) \in 0..2
  PROVE  KeyReport(k, shift, ctrl, usages) \in GoodKeys
         /\ Follows(KeyReport(k, shift, ctrl, usages), k)
<1> DEFINE L == Len(usages)
           a0 == [k EXCEPT !.shift = shift, !.ctrl = ctrl]
           a1 == UsagePressed(a0, usages[1])
           a2 == UsagePressed(a1, usages[2])
           F(f) == [i \in 0..L |-> IF i = 0 THEN a0 ELSE UsagePressed(f[i - 1], usages[i])]
           typed == CHOOSE f : f = F(f)
           g == [i \in 0..L |-> IF i = 0 THEN a0 ELSE IF i = 1 THEN a1 ELSE a2]
<1>1. a0 \in Keyboards /\ Follows(a0, k)
  BY DEF Keyboards, Follows, Clear, CapsEventWaits
<1>2. L >= 1 => usages[1] \in Usages
  OBVIOUS
<1>3. L >= 2 => usages[2] \in Usages
  OBVIOUS
<1> HIDE DEF a0
<1>4. L >= 1 => a1 \in Keyboards /\ Follows(a1, k)
  BY <1>1, <1>2, PressedFollows DEF Follows
<1> HIDE DEF a1
<1>5. L >= 2 => a2 \in Keyboards /\ Follows(a2, k)
  BY <1>3, <1>4, PressedFollows DEF Follows
<1>6. L \in 0..2
  OBVIOUS
<1> HIDE DEF L
<1>7. g = F(g)
  <2>1. ASSUME NEW i \in 0..L
        PROVE  g[i] = F(g)[i]
    <3>1. CASE i = 0
      BY <3>1
    <3>2. CASE i = 1
      <4>1. g[i - 1] = a0
        BY <1>6, <3>2
      <4>2. QED
        BY <3>2, <4>1 DEF a1
    <3>3. CASE i = 2
      <4>1. g[i - 1] = a1
        BY <1>6, <2>1, <3>3
      <4>2. QED
        BY <3>3, <4>1
    <3>4. QED
      BY <1>6, <3>1, <3>2, <3>3
  <2>2. QED
    BY <2>1
<1>8. typed = F(typed)
  <2> HIDE DEF F, g
  <2>1. QED
    BY <1>7
<1> DEFINE t == typed[L]
           h == ToSet(usages)
           r == IF t.repeating \in h THEN t.repeating ELSE NoUsage
<1>9. KeyReport(k, shift, ctrl, usages) = [t EXCEPT !.held = h, !.repeating = r]
  BY DEF KeyReport, L, a0
<1> HIDE DEF typed
<1>10. t \in Keyboards /\ Follows(t, k)
  <2>1. typed[0] = a0
    BY <1>6, <1>8
  <2>2. L >= 1 => typed[1] = a1
    BY <1>6, <1>8, <2>1 DEF a1
  <2>3. L >= 2 => typed[2] = a2
    BY <1>6, <1>8, <2>2
  <2> HIDE DEF a2
  <2>4. QED
    BY <1>1, <1>4, <1>5, <1>6, <2>1, <2>2, <2>3
<1> HIDE DEF t
<1>11. h \in SUBSET Usages
  BY DEF ToSet
<1>12. r \in Usages \cup {NoUsage} /\ (r # NoUsage => r \in h)
  BY <1>10 DEF Keyboards
<1> HIDE DEF h, r
<1> DEFINE p == [t EXCEPT !.held = h, !.repeating = r]
<1>13. /\ p \in Keyboards /\ p.held = h /\ p.repeating = r
       /\ p.caps = t.caps /\ p.overflowed = t.overflowed /\ p.ring = t.ring
  BY <1>10, <1>11, <1>12 DEF Keyboards
<1> HIDE DEF p
<1>14. p \in GoodKeys
  BY <1>12, <1>13 DEF GoodKeys
<1>15. Follows(p, k)
  BY <1>10, <1>13 DEF Follows, Clear, CapsEventWaits
<1>16. QED
  BY <1>9, <1>14, <1>15 DEF p

(* A repeat is never a Caps Lock event.                                    *)
LEMMA RepeatFollows ==
  ASSUME NEW k \in GoodKeys, NEW due \in BOOLEAN
  PROVE  LET l == RepeatServiced(k, due)
         IN  l \in GoodKeys /\ Follows(l, k) /\ l.caps = k.caps /\ (Rested(k) => l = k)
<1>1. k \in Keyboards
  BY DEF GoodKeys
<1>2. Rested(k) => k.repeating = NoUsage
  BY <1>1 DEF Rested, KeysReset, KeyboardAtRest
<1>3. CASE RepeatServiced(k, due) = k
  BY <1>3 DEF Follows
<1>4. CASE RepeatServiced(k, due) # k
  <2> DEFINE code == TranslateUsage(k.repeating, k)
             l == Enqueued(k, code, TRUE)
  <2>1. k.repeating # NoUsage /\ RepeatableCode(code) /\ RepeatServiced(k, due) = l
    BY <1>4 DEF RepeatServiced
  <2>2. code \in Typed
    BY <2>1 DEF RepeatableCode, Typed
  <2> HIDE DEF code
  <2>3. /\ l \in Keyboards /\ l.held = k.held /\ l.repeating = k.repeating /\ l.caps = k.caps
        /\ \/ l.overflowed
           \/ /\ l.overflowed = k.overflowed
              /\ l.ring = Append(k.ring, [code |-> code, again |-> TRUE])
    BY <1>1, <2>2, EnqueuedIsTyped
  <2> HIDE DEF l
  <2>4. [code |-> code, again |-> TRUE] \in Entries
    BY <2>2 DEF Entries
  <2>5. Follows(l, k)
    BY <1>1, <2>3, <2>4, AppendedFollows
  <2>6. l \in GoodKeys
    BY <2>3 DEF GoodKeys
  <2>7. QED
    BY <1>2, <2>1, <2>3, <2>5, <2>6
<1>5. QED
  BY <1>3, <1>4

(* What is read is the front of the ring.                                  *)
LEMMA TakenFollows ==
  ASSUME NEW k \in GoodKeys, NEW due \in BOOLEAN
  PROVE  LET l == KeyTaken(k, due)
         IN  /\ l \in GoodKeys /\ l.caps = k.caps
             /\ Rested(k) => l = k
             /\ KeyHandedOut(k, due) # CapsEvent => Follows(l, k)
<1> DEFINE r == RepeatServiced(k, due)
<1>1. r \in GoodKeys /\ Follows(r, k) /\ r.caps = k.caps /\ (Rested(k) => r = k)
  BY RepeatFollows
<1>2. /\ KeyTaken(k, due) = IF r.ring = <<>> THEN r ELSE [r EXCEPT !.ring = Tail(r.ring)]
      /\ KeyHandedOut(k, due) = IF r.ring = <<>> THEN NoKeyCode ELSE Head(r.ring).code
  BY DEF KeyTaken, KeyHandedOut
<1> HIDE DEF r
<1>3. r \in Keyboards /\ r.ring \in Seq(Entries)
  BY <1>1 DEF GoodKeys, Keyboards
<1>4. Rested(k) => k.ring = <<>>
  BY DEF Rested, KeysReset, KeyboardAtRest
<1>5. CASE r.ring = <<>>
  BY <1>1, <1>2, <1>5
<1>6. CASE r.ring # <<>>
  <2> DEFINE t == Tail(r.ring)
             l == [r EXCEPT !.ring = t]
  <2>1. t \in Seq(Entries)
    BY <1>3, <1>6
  <2>2. \A i \in DOMAIN r.ring : i = 1 \/ (i - 1 \in DOMAIN t /\ t[i - 1] = r.ring[i])
    BY <1>3, <1>6
  <2>3. Head(r.ring) = r.ring[1]
    BY <1>3, <1>6
  <2> HIDE DEF t
  <2>4. /\ l \in Keyboards /\ l.ring = t /\ l.caps = r.caps /\ l.overflowed = r.overflowed
        /\ l.repeating = r.repeating /\ l.held = r.held
    BY <1>3, <2>1 DEF Keyboards
  <2> HIDE DEF l
  <2>5. l \in GoodKeys
    BY <1>1, <2>4 DEF GoodKeys
  <2>6. ASSUME Head(r.ring).code # CapsEvent PROVE Follows(l, r)
    <3>1. CapsEventWaits(r) => CapsEventWaits(l)
      BY <2>2, <2>3, <2>4, <2>6 DEF CapsEventWaits
    <3>2. QED
      BY <2>4, <3>1 DEF Follows, Clear
  <2>7. KeyTaken(k, due) = l /\ KeyHandedOut(k, due) = Head(r.ring).code
    BY <1>2, <1>6 DEF l, t
  <2>8. QED
    BY <1>1, <1>4, <1>6, <2>4, <2>5, <2>6, <2>7 DEF Follows
<1>7. QED
  BY <1>5, <1>6

-----------------------------------------------------------------------------
(* Three keyboards as one (unified_keyboard.cpp).                          *)

(* A keyboard whose presses have been read agrees with the one in the case *)
(* unless something was reset since the last of them.                      *)
Agrees(k) == Clear(k) /\ ~resetSince => k.caps = insideCaps

UkInv ==
  /\ insideCaps \in BOOLEAN /\ resetSince \in BOOLEAN
  /\ classicKeys \in GoodKeys /\ bleKeys \in GoodKeys
  /\ Agrees(classicKeys) /\ Agrees(bleKeys)

LEMMA CapsSet ==
  ASSUME NEW k \in GoodKeys, NEW b \in BOOLEAN
  PROVE  [k EXCEPT !.caps = b] \in GoodKeys /\ [k EXCEPT !.caps = b].caps = b
  BY DEF GoodKeys, Keyboards

LEMMA SomeReportFollows ==
  ASSUME NEW k \in GoodKeys, NEW l \in SomeReport(k)
  PROVE  l \in GoodKeys /\ Follows(l, k)
<1>1. PICK usages \in {<<>>, <<"caps">>, <<"letter", "caps">>} :
        l = KeyReport(k, FALSE, FALSE, usages)
  BY DEF SomeReport
<1>2. usages \in Seq(Usages) /\ Len(usages) \in 0..2
  <2>1. CASE usages = <<>>
    BY <2>1
  <2>2. CASE usages = <<"caps">>
    BY <2>2 DEF Usages
  <2>3. CASE usages = <<"letter", "caps">>
    BY <2>3 DEF Usages
  <2>4. QED
    BY <1>1, <2>1, <2>2, <2>3
<1>3. k \in Keyboards
  BY DEF GoodKeys
<1>4. QED
  BY <1>1, <1>2, <1>3, ReportFollows

LEMMA UnifiedStarts ==
  ASSUME UnifiedInit
  PROVE  UkInv
<1>1. classicKeys = KeyboardAtRest /\ bleKeys = KeyboardAtRest /\ insideCaps = FALSE
  BY DEF UnifiedInit
<1>2. KeyboardAtRest.caps = FALSE
  BY DEF KeyboardAtRest
<1>3. QED
  BY <1>1, <1>2, AtRestIsGood DEF UkInv, UnifiedInit, Agrees

LEMMA ReadBluetoothKeeps ==
  ASSUME UkInv, ReadBluetooth
  PROVE  UkInv'
<1> USE DEF UkInv
<1>1. PICK due \in BOOLEAN :
        LET fromClassic == KeyHandedOut(classicKeys, due)
            fromBle == KeyHandedOut(bleKeys, due)
            classicRead == KeyTaken(classicKeys, due)
            bleRead == KeyTaken(bleKeys, due)
        IN  \/ /\ classicKeys' = classicRead
               /\ insideCaps' = classicKeys.caps
               /\ bleKeys' = [bleKeys EXCEPT !.caps = classicKeys.caps]
               /\ resetSince' = FALSE
            \/ /\ fromClassic # CapsEvent
               /\ classicKeys' = classicRead
               /\ UNCHANGED <<insideCaps, bleKeys, resetSince>>
            \/ /\ bleKeys' = bleRead
               /\ insideCaps' = bleKeys.caps
               /\ classicKeys' = [classicRead EXCEPT !.caps = bleKeys.caps]
               /\ resetSince' = FALSE
            \/ /\ fromClassic # CapsEvent /\ fromBle # CapsEvent
               /\ classicKeys' = classicRead
               /\ bleKeys' = bleRead
               /\ UNCHANGED <<insideCaps, resetSince>>
  BY DEF ReadBluetooth, CapsEvent, NoKeyCode
<1> DEFINE classicRead == KeyTaken(classicKeys, due)
           bleRead == KeyTaken(bleKeys, due)
<1>2. /\ classicRead \in GoodKeys /\ classicRead.caps = classicKeys.caps
      /\ KeyHandedOut(classicKeys, due) # CapsEvent => Follows(classicRead, classicKeys)
  BY TakenFollows
<1>3. /\ bleRead \in GoodKeys /\ bleRead.caps = bleKeys.caps
      /\ KeyHandedOut(bleKeys, due) # CapsEvent => Follows(bleRead, bleKeys)
  BY TakenFollows
<1>4. classicKeys.caps \in BOOLEAN /\ bleKeys.caps \in BOOLEAN
  BY DEF GoodKeys, Keyboards
<1> HIDE DEF classicRead, bleRead
<1>5. CASE /\ classicKeys' = classicRead
           /\ insideCaps' = classicKeys.caps
           /\ bleKeys' = [bleKeys EXCEPT !.caps = classicKeys.caps]
           /\ resetSince' = FALSE
  <2>1. bleKeys' \in GoodKeys /\ bleKeys'.caps = classicKeys.caps
    BY <1>4, <1>5, CapsSet
  <2>2. QED
    BY <1>2, <1>4, <1>5, <2>1 DEF Agrees
<1>6. CASE /\ KeyHandedOut(classicKeys, due) # CapsEvent
           /\ classicKeys' = classicRead
           /\ UNCHANGED <<insideCaps, bleKeys, resetSince>>
  BY <1>2, <1>6 DEF Agrees, Follows, Clear, CapsEventWaits
<1>7. CASE /\ bleKeys' = bleRead
           /\ insideCaps' = bleKeys.caps
           /\ classicKeys' = [classicRead EXCEPT !.caps = bleKeys.caps]
           /\ resetSince' = FALSE
  <2>1. classicKeys' \in GoodKeys /\ classicKeys'.caps = bleKeys.caps
    BY <1>2, <1>4, <1>7, CapsSet
  <2>2. QED
    BY <1>3, <1>4, <1>7, <2>1 DEF Agrees
<1>8. CASE /\ KeyHandedOut(classicKeys, due) # CapsEvent
           /\ KeyHandedOut(bleKeys, due) # CapsEvent
           /\ classicKeys' = classicRead
           /\ bleKeys' = bleRead
           /\ UNCHANGED <<insideCaps, resetSince>>
  BY <1>2, <1>3, <1>8 DEF Agrees, Follows, Clear, CapsEventWaits
<1>9. QED
  BY <1>1, <1>5, <1>6, <1>7, <1>8 DEF classicRead, bleRead

LEMMA UnifiedSteps ==
  ASSUME UkInv, [UnifiedNext]_ukVars
  PROVE  UkInv'
<1> USE DEF UkInv
<1>1. CASE ClassicPressed
  <2>1. classicKeys' \in GoodKeys /\ Follows(classicKeys', classicKeys)
    BY <1>1, SomeReportFollows DEF ClassicPressed
  <2>2. QED
    BY <1>1, <2>1 DEF ClassicPressed, Agrees, Follows, Clear, CapsEventWaits
<1>2. CASE BlePressed
  <2>1. bleKeys' \in GoodKeys /\ Follows(bleKeys', bleKeys)
    BY <1>2, SomeReportFollows DEF BlePressed
  <2>2. QED
    BY <1>2, <2>1 DEF BlePressed, Agrees, Follows, Clear, CapsEventWaits
<1>3. CASE ReadInsideCaps
  <2>1. insideCaps' \in BOOLEAN
    BY <1>3 DEF ReadInsideCaps
  <2>2. /\ classicKeys' \in GoodKeys /\ classicKeys'.caps = insideCaps'
        /\ bleKeys' \in GoodKeys /\ bleKeys'.caps = insideCaps'
    BY <1>3, <2>1, CapsSet DEF ReadInsideCaps
  <2>3. QED
    BY <1>3, <2>1, <2>2 DEF ReadInsideCaps, Agrees
<1>4. CASE ReadBluetooth
  BY <1>4, ReadBluetoothKeeps
<1>5. CASE KeyboardStateReset
  <2>1. KeysReset(classicKeys) \in GoodKeys /\ KeysReset(bleKeys) \in GoodKeys
    BY ResetIsGood DEF GoodKeys
  <2>2. QED
    BY <1>5, <2>1 DEF KeyboardStateReset, Agrees
<1>6. CASE UNCHANGED ukVars
  BY <1>6 DEF ukVars, Agrees, Clear, CapsEventWaits
<1>7. QED
  BY <1>1, <1>2, <1>3, <1>4, <1>5, <1>6 DEF UnifiedNext

(* Whatever the order in which the presses of several keyboards are made   *)
(* and read, reading the last of them settles all three: Caps Lock of a    *)
(* keyboard changes only with an event in its ring, and the event that is  *)
(* read carries the state of its keyboard to the others (read_key in       *)
(* unified_keyboard.cpp).                                                  *)
THEOREM CapsIsSettled == UnifiedSpec => []LastPressSettlesCaps
<1>1. UkInv => LastPressSettlesCaps
  BY DEF UkInv, LastPressSettlesCaps, PressesRead, CapsEqual, Agrees, Clear
<1>2. QED
  BY <1>1, UnifiedStarts, UnifiedSteps, PTL DEF UnifiedSpec

-----------------------------------------------------------------------------
(* The BLE driver and the radio (bluetooth_hid_ble_keyboard.cpp).          *)

(* What the radio has of the connection in each state of the driver.       *)
LinkOf(state) ==
  CASE state \in {"Off", "Idle", "Scanning"} -> "none"
    [] state = "Connecting" -> "calling"
    [] state = "CancellingConnect" -> "cancelling"
    [] state = "Disconnecting" -> "closing"
    [] OTHER -> "up"

(* A query waits only while the Boot Protocol is being discovered.         *)
Querying ==
  {"DiscoveringService", "DiscoveringCharacteristics", "EnablingNotifications",
   "SwitchingProtocol"}

BleTracked(b) ==
  /\ {"state", "handle", "link", "query", "keys"} \subseteq DOMAIN b
  /\ b.state \in BleStates
  /\ b.link = LinkOf(b.state)
  /\ b.handle <=> b.link \in {"up", "closing"}
  /\ b.query # "none" => b.state \in Querying
  /\ b.keys \in GoodKeys
  /\ b.state # "Ready" => Rested(b.keys)

(* What a driver may become without a call of its own.                     *)
BleGoes(b, c) == BleTracked(c) /\ (b.link = "none" => c.link = "none")

LEMMA BleGoesOn ==
  ASSUME NEW a, NEW b, NEW c, BleGoes(a, b), BleGoes(b, c)
  PROVE  BleGoes(a, c)
  BY DEF BleGoes

LEMMA LinkIsUp ==
  ASSUME NEW s \in (ConnectActive \ {"Connecting"}) \cup {"Ready"}
  PROVE  LinkOf(s) = "up"
  BY DEF LinkOf, ConnectActive

(* A connection that is up stays so in each of its states.                 *)
LEMMA UpStaysUp ==
  ASSUME NEW b, BleTracked(b), b.link = "up", NEW c,
         {"state", "handle", "link", "query", "keys"} \subseteq DOMAIN c,
         c.state \in (ConnectActive \ {"Connecting"}) \cup {"Ready"},
         c.handle = b.handle, c.link = b.link,
         c.query # "none" => c.state \in Querying,
         c.keys \in GoodKeys, c.state # "Ready" => Rested(c.keys)
  PROVE  BleGoes(b, c)
<1>1. c.state \in BleStates
  BY DEF BleStates, ConnectActive
<1>2. QED
  BY <1>1, LinkIsUp DEF BleTracked, BleGoes

(* In such a state the link is up, and in no other.                        *)
LEMMA UpStates ==
  ASSUME NEW b, BleTracked(b)
  PROVE  /\ b.state \in (ConnectActive \ {"Connecting"}) \cup {"Ready"} <=> b.link = "up"
         /\ b.link = "up" => b.handle
         /\ b.handle <=> b.link \in {"up", "closing"}
         /\ b.state \in Querying => b.link = "up"
         /\ b.link = "none" <=> b.state \in {"Off", "Idle", "Scanning"}
         /\ b.link = "calling" <=> b.state = "Connecting"
         /\ b.link = "cancelling" <=> b.state = "CancellingConnect"
         /\ b.link = "closing" <=> b.state = "Disconnecting"
         /\ b.keys \in Keyboards
  BY DEF BleTracked, LinkOf, BleStates, ConnectActive, Querying, GoodKeys

LEMMA ClearGattKeeps ==
  ASSUME NEW b
  PROVE  LET c == ClearGatt(b)
         IN  /\ DOMAIN c = DOMAIN b
             /\ \A f \in {"state", "handle", "link", "query", "keys", "hids", "target"} \cap DOMAIN b :
                  c[f] = b[f]
  BY DEF ClearGatt

LEMMA FailConnectionGoes ==
  ASSUME NEW b, BleTracked(b), b.state \in ConnectActive
  PROVE  BleGoes(b, FailConnection(b))
<1> DEFINE keys == KeysReset(b.keys)
           r == [b EXCEPT !.keys = KeysReset(@), !.code = FALSE]
<1>1. keys \in GoodKeys /\ Rested(keys)
  BY UpStates, ResetIsGood
<1>2. /\ {"state", "handle", "link", "query", "keys"} \subseteq DOMAIN r
      /\ r.keys = keys /\ r.link = b.link /\ r.state = b.state
      /\ r.handle = b.handle /\ r.query = b.query
  BY DEF BleTracked
<1>3. /\ b.handle => FailConnection(b) =
           HangUp([ClearGatt(r) EXCEPT !.query = "none", !.state = "Disconnecting"])
      /\ ~b.handle /\ b.state = "Connecting" => FailConnection(b) =
           CancelCall([r EXCEPT !.state = "CancellingConnect"])
  BY Zenon DEF FailConnection
<1> HIDE DEF r, keys
<1>4. CASE b.state = "Connecting"
  <2>1. ~b.handle /\ b.link = "calling"
    BY <1>4, UpStates
  <2> DEFINE c == FailConnection(b)
  <2>2. /\ {"state", "handle", "link", "query", "keys"} \subseteq DOMAIN c
        /\ c.keys = keys /\ c.link = "cancelling" /\ c.state = "CancellingConnect"
        /\ c.handle = b.handle /\ c.query = b.query
    BY <1>2, <1>3, <1>4, <2>1 DEF CancelCall
  <2> HIDE DEF c
  <2>3. b.query = "none"
    BY <1>4 DEF BleTracked, Querying
  <2>4. BleGoes(b, c)
    BY <1>1, <2>1, <2>2, <2>3 DEF BleTracked, BleGoes, LinkOf, BleStates
  <2>5. QED
    BY <2>4 DEF c
<1>5. CASE b.state # "Connecting"
  <2>1. b.handle /\ b.link = "up"
    BY <1>5, UpStates
  <2> DEFINE g == ClearGatt(r)
             c == FailConnection(b)
  <2>2. /\ DOMAIN g = DOMAIN r
        /\ g.keys = keys /\ g.link = "up" /\ g.handle = b.handle
    BY <1>2, <2>1, ClearGattKeeps
  <2>3. c = HangUp([g EXCEPT !.query = "none", !.state = "Disconnecting"])
    BY <1>3, <2>1
  <2> HIDE DEF c, g
  <2>4. /\ {"state", "handle", "link", "query", "keys"} \subseteq DOMAIN c
        /\ c.keys = keys /\ c.link = "closing" /\ c.state = "Disconnecting"
        /\ c.handle = b.handle /\ c.query = "none"
    BY <1>2, <2>2, <2>3 DEF HangUp
  <2>5. BleGoes(b, c)
    BY <1>1, <2>1, <2>4 DEF BleTracked, BleGoes, LinkOf, BleStates
  <2>6. QED
    BY <2>5 DEF c
<1>6. QED
  BY <1>4, <1>5

(* Nothing of the connection changes.                                      *)
LEMMA NothingGoes ==
  ASSUME NEW b, BleTracked(b), NEW c,
         {"state", "handle", "link", "query", "keys"} \subseteq DOMAIN c,
         c.state = b.state, c.handle = b.handle, c.link = b.link, c.keys = b.keys,
         c.query \in {b.query, "none"}
  PROVE  BleGoes(b, c)
  BY DEF BleTracked, BleGoes

(* What reset_connection_state leaves.                                     *)
LEMMA ResetKeeps ==
  ASSUME NEW b, {"state", "handle", "link", "query", "keys"} \subseteq DOMAIN b,
         b.keys \in Keyboards
  PROVE  LET c == ResetConnection(b)
         IN  /\ DOMAIN c = DOMAIN b
             /\ c.link = b.link /\ ~c.handle /\ c.query = "none"
             /\ c.state = b.state
             /\ c.keys \in GoodKeys /\ Rested(c.keys)
<1> DEFINE c == ResetConnection(b)
           g == ClearGatt(b)
           keys == KeysReset(g.keys)
<1>1. /\ DOMAIN g = DOMAIN b
      /\ g.keys = b.keys /\ g.link = b.link /\ g.state = b.state
  BY ClearGattKeeps
<1>2. keys \in GoodKeys /\ Rested(keys)
  BY <1>1, ResetIsGood
<1>3. c = [g EXCEPT !.hids = FALSE, !.reportMode = FALSE,
     !.identity = NoDevice, !.handle = FALSE, !.deadline = FALSE,
     !.code = FALSE, !.query = "none", !.keys = keys]
  BY DEF ResetConnection
<1> HIDE DEF g, c, keys
<1>4. /\ DOMAIN c = DOMAIN b /\ c.keys = keys /\ c.link = b.link /\ c.state = b.state
      /\ ~c.handle /\ c.query = "none"
  BY <1>1, <1>3
<1>5. QED
  BY <1>2, <1>4 DEF c

LEMMA IdleIsTracked ==
  ASSUME NEW b, {"state", "handle", "link", "query", "keys"} \subseteq DOMAIN b,
         b.keys \in Keyboards, NEW s \in {"Off", "Idle"}, b.link = "none"
  PROVE  BleTracked([ResetConnection(b) EXCEPT !.state = s])
<1> DEFINE r == ResetConnection(b)
           c == [r EXCEPT !.state = s]
<1>1. /\ DOMAIN r = DOMAIN b
      /\ r.link = "none" /\ ~r.handle /\ r.query = "none"
      /\ r.keys \in GoodKeys /\ Rested(r.keys)
  BY ResetKeeps
<1> HIDE DEF r
<1>2. /\ {"state", "handle", "link", "query", "keys"} \subseteq DOMAIN c
      /\ c.state = s
      /\ c.link = "none" /\ ~c.handle /\ c.query = "none"
      /\ c.keys = r.keys
  BY <1>1
<1> HIDE DEF c
<1>3. BleTracked(c)
  BY <1>1, <1>2 DEF BleTracked, LinkOf, BleStates
<1>4. QED
  BY <1>3 DEF c, r

(* The calls of the program.                                               *)
LEMMA BleEnabledGoes ==
  ASSUME NEW b, BleTracked(b), b.link = "none"
  PROVE  BleGoes(b, BleEnabled(b))
<1> DEFINE i == [b EXCEPT !.state = "Idle", !.found = <<>>, !.full = FALSE]
           c == ResetConnection(i)
<1>1. /\ {"state", "handle", "link", "query", "keys"} \subseteq DOMAIN i
      /\ i.keys = b.keys /\ i.link = "none" /\ i.state = "Idle"
  BY DEF BleTracked
<1>2. b.keys \in Keyboards
  BY UpStates
<1>3. BleEnabled(b) = c
  BY DEF BleEnabled
<1> HIDE DEF i
<1>4. /\ DOMAIN c = DOMAIN i
      /\ c.link = "none" /\ ~c.handle /\ c.query = "none" /\ c.state = "Idle"
      /\ c.keys \in GoodKeys /\ Rested(c.keys)
  BY <1>1, <1>2, ResetKeeps
<1> HIDE DEF c
<1>5. QED
  BY <1>1, <1>3, <1>4 DEF BleTracked, BleGoes, LinkOf, BleStates

LEMMA BleDisabledGoes ==
  ASSUME NEW b, BleTracked(b)
  PROVE  BleGoes(b, BleDisabled(b)) /\ BleDisabled(b).link = "none"
<1> DEFINE i == [b EXCEPT !.state = "Off", !.found = <<>>, !.full = FALSE]
           r == ResetConnection(i)
           c == [r EXCEPT !.link = "none"]
<1>1. /\ {"state", "handle", "link", "query", "keys"} \subseteq DOMAIN i
      /\ i.keys = b.keys /\ i.state = "Off"
  BY DEF BleTracked
<1>2. b.keys \in Keyboards
  BY UpStates
<1>3. BleDisabled(b) = c
  BY DEF BleDisabled
<1> HIDE DEF i
<1>4. /\ DOMAIN r = DOMAIN i
      /\ ~r.handle /\ r.query = "none" /\ r.state = "Off"
      /\ r.keys \in GoodKeys /\ Rested(r.keys)
  BY <1>1, <1>2, ResetKeeps
<1> HIDE DEF r
<1>5. /\ {"state", "handle", "link", "query", "keys"} \subseteq DOMAIN c
      /\ c.link = "none" /\ ~c.handle /\ c.query = "none" /\ c.state = "Off"
      /\ c.keys = r.keys
  BY <1>1, <1>4
<1> HIDE DEF c
<1>6. QED
  BY <1>3, <1>4, <1>5 DEF BleTracked, BleGoes, LinkOf, BleStates

LEMMA ScanStartedGoes ==
  ASSUME NEW b, BleTracked(b), ~BleBusy(b)
  PROVE  BleGoes(b, ScanStarted(b))
<1> DEFINE c == ScanStarted(b)
<1>1. b.state \in {"Off", "Idle"} /\ ~b.handle /\ b.query = "none"
  BY DEF BleBusy, BleTracked, BleStates, Querying
<1>2. /\ {"state", "handle", "link", "query", "keys"} \subseteq DOMAIN c
      /\ c.state = "Scanning" /\ c.handle = b.handle /\ c.link = b.link
      /\ c.query = b.query /\ c.keys = b.keys
  BY DEF ScanStarted, BleTracked
<1>3. b.link = "none"
  BY <1>1, UpStates
<1> HIDE DEF c
<1>4. BleGoes(b, c)
  BY <1>1, <1>2, <1>3 DEF BleTracked, BleGoes, LinkOf, BleStates
<1>5. QED
  BY <1>4 DEF c

LEMMA ScanStoppedGoes ==
  ASSUME NEW b, BleTracked(b)
  PROVE  BleGoes(b, ScanStopped(b))
<1> DEFINE c == ScanStopped(b)
<1>1. CASE b.state = "Scanning"
  <2>1. /\ {"state", "handle", "link", "query", "keys"} \subseteq DOMAIN c
        /\ c.state = "Idle" /\ c.handle = b.handle /\ c.link = b.link
        /\ c.query = b.query /\ c.keys = b.keys
    BY <1>1 DEF ScanStopped, BleTracked
  <2> HIDE DEF c
  <2>2. BleGoes(b, c)
    BY <1>1, <2>1 DEF BleTracked, BleGoes, LinkOf, BleStates, Querying
  <2>3. QED
    BY <2>2 DEF c
<1>2. CASE b.state # "Scanning"
  BY <1>2 DEF ScanStopped, BleGoes
<1>3. QED
  BY <1>1, <1>2

LEMMA AdvertisedGoes ==
  ASSUME NEW b, BleTracked(b), NEW device, NEW hint
  PROVE  BleGoes(b, Advertised(b, device, hint))
<1> DEFINE c == Advertised(b, device, hint)
<1>1. /\ {"state", "handle", "link", "query", "keys"} \subseteq DOMAIN c
      /\ c.state = b.state /\ c.handle = b.handle /\ c.link = b.link
      /\ c.query = b.query /\ c.keys = b.keys
  BY DEF Advertised, BleTracked
<1> HIDE DEF c
<1>2. BleGoes(b, c)
  BY <1>1, NothingGoes
<1>3. QED
  BY <1>2 DEF c

LEMMA ConnectAskedGoes ==
  ASSUME NEW b, BleTracked(b), b.link = "none", NEW device, NEW accepted \in BOOLEAN
  PROVE  BleTracked(ConnectAsked(b, device, accepted))
<1> DEFINE g == ClearGatt(b)
           keys == KeysReset(g.keys)
           asked == [ClearGatt(b) EXCEPT !.target = device, !.code = FALSE,
                  !.reportMode = FALSE, !.hids = FALSE, !.keys = KeysReset(@),
                  !.deadline = TRUE]
           called == [asked EXCEPT !.state = "Connecting", !.link = "calling"]
           c == ConnectAsked(b, device, accepted)
<1>1. /\ DOMAIN g = DOMAIN b
      /\ g.keys = b.keys /\ g.link = "none" /\ g.state = b.state
      /\ g.handle = b.handle /\ g.query = b.query
  BY ClearGattKeeps DEF BleTracked
<1>2. keys \in GoodKeys /\ Rested(keys)
  BY <1>1, UpStates, ResetIsGood
<1>3. c = IF accepted THEN called ELSE asked
  BY Zenon DEF ConnectAsked
<1>4. asked = [g EXCEPT !.target = device, !.code = FALSE,
                  !.reportMode = FALSE, !.hids = FALSE, !.keys = keys,
                  !.deadline = TRUE]
  OBVIOUS
<1> HIDE DEF g, keys, c, asked
<1>5. /\ {"state", "handle", "link", "query", "keys"} \subseteq DOMAIN asked
      /\ asked.keys = keys /\ asked.link = "none" /\ asked.state = b.state
      /\ asked.handle = b.handle /\ asked.query = b.query
  BY <1>1, <1>4 DEF BleTracked
<1>6. /\ {"state", "handle", "link", "query", "keys"} \subseteq DOMAIN called
      /\ called.keys = keys /\ called.link = "calling" /\ called.state = "Connecting"
      /\ called.handle = b.handle /\ called.query = b.query
  BY <1>5
<1> HIDE DEF called
<1>7. BleTracked(asked)
  BY <1>2, <1>5 DEF BleTracked
<1>8. b.query = "none"
  BY UpStates DEF BleTracked
<1>9. BleTracked(called)
  BY <1>2, <1>6, <1>8 DEF BleTracked, LinkOf, BleStates, ConnectActive
<1>10. BleTracked(c)
  BY <1>3, <1>7, <1>9
<1>11. QED
  BY <1>10 DEF c

LEMMA DisconnectGoes ==
  ASSUME NEW b, BleTracked(b)
  PROVE  BleGoes(b, Disconnect(b))
<1> DEFINE quiet == ScanStopped(b)
           cut == [quiet EXCEPT !.state = "CancellingConnect"]
           called == IF quiet.state = "Connecting" THEN CancelCall(cut) ELSE quiet
           g == ClearGatt(called)
           hung == [g EXCEPT !.query = "none", !.state = "Disconnecting"]
           closed == IF called.handle /\ called.state # "Disconnecting"
                     THEN HangUp(hung) ELSE called
           keys == KeysReset(closed.keys)
           c == [closed EXCEPT !.keys = keys]
<1>1. Disconnect(b) = c
  BY DEF Disconnect
<1>2. BleGoes(b, quiet)
  BY ScanStoppedGoes
<1>3. BleTracked(quiet)
  BY <1>2 DEF BleGoes
<1> HIDE DEF quiet
<1>4. BleGoes(quiet, called)
  <2>1. CASE quiet.state = "Connecting"
    <3>1. quiet.link = "calling" /\ quiet.query = "none" /\ ~quiet.handle
      BY <1>3, <2>1, UpStates DEF BleTracked, Querying
    <3>2. /\ {"state", "handle", "link", "query", "keys"} \subseteq DOMAIN cut
          /\ cut.state = "CancellingConnect" /\ cut.handle = quiet.handle
          /\ cut.link = "calling" /\ cut.query = quiet.query /\ cut.keys = quiet.keys
      BY <1>3, <3>1 DEF BleTracked
    <3>3. called = CancelCall(cut)
      BY <2>1
    <3> HIDE DEF cut, called
    <3>4. /\ {"state", "handle", "link", "query", "keys"} \subseteq DOMAIN called
          /\ called.state = "CancellingConnect" /\ called.handle = quiet.handle
          /\ called.link = "cancelling" /\ called.query = quiet.query
          /\ called.keys = quiet.keys
      BY <3>2, <3>3 DEF CancelCall
    <3>5. QED
      BY <1>3, <2>1, <3>1, <3>4 DEF BleTracked, BleGoes, LinkOf, BleStates
  <2>2. CASE quiet.state # "Connecting"
    BY <1>3, <2>2 DEF BleGoes
  <2>3. QED
    BY <2>1, <2>2
<1>5. BleTracked(called)
  BY <1>4 DEF BleGoes
<1> HIDE DEF called
<1>6. /\ {"state", "handle", "link", "query", "keys"} \subseteq DOMAIN closed
      /\ closed.keys = called.keys
      /\ \/ /\ closed.state = "Disconnecting" /\ closed.handle = called.handle
            /\ closed.link = "closing" /\ closed.query = "none" /\ called.handle
         \/ closed = called /\ called.state # "Ready"
  <2>1. CASE called.handle /\ called.state # "Disconnecting"
    <3>1. called.link = "up"
      BY <1>5, <2>1, UpStates
    <3>2. /\ DOMAIN g = DOMAIN called
          /\ g.keys = called.keys /\ g.link = "up" /\ g.handle = called.handle
      BY <1>5, <3>1, ClearGattKeeps DEF BleTracked
    <3>3. closed = HangUp(hung)
      BY <2>1
    <3> HIDE DEF g, closed
    <3>4. /\ {"state", "handle", "link", "query", "keys"} \subseteq DOMAIN closed
          /\ closed.keys = called.keys
          /\ closed.state = "Disconnecting" /\ closed.handle = called.handle
          /\ closed.link = "closing" /\ closed.query = "none"
      BY <1>5, <3>2, <3>3 DEF HangUp, BleTracked
    <3>5. QED
      BY <2>1, <3>4
  <2>2. CASE ~(called.handle /\ called.state # "Disconnecting")
    <3>1. closed = called
      BY <2>2
    <3>2. called.state # "Ready"
      BY <1>5, <2>2, UpStates DEF ConnectActive
    <3>3. QED
      BY <1>5, <3>1, <3>2 DEF BleTracked
  <2>3. QED
    BY <2>1, <2>2
<1> HIDE DEF closed
<1>7. keys \in GoodKeys /\ Rested(keys)
  BY <1>5, <1>6, UpStates, ResetIsGood
<1>8. /\ {"state", "handle", "link", "query", "keys"} \subseteq DOMAIN c
      /\ c.state = closed.state /\ c.handle = closed.handle /\ c.link = closed.link
      /\ c.query = closed.query /\ c.keys = keys
  BY <1>6
<1> HIDE DEF c, keys
<1>9. BleGoes(called, c)
  <2>1. CASE closed = called /\ called.state # "Ready"
    BY <1>5, <1>7, <1>8, <2>1 DEF BleTracked, BleGoes
  <2>2. CASE closed.state = "Disconnecting" /\ closed.handle = called.handle
             /\ closed.link = "closing" /\ closed.query = "none" /\ called.handle
    <3>1. called.link # "none"
      BY <1>5, <2>2, UpStates
    <3>2. QED
      BY <1>7, <1>8, <2>2, <3>1 DEF BleTracked, BleGoes, LinkOf, BleStates
  <2>3. QED
    BY <1>6, <2>1, <2>2
<1>10. QED
  BY <1>1, <1>2, <1>4, <1>9, BleGoesOn

LEMMA ConnectCancelledGoes ==
  ASSUME NEW b, BleTracked(b)
  PROVE  BleGoes(b, ConnectCancelled(b))
<1>1. CASE b.state = "Connecting"
  <2> DEFINE cut == [b EXCEPT !.state = "CancellingConnect"]
             c == CancelCall(cut)
  <2>1. b.link = "calling" /\ b.query = "none" /\ ~b.handle
    BY <1>1, UpStates DEF BleTracked, Querying
  <2>2. /\ {"state", "handle", "link", "query", "keys"} \subseteq DOMAIN cut
        /\ cut.state = "CancellingConnect" /\ cut.handle = b.handle
        /\ cut.link = "calling" /\ cut.query = b.query /\ cut.keys = b.keys
    BY <2>1 DEF BleTracked
  <2>3. ConnectCancelled(b) = c
    BY <1>1 DEF ConnectCancelled
  <2> HIDE DEF cut
  <2>4. /\ {"state", "handle", "link", "query", "keys"} \subseteq DOMAIN c
        /\ c.state = "CancellingConnect" /\ c.handle = b.handle
        /\ c.link = "cancelling" /\ c.query = b.query /\ c.keys = b.keys
    BY <2>2 DEF CancelCall
  <2> HIDE DEF c
  <2>5. BleGoes(b, c)
    BY <1>1, <2>1, <2>4 DEF BleTracked, BleGoes, LinkOf, BleStates
  <2>6. QED
    BY <2>3, <2>5
<1>2. CASE b.state # "Connecting" /\ b.state \in ConnectActive
  BY <1>2, FailConnectionGoes DEF ConnectCancelled
<1>3. CASE b.state # "Connecting" /\ b.state \notin ConnectActive
  BY <1>3 DEF ConnectCancelled, BleGoes
<1>4. QED
  BY <1>1, <1>2, <1>3

(* The events of the radio.                                                *)
LEMMA LeConnectionCompleteGoes ==
  ASSUME NEW b, BleTracked(b), b.link \in {"calling", "cancelling"},
         NEW ok \in BOOLEAN, NEW enabled \in BOOLEAN
  PROVE  BleGoes(b, LeConnectionComplete(b, ok, enabled))
<1> DEFINE link == IF ok THEN "up" ELSE "none"
           on == [b EXCEPT !.link = link]
           c == LeConnectionComplete(b, ok, enabled)
<1>1. /\ b.state \in {"Connecting", "CancellingConnect"} /\ b.query = "none"
      /\ Rested(b.keys) /\ b.keys \in Keyboards
  BY UpStates DEF BleTracked, Querying
<1>2. /\ {"state", "handle", "link", "query", "keys"} \subseteq DOMAIN on
      /\ on.state = b.state /\ on.handle = b.handle /\ on.link = link
      /\ on.query = b.query /\ on.keys = b.keys
  BY DEF BleTracked
<1>3. c = IF b.state = "CancellingConnect" /\ ok
          THEN HangUp([on EXCEPT !.handle = TRUE, !.state = "Disconnecting"])
          ELSE IF ~ok THEN IdleOrOff(ResetConnection(on), enabled)
          ELSE [on EXCEPT !.handle = TRUE, !.state = "Pairing"]
  BY <1>1 DEF LeConnectionComplete
<1> HIDE DEF on, c
<1>4. CASE ~ok
  <2>1. PICK s \in {"Off", "Idle"} : c = [ResetConnection(on) EXCEPT !.state = s]
    BY <1>3, <1>4 DEF IdleOrOff
  <2>2. on.link = "none" /\ on.keys \in Keyboards
    BY <1>1, <1>2, <1>4
  <2>3. BleTracked(c)
    BY <1>2, <2>1, <2>2, IdleIsTracked
  <2>4. QED
    BY <2>3 DEF BleGoes, c
<1>5. CASE ok /\ b.state = "CancellingConnect"
  <2> DEFINE h == [on EXCEPT !.handle = TRUE, !.state = "Disconnecting"]
  <2>1. /\ {"state", "handle", "link", "query", "keys"} \subseteq DOMAIN h
        /\ h.state = "Disconnecting" /\ h.handle /\ h.link = "up"
        /\ h.query = b.query /\ h.keys = b.keys
    BY <1>2, <1>5
  <2>2. c = HangUp(h)
    BY <1>3, <1>5
  <2> HIDE DEF h
  <2>3. /\ {"state", "handle", "link", "query", "keys"} \subseteq DOMAIN c
        /\ c.state = "Disconnecting" /\ c.handle = h.handle /\ c.link = "closing"
        /\ c.query = b.query /\ c.keys = b.keys
    BY <2>1, <2>2 DEF HangUp
  <2>4. BleTracked(c)
    BY <1>1, <2>1, <2>3 DEF BleTracked, LinkOf, BleStates
  <2>5. QED
    BY <2>4 DEF BleGoes, c
<1>6. CASE ok /\ b.state = "Connecting"
  <2>1. c = [on EXCEPT !.handle = TRUE, !.state = "Pairing"]
    BY <1>3, <1>6
  <2>2. /\ {"state", "handle", "link", "query", "keys"} \subseteq DOMAIN c
        /\ c.state = "Pairing" /\ c.handle /\ c.link = "up"
        /\ c.query = b.query /\ c.keys = b.keys
    BY <1>2, <1>6, <2>1
  <2>3. BleTracked(c)
    BY <1>1, <2>2 DEF BleTracked, LinkOf, BleStates, ConnectActive
  <2>4. QED
    BY <2>3 DEF BleGoes, c
<1>7. QED
  BY <1>1, <1>4, <1>5, <1>6

LEMMA LeDisconnectionCompleteGoes ==
  ASSUME NEW b, BleTracked(b), b.link \in {"up", "closing"}, NEW enabled \in BOOLEAN
  PROVE  BleGoes(b, LeDisconnectionComplete(b, enabled))
<1> DEFINE off == [b EXCEPT !.link = "none"]
           c == LeDisconnectionComplete(b, enabled)
<1>1. b.handle
  BY UpStates
<1>2. PICK s \in {"Off", "Idle"} : c = [ResetConnection(off) EXCEPT !.state = s]
  BY <1>1 DEF LeDisconnectionComplete, IdleOrOff
<1>3. /\ {"state", "handle", "link", "query", "keys"} \subseteq DOMAIN off
      /\ off.link = "none" /\ off.keys = b.keys
  BY DEF BleTracked
<1>4. off.keys \in Keyboards
  BY <1>3, UpStates
<1> HIDE DEF c, off
<1>5. BleTracked(c)
  BY <1>2, <1>3, <1>4, IdleIsTracked
<1>6. QED
  BY <1>5 DEF BleGoes, c

LEMMA PasskeyShownGoes ==
  ASSUME NEW b, BleTracked(b), NEW waits \in BOOLEAN
  PROVE  BleGoes(b, PasskeyShown(b, waits))
<1> DEFINE c == PasskeyShown(b, waits)
<1>1. /\ {"state", "handle", "link", "query", "keys"} \subseteq DOMAIN c
      /\ c.state = b.state /\ c.handle = b.handle /\ c.link = b.link
      /\ c.query = b.query /\ c.keys = b.keys
  BY DEF PasskeyShown, BleTracked
<1> HIDE DEF c
<1>2. BleGoes(b, c)
  BY <1>1, NothingGoes
<1>3. QED
  BY <1>2 DEF c

(* Discovery of the keyboard's service: from one state to the next, with a *)
(* query on its way or refused.                                            *)
LEMMA RequestQueryGoes ==
  ASSUME NEW b, BleTracked(b), b.state \in Querying, NEW accepted \in BOOLEAN
  PROVE  BleGoes(b, RequestQuery(b, accepted))
<1> DEFINE q == [b EXCEPT !.query = "queued"]
<1>1. b.state \in ConnectActive \ {"Connecting"} /\ b.link = "up"
  BY UpStates DEF Querying, ConnectActive
<1>2. /\ {"state", "handle", "link", "query", "keys"} \subseteq DOMAIN q
      /\ q.state = b.state /\ q.handle = b.handle /\ q.link = b.link
      /\ q.keys = b.keys
  BY DEF BleTracked
<1>3. RequestQuery(b, accepted) = IF accepted THEN q ELSE FailConnection(b)
  BY DEF RequestQuery
<1> HIDE DEF q
<1>4. b.keys \in GoodKeys /\ (b.state # "Ready" => Rested(b.keys))
  BY DEF BleTracked
<1>5. BleGoes(b, q)
  BY <1>1, <1>2, <1>4, UpStaysUp
<1>6. BleGoes(b, FailConnection(b))
  BY <1>1, FailConnectionGoes
<1>7. QED
  BY <1>3, <1>5, <1>6

(* Another state of a connection that is up and not Ready.                 *)
LEMMA NextStateGoes ==
  ASSUME NEW b, BleTracked(b), b.state \in ConnectActive \ {"Connecting"},
         NEW s \in ConnectActive \ {"Connecting"}, NEW c,
         {"state", "handle", "link", "query", "keys"} \subseteq DOMAIN c,
         c.state = s, c.handle = b.handle, c.link = b.link, c.keys = b.keys,
         c.query = "none" \/ (c.query = b.query /\ s \in Querying)
  PROVE  BleGoes(b, c)
<1>1. b.link = "up"
  BY UpStates
<1>2. b.state # "Ready"
  BY DEF ConnectActive
<1>3. c.keys \in GoodKeys /\ Rested(c.keys)
  BY <1>2 DEF BleTracked
<1>4. c.query # "none" => c.state \in Querying
  BY DEF BleTracked
<1>5. QED
  BY <1>1, <1>3, <1>4, UpStaysUp

LEMMA MarkReadyGoes ==
  ASSUME NEW b, BleTracked(b), b.state \in ConnectActive \ {"Connecting"}, b.query = "none"
  PROVE  BleGoes(b, MarkReady(b))
<1> DEFINE c == MarkReady(b)
<1>1. b.link = "up"
  BY UpStates
<1>2. /\ {"state", "handle", "link", "query", "keys"} \subseteq DOMAIN c
      /\ c.state = "Ready" /\ c.handle = b.handle /\ c.link = b.link
      /\ c.query = "none" /\ c.keys = b.keys
  BY DEF MarkReady, BleTracked
<1> HIDE DEF c
<1>3. c.keys \in GoodKeys
  BY <1>2 DEF BleTracked
<1>4. BleGoes(b, c)
  BY <1>1, <1>2, <1>3, UpStaysUp
<1>5. QED
  BY <1>4 DEF c

LEMMA PairingEndedGoes ==
  ASSUME NEW b, BleTracked(b), b.state = "Pairing", NEW ok \in BOOLEAN, NEW accepted \in BOOLEAN
  PROVE  BleGoes(b, PairingEnded(b, ok, accepted))
<1> DEFINE g == ClearGatt(b)
           d == [g EXCEPT !.state = "DiscoveringReports"]
           yes == [d EXCEPT !.hids = TRUE]
           no == [d EXCEPT !.hids = FALSE]
<1>1. b.state \in ConnectActive \ {"Connecting"} /\ b.query = "none"
  BY DEF ConnectActive, BleTracked, Querying
<1>2. /\ DOMAIN g = DOMAIN b
      /\ g.handle = b.handle /\ g.link = b.link /\ g.query = b.query /\ g.keys = b.keys
  BY ClearGattKeeps DEF BleTracked
<1>3. PairingEnded(b, ok, accepted) =
        IF ok THEN (IF accepted THEN yes ELSE FailConnection(no)) ELSE FailConnection(b)
  BY Zenon DEF PairingEnded, BeginHidDiscovery
<1> HIDE DEF g
<1>4. /\ {"state", "handle", "link", "query", "keys"} \subseteq DOMAIN yes
      /\ yes.state = "DiscoveringReports" /\ yes.handle = b.handle
      /\ yes.link = b.link /\ yes.query = "none" /\ yes.keys = b.keys
  BY <1>1, <1>2 DEF BleTracked
<1>5. /\ {"state", "handle", "link", "query", "keys"} \subseteq DOMAIN no
      /\ no.state = "DiscoveringReports" /\ no.handle = b.handle
      /\ no.link = b.link /\ no.query = "none" /\ no.keys = b.keys
  BY <1>1, <1>2 DEF BleTracked
<1> HIDE DEF yes, no
<1>6. BleGoes(b, yes) /\ BleGoes(b, no)
  BY <1>1, <1>4, <1>5, NextStateGoes DEF ConnectActive
<1>7. BleGoes(b, FailConnection(no))
  BY <1>5, <1>6, FailConnectionGoes, BleGoesOn DEF BleGoes, ConnectActive
<1>8. BleGoes(b, FailConnection(b))
  BY <1>1, FailConnectionGoes
<1>9. QED
  BY <1>3, <1>6, <1>7, <1>8

LEMMA HidsConnectedGoes ==
  ASSUME NEW b, BleTracked(b), NEW ok \in BOOLEAN, NEW keyboardFound \in BOOLEAN
  PROVE  BleGoes(b, HidsConnected(b, ok, keyboardFound))
<1> DEFINE gone == [b EXCEPT !.hids = FALSE, !.fallback = TRUE]
           other == [b EXCEPT !.fallback = TRUE]
           report == [b EXCEPT !.reportMode = TRUE]
<1>1. HidsConnected(b, ok, keyboardFound) =
        IF ~b.hids \/ b.state # "DiscoveringReports" THEN b
        ELSE IF ~ok THEN gone ELSE IF ~keyboardFound THEN other ELSE MarkReady(report)
  BY Zenon DEF HidsConnected
<1>2. \A c \in {gone, other, report} :
        /\ {"state", "handle", "link", "query", "keys"} \subseteq DOMAIN c
        /\ c.state = b.state /\ c.handle = b.handle
        /\ c.link = b.link /\ c.query = b.query /\ c.keys = b.keys
  BY DEF BleTracked
<1> HIDE DEF gone, other, report
<1>3. BleGoes(b, gone) /\ BleGoes(b, other) /\ BleGoes(b, report)
  BY <1>2, NothingGoes
<1>4. b.state = "DiscoveringReports" => BleGoes(b, MarkReady(report))
  <2>1. HAVE b.state = "DiscoveringReports"
  <2>2. report.state \in ConnectActive \ {"Connecting"} /\ report.query = "none"
    BY <1>2, <2>1 DEF BleTracked, ConnectActive, Querying
  <2>3. BleGoes(report, MarkReady(report))
    BY <1>3, <2>2, MarkReadyGoes DEF BleGoes
  <2>4. QED
    BY <1>3, <2>3, BleGoesOn
<1>5. BleGoes(b, b)
  BY DEF BleGoes
<1>6. QED
  BY <1>1, <1>3, <1>4, <1>5

LEMMA HidsDisconnectedGoes ==
  ASSUME NEW b, BleTracked(b)
  PROVE  BleGoes(b, HidsDisconnected(b))
<1> DEFINE c == HidsDisconnected(b)
<1>1. /\ {"state", "handle", "link", "query", "keys"} \subseteq DOMAIN c
      /\ c.state = b.state /\ c.handle = b.handle /\ c.link = b.link
      /\ c.query = b.query /\ c.keys = b.keys
  BY DEF HidsDisconnected, BleTracked
<1> HIDE DEF c
<1>2. BleGoes(b, c)
  BY <1>1, NothingGoes
<1>3. QED
  BY <1>2 DEF c

LEMMA QueryTakenGoes ==
  ASSUME NEW b, BleTracked(b), b.query # "none", NEW accepted \in BOOLEAN
  PROVE  BleGoes(b, QueryTaken(b, accepted))
<1> DEFINE taken == [b EXCEPT !.query = "none"]
           sent == [b EXCEPT !.query = "sent"]
<1>1. b.state \in Querying
  BY DEF BleTracked
<1>2. b.state \in ConnectActive \ {"Connecting"}
  BY <1>1 DEF Querying, ConnectActive
<1>3. QueryTaken(b, accepted) =
        IF ~accepted THEN FailConnection(taken)
        ELSE IF b.state = "SwitchingProtocol" THEN MarkReady(taken) ELSE sent
  BY Zenon DEF QueryTaken
<1>4. /\ {"state", "handle", "link", "query", "keys"} \subseteq DOMAIN taken
      /\ taken.state = b.state /\ taken.handle = b.handle
      /\ taken.link = b.link /\ taken.query = "none" /\ taken.keys = b.keys
  BY DEF BleTracked
<1>5. /\ {"state", "handle", "link", "query", "keys"} \subseteq DOMAIN sent
      /\ sent.state = b.state /\ sent.handle = b.handle
      /\ sent.link = b.link /\ sent.keys = b.keys
  BY DEF BleTracked
<1> HIDE DEF taken, sent
<1>6. BleGoes(b, taken)
  BY <1>4, NothingGoes
<1>7. BleGoes(b, sent)
  BY <1>1, <1>5 DEF BleTracked, BleGoes
<1>8. BleGoes(b, FailConnection(taken))
  BY <1>2, <1>4, <1>6, FailConnectionGoes, BleGoesOn DEF BleGoes
<1>9. BleGoes(b, MarkReady(taken))
  BY <1>2, <1>4, <1>6, MarkReadyGoes, BleGoesOn DEF BleGoes
<1>10. QED
  BY <1>3, <1>7, <1>8, <1>9

LEMMA QueryResultGoes ==
  ASSUME NEW b, BleTracked(b), NEW what \in {"service", "input", "protocol"}
  PROVE  BleGoes(b, QueryResult(b, what))
<1>1. QueryResult(b, what) \in {b, [b EXCEPT !.service = TRUE],
                                [b EXCEPT !.input = TRUE], [b EXCEPT !.protocol = TRUE]}
  BY DEF QueryResult
<1>2. \A c \in {b, [b EXCEPT !.service = TRUE],
                [b EXCEPT !.input = TRUE], [b EXCEPT !.protocol = TRUE]} :
        /\ {"state", "handle", "link", "query", "keys"} \subseteq DOMAIN c
        /\ c.state = b.state /\ c.handle = b.handle
        /\ c.link = b.link /\ c.query = b.query /\ c.keys = b.keys
  BY DEF BleTracked
<1>3. QED
  BY <1>1, <1>2, NothingGoes

(* The next query is asked for, or everything is given up.                 *)
LEMMA AskNextGoes ==
  ASSUME NEW b, BleTracked(b), b.state \in ConnectActive \ {"Connecting"},
         NEW s \in Querying, NEW c, NEW accepted \in BOOLEAN,
         {"state", "handle", "link", "query", "keys"} \subseteq DOMAIN c,
         c.state = s, c.handle = b.handle, c.link = b.link, c.keys = b.keys,
         c.query = "none"
  PROVE  BleGoes(b, RequestQuery(c, accepted))
<1>1. s \in ConnectActive \ {"Connecting"}
  BY DEF Querying, ConnectActive
<1>2. BleGoes(b, c)
  BY <1>1, NextStateGoes
<1>3. BleGoes(c, RequestQuery(c, accepted))
  BY <1>2, RequestQueryGoes DEF BleGoes
<1>4. QED
  BY <1>2, <1>3, BleGoesOn

LEMMA QueryCompleteGoes ==
  ASSUME NEW b, BleTracked(b), b.query # "none", NEW ok \in BOOLEAN, NEW accepted \in BOOLEAN
  PROVE  BleGoes(b, QueryComplete(b, ok, accepted))
<1> DEFINE done == [b EXCEPT !.query = "none"]
           chars == [done EXCEPT !.state = "DiscoveringCharacteristics"]
           notify == [done EXCEPT !.state = "EnablingNotifications"]
           listening == [done EXCEPT !.listening = TRUE]
           switching == [listening EXCEPT !.state = "SwitchingProtocol"]
<1>1. b.state \in Querying
  BY DEF BleTracked
<1>2. b.state \in ConnectActive \ {"Connecting"}
  BY <1>1 DEF Querying, ConnectActive
<1>3. QueryComplete(b, ok, accepted) \in
        {RequestQuery(chars, accepted), RequestQuery(notify, accepted),
         RequestQuery(switching, accepted), MarkReady(listening),
         FailConnection(done), done}
  BY <1>1 DEF QueryComplete, Querying
<1>4. /\ {"state", "handle", "link", "query", "keys"} \subseteq DOMAIN done
      /\ done.state = b.state /\ done.handle = b.handle
      /\ done.link = b.link /\ done.query = "none" /\ done.keys = b.keys
  BY DEF BleTracked
<1> HIDE DEF done
<1>5. /\ {"state", "handle", "link", "query", "keys"} \subseteq DOMAIN listening
      /\ listening.state = b.state /\ listening.handle = b.handle
      /\ listening.link = b.link /\ listening.query = "none" /\ listening.keys = b.keys
  BY <1>4
<1> HIDE DEF listening
<1>6. \A c \in {chars, notify, switching} :
        /\ {"state", "handle", "link", "query", "keys"} \subseteq DOMAIN c
        /\ c.state \in Querying /\ c.handle = b.handle
        /\ c.link = b.link /\ c.query = "none" /\ c.keys = b.keys
  BY <1>4, <1>5 DEF Querying
<1> HIDE DEF chars, notify, switching
<1>7. BleGoes(b, done) /\ BleGoes(b, listening)
  BY <1>4, <1>5, NothingGoes
<1>8. /\ BleGoes(b, RequestQuery(chars, accepted))
      /\ BleGoes(b, RequestQuery(notify, accepted))
      /\ BleGoes(b, RequestQuery(switching, accepted))
  BY <1>2, <1>6, AskNextGoes
<1>9. BleGoes(b, FailConnection(done))
  BY <1>2, <1>4, <1>7, FailConnectionGoes, BleGoesOn DEF BleGoes
<1>10. BleGoes(b, MarkReady(listening))
  BY <1>2, <1>5, <1>7, MarkReadyGoes, BleGoesOn DEF BleGoes
<1>11. QED
  BY <1>3, <1>7, <1>8, <1>9, <1>10

LEMMA BleServicedGoes ==
  ASSUME NEW b, BleTracked(b), NEW late \in BOOLEAN, NEW accepted \in BOOLEAN
  PROVE  BleGoes(b, BleServiced(b, late, accepted))
<1> DEFINE plain == [b EXCEPT !.hids = FALSE, !.reportMode = FALSE]
           g == ClearGatt(plain)
           asks == [g EXCEPT !.state = "DiscoveringService"]
           fell == IF b.fallback /\ b.state = "DiscoveringReports"
                   THEN RequestQuery(asks, accepted) ELSE b
<1>1. BleServiced(b, late, accepted) =
        IF fell.state \in ConnectActive /\ late THEN FailConnection(fell) ELSE fell
  BY Zenon DEF BleServiced, BeginBootDiscovery
<1>2. BleGoes(b, fell)
  <2>1. CASE b.fallback /\ b.state = "DiscoveringReports"
    <3>1. b.query = "none" /\ b.state \in ConnectActive \ {"Connecting"}
      BY <2>1 DEF BleTracked, Querying, ConnectActive
    <3>2. /\ {"state", "handle", "link", "query", "keys"} \subseteq DOMAIN plain
          /\ plain.handle = b.handle
          /\ plain.link = b.link /\ plain.query = b.query /\ plain.keys = b.keys
      BY DEF BleTracked
    <3> HIDE DEF plain
    <3>3. /\ DOMAIN g = DOMAIN plain
          /\ g.handle = b.handle /\ g.link = b.link /\ g.query = b.query /\ g.keys = b.keys
      BY <3>2, ClearGattKeeps
    <3> HIDE DEF g
    <3>4. /\ {"state", "handle", "link", "query", "keys"} \subseteq DOMAIN asks
          /\ asks.state = "DiscoveringService" /\ asks.handle = b.handle
          /\ asks.link = b.link /\ asks.query = "none" /\ asks.keys = b.keys
      BY <3>1, <3>2, <3>3
    <3> HIDE DEF asks
    <3>5. "DiscoveringService" \in Querying
      BY DEF Querying
    <3>6. BleGoes(b, RequestQuery(asks, accepted))
      BY <3>1, <3>4, <3>5, AskNextGoes
    <3>7. QED
      BY <2>1, <3>6
  <2>2. CASE ~(b.fallback /\ b.state = "DiscoveringReports")
    BY <2>2 DEF BleGoes
  <2>3. QED
    BY <2>1, <2>2
<1> HIDE DEF fell
<1>3. fell.state \in ConnectActive => BleGoes(b, FailConnection(fell))
  BY <1>2, FailConnectionGoes, BleGoesOn DEF BleGoes
<1>4. QED
  BY <1>1, <1>2, <1>3

(* Keys: they change only on a keyboard that is Ready, or lose one.        *)
LEMMA BleKeysGo ==
  ASSUME NEW b, BleTracked(b), NEW keys \in GoodKeys,
         b.state # "Ready" => Rested(keys)
  PROVE  BleGoes(b, [b EXCEPT !.keys = keys])
<1> DEFINE c == [b EXCEPT !.keys = keys]
<1>1. /\ {"state", "handle", "link", "query", "keys"} \subseteq DOMAIN c
      /\ c.state = b.state /\ c.handle = b.handle
      /\ c.link = b.link /\ c.query = b.query /\ c.keys = keys
  BY DEF BleTracked
<1> HIDE DEF c
<1>2. BleGoes(b, c)
  BY <1>1 DEF BleTracked, BleGoes
<1>3. QED
  BY <1>2 DEF c

LEMMA ReadUsages ==
  ASSUME NEW usages \in {<<>>, <<"letter">>, <<"enter", "cursor">>}
  PROVE  usages \in Seq(Usages) /\ Len(usages) \in 0..2
<1>1. CASE usages = <<>>
  BY <1>1
<1>2. CASE usages = <<"letter">>
  BY <1>2 DEF Usages
<1>3. CASE usages = <<"enter", "cursor">>
  BY <1>3 DEF Usages
<1>4. QED
  BY <1>1, <1>2, <1>3

LEMMA BleReportGoes ==
  ASSUME NEW b, BleTracked(b), NEW usages \in {<<>>, <<"letter">>, <<"enter", "cursor">>}
  PROVE  BleGoes(b, BleReport(b, usages))
<1> DEFINE keys == KeyReport(b.keys, FALSE, FALSE, usages)
<1>1. \/ b.state = "Ready" /\ BleReport(b, usages) = [b EXCEPT !.keys = keys]
      \/ BleReport(b, usages) = b
  BY DEF BleReport
<1>2. b.keys \in Keyboards
  BY UpStates
<1>3. keys \in GoodKeys
  BY <1>2, ReadUsages, ReportFollows
<1> HIDE DEF keys
<1>4. b.state = "Ready" => BleGoes(b, [b EXCEPT !.keys = keys])
  BY <1>3, BleKeysGo
<1>5. QED
  BY <1>1, <1>4 DEF BleGoes

LEMMA BleTakenGoes ==
  ASSUME NEW b, BleTracked(b), NEW due \in BOOLEAN
  PROVE  BleGoes(b, [b EXCEPT !.keys = KeyTaken(@, due)])
<1> DEFINE keys == KeyTaken(b.keys, due)
<1>1. b.keys \in GoodKeys /\ (b.state # "Ready" => Rested(b.keys))
  BY DEF BleTracked
<1>2. keys \in GoodKeys /\ (Rested(b.keys) => keys = b.keys)
  BY <1>1, TakenFollows
<1>3. [b EXCEPT !.keys = KeyTaken(@, due)] = [b EXCEPT !.keys = keys]
  OBVIOUS
<1> HIDE DEF keys
<1>4. BleGoes(b, [b EXCEPT !.keys = keys])
  BY <1>1, <1>2, BleKeysGo
<1>5. QED
  BY <1>3, <1>4

-----------------------------------------------------------------------------
(* The Classic driver and the radio (bluetooth_hid_keyboard.cpp).          *)

(* A channel may be closing that the driver no longer holds, but not open. *)
ClassicTracked(c) ==
  /\ {"link", "cid", "connecting", "keys"} \subseteq DOMAIN c
  /\ c.link \in {"none", "opening", "up", "closing"}
  /\ c.link \in {"opening", "up"} => c.cid
  /\ c.cid => c.link # "none"
  /\ c.connecting => c.cid
  /\ c.keys \in GoodKeys
  /\ c.link \in {"none", "opening"} => Rested(c.keys)

ClassicGoes(c, d) == ClassicTracked(d) /\ (c.link = "none" => d.link = "none")

(* Nothing of the channel changes.                                         *)
LEMMA ClassicNothingGoes ==
  ASSUME NEW c, ClassicTracked(c), NEW d,
         {"link", "cid", "connecting", "keys"} \subseteq DOMAIN d,
         d.link = c.link, d.cid = c.cid, d.connecting = c.connecting, d.keys = c.keys
  PROVE  ClassicGoes(c, d)
  BY DEF ClassicTracked, ClassicGoes

(* A failed attempt: whatever is being connected, the channel is let go of *)
(* and asked to close.                                                     *)
LEMMA FinishConnectFailureGoes ==
  ASSUME NEW c, {"link", "cid", "connecting", "keys"} \subseteq DOMAIN c,
         c.link \in {"none", "opening", "up", "closing"},
         c.link \in {"opening", "up"} => c.cid,
         c.keys \in GoodKeys, c.link \in {"none", "opening"} => Rested(c.keys)
  PROVE  ClassicGoes(c, FinishConnectFailure(c))
<1> DEFINE link == IF c.link \in {"opening", "up"} THEN "closing" ELSE c.link
           cut == [c EXCEPT !.link = link]
           closed == IF c.cid THEN [cut EXCEPT !.cid = FALSE] ELSE c
           ended == [closed EXCEPT !.connecting = FALSE, !.pairing = FALSE,
                                   !.descriptor = FALSE]
           d == [ended EXCEPT !.target = NoDevice, !.targetNamed = FALSE,
                              !.code = FALSE, !.deadline = FALSE]
<1>1. FinishConnectFailure(c) = d
  BY DEF FinishConnectFailure, CloseChannel, ClearTarget
<1>2. /\ {"link", "cid", "connecting", "keys"} \subseteq DOMAIN cut
      /\ cut.link = link /\ cut.keys = c.keys
  OBVIOUS
<1> HIDE DEF cut
<1>3. /\ {"link", "cid", "connecting", "keys"} \subseteq DOMAIN closed
      /\ closed.link = link /\ closed.keys = c.keys /\ ~closed.cid
  BY <1>2
<1> HIDE DEF closed
<1>4. /\ {"link", "cid", "connecting", "keys"} \subseteq DOMAIN d
      /\ d.link = link /\ d.keys = c.keys /\ ~d.cid /\ ~d.connecting
  BY <1>3
<1> HIDE DEF d
<1>5. ClassicGoes(c, d)
  BY <1>4 DEF ClassicTracked, ClassicGoes
<1>6. QED
  BY <1>1, <1>5

LEMMA FailedGoes ==
  ASSUME NEW c, ClassicTracked(c)
  PROVE  ClassicGoes(c, FinishConnectFailure(c))
  BY FinishConnectFailureGoes DEF ClassicTracked

(* A call that the stack does not take leaves no link behind.              *)
LEMMA BeginConnectGoes ==
  ASSUME NEW c, ClassicTracked(c), ~c.cid, NEW device, NEW pairing, NEW named,
         NEW accepted \in BOOLEAN
  PROVE  LET d == BeginConnect(c, device, pairing, named, accepted)
         IN  ClassicTracked(d) /\ (~accepted /\ c.link = "none" => d.link = "none")
<1> DEFINE begun == [c EXCEPT !.target = device, !.targetNamed = named,
                  !.connecting = TRUE, !.pairing = pairing,
                  !.descriptor = FALSE, !.code = FALSE, !.deadline = TRUE]
           called == [begun EXCEPT !.cid = TRUE, !.link = "opening", !.peer = device]
           d == BeginConnect(c, device, pairing, named, accepted)
<1>1. d = IF accepted /\ c.link = "none" THEN called ELSE FinishConnectFailure(begun)
  BY Zenon DEF BeginConnect
<1>2. /\ {"link", "cid", "connecting", "keys"} \subseteq DOMAIN begun
      /\ begun.link = c.link /\ begun.keys = c.keys /\ begun.cid = c.cid
  BY DEF ClassicTracked
<1> HIDE DEF begun, d
<1>3. CASE accepted /\ c.link = "none"
  <2>1. /\ {"link", "cid", "connecting", "keys"} \subseteq DOMAIN d
        /\ d.link = "opening" /\ d.keys = c.keys /\ d.cid
    BY <1>1, <1>2, <1>3
  <2>2. ClassicTracked(d)
    BY <1>3, <2>1 DEF ClassicTracked
  <2>3. QED
    BY <1>3, <2>2 DEF d
<1>4. CASE ~(accepted /\ c.link = "none")
  <2>1. ClassicGoes(begun, FinishConnectFailure(begun))
    BY <1>2, FinishConnectFailureGoes DEF ClassicTracked
  <2>2. QED
    BY <1>1, <1>2, <1>4, <2>1 DEF ClassicGoes, d
<1>5. QED
  BY <1>3, <1>4

LEMMA IncomingGoes ==
  ASSUME NEW c, ClassicTracked(c), c.link = "none", NEW device, NEW named
  PROVE  ClassicTracked(IncomingAccepted(c, device, named))
<1> DEFINE d == IncomingAccepted(c, device, named)
<1>1. /\ {"link", "cid", "connecting", "keys"} \subseteq DOMAIN d
      /\ d.link = "opening" /\ d.keys = c.keys /\ d.cid
  BY DEF IncomingAccepted, ClassicTracked
<1> HIDE DEF d
<1>2. ClassicTracked(d)
  BY <1>1 DEF ClassicTracked
<1>3. QED
  BY <1>2 DEF d

(* Names and inquiries.                                                    *)
SameChannel(c, d) ==
  /\ DOMAIN d = DOMAIN c
  /\ \A f \in {"link", "cid", "connecting", "keys"} \cap DOMAIN c : d[f] = c[f]

LEMMA SameChannelGoes ==
  ASSUME NEW c, ClassicTracked(c), NEW d, SameChannel(c, d)
  PROVE  ClassicGoes(c, d)
<1>1. /\ {"link", "cid", "connecting", "keys"} \subseteq DOMAIN d
      /\ d.link = c.link /\ d.cid = c.cid /\ d.connecting = c.connecting /\ d.keys = c.keys
  BY DEF SameChannel, ClassicTracked
<1>2. QED
  BY <1>1, ClassicNothingGoes

LEMMA AskNextNameGoes ==
  ASSUME NEW c, NEW refused
  PROVE  SameChannel(c, AskNextName(c, refused))
<1> DEFINE untried == c.found \ (c.nameKnown \cup c.nameTried)
           ask == untried \ refused
           one == CHOOSE d \in ask : TRUE
           tried == IF ask = {} THEN untried ELSE (untried \cap refused) \cup {one}
           left == [c EXCEPT !.naming = NoDevice, !.nameTried = @ \cup tried]
           asked == [left EXCEPT !.naming = one, !.nameAsked = TRUE]
           again == [left EXCEPT !.inquiry = @ \/ c.scan]
<1>1. AskNextName(c, refused) = IF ask # {} THEN asked ELSE again
  BY DEF AskNextName
<1> HIDE DEF one, tried, ask
<1>2. SameChannel(c, left)
  BY DEF SameChannel
<1> HIDE DEF left
<1>3. SameChannel(c, asked)
  BY <1>2 DEF SameChannel
<1>4. SameChannel(c, again)
  BY <1>2 DEF SameChannel
<1>5. QED
  BY <1>1, <1>3, <1>4

LEMMA NamesGo ==
  ASSUME NEW c, NEW device, NEW named, NEW ok, NEW refused
  PROVE  /\ SameChannel(c, ScanBegun(c))
         /\ SameChannel(c, ScanCancelled(c))
         /\ SameChannel(c, InquiryResult(c, device, named, TRUE))
         /\ SameChannel(c, InquiryComplete(c, refused))
         /\ SameChannel(c, NameArrived(c, device, ok, refused))
         /\ SameChannel(c, CodeShown(c, device))
         /\ SameChannel(c, DescriptorAvailable(c, ok))
<1>1. SameChannel(c, ScanBegun(c))
  BY DEF SameChannel, ScanBegun
<1>2. SameChannel(c, ScanCancelled(c))
  BY DEF SameChannel, ScanCancelled
<1>3. SameChannel(c, InquiryResult(c, device, named, TRUE))
  BY DEF SameChannel, InquiryResult
<1>4. SameChannel(c, InquiryComplete(c, refused))
  <2> DEFINE over == [c EXCEPT !.inquiry = FALSE]
  <2>1. SameChannel(c, over) /\ SameChannel(c, c)
    BY DEF SameChannel
  <2>2. SameChannel(over, AskNextName(over, refused))
    BY AskNextNameGoes
  <2> HIDE DEF over
  <2>3. SameChannel(c, AskNextName(over, refused))
    BY <2>1, <2>2 DEF SameChannel
  <2>4. InquiryComplete(c, refused) \in {c, AskNextName(over, refused)}
    BY Zenon DEF InquiryComplete, over
  <2>5. QED
    BY <2>1, <2>3, <2>4
<1>5. SameChannel(c, NameArrived(c, device, ok, refused))
  <2> DEFINE answered == [c EXCEPT !.nameAsked = FALSE]
             knowing == [answered EXCEPT
                !.nameKnown = IF ok /\ c.naming = device THEN @ \cup {device} ELSE @]
             naming == [answered EXCEPT !.named = @ \/ (ok /\ c.connected = device)]
  <2>1. SameChannel(c, answered)
    BY DEF SameChannel
  <2>2. NameArrived(c, device, ok, refused) \in {AskNextName(knowing, refused), naming}
    BY Zenon DEF NameArrived
  <2> HIDE DEF answered
  <2>3. SameChannel(c, naming)
    BY <2>1 DEF SameChannel
  <2>4. SameChannel(c, knowing)
    BY <2>1 DEF SameChannel
  <2>5. SameChannel(knowing, AskNextName(knowing, refused))
    BY AskNextNameGoes
  <2> HIDE DEF knowing, naming
  <2>6. SameChannel(c, AskNextName(knowing, refused))
    BY <2>4, <2>5 DEF SameChannel
  <2>7. QED
    BY <2>2, <2>3, <2>6
<1>6. SameChannel(c, CodeShown(c, device))
  BY DEF SameChannel, CodeShown
<1>7. SameChannel(c, DescriptorAvailable(c, ok))
  BY DEF SameChannel, DescriptorAvailable
<1>8. QED
  BY <1>1, <1>2, <1>3, <1>4, <1>5, <1>6, <1>7

(* The channel opens, carries reports and closes.                          *)
LEMMA ChannelOpenedGoes ==
  ASSUME NEW c, ClassicTracked(c), c.link = "opening", NEW ok \in BOOLEAN
  PROVE  ClassicGoes(c, ChannelOpened(c, ok))
<1>1. c.cid /\ Rested(c.keys) /\ c.keys \in GoodKeys
  BY DEF ClassicTracked
<1>2. CASE ok
  <2> DEFINE u == [c EXCEPT !.link = "up", !.cid = TRUE, !.connected = c.peer,
                     !.connecting = FALSE, !.pairing = FALSE, !.descriptor = FALSE,
                     !.named = c.targetNamed, !.nameAsked = @ \/ ~c.targetNamed]
             d == [u EXCEPT !.target = NoDevice, !.targetNamed = FALSE,
                            !.code = FALSE, !.deadline = FALSE]
  <2>1. /\ {"link", "cid", "connecting", "keys"} \subseteq DOMAIN u
        /\ u.link = "up" /\ u.keys = c.keys /\ u.cid /\ ~u.connecting
    BY DEF ClassicTracked
  <2>2. ChannelOpened(c, ok) = d
    BY <1>2, Zenon DEF ChannelOpened, ClearTarget
  <2> HIDE DEF u
  <2>3. /\ {"link", "cid", "connecting", "keys"} \subseteq DOMAIN d
        /\ d.link = "up" /\ d.keys = c.keys /\ d.cid /\ ~d.connecting
    BY <2>1
  <2> HIDE DEF d
  <2>4. ClassicTracked(d)
    BY <1>1, <2>3 DEF ClassicTracked
  <2>5. QED
    BY <2>2, <2>4 DEF ClassicGoes
<1>3. CASE ~ok
  <2> DEFINE n == [c EXCEPT !.link = "none"]
  <2>1. /\ {"link", "cid", "connecting", "keys"} \subseteq DOMAIN n
        /\ n.link = "none" /\ n.keys = c.keys
    BY DEF ClassicTracked
  <2>2. ChannelOpened(c, ok) = FinishConnectFailure(n)
    BY <1>3 DEF ChannelOpened
  <2> HIDE DEF n
  <2>3. ClassicGoes(n, FinishConnectFailure(n))
    BY <1>1, <2>1, FinishConnectFailureGoes
  <2>4. QED
    BY <2>2, <2>3 DEF ClassicGoes
<1>4. QED
  BY <1>2, <1>3

LEMMA ChannelClosedGoes ==
  ASSUME NEW c, ClassicTracked(c)
  PROVE  ClassicGoes(c, ChannelClosed(c))
<1> DEFINE keys == KeysReset(c.keys)
           d == ChannelClosed(c)
<1>1. keys \in GoodKeys /\ Rested(keys)
  BY ResetIsGood DEF ClassicTracked, GoodKeys
<1>2. /\ {"link", "cid", "connecting", "keys"} \subseteq DOMAIN d
      /\ d.link = "none" /\ d.keys = keys /\ ~d.cid /\ ~d.connecting
  BY DEF ChannelClosed, ClassicTracked
<1> HIDE DEF d, keys
<1>3. ClassicGoes(c, d)
  BY <1>1, <1>2 DEF ClassicTracked, ClassicGoes
<1>4. QED
  BY <1>3 DEF d

LEMMA ClassicResetKeeps ==
  ASSUME NEW c, ClassicTracked(c)
  PROVE  LET d == ClassicReset(c)
         IN  /\ {"link", "cid", "connecting", "keys"} \subseteq DOMAIN d
             /\ d.link = c.link /\ ~d.cid /\ ~d.connecting
             /\ d.keys \in GoodKeys /\ Rested(d.keys)
<1> DEFINE keys == KeysReset(c.keys)
           r == [c EXCEPT !.inquiry = FALSE, !.scan = FALSE, !.naming = NoDevice,
                   !.connecting = FALSE, !.pairing = FALSE, !.cid = FALSE,
                   !.descriptor = FALSE, !.connected = NoDevice, !.named = FALSE,
                   !.keys = keys]
           d == [r EXCEPT !.target = NoDevice, !.targetNamed = FALSE,
                          !.code = FALSE, !.deadline = FALSE]
<1>1. keys \in GoodKeys /\ Rested(keys)
  BY ResetIsGood DEF ClassicTracked, GoodKeys
<1>2. ClassicReset(c) = d
  BY DEF ClassicReset, ClearTarget
<1> HIDE DEF keys
<1>3. /\ {"link", "cid", "connecting", "keys"} \subseteq DOMAIN r
      /\ r.link = c.link /\ ~r.cid /\ ~r.connecting /\ r.keys = keys
  BY DEF ClassicTracked
<1> HIDE DEF r
<1>4. /\ {"link", "cid", "connecting", "keys"} \subseteq DOMAIN d
      /\ d.link = c.link /\ ~d.cid /\ ~d.connecting /\ d.keys = keys
  BY <1>3
<1>5. QED
  BY <1>1, <1>2, <1>4

LEMMA ClassicEnabledGoes ==
  ASSUME NEW c, ClassicTracked(c), c.link = "none"
  PROVE  ClassicGoes(c, ClassicEnabled(c))
<1> DEFINE d == ClassicReset(c)
<1>1. /\ {"link", "cid", "connecting", "keys"} \subseteq DOMAIN d
      /\ d.link = c.link /\ ~d.cid /\ ~d.connecting
      /\ d.keys \in GoodKeys /\ Rested(d.keys)
  BY ClassicResetKeeps
<1>2. ClassicEnabled(c) = d
  BY DEF ClassicEnabled
<1> HIDE DEF d
<1>3. QED
  BY <1>1, <1>2 DEF ClassicTracked, ClassicGoes

LEMMA ClassicDisabledGoes ==
  ASSUME NEW c, ClassicTracked(c)
  PROVE  ClassicGoes(c, ClassicDisabled(c)) /\ ClassicDisabled(c).link = "none"
<1> DEFINE r == ClassicReset(c)
           d == [r EXCEPT !.link = "none", !.nameAsked = FALSE]
<1>1. /\ {"link", "cid", "connecting", "keys"} \subseteq DOMAIN r
      /\ r.link = c.link /\ ~r.cid /\ ~r.connecting
      /\ r.keys \in GoodKeys /\ Rested(r.keys)
  BY ClassicResetKeeps
<1>2. ClassicDisabled(c) = d
  BY DEF ClassicDisabled
<1> HIDE DEF r
<1>3. /\ {"link", "cid", "connecting", "keys"} \subseteq DOMAIN d
      /\ d.link = "none" /\ ~d.cid /\ ~d.connecting /\ d.keys = r.keys
  BY <1>1
<1> HIDE DEF d
<1>4. QED
  BY <1>1, <1>2, <1>3 DEF ClassicTracked, ClassicGoes

LEMMA DisconnectAddressGoes ==
  ASSUME NEW c, ClassicTracked(c), NEW device
  PROVE  ClassicGoes(c, DisconnectAddress(c, device))
<1> DEFINE link == IF c.link \in {"opening", "up"} THEN "closing" ELSE c.link
           d == [c EXCEPT !.link = link]
<1>1. DisconnectAddress(c, device) \in {c, d}
  BY DEF DisconnectAddress, CloseChannel
<1>2. /\ {"link", "cid", "connecting", "keys"} \subseteq DOMAIN d
      /\ d.link = link /\ d.cid = c.cid /\ d.connecting = c.connecting /\ d.keys = c.keys
  BY DEF ClassicTracked
<1> HIDE DEF d
<1>3. ClassicGoes(c, d) /\ ClassicGoes(c, c)
  BY <1>2 DEF ClassicTracked, ClassicGoes
<1>4. QED
  BY <1>1, <1>3

LEMMA ClassicServicedGoes ==
  ASSUME NEW c, ClassicTracked(c), NEW late \in BOOLEAN
  PROVE  ClassicGoes(c, ClassicServiced(c, late))
  BY FailedGoes DEF ClassicServiced, ClassicGoes

LEMMA AuthenticationGoes ==
  ASSUME NEW c, ClassicTracked(c), NEW ok \in BOOLEAN
  PROVE  ClassicGoes(c, AuthenticationComplete(c, ok))
  BY FailedGoes DEF AuthenticationComplete, ClassicGoes

LEMMA ClassicKeysGo ==
  ASSUME NEW c, ClassicTracked(c), NEW keys \in GoodKeys,
         c.link \in {"none", "opening"} => Rested(keys)
  PROVE  ClassicGoes(c, [c EXCEPT !.keys = keys])
<1> DEFINE d == [c EXCEPT !.keys = keys]
<1>1. /\ {"link", "cid", "connecting", "keys"} \subseteq DOMAIN d
      /\ d.link = c.link /\ d.cid = c.cid /\ d.connecting = c.connecting /\ d.keys = keys
  BY DEF ClassicTracked
<1> HIDE DEF d
<1>2. ClassicGoes(c, d)
  BY <1>1 DEF ClassicTracked, ClassicGoes
<1>3. QED
  BY <1>2 DEF d

LEMMA ClassicReportGoes ==
  ASSUME NEW c, ClassicTracked(c), c.link = "up",
         NEW usages \in {<<>>, <<"letter">>, <<"enter", "cursor">>}
  PROVE  ClassicGoes(c, ClassicReport(c, usages))
<1> DEFINE keys == KeyReport(c.keys, FALSE, FALSE, usages)
<1>1. ClassicReport(c, usages) \in {c, [c EXCEPT !.keys = keys]}
  BY DEF ClassicReport
<1>2. keys \in GoodKeys
  BY ReadUsages, ReportFollows DEF ClassicTracked, GoodKeys
<1> HIDE DEF keys
<1>3. ClassicGoes(c, [c EXCEPT !.keys = keys])
  BY <1>2, ClassicKeysGo
<1>4. QED
  BY <1>1, <1>3 DEF ClassicGoes

LEMMA ClassicTakenGoes ==
  ASSUME NEW c, ClassicTracked(c), NEW due \in BOOLEAN
  PROVE  ClassicGoes(c, [c EXCEPT !.keys = KeyTaken(@, due)])
<1> DEFINE keys == KeyTaken(c.keys, due)
<1>1. c.keys \in GoodKeys /\ (c.link \in {"none", "opening"} => Rested(c.keys))
  BY DEF ClassicTracked
<1>2. keys \in GoodKeys /\ (Rested(c.keys) => keys = c.keys)
  BY <1>1, TakenFollows
<1>3. [c EXCEPT !.keys = KeyTaken(@, due)] = [c EXCEPT !.keys = keys]
  OBVIOUS
<1> HIDE DEF keys
<1>4. ClassicGoes(c, [c EXCEPT !.keys = keys])
  BY <1>1, <1>2, ClassicKeysGo
<1>5. QED
  BY <1>3, <1>4

-----------------------------------------------------------------------------
(* Both drivers and the power of the radio.  With the power gone no link   *)
(* is left, so nothing that happens then may start one.                    *)
BtInv ==
  /\ BleTracked(ble)
  /\ ClassicTracked(classic)
  /\ hci = "off" => ble.link = "none" /\ classic.link = "none"

LEMMA BtStarts ==
  ASSUME BtInit
  PROVE  BtInv
<1>1. ble = BleAtRest /\ classic = ClassicAtRest
  BY DEF BtInit
<1>2. KeyboardAtRest \in GoodKeys /\ Rested(KeyboardAtRest)
  BY AtRestIsGood DEF Rested, KeysReset, KeyboardAtRest
<1>3. BleTracked(BleAtRest) /\ BleAtRest.link = "none"
  BY <1>2 DEF BleTracked, BleAtRest, LinkOf, BleStates
<1>4. ClassicTracked(ClassicAtRest) /\ ClassicAtRest.link = "none"
  BY <1>2 DEF ClassicTracked, ClassicAtRest
<1>5. QED
  BY <1>1, <1>3, <1>4 DEF BtInv

(* A step whose drivers go where they may.                                 *)
LEMMA BothGo ==
  ASSUME BtInv, BleGoes(ble, ble') \/ (BleTracked(ble') /\ hci' # "off"),
         ClassicGoes(classic, classic') \/ (ClassicTracked(classic') /\ hci' # "off"),
         hci' = "off" => hci = "off"
  PROVE  BtInv'
  BY DEF BtInv, BleGoes, ClassicGoes

LEMMA BleStepKeeps ==
  ASSUME BtInv, NEW b, BleGoes(ble, b), BleStep(b)
  PROVE  BtInv'
<1>1. ble' = b /\ classic' = classic /\ hci' = hci
  BY DEF BleStep
<1>2. QED
  BY <1>1, BothGo DEF BtInv, ClassicGoes

LEMMA ClassicStepKeeps ==
  ASSUME BtInv, NEW c, ClassicGoes(classic, c), ClassicStep(c)
  PROVE  BtInv'
<1>1. classic' = c /\ ble' = ble /\ hci' = hci
  BY DEF ClassicStep
<1>2. QED
  BY <1>1, BothGo DEF BtInv, BleGoes

(* The program's calls, for either keyboard and both.                      *)
LEMMA ManagerSteps ==
  ASSUME BtInv,
         \/ Enable \/ Disable \/ StackWorking \/ ServiceInTime \/ ServiceLate \/ ForgetAll
         \/ ReadKeys
         \/ \E d \in LeKeyboards : ForgetBle(d)
         \/ \E d \in ClassicKeyboards : ForgetClassic(d)
  PROVE  BtInv'
<1> USE DEF BtInv
<1>1. CASE Enable
  <2>1. BleGoes(ble, ble') /\ ClassicGoes(classic, classic') /\ hci' = "starting"
    BY <1>1, BleEnabledGoes, ClassicEnabledGoes DEF Enable
  <2>2. QED
    BY <2>1, BothGo
<1>2. CASE Disable
  BY <1>2, BleDisabledGoes, ClassicDisabledGoes DEF Disable, BleGoes, ClassicGoes
<1>3. CASE StackWorking
  <2>1. PICK accepted \in BOOLEAN : classic' = AutoReconnected(classic, accepted)
    BY <1>3 DEF StackWorking
  <2>2. ClassicTracked(classic')
    <3> DEFINE device == CHOOSE d \in Reconnectable : TRUE
               taken == accepted /\ RadioFree
    <3>1. \/ classic' = classic
          \/ ~classic.cid /\ classic' = BeginConnect(classic, device, FALSE, TRUE, taken)
      BY <2>1 DEF AutoReconnected
    <3>2. taken \in BOOLEAN
      OBVIOUS
    <3> HIDE DEF device, taken
    <3>3. QED
      BY <3>1, <3>2, BeginConnectGoes
  <2>3. QED
    BY <1>3, <2>2, BothGo DEF StackWorking, BleGoes
<1>4. CASE ServiceInTime \/ ServiceLate
  <2>1. PICK late \in BOOLEAN : Service(late)
    BY <1>4 DEF ServiceInTime, ServiceLate
  <2>2. PICK accepted \in BOOLEAN :
          /\ classic' = ClassicServiced(classic, late)
          /\ ble' = BleServiced(ble, late, accepted)
          /\ hci' = hci
    BY <2>1 DEF Service
  <2>3. QED
    BY <2>2, BleServicedGoes, ClassicServicedGoes, BothGo
<1>5. CASE ForgetAll
  <2>1. BleGoes(ble, ble') /\ ClassicGoes(classic, classic') /\ hci' = hci
    BY <1>5, DisconnectGoes, DisconnectAddressGoes DEF ForgetAll
  <2>2. QED
    BY <2>1, BothGo
<1>6. CASE ReadKeys
  <2>1. PICK due \in BOOLEAN :
          /\ classic' = [classic EXCEPT !.keys = KeyTaken(@, due)]
          /\ ble' = [ble EXCEPT !.keys = KeyTaken(@, due)]
          /\ hci' = hci
    BY <1>6 DEF ReadKeys
  <2>2. BleGoes(ble, ble') /\ ClassicGoes(classic, classic')
    BY <2>1, BleTakenGoes, ClassicTakenGoes
  <2>3. QED
    BY <2>1, <2>2, BothGo
<1>7. CASE \E d \in LeKeyboards : ForgetBle(d)
  <2>1. BleGoes(ble, ble') /\ classic' = classic /\ hci' = hci
    BY <1>7, DisconnectGoes DEF ForgetBle, BleGoes
  <2>2. QED
    BY <2>1, BothGo DEF ClassicGoes
<1>8. CASE \E d \in ClassicKeyboards : ForgetClassic(d)
  <2>1. ClassicGoes(classic, classic') /\ ble' = ble /\ hci' = hci
    BY <1>8, DisconnectAddressGoes DEF ForgetClassic
  <2>2. QED
    BY <2>1, BothGo DEF BleGoes
<1>9. QED
  BY <1>1, <1>2, <1>3, <1>4, <1>5, <1>6, <1>7, <1>8

LEMMA BleSteps ==
  ASSUME BtInv,
         \/ BleCancelConnect \/ BleDisconnect \/ BleCallAnswered \/ BleLinkEnds
         \/ BleLinkDrops \/ BleShowsCode \/ BlePairingEnds \/ BleHidsAnswers
         \/ BleHidsLost \/ BleReports \/ BleQueryTaken \/ BleQueryResult
         \/ BleQueryCompletes
         \/ \E d \in LeKeyboards, fresh \in BOOLEAN : BleConnect(d, fresh)
         \/ BleScan \/ BleStopScan
         \/ \E d \in LeKeyboards, hint \in BOOLEAN : BleHears(d, hint)
  PROVE  BtInv'
<1>1. BleTracked(ble)
  BY DEF BtInv
<1>2. BluetoothEnabled \in BOOLEAN
  BY DEF BluetoothEnabled
<1>3. CASE BleCancelConnect
  BY <1>1, <1>3, ConnectCancelledGoes, BleStepKeeps DEF BleCancelConnect
<1>4. CASE BleDisconnect
  BY <1>1, <1>4, DisconnectGoes, BleStepKeeps DEF BleDisconnect
<1>5. CASE BleCallAnswered
  BY <1>1, <1>2, <1>5, LeConnectionCompleteGoes, BleStepKeeps DEF BleCallAnswered
<1>6. CASE BleLinkEnds
  BY <1>1, <1>2, <1>6, LeDisconnectionCompleteGoes, BleStepKeeps DEF BleLinkEnds
<1>7. CASE BleLinkDrops
  BY <1>1, <1>2, <1>7, LeDisconnectionCompleteGoes, BleStepKeeps DEF BleLinkDrops
<1>8. CASE BleShowsCode
  BY <1>1, <1>8, PasskeyShownGoes, BleStepKeeps DEF BleShowsCode
<1>9. CASE BlePairingEnds
  <2>1. PICK ok \in BOOLEAN, accepted \in BOOLEAN : ble' = PairingEnded(ble, ok, accepted)
    BY <1>9 DEF BlePairingEnds
  <2>2. BleGoes(ble, ble')
    BY <1>1, <1>9, <2>1, PairingEndedGoes DEF BlePairingEnds
  <2>3. QED
    BY <1>9, <2>2, BothGo DEF BlePairingEnds, BtInv, ClassicGoes
<1>10. CASE BleHidsAnswers
  BY <1>1, <1>10, HidsConnectedGoes, BleStepKeeps DEF BleHidsAnswers
<1>11. CASE BleHidsLost
  BY <1>1, <1>11, HidsDisconnectedGoes, BleStepKeeps DEF BleHidsLost
<1>12. CASE BleReports
  BY <1>1, <1>12, BleReportGoes, BleStepKeeps DEF BleReports
<1>13. CASE BleQueryTaken
  BY <1>1, <1>13, QueryTakenGoes, BleStepKeeps DEF BleQueryTaken
<1>14. CASE BleQueryResult
  BY <1>1, <1>14, QueryResultGoes, BleStepKeeps DEF BleQueryResult
<1>15. CASE BleQueryCompletes
  BY <1>1, <1>15, QueryCompleteGoes, BleStepKeeps DEF BleQueryCompletes
<1>16. CASE \E d \in LeKeyboards, fresh \in BOOLEAN : BleConnect(d, fresh)
  <2>1. PICK d \in LeKeyboards, accepted \in BOOLEAN :
          ble' = ConnectAsked(ble, d, accepted /\ RadioFree)
    BY <1>16 DEF BleConnect
  <2>2. ble.link = "none"
    BY <1>1, <1>16, UpStates DEF BleConnect, BleBusy, BleTracked, BleStates
  <2>3. (accepted /\ RadioFree) \in BOOLEAN
    OBVIOUS
  <2>4. BleTracked(ble')
    BY <1>1, <2>1, <2>2, <2>3, ConnectAskedGoes
  <2>5. QED
    BY <1>16, <2>4, BothGo DEF BleConnect, BtInv, ClassicGoes
<1>17. CASE BleScan
  BY <1>1, <1>17, ScanStartedGoes, BothGo DEF BleScan, BtInv, ClassicGoes
<1>18. CASE BleStopScan
  BY <1>1, <1>18, ScanStoppedGoes, BleStepKeeps DEF BleStopScan
<1>19. CASE \E d \in LeKeyboards, hint \in BOOLEAN : BleHears(d, hint)
  BY <1>1, <1>19, AdvertisedGoes, BothGo DEF BleHears, BtInv, ClassicGoes
<1>20. QED
  BY <1>3, <1>4, <1>5, <1>6, <1>7, <1>8, <1>9, <1>10, <1>11, <1>12, <1>13, <1>14,
     <1>15, <1>16, <1>17, <1>18, <1>19

LEMMA ClassicSteps ==
  ASSUME BtInv,
         \/ ClassicCancelConnect \/ ClassicDisconnect \/ ClassicAuthenticates
         \/ ClassicOpens \/ ClassicDescriptor \/ ClassicReports \/ ClassicLinkEnds
         \/ ClassicLinkDrops
         \/ \E d \in ClassicKeyboards :
              \/ ClassicNameArrives(d) \/ ClassicShowsCode(d)
              \/ ClassicLinkKey(d) \/ ClassicCallsIn(d) \/ ClassicFinds(d)
         \/ \E d \in ClassicKeyboards, pairing \in BOOLEAN : ClassicConnect(d, pairing)
         \/ ClassicScan \/ ClassicStopScan \/ ClassicInquiryEnds
  PROVE  BtInv'
<1>1. ClassicTracked(classic)
  BY DEF BtInv
<1>2. CASE ClassicCancelConnect
  BY <1>1, <1>2, FailedGoes, ClassicStepKeeps DEF ClassicCancelConnect
<1>3. CASE ClassicDisconnect
  BY <1>1, <1>3, DisconnectAddressGoes, ClassicStepKeeps DEF ClassicDisconnect
<1>4. CASE ClassicAuthenticates
  BY <1>1, <1>4, AuthenticationGoes, ClassicStepKeeps DEF ClassicAuthenticates
<1>5. CASE ClassicOpens
  BY <1>1, <1>5, ChannelOpenedGoes, ClassicStepKeeps DEF ClassicOpens
<1>6. CASE ClassicDescriptor
  BY <1>1, <1>6, NamesGo, SameChannelGoes, ClassicStepKeeps DEF ClassicDescriptor
<1>7. CASE ClassicReports
  BY <1>1, <1>7, ClassicReportGoes, ClassicStepKeeps DEF ClassicReports
<1>8. CASE ClassicLinkEnds
  BY <1>1, <1>8, ChannelClosedGoes, ClassicStepKeeps DEF ClassicLinkEnds
<1>9. CASE ClassicLinkDrops
  BY <1>1, <1>9, ChannelClosedGoes, ClassicStepKeeps DEF ClassicLinkDrops
<1>10. CASE \E d \in ClassicKeyboards : ClassicNameArrives(d)
  BY <1>1, <1>10, NamesGo, SameChannelGoes, ClassicStepKeeps DEF ClassicNameArrives
<1>11. CASE \E d \in ClassicKeyboards : ClassicShowsCode(d)
  BY <1>1, <1>11, NamesGo, SameChannelGoes, ClassicStepKeeps DEF ClassicShowsCode
<1>12. CASE \E d \in ClassicKeyboards : ClassicLinkKey(d)
  BY <1>1, <1>12 DEF ClassicLinkKey, BtInv
<1>13. CASE \E d \in ClassicKeyboards : ClassicCallsIn(d)
  <2>1. PICK d \in ClassicKeyboards : ClassicCallsIn(d)
    BY <1>13
  <2>2. /\ classic' = IncomingAccepted(classic, d, TRUE) /\ classic.link = "none"
        /\ ble' = ble /\ hci' = hci /\ hci = "working"
    BY <2>1 DEF ClassicCallsIn, ClassicStep, RadioFree
  <2>3. QED
    BY <1>1, <2>2, IncomingGoes, BothGo DEF BtInv, BleGoes
<1>14. CASE \E d \in ClassicKeyboards : ClassicFinds(d)
  BY <1>1, <1>14, NamesGo, SameChannelGoes, ClassicStepKeeps DEF ClassicFinds
<1>15. CASE \E d \in ClassicKeyboards, pairing \in BOOLEAN : ClassicConnect(d, pairing)
  <2>1. PICK d \in ClassicKeyboards, pairing \in BOOLEAN, accepted \in BOOLEAN :
          /\ ~classic.cid /\ hci # "off" /\ ble' = ble /\ hci' = hci
          /\ classic' = BeginConnect(classic, d, pairing, ~pairing \/ d \in classic.nameKnown,
                                     accepted /\ RadioFree)
    BY <1>15 DEF ClassicConnect, ClassicStep, BluetoothEnabled, MayConnectClassic
  <2>2. (accepted /\ RadioFree) \in BOOLEAN
    OBVIOUS
  <2>3. ClassicTracked(classic')
    BY <1>1, <2>1, <2>2, BeginConnectGoes
  <2>4. QED
    BY <2>1, <2>3, BothGo DEF BtInv, BleGoes
<1>16. CASE ClassicScan
  BY <1>1, <1>16, NamesGo, SameChannelGoes, ClassicStepKeeps DEF ClassicScan
<1>17. CASE ClassicStopScan
  BY <1>1, <1>17, NamesGo, SameChannelGoes, ClassicStepKeeps DEF ClassicStopScan
<1>18. CASE ClassicInquiryEnds
  BY <1>1, <1>18, NamesGo, SameChannelGoes, ClassicStepKeeps DEF ClassicInquiryEnds
<1>19. QED
  BY <1>2, <1>3, <1>4, <1>5, <1>6, <1>7, <1>8, <1>9, <1>10, <1>11, <1>12, <1>13, <1>14,
     <1>15, <1>16, <1>17, <1>18

LEMMA BtSteps ==
  ASSUME BtInv, [BtNext]_btVars
  PROVE  BtInv'
<1>1. CASE UNCHANGED btVars
  BY <1>1 DEF btVars, BtInv
<1>2. CASE BtNext
  BY <1>2, ManagerSteps, BleSteps, ClassicSteps DEF BtNext, LinkNext, ScanNext
<1>3. QED
  BY <1>1, <1>2

LEMMA BtAlways == BtSpec => []BtInv
  BY BtStarts, BtSteps, PTL DEF BtSpec

(* LinksTracked: the drivers and the radio never lose each other, whatever *)
(* is connected, cancelled, dropped, refused or powered down.              *)
THEOREM LinksAreTracked == BtSpec => []LinksTracked
<1>1. BtInv => LinksTracked
  <2> SUFFICES ASSUME BtInv PROVE LinksTracked
    OBVIOUS
  <2>1. BleTracked(ble) /\ ClassicTracked(classic)
    BY DEF BtInv
  <2>2. /\ ble.handle <=> ble.link \in {"up", "closing"}
        /\ ble.state = "Connecting" => ble.link = "calling"
        /\ ble.state = "CancellingConnect" => ble.link = "cancelling"
        /\ ble.state = "Disconnecting" => ble.link = "closing"
        /\ ble.link = "calling" => ble.state = "Connecting"
    BY <2>1, UpStates
  <2>3. QED
    BY <2>1, <2>2 DEF LinksTracked, ClassicTracked
<1>2. QED
  BY <1>1, BtAlways, PTL

(* NoKeysWithoutLink: what was held or waiting on a keyboard whose link is *)
(* gone types nothing more.                                                *)
THEOREM NoKeysAreStuck == BtSpec => []NoKeysWithoutLink
<1>1. BtInv => NoKeysWithoutLink
  <2> SUFFICES ASSUME BtInv PROVE NoKeysWithoutLink
    OBVIOUS
  <2>1. BleTracked(ble) /\ ClassicTracked(classic)
    BY DEF BtInv
  <2>2. QED
    BY <2>1 DEF NoKeysWithoutLink, BleTracked, ClassicTracked, Rested, GoodKeys
<1>2. QED
  BY <1>1, BtAlways, PTL

-----------------------------------------------------------------------------
(* The list of keyboards to pair.  The table of advertisements is built by *)
(* recursion over the old one, so first: induction over sets of numbers.   *)

LEMMA LeastElement ==
  ASSUME NEW T, T \subseteq Nat, T # {}
  PROVE  \E m \in T : \A k \in T : m <= k
<1>1. PICK m \in T : \A k \in T : <<k, m>> \notin OpToRel(<, Nat)
  BY NatLessThanWellFounded, WFMin
<1>2. \A k \in T : k \in Nat /\ ~(k < m)
  BY <1>1 DEF OpToRel
<1>3. \A k \in T : m <= k
  BY <1>2
<1>4. QED
  BY <1>3

LEMMA SetInduction ==
  ASSUME NEW L \in Nat, NEW S, 0 \in S, \A n \in 0..(L - 1) : n \in S => n + 1 \in S
  PROVE  0..L \subseteq S
<1> DEFINE T == {n \in 0..L : n \notin S}
<1> SUFFICES ASSUME T # {} PROVE FALSE
  OBVIOUS
<1>1. T \subseteq Nat
  OBVIOUS
<1>2. PICK m \in T : \A k \in T : m <= k
  BY <1>1, LeastElement
<1>3. m # 0 /\ m - 1 \in 0..(L - 1)
  OBVIOUS
<1>4. m - 1 \in S
  BY <1>2, <1>3
<1>5. QED
  BY <1>3, <1>4

Found == [device : LeKeyboards, hint : BOOLEAN]

(* What a new scan keeps of the table is a table.                          *)
LEMMA KeptIsFound ==
  ASSUME NEW s \in Seq(Found)
  PROVE  KnownKeyboards(s) \in Seq(Found)
<1> DEFINE L == Len(s)
           Step(q, i) == IF s[i].hint THEN Append(q, s[i]) ELSE q
           F(f) == [i \in 0..L |->
                      IF i = 0 THEN <<>>
                      ELSE IF s[i].hint THEN Append(f[i - 1], s[i]) ELSE f[i - 1]]
           kept == CHOOSE f : f = F(f)
           Part(n, f) == /\ f \in [0..n -> Seq(Found)] /\ f[0] = <<>>
                         /\ \A i \in 1..n : f[i] = Step(f[i - 1], i)
           N == {n \in 0..L : \E f : Part(n, f)}
<1>1. L \in Nat
  OBVIOUS
<1>2. ASSUME NEW q \in Seq(Found), NEW i \in 1..L
      PROVE  Step(q, i) \in Seq(Found)
  <2>1. s[i] \in Found
    OBVIOUS
  <2>2. QED
    BY <2>1
<1>3. KnownKeyboards(s) = kept[L]
  BY DEF KnownKeyboards
<1>4. 0 \in N
  <2> DEFINE f == [i \in 0..0 |-> <<>>]
  <2>1. <<>> \in Seq(Found)
    OBVIOUS
  <2>2. f \in [0..0 -> Seq(Found)] /\ f[0] = <<>>
    BY <2>1
  <2> HIDE DEF f, Step
  <2>3. Part(0, f)
    BY <2>2
  <2>4. 0 \in 0..L
    BY <1>1
  <2>5. QED
    BY <2>3, <2>4
<1>5. ASSUME NEW n \in 0..(L - 1), n \in N
      PROVE  n + 1 \in N
  <2>1. PICK f : Part(n, f)
    BY <1>5
  <2> DEFINE e == Step(f[n], n + 1)
             g == [i \in 0..(n + 1) |-> IF i <= n THEN f[i] ELSE e]
  <2>2. n \in Nat /\ n + 1 \in 1..L /\ n \in 0..n
    BY <1>1
  <2>3. e \in Seq(Found)
    <3>1. f[n] \in Seq(Found)
      BY <2>1, <2>2
    <3> HIDE DEF Step
    <3>2. QED
      BY <1>2, <2>2, <3>1
  <2>4. e = Step(f[n], n + 1)
    OBVIOUS
  <2> HIDE DEF e, Step
  <2>5. g \in [0..(n + 1) -> Seq(Found)] /\ g[0] = <<>>
    BY <2>1, <2>2, <2>3
  <2>6. ASSUME NEW i \in 1..(n + 1)
        PROVE  g[i] = Step(g[i - 1], i)
    <3>1. CASE i <= n
      <4>1. g[i] = f[i] /\ g[i - 1] = f[i - 1] /\ i \in 1..n
        BY <2>2, <3>1
      <4>2. QED
        BY <2>1, <4>1
    <3>2. CASE i = n + 1
      <4>1. g[i] = e /\ g[i - 1] = f[n]
        BY <2>2, <3>2
      <4>2. QED
        BY <2>4, <3>2, <4>1
    <3>3. QED
      BY <2>2, <3>1, <3>2
  <2> HIDE DEF g
  <2>7. Part(n + 1, g)
    BY <2>5, <2>6
  <2>8. n + 1 \in 0..L
    BY <2>2
  <2>9. QED
    BY <2>7, <2>8
<1>6. L \in N
  <2> HIDE DEF N, L
  <2>1. 0..L \subseteq N
    BY <1>1, <1>4, <1>5, SetInduction
  <2>2. QED
    BY <1>1, <2>1
<1>7. PICK f : Part(L, f)
  BY <1>6
<1>8. f = F(f)
  <2> HIDE DEF L
  <2>1. ASSUME NEW i \in 0..L
        PROVE  f[i] = IF i = 0 THEN <<>>
                      ELSE IF s[i].hint THEN Append(f[i - 1], s[i]) ELSE f[i - 1]
    <3>1. CASE i = 0
      BY <1>7, <3>1
    <3>2. CASE i # 0
      <4>1. i \in 1..L
        BY <1>1, <3>2
      <4>2. QED
        BY <1>7, <3>2, <4>1
    <3>3. QED
      BY <3>1, <3>2
  <2>2. f = [i \in 0..L |-> f[i]]
    BY <1>7
  <2>3. QED
    BY <2>1, <2>2, Zenon
<1>9. kept = F(kept)
  <2> HIDE DEF F
  <2>1. QED
    BY <1>8
<1> HIDE DEF kept
<1>10. kept[0] = <<>> /\ \A i \in 1..L : kept[i] = Step(kept[i - 1], i)
  <2> HIDE DEF L
  <2>1. 0 \in 0..L /\ \A i \in 1..L : i \in 0..L /\ i # 0
    BY <1>1
  <2>2. \A i \in 0..L :
          kept[i] = IF i = 0 THEN <<>>
                    ELSE IF s[i].hint THEN Append(kept[i - 1], s[i]) ELSE kept[i - 1]
    BY <1>9, Zenon
  <2>3. QED
    BY <2>1, <2>2
<1> DEFINE M == {n \in 0..L : kept[n] \in Seq(Found)}
<1>11. 0 \in M
  <2>1. <<>> \in Seq(Found)
    OBVIOUS
  <2>2. 0 \in 0..L /\ kept[0] = <<>>
    BY <1>1, <1>10
  <2>3. QED
    BY <2>1, <2>2
<1>12. ASSUME NEW n \in 0..(L - 1), n \in M
       PROVE  n + 1 \in M
  <2>1. n + 1 \in 1..L /\ n + 1 \in 0..L /\ (n + 1) - 1 = n
    BY <1>1
  <2> HIDE DEF Step
  <2>2. kept[n + 1] = Step(kept[n], n + 1)
    BY <1>10, <2>1
  <2>3. Step(kept[n], n + 1) \in Seq(Found)
    BY <1>2, <1>12, <2>1
  <2>4. QED
    BY <2>1, <2>2, <2>3
<1>13. L \in M
  <2> HIDE DEF M, L
  <2>1. 0..L \subseteq M
    BY <1>1, <1>11, <1>12, SetInduction
  <2>2. QED
    BY <1>1, <2>1
<1>14. QED
  BY <1>3, <1>13

(* What the list is made of stays, and no scan begins.                     *)
ListKept(b, c) ==
  /\ {"state", "found", "seen", "full"} \subseteq DOMAIN c
  /\ c.found = b.found /\ c.seen = b.seen /\ c.full = b.full
  /\ c.state = "Scanning" => b.state = "Scanning"

HasList(b) == {"state", "found", "seen", "full"} \subseteq DOMAIN b

LEMMA ListKeptOn ==
  ASSUME NEW a, NEW b, NEW c, ListKept(a, b), ListKept(b, c)
  PROVE  ListKept(a, c)
  BY DEF ListKept

LEMMA RequestsKeepList ==
  ASSUME NEW b, HasList(b)
  PROVE  /\ ListKept(b, ClearGatt(b)) /\ ClearGatt(b).state = b.state
         /\ ListKept(b, HangUp(b)) /\ HangUp(b).state = b.state
         /\ ListKept(b, CancelCall(b)) /\ CancelCall(b).state = b.state
         /\ ListKept(b, MarkReady(b)) /\ ListKept(b, ScanStopped(b))
         /\ ScanStopped(b).state # "Scanning"
<1>1. ListKept(b, ClearGatt(b)) /\ ClearGatt(b).state = b.state
  BY DEF ListKept, HasList, ClearGatt
<1>2. ListKept(b, HangUp(b)) /\ HangUp(b).state = b.state
  BY DEF ListKept, HasList, HangUp
<1>3. ListKept(b, CancelCall(b)) /\ CancelCall(b).state = b.state
  BY DEF ListKept, HasList, CancelCall
<1>4. ListKept(b, MarkReady(b))
  BY DEF ListKept, HasList, MarkReady
<1>5. ListKept(b, ScanStopped(b)) /\ ScanStopped(b).state # "Scanning"
  BY DEF ListKept, HasList, ScanStopped
<1>6. QED
  BY <1>1, <1>2, <1>3, <1>4, <1>5

LEMMA ResetKeepsList ==
  ASSUME NEW b, HasList(b)
  PROVE  ListKept(b, ResetConnection(b)) /\ ResetConnection(b).state = b.state
<1> DEFINE g == ClearGatt(b)
           keys == KeysReset(g.keys)
           c == [g EXCEPT !.hids = FALSE, !.reportMode = FALSE,
                  !.identity = NoDevice, !.handle = FALSE, !.deadline = FALSE,
                  !.code = FALSE, !.query = "none", !.keys = keys]
<1>1. ListKept(b, g) /\ g.state = b.state
  BY RequestsKeepList
<1>2. ResetConnection(b) = c
  BY DEF ResetConnection
<1> HIDE DEF g, keys
<1>3. ListKept(g, c) /\ c.state = g.state
  BY <1>1 DEF ListKept
<1>4. QED
  BY <1>1, <1>2, <1>3 DEF ListKept

LEMMA IdleKeepsList ==
  ASSUME NEW b, HasList(b), NEW enabled
  PROVE  ListKept(b, IdleOrOff(ResetConnection(b), enabled))
<1> DEFINE r == ResetConnection(b)
<1>1. ListKept(b, r)
  BY ResetKeepsList
<1> HIDE DEF r
<1>2. ListKept(r, IdleOrOff(r, enabled))
  BY <1>1 DEF ListKept, IdleOrOff
<1>3. QED
  BY <1>1, <1>2, ListKeptOn DEF r

LEMMA FailKeepsList ==
  ASSUME NEW b, HasList(b)
  PROVE  ListKept(b, FailConnection(b))
<1> DEFINE r == [b EXCEPT !.keys = KeysReset(@), !.code = FALSE]
           g == ClearGatt(r)
           hung == [g EXCEPT !.query = "none", !.state = "Disconnecting"]
           cut == [r EXCEPT !.state = "CancellingConnect"]
           idle == [r EXCEPT !.state = "Idle"]
<1>1. ListKept(b, r)
  BY DEF ListKept, HasList
<1>2. FailConnection(b) \in {HangUp(hung), CancelCall(cut), idle}
  BY DEF FailConnection
<1> HIDE DEF r
<1>3. ListKept(r, g)
  BY <1>1, RequestsKeepList DEF ListKept, HasList
<1> HIDE DEF g
<1>4. ListKept(g, hung)
  BY <1>3 DEF ListKept
<1>5. ListKept(r, cut) /\ ListKept(r, idle)
  BY <1>1 DEF ListKept
<1> HIDE DEF hung, cut, idle
<1>6. ListKept(hung, HangUp(hung)) /\ ListKept(cut, CancelCall(cut))
  BY <1>4, <1>5, RequestsKeepList DEF ListKept, HasList
<1>7. QED
  BY <1>1, <1>2, <1>3, <1>4, <1>5, <1>6, ListKeptOn

LEMMA RequestKeepsList ==
  ASSUME NEW b, HasList(b), NEW accepted
  PROVE  ListKept(b, RequestQuery(b, accepted))
<1>1. ListKept(b, [b EXCEPT !.query = "queued"])
  BY DEF ListKept, HasList
<1>2. QED
  BY <1>1, FailKeepsList DEF RequestQuery

(* Every call and event but the scan's own.                                *)
LEMMA CallsKeepList ==
  ASSUME NEW b, HasList(b), NEW device, NEW accepted, ~BleBusy(b)
  PROVE  ListKept(b, ConnectAsked(b, device, accepted))
<1> DEFINE g == ClearGatt(b)
           keys == KeysReset(g.keys)
           asked == [g EXCEPT !.target = device, !.code = FALSE,
                  !.reportMode = FALSE, !.hids = FALSE, !.keys = keys,
                  !.deadline = TRUE]
           called == [asked EXCEPT !.state = "Connecting", !.link = "calling"]
<1>1. ConnectAsked(b, device, accepted) \in {asked, called}
  BY DEF ConnectAsked
<1>2. ListKept(b, g)
  BY RequestsKeepList
<1> HIDE DEF g, keys
<1>3. ListKept(g, asked)
  BY <1>2 DEF ListKept
<1> HIDE DEF asked
<1>4. ListKept(asked, called)
  BY <1>3 DEF ListKept
<1>5. QED
  BY <1>1, <1>2, <1>3, <1>4, ListKeptOn

LEMMA DisconnectKeepsList ==
  ASSUME NEW b, HasList(b)
  PROVE  ListKept(b, Disconnect(b))
<1> DEFINE quiet == ScanStopped(b)
           cut == [quiet EXCEPT !.state = "CancellingConnect"]
           called == IF quiet.state = "Connecting" THEN CancelCall(cut) ELSE quiet
           g == ClearGatt(called)
           hung == [g EXCEPT !.query = "none", !.state = "Disconnecting"]
           closed == IF called.handle /\ called.state # "Disconnecting"
                     THEN HangUp(hung) ELSE called
           c == [closed EXCEPT !.keys = KeysReset(@)]
<1>1. Disconnect(b) = c
  BY DEF Disconnect
<1>2. ListKept(b, quiet)
  BY RequestsKeepList
<1> HIDE DEF quiet
<1>3. ListKept(quiet, cut)
  BY <1>2 DEF ListKept
<1>4. called \in {CancelCall(cut), quiet}
  OBVIOUS
<1> HIDE DEF cut, called
<1>5. ListKept(cut, CancelCall(cut))
  BY <1>3, RequestsKeepList DEF ListKept, HasList
<1>6. ListKept(b, called)
  BY <1>2, <1>3, <1>4, <1>5, ListKeptOn
<1>7. ListKept(called, g)
  BY <1>6, RequestsKeepList DEF ListKept, HasList
<1> HIDE DEF g
<1>8. ListKept(g, hung)
  BY <1>7 DEF ListKept
<1>9. closed \in {HangUp(hung), called}
  OBVIOUS
<1> HIDE DEF hung, closed
<1>10. ListKept(hung, HangUp(hung))
  BY <1>8, RequestsKeepList DEF ListKept, HasList
<1>11. ListKept(b, closed)
  BY <1>6, <1>7, <1>8, <1>9, <1>10, ListKeptOn
<1>12. ListKept(closed, c)
  BY <1>11 DEF ListKept
<1>13. QED
  BY <1>1, <1>11, <1>12, ListKeptOn

LEMMA CancelKeepsList ==
  ASSUME NEW b, HasList(b)
  PROVE  ListKept(b, ConnectCancelled(b))
<1> DEFINE cut == [b EXCEPT !.state = "CancellingConnect"]
<1>1. ConnectCancelled(b) \in {CancelCall(cut), FailConnection(b), b}
  BY DEF ConnectCancelled
<1>2. ListKept(b, cut) /\ ListKept(b, b)
  BY DEF ListKept, HasList
<1> HIDE DEF cut
<1>3. ListKept(cut, CancelCall(cut))
  BY <1>2, RequestsKeepList DEF ListKept, HasList
<1>4. QED
  BY <1>1, <1>2, <1>3, FailKeepsList, ListKeptOn

LEMMA LinkEventsKeepList ==
  ASSUME NEW b, HasList(b), NEW ok, NEW enabled
  PROVE  /\ ListKept(b, LeConnectionComplete(b, ok, enabled))
         /\ ListKept(b, LeDisconnectionComplete(b, enabled))
<1> DEFINE link == IF ok THEN "up" ELSE "none"
           on == [b EXCEPT !.link = link]
           off == [b EXCEPT !.link = "none"]
           hung == [on EXCEPT !.handle = TRUE, !.state = "Disconnecting"]
           up == [on EXCEPT !.handle = TRUE, !.state = "Pairing"]
<1>1. ListKept(b, on) /\ ListKept(b, off)
  BY DEF ListKept, HasList
<1>2. LeConnectionComplete(b, ok, enabled) \in
        {HangUp(hung), IdleOrOff(ResetConnection(on), enabled), up, on}
  BY DEF LeConnectionComplete
<1>3. LeDisconnectionComplete(b, enabled) \in {IdleOrOff(ResetConnection(off), enabled), off}
  BY DEF LeDisconnectionComplete
<1> HIDE DEF on, off
<1>4. ListKept(on, hung) /\ ListKept(on, up)
  BY <1>1 DEF ListKept
<1> HIDE DEF hung, up
<1>5. ListKept(hung, HangUp(hung))
  BY <1>4, RequestsKeepList DEF ListKept, HasList
<1>6. /\ ListKept(on, IdleOrOff(ResetConnection(on), enabled))
      /\ ListKept(off, IdleOrOff(ResetConnection(off), enabled))
  BY <1>1, IdleKeepsList DEF ListKept, HasList
<1>7. QED
  BY <1>1, <1>2, <1>3, <1>4, <1>5, <1>6, ListKeptOn

LEMMA PairingKeepsList ==
  ASSUME NEW b, HasList(b), NEW ok, NEW accepted, NEW keyboardFound, NEW waits
  PROVE  /\ ListKept(b, PasskeyShown(b, waits))
         /\ ListKept(b, PairingEnded(b, ok, accepted))
         /\ ListKept(b, HidsConnected(b, ok, keyboardFound))
         /\ ListKept(b, HidsDisconnected(b))
<1>1. ListKept(b, PasskeyShown(b, waits)) /\ ListKept(b, HidsDisconnected(b))
  BY DEF ListKept, HasList, PasskeyShown, HidsDisconnected
<1>2. ListKept(b, PairingEnded(b, ok, accepted))
  <2> DEFINE g == ClearGatt(b)
             d == [g EXCEPT !.state = "DiscoveringReports"]
             yes == [d EXCEPT !.hids = TRUE]
             no == [d EXCEPT !.hids = FALSE]
  <2>1. PairingEnded(b, ok, accepted) \in {yes, FailConnection(no), FailConnection(b)}
    BY DEF PairingEnded, BeginHidDiscovery
  <2>2. ListKept(b, g)
    BY RequestsKeepList
  <2> HIDE DEF g
  <2>3. ListKept(g, yes) /\ ListKept(g, no)
    BY <2>2 DEF ListKept
  <2> HIDE DEF yes, no
  <2>4. ListKept(no, FailConnection(no)) /\ ListKept(b, FailConnection(b))
    BY <2>3, FailKeepsList DEF ListKept, HasList
  <2>5. QED
    BY <2>1, <2>2, <2>3, <2>4, ListKeptOn
<1>3. ListKept(b, HidsConnected(b, ok, keyboardFound))
  <2> DEFINE gone == [b EXCEPT !.hids = FALSE, !.fallback = TRUE]
             other == [b EXCEPT !.fallback = TRUE]
             report == [b EXCEPT !.reportMode = TRUE]
  <2>1. HidsConnected(b, ok, keyboardFound) \in {b, gone, other, MarkReady(report)}
    BY DEF HidsConnected
  <2>2. ListKept(b, b) /\ ListKept(b, gone) /\ ListKept(b, other) /\ ListKept(b, report)
    BY DEF ListKept, HasList
  <2> HIDE DEF gone, other, report
  <2>3. ListKept(report, MarkReady(report))
    BY <2>2, RequestsKeepList DEF ListKept, HasList
  <2>4. QED
    BY <2>1, <2>2, <2>3, ListKeptOn
<1>4. QED
  BY <1>1, <1>2, <1>3

LEMMA QueriesKeepList ==
  ASSUME NEW b, HasList(b), NEW ok, NEW accepted, NEW what
  PROVE  /\ ListKept(b, QueryTaken(b, accepted))
         /\ ListKept(b, QueryResult(b, what))
         /\ ListKept(b, QueryComplete(b, ok, accepted))
<1> DEFINE done == [b EXCEPT !.query = "none"]
           sent == [b EXCEPT !.query = "sent"]
           chars == [done EXCEPT !.state = "DiscoveringCharacteristics"]
           notify == [done EXCEPT !.state = "EnablingNotifications"]
           listening == [done EXCEPT !.listening = TRUE]
           switching == [listening EXCEPT !.state = "SwitchingProtocol"]
<1>1. QueryTaken(b, accepted) \in {FailConnection(done), MarkReady(done), sent}
  BY DEF QueryTaken
<1>2. QueryComplete(b, ok, accepted) \in
        {RequestQuery(chars, accepted), RequestQuery(notify, accepted),
         RequestQuery(switching, accepted), MarkReady(listening),
         FailConnection(done), done}
  BY DEF QueryComplete
<1>3. ListKept(b, QueryResult(b, what))
  BY DEF ListKept, HasList, QueryResult
<1>4. ListKept(b, done) /\ ListKept(b, sent)
  BY DEF ListKept, HasList
<1> HIDE DEF done, sent
<1>5. ListKept(done, chars) /\ ListKept(done, notify) /\ ListKept(done, listening)
  BY <1>4 DEF ListKept
<1> HIDE DEF chars, notify, listening
<1>6. ListKept(listening, switching)
  BY <1>5 DEF ListKept
<1> HIDE DEF switching
<1>7. \A c \in {done, chars, notify, listening, switching} : HasList(c) /\ ListKept(b, c)
  BY <1>4, <1>5, <1>6, ListKeptOn DEF ListKept, HasList
<1>8. \A c \in {done, chars, notify, listening, switching} :
        ListKept(b, FailConnection(c)) /\ ListKept(b, MarkReady(c))
        /\ ListKept(b, RequestQuery(c, accepted))
  BY <1>7, FailKeepsList, RequestsKeepList, RequestKeepsList, ListKeptOn
<1>9. QED
  BY <1>1, <1>2, <1>3, <1>4, <1>7, <1>8

LEMMA ServiceKeepsList ==
  ASSUME NEW b, HasList(b), NEW late, NEW accepted
  PROVE  ListKept(b, BleServiced(b, late, accepted))
<1> DEFINE plain == [b EXCEPT !.hids = FALSE, !.reportMode = FALSE]
           g == ClearGatt(plain)
           asks == [g EXCEPT !.state = "DiscoveringService"]
           fell == IF b.fallback /\ b.state = "DiscoveringReports"
                   THEN RequestQuery(asks, accepted) ELSE b
<1>1. BleServiced(b, late, accepted) \in {FailConnection(fell), fell}
  BY DEF BleServiced, BeginBootDiscovery
<1>2. ListKept(b, plain) /\ ListKept(b, b)
  BY DEF ListKept, HasList
<1>3. fell \in {RequestQuery(asks, accepted), b}
  OBVIOUS
<1> HIDE DEF plain, fell
<1>4. ListKept(plain, g)
  BY <1>2, RequestsKeepList DEF ListKept, HasList
<1> HIDE DEF g
<1>5. ListKept(g, asks)
  BY <1>4 DEF ListKept
<1> HIDE DEF asks
<1>6. ListKept(asks, RequestQuery(asks, accepted))
  BY <1>5, RequestKeepsList DEF ListKept, HasList
<1>7. ListKept(b, fell)
  BY <1>2, <1>3, <1>4, <1>5, <1>6, ListKeptOn
<1>8. ListKept(fell, FailConnection(fell))
  BY <1>7, FailKeepsList DEF ListKept, HasList
<1>9. QED
  BY <1>1, <1>7, <1>8, ListKeptOn

LEMMA KeysKeepList ==
  ASSUME NEW b, HasList(b), NEW usages, NEW due
  PROVE  /\ ListKept(b, BleReport(b, usages))
         /\ ListKept(b, [b EXCEPT !.keys = KeyTaken(@, due)])
<1> DEFINE k1 == KeyReport(b.keys, FALSE, FALSE, usages)
           k2 == KeyTaken(b.keys, due)
<1>1. BleReport(b, usages) \in {b, [b EXCEPT !.keys = k1]}
  BY DEF BleReport
<1>2. [b EXCEPT !.keys = KeyTaken(@, due)] = [b EXCEPT !.keys = k2]
  OBVIOUS
<1> HIDE DEF k1, k2
<1>3. \A k \in {k1, k2} : ListKept(b, [b EXCEPT !.keys = k])
  BY DEF ListKept, HasList
<1>4. ListKept(b, b)
  BY DEF ListKept, HasList
<1>5. QED
  BY <1>1, <1>2, <1>3, <1>4

(* What was heard is what is shown: the rows seen in this scan.            *)
Heard(b, air) ==
  /\ b.seen \subseteq DOMAIN b.found
  /\ \A i \in b.seen : \E hint \in BOOLEAN : <<b.found[i].device, hint>> \in air
  /\ b.full \/ \A d \in LeKeyboards :
       <<d, TRUE>> \in air => \E i \in b.seen : b.found[i].device = d /\ b.found[i].hint

Listed(b, air) ==
  /\ HasList(b)
  /\ b.found \in Seq(Found)
  /\ b.state = "Scanning" => Heard(b, air)

LEMMA KeptIsListed ==
  ASSUME NEW b, NEW air, Listed(b, air), NEW c, ListKept(b, c)
  PROVE  Listed(c, air)
  BY DEF Listed, ListKept, HasList, Heard

LEMMA EmptyIsListed ==
  ASSUME NEW c, HasList(c), c.found = <<>>, c.state # "Scanning", NEW air
  PROVE  Listed(c, air)
<1>1. <<>> \in Seq(Found)
  OBVIOUS
<1>2. QED
  BY <1>1 DEF Listed

LEMMA PowerIsListed ==
  ASSUME NEW b, HasList(b), NEW air
  PROVE  Listed(BleEnabled(b), air) /\ Listed(BleDisabled(b), air)
<1> DEFINE i == [b EXCEPT !.state = "Idle", !.found = <<>>, !.full = FALSE]
           o == [b EXCEPT !.state = "Off", !.found = <<>>, !.full = FALSE]
           r == ResetConnection(o)
           c == [r EXCEPT !.link = "none"]
<1>1. BleEnabled(b) = ResetConnection(i) /\ BleDisabled(b) = c
  BY DEF BleEnabled, BleDisabled
<1>2. /\ HasList(i) /\ i.found = <<>> /\ i.state = "Idle"
      /\ HasList(o) /\ o.found = <<>> /\ o.state = "Off"
  BY DEF HasList
<1> HIDE DEF i, o
<1>3. ListKept(i, ResetConnection(i)) /\ ListKept(o, r)
  BY <1>2, ResetKeepsList
<1> HIDE DEF r
<1>4. ListKept(r, c)
  BY <1>3 DEF ListKept
<1>5. ListKept(o, c)
  BY <1>3, <1>4, ListKeptOn
<1>6. Listed(ResetConnection(i), air)
  BY <1>2, <1>3, EmptyIsListed DEF ListKept, HasList
<1>7. Listed(c, air)
  BY <1>2, <1>5, EmptyIsListed DEF ListKept, HasList
<1>8. QED
  BY <1>1, <1>6, <1>7

LEMMA ScanIsListed ==
  ASSUME NEW b, NEW air, Listed(b, air)
  PROVE  Listed(ScanStarted(b), {})
<1> DEFINE found == KnownKeyboards(b.found)
           c == [b EXCEPT !.state = "Scanning", !.seen = {}, !.full = FALSE,
                          !.found = found]
<1>1. ScanStarted(b) = c
  BY DEF ScanStarted
<1>2. found \in Seq(Found)
  BY KeptIsFound DEF Listed
<1> HIDE DEF found
<1>3. HasList(c) /\ c.found = found /\ c.seen = {}
  BY DEF Listed, HasList
<1> HIDE DEF c
<1>4. Heard(c, {})
  BY <1>3 DEF Heard
<1>5. QED
  BY <1>1, <1>2, <1>3, <1>4 DEF Listed

LEMMA FirstIndex ==
  ASSUME NEW s, Len(s) \in Nat, NEW I, I \subseteq 1..Len(s), I # {}
  PROVE  Min(I) \in I
<1>1. I \subseteq Nat
  OBVIOUS
<1>2. \E m \in I : \A k \in I : m <= k
  BY <1>1, LeastElement
<1>3. QED
  BY <1>2 DEF Min

(* An advertisement is put where it belongs, whatever was there.           *)
LEMMA AdvertisedIsListed ==
  ASSUME NEW b, NEW air, Listed(b, air), b.state = "Scanning",
         NEW d \in LeKeyboards, NEW hint \in BOOLEAN
  PROVE  Listed(Advertised(b, d, hint), air \cup {<<d, hint>>})
<1> DEFINE I == {i \in 1..Len(b.found) : b.found[i].device = d}
           J == {i \in 1..Len(b.found) : ~b.found[i].hint}
           index == IF I # {} THEN Min(I) ELSE 0
           other == IF J # {} THEN Min(J) ELSE 0
           fresh == [device |-> d, hint |-> hint]
           now == air \cup {<<d, hint>>}
           c == Advertised(b, d, hint)
           put(e) == [b.found EXCEPT ![e].hint = @ \/ hint]
           over(e) == [b.found EXCEPT ![e] = fresh]
<1>1. /\ b.found \in Seq(Found) /\ Len(b.found) \in Nat /\ HasList(b)
      /\ Heard(b, air) /\ DOMAIN b.found = 1..Len(b.found)
  BY DEF Listed
<1>2. c = IF index # 0
          THEN [b EXCEPT !.found[index].hint = @ \/ hint, !.seen = @ \cup {index}]
          ELSE IF Len(b.found) < MaxFound
          THEN [b EXCEPT !.found = Append(@, fresh), !.seen = @ \cup {Len(b.found) + 1}]
          ELSE IF ~hint THEN b
          ELSE IF other = 0 THEN [b EXCEPT !.full = TRUE]
          ELSE [b EXCEPT !.found[other] = fresh, !.seen = @ \cup {other}]
  BY Zenon DEF Advertised, SelectInSeq
<1>3. index # 0 => index \in I
  BY <1>1, FirstIndex
<1>4. other # 0 => other \in J
  BY <1>1, FirstIndex
<1>5. fresh \in Found /\ fresh.device = d /\ fresh.hint = hint
  BY DEF Found
<1>6. \A i \in 1..Len(b.found) :
        b.found[i] = [device |-> b.found[i].device, hint |-> b.found[i].hint]
        /\ b.found[i].device \in LeKeyboards /\ b.found[i].hint \in BOOLEAN
  <2>1. \A r \in Found : r = [device |-> r.device, hint |-> r.hint]
                        /\ r.device \in LeKeyboards /\ r.hint \in BOOLEAN
    BY DEF Found
  <2>2. \A i \in 1..Len(b.found) : b.found[i] \in Found
    BY <1>1
  <2>3. QED
    BY <2>1, <2>2
<1>7. I \subseteq 1..Len(b.found) /\ J \subseteq 1..Len(b.found)
      /\ (\A i \in I : b.found[i].device = d) /\ (\A j \in J : ~b.found[j].hint)
  OBVIOUS
<1> HIDE DEF I, J, index, other, fresh, c
<1>8. CASE index # 0
  <2> DEFINE h == b.found[index].hint \/ hint
             e == [device |-> d, hint |-> h]
             f == [b.found EXCEPT ![index] = e]
             g == [b EXCEPT !.found = f, !.seen = @ \cup {index}]
  <2>1. index \in 1..Len(b.found) /\ b.found[index].device = d
    BY <1>3, <1>7, <1>8
  <2>2. c = [b EXCEPT !.found[index].hint = @ \/ hint, !.seen = @ \cup {index}]
    BY <1>2, <1>8
  <2>3. [b.found[index] EXCEPT !.hint = @ \/ hint] = e
    <3> DEFINE r == b.found[index]
    <3>1. r = [device |-> d, hint |-> r.hint]
      BY <1>6, <2>1
    <3>2. [r EXCEPT !.hint = @ \/ hint] = [r EXCEPT !.hint = h]
      OBVIOUS
    <3> HIDE DEF r, h
    <3>3. [r EXCEPT !.hint = h] = e
      BY <3>1
    <3>4. QED
      BY <3>2, <3>3 DEF r
  <2>4. [b.found EXCEPT ![index].hint = @ \/ hint] = f
    BY <2>3
  <2>5. c = g
    BY <2>2, <2>4
  <2>6. e \in Found /\ e.device = d /\ (e.hint <=> b.found[index].hint \/ hint)
    BY DEF Found
  <2> HIDE DEF e
  <2>7. /\ f \in Seq(Found) /\ Len(f) = Len(b.found)
        /\ f[index] = e /\ \A i \in 1..Len(b.found) : i # index => f[i] = b.found[i]
    BY <1>1, <2>1, <2>6
  <2> HIDE DEF f
  <2>8. /\ HasList(g) /\ g.found = f /\ g.seen = b.seen \cup {index}
        /\ g.full = b.full
    BY <1>1 DEF HasList
  <2> HIDE DEF g
  <2>9. \A i \in b.seen \cup {index} :
          \E q \in BOOLEAN : <<f[i].device, q>> \in now
    BY <1>1, <2>1, <2>6, <2>7 DEF Heard
  <2>10. b.full \/ \A x \in LeKeyboards : <<x, TRUE>> \in now =>
           \E i \in b.seen \cup {index} : f[i].device = x /\ f[i].hint
    <3> SUFFICES ASSUME ~b.full, NEW x \in LeKeyboards, <<x, TRUE>> \in now
                 PROVE  \E i \in b.seen \cup {index} : f[i].device = x /\ f[i].hint
      OBVIOUS
    <3>1. CASE <<x, TRUE>> \in air
      <4>1. PICK i \in b.seen : b.found[i].device = x /\ b.found[i].hint
        BY <1>1, <3>1 DEF Heard
      <4>2. i \in 1..Len(b.found)
        BY <1>1 DEF Heard
      <4>3. CASE i = index
        BY <2>1, <2>6, <2>7, <4>1, <4>3
      <4>4. CASE i # index
        BY <2>7, <4>1, <4>2, <4>4
      <4>5. QED
        BY <4>3, <4>4
    <3>2. CASE <<x, TRUE>> \notin air
      <4>1. x = d /\ hint
        BY <3>2
      <4>2. QED
        BY <2>6, <2>7, <4>1
    <3>3. QED
      BY <3>1, <3>2
  <2>11. b.seen \cup {index} \subseteq DOMAIN f
    BY <1>1, <2>1, <2>7 DEF Heard
  <2>12. Heard(g, now)
    BY <2>8, <2>9, <2>10, <2>11 DEF Heard
  <2>13. QED
    BY <2>5, <2>7, <2>8, <2>12 DEF Listed, c
<1>9. CASE index = 0 /\ Len(b.found) < MaxFound
  <2> DEFINE n == Len(b.found) + 1
             f == Append(b.found, fresh)
             g == [b EXCEPT !.found = f, !.seen = @ \cup {n}]
  <2>1. c = g
    BY <1>2, <1>9
  <2>2. /\ f \in Seq(Found) /\ DOMAIN f = 1..n /\ n \in 1..n
        /\ f[n] = fresh /\ \A i \in 1..Len(b.found) : i \in 1..n /\ f[i] = b.found[i]
    BY <1>1, <1>5
  <2> HIDE DEF f, n
  <2>3. /\ HasList(g) /\ g.found = f /\ g.seen = b.seen \cup {n} /\ g.full = b.full
    BY <1>1 DEF HasList
  <2> HIDE DEF g
  <2>4. \A i \in b.seen \cup {n} : \E h \in BOOLEAN : <<f[i].device, h>> \in now
    BY <1>1, <1>5, <2>2 DEF Heard
  <2>5. b.full \/ \A x \in LeKeyboards : <<x, TRUE>> \in now =>
           \E i \in b.seen \cup {n} : f[i].device = x /\ f[i].hint
    BY <1>1, <1>5, <2>2 DEF Heard
  <2>6. b.seen \cup {n} \subseteq DOMAIN f
    BY <1>1, <2>2 DEF Heard
  <2>7. Heard(g, now)
    BY <2>3, <2>4, <2>5, <2>6 DEF Heard
  <2>8. QED
    BY <2>1, <2>2, <2>3, <2>7 DEF Listed, c
<1>10. CASE index = 0 /\ ~(Len(b.found) < MaxFound) /\ ~hint
  <2>1. c = b
    BY <1>2, <1>10
  <2>2. Heard(b, now)
    BY <1>1, <1>10 DEF Heard
  <2>3. QED
    BY <1>1, <2>1, <2>2 DEF Listed, c
<1>11. CASE index = 0 /\ ~(Len(b.found) < MaxFound) /\ hint /\ other = 0
  <2>1. c = [b EXCEPT !.full = TRUE]
    BY <1>2, <1>11
  <2>2. HasList(c) /\ c.found = b.found /\ c.seen = b.seen /\ c.full
    BY <1>1, <2>1 DEF HasList
  <2>3. Heard(c, now)
    BY <1>1, <2>2 DEF Heard
  <2>4. QED
    BY <1>1, <2>2, <2>3 DEF Listed, c
<1>12. CASE index = 0 /\ ~(Len(b.found) < MaxFound) /\ hint /\ other # 0
  <2> DEFINE f == [b.found EXCEPT ![other] = fresh]
             g == [b EXCEPT !.found = f, !.seen = @ \cup {other}]
  <2>1. other \in 1..Len(b.found) /\ ~b.found[other].hint
    BY <1>4, <1>7, <1>12
  <2>2. c = g
    BY <1>2, <1>12
  <2>3. /\ f \in Seq(Found) /\ Len(f) = Len(b.found)
        /\ f[other] = fresh /\ \A i \in 1..Len(b.found) : i # other => f[i] = b.found[i]
    BY <1>1, <1>5, <2>1
  <2> HIDE DEF f
  <2>4. /\ HasList(g) /\ g.found = f /\ g.seen = b.seen \cup {other} /\ g.full = b.full
    BY <1>1 DEF HasList
  <2> HIDE DEF g
  <2>5. \A i \in b.seen \cup {other} : \E h \in BOOLEAN : <<f[i].device, h>> \in now
    BY <1>1, <1>5, <2>1, <2>3 DEF Heard
  <2>6. b.full \/ \A x \in LeKeyboards : <<x, TRUE>> \in now =>
           \E i \in b.seen \cup {other} : f[i].device = x /\ f[i].hint
    BY <1>1, <1>5, <2>1, <2>3 DEF Heard
  <2>7. b.seen \cup {other} \subseteq DOMAIN f
    BY <1>1, <2>1, <2>3 DEF Heard
  <2>8. Heard(g, now)
    BY <2>4, <2>5, <2>6, <2>7 DEF Heard
  <2>9. QED
    BY <2>2, <2>3, <2>4, <2>8 DEF Listed, c
<1>13. QED
  BY <1>8, <1>9, <1>10, <1>11, <1>12

(* The Classic scan goes on.                                               *)
HasNames(c) == {"scan", "inquiry", "naming", "found"} \subseteq DOMAIN c

Named(c) ==
  /\ HasNames(c)
  /\ c.found \subseteq ClassicKeyboards
  /\ c.scan => c.inquiry \/ c.naming # NoDevice

NamesKept(c, d) ==
  /\ HasNames(d)
  /\ d.scan = c.scan /\ d.inquiry = c.inquiry /\ d.naming = c.naming /\ d.found = c.found

LEMMA KeptIsNamed ==
  ASSUME NEW c, Named(c), NEW d, NamesKept(c, d)
  PROVE  Named(d)
  BY DEF Named, NamesKept

LEMMA FailureKeepsNames ==
  ASSUME NEW c, HasNames(c)
  PROVE  /\ NamesKept(c, ClearTarget(c))
         /\ NamesKept(c, CloseChannel(c))
         /\ NamesKept(c, FinishConnectFailure(c))
<1> DEFINE shut == CloseChannel(c)
           let == [shut EXCEPT !.cid = FALSE]
           closed == IF c.cid THEN let ELSE c
           ended == [closed EXCEPT !.connecting = FALSE, !.pairing = FALSE,
                                   !.descriptor = FALSE]
<1>1. \A x : HasNames(x) => NamesKept(x, ClearTarget(x)) /\ NamesKept(x, CloseChannel(x))
  BY DEF NamesKept, HasNames, ClearTarget, CloseChannel
<1>2. FinishConnectFailure(c) = ClearTarget(ended)
  BY Zenon DEF FinishConnectFailure
<1>3. NamesKept(c, shut) /\ NamesKept(c, c)
  BY <1>1 DEF NamesKept
<1> HIDE DEF shut
<1>4. NamesKept(c, let)
  BY <1>3 DEF NamesKept, HasNames
<1> HIDE DEF let
<1>5. NamesKept(c, closed)
  BY <1>3, <1>4
<1> HIDE DEF closed
<1>6. NamesKept(c, ended)
  BY <1>5 DEF NamesKept, HasNames
<1> HIDE DEF ended
<1>7. NamesKept(c, ClearTarget(ended))
  BY <1>1, <1>6 DEF NamesKept
<1>8. QED
  BY <1>1, <1>2, <1>7

LEMMA ConnectKeepsNames ==
  ASSUME NEW c, HasNames(c), NEW device, NEW pairing, NEW named, NEW accepted
  PROVE  /\ NamesKept(c, BeginConnect(c, device, pairing, named, accepted))
         /\ NamesKept(c, IncomingAccepted(c, device, named))
<1> DEFINE begun == [c EXCEPT !.target = device, !.targetNamed = named,
                  !.connecting = TRUE, !.pairing = pairing,
                  !.descriptor = FALSE, !.code = FALSE, !.deadline = TRUE]
           called == [begun EXCEPT !.cid = TRUE, !.link = "opening", !.peer = device]
<1>1. BeginConnect(c, device, pairing, named, accepted)
        \in {called, FinishConnectFailure(begun)}
  BY DEF BeginConnect
<1>2. NamesKept(c, begun)
  BY DEF NamesKept, HasNames
<1> HIDE DEF begun
<1>3. NamesKept(c, called)
  BY <1>2 DEF NamesKept, HasNames
<1>4. NamesKept(c, FinishConnectFailure(begun))
  BY <1>2, FailureKeepsNames DEF NamesKept
<1>5. NamesKept(c, IncomingAccepted(c, device, named))
  BY DEF NamesKept, HasNames, IncomingAccepted
<1>6. QED
  BY <1>1, <1>3, <1>4, <1>5

LEMMA ChannelKeepsNames ==
  ASSUME NEW c, HasNames(c), NEW device, NEW ok, NEW late, NEW usages, NEW due
  PROVE  /\ NamesKept(c, ChannelOpened(c, ok))
         /\ NamesKept(c, ChannelClosed(c))
         /\ NamesKept(c, DescriptorAvailable(c, ok))
         /\ NamesKept(c, CodeShown(c, device))
         /\ NamesKept(c, AuthenticationComplete(c, ok))
         /\ NamesKept(c, DisconnectAddress(c, device))
         /\ NamesKept(c, ClassicServiced(c, late))
         /\ NamesKept(c, ClassicReport(c, usages))
         /\ NamesKept(c, [c EXCEPT !.keys = KeyTaken(@, due)])
<1>1. NamesKept(c, c)
  BY DEF NamesKept
<1>2. NamesKept(c, ChannelOpened(c, ok))
  <2> DEFINE down == [c EXCEPT !.link = "none"]
             up == [c EXCEPT !.link = "up", !.cid = TRUE, !.connected = c.peer,
                     !.connecting = FALSE, !.pairing = FALSE, !.descriptor = FALSE,
                     !.named = c.targetNamed, !.nameAsked = @ \/ ~c.targetNamed]
  <2>1. ChannelOpened(c, ok) \in {FinishConnectFailure(down), ClearTarget(up)}
    BY DEF ChannelOpened
  <2>2. NamesKept(c, down) /\ NamesKept(c, up)
    BY DEF NamesKept, HasNames
  <2> HIDE DEF down, up
  <2>3. NamesKept(c, FinishConnectFailure(down)) /\ NamesKept(c, ClearTarget(up))
    BY <2>2, FailureKeepsNames DEF NamesKept
  <2>4. QED
    BY <2>1, <2>3
<1>3. NamesKept(c, ChannelClosed(c)) /\ NamesKept(c, DescriptorAvailable(c, ok))
  BY DEF NamesKept, HasNames, ChannelClosed, DescriptorAvailable
<1>4. NamesKept(c, CodeShown(c, device))
  BY DEF NamesKept, HasNames, CodeShown
<1>5. /\ NamesKept(c, AuthenticationComplete(c, ok))
      /\ NamesKept(c, DisconnectAddress(c, device))
      /\ NamesKept(c, ClassicServiced(c, late))
  BY <1>1, FailureKeepsNames DEF AuthenticationComplete, DisconnectAddress, ClassicServiced
<1>6. NamesKept(c, ClassicReport(c, usages))
  <2> DEFINE k == KeyReport(c.keys, FALSE, FALSE, usages)
  <2>1. ClassicReport(c, usages) \in {c, [c EXCEPT !.keys = k]}
    BY DEF ClassicReport
  <2> HIDE DEF k
  <2>2. NamesKept(c, [c EXCEPT !.keys = k])
    BY DEF NamesKept, HasNames
  <2>3. QED
    BY <1>1, <2>1, <2>2
<1>7. NamesKept(c, [c EXCEPT !.keys = KeyTaken(@, due)])
  <2> DEFINE k == KeyTaken(c.keys, due)
  <2>1. [c EXCEPT !.keys = KeyTaken(@, due)] = [c EXCEPT !.keys = k]
    OBVIOUS
  <2> HIDE DEF k
  <2>2. NamesKept(c, [c EXCEPT !.keys = k])
    BY DEF NamesKept, HasNames
  <2>3. QED
    BY <2>1, <2>2
<1>8. QED
  BY <1>2, <1>3, <1>4, <1>5, <1>6, <1>7

LEMMA PowerIsNamed ==
  ASSUME NEW c, Named(c)
  PROVE  Named(ClassicEnabled(c)) /\ Named(ClassicDisabled(c))
<1> DEFINE r == [c EXCEPT !.inquiry = FALSE, !.scan = FALSE, !.naming = NoDevice,
                   !.connecting = FALSE, !.pairing = FALSE, !.cid = FALSE,
                   !.descriptor = FALSE, !.connected = NoDevice, !.named = FALSE,
                   !.keys = KeysReset(@)]
           e == ClearTarget(r)
           d == [e EXCEPT !.link = "none", !.nameAsked = FALSE]
<1>1. ClassicEnabled(c) = e /\ ClassicDisabled(c) = d
  BY DEF ClassicEnabled, ClassicDisabled, ClassicReset
<1>2. HasNames(r) /\ r.found = c.found /\ ~r.scan
  BY DEF Named, HasNames
<1> HIDE DEF r
<1>3. NamesKept(r, e)
  BY <1>2, FailureKeepsNames
<1> HIDE DEF e
<1>4. NamesKept(r, d)
  BY <1>3 DEF NamesKept, HasNames
<1>5. Named(r)
  BY <1>2 DEF Named
<1>6. QED
  BY <1>1, <1>3, <1>4, <1>5, KeptIsNamed

(* With no name left to ask for the inquiry starts over.                   *)
LEMMA NextNameIsNamed ==
  ASSUME NEW c, HasNames(c), c.found \subseteq ClassicKeyboards, NEW refused
  PROVE  Named(AskNextName(c, refused))
<1> DEFINE untried == c.found \ (c.nameKnown \cup c.nameTried)
           ask == untried \ refused
           one == CHOOSE d \in ask : TRUE
           tried == IF ask = {} THEN untried ELSE (untried \cap refused) \cup {one}
           left == [c EXCEPT !.naming = NoDevice, !.nameTried = @ \cup tried]
           asked == [left EXCEPT !.naming = one, !.nameAsked = TRUE]
           again == [left EXCEPT !.inquiry = @ \/ c.scan]
<1>1. AskNextName(c, refused) = IF ask # {} THEN asked ELSE again
  BY DEF AskNextName
<1>2. ask # {} => one \in ClassicKeyboards
  OBVIOUS
<1>3. ask # {} => one # NoDevice
  BY <1>2, KeyboardsAssumption
<1> HIDE DEF one, tried, ask
<1>4. /\ HasNames(left) /\ left.found = c.found /\ left.scan = c.scan
  BY DEF HasNames
<1> HIDE DEF left
<1>5. HasNames(asked) /\ asked.found = c.found /\ asked.naming = one
  BY <1>4 DEF HasNames
<1>6. HasNames(again) /\ again.found = c.found /\ (again.scan => again.inquiry)
  BY <1>4 DEF HasNames
<1> HIDE DEF asked, again
<1>7. QED
  BY <1>1, <1>3, <1>5, <1>6 DEF Named

LEMMA ScansAreNamed ==
  ASSUME NEW c, Named(c), NEW refused
  PROVE  /\ Named(ScanBegun(c)) /\ Named(ScanCancelled(c))
         /\ Named(InquiryComplete(c, refused))
<1> USE DEF Named, HasNames
<1>1. Named(ScanBegun(c))
  BY DEF ScanBegun
<1>2. Named(ScanCancelled(c))
  BY DEF ScanCancelled
<1>3. Named(InquiryComplete(c, refused))
  <2> DEFINE over == [c EXCEPT !.inquiry = FALSE]
  <2>1. HasNames(over) /\ over.found = c.found
    OBVIOUS
  <2> HIDE DEF over
  <2>2. Named(AskNextName(over, refused))
    BY <2>1, NextNameIsNamed
  <2>3. InquiryComplete(c, refused) \in {c, AskNextName(over, refused)}
    BY Zenon DEF InquiryComplete, over
  <2> HIDE DEF Named
  <2>4. QED
    BY <2>2, <2>3
<1>4. QED
  BY <1>1, <1>2, <1>3

LEMMA NamesAreNamed ==
  ASSUME NEW c, Named(c), NEW device \in ClassicKeyboards, NEW named, NEW ok, NEW refused
  PROVE  /\ Named(InquiryResult(c, device, named, TRUE))
         /\ Named(NameArrived(c, device, ok, refused))
<1> USE DEF Named, HasNames
<1>1. Named(InquiryResult(c, device, named, TRUE))
  BY DEF InquiryResult
<1>2. Named(NameArrived(c, device, ok, refused))
  <2> DEFINE answered == [c EXCEPT !.nameAsked = FALSE]
             knowing == [answered EXCEPT
                !.nameKnown = IF ok /\ c.naming = device THEN @ \cup {device} ELSE @]
             naming == [answered EXCEPT !.named = @ \/ (ok /\ c.connected = device)]
  <2>1. NamesKept(c, answered)
    BY DEF NamesKept
  <2>2. NameArrived(c, device, ok, refused) \in {AskNextName(knowing, refused), naming}
    BY Zenon DEF NameArrived
  <2> HIDE DEF answered
  <2>3. NamesKept(c, naming) /\ NamesKept(c, knowing)
    BY <2>1 DEF NamesKept
  <2> HIDE DEF naming, knowing
  <2>4. Named(AskNextName(knowing, refused))
    BY <2>3, NextNameIsNamed DEF NamesKept
  <2>5. Named(naming)
    BY <2>3, KeptIsNamed
  <2> HIDE DEF Named
  <2>6. QED
    BY <2>2, <2>4, <2>5
<1>3. QED
  BY <1>1, <1>2

ListInv == Listed(ble, onAir) /\ Named(classic)

LEMMA ListStarts ==
  ASSUME BtInit
  PROVE  ListInv
<1>1. ble = BleAtRest /\ classic = ClassicAtRest
  BY DEF BtInit
<1>2. HasList(BleAtRest) /\ BleAtRest.found = <<>> /\ BleAtRest.state = "Off"
  BY DEF BleAtRest, HasList
<1>3. Named(ClassicAtRest)
  BY DEF ClassicAtRest, Named, HasNames
<1>4. QED
  BY <1>1, <1>2, <1>3, EmptyIsListed DEF ListInv

(* A step that hears nothing new and asks for no name.                     *)
LEMMA QuietKeepsList ==
  ASSUME ListInv, ListKept(ble, ble'), Named(classic'), onAir' = onAir
  PROVE  ListInv'
<1>1. Listed(ble', onAir)
  BY KeptIsListed DEF ListInv
<1>2. QED
  BY <1>1 DEF ListInv

LEMMA BleStepKeepsList ==
  ASSUME ListInv, NEW b, ListKept(ble, b), BleStep(b)
  PROVE  ListInv'
<1>1. ble' = b /\ classic' = classic /\ onAir' = onAir
  BY DEF BleStep
<1>2. QED
  BY <1>1, QuietKeepsList DEF ListInv

LEMMA ClassicStepKeepsList ==
  ASSUME ListInv, NEW c, Named(c), ClassicStep(c)
  PROVE  ListInv'
<1>1. classic' = c /\ ble' = ble /\ onAir' = onAir
  BY DEF ClassicStep
<1>2. QED
  BY <1>1 DEF ListInv

LEMMA ManagerKeepsList ==
  ASSUME ListInv,
         \/ Enable \/ Disable \/ StackWorking \/ ServiceInTime \/ ServiceLate \/ ForgetAll
         \/ ReadKeys
         \/ \E d \in LeKeyboards : ForgetBle(d)
         \/ \E d \in ClassicKeyboards : ForgetClassic(d)
  PROVE  ListInv'
<1>1. HasList(ble) /\ Listed(ble, onAir) /\ HasNames(classic) /\ Named(classic)
  BY DEF ListInv, Listed, Named
<1>2. ListKept(ble, ble)
  BY <1>1 DEF ListKept, HasList
<1>3. CASE Enable \/ Disable
  <2>1. Listed(ble', onAir) /\ Named(classic') /\ onAir' = onAir
    BY <1>1, <1>3, PowerIsListed, PowerIsNamed DEF Enable, Disable
  <2>2. QED
    BY <2>1 DEF ListInv
<1>4. CASE StackWorking
  <2>1. PICK accepted \in BOOLEAN : classic' = AutoReconnected(classic, accepted)
    BY <1>4 DEF StackWorking
  <2> DEFINE device == CHOOSE d \in Reconnectable : TRUE
             begun == BeginConnect(classic, device, FALSE, TRUE, accepted /\ RadioFree)
  <2>2. classic' \in {classic, begun}
    BY <2>1 DEF AutoReconnected
  <2>3. NamesKept(classic, begun)
    BY <1>1, ConnectKeepsNames
  <2> HIDE DEF begun
  <2>4. Named(classic')
    BY <1>1, <2>2, <2>3, KeptIsNamed
  <2>5. QED
    BY <1>2, <1>4, <2>4, QuietKeepsList DEF StackWorking
<1>5. CASE ServiceInTime \/ ServiceLate
  <2>1. PICK late \in BOOLEAN : Service(late)
    BY <1>5 DEF ServiceInTime, ServiceLate
  <2>2. PICK accepted \in BOOLEAN :
          /\ classic' = ClassicServiced(classic, late)
          /\ ble' = BleServiced(ble, late, accepted)
          /\ onAir' = onAir
    BY <2>1 DEF Service
  <2>3. Named(classic')
    BY <1>1, <2>2, ChannelKeepsNames, KeptIsNamed
  <2>4. ListKept(ble, ble')
    BY <1>1, <2>2, ServiceKeepsList
  <2>5. QED
    BY <2>2, <2>3, <2>4, QuietKeepsList
<1>6. CASE ForgetAll
  <2>1. ListKept(ble, ble') /\ onAir' = onAir
    BY <1>1, <1>6, DisconnectKeepsList DEF ForgetAll
  <2>2. Named(classic')
    BY <1>1, <1>6, ChannelKeepsNames, KeptIsNamed DEF ForgetAll
  <2>3. QED
    BY <2>1, <2>2, QuietKeepsList
<1>7. CASE ReadKeys
  <2>1. PICK due \in BOOLEAN :
          /\ classic' = [classic EXCEPT !.keys = KeyTaken(@, due)]
          /\ ble' = [ble EXCEPT !.keys = KeyTaken(@, due)]
          /\ onAir' = onAir
    BY <1>7 DEF ReadKeys
  <2>2. Named(classic')
    BY <1>1, <2>1, ChannelKeepsNames, KeptIsNamed
  <2>3. ListKept(ble, ble')
    BY <1>1, <2>1, KeysKeepList
  <2>4. QED
    BY <2>1, <2>2, <2>3, QuietKeepsList
<1>8. CASE \E d \in LeKeyboards : ForgetBle(d)
  <2>1. ListKept(ble, ble') /\ onAir' = onAir /\ classic' = classic
    BY <1>1, <1>2, <1>8, DisconnectKeepsList DEF ForgetBle
  <2>2. QED
    BY <1>1, <2>1, QuietKeepsList
<1>9. CASE \E d \in ClassicKeyboards : ForgetClassic(d)
  <2>1. PICK d \in ClassicKeyboards : ForgetClassic(d)
    BY <1>9
  <2>2. Named(classic')
    BY <1>1, <2>1, ChannelKeepsNames, KeptIsNamed DEF ForgetClassic
  <2>3. QED
    BY <1>2, <2>1, <2>2, QuietKeepsList DEF ForgetClassic
<1>10. QED
  BY <1>3, <1>4, <1>5, <1>6, <1>7, <1>8, <1>9

LEMMA BleKeepsList ==
  ASSUME ListInv,
         \/ BleCancelConnect \/ BleDisconnect \/ BleCallAnswered \/ BleLinkEnds
         \/ BleLinkDrops \/ BleShowsCode \/ BlePairingEnds \/ BleHidsAnswers
         \/ BleHidsLost \/ BleReports \/ BleQueryTaken \/ BleQueryResult
         \/ BleQueryCompletes
         \/ \E d \in LeKeyboards, fresh \in BOOLEAN : BleConnect(d, fresh)
         \/ BleScan \/ BleStopScan
         \/ \E d \in LeKeyboards, hint \in BOOLEAN : BleHears(d, hint)
  PROVE  ListInv'
<1>1. HasList(ble) /\ Listed(ble, onAir) /\ Named(classic)
  BY DEF ListInv, Listed
<1>2. CASE BleCancelConnect
  BY <1>1, <1>2, CancelKeepsList, BleStepKeepsList DEF BleCancelConnect
<1>3. CASE BleDisconnect
  BY <1>1, <1>3, DisconnectKeepsList, BleStepKeepsList DEF BleDisconnect
<1>4. CASE BleCallAnswered \/ BleLinkEnds \/ BleLinkDrops
  BY <1>1, <1>4, LinkEventsKeepList, BleStepKeepsList
     DEF BleCallAnswered, BleLinkEnds, BleLinkDrops
<1>5. CASE BleShowsCode
  BY <1>1, <1>5, PairingKeepsList, BleStepKeepsList DEF BleShowsCode
<1>6. CASE BlePairingEnds
  <2>1. ListKept(ble, ble') /\ classic' = classic /\ onAir' = onAir
    BY <1>1, <1>6, PairingKeepsList DEF BlePairingEnds
  <2>2. QED
    BY <1>1, <2>1, QuietKeepsList
<1>7. CASE BleHidsAnswers
  BY <1>1, <1>7, PairingKeepsList, BleStepKeepsList DEF BleHidsAnswers
<1>8. CASE BleHidsLost
  BY <1>1, <1>8, PairingKeepsList, BleStepKeepsList DEF BleHidsLost
<1>9. CASE BleReports
  BY <1>1, <1>9, KeysKeepList, BleStepKeepsList DEF BleReports
<1>10. CASE BleQueryTaken
  BY <1>1, <1>10, QueriesKeepList, BleStepKeepsList DEF BleQueryTaken
<1>11. CASE BleQueryResult
  BY <1>1, <1>11, QueriesKeepList, BleStepKeepsList DEF BleQueryResult
<1>12. CASE BleQueryCompletes
  BY <1>1, <1>12, QueriesKeepList, BleStepKeepsList DEF BleQueryCompletes
<1>13. CASE \E d \in LeKeyboards, fresh \in BOOLEAN : BleConnect(d, fresh)
  <2>1. ListKept(ble, ble') /\ classic' = classic /\ onAir' = onAir
    BY <1>1, <1>13, CallsKeepList DEF BleConnect
  <2>2. QED
    BY <1>1, <2>1, QuietKeepsList
<1>14. CASE BleScan
  <2>1. ble' = ScanStarted(ble) /\ onAir' = {} /\ classic' = classic
    BY <1>14 DEF BleScan
  <2>2. Listed(ScanStarted(ble), {})
    BY <1>1, ScanIsListed
  <2>3. QED
    BY <1>1, <2>1, <2>2 DEF ListInv
<1>15. CASE BleStopScan
  BY <1>1, <1>15, RequestsKeepList, BleStepKeepsList DEF BleStopScan
<1>16. CASE \E d \in LeKeyboards, hint \in BOOLEAN : BleHears(d, hint)
  <2>1. PICK d \in LeKeyboards, hint \in BOOLEAN : BleHears(d, hint)
    BY <1>16
  <2>2. /\ ble.state = "Scanning" /\ ble' = Advertised(ble, d, hint)
        /\ onAir' = onAir \cup {<<d, hint>>} /\ classic' = classic
    BY <2>1 DEF BleHears
  <2>3. Listed(Advertised(ble, d, hint), onAir \cup {<<d, hint>>})
    BY <1>1, <2>2, AdvertisedIsListed
  <2>4. QED
    BY <1>1, <2>2, <2>3 DEF ListInv
<1>17. QED
  BY <1>2, <1>3, <1>4, <1>5, <1>6, <1>7, <1>8, <1>9, <1>10, <1>11, <1>12, <1>13, <1>14,
     <1>15, <1>16

LEMMA ClassicKeepsList ==
  ASSUME ListInv,
         \/ ClassicCancelConnect \/ ClassicDisconnect \/ ClassicAuthenticates
         \/ ClassicOpens \/ ClassicDescriptor \/ ClassicReports \/ ClassicLinkEnds
         \/ ClassicLinkDrops
         \/ \E d \in ClassicKeyboards :
              \/ ClassicNameArrives(d) \/ ClassicShowsCode(d)
              \/ ClassicLinkKey(d) \/ ClassicCallsIn(d) \/ ClassicFinds(d)
         \/ \E d \in ClassicKeyboards, pairing \in BOOLEAN : ClassicConnect(d, pairing)
         \/ ClassicScan \/ ClassicStopScan \/ ClassicInquiryEnds
  PROVE  ListInv'
<1>1. HasNames(classic) /\ Named(classic)
  BY DEF ListInv, Named
<1>2. CASE ClassicCancelConnect
  BY <1>1, <1>2, FailureKeepsNames, KeptIsNamed, ClassicStepKeepsList DEF ClassicCancelConnect
<1>3. CASE ClassicDisconnect
  BY <1>1, <1>3, ChannelKeepsNames, KeptIsNamed, ClassicStepKeepsList DEF ClassicDisconnect
<1>4. CASE ClassicAuthenticates
  BY <1>1, <1>4, ChannelKeepsNames, KeptIsNamed, ClassicStepKeepsList DEF ClassicAuthenticates
<1>5. CASE ClassicOpens
  BY <1>1, <1>5, ChannelKeepsNames, KeptIsNamed, ClassicStepKeepsList DEF ClassicOpens
<1>6. CASE ClassicDescriptor
  BY <1>1, <1>6, ChannelKeepsNames, KeptIsNamed, ClassicStepKeepsList DEF ClassicDescriptor
<1>7. CASE ClassicReports
  BY <1>1, <1>7, ChannelKeepsNames, KeptIsNamed, ClassicStepKeepsList DEF ClassicReports
<1>8. CASE ClassicLinkEnds \/ ClassicLinkDrops
  BY <1>1, <1>8, ChannelKeepsNames, KeptIsNamed, ClassicStepKeepsList
     DEF ClassicLinkEnds, ClassicLinkDrops
<1>9. CASE \E d \in ClassicKeyboards : ClassicNameArrives(d)
  BY <1>1, <1>9, NamesAreNamed, ClassicStepKeepsList DEF ClassicNameArrives
<1>10. CASE \E d \in ClassicKeyboards : ClassicShowsCode(d)
  BY <1>1, <1>10, ChannelKeepsNames, KeptIsNamed, ClassicStepKeepsList DEF ClassicShowsCode
<1>11. CASE \E d \in ClassicKeyboards : ClassicLinkKey(d)
  BY <1>11 DEF ClassicLinkKey, ListInv
<1>12. CASE \E d \in ClassicKeyboards : ClassicCallsIn(d)
  BY <1>1, <1>12, ConnectKeepsNames, KeptIsNamed, ClassicStepKeepsList DEF ClassicCallsIn
<1>13. CASE \E d \in ClassicKeyboards : ClassicFinds(d)
  BY <1>1, <1>13, NamesAreNamed, ClassicStepKeepsList DEF ClassicFinds
<1>14. CASE \E d \in ClassicKeyboards, pairing \in BOOLEAN : ClassicConnect(d, pairing)
  <2>1. PICK d \in ClassicKeyboards, pairing \in BOOLEAN, accepted \in BOOLEAN :
          ClassicStep(BeginConnect(classic, d, pairing, ~pairing \/ d \in classic.nameKnown,
                                   accepted /\ RadioFree))
    BY <1>14 DEF ClassicConnect
  <2> DEFINE c == BeginConnect(classic, d, pairing, ~pairing \/ d \in classic.nameKnown,
                               accepted /\ RadioFree)
  <2>2. NamesKept(classic, c)
    BY <1>1, ConnectKeepsNames
  <2>3. ClassicStep(c)
    BY <2>1
  <2> HIDE DEF c
  <2>4. QED
    BY <1>1, <2>2, <2>3, KeptIsNamed, ClassicStepKeepsList
<1>15. CASE ClassicScan
  BY <1>1, <1>15, ScansAreNamed, ClassicStepKeepsList DEF ClassicScan
<1>16. CASE ClassicStopScan
  BY <1>1, <1>16, ScansAreNamed, ClassicStepKeepsList DEF ClassicStopScan
<1>17. CASE ClassicInquiryEnds
  BY <1>1, <1>17, ScansAreNamed, ClassicStepKeepsList DEF ClassicInquiryEnds
<1>18. QED
  BY <1>2, <1>3, <1>4, <1>5, <1>6, <1>7, <1>8, <1>9, <1>10, <1>11, <1>12, <1>13, <1>14,
     <1>15, <1>16, <1>17

LEMMA ListSteps ==
  ASSUME ListInv, [BtNext]_btVars
  PROVE  ListInv'
<1>1. CASE UNCHANGED btVars
  BY <1>1 DEF btVars, ListInv
<1>2. CASE BtNext
  BY <1>2, ManagerKeepsList, BleKeepsList, ClassicKeepsList DEF BtNext, LinkNext, ScanNext
<1>3. QED
  BY <1>1, <1>2

(* ListIsLive: the list to pair from shows what this scan heard, all of it *)
(* unless it says that it is full, and the Classic scan never stalls.      *)
THEOREM TheListIsLive == BtSpec => []ListIsLive
<1>1. ListInv => ListIsLive
  <2> SUFFICES ASSUME ListInv PROVE ListIsLive
    OBVIOUS
  <2>1. ble.state = "Scanning" =>
          /\ \A d \in ShownDevices(ble) : \E hint \in BOOLEAN : <<d, hint>> \in onAir
          /\ ble.full \/ \A d \in LeKeyboards :
               <<d, TRUE>> \in onAir => d \in ShownDevices(ble)
    BY DEF ListInv, Listed, Heard, ShownDevices
  <2>2. classic.scan => classic.inquiry \/ classic.naming # NoDevice
    BY DEF ListInv, Named
  <2>3. QED
    BY <2>1, <2>2 DEF ListIsLive
<1>2. QED
  BY <1>1, ListStarts, ListSteps, PTL DEF BtSpec
=============================================================================

------------------------ MODULE ProgramMemoryProofs -------------------------
(* LIST and RUN show the program that the successful edits made; the PSRAM  *)
(* regions stay sound, and the search for a gap finds the lowest one there  *)
(* is: for every number and size of clients, every program and every        *)
(* failure.                                                                 *)
EXTENDS ProgramMemory, FiniteSetTheorems, SequenceTheorems, WellFoundedInduction,
        TLAPS

-----------------------------------------------------------------------------
(* The allocator.                                                           *)

Sound(r) == r \in [Client -> Region] /\ InRange(r) /\ Disjoint(r)

LEMMA UsedIsClient == \A r : Used(r) \subseteq Client
  BY DEF Used

\* RegionAllocator::claim: the new region is the client's only one and lies
\* apart from all others, inside the device.
LEMMA ClaimIsSound ==
  ASSUME NEW r, Sound(r), NEW c \in Client, NEW n \in Nat, NEW s \in Claims(r, c, n)
  PROVE  Sound(s) /\ Used(s) = Used(r) \cup {c}
<1>1. PICK b \in Room(r, n) :
         n > 0 /\ s = [r EXCEPT ![c] = [base |-> b, size |-> n]]
  BY DEF Claims
<1>2. r \in [Client -> Region] /\ InRange(r) /\ Disjoint(r)
  BY DEF Sound
<1>3. b \in Nat /\ Fits(r, b, n)
  <2>1. b \in Starts(r) /\ Fits(r, b, n)
    BY DEF Room
  <2>2. ASSUME NEW x \in Used(r) PROVE End(r[x]) \in Nat
    BY <1>2, <2>2 DEF Used, End, Region
  <2>. QED  BY <2>1, <2>2 DEF Starts
<1> DEFINE g == [base |-> b, size |-> n]
<1>4. s \in [Client -> Region] /\ s[c] = g /\ g \in Region
  <2>1. g \in Region
    BY <1>3 DEF Region
  <2>. QED  BY <1>1, <1>2, <2>1
<1>5. ASSUME NEW x \in Client, x # c PROVE s[x] = r[x]
  BY <1>1, <1>2, <1>5
<1>6. Used(s) = Used(r) \cup {c}
  BY <1>1, <1>4, <1>5 DEF Used
<1>7. InRange(s)
  <2>1. ASSUME NEW x \in Used(s) PROVE End(s[x]) <= Capacity
    <3>1. CASE x = c
      BY <1>3, <1>4, <3>1 DEF Fits, End
    <3>2. CASE x # c
      <4>1. x \in Used(r) /\ s[x] = r[x]
        BY <1>5, <1>6, <3>2 DEF Used
      <4>. QED  BY <4>1, <1>2 DEF InRange
    <3>. QED  BY <3>1, <3>2
  <2>. QED  BY <2>1 DEF InRange
<1>8. Disjoint(s)
  <2>1. ASSUME NEW x \in Used(r) PROVE Apart(g, r[x]) /\ Apart(r[x], g)
    BY <1>3, <2>1 DEF Fits, Apart
  <2>2. ASSUME NEW x \in Used(s), NEW y \in Used(s), x # y
        PROVE  Apart(s[x], s[y])
    <3>1. CASE x = c
      <4>1. y \in Used(r) /\ s[y] = r[y]
        BY <1>5, <1>6, <2>2, <3>1 DEF Used
      <4>. QED  BY <4>1, <2>1, <1>4, <3>1
    <3>2. CASE y = c
      <4>1. x \in Used(r) /\ s[x] = r[x]
        BY <1>5, <1>6, <2>2, <3>2 DEF Used
      <4>. QED  BY <4>1, <2>1, <1>4, <3>2
    <3>3. CASE x # c /\ y # c
      <4>1. /\ x \in Used(r) /\ s[x] = r[x]
            /\ y \in Used(r) /\ s[y] = r[y]
        BY <1>5, <1>6, <3>3 DEF Used
      <4>. QED  BY <4>1, <1>2, <2>2 DEF Disjoint
    <3>. QED  BY <3>1, <3>2, <3>3
  <2>. QED  BY <2>2 DEF Disjoint
<1>. QED  BY <1>4, <1>6, <1>7, <1>8 DEF Sound

\* RegionAllocator::release: the others keep their regions.
LEMMA ReleaseIsSound ==
  ASSUME NEW r, Sound(r), NEW S
  PROVE  Sound(Released(r, S)) /\ Used(Released(r, S)) = Used(r) \ S
<1> DEFINE s == Released(r, S)
<1>1. r \in [Client -> Region] /\ InRange(r) /\ Disjoint(r)
  BY DEF Sound
<1>2. Idle \in Region /\ Idle.size = 0
  BY DEF Idle, Region
<1>3. s \in [Client -> Region]
  BY <1>1, <1>2 DEF Released
<1>4. ASSUME NEW x \in Client PROVE s[x] = IF x \in S THEN Idle ELSE r[x]
  BY DEF Released
<1>5. Used(s) = Used(r) \ S
  BY <1>2, <1>4 DEF Used
<1>6. ASSUME NEW x \in Used(s) PROVE x \in Used(r) /\ s[x] = r[x]
  BY <1>4, <1>5, <1>6 DEF Used
<1>7. InRange(s)
  BY <1>1, <1>6 DEF InRange
<1>8. Disjoint(s)
  BY <1>1, <1>6 DEF Disjoint
<1>. QED  BY <1>3, <1>5, <1>7, <1>8 DEF Sound

-----------------------------------------------------------------------------
(* The search for a gap: it returns the lowest place that fits, because     *)
(* each of its steps passes over nothing but places that do not.            *)

LEMMA LeastElement ==
  ASSUME NEW T, T \subseteq Nat, T # {}
  PROVE  \E m \in T : \A k \in T : m <= k
<1>1. PICK m \in T : \A k \in T : <<k, m>> \notin OpToRel(<, Nat)
  BY NatLessThanWellFounded, WFMin
<1>2. \A k \in T : k \in Nat /\ ~(k < m)
  BY <1>1 DEF OpToRel
<1>3. \A k \in T : m <= k
  BY <1>2
<1>. QED  BY <1>3

LEMMA LowestIsLeast ==
  ASSUME NEW T, T \subseteq Nat, T # {}
  PROVE  Lowest(T) \in T /\ \A k \in T : Lowest(T) <= k
  BY LeastElement DEF Lowest

LEMMA GreatestElement ==
  ASSUME NEW L \in Nat, NEW T, T \subseteq 0 .. L, T # {}
  PROVE  \E m \in T : \A k \in T : k <= m
<1> DEFINE D == {L - t : t \in T}
<1>1. D \subseteq Nat /\ D # {}
  <2>1. ASSUME NEW t \in T PROVE L - t \in Nat
    <3>1. t \in 0 .. L
      OBVIOUS
    <3>. QED  BY <3>1
  <2>. QED  BY <2>1
<1>2. PICK d \in D : \A k \in D : d <= k
  BY <1>1, LeastElement
<1>3. PICK m \in T : d = L - m
  OBVIOUS
<1>4. ASSUME NEW k \in T PROVE k <= m
  <2>1. d <= L - k
    BY <1>2
  <2>. QED  BY <1>3, <2>1
<1>. QED  BY <1>4

\* The places from `at` on that a region of n units fits at, whether or not
\* the cursor ever stops there.
Places(r, n, at) == {b \in at .. Capacity : Fits(r, b, n)}

\* The lowest of them, or none.
FirstPlace(r, n, at) ==
    IF Places(r, n, at) = {} THEN NoPlace ELSE Lowest(Places(r, n, at))

LEMMA RegionBounds ==
  ASSUME NEW r, Sound(r), NEW c \in Used(r)
  PROVE  /\ r[c].base \in Nat /\ r[c].size \in Nat /\ r[c].size > 0
         /\ End(r[c]) = r[c].base + r[c].size
         /\ End(r[c]) \in Nat /\ End(r[c]) <= Capacity /\ r[c].base < End(r[c])
<1>1. c \in Client /\ r[c].size > 0 /\ r[c] \in Region
  BY DEF Used, Sound
<1>2. r[c].base \in Nat /\ r[c].size \in Nat
  BY <1>1 DEF Region
<1>3. End(r[c]) <= Capacity
  BY DEF Sound, InRange
<1>. QED  BY <1>1, <1>2, <1>3 DEF End

\* What Fits says, in numbers.
LEMMA FitsMeans ==
  ASSUME NEW r, Sound(r), NEW b \in Nat, NEW n \in Nat
  PROVE  Fits(r, b, n) <=>
           /\ b + n <= Capacity
           /\ \A c \in Used(r) : b + n <= r[c].base \/ End(r[c]) <= b
<1>1. End([base |-> b, size |-> n]) = b + n
  BY DEF End
<1>2. [base |-> b, size |-> n].base = b
  OBVIOUS
<1>. QED  BY <1>1, <1>2 DEF Fits, Apart

\* Where the free space ends: beyond `at`, and not beyond any region there.
LEMMA NextBaseBounds ==
  ASSUME NEW r, Sound(r), NEW at \in 0 .. Capacity, at # Capacity
  PROVE  /\ NextBase(r, at) \in Nat /\ at < NextBase(r, at) /\ NextBase(r, at) <= Capacity
         /\ NextBase(r, at) = Capacity \/ \E c \in Used(r) : r[c].base = NextBase(r, at)
         /\ \A c \in Used(r) : r[c].base > at => NextBase(r, at) <= r[c].base
<1> DEFINE limits == {Capacity} \cup {r[c].base : c \in Used(r)}
           T == {x \in limits : x > at}
<1>1. Capacity \in Nat /\ at \in Nat /\ at < Capacity
  BY CapacityAssumption
<1>2. ASSUME NEW c \in Used(r)
      PROVE  r[c].base \in Nat /\ r[c].base <= Capacity
  BY <1>1, <1>2, RegionBounds
<1>3. T \subseteq Nat /\ Capacity \in T
  BY <1>1, <1>2
<1>4. PICK m \in T : \A k \in T : m <= k
  BY <1>3, LeastElement
<1>5. \E x \in limits : x > at /\ \A y \in limits : y > at => x <= y
  BY <1>4
<1>6. NextBase(r, at) = CHOOSE x \in limits : x > at /\ \A y \in limits : y > at => x <= y
  BY DEF NextBase
<1> DEFINE x == NextBase(r, at)
<1>7. x \in limits /\ x > at /\ \A y \in limits : y > at => x <= y
  BY <1>5, <1>6
<1>8. x \in T
  BY <1>7
<1>. QED  BY <1>1, <1>2, <1>3, <1>7, <1>8

\* One step of the search: at the end there is no place; a region is passed
\* over; a gap is taken, or passed over too.
LEMMA PlacesAhead ==
  ASSUME NEW r, Sound(r), NEW n \in 1 .. Capacity, NEW at \in 0 .. Capacity,
         NEW to \in 0 .. Capacity, at <= to, \A b \in at .. to - 1 : ~Fits(r, b, n)
  PROVE  FirstPlace(r, n, at) = FirstPlace(r, n, to)
<1>1. Capacity \in Nat
  BY CapacityAssumption
<1>2. Places(r, n, at) = Places(r, n, to)
  BY <1>1 DEF Places
<1>. QED  BY <1>2 DEF FirstPlace

LEMMA AtTheEnd ==
  ASSUME NEW r, Sound(r), NEW n \in 1 .. Capacity
  PROVE  FirstPlace(r, n, Capacity) = NoPlace
<1>1. Capacity \in Nat
  BY CapacityAssumption
<1>2. ~Fits(r, Capacity, n)
  BY <1>1 DEF Fits
<1>3. Places(r, n, Capacity) = {}
  BY <1>1, <1>2 DEF Places
<1>. QED  BY <1>3 DEF FirstPlace

LEMMA OverARegion ==
  ASSUME NEW r, Sound(r), NEW n \in 1 .. Capacity, NEW at \in 0 .. Capacity,
         NEW c \in Holding(r, at)
  PROVE  /\ End(r[c]) \in 0 .. Capacity /\ at < End(r[c])
         /\ FirstPlace(r, n, at) = FirstPlace(r, n, End(r[c]))
<1>1. Capacity \in Nat /\ n \in Nat /\ n > 0
  BY CapacityAssumption
<1>2. c \in Used(r) /\ r[c].base <= at /\ at < End(r[c])
  BY DEF Holding
<1>3. /\ r[c].base \in Nat /\ End(r[c]) \in Nat /\ End(r[c]) <= Capacity
  BY <1>2, RegionBounds
<1>4. ASSUME NEW b \in at .. End(r[c]) - 1 PROVE ~Fits(r, b, n)
  <2>1. b \in Nat /\ r[c].base <= b /\ b < End(r[c])
    BY <1>2, <1>3
  <2>2. ~(b + n <= r[c].base \/ End(r[c]) <= b)
    BY <1>1, <1>3, <2>1
  <2>. QED  BY <1>1, <1>2, <2>1, <2>2, FitsMeans
<1>5. End(r[c]) \in 0 .. Capacity /\ at <= End(r[c])
  BY <1>1, <1>2, <1>3
<1>. QED  BY <1>2, <1>4, <1>5, PlacesAhead

LEMMA InAGap ==
  ASSUME NEW r, Sound(r), NEW n \in 1 .. Capacity, NEW at \in 0 .. Capacity,
         at # Capacity, Holding(r, at) = {}
  PROVE  /\ NextBase(r, at) \in 0 .. Capacity /\ at < NextBase(r, at)
         /\ FirstPlace(r, n, at) = IF n <= NextBase(r, at) - at THEN at
                                   ELSE FirstPlace(r, n, NextBase(r, at))
<1> DEFINE x == NextBase(r, at)
<1>1. Capacity \in Nat /\ n \in Nat /\ n > 0 /\ at \in Nat
  BY CapacityAssumption
<1>2. /\ x \in Nat /\ at < x /\ x <= Capacity
      /\ x = Capacity \/ \E c \in Used(r) : r[c].base = x
      /\ \A c \in Used(r) : r[c].base > at => x <= r[c].base
  BY NextBaseBounds
<1>3. ASSUME NEW c \in Used(r) PROVE r[c].base > at \/ End(r[c]) <= at
  <2>1. ~(r[c].base <= at /\ at < End(r[c]))
    BY DEF Holding
  <2>2. r[c].base \in Nat /\ End(r[c]) \in Nat
    BY RegionBounds
  <2>. QED  BY <1>1, <2>1, <2>2
<1> HIDE DEF x
<1>4. CASE n <= x - at
  <2>1. at + n <= Capacity
    BY <1>1, <1>2, <1>4
  <2>2. ASSUME NEW c \in Used(r) PROVE at + n <= r[c].base \/ End(r[c]) <= at
    <3>1. r[c].base \in Nat
      BY RegionBounds
    <3>. QED  BY <1>1, <1>2, <1>3, <1>4, <3>1
  <2>3. Fits(r, at, n)
    BY <1>1, <2>1, <2>2, FitsMeans
  <2> DEFINE P == Places(r, n, at)
  <2>4. P \subseteq Nat /\ at \in P /\ \A b \in P : at <= b
    BY <1>1, <2>3 DEF Places
  <2>5. Lowest(P) \in P /\ \A k \in P : Lowest(P) <= k
    BY <2>4, LowestIsLeast
  <2>6. Lowest(P) = at
    BY <2>4, <2>5
  <2>. QED  BY <1>1, <1>2, <1>4, <2>4, <2>6 DEF FirstPlace, x
<1>5. CASE ~(n <= x - at)
  <2>1. ASSUME NEW b \in at .. x - 1 PROVE ~Fits(r, b, n)
    <3>1. b \in Nat /\ b < x /\ b + n > x
      BY <1>1, <1>2, <1>5
    <3>2. CASE x = Capacity
      BY <1>1, <3>1, <3>2 DEF Fits
    <3>3. CASE \E c \in Used(r) : r[c].base = x
      <4>1. PICK c \in Used(r) : r[c].base = x
        BY <3>3
      <4>2. End(r[c]) \in Nat /\ x < End(r[c])
        BY <4>1, RegionBounds
      <4>3. ~(b + n <= r[c].base \/ End(r[c]) <= b)
        BY <1>1, <1>2, <3>1, <4>1, <4>2
      <4>. QED  BY <1>1, <3>1, <4>3, FitsMeans
    <3>. QED  BY <1>2, <3>2, <3>3
  <2>2. x \in 0 .. Capacity /\ at <= x
    BY <1>1, <1>2
  <2>3. FirstPlace(r, n, at) = FirstPlace(r, n, x)
    BY <2>1, <2>2, PlacesAhead
  <2>. QED  BY <1>2, <1>5, <2>2, <2>3 DEF x
<1>. QED  BY <1>4, <1>5

\* RegionAllocator::find_gap: what the search returns.
LEMMA SearchFinds ==
  ASSUME NEW r, Sound(r), NEW n \in 1 .. Capacity
  PROVE  Search(r, n) = FirstPlace(r, n, 0)
<1> DEFINE holder(at) == CHOOSE c \in Holding(r, at) : TRUE
           F(f) == [at \in 0 .. Capacity |->
                      IF at = Capacity THEN NoPlace
                      ELSE IF Holding(r, at) # {} THEN f[End(r[holder(at)])]
                      ELSE IF n <= NextBase(r, at) - at THEN at
                      ELSE f[NextBase(r, at)]]
           g == [at \in 0 .. Capacity |-> FirstPlace(r, n, at)]
           from == CHOOSE f : f = F(f)
<1>1. Search(r, n) = from[0]
  BY DEF Search
<1>2. ASSUME NEW at \in 0 .. Capacity, Holding(r, at) # {}
      PROVE  holder(at) \in Holding(r, at)
  BY <1>2
<1>3. ASSUME NEW at \in 0 .. Capacity, Holding(r, at) # {}
      PROVE  /\ End(r[holder(at)]) \in 0 .. Capacity /\ at < End(r[holder(at)])
             /\ FirstPlace(r, n, at) = FirstPlace(r, n, End(r[holder(at)]))
  BY <1>2, <1>3, OverARegion
<1> HIDE DEF holder
<1>4. ASSUME NEW at \in 0 .. Capacity
      PROVE  F(g)[at] = g[at]
  <2>1. CASE at = Capacity
    BY <2>1, AtTheEnd
  <2>2. CASE at # Capacity /\ Holding(r, at) # {}
    BY <1>3, <2>2
  <2>3. CASE at # Capacity /\ Holding(r, at) = {}
    <3>1. /\ NextBase(r, at) \in 0 .. Capacity
          /\ FirstPlace(r, n, at) = IF n <= NextBase(r, at) - at THEN at
                                    ELSE FirstPlace(r, n, NextBase(r, at))
      BY <2>3, InAGap
    <3>. QED  BY <2>3, <3>1
  <2>. QED  BY <2>1, <2>2, <2>3
<1>5. g = F(g)
  BY <1>4
<1>6. from = F(from)
  <2> HIDE DEF F
  <2>. QED  BY <1>5
<1> DEFINE D == {at \in 0 .. Capacity : from[at] # g[at]}
<1> HIDE DEF from
<1>7. Capacity \in Nat
  BY CapacityAssumption
<1>8. D = {}
  <2> SUFFICES ASSUME D # {} PROVE FALSE
    OBVIOUS
  <2>1. PICK at \in D : \A k \in D : k <= at
    BY <1>7, GreatestElement
  <2>2. at \in 0 .. Capacity /\ from[at] # g[at]
    OBVIOUS
  <2>3. from[at] = IF at = Capacity THEN NoPlace
                   ELSE IF Holding(r, at) # {} THEN from[End(r[holder(at)])]
                   ELSE IF n <= NextBase(r, at) - at THEN at
                   ELSE from[NextBase(r, at)]
    BY <1>6, <2>2
  <2>4. g[at] = IF at = Capacity THEN NoPlace
                ELSE IF Holding(r, at) # {} THEN g[End(r[holder(at)])]
                ELSE IF n <= NextBase(r, at) - at THEN at
                ELSE g[NextBase(r, at)]
    BY <1>5, <2>2
  <2>5. ASSUME NEW k \in 0 .. Capacity, at < k PROVE from[k] = g[k]
    BY <1>7, <2>1, <2>2, <2>5
  <2> HIDE DEF g, D
  <2>6. CASE at # Capacity /\ Holding(r, at) # {}
    BY <1>3, <2>2, <2>3, <2>4, <2>5, <2>6
  <2>7. CASE at # Capacity /\ Holding(r, at) = {}
    <3>1. NextBase(r, at) \in 0 .. Capacity /\ at < NextBase(r, at)
      BY <2>2, <2>7, InAGap
    <3>. QED  BY <2>2, <2>3, <2>4, <2>5, <2>7, <3>1
  <2>. QED  BY <2>2, <2>3, <2>4, <2>6, <2>7
<1>9. from[0] = g[0] /\ g[0] = FirstPlace(r, n, 0)
  <2>1. 0 \in 0 .. Capacity
    BY <1>7
  <2>2. g[0] = FirstPlace(r, n, 0)
    BY <2>1
  <2> HIDE DEF g
  <2>3. from[0] = g[0]
    BY <1>8, <2>1
  <2>. QED  BY <2>2, <2>3
<1>. QED  BY <1>1, <1>9

\* The lowest place of all is where the cursor stops: at the start, or just
\* after a region.
LEMMA FirstIsAStart ==
  ASSUME NEW r, Sound(r), NEW n \in 1 .. Capacity
  PROVE  FirstPlace(r, n, 0) = IF Room(r, n) = {} THEN NoPlace ELSE Lowest(Room(r, n))
<1> DEFINE P == Places(r, n, 0)
           R == Room(r, n)
<1>1. Capacity \in Nat /\ n \in Nat /\ n > 0
  BY CapacityAssumption
<1>2. R \subseteq P
  <2>1. ASSUME NEW b \in R PROVE b \in P
    <3>1. b \in Starts(r) /\ Fits(r, b, n)
      BY DEF Room
    <3>2. b \in Nat
      BY <3>1, RegionBounds DEF Starts
    <3>3. b <= Capacity
      BY <1>1, <3>1, <3>2 DEF Fits
    <3>. QED  BY <1>1, <3>1, <3>2, <3>3 DEF Places
  <2>. QED  BY <2>1
<1>3. P \subseteq Nat
  BY <1>1 DEF Places
<1>4. CASE P = {}
  <2>1. R = {}
    BY <1>2, <1>4
  <2>. QED  BY <1>4, <2>1 DEF FirstPlace
<1>5. CASE P # {}
  <2> DEFINE m == Lowest(P)
  <2>1. m \in P /\ \A k \in P : m <= k
    BY <1>3, <1>5, LowestIsLeast
  <2> HIDE DEF m
  <2>2. m \in Nat /\ m <= Capacity /\ Fits(r, m, n)
    BY <1>1, <2>1 DEF Places
  <2>3. /\ m + n <= Capacity
        /\ \A c \in Used(r) : m + n <= r[c].base \/ End(r[c]) <= m
    BY <1>1, <2>2, FitsMeans
  <2>4. m \in Starts(r)
    <3>1. CASE m = 0
      BY <3>1 DEF Starts
    <3>2. CASE m # 0
      <4> DEFINE b == m - 1
      <4>1. b \in Nat /\ b < m /\ b <= Capacity /\ b + n <= Capacity
        BY <1>1, <2>2, <2>3, <3>2
      <4>2. ~Fits(r, b, n)
        <5>1. b \notin P
          BY <2>1, <2>2, <4>1
        <5>. QED  BY <1>1, <4>1, <5>1 DEF Places
      <4>3. PICK c \in Used(r) : ~(b + n <= r[c].base \/ End(r[c]) <= b)
        BY <1>1, <4>1, <4>2, FitsMeans
      <4>4. r[c].base \in Nat /\ End(r[c]) \in Nat
        BY RegionBounds
      <4>5. End(r[c]) = m
        BY <1>1, <2>2, <2>3, <4>3, <4>4
      <4>. QED  BY <4>5 DEF Starts
    <3>. QED  BY <3>1, <3>2
  <2>5. m \in R
    BY <2>2, <2>4 DEF Room
  <2>6. Lowest(R) \in R /\ \A k \in R : Lowest(R) <= k
    BY <1>2, <1>3, <2>5, LowestIsLeast
  <2>7. Lowest(R) \in P /\ m <= Lowest(R) /\ Lowest(R) <= m
    BY <1>2, <2>1, <2>5, <2>6
  <2>8. Lowest(R) = m
    BY <1>3, <2>2, <2>7
  <2>. QED  BY <1>5, <2>5, <2>8 DEF FirstPlace, m
<1>. QED  BY <1>4, <1>5

-----------------------------------------------------------------------------
(* The invariant: the users of the regions are those that know of them.     *)

Users(st, ca, sd, di) ==
    (IF st = "psram" THEN {"ProgramStore"} ELSE {})
    \cup (IF ca.valid THEN {"CompiledCache"} ELSE {})
    \cup (IF sd THEN {"SdCache"} ELSE {})
    \cup (IF di = "psram" THEN {"DirectState"} ELSE {})

IInv ==
    /\ Sound(region)
    /\ cache \in [valid : BOOLEAN, current : BOOLEAN]
    /\ Used(region) = Users(store, cache, sdCache, direct)

LEMMA InvariantSuffices == IInv => RegionsSound
  BY DEF IInv, Sound, Users, RegionsSound

LEMMA InitSound == Init => IInv
<1>. SUFFICES ASSUME Init PROVE IInv
  OBVIOUS
<1> DEFINE idle == [c \in Client |-> Idle]
<1>1. Sound(idle) /\ Used(idle) = {}
  BY CapacityAssumption DEF Sound, Idle, Region, Used, InRange, Disjoint
<1>2. StoreSize \in Nat
  BY SizeAssumption DEF StoreSize
<1>3. /\ Sound(region)
      /\ Used(region) = {} \/ Used(region) = {"ProgramStore"}
  <2>1. CASE region = idle
    BY <1>1, <2>1
  <2>2. CASE region \in Claims(idle, "ProgramStore", StoreSize)
    BY <1>1, <1>2, <2>2, ClaimIsSound, ClientAssumption
  <2>. QED  BY <2>1, <2>2 DEF Init
<1>4. /\ store = IF Used(region) = {} THEN "sram" ELSE "psram"
      /\ cache = [valid |-> FALSE, current |-> FALSE]
      /\ sdCache = FALSE /\ direct = "none"
  BY DEF Init
<1>. QED  BY <1>3, <1>4 DEF IInv, Users

-----------------------------------------------------------------------------
(* The steps.                                                               *)

\* An edit leaves the regions alone; the compiled program goes on existing.
Bumped == cache' = cache \/ BumpRevision

LEMMA EditKeeps ==
  ASSUME IInv, UNCHANGED <<region, store, sdCache, direct>>, Bumped
  PROVE  IInv'
<1>1. /\ cache' \in [valid : BOOLEAN, current : BOOLEAN]
      /\ cache'.valid = cache.valid
  BY DEF IInv, Bumped, BumpRevision
<1>. QED  BY <1>1 DEF IInv, Users, Sound, InRange, Disjoint, Used

LEMMA LineEdits ==
  ASSUME IInv
  PROVE  /\ \A n, t : SetLine(n, t) => IInv'
         /\ \A n : EraseLine(n) => IInv'
         /\ \A edit, order : ReplaceLinePair(edit, order) => IInv'
<1>1. ASSUME NEW n, NEW t, SetLine(n, t) PROVE IInv'
  <2>1. UNCHANGED <<region, store, sdCache, direct>>
    BY <1>1 DEF SetLine, OthersUnchanged
  <2>2. CASE SetLineSram(n, t)
    BY <2>1, <2>2, EditKeeps DEF SetLineSram, Accept, Fail, Bumped
  <2>3. CASE SetLinePsram(n, t)
    BY <2>1, <2>3, EditKeeps DEF SetLinePsram, Accept, Fail, Bumped
  <2>. QED  BY <1>1, <2>2, <2>3 DEF SetLine
<1>2. ASSUME NEW n, EraseLine(n) PROVE IInv'
  <2>1. UNCHANGED <<region, store, sdCache, direct>>
    BY <1>2 DEF EraseLine, OthersUnchanged
  <2>2. CASE EraseSram(n)
    BY <2>1, <2>2, EditKeeps DEF EraseSram, Accept, Bumped
  <2>3. CASE ErasePsram(n)
    BY <2>1, <2>3, EditKeeps DEF ErasePsram, Accept, Fail, Bumped
  <2>. QED  BY <1>2, <2>2, <2>3 DEF EraseLine
<1>3. ASSUME NEW edit, NEW order, ReplaceLinePair(edit, order) PROVE IInv'
  <2>1. UNCHANGED <<region, store, sdCache, direct>>
    BY <1>3 DEF ReplaceLinePair, OthersUnchanged
  <2>2. CASE PairSram(edit, order)
    BY <2>1, <2>2, EditKeeps DEF PairSram, Accept, Bumped
  <2>3. CASE PairPsram(edit, order)
    BY <2>1, <2>3, EditKeeps DEF PairPsram, Accept, Fail, Bumped
  <2>. QED  BY <1>3, <2>2, <2>3 DEF ReplaceLinePair
<1>. QED  BY <1>1, <1>2, <1>3

LEMMA WholeEdits ==
  ASSUME IInv
  PROVE  Clear \/ EditOnCard => IInv'
<1>1. CASE Clear
  BY <1>1, EditKeeps DEF Clear, Replace, OthersUnchanged, Bumped
<1>2. CASE EditOnCard
  BY <1>2, EditKeeps DEF EditOnCard, Accept, OthersUnchanged, Bumped
<1>. QED  BY <1>1, <1>2

\* A LOAD may move the program from SRAM to a region of its own.
LEMMA LoadKeeps ==
  ASSUME IInv, NEW file, Load(file)
  PROVE  IInv'
<1>1. PICK m \in Migrated :
         /\ LoadSram(m, file) \/ LoadPsram(m, file) \/ LoadMissing(m)
         /\ store' = m.store
         /\ region' = m.region
  BY DEF Load
<1>2. sdCache' = sdCache /\ direct' = direct
  BY DEF Load
<1>3. Bumped
  <2>1. CASE LoadSram(m, file)
    BY <2>1 DEF LoadSram, Replace, Fail, Bumped
  <2>2. CASE LoadPsram(m, file)
    BY <2>2 DEF LoadPsram, Replace, Fail, Bumped
  <2>3. CASE LoadMissing(m)
    BY <2>3 DEF LoadMissing, Fail, Bumped
  <2>. QED  BY <1>1, <2>1, <2>2, <2>3
<1>4. CASE m.store = store /\ m.region = region
  BY <1>1, <1>2, <1>3, <1>4, EditKeeps
<1>5. CASE /\ store = "sram" /\ m.store = "psram"
           /\ m.region \in Claims(region, "ProgramStore", StoreSize)
  <2>1. StoreSize \in Nat /\ "ProgramStore" \in Client
    BY SizeAssumption, ClientAssumption DEF StoreSize
  <2>2. Sound(region') /\ Used(region') = Used(region) \cup {"ProgramStore"}
    BY <1>1, <1>5, <2>1, ClaimIsSound DEF IInv
  <2>3. /\ cache' \in [valid : BOOLEAN, current : BOOLEAN]
        /\ cache'.valid = cache.valid
    BY <1>3 DEF IInv, Bumped, BumpRevision
  <2>4. Used(region') = Users(store', cache', sdCache', direct')
    BY <1>1, <1>2, <1>5, <2>2, <2>3 DEF IInv, Users
  <2>5. Sound(region)'
    BY <2>2 DEF Sound, InRange, Disjoint, Used
  <2>6. Used(region)' = Used(region')
    BY DEF Used
  <2>. QED  BY <2>3, <2>4, <2>5, <2>6 DEF IInv, Users
<1>6. m \in Migrations
  BY DEF Migrated
<1>. QED  BY <1>4, <1>5, <1>6 DEF Migrations

\* What a step has to show of the regions.
LEMMA RegionsSuffice ==
  ASSUME Sound(region'),
         cache' \in [valid : BOOLEAN, current : BOOLEAN],
         Used(region') = Users(store', cache', sdCache', direct')
  PROVE  IInv'
  BY DEF IInv, Users, Sound, InRange, Disjoint, Used

LEMMA SwitchKeeps ==
  ASSUME IInv, NEW discard \in BOOLEAN, SwitchToSd(discard) \/ SwitchToRam(discard)
  PROVE  IInv'
<1>1. Bumped
  BY DEF SwitchToSd, SwitchToRam, Replace, Accept, Bumped
<1>2. /\ cache' \in [valid : BOOLEAN, current : BOOLEAN]
      /\ cache'.valid = cache.valid
  BY <1>1 DEF IInv, Bumped, BumpRevision
<1>3. CASE SwitchToSd(discard)
  <2>1. /\ region' = Released(region, {"ProgramStore"})
        /\ store' = "sd" /\ sdCache' = sdCache /\ direct' = direct
    BY <1>3 DEF SwitchToSd
  <2>2. Sound(region') /\ Used(region') = Used(region) \ {"ProgramStore"}
    BY <2>1, ReleaseIsSound DEF IInv
  <2>3. Used(region') = Users(store', cache', sdCache', direct')
    BY <1>2, <2>1, <2>2 DEF IInv, Users
  <2>. QED  BY <1>2, <2>2, <2>3, RegionsSuffice
<1>4. CASE SwitchToRam(discard)
  <2> DEFINE freed == Released(region, {"SdCache"})
  <2>1. Sound(freed) /\ Used(freed) = Used(region) \ {"SdCache"}
    BY ReleaseIsSound DEF IInv
  <2>2. StoreSize \in Nat /\ "ProgramStore" \in Client
    BY SizeAssumption, ClientAssumption DEF StoreSize
  <2>3. store = "sd" /\ sdCache' = FALSE /\ direct' = direct
    BY <1>4 DEF SwitchToRam
  <2>4. \/ /\ store' = "psram"
           /\ \E r \in Claims(region, "ProgramStore", StoreSize) :
                 region' = Released(r, {"SdCache"})
        \/ store' = "psram" /\ region' \in Claims(freed, "ProgramStore", StoreSize)
        \/ store' = "sram" /\ region' = freed
    BY <1>4 DEF SwitchToRam
  <2>5. CASE /\ store' = "psram"
             /\ \E r \in Claims(region, "ProgramStore", StoreSize) :
                   region' = Released(r, {"SdCache"})
    <3>1. PICK r \in Claims(region, "ProgramStore", StoreSize) :
             region' = Released(r, {"SdCache"})
      BY <2>5
    <3>2. Sound(r) /\ Used(r) = Used(region) \cup {"ProgramStore"}
      BY <2>2, ClaimIsSound DEF IInv
    <3>3. Sound(region') /\ Used(region') = Used(r) \ {"SdCache"}
      BY <3>1, <3>2, ReleaseIsSound
    <3>4. Used(region') = Users(store', cache', sdCache', direct')
      BY <1>2, <2>3, <2>5, <3>2, <3>3 DEF IInv, Users
    <3>. QED  BY <1>2, <3>3, <3>4, RegionsSuffice
  <2>6. CASE store' = "psram" /\ region' \in Claims(freed, "ProgramStore", StoreSize)
    <3>1. Sound(region') /\ Used(region') = Used(freed) \cup {"ProgramStore"}
      BY <2>1, <2>2, <2>6, ClaimIsSound
    <3>2. Used(region') = Users(store', cache', sdCache', direct')
      BY <1>2, <2>1, <2>3, <2>6, <3>1 DEF IInv, Users
    <3>. QED  BY <1>2, <3>1, <3>2, RegionsSuffice
  <2>7. CASE store' = "sram" /\ region' = freed
    <3>1. Used(region') = Users(store', cache', sdCache', direct')
      BY <1>2, <2>1, <2>3, <2>7 DEF IInv, Users
    <3>. QED  BY <1>2, <2>1, <2>7, <3>1, RegionsSuffice
  <2>. QED  BY <2>4, <2>5, <2>6, <2>7
<1>. QED  BY <1>3, <1>4

LEMMA ReadKeeps ==
  ASSUME IInv, ReadOnCard
  PROVE  IInv'
<1>1. /\ region' \in Claims(region, "SdCache", 1)
      /\ store' = store /\ sdCache' = TRUE /\ cache' = cache /\ direct' = direct
  BY DEF ReadOnCard
<1>2. Sound(region') /\ Used(region') = Used(region) \cup {"SdCache"}
  BY <1>1, ClaimIsSound, ClientAssumption DEF IInv
<1>3. Used(region') = Users(store', cache', sdCache', direct')
  BY <1>1, <1>2 DEF IInv, Users
<1>. QED  BY <1>1, <1>2, <1>3, RegionsSuffice DEF IInv

\* The compiled program takes and gives up its region with its validity.
LEMMA CompiledKeeps ==
  ASSUME IInv, Run \/ ServiceBackground
  PROVE  IInv'
<1> DEFINE freed == Released(region, {"CompiledCache"})
<1>1. Sound(freed) /\ Used(freed) = Used(region) \ {"CompiledCache"}
  BY ReleaseIsSound DEF IInv
<1>2. store' = store /\ sdCache' = sdCache /\ direct' = direct
  BY DEF Run, ServiceBackground
<1>3. \/ region' = freed /\ cache' = [valid |-> FALSE, current |-> FALSE]
      \/ /\ cache' = [valid |-> TRUE, current |-> TRUE]
         /\ \E n \in Nat : region' \in Claims(freed, "CompiledCache", n)
  <2>1. CASE DropCompiled
    BY <2>1 DEF DropCompiled
  <2>2. CASE StoreCompiled(Listing)
    <3>1. ImageSize(Listing) \in Nat
      BY DEF ImageSize
    <3>. QED  BY <2>2, <3>1 DEF StoreCompiled
  <2>. QED  BY <2>1, <2>2 DEF Run, ServiceBackground
<1>4. CASE region' = freed /\ cache' = [valid |-> FALSE, current |-> FALSE]
  <2>1. Used(region') = Users(store', cache', sdCache', direct')
    BY <1>1, <1>2, <1>4 DEF IInv, Users
  <2>. QED  BY <1>1, <1>4, <2>1, RegionsSuffice
<1>5. CASE /\ cache' = [valid |-> TRUE, current |-> TRUE]
           /\ \E n \in Nat : region' \in Claims(freed, "CompiledCache", n)
  <2>1. Sound(region') /\ Used(region') = Used(freed) \cup {"CompiledCache"}
    BY <1>1, <1>5, ClaimIsSound, ClientAssumption
  <2>2. Used(region') = Users(store', cache', sdCache', direct')
    BY <1>1, <1>2, <1>5, <2>1 DEF IInv, Users
  <2>. QED  BY <1>5, <2>1, <2>2, RegionsSuffice
<1>. QED  BY <1>3, <1>4, <1>5

LEMMA DirectKeeps ==
  ASSUME IInv, StoreDirect \/ ClearDirect
  PROVE  IInv'
<1>1. store' = store /\ sdCache' = sdCache /\ cache' = cache
  BY DEF StoreDirect, ClearDirect, ProgramUnchanged
<1>2. CASE direct = "none" /\ Take("DirectState", 1) /\ direct' = "psram"
  <2>1. Sound(region') /\ Used(region') = Used(region) \cup {"DirectState"}
    BY <1>2, ClaimIsSound, ClientAssumption DEF IInv, Take
  <2>2. Used(region') = Users(store', cache', sdCache', direct')
    BY <1>1, <1>2, <2>1 DEF IInv, Users
  <2>. QED  BY <1>1, <2>1, <2>2, RegionsSuffice DEF IInv
<1>3. CASE direct = "psram" /\ Give("DirectState") /\ direct' \in {"none", "sram"}
  <2>1. Sound(region') /\ Used(region') = Used(region) \ {"DirectState"}
    BY <1>3, ReleaseIsSound DEF IInv, Give
  <2>2. Used(region') = Users(store', cache', sdCache', direct')
    BY <1>1, <1>3, <2>1 DEF IInv, Users
  <2>. QED  BY <1>1, <2>1, <2>2, RegionsSuffice DEF IInv
<1>4. CASE direct # "psram" /\ direct' # "psram" /\ region' = region
  <2>1. Used(region') = Users(store', cache', sdCache', direct')
    BY <1>1, <1>4 DEF IInv, Users
  <2>. QED  BY <1>1, <1>4, <2>1, RegionsSuffice DEF IInv
<1>. QED  BY <1>2, <1>3, <1>4 DEF StoreDirect, ClearDirect

\* The diagnostics and a new probe give up what can be read again.
LEMMA DeviceKeeps ==
  ASSUME IInv, GiveUpDisposable
  PROVE  IInv'
<1>1. /\ region' = Released(region, {"SdCache", "CompiledCache"})
      /\ cache' = [valid |-> FALSE, current |-> FALSE]
      /\ sdCache' = FALSE /\ store' = store /\ direct' = direct
  BY DEF GiveUpDisposable, Disposable
<1>2. /\ Sound(region')
      /\ Used(region') = Used(region) \ {"SdCache", "CompiledCache"}
  BY <1>1, ReleaseIsSound DEF IInv
<1>3. Used(region') = Users(store', cache', sdCache', direct')
  BY <1>1, <1>2 DEF IInv, Users
<1>. QED  BY <1>1, <1>2, <1>3, RegionsSuffice

LEMMA StepSound == IInv /\ [Next]_vars => IInv'
<1>. SUFFICES ASSUME IInv, [Next]_vars PROVE IInv'
  OBVIOUS
<1>1. ASSUME NEW n \in Number, NEW t \in Text, SetLine(n, t) PROVE IInv'
  BY <1>1, LineEdits
<1>2. ASSUME NEW n \in Number, EraseLine(n) PROVE IInv'
  BY <1>2, LineEdits
<1>3. ASSUME NEW m \in Number, NEW n \in Number,
             NEW t \in Text \cup {Junk}, NEW u \in Text \cup {Junk},
             ReplaceLinePair(Pair(m, t, n, u), <<m, n>>)
      PROVE  IInv'
  BY <1>3, LineEdits
<1>4. CASE Clear \/ EditOnCard
  BY <1>4, WholeEdits
<1>5. ASSUME NEW file \in Files, Load(file) PROVE IInv'
  BY <1>5, LoadKeeps
<1>6. ASSUME NEW discard \in BOOLEAN, SwitchToSd(discard) \/ SwitchToRam(discard)
      PROVE  IInv'
  BY <1>6, SwitchKeeps
<1>7. CASE ReadOnCard
  BY <1>7, ReadKeeps
<1>8. CASE Run \/ ServiceBackground
  BY <1>8, CompiledKeeps
<1>9. CASE StoreDirect \/ ClearDirect
  BY <1>9, DirectKeeps
<1>10. CASE RunDiagnostic \/ Reprobe
  BY <1>10, DeviceKeeps DEF RunDiagnostic, Reprobe
<1>11. CASE UNCHANGED vars
  BY <1>11 DEF vars, IInv, Users, Sound, InRange, Disjoint, Used
<1>. QED
  BY <1>1, <1>2, <1>3, <1>4, <1>5, <1>6, <1>7, <1>8, <1>9, <1>10, <1>11 DEF Next

\* The PSRAM regions never overlap nor leave the device, and are owned by
\* exactly the clients that use them: for every size of the device and of the
\* program store, every program, and any pattern of failing writes.
THEOREM RegionsAreSound == Spec => []RegionsSound
<1>1. Spec => []IInv
  BY InitSound, StepSound, PTL DEF Spec
<1>. QED  BY <1>1, InvariantSuffices, PTL

\* RegionAllocator's search for a gap finds the lowest place that fits, and
\* reports failure only when there is none, in every layout the program can
\* reach: for any size of the device, of the regions and of the request.
THEOREM TheSearchIsFirstFit == Spec => []SearchIsFirstFit
<1>1. Spec => []IInv
  BY InitSound, StepSound, PTL DEF Spec
<1>2. IInv => SearchIsFirstFit
  <2> SUFFICES ASSUME IInv, NEW n \in 1 .. Capacity
               PROVE  Search(region, n) = IF Room(region, n) = {} THEN NoPlace
                                          ELSE Lowest(Room(region, n))
    BY DEF SearchIsFirstFit
  <2>1. Sound(region)
    BY DEF IInv
  <2>. QED  BY <2>1, SearchFinds, FirstIsAStart
<1>. QED  BY <1>1, <1>2, PTL

-----------------------------------------------------------------------------
(* Sequences.                                                               *)

IsSeq(s) == \E S : s \in Seq(S)

\* A sequence is a function on 1 .. Len(s).
LEMMA SeqIs ==
  ASSUME NEW s, IsSeq(s)
  PROVE  Len(s) \in Nat /\ DOMAIN s = 1 .. Len(s) /\ s = [i \in 1 .. Len(s) |-> s[i]]
BY DEF IsSeq

\* A function on 1 .. n is a sequence.
LEMMA IsSeqOf ==
  ASSUME NEW s, NEW n \in Nat, s = [i \in 1 .. n |-> s[i]]
  PROVE  IsSeq(s) /\ Len(s) = n
<1> DEFINE S == {s[i] : i \in 1 .. n}
<1>1. s \in [1 .. n -> S]
  OBVIOUS
<1>2. s \in Seq(S)
  BY <1>1, SeqDef
<1>3. Len(s) = n
  BY <1>1, <1>2
<1>. QED  BY <1>2, <1>3 DEF IsSeq

\* A sequence of elements of S.
LEMMA InSeq ==
  ASSUME NEW s, NEW S, IsSeq(s), \A i \in 1 .. Len(s) : s[i] \in S
  PROVE  s \in Seq(S)
<1>1. s \in [1 .. Len(s) -> S] /\ Len(s) \in Nat
  BY SeqIs
<1>. QED  BY <1>1, SeqDef

LEMMA Concatenated ==
  ASSUME NEW s, NEW t, IsSeq(s), IsSeq(t)
  PROVE  /\ IsSeq(s \o t) /\ Len(s \o t) = Len(s) + Len(t)
         /\ \A i \in 1 .. Len(s) + Len(t) :
              (s \o t)[i] = IF i <= Len(s) THEN s[i] ELSE t[i - Len(s)]
<1>1. PICK S, T : s \in Seq(S) /\ t \in Seq(T)
  BY DEF IsSeq
<1> DEFINE U == S \cup T
<1>2. s \in Seq(U) /\ t \in Seq(U)
  <2>1. (\A i \in 1 .. Len(s) : s[i] \in U) /\ (\A i \in 1 .. Len(t) : t[i] \in U)
    BY <1>1
  <2>. QED  BY <2>1, InSeq
<1> HIDE DEF U
<1>3. s \o t \in Seq(U)
  BY <1>2
<1>. QED  BY <1>2, <1>3 DEF IsSeq

LEMMA SubSequence ==
  ASSUME NEW s, IsSeq(s), NEW m \in Nat, NEW n \in Nat, 1 <= m, n <= Len(s)
  PROVE  /\ IsSeq(SubSeq(s, m, n))
         /\ Len(SubSeq(s, m, n)) = (IF m <= n THEN n - m + 1 ELSE 0)
         /\ \A i \in 1 .. Len(SubSeq(s, m, n)) : SubSeq(s, m, n)[i] = s[m + i - 1]
<1>1. PICK S : s \in Seq(S)
  BY DEF IsSeq
<1>2. \A i \in m .. n : s[i] \in S
  BY <1>1
<1>3. SubSeq(s, m, n) \in Seq(S)
  BY <1>1, <1>2, SubSeqProperties
<1>4. Len(SubSeq(s, m, n)) = (IF m <= n THEN n - m + 1 ELSE 0)
  BY <1>2, SubSeqProperties
<1>5. \A i \in 1 .. n - m + 1 : SubSeq(s, m, n)[i] = s[m + i - 1]
  BY <1>2, SubSeqProperties
<1>6. \A i \in 1 .. Len(SubSeq(s, m, n)) : i \in 1 .. n - m + 1
  BY <1>4
<1>. QED  BY <1>3, <1>4, <1>5, <1>6 DEF IsSeq

LEMMA Singleton ==
  ASSUME NEW e
  PROVE  IsSeq(<<e>>) /\ Len(<<e>>) = 1 /\ <<e>>[1] = e
<1>1. <<e>> \in Seq({e})
  OBVIOUS
<1>. QED  BY <1>1 DEF IsSeq

LEMMA AppendIs ==
  ASSUME NEW s, NEW e, IsSeq(s)
  PROVE  /\ IsSeq(Append(s, e)) /\ Len(Append(s, e)) = Len(s) + 1
         /\ Append(s, e)[Len(s) + 1] = e
         /\ \A i \in 1 .. Len(s) : Append(s, e)[i] = s[i]
<1>1. PICK S : s \in Seq(S)
  BY DEF IsSeq
<1>2. s \in Seq(S \cup {e})
  <2>1. \A i \in 1 .. Len(s) : s[i] \in S \cup {e}
    BY <1>1
  <2>. QED  BY <2>1, InSeq
<1>. QED  BY <1>2 DEF IsSeq

\* InsertAt and RemoveAt of the community modules, element by element.
LEMMA InsertIs ==
  ASSUME NEW s, IsSeq(s), NEW p \in 1 .. Len(s) + 1, NEW e
  PROVE  /\ IsSeq(InsertAt(s, p, e)) /\ Len(InsertAt(s, p, e)) = Len(s) + 1
         /\ \A i \in 1 .. Len(s) + 1 :
              InsertAt(s, p, e)[i] = IF i < p THEN s[i]
                                     ELSE IF i = p THEN e ELSE s[i - 1]
<1> DEFINE front == SubSeq(s, 1, p - 1)
           back == SubSeq(s, p, Len(s))
           one == <<e>>
           n == Len(s)
<1>1. n \in Nat /\ p \in Nat /\ 1 <= p /\ p <= n + 1 /\ p - 1 \in Nat
  BY SeqIs
<1>2. /\ IsSeq(front) /\ Len(front) = p - 1
      /\ \A i \in 1 .. p - 1 : front[i] = s[i]
  <2>1. /\ IsSeq(front) /\ Len(front) = IF 1 <= p - 1 THEN p - 1 - 1 + 1 ELSE 0
        /\ \A i \in 1 .. Len(front) : front[i] = s[1 + i - 1]
    BY <1>1, SubSequence
  <2>2. Len(front) = p - 1
    BY <1>1, <2>1
  <2>3. ASSUME NEW i \in 1 .. p - 1 PROVE front[i] = s[i]
    <3>1. 1 + i - 1 = i
      BY <1>1
    <3>2. front[i] = s[1 + i - 1]
      BY <2>1, <2>2
    <3>. QED  BY <3>1, <3>2
  <2>. QED  BY <2>1, <2>2, <2>3
<1>3. /\ IsSeq(back) /\ Len(back) = n - p + 1
      /\ \A i \in 1 .. n - p + 1 : back[i] = s[p + i - 1]
  <2>1. /\ IsSeq(back) /\ Len(back) = IF p <= n THEN n - p + 1 ELSE 0
        /\ \A i \in 1 .. Len(back) : back[i] = s[p + i - 1]
    BY <1>1, SubSequence
  <2>2. Len(back) = n - p + 1
    BY <1>1, <2>1
  <2>. QED  BY <2>1, <2>2
<1>4. IsSeq(one) /\ Len(one) = 1 /\ one[1] = e
  BY Singleton
<1>5. InsertAt(s, p, e) = (front \o one) \o back
  BY DEF InsertAt
<1> HIDE DEF front, back, one
<1> DEFINE left == front \o one
<1>6. /\ IsSeq(left) /\ Len(left) = p
      /\ \A i \in 1 .. p : left[i] = IF i <= p - 1 THEN front[i] ELSE one[i - (p - 1)]
  <2>1. /\ IsSeq(left) /\ Len(left) = Len(front) + Len(one)
        /\ \A i \in 1 .. Len(front) + Len(one) :
             left[i] = IF i <= Len(front) THEN front[i] ELSE one[i - Len(front)]
    BY <1>2, <1>4, Concatenated
  <2>2. Len(front) + Len(one) = p
    BY <1>1, <1>2, <1>4
  <2>. QED  BY <2>1, <2>2, <1>2
<1>7. \A i \in 1 .. p : left[i] = IF i < p THEN s[i] ELSE e
  <2>1. ASSUME NEW i \in 1 .. p PROVE left[i] = IF i < p THEN s[i] ELSE e
    <3>1. CASE i < p
      <4>1. i \in 1 .. p - 1 /\ i <= p - 1
        BY <1>1, <3>1
      <4>. QED  BY <1>2, <1>6, <3>1, <4>1
    <3>2. CASE ~(i < p)
      <4>1. ~(i <= p - 1) /\ i - (p - 1) = 1
        BY <1>1, <3>2
      <4>2. left[i] = one[i - (p - 1)]
        BY <1>6, <4>1
      <4>3. left[i] = one[1]
        BY <4>1, <4>2
      <4>. QED  BY <1>4, <3>2, <4>3
    <3>. QED  BY <3>1, <3>2
  <2>. QED  BY <2>1
<1> HIDE DEF left
<1> DEFINE all == left \o back
<1>8. /\ IsSeq(all) /\ Len(all) = n + 1
      /\ \A i \in 1 .. n + 1 : all[i] = IF i <= p THEN left[i] ELSE back[i - p]
  <2>1. /\ IsSeq(all) /\ Len(all) = Len(left) + Len(back)
        /\ \A i \in 1 .. Len(left) + Len(back) :
             all[i] = IF i <= Len(left) THEN left[i] ELSE back[i - Len(left)]
    BY <1>3, <1>6, Concatenated
  <2>2. Len(left) + Len(back) = n + 1
    BY <1>1, <1>3, <1>6
  <2>. QED  BY <2>1, <2>2, <1>6
<1>9. ASSUME NEW i \in 1 .. n + 1
      PROVE  all[i] = IF i < p THEN s[i] ELSE IF i = p THEN e ELSE s[i - 1]
  <2>1. CASE i <= p
    <3>1. i \in 1 .. p
      BY <1>1, <2>1
    <3>. QED  BY <1>1, <1>7, <1>8, <2>1, <3>1
  <2>2. CASE ~(i <= p)
    <3>1. i - p \in 1 .. n - p + 1 /\ p + (i - p) - 1 = i - 1 /\ ~(i < p) /\ i # p
      BY <1>1, <2>2
    <3>2. all[i] = back[i - p]
      BY <1>8, <2>2
    <3>3. back[i - p] = s[p + (i - p) - 1]
      BY <1>3, <3>1
    <3>4. back[i - p] = s[i - 1]
      BY <3>1, <3>3
    <3>. QED  BY <3>1, <3>2, <3>4
  <2>. QED  BY <2>1, <2>2
<1>. QED  BY <1>5, <1>8, <1>9 DEF left

LEMMA RemoveIs ==
  ASSUME NEW s, IsSeq(s), NEW p \in 1 .. Len(s)
  PROVE  /\ IsSeq(RemoveAt(s, p)) /\ Len(RemoveAt(s, p)) = Len(s) - 1
         /\ \A i \in 1 .. Len(s) - 1 :
              RemoveAt(s, p)[i] = IF i < p THEN s[i] ELSE s[i + 1]
<1> DEFINE front == SubSeq(s, 1, p - 1)
           back == SubSeq(s, p + 1, Len(s))
           n == Len(s)
<1>1. n \in Nat /\ p \in Nat /\ 1 <= p /\ p <= n /\ p - 1 \in Nat /\ p + 1 \in Nat
  BY SeqIs
<1>2. /\ IsSeq(front) /\ Len(front) = p - 1
      /\ \A i \in 1 .. p - 1 : front[i] = s[i]
  <2>1. /\ IsSeq(front) /\ Len(front) = IF 1 <= p - 1 THEN p - 1 - 1 + 1 ELSE 0
        /\ \A i \in 1 .. Len(front) : front[i] = s[1 + i - 1]
    BY <1>1, SubSequence
  <2>2. Len(front) = p - 1
    BY <1>1, <2>1
  <2>3. ASSUME NEW i \in 1 .. p - 1 PROVE front[i] = s[i]
    <3>1. 1 + i - 1 = i
      BY <1>1
    <3>2. front[i] = s[1 + i - 1]
      BY <2>1, <2>2
    <3>. QED  BY <3>1, <3>2
  <2>. QED  BY <2>1, <2>2, <2>3
<1>3. /\ IsSeq(back) /\ Len(back) = n - p
      /\ \A i \in 1 .. n - p : back[i] = s[p + i]
  <2>1. /\ IsSeq(back) /\ Len(back) = IF p + 1 <= n THEN n - (p + 1) + 1 ELSE 0
        /\ \A i \in 1 .. Len(back) : back[i] = s[p + 1 + i - 1]
    BY <1>1, SubSequence
  <2>2. Len(back) = n - p
    BY <1>1, <2>1
  <2>3. ASSUME NEW i \in 1 .. n - p PROVE back[i] = s[p + i]
    <3>1. p + 1 + i - 1 = p + i
      BY <1>1
    <3>2. back[i] = s[p + 1 + i - 1]
      BY <2>1, <2>2
    <3>. QED  BY <3>1, <3>2
  <2>. QED  BY <2>1, <2>2, <2>3
<1>4. RemoveAt(s, p) = front \o back
  BY DEF RemoveAt
<1> HIDE DEF front, back
<1> DEFINE all == front \o back
<1>5. /\ IsSeq(all) /\ Len(all) = n - 1
      /\ \A i \in 1 .. n - 1 : all[i] = IF i <= p - 1 THEN front[i] ELSE back[i - (p - 1)]
  <2>1. /\ IsSeq(all) /\ Len(all) = Len(front) + Len(back)
        /\ \A i \in 1 .. Len(front) + Len(back) :
             all[i] = IF i <= Len(front) THEN front[i] ELSE back[i - Len(front)]
    BY <1>2, <1>3, Concatenated
  <2>2. Len(front) + Len(back) = n - 1
    BY <1>1, <1>2, <1>3
  <2>. QED  BY <2>1, <2>2, <1>2
<1>6. ASSUME NEW i \in 1 .. n - 1
      PROVE  all[i] = IF i < p THEN s[i] ELSE s[i + 1]
  <2>1. CASE i < p
    <3>1. i \in 1 .. p - 1 /\ i <= p - 1
      BY <1>1, <2>1
    <3>. QED  BY <1>2, <1>5, <2>1, <3>1
  <2>2. CASE ~(i < p)
    <3>1. i - (p - 1) \in 1 .. n - p /\ p + (i - (p - 1)) = i + 1 /\ ~(i <= p - 1)
      BY <1>1, <2>2
    <3>2. all[i] = back[i - (p - 1)]
      BY <1>5, <3>1
    <3>3. back[i - (p - 1)] = s[p + (i - (p - 1))]
      BY <1>3, <3>1
    <3>. QED  BY <2>2, <3>1, <3>2, <3>3
  <2>. QED  BY <2>1, <2>2
<1>. QED  BY <1>4, <1>5, <1>6

-----------------------------------------------------------------------------
(* Tables: sequences of rows with ascending numbers.  A table is determined *)
(* by the set of its rows.                                                  *)

Table(s) ==
    /\ IsSeq(s)
    /\ \A i \in DOMAIN s : s[i].number \in Nat
    /\ \A i, j \in DOMAIN s : i < j => s[i].number < s[j].number

Rows(s) == {s[i] : i \in DOMAIN s}

LEMMA CountingTo ==
  ASSUME NEW n \in Nat
  PROVE  IsFiniteSet(1 .. n) /\ Cardinality(1 .. n) = n
BY FS_Interval

\* Two rows of a table have different numbers, and their places follow them.
LEMMA RowsApart ==
  ASSUME NEW s, Table(s), NEW i \in DOMAIN s, NEW j \in DOMAIN s
  PROVE  /\ s[i].number = s[j].number => i = j
         /\ s[i].number < s[j].number <=> i < j
<1>1. i \in Nat /\ j \in Nat
  BY SeqIs DEF Table
<1>2. s[i].number \in Nat /\ s[j].number \in Nat
  BY DEF Table
<1>3. (i < j => s[i].number < s[j].number) /\ (j < i => s[j].number < s[i].number)
  BY DEF Table
<1>4. i < j \/ i = j \/ j < i
  BY <1>1
<1>. QED  BY <1>1, <1>2, <1>3, <1>4

LEMMA RowsCounted ==
  ASSUME NEW s, Table(s)
  PROVE  IsFiniteSet(Rows(s)) /\ Cardinality(Rows(s)) = Len(s)
<1> DEFINE I == 1 .. Len(s)
           f == [i \in I |-> s[i]]
<1>1. Len(s) \in Nat /\ DOMAIN s = I
  BY SeqIs DEF Table
<1>2. IsFiniteSet(I) /\ Cardinality(I) = Len(s)
  BY <1>1, CountingTo
<1>3. f \in Bijection(I, Rows(s))
  <2>1. f \in [I -> Rows(s)]
    BY <1>1 DEF Rows
  <2>2. ASSUME NEW i \in I, NEW j \in I, f[i] = f[j] PROVE i = j
    BY <1>1, <2>2, RowsApart
  <2>3. \A x \in Rows(s) : \E i \in I : f[i] = x
    BY <1>1 DEF Rows
  <2>. QED  BY <2>1, <2>2, <2>3 DEF Bijection, Injection, Surjection, IsInjective
<1>4. ExistsBijection(I, Rows(s))
  BY <1>3 DEF ExistsBijection
<1>. QED  BY <1>2, <1>4, FS_Bijection

\* A table is determined by its rows.
LEMMA SameTable ==
  ASSUME NEW s, NEW t, Table(s), Table(t), Rows(s) = Rows(t)
  PROVE  s = t
<1> DEFINE N == Len(s)
           D == {i \in 1 .. N : s[i] # t[i]}
<1>1. Len(t) = N
  BY RowsCounted
<1>2. /\ N \in Nat /\ DOMAIN s = 1 .. N /\ DOMAIN t = 1 .. N
      /\ s = [i \in 1 .. N |-> s[i]] /\ t = [i \in 1 .. N |-> t[i]]
  BY <1>1, SeqIs DEF Table
<1> HIDE DEF N
<1>3. D = {}
  <2> SUFFICES ASSUME D # {} PROVE FALSE
    OBVIOUS
  <2>1. D \subseteq Nat
    BY <1>2
  <2>2. PICK i \in D : \A k \in D : i <= k
    BY <2>1, LeastElement
  <2>3. i \in 1 .. N /\ s[i] # t[i]
    OBVIOUS
  <2>4. ASSUME NEW k \in 1 .. N, k < i PROVE s[k] = t[k]
    BY <2>2, <2>3, <2>4, <1>2
  <2> HIDE DEF D
  <2>a. s[i] \in Rows(t) /\ t[i] \in Rows(s)
    <3>1. i \in DOMAIN s /\ i \in DOMAIN t
      BY <1>2, <2>3
    <3>. QED  BY <3>1 DEF Rows
  <2>5. PICK j \in 1 .. N : t[j] = s[i]
    BY <1>2, <2>a DEF Rows
  <2>6. PICK k \in 1 .. N : s[k] = t[i]
    BY <1>2, <2>a DEF Rows
  <2>7. s[i].number \in Nat /\ t[i].number \in Nat
    BY <1>2, <2>3 DEF Table
  <2>8. CASE s[i].number < t[i].number
    <3>1. j < i
      BY <1>2, <2>3, <2>5, <2>8, RowsApart
    <3>2. s[j] = s[i]
      BY <2>4, <2>5, <3>1
    <3>3. j = i
      BY <1>2, <2>3, <3>2, RowsApart
    <3>. QED  BY <2>3, <3>1, <3>3, <1>2
  <2>9. CASE t[i].number < s[i].number
    <3>1. k < i
      BY <1>2, <2>3, <2>6, <2>9, RowsApart
    <3>2. t[k] = t[i]
      BY <2>4, <2>6, <3>1
    <3>3. k = i
      BY <1>2, <2>3, <3>2, RowsApart
    <3>. QED  BY <2>3, <3>1, <3>3, <1>2
  <2>10. CASE s[i].number = t[i].number
    <3>1. j = i
      BY <1>2, <2>3, <2>5, <2>10, RowsApart
    <3>. QED  BY <2>3, <2>5, <3>1
  <2>. QED  BY <2>7, <2>8, <2>9, <2>10
<1>4. \A i \in 1 .. N : s[i] = t[i]
  BY <1>3
<1>. QED  BY <1>2, <1>4

Rising(s) == \A i, j \in DOMAIN s : i < j => s[i] < s[j]

\* Every finite set of numbers can be put in order.
LEMMA RisingExists ==
  ASSUME NEW S, S \subseteq Nat, IsFiniteSet(S)
  PROVE  \E s \in [1 .. Cardinality(S) -> S] : Rising(s)
<1> DEFINE Listed(T) == \E s \in [1 .. Cardinality(T) -> T] : Rising(s)
           Bad == {Cardinality(T) : T \in {U \in SUBSET Nat : IsFiniteSet(U) /\ ~Listed(U)}}
<1> HIDE DEF Listed
<1>1. Bad \subseteq Nat
  BY FS_CardinalityType
<1>2. Bad = {}
  <2> SUFFICES ASSUME Bad # {} PROVE FALSE
    OBVIOUS
  <2>1. PICK k \in Bad : \A j \in Bad : k <= j
    BY <1>1, LeastElement
  <2>2. PICK T \in SUBSET Nat : IsFiniteSet(T) /\ ~Listed(T) /\ k = Cardinality(T)
    OBVIOUS
  <2>3. k \in Nat
    BY <1>1
  <2>4. ASSUME NEW U \in SUBSET Nat, IsFiniteSet(U), Cardinality(U) < k PROVE Listed(U)
    <3>1. Cardinality(U) \in Nat
      BY <2>4, FS_CardinalityType
    <3>2. Cardinality(U) \notin Bad
      BY <2>1, <2>3, <2>4, <3>1
    <3>. QED  BY <2>4, <3>2
  <2> HIDE DEF Bad
  <2>5. CASE k = 0
    <3>1. T = {}
      BY <2>2, <2>5, FS_EmptySet
    <3> DEFINE e == [i \in 1 .. 0 |-> 0]
    <3>2. e \in [1 .. 0 -> T] /\ DOMAIN e = {}
      OBVIOUS
    <3>3. Rising(e)
      BY <3>2 DEF Rising
    <3>. QED  BY <2>2, <2>5, <3>2, <3>3 DEF Listed
  <2>6. CASE k # 0
    <3>1. T # {}
      BY <2>2, <2>6, FS_EmptySet
    <3>2. PICK x \in T : \A y \in T : x <= y
      BY <3>1, LeastElement
    <3> DEFINE U == T \ {x}
    <3>3. IsFiniteSet(U) /\ Cardinality(U) = k - 1
      BY <2>2, FS_RemoveElement
    <3>4. PICK t \in [1 .. k - 1 -> U] : Rising(t)
      <4>1. k - 1 < k
        BY <2>3
      <4>2. Listed(U)
        BY <2>4, <3>3, <4>1
      <4>. QED  BY <3>3, <4>2 DEF Listed
    <3> DEFINE s == [i \in 1 .. k |-> IF i = 1 THEN x ELSE t[i - 1]]
    <3>5. ASSUME NEW i \in 2 .. k PROVE i \in 1 .. k /\ i - 1 \in 1 .. k - 1 /\ i # 1
      BY <2>3
    <3>6. s \in [1 .. k -> T]
      <4>1. ASSUME NEW i \in 1 .. k PROVE s[i] \in T
        <5>1. CASE i = 1
          BY <5>1
        <5>2. CASE i # 1
          <6>1. i \in 2 .. k
            BY <2>3, <5>2
          <6>. QED  BY <3>5, <6>1
        <5>. QED  BY <5>1, <5>2
      <4>. QED  BY <4>1
    <3>7. ASSUME NEW i \in 1 .. k, NEW j \in 1 .. k, i < j PROVE s[i] < s[j]
      <4>1. j \in 2 .. k
        BY <2>3, <3>7
      <4>2. s[j] = t[j - 1] /\ t[j - 1] \in U
        BY <3>5, <4>1
      <4>3. CASE i = 1
        <5>1. s[i] = x /\ x <= t[j - 1] /\ x # t[j - 1] /\ x \in Nat /\ t[j - 1] \in Nat
          BY <3>2, <4>2, <4>3
        <5>. QED  BY <4>2, <5>1
      <4>4. CASE i # 1
        <5>1. i \in 2 .. k
          BY <2>3, <4>4
        <5>2. s[i] = t[i - 1]
          BY <3>5, <5>1
        <5>3. i - 1 \in DOMAIN t /\ j - 1 \in DOMAIN t /\ i - 1 < j - 1
          BY <3>5, <3>7, <4>1, <5>1, <2>3
        <5>4. t[i - 1] < t[j - 1]
          BY <3>4, <5>3 DEF Rising
        <5>. QED  BY <4>2, <5>2, <5>4
      <4>. QED  BY <4>3, <4>4
    <3>8. Rising(s)
      <4>1. DOMAIN s = 1 .. k
        OBVIOUS
      <4> HIDE DEF s
      <4>. QED  BY <3>7, <4>1 DEF Rising
    <3> HIDE DEF s
    <3>. QED  BY <2>2, <3>6, <3>8 DEF Listed
  <2>. QED  BY <2>5, <2>6
<1>3. Listed(S)
  BY <1>2
<1>. QED  BY <1>3 DEF Listed

\* Ascending(S) is such an order, and names every number of S.
LEMMA AscendingIs ==
  ASSUME NEW S, S \subseteq Nat, IsFiniteSet(S)
  PROVE  /\ Cardinality(S) \in Nat
         /\ Ascending(S) \in [1 .. Cardinality(S) -> S]
         /\ Rising(Ascending(S))
         /\ \A x \in S : \E i \in 1 .. Cardinality(S) : Ascending(S)[i] = x
<1> DEFINE N == Cardinality(S)
           a == Ascending(S)
<1>1. N \in Nat
  BY FS_CardinalityType
<1>2. a = CHOOSE s \in [1 .. N -> S] : Rising(s)
  BY DEF Ascending, Rising
<1>3. \E s \in [1 .. N -> S] : Rising(s)
  BY RisingExists
<1>4. a \in [1 .. N -> S] /\ Rising(a)
  BY <1>2, <1>3
<1> HIDE DEF a
<1>5. ASSUME NEW i \in 1 .. N, NEW j \in 1 .. N, a[i] = a[j] PROVE i = j
  <2>1. a[i] \in Nat /\ a[j] \in Nat
    BY <1>4
  <2>2. i < j \/ i = j \/ j < i
    BY <1>1
  <2>. QED  BY <1>4, <1>5, <2>1, <2>2 DEF Rising
<1>6. a \in Injection(1 .. N, S)
  BY <1>4, <1>5 DEF Injection, IsInjective
<1>7. IsFiniteSet(1 .. N) /\ Cardinality(1 .. N) = N
  BY <1>1, FS_Interval
<1>8. a \in Surjection(1 .. N, S)
  BY <1>6, <1>7, FS_Injection
<1>. QED  BY <1>1, <1>4, <1>8 DEF Surjection, a

\* What Tabled(f) is, if f files every row under its number.
LEMMA TabledIs ==
  ASSUME NEW f, DOMAIN f \subseteq Nat, IsFiniteSet(DOMAIN f),
         \A n \in DOMAIN f : f[n].number = n
  PROVE  /\ Table(Tabled(f)) /\ Rows(Tabled(f)) = {f[n] : n \in DOMAIN f}
         /\ Len(Tabled(f)) = Cardinality(DOMAIN f)
         /\ DOMAIN Tabled(f) = 1 .. Cardinality(DOMAIN f)
<1> DEFINE N == Cardinality(DOMAIN f)
           a == Ascending(DOMAIN f)
           s == Tabled(f)
<1>1. /\ N \in Nat /\ a \in [1 .. N -> DOMAIN f] /\ Rising(a)
      /\ \A x \in DOMAIN f : \E i \in 1 .. N : a[i] = x
  BY AscendingIs
<1>2. s = [i \in 1 .. N |-> f[a[i]]]
  BY DEF Tabled
<1> HIDE DEF N, a, s
<1>3. s = [i \in 1 .. N |-> s[i]] /\ DOMAIN s = 1 .. N
  BY <1>2
<1>4. IsSeq(s) /\ Len(s) = N
  BY <1>1, <1>3, IsSeqOf
<1>5. ASSUME NEW i \in 1 .. N PROVE s[i].number = a[i] /\ a[i] \in Nat
  BY <1>1, <1>2
<1>6. ASSUME NEW i \in 1 .. N, NEW j \in 1 .. N, i < j
      PROVE  s[i].number < s[j].number
  <2>1. a[i] < a[j]
    BY <1>1, <1>6 DEF Rising
  <2>. QED  BY <1>5, <2>1
<1>7. Table(s)
  BY <1>3, <1>4, <1>5, <1>6 DEF Table
<1>8. Rows(s) = {f[n] : n \in DOMAIN f}
  BY SMTT(30), <1>1, <1>2, <1>3 DEF Rows
<1>. QED  BY <1>3, <1>4, <1>7, <1>8 DEF N, s

\* A sequence of rows with ascending numbers that has the rows of f is f's table.
LEMMA IsTabled ==
  ASSUME NEW f, DOMAIN f \subseteq Nat, IsFiniteSet(DOMAIN f),
         \A n \in DOMAIN f : f[n].number = n,
         NEW s, Table(s), Rows(s) = {f[n] : n \in DOMAIN f}
  PROVE  s = Tabled(f)
BY TabledIs, SameTable

-----------------------------------------------------------------------------
(* What the edits of an index or an array do to the rows of a table.        *)

\* A sequence on 1 .. k whose numbers ascend is a table.
LEMMA TableOf ==
  ASSUME NEW s, NEW k \in Nat, s = [i \in 1 .. k |-> s[i]],
         \A i \in 1 .. k : s[i].number \in Nat,
         \A i, j \in 1 .. k : i < j => s[i].number < s[j].number
  PROVE  Table(s) /\ Len(s) = k /\ DOMAIN s = 1 .. k
<1>1. IsSeq(s) /\ Len(s) = k
  BY IsSeqOf
<1>2. DOMAIN s = 1 .. k
  BY <1>1, SeqIs
<1>. QED  BY <1>1, <1>2 DEF Table

LEMMA SeqFunction ==
  ASSUME NEW s, IsSeq(s), NEW k, Len(s) = k
  PROVE  k \in Nat /\ DOMAIN s = 1 .. k /\ s = [i \in 1 .. k |-> s[i]]
BY SeqIs

\* At(s, n): the place of row n, or the place where it belongs.
LEMMA AtIs ==
  ASSUME NEW s, Table(s), NEW n \in Nat
  PROVE  /\ At(s, n) \in 1 .. Len(s) + 1
         /\ \A i \in DOMAIN s : i < At(s, n) <=> s[i].number < n
         /\ Holds(s, n) <=> \E e \in Rows(s) : e.number = n
         /\ Holds(s, n) => At(s, n) \in DOMAIN s /\ s[At(s, n)].number = n
<1> DEFINE T == {i \in DOMAIN s : s[i].number >= n} \cup {Len(s) + 1}
           p == At(s, n)
<1>1. Len(s) \in Nat /\ DOMAIN s = 1 .. Len(s) /\ \A i \in DOMAIN s : s[i].number \in Nat
  BY SeqIs DEF Table
<1>2. T \subseteq Nat /\ T # {}
  BY <1>1
<1>3. p \in T /\ \A k \in T : p <= k
  <2>1. p = Lowest(T)
    BY DEF At
  <2>. QED  BY <1>2, <2>1, LowestIsLeast
<1> HIDE DEF p
<1>4. p \in 1 .. Len(s) + 1
  BY <1>1, <1>3
<1>5. ASSUME NEW i \in DOMAIN s PROVE i < p <=> s[i].number < n
  <2>1. ASSUME i < p PROVE s[i].number < n
    <3>1. i \notin T
      BY <1>1, <1>3, <1>4, <2>1
    <3>. QED  BY <1>1, <3>1
  <2>2. ASSUME ~(i < p) PROVE ~(s[i].number < n)
    <3>1. p \in DOMAIN s /\ s[p].number >= n
      BY <1>1, <1>3, <1>4, <2>2
    <3>2. p < i \/ p = i
      BY <1>1, <1>4, <2>2
    <3>3. s[p].number <= s[i].number
      BY <1>1, <3>1, <3>2, RowsApart
    <3>. QED  BY <1>1, <3>1, <3>3
  <2>. QED  BY <2>1, <2>2
<1>6. Holds(s, n) <=> p \in DOMAIN s /\ s[p].number = n
  BY DEF Holds, p
<1>7. ASSUME NEW e \in Rows(s), e.number = n PROVE Holds(s, n)
  <2>1. PICK i \in DOMAIN s : e = s[i]
    BY DEF Rows
  <2>2. ~(i < p)
    BY <1>5, <1>7, <2>1, <1>1
  <2>3. p \in DOMAIN s
    BY <1>1, <1>4, <2>1, <2>2
  <2>4. s[p].number >= n
    BY <1>1, <1>3, <2>3
  <2>5. ~(p < i)
    BY <1>1, <1>7, <2>1, <2>3, <2>4, RowsApart
  <2>6. p = i
    BY <1>1, <1>4, <2>2, <2>5
  <2>. QED  BY <1>6, <1>7, <2>1, <2>3, <2>6
<1>. QED  BY <1>4, <1>5, <1>6, <1>7 DEF Rows, p

\* set_line: the row of number n is replaced, or put where it belongs.
LEMMA PutLineIs ==
  ASSUME NEW s, Table(s), NEW n \in Nat, NEW line, line.number = n
  PROVE  /\ Table(PutLine(s, n, line))
         /\ Rows(PutLine(s, n, line)) = {e \in Rows(s) : e.number # n} \cup {line}
         /\ Len(PutLine(s, n, line)) = IF Holds(s, n) THEN Len(s) ELSE Len(s) + 1
<1> DEFINE p == At(s, n)
           t == PutLine(s, n, line)
           N == Len(s)
<1>1. N \in Nat /\ DOMAIN s = 1 .. N /\ \A i \in DOMAIN s : s[i].number \in Nat
  BY SeqIs DEF Table
<1>2. /\ p \in 1 .. N + 1
      /\ \A i \in DOMAIN s : i < p <=> s[i].number < n
      /\ Holds(s, n) <=> \E e \in Rows(s) : e.number = n
      /\ Holds(s, n) => p \in DOMAIN s /\ s[p].number = n
  BY AtIs
<1>3. IsSeq(s) /\ s = [i \in 1 .. N |-> s[i]]
  BY SeqIs DEF Table
<1>4. t = IF Holds(s, n) THEN [s EXCEPT ![p] = line] ELSE InsertAt(s, p, line)
  BY DEF PutLine
<1> HIDE DEF p, t, N
<1>5. CASE Holds(s, n)
  <2>1. t = [i \in 1 .. N |-> IF i = p THEN line ELSE s[i]]
    BY <1>1, <1>3, <1>4, <1>5
  <2>2. p \in 1 .. N /\ s[p].number = n
    BY <1>1, <1>2, <1>5
  <2>3. t = [i \in 1 .. N |-> t[i]] /\ \A i \in 1 .. N : t[i].number = s[i].number
    BY <2>1, <2>2
  <2>4. \A i, j \in 1 .. N : i < j => t[i].number < t[j].number
    BY <1>1, <2>3 DEF Table
  <2>5. Table(t) /\ Len(t) = N /\ DOMAIN t = 1 .. N
    BY <1>1, <2>3, <2>4, TableOf
  <2>6. \A i \in 1 .. N : s[i].number = n <=> i = p
    BY <1>1, <2>2, RowsApart
  <2>7. Rows(t) = {e \in Rows(s) : e.number # n} \cup {line}
    <3>1. ASSUME NEW i \in 1 .. N
          PROVE  t[i] \in {e \in Rows(s) : e.number # n} \cup {line}
      BY <1>1, <2>1, <2>6 DEF Rows
    <3>2. ASSUME NEW e \in Rows(s), e.number # n PROVE \E i \in 1 .. N : t[i] = e
      BY <1>1, <2>1, <2>6, <3>2 DEF Rows
    <3>3. t[p] = line
      BY <2>1, <2>2
    <3>. QED  BY <2>2, <2>5, <3>1, <3>2, <3>3 DEF Rows
  <2>. QED  BY <1>5, <2>5, <2>7 DEF t, N
<1>6. CASE ~Holds(s, n)
  <2>1. /\ IsSeq(t) /\ Len(t) = N + 1
        /\ \A i \in 1 .. N + 1 : t[i] = IF i < p THEN s[i] ELSE IF i = p THEN line ELSE s[i - 1]
    BY <1>2, <1>3, <1>4, <1>6, InsertIs DEF N
  <2>2. t = [i \in 1 .. N + 1 |-> t[i]] /\ N + 1 \in Nat
    BY <2>1, SeqFunction
  <2>3. \A i \in 1 .. N : s[i].number # n
    BY <1>1, <1>2, <1>6 DEF Rows
  <2>4. \A i \in 1 .. N : (i < p => s[i].number < n) /\ (~(i < p) => n < s[i].number)
    BY <1>1, <1>2, <2>3
  <2>5. ASSUME NEW i \in 1 .. N + 1
        PROVE  /\ i < p => i \in 1 .. N /\ t[i] = s[i]
               /\ i = p => t[i] = line
               /\ p < i => i - 1 \in 1 .. N /\ ~(i - 1 < p) /\ t[i] = s[i - 1]
    BY <1>1, <1>2, <2>1
  <2>6. \A i \in 1 .. N + 1 : t[i].number \in Nat
    BY <1>1, <1>2, <2>5
  <2>7. ASSUME NEW i \in 1 .. N + 1, NEW j \in 1 .. N + 1, i < j
        PROVE  t[i].number < t[j].number
    <3>1. p \in Nat /\ i \in Nat /\ j \in Nat
      BY <1>1, <1>2
    <3>2. CASE j < p
      <4>1. i < p
        BY <2>7, <3>1, <3>2
      <4>. QED  BY <1>1, <2>5, <2>7, <3>2, <4>1 DEF Table
    <3>3. CASE j = p
      BY <2>4, <2>5, <2>7, <3>3
    <3>4. CASE p < j
      <4>1. CASE i < p
        <5>1. t[i] = s[i] /\ i \in 1 .. N /\ t[j] = s[j - 1] /\ j - 1 \in 1 .. N /\ i < j - 1
          BY <2>5, <3>1, <3>4, <4>1
        <5>. QED  BY <1>1, <5>1 DEF Table
      <4>2. CASE i = p
        BY <2>4, <2>5, <3>4, <4>2
      <4>3. CASE p < i
        <5>1. t[i] = s[i - 1] /\ i - 1 \in 1 .. N /\ t[j] = s[j - 1] /\ j - 1 \in 1 .. N
              /\ i - 1 < j - 1
          BY <2>5, <2>7, <3>1, <3>4, <4>3
        <5>. QED  BY <1>1, <5>1 DEF Table
      <4>. QED  BY <3>1, <4>1, <4>2, <4>3
    <3>. QED  BY <3>1, <3>2, <3>3, <3>4
  <2>8. Table(t) /\ DOMAIN t = 1 .. N + 1
    BY <2>2, <2>6, <2>7, TableOf
  <2>9. Rows(t) = {e \in Rows(s) : e.number # n} \cup {line}
    <3>1. ASSUME NEW i \in 1 .. N + 1
          PROVE  t[i] \in {e \in Rows(s) : e.number # n} \cup {line}
      <4>1. i < p \/ i = p \/ p < i
        BY <1>1, <1>2
      <4>. QED  BY <1>1, <2>3, <2>5, <4>1 DEF Rows
    <3>2. ASSUME NEW i \in 1 .. N PROVE \E j \in 1 .. N + 1 : t[j] = s[i]
      <4>1. CASE i < p
        <5>1. i \in 1 .. N + 1
          BY <1>1
        <5>. QED  BY <2>5, <4>1, <5>1
      <4>2. CASE ~(i < p)
        <5>1. i + 1 \in 1 .. N + 1 /\ p < i + 1 /\ i + 1 - 1 = i
          BY <1>1, <1>2, <4>2
        <5>2. t[i + 1] = s[i + 1 - 1]
          BY <2>5, <5>1
        <5>. QED  BY <5>1, <5>2
      <4>. QED  BY <4>1, <4>2
    <3>3. t[p] = line /\ p \in 1 .. N + 1
      BY <1>2, <2>5
    <3>4. Rows(t) \subseteq {e \in Rows(s) : e.number # n} \cup {line}
      BY <2>8, <3>1 DEF Rows
    <3>5. {e \in Rows(s) : e.number # n} \cup {line} \subseteq Rows(t)
      BY <1>1, <2>8, <3>2, <3>3 DEF Rows
    <3>. QED  BY <3>4, <3>5
  <2>. QED  BY <1>6, <2>1, <2>8, <2>9 DEF t, N
<1>. QED  BY <1>5, <1>6

\* erase_line: the row of number n goes.
LEMMA RemoveLineIs ==
  ASSUME NEW s, Table(s), NEW n \in Nat, Holds(s, n)
  PROVE  /\ Table(RemoveAt(s, At(s, n)))
         /\ Rows(RemoveAt(s, At(s, n))) = {e \in Rows(s) : e.number # n}
<1> DEFINE p == At(s, n)
           t == RemoveAt(s, p)
           N == Len(s)
<1>1. N \in Nat /\ DOMAIN s = 1 .. N /\ \A i \in DOMAIN s : s[i].number \in Nat
  BY SeqIs DEF Table
<1>2. p \in 1 .. N /\ s[p].number = n
  BY <1>1, AtIs
<1>3. IsSeq(s)
  BY DEF Table
<1> HIDE DEF p, N
<1>4. /\ IsSeq(t) /\ Len(t) = N - 1
      /\ \A i \in 1 .. N - 1 : t[i] = IF i < p THEN s[i] ELSE s[i + 1]
  BY <1>2, <1>3, RemoveIs DEF N
<1> HIDE DEF t
<1>5. t = [i \in 1 .. N - 1 |-> t[i]] /\ N - 1 \in Nat
  BY <1>4, SeqFunction
<1>6. ASSUME NEW i \in 1 .. N - 1
      PROVE  /\ i < p => i \in 1 .. N /\ t[i] = s[i]
             /\ ~(i < p) => i + 1 \in 1 .. N /\ p < i + 1 /\ t[i] = s[i + 1]
  BY <1>1, <1>2, <1>4
<1>7. \A i \in 1 .. N - 1 : t[i].number \in Nat
  BY <1>1, <1>6
<1>8. ASSUME NEW i \in 1 .. N - 1, NEW j \in 1 .. N - 1, i < j
      PROVE  t[i].number < t[j].number
  <2>1. p \in Nat /\ i \in Nat /\ j \in Nat
    BY <1>1, <1>2
  <2>2. CASE j < p
    <3>1. i < p
      BY <1>8, <2>1, <2>2
    <3>. QED  BY <1>1, <1>6, <1>8, <2>2, <3>1 DEF Table
  <2>3. CASE ~(j < p) /\ i < p
    <3>1. i < j + 1
      BY <1>8, <2>1
    <3>. QED  BY <1>1, <1>6, <2>3, <3>1 DEF Table
  <2>4. CASE ~(j < p) /\ ~(i < p)
    <3>1. i + 1 < j + 1
      BY <1>8, <2>1
    <3>. QED  BY <1>1, <1>6, <2>4, <3>1 DEF Table
  <2>. QED  BY <2>2, <2>3, <2>4
<1>9. Table(t) /\ DOMAIN t = 1 .. N - 1
  BY <1>5, <1>7, <1>8, TableOf
<1>10. \A i \in 1 .. N : s[i].number = n <=> i = p
  BY <1>1, <1>2, RowsApart
<1>11. Rows(t) \subseteq {e \in Rows(s) : e.number # n}
  <2>1. ASSUME NEW i \in 1 .. N - 1 PROVE t[i] \in {e \in Rows(s) : e.number # n}
    <3>1. CASE i < p
      <4>1. i # p
        BY <1>2, <3>1
      <4>. QED  BY <1>1, <1>6, <1>10, <3>1, <4>1 DEF Rows
    <3>2. CASE ~(i < p)
      <4>1. i + 1 # p
        BY <1>1, <1>2, <3>2
      <4>. QED  BY <1>1, <1>6, <1>10, <3>2, <4>1 DEF Rows
    <3>. QED  BY <3>1, <3>2
  <2>. QED  BY <1>9, <2>1 DEF Rows
<1>12. ASSUME NEW i \in 1 .. N, i # p PROVE \E j \in 1 .. N - 1 : t[j] = s[i]
  <2>1. CASE i < p
    <3>1. i \in 1 .. N - 1
      BY <1>1, <1>2, <2>1
    <3>. QED  BY <1>6, <2>1, <3>1
  <2>2. CASE ~(i < p)
    <3>1. i - 1 \in 1 .. N - 1 /\ ~(i - 1 < p) /\ i - 1 + 1 = i
      BY <1>1, <1>2, <1>12, <2>2
    <3>2. t[i - 1] = s[i - 1 + 1]
      BY <1>6, <3>1
    <3>. QED  BY <3>1, <3>2
  <2>. QED  BY <2>1, <2>2
<1>13. {e \in Rows(s) : e.number # n} \subseteq Rows(t)
  BY <1>1, <1>2, <1>9, <1>12 DEF Rows
<1>. QED  BY <1>9, <1>11, <1>13 DEF t, p

\* The rows an edit does not name.
LEMMA UnchangingIs ==
  ASSUME NEW s, Table(s), NEW edit
  PROVE  /\ Table(Unchanging(s, edit))
         /\ Rows(Unchanging(s, edit)) = {e \in Rows(s) : e.number \notin DOMAIN edit}
         /\ Len(Unchanging(s, edit))
              = Cardinality({i \in DOMAIN s : s[i].number \notin DOMAIN edit})
<1> DEFINE I == {i \in DOMAIN s : s[i].number \notin DOMAIN edit}
           a == Ascending(I)
           k == Cardinality(I)
           t == Unchanging(s, edit)
<1>1. /\ Len(s) \in Nat /\ DOMAIN s = 1 .. Len(s)
      /\ \A i \in DOMAIN s : s[i].number \in Nat
  BY SeqIs DEF Table
<1>2. I \subseteq Nat /\ IsFiniteSet(I)
  <2>1. IsFiniteSet(1 .. Len(s))
    BY <1>1, CountingTo
  <2>. QED  BY <1>1, <2>1, FS_Subset
<1>3. t = [i \in DOMAIN a |-> s[a[i]]]
  BY DEF Unchanging
<1> HIDE DEF I
<1>4. /\ k \in Nat /\ a \in [1 .. k -> I] /\ Rising(a)
      /\ \A x \in I : \E i \in 1 .. k : a[i] = x
  BY <1>2, AscendingIs
<1> HIDE DEF a, t, k
<1>5. t = [i \in 1 .. k |-> s[a[i]]]
  BY <1>3, <1>4
<1>6. t = [i \in 1 .. k |-> t[i]]
  BY <1>5
<1>7. ASSUME NEW i \in 1 .. k PROVE a[i] \in DOMAIN s /\ t[i] = s[a[i]] /\ t[i].number \in Nat
  BY <1>1, <1>4, <1>5 DEF I
<1>8. ASSUME NEW i \in 1 .. k, NEW j \in 1 .. k, i < j PROVE t[i].number < t[j].number
  <2>1. a[i] < a[j]
    BY <1>4, <1>8 DEF Rising
  <2>. QED  BY <1>7, <2>1 DEF Table
<1>9. Table(t) /\ DOMAIN t = 1 .. k /\ Len(t) = k
  BY <1>4, <1>6, <1>7, <1>8, TableOf
<1>10. Rows(t) = {s[i] : i \in I}
  BY <1>4, <1>5, <1>9 DEF Rows
<1>11. {s[i] : i \in I} = {e \in Rows(s) : e.number \notin DOMAIN edit}
  BY DEF Rows, I
<1>. QED  BY <1>9, <1>10, <1>11 DEF t, k, I

\* std::sort of entries with different numbers.
LEMMA InOrderIs ==
  ASSUME NEW s, IsSeq(s), \A i \in DOMAIN s : s[i].number \in Nat,
         \A i, j \in DOMAIN s : s[i].number = s[j].number => i = j
  PROVE  Table(InOrder(s)) /\ Rows(InOrder(s)) = Rows(s)
<1> DEFINE N == Len(s)
           I == DOMAIN s
           S == {s[i].number : i \in I}
           P(p) == \A i, j \in I : i < j => p[i] # p[j] /\ s[p[i]].number <= s[p[j]].number
           from == CHOOSE p \in [I -> I] : P(p)
           t == InOrder(s)
<1>1. N \in Nat /\ I = 1 .. N
  BY SeqIs
<1>2. IsFiniteSet(I) /\ Cardinality(I) = N
  BY <1>1, CountingTo
<1>3. S \subseteq Nat /\ IsFiniteSet(S) /\ Cardinality(S) = N
  <2> DEFINE f == [i \in I |-> s[i].number]
  <2>1. f \in Bijection(I, S)
    <3>1. f \in [I -> S]
      OBVIOUS
    <3>2. ASSUME NEW i \in I, NEW j \in I, f[i] = f[j] PROVE i = j
      BY <3>2
    <3>3. \A x \in S : \E i \in I : f[i] = x
      OBVIOUS
    <3>. QED  BY <3>1, <3>2, <3>3 DEF Bijection, Injection, Surjection, IsInjective
  <2>2. ExistsBijection(I, S)
    BY <2>1 DEF ExistsBijection
  <2>. QED  BY <1>2, <2>2, FS_Bijection
<1> DEFINE a == Ascending(S)
<1>4. a \in [1 .. N -> S] /\ Rising(a)
  BY <1>3, AscendingIs
<1> HIDE DEF a
<1>5. \E p \in [I -> I] : P(p)
  <2> DEFINE q == [i \in I |-> CHOOSE j \in I : s[j].number = a[i]]
  <2>1. ASSUME NEW i \in I PROVE q[i] \in I /\ s[q[i]].number = a[i]
    <3>1. a[i] \in S
      BY <1>1, <1>4
    <3>2. \E j \in I : s[j].number = a[i]
      BY <3>1
    <3>. QED  BY <3>2
  <2>2. q \in [I -> I]
    BY <2>1
  <2> HIDE DEF q
  <2>3. ASSUME NEW i \in I, NEW j \in I, i < j
        PROVE  q[i] # q[j] /\ s[q[i]].number <= s[q[j]].number
    <3>1. a[i] < a[j]
      BY <1>1, <1>4, <2>3 DEF Rising
    <3>2. a[i] \in Nat /\ a[j] \in Nat
      BY <1>1, <1>3, <1>4
    <3>. QED  BY <2>1, <3>1, <3>2
  <2>. QED  BY <2>2, <2>3
<1>6. from \in [I -> I] /\ P(from)
  BY <1>5
<1>7. t = [i \in I |-> s[from[i]]]
  BY DEF InOrder
<1> HIDE DEF from, t
<1>8. from \in Surjection(I, I)
  <2>1. ASSUME NEW i \in I, NEW j \in I, from[i] = from[j] PROVE i = j
    <3>1. i < j \/ i = j \/ j < i
      BY <1>1
    <3>. QED  BY <1>6, <2>1, <3>1
  <2>2. from \in Injection(I, I)
    BY <1>6, <2>1 DEF Injection, IsInjective
  <2>. QED  BY <1>2, <2>2, FS_Injection
<1>9. t = [i \in 1 .. N |-> t[i]]
  BY <1>1, <1>7
<1>10. ASSUME NEW i \in I PROVE t[i] = s[from[i]] /\ from[i] \in I /\ t[i].number \in Nat
  BY <1>6, <1>7
<1>11. ASSUME NEW i \in I, NEW j \in I, i < j PROVE t[i].number < t[j].number
  <2>1. from[i] # from[j] /\ s[from[i]].number <= s[from[j]].number
    BY <1>6, <1>11
  <2>2. s[from[i]].number # s[from[j]].number
    BY <1>10, <2>1
  <2>. QED  BY SMTT(30), <1>10, <2>1, <2>2
<1>12. Table(t) /\ DOMAIN t = I
  BY <1>1, <1>9, <1>10, <1>11, TableOf
<1>13. Rows(t) = Rows(s)
  <2>1. \A j \in I : \E i \in I : from[i] = j
    BY <1>8 DEF Surjection
  <2>2. ASSUME NEW i \in I PROVE t[i] \in Rows(s)
    BY <1>10 DEF Rows
  <2>3. ASSUME NEW j \in I PROVE s[j] \in Rows(t)
    <3>1. PICK i \in I : from[i] = j
      BY <2>1
    <3>2. t[i] = s[j] /\ i \in DOMAIN t
      BY <1>10, <1>12, <3>1
    <3>3. t[i] \in Rows(t)
      BY <3>2 DEF Rows
    <3>. QED  BY <3>2, <3>3
  <2>4. Rows(t) \subseteq Rows(s)
    BY <1>12, <2>2 DEF Rows
  <2>5. Rows(s) \subseteq Rows(t)
    BY <2>3 DEF Rows
  <2>. QED  BY <2>4, <2>5
<1>. QED  BY <1>12, <1>13 DEF t

-----------------------------------------------------------------------------
(* A program and the places it is kept in.                                  *)

Whole(p) == p \in Program /\ IsFiniteSet(DOMAIN p)

LineRows(p) == {[number |-> n, text |-> p[n]] : n \in DOMAIN p}

\* The SRAM array.
Arrayed(s, p) == Table(s) /\ Rows(s) = LineRows(p)

\* The index: an entry for every line, with the hash of its text, and a slot
\* of its own.
Filed(ix, p) ==
    /\ Table(ix)
    /\ \A e \in Rows(ix) : /\ e.number \in DOMAIN p /\ e.hash = p[e.number]
                           /\ e.slot \in 1 .. Slots
    /\ \A n \in DOMAIN p : \E e \in Rows(ix) : e.number = n
    /\ \A d, e \in Rows(ix) : d.slot = e.slot => d = e

\* Every entry's slot holds its text.
Texts(m, b, ix) ==
    \A e \in Rows(ix) : m[b + e.slot] = [by |-> "ProgramStore", data |-> e.hash]

Stored(m, b, p) == Filed(m[b].data, p) /\ Texts(m, b, m[b].data)

\* A program is a finite function from numbers to texts.
LEMMA WholeIs ==
  ASSUME NEW p
  PROVE  Whole(p) <=> /\ DOMAIN p \subseteq Number /\ IsFiniteSet(DOMAIN p)
                      /\ p = [n \in DOMAIN p |-> p[n]]
                      /\ \A n \in DOMAIN p : p[n] \in Text
<1>1. ASSUME Whole(p)
      PROVE  /\ DOMAIN p \subseteq Number /\ IsFiniteSet(DOMAIN p)
             /\ p = [n \in DOMAIN p |-> p[n]]
             /\ \A n \in DOMAIN p : p[n] \in Text
  <2>1. PICK D \in SUBSET Number : p \in [D -> Text]
    BY <1>1 DEF Whole, Program
  <2>. QED  BY <1>1, <2>1 DEF Whole
<1>2. ASSUME /\ DOMAIN p \subseteq Number /\ IsFiniteSet(DOMAIN p)
             /\ p = [n \in DOMAIN p |-> p[n]]
             /\ \A n \in DOMAIN p : p[n] \in Text
      PROVE  Whole(p)
  <2>1. p \in [DOMAIN p -> Text]
    BY <1>2
  <2>. QED  BY <1>2, <2>1 DEF Whole, Program
<1>. QED  BY <1>1, <1>2

\* Lines(p) is the one table of the lines of p.
LEMMA LinesIs ==
  ASSUME NEW p, Whole(p)
  PROVE  /\ Arrayed(Lines(p), p)
         /\ Len(Lines(p)) = Cardinality(DOMAIN p)
         /\ DOMAIN Lines(p) = 1 .. Cardinality(DOMAIN p)
         /\ \A s : Arrayed(s, p) => s = Lines(p)
<1> DEFINE f == [n \in DOMAIN p |-> [number |-> n, text |-> p[n]]]
<1>1. DOMAIN f = DOMAIN p /\ DOMAIN f \subseteq Nat /\ IsFiniteSet(DOMAIN f)
  BY WholeIs, NumberAssumption
<1>2. \A n \in DOMAIN f : f[n].number = n
  OBVIOUS
<1>3. {f[n] : n \in DOMAIN f} = LineRows(p)
  BY DEF LineRows
<1>4. Lines(p) = Tabled(f)
  BY DEF Lines
<1> HIDE DEF f
<1>5. /\ Table(Tabled(f)) /\ Rows(Tabled(f)) = {f[n] : n \in DOMAIN f}
      /\ Len(Tabled(f)) = Cardinality(DOMAIN f)
      /\ DOMAIN Tabled(f) = 1 .. Cardinality(DOMAIN f)
  BY <1>1, <1>2, TabledIs
<1>6. \A s : Arrayed(s, p) => s = Lines(p)
  BY <1>1, <1>2, <1>3, <1>4, IsTabled DEF Arrayed
<1>. QED  BY <1>1, <1>3, <1>4, <1>5, <1>6 DEF Arrayed

\* A listing of the PSRAM store shows the program that is stored.
LEMMA ListingOfStored ==
  ASSUME NEW p, Whole(p), store = "psram", Stored(mem, IndexAt, p)
  PROVE  Listing = Lines(p)
<1> DEFINE ix == Index
           s == [i \in DOMAIN ix |-> [number |-> ix[i].number, text |-> EntryText(ix[i])]]
<1>1. Filed(ix, p) /\ Texts(mem, IndexAt, ix)
  BY DEF Stored, Index
<1>2. Listing = s
  BY DEF Listing
<1>3. /\ Len(ix) \in Nat /\ DOMAIN ix = 1 .. Len(ix)
      /\ \A i \in DOMAIN ix : ix[i].number \in Nat
      /\ \A i, j \in DOMAIN ix : i < j => ix[i].number < ix[j].number
  BY <1>1, SeqIs DEF Filed, Table
<1>4. ASSUME NEW i \in DOMAIN ix
      PROVE  /\ ix[i] \in Rows(ix) /\ ix[i].number \in DOMAIN p
             /\ s[i] = [number |-> ix[i].number, text |-> p[ix[i].number]]
  <2>1. ix[i] \in Rows(ix)
    BY DEF Rows
  <2>2. /\ ix[i].number \in DOMAIN p /\ ix[i].hash = p[ix[i].number]
        /\ mem[IndexAt + ix[i].slot] = [by |-> "ProgramStore", data |-> ix[i].hash]
    BY <1>1, <2>1 DEF Filed, Texts
  <2>3. EntryText(ix[i]) = ix[i].hash
    BY <2>2 DEF EntryText, Readable, SlotAt, IndexAt
  <2> HIDE DEF ix
  <2>. QED  BY <2>1, <2>2, <2>3
<1> HIDE DEF ix
<1>5. s = [i \in 1 .. Len(ix) |-> s[i]]
  BY <1>3
<1>6. \A i \in 1 .. Len(ix) : s[i].number = ix[i].number
  BY <1>3
<1> HIDE DEF s
<1>a. \A i \in 1 .. Len(ix) : s[i].number \in Nat
  BY <1>3, <1>6
<1>b. \A i, j \in 1 .. Len(ix) : i < j => s[i].number < s[j].number
  BY <1>3, <1>6
<1>7. Table(s) /\ DOMAIN s = 1 .. Len(ix)
  BY <1>3, <1>5, <1>a, <1>b, TableOf
<1>8. Rows(s) \subseteq LineRows(p)
  BY <1>3, <1>4, <1>7 DEF Rows, LineRows
<1>9. LineRows(p) \subseteq Rows(s)
  <2>1. ASSUME NEW n \in DOMAIN p PROVE [number |-> n, text |-> p[n]] \in Rows(s)
    <3>1. PICK i \in DOMAIN ix : ix[i].number = n
      BY <1>1 DEF Filed, Rows
    <3>2. s[i] = [number |-> n, text |-> p[n]] /\ i \in DOMAIN s
      BY <1>3, <1>4, <1>7, <3>1
    <3>. QED  BY <3>2 DEF Rows
  <2>. QED  BY <2>1 DEF LineRows
<1>10. Arrayed(s, p)
  BY <1>7, <1>8, <1>9 DEF Arrayed
<1>. QED  BY <1>2, <1>10, LinesIs

\* The slots of an index: as many as its lines, each free one unused.
LEMMA SlotsCounted ==
  ASSUME NEW ix, Table(ix),
         \A e \in Rows(ix) : e.slot \in 1 .. Slots,
         \A d, e \in Rows(ix) : d.slot = e.slot => d = e
  PROVE  /\ FreeSlots(ix) \subseteq 1 .. Slots /\ IsFiniteSet(FreeSlots(ix))
         /\ Cardinality(FreeSlots(ix)) = Slots - Len(ix)
         /\ Len(ix) \in 0 .. Slots
         /\ \A e \in Rows(ix) : e.slot \notin FreeSlots(ix)
<1> DEFINE R == Rows(ix)
           U == {e.slot : e \in R}
           f == [e \in R |-> e.slot]
<1>1. IsFiniteSet(R) /\ Cardinality(R) = Len(ix) /\ Len(ix) \in Nat
  BY RowsCounted, SeqIs DEF Table
<1>2. FreeSlots(ix) = (1 .. Slots) \ U
  <2>1. U = {ix[i].slot : i \in DOMAIN ix}
    BY DEF Rows
  <2>. QED  BY <2>1 DEF FreeSlots
<1>3. \A e \in R : e.slot \in 1 .. Slots
  OBVIOUS
<1>4. \A d, e \in R : d.slot = e.slot => d = e
  OBVIOUS
<1> HIDE DEF R
<1>5. f \in Bijection(R, U)
  <2>1. f \in [R -> U]
    OBVIOUS
  <2>2. ASSUME NEW d \in R, NEW e \in R, f[d] = f[e] PROVE d = e
    BY <1>4, <2>2
  <2>3. \A x \in U : \E e \in R : f[e] = x
    OBVIOUS
  <2>. QED  BY <2>1, <2>2, <2>3 DEF Bijection, Injection, Surjection, IsInjective
<1>6. ExistsBijection(R, U)
  BY <1>5 DEF ExistsBijection
<1>7. IsFiniteSet(U) /\ Cardinality(U) = Len(ix)
  BY <1>1, <1>6, FS_Bijection
<1>8. Slots \in Nat /\ IsFiniteSet(1 .. Slots) /\ Cardinality(1 .. Slots) = Slots
  BY SizeAssumption, CountingTo
<1>9. U \subseteq 1 .. Slots /\ (1 .. Slots) \cap U = U
  BY <1>3
<1> HIDE DEF U
<1>10. Cardinality(U) <= Slots
  BY <1>8, <1>9, FS_Subset
<1>11. IsFiniteSet((1 .. Slots) \ U) /\ Cardinality((1 .. Slots) \ U) = Slots - Cardinality(U)
  BY <1>8, <1>9, FS_Difference
<1>12. \A e \in R : e.slot \notin FreeSlots(ix)
  BY <1>2 DEF U
<1>. QED  BY <1>1, <1>2, <1>7, <1>8, <1>10, <1>11, <1>12 DEF R

LEMMA FiledSlots ==
  ASSUME NEW ix, NEW p, Filed(ix, p)
  PROVE  /\ FreeSlots(ix) \subseteq 1 .. Slots /\ IsFiniteSet(FreeSlots(ix))
         /\ Cardinality(FreeSlots(ix)) = Slots - Len(ix)
         /\ Len(ix) \in 0 .. Slots
         /\ \A e \in Rows(ix) : e.slot \notin FreeSlots(ix)
<1>1. /\ Table(ix)
      /\ \A e \in Rows(ix) : e.slot \in 1 .. Slots
      /\ \A d, e \in Rows(ix) : d.slot = e.slot => d = e
  BY DEF Filed
<1>. QED  BY <1>1, SlotsCounted

-----------------------------------------------------------------------------
(* Writes to the store's own units.                                         *)

\* m2 differs from m in the units b .. b + Slots at most.
OnlyWithin(m2, m, b) ==
    /\ DOMAIN m2 = DOMAIN m
    /\ \A at \in DOMAIN m : at \notin b .. b + Slots => m2[at] = m[at]

LEMMA WithinWithin ==
  ASSUME NEW m1, NEW m2, NEW m3, NEW b, OnlyWithin(m3, m2, b), OnlyWithin(m2, m1, b)
  PROVE  OnlyWithin(m3, m1, b)
BY DEF OnlyWithin

\* A region of the store's size at b.
HasRoom(m, b) == b \in Nat /\ \A i \in 0 .. Slots : b + i \in DOMAIN m

\* A write to one unit of the store.
LEMMA PutIs ==
  ASSUME NEW m, NEW b, HasRoom(m, b), NEW i \in 0 .. Slots, NEW data
  PROVE  /\ OnlyWithin(Put(m, "ProgramStore", b + i, data), m, b)
         /\ Put(m, "ProgramStore", b + i, data)[b + i] = [by |-> "ProgramStore", data |-> data]
         /\ \A at \in DOMAIN m : at # b + i => Put(m, "ProgramStore", b + i, data)[at] = m[at]
<1>1. b + i \in DOMAIN m /\ b + i \in b .. b + Slots
  BY SizeAssumption DEF HasRoom
<1>. QED  BY <1>1 DEF Put, OnlyWithin

\* Tidy leaves the index and the slots of the entries it is given.
LEMMA TidyIs ==
  ASSUME NEW m, NEW b, HasRoom(m, b), NEW es
  PROVE  /\ OnlyWithin(Tidy(m, b, es), m, b)
         /\ Tidy(m, b, es)[b] = m[b]
         /\ \A s \in 1 .. Slots :
              (\E i \in DOMAIN es : es[i].slot = s) => Tidy(m, b, es)[b + s] = m[b + s]
<1> DEFINE free == {b + s : s \in FreeSlots(es)}
<1>1. /\ DOMAIN Tidy(m, b, es) = DOMAIN m
      /\ \A at \in DOMAIN m : at \notin free => Tidy(m, b, es)[at] = m[at]
  BY DEF Tidy
<1>2. b \in Nat /\ Slots \in Nat /\ FreeSlots(es) \subseteq 1 .. Slots
  BY SizeAssumption DEF HasRoom, FreeSlots
<1>3. free \subseteq b .. b + Slots /\ b \notin free
  BY <1>2
<1>4. ASSUME NEW s \in 1 .. Slots, \E i \in DOMAIN es : es[i].slot = s
      PROVE  b + s \notin free
  <2>1. s \notin FreeSlots(es)
    BY <1>4 DEF FreeSlots
  <2>2. \A x \in FreeSlots(es) : b + x = b + s => x = s
    BY <1>2
  <2>. QED  BY <2>1, <2>2
<1> HIDE DEF free
<1>5. b \in DOMAIN m /\ \A s \in 1 .. Slots : b + s \in DOMAIN m
  <2>1. b + 0 \in DOMAIN m /\ b + 0 = b
    BY <1>2 DEF HasRoom
  <2>. QED  BY <1>2, <2>1 DEF HasRoom
<1>. QED  BY <1>1, <1>3, <1>4, <1>5 DEF OnlyWithin

\* The index is written, and the slots it does not name are not read again.
LEMMA TidyStored ==
  ASSUME NEW m, NEW b, HasRoom(m, b), NEW p, Stored(m, b, p), NEW es,
         \A e \in Rows(m[b].data) : \E i \in DOMAIN es : es[i].slot = e.slot
  PROVE  OnlyWithin(Tidy(m, b, es), m, b) /\ Stored(Tidy(m, b, es), b, p)
<1> DEFINE t == Tidy(m, b, es)
<1>1. /\ OnlyWithin(t, m, b) /\ t[b] = m[b]
      /\ \A s \in 1 .. Slots : (\E i \in DOMAIN es : es[i].slot = s) => t[b + s] = m[b + s]
  BY TidyIs
<1> HIDE DEF t
<1>2. \A e \in Rows(m[b].data) : e.slot \in 1 .. Slots
  BY DEF Stored, Filed
<1>. QED  BY <1>1, <1>2 DEF Stored, Texts, t

\* Every entry names its own slot.
LEMMA OwnSlots ==
  ASSUME NEW ix
  PROVE  \A e \in Rows(ix) : \E i \in DOMAIN ix : ix[i].slot = e.slot
BY DEF Rows

\* The index is written over texts that are in their slots.
LEMMA PutStored ==
  ASSUME NEW m, NEW b, HasRoom(m, b), NEW p, NEW ix, Filed(ix, p), Texts(m, b, ix)
  PROVE  /\ OnlyWithin(Put(m, "ProgramStore", b, ix), m, b)
         /\ Stored(Put(m, "ProgramStore", b, ix), b, p)
         /\ Put(m, "ProgramStore", b, ix)[b].data = ix
<1> DEFINE t == Put(m, "ProgramStore", b, ix)
<1>1. b \in Nat /\ Slots \in Nat /\ b + 0 = b /\ 0 \in 0 .. Slots
  BY SizeAssumption DEF HasRoom
<1>2. /\ OnlyWithin(t, m, b) /\ t[b] = [by |-> "ProgramStore", data |-> ix]
      /\ \A at \in DOMAIN m : at # b => t[at] = m[at]
  BY <1>1, PutIs
<1> HIDE DEF t
<1>3. t[b].data = ix
  BY <1>2
<1>4. ASSUME NEW e \in Rows(ix)
      PROVE  t[b + e.slot] = [by |-> "ProgramStore", data |-> e.hash]
  <2>1. e.slot \in 1 .. Slots
    BY DEF Filed
  <2>2. b + e.slot \in DOMAIN m /\ b + e.slot # b
    BY <1>1, <2>1 DEF HasRoom
  <2>. QED  BY <1>2, <2>2 DEF Texts
<1>. QED  BY <1>2, <1>3, <1>4 DEF Stored, Texts, t

\* PutIndex: the new index, if its texts are in their slots.
LEMMA PutIndexStored ==
  ASSUME NEW m, NEW b, HasRoom(m, b), NEW p, NEW ix, Filed(ix, p), Texts(m, b, ix)
  PROVE  OnlyWithin(PutIndex(m, b, ix), m, b) /\ Stored(PutIndex(m, b, ix), b, p)
<1> DEFINE t == Put(m, "ProgramStore", b, ix)
<1>1. OnlyWithin(t, m, b) /\ Stored(t, b, p) /\ t[b].data = ix
  BY PutStored
<1>2. HasRoom(t, b)
  BY <1>1 DEF HasRoom, OnlyWithin
<1>3. PutIndex(m, b, ix) = Tidy(t, b, ix)
  BY DEF PutIndex
<1> HIDE DEF t
<1>4. OnlyWithin(Tidy(t, b, ix), t, b) /\ Stored(Tidy(t, b, ix), b, p)
  BY <1>1, <1>2, OwnSlots, TidyStored
<1>. QED  BY <1>1, <1>3, <1>4, WithinWithin

\* A program in consecutive slots.
LEMMA FreshStored ==
  ASSUME NEW p, NEW s, Arrayed(s, p), Len(s) <= Slots, NEW m, NEW b,
         m[b].data = [i \in DOMAIN s |-> Entry(s[i].number, s[i].text, i)],
         \A i \in DOMAIN s : m[b + i] = [by |-> "ProgramStore", data |-> s[i].text]
  PROVE  Stored(m, b, p)
<1> DEFINE N == Len(s)
           ix == m[b].data
<1>1. /\ N \in Nat /\ DOMAIN s = 1 .. N
      /\ \A i \in DOMAIN s : s[i].number \in Nat
      /\ \A i, j \in DOMAIN s : i < j => s[i].number < s[j].number
  BY SeqIs DEF Arrayed, Table
<1>2. Slots \in Nat
  BY SizeAssumption
<1>3. ix = [i \in 1 .. N |-> Entry(s[i].number, s[i].text, i)]
  BY <1>1
<1> HIDE DEF ix, N
<1>4. \A i \in 1 .. N : /\ ix[i].number = s[i].number /\ ix[i].hash = s[i].text
                        /\ ix[i].slot = i
  BY <1>3 DEF Entry
<1>5. ix = [i \in 1 .. N |-> ix[i]]
  BY <1>3
<1>6. Table(ix) /\ DOMAIN ix = 1 .. N
  BY SMTT(30), <1>1, <1>4, <1>5, TableOf
<1>7. ASSUME NEW i \in 1 .. N
      PROVE  /\ ix[i].number \in DOMAIN p /\ ix[i].hash = p[ix[i].number]
             /\ ix[i].slot \in 1 .. Slots
             /\ m[b + ix[i].slot] = [by |-> "ProgramStore", data |-> ix[i].hash]
  <2>1. s[i] \in LineRows(p)
    BY <1>1 DEF Arrayed, Rows
  <2>2. s[i].number \in DOMAIN p /\ s[i].text = p[s[i].number]
    BY <2>1 DEF LineRows
  <2>3. i \in 1 .. Slots
    BY <1>1, <1>2 DEF N
  <2>. QED  BY <1>1, <1>4, <2>2, <2>3
<1>8. ASSUME NEW n \in DOMAIN p PROVE \E e \in Rows(ix) : e.number = n
  <2>1. [number |-> n, text |-> p[n]] \in Rows(s)
    BY DEF Arrayed, LineRows
  <2>2. PICK i \in DOMAIN s : s[i] = [number |-> n, text |-> p[n]]
    BY <2>1 DEF Rows
  <2>3. s[i].number = n
    BY <2>2
  <2>. QED  BY <1>1, <1>4, <1>6, <2>3 DEF Rows
<1>9. \A i, j \in 1 .. N : ix[i].slot = ix[j].slot => ix[i] = ix[j]
  BY <1>4
<1>10. Filed(ix, p)
  <2>1. ASSUME NEW e \in Rows(ix)
        PROVE  /\ e.number \in DOMAIN p /\ e.hash = p[e.number]
               /\ e.slot \in 1 .. Slots
    <3>1. PICK i \in 1 .. N : e = ix[i]
      BY <1>6 DEF Rows
    <3>. QED  BY <1>7, <3>1
  <2>2. ASSUME NEW d \in Rows(ix), NEW e \in Rows(ix), d.slot = e.slot PROVE d = e
    <3>1. PICK i \in 1 .. N : d = ix[i]
      BY <1>6 DEF Rows
    <3>2. PICK j \in 1 .. N : e = ix[j]
      BY <1>6 DEF Rows
    <3>. QED  BY <1>9, <2>2, <3>1, <3>2
  <2>. QED  BY <1>6, <1>8, <2>1, <2>2 DEF Filed
<1>11. Texts(m, b, ix)
  BY <1>6, <1>7 DEF Texts, Rows
<1>. QED  BY <1>10, <1>11 DEF Stored, ix

\* What other units hold does not matter.
LEMMA StoredElsewhere ==
  ASSUME NEW m, NEW m2, NEW b, b \in Nat, NEW p, Stored(m, b, p),
         \A at \in b .. b + Slots : m2[at] = m[at]
  PROVE  Stored(m2, b, p)
<1>1. Slots \in Nat
  BY SizeAssumption
<1>2. m2[b] = m[b]
  BY <1>1
<1>3. ASSUME NEW e \in Rows(m[b].data)
      PROVE  m2[b + e.slot] = [by |-> "ProgramStore", data |-> e.hash]
  <2>1. e.slot \in 1 .. Slots
    BY DEF Stored, Filed
  <2>2. b + e.slot \in b .. b + Slots
    BY <1>1, <2>1
  <2>. QED  BY <2>2 DEF Stored, Texts
<1>. QED  BY <1>2, <1>3 DEF Stored, Texts

-----------------------------------------------------------------------------
(* Edits of a program and of what is filed of it.                           *)

\* Every edit of a program gives a program.
LEMMA WholeWith ==
  ASSUME NEW p, Whole(p), NEW n \in Number, NEW t \in Text
  PROVE  Whole(With(p, n, t))
<1> DEFINE q == With(p, n, t)
<1>1. DOMAIN q = {n} \cup DOMAIN p /\ q = [k \in DOMAIN q |-> q[k]]
  BY DEF With
<1>2. IsFiniteSet(DOMAIN p \cup {n}) /\ DOMAIN p \cup {n} = {n} \cup DOMAIN p
  BY WholeIs, FS_AddElement
<1>3. \A k \in DOMAIN q : k \in Number /\ q[k] \in Text
  <2>1. DOMAIN p \subseteq Number /\ \A k \in DOMAIN p : p[k] \in Text
    BY WholeIs
  <2>. QED  BY <2>1 DEF With
<1> HIDE DEF q
<1>4. DOMAIN q \subseteq Number /\ IsFiniteSet(DOMAIN q) /\ \A k \in DOMAIN q : q[k] \in Text
  BY <1>1, <1>2, <1>3
<1>5. Whole(q)
  BY <1>1, <1>4, WholeIs
<1>. QED  BY <1>5 DEF q

LEMMA WholeWithout ==
  ASSUME NEW p, Whole(p), NEW N
  PROVE  Whole(Without(p, N))
<1> DEFINE q == Without(p, N)
<1>1. DOMAIN q = DOMAIN p \ N /\ q = [k \in DOMAIN q |-> q[k]]
  BY DEF Without, Restrict
<1>2. IsFiniteSet(DOMAIN p \ N)
  BY WholeIs, FS_Difference
<1>3. \A k \in DOMAIN q : k \in Number /\ q[k] \in Text
  <2>1. DOMAIN p \subseteq Number /\ \A k \in DOMAIN p : p[k] \in Text
    BY WholeIs
  <2>. QED  BY <2>1 DEF Without, Restrict
<1> HIDE DEF q
<1>4. DOMAIN q \subseteq Number /\ IsFiniteSet(DOMAIN q) /\ \A k \in DOMAIN q : q[k] \in Text
  BY <1>1, <1>2, <1>3
<1>5. Whole(q)
  BY <1>1, <1>4, WholeIs
<1>. QED  BY <1>5 DEF q

LEMMA NoProgramWhole == Whole(NoProgram) /\ DOMAIN NoProgram = {}
<1>1. DOMAIN NoProgram = {} /\ NoProgram = [n \in DOMAIN NoProgram |-> NoProgram[n]]
  BY DEF NoProgram
<1>2. IsFiniteSet({})
  BY FS_EmptySet
<1>. QED  BY <1>1, <1>2, WholeIs

\* Two lines at once are the edits of one line one after the other.
EditedAt(p, edit, n) == IF n \in Kept(edit) THEN With(p, n, edit[n]) ELSE p

\* What an edit of two lines says of each.
LEMMA KeptIs ==
  ASSUME NEW m \in Number, NEW n \in Number,
         NEW t \in Text \cup {Junk}, NEW u \in Text \cup {Junk},
         NEW edit, edit = Pair(m, t, n, u)
  PROVE  /\ DOMAIN edit = {m, n} /\ Kept(edit) \subseteq {m, n}
         /\ \A k \in Kept(edit) : edit[k] \in Text
         /\ \A k \in {m, n} \ Kept(edit) : edit[k] = Junk
<1>1. /\ DOMAIN edit = {m, n}
      /\ \A k \in {m, n} : edit[k] = IF k = m THEN t ELSE u
  BY DEF Pair
<1>2. Kept(edit) = {k \in {m, n} : edit[k] # Junk}
  BY <1>1 DEF Kept
<1>. QED  BY <1>1, <1>2

LEMMA EditedInSteps ==
  ASSUME NEW m \in Number, NEW n \in Number,
         NEW t \in Text \cup {Junk}, NEW u \in Text \cup {Junk},
         NEW edit, edit = Pair(m, t, n, u), NEW p
  PROVE  Edited(p, edit) = EditedAt(EditedAt(Without(p, DOMAIN edit), edit, m), edit, n)
<1> DEFINE K == Kept(edit)
           q0 == Without(p, {m, n})
           q1 == EditedAt(q0, edit, m)
           q2 == EditedAt(q1, edit, n)
           e == Edited(p, edit)
<1>1. /\ DOMAIN edit = {m, n} /\ K \subseteq {m, n}
  BY KeptIs
<1>2. e = [k \in K \cup (DOMAIN p \ {m, n}) |-> IF k \in K THEN edit[k] ELSE p[k]]
  BY <1>1 DEF Edited
<1>3. q0 = [k \in DOMAIN p \ {m, n} |-> p[k]]
  BY DEF Without, Restrict
<1> HIDE DEF K, q0, e
<1>4. q1 = [k \in (K \cap {m}) \cup (DOMAIN p \ {m, n}) |->
              IF k \in K THEN edit[k] ELSE p[k]]
  <2>1. CASE m \in K
    <3>1. q1 = [k \in {m} \cup DOMAIN q0 |-> IF k = m THEN edit[m] ELSE q0[k]]
      BY <2>1 DEF EditedAt, With, K
    <3>. QED  BY <1>1, <1>3, <2>1, <3>1
  <2>2. CASE m \notin K
    <3>1. q1 = q0
      BY <2>2 DEF EditedAt, K
    <3>. QED  BY <1>1, <1>3, <2>2, <3>1
  <2>. QED  BY <2>1, <2>2
<1> HIDE DEF q1
<1>5. q2 = [k \in K \cup (DOMAIN p \ {m, n}) |->
              IF k \in K THEN edit[k] ELSE p[k]]
  <2>1. CASE n \in K
    <3>1. q2 = [k \in {n} \cup DOMAIN q1 |-> IF k = n THEN edit[n] ELSE q1[k]]
      BY <2>1 DEF EditedAt, With, K
    <3>. QED  BY <1>1, <1>4, <2>1, <3>1
  <2>2. CASE n \notin K
    <3>1. q2 = q1
      BY <2>2 DEF EditedAt, K
    <3>. QED  BY <1>1, <1>4, <2>2, <3>1
  <2>. QED  BY <2>1, <2>2
<1>. QED  BY <1>1, <1>2, <1>5 DEF e, q0, q1

LEMMA WholeEdited ==
  ASSUME NEW m \in Number, NEW n \in Number,
         NEW t \in Text \cup {Junk}, NEW u \in Text \cup {Junk},
         NEW edit, edit = Pair(m, t, n, u), NEW p, Whole(p)
  PROVE  Whole(Edited(p, edit))
<1>1. \A k \in Kept(edit) : edit[k] \in Text
  BY KeptIs
<1>2. ASSUME NEW q, Whole(q), NEW k \in Number PROVE Whole(EditedAt(q, edit, k))
  BY <1>1, <1>2, WholeWith DEF EditedAt
<1> DEFINE q0 == Without(p, DOMAIN edit)
           q1 == EditedAt(q0, edit, m)
           q2 == EditedAt(q1, edit, n)
<1>3. Whole(q0)
  BY WholeWithout
<1>4. Edited(p, edit) = q2
  BY EditedInSteps
<1> HIDE DEF q0
<1>5. Whole(q1)
  BY <1>2, <1>3
<1> HIDE DEF q1
<1>6. Whole(q2)
  BY <1>2, <1>5
<1>. QED  BY <1>4, <1>6

\* The array follows the program.
LEMMA ArrayedWith ==
  ASSUME NEW p, Whole(p), NEW s, Arrayed(s, p), NEW n \in Number, NEW t
  PROVE  Arrayed(PutLine(s, n, [number |-> n, text |-> t]), With(p, n, t))
<1> DEFINE line == [number |-> n, text |-> t]
           q == With(p, n, t)
<1>1. /\ Table(PutLine(s, n, line))
      /\ Rows(PutLine(s, n, line)) = {e \in Rows(s) : e.number # n} \cup {line}
  <2>1. n \in Nat /\ line.number = n
    BY NumberAssumption
  <2> HIDE DEF line
  <2>. QED  BY <2>1, PutLineIs DEF Arrayed
<1>2. /\ DOMAIN q = {n} \cup DOMAIN p /\ q[n] = t
      /\ \A k \in DOMAIN p : k # n => q[k] = p[k]
  BY DEF With
<1> HIDE DEF q
<1>3. {e \in LineRows(p) : e.number # n} \cup {line} = LineRows(q)
  <2>1. ASSUME NEW e \in LineRows(p), e.number # n PROVE e \in LineRows(q)
    <3>1. PICK k \in DOMAIN p : e = [number |-> k, text |-> p[k]]
      BY DEF LineRows
    <3>. QED  BY <1>2, <2>1, <3>1 DEF LineRows
  <2>2. line \in LineRows(q)
    BY <1>2 DEF LineRows
  <2>3. ASSUME NEW e \in LineRows(q) PROVE (e \in LineRows(p) /\ e.number # n) \/ e = line
    <3>1. PICK k \in DOMAIN q : e = [number |-> k, text |-> q[k]]
      BY DEF LineRows
    <3>2. CASE k = n
      BY <1>2, <3>1, <3>2
    <3>3. CASE k # n
      BY <1>2, <3>1, <3>3 DEF LineRows
    <3>. QED  BY <3>2, <3>3
  <2>. QED  BY <2>1, <2>2, <2>3
<1>. QED  BY <1>1, <1>3 DEF Arrayed, q

LEMMA RowsWithout ==
  ASSUME NEW p, NEW N
  PROVE  {e \in LineRows(p) : e.number \notin N} = LineRows(Without(p, N))
<1> DEFINE q == Without(p, N)
<1>1. DOMAIN q = DOMAIN p \ N /\ \A k \in DOMAIN q : q[k] = p[k]
  BY DEF Without, Restrict
<1> HIDE DEF q
<1>2. ASSUME NEW e \in LineRows(p), e.number \notin N PROVE e \in LineRows(q)
  <2>1. PICK k \in DOMAIN p : e = [number |-> k, text |-> p[k]]
    BY DEF LineRows
  <2>. QED  BY <1>1, <1>2, <2>1 DEF LineRows
<1>3. ASSUME NEW e \in LineRows(q) PROVE e \in LineRows(p) /\ e.number \notin N
  <2>1. PICK k \in DOMAIN q : e = [number |-> k, text |-> q[k]]
    BY DEF LineRows
  <2>. QED  BY <1>1, <2>1 DEF LineRows
<1>. QED  BY <1>2, <1>3 DEF q

LEMMA ArrayedWithout ==
  ASSUME NEW p, Whole(p), NEW s, Arrayed(s, p), NEW n \in Number, Holds(s, n)
  PROVE  Arrayed(RemoveAt(s, At(s, n)), Without(p, {n}))
<1>1. /\ Table(RemoveAt(s, At(s, n)))
      /\ Rows(RemoveAt(s, At(s, n))) = {e \in Rows(s) : e.number # n}
  BY RemoveLineIs, NumberAssumption DEF Arrayed
<1>2. {e \in Rows(s) : e.number # n} = {e \in LineRows(p) : e.number \notin {n}}
  BY DEF Arrayed
<1>. QED  BY <1>1, <1>2, RowsWithout DEF Arrayed

LEMMA ArrayedUnchanging ==
  ASSUME NEW p, NEW s, Arrayed(s, p), NEW edit
  PROVE  Arrayed(Unchanging(s, edit), Without(p, DOMAIN edit))
<1>1. /\ Table(Unchanging(s, edit))
      /\ Rows(Unchanging(s, edit)) = {e \in Rows(s) : e.number \notin DOMAIN edit}
  BY UnchangingIs DEF Arrayed
<1>2. {e \in LineRows(p) : e.number \notin DOMAIN edit} = LineRows(Without(p, DOMAIN edit))
  BY RowsWithout
<1>3. Rows(s) = LineRows(p)
  BY DEF Arrayed
<1>. QED  BY <1>1, <1>2, <1>3 DEF Arrayed

LEMMA ArrayedPair ==
  ASSUME NEW m \in Number, NEW n \in Number,
         NEW t \in Text \cup {Junk}, NEW u \in Text \cup {Junk},
         NEW edit, edit = Pair(m, t, n, u), NEW p, Whole(p), NEW s, Arrayed(s, p)
  PROVE  Arrayed(InsertKept(InsertKept(Unchanging(s, edit), edit, m), edit, n),
                 Edited(p, edit))
<1>1. \A k \in Kept(edit) : edit[k] \in Text
  BY KeptIs
<1>2. ASSUME NEW q, NEW x, Whole(q), Arrayed(x, q), NEW k \in Number
      PROVE  Whole(EditedAt(q, edit, k)) /\ Arrayed(InsertKept(x, edit, k), EditedAt(q, edit, k))
  <2>1. CASE k \in Kept(edit)
    BY <1>1, <1>2, <2>1, WholeWith, ArrayedWith DEF EditedAt, InsertKept
  <2>2. CASE k \notin Kept(edit)
    BY <1>2, <2>2 DEF EditedAt, InsertKept
  <2>. QED  BY <2>1, <2>2
<1> DEFINE q0 == Without(p, DOMAIN edit)
           q1 == EditedAt(q0, edit, m)
           q2 == EditedAt(q1, edit, n)
           x0 == Unchanging(s, edit)
           x1 == InsertKept(x0, edit, m)
           x2 == InsertKept(x1, edit, n)
<1>3. Whole(q0) /\ Arrayed(x0, q0)
  BY WholeWithout, ArrayedUnchanging
<1>4. Edited(p, edit) = q2
  BY EditedInSteps
<1> HIDE DEF q0, x0
<1>5. Whole(q1) /\ Arrayed(x1, q1)
  BY <1>2, <1>3
<1> HIDE DEF q1, x1
<1>6. Arrayed(x2, q2)
  BY <1>2, <1>5
<1>. QED  BY <1>4, <1>6 DEF x1, x0

\* So does the index, if the new text has a slot that no other line uses.
LEMMA FiledWith ==
  ASSUME NEW p, NEW ix, Filed(ix, p), NEW n \in Number, NEW t, NEW slot \in 1 .. Slots,
         \A e \in Rows(ix) : e.number # n => e.slot # slot
  PROVE  /\ Filed(PutLine(ix, n, Entry(n, t, slot)), With(p, n, t))
         /\ Rows(PutLine(ix, n, Entry(n, t, slot)))
              = {e \in Rows(ix) : e.number # n} \cup {Entry(n, t, slot)}
<1> DEFINE new == Entry(n, t, slot)
           jx == PutLine(ix, n, new)
           q == With(p, n, t)
<1>1. new.number = n /\ new.hash = t /\ new.slot = slot
  BY DEF Entry
<1> HIDE DEF new
<1>2. Table(jx) /\ Rows(jx) = {e \in Rows(ix) : e.number # n} \cup {new}
  BY <1>1, PutLineIs, NumberAssumption DEF Filed
<1> HIDE DEF jx
<1>3. /\ DOMAIN q = {n} \cup DOMAIN p /\ q[n] = t
      /\ \A k \in DOMAIN p : k # n => q[k] = p[k]
  BY DEF With
<1> HIDE DEF q
<1>4. ASSUME NEW e \in Rows(jx)
      PROVE  e.number \in DOMAIN q /\ e.hash = q[e.number] /\ e.slot \in 1 .. Slots
  BY <1>1, <1>2, <1>3 DEF Filed
<1>5. ASSUME NEW k \in DOMAIN q PROVE \E e \in Rows(jx) : e.number = k
  <2>1. CASE k = n
    BY <1>1, <1>2, <2>1
  <2>2. CASE k # n
    <3>1. PICK e \in Rows(ix) : e.number = k
      BY <1>3, <2>2 DEF Filed
    <3>. QED  BY <1>2, <2>2, <3>1
  <2>. QED  BY <2>1, <2>2
<1>6. ASSUME NEW d \in Rows(jx), NEW e \in Rows(jx), d.slot = e.slot PROVE d = e
  BY <1>1, <1>2, <1>6 DEF Filed
<1>. QED  BY <1>2, <1>4, <1>5, <1>6 DEF Filed, jx, q, new

LEMMA FiledRemaining ==
  ASSUME NEW p, NEW ix, Filed(ix, p), NEW N, NEW jx, Table(jx),
         Rows(jx) = {e \in Rows(ix) : e.number \notin N}
  PROVE  Filed(jx, Without(p, N))
<1> DEFINE q == Without(p, N)
<1>1. DOMAIN q = DOMAIN p \ N /\ \A k \in DOMAIN q : q[k] = p[k]
  BY DEF Without, Restrict
<1> HIDE DEF q
<1>2. \A e \in Rows(jx) : e.number \in DOMAIN q /\ e.hash = q[e.number] /\ e.slot \in 1 .. Slots
  BY <1>1 DEF Filed
<1>3. \A k \in DOMAIN q : \E e \in Rows(jx) : e.number = k
  BY <1>1 DEF Filed
<1>4. \A d, e \in Rows(jx) : d.slot = e.slot => d = e
  BY DEF Filed
<1>. QED  BY <1>2, <1>3, <1>4 DEF Filed, q

LEMMA FiledWithout ==
  ASSUME NEW p, NEW ix, Filed(ix, p), NEW n \in Number, Holds(ix, n)
  PROVE  /\ Filed(RemoveAt(ix, At(ix, n)), Without(p, {n}))
         /\ Rows(RemoveAt(ix, At(ix, n))) \subseteq Rows(ix)
<1>1. /\ Table(RemoveAt(ix, At(ix, n)))
      /\ Rows(RemoveAt(ix, At(ix, n))) = {e \in Rows(ix) : e.number # n}
  BY RemoveLineIs, NumberAssumption DEF Filed
<1>2. Rows(RemoveAt(ix, At(ix, n))) = {e \in Rows(ix) : e.number \notin {n}}
  BY <1>1
<1>. QED  BY <1>1, <1>2, FiledRemaining

LEMMA FiledUnchanging ==
  ASSUME NEW p, NEW ix, Filed(ix, p), NEW edit
  PROVE  /\ Filed(Unchanging(ix, edit), Without(p, DOMAIN edit))
         /\ Rows(Unchanging(ix, edit)) = {e \in Rows(ix) : e.number \notin DOMAIN edit}
<1> DEFINE jx == Unchanging(ix, edit)
           N == DOMAIN edit
<1>1. Table(jx) /\ Rows(jx) = {e \in Rows(ix) : e.number \notin N}
  <2>1. Table(ix)
    BY DEF Filed
  <2>. QED  BY <2>1, UnchangingIs
<1> HIDE DEF jx, N
<1>2. Filed(jx, Without(p, N))
  BY <1>1, FiledRemaining
<1>. QED  BY <1>1, <1>2 DEF jx, N

-----------------------------------------------------------------------------
(* The writes of the PSRAM store.                                           *)

\* A text write reaches its slot only, whether or not it succeeds.
LEMMA TextWritesIs ==
  ASSUME NEW m, HasRoom(m, IndexAt), NEW slot \in 1 .. Slots, NEW text,
         NEW tw \in TextWrites(m, slot, text)
  PROVE  /\ OnlyWithin(tw.mem, m, IndexAt) /\ tw.ok \in BOOLEAN
         /\ tw.mem[IndexAt] = m[IndexAt]
         /\ \A s \in 1 .. Slots : s # slot => tw.mem[IndexAt + s] = m[IndexAt + s]
         /\ tw.ok => tw.mem[IndexAt + slot] = [by |-> "ProgramStore", data |-> text]
<1> DEFINE b == IndexAt
           put(d) == Put(m, "ProgramStore", b + slot, d)
<1>1. \/ tw = [ok |-> TRUE, mem |-> put(text)]
      \/ tw = [ok |-> FALSE, mem |-> m]
      \/ tw = [ok |-> FALSE, mem |-> put(Junk)]
  BY DEF TextWrites, SlotAt, IndexAt
<1>2. slot \in 0 .. Slots /\ Slots \in Nat
  BY SizeAssumption
<1> HIDE DEF b
<1>3. HasRoom(m, b)
  BY DEF b
<1>4. ASSUME NEW d
      PROVE  /\ OnlyWithin(put(d), m, b)
             /\ put(d)[b + slot] = [by |-> "ProgramStore", data |-> d]
             /\ \A at \in DOMAIN m : at # b + slot => put(d)[at] = m[at]
  BY <1>2, <1>3, PutIs
<1> HIDE DEF put
<1>5. b \in DOMAIN m /\ b # b + slot
  <2>1. b + 0 \in DOMAIN m /\ b \in Nat
    BY <1>2, <1>3 DEF HasRoom
  <2>. QED  BY <2>1
<1>6. \A s \in 1 .. Slots : b + s \in DOMAIN m /\ (s # slot => b + s # b + slot)
  BY <1>2, <1>3 DEF HasRoom
<1>7. OnlyWithin(m, m, b)
  BY DEF OnlyWithin
<1>8. CASE tw = [ok |-> TRUE, mem |-> put(text)]
  <2>1. tw.mem = put(text) /\ tw.ok = TRUE
    BY <1>8
  <2>2. /\ OnlyWithin(put(text), m, b)
        /\ put(text)[b + slot] = [by |-> "ProgramStore", data |-> text]
        /\ \A at \in DOMAIN m : at # b + slot => put(text)[at] = m[at]
    BY <1>4
  <2>3. put(text)[b] = m[b] /\ \A s \in 1 .. Slots : s # slot => put(text)[b + s] = m[b + s]
    BY <1>5, <1>6, <2>2
  <2>. QED  BY <2>1, <2>2, <2>3 DEF b
<1>9. CASE tw = [ok |-> FALSE, mem |-> m]
  <2>1. tw.mem = m /\ tw.ok = FALSE
    BY <1>9
  <2>. QED  BY <1>7, <2>1 DEF b
<1>10. CASE tw = [ok |-> FALSE, mem |-> put(Junk)]
  <2>1. tw.mem = put(Junk) /\ tw.ok = FALSE
    BY <1>10
  <2>2. /\ OnlyWithin(put(Junk), m, b)
        /\ \A at \in DOMAIN m : at # b + slot => put(Junk)[at] = m[at]
    BY <1>4
  <2>3. put(Junk)[b] = m[b] /\ \A s \in 1 .. Slots : s # slot => put(Junk)[b + s] = m[b + s]
    BY <1>5, <1>6, <2>2
  <2>. QED  BY <2>1, <2>2, <2>3 DEF b
<1>. QED  BY <1>1, <1>8, <1>9, <1>10

BrokeOff(iw, m, old, new, k) ==
    /\ iw.ok = FALSE /\ iw.part = k
    /\ iw.mem = Tidy(Put(m, "ProgramStore", IndexAt, Overwritten(old, new, k)),
                     IndexAt, old \o Overwritten(old, new, k))

\* The outcomes of an index write.
LEMMA IndexWritesAre ==
  ASSUME NEW m, NEW old, NEW new, NEW iw \in IndexWrites(m, old, new)
  PROVE  \/ iw.ok = TRUE /\ iw.mem = PutIndex(m, IndexAt, new)
         \/ \E k \in Nat : BrokeOff(iw, m, old, new, k)
<1>1. CASE iw = [ok |-> TRUE, part |-> 0, mem |-> PutIndex(m, IndexAt, new)]
  BY <1>1
<1>2. CASE \E k \in 0 .. Len(new) - 1 :
             iw = [ok |-> FALSE, part |-> k,
                   mem |-> LET mixed == Overwritten(old, new, k)
                           IN  Tidy(Put(m, "ProgramStore", IndexAt, mixed), IndexAt,
                                    old \o mixed)]
  <2>1. PICK k \in 0 .. Len(new) - 1 :
             iw = [ok |-> FALSE, part |-> k,
                   mem |-> LET mixed == Overwritten(old, new, k)
                           IN  Tidy(Put(m, "ProgramStore", IndexAt, mixed), IndexAt,
                                    old \o mixed)]
    BY <1>2
  <2>2. k \in Nat
    OBVIOUS
  <2>3. /\ iw.ok = FALSE /\ iw.part = k
        /\ iw.mem = Tidy(Put(m, "ProgramStore", IndexAt, Overwritten(old, new, k)),
                         IndexAt, old \o Overwritten(old, new, k))
    BY <2>1
  <2>4. BrokeOff(iw, m, old, new, k)
    BY <2>3 DEF BrokeOff
  <2>. QED  BY <2>2, <2>4
<1>3. \/ iw = [ok |-> TRUE, part |-> 0, mem |-> PutIndex(m, IndexAt, new)]
      \/ \E k \in 0 .. Len(new) - 1 :
             iw = [ok |-> FALSE, part |-> k,
                   mem |-> LET mixed == Overwritten(old, new, k)
                           IN  Tidy(Put(m, "ProgramStore", IndexAt, mixed), IndexAt,
                                    old \o mixed)]
  BY DEF IndexWrites
<1>. QED  BY <1>1, <1>2, <1>3

\* A failed index write leaves the slots of the old lines alone, and the
\* index itself if not even its first entry was written.
LEMMA FailedIndexWrite ==
  ASSUME NEW m, HasRoom(m, IndexAt), NEW old, IsSeq(old), NEW new,
         \A e \in Rows(old) : e.slot \in 1 .. Slots,
         NEW iw \in IndexWrites(m, old, new), ~iw.ok
  PROVE  /\ OnlyWithin(iw.mem, m, IndexAt)
         /\ \A e \in Rows(old) : iw.mem[IndexAt + e.slot] = m[IndexAt + e.slot]
         /\ iw.part \in Nat
         /\ ~(iw.part > 0) => iw.mem[IndexAt].data = old
<1> DEFINE b == IndexAt
<1>1. PICK k \in Nat : BrokeOff(iw, m, old, new, k)
  <2>1. iw.ok # TRUE
    OBVIOUS
  <2>. QED  BY <2>1, IndexWritesAre
<1> DEFINE mixed == Overwritten(old, new, k)
           x == Put(m, "ProgramStore", b, mixed)
<1>2. Len(old) \in Nat /\ DOMAIN old = 1 .. Len(old) /\ old = [i \in 1 .. Len(old) |-> old[i]]
  BY SeqIs
<1>3. mixed = [i \in 1 .. Len(old) |-> IF i <= k THEN new[i] ELSE old[i]]
  BY <1>2 DEF Overwritten
<1>4. IsSeq(mixed)
  <2>1. mixed = [i \in 1 .. Len(old) |-> mixed[i]]
    BY <1>3
  <2> HIDE DEF mixed
  <2>. QED  BY <1>2, <2>1, IsSeqOf
<1>5. k = 0 => mixed = old
  <2>1. ASSUME k = 0 PROVE mixed = [i \in 1 .. Len(old) |-> old[i]]
    <3>1. \A i \in 1 .. Len(old) : ~(i <= k)
      BY <1>2, <2>1
    <3>. QED  BY <1>3, <3>1
  <2>. QED  BY <1>2, <2>1
<1> HIDE DEF mixed, b
<1>6. HasRoom(m, b) /\ b \in Nat /\ b + 0 = b /\ 0 \in 0 .. Slots /\ Slots \in Nat
  BY SizeAssumption DEF HasRoom, b
<1>7. /\ OnlyWithin(x, m, b) /\ x[b] = [by |-> "ProgramStore", data |-> mixed]
      /\ \A at \in DOMAIN m : at # b => x[at] = m[at]
  BY <1>6, PutIs
<1> HIDE DEF x
<1>8. HasRoom(x, b)
  BY <1>6, <1>7 DEF HasRoom, OnlyWithin
<1> DEFINE es == old \o mixed
<1>9. \A e \in Rows(old) : \E i \in DOMAIN es : es[i].slot = e.slot
  <2>1. /\ IsSeq(es) /\ Len(es) = Len(old) + Len(mixed)
        /\ \A i \in 1 .. Len(old) + Len(mixed) :
             es[i] = IF i <= Len(old) THEN old[i] ELSE mixed[i - Len(old)]
    BY <1>4, Concatenated
  <2>2. Len(mixed) \in Nat /\ DOMAIN es = 1 .. Len(es)
    BY <1>4, <2>1, SeqIs
  <2> HIDE DEF es
  <2>3. ASSUME NEW i \in DOMAIN old PROVE i \in DOMAIN es /\ es[i] = old[i]
    BY <1>2, <2>1, <2>2
  <2>. QED  BY <2>3 DEF Rows
<1> HIDE DEF es
<1> DEFINE t == Tidy(x, b, es)
<1>10. /\ OnlyWithin(t, x, b) /\ t[b] = x[b]
       /\ \A s \in 1 .. Slots : (\E i \in DOMAIN es : es[i].slot = s) => t[b + s] = x[b + s]
  BY <1>8, TidyIs
<1>11. iw.mem = t
  BY <1>1 DEF BrokeOff, t, x, es, mixed, b
<1> HIDE DEF t
<1>12. OnlyWithin(t, m, b)
  BY <1>7, <1>10, WithinWithin
<1>13. ASSUME NEW e \in Rows(old) PROVE t[b + e.slot] = m[b + e.slot]
  <2>1. e.slot \in 1 .. Slots
    OBVIOUS
  <2>2. b + e.slot \in DOMAIN m /\ b + e.slot # b
    BY <1>6, <2>1 DEF HasRoom
  <2>. QED  BY <1>7, <1>9, <1>10, <2>1, <2>2
<1>14. ASSUME ~(k > 0) PROVE t[b].data = old
  <2>1. k = 0
    BY <1>14
  <2>. QED  BY <1>5, <1>7, <1>10, <2>1
<1>15. iw.part = k
  BY <1>1 DEF BrokeOff
<1>. QED  BY <1>11, <1>12, <1>13, <1>14, <1>15 DEF b

\* The outcome of an edit in the store that leaves the program whole.
Settled == BumpRevision \/ (cache' = cache /\ accepted' = accepted)

EditDone ==
    ~exposed' => /\ OnlyWithin(mem', mem, IndexAt)
                 /\ Stored(mem', IndexAt, accepted')
                 /\ Whole(accepted') /\ Settled

\* What an accepted and a failed edit do to the ghost variables.
LEMMA AcceptIs ==
  ASSUME NEW q, Accept(q), ~exposed
  PROVE  accepted' = q /\ Settled /\ ~exposed'
<1>1. accepted' = IF exposed THEN accepted ELSE q
  BY DEF Accept
<1>2. BumpRevision /\ exposed' = exposed
  BY DEF Accept
<1>3. accepted' = q
  BY <1>1
<1>4. ~exposed'
  BY <1>2
<1>5. Settled
  BY <1>2 DEF Settled
<1>. QED  BY <1>3, <1>4, <1>5

LEMMA FailIs ==
  ASSUME NEW broken, Fail(broken), ~exposed'
  PROVE  accepted' = accepted /\ Settled /\ ~exposed /\ ~broken
BY DEF Fail, Settled

\* The store is in PSRAM, with the program as it was accepted.
InPsram ==
    /\ store = "psram" /\ ~exposed /\ Whole(accepted)
    /\ HasRoom(mem, IndexAt) /\ Stored(mem, IndexAt, accepted)

\* A line's text keeps while a slot is written that it does not use.
LEMMA TextsKeep ==
  ASSUME NEW m, NEW m2, NEW b, NEW ix, Texts(m, b, ix),
         \A e \in Rows(ix) : m2[b + e.slot] = m[b + e.slot]
  PROVE  Texts(m2, b, ix)
BY DEF Texts

\* An index write that succeeds, and one that wrote nothing.
LEMMA IndexReplaced ==
  ASSUME NEW m, HasRoom(m, IndexAt), NEW old, NEW new, NEW q, Filed(new, q),
         Texts(m, IndexAt, new), NEW iw \in IndexWrites(m, old, new), iw.ok
  PROVE  OnlyWithin(iw.mem, m, IndexAt) /\ Stored(iw.mem, IndexAt, q)
<1>1. iw.mem = PutIndex(m, IndexAt, new)
  BY IndexWritesAre DEF BrokeOff
<1>. QED  BY <1>1, PutIndexStored

LEMMA IndexKept ==
  ASSUME NEW m, HasRoom(m, IndexAt), NEW old, NEW p, Filed(old, p),
         Texts(m, IndexAt, old), NEW new, NEW iw \in IndexWrites(m, old, new),
         ~iw.ok, ~(iw.part > 0)
  PROVE  OnlyWithin(iw.mem, m, IndexAt) /\ Stored(iw.mem, IndexAt, p)
<1>1. IsSeq(old) /\ \A e \in Rows(old) : e.slot \in 1 .. Slots
  BY DEF Filed, Table
<1>2. /\ OnlyWithin(iw.mem, m, IndexAt)
      /\ \A e \in Rows(old) : iw.mem[IndexAt + e.slot] = m[IndexAt + e.slot]
      /\ iw.mem[IndexAt].data = old
  BY <1>1, FailedIndexWrite
<1>3. Texts(iw.mem, IndexAt, old)
  BY <1>2, TextsKeep
<1>. QED  BY <1>2, <1>3 DEF Stored

-----------------------------------------------------------------------------
(* One line in the PSRAM store.                                             *)

\* The slot of the new text: a free one, or that of the line itself.
LEMMA SlotOfLine ==
  ASSUME NEW ix, NEW p, Filed(ix, p), NEW n \in Number,
         ~(Len(ix) = Slots /\ ~Holds(ix, n))
  PROVE  /\ FreeSlots(ix) = {} =>
              /\ ix[At(ix, n)].slot \in 1 .. Slots
              /\ \A e \in Rows(ix) : e.number # n => e.slot # ix[At(ix, n)].slot
         /\ FreeSlots(ix) # {} =>
              /\ Lowest(FreeSlots(ix)) \in 1 .. Slots
              /\ \A e \in Rows(ix) : e.slot # Lowest(FreeSlots(ix))
<1>1. /\ FreeSlots(ix) \subseteq 1 .. Slots
      /\ Cardinality(FreeSlots(ix)) = Slots - Len(ix)
      /\ Len(ix) \in 0 .. Slots
      /\ \A e \in Rows(ix) : e.slot \notin FreeSlots(ix)
  BY FiledSlots
<1>2. ASSUME FreeSlots(ix) = {}
      PROVE  /\ ix[At(ix, n)].slot \in 1 .. Slots
             /\ \A e \in Rows(ix) : e.number # n => e.slot # ix[At(ix, n)].slot
  <2>1. Cardinality(FreeSlots(ix)) = 0
    BY <1>2, FS_EmptySet
  <2>2. Len(ix) = Slots
    BY <1>1, <2>1, SizeAssumption
  <2>3. Holds(ix, n)
    BY <2>2
  <2> DEFINE r == ix[At(ix, n)]
  <2>4. At(ix, n) \in DOMAIN ix /\ r.number = n
    <3>1. Table(ix) /\ n \in Nat
      BY NumberAssumption DEF Filed
    <3>. QED  BY <2>3, <3>1, AtIs
  <2>5. r \in Rows(ix)
    BY <2>4 DEF Rows
  <2> HIDE DEF r
  <2>6. r.slot \in 1 .. Slots /\ \A e \in Rows(ix) : e.slot = r.slot => e = r
    BY <2>5 DEF Filed
  <2>7. \A e \in Rows(ix) : e.number # n => e.slot # r.slot
    BY <2>4, <2>6
  <2>. QED  BY <2>6, <2>7 DEF r
<1>3. ASSUME FreeSlots(ix) # {}
      PROVE  /\ Lowest(FreeSlots(ix)) \in 1 .. Slots
             /\ \A e \in Rows(ix) : e.slot # Lowest(FreeSlots(ix))
  <2>1. FreeSlots(ix) \subseteq Nat
    BY <1>1
  <2>2. Lowest(FreeSlots(ix)) \in FreeSlots(ix)
    BY <1>3, <2>1, LowestIsLeast
  <2>. QED  BY <1>1, <2>2
<1>. QED  BY <1>2, <1>3

\* set_line in the PSRAM store, with every failure of its writes.
LEMMA SetLineInPsram ==
  ASSUME InPsram, NEW n \in Number, NEW t \in Text, SetLinePsram(n, t)
  PROVE  EditDone
<1> DEFINE ix == Index
           b == IndexAt
           free == FreeSlots(ix)
           full == free = {}
           slot == IF full THEN ix[At(ix, n)].slot ELSE Lowest(free)
           next == PutLine(ix, n, Entry(n, t, slot))
           q == With(accepted, n, t)
<1>1. /\ Filed(ix, accepted) /\ Texts(mem, b, ix) /\ HasRoom(mem, b) /\ Whole(accepted)
      /\ Stored(mem, b, accepted) /\ ~exposed /\ ix = mem[b].data
  BY DEF InPsram, Stored, Index
<1>2. Whole(q)
  BY <1>1, WholeWith
<1>3. \/ Len(ix) = Slots /\ ~Holds(ix, n) /\ Fail(FALSE) /\ mem' = mem
      \/ /\ ~(Len(ix) = Slots /\ ~Holds(ix, n))
         /\ \E tw \in TextWrites(mem, slot, t) :
              IF ~tw.ok
              THEN mem' = Tidy(tw.mem, b, ix) /\ Fail(full)
              ELSE \E iw \in IndexWrites(tw.mem, ix, next) :
                     /\ mem' = iw.mem
                     /\ IF iw.ok THEN Accept(q) ELSE Fail(full \/ iw.part > 0)
  BY DEF SetLinePsram
<1> HIDE DEF ix, q
<1>4. CASE Len(ix) = Slots /\ ~Holds(ix, n) /\ Fail(FALSE) /\ mem' = mem
  <2>1. OnlyWithin(mem', mem, b) /\ Stored(mem', b, accepted)
    BY <1>1, <1>4 DEF OnlyWithin
  <2>. QED  BY <1>1, <1>4, <2>1, FailIs DEF EditDone
<1>5. CASE ~(Len(ix) = Slots /\ ~Holds(ix, n))
  <2>1. PICK tw \in TextWrites(mem, slot, t) :
              IF ~tw.ok
              THEN mem' = Tidy(tw.mem, b, ix) /\ Fail(full)
              ELSE \E iw \in IndexWrites(tw.mem, ix, next) :
                     /\ mem' = iw.mem
                     /\ IF iw.ok THEN Accept(q) ELSE Fail(full \/ iw.part > 0)
    BY <1>3, <1>5
  <2>2. /\ slot \in 1 .. Slots
        /\ \A e \in Rows(ix) : e.number # n => e.slot # slot
        /\ ~full => \A e \in Rows(ix) : e.slot # slot
    BY <1>1, <1>5, SlotOfLine
  <2>3. \A e \in Rows(ix) : e.slot \in 1 .. Slots
    BY <1>1 DEF Filed
  <2> HIDE DEF slot, full
  <2>4. /\ OnlyWithin(tw.mem, mem, b)
        /\ tw.mem[b] = mem[b]
        /\ \A s \in 1 .. Slots : s # slot => tw.mem[b + s] = mem[b + s]
        /\ tw.ok => tw.mem[b + slot] = [by |-> "ProgramStore", data |-> t]
    BY <1>1, <2>2, TextWritesIs
  <2>5. HasRoom(tw.mem, b)
    BY <1>1, <2>4 DEF HasRoom, OnlyWithin
  <2>6. ~full => Texts(tw.mem, b, ix)
    BY <1>1, <2>2, <2>3, <2>4 DEF Texts
  <2>7. /\ Filed(next, q)
        /\ Rows(next) = {e \in Rows(ix) : e.number # n} \cup {Entry(n, t, slot)}
    BY <1>1, <2>2, FiledWith DEF q
  <2> HIDE DEF next
  <2>8. tw.ok => Texts(tw.mem, b, next)
    <3>1. Entry(n, t, slot).slot = slot /\ Entry(n, t, slot).hash = t
      BY DEF Entry
    <3>2. ASSUME tw.ok, NEW e \in Rows(next)
          PROVE  tw.mem[b + e.slot] = [by |-> "ProgramStore", data |-> e.hash]
      <4>1. CASE e = Entry(n, t, slot)
        BY <2>4, <3>1, <3>2, <4>1
      <4>2. CASE e \in Rows(ix) /\ e.number # n
        BY <1>1, <2>2, <2>3, <2>4, <4>2 DEF Texts
      <4>. QED  BY <2>7, <3>2, <4>1, <4>2
    <3>. QED  BY <3>2 DEF Texts
  <2>9. CASE ~tw.ok
    <3>1. mem' = Tidy(tw.mem, b, ix) /\ Fail(full)
      BY <2>1, <2>9
    <3>2. ASSUME ~exposed'
          PROVE  /\ OnlyWithin(mem', mem, b) /\ Stored(mem', b, accepted')
                 /\ Whole(accepted') /\ Settled
      <4>1. accepted' = accepted /\ Settled /\ ~full
        BY <3>1, <3>2, FailIs
      <4>2. Stored(tw.mem, b, accepted) /\ tw.mem[b].data = ix
        BY <1>1, <2>4, <2>6, <4>1 DEF Stored
      <4>3. OnlyWithin(mem', tw.mem, b) /\ Stored(mem', b, accepted)
        BY <2>5, <3>1, <4>2, OwnSlots, TidyStored
      <4>. QED  BY <1>1, <2>4, <4>1, <4>3, WithinWithin
    <3>. QED  BY <3>2 DEF EditDone
  <2>10. CASE tw.ok
    <3>1. PICK iw \in IndexWrites(tw.mem, ix, next) :
             /\ mem' = iw.mem
             /\ IF iw.ok THEN Accept(q) ELSE Fail(full \/ iw.part > 0)
      BY <2>1, <2>10
    <3>2. CASE iw.ok
      <4>1. accepted' = q /\ Settled
        BY <1>1, <3>1, <3>2, AcceptIs
      <4>2. OnlyWithin(mem', tw.mem, b) /\ Stored(mem', b, q)
        <5>1. Texts(tw.mem, b, next)
          BY <2>8, <2>10
        <5>. QED  BY <2>5, <2>7, <3>1, <3>2, <5>1, IndexReplaced
      <4>. QED  BY <1>2, <2>4, <4>1, <4>2, WithinWithin DEF EditDone
    <3>3. CASE ~iw.ok
      <4>1. ASSUME ~exposed'
            PROVE  /\ OnlyWithin(mem', mem, b) /\ Stored(mem', b, accepted')
                   /\ Whole(accepted') /\ Settled
        <5>1. accepted' = accepted /\ Settled /\ ~(full \/ iw.part > 0)
          BY <3>1, <3>3, <4>1, FailIs
        <5>2. Texts(tw.mem, b, ix)
          BY <2>6, <5>1
        <5>3. OnlyWithin(mem', tw.mem, b) /\ Stored(mem', b, accepted)
          BY <1>1, <2>5, <2>7, <3>1, <3>3, <5>1, <5>2, IndexKept
        <5>. QED  BY <1>1, <2>4, <5>1, <5>3, WithinWithin
      <4>. QED  BY <4>1 DEF EditDone
    <3>. QED  BY <3>2, <3>3
  <2>. QED  BY <2>9, <2>10
<1>. QED  BY <1>3, <1>4, <1>5

\* erase_line in the PSRAM store.
LEMMA EraseInPsram ==
  ASSUME InPsram, NEW n \in Number, ErasePsram(n)
  PROVE  EditDone
<1> DEFINE ix == Index
           b == IndexAt
           next == RemoveAt(ix, At(ix, n))
           q == Without(accepted, {n})
<1>1. /\ Filed(ix, accepted) /\ Texts(mem, b, ix) /\ HasRoom(mem, b) /\ Whole(accepted)
      /\ ~exposed
  BY DEF InPsram, Stored, Index
<1>2. Whole(q)
  BY <1>1, WholeWithout
<1>3. /\ Holds(ix, n)
      /\ \E iw \in IndexWrites(mem, ix, next) :
           mem' = iw.mem /\ IF iw.ok THEN Accept(q) ELSE Fail(iw.part > 0)
  BY DEF ErasePsram
<1> HIDE DEF ix, q
<1>4. Filed(next, q) /\ Rows(next) \subseteq Rows(ix)
  BY <1>1, <1>3, FiledWithout DEF q
<1> HIDE DEF next
<1>5. Texts(mem, b, next)
  BY <1>1, <1>4 DEF Texts
<1>6. PICK iw \in IndexWrites(mem, ix, next) :
         mem' = iw.mem /\ IF iw.ok THEN Accept(q) ELSE Fail(iw.part > 0)
  BY <1>3
<1>7. CASE iw.ok
  <2>1. accepted' = q /\ Settled
    BY <1>1, <1>6, <1>7, AcceptIs
  <2>2. OnlyWithin(mem', mem, b) /\ Stored(mem', b, q)
    BY <1>1, <1>4, <1>5, <1>6, <1>7, IndexReplaced
  <2>. QED  BY <1>2, <2>1, <2>2 DEF EditDone
<1>8. CASE ~iw.ok
  <2>1. ASSUME ~exposed'
        PROVE  /\ OnlyWithin(mem', mem, b) /\ Stored(mem', b, accepted')
               /\ Whole(accepted') /\ Settled
    <3>1. accepted' = accepted /\ Settled /\ ~(iw.part > 0)
      BY <1>6, <1>8, <2>1, FailIs
    <3>2. OnlyWithin(mem', mem, b) /\ Stored(mem', b, accepted)
      BY <1>1, <1>4, <1>6, <1>8, <3>1, IndexKept
    <3>. QED  BY <1>1, <3>1, <3>2
  <2>. QED  BY <2>1 DEF EditDone
<1>. QED  BY <1>7, <1>8

-----------------------------------------------------------------------------
(* Two lines in the PSRAM store.                                            *)

\* An edit of two lines, m and n.
OfTwo(edit, m, n) ==
    /\ m \in Number /\ n \in Number /\ m # n
    /\ \E t, u \in Text \cup {Junk} : edit = Pair(m, t, n, u)

\* What is used of such an edit.
LEMMA OfTwoIs ==
  ASSUME NEW edit, NEW m, NEW n, OfTwo(edit, m, n)
  PROVE  /\ m \in Number /\ n \in Number /\ m # n
         /\ DOMAIN edit = {m, n} /\ Kept(edit) \subseteq {m, n}
         /\ \A k \in Kept(edit) : edit[k] \in Text
         /\ \A p : Edited(p, edit) = EditedAt(EditedAt(Without(p, DOMAIN edit), edit, m), edit, n)
         /\ \A p : Whole(p) => Whole(Edited(p, edit))
<1>1. m \in Number /\ n \in Number /\ m # n
  BY DEF OfTwo
<1>2. PICK t \in Text \cup {Junk}, u \in Text \cup {Junk} : edit = Pair(m, t, n, u)
  BY DEF OfTwo
<1>3. /\ DOMAIN edit = {m, n} /\ Kept(edit) \subseteq {m, n}
      /\ \A k \in Kept(edit) : edit[k] \in Text
  <2>1. DOMAIN edit = {m, n} /\ \A k \in {m, n} : edit[k] = IF k = m THEN t ELSE u
    BY <1>2 DEF Pair
  <2>2. Kept(edit) = {k \in {m, n} : edit[k] # Junk}
    BY <2>1 DEF Kept
  <2>. QED  BY <1>2, <2>1, <2>2
<1>4. ASSUME NEW p
      PROVE  Edited(p, edit) = EditedAt(EditedAt(Without(p, DOMAIN edit), edit, m), edit, n)
  BY <1>1, <1>2, EditedInSteps
<1>5. \A p : Whole(p) => Whole(Edited(p, edit))
  BY <1>1, <1>2, WholeEdited
<1>. QED  BY <1>1, <1>3, <1>4, <1>5

LEMMA TwoElements ==
  ASSUME NEW m, NEW n, m # n
  PROVE  IsFiniteSet({m, n}) /\ Cardinality({m, n}) = 2
<1>1. IsFiniteSet({m}) /\ Cardinality({m}) = 1
  BY FS_Singleton
<1>2. {m, n} = {m} \cup {n} /\ n \notin {m}
  OBVIOUS
<1>. QED  BY <1>1, <1>2, FS_AddElement

\* The listing has the numbers of the index, at the same places.
LEMMA SameRoom ==
  ASSUME InPsram, NEW edit
  PROVE  Len(Unchanging(Listing, edit)) = Len(Unchanging(Index, edit))
<1>1. Whole(accepted) /\ store = "psram" /\ Stored(mem, IndexAt, accepted)
  BY DEF InPsram
<1>2. Table(Index)
  BY <1>1 DEF Stored, Filed, Index
<1>3. Table(Listing)
  BY <1>1, ListingOfStored, LinesIs DEF Arrayed
<1>4. Listing = [i \in DOMAIN Index |->
                   [number |-> Index[i].number, text |-> EntryText(Index[i])]]
  BY <1>1 DEF Listing
<1> DEFINE ls == Listing  ix == Index
<1>5. DOMAIN ls = DOMAIN ix /\ \A i \in DOMAIN ix : ls[i].number = ix[i].number
  BY <1>4
<1> HIDE DEF ls, ix
<1>6. {i \in DOMAIN ls : ls[i].number \notin DOMAIN edit}
        = {i \in DOMAIN ix : ix[i].number \notin DOMAIN edit}
  BY <1>5
<1>7. Table(ls) /\ Table(ix)
  BY <1>2, <1>3 DEF ls, ix
<1>8. Len(Unchanging(ls, edit)) = Len(Unchanging(ix, edit))
  BY <1>6, <1>7, UnchangingIs
<1>. QED  BY <1>8 DEF ls, ix

\* The new texts take slots of their own that no kept line uses.
LEMMA PairSlotsAre ==
  ASSUME InPsram, NEW edit, NEW m, NEW n, OfTwo(edit, m, n), PairFits(edit, Slots)
  PROVE  /\ \A k \in Kept(edit) :
              /\ PairSlots(edit, <<m, n>>)[k] \in 1 .. Slots
              /\ \A e \in Rows(Unchanging(Index, edit)) :
                    e.slot # PairSlots(edit, <<m, n>>)[k]
         /\ \A j, k \in Kept(edit) :
              j # k => PairSlots(edit, <<m, n>>)[j] # PairSlots(edit, <<m, n>>)[k]
<1> DEFINE rest == Unchanging(Index, edit)
           kept == Kept(edit)
           free == FreeSlots(rest)
           lowest == Lowest(free)
           slots == PairSlots(edit, <<m, n>>)
<1>1. kept \subseteq {m, n} /\ m # n
  BY OfTwoIs
<1>2. \A k \in kept : slots[k] = IF m = k \/ m \notin kept THEN lowest
                                 ELSE Lowest(free \ {lowest})
  BY DEF PairSlots
<1>3. Filed(rest, Without(accepted, DOMAIN edit))
  BY FiledUnchanging DEF InPsram, Stored, Index
<1>4. Len(rest) + Cardinality(kept) <= Slots
  BY SameRoom DEF PairFits
<1> HIDE DEF rest, kept, slots
<1>5. /\ free \subseteq 1 .. Slots /\ IsFiniteSet(free)
      /\ Cardinality(free) = Slots - Len(rest)
      /\ Len(rest) \in 0 .. Slots
      /\ \A e \in Rows(rest) : e.slot \notin free
  BY <1>3, FiledSlots
<1> HIDE DEF free
<1>6. free \subseteq Nat
  BY <1>5
<1>7. ASSUME kept # {}  PROVE lowest \in free
  <2>1. PICK k \in kept : TRUE
    BY <1>7
  <2>2. IsFiniteSet(kept)
    BY <1>1, TwoElements, FS_Subset
  <2>3. Cardinality(kept) \in Nat /\ Cardinality(kept) # 0
    BY <1>7, <2>2, FS_CardinalityType, FS_EmptySet
  <2>4. Cardinality(free) # 0
    BY <1>4, <1>5, <2>3, SizeAssumption
  <2>5. free # {}
    BY <2>4, FS_EmptySet
  <2>. QED  BY <1>6, <2>5, LowestIsLeast
<1>8. ASSUME m \in kept, n \in kept  PROVE Lowest(free \ {lowest}) \in free \ {lowest}
  <2>1. kept = {m, n}
    BY <1>1, <1>8
  <2>2. Cardinality(kept) = 2
    BY <1>1, <2>1, TwoElements
  <2>3. lowest \in free
    BY <1>7, <1>8
  <2>4. Cardinality(free \ {lowest}) = Cardinality(free) - 1
    BY <1>5, <2>3, FS_RemoveElement
  <2>5. Cardinality(free \ {lowest}) # 0
    BY <1>4, <1>5, <2>2, <2>4, SizeAssumption
  <2>6. free \ {lowest} # {}
    BY <2>5, FS_EmptySet
  <2>. QED  BY <1>6, <2>6, LowestIsLeast
<1>9. \A k \in kept : slots[k] \in free
  BY <1>1, <1>2, <1>7, <1>8
<1>10. \A j, k \in kept : j # k => slots[j] # slots[k]
  <2>1. ASSUME m \in kept, n \in kept  PROVE slots[m] # slots[n]
    BY <1>1, <1>2, <1>8, <2>1
  <2>. QED  BY <1>1, <2>1
<1>11. \A k \in kept : slots[k] \in 1 .. Slots /\ \A e \in Rows(rest) : e.slot # slots[k]
  BY <1>5, <1>9
<1>. QED  BY <1>10, <1>11 DEF kept, slots, rest

\* Some of the new texts, those of the numbers N, are in their slots; no
\* other line's slot, and not the index, has been written.
Written(m2, edit, slots, N) ==
    /\ OnlyWithin(m2, mem, IndexAt) /\ m2[IndexAt] = mem[IndexAt]
    /\ \A s \in 1 .. Slots :
         (\A k \in Kept(edit) : slots[k] # s) => m2[IndexAt + s] = mem[IndexAt + s]
    /\ \A k \in N : m2[IndexAt + slots[k]] = [by |-> "ProgramStore", data |-> edit[k]]

OwnSlot(edit, slots) ==
    /\ \A k \in Kept(edit) : slots[k] \in 1 .. Slots
    /\ \A j, k \in Kept(edit) : j # k => slots[j] # slots[k]

\* One more text is written, or its write fails.
LEMMA TextWritten ==
  ASSUME HasRoom(mem, IndexAt), NEW edit, NEW slots, OwnSlot(edit, slots),
         NEW N, N \subseteq Kept(edit), NEW m, Written(m, edit, slots, N),
         NEW k \in Kept(edit) \ N, NEW tw \in TextWrites(m, slots[k], edit[k])
  PROVE  /\ tw.ok \in BOOLEAN
         /\ Written(tw.mem, edit, slots, {})
         /\ tw.ok => Written(tw.mem, edit, slots, N \cup {k})
<1> DEFINE b == IndexAt
           at == slots[k]
           text == edit[k]
<1>1. at \in 1 .. Slots
  BY DEF OwnSlot
<1>2. HasRoom(m, b)
  BY DEF HasRoom, Written, OnlyWithin
<1>3. tw \in TextWrites(m, at, text)
  OBVIOUS
<1>9. OnlyWithin(m, mem, b) /\ m[b] = mem[b]
  BY DEF Written
<1>10. \A j \in Kept(edit) : slots[j] \in 1 .. Slots
  BY DEF OwnSlot
<1>11. \A j \in N : slots[j] # at
  BY DEF OwnSlot
<1>12. \A s \in 1 .. Slots :
         (\A j \in Kept(edit) : slots[j] # s) => m[b + s] = mem[b + s]
  BY DEF Written
<1>13. \A j \in N : m[b + slots[j]] = [by |-> "ProgramStore", data |-> edit[j]]
  BY DEF Written
<1> HIDE DEF at, text
<1>4. /\ OnlyWithin(tw.mem, m, b) /\ tw.ok \in BOOLEAN
      /\ tw.mem[b] = m[b]
      /\ \A s \in 1 .. Slots : s # at => tw.mem[b + s] = m[b + s]
      /\ tw.ok => tw.mem[b + at] = [by |-> "ProgramStore", data |-> text]
  BY <1>1, <1>2, <1>3, TextWritesIs
<1> HIDE DEF b
<1>5. OnlyWithin(tw.mem, mem, b) /\ tw.mem[b] = mem[b]
  BY <1>4, <1>9, WithinWithin
<1>6. \A s \in 1 .. Slots :
         (\A j \in Kept(edit) : slots[j] # s) => tw.mem[b + s] = mem[b + s]
  BY <1>4, <1>12 DEF at
<1>7. \A j \in N : tw.mem[b + slots[j]] = [by |-> "ProgramStore", data |-> edit[j]]
  BY <1>4, <1>10, <1>11, <1>13
<1>8. tw.ok => \A j \in N \cup {k} :
         tw.mem[b + slots[j]] = [by |-> "ProgramStore", data |-> edit[j]]
  BY <1>4, <1>7 DEF at, text
<1>14. Written(tw.mem, edit, slots, {})
  BY <1>5, <1>6 DEF Written, b
<1>15. tw.ok => Written(tw.mem, edit, slots, N \cup {k})
  BY <1>5, <1>6, <1>8 DEF Written, b
<1>. QED  BY <1>4, <1>14, <1>15

\* The texts of a pair, up to the write that fails.
LEMMA PairTextsAre ==
  ASSUME HasRoom(mem, IndexAt), NEW edit, NEW m, NEW n, OfTwo(edit, m, n),
         NEW slots, OwnSlot(edit, slots), NEW tw \in PairTexts(edit, <<m, n>>, slots)
  PROVE  /\ Written(tw.mem, edit, slots, {})
         /\ tw.ok => Written(tw.mem, edit, slots, Kept(edit))
<1> DEFINE kept == Kept(edit)
           one == IF m \in kept THEN TextWrites(mem, slots[m], edit[m])
                  ELSE {[ok |-> TRUE, mem |-> mem]}
           two(w) == IF n \in kept THEN TextWrites(w.mem, slots[n], edit[n]) ELSE {w}
<1>1. kept \subseteq {m, n} /\ m # n
  BY OfTwoIs
<1>2. tw \in {w \in one : ~w.ok} \cup UNION {two(w) : w \in {x \in one : x.ok}}
  BY DEF PairTexts
<1>3. Written(mem, edit, slots, {})
  BY DEF Written, OnlyWithin
<1> HIDE DEF two
<1>4. ASSUME NEW w \in one
      PROVE  /\ Written(w.mem, edit, slots, {})
             /\ w.ok => Written(w.mem, edit, slots, kept \cap {m})
  <2>1. CASE m \in kept
    <3>1. w \in TextWrites(mem, slots[m], edit[m]) /\ m \in Kept(edit) \ {}
      BY <2>1
    <3>2. {} \cup {m} = kept \cap {m}
      BY <2>1
    <3> HIDE DEF kept, one
    <3>3. Written(w.mem, edit, slots, {}) /\ (w.ok => Written(w.mem, edit, slots, {} \cup {m}))
      BY <1>3, <3>1, TextWritten
    <3>. QED  BY <3>2, <3>3
  <2>2. CASE m \notin kept
    <3>1. w.mem = mem /\ kept \cap {m} = {}
      BY <2>2
    <3>. QED  BY <1>3, <3>1
  <2>. QED  BY <2>1, <2>2
<1>5. ASSUME NEW w \in one, w.ok, tw \in two(w)
      PROVE  /\ Written(tw.mem, edit, slots, {})
             /\ tw.ok => Written(tw.mem, edit, slots, kept)
  <2>1. Written(w.mem, edit, slots, {}) /\ Written(w.mem, edit, slots, kept \cap {m})
    BY <1>4, <1>5
  <2>2. CASE n \in kept
    <3> DEFINE N == kept \cap {m}
    <3>1. tw \in TextWrites(w.mem, slots[n], edit[n])
      BY <1>5, <2>2 DEF two
    <3>2. N \subseteq Kept(edit) /\ n \in Kept(edit) \ N /\ N \cup {n} = kept
      BY <1>1, <2>2
    <3>3. Written(w.mem, edit, slots, N)
      BY <2>1
    <3> HIDE DEF N, kept, one
    <3>4. /\ Written(tw.mem, edit, slots, {})
          /\ tw.ok => Written(tw.mem, edit, slots, N \cup {n})
      BY <3>1, <3>2, <3>3, TextWritten
    <3>. QED  BY <3>2, <3>4
  <2>3. CASE n \notin kept
    <3>1. tw = w /\ kept \cap {m} = kept
      BY <1>1, <1>5, <2>3 DEF two
    <3>. QED  BY <2>1, <3>1
  <2>. QED  BY <2>2, <2>3
<1> HIDE DEF one
<1>6. CASE tw \in one /\ ~tw.ok
  BY <1>4, <1>6
<1>7. CASE \E w \in one : w.ok /\ tw \in two(w)
  BY <1>5, <1>7
<1>. QED  BY <1>2, <1>6, <1>7

\* Entries with different numbers, in any order.
Distinct(s) ==
    /\ IsSeq(s)
    /\ \A i \in DOMAIN s : s[i].number \in Nat
    /\ \A i, j \in DOMAIN s : s[i].number = s[j].number => i = j

\* An entry for a number that has none yet.
LEMMA AppendedIs ==
  ASSUME NEW s, Distinct(s), NEW edit, NEW slots, NEW n \in Nat,
         \A e \in Rows(s) : e.number # n
  PROVE  /\ Distinct(Appended(s, edit, slots, n))
         /\ Rows(Appended(s, edit, slots, n))
              = Rows(s) \cup {Entry(k, edit[k], slots[k]) : k \in Kept(edit) \cap {n}}
<1> DEFINE new == Entry(n, edit[n], slots[n])
           a == Append(s, new)
<1>1. CASE n \in Kept(edit)
  <2>1. Appended(s, edit, slots, n) = a
    BY <1>1 DEF Appended
  <2>2. new.number = n
    BY DEF Entry
  <2>3. {Entry(k, edit[k], slots[k]) : k \in Kept(edit) \cap {n}} = {new}
    BY <1>1
  <2> HIDE DEF new
  <2>4. IsSeq(s)
    BY DEF Distinct
  <2>5. Len(s) \in Nat /\ DOMAIN s = 1 .. Len(s)
    BY <2>4, SeqIs
  <2>6. /\ IsSeq(a) /\ Len(a) = Len(s) + 1 /\ a[Len(s) + 1] = new
        /\ \A i \in 1 .. Len(s) : a[i] = s[i]
    BY <2>4, AppendIs
  <2> HIDE DEF a
  <2>7. DOMAIN a = 1 .. Len(s) + 1
    BY <2>6, SeqIs
  <2>8. \A i \in DOMAIN s : s[i].number # n
    BY DEF Rows
  <2>9. \A i \in DOMAIN a : i # Len(s) + 1 => i \in DOMAIN s /\ a[i] = s[i]
    BY <2>5, <2>6, <2>7
  <2>10. \A i \in DOMAIN a : a[i].number \in Nat
    BY <2>2, <2>6, <2>9 DEF Distinct
  <2>11. \A i, j \in DOMAIN a : a[i].number = a[j].number => i = j
    BY <2>2, <2>6, <2>8, <2>9 DEF Distinct
  <2>12. Rows(a) = Rows(s) \cup {new}
    <3>1. Rows(a) \subseteq Rows(s) \cup {new}
      BY <2>6, <2>9 DEF Rows
    <3>2. \A i \in DOMAIN s : i \in DOMAIN a /\ a[i] = s[i]
      BY <2>5, <2>6, <2>7
    <3>3. Rows(s) \subseteq Rows(a)
      BY <3>2 DEF Rows
    <3>4. Len(s) + 1 \in DOMAIN a
      BY <2>5, <2>7
    <3>5. new \in Rows(a)
      BY <2>6, <3>4 DEF Rows
    <3>. QED  BY <3>1, <3>3, <3>5
  <2>. QED  BY <2>1, <2>3, <2>6, <2>10, <2>11, <2>12 DEF Distinct
<1>2. CASE n \notin Kept(edit)
  <2>1. Appended(s, edit, slots, n) = s
    BY <1>2 DEF Appended
  <2>2. {Entry(k, edit[k], slots[k]) : k \in Kept(edit) \cap {n}} = {}
    BY <1>2
  <2>. QED  BY <2>1, <2>2
<1>. QED  BY <1>1, <1>2

\* The new index: the entries that stay, and those of the new texts.
LEMMA PairIndexIs ==
  ASSUME NEW edit, NEW m, NEW n, OfTwo(edit, m, n), NEW slots,
         Table(Unchanging(Index, edit)),
         \A e \in Rows(Unchanging(Index, edit)) : e.number \notin DOMAIN edit
  PROVE  /\ Table(PairIndex(edit, <<m, n>>, slots))
         /\ Rows(PairIndex(edit, <<m, n>>, slots))
              = Rows(Unchanging(Index, edit))
                \cup {Entry(k, edit[k], slots[k]) : k \in Kept(edit)}
<1> DEFINE rest == Unchanging(Index, edit)
           one == Appended(rest, edit, slots, m)
           two == Appended(one, edit, slots, n)
<1>1. /\ m \in Nat /\ n \in Nat /\ m # n /\ DOMAIN edit = {m, n}
      /\ Kept(edit) \subseteq {m, n}
  BY OfTwoIs, NumberAssumption
<1>2. Distinct(rest)
  BY RowsApart DEF Table, Distinct
<1>3. PairIndex(edit, <<m, n>>, slots) = InOrder(two)
  BY DEF PairIndex
<1>4. \A e \in Rows(rest) : e.number # m /\ e.number # n
  BY <1>1
<1> HIDE DEF rest
<1>5. /\ Distinct(one)
      /\ Rows(one) = Rows(rest) \cup {Entry(k, edit[k], slots[k]) : k \in Kept(edit) \cap {m}}
  BY <1>1, <1>2, <1>4, AppendedIs
<1>6. \A k : Entry(k, edit[k], slots[k]).number = k
  BY DEF Entry
<1>7. \A e \in Rows(one) : e.number # n
  BY <1>1, <1>4, <1>5, <1>6
<1> HIDE DEF one
<1>8. /\ Distinct(two)
      /\ Rows(two) = Rows(one) \cup {Entry(k, edit[k], slots[k]) : k \in Kept(edit) \cap {n}}
  BY <1>1, <1>5, <1>7, AppendedIs
<1> HIDE DEF two
<1>9. Table(InOrder(two)) /\ Rows(InOrder(two)) = Rows(two)
  BY <1>8, InOrderIs DEF Distinct
<1>10. {Entry(k, edit[k], slots[k]) : k \in Kept(edit)}
         = {Entry(k, edit[k], slots[k]) : k \in Kept(edit) \cap {m}}
           \cup {Entry(k, edit[k], slots[k]) : k \in Kept(edit) \cap {n}}
  BY <1>1
<1>11. Rows(InOrder(two)) = Rows(rest) \cup {Entry(k, edit[k], slots[k]) : k \in Kept(edit)}
  BY <1>5, <1>8, <1>9, <1>10
<1>. QED  BY <1>3, <1>9, <1>11 DEF rest

\* It files the edited program.
LEMMA FiledPair ==
  ASSUME NEW p, Filed(Index, p), NEW edit, NEW m, NEW n, OfTwo(edit, m, n),
         NEW slots, OwnSlot(edit, slots),
         \A k \in Kept(edit) : \A e \in Rows(Unchanging(Index, edit)) : e.slot # slots[k]
  PROVE  Filed(PairIndex(edit, <<m, n>>, slots), Edited(p, edit))
<1> DEFINE rest == Unchanging(Index, edit)
           next == PairIndex(edit, <<m, n>>, slots)
           q == Edited(p, edit)
           kept == Kept(edit)
<1>1. /\ Filed(rest, Without(p, DOMAIN edit))
      /\ Rows(rest) = {e \in Rows(Index) : e.number \notin DOMAIN edit}
  BY FiledUnchanging
<1>2. /\ Table(next)
      /\ Rows(next) = Rows(rest) \cup {Entry(k, edit[k], slots[k]) : k \in kept}
  BY <1>1, PairIndexIs DEF Filed
<1>3. /\ DOMAIN q = kept \cup (DOMAIN p \ DOMAIN edit)
      /\ \A j \in DOMAIN q : q[j] = IF j \in kept THEN edit[j] ELSE p[j]
  BY DEF Edited
<1>4. kept \subseteq DOMAIN edit
  BY DEF Kept
<1>5. \A k : /\ Entry(k, edit[k], slots[k]).number = k
             /\ Entry(k, edit[k], slots[k]).hash = edit[k]
             /\ Entry(k, edit[k], slots[k]).slot = slots[k]
  BY DEF Entry
<1>6. \A k \in kept : slots[k] \in 1 .. Slots /\ \A e \in Rows(rest) : e.slot # slots[k]
  BY DEF OwnSlot
<1>7. \A j, k \in kept : slots[j] = slots[k] => j = k
  BY DEF OwnSlot
<1>8. /\ \A e \in Rows(Index) : /\ e.number \in DOMAIN p /\ e.hash = p[e.number]
                                /\ e.slot \in 1 .. Slots
      /\ \A j \in DOMAIN p : \E e \in Rows(Index) : e.number = j
      /\ \A d, e \in Rows(Index) : d.slot = e.slot => d = e
  BY DEF Filed
<1> HIDE DEF rest, next, q, kept
<1>9. ASSUME NEW e \in Rows(next)
      PROVE  e.number \in DOMAIN q /\ e.hash = q[e.number] /\ e.slot \in 1 .. Slots
  <2>1. CASE e \in Rows(rest)
    BY <1>1, <1>3, <1>4, <1>8, <2>1
  <2>2. CASE \E k \in kept : e = Entry(k, edit[k], slots[k])
    <3>1. PICK k \in kept : e = Entry(k, edit[k], slots[k])
      BY <2>2
    <3>2. e.number = k /\ e.hash = edit[k] /\ e.slot = slots[k]
      BY <1>5, <3>1
    <3>. QED  BY <1>3, <1>6, <3>2
  <2>. QED  BY <1>2, <2>1, <2>2
<1>10. ASSUME NEW j \in DOMAIN q  PROVE \E e \in Rows(next) : e.number = j
  <2>1. CASE j \in kept
    <3>1. Entry(j, edit[j], slots[j]) \in Rows(next)
      BY <1>2, <2>1
    <3>. QED  BY <1>5, <3>1
  <2>2. CASE j \in DOMAIN p \ DOMAIN edit
    <3>1. PICK e \in Rows(Index) : e.number = j
      BY <1>8, <2>2
    <3>2. e \in Rows(next)
      BY <1>1, <1>2, <2>2, <3>1
    <3>. QED  BY <3>1, <3>2
  <2>. QED  BY <1>3, <2>1, <2>2
<1>11. ASSUME NEW d \in Rows(next), NEW e \in Rows(next), d.slot = e.slot
       PROVE  d = e
  <2>1. ASSUME NEW x \in Rows(rest), NEW y, y \in {Entry(k, edit[k], slots[k]) : k \in kept}
        PROVE  x.slot # y.slot
    BY <1>5, <1>6, <2>1
  <2>2. CASE d \in Rows(rest) /\ e \in Rows(rest)
    BY <1>1, <1>8, <1>11, <2>2
  <2>3. CASE d \in Rows(rest) /\ e \in {Entry(k, edit[k], slots[k]) : k \in kept}
    BY <1>11, <2>1, <2>3
  <2>4. CASE e \in Rows(rest) /\ d \in {Entry(k, edit[k], slots[k]) : k \in kept}
    BY <1>11, <2>1, <2>4
  <2>5. CASE /\ d \in {Entry(k, edit[k], slots[k]) : k \in kept}
             /\ e \in {Entry(k, edit[k], slots[k]) : k \in kept}
    <3>1. PICK j \in kept : d = Entry(j, edit[j], slots[j])
      BY <2>5
    <3>2. PICK k \in kept : e = Entry(k, edit[k], slots[k])
      BY <2>5
    <3>3. j = k
      BY <1>5, <1>7, <1>11, <3>1, <3>2
    <3>. QED  BY <3>1, <3>2, <3>3
  <2>. QED  BY <1>2, <2>2, <2>3, <2>4, <2>5
<1>12. Filed(next, q)
  BY <1>2, <1>9, <1>10, <1>11 DEF Filed
<1>. QED  BY <1>12 DEF next, q

\* After the texts are written: what the lines that stay and the new ones
\* have in their slots.
LEMMA PairTextsThere ==
  ASSUME InPsram, NEW edit, NEW m, NEW n, OfTwo(edit, m, n),
         NEW slots, OwnSlot(edit, slots),
         \A k \in Kept(edit) : \A e \in Rows(Unchanging(Index, edit)) : e.slot # slots[k],
         NEW m2, Written(m2, edit, slots, {})
  PROVE  /\ \A e \in Rows(Index) : e.number \notin DOMAIN edit =>
              m2[IndexAt + e.slot] = mem[IndexAt + e.slot]
         /\ Written(m2, edit, slots, Kept(edit)) =>
              Texts(m2, IndexAt, PairIndex(edit, <<m, n>>, slots))
<1> DEFINE rest == Unchanging(Index, edit)
           next == PairIndex(edit, <<m, n>>, slots)
           kept == Kept(edit)
           b == IndexAt
<1>1. Filed(Index, accepted) /\ Texts(mem, b, Index)
  BY DEF InPsram, Stored, Index
<1>2. /\ Filed(rest, Without(accepted, DOMAIN edit))
      /\ Rows(rest) = {e \in Rows(Index) : e.number \notin DOMAIN edit}
  BY <1>1, FiledUnchanging
<1>3. Rows(next) = Rows(rest) \cup {Entry(k, edit[k], slots[k]) : k \in kept}
  BY <1>2, PairIndexIs DEF Filed
<1>4. \A e \in Rows(rest) : e \in Rows(Index) /\ e.slot \in 1 .. Slots
  BY <1>1, <1>2 DEF Filed
<1>5. \A e \in Rows(rest) : m2[b + e.slot] = mem[b + e.slot]
  BY <1>4 DEF Written
<1>6. ASSUME Written(m2, edit, slots, kept)  PROVE Texts(m2, b, next)
  <2>1. \A k \in kept : m2[b + slots[k]] = [by |-> "ProgramStore", data |-> edit[k]]
    BY <1>6 DEF Written
  <2>2. \A k : /\ Entry(k, edit[k], slots[k]).hash = edit[k]
               /\ Entry(k, edit[k], slots[k]).slot = slots[k]
    BY DEF Entry
  <2> HIDE DEF rest, next, kept, b
  <2>3. \A e \in Rows(rest) : m2[b + e.slot] = [by |-> "ProgramStore", data |-> e.hash]
    BY <1>1, <1>4, <1>5 DEF Texts
  <2>4. ASSUME NEW e \in Rows(next)
        PROVE  m2[b + e.slot] = [by |-> "ProgramStore", data |-> e.hash]
    <3>1. CASE e \in Rows(rest)
      BY <2>3, <3>1
    <3>2. CASE \E k \in kept : e = Entry(k, edit[k], slots[k])
      <4>1. PICK k \in kept : e = Entry(k, edit[k], slots[k])
        BY <3>2
      <4>2. e.hash = edit[k] /\ e.slot = slots[k]
        BY <2>2, <4>1
      <4>. QED  BY <2>1, <4>2
    <3>. QED  BY <1>3, <3>1, <3>2
  <2>. QED  BY <2>4 DEF Texts
<1>. QED  BY <1>2, <1>5, <1>6

\* The roll-back, if every one of its writes succeeds.
LEMMA RolledBackStored ==
  ASSUME InPsram, NEW edit, NEW m2, OnlyWithin(m2, mem, IndexAt),
         \A e \in Rows(Index) : e.number \notin DOMAIN edit =>
              m2[IndexAt + e.slot] = mem[IndexAt + e.slot],
         NEW back \in RolledBack(m2, Index, edit), back.ok
  PROVE  OnlyWithin(back.mem, mem, IndexAt) /\ Stored(back.mem, IndexAt, accepted)
<1> DEFINE b == IndexAt
           old == Index
           lost == {e \in {old[i] : i \in DOMAIN old} : e.number \in DOMAIN edit}
           whole == [at \in DOMAIN m2 |->
                       IF at = b THEN [by |-> "ProgramStore", data |-> old]
                       ELSE IF \E e \in lost : at = SlotAt(e.slot)
                       THEN mem[at] ELSE m2[at]]
<1>1. back.mem = Tidy(whole, b, old)
  BY DEF RolledBack
<1>2. /\ Filed(old, accepted) /\ Texts(mem, b, old) /\ HasRoom(mem, b)
  BY DEF InPsram, Stored, Index
<1>3. \A s : SlotAt(s) = b + s
  BY DEF SlotAt, IndexAt, Base
<1>4. \A e \in Rows(old) : e.slot \in 1 .. Slots
  BY <1>2 DEF Filed
<1>5. b \in Nat /\ \A i \in 0 .. Slots : b + i \in DOMAIN mem
  BY <1>2 DEF HasRoom
<1>6. DOMAIN whole = DOMAIN mem /\ DOMAIN m2 = DOMAIN mem
  BY DEF OnlyWithin
<1>7. lost \subseteq Rows(old) /\ \A e \in Rows(old) : e.number \in DOMAIN edit => e \in lost
  BY DEF Rows
<1>8. \A at \in DOMAIN mem :
         whole[at] = IF at = b THEN [by |-> "ProgramStore", data |-> old]
                     ELSE IF \E e \in lost : at = b + e.slot THEN mem[at] ELSE m2[at]
  BY <1>3, <1>6
<1>9. \A at \in DOMAIN mem : at \notin b .. b + Slots => m2[at] = mem[at]
  BY DEF OnlyWithin
<1> HIDE DEF whole, lost, b, old
<1>10. b + 0 \in DOMAIN mem /\ 0 \in 0 .. Slots
  BY <1>5, SizeAssumption
<1>11. whole[b].data = old
  BY <1>5, <1>8, <1>10
<1>12. \A at \in DOMAIN mem : at \notin b .. b + Slots => whole[at] = mem[at]
  BY <1>5, <1>8, <1>9, SizeAssumption
<1>13. OnlyWithin(whole, mem, b)
  BY <1>6, <1>12 DEF OnlyWithin
<1>14. ASSUME NEW e \in Rows(old)  PROVE whole[b + e.slot] = mem[b + e.slot]
  <2>1. e.slot \in 1 .. Slots /\ b + e.slot \in DOMAIN mem /\ b + e.slot # b
    BY <1>4, <1>5
  <2>2. CASE e \in lost
    BY <1>8, <2>1, <2>2
  <2>3. CASE e \notin lost
    <3>1. m2[b + e.slot] = mem[b + e.slot]
      BY <1>7, <2>3 DEF b, old
    <3>. QED  BY <1>8, <2>1, <3>1
  <2>. QED  BY <2>2, <2>3
<1>15. Texts(whole, b, old)
  BY <1>2, <1>14, TextsKeep
<1>16. Stored(whole, b, accepted)
  BY <1>2, <1>11, <1>15 DEF Stored
<1>17. HasRoom(whole, b)
  BY <1>2, <1>6 DEF HasRoom
<1>18. \A e \in Rows(whole[b].data) : \E i \in DOMAIN old : old[i].slot = e.slot
  BY <1>11, OwnSlots
<1>19. OnlyWithin(back.mem, whole, b) /\ Stored(back.mem, b, accepted)
  BY <1>1, <1>16, <1>17, <1>18, TidyStored
<1>20. OnlyWithin(back.mem, mem, b)
  BY <1>13, <1>19, WithinWithin
<1>. QED  BY <1>19, <1>20 DEF b

\* replace_line_pair: both lines change, or a roll-back restores both.
LEMMA PairInPsram ==
  ASSUME InPsram, NEW edit, NEW m, NEW n, OfTwo(edit, m, n), PairPsram(edit, <<m, n>>)
  PROVE  EditDone
<1> DEFINE ix == Index
           b == IndexAt
           order == <<m, n>>
           slots == PairSlots(edit, order)
           next == PairIndex(edit, order, slots)
           q == Edited(accepted, edit)
<1>1. /\ Filed(ix, accepted) /\ Texts(mem, b, ix) /\ HasRoom(mem, b) /\ Whole(accepted)
      /\ ~exposed
  BY DEF InPsram, Stored, Index
<1>2. Whole(q)
  BY <1>1, OfTwoIs
<1>3. /\ PairFits(edit, Slots)
      /\ \E tw \in PairTexts(edit, order, slots) :
         \E iw \in IF tw.ok THEN IndexWrites(tw.mem, ix, next)
                   ELSE {[ok |-> FALSE, mem |-> tw.mem]} :
           IF iw.ok THEN mem' = iw.mem /\ Accept(q)
           ELSE \E back \in RolledBack(iw.mem, ix, edit) :
                  mem' = back.mem /\ Fail(~back.ok)
  BY DEF PairPsram
<1>4. /\ OwnSlot(edit, slots)
      /\ \A k \in Kept(edit) : \A e \in Rows(Unchanging(ix, edit)) : e.slot # slots[k]
  BY <1>3, PairSlotsAre DEF OwnSlot
<1>5. Filed(next, q)
  BY <1>1, <1>4, FiledPair
<1>6. PICK tw \in PairTexts(edit, order, slots) :
         \E iw \in IF tw.ok THEN IndexWrites(tw.mem, ix, next)
                   ELSE {[ok |-> FALSE, mem |-> tw.mem]} :
           IF iw.ok THEN mem' = iw.mem /\ Accept(q)
           ELSE \E back \in RolledBack(iw.mem, ix, edit) :
                  mem' = back.mem /\ Fail(~back.ok)
  BY <1>3
<1> HIDE DEF slots
<1>7. /\ Written(tw.mem, edit, slots, {})
      /\ tw.ok => Written(tw.mem, edit, slots, Kept(edit))
  BY <1>1, <1>4, <1>6, PairTextsAre
<1>8. /\ \A e \in Rows(ix) : e.number \notin DOMAIN edit =>
              tw.mem[b + e.slot] = mem[b + e.slot]
      /\ tw.ok => Texts(tw.mem, b, next)
  BY <1>4, <1>7, PairTextsThere
<1>9. OnlyWithin(tw.mem, mem, b) /\ HasRoom(tw.mem, b)
  BY <1>1, <1>7 DEF Written, OnlyWithin, HasRoom
<1> HIDE DEF next, q, ix, b
<1>10. PICK iw \in IF tw.ok THEN IndexWrites(tw.mem, ix, next)
                   ELSE {[ok |-> FALSE, mem |-> tw.mem]} :
           IF iw.ok THEN mem' = iw.mem /\ Accept(q)
           ELSE \E back \in RolledBack(iw.mem, ix, edit) :
                  mem' = back.mem /\ Fail(~back.ok)
  BY <1>6
<1>11. CASE iw.ok
  <2>1. mem' = iw.mem /\ Accept(q)
    BY <1>10, <1>11
  <2>2. tw.ok /\ iw \in IndexWrites(tw.mem, ix, next)
    BY <1>10, <1>11
  <2>3. accepted' = q /\ Settled
    BY <1>1, <2>1, AcceptIs
  <2>4. OnlyWithin(iw.mem, tw.mem, b) /\ Stored(iw.mem, b, q)
    BY <1>5, <1>8, <1>9, <1>11, <2>2, IndexReplaced DEF b
  <2>5. OnlyWithin(mem', mem, b) /\ Stored(mem', b, accepted')
    BY <1>9, <2>1, <2>3, <2>4, WithinWithin
  <2>. QED  BY <1>2, <2>3, <2>5 DEF EditDone, b
<1>12. CASE ~iw.ok
  <2>1. PICK back \in RolledBack(iw.mem, ix, edit) : mem' = back.mem /\ Fail(~back.ok)
    BY <1>10, <1>12
  <2>2. OnlyWithin(iw.mem, tw.mem, b)
        /\ \A e \in Rows(ix) : iw.mem[b + e.slot] = tw.mem[b + e.slot]
    <3>1. CASE tw.ok
      <4>1. iw \in IndexWrites(tw.mem, ix, next)
        BY <1>10, <3>1
      <4>2. IsSeq(ix) /\ \A e \in Rows(ix) : e.slot \in 1 .. Slots
        BY <1>1 DEF Filed, Table
      <4>. QED  BY <1>9, <1>12, <4>1, <4>2, FailedIndexWrite DEF b
    <3>2. CASE ~tw.ok
      <4>1. iw.mem = tw.mem
        BY <1>10, <3>2
      <4>. QED  BY <4>1 DEF OnlyWithin
    <3>. QED  BY <3>1, <3>2
  <2>3. OnlyWithin(iw.mem, mem, b)
    BY <1>9, <2>2, WithinWithin
  <2>4. \A e \in Rows(ix) : e.number \notin DOMAIN edit =>
              iw.mem[b + e.slot] = mem[b + e.slot]
    BY <1>8, <2>2
  <2>5. ASSUME ~exposed'
        PROVE  /\ OnlyWithin(mem', mem, b) /\ Stored(mem', b, accepted')
               /\ Whole(accepted') /\ Settled
    <3>1. accepted' = accepted /\ Settled /\ ~(~back.ok)
      BY <2>1, <2>5, FailIs
    <3>2. OnlyWithin(back.mem, mem, b) /\ Stored(back.mem, b, accepted)
      BY <2>1, <2>3, <2>4, <3>1, RolledBackStored DEF b, ix
    <3>. QED  BY <1>1, <2>1, <3>1, <3>2
  <2>. QED  BY <2>5 DEF EditDone, b
<1>. QED  BY <1>11, <1>12

-----------------------------------------------------------------------------
(* The invariant of the program: it is where the store says, whole, and in  *)
(* a region of its own size; the compiled one is of the accepted lines.     *)

Types ==
    /\ available \in BOOLEAN
    /\ DOMAIN mem = 0 .. Capacity - 1
    /\ store \in {"psram", "sram", "sd"}
    /\ suspended \in BOOLEAN /\ exposed \in BOOLEAN
    /\ sdCache \in BOOLEAN
    /\ direct \in {"none", "psram", "sram"}

OwnRegion == store = "psram" => region["ProgramStore"].size = StoreSize

InPlace ==
    /\ store = "sram" => Arrayed(sram, accepted)
    /\ store = "psram" => Stored(mem, IndexAt, accepted)

PInv ==
    /\ Types
    /\ Whole(accepted)
    /\ OwnRegion
    /\ ~exposed => InPlace
    /\ RunsTheProgram

KInv == IInv /\ PInv

LEMMA ClientsAre ==
  /\ "ProgramStore" \in Client /\ "SdCache" \in Client
  /\ "DirectState" \in Client /\ "CompiledCache" \in Client
BY ClientAssumption

\* What the invariant is for.
LEMMA KeptSuffices == KInv => ProgramKept
<1> SUFFICES ASSUME KInv  PROVE ProgramKept
  OBVIOUS
<1>1. IInv /\ Types /\ Whole(accepted) /\ (~exposed => InPlace) /\ RunsTheProgram
  BY DEF KInv, PInv
<1>2. TypeOK
  <2>1. region \in [Client -> Region] /\ cache \in [valid : BOOLEAN, current : BOOLEAN]
    BY <1>1 DEF IInv, Sound
  <2>2. accepted \in Program
    BY <1>1 DEF Whole
  <2>. QED  BY <1>1, <2>1, <2>2 DEF TypeOK, Types
<1>3. ASSUME ~exposed  PROVE Listing = Lines(accepted)
  <2>1. CASE store = "psram"
    BY <1>1, <1>3, <2>1, ListingOfStored DEF InPlace
  <2>2. CASE store = "sram"
    <3>1. Listing = sram
      BY <2>2 DEF Listing
    <3>2. Arrayed(sram, accepted)
      BY <1>1, <1>3, <2>2 DEF InPlace
    <3>. QED  BY <1>1, <3>1, <3>2, LinesIs
  <2>3. CASE store = "sd"
    BY <2>3 DEF Listing
  <2>. QED  BY <1>1, <2>1, <2>2, <2>3 DEF Types
<1>. QED  BY <1>1, <1>2, <1>3 DEF ProgramKept, ListingIsAccepted

\* The store's own units are those of its region.
LEMMA StoreRoom ==
  ASSUME NEW r, Sound(r), r["ProgramStore"].size = StoreSize,
         NEW m, DOMAIN m = 0 .. Capacity - 1, NEW b, b = r["ProgramStore"].base
  PROVE  /\ "ProgramStore" \in Used(r) /\ End(r["ProgramStore"]) = b + Slots + 1
         /\ HasRoom(m, b) /\ b + Slots + 1 <= Capacity
<1>1. StoreSize = Slots + 1 /\ Slots \in Nat /\ Capacity \in Nat
  BY SizeAssumption, CapacityAssumption DEF StoreSize
<1> DEFINE g == r["ProgramStore"]
<1>2. "ProgramStore" \in Used(r)
  BY <1>1, ClientsAre DEF Used
<1>3. g.base \in Nat /\ End(g) = g.base + g.size /\ End(g) <= Capacity
  BY <1>2, RegionBounds
<1>4. g.base = b /\ g.size = Slots + 1
  BY <1>1
<1>5. End(g) = b + Slots + 1 /\ b \in Nat /\ b + Slots + 1 <= Capacity
  BY <1>1, <1>3, <1>4
<1> HIDE DEF g
<1>6. ASSUME NEW i \in 0 .. Slots  PROVE b + i \in DOMAIN m
  BY SMTT(30), <1>1, <1>5
<1>7. HasRoom(m, b)
  BY <1>5, <1>6 DEF HasRoom
<1>. QED  BY <1>2, <1>5, <1>7 DEF g

\* A client's units are apart from another's.
LEMMA UnitsApart ==
  ASSUME NEW r, Sound(r), NEW c \in Used(r), NEW d \in Used(r), c # d,
         NEW at \in Int, r[c].base <= at, at < End(r[c])
  PROVE  ~(r[d].base <= at /\ at < End(r[d]))
<1>1. /\ r[c].base \in Nat /\ End(r[c]) \in Nat
      /\ r[d].base \in Nat /\ End(r[d]) \in Nat
  BY RegionBounds
<1>2. End(r[c]) <= r[d].base \/ End(r[d]) <= r[c].base
  BY DEF Sound, Disjoint, Apart
<1>. QED  BY <1>1, <1>2

\* The invariant, for a program in PSRAM.
LEMMA InPsramNow ==
  ASSUME KInv, store = "psram", ~exposed
  PROVE  InPsram
<1>1. /\ Sound(region) /\ DOMAIN mem = 0 .. Capacity - 1
      /\ region["ProgramStore"].size = StoreSize
      /\ Whole(accepted) /\ Stored(mem, IndexAt, accepted)
  BY DEF KInv, PInv, IInv, Types, OwnRegion, InPlace
<1>2. HasRoom(mem, IndexAt)
  BY <1>1, StoreRoom DEF IndexAt, Base
<1>. QED  BY <1>1, <1>2 DEF InPsram

\* The compiled program's first unit is in its region.
LEMMA CompiledAt ==
  ASSUME IInv, cache.valid
  PROVE  /\ "CompiledCache" \in Used(region)
         /\ Base("CompiledCache") \in 0 .. Capacity - 1
         /\ region["CompiledCache"].base <= Base("CompiledCache")
         /\ Base("CompiledCache") < End(region["CompiledCache"])
<1>1. Sound(region) /\ "CompiledCache" \in Used(region)
  BY DEF IInv, Users
<1> DEFINE g == region["CompiledCache"]
<1>2. /\ g.base \in Nat /\ g.size \in Nat /\ g.size > 0 /\ End(g) = g.base + g.size
      /\ End(g) \in Nat /\ End(g) <= Capacity
  BY <1>1, RegionBounds
<1>. QED  BY <1>1, <1>2, CapacityAssumption DEF Base

\* A write within the store's region leaves the compiled program alone.
LEMMA CompiledElsewhere ==
  ASSUME KInv, store = "psram", cache.valid, NEW m2, OnlyWithin(m2, mem, IndexAt)
  PROVE  m2[Base("CompiledCache")] = mem[Base("CompiledCache")]
<1>1. /\ IInv /\ Sound(region) /\ DOMAIN mem = 0 .. Capacity - 1
      /\ region["ProgramStore"].size = StoreSize
  BY DEF KInv, PInv, IInv, Types, OwnRegion
<1> DEFINE at == Base("CompiledCache")
<1>2. /\ "CompiledCache" \in Used(region) /\ at \in 0 .. Capacity - 1
      /\ region["CompiledCache"].base <= at /\ at < End(region["CompiledCache"])
  BY <1>1, CompiledAt
<1>3. /\ "ProgramStore" \in Used(region)
      /\ End(region["ProgramStore"]) = IndexAt + Slots + 1
      /\ HasRoom(mem, IndexAt)
  BY <1>1, StoreRoom DEF IndexAt, Base
<1>4. ~(IndexAt <= at /\ at < IndexAt + Slots + 1)
  <2>1. ~(region["ProgramStore"].base <= at /\ at < End(region["ProgramStore"]))
    <3>1. at \in Int
      BY <1>2
    <3>. HIDE DEF at
    <3>. QED  BY <1>1, <1>2, <1>3, <3>1, UnitsApart
  <2>. QED  BY <1>3, <2>1 DEF IndexAt, Base
<1>5. at \notin IndexAt .. IndexAt + Slots /\ at \in DOMAIN mem
  BY <1>1, <1>2, <1>3, <1>4, SizeAssumption DEF HasRoom
<1>. QED  BY <1>5 DEF OnlyWithin

\* What an edit in the store's place does to what RUN takes.
LEMMA CompiledStays ==
  ASSUME KInv, region' = region, ~exposed, Settled,
         cache.valid => mem'[Base("CompiledCache")] = mem[Base("CompiledCache")]
  PROVE  RunsTheProgram'
<1>1. Base("CompiledCache")' = Base("CompiledCache")
  BY DEF Base
<1>2. CASE BumpRevision
  <2>1. cache \in [valid : BOOLEAN, current : BOOLEAN]
    BY DEF KInv, IInv
  <2>2. cache'.current = FALSE
    BY <1>2, <2>1 DEF BumpRevision
  <2>. QED  BY <2>2 DEF RunsTheProgram
<1>3. CASE cache' = cache /\ accepted' = accepted
  <2>1. RunsTheProgram
    BY DEF KInv, PInv
  <2>. QED  BY <1>1, <1>3, <2>1 DEF RunsTheProgram
<1>. QED  BY <1>2, <1>3 DEF Settled

-----------------------------------------------------------------------------
(* The edits.                                                               *)

\* No write adds a unit or takes one away.
LEMMA TidyDomain == \A m, b, es : DOMAIN Tidy(m, b, es) = DOMAIN m
BY DEF Tidy

LEMMA PutDomain == \A m, c, at, data : DOMAIN Put(m, c, at, data) = DOMAIN m
BY DEF Put

LEMMA TextDomain ==
  ASSUME NEW m, NEW slot, NEW text, NEW tw \in TextWrites(m, slot, text)
  PROVE  DOMAIN tw.mem = DOMAIN m
<1>1. \/ tw = [ok |-> TRUE, mem |-> Put(m, "ProgramStore", SlotAt(slot), text)]
      \/ tw = [ok |-> FALSE, mem |-> m]
      \/ tw = [ok |-> FALSE, mem |-> Put(m, "ProgramStore", SlotAt(slot), Junk)]
  BY DEF TextWrites
<1>. QED  BY <1>1, PutDomain

LEMMA PutIndexDomain == \A m, b, es : DOMAIN PutIndex(m, b, es) = DOMAIN m
BY DEF PutIndex, Tidy, Put

LEMMA IndexDomain ==
  ASSUME NEW m, NEW old, NEW new, NEW iw \in IndexWrites(m, old, new)
  PROVE  DOMAIN iw.mem = DOMAIN m
<1>1. CASE iw.ok = TRUE /\ iw.mem = PutIndex(m, IndexAt, new)
  BY <1>1, PutIndexDomain
<1>2. CASE \E k \in Nat : BrokeOff(iw, m, old, new, k)
  BY <1>2, TidyDomain, PutDomain DEF BrokeOff
<1>. QED  BY <1>1, <1>2, IndexWritesAre

LEMMA PairTextsDomain ==
  ASSUME NEW edit, NEW order, NEW slots, NEW tw \in PairTexts(edit, order, slots)
  PROVE  DOMAIN tw.mem = DOMAIN mem
<1> DEFINE kept == Kept(edit)
           i == order[1]
           j == order[2]
           one == IF i \in kept THEN TextWrites(mem, slots[i], edit[i])
                  ELSE {[ok |-> TRUE, mem |-> mem]}
           two(w) == IF j \in kept THEN TextWrites(w.mem, slots[j], edit[j]) ELSE {w}
<1>1. tw \in {w \in one : ~w.ok} \cup UNION {two(w) : w \in {x \in one : x.ok}}
  BY DEF PairTexts
<1>2. ASSUME NEW w \in one  PROVE DOMAIN w.mem = DOMAIN mem
  BY TextDomain
<1>3. ASSUME NEW w \in one, NEW x \in two(w)  PROVE DOMAIN x.mem = DOMAIN mem
  <2>1. DOMAIN w.mem = DOMAIN mem
    BY <1>2
  <2> HIDE DEF one
  <2>. QED  BY <1>3, <2>1, TextDomain
<1> HIDE DEF one, two
<1>. QED  BY <1>1, <1>2, <1>3

LEMMA RolledBackDomain ==
  ASSUME NEW m, NEW old, NEW edit, NEW back \in RolledBack(m, old, edit)
  PROVE  DOMAIN back.mem = DOMAIN m /\ back.ok \in BOOLEAN
<1> DEFINE lost == {e \in {old[i] : i \in DOMAIN old} : e.number \in DOMAIN edit}
           whole == [at \in DOMAIN m |->
                       IF at = IndexAt THEN [by |-> "ProgramStore", data |-> old]
                       ELSE IF \E e \in lost : at = SlotAt(e.slot)
                       THEN mem[at] ELSE m[at]]
           part(bad) == [at \in DOMAIN m |->
                    IF at \in bad /\ at = IndexAt THEN m[at]
                    ELSE IF at \in bad THEN [by |-> "ProgramStore", data |-> Junk]
                    ELSE whole[at]]
           torn == {part(bad) :
                    bad \in SUBSET ((IF old = << >> THEN {} ELSE {IndexAt})
                                     \cup {SlotAt(e.slot) : e \in lost}) \ {{}}}
<1>1. back \in {[ok |-> TRUE, mem |-> Tidy(whole, IndexAt, old)]}
        \cup {[ok |-> FALSE, mem |-> Tidy(b, IndexAt, b[IndexAt].data)] : b \in torn}
  BY DEF RolledBack
<1>2. DOMAIN whole = DOMAIN m
  OBVIOUS
<1>3. \A b \in torn : DOMAIN b = DOMAIN m
  OBVIOUS
<1> HIDE DEF whole, torn
<1>4. CASE back = [ok |-> TRUE, mem |-> Tidy(whole, IndexAt, old)]
  BY <1>2, <1>4, TidyDomain
<1>5. CASE \E b \in torn : back = [ok |-> FALSE, mem |-> Tidy(b, IndexAt, b[IndexAt].data)]
  BY <1>3, <1>5, TidyDomain
<1>. QED  BY <1>1, <1>4, <1>5

\* Whatever becomes of an edit, the ghost is a program.
LEMMA AcceptWhole ==
  ASSUME KInv, NEW q, Whole(q), Accept(q)
  PROVE  Whole(accepted') /\ exposed' = exposed /\ exposed' \in BOOLEAN
BY DEF Accept, KInv, PInv, Types

LEMMA FailWhole ==
  ASSUME KInv, NEW broken, Fail(broken)
  PROVE  /\ Whole(accepted') /\ exposed' \in BOOLEAN
         /\ ~exposed' => ~exposed
<1>1. Whole(accepted) /\ exposed \in BOOLEAN
  BY DEF KInv, PInv, Types
<1>2. accepted' = IF exposed' THEN NoProgram ELSE accepted
  BY DEF Fail
<1>3. exposed' \in BOOLEAN /\ (~exposed' => ~exposed)
  BY DEF Fail
<1>4. Whole(accepted')
  BY <1>1, <1>2, <1>3, NoProgramWhole
<1>. QED  BY <1>3, <1>4

\* What an edit has to show.
LEMMA EditSuffices ==
  ASSUME KInv, OthersUnchanged, store' = store, DOMAIN mem' = DOMAIN mem,
         suspended' \in BOOLEAN, exposed' \in BOOLEAN, Whole(accepted'),
         ~exposed' => InPlace' /\ RunsTheProgram'
  PROVE  PInv'
<1>1. Types'
  BY DEF KInv, PInv, Types, OthersUnchanged
<1>2. OwnRegion'
  BY DEF KInv, PInv, OwnRegion, OthersUnchanged
<1>3. exposed' => RunsTheProgram'
  BY DEF RunsTheProgram
<1>. QED  BY <1>1, <1>2, <1>3 DEF PInv

\* An edit of the PSRAM store.
LEMMA PsramEditSuffices ==
  ASSUME KInv, OthersUnchanged, store' = store, store = "psram",
         DOMAIN mem' = DOMAIN mem, suspended' \in BOOLEAN, exposed' \in BOOLEAN,
         Whole(accepted'), ~exposed' => ~exposed, ~exposed => EditDone
  PROVE  PInv'
<1>1. ASSUME ~exposed'  PROVE InPlace' /\ RunsTheProgram'
  <2>1. /\ ~exposed /\ Settled /\ OnlyWithin(mem', mem, IndexAt)
        /\ Stored(mem', IndexAt, accepted')
    BY <1>1 DEF EditDone
  <2>2. IndexAt' = IndexAt /\ region' = region
    BY DEF OthersUnchanged, IndexAt, Base
  <2>3. InPlace'
    BY <2>1, <2>2 DEF InPlace
  <2>4. cache.valid => mem'[Base("CompiledCache")] = mem[Base("CompiledCache")]
    BY <2>1, CompiledElsewhere
  <2>5. RunsTheProgram'
    BY <2>1, <2>2, <2>4, CompiledStays
  <2>. QED  BY <2>3, <2>5
<1>. QED  BY <1>1, EditSuffices

\* An edit of the SRAM array.
LEMMA SramEditSuffices ==
  ASSUME KInv, OthersUnchanged, store' = store, store = "sram", mem' = mem,
         suspended' \in BOOLEAN, exposed' \in BOOLEAN, Whole(accepted'),
         ~exposed' => ~exposed /\ Settled /\ Arrayed(sram', accepted')
  PROVE  PInv'
<1>1. ASSUME ~exposed'  PROVE InPlace' /\ RunsTheProgram'
  <2>1. region' = region
    BY DEF OthersUnchanged
  <2>2. InPlace'
    BY <1>1 DEF InPlace
  <2>3. RunsTheProgram'
    BY <1>1, <2>1, CompiledStays
  <2>. QED  BY <2>2, <2>3
<1>. QED  BY <1>1, EditSuffices

\* The edits of one line keep the invariant.
LEMMA SetLineKeeps ==
  ASSUME KInv, NEW n \in Number, NEW t \in Text, SetLine(n, t)
  PROVE  PInv'
<1> DEFINE q == With(accepted, n, t)
<1>1. /\ OthersUnchanged /\ store' = store /\ suspended' = suspended
      /\ suspended' \in BOOLEAN /\ Whole(accepted)
  BY DEF SetLine, KInv, PInv, Types
<1>2. Whole(q)
  BY <1>1, WholeWith
<1>3. CASE SetLineSram(n, t)
  <2>1. /\ store = "sram" /\ mem' = mem
        /\ \/ sram' = PutLine(sram, n, [number |-> n, text |-> t]) /\ Accept(q)
           \/ Fail(FALSE) /\ sram' = sram
    BY <1>3 DEF SetLineSram
  <2> HIDE DEF q
  <2>2. exposed' \in BOOLEAN /\ Whole(accepted')
    BY <1>2, <2>1, AcceptWhole, FailWhole
  <2>3. ASSUME ~exposed'  PROVE ~exposed /\ Settled /\ Arrayed(sram', accepted')
    <3>1. ~exposed
      BY <1>2, <2>1, <2>3, AcceptWhole, FailWhole
    <3>2. Arrayed(sram, accepted)
      BY <2>1, <3>1 DEF KInv, PInv, InPlace
    <3>3. CASE sram' = PutLine(sram, n, [number |-> n, text |-> t]) /\ Accept(q)
      <4>1. accepted' = q /\ Settled
        BY <3>1, <3>3, AcceptIs
      <4>2. Arrayed(sram', q)
        BY <1>1, <3>2, <3>3, ArrayedWith DEF q
      <4>. QED  BY <3>1, <4>1, <4>2
    <3>4. CASE Fail(FALSE) /\ sram' = sram
      <4>1. accepted' = accepted /\ Settled
        BY <2>3, <3>4, FailIs
      <4>. QED  BY <3>1, <3>2, <3>4, <4>1
    <3>. QED  BY <2>1, <3>3, <3>4
  <2>. QED  BY <1>1, <2>1, <2>2, <2>3, SramEditSuffices
<1>4. CASE SetLinePsram(n, t)
  <2> DEFINE slot == IF FreeSlots(Index) = {} THEN Index[At(Index, n)].slot
                     ELSE Lowest(FreeSlots(Index))
             next == PutLine(Index, n, Entry(n, t, slot))
  <2>1. store = "psram"
    BY <1>4 DEF SetLinePsram
  <2>2. \/ Fail(FALSE) /\ mem' = mem
        \/ \E tw \in TextWrites(mem, slot, t) :
             \/ mem' = Tidy(tw.mem, IndexAt, Index) /\ Fail(FreeSlots(Index) = {})
             \/ \E iw \in IndexWrites(tw.mem, Index, next) :
                  /\ mem' = iw.mem
                  /\ Accept(q) \/ Fail(FreeSlots(Index) = {} \/ iw.part > 0)
    BY <1>4 DEF SetLinePsram
  <2> HIDE DEF q, slot, next
  <2>3. DOMAIN mem' = DOMAIN mem
    <3>1. ASSUME NEW tw \in TextWrites(mem, slot, t)
          PROVE  DOMAIN tw.mem = DOMAIN mem
      BY TextDomain
    <3>2. ASSUME NEW tw \in TextWrites(mem, slot, t),
                 NEW iw \in IndexWrites(tw.mem, Index, next)
          PROVE  DOMAIN iw.mem = DOMAIN mem
      BY <3>1, IndexDomain
    <3>3. \A m : DOMAIN Tidy(m, IndexAt, Index) = DOMAIN m
      BY TidyDomain
    <3>. QED  BY <2>2, <3>1, <3>2, <3>3
  <2>4. Accept(q) \/ \E broken : Fail(broken)
    BY <2>2
  <2>5. exposed' \in BOOLEAN /\ Whole(accepted') /\ (~exposed' => ~exposed)
    BY <1>2, <2>4, AcceptWhole, FailWhole
  <2>6. ~exposed => EditDone
    BY <1>4, <2>1, InPsramNow, SetLineInPsram
  <2>. QED  BY <1>1, <2>1, <2>3, <2>5, <2>6, PsramEditSuffices
<1>. QED  BY <1>3, <1>4 DEF SetLine

LEMMA EraseLineKeeps ==
  ASSUME KInv, NEW n \in Number, EraseLine(n)
  PROVE  PInv'
<1> DEFINE q == Without(accepted, {n})
<1>1. /\ OthersUnchanged /\ store' = store /\ suspended' \in BOOLEAN /\ Whole(accepted)
  BY DEF EraseLine, KInv, PInv, Types
<1>2. Whole(q)
  BY <1>1, WholeWithout
<1>3. CASE EraseSram(n)
  <2>1. /\ store = "sram" /\ mem' = mem /\ Holds(sram, n)
        /\ sram' = RemoveAt(sram, At(sram, n)) /\ Accept(q)
    BY <1>3 DEF EraseSram
  <2> HIDE DEF q
  <2>2. exposed' \in BOOLEAN /\ Whole(accepted') /\ exposed' = exposed
    BY <1>2, <2>1, AcceptWhole
  <2>3. ASSUME ~exposed'  PROVE ~exposed /\ Settled /\ Arrayed(sram', accepted')
    <3>1. Arrayed(sram, accepted)
      BY <2>1, <2>2, <2>3 DEF KInv, PInv, InPlace
    <3>2. accepted' = q /\ Settled
      BY <2>1, <2>2, <2>3, AcceptIs
    <3>3. Arrayed(sram', q)
      BY <1>1, <2>1, <3>1, ArrayedWithout DEF q
    <3>. QED  BY <2>2, <2>3, <3>2, <3>3
  <2>. QED  BY <1>1, <2>1, <2>2, <2>3, SramEditSuffices
<1>4. CASE ErasePsram(n)
  <2>1. store = "psram"
    BY <1>4 DEF ErasePsram
  <2>2. \E iw \in IndexWrites(mem, Index, RemoveAt(Index, At(Index, n))) :
           mem' = iw.mem /\ (Accept(q) \/ Fail(iw.part > 0))
    BY <1>4 DEF ErasePsram
  <2> HIDE DEF q
  <2>3. DOMAIN mem' = DOMAIN mem
    BY <2>2, IndexDomain
  <2>4. Accept(q) \/ \E broken : Fail(broken)
    BY <2>2
  <2>5. exposed' \in BOOLEAN /\ Whole(accepted') /\ (~exposed' => ~exposed)
    BY <1>2, <2>4, AcceptWhole, FailWhole
  <2>6. ~exposed => EditDone
    BY <1>4, <2>1, InPsramNow, EraseInPsram
  <2>. QED  BY <1>1, <2>1, <2>3, <2>5, <2>6, PsramEditSuffices
<1>. QED  BY <1>3, <1>4 DEF EraseLine

\* So does the edit of two lines.
LEMMA PairKeeps ==
  ASSUME KInv, NEW edit, NEW m, NEW n, OfTwo(edit, m, n),
         ReplaceLinePair(edit, <<m, n>>)
  PROVE  PInv'
<1> DEFINE q == Edited(accepted, edit)
           order == <<m, n>>
<1>1. OthersUnchanged /\ store' = store /\ Whole(accepted) /\ suspended \in BOOLEAN
  BY DEF ReplaceLinePair, KInv, PInv, Types
<1>2. Whole(q)
  BY <1>1, OfTwoIs
<1>3. CASE PairSram(edit, order)
  <2>1. /\ store = "sram" /\ mem' = mem /\ suspended' = suspended
        /\ sram' = InsertKept(InsertKept(Unchanging(sram, edit), edit, m), edit, n)
        /\ Accept(q)
    BY <1>3 DEF PairSram
  <2> HIDE DEF q
  <2>2. exposed' \in BOOLEAN /\ Whole(accepted') /\ exposed' = exposed
    BY <1>2, <2>1, AcceptWhole
  <2>3. ASSUME ~exposed'  PROVE ~exposed /\ Settled /\ Arrayed(sram', accepted')
    <3>1. Arrayed(sram, accepted)
      BY <2>1, <2>2, <2>3 DEF KInv, PInv, InPlace
    <3>2. accepted' = q /\ Settled
      BY <2>1, <2>2, <2>3, AcceptIs
    <3>3. PICK t \in Text \cup {Junk}, u \in Text \cup {Junk} : edit = Pair(m, t, n, u)
      BY DEF OfTwo
    <3>4. m \in Number /\ n \in Number
      BY DEF OfTwo
    <3>5. Arrayed(InsertKept(InsertKept(Unchanging(sram, edit), edit, m), edit, n), q)
      BY <1>1, <3>1, <3>3, <3>4, ArrayedPair DEF q
    <3>. QED  BY <2>1, <2>2, <2>3, <3>2, <3>5
  <2>. QED  BY <1>1, <2>1, <2>2, <2>3, SramEditSuffices
<1>4. CASE PairPsram(edit, order)
  <2> DEFINE slots == PairSlots(edit, order)
             next == PairIndex(edit, order, slots)
  <2>1. store = "psram"
    BY <1>4 DEF PairPsram
  <2>2. \E tw \in PairTexts(edit, order, slots) :
        \E iw \in IF tw.ok THEN IndexWrites(tw.mem, Index, next)
                  ELSE {[ok |-> FALSE, mem |-> tw.mem]} :
          \/ mem' = iw.mem /\ Accept(q) /\ suspended' = suspended
          \/ \E back \in RolledBack(iw.mem, Index, edit) :
                mem' = back.mem /\ suspended' = ~back.ok /\ Fail(~back.ok)
    BY <1>4 DEF PairPsram
  <2> HIDE DEF q, slots, next, order
  <2>3. PICK tw \in PairTexts(edit, order, slots) :
        \E iw \in IF tw.ok THEN IndexWrites(tw.mem, Index, next)
                  ELSE {[ok |-> FALSE, mem |-> tw.mem]} :
          \/ mem' = iw.mem /\ Accept(q) /\ suspended' = suspended
          \/ \E back \in RolledBack(iw.mem, Index, edit) :
                mem' = back.mem /\ suspended' = ~back.ok /\ Fail(~back.ok)
    BY <2>2
  <2>4. PICK iw \in IF tw.ok THEN IndexWrites(tw.mem, Index, next)
                    ELSE {[ok |-> FALSE, mem |-> tw.mem]} :
          \/ mem' = iw.mem /\ Accept(q) /\ suspended' = suspended
          \/ \E back \in RolledBack(iw.mem, Index, edit) :
                mem' = back.mem /\ suspended' = ~back.ok /\ Fail(~back.ok)
    BY <2>3
  <2>5. DOMAIN iw.mem = DOMAIN mem
    <3>1. DOMAIN tw.mem = DOMAIN mem
      BY <2>3, PairTextsDomain
    <3>2. CASE tw.ok
      BY <2>4, <3>1, <3>2, IndexDomain
    <3>3. CASE ~tw.ok
      <4>1. iw.mem = tw.mem
        BY <2>4, <3>3
      <4>. QED  BY <3>1, <4>1
    <3>. QED  BY <3>2, <3>3
  <2>6. DOMAIN mem' = DOMAIN mem /\ suspended' \in BOOLEAN
    <3>1. CASE mem' = iw.mem /\ suspended' = suspended
      BY <1>1, <2>5, <3>1
    <3>2. CASE \E back \in RolledBack(iw.mem, Index, edit) :
                mem' = back.mem /\ suspended' = ~back.ok
      BY <2>5, <3>2, RolledBackDomain
    <3>. QED  BY <2>4, <3>1, <3>2
  <2>7. Accept(q) \/ \E broken : Fail(broken)
    BY <2>4
  <2>8. exposed' \in BOOLEAN /\ Whole(accepted') /\ (~exposed' => ~exposed)
    BY <1>2, <2>7, AcceptWhole, FailWhole
  <2>9. ~exposed => EditDone
    BY <1>4, <2>1, InPsramNow, PairInPsram DEF order
  <2>. QED  BY <1>1, <2>1, <2>6, <2>8, <2>9, PsramEditSuffices
<1>. QED  BY <1>3, <1>4 DEF ReplaceLinePair

\* A program that replaces another: the compiled one is not of its revision.
LEMMA OutOfDate ==
  ASSUME KInv, BumpRevision
  PROVE  RunsTheProgram'
<1>1. cache \in [valid : BOOLEAN, current : BOOLEAN]
  BY DEF KInv, IInv
<1>2. cache'.current = FALSE
  BY <1>1 DEF BumpRevision
<1>. QED  BY <1>2 DEF RunsTheProgram

\* The empty program, in an index or an array.
LEMMA EmptyFiled == Filed(<< >>, NoProgram) /\ Arrayed(<< >>, NoProgram)
<1>1. IsSeq(<< >>) /\ DOMAIN << >> = {}
  BY DEF IsSeq
<1>2. Table(<< >>) /\ Rows(<< >>) = {}
  BY <1>1 DEF Table, Rows
<1>3. DOMAIN NoProgram = {}
  BY NoProgramWhole
<1>. QED  BY <1>2, <1>3 DEF Filed, Arrayed, LineRows

\* NEW.
LEMMA ClearKeeps ==
  ASSUME KInv, Clear
  PROVE  PInv'
<1>1. /\ OthersUnchanged /\ store' = store /\ suspended' \in BOOLEAN
      /\ accepted' = NoProgram /\ BumpRevision /\ exposed' = FALSE
      /\ store # "sd"
  BY DEF Clear, Replace, KInv, PInv, Types
<1>2. Whole(accepted') /\ RunsTheProgram' /\ exposed' \in BOOLEAN
  BY <1>1, NoProgramWhole, OutOfDate
<1>3. CASE store = "psram"
  <2>1. mem' = PutIndex(mem, IndexAt, << >>)
    BY <1>3 DEF Clear
  <2>2. /\ Sound(region) /\ DOMAIN mem = 0 .. Capacity - 1
        /\ region["ProgramStore"].size = StoreSize
    BY <1>3 DEF KInv, PInv, IInv, Types, OwnRegion
  <2>3. HasRoom(mem, IndexAt)
    BY <2>2, StoreRoom DEF IndexAt, Base
  <2>4. Filed(<< >>, NoProgram) /\ Texts(mem, IndexAt, << >>)
    <3>1. Rows(<< >>) = {}
      BY DEF Rows
    <3>. QED  BY <3>1, EmptyFiled DEF Texts
  <2> DEFINE none == << >>
             q == NoProgram
  <2>5. Filed(none, q) /\ Texts(mem, IndexAt, none)
    BY <2>4
  <2> HIDE DEF none, q
  <2>6. Stored(PutIndex(mem, IndexAt, none), IndexAt, q)
    BY <2>3, <2>5, PutIndexStored
  <2>7. Stored(mem', IndexAt, accepted')
    BY <1>1, <2>1, <2>6 DEF none, q
  <2>8. IndexAt' = IndexAt
    BY <1>1 DEF OthersUnchanged, IndexAt, Base
  <2>9. InPlace'
    BY <1>1, <1>3, <2>7, <2>8 DEF InPlace
  <2>10. DOMAIN mem' = DOMAIN mem
    BY <2>1, PutIndexDomain
  <2>. QED  BY <1>1, <1>2, <2>9, <2>10, EditSuffices
<1>4. CASE store # "psram"
  <2>1. sram' = << >> /\ mem' = mem
    BY <1>4 DEF Clear
  <2>2. Arrayed(sram', accepted')
    BY <1>1, <2>1, EmptyFiled
  <2>3. InPlace'
    BY <1>1, <1>4, <2>2 DEF InPlace
  <2>. QED  BY <1>1, <1>2, <2>1, <2>3, EditSuffices
<1>. QED  BY <1>3, <1>4

\* The edits of the SD backend.
LEMMA EditOnCardKeeps ==
  ASSUME KInv, EditOnCard
  PROVE  PInv'
<1>1. /\ OthersUnchanged /\ store' = store /\ store = "sd" /\ mem' = mem
      /\ suspended' \in BOOLEAN /\ Whole(accepted)
  BY DEF EditOnCard, KInv, PInv, Types
<1>2. PICK p \in Files \cup {NoProgram}
                 \cup {Edited(accepted, Pair(m, t, n, u)) :
                         m \in Number, n \in Number,
                         t \in Text \cup {Junk}, u \in Text \cup {Junk}} :
         Accept(p)
  BY DEF EditOnCard
<1>3. Whole(p)
  <2>1. CASE p \in Files \cup {NoProgram}
    BY <2>1, ProgramAssumption, NoProgramWhole DEF Whole
  <2>2. CASE \E m \in Number, n \in Number, t \in Text \cup {Junk}, u \in Text \cup {Junk} :
               p = Edited(accepted, Pair(m, t, n, u))
    BY <1>1, <2>2, WholeEdited
  <2>. QED  BY <1>2, <2>1, <2>2
<1>4. exposed' \in BOOLEAN /\ Whole(accepted') /\ exposed' = exposed
  BY <1>2, <1>3, AcceptWhole
<1>5. InPlace'
  BY <1>1 DEF InPlace
<1>6. RunsTheProgram'
  BY <1>2, OutOfDate DEF Accept
<1>. QED  BY <1>1, <1>4, <1>5, <1>6, EditSuffices

-----------------------------------------------------------------------------
(* The steps of the other clients, and of RUN.                              *)

\* The clients but those of S keep their regions and what is in them.
Undisturbed(S) ==
    \A c \in Used(region) \ S :
        /\ region'[c] = region[c]
        /\ \A at \in DOMAIN mem :
             region[c].base <= at /\ at < End(region[c]) => mem'[at] = mem[at]

\* A claim gives a region to a client that had none, and moves no other.
LEMMA ClaimIs ==
  ASSUME NEW r, Sound(r), NEW c \in Client, NEW n \in Nat, NEW s \in Claims(r, c, n)
  PROVE  /\ n > 0 /\ Sound(s) /\ c \in Used(s) /\ c \notin Used(r) /\ s[c].size = n
         /\ \A d \in Client : d # c => s[d] = r[d]
         /\ \A d \in Used(r) : d # c /\ d \in Used(s) /\ s[d] = r[d]
<1>1. /\ n > 0 /\ r[c].size = 0
      /\ \E b : s = [r EXCEPT ![c] = [base |-> b, size |-> n]]
  BY DEF Claims
<1>2. PICK b : s = [r EXCEPT ![c] = [base |-> b, size |-> n]]
  BY <1>1
<1>3. DOMAIN r = Client
  BY DEF Sound
<1>4. s[c] = [base |-> b, size |-> n] /\ \A d \in Client : d # c => s[d] = r[d]
  BY <1>2, <1>3
<1>5. Sound(s) /\ Used(s) = Used(r) \cup {c}
  BY ClaimIsSound
<1>6. c \notin Used(r)
  BY <1>1 DEF Used
<1>7. \A d \in Used(r) : d \in Client
  BY UsedIsClient
<1>8. \A d \in Used(r) : d # c /\ d \in Used(s) /\ s[d] = r[d]
  BY <1>4, <1>5, <1>6, <1>7
<1>9. c \in Used(s) /\ s[c].size = n
  BY <1>4, <1>5
<1>. QED  BY <1>1, <1>4, <1>5, <1>6, <1>8, <1>9

\* The clients but those of S keep their units when those of S are cleared.
LEMMA ScrubKeeps ==
  ASSUME KInv, NEW S, S \subseteq Client, NEW c \in Used(region) \ S
  PROVE  \A at \in DOMAIN mem :
            region[c].base <= at /\ at < End(region[c])
              => Scrub(mem, region, S)[at] = mem[at]
<1> SUFFICES ASSUME NEW at \in DOMAIN mem, region[c].base <= at, at < End(region[c])
             PROVE  Scrub(mem, region, S)[at] = mem[at]
  OBVIOUS
<1>1. Sound(region) /\ DOMAIN mem = 0 .. Capacity - 1
  BY DEF KInv, IInv, PInv, Types
<1>2. at \in Int
  BY <1>1, CapacityAssumption
<1>3. ASSUME NEW d \in S  PROVE ~(region[d].base <= at /\ at < End(region[d]))
  <2>1. CASE d \in Used(region)
    BY <1>1, <1>2, <1>3, <2>1, UnitsApart
  <2>2. CASE d \notin Used(region)
    <3>1. region[d].base \in Nat /\ region[d].size = 0
      BY <1>1, <1>3, <2>2 DEF Used, Sound, Region
    <3>2. End(region[d]) = region[d].base
      BY <3>1 DEF End
    <3>. QED  BY <1>2, <3>1, <3>2
  <2>. QED  BY <2>1, <2>2
<1>. QED  BY <1>3 DEF Scrub

LEMMA ScrubDomain == \A m, r, S : DOMAIN Scrub(m, r, S) = DOMAIN m
BY DEF Scrub

\* Releasing and clearing regions disturbs no other client.
LEMMA GivenUp ==
  ASSUME KInv, NEW S, S \subseteq Client, region' = Released(region, S),
         mem' = Scrub(mem, region, S)
  PROVE  Undisturbed(S) /\ DOMAIN mem' = DOMAIN mem
<1>1. Sound(region) /\ DOMAIN mem = 0 .. Capacity - 1
  BY DEF KInv, IInv, PInv, Types
<1>2. ASSUME NEW c \in Used(region) \ S
      PROVE  /\ region'[c] = region[c]
             /\ \A at \in DOMAIN mem :
                  region[c].base <= at /\ at < End(region[c]) => mem'[at] = mem[at]
  <2>1. c \in Client
    BY UsedIsClient
  <2>2. region'[c] = region[c]
    BY <1>2, <2>1 DEF Released
  <2>3. \A at \in DOMAIN mem :
           region[c].base <= at /\ at < End(region[c]) => Scrub(mem, region, S)[at] = mem[at]
    BY <1>2, ScrubKeeps
  <2>. QED  BY <2>2, <2>3
<1>. QED  BY <1>2, ScrubDomain DEF Undisturbed

\* A claim and what is first written there disturb no other client.
LEMMA Taken ==
  ASSUME KInv, NEW c \in Client, NEW n \in Nat, region' \in Claims(region, c, n),
         DOMAIN mem' = DOMAIN mem,
         \A at \in DOMAIN mem :
             ~(region'[c].base <= at /\ at < End(region'[c])) => mem'[at] = mem[at]
  PROVE  Undisturbed({})
<1>1. Sound(region) /\ DOMAIN mem = 0 .. Capacity - 1
  BY DEF KInv, IInv, PInv, Types
<1>2. /\ Sound(region') /\ c \in Used(region')
      /\ \A d \in Used(region) : d # c /\ d \in Used(region') /\ region'[d] = region[d]
  BY <1>1, ClaimIs
<1>3. ASSUME NEW d \in Used(region), NEW at \in DOMAIN mem,
             region[d].base <= at, at < End(region[d])
      PROVE  mem'[at] = mem[at]
  <2>1. at \in Int
    BY <1>1, CapacityAssumption
  <2>2. d \in Used(region') /\ d # c /\ region'[d].base <= at /\ at < End(region'[d])
    BY <1>2, <1>3
  <2>3. ~(region'[c].base <= at /\ at < End(region'[c]))
    <3> DEFINE r == region'
    <3>1. Sound(r) /\ c \in Used(r) /\ d \in Used(r) /\ r[d].base <= at /\ at < End(r[d])
      BY <1>2, <2>2
    <3> HIDE DEF r
    <3>2. ~(r[c].base <= at /\ at < End(r[c]))
      BY <2>1, <2>2, <3>1, UnitsApart
    <3>. QED  BY <3>2 DEF r
  <2>. QED  BY <2>3
<1>. QED  BY <1>2, <1>3 DEF Undisturbed

\* The program and what RUN takes stand when no one disturbs them.
LEMMA OtherSuffices ==
  ASSUME KInv, NEW S, Undisturbed(S), "ProgramStore" \notin S,
         UNCHANGED <<store, sram, suspended, accepted, exposed>>,
         DOMAIN mem' = DOMAIN mem, available' \in BOOLEAN, sdCache' \in BOOLEAN,
         direct' \in {"none", "psram", "sram"}, RunsTheProgram'
  PROVE  PInv'
<1>1. /\ Types /\ Whole(accepted) /\ OwnRegion /\ (~exposed => InPlace)
      /\ Sound(region) /\ DOMAIN mem = 0 .. Capacity - 1
  BY DEF KInv, PInv, IInv, Types
<1>2. Types' /\ Whole(accepted')
  BY <1>1 DEF Types
<1>3. CASE store = "psram"
  <2>1. region["ProgramStore"].size = StoreSize
    BY <1>1, <1>3 DEF OwnRegion
  <2>2. /\ "ProgramStore" \in Used(region)
        /\ End(region["ProgramStore"]) = IndexAt + Slots + 1
        /\ HasRoom(mem, IndexAt)
    BY <1>1, <2>1, StoreRoom DEF IndexAt, Base
  <2>3. region'["ProgramStore"] = region["ProgramStore"]
    BY <2>2 DEF Undisturbed
  <2>4. IndexAt' = IndexAt
    BY <2>3 DEF IndexAt, Base
  <2>5. \A at \in IndexAt .. IndexAt + Slots : mem'[at] = mem[at]
    <3>1. ASSUME NEW at \in IndexAt .. IndexAt + Slots  PROVE mem'[at] = mem[at]
      <4>1. IndexAt \in Nat /\ Slots \in Nat
        BY <2>2, SizeAssumption DEF HasRoom
      <4>2. at - IndexAt \in 0 .. Slots /\ at = IndexAt + (at - IndexAt)
        BY <4>1
      <4>3. at \in DOMAIN mem
        BY <2>2, <4>2 DEF HasRoom
      <4>4. region["ProgramStore"].base <= at /\ at < End(region["ProgramStore"])
        <5>1. IndexAt <= at /\ at < IndexAt + Slots + 1
          BY <4>1
        <5>. QED  BY <2>2, <5>1 DEF IndexAt, Base
      <4>. QED  BY <2>2, <4>3, <4>4 DEF Undisturbed
    <3>. QED  BY <3>1
  <2>6. ~exposed => Stored(mem', IndexAt, accepted)
    <3>1. ~exposed => Stored(mem, IndexAt, accepted)
      BY <1>1, <1>3 DEF InPlace
    <3>2. IndexAt \in Nat
      BY <2>2 DEF HasRoom
    <3>. QED  BY <2>5, <3>1, <3>2, StoredElsewhere
  <2>7. ~exposed' => InPlace'
    BY <1>3, <2>4, <2>6 DEF InPlace
  <2>8. OwnRegion'
    BY <1>3, <2>1, <2>3 DEF OwnRegion, StoreSize
  <2>. QED  BY <1>2, <2>7, <2>8 DEF PInv
<1>4. CASE store # "psram"
  <2>1. OwnRegion' /\ (~exposed' => InPlace')
    BY <1>1, <1>4 DEF OwnRegion, InPlace
  <2>. QED  BY <1>2, <2>1 DEF PInv
<1>. QED  BY <1>3, <1>4

\* RUN finds the compiled program where it was.
LEMMA RunsUndisturbed ==
  ASSUME KInv, NEW S, Undisturbed(S), "CompiledCache" \notin S,
         UNCHANGED <<cache, accepted, exposed>>
  PROVE  RunsTheProgram'
<1>1. RunsTheProgram /\ IInv /\ DOMAIN mem = 0 .. Capacity - 1
  BY DEF KInv, PInv, Types
<1>2. ASSUME cache.valid, cache.current, ~exposed
      PROVE  mem'[Base("CompiledCache")'] = [by |-> "CompiledCache", data |-> Lines(accepted)]
  <2> DEFINE at == Base("CompiledCache")
  <2>1. /\ "CompiledCache" \in Used(region) /\ at \in 0 .. Capacity - 1
        /\ region["CompiledCache"].base <= at /\ at < End(region["CompiledCache"])
    BY <1>1, <1>2, CompiledAt
  <2>2. region'["CompiledCache"] = region["CompiledCache"] /\ mem'[at] = mem[at]
    BY <1>1, <2>1 DEF Undisturbed
  <2>3. at' = at
    BY <2>2 DEF Base
  <2>4. mem[at] = [by |-> "CompiledCache", data |-> Lines(accepted)]
    BY <1>1, <1>2 DEF RunsTheProgram
  <2>. QED  BY <2>2, <2>3, <2>4
<1>. QED  BY <1>2 DEF RunsTheProgram

LEMMA NothingCompiled ==
  ASSUME cache' = [valid |-> FALSE, current |-> FALSE]
  PROVE  RunsTheProgram'
BY DEF RunsTheProgram

\* The SD line cache takes a unit.
LEMMA ReadPlace ==
  ASSUME KInv, ReadOnCard
  PROVE  PInv'
<1>1. /\ region' \in Claims(region, "SdCache", 1) /\ sdCache' = TRUE
      /\ UNCHANGED <<available, store, sram, suspended, cache, direct, accepted, exposed>>
      /\ mem' = [at \in DOMAIN mem |->
                   IF at = region'["SdCache"].base
                   THEN [by |-> "SdCache", data |-> Junk] ELSE mem[at]]
  BY DEF ReadOnCard
<1>2. Types /\ Sound(region) /\ DOMAIN mem = 0 .. Capacity - 1
  BY DEF KInv, PInv, IInv, Types
<1>3. /\ Sound(region') /\ "SdCache" \in Used(region') /\ region'["SdCache"].size = 1
  BY <1>1, <1>2, ClaimIs, ClientsAre
<1>4. \A at \in DOMAIN mem :
         ~(region'["SdCache"].base <= at /\ at < End(region'["SdCache"])) => mem'[at] = mem[at]
  <2>1. region'["SdCache"].base \in Nat
        /\ End(region'["SdCache"]) = region'["SdCache"].base + 1
    BY <1>3, RegionBounds
  <2>. QED  BY <1>1, <2>1
<1>5. DOMAIN mem' = DOMAIN mem
  BY <1>1
<1>6. Undisturbed({})
  BY <1>1, <1>4, <1>5, Taken, ClientsAre
<1>7. RunsTheProgram'
  BY <1>1, <1>6, RunsUndisturbed
<1>. QED  BY <1>1, <1>2, <1>5, <1>6, <1>7, OtherSuffices DEF Types

\* Giving up the compiled program.
LEMMA DropPlace ==
  ASSUME KInv, DropCompiled,
         UNCHANGED <<available, store, sram, suspended, sdCache, direct,
                     accepted, exposed>>
  PROVE  PInv'
<1> DEFINE S == {"CompiledCache"}
<1>1. /\ region' = Released(region, S) /\ mem' = Scrub(mem, region, S)
      /\ cache' = [valid |-> FALSE, current |-> FALSE]
  BY DEF DropCompiled
<1>2. S \subseteq Client /\ "ProgramStore" \notin S
  BY ClientsAre
<1>3. Types
  BY DEF KInv, PInv
<1> HIDE DEF S
<1>4. Undisturbed(S) /\ DOMAIN mem' = DOMAIN mem
  BY <1>1, <1>2, GivenUp
<1>5. RunsTheProgram'
  BY <1>1, NothingCompiled
<1>. QED  BY <1>2, <1>3, <1>4, <1>5, OtherSuffices DEF Types

\* Compiling what the listing shows.
LEMMA CompilePlace ==
  ASSUME KInv, StoreCompiled(Listing),
         UNCHANGED <<available, store, sram, suspended, sdCache, direct,
                     accepted, exposed>>
  PROVE  PInv'
<1> DEFINE S == {"CompiledCache"}
           freed == Released(region, S)
           n == ImageSize(Listing)
           scrubbed == Scrub(mem, region, S)
<1>1. \/ /\ DropCompiled
      \/ \E r \in Claims(freed, "CompiledCache", n) :
            /\ region' = r
            /\ mem' = Put(scrubbed, "CompiledCache", r["CompiledCache"].base, Listing)
  BY DEF StoreCompiled, DropCompiled
<1>2. S \subseteq Client /\ "ProgramStore" \notin S /\ "CompiledCache" \in S
  BY ClientsAre
<1>3. n \in Nat /\ n > 0
  BY DEF ImageSize
<1>4. Types /\ Sound(region) /\ DOMAIN mem = 0 .. Capacity - 1
  BY DEF KInv, PInv, IInv, Types
<1>5. CASE DropCompiled
  BY <1>5, DropPlace
<1>6. CASE \E r \in Claims(freed, "CompiledCache", n) :
            /\ region' = r
            /\ mem' = Put(scrubbed, "CompiledCache", r["CompiledCache"].base, Listing)
  <2> DEFINE b == region'["CompiledCache"].base
             ls == Listing
  <2>1. /\ region' \in Claims(freed, "CompiledCache", n)
        /\ mem' = Put(scrubbed, "CompiledCache", b, ls)
    BY <1>6
  <2>2. Sound(freed) /\ Used(freed) = Used(region) \ S
    BY <1>4, ReleaseIsSound
  <2>3. \A c \in Used(region) \ S : freed[c] = region[c]
    BY UsedIsClient DEF Released
  <2>4. \A c \in Used(region) \ S : \A at \in DOMAIN mem :
           region[c].base <= at /\ at < End(region[c]) => scrubbed[at] = mem[at]
    BY <1>2, ScrubKeeps
  <2>5. DOMAIN scrubbed = DOMAIN mem
    BY ScrubDomain
  <2> HIDE DEF freed, n, scrubbed, ls
  <2>6. /\ Sound(region') /\ "CompiledCache" \in Used(region')
        /\ \A c \in Used(freed) : c # "CompiledCache" /\ c \in Used(region') /\ region'[c] = freed[c]
    BY <1>3, <2>1, <2>2, ClaimIs, ClientsAre
  <2>7. /\ b \in Nat /\ b < End(region'["CompiledCache"])
        /\ End(region'["CompiledCache"]) \in Nat
        /\ End(region'["CompiledCache"]) <= Capacity
    BY <2>6, RegionBounds
  <2>8. b \in DOMAIN mem
    BY <1>4, <2>7, CapacityAssumption
  <2> HIDE DEF b, S
  <2>9. /\ DOMAIN mem' = DOMAIN mem /\ mem'[b] = [by |-> "CompiledCache", data |-> ls]
        /\ \A at \in DOMAIN mem : at # b => mem'[at] = scrubbed[at]
    BY <2>1, <2>5, <2>8 DEF Put
  <2>10. Undisturbed(S)
    <3>1. ASSUME NEW c \in Used(region) \ S
          PROVE  region'[c] = region[c] /\ c \in Used(region') /\ c # "CompiledCache"
      BY <2>2, <2>3, <2>6, <3>1
    <3>2. ASSUME NEW c \in Used(region) \ S, NEW at \in DOMAIN mem,
                 region[c].base <= at, at < End(region[c])
          PROVE  mem'[at] = mem[at]
      <4>1. at \in Int
        BY <1>4, CapacityAssumption
      <4>2. ~(region'["CompiledCache"].base <= at /\ at < End(region'["CompiledCache"]))
        <5> DEFINE r == region'
        <5>1. /\ Sound(r) /\ "CompiledCache" \in Used(r) /\ c \in Used(r)
              /\ r[c].base <= at /\ at < End(r[c]) /\ c # "CompiledCache"
          BY <2>6, <3>1, <3>2
        <5> HIDE DEF r
        <5>2. ~(r["CompiledCache"].base <= at /\ at < End(r["CompiledCache"]))
          BY <4>1, <5>1, UnitsApart
        <5>. QED  BY <5>2 DEF r
      <4>3. at # b
        BY <2>7, <4>1, <4>2 DEF b
      <4>. QED  BY <2>4, <2>9, <3>2, <4>3
    <3>. QED  BY <3>1, <3>2 DEF Undisturbed
  <2>11. RunsTheProgram'
    <3>1. ~exposed => ls = Lines(accepted)
      BY KeptSuffices DEF ProgramKept, ListingIsAccepted, ls
    <3>2. Base("CompiledCache")' = b
      BY DEF Base, b
    <3>. QED  BY <2>9, <3>1, <3>2 DEF RunsTheProgram
  <2>. QED  BY <1>2, <1>4, <2>9, <2>10, <2>11, OtherSuffices DEF Types
<1>. QED  BY <1>1, <1>5, <1>6

\* RUN, and the background service.
LEMMA RunPlace ==
  ASSUME KInv, Run \/ ServiceBackground
  PROVE  PInv'
<1>1. /\ DropCompiled \/ StoreCompiled(Listing)
      /\ UNCHANGED <<available, store, sram, suspended, sdCache, direct,
                     accepted, exposed>>
  BY DEF Run, ServiceBackground
<1>. QED  BY <1>1, DropPlace, CompilePlace

\* The direct-mode variables take and give up a unit.
LEMMA DirectPlace ==
  ASSUME KInv, StoreDirect \/ ClearDirect
  PROVE  PInv'
<1>1. /\ UNCHANGED <<store, sram, suspended, cache, accepted, exposed, available, sdCache>>
      /\ direct' \in {"none", "psram", "sram"}
  BY DEF StoreDirect, ClearDirect, ProgramUnchanged
<1>2. Types /\ Sound(region) /\ DOMAIN mem = 0 .. Capacity - 1
  BY DEF KInv, PInv, IInv, Types
<1>3. CASE Take("DirectState", 1)
  <2>1. /\ region' \in Claims(region, "DirectState", 1)
        /\ mem' = [at \in DOMAIN mem |->
                     IF region'["DirectState"].base <= at /\ at < End(region'["DirectState"])
                     THEN [by |-> "DirectState", data |-> Junk] ELSE mem[at]]
    BY <1>3 DEF Take
  <2>2. DOMAIN mem' = DOMAIN mem
    BY <2>1
  <2>3. Undisturbed({})
    BY <2>1, <2>2, Taken, ClientsAre
  <2>4. RunsTheProgram'
    BY <1>1, <2>3, RunsUndisturbed
  <2>. QED  BY <1>1, <1>2, <2>2, <2>3, <2>4, OtherSuffices DEF Types
<1>4. CASE Give("DirectState")
  <2> DEFINE S == {"DirectState"}
  <2>1. /\ S \subseteq Client /\ "ProgramStore" \notin S /\ "CompiledCache" \notin S
        /\ region' = Released(region, S) /\ mem' = Scrub(mem, region, S)
    BY <1>4, ClientsAre DEF Give
  <2> HIDE DEF S
  <2>2. Undisturbed(S) /\ DOMAIN mem' = DOMAIN mem
    BY <2>1, GivenUp
  <2>3. RunsTheProgram'
    BY <1>1, <2>1, <2>2, RunsUndisturbed
  <2>. QED  BY <1>1, <1>2, <2>1, <2>2, <2>3, OtherSuffices DEF Types
<1>5. CASE UNCHANGED <<region, mem>>
  <2>1. Undisturbed({})
    BY <1>5 DEF Undisturbed
  <2>2. RunsTheProgram'
    BY <1>1, <2>1, RunsUndisturbed
  <2>. QED  BY <1>1, <1>2, <1>5, <2>1, <2>2, OtherSuffices DEF Types
<1>. QED  BY <1>3, <1>4, <1>5 DEF StoreDirect, ClearDirect

\* The diagnostics and a new probe run only beside no program in PSRAM.
LEMMA DevicePlace ==
  ASSUME KInv, RunDiagnostic \/ Reprobe
  PROVE  PInv'
<1> DEFINE S == Disposable
<1>1. /\ region' = Released(region, S) /\ cache' = [valid |-> FALSE, current |-> FALSE]
      /\ sdCache' = FALSE
      /\ UNCHANGED <<store, sram, suspended, direct, accepted, exposed>>
  BY DEF RunDiagnostic, Reprobe, GiveUpDisposable
<1>2. Types
  BY DEF KInv, PInv
<1>3. available' \in BOOLEAN
  BY <1>2 DEF RunDiagnostic, Reprobe, Types
<1>4. S \subseteq Client /\ "ProgramStore" \notin S
  BY ClientsAre DEF Disposable
<1>5. \/ mem' = Scrub(mem, region, S)
      \/ DOMAIN mem' = DOMAIN mem /\ Used(region) \ S = {}
  BY DEF RunDiagnostic, Reprobe, DeviceFree
<1> HIDE DEF S
<1>6. Undisturbed(S) /\ DOMAIN mem' = DOMAIN mem
  <2>1. CASE mem' = Scrub(mem, region, S)
    BY <1>1, <1>4, <2>1, GivenUp
  <2>2. CASE DOMAIN mem' = DOMAIN mem /\ Used(region) \ S = {}
    BY <2>2 DEF Undisturbed
  <2>. QED  BY <1>5, <2>1, <2>2
<1>7. RunsTheProgram'
  BY <1>1, NothingCompiled
<1>. QED  BY <1>1, <1>2, <1>3, <1>4, <1>6, <1>7, OtherSuffices DEF Types

-----------------------------------------------------------------------------
(* LOAD.                                                                    *)

\* Where LOAD finds the program when it starts to read the file: it may have
\* moved to PSRAM, whole.
Moved(m) ==
    /\ m.store \in {"psram", "sram"}
    /\ DOMAIN m.mem = DOMAIN mem
    /\ m.store = "sram" => m.sram = sram
    /\ m.store = "psram" =>
         /\ m.region["ProgramStore"].size = StoreSize
         /\ HasRoom(m.mem, m.region["ProgramStore"].base)
    /\ ~exposed =>
         /\ m.store = "sram" => Arrayed(sram, accepted)
         /\ m.store = "psram" => Stored(m.mem, m.region["ProgramStore"].base, accepted)
    /\ cache.valid =>
         /\ m.region["CompiledCache"] = region["CompiledCache"]
         /\ m.mem[Base("CompiledCache")] = mem[Base("CompiledCache")]

\* A program filled into the units of a region of its own.
LEMMA FillStored ==
  ASSUME NEW p, NEW s, Arrayed(s, p), Len(s) <= Slots, NEW m, NEW b, HasRoom(m, b),
         NEW m2,
         \A at \in DOMAIN m : at - b \in 0 .. Slots =>
            m2[at] = [by |-> "ProgramStore",
                      data |-> IF at - b = 0
                               THEN [i \in DOMAIN s |-> Entry(s[i].number, s[i].text, i)]
                               ELSE IF at - b \in DOMAIN s THEN s[at - b].text
                               ELSE Junk]
  PROVE  Stored(m2, b, p)
<1> DEFINE ix == [i \in DOMAIN s |-> Entry(s[i].number, s[i].text, i)]
<1>1. Len(s) \in Nat /\ DOMAIN s = 1 .. Len(s)
  BY SeqIs DEF Arrayed, Table
<1>2. Slots \in Nat /\ b \in Nat /\ \A i \in 0 .. Slots : b + i \in DOMAIN m
  BY SizeAssumption DEF HasRoom
<1> HIDE DEF ix
<1>3. \A i \in 0 .. Slots :
         m2[b + i] = [by |-> "ProgramStore",
                      data |-> IF i = 0 THEN ix
                               ELSE IF i \in DOMAIN s THEN s[i].text ELSE Junk]
  <2>1. ASSUME NEW i \in 0 .. Slots
        PROVE  m2[b + i] = [by |-> "ProgramStore",
                            data |-> IF i = 0 THEN ix
                                     ELSE IF i \in DOMAIN s THEN s[i].text ELSE Junk]
    <3>1. (b + i) - b = i /\ b + i \in DOMAIN m
      BY <1>2
    <3>2. m2[b + i] = [by |-> "ProgramStore",
                       data |-> IF (b + i) - b = 0 THEN ix
                                ELSE IF (b + i) - b \in DOMAIN s THEN s[(b + i) - b].text
                                ELSE Junk]
      BY <3>1 DEF ix
    <3>. QED  BY <3>1, <3>2
  <2>. QED  BY <2>1
<1>4. m2[b].data = ix
  <2>1. b + 0 = b /\ 0 \in 0 .. Slots
    BY <1>2
  <2>2. m2[b + 0] = [by |-> "ProgramStore", data |-> ix]
    BY <1>3, <2>1
  <2>. QED  BY <2>1, <2>2
<1>5. \A i \in DOMAIN s : m2[b + i] = [by |-> "ProgramStore", data |-> s[i].text]
  BY <1>1, <1>2, <1>3
<1>. QED  BY <1>4, <1>5, FreshStored DEF ix

\* LOAD finds the program whole, in SRAM or moved to PSRAM.
LEMMA MigrationsAre ==
  ASSUME KInv, store # "sd", NEW m \in Migrations
  PROVE  Moved(m)
<1>1. /\ Types /\ OwnRegion /\ (~exposed => InPlace) /\ Sound(region) /\ IInv
      /\ DOMAIN mem = 0 .. Capacity - 1
  BY DEF KInv, PInv, IInv, Types
<1>2. CASE m = [store |-> store, sram |-> sram, region |-> region, mem |-> mem]
  <2>1. m.store = store /\ m.sram = sram /\ m.region = region /\ m.mem = mem
    BY <1>2
  <2>2. store = "psram" => HasRoom(mem, region["ProgramStore"].base)
    BY <1>1, StoreRoom DEF OwnRegion
  <2>3. ~exposed => /\ store = "sram" => Arrayed(sram, accepted)
                    /\ store = "psram" => Stored(mem, region["ProgramStore"].base, accepted)
    BY <1>1 DEF InPlace, IndexAt, Base
  <2>. QED  BY <1>1, <2>1, <2>2, <2>3 DEF Moved, Types, OwnRegion
<1>3. CASE m # [store |-> store, sram |-> sram, region |-> region, mem |-> mem]
  <2>1. PICK r \in Claims(region, "ProgramStore", StoreSize) :
          /\ store = "sram" /\ Len(sram) <= Slots
          /\ m = [store |-> "psram", sram |-> << >>, region |-> r,
                 mem |-> [at \in DOMAIN mem |->
                    LET base == r["ProgramStore"].base
                    IN  IF at = base
                        THEN [by |-> "ProgramStore",
                              data |-> [i \in DOMAIN sram |->
                                  Entry(sram[i].number, sram[i].text, i)]]
                        ELSE IF at - base \in 1 .. Slots
                        THEN [by |-> "ProgramStore",
                              data |-> IF at - base \in DOMAIN sram
                                       THEN sram[at - base].text ELSE Junk]
                        ELSE mem[at]]]
    BY <1>3 DEF Migrations
  <2> DEFINE b == r["ProgramStore"].base
             ix == [i \in DOMAIN sram |-> Entry(sram[i].number, sram[i].text, i)]
  <2>2. /\ m.store = "psram" /\ m.region = r /\ DOMAIN m.mem = DOMAIN mem
        /\ \A at \in DOMAIN mem :
             m.mem[at] = IF at = b THEN [by |-> "ProgramStore", data |-> ix]
                         ELSE IF at - b \in 1 .. Slots
                         THEN [by |-> "ProgramStore",
                               data |-> IF at - b \in DOMAIN sram
                                        THEN sram[at - b].text ELSE Junk]
                         ELSE mem[at]
    BY <2>1
  <2>3. StoreSize \in Nat /\ StoreSize = Slots + 1 /\ Slots \in Nat
    BY SizeAssumption DEF StoreSize
  <2>4. /\ Sound(r) /\ r["ProgramStore"].size = StoreSize
        /\ \A d \in Used(region) :
              d # "ProgramStore" /\ d \in Used(r) /\ r[d] = region[d]
    BY <1>1, <2>1, <2>3, ClaimIs, ClientsAre
  <2>5. /\ "ProgramStore" \in Used(r) /\ End(r["ProgramStore"]) = b + Slots + 1
        /\ HasRoom(mem, b) /\ HasRoom(m.mem, b)
    BY <1>1, <2>2, <2>4, StoreRoom
  <2>6. b \in Nat
    BY <2>5 DEF HasRoom
  <2> HIDE DEF b, ix
  <2>7. ASSUME ~exposed  PROVE Stored(m.mem, b, accepted)
    <3>1. Arrayed(sram, accepted) /\ Len(sram) <= Slots
      BY <1>1, <2>1, <2>7 DEF InPlace
    <3>2. ASSUME NEW at \in DOMAIN mem, at - b \in 0 .. Slots
          PROVE  m.mem[at] = [by |-> "ProgramStore",
                    data |-> IF at - b = 0 THEN ix
                             ELSE IF at - b \in DOMAIN sram THEN sram[at - b].text
                             ELSE Junk]
      <4>1. at \in Int
        BY <1>1, CapacityAssumption
      <4>2. CASE at = b
        <5>1. at - b = 0
          BY <2>6, <4>1, <4>2
        <5>2. m.mem[at] = [by |-> "ProgramStore", data |-> ix]
          BY <2>2, <4>2
        <5>. QED  BY <5>1, <5>2
      <4>3. CASE at # b
        <5>1. at - b \in 1 .. Slots /\ at - b # 0
          BY <2>3, <2>6, <3>2, <4>1, <4>3
        <5>. QED  BY <2>2, <4>3, <5>1
      <4>. QED  BY <4>2, <4>3
    <3>3. \A at \in DOMAIN mem : at - b \in 0 .. Slots =>
             m.mem[at] = [by |-> "ProgramStore",
                data |-> IF at - b = 0
                         THEN [i \in DOMAIN sram |-> Entry(sram[i].number, sram[i].text, i)]
                         ELSE IF at - b \in DOMAIN sram THEN sram[at - b].text
                         ELSE Junk]
      BY <3>2 DEF ix
    <3>. QED  BY <2>5, <3>1, <3>3, FillStored
  <2>8. ASSUME cache.valid
        PROVE  /\ r["CompiledCache"] = region["CompiledCache"]
               /\ m.mem[Base("CompiledCache")] = mem[Base("CompiledCache")]
    <3> DEFINE at == Base("CompiledCache")
    <3>1. /\ "CompiledCache" \in Used(region) /\ at \in 0 .. Capacity - 1
          /\ region["CompiledCache"].base <= at /\ at < End(region["CompiledCache"])
      BY <1>1, <2>8, CompiledAt
    <3>2. /\ "CompiledCache" \in Used(r) /\ r["CompiledCache"] = region["CompiledCache"]
      BY <2>4, <3>1
    <3>3. at \in Int /\ at \in DOMAIN mem
      BY <1>1, <3>1, CapacityAssumption
    <3> HIDE DEF at
    <3>4. ~(r["ProgramStore"].base <= at /\ at < End(r["ProgramStore"]))
      BY <2>4, <2>5, <3>1, <3>2, <3>3, UnitsApart
    <3>5. ~(b <= at /\ at < b + Slots + 1)
      BY <2>5, <3>4 DEF b
    <3>6. at # b /\ at - b \notin 1 .. Slots
      BY <2>3, <2>6, <3>3, <3>5
    <3>7. m.mem[at] = mem[at]
      BY <2>2, <3>3, <3>6
    <3>. QED  BY <3>2, <3>7 DEF at
  <2>. QED  BY <2>2, <2>4, <2>5, <2>7, <2>8 DEF Moved, b
<1>. QED  BY <1>2, <1>3

\* What LOAD has to show.
LEMMA LoadSuffices ==
  ASSUME KInv, NEW m, Moved(m), region' = m.region, store' = m.store,
         UNCHANGED <<available, suspended, sdCache, direct>>,
         DOMAIN mem' = DOMAIN mem, exposed' \in BOOLEAN, Whole(accepted'),
         RunsTheProgram',
         ~exposed' =>
            /\ m.store = "sram" => Arrayed(sram', accepted')
            /\ m.store = "psram" => Stored(mem', m.region["ProgramStore"].base, accepted')
  PROVE  PInv'
<1>1. Types'
  BY DEF KInv, PInv, Types, Moved
<1>2. OwnRegion'
  BY DEF Moved, OwnRegion, StoreSize
<1>3. IndexAt' = m.region["ProgramStore"].base
  BY DEF IndexAt, Base
<1>4. ~exposed' => InPlace'
  BY <1>3 DEF InPlace
<1>. QED  BY <1>1, <1>2, <1>4 DEF PInv

\* LOAD ends before it overwrites anything.
LEMMA NothingLoaded ==
  ASSUME KInv, NEW m, Moved(m), region' = m.region, store' = m.store,
         UNCHANGED <<available, suspended, sdCache, direct>>,
         mem' = m.mem, Fail(FALSE), m.store = "sram" => sram' = sram
  PROVE  PInv'
<1>1. exposed' \in BOOLEAN /\ Whole(accepted') /\ (~exposed' => ~exposed)
  BY FailWhole
<1>2. DOMAIN mem' = DOMAIN mem
  BY DEF Moved
<1>3. ASSUME ~exposed'
      PROVE  /\ m.store = "sram" => Arrayed(sram', accepted')
             /\ m.store = "psram" => Stored(mem', m.region["ProgramStore"].base, accepted')
  <2>1. accepted' = accepted /\ ~exposed
    BY <1>1, <1>3, FailIs
  <2>. QED  BY <2>1 DEF Moved
<1>4. RunsTheProgram'
  <2>1. ASSUME cache'.valid, cache'.current, ~exposed'
        PROVE  mem'[Base("CompiledCache")'] = [by |-> "CompiledCache", data |-> Lines(accepted')]
    <3>1. cache' = cache
      BY DEF Fail
    <3>2. accepted' = accepted /\ ~exposed
      BY <1>1, <2>1, FailIs
    <3>3. mem[Base("CompiledCache")] = [by |-> "CompiledCache", data |-> Lines(accepted)]
      BY <2>1, <3>1, <3>2 DEF KInv, PInv, RunsTheProgram
    <3>4. /\ region'["CompiledCache"] = region["CompiledCache"]
          /\ mem'[Base("CompiledCache")] = mem[Base("CompiledCache")]
      BY <2>1, <3>1 DEF Moved
    <3>5. Base("CompiledCache")' = Base("CompiledCache")
      BY <3>4 DEF Base
    <3>. QED  BY <3>2, <3>3, <3>4, <3>5
  <2>. QED  BY <2>1 DEF RunsTheProgram
<1>. QED  BY <1>1, <1>2, <1>3, <1>4, LoadSuffices

\* LOAD breaks off after it has begun to overwrite lines.
LEMMA HalfWayLoaded ==
  ASSUME KInv, NEW m, Moved(m), region' = m.region, store' = m.store,
         UNCHANGED <<available, suspended, sdCache, direct>>,
         DOMAIN mem' = DOMAIN mem, Fail(TRUE)
  PROVE  PInv'
<1>1. exposed' \in BOOLEAN /\ Whole(accepted') /\ exposed'
  BY FailWhole DEF Fail
<1>2. RunsTheProgram'
  BY <1>1 DEF RunsTheProgram
<1>. QED  BY <1>1, <1>2, LoadSuffices

\* LOAD ends well.
LEMMA AllLoaded ==
  ASSUME KInv, NEW m, Moved(m), region' = m.region, store' = m.store,
         UNCHANGED <<available, suspended, sdCache, direct>>,
         DOMAIN mem' = DOMAIN mem, NEW p, Whole(p), Replace(p),
         m.store = "sram" => Arrayed(sram', p),
         m.store = "psram" => Stored(mem', m.region["ProgramStore"].base, p)
  PROVE  PInv'
<1>1. exposed' = FALSE /\ accepted' = p /\ BumpRevision
  BY DEF Replace
<1>2. RunsTheProgram' /\ exposed' \in BOOLEAN
  BY <1>1, OutOfDate
<1>. QED  BY <1>1, <1>2, LoadSuffices

\* LOAD into the SRAM array.
LEMMA LoadSramKeeps ==
  ASSUME KInv, NEW m, Moved(m), region' = m.region, store' = m.store,
         UNCHANGED <<available, suspended, sdCache, direct>>,
         NEW p, Whole(p), LoadSram(m, p)
  PROVE  PInv'
<1>1. m.store = "sram" /\ mem' = m.mem /\ DOMAIN mem' = DOMAIN mem
  BY DEF LoadSram, Moved
<1>2. CASE Fail(FALSE) /\ sram' = sram
  BY <1>1, <1>2, NothingLoaded
<1>3. CASE sram' = Lines(p) /\ Replace(p)
  <2>1. Arrayed(sram', p)
    BY <1>3, LinesIs
  <2>. QED  BY <1>1, <1>3, <2>1, AllLoaded
<1>4. CASE Fail(TRUE)
  BY <1>1, <1>4, HalfWayLoaded
<1>. QED  BY <1>2, <1>3, <1>4 DEF LoadSram

\* LOAD into the PSRAM store.
LEMMA LoadPsramKeeps ==
  ASSUME KInv, NEW m, Moved(m), region' = m.region, store' = m.store,
         UNCHANGED <<available, suspended, sdCache, direct>>,
         NEW p, Whole(p), LoadPsram(m, p)
  PROVE  PInv'
<1> DEFINE lines == Lines(p)
           b == m.region["ProgramStore"].base
           new == [i \in DOMAIN lines |-> Entry(lines[i].number, lines[i].text, i)]
           torn(k) == IF WriteFaults /\ k < Len(lines)
                      THEN {Put(TextsLoaded(m, lines, k), "ProgramStore", b + k + 1, Junk)}
                      ELSE {}
           texts == TextsLoaded(m, lines, Len(lines))
<1>1. /\ m.store = "psram" /\ Cardinality(DOMAIN p) <= Slots
      /\ \/ mem' = PutIndex(texts, b, new) /\ Replace(p)
         \/ /\ \E k \in 0 .. Len(lines) : \E x \in {TextsLoaded(m, lines, k)} \cup torn(k) :
                  mem' = Tidy(x, b, m.mem[b].data)
            /\ Fail(TRUE)
         \/ /\ \E k \in 0 .. Len(lines) - 1 :
                  mem' = PutIndex(texts, b, Overwritten(m.mem[b].data, new, k))
            /\ Fail(TRUE)
  BY DEF LoadPsram
<1>2. \A k : DOMAIN TextsLoaded(m, lines, k) = DOMAIN mem
  BY DEF TextsLoaded, Moved
<1>3. HasRoom(m.mem, b) /\ DOMAIN m.mem = DOMAIN mem
  BY <1>1 DEF Moved
<1>4. CASE mem' = PutIndex(texts, b, new) /\ Replace(p)
  <2>1. /\ Arrayed(lines, p) /\ Len(lines) = Cardinality(DOMAIN p)
        /\ DOMAIN lines = 1 .. Len(lines)
    BY LinesIs
  <2>2. Len(lines) <= Slots
    BY <1>1, <2>1
  <2>3. \A at \in DOMAIN m.mem :
          at - b \in DOMAIN lines =>
            texts[at] = [by |-> "ProgramStore", data |-> lines[at - b].text]
    BY <2>1 DEF TextsLoaded
  <2>4. DOMAIN texts = DOMAIN m.mem
    BY <1>2, <1>3
  <2>5. /\ b \in Nat /\ Slots \in Nat /\ \A i \in 0 .. Slots : b + i \in DOMAIN m.mem
        /\ Len(lines) \in Nat
    <3>1. Len(lines) \in Nat
      BY <2>1, SeqIs DEF Arrayed, Table
    <3>. QED  BY <1>3, <3>1, SizeAssumption DEF HasRoom
  <2> HIDE DEF texts, lines, new, b
  <2>6. HasRoom(texts, b)
    BY <2>4, <2>5 DEF HasRoom
  <2> DEFINE full == Put(texts, "ProgramStore", b, new)
  <2>7. /\ DOMAIN full = DOMAIN m.mem /\ full[b].data = new
        /\ \A at \in DOMAIN m.mem : at # b => full[at] = texts[at]
    <3>1. b + 0 \in DOMAIN m.mem /\ b + 0 = b
      BY <2>5
    <3>. QED  BY <2>4, <3>1 DEF Put
  <2>8. \A i \in DOMAIN lines :
           full[b + i] = [by |-> "ProgramStore", data |-> lines[i].text]
    <3>1. ASSUME NEW i \in DOMAIN lines
          PROVE  full[b + i] = [by |-> "ProgramStore", data |-> lines[i].text]
      <4>1. i \in 1 .. Slots /\ b + i \in DOMAIN m.mem /\ b + i # b /\ (b + i) - b = i
        BY <2>1, <2>2, <2>5
      <4>2. texts[b + i] = [by |-> "ProgramStore", data |-> lines[(b + i) - b].text]
        BY <2>3, <4>1
      <4>. QED  BY <2>7, <4>1, <4>2
    <3>. QED  BY <3>1
  <2>9. HasRoom(full, b)
    BY <2>5, <2>7 DEF HasRoom
  <2>10. PutIndex(texts, b, new) = Tidy(full, b, new)
    BY DEF PutIndex
  <2> HIDE DEF full
  <2>11. Stored(full, b, p)
    BY <2>1, <2>2, <2>7, <2>8, FreshStored DEF new
  <2>12. \A e \in Rows(full[b].data) : \E i \in DOMAIN new : new[i].slot = e.slot
    BY <2>7, OwnSlots
  <2>13. Stored(Tidy(full, b, new), b, p)
    BY <2>9, <2>11, <2>12, TidyStored
  <2>14. Stored(mem', b, p) /\ DOMAIN mem' = DOMAIN mem
    BY <1>3, <1>4, <2>7, <2>10, <2>13, TidyDomain
  <2>. QED  BY <1>1, <1>4, <2>14, AllLoaded DEF b
<1>5. CASE /\ \E k \in 0 .. Len(lines) : \E x \in {TextsLoaded(m, lines, k)} \cup torn(k) :
                 mem' = Tidy(x, b, m.mem[b].data)
           /\ Fail(TRUE)
  <2>0. PICK k \in 0 .. Len(lines) : \E x \in {TextsLoaded(m, lines, k)} \cup torn(k) :
           mem' = Tidy(x, b, m.mem[b].data)
    BY <1>5
  <2>1. PICK x \in {TextsLoaded(m, lines, k)} \cup torn(k) :
           mem' = Tidy(x, b, m.mem[b].data)
    BY <2>0
  <2>2. DOMAIN x = DOMAIN mem
    BY <1>2, PutDomain
  <2>3. DOMAIN mem' = DOMAIN mem
    BY <2>1, <2>2, TidyDomain
  <2>. QED  BY <1>5, <2>3, HalfWayLoaded
<1>6. CASE /\ \E k \in 0 .. Len(lines) - 1 :
                 mem' = PutIndex(texts, b, Overwritten(m.mem[b].data, new, k))
           /\ Fail(TRUE)
  <2>1. DOMAIN mem' = DOMAIN mem
    BY <1>2, <1>6, PutIndexDomain
  <2>. QED  BY <1>6, <2>1, HalfWayLoaded
<1>. QED  BY <1>1, <1>4, <1>5, <1>6

\* LOAD, wherever it ends.
LEMMA LoadPlace ==
  ASSUME KInv, NEW file \in Files, Load(file)
  PROVE  PInv'
<1>1. PICK m \in Migrated :
         /\ LoadSram(m, file) \/ LoadPsram(m, file) \/ LoadMissing(m)
         /\ store' = m.store
         /\ region' = m.region
  BY DEF Load
<1>2. UNCHANGED <<available, suspended, sdCache, direct>> /\ store # "sd"
  BY DEF Load
<1>3. m \in Migrations
  BY DEF Migrated
<1>4. Moved(m)
  BY <1>2, <1>3, MigrationsAre
<1>5. Whole(file)
  BY ProgramAssumption DEF Whole
<1>6. CASE LoadSram(m, file)
  BY <1>1, <1>2, <1>4, <1>5, <1>6, LoadSramKeeps
<1>7. CASE LoadPsram(m, file)
  BY <1>1, <1>2, <1>4, <1>5, <1>7, LoadPsramKeeps
<1>8. CASE LoadMissing(m)
  <2>1. mem' = m.mem /\ Fail(FALSE) /\ (m.store = "sram" => sram' = sram)
    BY <1>4, <1>8 DEF LoadMissing, Moved
  <2>. QED  BY <1>1, <1>2, <1>4, <2>1, NothingLoaded
<1>. QED  BY <1>1, <1>6, <1>7, <1>8

-----------------------------------------------------------------------------
(* Moves between the card and memory.                                       *)

\* What the listing carries over to the card is the accepted program.
LEMMA CarriedOver ==
  ASSUME KInv, ~exposed
  PROVE  [n \in {Listing[i].number : i \in DOMAIN Listing} |-> Listing[At(Listing, n)].text]
           = accepted
<1> DEFINE ls == Listing
<1>1. Whole(accepted) /\ ls = Lines(accepted)
  BY KeptSuffices DEF KInv, PInv, ProgramKept, ListingIsAccepted
<1>2. Arrayed(ls, accepted)
  BY <1>1, LinesIs
<1> HIDE DEF ls
<1>3. Table(ls) /\ Rows(ls) = LineRows(accepted)
  BY <1>2 DEF Arrayed
<1>4. DOMAIN accepted \subseteq Nat /\ accepted = [n \in DOMAIN accepted |-> accepted[n]]
  BY <1>1, WholeIs, NumberAssumption
<1>5. {ls[i].number : i \in DOMAIN ls} = DOMAIN accepted
  <2>1. ASSUME NEW i \in DOMAIN ls  PROVE ls[i].number \in DOMAIN accepted
    <3>1. ls[i] \in LineRows(accepted)
      BY <1>3 DEF Rows
    <3>. QED  BY <3>1 DEF LineRows
  <2>2. ASSUME NEW n \in DOMAIN accepted  PROVE \E i \in DOMAIN ls : ls[i].number = n
    <3>1. [number |-> n, text |-> accepted[n]] \in Rows(ls)
      BY <1>3 DEF LineRows
    <3>2. PICK i \in DOMAIN ls : ls[i] = [number |-> n, text |-> accepted[n]]
      BY <3>1 DEF Rows
    <3>. QED  BY <3>2
  <2>. QED  BY <2>1, <2>2
<1>6. ASSUME NEW n \in DOMAIN accepted  PROVE ls[At(ls, n)].text = accepted[n]
  <2>1. n \in Nat
    BY <1>4
  <2>2. \E e \in Rows(ls) : e.number = n
    <3>1. [number |-> n, text |-> accepted[n]] \in Rows(ls)
      BY <1>3 DEF LineRows
    <3>. QED  BY <3>1
  <2>3. At(ls, n) \in DOMAIN ls /\ ls[At(ls, n)].number = n
    BY <1>3, <2>1, <2>2, AtIs
  <2>4. ls[At(ls, n)] \in LineRows(accepted)
    BY <1>3, <2>3 DEF Rows
  <2>. QED  BY <2>3, <2>4 DEF LineRows
<1>7. [n \in {ls[i].number : i \in DOMAIN ls} |-> ls[At(ls, n)].text] = accepted
  BY <1>4, <1>5, <1>6
<1>. QED  BY <1>7 DEF ls

\* The program moves to a work file on the card.
LEMMA SwitchToSdPlace ==
  ASSUME KInv, NEW discard \in BOOLEAN, SwitchToSd(discard)
  PROVE  PInv'
<1> DEFINE p == [n \in {Listing[i].number : i \in DOMAIN Listing} |->
                    Listing[At(Listing, n)].text]
<1>1. /\ discard \/ ~exposed
      /\ Replace(IF discard THEN NoProgram ELSE p)
      /\ store' = "sd" /\ suspended' = FALSE
      /\ mem' = Scrub(mem, region, {"ProgramStore"})
      /\ UNCHANGED <<available, sdCache, direct>>
  BY DEF SwitchToSd
<1>2. Types /\ Whole(accepted)
  BY DEF KInv, PInv
<1>3. ~exposed => p = accepted
  BY CarriedOver
<1> HIDE DEF p
<1>4. exposed' = FALSE /\ accepted' = (IF discard THEN NoProgram ELSE p) /\ BumpRevision
  BY <1>1 DEF Replace
<1>5. Whole(accepted')
  BY <1>1, <1>2, <1>3, <1>4, NoProgramWhole
<1>6. DOMAIN mem' = DOMAIN mem
  BY <1>1, ScrubDomain
<1>7. Types'
  BY <1>1, <1>2, <1>4, <1>6 DEF Types
<1>8. OwnRegion' /\ InPlace'
  BY <1>1 DEF OwnRegion, InPlace
<1>9. RunsTheProgram'
  BY <1>4, OutOfDate
<1>. QED  BY <1>5, <1>7, <1>8, <1>9 DEF PInv

\* The program is entered into the units of a region that was claimed.
Filling(m, b, s) ==
    [at \in DOMAIN m |->
        LET i == at - b
        IN  IF i \notin 0 .. Slots THEN m[at]
            ELSE [by |-> "ProgramStore",
                  data |-> IF i = 0
                           THEN [j \in DOMAIN s |-> Entry(s[j].number, s[j].text, j)]
                           ELSE IF i \in DOMAIN s THEN s[i].text
                           ELSE Junk]]

\* A region that was filled with the lines stores the program.
LEMMA FilledStored ==
  ASSUME NEW p, Whole(p), Len(Lines(p)) <= Slots,
         NEW m, DOMAIN m = 0 .. Capacity - 1,
         NEW r, Sound(r), r["ProgramStore"].size = StoreSize,
         NEW b, b = r["ProgramStore"].base
  PROVE  Stored(Filling(m, b, Lines(p)), b, p)
<1> DEFINE s == Lines(p)
           m2 == Filling(m, b, s)
<1>1. Arrayed(s, p)
  BY LinesIs
<1>2. HasRoom(m, b)
  BY StoreRoom
<1>3. \A at \in DOMAIN m : at - b \in 0 .. Slots =>
            m2[at] = [by |-> "ProgramStore",
                      data |-> IF at - b = 0
                               THEN [i \in DOMAIN s |-> Entry(s[i].number, s[i].text, i)]
                               ELSE IF at - b \in DOMAIN s THEN s[at - b].text
                               ELSE Junk]
  BY DEF Filling
<1>4. Len(s) <= Slots
  OBVIOUS
<1> HIDE DEF m2, s
<1>5. Stored(m2, b, p)
  BY <1>1, <1>2, <1>3, <1>4, FillStored
<1>. QED  BY <1>5 DEF m2, s

\* The program moves from the card to PSRAM or SRAM.
LEMMA SwitchToRamPlace ==
  ASSUME KInv, NEW discard \in BOOLEAN, SwitchToRam(discard)
  PROVE  PInv'
<1> DEFINE p == IF discard THEN NoProgram ELSE accepted
           lines == Lines(p)
           freed == Released(region, {"SdCache"})
           without == IF sdCache THEN Scrub(mem, region, {"SdCache"}) ELSE mem
<1>1. /\ Accept(p) /\ sdCache' = FALSE
      /\ UNCHANGED <<available, suspended, direct>>
  BY DEF SwitchToRam
<1>2. \/ \E r \in Claims(region, "ProgramStore", StoreSize) :
            /\ Len(lines) <= Slots /\ store' = "psram"
            /\ region' = Released(r, {"SdCache"})
            /\ mem' = Filling(without, r["ProgramStore"].base, lines)
      \/ \E r \in Claims(freed, "ProgramStore", StoreSize) :
            /\ Len(lines) <= SramLines /\ store' = "psram" /\ region' = r
            /\ mem' = Filling(without, r["ProgramStore"].base, lines)
      \/ /\ store' = "sram" /\ sram' = lines /\ mem' = without
  BY DEF SwitchToRam, Filling
<1>3. Types /\ Whole(accepted) /\ Sound(region) /\ DOMAIN mem = 0 .. Capacity - 1
  BY DEF KInv, PInv, IInv, Types
<1>4. Whole(p)
  BY <1>3, NoProgramWhole
<1>5. DOMAIN without = DOMAIN mem
  BY ScrubDomain
<1>6. Sound(freed)
  BY <1>3, ReleaseIsSound
<1>7. StoreSize \in Nat /\ "ProgramStore" \in Client /\ "ProgramStore" # "SdCache"
  BY SizeAssumption, ClientsAre DEF StoreSize
<1> HIDE DEF p, lines, freed, without
<1>8. Whole(accepted') /\ exposed' = exposed /\ exposed' \in BOOLEAN
  BY <1>1, <1>4, AcceptWhole
<1>9. ~exposed' => accepted' = p
  BY <1>1, <1>8 DEF Accept
<1>10. RunsTheProgram'
  BY <1>1, OutOfDate DEF Accept
<1>11. SramLines <= Slots /\ SramLines \in Int /\ Slots \in Nat
  BY SizeAssumption
<1>12. Len(lines) \in Nat
  BY <1>4, LinesIs, SeqIs DEF Arrayed, Table, lines
<1>13. ASSUME NEW r, Sound(r), r["ProgramStore"].size = StoreSize,
              Len(lines) <= Slots, store' = "psram",
              region'["ProgramStore"] = r["ProgramStore"],
              mem' = Filling(without, r["ProgramStore"].base, lines)
       PROVE  PInv'
  <2> DEFINE b == r["ProgramStore"].base
  <2>1. Stored(Filling(without, b, Lines(p)), b, p)
    BY <1>3, <1>4, <1>5, <1>13, FilledStored DEF lines
  <2>2. IndexAt' = b
    BY <1>13 DEF IndexAt, Base
  <2>3. ~exposed' => InPlace'
    BY <1>9, <1>13, <2>1, <2>2 DEF InPlace, lines
  <2>4. DOMAIN mem' = DOMAIN mem
    BY <1>5, <1>13 DEF Filling
  <2>5. Types'
    BY <1>1, <1>3, <1>8, <1>13, <2>4 DEF Types
  <2>6. OwnRegion'
    BY <1>13 DEF OwnRegion, StoreSize
  <2>. QED  BY <1>8, <1>10, <2>3, <2>5, <2>6 DEF PInv
<1>14. CASE \E r \in Claims(region, "ProgramStore", StoreSize) :
            /\ Len(lines) <= Slots /\ store' = "psram"
            /\ region' = Released(r, {"SdCache"})
            /\ mem' = Filling(without, r["ProgramStore"].base, lines)
  <2>1. PICK r \in Claims(region, "ProgramStore", StoreSize) :
            /\ Len(lines) <= Slots /\ store' = "psram"
            /\ region' = Released(r, {"SdCache"})
            /\ mem' = Filling(without, r["ProgramStore"].base, lines)
    BY <1>14
  <2>2. Sound(r) /\ r["ProgramStore"].size = StoreSize
    BY <1>3, <1>7, ClaimIs
  <2>3. region'["ProgramStore"] = r["ProgramStore"]
    BY <1>7, <2>1 DEF Released
  <2>. QED  BY <1>13, <2>1, <2>2, <2>3
<1>15. CASE \E r \in Claims(freed, "ProgramStore", StoreSize) :
            /\ Len(lines) <= SramLines /\ store' = "psram" /\ region' = r
            /\ mem' = Filling(without, r["ProgramStore"].base, lines)
  <2>1. PICK r \in Claims(freed, "ProgramStore", StoreSize) :
            /\ Len(lines) <= SramLines /\ store' = "psram" /\ region' = r
            /\ mem' = Filling(without, r["ProgramStore"].base, lines)
    BY <1>15
  <2>2. Sound(r) /\ r["ProgramStore"].size = StoreSize
    BY <1>6, <1>7, ClaimIs
  <2>3. Len(lines) <= Slots
    BY <1>11, <1>12, <2>1
  <2>4. region'["ProgramStore"] = r["ProgramStore"]
    BY <2>1
  <2>. QED  BY <1>13, <2>1, <2>2, <2>3, <2>4
<1>16. CASE store' = "sram" /\ sram' = lines /\ mem' = without
  <2>1. Arrayed(lines, p)
    BY <1>4, LinesIs DEF lines
  <2>2. ~exposed' => InPlace'
    BY <1>9, <1>16, <2>1 DEF InPlace
  <2>3. Types' /\ OwnRegion'
    BY <1>1, <1>3, <1>5, <1>8, <1>16 DEF Types, OwnRegion
  <2>. QED  BY <1>8, <1>10, <2>2, <2>3 DEF PInv
<1>. QED  BY <1>2, <1>14, <1>15, <1>16

-----------------------------------------------------------------------------
(* The whole program.                                                       *)

\* The first state, and every step.
LEMMA InitPlace == Init => PInv
<1> SUFFICES ASSUME Init  PROVE PInv
  OBVIOUS
<1> DEFINE idle == [c \in Client |-> Idle]
<1>1. /\ available \in BOOLEAN
      /\ region = idle \/ region \in Claims(idle, "ProgramStore", StoreSize)
      /\ store = IF Used(region) = {} THEN "sram" ELSE "psram"
      /\ mem = [at \in 0 .. Capacity - 1 |->
                IF store = "psram" /\ at < StoreSize
                THEN [by |-> "ProgramStore", data |-> IF at = 0 THEN << >> ELSE Junk]
                ELSE [by |-> "nobody", data |-> Junk]]
      /\ sram = << >> /\ suspended = FALSE /\ exposed = FALSE
      /\ cache = [valid |-> FALSE, current |-> FALSE]
      /\ sdCache = FALSE /\ direct = "none" /\ accepted = NoProgram
  BY DEF Init
<1>2. Sound(idle) /\ Used(idle) = {}
  BY CapacityAssumption DEF Sound, Idle, Region, Used, InRange, Disjoint
<1>3. StoreSize \in Nat /\ StoreSize > 0
  BY SizeAssumption DEF StoreSize
<1> HIDE DEF idle
<1>4. Whole(accepted) /\ RunsTheProgram /\ DOMAIN mem = 0 .. Capacity - 1
  BY <1>1, NoProgramWhole DEF RunsTheProgram
<1>5. Types
  BY <1>1, <1>4 DEF Types
<1>6. store = "sram" => Arrayed(sram, accepted)
  BY <1>1, EmptyFiled
<1>7. ASSUME store = "psram"
      PROVE  OwnRegion /\ Stored(mem, IndexAt, accepted)
  <2>1. Used(region) # {}
    BY <1>1, <1>7
  <2>2. region \in Claims(idle, "ProgramStore", StoreSize)
    BY <1>1, <1>2, <2>1
  <2>3. Sound(region) /\ region["ProgramStore"].size = StoreSize
    BY <1>2, <1>3, <2>2, ClaimIs, ClientsAre
  <2>4. region["ProgramStore"].base = 0
    <3>1. PICK b \in Room(idle, StoreSize) :
             region = [idle EXCEPT !["ProgramStore"] = [base |-> b, size |-> StoreSize]]
      BY <2>2 DEF Claims
    <3>2. b = 0
      BY <1>2, <3>1 DEF Room, Starts
    <3>3. "ProgramStore" \in DOMAIN idle
      BY <1>2, ClientsAre DEF Sound
    <3>. QED  BY <3>1, <3>2, <3>3
  <2>5. IndexAt = 0
    BY <2>4 DEF IndexAt, Base
  <2>6. HasRoom(mem, 0)
    BY <1>4, <2>3, <2>4, StoreRoom
  <2>7. 0 + 0 \in DOMAIN mem
    <3>1. 0 \in 0 .. Slots
      BY SizeAssumption
    <3>. QED  BY <2>6, <3>1 DEF HasRoom
  <2>8. mem[0].data = << >>
    BY <1>1, <1>3, <1>4, <1>7, <2>7
  <2>9. Texts(mem, 0, << >>)
    BY DEF Texts, Rows
  <2>10. Stored(mem, 0, NoProgram)
    BY <2>8, <2>9, EmptyFiled DEF Stored
  <2>. QED  BY <1>1, <2>3, <2>5, <2>10 DEF OwnRegion
<1>8. OwnRegion /\ InPlace
  BY <1>6, <1>7 DEF OwnRegion, InPlace
<1>. QED  BY <1>4, <1>5, <1>8 DEF PInv

LEMMA StepPlace == KInv /\ [Next]_vars => PInv'
<1> SUFFICES ASSUME KInv, [Next]_vars  PROVE PInv'
  OBVIOUS
<1>1. ASSUME NEW n \in Number, NEW t \in Text, SetLine(n, t)  PROVE PInv'
  BY <1>1, SetLineKeeps
<1>2. ASSUME NEW n \in Number, EraseLine(n)  PROVE PInv'
  BY <1>2, EraseLineKeeps
<1>3. ASSUME NEW m \in Number, NEW n \in Number,
             NEW t \in Text \cup {Junk}, NEW u \in Text \cup {Junk}, m # n,
             ReplaceLinePair(Pair(m, t, n, u), <<m, n>>)
      PROVE  PInv'
  <2> DEFINE edit == Pair(m, t, n, u)
  <2>1. OfTwo(edit, m, n)
    BY <1>3 DEF OfTwo
  <2>2. ReplaceLinePair(edit, <<m, n>>)
    BY <1>3
  <2> HIDE DEF edit
  <2>. QED  BY <2>1, <2>2, PairKeeps
<1>4. CASE Clear
  BY <1>4, ClearKeeps
<1>5. ASSUME NEW file \in Files, Load(file)  PROVE PInv'
  BY <1>5, LoadPlace
<1>6. ASSUME NEW discard \in BOOLEAN, SwitchToSd(discard) \/ SwitchToRam(discard)
      PROVE  PInv'
  BY <1>6, SwitchToSdPlace, SwitchToRamPlace
<1>7. CASE EditOnCard
  BY <1>7, EditOnCardKeeps
<1>8. CASE ReadOnCard
  BY <1>8, ReadPlace
<1>9. CASE Run \/ ServiceBackground
  BY <1>9, RunPlace
<1>10. CASE StoreDirect \/ ClearDirect
  BY <1>10, DirectPlace
<1>11. CASE RunDiagnostic \/ Reprobe
  BY <1>11, DevicePlace
<1>12. CASE UNCHANGED vars
  <2>1. PInv
    BY DEF KInv
  <2>2. UNCHANGED <<available, region, mem, store, sram, suspended, cache, sdCache,
                    direct, accepted, exposed>>
    BY <1>12 DEF vars
  <2>3. Types' /\ Whole(accepted)' /\ OwnRegion'
    BY <2>1, <2>2 DEF PInv, Types, OwnRegion, StoreSize
  <2>4. IndexAt' = IndexAt /\ Base("CompiledCache")' = Base("CompiledCache")
    BY <2>2 DEF IndexAt, Base
  <2>5. (~exposed => InPlace)' /\ RunsTheProgram'
    BY <2>1, <2>2, <2>4 DEF PInv, InPlace, RunsTheProgram
  <2>. QED  BY <2>2, <2>3, <2>5 DEF PInv
<1>. QED
  BY <1>1, <1>2, <1>3, <1>4, <1>5, <1>6, <1>7, <1>8, <1>9, <1>10, <1>11, <1>12 DEF Next

\* LIST and RUN show the accepted program: for every size of the device, of
\* the stores and of the program, every text, every set of files, and any
\* pattern of failing writes.
THEOREM ProgramIsKept == Spec => []ProgramKept
<1>1. Init => KInv
  BY InitSound, InitPlace DEF KInv
<1>2. KInv /\ [Next]_vars => KInv'
  BY StepSound, StepPlace DEF KInv
<1>3. Spec => []KInv
  BY <1>1, <1>2, PTL DEF Spec
<1>. QED  BY <1>3, KeptSuffices, PTL
=============================================================================

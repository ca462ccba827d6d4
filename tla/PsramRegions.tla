---------------------------- MODULE PsramRegions ----------------------------
(* The region allocator of the external PSRAM.  Every client owns at most   *)
(* one contiguous region; a request takes the lowest gap that is wide       *)
(* enough.  Lengths are counted in the allocator's 16-byte units, so that   *)
(* align_up is the identity.  The 16 bytes a probe writes lie beyond        *)
(* Capacity and no client can own them.                                     *)
EXTENDS Naturals

CONSTANTS Client,     \* the allocatable clients
          Capacity    \* units a client can own

ASSUME CapacityAssumption == Capacity \in Nat

Region == [base : Nat, size : Nat]

\* A client that owns nothing; a claim of no bytes is refused.
Idle == [base |-> 0, size |-> 0]

End(g) == g.base + g.size

Apart(g, h) == End(g) <= h.base \/ End(h) <= g.base

Used(r) == {c \in Client : r[c].size > 0}

\* A region [b, b + n) would stay inside the device and touch nobody's.
Fits(r, b, n) ==
    /\ b + n <= Capacity
    /\ \A c \in Used(r) : Apart([base |-> b, size |-> n], r[c])

\* The cursor only ever stops at the start and just after a region.
Starts(r) == {0} \cup {End(r[c]) : c \in Used(r)}

Room(r, n) == {b \in Starts(r) : Fits(r, b, n)}

\* The outcomes of a claim that succeeds: one placement, or none.
Claims(r, c, n) ==
    {[r EXCEPT ![c] = [base |-> b, size |-> n]] :
        b \in {x \in Room(r, n) : n > 0 /\ r[c].size = 0
                                  /\ \A y \in Room(r, n) : x <= y}}

Released(r, S) == [c \in Client |-> IF c \in S THEN Idle ELSE r[c]]

-----------------------------------------------------------------------------
(* The search as the code runs it, to compare with the placement above.     *)

Holding(r, at) == {c \in Used(r) : r[c].base <= at /\ at < End(r[c])}

\* Slip: a gap is taken to reach to the end of the device.
NextBaseIgnored(r, at) == Capacity

\* Where the free space at `at` ends: the nearest region, or the device.
NextBase(r, at) ==
    LET limits == {Capacity} \cup {r[c].base : c \in Used(r)}
    IN  CHOOSE x \in limits :
            /\ x > at
            /\ \A y \in limits : y > at => x <= y

NoPlace == Capacity + 1

Search(r, n) ==
    LET from[at \in 0 .. Capacity] ==
            IF at = Capacity THEN NoPlace
            ELSE IF Holding(r, at) # {}
                 THEN from[End(r[CHOOSE c \in Holding(r, at) : TRUE])]
            ELSE IF n <= NextBase(r, at) - at THEN at
            ELSE from[NextBase(r, at)]
    IN  from[0]

-----------------------------------------------------------------------------
InRange(r) ==
    \A c \in Used(r) : End(r[c]) <= Capacity

Disjoint(r) ==
    \A c, d \in Used(r) : c # d => Apart(r[c], r[d])
=============================================================================

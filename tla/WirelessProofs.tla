---------------------------- MODULE WirelessProofs ----------------------------
(***************************************************************************)
(* Proofs about HttpServer and WifiMenus, for any clients, requests,       *)
(* networks and bounds.  The server holds the lock of the card exactly     *)
(* while it has a file open (LockFollowsFiles).  The station is on no      *)
(* network but the one asked for last (OnlyWhatWasAsked), the list of      *)
(* networks keeps only passwords that worked (ProfilesWork), and an NTP    *)
(* request goes to the answer to its own look-up (OwnAnswers): these three *)
(* rest on one invariant, WifiInv.                                         *)
(***************************************************************************)
EXTENDS WifiMenus, HttpServer, WellFoundedInduction, TLAPS

-----------------------------------------------------------------------------
(* Induction over sets of numbers.                                         *)

LEMMA LeastElement ==
  ASSUME NEW T, T \subseteq Nat, T # {}
  PROVE  \E m \in T : \A k \in T : m <= k
<1>1. PICK m \in T : \A k \in T : <<k, m>> \notin OpToRel(<, Nat)
  BY NatLessThanWellFounded, WFMin
<1>2. \A k \in T : k \in Nat /\ ~(k < m)
  BY <1>1 DEF OpToRel
<1>3. \A k \in T : m <= k
  BY <1>2
<1>4. QED
  BY <1>3

LEMMA SetInduction ==
  ASSUME NEW L \in Nat, NEW S, 0 \in S, \A n \in 0..(L - 1) : n \in S => n + 1 \in S
  PROVE  0..L \subseteq S
<1> DEFINE T == {n \in 0..L : n \notin S}
<1> SUFFICES ASSUME T # {} PROVE FALSE
  OBVIOUS
<1>1. T \subseteq Nat
  OBVIOUS
<1>2. PICK m \in T : \A k \in T : m <= k
  BY <1>1, LeastElement
<1>3. m # 0 /\ m - 1 \in 0..(L - 1)
  OBVIOUS
<1>4. m - 1 \in S
  BY <1>2, <1>3
<1>5. QED
  BY <1>3, <1>4

-----------------------------------------------------------------------------
(* The HTTP server.                                                        *)

Kinds == {"answered", "list", "get", "delete", "put"}
Asked == [kind : Kinds, length : 0..MaxBody, from : Peers \cup {NoPeer}]
Units == [what : {"head", "body"}, request : Asked]

Servers ==
  [running : BOOLEAN, client : Peers \cup {NoPeer}, silent : BOOLEAN, incoming : Seq(Units),
   peerClosed : BOOLEAN, connError : BOOLEAN, held : BOOLEAN,
   op : {"Headers", "Static", "List", "Download", "Upload"}, begun : BOOLEAN, request : Asked,
   header : BOOLEAN, body : BOOLEAN, io : BOOLEAN,
   directory : BOOLEAN, download : BOOLEAN, upload : BOOLEAN,
   left : Nat, received : Nat, mixed : BOOLEAN]

Worlds ==
  [s : Servers, lock : {"free", "http", "other"}, root : {"gone", "whole", "mixed"}]

(* The lock is held for what is open, and what an operation is at is the   *)
(* only thing open: that is why ending it may give the lock back.          *)
Locked(w) ==
  /\ w.s.held <=> w.lock = "http"
  /\ w.s.held <=> w.s.directory \/ w.s.download \/ w.s.upload
  /\ w.s.op = "Upload" => w.s.upload /\ ~w.s.directory /\ ~w.s.download
  /\ w.s.op = "List" => ~w.s.upload /\ ~w.s.download

GoodWorlds == {w \in Worlds : Locked(w)}

PeerStates == [st : {"new", "open", "gone"}, request : Asked, sent : Nat]

HttpInv == World(http) \in GoodWorlds /\ peers \in [Peers -> PeerStates]

LEMMA NothingIsAsked == NoRequest \in Asked
  BY BodyAssumption DEF NoRequest, Asked, Kinds

LEMMA ReleaseIsTyped ==
  ASSUME NEW w \in Worlds, w.s.held <=> w.lock = "http"
  PROVE  /\ ReleaseStorage(w) \in Worlds
         /\ ReleaseStorage(w).lock # "http" /\ ReleaseStorage(w).root = w.root
         /\ ReleaseStorage(w).s = [w.s EXCEPT !.held = FALSE]
         /\ ~ReleaseStorage(w).s.held /\ ReleaseStorage(w).s.client = w.s.client
<1> DEFINE s == [w.s EXCEPT !.held = FALSE]
<1>1. w.s \in Servers
  BY DEF Worlds
<1>2. s \in Servers /\ ~s.held /\ s.client = w.s.client /\ (~w.s.held => s = w.s)
  BY <1>1 DEF Servers
<1>3. w.s.held => ReleaseStorage(w) = [w EXCEPT !.lock = "free", !.s = s]
  BY DEF ReleaseStorage
<1> HIDE DEF s
<1>4. CASE w.s.held
  <2>1. /\ ReleaseStorage(w) \in Worlds /\ ReleaseStorage(w).s = s
        /\ ReleaseStorage(w).lock = "free" /\ ReleaseStorage(w).root = w.root
    BY <1>2, <1>3, <1>4 DEF Worlds
  <2>2. QED
    BY <1>2, <2>1 DEF s
<1>5. CASE ~w.s.held
  BY <1>2, <1>5 DEF ReleaseStorage, s
<1>6. QED
  BY <1>4, <1>5

(* Whatever a transaction has open, ending it closes all and gives the     *)
(* lock back.                                                              *)
LEMMA CleanupIsGood ==
  ASSUME NEW w \in Worlds, w.s.held <=> w.lock = "http"
  PROVE  /\ Cleanup(w) \in GoodWorlds /\ ~Cleanup(w).s.held
         /\ Cleanup(w).s.client = w.s.client
         /\ Cleanup(w).root = w.root
<1> DEFINE released == ReleaseStorage(w)
<1>1. /\ released \in Worlds /\ ~released.s.held /\ released.lock # "http"
      /\ released.s.client = w.s.client /\ released.root = w.root
  BY ReleaseIsTyped
<1> HIDE DEF released
<1>2. released.s \in Servers
  BY <1>1 DEF Worlds
<1> DEFINE s == [released.s EXCEPT
     !.download = FALSE, !.directory = FALSE, !.upload = FALSE,
     !.op = "Headers", !.begun = FALSE, !.header = FALSE,
     !.body = FALSE, !.io = FALSE, !.received = 0,
     !.left = 0, !.mixed = FALSE, !.request = NoRequest]
<1>3. /\ s \in Servers /\ ~s.held /\ ~s.download /\ ~s.directory /\ ~s.upload
      /\ s.op = "Headers" /\ s.client = w.s.client
  BY <1>1, <1>2, NothingIsAsked DEF Servers
<1>4. Cleanup(w) = [released EXCEPT !.s = s]
  BY DEF Cleanup, released
<1> HIDE DEF s
<1>5. QED
  BY <1>1, <1>3, <1>4 DEF GoodWorlds, Worlds, Locked

LEMMA StaticIsGood ==
  ASSUME NEW w \in GoodWorlds
  PROVE  PrepareStatic(w) \in GoodWorlds
<1> DEFINE s == [w.s EXCEPT !.header = TRUE, !.body = TRUE, !.op = "Static"]
<1>1. w \in Worlds /\ w.s \in Servers
  BY DEF GoodWorlds, Worlds
<1>2. PrepareStatic(w) = [w EXCEPT !.s = s]
  BY <1>1 DEF PrepareStatic, Worlds, Servers
<1>3. /\ s \in Servers /\ s.op = "Static" /\ s.held = w.s.held /\ s.upload = w.s.upload
      /\ s.directory = w.s.directory /\ s.download = w.s.download
  BY <1>1 DEF Servers
<1> HIDE DEF s
<1>4. QED
  BY <1>1, <1>2, <1>3 DEF GoodWorlds, Worlds, Locked

LEMMA ErrorIsGood ==
  ASSUME NEW w \in Worlds, w.s.held <=> w.lock = "http"
  PROVE  PrepareError(w) \in GoodWorlds
  BY CleanupIsGood, StaticIsGood DEF PrepareError

(* An upload that is committed is the only thing open.                     *)
LEMMA CommitIsGood ==
  ASSUME NEW w \in GoodWorlds, w.s.op = "Upload", NEW sdOk \in BOOLEAN
  PROVE  CommitUpload(w, sdOk) \in GoodWorlds
<1> DEFINE done == [w EXCEPT !.root = IF w.s.mixed THEN "mixed" ELSE "whole", !.s.upload = FALSE]
           s == [w.s EXCEPT !.upload = FALSE]
<1>1. w \in Worlds /\ w.s \in Servers /\ Locked(w)
  BY DEF GoodWorlds, Worlds
<1>2. /\ s \in Servers /\ s.held = w.s.held /\ ~s.upload
      /\ ~s.directory /\ ~s.download /\ s.op = "Upload"
  BY <1>1 DEF Servers, Locked
<1>3. done.s = s /\ done.lock = w.lock /\ done \in Worlds
  BY <1>1, <1>2 DEF Worlds
<1> HIDE DEF done, s
<1>4. PrepareError(w) \in GoodWorlds
  BY <1>1, ErrorIsGood DEF Locked
<1> DEFINE released == ReleaseStorage(done)
           t == [done.s EXCEPT !.held = FALSE]
<1>5. released \in Worlds /\ released.lock # "http" /\ released.s = t
  BY <1>1, <1>2, <1>3, ReleaseIsTyped DEF Locked
<1>6. ~t.held /\ ~t.upload /\ ~t.directory /\ ~t.download /\ t.op = "Upload"
  BY <1>2, <1>3 DEF Servers
<1> HIDE DEF released, t
<1> DEFINE u == [released.s EXCEPT !.header = TRUE, !.body = TRUE, !.op = "Static"]
<1>7. u \in Servers /\ ~u.held /\ ~u.upload /\ ~u.directory /\ ~u.download /\ u.op = "Static"
  BY <1>5, <1>6 DEF Servers, Worlds
<1>8. PrepareStatic(released) = [released EXCEPT !.s = u]
  BY <1>5 DEF PrepareStatic, Worlds, Servers
<1> HIDE DEF u
<1>9. PrepareStatic(released) \in GoodWorlds
  BY <1>5, <1>7, <1>8 DEF GoodWorlds, Worlds, Locked
<1>10. QED
  BY <1>4, <1>9 DEF CommitUpload, released, done

(* What take_storage gives is the lock with nothing open yet, or a refusal.*)
LEMMA TakenIsGood ==
  ASSUME NEW w \in GoodWorlds, NEW sdOk \in BOOLEAN
  PROVE  IF TakeStorage(w, sdOk).s.held
         THEN /\ ~w.s.held
              /\ TakeStorage(w, sdOk) = [w EXCEPT !.lock = "http", !.s = [w.s EXCEPT !.held = TRUE]]
         ELSE TakeStorage(w, sdOk) \in GoodWorlds
<1>1. w \in Worlds /\ w.s \in Servers /\ Locked(w)
  BY DEF GoodWorlds, Worlds
<1>2. PrepareError(w) \in GoodWorlds /\ ~PrepareError(w).s.held
  <2>1. Cleanup(w) \in Worlds /\ ~Cleanup(w).s.held
    BY <1>1, CleanupIsGood DEF Locked, GoodWorlds
  <2>2. ~PrepareStatic(Cleanup(w)).s.held
    BY <2>1 DEF PrepareStatic, Worlds, Servers
  <2>3. QED
    BY <1>1, <2>2, ErrorIsGood DEF Locked, PrepareError
<1>3. CASE sdOk /\ w.lock = "free"
  BY <1>1, <1>3 DEF TakeStorage, Worlds, Servers, Locked
<1>4. CASE ~(sdOk /\ w.lock = "free")
  BY <1>2, <1>4 DEF TakeStorage
<1>5. QED
  BY <1>3, <1>4

(* A request that begins opens one file under the lock, or gives it back.  *)
LEMMA BeginIsGood ==
  ASSUME NEW w \in GoodWorlds, w.s.op = "Headers", NEW sdOk \in BOOLEAN
  PROVE  Begin(w, sdOk) \in GoodWorlds
<1> DEFINE req == w.s.request
           taken == TakeStorage(w, sdOk)
<1>1. w \in Worlds /\ w.s \in Servers /\ Locked(w) /\ req.kind \in Kinds
  BY DEF GoodWorlds, Worlds, Servers, Asked
<1>2. CASE req.kind = "answered"
  BY <1>1, <1>2, ErrorIsGood DEF Begin, Locked
<1>3. CASE req.kind # "answered" /\ ~taken.s.held
  <2>1. taken \in GoodWorlds
    BY <1>3, TakenIsGood
  <2>2. Begin(w, sdOk) = taken
    BY <1>3 DEF Begin
  <2>3. QED
    BY <2>1, <2>2
<1>4. CASE req.kind # "answered" /\ taken.s.held
  <2> DEFINE s == [w.s EXCEPT !.held = TRUE]
  <2>1. ~w.s.held /\ taken = [w EXCEPT !.lock = "http", !.s = s]
    BY <1>4, TakenIsGood
  <2> HIDE DEF taken
  <2>2. /\ taken \in Worlds /\ taken.lock = "http" /\ taken.s = s /\ taken.root = w.root
        /\ s \in Servers
        /\ s.held /\ ~s.upload /\ ~s.directory /\ ~s.download /\ s.op = "Headers"
    <3>1. /\ s \in Servers
          /\ s.held /\ ~s.upload /\ ~s.directory /\ ~s.download /\ s.op = "Headers"
      BY <1>1, <2>1 DEF Servers, Locked
    <3> HIDE DEF s
    <3>2. QED
      BY <1>1, <2>1, <3>1 DEF Worlds
  <2> HIDE DEF s
  <2>3. PrepareError(taken) \in GoodWorlds
    BY <2>2, ErrorIsGood
  <2>4. CASE req.kind = "list"
    <3> DEFINE t == [s EXCEPT !.directory = TRUE, !.op = "List", !.left = 2, !.header = TRUE]
    <3>1. t \in Servers /\ t.held /\ ~t.upload /\ t.directory /\ ~t.download /\ t.op = "List"
      BY <2>2 DEF Servers
    <3>2. [taken EXCEPT !.s.directory = TRUE, !.s.op = "List", !.s.left = 2, !.s.header = TRUE]
            = [taken EXCEPT !.s = t]
      BY <2>2 DEF Worlds, Servers
    <3> HIDE DEF t
    <3>3. [taken EXCEPT !.s = t] \in GoodWorlds
      BY <2>2, <3>1 DEF GoodWorlds, Worlds, Locked
    <3>4. QED
      BY <1>4, <2>1, <2>4, <3>2, <3>3 DEF Begin, taken
  <2>5. CASE req.kind = "put"
    <3> DEFINE t == [s EXCEPT !.upload = TRUE, !.op = "Upload"]
               opened == [taken EXCEPT !.s.upload = TRUE, !.s.op = "Upload"]
    <3>1. t \in Servers /\ t.held /\ t.upload /\ ~t.directory /\ ~t.download /\ t.op = "Upload"
      BY <2>2 DEF Servers
    <3>2. opened = [taken EXCEPT !.s = t]
      BY <2>2 DEF Worlds, Servers
    <3> HIDE DEF t
    <3>3. opened \in GoodWorlds /\ opened.s.op = "Upload"
      BY <2>2, <3>1, <3>2 DEF GoodWorlds, Worlds, Locked
    <3> HIDE DEF opened
    <3>4. CommitUpload(opened, sdOk) \in GoodWorlds
      BY <3>3, CommitIsGood
    <3>5. Begin(w, sdOk) \in {CommitUpload(opened, sdOk), opened}
      BY <1>4, <2>1, <2>5 DEF Begin, taken, opened
    <3>6. QED
      BY <3>3, <3>4, <3>5
  <2>6. CASE req.kind = "delete"
    <3> DEFINE deleted == [taken EXCEPT !.root = "gone"]
               t == [s EXCEPT !.held = FALSE]
    <3>1. deleted \in Worlds /\ deleted.s = s /\ deleted.lock = "http"
      BY <2>2 DEF Worlds
    <3>2. ~t.held /\ ~t.upload /\ ~t.directory /\ ~t.download /\ t.op = "Headers"
      BY <2>2 DEF Servers
    <3> HIDE DEF deleted
    <3>3. /\ ReleaseStorage(deleted) \in Worlds /\ ReleaseStorage(deleted).lock # "http"
          /\ ReleaseStorage(deleted).s = t
      BY <2>2, <3>1, ReleaseIsTyped
    <3>4. ReleaseStorage(deleted) \in GoodWorlds
      BY <3>2, <3>3 DEF GoodWorlds, Locked
    <3>5. PrepareStatic(ReleaseStorage(deleted)) \in GoodWorlds
      BY <3>4, StaticIsGood
    <3>6. Begin(w, sdOk) \in {PrepareError(taken), PrepareStatic(ReleaseStorage(deleted))}
      BY <1>4, <2>1, <2>6 DEF Begin, taken, deleted
    <3>7. QED
      BY <2>3, <3>5, <3>6
  <2>7. CASE req.kind = "get"
    <3> DEFINE t == [s EXCEPT !.download = TRUE, !.op = "Download", !.left = 1, !.header = TRUE]
               opened == [taken EXCEPT !.s.download = TRUE, !.s.op = "Download", !.s.left = 1,
                                       !.s.header = TRUE]
    <3>1. t \in Servers /\ t.held /\ ~t.upload /\ ~t.directory /\ t.download /\ t.op = "Download"
      BY <2>2 DEF Servers
    <3>2. opened = [taken EXCEPT !.s = t]
      BY <2>2 DEF Worlds, Servers
    <3> HIDE DEF t
    <3>3. opened \in GoodWorlds
      BY <2>2, <3>1, <3>2 DEF GoodWorlds, Worlds, Locked
    <3>4. Begin(w, sdOk) \in {PrepareError(taken), opened}
      BY <1>4, <2>1, <2>7 DEF Begin, taken
    <3>5. QED
      BY <2>3, <3>3, <3>4
  <2>8. QED
    BY <1>1, <1>4, <2>4, <2>5, <2>6, <2>7 DEF Kinds
<1>5. QED
  BY <1>2, <1>3, <1>4

(* One piece of what came in.                                              *)
LEMMA ConsumedIsGood ==
  ASSUME NEW w \in GoodWorlds, NEW unit \in Units, NEW sdOk \in BOOLEAN
  PROVE  Consumed(w, unit, sdOk) \in GoodWorlds
<1>1. w \in Worlds /\ w.s \in Servers /\ Locked(w) /\ unit.request \in Asked
      /\ unit.what \in {"head", "body"}
  BY DEF GoodWorlds, Worlds, Units
<1>2. CASE w.s.op = "Headers" /\ unit.what = "head"
  <2> DEFINE r == [unit.request EXCEPT !.kind = IF w.s.begun THEN "answered" ELSE @]
             s == [w.s EXCEPT !.request = r]
  <2>1. r \in Asked
    BY <1>1 DEF Asked, Kinds
  <2> HIDE DEF r
  <2>2. /\ s \in Servers /\ s.op = "Headers" /\ s.held = w.s.held /\ s.upload = w.s.upload
        /\ s.directory = w.s.directory /\ s.download = w.s.download
    BY <1>1, <1>2, <2>1 DEF Servers
  <2> HIDE DEF s
  <2>3. [w EXCEPT !.s = s] \in GoodWorlds /\ [w EXCEPT !.s = s].s.op = "Headers"
    BY <1>1, <2>2 DEF GoodWorlds, Worlds, Locked
  <2>4. Consumed(w, unit, sdOk) = Begin([w EXCEPT !.s = s], sdOk)
    BY <1>2 DEF Consumed, r, s
  <2>5. QED
    BY <2>3, <2>4, BeginIsGood
<1>3. CASE w.s.op = "Headers" /\ unit.what = "body"
  <2> DEFINE s == [w.s EXCEPT !.begun = TRUE]
  <2>1. /\ s \in Servers /\ s.op = "Headers" /\ s.held = w.s.held /\ s.upload = w.s.upload
        /\ s.directory = w.s.directory /\ s.download = w.s.download
    BY <1>1, <1>3 DEF Servers
  <2> HIDE DEF s
  <2>2. [w EXCEPT !.s = s] \in GoodWorlds
    BY <1>1, <2>1 DEF GoodWorlds, Worlds, Locked
  <2>3. Consumed(w, unit, sdOk) = [w EXCEPT !.s = s]
    BY <1>3 DEF Consumed, s
  <2>4. QED
    BY <2>2, <2>3
<1>4. CASE w.s.op = "Upload"
  <2> DEFINE mixed == w.s.mixed \/ unit.what = "head" \/ unit.request.from # w.s.request.from
             s == [w.s EXCEPT !.received = @ + 1, !.mixed = mixed]
             more == [w EXCEPT !.s.received = @ + 1, !.s.mixed = @
                        \/ unit.what = "head" \/ unit.request.from # w.s.request.from]
  <2>1. mixed \in BOOLEAN
    OBVIOUS
  <2>2. more = [w EXCEPT !.s = s]
    BY <1>1 DEF Worlds, Servers
  <2>3. w.s.received + 1 \in Nat
    BY <1>1 DEF Servers
  <2> HIDE DEF mixed, more
  <2>4. /\ s \in Servers /\ s.op = "Upload" /\ s.held = w.s.held /\ s.upload = w.s.upload
        /\ s.directory = w.s.directory /\ s.download = w.s.download
    BY <1>1, <1>4, <2>1, <2>3 DEF Servers
  <2> HIDE DEF s
  <2>5. more \in GoodWorlds /\ more.s.op = "Upload"
    BY <1>1, <1>4, <2>2, <2>4 DEF GoodWorlds, Worlds, Locked
  <2>6. CommitUpload(more, sdOk) \in GoodWorlds /\ PrepareError(w) \in GoodWorlds
    BY <1>1, <2>5, CommitIsGood, ErrorIsGood DEF Locked
  <2>7. Consumed(w, unit, sdOk) \in {PrepareError(w), CommitUpload(more, sdOk), more}
    BY <1>4 DEF Consumed, more
  <2>8. QED
    BY <2>5, <2>6, <2>7
<1>5. CASE w.s.op \notin {"Headers", "Upload"}
  BY <1>5 DEF Consumed
<1>6. QED
  BY <1>1, <1>2, <1>3, <1>4, <1>5

(* All that came in.  ConsumedAll is a recursive function, so that it has  *)
(* to be shown first that there is one: a prefix of its values for each    *)
(* number of units.                                                        *)
LEMMA AllConsumedIsGood ==
  ASSUME NEW w \in GoodWorlds, NEW units \in Seq(Units), NEW sdOk \in BOOLEAN
  PROVE  ConsumedAll(w, units, sdOk) \in GoodWorlds
<1> DEFINE L == Len(units)
           F(f) == [n \in 0..L |-> IF n = 0 THEN w ELSE Consumed(f[n - 1], units[n], sdOk)]
           Prefix(k, g) ==
             /\ g \in [0..k -> GoodWorlds] /\ g[0] = w
             /\ \A n \in 1..k : g[n] = Consumed(g[n - 1], units[n], sdOk)
           S == {k \in 0..L : \E g : Prefix(k, g)}
<1>1. L \in Nat /\ \A n \in 1..L : units[n] \in Units
  OBVIOUS
<1>2. 0 \in S
  <2>1. Prefix(0, [n \in 0..0 |-> w])
    OBVIOUS
  <2>2. 0 \in 0..L
    BY <1>1
  <2> HIDE DEF Prefix
  <2>3. QED
    BY <2>1, <2>2
<1>3. ASSUME NEW k \in 0..(L - 1), k \in S
      PROVE  k + 1 \in S
  <2>1. PICK g : Prefix(k, g)
    BY <1>3
  <2> DEFINE h == [n \in 0..(k + 1) |-> IF n <= k THEN g[n]
                                        ELSE Consumed(g[k], units[k + 1], sdOk)]
  <2>2. g[k] \in GoodWorlds /\ units[k + 1] \in Units
    BY <1>1, <2>1
  <2>3. Consumed(g[k], units[k + 1], sdOk) \in GoodWorlds
    BY <2>2, ConsumedIsGood
  <2>4. h \in [0..(k + 1) -> GoodWorlds]
    BY <2>1, <2>3
  <2>5. h[0] = w
    BY <2>1
  <2>6. ASSUME NEW n \in 1..(k + 1)
        PROVE  h[n] = Consumed(h[n - 1], units[n], sdOk)
    <3>1. CASE n = k + 1
      BY <3>1
    <3>2. CASE n # k + 1
      <4>1. n \in 1..k /\ n <= k /\ n - 1 <= k /\ n - 1 \in 0..(k + 1)
        BY <3>2
      <4>2. h[n] = g[n] /\ h[n - 1] = g[n - 1]
        BY <4>1
      <4>3. QED
        BY <2>1, <4>1, <4>2
    <3>3. QED
      BY <3>1, <3>2
  <2>7. Prefix(k + 1, h)
    BY <2>4, <2>5, <2>6
  <2>8. k + 1 \in 0..L
    BY <1>1
  <2> HIDE DEF Prefix, h
  <2>9. QED
    BY <2>7, <2>8
<1>4. 0..L \subseteq S
  <2> HIDE DEF S, L
  <2>1. QED
    BY <1>1, <1>2, <1>3, SetInduction
<1>5. PICK g : Prefix(L, g)
  <2>1. L \in S
    BY <1>1, <1>4
  <2> HIDE DEF Prefix
  <2>2. QED
    BY <2>1
<1>6. g = F(g)
  BY <1>1, <1>5
<1> DEFINE after == CHOOSE f : f = F(f)
<1>7. after = F(after)
  <2> HIDE DEF F
  <2>1. QED
    BY <1>6
<1>8. ConsumedAll(w, units, sdOk) = after[L]
  BY DEF ConsumedAll
<1> DEFINE G == {n \in 0..L : after[n] \in GoodWorlds}
<1> HIDE DEF after
<1>9. 0 \in G
  BY <1>1, <1>7
<1>10. ASSUME NEW n \in 0..(L - 1), n \in G
       PROVE  n + 1 \in G
  <2>1. n + 1 \in 0..L /\ n + 1 \in 1..L /\ (n + 1) - 1 = n /\ n + 1 # 0
    BY <1>1
  <2>2. after[n + 1] = Consumed(after[n], units[n + 1], sdOk)
    BY <1>7, <2>1
  <2>3. Consumed(after[n], units[n + 1], sdOk) \in GoodWorlds
    BY <1>1, <1>10, <2>1, ConsumedIsGood
  <2>4. QED
    BY <2>1, <2>2, <2>3
<1>11. 0..L \subseteq G
  <2> HIDE DEF G, L
  <2>1. QED
    BY <1>1, <1>9, <1>10, SetInduction
<1>12. QED
  BY <1>1, <1>8, <1>11

LEMMA AttendedIsGood ==
  ASSUME NEW w \in GoodWorlds, NEW sdOk \in BOOLEAN
  PROVE  Attended(w, sdOk) \in GoodWorlds
<1> DEFINE taken == [w EXCEPT !.s.incoming = <<>>, !.s.connError = FALSE]
           s == [w.s EXCEPT !.incoming = <<>>, !.connError = FALSE]
           read == IF w.s.connError THEN Cleanup(taken)
                   ELSE ConsumedAll(taken, w.s.incoming, sdOk)
           timed == IF GivesUp(read.s) THEN PrepareError(read) ELSE read
<1>1. w \in Worlds /\ w.s \in Servers /\ Locked(w) /\ w.s.incoming \in Seq(Units)
  BY DEF GoodWorlds, Worlds, Servers
<1>2. ASSUME NEW v \in GoodWorlds
      PROVE  PrepareError(v) \in GoodWorlds /\ Cleanup(v) \in GoodWorlds
  BY ErrorIsGood, CleanupIsGood DEF GoodWorlds, Locked
<1>3. taken \in GoodWorlds
  <2>1. /\ s \in Servers /\ s.op = w.s.op /\ s.held = w.s.held /\ s.upload = w.s.upload
        /\ s.directory = w.s.directory /\ s.download = w.s.download
    <3>1. <<>> \in Seq(Units)
      OBVIOUS
    <3>2. QED
      BY <1>1, <3>1 DEF Servers
  <2>2. taken = [w EXCEPT !.s = s]
    BY <1>1 DEF Worlds, Servers
  <2> HIDE DEF s, taken
  <2>3. QED
    BY <1>1, <2>1, <2>2 DEF GoodWorlds, Worlds, Locked
<1> HIDE DEF taken
<1>4. read \in GoodWorlds
  BY <1>1, <1>2, <1>3, AllConsumedIsGood
<1> HIDE DEF read
<1>5. timed \in GoodWorlds
  BY <1>2, <1>4
<1> HIDE DEF timed
<1>6. PrepareError(timed) \in GoodWorlds
  BY <1>2, <1>5
<1>7. Attended(w, sdOk) \in {PrepareError(timed), timed}
  BY DEF Attended, timed, read, taken
<1>8. QED
  BY <1>5, <1>6, <1>7

LEMMA CloseIsGood ==
  ASSUME NEW w \in GoodWorlds
  PROVE  CloseClient(w) \in GoodWorlds
<1> DEFINE v == Cleanup(w)
           s == [v.s EXCEPT !.client = NoPeer]
<1>1. v \in GoodWorlds
  BY CleanupIsGood DEF GoodWorlds, Locked
<1> HIDE DEF v
<1>2. /\ s \in Servers /\ s.op = v.s.op /\ s.held = v.s.held /\ s.upload = v.s.upload
      /\ s.directory = v.s.directory /\ s.download = v.s.download
  BY <1>1 DEF Servers, GoodWorlds, Worlds
<1>3. CloseClient(w) = [v EXCEPT !.s = s]
  BY DEF CloseClient, v
<1> HIDE DEF s
<1>4. QED
  BY <1>1, <1>2, <1>3 DEF GoodWorlds, Worlds, Locked

(* What an operation is at is the only thing open, until its last piece.   *)
LEMMA DrivenIsGood ==
  ASSUME NEW w \in GoodWorlds, NEW room \in 0..2, NEW sdOk \in BOOLEAN
  PROVE  Driven(w, room, sdOk) \in GoodWorlds
<1> DEFINE flushed == [w EXCEPT !.s.header = FALSE, !.s.io = FALSE]
           f == [w.s EXCEPT !.header = FALSE, !.io = FALSE]
<1>1. w \in Worlds /\ w.s \in Servers /\ Locked(w)
  BY DEF GoodWorlds, Worlds, Servers
<1>2. /\ f \in Servers /\ f.op = w.s.op /\ f.held = w.s.held /\ f.upload = w.s.upload
      /\ f.directory = w.s.directory /\ f.download = w.s.download /\ f.left = w.s.left
  BY <1>1 DEF Servers
<1>3. flushed = [w EXCEPT !.s = f]
  BY <1>1 DEF Worlds, Servers
<1> HIDE DEF f, flushed
<1>4. flushed \in GoodWorlds /\ flushed \in Worlds /\ flushed.s = f /\ flushed.lock = w.lock
  BY <1>1, <1>2, <1>3 DEF GoodWorlds, Worlds, Locked
<1>5. CloseClient(flushed) \in GoodWorlds /\ PrepareError(flushed) \in GoodWorlds
  BY <1>4, CloseIsGood, ErrorIsGood DEF GoodWorlds, Locked
<1>6. CASE w.s.client = NoPeer \/ Waiting(w.s) \/ room = 0
  BY <1>6 DEF Driven
<1>7. CASE ~(w.s.client = NoPeer \/ Waiting(w.s)) /\ room = 1 /\ (w.s.header \/ w.s.io)
  <2> DEFINE s == [w.s EXCEPT !.header = FALSE, !.io = @ /\ w.s.header]
             sent == [w EXCEPT !.s.header = FALSE, !.s.io = @ /\ w.s.header]
  <2>1. /\ s \in Servers /\ s.op = w.s.op /\ s.held = w.s.held /\ s.upload = w.s.upload
        /\ s.directory = w.s.directory /\ s.download = w.s.download
    BY <1>1 DEF Servers
  <2>2. sent = [w EXCEPT !.s = s]
    BY <1>1 DEF Worlds, Servers
  <2> HIDE DEF s, sent
  <2>3. sent \in GoodWorlds
    BY <1>1, <2>1, <2>2 DEF GoodWorlds, Worlds, Locked
  <2>4. QED
    BY <1>7, <2>3 DEF Driven, sent
<1>8. CASE ~(w.s.client = NoPeer \/ Waiting(w.s) \/ room = 0)
           /\ ~(room = 1 /\ (w.s.header \/ w.s.io))
  <2>1. w.s.op \in {"Static", "List", "Download"} /\ w.s.left \in Nat
    BY <1>1, <1>8 DEF Waiting, Servers
  <2>2. CASE w.s.op = "Static"
    BY <1>5, <1>8, <2>2 DEF Driven, flushed
  <2>3. CASE w.s.op = "List" /\ w.s.left > 1
    <3> DEFINE s == [f EXCEPT !.io = TRUE, !.left = @ - 1]
               more == [flushed EXCEPT !.s.io = TRUE, !.s.left = @ - 1]
    <3>1. f.left - 1 \in Nat
      BY <1>2, <2>1, <2>3
    <3>2. /\ s \in Servers /\ s.op = w.s.op /\ s.held = w.s.held /\ s.upload = w.s.upload
          /\ s.directory = w.s.directory /\ s.download = w.s.download
      BY <1>2, <3>1 DEF Servers
    <3>3. more = [flushed EXCEPT !.s = s]
      BY <1>2, <1>4 DEF Worlds, Servers
    <3> HIDE DEF s, more
    <3>4. more \in GoodWorlds
      BY <1>1, <1>4, <3>2, <3>3 DEF GoodWorlds, Worlds, Locked
    <3>5. ~(w.s.left <= 1) /\ w.s.op # "Static" /\ w.s.op # "Download"
      BY <2>1, <2>3
    <3>6. Driven(w, room, sdOk) = more
      BY <1>8, <2>3, <3>5 DEF Driven, flushed, more
    <3>7. QED
      BY <3>4, <3>6
  <2>4. CASE w.s.op = "List" /\ w.s.left <= 1
    <3> DEFINE s == [f EXCEPT !.io = TRUE, !.directory = FALSE, !.op = "Static", !.body = FALSE]
               ended == [flushed EXCEPT !.s.io = TRUE, !.s.directory = FALSE,
                                        !.s.op = "Static", !.s.body = FALSE]
               t == [ended.s EXCEPT !.held = FALSE]
    <3>1. /\ s \in Servers /\ s.op = "Static" /\ s.held = w.s.held
          /\ ~s.upload /\ ~s.directory /\ ~s.download
      BY <1>1, <1>2, <2>4 DEF Servers, Locked
    <3>2. ended = [flushed EXCEPT !.s = s]
      BY <1>2, <1>4 DEF Worlds, Servers
    <3> HIDE DEF s, ended
    <3>3. ended \in Worlds /\ ended.s = s /\ ended.lock = w.lock
      BY <1>1, <1>4, <3>1, <3>2 DEF Worlds
    <3>4. /\ ReleaseStorage(ended) \in Worlds /\ ReleaseStorage(ended).lock # "http"
          /\ ReleaseStorage(ended).s = t
      BY <1>1, <3>1, <3>3, ReleaseIsTyped DEF Locked
    <3>5. t.op = "Static" /\ ~t.held /\ ~t.upload /\ ~t.directory /\ ~t.download
      BY <3>1, <3>3 DEF Servers
    <3>6. ReleaseStorage(ended) \in GoodWorlds
      BY <3>4, <3>5 DEF GoodWorlds, Locked
    <3>7. Driven(w, room, sdOk) = ReleaseStorage(ended)
      BY <1>8, <2>1, <2>4 DEF Driven, flushed, ended
    <3>8. QED
      BY <3>6, <3>7
  <2>5. CASE w.s.op = "Download" /\ w.s.left = 0
    BY <1>5, <1>8, <2>5 DEF Driven, flushed
  <2>6. CASE w.s.op = "Download" /\ w.s.left > 0
    <3> DEFINE s == [f EXCEPT !.left = @ - 1, !.io = TRUE]
               sent == [flushed EXCEPT !.s.left = @ - 1, !.s.io = TRUE]
    <3>1. f.left - 1 \in Nat
      BY <1>2, <2>1, <2>6
    <3>2. /\ s \in Servers /\ s.op = w.s.op /\ s.held = w.s.held /\ s.upload = w.s.upload
          /\ s.directory = w.s.directory /\ s.download = w.s.download
      BY <1>2, <3>1 DEF Servers
    <3>3. sent = [flushed EXCEPT !.s = s]
      BY <1>2, <1>4 DEF Worlds, Servers
    <3> HIDE DEF s
    <3>4. sent \in GoodWorlds
      BY <1>1, <1>4, <3>2, <3>3 DEF GoodWorlds, Worlds, Locked
    <3>5. Driven(w, room, sdOk) \in {PrepareError(flushed), sent}
      BY <1>8, <2>6 DEF Driven, flushed
    <3>6. QED
      BY <1>5, <3>4, <3>5
  <2>7. QED
    BY <2>1, <2>2, <2>3, <2>4, <2>5, <2>6
<1>9. QED
  BY <1>6, <1>7, <1>8

LEMMA StoppedIsGood ==
  ASSUME NEW w \in GoodWorlds
  PROVE  Stopped(w) \in GoodWorlds
<1> DEFINE s == [w.s EXCEPT !.client = NoPeer, !.incoming = <<>>, !.running = FALSE]
           v == [w EXCEPT !.s.client = NoPeer, !.s.incoming = <<>>, !.s.running = FALSE]
<1>1. w \in Worlds /\ w.s \in Servers /\ Locked(w)
  BY DEF GoodWorlds, Worlds, Servers
<1>2. s \in Servers /\ s.held = w.s.held
  <2>1. <<>> \in Seq(Units)
    OBVIOUS
  <2>2. QED
    BY <1>1, <2>1 DEF Servers
<1>3. v = [w EXCEPT !.s = s]
  BY <1>1 DEF Worlds, Servers
<1> HIDE DEF s, v
<1>4. v \in Worlds /\ (v.s.held <=> v.lock = "http")
  BY <1>1, <1>2, <1>3 DEF Worlds, Locked
<1>5. QED
  BY <1>4, CleanupIsGood DEF Stopped, v

LEMMA ApplyIsGood ==
  ASSUME HttpInv, NEW w \in GoodWorlds, Apply(w)
  PROVE  HttpInv'
<1>1. http' = w.s /\ sdLock' = w.lock /\ root' = w.root
  BY DEF Apply
<1>2. World(http)' = w
  BY <1>1 DEF World, GoodWorlds, Worlds
<1>3. peers' \in [Peers -> PeerStates]
  <2>1. PeerGone \in PeerStates
    BY NothingIsAsked DEF PeerGone, PeerAtRest, PeerStates
  <2>2. peers' = [p \in Peers |-> IF p = http.client /\ w.s.client = NoPeer
                                  THEN PeerGone ELSE peers[p]]
    BY DEF Apply
  <2> HIDE DEF PeerStates
  <2>3. QED
    BY <2>1, <2>2 DEF HttpInv, PeerStates
<1>4. QED
  BY <1>2, <1>3 DEF HttpInv, PeerStates

(* What the callbacks change has nothing to do with the lock: not even the *)
(* operation, which Accepted takes back to the start.                      *)
LEMMA CallbackIsGood ==
  ASSUME HttpInv, NEW s \in Servers, http' = s, UNCHANGED <<sdLock, root>>,
         s.held = http.held, s.directory = http.directory, s.download = http.download,
         s.upload = http.upload, s.op \in {"Headers", http.op},
         peers' \in [Peers -> PeerStates]
  PROVE  HttpInv'
<1>1. World(http) \in Worlds /\ Locked(World(http))
  BY DEF HttpInv, GoodWorlds
<1>2. World(http)' = [s |-> s, lock |-> sdLock, root |-> root]
  BY DEF World
<1>3. [s |-> s, lock |-> sdLock, root |-> root] \in Worlds
  BY <1>1 DEF World, Worlds
<1>4. Locked([s |-> s, lock |-> sdLock, root |-> root])
  BY <1>1 DEF World, Locked
<1>5. QED
  BY <1>2, <1>3, <1>4 DEF HttpInv, GoodWorlds, PeerStates

LEMMA HttpInitGood == HttpInit => HttpInv
<1> SUFFICES ASSUME HttpInit PROVE HttpInv
  OBVIOUS
<1>1. <<>> \in Seq(Units)
  OBVIOUS
<1>2. ServerAtRest \in Servers /\ PeerAtRest \in PeerStates
  BY <1>1, NothingIsAsked DEF ServerAtRest, Servers, PeerAtRest, PeerStates
<1>3. World(http) \in Worlds
  BY <1>2 DEF HttpInit, World, Worlds
<1>4. Locked(World(http))
  BY DEF HttpInit, World, Locked, ServerAtRest
<1>5. QED
  BY <1>2, <1>3, <1>4 DEF HttpInit, HttpInv, GoodWorlds, PeerStates

LEMMA HttpStepGood == HttpInv /\ [HttpNext]_httpVars => HttpInv'
<1> SUFFICES ASSUME HttpInv, [HttpNext]_httpVars
             PROVE  HttpInv'
  OBVIOUS
<1>1. /\ World(http) \in GoodWorlds /\ World(http) \in Worlds /\ http \in Servers
      /\ peers \in [Peers -> PeerStates]
  BY DEF HttpInv, GoodWorlds, Worlds, World, PeerStates
<1>2. ASSUME ServerStart
      PROVE  HttpInv'
  <2> DEFINE v == Cleanup(World(http))
             s == [v.s EXCEPT !.running = TRUE]
  <2>1. v \in GoodWorlds
    BY <1>1, CleanupIsGood DEF GoodWorlds, Locked
  <2> HIDE DEF v
  <2>2. /\ s \in Servers /\ s.op = v.s.op /\ s.held = v.s.held /\ s.upload = v.s.upload
        /\ s.directory = v.s.directory /\ s.download = v.s.download
    BY <2>1 DEF Servers, GoodWorlds, Worlds
  <2> HIDE DEF s
  <2>3. [v EXCEPT !.s = s] \in GoodWorlds
    BY <2>1, <2>2 DEF GoodWorlds, Worlds, Locked
  <2>4. Apply([v EXCEPT !.s = s])
    BY <1>2 DEF ServerStart, v, s
  <2>5. QED
    BY <2>3, <2>4, ApplyIsGood
<1>3. ASSUME ServerStop \/ ServerOffline
      PROVE  HttpInv'
  <2>1. Apply(Stopped(World(http))) /\ Stopped(World(http)) \in GoodWorlds
    BY <1>1, <1>3, StoppedIsGood DEF ServerStop, ServerOffline, StopServer
  <2>2. QED
    BY <2>1, ApplyIsGood
<1>4. ASSUME NEW sdOk \in BOOLEAN, ServerPolls(sdOk)
      PROVE  HttpInv'
  <2>1. Apply(Attended(World(http), sdOk)) /\ Attended(World(http), sdOk) \in GoodWorlds
    BY <1>1, <1>4, AttendedIsGood DEF ServerPolls
  <2>2. QED
    BY <2>1, ApplyIsGood
<1>5. ASSUME NEW room \in 0..2, NEW sdOk \in BOOLEAN, ServerDrives(room, sdOk)
      PROVE  HttpInv'
  <2>1. Apply(Driven(World(http), room, sdOk)) /\ Driven(World(http), room, sdOk) \in GoodWorlds
    BY <1>1, <1>5, DrivenIsGood DEF ServerDrives
  <2>2. QED
    BY <2>1, ApplyIsGood
<1>6. ASSUME NEW p \in Peers, NEW request \in Requests, Accepted(p, request)
      PROVE  HttpInv'
  <2> DEFINE asking == [kind |-> request.kind, length |-> request.length, from |-> p]
  <2>1. asking \in Asked
    BY BodyAssumption DEF Requests, Asked, Kinds
  <2>2. PeerGone \in PeerStates
    BY NothingIsAsked DEF PeerGone, PeerAtRest, PeerStates
  <2>3. CASE http.client # NoPeer
    <3>1. peers' \in [Peers -> PeerStates] /\ http' = http
      BY <1>1, <1>6, <2>2, <2>3 DEF Accepted
    <3>2. QED
      BY <1>1, <1>6, <3>1, CallbackIsGood DEF Accepted
  <2>4. CASE http.client = NoPeer
    <3> DEFINE s == [http EXCEPT !.client = p, !.peerClosed = FALSE, !.connError = FALSE,
                                 !.silent = FALSE, !.op = "Headers", !.begun = FALSE]
    <3>1. /\ s \in Servers /\ s.op = "Headers" /\ s.held = http.held /\ s.upload = http.upload
          /\ s.directory = http.directory /\ s.download = http.download
      BY <1>1 DEF Servers
    <3>2. http' = s
      BY <1>6, <2>4 DEF Accepted
    <3> HIDE DEF s
    <3>3. peers' = [peers EXCEPT ![p].st = "open", ![p].request = asking]
      BY <1>6, <2>4 DEF Accepted
    <3> HIDE DEF asking
    <3>4. peers' \in [Peers -> PeerStates]
      BY <1>1, <2>1, <3>3 DEF PeerStates
    <3>5. QED
      BY <1>6, <3>1, <3>2, <3>4, CallbackIsGood DEF Accepted
  <2>5. QED
    BY <2>3, <2>4
<1>7. ASSUME NEW p \in Peers, Received(p)
      PROVE  HttpInv'
  <2> DEFINE unit == [what |-> IF peers[p].sent = 0 THEN "head" ELSE "body",
                      request |-> peers[p].request]
             s == [http EXCEPT !.silent = FALSE, !.incoming = Append(@, unit)]
  <2>1. peers[p] \in PeerStates
    BY <1>1
  <2>2. unit \in Units
    BY <2>1 DEF Units, PeerStates
  <2>3. http' = s
    BY <1>7 DEF Received
  <2> HIDE DEF unit
  <2>4. Append(http.incoming, unit) \in Seq(Units)
    BY <1>1, <2>2 DEF Servers
  <2>5. /\ s \in Servers /\ s.op = http.op /\ s.held = http.held /\ s.upload = http.upload
        /\ s.directory = http.directory /\ s.download = http.download
    BY <1>1, <2>4 DEF Servers
  <2> HIDE DEF s
  <2>6. peers' = [peers EXCEPT ![p] = [peers[p] EXCEPT !.sent = @ + 1]]
    BY <1>7 DEF Received
  <2>7. [peers[p] EXCEPT !.sent = @ + 1] \in PeerStates
    BY <2>1 DEF PeerStates
  <2>8. peers' \in [Peers -> PeerStates]
    BY <1>1, <2>6, <2>7
  <2>9. QED
    BY <1>7, <2>3, <2>5, <2>8, CallbackIsGood DEF Received
<1>8. ASSUME NEW p \in Peers, PeerCloses(p)
      PROVE  HttpInv'
  <2> DEFINE s == [http EXCEPT !.peerClosed = TRUE]
  <2>1. /\ s \in Servers /\ s.op = http.op /\ s.held = http.held /\ s.upload = http.upload
        /\ s.directory = http.directory /\ s.download = http.download
    BY <1>1 DEF Servers
  <2>2. http' = s /\ peers' = peers /\ UNCHANGED <<sdLock, root>>
    BY <1>8 DEF PeerCloses
  <2> HIDE DEF s
  <2>3. QED
    BY <1>1, <2>1, <2>2, CallbackIsGood
<1>9. ASSUME NEW p \in Peers, PeerFails(p)
      PROVE  HttpInv'
  <2> DEFINE s == [http EXCEPT !.client = NoPeer, !.connError = TRUE]
  <2>1. /\ s \in Servers /\ s.op = http.op /\ s.held = http.held /\ s.upload = http.upload
        /\ s.directory = http.directory /\ s.download = http.download
    BY <1>1 DEF Servers
  <2>2. http' = s /\ UNCHANGED <<sdLock, root>>
    BY <1>9 DEF PeerFails
  <2> HIDE DEF s
  <2>3. PeerGone \in PeerStates
    BY NothingIsAsked DEF PeerGone, PeerAtRest, PeerStates
  <2>4. peers' \in [Peers -> PeerStates]
    BY <1>1, <1>9, <2>3 DEF PeerFails
  <2>5. QED
    BY <1>1, <2>1, <2>2, <2>4, CallbackIsGood
<1>10. ASSUME FallsSilent
       PROVE  HttpInv'
  <2> DEFINE s == [http EXCEPT !.silent = TRUE]
  <2>1. /\ s \in Servers /\ s.op = http.op /\ s.held = http.held /\ s.upload = http.upload
        /\ s.directory = http.directory /\ s.download = http.download
    BY <1>1 DEF Servers
  <2>2. http' = s /\ peers' = peers /\ UNCHANGED <<sdLock, root>>
    BY <1>10 DEF FallsSilent
  <2> HIDE DEF s
  <2>3. QED
    BY <1>1, <2>1, <2>2, CallbackIsGood
<1>11. ASSUME OtherLocks \/ OtherUnlocks
       PROVE  HttpInv'
  <2>1. UNCHANGED <<http, root, peers>> /\ sdLock # "http" /\ sdLock' \in {"free", "other"}
    BY <1>11 DEF OtherLocks, OtherUnlocks
  <2>2. World(http)' = [s |-> http, lock |-> sdLock', root |-> root]
    BY <2>1 DEF World
  <2>3. [s |-> http, lock |-> sdLock', root |-> root] \in GoodWorlds
    BY <1>1, <2>1 DEF GoodWorlds, Worlds, World, Locked
  <2>4. QED
    BY <1>1, <2>1, <2>2, <2>3 DEF HttpInv, PeerStates
<1>12. ASSUME UNCHANGED httpVars
       PROVE  HttpInv'
  BY <1>12 DEF httpVars, HttpInv, World
<1>13. QED
  BY <1>2, <1>3, <1>4, <1>5, <1>6, <1>7, <1>8, <1>9, <1>10, <1>11, <1>12
     DEF HttpNext, HttpPolls, Drives

(* The lock of the card is the server's exactly while it has a directory,  *)
(* a download or an upload open (take_storage, release_storage,            *)
(* cleanup_transaction in file_server.cpp), for any clients and requests,  *)
(* whatever the callbacks do between two steps of the poll.                *)
THEOREM LockIsExact == HttpSpec => []LockFollowsFiles
<1>1. HttpInv => LockFollowsFiles
  BY DEF HttpInv, GoodWorlds, Worlds, World, Locked, LockFollowsFiles
<1>2. QED
  BY <1>1, HttpInitGood, HttpStepGood, PTL DEF HttpSpec

-----------------------------------------------------------------------------
(* The station and its radio.                                              *)

States == {"Idle", "Scanning", "DrainingScan", "Disassociating", "Associating", "WaitingForIp",
           "SyncingTime", "Succeeded", "Failed", "Cancelled"}
Names == SSIDs \cup {NoNet}
Targets == [ssid : Names, password : Passwords]
Results == {"Idle", "Failed", "Cancelled", "Associating"}
Errors == {"other", "association"}

Stations ==
  [on : BOOLEAN, state : States, kind : {"None", "Scan", "Connect", "Ntp"},
   ssid : Names, pending : Targets, after : Results, afterError : Errors, error : Errors,
   blocked : BOOLEAN, leaveFailed : BOOLEAN, generation : Nat, scanGen : Nat,
   found : SUBSET SSIDs, ntpGen : Nat, server : Nat, ntpDone : BOOLEAN, ntpOk : BOOLEAN]
Radios ==
  [link : {"down", "joining", "noip", "up", "bad"}, at : Targets, leaving : BOOLEAN,
   dhcp : BOOLEAN, scan : Nat, dns : SUBSET Nat]
Airs == [n : Stations, r : Radios]

(* A leave under way forgets the network, and only behind it can another   *)
(* join wait; a network that is named is where the radio last went; a join *)
(* is under way, and the link comes up, only while DHCP runs, and it gets  *)
(* that far only with the right password; and the server of an NTP request *)
(* is the answer to its own look-up.                                       *)
Settled(w) ==
  /\ w.n.state # "Disassociating" => w.n.pending = NoTarget
  /\ ~w.n.on => /\ w.n.ssid = NoNet /\ w.n.pending = NoTarget
                 /\ w.n.state \notin {"Associating", "WaitingForIp"}
  /\ w.n.state = "Disassociating" => w.n.ssid = NoNet
  /\ w.n.blocked => w.n.ssid = NoNet /\ w.n.state \notin {"Associating", "WaitingForIp"}
  /\ w.n.ssid # NoNet => w.r.at.ssid = w.n.ssid
  /\ w.n.state \in {"Associating", "WaitingForIp"} => w.r.dhcp /\ w.r.at.ssid = w.n.ssid
  /\ w.r.link = "up" => w.r.dhcp
  /\ w.n.state = "Disassociating" /\ w.n.pending = NoTarget => w.n.after # "Associating"
  /\ w.r.link \in {"noip", "up"} => w.r.at.password = "right"
  /\ w.n.state = "SyncingTime" => w.n.server \in {0, w.n.ntpGen}

GoodAirs == {w \in Airs : Settled(w)}

(* Neither on a network nor about to join one.                             *)
Quiet(w) ==
  /\ w.n.ssid = NoNet /\ w.n.pending = NoTarget
  /\ w.n.state \notin {"Associating", "WaitingForIp"}

(* What a menu that waits for its join to t may rely on.                   *)
Joins(w, t) ==
  /\ w.n.state \notin {"Scanning", "DrainingScan", "SyncingTime"}
  /\ w.n.state \in {"Associating", "WaitingForIp"} => w.r.at = t
  /\ w.n.pending # NoTarget => w.n.pending = t
  /\ w.n.state = "Succeeded" => t.password = "right"

(* Of no network but those the station was on or waited for, and joining   *)
(* none but those.                                                         *)
Within(v, w) ==
  /\ \/ v.n.ssid \in {NoNet, w.n.pending.ssid}
     \/ v.n.ssid = w.n.ssid /\ (v.r.dhcp => w.r.dhcp)
  /\ v.n.state \in {"Associating", "WaitingForIp"} =>
       \/ w.n.state \in {"Associating", "WaitingForIp"} /\ v.n.ssid = w.n.ssid
       \/ w.n.pending # NoTarget /\ v.n.ssid = w.n.pending.ssid
  /\ v.n.pending \in {NoTarget, w.n.pending}

LEMMA NoTargetIsTarget == NoTarget \in Targets /\ NoTarget.ssid = NoNet /\ NoTarget.password = "wrong"
  BY DEF NoTarget, Targets, Names, Passwords

LEMMA AirParts ==
  ASSUME NEW w \in Airs PROVE w.n \in Stations /\ w.r \in Radios
  BY DEF Airs

LEMMA ClearKeeps ==
  ASSUME NEW w \in Airs
  PROVE  /\ ClearStationIp(w) \in Airs /\ ClearStationIp(w).n = w.n
         /\ ClearStationIp(w).r.at = w.r.at /\ ~ClearStationIp(w).r.dhcp
         /\ ClearStationIp(w).r.link = IF w.r.link = "up" THEN "noip" ELSE w.r.link
  BY DEF ClearStationIp, Airs, Radios

LEMMA SettleFields ==
  ASSUME NEW w \in Airs, NEW c \in Choices, NEW result \in Results, NEW error \in Errors
  PROVE  LET v == BeginSettle(w, result, error, c)
         IN  /\ v \in Airs
             /\ v.n.on = w.n.on /\ v.n.ssid = NoNet /\ v.n.blocked /\ v.n.after = result
             /\ v.n.kind = w.n.kind
             /\ v.r.at = w.r.at /\ v.r.link = IF w.r.link = "up" THEN "noip" ELSE w.r.link
             /\ ~v.r.dhcp
             /\ v.n.state = IF c.leaveOk THEN "Disassociating" ELSE "Failed"
             /\ v.n.pending = IF c.leaveOk THEN w.n.pending ELSE NoTarget
<1> DEFINE x == ClearStationIp(w)
           left == [x EXCEPT !.n.after = result, !.n.afterError = error, !.n.ssid = NoNet,
                              !.n.blocked = TRUE, !.n.leaveFailed = ~c.leaveOk,
                              !.n.error = "other"]
<1>1. /\ x \in Airs /\ x.n = w.n /\ x.r.at = w.r.at /\ ~x.r.dhcp
      /\ x.r.link = IF w.r.link = "up" THEN "noip" ELSE w.r.link
  BY ClearKeeps
<1> HIDE DEF x
<1>2. /\ left \in Airs /\ left.n.after = result /\ left.n.ssid = NoNet /\ left.n.blocked
      /\ left.r = x.r /\ left.n.on = x.n.on /\ left.n.kind = x.n.kind
      /\ left.n.pending = x.n.pending
  <2> DEFINE m == [x.n EXCEPT !.after = result, !.afterError = error, !.ssid = NoNet,
                       !.blocked = TRUE, !.leaveFailed = ~c.leaveOk, !.error = "other"]
  <2>1. m \in Stations
    BY ZenonT(40), <1>1 DEF Airs, Stations, Names, Errors, Choices
  <2>2. /\ m.after = result /\ m.ssid = NoNet /\ m.blocked
        /\ m.on = x.n.on /\ m.kind = x.n.kind /\ m.pending = x.n.pending
    BY <1>1 DEF Airs, Stations
  <2>3. left = [x EXCEPT !.n = m]
    BY <1>1 DEF Airs
  <2> HIDE DEF m, left
  <2>4. QED
    BY <1>1, <2>1, <2>2, <2>3 DEF Airs
<1>3. BeginSettle(w, result, error, c) =
        IF c.leaveOk
        THEN [left EXCEPT !.n.state = "Disassociating", !.r.leaving = ~LinkDown(w)]
        ELSE [left EXCEPT !.n.state = "Failed", !.n.pending = NoTarget]
  BY DEF BeginSettle, x
<1> HIDE DEF left
<1>4. CASE c.leaveOk
  <2> DEFINE v == [left EXCEPT !.n.state = "Disassociating", !.r.leaving = ~LinkDown(w)]
  <2>1. v \in Airs
    BY <1>2 DEF Airs, Stations, Radios, States, LinkDown
  <2>2. /\ v.n = [left.n EXCEPT !.state = "Disassociating"]
        /\ v.r = [left.r EXCEPT !.leaving = ~LinkDown(w)]
    BY <1>2 DEF Airs
  <2>3. /\ v.n.state = "Disassociating" /\ v.n.on = left.n.on /\ v.n.ssid = left.n.ssid
        /\ v.n.blocked = left.n.blocked /\ v.n.after = left.n.after /\ v.n.kind = left.n.kind
        /\ v.n.pending = left.n.pending
    BY <1>2, <2>2 DEF Airs, Stations
  <2>4. v.r.at = left.r.at /\ v.r.link = left.r.link /\ v.r.dhcp = left.r.dhcp
    BY <1>2, <2>2 DEF Airs, Radios
  <2> HIDE DEF v
  <2>5. BeginSettle(w, result, error, c) = v
    BY <1>3, <1>4 DEF v
  <2>6. QED
    BY ZenonT(40), <1>1, <1>2, <1>4, <2>1, <2>3, <2>4, <2>5
<1>5. CASE ~c.leaveOk
  <2> DEFINE v == [left EXCEPT !.n.state = "Failed", !.n.pending = NoTarget]
  <2>1. v \in Airs
    BY <1>2, NoTargetIsTarget DEF Airs, Stations, States
  <2>2. /\ v.n = [left.n EXCEPT !.state = "Failed", !.pending = NoTarget]
        /\ v.r = left.r
    BY <1>2 DEF Airs, Stations
  <2>3. /\ v.n.state = "Failed" /\ v.n.on = left.n.on /\ v.n.ssid = left.n.ssid
        /\ v.n.blocked = left.n.blocked /\ v.n.after = left.n.after /\ v.n.kind = left.n.kind
        /\ v.n.pending = NoTarget
    BY <1>2, <2>2 DEF Airs, Stations
  <2> HIDE DEF v
  <2>5. BeginSettle(w, result, error, c) = v
    BY <1>3, <1>5 DEF v
  <2>6. QED
    BY ZenonT(40), <1>1, <1>2, <1>5, <2>1, <2>2, <2>3, <2>5
<1>6. QED
  BY <1>4, <1>5

(* Leaving for whatever follows is sound, if what waits is waited for.     *)
LEMMA SettleIsGood ==
  ASSUME NEW w \in Airs, NEW c \in Choices, NEW result \in Results, NEW error \in Errors,
         w.n.on \/ w.n.pending = NoTarget,
         w.n.pending = NoTarget => result # "Associating",
         w.r.link \in {"noip", "up"} => w.r.at.password = "right"
  PROVE  /\ BeginSettle(w, result, error, c) \in GoodAirs
         /\ BeginSettle(w, result, error, c).n.on = w.n.on
         /\ BeginSettle(w, result, error, c).n.ssid = NoNet
         /\ BeginSettle(w, result, error, c).n.pending \in {NoTarget, w.n.pending}
         /\ BeginSettle(w, result, error, c).n.state
              = IF c.leaveOk THEN "Disassociating" ELSE "Failed"
         /\ BeginSettle(w, result, error, c).n.pending = w.n.pending \/ ~c.leaveOk
<1>1. PICK v : v = BeginSettle(w, result, error, c)
  OBVIOUS
<1>2. /\ v \in Airs
      /\ v.n.on = w.n.on /\ v.n.ssid = NoNet /\ v.n.blocked /\ v.n.after = result
      /\ v.r.at = w.r.at /\ v.r.link = IF w.r.link = "up" THEN "noip" ELSE w.r.link
      /\ ~v.r.dhcp
      /\ v.n.state = IF c.leaveOk THEN "Disassociating" ELSE "Failed"
      /\ v.n.pending = IF c.leaveOk THEN w.n.pending ELSE NoTarget
  BY <1>1, SettleFields
<1>3. Settled(v)
  BY <1>2 DEF Settled
<1>4. QED
  BY <1>1, <1>2, <1>3 DEF GoodAirs

(* A join names its target and sends the radio there; one that is refused  *)
(* is left at once; and one without DHCP changes the lease and no more.    *)
LEMMA JoinFields ==
  ASSUME NEW w \in Airs, NEW target \in Targets, NEW c \in Choices
  PROVE  LET v == Join(w, target, c)
         IN  /\ v \in Airs /\ v.n.on = w.n.on
             /\ c.start = "ok" =>
                  /\ v.n.ssid = target.ssid /\ v.n.state = "Associating"
                  /\ v.n.pending = w.n.pending /\ v.n.blocked = w.n.blocked
                  /\ v.r.link = "joining" /\ v.r.at = target /\ v.r.dhcp
             /\ c.start = "refused" =>
                  /\ v.n.ssid = NoNet /\ v.n.state \in {"Disassociating", "Failed"}
                  /\ v.n.pending \in {w.n.pending, NoTarget}
                  /\ v.n.state = "Failed" => v.n.pending = NoTarget
                  /\ v.n.after = "Failed" /\ v.r.at = w.r.at /\ ~v.r.dhcp
                  /\ v.r.link = IF w.r.link = "up" THEN "noip" ELSE w.r.link
             /\ c.start = "noDhcp" =>
                  /\ v.n.ssid = w.n.ssid /\ v.n.state = "Failed"
                  /\ v.n.pending = w.n.pending /\ v.n.blocked = w.n.blocked
                  /\ v.r.at = w.r.at /\ ~v.r.dhcp
                  /\ v.r.link = IF w.r.link = "up" THEN "noip" ELSE w.r.link
<1> DEFINE x == ClearStationIp(w)
<1>1. /\ x \in Airs /\ x.n = w.n /\ x.r.at = w.r.at /\ ~x.r.dhcp
      /\ x.r.link = IF w.r.link = "up" THEN "noip" ELSE w.r.link
  BY ClearKeeps
<1>2. CASE c.start = "ok"
  <2> DEFINE m == [x.n EXCEPT !.ssid = target.ssid, !.state = "Associating", !.error = "other"]
             q == [x.r EXCEPT !.dhcp = TRUE, !.link = "joining", !.at = target]
  <2>1. Join(w, target, c) = [n |-> m, r |-> q]
    BY <1>1, <1>2 DEF Join, Airs
  <2> HIDE DEF x
  <2>2. /\ m \in Stations /\ m.ssid = target.ssid /\ m.state = "Associating"
        /\ m.pending = x.n.pending /\ m.blocked = x.n.blocked /\ m.on = x.n.on
    BY <1>1 DEF Airs, Stations, States, Errors, Targets
  <2>3. q \in Radios /\ q.link = "joining" /\ q.at = target /\ q.dhcp
    BY <1>1 DEF Airs, Radios
  <2> HIDE DEF m, q
  <2>4. QED
    BY <1>1, <1>2, <2>1, <2>2, <2>3 DEF Airs
<1>3. CASE c.start = "refused"
  <2>1. Join(w, target, c) = BeginSettle(x, "Failed", "other", c)
    BY <1>3 DEF Join
  <2> HIDE DEF x
  <2>2. "Failed" \in Results /\ "other" \in Errors
    BY DEF Results, Errors
  <2>3. PICK v : v = BeginSettle(x, "Failed", "other", c)
    OBVIOUS
  <2>4. /\ v \in Airs
        /\ v.n.on = x.n.on /\ v.n.ssid = NoNet /\ v.n.after = "Failed"
        /\ v.r.at = x.r.at /\ v.r.link = IF x.r.link = "up" THEN "noip" ELSE x.r.link
        /\ ~v.r.dhcp
        /\ v.n.state = IF c.leaveOk THEN "Disassociating" ELSE "Failed"
        /\ v.n.pending = IF c.leaveOk THEN x.n.pending ELSE NoTarget
    BY <1>1, <2>2, <2>3, SettleFields
  <2>5. QED
    BY <1>1, <1>3, <2>1, <2>3, <2>4
<1>4. CASE c.start = "noDhcp"
  <2> DEFINE m == [x.n EXCEPT !.state = "Failed", !.error = "other"]
  <2>1. Join(w, target, c) = [x EXCEPT !.n = m]
    BY <1>1, <1>4 DEF Join, Airs
  <2> HIDE DEF x
  <2>2. /\ m \in Stations /\ m.ssid = x.n.ssid /\ m.state = "Failed"
        /\ m.pending = x.n.pending /\ m.blocked = x.n.blocked /\ m.on = x.n.on
    BY <1>1 DEF Airs, Stations, States, Errors
  <2> HIDE DEF m
  <2>3. QED
    BY <1>1, <1>4, <2>1, <2>2 DEF Airs
<1>5. QED
  BY <1>2, <1>3, <1>4 DEF Choices, Starts

(* What a call leaves of the station, when it changes no more than these.  *)
LEMMA SameStation ==
  ASSUME NEW w \in GoodAirs, NEW v \in Airs,
         v.n.on = w.n.on, v.n.ssid = w.n.ssid, v.n.pending = w.n.pending,
         v.n.after = w.n.after, v.r.at = w.r.at, v.n.blocked => w.n.blocked,
         v.n.state = "Disassociating" <=> w.n.state = "Disassociating",
         v.n.state \in {"Associating", "WaitingForIp"} =>
           w.n.state \in {"Associating", "WaitingForIp"},
         v.r.link = w.r.link, v.r.dhcp = w.r.dhcp,
         v.n.state = "SyncingTime" => v.n.server \in {0, v.n.ntpGen}
  PROVE  v \in GoodAirs
  BY DEF GoodAirs, Settled

LEMMA InitIsGood ==
  ASSUME NEW w \in GoodAirs, NEW ok \in BOOLEAN, NEW c \in Choices
  PROVE  NetInit(w, ok, c) \in GoodAirs /\ Within(NetInit(w, ok, c), w)
<1>1. w \in Airs
  BY DEF GoodAirs
<1>2. CASE w.n.on \/ ~ok
  BY <1>1, <1>2 DEF NetInit, Within
<1>3. CASE ~w.n.on /\ ok
  <2> DEFINE x == ClearStationIp(w)
             m == [x.n EXCEPT !.on = TRUE, !.state = "Idle", !.kind = "None",
                              !.pending = NoTarget]
             up == [x EXCEPT !.n = m]
  <2>1. /\ x \in Airs /\ x.n = w.n /\ x.r.at = w.r.at /\ ~x.r.dhcp
        /\ x.r.link = IF w.r.link = "up" THEN "noip" ELSE w.r.link
    BY <1>1, ClearKeeps
  <2>2. NetInit(w, ok, c)
           = IF w.n.blocked /\ ~w.n.leaveFailed /\ ~LinkDown(w)
             THEN [up EXCEPT !.n.after = "Idle", !.n.state = "Disassociating"]
             ELSE IF w.n.leaveFailed \/ ~LinkDown(w) THEN BeginSettle(up, "Idle", "other", c)
             ELSE [up EXCEPT !.n.blocked = FALSE]
    BY <1>1, <1>3, <2>1 DEF NetInit, Airs, Stations
  <2> HIDE DEF x
  <2>3. /\ m \in Stations /\ m.on /\ m.state = "Idle" /\ m.pending = NoTarget
        /\ m.ssid = NoNet /\ m.blocked = w.n.blocked
    BY <1>3, <2>1, NoTargetIsTarget DEF Airs, Stations, States, GoodAirs, Settled
  <2>4. /\ up \in Airs /\ up.n = m /\ up.r = x.r
    BY <2>1, <2>3 DEF Airs
  <2> HIDE DEF m, up
  <2>5. (up.r.link \in {"noip", "up"} => up.r.at.password = "right") /\ up.r.link # "up"
    BY <2>1, <2>4 DEF GoodAirs, Settled
  <2>6. "Idle" \in Results /\ "other" \in Errors /\ "Idle" # "Associating"
    BY DEF Results, Errors
  <2>7. CASE NetInit(w, ok, c) = BeginSettle(up, "Idle", "other", c)
    BY <2>3, <2>4, <2>5, <2>6, <2>7, SettleIsGood, NoTargetIsTarget DEF Within
  <2>8. CASE NetInit(w, ok, c) = [up EXCEPT !.n.blocked = FALSE]
    <3> DEFINE k == [up.n EXCEPT !.blocked = FALSE]
    <3>1. /\ k \in Stations /\ ~k.blocked /\ k.on /\ k.state = "Idle" /\ k.pending = NoTarget
          /\ k.ssid = NoNet
      BY <2>3, <2>4 DEF Stations
    <3>2. NetInit(w, ok, c) = [up EXCEPT !.n = k]
      BY <2>4, <2>8 DEF Airs
    <3> HIDE DEF k
    <3>3. QED
      BY <2>4, <2>5, <3>1, <3>2 DEF Airs, GoodAirs, Settled, Within
  <2>9. CASE NetInit(w, ok, c)
               = [up EXCEPT !.n.after = "Idle", !.n.state = "Disassociating"]
    <3> DEFINE k == [up.n EXCEPT !.after = "Idle", !.state = "Disassociating"]
    <3>1. /\ k \in Stations /\ k.after = "Idle" /\ k.on /\ k.state = "Disassociating"
          /\ k.pending = NoTarget /\ k.ssid = NoNet
      BY <2>3, <2>4 DEF Stations, Results, States
    <3>2. NetInit(w, ok, c) = [up EXCEPT !.n = k]
      BY <2>4, <2>9 DEF Airs
    <3> HIDE DEF k
    <3>3. QED
      BY <2>4, <2>5, <3>1, <3>2 DEF Airs, GoodAirs, Settled, Within
  <2>10. QED
    BY <2>2, <2>7, <2>8, <2>9
<1>4. QED
  BY <1>2, <1>3

LEMMA CleanupKeeps ==
  ASSUME NEW w \in Airs
  PROVE  LET v == ScanForgotten(NtpCleanup(w))
         IN  /\ v \in Airs /\ v.r = w.r
             /\ v.n.on = w.n.on /\ v.n.ssid = w.n.ssid /\ v.n.pending = w.n.pending
             /\ v.n.after = w.n.after /\ v.n.blocked = w.n.blocked /\ v.n.state = w.n.state
             /\ v.n.server = 0 /\ v.n.ntpGen = 0
<1> DEFINE m == [w.n EXCEPT !.ntpGen = 0, !.server = 0, !.scanGen = 0, !.found = {}]
<1>1. ScanForgotten(NtpCleanup(w)) = [w EXCEPT !.n = m]
  BY DEF ScanForgotten, NtpCleanup, Airs
<1>2. /\ m \in Stations /\ m.on = w.n.on /\ m.ssid = w.n.ssid /\ m.pending = w.n.pending
      /\ m.after = w.n.after /\ m.blocked = w.n.blocked /\ m.state = w.n.state
      /\ m.server = 0 /\ m.ntpGen = 0
  BY DEF Airs, Stations
<1> HIDE DEF m
<1>3. QED
  BY <1>1, <1>2 DEF Airs

(* The calls that end what was asked for leave the station quiet.          *)
LEMMA CancelIsGood ==
  ASSUME NEW w \in GoodAirs, NEW c \in Choices
  PROVE  /\ Cancel(w, c) \in GoodAirs /\ Within(Cancel(w, c), w)
         /\ w.n.state \in {"Associating", "WaitingForIp", "Disassociating"} =>
              Quiet(Cancel(w, c))
<1>1. w \in Airs /\ w.n \in Stations
  BY DEF GoodAirs, Airs
<1>2. CASE w.n.state \in {"Scanning", "DrainingScan"}
  <2> DEFINE m == [w.n EXCEPT !.scanGen = 0, !.found = {}, !.state = "Cancelled"]
  <2>1. Cancel(w, c) = [w EXCEPT !.n = m]
    BY <1>1, <1>2 DEF Cancel, ScanForgotten, Airs
  <2>2. /\ m \in Stations /\ m.on = w.n.on /\ m.ssid = w.n.ssid /\ m.pending = w.n.pending
        /\ m.after = w.n.after /\ m.blocked = w.n.blocked /\ m.state = "Cancelled"
    BY <1>1 DEF Stations, States
  <2> HIDE DEF m
  <2>3. [w EXCEPT !.n = m] \in Airs /\ [w EXCEPT !.n = m].n = m /\ [w EXCEPT !.n = m].r = w.r
    BY <1>1, <2>2 DEF Airs
  <2>4. [w EXCEPT !.n = m] \in GoodAirs
    BY <1>2, <2>2, <2>3, SameStation
  <2>5. QED
    BY <1>2, <2>1, <2>2, <2>3, <2>4 DEF Within
<1>3. CASE w.n.state \in {"Associating", "WaitingForIp"}
  <2> DEFINE m == [w.n EXCEPT !.pending = NoTarget]
             x == [w EXCEPT !.n = m]
  <2>1. Cancel(w, c) = BeginSettle(x, "Cancelled", "other", c)
    BY <1>1, <1>3 DEF Cancel, Airs
  <2>2. m \in Stations /\ m.on = w.n.on /\ m.pending = NoTarget
    BY <1>1, NoTargetIsTarget DEF Stations
  <2> HIDE DEF m
  <2>3. x \in Airs /\ x.n = m /\ x.r = w.r
    BY <1>1, <2>2 DEF Airs
  <2> HIDE DEF x
  <2>4. "Cancelled" \in Results /\ "other" \in Errors
    BY DEF Results, Errors
  <2>5. x.r.link \in {"noip", "up"} => x.r.at.password = "right"
    BY <2>3 DEF GoodAirs, Settled
  <2>6. QED
    BY <2>1, <2>2, <2>3, <2>4, <2>5, SettleIsGood DEF Within, Quiet
<1>4. CASE w.n.state = "Disassociating"
  <2> DEFINE m == [w.n EXCEPT !.after = "Cancelled", !.pending = NoTarget]
  <2>1. Cancel(w, c) = [w EXCEPT !.n = m]
    BY <1>1, <1>4 DEF Cancel, Airs
  <2>2. /\ m \in Stations /\ m.on = w.n.on /\ m.ssid = w.n.ssid /\ m.pending = NoTarget
        /\ m.after = "Cancelled" /\ m.blocked = w.n.blocked /\ m.state = w.n.state
    BY <1>1, NoTargetIsTarget DEF Stations, Results
  <2> HIDE DEF m
  <2>3. QED
    BY <1>1, <1>4, <2>1, <2>2, NoTargetIsTarget DEF Airs, GoodAirs, Settled, Within, Quiet
<1>5. CASE w.n.state = "SyncingTime"
  <2> DEFINE m == [w.n EXCEPT !.ntpGen = 0, !.server = 0, !.state = "Cancelled"]
  <2>1. Cancel(w, c) = [w EXCEPT !.n = m]
    BY <1>1, <1>5 DEF Cancel, NtpCleanup, Airs
  <2>2. /\ m \in Stations /\ m.on = w.n.on /\ m.ssid = w.n.ssid /\ m.pending = w.n.pending
        /\ m.after = w.n.after /\ m.blocked = w.n.blocked /\ m.state = "Cancelled"
    BY <1>1 DEF Stations, States
  <2> HIDE DEF m
  <2>3. [w EXCEPT !.n = m] \in Airs /\ [w EXCEPT !.n = m].n = m /\ [w EXCEPT !.n = m].r = w.r
    BY <1>1, <2>2 DEF Airs
  <2>4. [w EXCEPT !.n = m] \in GoodAirs
    BY <1>5, <2>2, <2>3, SameStation
  <2>5. QED
    BY <1>5, <2>1, <2>2, <2>3, <2>4 DEF Within
<1>6. CASE w.n.state \notin {"Scanning", "DrainingScan", "Associating", "WaitingForIp",
                             "Disassociating", "SyncingTime"}
  <2>1. Cancel(w, c) = w
    BY <1>6 DEF Cancel
  <2>2. QED
    BY <1>6, <2>1 DEF Within
<1>7. QED
  BY <1>2, <1>3, <1>4, <1>5, <1>6

LEMMA ShutdownIsGood ==
  ASSUME NEW w \in GoodAirs, NEW c \in Choices
  PROVE  LET v == Shutdown(w, c)
         IN  v \in GoodAirs /\ Quiet(v) /\ ~v.n.on /\ (v.n.state = "Idle" \/ v = w)
<1>1. w \in Airs
  BY DEF GoodAirs
<1>2. CASE ~w.n.on
  BY <1>2 DEF Shutdown, GoodAirs, Settled, Quiet
<1>3. CASE w.n.on
  <2> DEFINE quiet == ScanForgotten(NtpCleanup(w))
             mustLeave == /\ w.n.state # "Disassociating" \/ w.n.leaveFailed
                          /\ ~LinkDown(w) \/ w.n.leaveFailed
             left == IF mustLeave THEN BeginSettle(quiet, "Idle", "other", c) ELSE quiet
             m == [left.n EXCEPT !.ssid = NoNet, !.pending = NoTarget, !.state = "Idle",
                                 !.kind = "None", !.on = FALSE]
  <2>1. quiet \in Airs /\ quiet.r = w.r
    BY <1>1, CleanupKeeps
  <2> HIDE DEF quiet, mustLeave
  <2>2. "Idle" \in Results /\ "other" \in Errors
    BY DEF Results, Errors
  <2>3. /\ left \in Airs
        /\ left.r.link \in {"noip", "up"} => left.r.at.password = "right"
        /\ left.r.at = w.r.at /\ (left.r.link = "up" => left.r.dhcp)
    <3>1. /\ w.r.link \in {"noip", "up"} => w.r.at.password = "right"
          /\ w.r.link = "up" => w.r.dhcp
      BY DEF GoodAirs, Settled
    <3>2. CASE mustLeave
      BY <2>1, <2>2, <3>1, <3>2, SettleFields
    <3>3. CASE ~mustLeave
      BY <2>1, <3>1, <3>3
    <3>4. QED
      BY <3>2, <3>3
  <2>4. Shutdown(w, c)
          = [left EXCEPT !.n.ssid = NoNet, !.n.pending = NoTarget, !.n.state = "Idle",
                         !.n.kind = "None", !.n.on = FALSE]
    BY <1>3 DEF Shutdown, quiet, mustLeave
  <2> HIDE DEF left
  <2>5. Shutdown(w, c) = [left EXCEPT !.n = m]
    BY <2>3, <2>4 DEF Airs
  <2>6. /\ m \in Stations /\ m.ssid = NoNet /\ m.pending = NoTarget /\ m.state = "Idle"
        /\ ~m.on
    BY ZenonT(40), <2>3, NoTargetIsTarget DEF Airs, Stations, States, Names
  <2> HIDE DEF m
  <2>7. QED
    BY <2>3, <2>5, <2>6 DEF Airs, GoodAirs, Settled, Quiet
<1>4. QED
  BY <1>2, <1>3

LEMMA DisconnectIsGood ==
  ASSUME NEW w \in GoodAirs, NEW c \in Choices
  PROVE  Disconnect(w, c) \in GoodAirs /\ Quiet(Disconnect(w, c))
<1>1. w \in Airs
  BY DEF GoodAirs
<1>2. CASE ~w.n.on
  BY <1>2 DEF Disconnect, GoodAirs, Settled, Quiet
<1>3. CASE w.n.on
  <2> DEFINE x == ScanForgotten(NtpCleanup(w))
             m == [x.n EXCEPT !.pending = NoTarget, !.kind = "None"]
             quiet == [x EXCEPT !.n = m]
  <2>1. /\ x \in Airs /\ x.r = w.r
        /\ x.n.on = w.n.on /\ x.n.ssid = w.n.ssid /\ x.n.pending = w.n.pending
        /\ x.n.after = w.n.after /\ x.n.blocked = w.n.blocked /\ x.n.state = w.n.state
        /\ x.n.server = 0
    BY <1>1, CleanupKeeps
  <2>2. Disconnect(w, c)
           = IF w.n.state = "Disassociating" THEN [quiet EXCEPT !.n.after = "Idle"]
             ELSE IF w.n.blocked THEN quiet
             ELSE IF LinkDown(w) THEN [quiet EXCEPT !.n.ssid = NoNet, !.n.state = "Idle"]
             ELSE BeginSettle(quiet, "Idle", "other", c)
    <3> DEFINE y == [x EXCEPT !.n.pending = NoTarget, !.n.kind = "None"]
    <3>1. Disconnect(w, c)
           = IF w.n.state = "Disassociating" THEN [y EXCEPT !.n.after = "Idle"]
             ELSE IF w.n.blocked THEN y
             ELSE IF LinkDown(w) THEN [y EXCEPT !.n.ssid = NoNet, !.n.state = "Idle"]
             ELSE BeginSettle(y, "Idle", "other", c)
      BY <1>3, Zenon DEF Disconnect
    <3> HIDE DEF x
    <3>2. y = quiet
      BY <2>1 DEF Airs
    <3> HIDE DEF y, quiet
    <3>3. QED
      BY <3>1, <3>2
  <2> HIDE DEF x
  <2>3. /\ m \in Stations /\ m.on = w.n.on /\ m.ssid = w.n.ssid /\ m.pending = NoTarget
        /\ m.after = w.n.after /\ m.blocked = w.n.blocked /\ m.state = w.n.state
        /\ m.server = 0
    BY <2>1, NoTargetIsTarget DEF Airs, Stations
  <2> HIDE DEF m
  <2>4. quiet \in Airs /\ quiet.n = m /\ quiet.r = w.r
    BY <2>1, <2>3 DEF Airs
  <2> HIDE DEF quiet
  <2>5. "Idle" \in Results /\ "other" \in Errors
    BY DEF Results, Errors
  <2>6. w.r.link \in {"noip", "up"} => w.r.at.password = "right"
    BY DEF GoodAirs, Settled
  <2>7. CASE w.n.state = "Disassociating"
    <3> DEFINE k == [quiet.n EXCEPT !.after = "Idle"]
    <3>1. /\ k \in Stations /\ k.on = w.n.on /\ k.ssid = w.n.ssid /\ k.pending = NoTarget
          /\ k.after = "Idle" /\ k.blocked = w.n.blocked /\ k.state = w.n.state
      BY <2>3, <2>4 DEF Stations, Results
    <3>2. Disconnect(w, c) = [quiet EXCEPT !.n = k]
      BY <2>2, <2>4, <2>7 DEF Airs
    <3> HIDE DEF k
    <3>3. QED
      BY <2>4, <2>6, <2>7, <3>1, <3>2, <1>3 DEF Airs, GoodAirs, Settled, Quiet
  <2>8. CASE w.n.state # "Disassociating" /\ w.n.blocked
    BY <2>2, <2>3, <2>4, <2>8 DEF GoodAirs, Settled, Quiet
  <2>9. CASE w.n.state # "Disassociating" /\ ~w.n.blocked /\ LinkDown(w)
    <3> DEFINE k == [quiet.n EXCEPT !.ssid = NoNet, !.state = "Idle"]
    <3>1. /\ k \in Stations /\ k.on = w.n.on /\ k.ssid = NoNet /\ k.pending = NoTarget
          /\ k.after = w.n.after /\ k.state = "Idle"
      BY <2>3, <2>4 DEF Stations, States, Names
    <3>2. Disconnect(w, c) = [quiet EXCEPT !.n = k]
      BY <2>2, <2>4, <2>9 DEF Airs
    <3> HIDE DEF k
    <3>3. QED
      BY <2>4, <2>6, <3>1, <3>2 DEF Airs, GoodAirs, Settled, Quiet
  <2>10. CASE w.n.state # "Disassociating" /\ ~w.n.blocked /\ ~LinkDown(w)
    BY <2>2, <2>3, <2>4, <2>5, <2>6, <2>10, SettleIsGood DEF Quiet
  <2>11. QED
    BY <2>7, <2>8, <2>9, <2>10
<1>4. QED
  BY <1>2, <1>3

(* The starts.                                                             *)
LEMMA ScanStartIsGood ==
  ASSUME NEW w \in GoodAirs, NEW c \in Choices
  PROVE  ScanStart(w, c) \in GoodAirs /\ Within(ScanStart(w, c), w)
<1>1. w \in Airs
  BY DEF GoodAirs
<1>2. CASE ~CanStart(w)
  BY <1>2 DEF ScanStart, Within
<1>3. CASE CanStart(w)
  <2> DEFINE g == w.n.generation + 1
             m == [w.n EXCEPT !.generation = g, !.found = {}, !.scanGen = g, !.kind = "Scan",
                              !.state = "Scanning"]
             x == [w EXCEPT !.n = m]
  <2>1. ScanStart(w, c) = ScanCycle(x, c)
    <3> DEFINE y == [NextGeneration(w) EXCEPT
                       !.n.found = {}, !.n.scanGen = NextGeneration(w).n.generation,
                       !.n.kind = "Scan", !.n.state = "Scanning"]
    <3>1. ScanStart(w, c) = ScanCycle(y, c)
      BY <1>3, Zenon DEF ScanStart
    <3>2. y = x
      BY <1>1 DEF NextGeneration, Airs, Stations
    <3> HIDE DEF x, y
    <3>3. QED
      BY <3>1, <3>2
  <2> g \in Nat
    BY <1>1 DEF Airs, Stations
  <2> HIDE DEF g
  <2>2. /\ m \in Stations /\ m.on = w.n.on /\ m.ssid = w.n.ssid /\ m.pending = w.n.pending
        /\ m.after = w.n.after /\ m.blocked = w.n.blocked /\ m.state = "Scanning"
        /\ m.scanGen \in Nat
    BY <1>1 DEF Airs, Stations, States
  <2> HIDE DEF m
  <2>3. x \in Airs /\ x.n = m /\ x.r = w.r
    BY <1>1, <2>2 DEF Airs
  <2> HIDE DEF x
  <2>4. w.n.state # "Disassociating"
    BY <1>3 DEF CanStart, Active
  <2>5. CASE c.start = "ok"
    <3> DEFINE k == [x.r EXCEPT !.scan = m.scanGen]
    <3>1. k \in Radios /\ k.at = w.r.at /\ k.link = w.r.link /\ k.dhcp = w.r.dhcp
      BY <1>1, <2>2, <2>3 DEF Airs, Radios
    <3>2. ScanCycle(x, c) = [x EXCEPT !.r = k]
      BY <2>3, <2>5 DEF ScanCycle, Airs
    <3> HIDE DEF k
    <3>3. [x EXCEPT !.r = k] \in Airs /\ [x EXCEPT !.r = k].n = m /\ [x EXCEPT !.r = k].r = k
      BY <2>3, <3>1 DEF Airs
    <3>4. [x EXCEPT !.r = k] \in GoodAirs
      BY <2>2, <2>4, <3>1, <3>3, SameStation
    <3>5. QED
      BY <2>1, <2>2, <3>1, <3>2, <3>3, <3>4 DEF Within
  <2>6. CASE c.start # "ok"
    <3> DEFINE k == [x.n EXCEPT !.scanGen = 0, !.state = "Failed"]
    <3>1. /\ k \in Stations /\ k.on = w.n.on /\ k.ssid = w.n.ssid /\ k.pending = w.n.pending
          /\ k.after = w.n.after /\ k.blocked = w.n.blocked /\ k.state = "Failed"
      BY <2>2, <2>3 DEF Stations, States
    <3>2. ScanCycle(x, c) = [x EXCEPT !.n = k]
      BY <2>3, <2>6 DEF ScanCycle, Airs
    <3> HIDE DEF k
    <3>3. [x EXCEPT !.n = k] \in Airs /\ [x EXCEPT !.n = k].n = k /\ [x EXCEPT !.n = k].r = w.r
      BY <2>3, <3>1 DEF Airs
    <3>4. [x EXCEPT !.n = k] \in GoodAirs
      BY <2>4, <3>1, <3>3, SameStation
    <3>5. QED
      BY <2>1, <3>1, <3>2, <3>3, <3>4 DEF Within
  <2>7. QED
    BY <2>5, <2>6
<1>4. QED
  BY <1>2, <1>3

(* Only a start that was one lets a menu wait for its join.                *)
LEMMA ConnectStartIsGood ==
  ASSUME NEW w \in GoodAirs, NEW target \in Targets, target # NoTarget, NEW c \in Choices
  PROVE  LET v == ConnectStart(w, target, c)
         IN  /\ v \in GoodAirs
             /\ ~CanStart(w) => v = w
             /\ CanStart(w) =>
                  /\ v.n.ssid \in {NoNet, target.ssid} \/ ~v.r.dhcp
                  /\ v.n.state \in {"Associating", "WaitingForIp"} => v.n.ssid = target.ssid
                  /\ v.n.pending \in {NoTarget, target}
             /\ ConnectStarted(w, v) => Joins(v, target)
<1>1. w \in Airs
  BY DEF GoodAirs
<1>2. CASE ~CanStart(w)
  BY <1>2 DEF ConnectStart, ConnectStarted
<1>3. CASE CanStart(w)
  <2>1. /\ w.n.on /\ ~w.n.blocked /\ w.n.state # "Disassociating" /\ w.n.pending = NoTarget
        /\ w.r.link \in {"noip", "up"} => w.r.at.password = "right"
    BY <1>3 DEF CanStart, RadioReady, GoodAirs, Settled
  <2>2. CASE LinkDown(w)
    <3> DEFINE m == [w.n EXCEPT !.kind = "Connect"]
               x == [w EXCEPT !.n = m]
    <3>1. ConnectStart(w, target, c) = Join(x, target, c)
      <4> DEFINE y == [w EXCEPT !.n.kind = "Connect"]
      <4>1. ConnectStart(w, target, c) = Join(y, target, c)
        BY <1>3, <2>2, Zenon DEF ConnectStart
      <4>2. y = x
        BY <1>1 DEF Airs
      <4> HIDE DEF x, y
      <4>3. QED
        BY <4>1, <4>2
    <3>2. /\ m \in Stations /\ m.on /\ ~m.blocked /\ m.pending = NoTarget
          /\ m.ssid = w.n.ssid
      BY <1>1, <2>1 DEF Airs, Stations
    <3> HIDE DEF m
    <3>3. x \in Airs /\ x.n = m /\ x.r = w.r
      BY <1>1, <3>2 DEF Airs
    <3> HIDE DEF x
    <3>4. PICK v : v = Join(x, target, c)
      OBVIOUS
    <3>5. /\ v \in Airs /\ v.n.on = x.n.on
          /\ c.start = "ok" =>
               /\ v.n.ssid = target.ssid /\ v.n.state = "Associating"
               /\ v.n.pending = x.n.pending /\ v.n.blocked = x.n.blocked
               /\ v.r.link = "joining" /\ v.r.at = target /\ v.r.dhcp
          /\ c.start = "refused" =>
               /\ v.n.ssid = NoNet /\ v.n.state \in {"Disassociating", "Failed"}
               /\ v.n.pending \in {x.n.pending, NoTarget}
               /\ v.n.state = "Failed" => v.n.pending = NoTarget
               /\ v.n.after = "Failed" /\ v.r.at = x.r.at /\ ~v.r.dhcp
               /\ v.r.link = IF x.r.link = "up" THEN "noip" ELSE x.r.link
          /\ c.start = "noDhcp" =>
               /\ v.n.ssid = x.n.ssid /\ v.n.state = "Failed"
               /\ v.n.pending = x.n.pending /\ v.n.blocked = x.n.blocked
               /\ v.r.at = x.r.at /\ ~v.r.dhcp
               /\ v.r.link = IF x.r.link = "up" THEN "noip" ELSE x.r.link
      BY <3>3, <3>4, JoinFields
    <3> c.start \in {"ok", "refused", "noDhcp"}
      BY DEF Choices, Starts
    <3>6. v \in GoodAirs
      <4>1. CASE c.start = "ok"
        BY <2>1, <3>2, <3>3, <3>5, <4>1 DEF GoodAirs, Settled
      <4>2. CASE c.start = "refused"
        BY <2>1, <3>2, <3>3, <3>5, <4>2 DEF GoodAirs, Settled
      <4>3. CASE c.start = "noDhcp"
        BY <2>1, <3>2, <3>3, <3>5, <4>3 DEF GoodAirs, Settled
      <4>4. QED
        BY <4>1, <4>2, <4>3
    <3>7. /\ v.n.ssid \in {NoNet, target.ssid} \/ ~v.r.dhcp
          /\ v.n.state \in {"Associating", "WaitingForIp"} => v.n.ssid = target.ssid
          /\ v.n.pending \in {NoTarget, target}
      BY <3>2, <3>3, <3>5
    <3>8. ConnectStarted(w, v) => Joins(v, target)
      BY <2>2, <3>2, <3>3, <3>5 DEF ConnectStarted, Joins
    <3>9. QED
      BY <1>3, <3>1, <3>4, <3>6, <3>7, <3>8
  <2>3. CASE ~LinkDown(w)
    <3> DEFINE m == [w.n EXCEPT !.kind = "Connect", !.pending = target]
               x == [w EXCEPT !.n = m]
    <3>1. ConnectStart(w, target, c) = BeginSettle(x, "Associating", "other", c)
      <4> DEFINE y == [w EXCEPT !.n.kind = "Connect", !.n.pending = target]
      <4>1. ConnectStart(w, target, c) = BeginSettle(y, "Associating", "other", c)
        BY <1>3, <2>3, Zenon DEF ConnectStart
      <4>2. y = x
        BY <1>1 DEF Airs
      <4> HIDE DEF x, y
      <4>3. QED
        BY <4>1, <4>2
    <3>2. m \in Stations /\ m.on /\ m.pending = target
      BY <1>1, <2>1 DEF Airs, Stations
    <3> HIDE DEF m
    <3>3. x \in Airs /\ x.n = m /\ x.r = w.r
      BY <1>1, <3>2 DEF Airs
    <3> HIDE DEF x
    <3>4. "Associating" \in Results /\ "other" \in Errors
      BY DEF Results, Errors
    <3>5. PICK v : v = BeginSettle(x, "Associating", "other", c)
      OBVIOUS
    <3>6. /\ v \in GoodAirs /\ v.n.ssid = NoNet
          /\ v.n.pending \in {NoTarget, target}
          /\ v.n.state = IF c.leaveOk THEN "Disassociating" ELSE "Failed"
      BY <2>1, <3>2, <3>3, <3>4, <3>5, SettleIsGood
    <3>7. Joins(v, target)
      BY <3>6 DEF Joins
    <3>8. QED
      BY <1>3, <3>1, <3>5, <3>6, <3>7
  <2>4. QED
    BY <2>2, <2>3
<1>4. QED
  BY <1>2, <1>3

LEMMA NtpStartIsGood ==
  ASSUME NEW w \in GoodAirs, NEW c \in Choices
  PROVE  NtpStart(w, c) \in GoodAirs /\ Within(NtpStart(w, c), w)
<1>1. w \in Airs
  BY DEF GoodAirs
<1>2. CASE ~CanStart(w) \/ ~Connected(w)
  BY <1>2 DEF NtpStart, Within
<1>3. CASE CanStart(w) /\ Connected(w) /\ c.start # "ok"
  <2> DEFINE m == [w.n EXCEPT !.state = "Failed", !.server = 0, !.ntpDone = FALSE]
  <2>1. NtpStart(w, c) = [w EXCEPT !.n = m]
    BY <1>1, <1>3 DEF NtpStart, Airs
  <2>2. /\ m \in Stations /\ m.on = w.n.on /\ m.ssid = w.n.ssid /\ m.pending = w.n.pending
        /\ m.after = w.n.after /\ m.blocked = w.n.blocked /\ m.state = "Failed"
    BY <1>1 DEF Airs, Stations, States
  <2> HIDE DEF m
  <2>3. [w EXCEPT !.n = m] \in Airs /\ [w EXCEPT !.n = m].n = m /\ [w EXCEPT !.n = m].r = w.r
    BY <1>1, <2>2 DEF Airs
  <2>4. w.n.state # "Disassociating"
    BY <1>3 DEF CanStart, Active
  <2>5. [w EXCEPT !.n = m] \in GoodAirs
    BY <2>2, <2>3, <2>4, SameStation
  <2>6. QED
    BY <2>1, <2>2, <2>3, <2>5 DEF Within
<1>4. CASE CanStart(w) /\ Connected(w) /\ c.start = "ok"
  <2> DEFINE g == w.n.generation + 1
             m == [w.n EXCEPT !.generation = g, !.ntpDone = FALSE, !.ntpOk = FALSE,
                              !.server = 0, !.ntpGen = g, !.kind = "Ntp",
                              !.state = "SyncingTime"]
             q == [w.r EXCEPT !.dns = w.r.dns \cup {g}]
  <2>1. NtpStart(w, c) = [n |-> m, r |-> q]
    BY <1>1, <1>4 DEF NtpStart, NextGeneration, Airs, Stations
  <2>2. g \in Nat
    BY <1>1 DEF Airs, Stations
  <2> HIDE DEF g
  <2>3. /\ m \in Stations /\ m.on = w.n.on /\ m.ssid = w.n.ssid /\ m.pending = w.n.pending
        /\ m.after = w.n.after /\ m.blocked = w.n.blocked /\ m.state = "SyncingTime"
        /\ m.server = 0
    BY <1>1, <2>2 DEF Airs, Stations, States
  <2>4. q \in Radios /\ q.at = w.r.at /\ q.link = w.r.link /\ q.dhcp = w.r.dhcp
    BY <1>1, <2>2 DEF Airs, Radios
  <2> HIDE DEF m, q
  <2>5. [n |-> m, r |-> q] \in Airs
    BY <2>3, <2>4 DEF Airs
  <2>6. w.n.state # "Disassociating"
    BY <1>4 DEF CanStart, Active
  <2>7. [n |-> m, r |-> q] \in GoodAirs
    BY <2>3, <2>4, <2>5, <2>6, SameStation
  <2>8. QED
    BY <2>1, <2>3, <2>4, <2>7 DEF Within
<1>5. QED
  BY <1>2, <1>3, <1>4

(* operation_poll, part by part: each keeps the station settled, takes it  *)
(* to no other network, and keeps a join that is waited for on its way.    *)
Goes(v, w) ==
  v \in GoodAirs /\ Within(v, w) /\ \A t \in Targets : Joins(w, t) => Joins(v, t)

LEMMA NewStation ==
  ASSUME NEW w \in GoodAirs, NEW m \in Stations,
         m.on = w.n.on, m.ssid = w.n.ssid, m.pending = w.n.pending, m.after = w.n.after,
         m.blocked => w.n.blocked,
         m.state = "Disassociating" <=> w.n.state = "Disassociating",
         m.state \in {"Associating", "WaitingForIp"} =>
           w.n.state \in {"Associating", "WaitingForIp"},
         m.state = "SyncingTime" => m.server \in {0, m.ntpGen},
         \A t \in Targets : Joins(w, t) =>
           /\ m.state \notin {"Scanning", "DrainingScan", "SyncingTime"}
           /\ m.state \in {"Associating", "WaitingForIp"} => w.r.at = t
           /\ m.state = "Succeeded" => t.password = "right"
  PROVE  Goes([w EXCEPT !.n = m], w)
<1>1. w \in Airs
  BY DEF GoodAirs
<1>2. /\ [w EXCEPT !.n = m] \in Airs /\ [w EXCEPT !.n = m].n = m
      /\ [w EXCEPT !.n = m].r = w.r
  BY <1>1 DEF Airs
<1>3. [w EXCEPT !.n = m] \in GoodAirs
  BY <1>2, SameStation
<1>4. QED
  BY <1>2, <1>3 DEF Goes, Within, Joins

LEMMA SettlingGoes ==
  ASSUME NEW w \in GoodAirs, NEW c \in Choices, w.n.on, w.n.state = "Disassociating"
  PROVE  Goes(PollSettling(w, c), w)
<1>1. w \in Airs /\ w.n \in Stations /\ w.n.ssid = NoNet
  BY DEF GoodAirs, Settled, Airs
<1>2. w.r.link \in {"noip", "up"} => w.r.at.password = "right"
  BY DEF GoodAirs, Settled
<1>3. CASE LinkDown(w) /\ w.n.pending # NoTarget
  <2> DEFINE p == w.n.pending
             k == [w.n EXCEPT !.blocked = FALSE]
             x == [w EXCEPT !.n = k]
             v == Join(x, p, c)
             m == [v.n EXCEPT !.pending = NoTarget]
  <2>1. PollSettling(w, c) = [v EXCEPT !.n.pending = NoTarget]
    <3> DEFINE y == [w EXCEPT !.n.blocked = FALSE]
    <3>1. PollSettling(w, c) = [Join(y, p, c) EXCEPT !.n.pending = NoTarget]
      BY <1>3 DEF PollSettling
    <3>2. y = x
      BY <1>1 DEF Airs
    <3> HIDE DEF x, y
    <3>3. QED
      BY <3>1, <3>2
  <2>2. p \in Targets
    BY <1>1 DEF Stations
  <2>3. /\ k \in Stations /\ k.on /\ ~k.blocked /\ k.pending = p /\ k.ssid = NoNet
    BY <1>1 DEF Stations
  <2> HIDE DEF k
  <2>4. x \in Airs /\ x.n = k /\ x.r = w.r
    BY <1>1, <2>3 DEF Airs
  <2> HIDE DEF x, p
  <2>5. /\ v \in Airs /\ v.n.on = x.n.on
        /\ c.start = "ok" =>
             /\ v.n.ssid = p.ssid /\ v.n.state = "Associating"
             /\ v.n.pending = x.n.pending /\ v.n.blocked = x.n.blocked
             /\ v.r.link = "joining" /\ v.r.at = p /\ v.r.dhcp
        /\ c.start = "refused" =>
             /\ v.n.ssid = NoNet /\ v.n.state \in {"Disassociating", "Failed"}
             /\ v.n.pending \in {x.n.pending, NoTarget}
             /\ v.n.state = "Failed" => v.n.pending = NoTarget
             /\ v.n.after = "Failed" /\ v.r.at = x.r.at /\ ~v.r.dhcp
             /\ v.r.link = IF x.r.link = "up" THEN "noip" ELSE x.r.link
        /\ c.start = "noDhcp" =>
             /\ v.n.ssid = x.n.ssid /\ v.n.state = "Failed"
             /\ v.n.pending = x.n.pending /\ v.n.blocked = x.n.blocked
             /\ v.r.at = x.r.at /\ ~v.r.dhcp
             /\ v.r.link = IF x.r.link = "up" THEN "noip" ELSE x.r.link
    BY <2>2, <2>4, JoinFields
  <2> c.start \in {"ok", "refused", "noDhcp"}
    BY DEF Choices, Starts
  <2> HIDE DEF v
  <2>6. PollSettling(w, c) = [v EXCEPT !.n = m]
    BY <2>1, <2>5 DEF Airs
  <2>7. /\ m \in Stations /\ m.pending = NoTarget /\ m.on = v.n.on /\ m.ssid = v.n.ssid
        /\ m.state = v.n.state /\ m.blocked = v.n.blocked /\ m.after = v.n.after
    BY <2>5, NoTargetIsTarget DEF Airs, Stations
  <2> HIDE DEF m
  <2>8. PICK z : z = [v EXCEPT !.n = m]
    OBVIOUS
  <2>9. z \in Airs /\ z.n = m /\ z.r = v.r
    BY <2>5, <2>7, <2>8 DEF Airs
  <2>10. z \in GoodAirs
    <3>1. z.n.on /\ z.n.pending = NoTarget
      BY <2>3, <2>4, <2>5, <2>7, <2>9
    <3>2. CASE c.start = "ok"
      <4>1. /\ z.n.ssid = z.r.at.ssid /\ ~z.n.blocked /\ z.n.state = "Associating"
            /\ z.r.link = "joining" /\ z.r.dhcp
        BY <2>3, <2>4, <2>5, <2>7, <2>9, <3>2
      <4>2. QED
        BY <2>9, <3>1, <4>1 DEF GoodAirs, Settled
    <3>3. CASE c.start = "refused"
      <4>1. /\ z.n.ssid = NoNet /\ z.n.after = "Failed"
            /\ z.n.state \in {"Disassociating", "Failed"}
            /\ z.r.link \in {"noip", "up"} => z.r.at.password = "right"
            /\ z.r.link # "up"
        BY <1>2, <2>4, <2>5, <2>7, <2>9, <3>3
      <4>2. QED
        BY <2>9, <3>1, <4>1 DEF GoodAirs, Settled
    <3>4. CASE c.start = "noDhcp"
      <4>1. /\ z.n.ssid = NoNet /\ z.n.state = "Failed" /\ ~z.n.blocked
            /\ z.r.link \in {"noip", "up"} => z.r.at.password = "right"
            /\ z.r.link # "up"
        BY <1>2, <2>3, <2>4, <2>5, <2>7, <2>9, <3>4
      <4>2. QED
        BY <2>9, <3>1, <4>1 DEF GoodAirs, Settled
    <3>5. QED
      BY <3>2, <3>3, <3>4
  <2>11. Within(z, w)
    BY <1>3, <2>3, <2>4, <2>5, <2>7, <2>9 DEF Within, p
  <2>12. ASSUME NEW t \in Targets, Joins(w, t) PROVE Joins(z, t)
    BY <1>3, <2>5, <2>7, <2>9, <2>12 DEF Joins, p
  <2>13. QED
    BY <2>6, <2>8, <2>10, <2>11, <2>12 DEF Goes
<1>4. CASE LinkDown(w) /\ w.n.pending = NoTarget
  <2> DEFINE m == [w.n EXCEPT !.blocked = FALSE, !.state = w.n.after, !.error = w.n.afterError]
             v == [w EXCEPT !.n = m]
  <2>1. PollSettling(w, c) = v
    BY <1>1, <1>4 DEF PollSettling, Airs
  <2>2. w.n.after \in {"Idle", "Failed", "Cancelled"}
    BY <1>1, <1>4 DEF GoodAirs, Settled, Stations, Results
  <2>3. /\ m \in Stations /\ m.on = w.n.on /\ m.ssid = w.n.ssid /\ m.pending = w.n.pending
        /\ m.state = w.n.after /\ ~m.blocked
    BY <1>1, <2>2 DEF Stations, States, Errors
  <2> HIDE DEF m
  <2>4. v \in Airs /\ v.n = m /\ v.r = w.r
    BY <1>1, <2>3 DEF Airs
  <2> HIDE DEF v
  <2>5. v \in GoodAirs
    BY <1>1, <1>2, <1>4, <2>2, <2>3, <2>4 DEF GoodAirs, Settled
  <2>6. QED
    BY <1>4, <2>1, <2>2, <2>3, <2>4, <2>5 DEF Goes, Within, Joins
<1>5. CASE ~LinkDown(w) /\ c.late
  <2> DEFINE m == [w.n EXCEPT !.pending = NoTarget, !.state = "Failed", !.error = "other"]
             v == [w EXCEPT !.n = m]
  <2>1. PollSettling(w, c) = v
    BY <1>1, <1>5 DEF PollSettling, Airs
  <2>2. /\ m \in Stations /\ m.on = w.n.on /\ m.ssid = w.n.ssid /\ m.pending = NoTarget
        /\ m.state = "Failed"
    BY <1>1, NoTargetIsTarget DEF Stations, States, Errors
  <2> HIDE DEF m
  <2>3. v \in Airs /\ v.n = m /\ v.r = w.r
    BY <1>1, <2>2 DEF Airs
  <2> HIDE DEF v
  <2>4. v \in GoodAirs
    BY <1>1, <1>2, <2>2, <2>3 DEF GoodAirs, Settled
  <2>5. QED
    BY <2>1, <2>2, <2>3, <2>4 DEF Goes, Within, Joins
<1>6. CASE ~LinkDown(w) /\ ~c.late
  <2>1. PollSettling(w, c) = w
    BY <1>6 DEF PollSettling
  <2>2. QED
    BY <2>1 DEF Goes, Within
<1>7. QED
  BY <1>3, <1>4, <1>5, <1>6

LEMMA ScanPollGoes ==
  ASSUME NEW w \in GoodAirs, NEW c \in Choices, w.n.state = "Scanning"
  PROVE  Goes(PollScan(w, c), w)
<1>1. w \in Airs /\ w.n \in Stations /\ \A t \in Targets : ~Joins(w, t)
  BY DEF GoodAirs, Airs, Joins
<1>2. Goes(w, w)
  BY DEF Goes, Within
<1>3. ASSUME NEW s \in {"DrainingScan", "Succeeded", "Failed"}
      PROVE  Goes([w EXCEPT !.n.scanGen = 0, !.n.state = s], w)
  <2> DEFINE m == [w.n EXCEPT !.scanGen = 0, !.state = s]
  <2>1. [w EXCEPT !.n.scanGen = 0, !.n.state = s] = [w EXCEPT !.n = m]
    BY <1>1 DEF Airs
  <2>2. /\ m \in Stations /\ m.on = w.n.on /\ m.ssid = w.n.ssid /\ m.pending = w.n.pending
        /\ m.after = w.n.after /\ m.blocked = w.n.blocked /\ m.state = s
    BY <1>1 DEF Stations, States
  <2> HIDE DEF m
  <2>3. QED
    BY <1>1, <2>1, <2>2, NewStation
<1>4. Goes([w EXCEPT !.r.scan = w.n.scanGen], w)
  <2> DEFINE q == [w.r EXCEPT !.scan = w.n.scanGen]
             v == [w EXCEPT !.r = q]
  <2>1. [w EXCEPT !.r.scan = w.n.scanGen] = v
    BY <1>1 DEF Airs
  <2>2. q \in Radios /\ q.at = w.r.at /\ q.link = w.r.link /\ q.dhcp = w.r.dhcp
    BY <1>1 DEF Airs, Radios, Stations
  <2> HIDE DEF q
  <2>3. v \in Airs /\ v.n = w.n /\ v.r = q
    BY <1>1, <2>2 DEF Airs
  <2> HIDE DEF v
  <2>4. v \in GoodAirs
    BY <2>2, <2>3, SameStation
  <2>5. QED
    BY <1>1, <2>1, <2>2, <2>3, <2>4 DEF Goes, Within
<1>5. PollScan(w, c) \in {w, [w EXCEPT !.r.scan = w.n.scanGen]}
           \cup {[w EXCEPT !.n.scanGen = 0, !.n.state = s] : s \in {"DrainingScan", "Succeeded", "Failed"}}
  BY DEF PollScan, ScanCycle
<1>6. QED
  BY <1>2, <1>3, <1>4, <1>5

LEMMA DrainingGoes ==
  ASSUME NEW w \in GoodAirs, NEW c \in Choices, w.n.state = "DrainingScan"
  PROVE  Goes(PollDraining(w, c), w)
<1>1. w \in Airs /\ w.n \in Stations /\ \A t \in Targets : ~Joins(w, t)
  BY DEF GoodAirs, Airs, Joins
<1>2. Goes(w, w)
  BY DEF Goes, Within
<1>3. ASSUME NEW s \in {"Succeeded", "Failed"}
      PROVE  Goes([w EXCEPT !.n.state = s], w)
  <2> DEFINE m == [w.n EXCEPT !.state = s]
  <2>1. [w EXCEPT !.n.state = s] = [w EXCEPT !.n = m]
    BY <1>1 DEF Airs
  <2>2. /\ m \in Stations /\ m.on = w.n.on /\ m.ssid = w.n.ssid /\ m.pending = w.n.pending
        /\ m.after = w.n.after /\ m.blocked = w.n.blocked /\ m.state = s
    BY <1>1 DEF Stations, States
  <2> HIDE DEF m
  <2>3. QED
    BY <1>1, <2>1, <2>2, NewStation
<1>4. PollDraining(w, c) \in {w} \cup {[w EXCEPT !.n.state = s] : s \in {"Succeeded", "Failed"}}
  BY DEF PollDraining
<1>5. QED
  BY <1>2, <1>3, <1>4

(* The link is up only with the right password, and where the radio went.  *)
LEMMA JoiningGoes ==
  ASSUME NEW w \in GoodAirs, NEW c \in Choices, w.n.on,
         w.n.state \in {"Associating", "WaitingForIp"}
  PROVE  Goes(PollJoining(w, c), w)
<1>1. w \in Airs /\ w.n \in Stations /\ w.n.pending = NoTarget
  BY DEF GoodAirs, Airs, Settled
<1>2. w.r.link \in {"noip", "up"} => w.r.at.password = "right"
  BY DEF GoodAirs, Settled
<1>3. Goes(w, w)
  BY DEF Goes, Within
<1>4. ASSUME NEW s \in {"Succeeded", "WaitingForIp"}, s = "Succeeded" => w.r.link = "up"
      PROVE  Goes([w EXCEPT !.n.state = s], w)
  <2> DEFINE m == [w.n EXCEPT !.state = s]
  <2>1. [w EXCEPT !.n.state = s] = [w EXCEPT !.n = m]
    BY <1>1 DEF Airs
  <2>2. /\ m \in Stations /\ m.on = w.n.on /\ m.ssid = w.n.ssid /\ m.pending = w.n.pending
        /\ m.after = w.n.after /\ m.blocked = w.n.blocked /\ m.state = s
    BY <1>1 DEF Stations, States
  <2>3. \A t \in Targets : Joins(w, t) => w.r.at = t
    BY DEF Joins
  <2> HIDE DEF m
  <2>4. QED
    BY ZenonT(40), <1>2, <1>4, <2>1, <2>2, <2>3, NewStation
<1>5. ASSUME NEW error \in Errors
      PROVE  Goes(BeginSettle(w, "Failed", error, c), w)
  <2>1. "Failed" \in Results
    BY DEF Results
  <2>2. PICK v : v = BeginSettle(w, "Failed", error, c)
    OBVIOUS
  <2>3. /\ v \in GoodAirs /\ v.n.ssid = NoNet /\ v.n.pending \in {NoTarget, w.n.pending}
        /\ v.n.state = IF c.leaveOk THEN "Disassociating" ELSE "Failed"
    BY <1>1, <1>2, <2>1, <2>2, SettleIsGood
  <2>4. QED
    BY <1>1, <2>2, <2>3 DEF Goes, Within, Joins
<1>6. \/ PollJoining(w, c) = w
      \/ w.r.link = "up" /\ PollJoining(w, c) = [w EXCEPT !.n.state = "Succeeded"]
      \/ PollJoining(w, c) = [w EXCEPT !.n.state = "WaitingForIp"]
      \/ \E error \in Errors : PollJoining(w, c) = BeginSettle(w, "Failed", error, c)
  BY DEF PollJoining, Errors
<1>7. QED
  BY <1>3, <1>4, <1>5, <1>6

LEMMA NtpGoes ==
  ASSUME NEW w \in GoodAirs, NEW c \in Choices, w.n.state = "SyncingTime"
  PROVE  Goes(PollNtp(w, c), w)
<1>1. w \in Airs /\ w.n \in Stations /\ \A t \in Targets : ~Joins(w, t)
  BY DEF GoodAirs, Airs, Joins
<1>2. CASE w.n.ntpDone \/ c.late
  <2>1. PICK s \in {"Succeeded", "Failed"} : PollNtp(w, c) = [NtpCleanup(w) EXCEPT !.n.state = s]
    BY <1>2 DEF PollNtp
  <2> DEFINE m == [w.n EXCEPT !.ntpGen = 0, !.server = 0, !.state = s]
  <2>2. PollNtp(w, c) = [w EXCEPT !.n = m]
    BY <1>1, <2>1 DEF NtpCleanup, Airs
  <2>3. /\ m \in Stations /\ m.on = w.n.on /\ m.ssid = w.n.ssid /\ m.pending = w.n.pending
        /\ m.after = w.n.after /\ m.blocked = w.n.blocked /\ m.state = s
    BY <1>1 DEF Stations, States
  <2> HIDE DEF m
  <2>4. QED
    BY <1>1, <2>2, <2>3, NewStation
<1>3. CASE ~(w.n.ntpDone \/ c.late)
  BY <1>3 DEF PollNtp, Goes, Within
<1>4. QED
  BY <1>2, <1>3

LEMMA PolledGoes ==
  ASSUME NEW w \in GoodAirs, NEW c \in Choices
  PROVE  Goes(Polled(w, c), w)
<1>1. w \in Airs /\ w.n \in Stations
  BY DEF GoodAirs, Airs
<1>2. Goes(w, w)
  BY DEF Goes, Within
<1> DEFINE b == w.n.blocked /\ ~(~w.n.leaveFailed /\ w.n.state # "Disassociating" /\ LinkDown(w))
           m == [w.n EXCEPT !.blocked = b]
           freed == [w EXCEPT !.n = m]
<1>3. /\ m \in Stations /\ m.on = w.n.on /\ m.ssid = w.n.ssid /\ m.pending = w.n.pending
      /\ m.after = w.n.after
  BY <1>1 DEF Stations
<1>4. /\ m.state = w.n.state /\ m.server = w.n.server /\ m.ntpGen = w.n.ntpGen
      /\ m.blocked => w.n.blocked
  BY <1>1 DEF Stations
<1>5. w.n.state = "SyncingTime" => w.n.server \in {0, w.n.ntpGen}
  BY DEF GoodAirs, Settled
<1> HIDE DEF b
<1>6. Goes(freed, w)
  <2>1. \A t \in Targets : Joins(w, t) =>
           /\ m.state \notin {"Scanning", "DrainingScan", "SyncingTime"}
           /\ m.state \in {"Associating", "WaitingForIp"} => w.r.at = t
           /\ m.state = "Succeeded" => t.password = "right"
    BY <1>4 DEF Joins
  <2> HIDE DEF m
  <2>2. QED
    BY <1>3, <1>4, <1>5, <2>1, NewStation
<1> DEFINE unowned == /\ ~freed.n.blocked /\ w.n.ssid = NoNet /\ ~LinkDown(w)
                      /\ ~Active(w.n)
<1>7. Polled(w, c) =
        CASE ~w.n.on -> w
          [] w.n.on /\ unowned -> BeginSettle(freed, "Idle", "other", c)
          [] w.n.on /\ ~unowned /\ w.n.state = "Disassociating" -> PollSettling(freed, c)
          [] w.n.on /\ ~unowned /\ w.n.state = "Scanning" -> PollScan(freed, c)
          [] w.n.on /\ ~unowned /\ w.n.state = "DrainingScan" -> PollDraining(freed, c)
          [] w.n.on /\ ~unowned /\ w.n.state \in {"Associating", "WaitingForIp"} ->
               PollJoining(freed, c)
          [] w.n.on /\ ~unowned /\ w.n.state = "SyncingTime" -> PollNtp(freed, c)
          [] OTHER -> freed
  <2> DEFINE y == [w EXCEPT !.n.blocked =
                    @ /\ ~(~w.n.leaveFailed /\ w.n.state # "Disassociating" /\ LinkDown(w))]
             u == /\ ~y.n.blocked /\ w.n.ssid = NoNet /\ ~LinkDown(w) /\ ~Active(w.n)
  <2>1. Polled(w, c) =
        CASE ~w.n.on -> w
          [] w.n.on /\ u -> BeginSettle(y, "Idle", "other", c)
          [] w.n.on /\ ~u /\ w.n.state = "Disassociating" -> PollSettling(y, c)
          [] w.n.on /\ ~u /\ w.n.state = "Scanning" -> PollScan(y, c)
          [] w.n.on /\ ~u /\ w.n.state = "DrainingScan" -> PollDraining(y, c)
          [] w.n.on /\ ~u /\ w.n.state \in {"Associating", "WaitingForIp"} ->
               PollJoining(y, c)
          [] w.n.on /\ ~u /\ w.n.state = "SyncingTime" -> PollNtp(y, c)
          [] OTHER -> y
    BY Zenon DEF Polled
  <2>2. y = freed
    BY <1>1 DEF Airs, b
  <2> HIDE DEF y, freed
  <2>3. QED
    BY <2>1, <2>2, Zenon
<1>8. freed \in Airs /\ freed.n = m /\ freed.r = w.r
  BY <1>1, <1>3 DEF Airs
<1>9. /\ freed \in GoodAirs /\ freed.n.on = w.n.on /\ freed.n.state = w.n.state
      /\ freed.n.pending = w.n.pending
  BY <1>3, <1>4, <1>6, <1>8 DEF Goes
<1> HIDE DEF freed, m, unowned
<1>10. ASSUME NEW v, Goes(v, freed) PROVE Goes(v, w)
  BY <1>3, <1>6, <1>8, <1>10 DEF Goes, Within
<1>11. CASE ~w.n.on
  <2>1. Polled(w, c) = w
    BY <1>7, <1>11
  <2>2. QED
    BY <1>2, <2>1
<1>12. CASE w.n.on /\ unowned
  <2>1. Polled(w, c) = BeginSettle(freed, "Idle", "other", c)
    BY <1>7, <1>12
  <2>2. /\ w.n.state \notin {"Disassociating", "Scanning", "DrainingScan", "SyncingTime"}
        /\ w.n.pending = NoTarget
    BY <1>12 DEF unowned, Active, GoodAirs, Settled
  <2>3. "Idle" \in Results /\ "other" \in Errors
    BY DEF Results, Errors
  <2>4. freed.r.link \in {"noip", "up"} => freed.r.at.password = "right"
    BY <1>9 DEF GoodAirs, Settled
  <2>5. PICK v : v = BeginSettle(freed, "Idle", "other", c)
    OBVIOUS
  <2>6. /\ v \in GoodAirs /\ v.n.ssid = NoNet /\ v.n.pending \in {NoTarget, freed.n.pending}
        /\ v.n.state = IF c.leaveOk THEN "Disassociating" ELSE "Failed"
    BY <1>8, <1>9, <1>12, <2>2, <2>3, <2>4, <2>5, SettleIsGood
  <2>7. QED
    BY <1>9, <2>1, <2>2, <2>5, <2>6 DEF Goes, Within, Joins
<1>13. CASE w.n.on /\ ~unowned /\ w.n.state = "Disassociating"
  <2>1. Polled(w, c) = PollSettling(freed, c)
    BY <1>7, <1>13
  <2>2. QED
    BY <1>9, <1>10, <1>13, <2>1, SettlingGoes
<1>14. CASE w.n.on /\ ~unowned /\ w.n.state = "Scanning"
  <2>1. Polled(w, c) = PollScan(freed, c)
    BY <1>7, <1>14
  <2>2. QED
    BY <1>9, <1>10, <1>14, <2>1, ScanPollGoes
<1>15. CASE w.n.on /\ ~unowned /\ w.n.state = "DrainingScan"
  <2>1. Polled(w, c) = PollDraining(freed, c)
    BY <1>7, <1>15
  <2>2. QED
    BY <1>9, <1>10, <1>15, <2>1, DrainingGoes
<1>16. CASE w.n.on /\ ~unowned /\ w.n.state \in {"Associating", "WaitingForIp"}
  <2>1. Polled(w, c) = PollJoining(freed, c)
    BY <1>7, <1>16
  <2>2. QED
    BY <1>9, <1>10, <1>16, <2>1, JoiningGoes
<1>17. CASE w.n.on /\ ~unowned /\ w.n.state = "SyncingTime"
  <2>1. Polled(w, c) = PollNtp(freed, c)
    BY <1>7, <1>17
  <2>2. QED
    BY <1>9, <1>10, <1>17, <2>1, NtpGoes
<1>18. CASE /\ w.n.on /\ ~unowned
            /\ w.n.state \notin {"Disassociating", "Scanning", "DrainingScan", "Associating",
                                 "WaitingForIp", "SyncingTime"}
  <2>1. Polled(w, c) = freed
    BY <1>7, <1>18
  <2>2. QED
    BY <1>6, <2>1
<1>19. QED
  BY <1>11, <1>12, <1>13, <1>14, <1>15, <1>16, <1>17, <1>18

-----------------------------------------------------------------------------
(* What the radio, the driver and lwIP do keeps all of it too.             *)
LEMMA NewRadio ==
  ASSUME NEW w \in GoodAirs, NEW q \in Radios, q.at = w.r.at, q.dhcp = w.r.dhcp,
         q.link = "up" => w.r.dhcp,
         q.link \in {"noip", "up"} => w.r.at.password = "right"
  PROVE  Goes([w EXCEPT !.r = q], w)
<1>1. w \in Airs
  BY DEF GoodAirs
<1>2. [w EXCEPT !.r = q] \in Airs /\ [w EXCEPT !.r = q].n = w.n /\ [w EXCEPT !.r = q].r = q
  BY <1>1 DEF Airs
<1>3. [w EXCEPT !.r = q] \in GoodAirs
  BY <1>2 DEF GoodAirs, Settled
<1>4. QED
  BY <1>2, <1>3 DEF Goes, Within, Joins

LEMMA LinkGoes ==
  ASSUME NEW w \in GoodAirs,
         NEW v \in LinkMoves(w) \cup LinkLeaves(w) \cup LinkDrops(w) \cup LinkRetries(w)
  PROVE  Goes(v, w)
<1>1. w \in Airs /\ w.r \in Radios
  BY DEF GoodAirs, Airs
<1>2. w.r.link \in {"noip", "up"} => w.r.at.password = "right"
  BY DEF GoodAirs, Settled
<1>3. PICK l \in {"down", "joining", "noip", "up", "bad"}, b \in BOOLEAN :
        /\ v \in {[w EXCEPT !.r.link = l], [w EXCEPT !.r.link = l, !.r.leaving = b]}
        /\ l \in {"noip", "up"} => w.r.at.password = "right"
        /\ l = "up" => w.r.dhcp
  BY <1>2 DEF LinkMoves, LinkLeaves, LinkDrops, LinkRetries
<1> DEFINE p == [w.r EXCEPT !.link = l]
           q == [w.r EXCEPT !.link = l, !.leaving = b]
<1>4. /\ [w EXCEPT !.r.link = l] = [w EXCEPT !.r = p]
      /\ [w EXCEPT !.r.link = l, !.r.leaving = b] = [w EXCEPT !.r = q]
  BY <1>1 DEF Airs
<1>5. /\ p \in Radios /\ p.at = w.r.at /\ p.link = l /\ p.dhcp = w.r.dhcp
      /\ q \in Radios /\ q.at = w.r.at /\ q.link = l /\ q.dhcp = w.r.dhcp
  BY <1>1 DEF Radios
<1> HIDE DEF p, q
<1>6. QED
  BY <1>3, <1>4, <1>5, NewRadio

LEMMA ScanHearsGoes ==
  ASSUME NEW w \in GoodAirs, NEW v \in ScanHears(w) \cup ScanEnds(w)
  PROVE  Goes(v, w)
<1>1. w \in Airs /\ w.n \in Stations /\ w.r \in Radios
  BY DEF GoodAirs, Airs
<1>2. \/ v = w
      \/ v = [w EXCEPT !.r.scan = 0]
      \/ w.n.state = "Scanning" /\ \E s \in SSIDs : v = [w EXCEPT !.n.found = w.n.found \cup {s}]
  BY <1>1 DEF ScanHears, ScanEnds, Airs, Stations
<1>3. Goes(w, w)
  BY DEF Goes, Within
<1>4. Goes([w EXCEPT !.r.scan = 0], w)
  <2> DEFINE q == [w.r EXCEPT !.scan = 0]
  <2>1. [w EXCEPT !.r.scan = 0] = [w EXCEPT !.r = q]
    BY <1>1 DEF Airs
  <2>2. q \in Radios /\ q.at = w.r.at /\ q.link = w.r.link /\ q.dhcp = w.r.dhcp
    BY <1>1 DEF Radios
  <2>3. /\ w.r.link \in {"noip", "up"} => w.r.at.password = "right"
        /\ w.r.link = "up" => w.r.dhcp
    BY DEF GoodAirs, Settled
  <2> HIDE DEF q
  <2>4. QED
    BY <2>1, <2>2, <2>3, NewRadio
<1>5. ASSUME w.n.state = "Scanning", NEW s \in SSIDs
      PROVE  Goes([w EXCEPT !.n.found = w.n.found \cup {s}], w)
  <2> DEFINE m == [w.n EXCEPT !.found = w.n.found \cup {s}]
  <2>1. [w EXCEPT !.n.found = w.n.found \cup {s}] = [w EXCEPT !.n = m]
    BY <1>1 DEF Airs
  <2>2. /\ m \in Stations /\ m.on = w.n.on /\ m.ssid = w.n.ssid /\ m.pending = w.n.pending
        /\ m.after = w.n.after /\ m.blocked = w.n.blocked /\ m.state = "Scanning"
    BY <1>1, <1>5 DEF Stations
  <2>3. \A t \in Targets : ~Joins(w, t)
    BY <1>5 DEF Joins
  <2> HIDE DEF m
  <2>4. QED
    BY <1>5, <2>1, <2>2, <2>3, NewStation
<1>6. QED
  BY <1>2, <1>3, <1>4, <1>5

(* A look-up is taken for the request under way only by its own number.    *)
LEMMA AnswersGo ==
  ASSUME NEW w \in GoodAirs, NEW v \in DnsAnswers(w) \cup NtpAnswers(w)
  PROVE  Goes(v, w)
<1>1. w \in Airs /\ w.n \in Stations /\ w.r \in Radios
  BY DEF GoodAirs, Airs
<1>2. /\ w.r.link \in {"noip", "up"} => w.r.at.password = "right"
      /\ w.r.link = "up" => w.r.dhcp
  BY DEF GoodAirs, Settled
<1>3. CASE v \in NtpAnswers(w)
  <2>1. PICK ok \in BOOLEAN : v = [w EXCEPT !.n.ntpDone = TRUE, !.n.ntpOk = ok]
    BY <1>3 DEF NtpAnswers
  <2>2. w.n.state = "SyncingTime"
    BY <1>3 DEF NtpAnswers
  <2> DEFINE m == [w.n EXCEPT !.ntpDone = TRUE, !.ntpOk = ok]
  <2>3. v = [w EXCEPT !.n = m]
    BY <1>1, <2>1 DEF Airs
  <2>4. /\ m \in Stations /\ m.on = w.n.on /\ m.ssid = w.n.ssid /\ m.pending = w.n.pending
        /\ m.after = w.n.after /\ m.blocked = w.n.blocked /\ m.state = w.n.state
        /\ m.server = w.n.server /\ m.ntpGen = w.n.ntpGen
    BY <1>1 DEF Stations
  <2>5. w.n.server \in {0, w.n.ntpGen} /\ \A t \in Targets : ~Joins(w, t)
    BY <2>2 DEF GoodAirs, Settled, Joins
  <2> HIDE DEF m
  <2>6. QED
    BY <2>2, <2>3, <2>4, <2>5, NewStation
<1>4. CASE v \in DnsAnswers(w)
  <2> DEFINE q(g) == [w.r EXCEPT !.dns = w.r.dns \ {g}]
             a(g) == [w EXCEPT !.r = q(g)]
             found(g) == [w.n EXCEPT !.server = g]
             none == [w.n EXCEPT !.ntpDone = TRUE, !.ntpOk = FALSE]
  <2>1. PICK g \in w.r.dns :
          \/ v = a(g)
          \/ /\ w.n.state = "SyncingTime" /\ g = w.n.ntpGen
             /\ v = [a(g) EXCEPT !.n = found(g)]
          \/ w.n.state = "SyncingTime" /\ v = [a(g) EXCEPT !.n = none]
    <3> DEFINE y(g) == [w EXCEPT !.r.dns = @ \ {g}]
    <3>1. PICK g \in w.r.dns :
            \/ v = y(g)
            \/ /\ w.n.state = "SyncingTime" /\ g = w.n.ntpGen
               /\ v = [y(g) EXCEPT !.n.server = g]
            \/ /\ w.n.state = "SyncingTime"
               /\ v = [y(g) EXCEPT !.n.ntpDone = TRUE, !.n.ntpOk = FALSE]
      BY <1>4, Zenon DEF DnsAnswers, Matches
    <3>2. y(g) = a(g)
      BY <1>1 DEF Airs, Radios
    <3>3. a(g) \in [n : Stations, r : {q(g)}] /\ a(g).n = w.n
      BY <1>1 DEF Airs
    <3>4. [a(g) EXCEPT !.n.server = g] = [a(g) EXCEPT !.n = found(g)]
      BY <3>3
    <3>5. [a(g) EXCEPT !.n.ntpDone = TRUE, !.n.ntpOk = FALSE] = [a(g) EXCEPT !.n = none]
      BY <3>3
    <3> HIDE DEF y, a, found, none
    <3>6. QED
      BY <3>1, <3>2, <3>4, <3>5
  <2>2. q(g) \in Radios /\ q(g).at = w.r.at /\ q(g).link = w.r.link /\ q(g).dhcp = w.r.dhcp
    BY <1>1 DEF Radios
  <2>3. Goes(a(g), w)
    <3> HIDE DEF q
    <3>1. QED
      BY <1>2, <2>2, NewRadio
  <2>4. a(g).n = w.n
    BY <1>1 DEF Airs
  <2>5. g \in Nat
    BY <1>1 DEF Radios
  <2>6. /\ found(g) \in Stations /\ found(g).on = w.n.on /\ found(g).ssid = w.n.ssid
        /\ found(g).pending = w.n.pending /\ found(g).after = w.n.after
        /\ found(g).blocked = w.n.blocked /\ found(g).state = w.n.state
        /\ found(g).server = g /\ found(g).ntpGen = w.n.ntpGen
    BY <1>1, <2>5 DEF Stations
  <2>7. /\ none \in Stations /\ none.on = w.n.on /\ none.ssid = w.n.ssid
        /\ none.pending = w.n.pending /\ none.after = w.n.after
        /\ none.blocked = w.n.blocked /\ none.state = w.n.state
        /\ none.server = w.n.server /\ none.ntpGen = w.n.ntpGen
    BY <1>1 DEF Stations
  <2>8. w.n.state = "SyncingTime" => /\ w.n.server \in {0, w.n.ntpGen}
                                     /\ \A t \in Targets : ~Joins(a(g), t)
    BY <2>4 DEF GoodAirs, Settled, Joins
  <2> HIDE DEF a, found, none, q
  <2>9. ASSUME NEW u, Goes(u, a(g)) PROVE Goes(u, w)
    BY <2>3, <2>4, <2>9 DEF Goes, Within
  <2>10. a(g) \in GoodAirs
    BY <2>3 DEF Goes
  <2>11. CASE v = a(g)
    BY <2>3, <2>11
  <2>12. CASE /\ w.n.state = "SyncingTime" /\ g = w.n.ntpGen
              /\ v = [a(g) EXCEPT !.n = found(g)]
    <3>1. Goes(v, a(g))
      BY <2>4, <2>6, <2>8, <2>10, <2>12, NewStation
    <3>2. QED
      BY <2>9, <3>1
  <2>13. CASE w.n.state = "SyncingTime" /\ v = [a(g) EXCEPT !.n = none]
    <3>1. Goes(v, a(g))
      BY <2>4, <2>7, <2>8, <2>10, <2>13, NewStation
    <3>2. QED
      BY <2>9, <3>1
  <2>14. QED
    BY <2>1, <2>11, <2>12, <2>13
<1>5. QED
  BY <1>3, <1>4

-----------------------------------------------------------------------------
(* The list of known networks.                                             *)

Working(p) ==
  /\ p \in ProfileLists
  /\ \A s \in SlotNumbers : p[s].used =>
       /\ p[s].ssid # NoNet /\ p[s].password = "right"
       /\ \A t \in SlotNumbers : p[t].used /\ p[t].ssid = p[s].ssid => s = t

LEMMA LeastIsOne ==
  ASSUME NEW T, T \subseteq SlotNumbers, T # {}
  PROVE  Least(T) \in T /\ \A t \in T : Least(T) <= t
<1>1. T \subseteq Nat
  BY SlotsAssumption DEF SlotNumbers
<1>2. \E s \in T : \A t \in T : s <= t
  BY <1>1, LeastElement
<1>3. QED
  BY <1>2 DEF Least

(* The slot for a network is one: the one that has it, or else a free one. *)
LEMMA AvailableIsOne ==
  ASSUME NEW p \in ProfileLists, NEW ssid \in SSIDs
  PROVE  /\ AvailableSlots(p, ssid) \subseteq SlotNumbers
         /\ \A s, t \in AvailableSlots(p, ssid) : s = t
         /\ \A s \in AvailableSlots(p, ssid), t \in SlotNumbers :
              p[t].used /\ p[t].ssid = ssid => p[s].used /\ p[s].ssid = ssid
<1>1. CASE Find(p, ssid) # {}
  <2>1. Least(Find(p, ssid)) \in Find(p, ssid) /\ Find(p, ssid) \subseteq SlotNumbers
    BY <1>1, LeastIsOne DEF Find
  <2>2. AvailableSlots(p, ssid) = {Least(Find(p, ssid))}
    BY <1>1 DEF AvailableSlots
  <2>3. QED
    BY <2>1, <2>2 DEF Find
<1>2. CASE Find(p, ssid) = {}
  <2> DEFINE unused == {s \in SlotNumbers : ~p[s].used}
  <2>1. AvailableSlots(p, ssid) = IF unused = {} THEN {} ELSE {Least(unused)}
    BY <1>2 DEF AvailableSlots
  <2>2. unused # {} => Least(unused) \in unused
    BY LeastIsOne
  <2>3. ssid # NoNet
    BY NamesAssumption
  <2>4. \A t \in SlotNumbers : ~(p[t].used /\ p[t].ssid = ssid)
    BY <1>2, <2>3 DEF Find
  <2>5. QED
    BY <2>1, <2>2, <2>4
<1>3. QED
  BY <1>1, <1>2

LEMMA UpsertWorks ==
  ASSUME NEW p, Working(p), NEW ssid \in SSIDs
  PROVE  Working(Upsert(p, ssid, "right"))
<1>1. p \in ProfileLists
  BY DEF Working
<1> DEFINE slots == AvailableSlots(p, ssid)
           new(s) == [used |-> TRUE, enabled |-> IF p[s].used THEN p[s].enabled ELSE TRUE,
                      ssid |-> ssid, password |-> "right"]
           q == [s \in SlotNumbers |-> IF s \in slots THEN new(s) ELSE p[s]]
<1>2. Upsert(p, ssid, "right") = q
  BY DEF Upsert
<1>3. /\ slots \subseteq SlotNumbers /\ \A s, t \in slots : s = t
      /\ \A s \in slots, t \in SlotNumbers :
           p[t].used /\ p[t].ssid = ssid => p[s].used /\ p[s].ssid = ssid
  BY <1>1, AvailableIsOne
<1> HIDE DEF slots
<1>4. \A s \in SlotNumbers : new(s) \in [used : BOOLEAN, enabled : BOOLEAN,
                                         ssid : SSIDs \cup {NoNet}, password : Passwords]
  BY <1>1 DEF ProfileLists, Passwords
<1>5. q \in ProfileLists
  BY <1>1, <1>4 DEF ProfileLists
<1>6. ASSUME NEW s \in SlotNumbers, q[s].used
      PROVE  q[s].ssid # NoNet /\ q[s].password = "right"
  BY <1>6, NamesAssumption DEF Working
<1>7. ASSUME NEW s \in SlotNumbers, q[s].used, NEW t \in SlotNumbers, q[t].used,
             q[t].ssid = q[s].ssid
      PROVE  s = t
  <2>1. CASE s \in slots /\ t \in slots
    BY <1>3, <2>1
  <2>2. CASE s \in slots /\ t \notin slots
    <3>1. p[t].used /\ p[t].ssid = ssid
      BY <1>7, <2>2
    <3>2. p[s].used /\ p[s].ssid = ssid
      BY <1>3, <2>2, <3>1
    <3>3. QED
      BY <3>1, <3>2 DEF Working
  <2>3. CASE s \notin slots /\ t \in slots
    <3>1. p[s].used /\ p[s].ssid = ssid
      BY <1>7, <2>3
    <3>2. p[t].used /\ p[t].ssid = ssid
      BY <1>3, <2>3, <3>1
    <3>3. QED
      BY <3>1, <3>2 DEF Working
  <2>4. CASE s \notin slots /\ t \notin slots
    BY <1>7, <2>4 DEF Working
  <2>5. QED
    BY <2>1, <2>2, <2>3, <2>4
<1>8. QED
  BY <1>2, <1>5, <1>6, <1>7 DEF Working

LEMMA EraseWorks ==
  ASSUME NEW p, Working(p), NEW slot \in SlotNumbers
  PROVE  Working(Erase(p, slot))
<1>1. Unused \in [used : BOOLEAN, enabled : BOOLEAN, ssid : SSIDs \cup {NoNet},
                  password : Passwords] /\ ~Unused.used
  BY DEF Unused, Passwords
<1> DEFINE q == [p EXCEPT ![slot] = Unused]
<1>2. q \in ProfileLists
  BY <1>1 DEF Working, ProfileLists
<1>3. \A s \in SlotNumbers : q[s].used => q[s] = p[s]
  BY <1>1 DEF Working, ProfileLists
<1> HIDE DEF q
<1>4. Working(q)
  BY <1>2, <1>3 DEF Working
<1>5. QED
  BY <1>4 DEF Erase, q

LEMMA ToggleWorks ==
  ASSUME NEW p, Working(p), NEW slot \in SlotNumbers
  PROVE  Working([p EXCEPT ![slot].enabled = ~@])
<1> DEFINE q == [p EXCEPT ![slot].enabled = ~@]
           e == ~p[slot].enabled
           r == [p[slot] EXCEPT !.enabled = e]
<1> e \in BOOLEAN
  OBVIOUS
<1> q = [p EXCEPT ![slot] = r]
  BY Zenon
<1> HIDE DEF q, e
<1>1. q \in ProfileLists
  BY DEF Working, ProfileLists
<1>2. \A s \in SlotNumbers : q[s].used = p[s].used /\ q[s].ssid = p[s].ssid
                             /\ q[s].password = p[s].password
  BY DEF Working, ProfileLists
<1>3. Working(q)
  BY <1>1, <1>2 DEF Working
<1>4. QED
  BY <1>3 DEF q

(* Whatever the configuration file said of them.                           *)
LEMMA MigrateWorks ==
  ASSUME NEW raw \in [SlotNumbers -> [used : {FALSE}, enabled : BOOLEAN,
                                      ssid : SSIDs \cup {NoNet}, password : {"right"}]],
         NEW hasKeys \in BOOLEAN, NEW legacy \in SSIDs \cup {NoNet}
  PROVE  Working(Migrate(raw, hasKeys, legacy))
<1> DEFINE drops(s) == \/ raw[s].ssid = NoNet
                       \/ \E t \in SlotNumbers : t < s /\ raw[t].ssid = raw[s].ssid
           q == [s \in SlotNumbers |->
                   IF drops(s) THEN Unused ELSE [raw[s] EXCEPT !.used = TRUE]]
<1>1. Normalize(raw) = q
  BY DEF Normalize
<1>2. Unused \in [used : BOOLEAN, enabled : BOOLEAN, ssid : SSIDs \cup {NoNet},
                  password : Passwords] /\ ~Unused.used
  BY DEF Unused, Passwords
<1>3. \A s \in SlotNumbers :
        /\ [raw[s] EXCEPT !.used = TRUE] \in [used : BOOLEAN, enabled : BOOLEAN,
                                              ssid : SSIDs \cup {NoNet}, password : Passwords]
        /\ [raw[s] EXCEPT !.used = TRUE].ssid = raw[s].ssid
        /\ [raw[s] EXCEPT !.used = TRUE].password = "right"
  BY DEF Passwords
<1>4. q \in ProfileLists
  <2> HIDE DEF drops
  <2>1. QED
    BY <1>2, <1>3 DEF ProfileLists
<1>5. \A s \in SlotNumbers : q[s].used =>
        ~drops(s) /\ q[s].ssid = raw[s].ssid /\ q[s].password = "right"
  <2> HIDE DEF drops
  <2>1. QED
    BY <1>2, <1>3
<1> HIDE DEF q
<1>6. ASSUME NEW s \in SlotNumbers, NEW t \in SlotNumbers, ~drops(s), ~drops(t),
             raw[s].ssid = raw[t].ssid
      PROVE  s = t
  <2>1. s \in Int /\ t \in Int /\ ~(s < t) /\ ~(t < s)
    BY <1>6, SlotsAssumption DEF SlotNumbers
  <2>2. QED
    BY <2>1
<1>7. \A s \in SlotNumbers : ~drops(s) => raw[s].ssid # NoNet
  OBVIOUS
<1> HIDE DEF drops
<1>8. Working(q)
  BY <1>4, <1>5, <1>6, <1>7 DEF Working
<1>9. CASE Migrate(raw, hasKeys, legacy) = q
  BY <1>8, <1>9
<1>10. CASE legacy # NoNet /\ Migrate(raw, hasKeys, legacy) = Upsert(q, legacy, "right")
  BY <1>8, <1>10, UpsertWorks
<1>11. QED
  BY <1>1, <1>9, <1>10 DEF Migrate

-----------------------------------------------------------------------------
(* The menus.                                                              *)

Tasks ==
  [task : {"none", "auto", "connect", "add", "sync"},
   stage : {"rest", "settle", "ready", "scan", "picked", "prompt", "join", "ntp"},
   target : Targets, plan : Seq(SlotNumbers), started : BOOLEAN]

(* What the station is on, joins or waits for was asked for last: another  *)
(* name it still has, of before a join that failed, is without DHCP.       *)
Asks(w, a) ==
  /\ w \in GoodAirs /\ a \in Names
  /\ w.n.ssid \in {NoNet, a} \/ ~w.r.dhcp
  /\ w.n.state \in {"Associating", "WaitingForIp"} => w.n.ssid = a
  /\ w.n.pending # NoTarget => w.n.pending.ssid = a

Expects(w, m) ==
  /\ m \in Tasks
  /\ m.task = "none" => m.stage = "rest"
  /\ m.task = "add" => m.target.ssid # NoNet \/ m.target = NoTarget
  /\ m.stage \in {"join", "prompt"} => m.target # NoTarget
  /\ m.stage = "picked" => m.target.ssid # NoNet
  /\ m.stage \in {"settle", "ready"} => ~m.started
  /\ m.stage = "join" /\ m.started => Joins(w, m.target)

WifiInv == Asks(wifi, asked) /\ Expects(wifi, menu) /\ Working(profiles)

LEMMA GoesKeeps ==
  ASSUME NEW w, NEW v, NEW a, Asks(w, a), Goes(v, w)
  PROVE  Asks(v, a) /\ \A m : Expects(w, m) => Expects(v, m)
<1>1. v \in GoodAirs /\ Within(v, w) /\ \A t \in Targets : Joins(w, t) => Joins(v, t)
  BY DEF Goes
<1>2. Asks(v, a)
  BY <1>1, NoTargetIsTarget DEF Asks, Within
<1>3. ASSUME NEW m, Expects(w, m) PROVE Expects(v, m)
  BY <1>1, <1>3 DEF Expects, Tasks
<1>4. QED
  BY <1>2, <1>3

LEMMA WithinKeeps ==
  ASSUME NEW w, NEW v \in GoodAirs, NEW a, Asks(w, a), Within(v, w)
  PROVE  Asks(v, a)
  BY NoTargetIsTarget DEF Asks, Within

LEMMA QuietKeeps ==
  ASSUME NEW v \in GoodAirs, Quiet(v), NEW a \in Names
  PROVE  Asks(v, a)
  BY NoTargetIsTarget DEF Asks, Quiet

LEMMA NothingWaits ==
  ASSUME NEW w
  PROVE  Expects(w, NoTask)
<1>1. <<>> \in Seq(SlotNumbers)
  OBVIOUS
<1>2. QED
  BY <1>1, NoTargetIsTarget DEF Expects, NoTask, Tasks

(* Every menu that is to wait for the radio first looks at it.             *)
LEMMA PrepareKeeps ==
  ASSUME NEW w, NEW c \in Choices, NEW a, Asks(w, a),
         NEW task \in {"auto", "connect", "add"}, NEW target \in Targets,
         NEW plan \in Seq(SlotNumbers),
         task = "add" => target.ssid # NoNet \/ target = NoTarget,
         Prepare(task, target, plan, w, c)
  PROVE  Asks(wifi', a) /\ Expects(wifi', menu')
<1>1. Goes(Polled(w, c), w)
  BY PolledGoes DEF Asks
<1>2. Asks(wifi', a)
  BY <1>1, GoesKeeps DEF Prepare
<1>3. PICK stage \in {"settle", "ready"} :
        menu' = [task |-> task, stage |-> stage, target |-> target, plan |-> plan,
                 started |-> FALSE]
  BY DEF Prepare, Goto
<1>4. Expects(wifi', menu')
  BY <1>3 DEF Expects, Tasks
<1>5. QED
  BY <1>2, <1>4

(* The user has picked a network to add, or tries one again.               *)
LEMMA PickKeeps ==
  ASSUME NEW target \in Targets, target.ssid # NoNet, Goto("add", "picked", target, <<>>)
  PROVE  Expects(wifi', menu')
<1>1. <<>> \in Seq(SlotNumbers)
  OBVIOUS
<1>2. menu' = [task |-> "add", stage |-> "picked", target |-> target, plan |-> <<>>,
               started |-> FALSE]
  BY DEF Goto
<1>3. QED
  BY <1>1, <1>2 DEF Expects, Tasks

LEMMA SyncKeeps ==
  ASSUME NEW w, NEW c \in Choices, NEW a, Asks(w, a), Sync(w, c)
  PROVE  Asks(wifi', a) /\ Expects(wifi', menu')
<1>1. wifi' = NtpStart(w, c)
  BY DEF Sync
<1>2. Asks(wifi', a)
  BY <1>1, NtpStartIsGood, WithinKeeps DEF Asks
<1>3. \/ menu' = NoTask
      \/ menu' = [task |-> "sync", stage |-> "ntp", target |-> NoTarget, plan |-> <<>>,
                  started |-> FALSE]
  BY DEF Sync, Goto, Finish
<1>4. <<>> \in Seq(SlotNumbers)
  OBVIOUS
<1> DEFINE m == [task |-> "sync", stage |-> "ntp", target |-> NoTarget, plan |-> <<>>,
                 started |-> FALSE]
<1>5. m \in Tasks
  BY <1>4, NoTargetIsTarget DEF Tasks
<1>6. Expects(wifi', m)
  BY <1>5 DEF Expects
<1>7. QED
  BY <1>2, <1>3, <1>6, NothingWaits

LEMMA TargetIsTyped ==
  ASSUME Working(profiles), NEW slot \in SlotNumbers
  PROVE  TargetOf(slot) \in Targets
  BY DEF Working, ProfileLists, TargetOf, Targets, Names

LEMMA TailIsTyped ==
  ASSUME NEW plan \in Seq(SlotNumbers), plan # <<>>
  PROVE  Head(plan) = plan[1] /\ plan[1] \in SlotNumbers /\ Tail(plan) \in Seq(SlotNumbers)
  OBVIOUS

(* A menu that is picked, by the user who has nothing under way.           *)
LEMMA MenusKeep ==
  ASSUME WifiInv, NEW c \in Choices, Menus(c)
  PROVE  WifiInv'
<1> USE DEF WifiInv
<1>1. <<>> \in Seq(SlotNumbers)
  OBVIOUS
<1>2. wifi \in GoodAirs
  BY DEF Asks
<1>3. NoNet \in Names
  BY DEF Names
<1>4. CASE MenuEnable(c)
  <2>1. profiles' = profiles /\ asked' = asked
    BY <1>4 DEF MenuEnable
  <2>2. PICK ok \in BOOLEAN :
          LET up == NetInit(wifi, ok, c)
          IN  \/ UNCHANGED <<wifi, menu>>
              \/ Prepare("auto", NoTarget, <<>>, up, c)
              \/ wifi' = up /\ Finish
    BY <1>4 DEF MenuEnable
  <2> DEFINE up == NetInit(wifi, ok, c)
  <2>3. Asks(up, asked)
    BY <1>2, InitIsGood, WithinKeeps
  <2>4. CASE UNCHANGED <<wifi, menu>>
    BY <2>1, <2>4
  <2>5. CASE Prepare("auto", NoTarget, <<>>, up, c)
    BY <1>1, <2>1, <2>3, <2>5, PrepareKeeps, NoTargetIsTarget
  <2>6. CASE wifi' = up /\ Finish
    BY <2>1, <2>3, <2>6, NothingWaits DEF Finish
  <2>7. QED
    BY <2>2, <2>4, <2>5, <2>6
<1>5. CASE MenuDisable(c)
  <2>1. wifi' = Shutdown(wifi, c) /\ asked' = NoNet /\ menu' = menu /\ profiles' = profiles
    BY <1>5 DEF MenuDisable
  <2>2. Asks(wifi', asked')
    BY <1>2, <1>3, <2>1, ShutdownIsGood, QuietKeeps
  <2>3. menu.task = "none"
    BY <1>5 DEF MenuDisable, Picks, Idle
  <2>4. QED
    BY <2>1, <2>2, <2>3 DEF Expects
<1>6. CASE MenuAuto(c)
  BY <1>1, <1>6, PrepareKeeps, NoTargetIsTarget DEF MenuAuto
<1>7. CASE MenuAdd(c)
  BY <1>1, <1>7, PrepareKeeps, NoTargetIsTarget DEF MenuAdd
<1>8. CASE MenuSync(c)
  BY <1>8, SyncKeeps DEF MenuSync
<1>9. ASSUME NEW slot \in SlotNumbers, LetGo(slot, c)
      PROVE  Asks(wifi', asked')
  <2>1. CASE wifi' = Disconnect(wifi, c) /\ asked' = NoNet
    BY <1>2, <1>3, <2>1, DisconnectIsGood, QuietKeeps
  <2>2. CASE wifi' = wifi /\ asked' = asked
    BY <2>2
  <2>3. QED
    BY <1>9, <2>1, <2>2 DEF LetGo
<1>10. ASSUME NEW slot \in SlotNumbers, MenuConnect(slot, c)
       PROVE  WifiInv'
  BY <1>1, <1>10, PrepareKeeps, TargetIsTyped DEF MenuConnect
<1>11. ASSUME NEW slot \in SlotNumbers, MenuToggle(slot, c)
       PROVE  WifiInv'
  <2>1. Asks(wifi', asked')
    BY <1>9, <1>11 DEF MenuToggle
  <2>2. Expects(wifi', menu')
    BY <1>11 DEF MenuToggle, Picks, Idle, Expects
  <2>3. Working(profiles')
    BY <1>11, ToggleWorks DEF MenuToggle
  <2>4. QED
    BY <2>1, <2>2, <2>3
<1>12. ASSUME NEW slot \in SlotNumbers, MenuDelete(slot, c)
       PROVE  WifiInv'
  <2>1. Asks(wifi', asked')
    BY <1>9, <1>12 DEF MenuDelete
  <2>2. Expects(wifi', menu')
    BY <1>12 DEF MenuDelete, Picks, Idle, Expects
  <2>3. Working(profiles')
    BY <1>12, EraseWorks DEF MenuDelete
  <2>4. QED
    BY <2>1, <2>2, <2>3
<1>13. CASE MenuCpuClock(c)
  <2> DEFINE was == Find(profiles, CurrentSsid(wifi))
             down == Shutdown(wifi, c)
             off == [down EXCEPT !.r = [RadioOff EXCEPT !.dns = wifi.r.dns]]
  <2>1. PICK ok \in BOOLEAN :
          \/ /\ was # {}
             /\ Prepare("connect", TargetOf(Least(was)), <<>>, NetInit(off, ok, c), c)
          \/ wifi' = NetInit(off, ok, c) /\ Finish
    BY <1>13 DEF MenuCpuClock
  <2>2. asked' = NoNet /\ profiles' = profiles /\ wifi.n.on
    BY <1>13 DEF MenuCpuClock
  <2>3. down \in GoodAirs /\ Quiet(down) /\ ~down.n.on /\ down.n.state = "Idle"
    BY <1>2, <2>2, ShutdownIsGood
  <2>4. [RadioOff EXCEPT !.dns = wifi.r.dns] \in Radios
    BY <1>2, NoTargetIsTarget DEF RadioOff, Radios, GoodAirs, Airs
  <2>5. [RadioOff EXCEPT !.dns = wifi.r.dns].link = "down"
    BY DEF RadioOff
  <2> DEFINE q == [RadioOff EXCEPT !.dns = wifi.r.dns]
  <2> HIDE DEF down, q
  <2>6. off \in Airs /\ off.n = down.n /\ off.r = q
    BY <2>3, <2>4 DEF GoodAirs, Airs, q
  <2> HIDE DEF off
  <2>7. off \in GoodAirs /\ Quiet(off)
    BY <2>3, <2>5, <2>6 DEF GoodAirs, Settled, Quiet, q
  <2>8. Asks(NetInit(off, ok, c), NoNet)
    BY <1>3, <2>7, InitIsGood, QuietKeeps, WithinKeeps
  <2>9. CASE /\ was # {}
             /\ Prepare("connect", TargetOf(Least(was)), <<>>, NetInit(off, ok, c), c)
    <3>1. Least(was) \in SlotNumbers
      BY <2>9, LeastIsOne DEF Find
    <3>2. TargetOf(Least(was)) \in Targets
      BY <3>1, TargetIsTyped
    <3>3. QED
      BY <1>1, <2>2, <2>8, <2>9, <3>2, PrepareKeeps
  <2>10. CASE wifi' = NetInit(off, ok, c) /\ Finish
    BY <2>2, <2>8, <2>10, NothingWaits DEF Finish
  <2>11. QED
    BY <2>1, <2>9, <2>10
<1>14. QED
  BY <1>4, <1>5, <1>6, <1>7, <1>8, <1>10, <1>11, <1>12, <1>13 DEF Menus

(* A menu that goes on when its operation has ended.                       *)
LEMMA ReadyKeeps ==
  ASSUME WifiInv, NEW c \in Choices, MenuReady(c) \/ MenuTypes(c)
  PROVE  WifiInv'
<1> USE DEF WifiInv
<1>1. wifi \in GoodAirs /\ profiles' = profiles /\ menu \in Tasks /\ menu.target \in Targets
  BY DEF MenuReady, MenuTypes, Asks, Expects, Tasks
<1>2. CASE Finish /\ UNCHANGED <<wifi, asked>>
  BY <1>1, <1>2, NothingWaits DEF Finish
<1>3. CASE menu.stage \in {"settle", "ready"} /\ ReadyScan(c)
  <2>1. wifi' = ScanStart(wifi, c) /\ asked' = asked
    BY <1>3 DEF ReadyScan
  <2>2. Asks(wifi', asked')
    BY <1>1, <2>1, ScanStartIsGood, WithinKeeps
  <2>3. menu' = [menu EXCEPT !.stage = "scan"] \/ menu' = NoTask
    BY <1>3 DEF ReadyScan, Finish
  <2>4. CASE menu' = [menu EXCEPT !.stage = "scan"]
    <3>1. menu.task # "none"
      BY <1>3 DEF Expects
    <3>2. Expects(wifi', menu')
      BY <1>1, <2>4, <3>1 DEF Expects, Tasks
    <3>3. QED
      BY <1>1, <2>2, <3>2
  <2>5. QED
    BY <1>1, <2>2, <2>3, <2>4, NothingWaits
<1>4. CASE /\ menu.stage \in {"settle", "ready", "prompt"} /\ menu.target # NoTarget
           /\ ReadyJoin(c)
  <2> DEFINE after == ConnectStart(wifi, menu.target, c)
             started == ConnectStarted(wifi, after)
  <2>1. /\ wifi' = after
        /\ asked' = IF CanStart(wifi) THEN menu.target.ssid ELSE asked
        /\ menu' = [menu EXCEPT !.stage = "join", !.started = started]
    BY <1>4 DEF ReadyJoin
  <2>2. /\ after \in GoodAirs
        /\ ~CanStart(wifi) => after = wifi
        /\ CanStart(wifi) =>
             /\ after.n.ssid \in {NoNet, menu.target.ssid} \/ ~after.r.dhcp
             /\ after.n.state \in {"Associating", "WaitingForIp"} =>
                  after.n.ssid = menu.target.ssid
             /\ after.n.pending \in {NoTarget, menu.target}
        /\ started => Joins(after, menu.target)
    BY <1>1, <1>4, ConnectStartIsGood
  <2>3. started \in BOOLEAN
    BY DEF ConnectStarted
  <2> HIDE DEF after, started
  <2>4. Asks(wifi', asked')
    <3>1. CASE CanStart(wifi)
      BY <1>1, <2>1, <2>2, <3>1, NoTargetIsTarget DEF Asks, Targets
    <3>2. CASE ~CanStart(wifi)
      BY <2>1, <2>2, <3>2
    <3>3. QED
      BY <3>1, <3>2
  <2>5. menu.task # "none"
    BY <1>4 DEF Expects
  <2>6. /\ menu' \in Tasks /\ menu'.task = menu.task /\ menu'.target = menu.target
        /\ menu'.started = started /\ menu'.stage = "join"
    BY <1>1, <2>1, <2>3 DEF Tasks
  <2>7. Expects(wifi', menu')
    BY <1>4, <2>1, <2>2, <2>5, <2>6 DEF Expects
  <2>8. QED
    BY <1>1, <2>4, <2>7
<1>5. ASSUME menu.stage \in {"settle", "ready"}, NEW stage \in {"join", "prompt"},
             menu.target # NoTarget, menu' = [menu EXCEPT !.stage = stage],
             UNCHANGED <<wifi, asked>>
      PROVE  WifiInv'
  <2>1. /\ menu' \in Tasks /\ menu'.task = menu.task /\ menu'.target = menu.target
        /\ menu'.started = menu.started /\ menu'.stage = stage /\ menu.task # "none"
    BY <1>1, <1>5 DEF Tasks, Expects
  <2>2. ~menu.started
    BY <1>5 DEF Expects
  <2>3. Expects(wifi', menu')
    BY <1>5, <2>1, <2>2 DEF Expects
  <2>4. QED
    BY <1>1, <1>5, <2>3
<1>6. menu.stage = "prompt" => menu.target # NoTarget
  BY DEF Expects
<1>7. CASE MenuReady(c)
  BY <1>2, <1>3, <1>4, <1>5, <1>7 DEF MenuReady, Waits
<1>8. CASE MenuTypes(c)
  BY <1>2, <1>4, <1>6, <1>8 DEF MenuTypes
<1>9. QED
  BY <1>7, <1>8

LEMMA FoundKeeps ==
  ASSUME WifiInv, NEW c \in Choices, MenuFound(c)
  PROVE  WifiInv'
<1> USE DEF WifiInv
<1>1. /\ wifi \in GoodAirs /\ profiles' = profiles /\ asked' = asked
      /\ wifi.n.found \subseteq SSIDs
  BY DEF MenuFound, Asks, GoodAirs, Airs, Stations
<1>2. CASE Finish /\ UNCHANGED wifi
  BY <1>1, <1>2, NothingWaits DEF Finish
<1>3. ASSUME NEW plan \in Plans(profiles, wifi.n.found), plan # <<>>,
             Prepare("auto", TargetOf(plan[1]), Tail(plan), wifi, c)
      PROVE  WifiInv'
  <2>1. plan \in Seq(SlotNumbers)
    BY <1>3 DEF Plans, Candidates
  <2>2. plan[1] \in SlotNumbers /\ Tail(plan) \in Seq(SlotNumbers)
    BY <1>3, <2>1, TailIsTyped
  <2>3. QED
    BY <1>1, <1>3, <2>2, PrepareKeeps, TargetIsTyped
<1>4. ASSUME NEW s \in wifi.n.found, NEW password \in Passwords,
             Goto("add", "picked", [ssid |-> s, password |-> password], <<>>), UNCHANGED wifi
      PROVE  WifiInv'
  <2>1. /\ [ssid |-> s, password |-> password] \in Targets
        /\ [ssid |-> s, password |-> password].ssid # NoNet
    BY <1>1, <1>4, NamesAssumption DEF Targets, Names
  <2>2. <<>> \in Seq(SlotNumbers)
    OBVIOUS
  <2>3. QED
    BY <1>1, <1>4, <2>1, <2>2, PickKeeps
<1>5. QED
  BY <1>2, <1>3, <1>4 DEF MenuFound

LEMMA PickedKeeps ==
  ASSUME WifiInv, NEW c \in Choices, MenuPicked(c)
  PROVE  WifiInv'
<1> USE DEF WifiInv
<1>1. /\ profiles' = profiles /\ asked' = asked /\ menu.target \in Targets
      /\ menu.target.ssid # NoNet
  BY DEF MenuPicked, Expects, Tasks
<1>2. CASE Finish /\ UNCHANGED wifi
  BY <1>1, <1>2, NothingWaits DEF Finish
<1>3. CASE Prepare("add", menu.target, <<>>, wifi, c)
  <2>1. <<>> \in Seq(SlotNumbers)
    OBVIOUS
  <2>2. QED
    BY <1>1, <1>3, <2>1, PrepareKeeps
<1>4. QED
  BY <1>2, <1>3 DEF MenuPicked

(* Only a join that was started and succeeded saves the password.          *)
LEMMA JoinedKeeps ==
  ASSUME WifiInv, NEW c \in Choices, MenuJoined(c)
  PROVE  WifiInv'
<1> USE DEF WifiInv
<1>1. /\ asked' = asked /\ menu.stage = "join" /\ menu.started /\ wifi.n.state = "Succeeded"
  BY DEF MenuJoined, Waits, Joined
<1>2. menu.target \in Targets /\ menu.target.password = "right" /\ menu.target # NoTarget
  BY <1>1 DEF Expects, Joins, Tasks
<1>3. Working(profiles')
  <2>1. CASE menu.task = "add"
    <3>1. menu.target.ssid \in SSIDs
      BY <1>2, <2>1 DEF Expects, Targets, Names
    <3>2. profiles' = Upsert(profiles, menu.target.ssid, "right")
      BY <1>2, <2>1 DEF MenuJoined
    <3>3. QED
      BY <3>1, <3>2, UpsertWorks
  <2>2. CASE menu.task # "add"
    BY <2>2 DEF MenuJoined
  <2>3. QED
    BY <2>1, <2>2
<1>4. CASE Sync(wifi, c)
  BY <1>1, <1>3, <1>4, SyncKeeps
<1>5. CASE Finish /\ UNCHANGED wifi
  BY <1>1, <1>3, <1>5, NothingWaits DEF Finish
<1>6. QED
  BY <1>4, <1>5 DEF MenuJoined

LEMMA NotJoinedKeeps ==
  ASSUME WifiInv, NEW c \in Choices, MenuNotJoined(c)
  PROVE  WifiInv'
<1> USE DEF WifiInv
<1>1. /\ profiles' = profiles /\ asked' = asked /\ menu.stage = "join"
      /\ menu.target \in Targets /\ menu.plan \in Seq(SlotNumbers) /\ menu.target # NoTarget
  BY DEF MenuNotJoined, Waits, Expects, Tasks
<1>2. CASE Finish /\ UNCHANGED wifi
  BY <1>1, <1>2, NothingWaits DEF Finish
<1>3. CASE /\ menu.plan # <<>>
           /\ Prepare("auto", TargetOf(Head(menu.plan)), Tail(menu.plan), wifi, c)
  <2>1. Head(menu.plan) \in SlotNumbers /\ Tail(menu.plan) \in Seq(SlotNumbers)
    BY <1>1, <1>3, TailIsTyped
  <2>2. QED
    BY <1>1, <1>3, <2>1, PrepareKeeps, TargetIsTyped
<1>4. ASSUME menu.task = "add", NEW password \in Passwords,
             Goto("add", "picked", [menu.target EXCEPT !.password = password], <<>>),
             UNCHANGED wifi
      PROVE  WifiInv'
  <2>1. menu.target.ssid # NoNet
    BY <1>1, <1>4 DEF Expects
  <2>2. /\ [menu.target EXCEPT !.password = password] \in Targets
        /\ [menu.target EXCEPT !.password = password].ssid # NoNet
    BY <1>1, <1>4, <2>1 DEF Targets
  <2>3. <<>> \in Seq(SlotNumbers)
    OBVIOUS
  <2>4. QED
    BY <1>1, <1>4, <2>2, <2>3, PickKeeps
<1>5. QED
  BY <1>2, <1>3, <1>4 DEF MenuNotJoined

LEMMA CancelsKeep ==
  ASSUME WifiInv, NEW c \in Choices, MenuCancels(c)
  PROVE  WifiInv'
<1> USE DEF WifiInv
<1>1. /\ wifi \in GoodAirs /\ profiles' = profiles /\ menu' = NoTask /\ wifi' = Cancel(wifi, c)
      /\ NoNet \in Names
  BY DEF MenuCancels, Asks, Finish, Names
<1>2. Asks(wifi', asked')
  <2>1. CASE wifi.n.state \in {"Associating", "WaitingForIp", "Disassociating"}
    BY <1>1, <2>1, CancelIsGood, QuietKeeps DEF MenuCancels
  <2>2. CASE wifi.n.state \notin {"Associating", "WaitingForIp", "Disassociating"}
    BY <1>1, <2>2, CancelIsGood, WithinKeeps DEF MenuCancels
  <2>3. QED
    BY <2>1, <2>2
<1>3. QED
  BY <1>1, <1>2, NothingWaits

LEMMA RadioKeeps ==
  ASSUME WifiInv, PollsOnTime \/ PollsLate \/ Background \/ Disturbance
  PROVE  WifiInv'
<1> USE DEF WifiInv
<1>1. wifi \in GoodAirs
  BY DEF Asks
<1>2. menu' = menu /\ profiles' = profiles /\ asked' = asked
  BY DEF PollsOnTime, PollsLate, Polls, Background, Disturbance
<1>3. Goes(wifi', wifi)
  <2>1. CASE PollsOnTime \/ PollsLate
    BY <1>1, <2>1, PolledGoes DEF PollsOnTime, PollsLate, Polls
  <2>2. CASE Background \/ Disturbance
    BY <1>1, <2>2, LinkGoes, ScanHearsGoes, AnswersGo DEF Background, Disturbance
  <2>3. QED
    BY <2>1, <2>2
<1>4. QED
  BY <1>2, <1>3, GoesKeeps

LEMMA WifiStarts ==
  ASSUME WifiInit
  PROVE  WifiInv
<1>1. NetOff \in Stations /\ RadioOff \in Radios
  BY NoTargetIsTarget DEF NetOff, RadioOff, Stations, Radios, States, Names, Results, Errors
<1>2. wifi = [n |-> NetOff, r |-> RadioOff] /\ asked = NoNet /\ menu = NoTask
  BY DEF WifiInit
<1>3. /\ wifi \in Airs /\ wifi.n.ssid = NoNet /\ wifi.n.pending = NoTarget
      /\ wifi.n.state = "Idle" /\ wifi.r.link = "down"
  BY <1>1, <1>2 DEF Airs, NetOff, RadioOff
<1>4. wifi \in GoodAirs /\ Quiet(wifi)
  BY <1>3 DEF GoodAirs, Settled, Quiet
<1>5. Asks(wifi, asked)
  BY <1>2, <1>4, QuietKeeps DEF Names
<1>6. Working(profiles)
  BY MigrateWorks DEF WifiInit
<1>7. QED
  BY <1>2, <1>5, <1>6, NothingWaits DEF WifiInv

LEMMA WifiSteps ==
  ASSUME WifiInv, [WifiNext]_wifiVars
  PROVE  WifiInv'
<1>1. CASE \E c \in Choices : ~c.late /\ (Menus(c) \/ Continues(c))
  BY <1>1, MenusKeep, ReadyKeeps, FoundKeeps, PickedKeeps, JoinedKeeps, NotJoinedKeeps, CancelsKeep
     DEF Continues
<1>2. CASE MenuSynced
  BY <1>2, NothingWaits DEF MenuSynced, Finish, WifiInv
<1>3. CASE PollsOnTime \/ PollsLate \/ Background \/ Disturbance
  BY <1>3, RadioKeeps
<1>4. CASE UNCHANGED wifiVars
  BY <1>4 DEF wifiVars, WifiInv
<1>5. QED
  BY <1>1, <1>2, <1>3, <1>4 DEF WifiNext

LEMMA WifiIsInvariant == WifiSpec => []WifiInv
  BY WifiStarts, WifiSteps, PTL DEF WifiSpec

(* The network the station joins, waits to join or says it is on is the    *)
(* one asked for last, and where the radio is, whatever joins are deferred *)
(* behind a leave, links come back by themselves, and cancels, refusals    *)
(* and failures of DHCP come between.                                      *)
THEOREM OnlyTheAsked == WifiSpec => []OnlyWhatWasAsked
<1>1. ASSUME WifiInv PROVE OnlyWhatWasAsked
  <2>1. wifi \in GoodAirs /\ Asks(wifi, asked)
    BY <1>1 DEF WifiInv, Asks
  <2>2. Connected(wifi) => wifi.n.ssid = asked /\ wifi.r.at.ssid = asked
    BY <2>1 DEF Asks, GoodAirs, Settled, Connected
  <2>3. wifi.n.state \in {"Associating", "WaitingForIp"} =>
          wifi.n.ssid = asked /\ wifi.r.at.ssid = asked
    BY <2>1 DEF Asks, GoodAirs, Settled
  <2>4. wifi.n.pending.ssid \in {NoNet, asked}
    BY <2>1, NoTargetIsTarget DEF Asks
  <2>5. QED
    BY <2>2, <2>3, <2>4 DEF OnlyWhatWasAsked
<1>2. QED
  BY <1>1, WifiIsInvariant, PTL

(* The list names a network once, and keeps only a password with which it  *)
(* was reached.                                                            *)
THEOREM ProfilesAreSound == WifiSpec => []ProfilesWork
<1>1. WifiInv => ProfilesWork
  BY DEF WifiInv, Working, ProfilesWork
<1>2. QED
  BY <1>1, WifiIsInvariant, PTL

(* The address an NTP request is sent to answers its own look-up.          *)
THEOREM AnswersAreOwn == WifiSpec => []OwnAnswers
<1>1. WifiInv => OwnAnswers
  BY DEF WifiInv, Asks, OwnAnswers, GoodAirs, Settled
<1>2. QED
  BY <1>1, WifiIsInvariant, PTL
=============================================================================

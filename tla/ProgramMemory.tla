---------------------------- MODULE ProgramMemory ---------------------------
(* The program of INTERNAL mode in memory: a compact index and text slots in *)
(* the external PSRAM, or the smaller SRAM array when no region can be had,  *)
(* next to the other clients of the PSRAM: the compiled program that RUN     *)
(* keeps, the SD line cache, the direct-mode variables                      *)
(* and the diagnostics that overwrite the whole device.                      *)
EXTENDS PsramRegions, Integers, Sequences, FiniteSets, Functions, SequencesExt

CONSTANTS Number,      \* line numbers
          Text,        \* line bodies, all of one length
          Junk,        \* the bytes of a write that broke off, or a test pattern
          Blank,       \* the body of a line the SRAM array was cleared of
          Slots,       \* lines the PSRAM store holds
          SramLines,   \* lines the SRAM fallback holds
          Files,       \* the programs stored on the card
          WriteFaults  \* a PSRAM write may fail, and leave its first part

VARIABLES available,   \* the PSRAM was detected
          region,      \* who owns which units of it
          mem,         \* the units: the client that wrote them last, and what
          store,       \* where the program is: "psram", "sram" or "sd"
          sram,        \* the lines of the SRAM fallback
          suspended,   \* a roll-back failed
          cache,       \* the compiled program: present, and of this revision
          sdCache,     \* the SD line cache is allocated
          direct,      \* where the direct-mode variables are kept
          accepted,    \* ghost: the program, by the edits that succeeded
          exposed      \* ghost: an edit broke off where nothing restores it

vars == <<available, region, mem, store, sram, suspended, cache, sdCache,
          direct, accepted, exposed>>

ASSUME ClientAssumption ==
    {"ProgramStore", "SdCache", "DirectState", "CompiledCache"} \subseteq Client
ASSUME NumberAssumption == Number \subseteq Nat
\* program_store.hpp:7-9: the fallback in SRAM holds no more lines than the PSRAM.
ASSUME SizeAssumption == Slots \in Nat \ {0} /\ SramLines \in 0 .. Slots

StoreSize == Slots + 1

\* A program: its numbers, each with a text.
Program == UNION {[D -> Text] : D \in SUBSET Number}

ASSUME ProgramAssumption ==
    /\ Junk \notin Text
    /\ \A file \in Files : file \in Program /\ IsFiniteSet(DOMAIN file)

NoProgram == [n \in {} |-> Junk]

\* Numbers in their order.
Ascending(S) ==
    CHOOSE s \in [1 .. Cardinality(S) -> S] :
        \A i, j \in DOMAIN s : i < j => s[i] < s[j]

\* What f has under its numbers, in the order of these.
Tabled(f) == [i \in 1 .. Cardinality(DOMAIN f) |-> f[Ascending(DOMAIN f)[i]]]

\* The lines of a program in the order LIST prints them.
Lines(p) == Tabled([n \in DOMAIN p |-> [number |-> n, text |-> p[n]]])

With(p, n, t) == [k \in {n} \cup DOMAIN p |-> IF k = n THEN t ELSE p[k]]

Without(p, N) == Restrict(p, DOMAIN p \ N)

-----------------------------------------------------------------------------
(* Reading.                                                                 *)

Base(c) == region[c].base

IndexAt == Base("ProgramStore")

SlotAt(s) == Base("ProgramStore") + s

\* The index entries; past the number of lines nothing is ever read.
Index == mem[IndexAt].data

\* A text is taken only if it has the hash of the entry.
Readable(m, e) == m[SlotAt(e.slot)] = [by |-> "ProgramStore", data |-> e.hash]

EntryText(e) == IF Readable(mem, e) THEN e.hash ELSE Junk

Listing ==
    CASE store = "psram" ->
            [i \in DOMAIN Index |->
                [number |-> Index[i].number, text |-> EntryText(Index[i])]]
      [] store = "sram" -> sram
      [] store = "sd" -> Lines(accepted)

Legible == \A i \in DOMAIN Listing : Listing[i].text # Junk

-----------------------------------------------------------------------------
(* Writing.  A write that fails may leave a first part of the bytes behind. *)

Put(m, c, at, data) == [m EXCEPT ![at] = [by |-> c, data |-> data]]

TextWrites(m, slot, text) ==
    {[ok |-> TRUE, mem |-> Put(m, "ProgramStore", SlotAt(slot), text)]}
    \cup (IF WriteFaults
          THEN {[ok |-> FALSE, mem |-> m],
                [ok |-> FALSE, mem |-> Put(m, "ProgramStore", SlotAt(slot), Junk)]}
          ELSE {})

FreeSlots(entries) == (1 .. Slots) \ {entries[i].slot : i \in DOMAIN entries}

\* The bytes of a slot that no entry names are never read, nor tracked.
Tidy(m, base, entries) ==
    LET free == {base + s : s \in FreeSlots(entries)}
    IN  [at \in DOMAIN m |->
        IF at \in free THEN [by |-> "ProgramStore", data |-> Junk]
        ELSE m[at]]

\* The first k entries are new; the number of lines is still the old one.
Overwritten(old, new, k) ==
    [i \in DOMAIN old |-> IF i <= k THEN new[i] ELSE old[i]]

PutIndex(m, base, entries) ==
    Tidy(Put(m, "ProgramStore", base, entries), base, entries)

IndexWrites(m, old, new) ==
    {[ok |-> TRUE, part |-> 0, mem |-> PutIndex(m, IndexAt, new)]}
    \cup (IF WriteFaults /\ new # << >>
          THEN {[ok |-> FALSE, part |-> k,
                 mem |-> LET mixed == Overwritten(old, new, k)
                         IN  Tidy(Put(m, "ProgramStore", IndexAt, mixed), IndexAt,
                                  old \o mixed)] :
                   k \in 0 .. Len(new) - 1}
          ELSE {})

\* The bytes of a region nobody owns are not tracked.
Scrub(m, r, S) ==
    [at \in DOMAIN m |->
        IF \E c \in S : r[c].base <= at /\ at < End(r[c])
        THEN [by |-> "nobody", data |-> Junk] ELSE m[at]]

Lowest(S) == CHOOSE x \in S : \A y \in S : x <= y

\* std::sort: some order of the entries in which no number is before a lower one.
InOrder(entries) ==
    LET I == DOMAIN entries
        from == CHOOSE p \in [I -> I] :
                  \A i, j \in I : i < j => /\ p[i] # p[j]
                                          /\ entries[p[i]].number <= entries[p[j]].number
    IN  [i \in I |-> entries[from[i]]]

Entry(n, t, s) == [number |-> n, hash |-> t, slot |-> s]

-----------------------------------------------------------------------------
(* A changed program has a new revision: the compiled one is out of date.   *)

BumpRevision == cache' = [cache EXCEPT !.current = FALSE]

\* A successful edit; once the program is exposed nothing is promised of it.
Accept(p) ==
    /\ accepted' = IF exposed THEN accepted ELSE p
    /\ BumpRevision
    /\ UNCHANGED exposed

\* NEW, LOAD and a move to the card start from a program that is whole.
Replace(p) == accepted' = p /\ BumpRevision /\ exposed' = FALSE

\* A failed edit keeps the program and its revision; `broken` says whether it
\* stopped where nothing restores what it had written.
Fail(broken) ==
    /\ exposed' = (exposed \/ broken)
    /\ accepted' = IF exposed' THEN NoProgram ELSE accepted
    /\ UNCHANGED cache

OthersUnchanged == UNCHANGED <<available, region, sdCache, direct>>

\* Where the search for line n stops: the first line not below it.
At(lines, n) == Lowest({i \in DOMAIN lines : lines[i].number >= n} \cup {Len(lines) + 1})

Holds(lines, n) == At(lines, n) \in DOMAIN lines /\ lines[At(lines, n)].number = n

PutLine(lines, n, line) ==
    IF Holds(lines, n) THEN [lines EXCEPT ![At(lines, n)] = line]
    ELSE InsertAt(lines, At(lines, n), line)

-----------------------------------------------------------------------------
(* Edits of one line.                                                       *)

\* Typing a line again as it stands changes nothing; a line that is there
\* but cannot be read refuses the edit.
SameLine(n, t) ==
    Holds(Listing, n) /\ Listing[At(Listing, n)].text \in {t, Junk}

SetLineSram(n, t) ==
    /\ store = "sram"
    /\ IF Holds(sram, n) \/ Len(sram) < SramLines
       THEN /\ sram' = PutLine(sram, n, [number |-> n, text |-> t])
            /\ Accept(With(accepted, n, t))
       ELSE Fail(FALSE) /\ UNCHANGED sram
    /\ UNCHANGED mem

\* The text goes to a free slot, so that the old line stays readable until
\* the index changes; only a full store overwrites the line in place.
SetLinePsram(n, t) ==
    LET free == FreeSlots(Index)
        full == free = {}
        slot == IF full THEN Index[At(Index, n)].slot ELSE Lowest(free)
        next == PutLine(Index, n, Entry(n, t, slot))
    IN  /\ store = "psram"
        /\ UNCHANGED sram
        /\ IF Len(Index) = Slots /\ ~Holds(Index, n)
           THEN Fail(FALSE) /\ UNCHANGED mem
           ELSE \E tw \in TextWrites(mem, slot, t) :
                  IF ~tw.ok
                  THEN /\ mem' = Tidy(tw.mem, IndexAt, Index) /\ Fail(full)
                  ELSE \E iw \in IndexWrites(tw.mem, Index, next) :
                         /\ mem' = iw.mem
                         /\ IF iw.ok
                            THEN Accept(With(accepted, n, t))
                            ELSE Fail(full \/ iw.part > 0)

SetLine(n, t) ==
    /\ ~suspended /\ store # "sd"
    /\ ~SameLine(n, t)
    /\ SetLineSram(n, t) \/ SetLinePsram(n, t)
    /\ OthersUnchanged /\ UNCHANGED <<store, suspended>>

EraseSram(n) ==
    /\ store = "sram"
    /\ Holds(sram, n)
    /\ sram' = RemoveAt(sram, At(sram, n))
    /\ Accept(Without(accepted, {n}))
    /\ UNCHANGED mem

ErasePsram(n) ==
    /\ store = "psram"
    /\ Holds(Index, n)
    /\ \E iw \in IndexWrites(mem, Index, RemoveAt(Index, At(Index, n))) :
         /\ mem' = iw.mem
         /\ IF iw.ok THEN Accept(Without(accepted, {n})) ELSE Fail(iw.part > 0)
    /\ UNCHANGED sram

\* Erasing does not ask whether the store is suspended.
EraseLine(n) ==
    /\ EraseSram(n) \/ ErasePsram(n)
    /\ OthersUnchanged /\ UNCHANGED <<store, suspended>>

-----------------------------------------------------------------------------
(* Two lines at once: all or nothing.  `edit` gives each number its new text *)
(* or Junk, which deletes the line.                                         *)

Pair(m, t, n, u) == [k \in {m, n} |-> IF k = m THEN t ELSE u]

Kept(edit) == {n \in DOMAIN edit : edit[n] # Junk}

Edited(p, edit) ==
    [n \in Kept(edit) \cup (DOMAIN p \ DOMAIN edit) |->
        IF n \in Kept(edit) THEN edit[n] ELSE p[n]]

Unchanging(lines, edit) ==
    LET at == Ascending({i \in DOMAIN lines : lines[i].number \notin DOMAIN edit})
    IN  [i \in DOMAIN at |-> lines[at[i]]]

PairFits(edit, limit) ==
    Len(Unchanging(Listing, edit)) + Cardinality(Kept(edit)) <= limit

InsertKept(lines, edit, n) ==
    IF n \in Kept(edit) THEN PutLine(lines, n, [number |-> n, text |-> edit[n]])
    ELSE lines

PairSram(edit, order) ==
    /\ store = "sram"
    /\ PairFits(edit, SramLines)
    /\ sram' = InsertKept(InsertKept(Unchanging(sram, edit), edit, order[1]), edit, order[2])
    /\ Accept(Edited(accepted, edit))
    /\ UNCHANGED <<mem, suspended>>

\* The slots the new texts take: the lowest ones no kept line uses, in the
\* order the caller names the lines.
PairSlots(edit, order) ==
    LET free == FreeSlots(Unchanging(Index, edit))
        lowest == Lowest(free)
    IN  [n \in Kept(edit) |->
            IF order[1] = n \/ order[1] \notin Kept(edit) THEN lowest
            ELSE Lowest(free \ {lowest})]

Appended(entries, edit, slots, n) ==
    IF n \in Kept(edit) THEN Append(entries, Entry(n, edit[n], slots[n])) ELSE entries

PairIndex(edit, order, slots) ==
    InOrder(Appended(Appended(Unchanging(Index, edit), edit, slots, order[1]),
                     edit, slots, order[2]))

\* The texts are written in the caller's order until one write fails.
PairTexts(edit, order, slots) ==
    LET first  == order[1]
        second == order[2]
        one == IF first \in Kept(edit) THEN TextWrites(mem, slots[first], edit[first])
               ELSE {[ok |-> TRUE, mem |-> mem]}
    IN  {w \in one : ~w.ok}
        \cup UNION {IF second \in Kept(edit) THEN TextWrites(w.mem, slots[second], edit[second])
                    ELSE {w} : w \in {x \in one : x.ok}}

\* Slip: the roll-back restores the index and forgets the texts.
RolledBackIndexOnly(m, old, edit) ==
    {[ok |-> TRUE, mem |-> PutIndex(m, IndexAt, old)]}

\* The roll-back puts the old texts and the old index back; every one of its
\* writes may fail as well.
RolledBack(m, old, edit) ==
    LET lost == {e \in {old[i] : i \in DOMAIN old} : e.number \in DOMAIN edit}
        whole == [at \in DOMAIN m |->
                    IF at = IndexAt THEN [by |-> "ProgramStore", data |-> old]
                    ELSE IF \E e \in lost : at = SlotAt(e.slot)
                    THEN mem[at] ELSE m[at]]
        torn == {[at \in DOMAIN m |->
                    IF at \in bad /\ at = IndexAt THEN m[at]
                    ELSE IF at \in bad THEN [by |-> "ProgramStore", data |-> Junk]
                    ELSE whole[at]] :
                    bad \in SUBSET ((IF old = << >> THEN {} ELSE {IndexAt})
                                     \cup {SlotAt(e.slot) : e \in lost}) \ {{}}}
    IN  {[ok |-> TRUE, mem |-> Tidy(whole, IndexAt, old)]}
        \cup {[ok |-> FALSE, mem |-> Tidy(b, IndexAt, b[IndexAt].data)] : b \in torn}

PairPsram(edit, order) ==
    LET slots == PairSlots(edit, order)
        next == PairIndex(edit, order, slots)
    IN  /\ store = "psram"
        /\ PairFits(edit, Slots)
        /\ \A i \in DOMAIN Index :
              Index[i].number \in DOMAIN edit => EntryText(Index[i]) # Junk
        /\ UNCHANGED sram
        /\ \E tw \in PairTexts(edit, order, slots) :
           \E iw \in IF tw.ok THEN IndexWrites(tw.mem, Index, next)
                     ELSE {[ok |-> FALSE, mem |-> tw.mem]} :
             IF iw.ok
             THEN mem' = iw.mem /\ Accept(Edited(accepted, edit)) /\ UNCHANGED suspended
             ELSE \E back \in RolledBack(iw.mem, Index, edit) :
                    /\ mem' = back.mem
                    /\ suspended' = ~back.ok
                    /\ Fail(~back.ok)

ReplaceLinePair(edit, order) ==
    /\ ~suspended
    /\ PairSram(edit, order) \/ PairPsram(edit, order)
    /\ OthersUnchanged /\ UNCHANGED store

-----------------------------------------------------------------------------
(* NEW and LOAD.                                                            *)

Clear ==
    /\ ~suspended /\ store # "sd"
    /\ IF store = "psram"
       THEN mem' = PutIndex(mem, IndexAt, << >>) /\ UNCHANGED sram
       ELSE sram' = << >> /\ UNCHANGED mem
    /\ Replace(NoProgram)
    /\ OthersUnchanged /\ UNCHANGED <<store, suspended>>

\* The SRAM program moves to PSRAM when a region can be had by now; a write
\* that fails gives the region back.
Migrations ==
    {[store |-> store, sram |-> sram, region |-> region, mem |-> mem]}
    \cup (IF store = "sram" /\ available /\ Len(sram) <= Slots
          THEN {[store |-> "psram", sram |-> << >>, region |-> r,
                 mem |-> [at \in DOMAIN mem |->
                    LET base == r["ProgramStore"].base
                    IN  IF at = base
                        THEN [by |-> "ProgramStore",
                              data |-> [i \in DOMAIN sram |->
                                  Entry(sram[i].number, sram[i].text, i)]]
                        ELSE IF at - base \in 1 .. Slots
                        THEN [by |-> "ProgramStore",
                              data |-> IF at - base \in DOMAIN sram
                                       THEN sram[at - base].text ELSE Junk]
                        ELSE mem[at]]] :
                  r \in Claims(region, "ProgramStore", StoreSize)}
          ELSE {})

\* It stays where it is only if no region is free or a write fails.
Migrated ==
    {m \in Migrations :
        m.store = "sram" =>
            \/ WriteFaults \/ ~available \/ Len(sram) > Slots
            \/ Claims(region, "ProgramStore", StoreSize) = {}}

\* The first k lines of the file are in the array the load has blanked.
HalfLoaded(lines, k) ==
    [i \in DOMAIN sram |->
        IF i <= k THEN lines[i] ELSE [number |-> 0, text |-> Blank]]

LoadSram(m, file) ==
    /\ m.store = "sram"
    /\ mem' = m.mem
    /\ IF Cardinality(DOMAIN file) > SramLines
       THEN Fail(FALSE) /\ UNCHANGED sram
       ELSE \/ sram' = Lines(file) /\ Replace(file)
            \/ \E k \in 0 .. Cardinality(DOMAIN file) :
                  /\ sram' = HalfLoaded(Lines(file), k)
                  /\ Fail(TRUE)

\* The texts go to slots 1, 2, ... whatever lines of the old program they
\* hold; the file, or a write, may fail after any of them.
TextsLoaded(m, lines, k) ==
    [at \in DOMAIN m.mem |->
        LET i == at - m.region["ProgramStore"].base
        IN  IF i \in 1 .. k THEN [by |-> "ProgramStore", data |-> lines[i].text]
            ELSE m.mem[at]]

LoadPsram(m, file) ==
    LET lines == Lines(file)
        at == m.region["ProgramStore"].base
        new == [i \in DOMAIN lines |-> Entry(lines[i].number, lines[i].text, i)]
        torn(k) == IF WriteFaults /\ k < Len(lines)
                   THEN {Put(TextsLoaded(m, lines, k), "ProgramStore", at + k + 1, Junk)}
                   ELSE {}
    IN  /\ m.store = "psram"
        /\ Cardinality(DOMAIN file) <= Slots
        /\ sram' = m.sram
        /\ \/ /\ mem' = PutIndex(TextsLoaded(m, lines, Len(lines)), at, new)
              /\ Replace(file)
           \/ /\ \E k \in 0 .. Len(lines) :
                   \E x \in {TextsLoaded(m, lines, k)} \cup torn(k) :
                      mem' = Tidy(x, at, m.mem[at].data)
              /\ Fail(TRUE)
           \/ /\ WriteFaults /\ lines # << >>
              /\ \E k \in 0 .. Len(lines) - 1 :
                   mem' = PutIndex(TextsLoaded(m, lines, Len(lines)), at,
                                   Overwritten(m.mem[at].data, new, k))
              /\ Fail(TRUE)

\* A file that cannot be opened still leaves the program where it moved to.
LoadMissing(m) ==
    /\ mem' = m.mem /\ sram' = m.sram
    /\ Fail(FALSE)

Load(file) ==
    /\ ~suspended /\ store # "sd"
    /\ \E m \in Migrated :
         /\ LoadSram(m, file) \/ LoadPsram(m, file) \/ LoadMissing(m)
         /\ store' = m.store
         /\ region' = m.region
    /\ UNCHANGED <<available, suspended, sdCache, direct>>

-----------------------------------------------------------------------------
(* Changing the program's place, and edits while it is on the card.         *)

\* The lines, or nothing, are written to a work file on the card.  A bound:
\* a program that an edit left exposed is not carried over, only given up.
SwitchToSd(discard) ==
    /\ store # "sd"
    /\ discard \/ (~suspended /\ Legible /\ ~exposed)
    /\ Replace(IF discard THEN NoProgram
              ELSE [n \in {Listing[i].number : i \in DOMAIN Listing} |->
                      Listing[At(Listing, n)].text])
    /\ store' = "sd"
    /\ sram' = << >>
    /\ region' = Released(region, {"ProgramStore"})
    /\ mem' = Scrub(mem, region, {"ProgramStore"})
    /\ suspended' = FALSE
    /\ UNCHANGED <<available, sdCache, direct>>

\* An edit of a line (m = n) or of two, NEW or LOAD of the SD backend publishes
\* a whole new work file.
EditOnCard ==
    /\ store = "sd"
    /\ \E p \in Files \cup {NoProgram}
                 \cup {Edited(accepted, Pair(m, t, n, u)) :
                         m \in Number, n \in Number,
                         t \in Text \cup {Junk}, u \in Text \cup {Junk}} :
         p # accepted /\ Accept(p)
    /\ OthersUnchanged /\ UNCHANGED <<mem, store, sram, suspended>>

\* Reading a line from the card allocates the line cache if it can.
ReadOnCard ==
    /\ store = "sd" /\ ~sdCache /\ available
    /\ region' \in Claims(region, "SdCache", 1)
    /\ sdCache' = TRUE
    /\ mem' = [at \in DOMAIN mem |->
                 IF at = region'["SdCache"].base
                 THEN [by |-> "SdCache", data |-> Junk] ELSE mem[at]]
    /\ UNCHANGED <<available, store, sram, suspended, cache, direct,
                   accepted, exposed>>

\* The lines are entered one by one into a store of their own; the card's
\* cache is given up only after that.
SwitchToRam(discard) ==
    LET p == IF discard THEN NoProgram ELSE accepted
        lines == Lines(p)
        freed == Released(region, {"SdCache"})
        without == IF sdCache THEN Scrub(mem, region, {"SdCache"}) ELSE mem
        places == IF available THEN Claims(region, "ProgramStore", StoreSize) ELSE {}
        fill(r, m) ==
            [at \in DOMAIN m |->
                LET i == at - r["ProgramStore"].base
                IN  IF i \notin 0 .. Slots THEN m[at]
                    ELSE [by |-> "ProgramStore",
                          data |-> IF i = 0
                                   THEN [j \in DOMAIN lines |->
                                           Entry(lines[j].number, lines[j].text, j)]
                                   ELSE IF i \in DOMAIN lines THEN lines[i].text
                                   ELSE Junk]]
    IN  /\ store = "sd"
        /\ \/ \E r \in places :
                /\ Len(lines) <= Slots
                /\ store' = "psram" /\ sram' = << >>
                /\ region' = Released(r, {"SdCache"})
                /\ mem' = fill(r, without)
           \/ /\ places = {} \/ WriteFaults
              /\ Len(lines) <= SramLines
              /\ \/ \E r \in IF available THEN Claims(freed, "ProgramStore", StoreSize) ELSE {} :
                      /\ store' = "psram" /\ sram' = << >>
                      /\ region' = r
                      /\ mem' = fill(r, without)
                 \/ /\ \/ WriteFaults \/ ~available
                       \/ Claims(freed, "ProgramStore", StoreSize) = {}
                    /\ store' = "sram" /\ sram' = lines
                    /\ region' = freed
                    /\ mem' = without
        /\ Accept(p)
        /\ sdCache' = FALSE
        /\ UNCHANGED <<available, suspended, direct>>

-----------------------------------------------------------------------------
(* RUN and the compiled program.                                            *)

\* A program of one line compiles to one unit, a longer one to two.
ImageSize(lines) == IF Len(lines) > 1 THEN 2 ELSE 1

\* The compiled form is written in pieces: a write that fails gives it up.
StoreCompiled(lines) ==
    LET freed == Released(region, {"CompiledCache"})
        places == IF available THEN Claims(freed, "CompiledCache", ImageSize(lines)) ELSE {}
    IN  \/ \E r \in places :
              /\ region' = r
              /\ mem' = Put(Scrub(mem, region, {"CompiledCache"}), "CompiledCache",
                            r["CompiledCache"].base, lines)
              /\ cache' = [valid |-> TRUE, current |-> TRUE]
        \/ /\ places = {} \/ WriteFaults
           /\ region' = freed
           /\ mem' = Scrub(mem, region, {"CompiledCache"})
           /\ cache' = [valid |-> FALSE, current |-> FALSE]

\* Slip: the compiled program is forgotten, its region is not given back.
DropCompiledLeaks ==
    /\ UNCHANGED <<region, mem>>
    /\ cache' = [valid |-> FALSE, current |-> FALSE]

DropCompiled ==
    /\ region' = Released(region, {"CompiledCache"})
    /\ mem' = Scrub(mem, region, {"CompiledCache"})
    /\ cache' = [valid |-> FALSE, current |-> FALSE]

\* A hit changes nothing; a miss compiles the source as it reads, if it can.
Run ==
    /\ ~(cache.valid /\ cache.current)
    /\ IF suspended \/ ~Legible THEN DropCompiled ELSE StoreCompiled(Listing)
    /\ UNCHANGED <<available, store, sram, suspended, sdCache, direct,
                   accepted, exposed>>

\* The background service gives up a compiled program of an older revision.
ServiceBackground ==
    /\ cache.valid /\ ~cache.current
    /\ DropCompiled
    /\ UNCHANGED <<available, store, sram, suspended, sdCache, direct,
                   accepted, exposed>>

-----------------------------------------------------------------------------
(* The other clients.                                                       *)

Take(c, n) ==
    /\ available
    /\ region' \in Claims(region, c, n)
    /\ mem' = [at \in DOMAIN mem |->
                 IF region'[c].base <= at /\ at < End(region'[c])
                 THEN [by |-> c, data |-> Junk] ELSE mem[at]]

Give(c) == region' = Released(region, {c}) /\ mem' = Scrub(mem, region, {c})

ProgramUnchanged ==
    UNCHANGED <<store, sram, suspended, cache, accepted, exposed>>

\* The direct-mode variables move to SRAM when a write fails, for good.
StoreDirect ==
    /\ \/ /\ direct = "none" /\ Take("DirectState", 1) /\ direct' = "psram"
       \/ /\ direct = "none"
          /\ ~available \/ WriteFaults \/ Claims(region, "DirectState", 1) = {}
          /\ direct' = "sram" /\ UNCHANGED <<region, mem>>
       \/ /\ direct = "psram" /\ WriteFaults
          /\ Give("DirectState") /\ direct' = "sram"
    /\ ProgramUnchanged /\ UNCHANGED <<available, sdCache>>

ClearDirect ==
    /\ direct # "none"
    /\ IF direct = "psram" THEN Give("DirectState") ELSE UNCHANGED <<region, mem>>
    /\ direct' = "none"
    /\ ProgramUnchanged /\ UNCHANGED <<available, sdCache>>

\* The menu gives up what can be read or compiled again, whether or not the
\* device turns out to be free afterwards.
Disposable == {"SdCache", "CompiledCache"}

GiveUpDisposable ==
    /\ region' = Released(region, Disposable)
    /\ cache' = [valid |-> FALSE, current |-> FALSE]
    /\ sdCache' = FALSE
    /\ UNCHANGED <<store, sram, suspended, direct, accepted, exposed>>

DeviceFree == Used(region) \subseteq Disposable

\* The test patterns cover the whole device.
RunDiagnostic ==
    /\ available
    /\ GiveUpDisposable
    /\ mem' = IF DeviceFree
              THEN [at \in DOMAIN mem |-> [by |-> "test", data |-> Junk]]
              ELSE Scrub(mem, region, Disposable)
    /\ UNCHANGED available

\* Probing again may find a device that was missing, or lose one.
Reprobe ==
    /\ GiveUpDisposable
    /\ mem' = Scrub(mem, region, Disposable)
    /\ available' \in IF DeviceFree THEN BOOLEAN ELSE {available}

-----------------------------------------------------------------------------
\* After initialize(INTERNAL RAM): the empty program has its place.
Init ==
    /\ available \in BOOLEAN
    /\ LET idle == [c \in Client |-> Idle]
           places == IF available THEN Claims(idle, "ProgramStore", StoreSize) ELSE {}
       IN  region \in places \cup (IF places = {} \/ WriteFaults THEN {idle} ELSE {})
    /\ store = IF Used(region) = {} THEN "sram" ELSE "psram"
    /\ mem = [at \in 0 .. Capacity - 1 |->
                IF store = "psram" /\ at < StoreSize
                THEN [by |-> "ProgramStore", data |-> IF at = 0 THEN << >> ELSE Junk]
                ELSE [by |-> "nobody", data |-> Junk]]
    /\ sram = << >>
    /\ suspended = FALSE /\ exposed = FALSE
    /\ cache = [valid |-> FALSE, current |-> FALSE]
    /\ sdCache = FALSE /\ direct = "none"
    /\ accepted = NoProgram

Next ==
    \/ \E n \in Number, t \in Text : SetLine(n, t)
    \/ \E n \in Number : EraseLine(n)
    \/ \E m, n \in Number : \E t, u \in Text \cup {Junk} :
          m # n /\ ReplaceLinePair(Pair(m, t, n, u), <<m, n>>)
    \/ Clear
    \/ \E file \in Files : Load(file)
    \/ \E discard \in BOOLEAN : SwitchToSd(discard) \/ SwitchToRam(discard)
    \/ EditOnCard \/ ReadOnCard
    \/ Run \/ ServiceBackground
    \/ StoreDirect \/ ClearDirect
    \/ RunDiagnostic \/ Reprobe

Spec == Init /\ [][Next]_vars

-----------------------------------------------------------------------------
TypeOK ==
    /\ available \in BOOLEAN
    /\ region \in [Client -> Region]
    /\ DOMAIN mem = 0 .. Capacity - 1
    /\ store \in {"psram", "sram", "sd"}
    /\ suspended \in BOOLEAN /\ exposed \in BOOLEAN
    /\ cache \in [valid : BOOLEAN, current : BOOLEAN]
    /\ sdCache \in BOOLEAN
    /\ direct \in {"none", "psram", "sram"}
    /\ accepted \in Program

\* Regions never overlap nor reach past the device, every one has a user who
\* knows of it, and nobody uses one it does not own: a forgotten or doubled
\* release, a claim at a stale address or an upgrade to PSRAM that keeps both
\* places would break it (psram_allocator.hpp, program_store.cpp:177-296).
RegionsSound ==
    /\ InRange(region) /\ Disjoint(region)
    /\ Used(region) =
         (IF store = "psram" THEN {"ProgramStore"} ELSE {})
         \cup (IF cache.valid THEN {"CompiledCache"} ELSE {})
         \cup (IF sdCache THEN {"SdCache"} ELSE {})
         \cup (IF direct = "psram" THEN {"DirectState"} ELSE {})

\* The allocator's search for a gap, in every layout that can arise, finds
\* the lowest place that fits and reports failure only when there is none.
SearchIsFirstFit ==
    \A n \in 1 .. Capacity :
        LET room == Room(region, n)
        IN  Search(region, n) = IF room = {} THEN NoPlace ELSE Lowest(room)

\* LIST shows exactly the program the successful edits made, line by line in
\* order, through failed writes and roll-backs, copies between SRAM, PSRAM and
\* the card, a full store, a neighbour's region and the diagnostics: unless a
\* single-line edit or LOAD broke off in the middle or a roll-back failed.
ListingIsAccepted ==
    ~exposed => Listing = Lines(accepted)

\* What RUN takes from the compiled-program cache is the program as it
\* stands: no accepted edit, LOAD, NEW or change of place leaves an older
\* program to run (repl.cpp:1908-1910, compiled_cache.cpp:256-266).
RunsTheProgram ==
    cache.valid /\ cache.current /\ ~exposed =>
        mem[Base("CompiledCache")] = [by |-> "CompiledCache", data |-> Lines(accepted)]

\* What the user sees is one program: LIST and RUN show the accepted one.
ProgramKept == TypeOK /\ ListingIsAccepted /\ RunsTheProgram

\* A program whose text changed has a new revision, so that RUN cannot reuse
\* what was compiled before.  docs/programming-reference-ja.md:518 says that
\* the revision changes when the source is edited, loaded, cleared or moved
\* to another storage and that an older cache is not used again; a LOAD that
\* fails after it has begun to overwrite lines breaks it.
NewTextNewRevision ==
    [][Listing' # Listing => ~cache'.current]_vars
=============================================================================

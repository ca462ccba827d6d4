------------------------ MODULE ProgramSessionProofs ------------------------
(***************************************************************************)
(* Proofs about ProgramSession, for any files, programs, commands and      *)
(* bounds on what goes wrong: while the store is in use its work file      *)
(* holds the source in memory, and no other work file is left behind       *)
(* unless a call failed (WorkFilesKept); a boot destroys no program text   *)
(* before it has adopted a session (BootKeepsTexts); and a user's program  *)
(* is replaced, never gone (UserFilesKept).  All three rest on one         *)
(* invariant, IInv.                                                        *)
(***************************************************************************)
EXTENDS ProgramSession, WellFoundedInduction, TLAPS

-----------------------------------------------------------------------------
(* The invariant.                                                          *)

Writers == DOMAIN StageOf
Stages == {"RMBEDIT", "RMBSES"}
Files == Work \cup UserFile \cup {Ses}
Program == Source \cup {NoFile, Torn}
Content == Program \cup Session
Names == UserFile \cup {NoName}
Kinds == {"none", "edit", "new", "load", "save", "clean", "keep", "usb", "boot",
          "remount", "restore", "resume", "workspace"}

Stores == [sd : BOOLEAN, suspended : BOOLEAN, dirty : BOOLEAN, src : Source,
           work : Work \cup {None}, name : Names, saved : Source \cup {Nothing}]
Ops == [kind : Kinds, pc : Pc, by : {"edit", "ses"}, into : Work \cup UserFile \cup {None},
        src : Source, work : Work \cup {None}, name : Names, dirty : BOOLEAN,
        repl : BOOLEAN]

TypedDisk ==
    /\ file \in [Files -> Content] /\ \A t \in Work \cup UserFile : file[t] \in Program
    /\ tmp \in [Stages -> Content]
    /\ bak \in [Stages -> Content] /\ bak["RMBEDIT"] \in Program
    /\ kept \in [Stages -> Files \cup {None}]
    /\ rescued \subseteq Source \cup {Torn}

TypedWriters ==
    /\ phase \in [{"edit", "ses"} -> {"closed", "open", "bad", "sealed", "moved", "undo", "done"}]
    /\ tgt \in [{"edit", "ses"} -> Files \cup {None}]
    /\ buf \in [{"edit", "ses"} -> Source \cup Session]
    /\ had \in [{"edit", "ses"} -> BOOLEAN]
    /\ res \in [{"edit", "ses"} -> {"none", "ok", "fail"}]

TypedRest ==
    /\ store \in Stores /\ op \in Ops
    /\ repl \in BOOLEAN /\ power \in BOOLEAN /\ card \in BOOLEAN /\ host \in BOOLEAN
    /\ used.faults \in Nat
    /\ DOMAIN used = {"faults", "recovery", "crashes", "stops", "edits"}

(* The writer of the operation: its target, what is to be in it, and the   *)
(* staging name.                                                           *)
Aim == IF op.by = "edit" THEN op.into ELSE Ses
Asked == IF op.by = "edit" THEN op.src ELSE Record(op)
Staged == IF op.by = "edit" THEN "RMBEDIT" ELSE "RMBSES"

(* No other writer is in use, and this one is where the operation is.      *)
Paced ==
    /\ phase["edit"] # "closed" => op.by = "edit"
    /\ phase["ses"] # "closed" => op.by = "ses"
    /\ op.pc = "fill" => phase[op.by] \in {"open", "bad"}
    /\ op.pc \notin {"fill", "commit"} => phase[op.by] = "closed"
    /\ op.pc = "commit" => phase[op.by] # "closed"
    /\ phase[op.by] # "closed" => tgt[op.by] = Aim
    /\ op.pc = "commit" /\ phase[op.by] \in {"open", "sealed", "moved", "undo"} => buf[op.by] = Asked
    /\ phase[op.by] \in {"sealed", "moved", "undo"} => tmp[Staged] = Asked
    /\ phase[op.by] = "done" => file[Aim] = Asked

(* A snapshot goes to a name that was free, so that no work file is ever   *)
(* moved aside for it.                                                     *)
Fresh ==
    /\ op.into \in Work => op.work = op.into
    /\ op.into \in Work /\ op.pc # "cleanup" => op.into # store.work
    /\ op.into \in Work /\ op.by = "edit" /\ op.pc \in {"open", "fill", "commit"} =>
          /\ phase["edit"] # "done" => file[op.into] = NoFile
          /\ phase["edit"] # "undo"
          /\ phase["edit"] = "moved" => ~had["edit"]

(* Before the session of an operation is written, and before a recovery    *)
(* adopts the one it chose, the work file it names holds the source.       *)
Backed ==
    /\ \/ op.by = "ses" /\ op.pc # "cleanup"
       \/ op.pc \in {"drop bak", "drop ses", "promote", "tidy"}
       => op.work \in Work /\ file[op.work] = op.src
    /\ op.pc \in {"verify", "undo"} => file[op.into] = op.src
    /\ op.by = "ses" /\ op.into \notin Work => store.sd /\ op.work = store.work
    /\ op.into \in UserFile => op.src = store.src
    /\ op.into \in UserFile /\ store.sd =>
          op.work \in Work /\ op.work = store.work /\ file[op.work] = op.src

(* What an operation is about, where it is.                                *)
Shaped ==
    /\ op.pc = "idle" => op = Idle
    /\ op.by = "edit" /\ op.pc \in {"open", "fill", "commit"} => op.into # None
    /\ op.pc = "verify" => op.by = "edit"
    /\ op.pc \in {"verify", "undo"} => op.into \in Work
    /\ op.pc \in {"stale tmp", "stale bak"} => op.by = "ses"
    /\ op.pc \in {"recover", "drop bak", "drop ses", "promote", "tidy", "none tmp",
                  "none bak", "preserve"} => op.by = "edit" /\ op.into = None
    /\ op.pc = "preserve" => op.kind = "boot"
    /\ op.kind = "boot" /\ op.pc # "cleanup" => ~store.sd
    /\ op.kind = "boot" /\ op.into \in Work => op.src = Empty

(* The one copy of a file that was moved aside.                            *)
Aside ==
    /\ kept["RMBSES"] \in {Ses, None} /\ kept["RMBEDIT"] \in UserFile \cup {None}
    /\ kept["RMBEDIT"] # None => bak["RMBEDIT"] # NoFile
    /\ phase["edit"] \in {"open", "sealed", "done"} => kept["RMBEDIT"] = None
    /\ phase["edit"] \in {"moved", "undo"} =>
          /\ file[op.into] = NoFile
          /\ had["edit"] => kept["RMBEDIT"] = op.into
          /\ ~had["edit"] => kept["RMBEDIT"] = None
    /\ phase["edit"] = "undo" => had["edit"]

(* A host has the card only between two operations and while the store     *)
(* does not use it; a machine that is off does nothing.                    *)
Away ==
    /\ host => power /\ op.pc = "idle" /\ (store.sd => store.suspended)
    /\ ~power => op = Idle /\ store = Blank

(* A store in use has its source on the card.                              *)
Living ==
    store.sd /\ ~store.suspended => store.work \in Work /\ file[store.work] = store.src

(* Unless a call failed, the only work file besides the live one is the    *)
(* snapshot in the making.                                                 *)
Tidy ==
    used.faults = 0 /\ store.sd /\ store.work # None /\ op.pc # "cleanup" =>
        \A w \in Work : w # store.work /\ file[w] # NoFile => w = op.into

Typed == TypedDisk /\ TypedWriters /\ TypedRest

IInv ==
    /\ Typed
    /\ Paced /\ Fresh /\ Backed /\ Shaped /\ Aside
    /\ Away /\ Living /\ Tidy

-----------------------------------------------------------------------------
(* The pieces steps are made of.                                           *)

LEMMA Apart ==
    /\ \A w \in Work : w \notin UserFile /\ w # Ses /\ w # None
    /\ \A f \in UserFile : f # Ses /\ f # None
    /\ Ses # None
    /\ NoFile # Torn /\ NoFile \notin Source /\ Torn \notin Source
    /\ NoFile \notin Session /\ Torn \notin Session
    /\ \A s \in Source : s \notin Session
    /\ Empty \in Source
  BY SessionConstants

LEMMA IdleIs ==
    /\ Idle \in Ops
    /\ Idle.kind = "none" /\ Idle.pc = "idle" /\ Idle.by = "edit"
    /\ Idle.into = None /\ Idle.src = Empty /\ Idle.work = None
  BY SessionConstants DEF Idle, Ops, Kinds, Pc, Names

LEMMA BlankIs ==
    /\ Blank \in Stores
    /\ ~Blank.sd /\ ~Blank.suspended /\ Blank.work = None /\ Blank.src = Empty
  BY SessionConstants DEF Blank, Stores, Names

LEMMA GotoIs ==
  ASSUME op \in Ops, NEW p \in Pc, Goto(p)
  PROVE  /\ op' \in Ops /\ op'.pc = p
         /\ op'.kind = op.kind /\ op'.by = op.by /\ op'.into = op.into /\ op'.src = op.src
         /\ op'.work = op.work /\ op'.name = op.name /\ op'.dirty = op.dirty
         /\ op'.repl = op.repl
  BY DEF Goto, Ops

LEMMA ReturnIs ==
  ASSUME Return
  PROVE  /\ op' = Idle /\ op' \in Ops
         /\ op'.kind = "none" /\ op'.pc = "idle" /\ op'.by = "edit"
         /\ op'.into = None /\ op'.src = Empty /\ op'.work = None
  BY IdleIs DEF Return

LEMMA SpendIs ==
  ASSUME TypedRest, NEW what, NEW n, Spends(what, n),
         what \in {"recovery", "crashes", "stops", "edits"} \/ (what = "faults" /\ n \in Nat)
  PROVE  /\ used'.faults \in Nat
         /\ DOMAIN used' = {"faults", "recovery", "crashes", "stops", "edits"}
         /\ used'.faults = 0 => used.faults = 0
         /\ what = "faults" /\ n = 1 => used'.faults # 0
         /\ what = "edits" /\ n = 1 => used'.faults = used.faults
  BY DEF Spends, TypedRest

(* The first free name: new_work_name().                                   *)
LEMMA LeastElement ==
  ASSUME NEW T, T \subseteq Nat, T # {}
  PROVE  \E m \in T : \A k \in T : m <= k
<1>1. PICK m \in T : \A k \in T : <<k, m>> \notin OpToRel(<, Nat)
  BY NatLessThanWellFounded, WFMin
<1>2. \A k \in T : k \in Nat /\ ~(k < m)
  BY <1>1 DEF OpToRel
<1>3. \A k \in T : m <= k
  BY <1>2
<1>4. QED
  BY <1>3

LEMMA NewWorkName ==
  ASSUME FreeWork # {}
  PROVE  LET w == WorkSeq[Min(FreeWork)]
         IN  w \in Work /\ file[w] = NoFile /\ w # store.work
<1>1. DOMAIN WorkSeq = 1..Len(WorkSeq) /\ Len(WorkSeq) \in Nat
  BY SessionConstants
<1>2. FreeWork \subseteq DOMAIN WorkSeq /\ FreeWork \subseteq Nat
  BY <1>1 DEF FreeWork
<1>3. \E m \in FreeWork : \A k \in FreeWork : m <= k
  BY <1>2, LeastElement
<1>4. Min(FreeWork) \in FreeWork
  BY <1>3 DEF Min
<1>5. QED
  BY <1>2, <1>4 DEF FreeWork, Work

(* publish_sd(): nothing, or a snapshot under a fresh name.                *)
Published ==
    /\ op' \in Ops
    /\ op'.pc = "open" /\ op'.by = "edit"
    /\ op'.into \in Work /\ op'.work = op'.into
    /\ file[op'.into] = NoFile /\ op'.into # store.work

LEMMA PublishIs ==
  ASSUME NEW kind \in Kinds, NEW src \in Source, NEW name \in Names,
         NEW dirty \in BOOLEAN, NEW replAfter \in BOOLEAN,
         Publish(kind, src, name, dirty, replAfter)
  PROVE  \/ op' = Idle
         \/ Published /\ op'.kind = kind /\ op'.src = src
<1>1. CASE FreeWork = {}
  BY <1>1 DEF Publish, Return
<1>2. CASE FreeWork # {}
  <2> DEFINE w == WorkSeq[Min(FreeWork)]
  <2>1. w \in Work /\ file[w] = NoFile /\ w # store.work
    BY <1>2, NewWorkName
  <2>2. op' = [kind |-> kind, pc |-> "open", by |-> "edit", into |-> w,
               src |-> src, work |-> w, name |-> name, dirty |-> dirty,
               repl |-> replAfter]
    BY <1>2 DEF Publish
  <2> HIDE DEF w
  <2>3. QED
    BY <2>1, <2>2 DEF Published, Ops, Pc
<1>3. QED
  BY <1>1, <1>2

(* Where no writer is in use and none is taken, the programs stay as they  *)
(* are, and so does all that is staged but the session.                    *)
Stays ==
    /\ file' \in [Files -> Content] /\ \A t \in Work \cup UserFile : file'[t] = file[t]
    /\ rescued' = rescued /\ UNCHANGED writers
    /\ tmp' \in [Stages -> Content]
    /\ bak' \in [Stages -> Content] /\ bak'["RMBEDIT"] = bak["RMBEDIT"]
    /\ kept' \in [Stages -> Files \cup {None}] /\ kept'["RMBEDIT"] = kept["RMBEDIT"]
    /\ kept'["RMBSES"] \in {Ses, None}

Rests ==
    /\ Stays
    /\ op' \in Ops /\ op'.pc \notin {"fill", "commit"}
    /\ store' \in Stores
    /\ repl' \in BOOLEAN /\ power' \in BOOLEAN /\ card' \in BOOLEAN /\ host' \in BOOLEAN
    /\ used'.faults \in Nat
    /\ DOMAIN used' = {"faults", "recovery", "crashes", "stops", "edits"}

LEMMA StaysAsItIs ==
  ASSUME IInv, UNCHANGED <<disk, writers>>
  PROVE  Stays
  BY DEF Stays, disk, IInv, Typed, TypedDisk, Aside

LEMMA DropTmpStays ==
  ASSUME IInv, DropTmp, UNCHANGED <<file, bak, kept, rescued, writers>>
  PROVE  Stays /\ (used'.faults = 0 => used.faults = 0)
         /\ used'.faults \in Nat
         /\ DOMAIN used' = {"faults", "recovery", "crashes", "stops", "edits"}
<1>1. TypedRest /\ TypedDisk /\ kept["RMBSES"] \in {Ses, None}
  BY DEF IInv, Typed, Aside
<1>2. tmp' \in [Stages -> Content]
  BY <1>1 DEF DropTmp, TypedDisk, Content, Program, Stages
<1>3. Stays
  BY <1>1, <1>2 DEF Stays, TypedDisk
<1>4. used' = used \/ Spends("faults", 1)
  BY DEF DropTmp, Spend
<1>5. QED
  BY <1>1, <1>3, <1>4, SpendIs DEF TypedRest

LEMMA DropBakStays ==
  ASSUME IInv, DropBak, UNCHANGED <<file, tmp, rescued, writers>>
  PROVE  Stays /\ (used'.faults = 0 => used.faults = 0)
         /\ used'.faults \in Nat
         /\ DOMAIN used' = {"faults", "recovery", "crashes", "stops", "edits"}
<1>1. TypedRest /\ TypedDisk /\ kept["RMBSES"] \in {Ses, None}
  BY DEF IInv, Typed, Aside
<1>2. /\ bak' \in [Stages -> Content] /\ bak'["RMBEDIT"] = bak["RMBEDIT"]
      /\ kept' \in [Stages -> Files \cup {None}] /\ kept'["RMBEDIT"] = kept["RMBEDIT"]
      /\ kept'["RMBSES"] \in {Ses, None}
  BY <1>1 DEF DropBak, TypedDisk, Content, Program, Stages
<1>3. Stays
  BY <1>1, <1>2 DEF Stays, TypedDisk
<1>4. used' = used \/ Spends("faults", 1)
  BY DEF DropBak, Spend
<1>5. QED
  BY <1>1, <1>3, <1>4, SpendIs DEF TypedRest

LEMMA RestsKeeps ==
  ASSUME IInv, Rests, op.pc \notin {"fill", "commit"}
  PROVE  Typed' /\ Paced' /\ Aside'
<1>1. /\ \A t \in Work \cup UserFile : file'[t] = file[t]
      /\ phase' = phase /\ tgt' = tgt /\ buf' = buf /\ had' = had /\ res' = res
  BY DEF Rests, Stays, writers
<1>2. Typed'
  <2>1. TypedDisk'
    BY <1>1 DEF IInv, Typed, TypedDisk, Rests, Stays
  <2>2. TypedWriters'
    BY <1>1 DEF IInv, Typed, TypedWriters
  <2>3. TypedRest'
    BY DEF Rests, TypedRest
  <2>4. QED
    BY <2>1, <2>2, <2>3 DEF Typed
<1>3. phase["edit"] = "closed" /\ phase["ses"] = "closed"
  BY DEF IInv, Paced, Typed, TypedRest, Ops
<1>4. op'.by \in {"edit", "ses"}
  BY DEF Rests, Ops
<1>5. Paced'
  BY <1>1, <1>3, <1>4 DEF Paced, Rests
<1>6. Aside'
  BY <1>1, <1>3 DEF IInv, Aside, Rests, Stays
<1>7. QED
  BY <1>2, <1>5, <1>6

(* An operation ends, or there is none.                                    *)
LEMMA EndsIdle ==
  ASSUME IInv, Rests, op' = Idle, op.pc \notin {"fill", "commit"}, Away', Living', Tidy'
  PROVE  IInv'
<1>1. Typed' /\ Paced' /\ Aside'
  BY RestsKeeps
<1>2. op'.pc = "idle" /\ op'.by = "edit" /\ op'.into = None /\ op'.kind = "none"
  BY IdleIs
<1>3. None \notin Work /\ None \notin UserFile
  BY Apart
<1>4. Fresh' /\ Backed' /\ Shaped'
  BY <1>2, <1>3 DEF Fresh, Backed, Shaped
<1>5. QED
  BY <1>1, <1>4 DEF IInv

(* An operation begins with a snapshot.                                    *)
LEMMA BeginsSnapshot ==
  ASSUME IInv, Rests, op.pc \notin {"fill", "commit"}, op.into = None, op.pc # "cleanup",
         op.pc # "idle" => ~host, Published, op'.kind = "boot" => ~store.sd /\ op'.src = Empty,
         store' = store, power, power' = power, ~host', used'.faults = 0 => used.faults = 0
  PROVE  IInv'
<1>1. Typed' /\ Paced' /\ Aside'
  BY RestsKeeps
<1>2. /\ \A w \in Work : file'[w] = file[w]
      /\ phase' = phase /\ had' = had
  BY DEF Rests, Stays, writers
<1>3. phase["edit"] = "closed" /\ phase["ses"] = "closed"
  BY DEF IInv, Paced, Typed, TypedRest, Ops
<1>4. Fresh'
  BY <1>2, <1>3 DEF Published, Fresh
<1>5. \A w \in Work : w # None /\ w \notin UserFile
  BY Apart
<1>6. Backed' /\ Shaped'
  BY <1>5 DEF Published, Backed, Shaped
<1>7. Away' /\ Living' /\ Tidy'
  BY <1>2, <1>5 DEF IInv, Away, Living, Tidy, Published
<1>8. QED
  BY <1>1, <1>4, <1>6, <1>7 DEF IInv

-----------------------------------------------------------------------------
(* The commands, and what happens between operations.                      *)

LEMMA IdleNow ==
  ASSUME IInv, At("idle")
  PROVE  /\ power /\ op = Idle
         /\ op.pc = "idle" /\ op.by = "edit" /\ op.into = None /\ op.kind = "none"
         /\ store \in Stores /\ repl \in BOOLEAN /\ card \in BOOLEAN /\ host \in BOOLEAN
         /\ Idle \in Ops
         /\ used.faults \in Nat
         /\ DOMAIN used = {"faults", "recovery", "crashes", "stops", "edits"}
  BY IdleIs DEF IInv, Shaped, At, Typed, TypedRest

(* A store on the card is ready only while no host has the card.           *)
LEMMA ReadyIs ==
  ASSUME IInv, Ready, store.sd
  PROVE  ~store.suspended /\ ~host /\ store.work \in Work /\ file[store.work] = store.src
  BY DEF IInv, Ready, CardUsable, Living

LEMMA StoreIs ==
  ASSUME store \in Stores
  PROVE  /\ store.sd \in BOOLEAN /\ store.suspended \in BOOLEAN /\ store.dirty \in BOOLEAN
         /\ store.src \in Source /\ store.work \in Work \cup {None}
         /\ store.name \in Names /\ store.saved \in Source \cup {Nothing}
  BY DEF Stores

LEMMA StartsIs ==
  ASSUME IInv, NEW c, Starts(c)
  PROVE  /\ At("idle") /\ UNCHANGED <<disk, writers>>
         /\ power' = power /\ card' = card /\ host' = host /\ used' = used
         /\ file' = file
  BY DEF Starts, env, disk

(* A command that leaves the store alone, or moves it to RAM.              *)
LEMMA StaysIdle ==
  ASSUME IInv, At("idle"), UNCHANGED <<disk, writers, power, card, host, used>>, op' = op,
         store' \in Stores, repl' \in BOOLEAN,
         \/ ~store'.sd
         \/ /\ store'.sd = store.sd /\ store'.work = store.work
            /\ store'.suspended \/ store' = store
  PROVE  IInv'
<1>1. /\ power /\ op = Idle /\ op.pc = "idle" /\ op.into = None
      /\ card \in BOOLEAN /\ host \in BOOLEAN /\ Idle \in Ops
      /\ used.faults \in Nat
      /\ DOMAIN used = {"faults", "recovery", "crashes", "stops", "edits"}
  BY IdleNow
<1>2. file' = file
  BY DEF disk
<1>3. Rests
  BY <1>1, StaysAsItIs DEF Rests
<1>4. Away' /\ Living'
  BY <1>1, <1>2 DEF IInv, Away, Living
<1>5. Tidy'
  BY <1>1, <1>2 DEF IInv, Tidy
<1>6. QED
  BY <1>1, <1>3, <1>4, <1>5, EndsIdle

LEMMA PublishKeeps ==
  ASSUME IInv, At("idle"), UNCHANGED <<disk, writers, store, repl, power, card, used>>, ~host', host' \in BOOLEAN,
         NEW kind \in Kinds \ {"boot"}, NEW src \in Source, NEW name \in Names,
         NEW dirty \in BOOLEAN, NEW replAfter \in BOOLEAN,
         Publish(kind, src, name, dirty, replAfter)
  PROVE  IInv'
<1>1. /\ power /\ op = Idle /\ op.pc = "idle" /\ op.into = None
      /\ store \in Stores /\ repl \in BOOLEAN
      /\ card \in BOOLEAN /\ host \in BOOLEAN /\ Idle \in Ops
      /\ used.faults \in Nat
      /\ DOMAIN used = {"faults", "recovery", "crashes", "stops", "edits"}
  BY IdleNow
<1>2. file' = file /\ power' \in BOOLEAN
  BY <1>1 DEF disk
<1>3. op' = Idle \/ (Published /\ op'.kind = kind)
  BY PublishIs
<1>4. CASE op' = Idle
  <2>1. Rests
    BY <1>1, <1>2, <1>4, IdleIs, StaysAsItIs DEF Rests
  <2>2. Away' /\ Living' /\ Tidy'
    BY <1>1, <1>2, <1>4 DEF IInv, Away, Living, Tidy
  <2>3. QED
    BY <1>1, <1>4, <2>1, <2>2, EndsIdle
<1>5. CASE Published /\ op'.kind = kind
  <2>1. op' \in Ops /\ op'.pc = "open"
    BY <1>5 DEF Published
  <2>2. Rests
    BY <1>1, <1>2, <2>1, StaysAsItIs DEF Rests
  <2>3. QED
    BY <1>1, <1>2, <1>5, <2>2, BeginsSnapshot
<1>6. QED
  BY <1>3, <1>4, <1>5

LEMMA ChangeKeeps ==
  ASSUME IInv, NEW c, Starts(c), Ready,
         NEW kind \in Kinds \ {"boot"}, NEW src \in Source, NEW name \in Names,
         NEW dirty \in BOOLEAN, Change(kind, src, name, dirty)
  PROVE  IInv'
<1>1. /\ At("idle") /\ UNCHANGED <<disk, writers>>
      /\ power' = power /\ card' = card /\ host' = host /\ used' = used
  BY StartsIs
<1>2. store \in Stores
  BY <1>1, IdleNow
<1>3. CASE store.sd /\ Publish(kind, src, name, dirty, dirty) /\ UNCHANGED <<store, repl>>
  <2>1. ~host' /\ host' \in BOOLEAN
    BY <1>1, <1>3, ReadyIs, IdleNow
  <2>2. QED
    BY <1>1, <1>3, <2>1, PublishKeeps
<1>4. CASE ~store.sd /\ Assign(src, name, dirty, dirty)
  <2>1. store' \in Stores /\ ~store'.sd /\ repl' \in BOOLEAN /\ op' = op
    <3> DEFINE saved == IF dirty THEN store.saved ELSE src
    <3>1. saved \in Source \cup {Nothing}
      BY <1>2 DEF Stores
    <3>2. store' = [store EXCEPT !.src = src, !.name = name, !.dirty = dirty, !.saved = saved]
      BY <1>4 DEF Assign
    <3> HIDE DEF saved
    <3>3. store' \in Stores /\ store'.sd = store.sd
      BY <1>2, <3>1, <3>2 DEF Stores
    <3>4. QED
      BY <1>4, <3>3 DEF Assign
  <2>2. QED
    BY <1>1, <2>1, StaysIdle
<1>5. QED
  BY <1>3, <1>4 DEF Change

LEMMA EditKeeps ==
  ASSUME IInv, NEW s \in Source, Edit(s)
  PROVE  IInv'
<1>1. Starts("edit") /\ Ready /\ Change("edit", s, store.name, TRUE)
  BY DEF Edit
<1>2. store.name \in Names
  BY StoreIs DEF IInv, Typed, TypedRest
<1>3. QED
  BY <1>1, <1>2, ChangeKeeps DEF Kinds

LEMMA NewKeeps ==
  ASSUME IInv, New
  PROVE  IInv'
<1>1. Starts("new") /\ Ready /\ Change("new", Empty, NoName, FALSE)
  BY DEF New
<1>2. QED
  BY <1>1, Apart, ChangeKeeps DEF Kinds, Names

LEMMA LoadKeeps ==
  ASSUME IInv, NEW f \in UserFile, Load(f)
  PROVE  IInv'
<1>1. Starts("load") /\ Ready /\ file[f] \in Source /\ Change("load", file[f], f, FALSE)
  BY DEF Load
<1>2. QED
  BY <1>1, ChangeKeeps DEF Kinds, Names

LEMMA EraseNothingKeeps ==
  ASSUME IInv, EraseNothing
  PROVE  IInv'
<1>1. Starts("erase") /\ repl' = store.dirty /\ store' = store /\ op' = op
  BY DEF EraseNothing
<1>2. store \in Stores /\ store.dirty \in BOOLEAN
  BY <1>1, StartsIs, IdleNow, StoreIs
<1>3. QED
  BY <1>1, <1>2, StartsIs, StaysIdle

(* SAVE and the session of a clean program work on the source in memory,   *)
(* which is the live work file's.                                          *)
LEMMA SaveKeeps ==
  ASSUME IInv, NEW f \in UserFile, Save(f)
  PROVE  IInv'
<1>1. /\ At("idle") /\ UNCHANGED <<disk, writers>>
      /\ power' = power /\ card' = card /\ host' = host /\ used' = used /\ file' = file
  BY StartsIs DEF Save
<1>2. /\ Ready /\ CardUsable /\ store' = store /\ repl' = repl
      /\ op' = [kind |-> "save", pc |-> "open", by |-> "edit", into |-> f,
                src |-> store.src, work |-> store.work, name |-> f,
                dirty |-> FALSE, repl |-> FALSE]
  BY DEF Save
<1>3. /\ power /\ op = Idle /\ op.pc = "idle" /\ op.into = None
      /\ store \in Stores /\ repl \in BOOLEAN
      /\ card \in BOOLEAN /\ host \in BOOLEAN
      /\ used.faults \in Nat
      /\ DOMAIN used = {"faults", "recovery", "crashes", "stops", "edits"}
  BY <1>1, IdleNow
<1>4. ~host
  BY <1>2 DEF CardUsable
<1>5. /\ op' \in Ops /\ op'.pc = "open" /\ op'.by = "edit" /\ op'.into = f
      /\ op'.src = store.src /\ op'.work = store.work /\ op'.kind = "save"
  BY <1>2, <1>3, StoreIs DEF Ops, Kinds, Pc, Names
<1>6. Rests
  BY <1>1, <1>2, <1>3, <1>5, StaysAsItIs DEF Rests
<1>7. Typed' /\ Paced' /\ Aside'
  BY <1>3, <1>6, RestsKeeps
<1>8. f \notin Work /\ f # None
  BY Apart
<1>9. Fresh' /\ Shaped'
  BY <1>5, <1>8 DEF Fresh, Shaped
<1>10. Backed'
  BY <1>1, <1>2, <1>5, <1>8, ReadyIs DEF Backed
<1>11. Away' /\ Living' /\ Tidy'
  <2>1. \A w \in Work : w # None
    BY Apart
  <2>2. QED
    BY <1>1, <1>2, <1>3, <1>4, <1>5, <1>8, <2>1 DEF IInv, Away, Living, Tidy
<1>12. QED
  BY <1>7, <1>9, <1>10, <1>11 DEF IInv

LEMMA MarkCleanKeeps ==
  ASSUME IInv, MarkClean
  PROVE  IInv'
<1>1. /\ At("idle") /\ UNCHANGED <<disk, writers>>
      /\ power' = power /\ card' = card /\ host' = host /\ used' = used /\ file' = file
  BY StartsIs DEF MarkClean
<1>2. /\ power /\ op = Idle /\ op.pc = "idle" /\ op.into = None
      /\ store \in Stores /\ repl \in BOOLEAN
      /\ card \in BOOLEAN /\ host \in BOOLEAN
      /\ used.faults \in Nat
      /\ DOMAIN used = {"faults", "recovery", "crashes", "stops", "edits"}
  BY <1>1, IdleNow
<1>3. CASE ~store.sd /\ Assign(store.src, store.name, FALSE, FALSE)
  <2>1. store' = [store EXCEPT !.src = store.src, !.name = store.name, !.dirty = FALSE,
                               !.saved = store.src]
    BY <1>3 DEF Assign
  <2>2. store' \in Stores /\ ~store'.sd
    BY <1>2, <1>3, <2>1 DEF Stores
  <2>3. QED
    BY <1>1, <1>3, <2>2, StaysIdle DEF Assign
<1>4. CASE /\ store.sd /\ Ready
           /\ op' = [kind |-> "clean", pc |-> "stale tmp", by |-> "ses",
                     into |-> None, src |-> store.src, work |-> store.work,
                     name |-> store.name, dirty |-> FALSE, repl |-> FALSE]
           /\ UNCHANGED <<store, repl>>
  <2>1. /\ op' \in Ops /\ op'.pc = "stale tmp" /\ op'.by = "ses" /\ op'.into = None
        /\ op'.src = store.src /\ op'.work = store.work /\ op'.kind = "clean"
    BY <1>2, <1>4, StoreIs DEF Ops, Kinds, Pc
  <2>2. ~host /\ store.work \in Work /\ file[store.work] = store.src
    BY <1>4, ReadyIs
  <2>3. Rests
    BY <1>1, <1>2, <1>4, <2>1, StaysAsItIs DEF Rests
  <2>4. Typed' /\ Paced' /\ Aside'
    BY <1>2, <2>3, RestsKeeps
  <2>5. None \notin Work /\ None \notin UserFile
    BY Apart
  <2>6. Fresh' /\ Shaped'
    BY <2>1, <2>5 DEF Fresh, Shaped
  <2>7. Backed'
    BY <1>1, <1>4, <2>1, <2>2, <2>5 DEF Backed
  <2>8. Away' /\ Living' /\ Tidy'
    BY <1>1, <1>2, <1>4, <2>1, <2>2, <2>5 DEF IInv, Away, Living, Tidy
  <2>9. QED
    BY <2>4, <2>6, <2>7, <2>8 DEF IInv
<1>5. QED
  BY <1>3, <1>4 DEF MarkClean

LEMMA SwitchKeeps ==
  ASSUME IInv, SwitchToRam \/ SwitchToSd
  PROVE  IInv'
<1>1. CASE SwitchToRam
  <2>1. /\ At("idle") /\ UNCHANGED <<disk, writers>> /\ op' = op
        /\ power' = power /\ card' = card /\ host' = host /\ used' = used
    BY <1>1, StartsIs DEF SwitchToRam
  <2>2. store \in Stores /\ repl \in BOOLEAN
    BY <2>1, IdleNow
  <2>3. store' \in Stores /\ ~store'.sd /\ repl' \in BOOLEAN
    <3>1. CASE /\ store' = [store EXCEPT !.sd = FALSE, !.work = None,
                                         !.dirty = store.src # Empty]
               /\ UNCHANGED repl
      BY <2>2, <3>1 DEF Stores
    <3>2. CASE store' = Blank /\ repl' = FALSE
      BY <3>2, BlankIs
    <3>3. QED
      BY <1>1, <3>1, <3>2 DEF SwitchToRam
  <2>4. QED
    BY <2>1, <2>3, StaysIdle
<1>2. CASE SwitchToSd
  <2>1. /\ At("idle") /\ UNCHANGED <<disk, writers>>
        /\ power' = power /\ card' = card /\ host' = host /\ used' = used
    BY <1>2, StartsIs DEF SwitchToSd
  <2>2. store \in Stores /\ repl \in BOOLEAN
    BY <2>1, IdleNow
  <2>3. ~host' /\ host' \in BOOLEAN /\ store' = store /\ repl' = repl
    BY <1>2, <2>1, IdleNow DEF SwitchToSd, CardUsable
  <2>4. CASE Publish("keep", store.src, store.name, store.dirty, repl)
    BY <2>1, <2>2, <2>3, <2>4, StoreIs, PublishKeeps DEF Kinds
  <2>5. CASE Publish("new", Empty, NoName, FALSE, FALSE)
    BY <2>1, <2>3, <2>5, Apart, PublishKeeps DEF Kinds, Names
  <2>6. QED
    BY <1>2, <2>4, <2>5 DEF SwitchToSd
<1>3. QED
  BY <1>1, <1>2

(* What every step that changes no file has to show of the environment.    *)
Calm ==
    /\ Stays
    /\ power /\ power' = power /\ card' = card /\ host' = host /\ ~host
    /\ used'.faults = 0 => used.faults = 0
    /\ used'.faults \in Nat
    /\ DOMAIN used' = {"faults", "recovery", "crashes", "stops", "edits"}

LEMMA CalmRests ==
  ASSUME IInv, Calm, op' \in Ops, op'.pc \notin {"fill", "commit"}, store' \in Stores,
         repl' \in BOOLEAN
  PROVE  Rests
<1>1. power \in BOOLEAN /\ card \in BOOLEAN /\ host \in BOOLEAN
  BY DEF IInv, Typed, TypedRest
<1>2. QED
  BY <1>1 DEF Calm, Rests

LEMMA CalmPublish ==
  ASSUME IInv, Calm, op.pc \in {"idle", "none bak", "promote", "preserve"},
         UNCHANGED <<store, repl>>,
         NEW kind \in Kinds, NEW src \in Source, NEW name \in Names,
         NEW dirty \in BOOLEAN, NEW replAfter \in BOOLEAN,
         Publish(kind, src, name, dirty, replAfter),
         kind = "boot" => ~store.sd /\ src = Empty
  PROVE  IInv'
<1>1. /\ op.into = None /\ store \in Stores /\ repl \in BOOLEAN /\ Idle \in Ops
  BY IdleIs DEF IInv, Shaped, Typed, TypedRest
<1>2. /\ power /\ power' = power /\ host' = host /\ ~host /\ (\A w \in Work : file'[w] = file[w])
      /\ used'.faults = 0 => used.faults = 0
  BY DEF Calm, Stays
<1>3. op' = Idle \/ (Published /\ op'.kind = kind /\ op'.src = src)
  BY PublishIs
<1>4. CASE op' = Idle
  <2>1. Rests
    BY <1>1, <1>4, IdleIs, CalmRests
  <2>2. Away' /\ Living'
    BY <1>1, <1>2, <1>4 DEF IInv, Away, Living
  <2>3. Tidy'
    BY <1>1, <1>2, <1>4, IdleIs DEF IInv, Tidy
  <2>4. QED
    BY <1>4, <2>1, <2>2, <2>3, EndsIdle
<1>5. CASE Published /\ op'.kind = kind /\ op'.src = src
  <2>1. op' \in Ops /\ op'.pc = "open"
    BY <1>5 DEF Published
  <2>2. Rests
    BY <1>1, <2>1, CalmRests
  <2>3. QED
    BY <1>1, <1>2, <1>5, <2>2, BeginsSnapshot
<1>6. QED
  BY <1>3, <1>4, <1>5

(* An operation that ends and leaves the store and the targets alone.      *)
LEMMA CalmReturn ==
  ASSUME IInv, Calm, op.pc \in {"idle", "none bak", "promote", "preserve"}, Return,
         store' = store, repl' \in BOOLEAN
  PROVE  IInv'
<1>1. op.into = None /\ store \in Stores /\ None \notin Work
  <2>1. None \notin Work
    BY Apart
  <2>2. QED
    BY <2>1, IdleIs DEF IInv, Shaped, Typed, TypedRest
<1>2. /\ power /\ power' = power /\ host' = host /\ ~host /\ (\A w \in Work : file'[w] = file[w])
      /\ used'.faults = 0 => used.faults = 0
  BY DEF Calm, Stays
<1>3. op' = Idle /\ op' \in Ops /\ op'.pc = "idle" /\ op'.into = None
  BY ReturnIs
<1>4. Rests
  BY <1>1, <1>3, CalmRests
<1>5. Away' /\ Living' /\ Tidy'
  BY <1>1, <1>2, <1>3 DEF IInv, Away, Living, Tidy
<1>6. QED
  BY <1>3, <1>4, <1>5, EndsIdle

(* resume(): a store with a work file is used again only if the file has   *)
(* the source in memory.                                                   *)
LEMMA ResumeKeeps ==
  ASSUME IInv, Calm, op.pc \in {"idle", "none bak", "promote"}, store.sd,
         NEW replAfter \in BOOLEAN, Resume(replAfter)
  PROVE  IInv'
<1>1. /\ op.into = None /\ store \in Stores /\ repl \in BOOLEAN
      /\ store.work \in Work \cup {None} /\ None \notin Work
  <2>1. None \notin Work
    BY Apart
  <2>2. op.into = None /\ store \in Stores /\ repl \in BOOLEAN
    BY IdleIs DEF IInv, Shaped, Typed, TypedRest
  <2>3. QED
    BY <2>1, <2>2, StoreIs
<1>2. CASE store.work = None
  <2>1. Publish("resume", Empty, NoName, FALSE, replAfter) /\ UNCHANGED <<store, repl>>
    BY <1>2 DEF Resume
  <2>2. QED
    BY <2>1, Apart, CalmPublish DEF Kinds, Names
<1>3. CASE store.work # None
  <2> DEFINE b == (file[store.work] # store.src)
  <2>1. /\ Return
        /\ store' = [store EXCEPT !.suspended = b]
        /\ repl' = IF file[store.work] = store.src THEN replAfter ELSE repl
    BY <1>3 DEF Resume
  <2>2. b \in BOOLEAN /\ (~b <=> file[store.work] = store.src)
    OBVIOUS
  <2> HIDE DEF b
  <2>3. /\ store' \in Stores /\ store'.sd = store.sd /\ store'.work = store.work
        /\ store'.src = store.src /\ (store'.suspended <=> b)
    BY <1>1, <2>1, <2>2 DEF Stores
  <2>4. repl' \in BOOLEAN
    BY <1>1, <2>1
  <2>5. op' = Idle /\ op' \in Ops /\ op'.pc = "idle" /\ op'.into = None
    BY <2>1, ReturnIs
  <2>6. Rests
    BY <2>3, <2>4, <2>5, CalmRests
  <2>7. /\ power /\ power' = power /\ host' = host /\ ~host /\ (\A w \in Work : file'[w] = file[w])
        /\ used'.faults = 0 => used.faults = 0
    BY DEF Calm, Stays
  <2>8. Away' /\ Living' /\ Tidy'
    BY <1>1, <1>3, <2>2, <2>3, <2>5, <2>7 DEF IInv, Away, Living, Tidy
  <2>9. QED
    BY <2>5, <2>6, <2>8, EndsIdle
<1>4. QED
  BY <1>2, <1>3

LEMMA ResumeStorageKeeps ==
  ASSUME IInv, ResumeStorage
  PROVE  IInv'
<1>1. Starts("resume") /\ store.sd /\ CardUsable /\ Resume(repl)
  BY DEF ResumeStorage
<1>2. /\ At("idle") /\ UNCHANGED <<disk, writers>>
      /\ power' = power /\ card' = card /\ host' = host /\ used' = used
  BY <1>1, StartsIs
<1>3. /\ power /\ op.pc = "idle" /\ repl \in BOOLEAN /\ used.faults \in Nat
      /\ DOMAIN used = {"faults", "recovery", "crashes", "stops", "edits"}
  BY <1>2, IdleNow
<1>4. Calm
  BY <1>1, <1>2, <1>3, StaysAsItIs DEF Calm, CardUsable
<1>5. QED
  BY <1>1, <1>3, <1>4, ResumeKeeps

LEMMA CommandCalm ==
  ASSUME IInv, At("idle"), CardUsable, UNCHANGED <<disk, writers>>,
         power' = power, card' = card, host' = host, used' = used
  PROVE  Calm
<1>1. /\ power /\ used.faults \in Nat
      /\ DOMAIN used = {"faults", "recovery", "crashes", "stops", "edits"}
  BY IdleNow
<1>2. QED
  BY <1>1, StaysAsItIs DEF Calm, CardUsable

(* The recovery begins.                                                    *)
LEMMA RecoverBegins ==
  ASSUME IInv, Rests, op.pc \notin {"fill", "commit"}, NEW kind \in Kinds, op.pc # "cleanup",
         op.into = None, op' = [Idle EXCEPT !.kind = kind, !.pc = "recover"],
         kind = "boot" => ~store'.sd, store' = store \/ ~store'.sd, power', ~host',
         file' = file, used'.faults = 0 => used.faults = 0
  PROVE  IInv'
<1>1. /\ op'.pc = "recover" /\ op'.kind = kind /\ op'.by = "edit" /\ op'.into = None
      /\ op'.work = None /\ op'.src = Empty
  BY IdleIs DEF Ops
<1>2. None \notin Work /\ None \notin UserFile
  BY Apart
<1>3. Typed' /\ Paced' /\ Aside'
  BY RestsKeeps
<1>4. Fresh' /\ Backed' /\ Shaped'
  BY <1>1, <1>2 DEF Fresh, Backed, Shaped
<1>5. Away' /\ Living' /\ Tidy'
  BY <1>1, <1>2 DEF IInv, Away, Living, Tidy
<1>6. QED
  BY <1>3, <1>4, <1>5 DEF IInv

LEMMA RecoverOp ==
  ASSUME NEW kind \in Kinds
  PROVE  [Idle EXCEPT !.kind = kind, !.pc = "recover"] \in Ops
         /\ [Idle EXCEPT !.kind = kind, !.pc = "recover"].pc = "recover"
  BY IdleIs DEF Ops, Pc

LEMMA RemountKeeps ==
  ASSUME IInv, NEW mode \in Mode, Remount(mode)
  PROVE  IInv'
<1>1. /\ At("idle") /\ UNCHANGED <<disk, writers>> /\ CardUsable
      /\ power' = power /\ card' = card /\ host' = host /\ used' = used /\ file' = file
  BY StartsIs DEF Remount
<1>2. /\ power /\ op.pc = "idle" /\ op.into = None
      /\ store \in Stores /\ repl \in BOOLEAN /\ store.name \in Names /\ store.src \in Source
  BY <1>1, IdleNow, StoreIs
<1>3. Calm
  BY <1>1, CommandCalm
<1>4. ASSUME NEW kind \in {"restore", "remount"},
             op' = [Idle EXCEPT !.kind = kind, !.pc = "recover"], UNCHANGED <<store, repl>>
      PROVE  IInv'
  <2>1. kind \in Kinds /\ kind # "boot"
    BY DEF Kinds
  <2>2. op' \in Ops /\ op'.pc = "recover"
    BY <1>4, <2>1, RecoverOp
  <2>3. Rests
    BY <1>2, <1>3, <1>4, <2>2, CalmRests
  <2>4. ~host'
    BY <1>3 DEF Calm
  <2>5. QED
    BY <1>1, <1>2, <1>4, <2>1, <2>3, <2>4, RecoverBegins
<1>5. CASE mode = "ram"
  <2>1. /\ store' = IF ~store.sd THEN store
                    ELSE [store EXCEPT !.sd = FALSE, !.work = None,
                                       !.dirty = store.src # Empty]
        /\ repl' = store'.dirty /\ op' = op
    BY <1>5 DEF Remount
  <2>2. store' \in Stores /\ ~store'.sd
    BY <1>2, <2>1 DEF Stores
  <2>3. repl' \in BOOLEAN
    BY <2>1, <2>2 DEF Stores
  <2>4. QED
    BY <1>1, <2>1, <2>2, <2>3, StaysIdle
<1>6. CASE mode # "ram" /\ ~store.sd /\ store.dirty
  <2>1. /\ \/ Publish("keep", store.src, store.name, TRUE, TRUE)
           \/ op' = [Idle EXCEPT !.kind = "restore", !.pc = "recover"]
        /\ UNCHANGED <<store, repl>>
    BY <1>6 DEF Remount
  <2>2. CASE Publish("keep", store.src, store.name, TRUE, TRUE)
    BY <1>2, <1>3, <2>1, <2>2, CalmPublish DEF Kinds
  <2>3. QED
    BY <1>4, <2>1, <2>2
<1>7. CASE mode # "ram" /\ ~(~store.sd /\ store.dirty)
  <2>1. /\ op' = [Idle EXCEPT !.kind = "remount", !.pc = "recover"]
        /\ UNCHANGED <<store, repl>>
    BY <1>7 DEF Remount
  <2>2. QED
    BY <1>4, <2>1
<1>8. QED
  BY <1>5, <1>6, <1>7

LEMMA UsbKeeps ==
  ASSUME IInv, UsbStart \/ UsbReturn
  PROVE  IInv'
<1>1. At("idle") /\ UNCHANGED <<disk, writers, repl, power, card, used>>
  BY DEF UsbStart, UsbReturn
<1>2. /\ power /\ op = Idle /\ op.pc = "idle" /\ op.into = None
      /\ store \in Stores /\ repl \in BOOLEAN /\ card \in BOOLEAN /\ Idle \in Ops
      /\ used.faults \in Nat
      /\ DOMAIN used = {"faults", "recovery", "crashes", "stops", "edits"}
  BY <1>1, IdleNow
<1>3. Stays /\ file' = file
  BY <1>1, StaysAsItIs DEF disk
<1>4. CASE UsbStart
  <2>1. host' = TRUE /\ op' = op /\ store' = [store EXCEPT !.suspended = store.sd]
    BY <1>4 DEF UsbStart
  <2>2. /\ store' \in Stores /\ store'.sd = store.sd /\ store'.work = store.work
        /\ store'.suspended = store.sd
    BY <1>2, <2>1 DEF Stores
  <2>3. Rests
    BY <1>1, <1>2, <1>3, <2>1, <2>2 DEF Rests
  <2>4. Away' /\ Living' /\ Tidy'
    BY <1>1, <1>2, <1>3, <2>1, <2>2 DEF IInv, Away, Living, Tidy
  <2>5. QED
    BY <1>2, <2>1, <2>3, <2>4, EndsIdle
<1>5. CASE UsbReturn
  <2>1. host' = FALSE /\ store' = store
    BY <1>5 DEF UsbReturn
  <2>2. CASE op' = op
    <3>1. Rests
      BY <1>1, <1>2, <1>3, <2>1, <2>2 DEF Rests
    <3>2. Away' /\ Living' /\ Tidy'
      BY <1>1, <1>2, <1>3, <2>1, <2>2 DEF IInv, Away, Living, Tidy
    <3>3. QED
      BY <1>2, <2>2, <3>1, <3>2, EndsIdle
  <2>3. CASE Publish("usb", Empty, NoName, FALSE, FALSE)
    BY <1>1, <2>1, <2>3, Apart, PublishKeeps DEF Kinds, Names
  <2>4. CASE /\ file[store.name] \in Source
             /\ Publish("usb", file[store.name], store.name, FALSE, FALSE)
    <3>1. store.name \in Names
      BY <1>2, StoreIs
    <3>2. QED
      BY <1>1, <2>1, <2>4, <3>1, PublishKeeps DEF Kinds
  <2>5. store.sd \in BOOLEAN
    BY <1>2, StoreIs
  <2>6. QED
    BY <1>5, <2>2, <2>3, <2>4, <2>5 DEF UsbReturn
<1>6. QED
  BY <1>4, <1>5

LEMMA CardMovesKeeps ==
  ASSUME IInv, MoveCard
  PROVE  IInv'
<1>1. /\ op = Idle /\ card' = ~card
      /\ UNCHANGED <<disk, writers, store, repl, op, power, host, used>>
  BY DEF MoveCard
<1>2. Stays /\ file' = file
  BY <1>1, StaysAsItIs DEF disk
<1>3. /\ store \in Stores /\ repl \in BOOLEAN /\ card' \in BOOLEAN /\ power \in BOOLEAN
      /\ host \in BOOLEAN /\ used.faults \in Nat
      /\ DOMAIN used = {"faults", "recovery", "crashes", "stops", "edits"}
  BY <1>1 DEF IInv, Typed, TypedRest
<1>4. op.pc = "idle" /\ op \in Ops
  BY <1>1, IdleIs
<1>5. Rests
  BY <1>1, <1>2, <1>3, <1>4 DEF Rests
<1>6. Away' /\ Living' /\ Tidy'
  BY <1>1, <1>2, <1>4 DEF IInv, Away, Living, Tidy
<1>7. QED
  BY <1>1, <1>4, <1>5, <1>6, EndsIdle

(* A store that cannot reach its card, or a line of it, is suspended.      *)
LEMMA SuspendKeeps ==
  ASSUME IInv, NoticeCardGone \/ LineUnreadable
  PROVE  IInv'
<1>1. /\ At("idle") /\ store.sd /\ UNCHANGED <<disk, writers, repl, op, env>>
      /\ store' = [store EXCEPT !.suspended = TRUE]
      /\ used' = used \/ Spends("faults", 1)
  BY DEF NoticeCardGone, LineUnreadable, Spend
<1>2. /\ power /\ op = Idle /\ op.pc = "idle" /\ op.into = None
      /\ store \in Stores /\ repl \in BOOLEAN /\ card \in BOOLEAN /\ host \in BOOLEAN
      /\ Idle \in Ops
  BY <1>1, IdleNow
<1>3. Stays /\ file' = file /\ power' = power /\ card' = card /\ host' = host
  BY <1>1, StaysAsItIs DEF disk, env
<1>4. TypedRest
  BY DEF IInv, Typed
<1>5. /\ used'.faults = 0 => used.faults = 0
      /\ used'.faults \in Nat
      /\ DOMAIN used' = {"faults", "recovery", "crashes", "stops", "edits"}
  BY <1>1, <1>4, SpendIs DEF TypedRest
<1>6. /\ store' \in Stores /\ store'.sd = store.sd /\ store'.work = store.work
      /\ store'.suspended
  BY <1>1, <1>2 DEF Stores
<1>7. Rests
  BY <1>1, <1>2, <1>3, <1>5, <1>6 DEF Rests
<1>8. Away' /\ Living' /\ Tidy'
  BY <1>1, <1>2, <1>3, <1>5, <1>6 DEF IInv, Away, Living, Tidy
<1>9. QED
  BY <1>1, <1>2, <1>7, <1>8, EndsIdle

LEMMA PowerOnKeeps ==
  ASSUME IInv, NEW mode \in Mode, PowerOn(mode)
  PROVE  IInv'
<1> DEFINE sd == mode = "sd" \/ (mode = "auto" /\ card)
           away == sd /\ ~card
<1>1. /\ ~power /\ power' = TRUE /\ host' = FALSE
      /\ store' = [Blank EXCEPT !.sd = away, !.suspended = away]
      /\ op' = IF sd /\ card THEN [Idle EXCEPT !.kind = "boot", !.pc = "recover"] ELSE Idle
      /\ UNCHANGED <<disk, writers, repl, card, used>>
  BY DEF PowerOn
<1>2. op = Idle /\ op.pc = "idle" /\ op.into = None
  BY <1>1, IdleIs DEF IInv, Away
<1>3. /\ repl \in BOOLEAN /\ card \in BOOLEAN /\ used.faults \in Nat
      /\ DOMAIN used = {"faults", "recovery", "crashes", "stops", "edits"}
  BY DEF IInv, Typed, TypedRest
<1>4. away \in BOOLEAN /\ (away => ~(sd /\ card))
  BY <1>3
<1>5. Stays /\ file' = file
  BY <1>1, StaysAsItIs DEF disk
<1> HIDE DEF sd, away
<1>6. /\ store' \in Stores /\ (store'.sd <=> away) /\ (store'.suspended <=> away)
      /\ store'.work = None
  BY <1>1, <1>4, BlankIs DEF Stores
<1>7. CASE ~(sd /\ card)
  <2>1. op' = Idle
    BY <1>1, <1>7
  <2>2. Rests
    BY <1>1, <1>3, <1>5, <1>6, <2>1, IdleIs DEF Rests
  <2>3. Away' /\ Living' /\ Tidy'
    BY <1>1, <1>6, <2>1, IdleIs DEF Away, Living, Tidy
  <2>4. QED
    BY <1>2, <2>1, <2>2, <2>3, EndsIdle
<1>8. CASE sd /\ card
  <2>1. op' = [Idle EXCEPT !.kind = "boot", !.pc = "recover"] /\ "boot" \in Kinds
    BY <1>1, <1>8 DEF Kinds
  <2>2. op' \in Ops /\ op'.pc = "recover"
    BY <2>1, RecoverOp
  <2>3. Rests
    BY <1>1, <1>3, <1>5, <1>6, <2>2 DEF Rests
  <2>4. ~store'.sd
    BY <1>4, <1>6, <1>8
  <2>5. QED
    BY <1>1, <1>2, <1>5, <2>1, <2>3, <2>4, RecoverBegins
<1>9. QED
  BY <1>7, <1>8

(* Power is lost at any step: what is on the card stays as it is.          *)
LEMMA PowerOffKeeps ==
  ASSUME IInv, PowerOff
  PROVE  IInv'
<1>1. /\ power' = FALSE /\ host' = FALSE /\ store' = Blank /\ repl' = FALSE /\ op' = Idle
      /\ rescued' = rescued /\ card' = card /\ SF!PowerLoss
      /\ Spends("stops", 1) \/ Spends("crashes", 1)
  BY DEF PowerOff, Spend
<1>2. /\ file' = file /\ bak' = bak /\ kept' = kept
      /\ phase' = [w \in {"edit", "ses"} |-> "closed"]
      /\ res' = [w \in {"edit", "ses"} |-> "none"]
      /\ tgt' = [w \in {"edit", "ses"} |-> None]
      /\ buf' = [w \in {"edit", "ses"} |-> Empty]
      /\ had' = [w \in {"edit", "ses"} |-> FALSE]
      /\ \E lost : tmp' = [s \in Stages |-> IF s \in lost THEN NoFile ELSE tmp[s]]
  <2>1. DOMAIN StageOf = {"edit", "ses"}
    BY DEF StageOf
  <2>2. QED
    BY <1>1, <2>1 DEF SF!PowerLoss, Stages
<1>3. TypedDisk'
  <2>1. TypedDisk
    BY DEF IInv, Typed
  <2>2. tmp' \in [Stages -> Content]
    BY <1>2, <2>1 DEF TypedDisk, Content, Program
  <2>3. QED
    BY <1>1, <1>2, <2>1, <2>2 DEF TypedDisk
<1>4. TypedWriters'
  BY <1>2, Apart DEF TypedWriters
<1>5. TypedRest /\ card \in BOOLEAN
  BY DEF IInv, Typed, TypedRest
<1>6. TypedRest'
  BY <1>1, <1>5, SpendIs, IdleIs, BlankIs DEF TypedRest
<1>7. /\ op'.pc = "idle" /\ op'.by = "edit" /\ op'.into = None /\ op'.kind = "none"
      /\ ~store'.sd /\ None \notin Work /\ None \notin UserFile
  BY <1>1, IdleIs, BlankIs, Apart
<1>8. phase'["edit"] = "closed" /\ phase'["ses"] = "closed"
  BY <1>2
<1>9. Paced' /\ Fresh' /\ Backed' /\ Shaped'
  BY <1>1, <1>7, <1>8 DEF Paced, Fresh, Backed, Shaped
<1>10. Aside'
  BY <1>2, <1>8 DEF IInv, Aside
<1>11. Away' /\ Living' /\ Tidy'
  BY <1>1, <1>7 DEF Away, Living, Tidy
<1>12. QED
  BY <1>3, <1>4, <1>6, <1>9, <1>10, <1>11 DEF IInv, Typed

(* A PC changes the files of the user, and damages the machine's, only     *)
(* while the store does not use them.                                      *)
LEMMA PcWritesKeeps ==
  ASSUME IInv, PcWrites
  PROVE  IInv'
<1>1. /\ host \/ ~power
      /\ Spends("edits", 1)
      /\ UNCHANGED <<tmp, bak, kept, rescued, writers, store, repl, op, env>>
  BY DEF PcWrites, Spend
<1>2. op.pc = "idle" /\ op = Idle /\ op.by = "edit" /\ op.into = None /\ op.kind = "none"
  BY <1>1, IdleIs DEF IInv, Away, Shaped
<1>3. store.sd => store.suspended
  BY <1>1, BlankIs DEF IInv, Away
<1>4. PICK f \in Files, c \in Program :
         /\ file' = [file EXCEPT ![f] = c]
         /\ f \in Work => c \in {Torn, NoFile} /\ file[f] # NoFile
  <2>1. CASE \E f \in UserFile : \E c \in Source \cup {NoFile} :
                c # file[f] /\ file' = [file EXCEPT ![f] = c]
    BY <2>1, Apart DEF Files, Program
  <2>2. CASE \E f \in Work \cup {Ses} : \E c \in {Torn, NoFile} :
                file[f] \notin {c, NoFile} /\ file' = [file EXCEPT ![f] = c]
    BY <2>2 DEF Files, Program
  <2>3. QED
    BY <2>1, <2>2 DEF PcWrites
<1>5. TypedDisk /\ TypedWriters /\ TypedRest
  BY DEF IInv, Typed
<1>6. /\ file' \in [Files -> Content]
      /\ \A t \in Files : file'[t] = IF t = f THEN c ELSE file[t]
  BY <1>4, <1>5 DEF TypedDisk, Content
<1>7. TypedDisk'
  <2>1. Work \cup UserFile \subseteq Files
    BY DEF Files
  <2>2. \A t \in Work \cup UserFile : file'[t] \in Program
    BY <1>4, <1>5, <1>6, <2>1 DEF TypedDisk
  <2>3. QED
    BY <1>1, <1>5, <1>6, <2>2 DEF TypedDisk
<1>8. TypedWriters' /\ phase' = phase /\ had' = had
  BY <1>1, <1>5 DEF TypedWriters, writers
<1>9. TypedRest' /\ used'.faults = used.faults
  BY <1>1, <1>5, SpendIs DEF TypedRest, env
<1>10. phase["edit"] = "closed" /\ phase["ses"] = "closed"
  BY <1>2 DEF IInv, Paced
<1>11. None \notin Work /\ None \notin UserFile
  BY Apart
<1>12. Paced' /\ Fresh' /\ Backed' /\ Shaped'
  BY <1>1, <1>2, <1>8, <1>10, <1>11 DEF Paced, Fresh, Backed, Shaped
<1>13. Aside'
  BY <1>1, <1>8, <1>10 DEF IInv, Aside
<1>14. Away' /\ Living'
  BY <1>1, <1>3 DEF IInv, Away, Living, env
<1>15. Tidy'
  <2>1. ASSUME NEW w \in Work, w # store.work, file'[w] # NoFile
        PROVE  file[w] # NoFile
    BY <1>4, <1>6, <2>1 DEF Files
  <2>2. QED
    BY <1>1, <1>9, <2>1 DEF IInv, Tidy
<1>16. QED
  BY <1>7, <1>8, <1>9, <1>12, <1>13, <1>14, <1>15 DEF IInv, Typed

-----------------------------------------------------------------------------
(* Recovery, and the steps of an operation between its two writers.        *)

LEMMA InOperation ==
  ASSUME IInv, NEW pc, At(pc), pc # "idle"
  PROVE  /\ power /\ ~host /\ op.pc = pc
         /\ op \in Ops /\ store \in Stores /\ repl \in BOOLEAN
         /\ used.faults \in Nat
         /\ DOMAIN used = {"faults", "recovery", "crashes", "stops", "edits"}
  BY DEF At, IInv, Away, Typed, TypedRest

(* A step that only goes on.                                               *)
LEMMA GoesOn ==
  ASSUME IInv, Calm, UNCHANGED <<store, repl>>, NEW p \in Pc, Goto(p),
         \/ op.pc = "drop bak" /\ p = "tidy"
         \/ op.pc = "drop ses" /\ p = "promote"
         \/ op.pc = "promote" /\ p = "tidy"
         \/ op.pc \in {"recover", "none tmp"} /\ p \in {"none tmp", "none bak"}
         \/ op.pc \in {"none bak", "promote"} /\ p = "preserve" /\ op.kind = "boot"
         \/ op.pc \in {"stale tmp", "stale bak"} /\ p \in {"stale bak", "open"}
         \/ op.pc = "verify" /\ p = "undo"
  PROVE  IInv'
<1>1. op \in Ops /\ store \in Stores /\ repl \in BOOLEAN
  BY DEF IInv, Typed, TypedRest
<1>2. /\ op' \in Ops /\ op'.pc = p
      /\ op'.kind = op.kind /\ op'.by = op.by /\ op'.into = op.into /\ op'.src = op.src
      /\ op'.work = op.work
  BY <1>1, GotoIs
<1>3. Rests
  BY <1>1, <1>2, CalmRests
<1>4. Typed' /\ Paced' /\ Aside'
  BY <1>3, RestsKeeps
<1>5. (\A w \in Work : file'[w] = file[w]) /\ ~host /\ host' = host /\ power' = power /\ power
      /\ (used'.faults = 0 => used.faults = 0) /\ store' = store
  BY DEF Calm, Stays
<1>6. Fresh'
  BY <1>2, <1>5 DEF IInv, Fresh, Shaped
<1>7. Backed'
  <2>1. op'.pc \in {"verify", "undo"} => file'[op'.into] = op'.src
    BY <1>2, <1>5 DEF IInv, Backed, Shaped
  <2>2. \/ op'.by = "ses" /\ op'.pc # "cleanup"
        \/ op'.pc \in {"drop bak", "drop ses", "promote", "tidy"}
        => op'.work \in Work /\ file'[op'.work] = op'.src
    BY <1>2, <1>5 DEF IInv, Backed
  <2>3. /\ op'.by = "ses" /\ op'.into \notin Work => store'.sd /\ op'.work = store'.work
        /\ op'.into \in UserFile => op'.src = store'.src
        /\ op'.into \in UserFile /\ store'.sd =>
              op'.work \in Work /\ op'.work = store'.work /\ file'[op'.work] = op'.src
    BY <1>2, <1>5 DEF IInv, Backed
  <2>4. QED
    BY <2>1, <2>2, <2>3 DEF Backed
<1>8. Shaped'
  BY <1>2, <1>5 DEF IInv, Shaped
<1>9. Away' /\ Living' /\ Tidy'
  BY <1>2, <1>5 DEF IInv, Away, Living, Tidy
<1>10. QED
  BY <1>4, <1>6, <1>7, <1>8, <1>9 DEF IInv

LEMMA CalmStep ==
  ASSUME IInv, NEW pc, At(pc), pc # "idle", Stays, UNCHANGED env,
         \/ used' = used
         \/ Spend("faults")
         \/ \E n : Spends("recovery", n)
         \/ /\ used'.faults = 0 => used.faults = 0
            /\ used'.faults \in Nat
            /\ DOMAIN used' = {"faults", "recovery", "crashes", "stops", "edits"}
  PROVE  Calm
<1>1. /\ power /\ ~host /\ used.faults \in Nat
      /\ DOMAIN used = {"faults", "recovery", "crashes", "stops", "edits"}
  BY InOperation
<1>2. TypedRest
  BY DEF IInv, Typed
<1>3. /\ used'.faults = 0 => used.faults = 0
      /\ used'.faults \in Nat
      /\ DOMAIN used' = {"faults", "recovery", "crashes", "stops", "edits"}
  BY <1>1, <1>2, SpendIs DEF Spend
<1>4. QED
  BY <1>1, <1>3 DEF Calm, env

(* A session is chosen: its work file was read.                            *)
LEMMA FoundKeeps ==
  ASSUME IInv, Calm, UNCHANGED <<store, repl>>, op.pc = "recover", NEW c, Valid(c),
         NEW p \in {"drop bak", "drop ses"}, Found(c, p), file' = file
  PROVE  IInv'
<1>1. op \in Ops /\ store \in Stores /\ repl \in BOOLEAN /\ op.by = "edit" /\ op.into = None
  BY DEF IInv, Typed, TypedRest, Shaped
<1>2. /\ c.work \in Work /\ c.name \in Names /\ c.dirty \in BOOLEAN /\ file[c.work] \in Source
  BY DEF Valid, Session, Names
<1>3. /\ op' \in Ops /\ op'.pc = p /\ op'.kind = op.kind /\ op'.by = op.by
      /\ op'.into = op.into /\ op'.work = c.work /\ op'.src = file[c.work]
  BY <1>1, <1>2 DEF Found, Ops, Pc
<1>4. Rests
  BY <1>1, <1>3, CalmRests
<1>5. Typed' /\ Paced' /\ Aside'
  BY <1>3, <1>4, RestsKeeps
<1>6. None \notin Work /\ None \notin UserFile
  BY Apart
<1>7. Fresh' /\ Backed'
  BY <1>1, <1>2, <1>3, <1>6 DEF Fresh, Backed
<1>8. Shaped'
  BY <1>1, <1>3, <1>6 DEF IInv, Shaped
<1>9. ~host /\ host' = host /\ power' = power /\ power
      /\ (used'.faults = 0 => used.faults = 0) /\ store' = store
  BY DEF Calm
<1>10. Away' /\ Living' /\ Tidy'
  BY <1>1, <1>3, <1>9 DEF IInv, Away, Living, Tidy
<1>11. QED
  BY <1>5, <1>7, <1>8, <1>10 DEF IInv

LEMMA ChooseKeeps ==
  ASSUME IInv, ChooseSession
  PROVE  IInv'
<1>1. At("recover") /\ UNCHANGED <<disk, writers, store, repl, env>>
  BY DEF ChooseSession
<1>2. PICK misread \in SUBSET {"ses", "bak"} :
         /\ Spends("recovery", Cardinality(misread))
         /\ \/ Valid(file[Ses]) /\ Found(file[Ses], "drop bak")
            \/ Valid(bak["RMBSES"]) /\ Found(bak["RMBSES"], "drop ses")
            \/ Goto("none tmp")
  BY DEF ChooseSession
<1>3. Calm
  BY <1>1, <1>2, StaysAsItIs, CalmStep
<1>4. op.pc = "recover" /\ file' = file
  BY <1>1 DEF At, disk
<1>5. QED
  BY <1>1, <1>2, <1>3, <1>4, FoundKeeps, GoesOn DEF Pc

(* Steps that change no more than what is staged for the session.          *)
LEMMA DropsKeep ==
  ASSUME IInv, RecoverDropBak \/ RecoverNoneTmp \/ StaleTmp \/ StaleBak
  PROVE  IInv'
<1>1. CASE RecoverDropBak
  <2>1. /\ At("drop bak") /\ DropBak /\ Goto("tidy") /\ UNCHANGED <<store, repl, env>>
        /\ UNCHANGED <<file, tmp, rescued, writers>>
    BY <1>1 DEF RecoverDropBak
  <2>2. Calm
    BY <2>1, DropBakStays, CalmStep
  <2>3. QED
    BY <2>1, <2>2, GoesOn DEF At, Pc
<1>2. CASE RecoverNoneTmp
  <2>1. /\ At("none tmp") /\ DropTmp /\ Goto("none bak") /\ UNCHANGED <<store, repl, env>>
        /\ UNCHANGED <<file, bak, kept, rescued, writers>>
    BY <1>2 DEF RecoverNoneTmp
  <2>2. Calm
    BY <2>1, DropTmpStays, CalmStep
  <2>3. QED
    BY <2>1, <2>2, GoesOn DEF At, Pc
<1>3. CASE StaleTmp
  <2>1. /\ At("stale tmp") /\ UNCHANGED <<file, bak, kept, rescued, writers, store, repl, env>>
        /\ \/ Goto("stale bak") /\ DropTmp
           \/ Goto("open") /\ UNCHANGED <<tmp, used>>
    BY <1>3 DEF StaleTmp
  <2>2. CASE Goto("stale bak") /\ DropTmp
    <3>1. Calm
      BY <2>1, <2>2, DropTmpStays, CalmStep
    <3>2. QED
      BY <2>1, <2>2, <3>1, GoesOn DEF At, Pc
  <2>3. CASE Goto("open") /\ UNCHANGED <<tmp, used>>
    <3>1. UNCHANGED <<disk, writers>>
      BY <2>1, <2>3 DEF disk
    <3>2. Calm
      BY <2>1, <2>3, <3>1, StaysAsItIs, CalmStep
    <3>3. QED
      BY <2>1, <2>3, <3>2, GoesOn DEF At, Pc
  <2>4. QED
    BY <2>1, <2>2, <2>3
<1>4. CASE StaleBak
  <2>1. /\ At("stale bak") /\ DropBak /\ Goto("open") /\ UNCHANGED <<store, repl, env>>
        /\ UNCHANGED <<file, tmp, rescued, writers>>
    BY <1>4 DEF StaleBak
  <2>2. Calm
    BY <2>1, DropBakStays, CalmStep
  <2>3. QED
    BY <2>1, <2>2, GoesOn DEF At, Pc
<1>5. QED
  BY <1>1, <1>2, <1>3, <1>4

(* Only RMBASIC.SES changes.                                               *)
LEMMA PromotionKeeps ==
  ASSUME IInv, RecoverDropSes \/ RecoverPromote
  PROVE  IInv'
<1>1. TypedDisk /\ kept["RMBSES"] \in {Ses, None} /\ Ses \in Files
      /\ \A t \in Work \cup UserFile : t # Ses
  <2>1. \A t \in Work \cup UserFile : t # Ses
    BY Apart
  <2>2. QED
    BY <2>1 DEF IInv, Typed, Aside, Files
<1>2. CASE RecoverDropSes
  <2>1. /\ At("drop ses") /\ Goto("promote")
        /\ UNCHANGED <<tmp, bak, kept, rescued, writers, store, repl, env>>
        /\ \/ file' = [file EXCEPT ![Ses] = NoFile] /\ UNCHANGED used
           \/ UNCHANGED file /\ Spends("recovery", 1)
    BY <1>2 DEF RecoverDropSes, Spend
  <2>2. file' \in [Files -> Content] /\ \A t \in Work \cup UserFile : file'[t] = file[t]
    <3>1. NoFile \in Content
      BY DEF Content, Program
    <3>2. Work \cup UserFile \subseteq Files
      BY DEF Files
    <3>3. QED
      BY <1>1, <2>1, <3>1, <3>2 DEF TypedDisk
  <2>3. Stays
    BY <1>1, <2>1, <2>2 DEF Stays, TypedDisk
  <2>4. Calm
    BY <2>1, <2>3, CalmStep
  <2>5. QED
    BY <2>1, <2>4, GoesOn DEF At, Pc
<1>3. CASE RecoverPromote
  <2>1. /\ At("promote") /\ Goto("tidy")
        /\ UNCHANGED <<tmp, rescued, writers, store, repl, env, used>>
        /\ file' = [file EXCEPT ![Ses] = bak["RMBSES"]]
        /\ bak' = [bak EXCEPT !["RMBSES"] = NoFile]
        /\ kept' = [kept EXCEPT !["RMBSES"] = None]
    BY <1>3 DEF RecoverPromote
  <2>2. file' \in [Files -> Content] /\ \A t \in Work \cup UserFile : file'[t] = file[t]
    <3>1. bak["RMBSES"] \in Content
      BY <1>1 DEF TypedDisk, Stages
    <3>2. Work \cup UserFile \subseteq Files
      BY DEF Files
    <3>3. QED
      BY <1>1, <2>1, <3>1, <3>2 DEF TypedDisk
  <2>3. /\ bak' \in [Stages -> Content] /\ bak'["RMBEDIT"] = bak["RMBEDIT"]
        /\ kept' \in [Stages -> Files \cup {None}] /\ kept'["RMBEDIT"] = kept["RMBEDIT"]
        /\ kept'["RMBSES"] \in {Ses, None}
    BY <1>1, <2>1 DEF TypedDisk, Content, Program, Stages
  <2>4. Stays
    BY <1>1, <2>1, <2>2, <2>3 DEF Stays, TypedDisk
  <2>5. Calm
    BY <2>1, <2>4, CalmStep
  <2>6. QED
    BY <2>1, <2>5, GoesOn DEF At, Pc
<1>4. QED
  BY <1>2, <1>3

(* No session was found.                                                   *)
LEMMA NoSessionKeeps ==
  ASSUME IInv, Calm, op.pc \in {"none bak", "promote"}, NoSession
  PROVE  IInv'
<1>1. store \in Stores /\ op \in Ops
  BY DEF IInv, Typed, TypedRest
<1>2. /\ store.sd \in BOOLEAN /\ store.dirty \in BOOLEAN
      /\ store.src \in Source /\ store.name \in Names
  BY <1>1, StoreIs
<1>3. CASE op.kind = "boot"
  BY <1>3, GoesOn DEF NoSession, Pc
<1>4. CASE op.kind = "remount" /\ store.sd
  <2>1. Resume(store.dirty)
    BY <1>4 DEF NoSession
  <2>2. QED
    BY <1>2, <1>4, <2>1, ResumeKeeps
<1>5. CASE op.kind = "remount" /\ ~store.sd
  <2>1. /\ Publish("workspace", store.src, store.name, store.dirty, store.dirty)
        /\ UNCHANGED <<store, repl>>
    BY <1>5 DEF NoSession
  <2>2. "workspace" \in Kinds
    BY DEF Kinds
  <2>3. QED
    BY <1>2, <2>1, <2>2, CalmPublish
<1>6. CASE op.kind \notin {"boot", "remount"}
  <2>1. Return /\ UNCHANGED <<store, repl>>
    BY <1>6 DEF NoSession
  <2>2. repl \in BOOLEAN
    BY DEF IInv, Typed, TypedRest
  <2>3. QED
    BY <2>1, <2>2, CalmReturn
<1>7. QED
  BY <1>2, <1>3, <1>4, <1>5, <1>6

LEMMA NoneFoundKeeps ==
  ASSUME IInv, RecoverNoneBak \/ PromoteFails
  PROVE  IInv'
<1>1. CASE RecoverNoneBak
  <2>1. /\ At("none bak") /\ DropBak /\ NoSession /\ UNCHANGED env
        /\ UNCHANGED <<file, tmp, rescued, writers>>
    BY <1>1 DEF RecoverNoneBak
  <2>2. Calm
    BY <2>1, DropBakStays, CalmStep
  <2>3. QED
    BY <2>1, <2>2, NoSessionKeeps DEF At
<1>2. CASE PromoteFails
  <2>1. /\ At("promote") /\ NoSession /\ UNCHANGED <<disk, writers, env>>
        /\ used' = used \/ Spends("recovery", 1)
    BY <1>2 DEF PromoteFails, Spend
  <2>2. Calm
    BY <2>1, StaysAsItIs, CalmStep
  <2>3. QED
    BY <2>1, <2>2, NoSessionKeeps DEF At
<1>3. QED
  BY <1>1, <1>2

-----------------------------------------------------------------------------
(* A session is adopted, work files are put aside or removed.              *)

LEMMA AdoptIs ==
  ASSUME op \in Ops, op.work \in Work, NEW saved \in Source \cup {Nothing},
         store' = Adopt(Record(op), op.src, saved)
  PROVE  /\ store' \in Stores /\ store'.sd /\ ~store'.suspended
         /\ store'.src = op.src /\ store'.work = op.work
<1>1. /\ op.dirty \in BOOLEAN /\ op.src \in Source /\ op.name \in Names
  BY DEF Ops
<1> DEFINE known == IF op.dirty THEN saved ELSE op.src
<1>2. known \in Source \cup {Nothing}
  BY <1>1
<1>3. store' = [sd |-> TRUE, suspended |-> FALSE, dirty |-> op.dirty, src |-> op.src,
                work |-> op.work, name |-> op.name, saved |-> known]
  BY DEF Adopt, Record
<1> HIDE DEF known
<1>4. QED
  BY <1>1, <1>2, <1>3 DEF Stores

LEMMA RecoverTidyKeeps ==
  ASSUME IInv, RecoverTidy
  PROVE  IInv'
<1>1. /\ At("tidy") /\ DropTmp /\ Goto("cleanup") /\ repl' = op.repl
      /\ store' = Adopt(Record(op), op.src, Nothing)
      /\ UNCHANGED <<file, bak, kept, rescued, writers>> /\ UNCHANGED env
  BY DEF RecoverTidy
<1>2. /\ op \in Ops /\ op.pc = "tidy" /\ op.repl \in BOOLEAN
      /\ op.by = "edit" /\ op.into = None
      /\ op.work \in Work /\ file[op.work] = op.src
  <2>1. op \in Ops /\ op.pc = "tidy"
    BY <1>1, InOperation
  <2>2. QED
    BY <2>1 DEF IInv, Shaped, Backed, Ops
<1>3. /\ store' \in Stores /\ store'.sd /\ ~store'.suspended
      /\ store'.src = op.src /\ store'.work = op.work
  BY <1>1, <1>2, AdoptIs
<1>4. /\ op' \in Ops /\ op'.pc = "cleanup" /\ op'.by = "edit" /\ op'.into = None
  BY <1>1, <1>2, GotoIs DEF Pc
<1>5. Calm
  BY <1>1, DropTmpStays, CalmStep
<1>6. Typed' /\ Paced' /\ Aside'
  BY <1>1, <1>2, <1>3, <1>4, <1>5, CalmRests, RestsKeeps
<1>7. None \notin Work /\ None \notin UserFile
  BY Apart
<1>8. Fresh' /\ Backed' /\ Shaped'
  BY <1>4, <1>7 DEF Fresh, Backed, Shaped
<1>9. Away' /\ Living' /\ Tidy'
  BY <1>1, <1>2, <1>3, <1>4, <1>5 DEF Away, Living, Tidy, Calm
<1>10. QED
  BY <1>6, <1>8, <1>9 DEF IInv

(* One work file is taken away while no writer is in use.                  *)
LEMMA RemovalKeeps ==
  ASSUME IInv, op.pc \notin {"fill", "commit"}, NEW w \in Work,
         file' = [file EXCEPT ![w] = NoFile], rescued' \subseteq Source \cup {Torn},
         UNCHANGED <<tmp, bak, kept, writers>>, UNCHANGED env, UNCHANGED <<store, repl, used>>,
         op' \in Ops, op'.pc \notin {"fill", "commit"}
  PROVE  Typed' /\ Paced' /\ Aside'
<1>1. phase' = phase /\ tgt' = tgt /\ buf' = buf /\ had' = had /\ res' = res
  BY DEF writers
<1>2. phase["edit"] = "closed" /\ phase["ses"] = "closed"
  BY DEF IInv, Paced, Typed, TypedRest, Ops
<1>3. TypedDisk'
  BY DEF IInv, Typed, TypedDisk, Content, Program, Files
<1>4. TypedWriters' /\ TypedRest'
  BY <1>1 DEF IInv, Typed, TypedWriters, TypedRest, env
<1>5. op'.by \in {"edit", "ses"}
  BY DEF Ops
<1>6. Paced'
  BY <1>1, <1>2, <1>5 DEF Paced
<1>7. Aside'
  BY <1>1, <1>2 DEF IInv, Aside
<1>8. QED
  BY <1>3, <1>4, <1>6, <1>7 DEF Typed

LEMMA PreserveKeeps ==
  ASSUME IInv, Preserve
  PROVE  IInv'
<1>1. At("preserve") /\ UNCHANGED <<tmp, bak, kept, writers, store, repl, env>>
  BY DEF Preserve
<1>2. /\ power /\ ~host /\ op.pc = "preserve" /\ op \in Ops /\ repl \in BOOLEAN
  BY <1>1, InOperation
<1>3. op.kind = "boot" /\ op.by = "edit" /\ op.into = None /\ ~store.sd
  BY <1>2 DEF IInv, Shaped
<1>4. CASE \E w \in Work :
              /\ file[w] # NoFile
              /\ file' = [file EXCEPT ![w] = NoFile]
              /\ rescued' = rescued \cup {file[w]}
              /\ UNCHANGED <<op, used>>
  <2>1. PICK w \in Work :
              /\ file[w] # NoFile
              /\ file' = [file EXCEPT ![w] = NoFile]
              /\ rescued' = rescued \cup {file[w]}
              /\ UNCHANGED <<op, used>>
    BY <1>4
  <2>2. rescued' \subseteq Source \cup {Torn}
    BY <2>1 DEF IInv, Typed, TypedDisk, Program
  <2>3. Typed' /\ Paced' /\ Aside'
    BY <1>1, <1>2, <2>1, <2>2, RemovalKeeps
  <2>4. None \notin Work /\ None \notin UserFile
    BY Apart
  <2>5. Fresh' /\ Backed' /\ Shaped'
    BY <1>1, <1>2, <1>3, <2>1, <2>4 DEF Fresh, Backed, Shaped
  <2>6. Away' /\ Living' /\ Tidy'
    BY <1>1, <1>2, <1>3, <2>1 DEF IInv, Away, Living, Tidy, env
  <2>7. QED
    BY <2>3, <2>5, <2>6 DEF IInv
<1>5. CASE /\ Publish("boot", Empty, NoName, FALSE, FALSE)
           /\ UNCHANGED <<file, rescued, used>>
  <2>1. Stays
    BY <1>1, <1>5, StaysAsItIs DEF disk
  <2>2. Calm
    BY <1>1, <1>5, <2>1, CalmStep
  <2>3. QED
    BY <1>1, <1>2, <1>3, <1>5, <2>2, Apart, CalmPublish DEF Kinds, Names
<1>6. CASE Return /\ Spend("faults") /\ UNCHANGED <<file, rescued>>
  <2>1. Stays
    BY <1>1, <1>6, StaysAsItIs DEF disk
  <2>2. Calm
    BY <1>1, <1>6, <2>1, CalmStep
  <2>3. QED
    BY <1>1, <1>2, <1>6, <2>2, CalmReturn
<1>7. QED
  BY <1>4, <1>5, <1>6 DEF Preserve

LEMMA VerifyKeeps ==
  ASSUME IInv, Verify
  PROVE  IInv'
<1>1. At("verify") /\ UNCHANGED <<disk, writers, store, repl, env>>
  BY DEF Verify
<1>2. /\ power /\ ~host /\ op.pc = "verify" /\ op \in Ops
      /\ repl \in BOOLEAN /\ store \in Stores
  BY <1>1, InOperation
<1>3. op.by = "edit" /\ op.into \in Work /\ op.work = op.into
  BY <1>2 DEF IInv, Shaped, Fresh
<1>4. CASE /\ file[op.into] = op.src
           /\ op' = [op EXCEPT !.pc = "stale tmp", !.by = "ses"]
           /\ UNCHANGED used
  <2>1. Calm
    BY <1>1, <1>4, StaysAsItIs, CalmStep
  <2>2. /\ op' \in Ops /\ op'.pc = "stale tmp" /\ op'.by = "ses" /\ op'.into = op.into
        /\ op'.src = op.src /\ op'.work = op.work /\ op'.kind = op.kind
    BY <1>2, <1>4 DEF Ops, Pc
  <2>3. Typed' /\ Paced' /\ Aside'
    BY <1>1, <1>2, <2>1, <2>2, CalmRests, RestsKeeps
  <2>4. op.into \notin UserFile /\ op.into # None
    BY <1>3, Apart
  <2>5. file' = file /\ store' = store /\ host' = host /\ power' = power /\ used' = used
    BY <1>1, <1>4 DEF disk, env
  <2>6. Fresh' /\ Backed'
    BY <1>2, <1>3, <1>4, <2>2, <2>4, <2>5 DEF IInv, Fresh, Backed
  <2>7. Shaped' /\ Away' /\ Living' /\ Tidy'
    BY <1>2, <1>3, <2>2, <2>5 DEF IInv, Shaped, Away, Living, Tidy
  <2>8. QED
    BY <2>3, <2>6, <2>7 DEF IInv
<1>5. CASE Goto("undo") /\ Spend("faults")
  <2>1. Calm
    BY <1>1, <1>5, StaysAsItIs, CalmStep
  <2>2. QED
    BY <1>1, <1>2, <1>5, <2>1, GoesOn DEF Pc
<1>6. QED
  BY <1>4, <1>5 DEF Verify

LEMMA UndoSnapshotKeeps ==
  ASSUME IInv, UndoSnapshot
  PROVE  IInv'
<1>1. At("undo") /\ Return /\ UNCHANGED <<tmp, bak, kept, rescued, writers, store, repl, env>>
  BY DEF UndoSnapshot
<1>2. /\ power /\ ~host /\ op.pc = "undo" /\ op \in Ops
      /\ repl \in BOOLEAN /\ store \in Stores
  BY <1>1, InOperation
<1>3. op.into \in Work /\ op.into # store.work /\ op.into # None
  BY <1>2, Apart DEF IInv, Shaped, Fresh
<1>4. /\ op' = Idle /\ op' \in Ops /\ op'.pc = "idle" /\ op'.by = "edit"
      /\ op'.into = None /\ op'.kind = "none"
  BY <1>1, ReturnIs
<1>5. store' = store /\ host' = host /\ power' = power
  BY <1>1 DEF env
<1>6. CASE file' = [file EXCEPT ![op.into] = NoFile] /\ UNCHANGED used
  <2>1. rescued' \subseteq Source \cup {Torn}
    BY <1>1 DEF IInv, Typed, TypedDisk
  <2>2. Typed' /\ Paced' /\ Aside'
    BY <1>1, <1>2, <1>3, <1>4, <1>6, <2>1, RemovalKeeps
  <2>3. None \notin Work /\ None \notin UserFile
    BY Apart
  <2>4. Fresh' /\ Backed' /\ Shaped'
    BY <1>4, <2>3 DEF Fresh, Backed, Shaped
  <2>5. \A w \in Work : file'[w] = IF w = op.into THEN NoFile ELSE file[w]
    BY <1>6 DEF IInv, Typed, TypedDisk, Files
  <2>6. Living' /\ Away'
    BY <1>2, <1>3, <1>4, <1>5, <2>5 DEF IInv, Away, Living
  <2>7. Tidy'
    BY <1>2, <1>3, <1>4, <1>5, <1>6, <2>5 DEF IInv, Tidy
  <2>8. QED
    BY <2>2, <2>4, <2>6, <2>7 DEF IInv
<1>7. CASE UNCHANGED file /\ Spend("faults")
  <2>1. Stays
    BY <1>1, <1>7, StaysAsItIs DEF disk
  <2>2. Calm
    BY <1>1, <1>7, <2>1, CalmStep
  <2>3. Rests
    BY <1>1, <1>2, <1>4, <2>2, CalmRests
  <2>4. used'.faults # 0
    BY <1>7, SpendIs DEF IInv, Typed, Spend
  <2>5. Away' /\ Living' /\ Tidy'
    BY <1>2, <1>4, <1>5, <1>7, <2>4 DEF IInv, Away, Living, Tidy
  <2>6. QED
    BY <1>2, <1>4, <2>3, <2>5, EndsIdle
<1>8. QED
  BY <1>6, <1>7 DEF UndoSnapshot

LEMMA CleanupKeeps ==
  ASSUME IInv, Cleanup
  PROVE  IInv'
<1>1. At("cleanup") /\ UNCHANGED <<tmp, bak, kept, rescued, writers, store, repl, env>>
  BY DEF Cleanup
<1>2. /\ power /\ ~host /\ op.pc = "cleanup" /\ op \in Ops
      /\ repl \in BOOLEAN /\ store \in Stores
  BY <1>1, InOperation
<1>3. store' = store /\ host' = host /\ power' = power
  BY <1>1 DEF env
<1>4. CASE \E w \in Extra : file' = [file EXCEPT ![w] = NoFile] /\ UNCHANGED <<op, used>>
  <2>1. PICK w \in Extra : file' = [file EXCEPT ![w] = NoFile] /\ UNCHANGED <<op, used>>
    BY <1>4
  <2>2. w \in Work /\ w # store.work
    BY DEF Extra
  <2>3. rescued' \subseteq Source \cup {Torn}
    BY <1>1 DEF IInv, Typed, TypedDisk
  <2>4. Typed' /\ Paced' /\ Aside'
    BY <1>1, <1>2, <2>1, <2>2, <2>3, RemovalKeeps
  <2>5. \A f \in Work : file'[f] = IF f = w THEN NoFile ELSE file[f]
    BY <2>1 DEF IInv, Typed, TypedDisk, Files
  <2>6. Fresh' /\ Shaped'
    BY <1>2, <1>3, <2>1 DEF IInv, Fresh, Shaped
  <2>7. Backed'
    BY <1>2, <1>3, <2>1, <2>2, <2>5 DEF IInv, Backed
  <2>8. Away' /\ Living' /\ Tidy'
    BY <1>2, <1>3, <2>1, <2>2, <2>5 DEF IInv, Away, Living, Tidy
  <2>9. QED
    BY <2>4, <2>6, <2>7, <2>8 DEF IInv
<1>5. CASE Return /\ UNCHANGED file /\ ((Extra = {} /\ UNCHANGED used) \/ Spend("faults"))
  <2>1. Stays
    BY <1>1, <1>5, StaysAsItIs DEF disk
  <2>2. Calm
    BY <1>1, <1>5, <2>1, CalmStep
  <2>3. /\ op' = Idle /\ op' \in Ops /\ op'.pc = "idle" /\ op'.into = None
    BY <1>5, ReturnIs
  <2>4. Rests
    BY <1>1, <1>2, <2>2, <2>3, CalmRests
  <2>5. used'.faults # 0 \/ Extra = {}
    BY <1>5, SpendIs DEF IInv, Typed, Spend
  <2>6. Away' /\ Living' /\ Tidy'
    BY <1>2, <1>3, <1>5, <2>3, <2>5 DEF IInv, Away, Living, Tidy, Extra
  <2>7. QED
    BY <1>2, <2>3, <2>4, <2>6, EndsIdle
<1>6. QED
  BY <1>4, <1>5 DEF Cleanup

-----------------------------------------------------------------------------
(* The two writers of an operation.                                        *)

LEMMA StagesAre ==
    /\ DOMAIN StageOf = {"edit", "ses"}
    /\ StageOf["edit"] = "RMBEDIT" /\ StageOf["ses"] = "RMBSES"
    /\ op.by = "edit" => Staged = "RMBEDIT" /\ Aim = op.into /\ Asked = op.src
    /\ op.by = "ses" => Staged = "RMBSES" /\ Aim = Ses /\ Asked = Record(op)
    /\ op.by \in {"edit", "ses"} => StageOf[op.by] = Staged
  BY DEF StageOf, Staged, Aim, Asked

(* A step of the writer that leaves the store and the rest of the          *)
(* operation as they are.                                                  *)
Writes ==
    /\ UNCHANGED <<rescued, store, repl, env>>
    /\ op.pc \in {"open", "fill", "commit"} /\ power /\ ~host
    /\ op' \in Ops /\ op'.pc \in {"fill", "commit"}
    /\ op'.kind = op.kind /\ op'.by = op.by /\ op'.into = op.into /\ op'.src = op.src
    /\ op'.work = op.work /\ op'.name = op.name /\ op'.dirty = op.dirty
    /\ \A w \in Work : w # op.into => file'[w] = file[w]
    /\ used'.faults \in Nat
    /\ DOMAIN used' = {"faults", "recovery", "crashes", "stops", "edits"}
    /\ used'.faults = 0 => used.faults = 0

LEMMA WritesKeep ==
  ASSUME IInv, Writes, TypedDisk', TypedWriters', Paced', Aside',
         op.into \in Work /\ op.by = "edit" =>
             /\ phase'["edit"] # "done" => file'[op.into] = NoFile
             /\ phase'["edit"] # "undo"
             /\ phase'["edit"] = "moved" => ~had'["edit"],
         op.by = "ses" /\ op.into \in Work => file'[op.into] = file[op.into]
  PROVE  IInv'
<1>1. op \in Ops /\ TypedRest
  BY DEF IInv, Typed, TypedRest
<1>2. Typed'
  BY <1>1 DEF Typed, TypedRest, Writes, env
<1>3. \A t \in Work : t # None /\ t \notin UserFile
  BY Apart
<1>4. Fresh'
  BY <1>1 DEF IInv, Fresh, Writes
<1>5. Backed'
  <2>1. /\ op'.by = "ses" => op.work \in Work /\ file[op.work] = op.src
        /\ op.into \in UserFile /\ store.sd =>
              op.work \in Work /\ op.work = store.work /\ file[op.work] = op.src
    BY DEF IInv, Backed, Writes
  <2>2. op.into \in Work => op.into # store.work /\ op.work = op.into
    BY DEF IInv, Fresh, Writes
  <2>3. op'.by = "ses" => file'[op.work] = op.src
    BY <2>1, <2>2 DEF Writes
  <2>4. op.into \in UserFile /\ store.sd => file'[op.work] = op.src
    BY <1>3, <2>1 DEF Writes
  <2>5. QED
    BY <2>1, <2>3, <2>4 DEF IInv, Backed, Writes
<1>6. Shaped'
  BY DEF IInv, Shaped, Writes
<1>7. Away' /\ Living'
  BY <1>3 DEF IInv, Away, Living, Fresh, Writes, env
<1>8. Tidy'
  BY DEF IInv, Tidy, Writes
<1>9. QED
  BY <1>2, <1>4, <1>5, <1>6, <1>7, <1>8, <1>2 DEF IInv

(* Where a writer is, and whose it is.                                     *)
LEMMA WriterNow ==
  ASSUME IInv, NEW pc \in {"open", "fill", "commit"}, At(pc)
  PROVE  /\ power /\ ~host /\ op.pc = pc /\ op \in Ops /\ store \in Stores /\ repl \in BOOLEAN
         /\ used.faults \in Nat
         /\ DOMAIN used = {"faults", "recovery", "crashes", "stops", "edits"}
         /\ op.by \in {"edit", "ses"}
         /\ op.by = "edit" => phase["ses"] = "closed" /\ op.into \in Work \cup UserFile
         /\ op.by = "ses" => phase["edit"] = "closed"
         /\ Asked \in Source \cup Session /\ Aim \in Files
         /\ op.by = "edit" => Asked \in Source
<1>1. /\ power /\ ~host /\ op.pc = pc /\ op \in Ops /\ store \in Stores /\ repl \in BOOLEAN
      /\ used.faults \in Nat
      /\ DOMAIN used = {"faults", "recovery", "crashes", "stops", "edits"}
  BY InOperation
<1>2. op.by \in {"edit", "ses"} /\ op.src \in Source /\ op.dirty \in BOOLEAN /\ op.name \in Names
  BY <1>1 DEF Ops
<1>3. op.by = "edit" => phase["ses"] = "closed" /\ op.into \in Work \cup UserFile
  BY <1>1 DEF IInv, Paced, Shaped, Ops
<1>4. op.by = "ses" => phase["edit"] = "closed"
  BY DEF IInv, Paced
<1>5. op.by = "ses" => op.work \in Work
  BY <1>1 DEF IInv, Backed
<1>6. op.by = "ses" => Record(op) \in Session
  BY <1>2, <1>5 DEF Record, Session, Names
<1>7. QED
  BY <1>1, <1>2, <1>3, <1>4, <1>6 DEF Asked, Aim, Files

LEMMA OpenKeeps ==
  ASSUME IInv, OpenWriter
  PROVE  IInv'
<1>1. /\ At("open") /\ SF!Open(op.by, Aim) /\ Goto("fill")
      /\ UNCHANGED <<rescued, store, repl, env, used>>
  BY DEF OpenWriter, Aim
<1>2. /\ power /\ ~host /\ op.pc = "open" /\ op \in Ops
      /\ used.faults \in Nat
      /\ DOMAIN used = {"faults", "recovery", "crashes", "stops", "edits"}
      /\ op.by \in {"edit", "ses"}
      /\ op.by = "edit" => phase["ses"] = "closed" /\ op.into \in Work \cup UserFile
      /\ op.by = "ses" => phase["edit"] = "closed"
      /\ Aim \in Files
  BY <1>1, WriterNow
<1>3. /\ op' \in Ops /\ op'.pc = "fill"
      /\ op'.kind = op.kind /\ op'.by = op.by /\ op'.into = op.into /\ op'.src = op.src
      /\ op'.work = op.work /\ op'.name = op.name /\ op'.dirty = op.dirty
  BY <1>1, <1>2, GotoIs DEF Pc
<1>4. /\ bak[Staged] = NoFile
      /\ tmp' = [tmp EXCEPT ![Staged] = Torn]
      /\ phase' = [phase EXCEPT ![op.by] = "open"]
      /\ tgt' = [tgt EXCEPT ![op.by] = Aim]
      /\ buf' = [buf EXCEPT ![op.by] = Empty]
      /\ res' = [res EXCEPT ![op.by] = "none"]
      /\ UNCHANGED <<file, bak, had, kept>>
  BY <1>1, <1>2, StagesAre DEF SF!Open, SF!Goto, SF!Return
<1>5. Aim' = Aim
  BY <1>3 DEF Aim
<1>6. TypedDisk'
  BY <1>1, <1>4 DEF IInv, Typed, TypedDisk, Content, Program
<1>7. TypedWriters'
  BY <1>2, <1>4, Apart DEF IInv, Typed, TypedWriters
<1>8. Paced'
  BY <1>2, <1>3, <1>4, <1>5 DEF IInv, Paced, Typed, TypedWriters
<1>9. Aside'
  BY <1>2, <1>4, StagesAre DEF IInv, Aside, Typed, TypedWriters
<1>10. Writes
  BY <1>1, <1>2, <1>3, <1>4 DEF Writes
<1>11. op.into \in Work /\ op.by = "edit" =>
             /\ phase'["edit"] # "done" => file'[op.into] = NoFile
             /\ phase'["edit"] # "undo"
             /\ phase'["edit"] = "moved" => ~had'["edit"]
  BY <1>2, <1>4 DEF IInv, Fresh, Paced, Typed, TypedWriters
<1>12. QED
  BY <1>4, <1>6, <1>7, <1>8, <1>9, <1>10, <1>11, WritesKeep

LEMMA FillKeeps ==
  ASSUME IInv, FillWriter
  PROVE  IInv'
<1>1. /\ At("fill") /\ phase[op.by] = "open" /\ SF!Write(op.by, Asked) /\ Goto("commit")
      /\ UNCHANGED <<rescued, store, repl, env, used>>
  BY DEF FillWriter, Asked
<1>2. /\ power /\ ~host /\ op.pc = "fill" /\ op \in Ops
      /\ used.faults \in Nat
      /\ DOMAIN used = {"faults", "recovery", "crashes", "stops", "edits"}
      /\ op.by \in {"edit", "ses"}
      /\ op.by = "edit" => phase["ses"] = "closed" /\ op.into \in Work \cup UserFile
      /\ op.by = "ses" => phase["edit"] = "closed"
      /\ Asked \in Source \cup Session
  BY <1>1, WriterNow
<1>3. /\ op' \in Ops /\ op'.pc = "commit"
      /\ op'.kind = op.kind /\ op'.by = op.by /\ op'.into = op.into /\ op'.src = op.src
      /\ op'.work = op.work /\ op'.name = op.name /\ op'.dirty = op.dirty
  BY <1>1, <1>2, GotoIs DEF Pc
<1>4. /\ buf' = [buf EXCEPT ![op.by] = Asked]
      /\ UNCHANGED <<file, tmp, bak, kept, phase, tgt, had, res>>
  BY <1>1, <1>2 DEF SF!Write, SF!disk
<1>5. Aim' = Aim /\ Asked' = Asked
  BY <1>3 DEF Aim, Asked, Record
<1>6. TypedDisk'
  BY <1>1, <1>4 DEF IInv, Typed, TypedDisk
<1>7. TypedWriters'
  BY <1>2, <1>4 DEF IInv, Typed, TypedWriters
<1>8. Paced'
  BY <1>1, <1>2, <1>3, <1>4, <1>5 DEF IInv, Paced, Typed, TypedWriters
<1>9. Aside'
  BY <1>3, <1>4 DEF IInv, Aside
<1>10. Writes
  BY <1>1, <1>2, <1>3, <1>4 DEF Writes
<1>11. op.into \in Work /\ op.by = "edit" =>
             /\ phase'["edit"] # "done" => file'[op.into] = NoFile
             /\ phase'["edit"] # "undo"
             /\ phase'["edit"] = "moved" => ~had'["edit"]
  BY <1>2, <1>4 DEF IInv, Fresh
<1>12. QED
  BY <1>4, <1>6, <1>7, <1>8, <1>9, <1>10, <1>11, WritesKeep

(* What commit() knows before each of its steps.                           *)
LEMMA CommitNow ==
  ASSUME IInv, At("commit"), UNCHANGED <<rescued, store, repl, op, env>>,
         \/ used' = used
         \/ Spend("faults")
  PROVE  /\ op \in Ops /\ op.pc = "commit" /\ op.by \in {"edit", "ses"}
         /\ phase[op.by] # "closed" /\ tgt[op.by] = Aim
         /\ Aim' = Aim /\ Asked' = Asked /\ Staged' = Staged
         /\ UNCHANGED <<op.pc, op.by, op.into>>
         /\ Asked \in Source \cup Session /\ Aim \in Files
         /\ op.by = "edit" => /\ Asked \in Source /\ Aim \in Work \cup UserFile /\ Aim = op.into
                              /\ phase["ses"] = "closed" /\ Staged = "RMBEDIT"
         /\ op.by = "ses" => /\ Aim = Ses /\ Aim \notin Work \cup UserFile
                             /\ phase["edit"] = "closed" /\ Staged = "RMBSES"
         /\ StageOf[op.by] = Staged
         /\ (\A w \in Work : w # op.into => file'[w] = file[w]) => Writes
<1>1. /\ power /\ ~host /\ op.pc = "commit" /\ op \in Ops
      /\ used.faults \in Nat
      /\ DOMAIN used = {"faults", "recovery", "crashes", "stops", "edits"}
      /\ op.by \in {"edit", "ses"}
      /\ op.by = "edit" => phase["ses"] = "closed" /\ op.into \in Work \cup UserFile
      /\ op.by = "ses" => phase["edit"] = "closed"
      /\ Asked \in Source \cup Session /\ Aim \in Files
      /\ op.by = "edit" => Asked \in Source
  BY WriterNow
<1>2. phase[op.by] # "closed" /\ tgt[op.by] = Aim
  BY <1>1 DEF IInv, Paced
<1>3. /\ used'.faults \in Nat
      /\ DOMAIN used' = {"faults", "recovery", "crashes", "stops", "edits"}
      /\ used'.faults = 0 => used.faults = 0
  BY <1>1, SpendIs DEF IInv, Typed, Spend
<1>4. (\A w \in Work : w # op.into => file'[w] = file[w]) => Writes
  BY <1>1, <1>3 DEF Writes
<1>5. Aim' = Aim /\ Asked' = Asked /\ Staged' = Staged
  BY DEF Aim, Asked, Staged, Record
<1>6. Ses \notin Work \cup UserFile
  BY Apart
<1>7. QED
  BY <1>1, <1>2, <1>4, <1>5, <1>6, StagesAre

LEMMA SealKeeps ==
  ASSUME IInv, At("commit"), UNCHANGED <<rescued, store, repl, op, env>>, used' = used,
         SF!Seal(op.by)
  PROVE  IInv'
<1>1. /\ op \in Ops /\ op.pc = "commit" /\ op.by \in {"edit", "ses"}
      /\ phase[op.by] # "closed" /\ tgt[op.by] = Aim
      /\ Aim' = Aim /\ Asked' = Asked /\ Staged' = Staged /\ Asked \in Source \cup Session
      /\ op.by = "edit" => Asked \in Source /\ phase["ses"] = "closed" /\ Staged = "RMBEDIT"
      /\ op.by = "ses" => phase["edit"] = "closed" /\ Staged = "RMBSES"
      /\ StageOf[op.by] = Staged
      /\ (\A w \in Work : w # op.into => file'[w] = file[w]) => Writes
  BY CommitNow
<1>2. buf[op.by] = Asked /\ phase[op.by] = "open"
  BY <1>1 DEF IInv, Paced, SF!Seal
<1>3. /\ tmp' = [tmp EXCEPT ![Staged] = Asked]
      /\ phase' = [phase EXCEPT ![op.by] = "sealed"]
      /\ UNCHANGED <<file, bak, kept, tgt, buf, had, res>>
  BY <1>1, <1>2 DEF SF!Seal, SF!Goto
<1>4. Writes
  BY <1>1, <1>3
<1>5. TypedDisk'
  BY <1>1, <1>3 DEF IInv, Typed, TypedDisk, Content, Program
<1>6. TypedWriters'
  BY <1>1, <1>3 DEF IInv, Typed, TypedWriters
<1>7. Paced'
  <2>1. tmp'[Staged] = Asked
    BY <1>1, <1>3 DEF IInv, Typed, TypedDisk, Stages
  <2>2. phase'[op.by] = "sealed" /\ \A v \in {"edit", "ses"} : v # op.by => phase'[v] = phase[v]
    BY <1>1, <1>3 DEF IInv, Typed, TypedWriters
  <2>3. QED
    BY <1>1, <1>2, <1>3, <2>1, <2>2 DEF Paced
<1>8. Aside'
  BY <1>1, <1>2, <1>3 DEF IInv, Aside, Typed, TypedWriters
<1>9. op.into \in Work /\ op.by = "edit" =>
             /\ phase'["edit"] # "done" => file'[op.into] = NoFile
             /\ phase'["edit"] # "undo"
             /\ phase'["edit"] = "moved" => ~had'["edit"]
  BY <1>1, <1>2, <1>3 DEF IInv, Fresh, Typed, TypedWriters
<1>10. QED
  BY <1>3, <1>4, <1>5, <1>6, <1>7, <1>8, <1>9, WritesKeep

LEMMA MoveOldKeeps ==
  ASSUME IInv, At("commit"), UNCHANGED <<rescued, store, repl, op, env>>, used' = used,
         SF!MoveOld(op.by)
  PROVE  IInv'
<1>1. /\ op \in Ops /\ op.pc = "commit" /\ op.by \in {"edit", "ses"}
      /\ phase[op.by] # "closed" /\ tgt[op.by] = Aim
      /\ Aim' = Aim /\ Asked' = Asked /\ Staged' = Staged /\ Aim \in Files
      /\ op.by = "edit" => /\ Aim \in Work \cup UserFile /\ Aim = op.into
                           /\ phase["ses"] = "closed" /\ Staged = "RMBEDIT"
      /\ op.by = "ses" => /\ Aim = Ses /\ Aim \notin Work \cup UserFile
                          /\ phase["edit"] = "closed" /\ Staged = "RMBSES"
      /\ StageOf[op.by] = Staged
      /\ (\A w \in Work : w # op.into => file'[w] = file[w]) => Writes
  BY CommitNow
<1>2. phase[op.by] = "sealed" /\ buf[op.by] = Asked /\ tmp[Staged] = Asked
  BY <1>1 DEF IInv, Paced, SF!MoveOld
<1> DEFINE there == file[Aim] # NoFile
<1>3. /\ had' = [had EXCEPT ![op.by] = there]
      /\ phase' = [phase EXCEPT ![op.by] = "moved"]
      /\ UNCHANGED <<tgt, buf, res>>
      /\ \/ file[Aim] = NoFile /\ UNCHANGED <<file, tmp, bak, kept>>
         \/ /\ file[Aim] # NoFile
            /\ bak' = [bak EXCEPT ![Staged] = file[Aim]]
            /\ file' = [file EXCEPT ![Aim] = NoFile]
            /\ kept' = [kept EXCEPT ![Staged] = Aim]
            /\ UNCHANGED tmp
  BY <1>1 DEF SF!MoveOld, SF!Goto, SF!disk
<1>4. there \in BOOLEAN /\ (there <=> file[Aim] # NoFile)
  OBVIOUS
<1> HIDE DEF there
<1>5. /\ file' \in [Files -> Content] /\ \A t \in Files : t # Aim => file'[t] = file[t]
      /\ file'[Aim] = NoFile /\ tmp' = tmp
  BY <1>1, <1>3 DEF IInv, Typed, TypedDisk, Content, Program
<1>6. Work \subseteq Files /\ UserFile \subseteq Files
  BY DEF Files
<1>7. op.by = "edit" /\ op.into \in Work => file[Aim] = NoFile
  BY <1>1, <1>2 DEF IInv, Fresh
<1>8. Writes
  BY <1>1, <1>5, <1>6
<1>9. TypedDisk'
  <2>1. \A t \in Work \cup UserFile : file'[t] \in Program
    BY <1>1, <1>5, <1>6 DEF IInv, Typed, TypedDisk, Program
  <2>2. bak' \in [Stages -> Content] /\ bak'["RMBEDIT"] \in Program
    BY <1>1, <1>3 DEF IInv, Typed, TypedDisk, Stages
  <2>3. kept' \in [Stages -> Files \cup {None}]
    BY <1>1, <1>3 DEF IInv, Typed, TypedDisk, Stages
  <2>4. QED
    BY <1>5, <1>8, <2>1, <2>2, <2>3 DEF IInv, Typed, TypedDisk, Writes
<1>10. TypedWriters'
  BY <1>1, <1>3, <1>4 DEF IInv, Typed, TypedWriters
<1>11. /\ phase'[op.by] = "moved" /\ (had'[op.by] <=> there)
       /\ \A v \in {"edit", "ses"} : v # op.by => phase'[v] = phase[v] /\ had'[v] = had[v]
  BY <1>1, <1>3, <1>4 DEF IInv, Typed, TypedWriters
<1>12. Paced'
  BY <1>1, <1>2, <1>3, <1>5, <1>11 DEF Paced
<1>13. Aside'
  <2>1. CASE op.by = "ses"
    <3>1. kept'["RMBEDIT"] = kept["RMBEDIT"] /\ bak'["RMBEDIT"] = bak["RMBEDIT"]
      BY <1>1, <1>3, <2>1 DEF IInv, Typed, TypedDisk, Stages
    <3>2. kept'["RMBSES"] \in {Ses, None}
      BY <1>1, <1>3, <2>1 DEF IInv, Typed, TypedDisk, Stages, Aside
    <3>3. phase'["edit"] = "closed"
      BY <1>1, <1>11, <2>1
    <3>4. QED
      BY <3>1, <3>2, <3>3 DEF IInv, Aside
  <2>2. CASE op.by = "edit"
    <3>1. kept'["RMBSES"] = kept["RMBSES"] /\ kept["RMBEDIT"] = None
      BY <1>1, <1>2, <1>3, <2>2 DEF IInv, Typed, TypedDisk, Stages, Aside
    <3>2. CASE there
      <4>1. /\ kept'["RMBEDIT"] = op.into /\ bak'["RMBEDIT"] # NoFile
            /\ op.into \in UserFile
        BY <1>1, <1>3, <1>4, <1>7, <2>2, <3>2 DEF IInv, Typed, TypedDisk, Stages
      <4>2. QED
        BY <1>1, <1>5, <1>11, <2>2, <3>1, <3>2, <4>1 DEF IInv, Aside
    <3>3. CASE ~there
      <4>1. kept' = kept /\ bak' = bak
        BY <1>3, <1>4, <3>3
      <4>2. QED
        BY <1>1, <1>5, <1>11, <2>2, <3>1, <3>3, <4>1 DEF IInv, Aside
    <3>4. QED
      BY <1>4, <3>2, <3>3
  <2>3. QED
    BY <1>1, <2>1, <2>2
<1>14. op.into \in Work /\ op.by = "edit" =>
             /\ phase'["edit"] # "done" => file'[op.into] = NoFile
             /\ phase'["edit"] # "undo"
             /\ phase'["edit"] = "moved" => ~had'["edit"]
  BY <1>1, <1>4, <1>5, <1>7, <1>11
<1>15. op.by = "ses" /\ op.into \in Work => file'[op.into] = file[op.into]
  BY <1>1, <1>5, <1>6
<1>16. QED
  BY <1>8, <1>9, <1>10, <1>12, <1>13, <1>14, <1>15, WritesKeep

LEMMA InstallKeeps ==
  ASSUME IInv, At("commit"), UNCHANGED <<rescued, store, repl, op, env>>, used' = used,
         SF!Install(op.by)
  PROVE  IInv'
<1>1. /\ op \in Ops /\ op.pc = "commit" /\ op.by \in {"edit", "ses"}
      /\ phase[op.by] # "closed" /\ tgt[op.by] = Aim
      /\ Aim' = Aim /\ Asked' = Asked /\ Staged' = Staged /\ Aim \in Files
      /\ Asked \in Source \cup Session
      /\ op.by = "edit" => /\ Aim \in Work \cup UserFile /\ Aim = op.into /\ Asked \in Source
                           /\ phase["ses"] = "closed" /\ Staged = "RMBEDIT"
      /\ op.by = "ses" => /\ Aim = Ses /\ Aim \notin Work \cup UserFile
                          /\ phase["edit"] = "closed" /\ Staged = "RMBSES"
      /\ StageOf[op.by] = Staged
      /\ (\A w \in Work : w # op.into => file'[w] = file[w]) => Writes
  BY CommitNow
<1>2. phase[op.by] = "moved" /\ tmp[Staged] = Asked
  BY <1>1 DEF IInv, Paced, SF!Install
<1>3. /\ file' = [file EXCEPT ![Aim] = Asked]
      /\ tmp' = [tmp EXCEPT ![Staged] = NoFile]
      /\ kept' = [r \in Stages |-> IF kept[r] = Aim THEN None ELSE kept[r]]
      /\ phase' = [phase EXCEPT ![op.by] = "done"]
      /\ UNCHANGED <<bak, tgt, buf, had, res>>
  BY <1>1, <1>2 DEF SF!Install, SF!Goto, Stages
<1>4. Work \subseteq Files /\ UserFile \subseteq Files
  BY DEF Files
<1>5. /\ file' \in [Files -> Content] /\ \A t \in Files : t # Aim => file'[t] = file[t]
      /\ file'[Aim] = Asked
  BY <1>1, <1>3 DEF IInv, Typed, TypedDisk, Content, Program
<1>6. Writes
  BY <1>1, <1>4, <1>5
<1>7. TypedDisk'
  <2>1. \A t \in Work \cup UserFile : file'[t] \in Program
    BY <1>1, <1>4, <1>5 DEF IInv, Typed, TypedDisk, Program
  <2>2. tmp' \in [Stages -> Content]
    BY <1>1, <1>3 DEF IInv, Typed, TypedDisk, Stages, Content, Program
  <2>3. kept' \in [Stages -> Files \cup {None}]
    BY <1>1, <1>3 DEF IInv, Typed, TypedDisk, Stages
  <2>4. QED
    BY <1>3, <1>5, <1>6, <2>1, <2>2, <2>3 DEF IInv, Typed, TypedDisk, Writes
<1>8. TypedWriters'
  BY <1>1, <1>3 DEF IInv, Typed, TypedWriters
<1>9. /\ phase'[op.by] = "done"
      /\ \A v \in {"edit", "ses"} : v # op.by => phase'[v] = phase[v]
  BY <1>1, <1>3 DEF IInv, Typed, TypedWriters
<1>10. Paced'
  BY <1>1, <1>3, <1>5, <1>9 DEF Paced
<1>11. Aside'
  <2>1. kept'["RMBSES"] \in {Ses, None}
    BY <1>3 DEF IInv, Aside, Stages
  <2>2. CASE op.by = "ses"
    <3>1. kept'["RMBEDIT"] = kept["RMBEDIT"]
      <4>1. kept["RMBEDIT"] # Aim
        BY <1>1, <2>2, Apart DEF IInv, Aside
      <4>2. QED
        BY <1>3, <4>1 DEF Stages
    <3>2. phase'["edit"] = "closed"
      BY <1>1, <1>9, <2>2
    <3>3. QED
      BY <1>3, <2>1, <3>1, <3>2 DEF IInv, Aside
  <2>3. CASE op.by = "edit"
    <3>1. kept["RMBEDIT"] \in {op.into, None}
      BY <1>1, <1>2, <2>3 DEF IInv, Aside, Typed, TypedWriters
    <3>2. kept'["RMBEDIT"] = None
      BY <1>1, <1>3, <2>3, <3>1 DEF Stages
    <3>3. QED
      BY <1>1, <1>9, <2>1, <2>3, <3>2 DEF Aside
  <2>4. QED
    BY <1>1, <2>2, <2>3
<1>12. op.into \in Work /\ op.by = "edit" =>
             /\ phase'["edit"] # "done" => file'[op.into] = NoFile
             /\ phase'["edit"] # "undo"
             /\ phase'["edit"] = "moved" => ~had'["edit"]
  BY <1>9
<1>13. op.by = "ses" /\ op.into \in Work => file'[op.into] = file[op.into]
  BY <1>1, <1>4, <1>5
<1>14. QED
  BY <1>6, <1>7, <1>8, <1>10, <1>11, <1>12, <1>13, WritesKeep

LEMMA UndoKeeps ==
  ASSUME IInv, At("commit"), UNCHANGED <<rescued, store, repl, op, env>>, used' = used,
         SF!Undo(op.by)
  PROVE  IInv'
<1>1. /\ op \in Ops /\ op.pc = "commit" /\ op.by \in {"edit", "ses"}
      /\ phase[op.by] # "closed" /\ tgt[op.by] = Aim
      /\ Aim' = Aim /\ Asked' = Asked /\ Staged' = Staged /\ Aim \in Files
      /\ op.by = "edit" => /\ Aim \in Work \cup UserFile /\ Aim = op.into
                           /\ phase["ses"] = "closed" /\ Staged = "RMBEDIT"
      /\ op.by = "ses" => /\ Aim = Ses /\ Aim \notin Work \cup UserFile
                          /\ phase["edit"] = "closed" /\ Staged = "RMBSES"
      /\ StageOf[op.by] = Staged
      /\ (\A w \in Work : w # op.into => file'[w] = file[w]) => Writes
  BY CommitNow
<1>2. /\ phase[op.by] = "undo"
      /\ op.by = "edit" => op.into \in UserFile
  BY <1>1 DEF IInv, Fresh, SF!Undo
<1>3. /\ file' = [file EXCEPT ![Aim] = bak[Staged]]
      /\ bak' = [bak EXCEPT ![Staged] = NoFile]
      /\ kept' = [kept EXCEPT ![Staged] = None]
      /\ phase' = [phase EXCEPT ![op.by] = "bad"]
      /\ res' = [res EXCEPT ![op.by] = "fail"]
      /\ UNCHANGED <<tmp, tgt, buf, had>>
  BY <1>1, <1>2 DEF SF!Undo, SF!Goto, SF!Return
<1>4. /\ Work \subseteq Files /\ UserFile \subseteq Files
      /\ \A w \in Work : w # Aim
  BY <1>1, <1>2, Apart DEF Files
<1>5. /\ bak[Staged] \in Content
      /\ op.by = "edit" => bak[Staged] \in Program
  BY <1>1 DEF IInv, Typed, TypedDisk, Stages
<1>6. /\ file' \in [Files -> Content] /\ \A t \in Files : t # Aim => file'[t] = file[t]
      /\ file'[Aim] = bak[Staged]
  BY <1>1, <1>3, <1>5 DEF IInv, Typed, TypedDisk
<1>7. Writes
  BY <1>1, <1>4, <1>6
<1>8. TypedDisk'
  <2>1. \A t \in Work \cup UserFile : file'[t] \in Program
    BY <1>1, <1>4, <1>5, <1>6 DEF IInv, Typed, TypedDisk
  <2>2. bak' \in [Stages -> Content] /\ bak'["RMBEDIT"] \in Program
    BY <1>1, <1>3 DEF IInv, Typed, TypedDisk, Stages, Content, Program
  <2>3. kept' \in [Stages -> Files \cup {None}]
    BY <1>1, <1>3 DEF IInv, Typed, TypedDisk, Stages
  <2>4. QED
    BY <1>3, <1>6, <1>7, <2>1, <2>2, <2>3 DEF IInv, Typed, TypedDisk, Writes
<1>9. TypedWriters'
  BY <1>1, <1>3 DEF IInv, Typed, TypedWriters
<1>10. /\ phase'[op.by] = "bad"
       /\ \A v \in {"edit", "ses"} : v # op.by => phase'[v] = phase[v]
  BY <1>1, <1>3 DEF IInv, Typed, TypedWriters
<1>11. Paced'
  BY <1>1, <1>3, <1>10 DEF Paced
<1>12. Aside'
  <2>1. kept'["RMBSES"] \in {Ses, None} /\ kept'[Staged] = None
    BY <1>1, <1>3 DEF IInv, Aside, Stages, Typed, TypedDisk
  <2>2. CASE op.by = "ses"
    <3>1. kept'["RMBEDIT"] = kept["RMBEDIT"] /\ bak'["RMBEDIT"] = bak["RMBEDIT"]
      BY <1>1, <1>3, <2>2 DEF IInv, Typed, TypedDisk, Stages
    <3>2. phase'["edit"] = "closed"
      BY <1>1, <1>10, <2>2
    <3>3. QED
      BY <2>1, <3>1, <3>2 DEF IInv, Aside
  <2>3. CASE op.by = "edit"
    BY <1>1, <1>10, <2>1, <2>3 DEF Aside
  <2>4. QED
    BY <1>1, <2>2, <2>3
<1>13. op.into \in Work /\ op.by = "edit" =>
             /\ phase'["edit"] # "done" => file'[op.into] = NoFile
             /\ phase'["edit"] # "undo"
             /\ phase'["edit"] = "moved" => ~had'["edit"]
  BY <1>2, Apart
<1>14. op.by = "ses" /\ op.into \in Work => file'[op.into] = file[op.into]
  BY <1>1, <1>4, <1>6
<1>15. QED
  BY <1>7, <1>8, <1>9, <1>11, <1>12, <1>13, <1>14, WritesKeep

LEMMA CommitKeeps ==
  ASSUME IInv, CommitWriter
  PROVE  IInv'
<1>1. At("commit") /\ UNCHANGED <<rescued, store, repl, op, env>> /\ used' = used
  BY DEF CommitWriter
<1>2. SF!Seal(op.by) \/ SF!MoveOld(op.by) \/ SF!Install(op.by) \/ SF!Undo(op.by)
  BY DEF CommitWriter
<1>3. QED
  BY <1>1, <1>2, SealKeeps, MoveOldKeeps, InstallKeeps, UndoKeeps

-----------------------------------------------------------------------------
(* A call of the writer fails.                                             *)

LEMMA FailureKeeps ==
  ASSUME IInv, At("fill") \/ At("commit"),
         UNCHANGED <<file, tmp, bak, kept, rescued, tgt, buf>>, UNCHANGED <<repl, env>>, op' = op,
         Spend("faults"), TypedWriters', store' \in Stores,
         store' = store \/ (store.sd /\ store'.sd /\ store'.suspended /\ store'.src = store.src
                            /\ store'.work = store.work),
         phase[op.by] \notin {"closed", "done"}, phase'[op.by] \in {"bad", "undo"},
         \A v \in {"edit", "ses"} : v # op.by => phase'[v] = phase[v] /\ had'[v] = had[v],
         phase'[op.by] = "undo" => /\ phase[op.by] = "moved" /\ had[op.by]
                                   /\ had'[op.by] = had[op.by] /\ op.pc = "commit"
  PROVE  IInv'
<1>1. /\ op \in Ops /\ op.by \in {"edit", "ses"} /\ op.pc \in {"fill", "commit"}
      /\ TypedRest /\ power /\ ~host
      /\ op.by = "edit" => phase["ses"] = "closed"
      /\ op.by = "ses" => phase["edit"] = "closed"
  BY WriterNow DEF IInv, Typed
<1>2. /\ used'.faults \in Nat /\ used'.faults # 0
      /\ DOMAIN used' = {"faults", "recovery", "crashes", "stops", "edits"}
  BY <1>1, SpendIs DEF Spend
<1>3. Aim' = Aim /\ Asked' = Asked /\ Staged' = Staged
  BY DEF Aim, Asked, Staged, Record
<1>4. Typed'
  BY <1>1, <1>2 DEF IInv, Typed, TypedDisk, TypedRest, env
<1>5. Paced'
  BY <1>1, <1>3 DEF IInv, Paced
<1>6. op.by = "edit" /\ op.into \in Work =>
         file[op.into] = NoFile /\ phase'["edit"] = "bad"
  BY <1>1 DEF IInv, Fresh
<1>7. store'.work = store.work /\ store'.src = store.src /\ (store'.sd <=> store.sd)
      /\ (op.kind = "boot" => ~store.sd) /\ (~store.sd => store' = store)
  <2>1. op.kind = "boot" => ~store.sd
    BY <1>1 DEF IInv, Shaped
  <2>2. QED
    BY <2>1
<1>8. Fresh'
  BY <1>1, <1>6, <1>7 DEF IInv, Fresh
<1>9. Backed'
  BY <1>7 DEF IInv, Backed
<1>10. Shaped'
  BY <1>7 DEF IInv, Shaped
<1>11. Aside'
  BY <1>1 DEF IInv, Aside
<1>12. Away' /\ Living' /\ Tidy'
  BY <1>1, <1>2 DEF IInv, Away, Living, Tidy, env
<1>13. QED
  BY <1>4, <1>5, <1>8, <1>9, <1>10, <1>11, <1>12 DEF IInv

LEMMA FailsKeep ==
  ASSUME IInv, WriterFails
  PROVE  IInv'
<1>1. /\ Spend("faults") /\ UNCHANGED <<rescued, store, repl, op, env>>
      /\ At("fill") \/ At("commit")
      /\ store' = store /\ op' = op
  BY DEF WriterFails
<1>2. /\ op \in Ops /\ op.by \in {"edit", "ses"} /\ store \in Stores
  BY <1>1, WriterNow
<1>3. CASE SF!WriteFails(op.by) \/ (At("commit") /\ SF!SealFails(op.by))
           \/ (At("commit") /\ SF!UndoFails(op.by))
  <2>1. /\ phase[op.by] \in {"open", "undo"}
        /\ phase' = [phase EXCEPT ![op.by] = "bad"]
        /\ res' = res \/ res' = [res EXCEPT ![op.by] = "fail"]
        /\ UNCHANGED <<file, tmp, bak, kept, tgt, buf, had>>
    BY <1>3 DEF SF!WriteFails, SF!SealFails, SF!UndoFails, SF!Goto, SF!Return, SF!disk
  <2>2. TypedWriters'
    BY <1>2, <2>1 DEF IInv, Typed, TypedWriters
  <2>3. /\ phase'[op.by] = "bad"
        /\ \A v \in {"edit", "ses"} : v # op.by => phase'[v] = phase[v] /\ had'[v] = had[v]
    BY <1>2, <2>1 DEF IInv, Typed, TypedWriters
  <2>4. QED
    BY <1>1, <1>2, <2>1, <2>2, <2>3, FailureKeeps
<1>4. CASE At("commit") /\ SF!MoveOldFails(op.by)
  <2>1. /\ phase[op.by] = "sealed"
        /\ phase' = [phase EXCEPT ![op.by] = "bad"]
        /\ had' = [had EXCEPT ![op.by] = TRUE]
        /\ res' = [res EXCEPT ![op.by] = "fail"]
        /\ UNCHANGED <<file, tmp, bak, kept, tgt, buf>>
    BY <1>4 DEF SF!MoveOldFails, SF!Goto, SF!Return, SF!disk
  <2>2. TypedWriters'
    BY <1>2, <2>1 DEF IInv, Typed, TypedWriters
  <2>3. /\ phase'[op.by] = "bad"
        /\ \A v \in {"edit", "ses"} : v # op.by => phase'[v] = phase[v] /\ had'[v] = had[v]
    BY <1>2, <2>1 DEF IInv, Typed, TypedWriters
  <2>4. QED
    BY <1>1, <1>2, <2>1, <2>2, <2>3, FailureKeeps
<1>5. CASE At("commit") /\ SF!InstallFails(op.by)
  <2>1. /\ phase[op.by] = "moved"
        /\ \/ /\ had[op.by] /\ res' = res
              /\ phase' = [phase EXCEPT ![op.by] = "undo"]
           \/ /\ phase' = [phase EXCEPT ![op.by] = "bad"]
              /\ res' = [res EXCEPT ![op.by] = "fail"]
        /\ UNCHANGED <<file, tmp, bak, kept, tgt, buf, had>>
    BY <1>5 DEF SF!InstallFails, SF!Goto, SF!Return, SF!disk
  <2>2. TypedWriters'
    BY <1>2, <2>1 DEF IInv, Typed, TypedWriters
  <2>3. /\ phase'[op.by] \in {"bad", "undo"}
        /\ phase'[op.by] = "undo" => had[op.by]
        /\ \A v \in {"edit", "ses"} : v # op.by => phase'[v] = phase[v] /\ had'[v] = had[v]
    BY <1>2, <2>1 DEF IInv, Typed, TypedWriters
  <2>4. op.pc = "commit"
    BY <1>5 DEF At
  <2>5. QED
    BY <1>1, <1>2, <2>1, <2>2, <2>3, <2>4, FailureKeeps
<1>6. QED
  BY <1>1, <1>3, <1>4, <1>5 DEF WriterFails

LEMMA UnreadableKeeps ==
  ASSUME IInv, SourceUnreadable
  PROVE  IInv'
<1>1. /\ At("fill") /\ op.by = "edit" /\ phase["edit"] = "open" /\ store.sd
      /\ Spend("faults") /\ UNCHANGED <<rescued, repl, op, env>> /\ op' = op
      /\ store' = [store EXCEPT !.suspended = TRUE]
      /\ phase' = [phase EXCEPT !["edit"] = "bad"]
      /\ UNCHANGED <<file, tmp, bak, kept, tgt, buf, had, res>>
  BY DEF SourceUnreadable, SF!WriteFails, SF!Goto, SF!disk
<1>2. store \in Stores
  BY <1>1, WriterNow
<1>3. /\ store' \in Stores /\ store'.sd /\ store'.suspended
      /\ store'.src = store.src /\ store'.work = store.work
  BY <1>1, <1>2 DEF Stores
<1>4. TypedWriters'
  BY <1>1 DEF IInv, Typed, TypedWriters
<1>5. /\ phase'["edit"] = "bad"
      /\ \A v \in {"edit", "ses"} : v # "edit" => phase'[v] = phase[v] /\ had'[v] = had[v]
  BY <1>1 DEF IInv, Typed, TypedWriters
<1>6. QED
  BY <1>1, <1>3, <1>4, <1>5, FailureKeeps

-----------------------------------------------------------------------------
(* A writer is given up, or is done.                                       *)

(* The programs of the card are where they were, and no writer is in use.  *)
Released ==
    /\ UNCHANGED <<file, rescued>> /\ UNCHANGED env
    /\ tmp' \in [Stages -> Content]
    /\ bak' \in [Stages -> Content]
    /\ kept["RMBEDIT"] # None => bak'["RMBEDIT"] = bak["RMBEDIT"]
    /\ bak'["RMBEDIT"] \in Program
    /\ kept' = kept
    /\ TypedWriters'
    /\ phase'["edit"] = "closed" /\ phase'["ses"] = "closed"
    /\ used'.faults \in Nat
    /\ DOMAIN used' = {"faults", "recovery", "crashes", "stops", "edits"}
    /\ used'.faults = 0 => used.faults = 0

LEMMA ReleasedKeeps ==
  ASSUME IInv, Released, op' \in Ops, op'.pc \notin {"fill", "commit"}, store' \in Stores,
         repl' \in BOOLEAN
  PROVE  Typed' /\ Paced' /\ Aside'
<1>1. TypedDisk'
  BY DEF IInv, Typed, TypedDisk, Released
<1>2. TypedRest'
  BY DEF IInv, Typed, TypedRest, Released, env
<1>3. op'.by \in {"edit", "ses"}
  BY DEF Ops
<1>4. Paced'
  BY <1>3 DEF Paced, Released
<1>5. Aside'
  BY DEF IInv, Aside, Released
<1>6. QED
  BY <1>1, <1>2, <1>4, <1>5 DEF Typed, Released

LEMMA FailKeeps ==
  ASSUME IInv, Released, At("open") \/ At("fill") \/ At("commit"), Fail, store' = store,
         phase[op.by] # "done"
  PROVE  IInv'
<1>1. /\ op \in Ops /\ op.by \in {"edit", "ses"} /\ op.pc \in {"open", "fill", "commit"}
      /\ store \in Stores /\ repl \in BOOLEAN /\ power /\ ~host
  BY WriterNow
<1>2. repl' \in BOOLEAN
  BY <1>1 DEF Fail
<1>3. file' = file /\ power' = power /\ host' = host /\ (used'.faults = 0 => used.faults = 0)
  BY DEF Released, env
<1>4. None \notin Work /\ None \notin UserFile
  BY Apart
<1>5. CASE op.by = "ses" /\ op.into \in Work
  <2>1. Goto("undo")
    BY <1>5 DEF Fail
  <2>2. /\ op' \in Ops /\ op'.pc = "undo"
        /\ op'.kind = op.kind /\ op'.by = op.by /\ op'.into = op.into /\ op'.src = op.src
        /\ op'.work = op.work
    BY <1>1, <2>1, GotoIs DEF Pc
  <2>3. Typed' /\ Paced' /\ Aside'
    BY <1>1, <1>2, <2>2, ReleasedKeeps
  <2>4. Fresh' /\ Backed' /\ Shaped'
    BY <1>1, <1>3, <1>5, <2>2 DEF IInv, Fresh, Backed, Shaped
  <2>5. Away' /\ Living' /\ Tidy'
    BY <1>1, <1>3, <2>2 DEF IInv, Away, Living, Tidy
  <2>6. QED
    BY <2>3, <2>4, <2>5 DEF IInv
<1>6. CASE ~(op.by = "ses" /\ op.into \in Work)
  <2>1. /\ op' = Idle /\ op' \in Ops /\ op'.pc = "idle" /\ op'.by = "edit"
        /\ op'.into = None /\ op'.kind = "none"
    BY <1>6, ReturnIs DEF Fail
  <2>2. Typed' /\ Paced' /\ Aside'
    BY <1>1, <1>2, <2>1, ReleasedKeeps
  <2>3. Fresh' /\ Backed' /\ Shaped'
    BY <1>4, <2>1 DEF Fresh, Backed, Shaped
  <2>4. op.into \in Work => file[op.into] = NoFile
    BY <1>1, <1>6 DEF IInv, Fresh
  <2>5. Away' /\ Living'
    BY <1>1, <1>3, <2>1 DEF IInv, Away, Living
  <2>6. Tidy'
    BY <1>1, <1>3, <2>1, <2>4 DEF IInv, Tidy
  <2>7. QED
    BY <2>2, <2>3, <2>5, <2>6 DEF IInv
<1>7. QED
  BY <1>5, <1>6

LEMMA RefusedKeeps ==
  ASSUME IInv, OpenRefused
  PROVE  IInv'
<1>1. /\ At("open") /\ Fail /\ UNCHANGED <<disk, writers, store, env>>
      /\ used' = used \/ Spend("faults")
  BY DEF OpenRefused
<1>2. /\ op \in Ops /\ op.by \in {"edit", "ses"} /\ op.pc = "open"
      /\ used.faults \in Nat
      /\ DOMAIN used = {"faults", "recovery", "crashes", "stops", "edits"}
      /\ op.by = "edit" => phase["ses"] = "closed"
      /\ op.by = "ses" => phase["edit"] = "closed"
  BY <1>1, WriterNow
<1>3. phase[op.by] = "closed" /\ phase["edit"] = "closed" /\ phase["ses"] = "closed"
  BY <1>2 DEF IInv, Paced
<1>4. /\ used'.faults \in Nat
      /\ DOMAIN used' = {"faults", "recovery", "crashes", "stops", "edits"}
      /\ used'.faults = 0 => used.faults = 0
  BY <1>1, <1>2, SpendIs DEF IInv, Typed, Spend
<1>5. Released
  BY <1>1, <1>3, <1>4 DEF Released, disk, writers, IInv, Typed, TypedDisk, TypedWriters
<1>6. QED
  BY <1>1, <1>3, <1>5, FailKeeps

LEMMA AbortKeeps ==
  ASSUME IInv, AbortWriter
  PROVE  IInv'
<1>1. /\ At("fill") \/ At("commit")
      /\ phase[op.by] = "bad" /\ Fail
      /\ UNCHANGED <<rescued, store, env>> /\ store' = store
      /\ \/ SF!Abort(op.by) /\ used' = used
         \/ SF!AbortLeavesTmp(op.by) /\ Spend("faults")
  BY DEF AbortWriter
<1>2. /\ op \in Ops /\ op.by \in {"edit", "ses"}
      /\ used.faults \in Nat
      /\ DOMAIN used = {"faults", "recovery", "crashes", "stops", "edits"}
      /\ op.by = "edit" => phase["ses"] = "closed"
      /\ op.by = "ses" => phase["edit"] = "closed"
  BY <1>1, WriterNow
<1>3. /\ used'.faults \in Nat
      /\ DOMAIN used' = {"faults", "recovery", "crashes", "stops", "edits"}
      /\ used'.faults = 0 => used.faults = 0
  BY <1>1, <1>2, SpendIs DEF IInv, Typed, Spend
<1>4. /\ phase' = [phase EXCEPT ![op.by] = "closed"]
      /\ tgt' = [tgt EXCEPT ![op.by] = None]
      /\ buf' = [buf EXCEPT ![op.by] = Empty]
      /\ had' = [had EXCEPT ![op.by] = FALSE]
      /\ UNCHANGED <<file, bak, kept, res>>
      /\ tmp' = tmp \/ tmp' = [tmp EXCEPT ![StageOf[op.by]] = NoFile]
  BY <1>1 DEF SF!Abort, SF!AbortLeavesTmp, SF!Retire, SF!Goto, SF!disk
<1>5. TypedWriters'
  BY <1>2, <1>4, Apart DEF IInv, Typed, TypedWriters
<1>6. phase'["edit"] = "closed" /\ phase'["ses"] = "closed"
  BY <1>2, <1>4 DEF IInv, Typed, TypedWriters
<1>7. tmp' \in [Stages -> Content]
  BY <1>4 DEF IInv, Typed, TypedDisk, Content, Program
<1>8. Released
  BY <1>1, <1>3, <1>4, <1>5, <1>6, <1>7 DEF Released, IInv, Typed, TypedDisk
<1>9. QED
  BY <1>1, <1>8, FailKeeps

LEMMA FinishesIs ==
  ASSUME IInv, Finishes
  PROVE  /\ Released /\ op.pc = "commit" /\ op.by \in {"edit", "ses"} /\ op \in Ops
         /\ phase[op.by] = "done" /\ power /\ ~host
         /\ store \in Stores /\ repl \in BOOLEAN
         /\ file' = file /\ power' = power /\ host' = host
<1>1. /\ At("commit") /\ UNCHANGED <<rescued, env>>
      /\ SF!Finish(op.by) \/ SF!FinishLeavesBak(op.by)
      /\ used' = used \/ Spend("faults")
  BY DEF Finishes
<1>2. /\ op \in Ops /\ op.by \in {"edit", "ses"} /\ op.pc = "commit" /\ power /\ ~host
      /\ store \in Stores /\ repl \in BOOLEAN
      /\ used.faults \in Nat
      /\ DOMAIN used = {"faults", "recovery", "crashes", "stops", "edits"}
      /\ op.by = "edit" => phase["ses"] = "closed"
      /\ op.by = "ses" => phase["edit"] = "closed"
  BY <1>1, WriterNow
<1>3. /\ used'.faults \in Nat
      /\ DOMAIN used' = {"faults", "recovery", "crashes", "stops", "edits"}
      /\ used'.faults = 0 => used.faults = 0
  BY <1>1, <1>2, SpendIs DEF IInv, Typed, Spend
<1>4. phase[op.by] = "done"
  BY <1>1 DEF SF!Finish, SF!FinishLeavesBak
<1> DEFINE left == IF had[op.by] THEN NoFile ELSE bak[Staged]
<1>5. /\ phase' = [phase EXCEPT ![op.by] = "closed"]
      /\ tgt' = [tgt EXCEPT ![op.by] = None]
      /\ buf' = [buf EXCEPT ![op.by] = Empty]
      /\ had' = [had EXCEPT ![op.by] = FALSE]
      /\ res' = [res EXCEPT ![op.by] = "ok"]
      /\ UNCHANGED <<file, tmp, kept>>
      /\ bak' = bak \/ bak' = [bak EXCEPT ![Staged] = left]
  BY <1>1, <1>2, StagesAre DEF SF!Finish, SF!FinishLeavesBak, SF!Retire, SF!Goto, SF!Return, SF!disk
<1>6. TypedWriters'
  BY <1>2, <1>5, Apart DEF IInv, Typed, TypedWriters
<1>7. phase'["edit"] = "closed" /\ phase'["ses"] = "closed"
  BY <1>2, <1>5 DEF IInv, Typed, TypedWriters
<1>8. left \in {NoFile, bak[Staged]} /\ Staged \in Stages
  BY <1>2, StagesAre DEF Stages
<1> HIDE DEF left
<1>9. /\ bak' \in [Stages -> Content]
      /\ bak'["RMBEDIT"] \in {bak["RMBEDIT"], NoFile}
      /\ op.by = "ses" => bak'["RMBEDIT"] = bak["RMBEDIT"]
  BY <1>2, <1>5, <1>8, StagesAre DEF IInv, Typed, TypedDisk, Content, Program, Stages
<1>10. bak'["RMBEDIT"] \in Program
  BY <1>9 DEF IInv, Typed, TypedDisk, Program
<1>11. kept["RMBEDIT"] # None => op.by = "ses"
  BY <1>2, <1>4 DEF IInv, Aside
<1>12. tmp' \in [Stages -> Content]
  BY <1>5 DEF IInv, Typed, TypedDisk
<1>13. Released
  BY <1>1, <1>3, <1>5, <1>6, <1>7, <1>9, <1>10, <1>11, <1>12 DEF Released
<1>14. QED
  BY <1>1, <1>2, <1>4, <1>5, <1>13 DEF env

LEMMA SnapshotDoneKeeps ==
  ASSUME IInv, SnapshotDone
  PROVE  IInv'
<1>1. op.by = "edit" /\ Finishes
  BY DEF SnapshotDone
<1>2. /\ Released /\ op.pc = "commit" /\ op \in Ops /\ phase["edit"] = "done" /\ power /\ ~host
      /\ store \in Stores /\ repl \in BOOLEAN
      /\ file' = file /\ power' = power /\ host' = host
  BY <1>1, FinishesIs
<1>3. op.into \in Work \cup UserFile
  BY <1>1, <1>2 DEF IInv, Shaped, Ops
<1>4. used'.faults = 0 => used.faults = 0
  BY <1>2 DEF Released
<1>5. None \notin Work /\ None \notin UserFile /\ (op.into \in UserFile => op.into \notin Work)
  BY Apart
<1>6. CASE op.into \in Work
  <2>1. Goto("verify") /\ store' = store /\ repl' = repl
    BY <1>6 DEF SnapshotDone
  <2>2. /\ op' \in Ops /\ op'.pc = "verify"
        /\ op'.kind = op.kind /\ op'.by = op.by /\ op'.into = op.into /\ op'.src = op.src
        /\ op'.work = op.work
    BY <1>2, <2>1, GotoIs DEF Pc
  <2>3. Typed' /\ Paced' /\ Aside'
    BY <1>2, <2>1, <2>2, ReleasedKeeps
  <2>4. file[op.into] = op.src
    BY <1>1, <1>2 DEF IInv, Paced, Aim, Asked
  <2>5. Fresh' /\ Backed' /\ Shaped'
    BY <1>1, <1>2, <1>6, <2>1, <2>2, <2>4 DEF IInv, Fresh, Backed, Shaped
  <2>6. Away' /\ Living' /\ Tidy'
    BY <1>2, <1>4, <2>1, <2>2 DEF IInv, Away, Living, Tidy
  <2>7. QED
    BY <2>3, <2>5, <2>6 DEF IInv
<1>7. CASE op.into \notin Work /\ store.sd
  <2>1. op' = [op EXCEPT !.pc = "stale tmp", !.by = "ses"] /\ store' = store /\ repl' = repl
    BY <1>7 DEF SnapshotDone
  <2>2. /\ op' \in Ops /\ op'.pc = "stale tmp" /\ op'.by = "ses"
        /\ op'.kind = op.kind /\ op'.into = op.into /\ op'.src = op.src
        /\ op'.work = op.work
    BY <1>2, <2>1 DEF Ops, Pc
  <2>3. Typed' /\ Paced' /\ Aside'
    BY <1>2, <2>1, <2>2, ReleasedKeeps
  <2>4. op.work \in Work /\ op.work = store.work /\ file[op.work] = op.src
    BY <1>3, <1>7 DEF IInv, Backed
  <2>5. Fresh' /\ Backed' /\ Shaped'
    BY <1>2, <1>7, <2>1, <2>2, <2>4 DEF IInv, Fresh, Backed, Shaped
  <2>6. Away' /\ Living' /\ Tidy'
    BY <1>2, <1>4, <2>1, <2>2 DEF IInv, Away, Living, Tidy
  <2>7. QED
    BY <2>3, <2>5, <2>6 DEF IInv
<1>8. CASE op.into \notin Work /\ ~store.sd
  <2>1. /\ Return /\ repl' = FALSE
        /\ store' = [store EXCEPT !.name = op.name, !.dirty = FALSE, !.saved = store.src]
    BY <1>8 DEF SnapshotDone
  <2>2. store' \in Stores /\ ~store'.sd
    BY <1>2, <1>8, <2>1 DEF Stores, Ops
  <2>3. /\ op' = Idle /\ op' \in Ops /\ op'.pc = "idle" /\ op'.by = "edit"
        /\ op'.into = None /\ op'.kind = "none"
    BY <2>1, ReturnIs
  <2>4. Typed' /\ Paced' /\ Aside'
    BY <1>2, <2>1, <2>2, <2>3, ReleasedKeeps
  <2>5. Fresh' /\ Backed' /\ Shaped'
    BY <1>5, <2>3 DEF Fresh, Backed, Shaped
  <2>6. Away' /\ Living' /\ Tidy'
    BY <1>2, <2>2, <2>3 DEF Away, Living, Tidy
  <2>7. QED
    BY <2>4, <2>5, <2>6 DEF IInv
<1>9. QED
  BY <1>2, <1>6, <1>7, <1>8 DEF Stores

LEMMA SessionDoneKeeps ==
  ASSUME IInv, SessionDone
  PROVE  IInv'
<1>1. /\ op.by = "ses" /\ Finishes
      /\ store' = Adopt(Record(op), op.src, store.saved) /\ repl' = op.repl
      /\ IF op.into \in Work THEN Goto("cleanup") ELSE Return
  BY DEF SessionDone
<1>2. /\ Released /\ op.pc = "commit" /\ op \in Ops /\ phase["ses"] = "done" /\ power /\ ~host
      /\ store \in Stores /\ store.saved \in Source \cup {Nothing} /\ op.repl \in BOOLEAN
      /\ file' = file /\ power' = power /\ host' = host
  BY <1>1, FinishesIs, StoreIs DEF Ops
<1>3. op.work \in Work /\ file[op.work] = op.src
  BY <1>1, <1>2 DEF IInv, Backed
<1>4. /\ store' \in Stores /\ store'.sd /\ ~store'.suspended
      /\ store'.src = op.src /\ store'.work = op.work
  BY <1>1, <1>2, <1>3, AdoptIs
<1>5. used'.faults = 0 => used.faults = 0
  BY <1>2 DEF Released
<1>6. None \notin Work /\ None \notin UserFile
      /\ (op.into \in Work => op.into \notin UserFile)
  BY Apart
<1>7. CASE op.into \in Work
  <2>1. /\ op' \in Ops /\ op'.pc = "cleanup"
        /\ op'.kind = op.kind /\ op'.by = op.by /\ op'.into = op.into /\ op'.src = op.src
        /\ op'.work = op.work
    BY <1>1, <1>2, <1>7, GotoIs DEF Pc
  <2>2. Typed' /\ Paced' /\ Aside'
    BY <1>1, <1>2, <1>4, <2>1, ReleasedKeeps
  <2>3. Fresh' /\ Backed' /\ Shaped'
    BY <1>2, <1>6, <1>7, <2>1 DEF IInv, Fresh, Backed, Shaped
  <2>4. Away' /\ Living' /\ Tidy'
    BY <1>2, <1>3, <1>4, <2>1 DEF Away, Living, Tidy
  <2>5. QED
    BY <2>2, <2>3, <2>4 DEF IInv
<1>8. CASE op.into \notin Work
  <2>1. /\ op' = Idle /\ op' \in Ops /\ op'.pc = "idle" /\ op'.by = "edit"
        /\ op'.into = None /\ op'.kind = "none"
    BY <1>1, <1>8, ReturnIs
  <2>2. Typed' /\ Paced' /\ Aside'
    BY <1>1, <1>2, <1>4, <2>1, ReleasedKeeps
  <2>3. Fresh' /\ Backed' /\ Shaped'
    BY <1>6, <2>1 DEF Fresh, Backed, Shaped
  <2>4. store.sd /\ op.work = store.work
    BY <1>1, <1>8 DEF IInv, Backed
  <2>5. Away' /\ Living'
    BY <1>2, <1>3, <1>4, <2>1 DEF Away, Living
  <2>6. Tidy'
    BY <1>2, <1>3, <1>4, <1>5, <1>6, <1>8, <2>1, <2>4 DEF IInv, Tidy
  <2>7. QED
    BY <2>2, <2>3, <2>5, <2>6 DEF IInv
<1>9. QED
  BY <1>7, <1>8

-----------------------------------------------------------------------------
(* The invariant holds.                                                    *)

LEMMA InitIInv == Init => IInv
<1> SUFFICES ASSUME Init PROVE IInv
  OBVIOUS
<1>1. /\ store = Blank /\ repl = FALSE /\ op = Idle /\ rescued = {}
      /\ power = FALSE /\ card = TRUE /\ host = FALSE
      /\ used = [faults |-> 0, recovery |-> 0, crashes |-> 0, stops |-> 0, edits |-> 0]
  BY DEF Init
<1>2. PICK users \in [UserFile -> Source \cup {NoFile}] :
         file = [f \in Work \cup UserFile \cup {Ses} |->
                    IF f \in UserFile THEN users[f] ELSE NoFile]
  BY DEF Init
<1>3. /\ tmp = [s \in Stages |-> NoFile] /\ bak = [s \in Stages |-> NoFile]
      /\ phase = [w \in {"edit", "ses"} |-> "closed"]
      /\ tgt = [w \in {"edit", "ses"} |-> None]
      /\ buf = [w \in {"edit", "ses"} |-> Empty]
      /\ had = [w \in {"edit", "ses"} |-> FALSE]
      /\ res = [w \in {"edit", "ses"} |-> "none"]
      /\ kept = [s \in Stages |-> None]
  BY StagesAre DEF Init, SF!Init, Stages
<1>4. /\ op \in Ops /\ op.pc = "idle" /\ op.by = "edit" /\ op.into = None /\ op.kind = "none"
      /\ store \in Stores /\ ~store.sd
  BY <1>1, IdleIs, BlankIs
<1>5. None \notin Work /\ None \notin UserFile
  BY Apart
<1>6. TypedDisk
  BY <1>1, <1>2, <1>3 DEF TypedDisk, Content, Program, Files, Stages
<1>7. TypedWriters
  BY <1>3, Apart DEF TypedWriters
<1>8. TypedRest
  BY <1>1, <1>4 DEF TypedRest
<1>9. Paced
  BY <1>3, <1>4 DEF Paced
<1>10. Fresh /\ Backed /\ Shaped
  BY <1>1, <1>4, <1>5 DEF Fresh, Backed, Shaped
<1>11. Aside
  BY <1>3 DEF Aside, Stages
<1>12. Away /\ Living /\ Tidy
  BY <1>1, <1>4 DEF Away, Living, Tidy
<1>13. QED
  BY <1>6, <1>7, <1>8, <1>9, <1>10, <1>11, <1>12 DEF IInv, Typed

LEMMA StutterKeeps ==
  ASSUME IInv, UNCHANGED vars
  PROVE  IInv'
<1>1. /\ file' = file /\ tmp' = tmp /\ bak' = bak /\ kept' = kept /\ rescued' = rescued
      /\ phase' = phase /\ tgt' = tgt /\ buf' = buf /\ had' = had /\ res' = res
      /\ store' = store /\ repl' = repl /\ op' = op
      /\ power' = power /\ card' = card /\ host' = host /\ used' = used
  BY DEF vars, disk, writers, env
<1>2. Aim' = Aim /\ Asked' = Asked /\ Staged' = Staged
  BY <1>1 DEF Aim, Asked, Staged, Record
<1>3. Typed'
  BY <1>1 DEF IInv, Typed, TypedDisk, TypedWriters, TypedRest
<1>4. Paced'
  BY <1>1, <1>2 DEF IInv, Paced
<1>5. Fresh' /\ Backed' /\ Shaped'
  <2>1. Fresh'
    BY <1>1 DEF IInv, Fresh
  <2>2. Backed'
    BY <1>1 DEF IInv, Backed
  <2>3. Shaped'
    BY <1>1 DEF IInv, Shaped
  <2>4. QED
    BY <2>1, <2>2, <2>3
<1>6. Aside' /\ Away' /\ Living' /\ Tidy'
  BY <1>1 DEF IInv, Aside, Away, Living, Tidy
<1>7. QED
  BY <1>3, <1>4, <1>5, <1>6 DEF IInv

LEMMA ProceedKeeps ==
  ASSUME IInv, Proceed
  PROVE  IInv'
<1>1. CASE OpenWriter
  BY <1>1, OpenKeeps
<1>2. CASE OpenRefused
  BY <1>2, RefusedKeeps
<1>3. CASE FillWriter
  BY <1>3, FillKeeps
<1>4. CASE SourceUnreadable
  BY <1>4, UnreadableKeeps
<1>5. CASE CommitWriter
  BY <1>5, CommitKeeps
<1>6. CASE WriterFails
  BY <1>6, FailsKeep
<1>7. CASE AbortWriter
  BY <1>7, AbortKeeps
<1>8. CASE SnapshotDone
  BY <1>8, SnapshotDoneKeeps
<1>9. CASE Verify
  BY <1>9, VerifyKeeps
<1>10. CASE UndoSnapshot
  BY <1>10, UndoSnapshotKeeps
<1>11. CASE RecoverDropBak \/ RecoverNoneTmp \/ StaleTmp \/ StaleBak
  BY <1>11, DropsKeep
<1>12. CASE SessionDone
  BY <1>12, SessionDoneKeeps
<1>13. CASE Cleanup
  BY <1>13, CleanupKeeps
<1>14. CASE ChooseSession
  BY <1>14, ChooseKeeps
<1>15. CASE RecoverDropSes \/ RecoverPromote
  BY <1>15, PromotionKeeps
<1>16. CASE RecoverTidy
  BY <1>16, RecoverTidyKeeps
<1>17. CASE RecoverNoneBak \/ PromoteFails
  BY <1>17, NoneFoundKeeps
<1>18. CASE Preserve
  BY <1>18, PreserveKeeps
<1>19. QED
  BY <1>1, <1>2, <1>3, <1>4, <1>5, <1>6, <1>7, <1>8, <1>9, <1>10, <1>11, <1>12,
     <1>13, <1>14, <1>15, <1>16, <1>17, <1>18 DEF Proceed

LEMMA UserKeeps ==
  ASSUME IInv, User
  PROVE  IInv'
<1>1. CASE \E s \in Source : Edit(s)
  BY <1>1, EditKeeps
<1>2. CASE \E f \in UserFile : Load(f) \/ Save(f)
  BY <1>2, LoadKeeps, SaveKeeps
<1>3. CASE \E mode \in Mode : Remount(mode)
  BY <1>3, RemountKeeps
<1>4. CASE EraseNothing
  BY <1>4, EraseNothingKeeps
<1>5. CASE New
  BY <1>5, NewKeeps
<1>6. CASE MarkClean
  BY <1>6, MarkCleanKeeps
<1>7. CASE SwitchToRam \/ SwitchToSd
  BY <1>7, SwitchKeeps
<1>8. CASE ResumeStorage
  BY <1>8, ResumeStorageKeeps
<1>9. CASE UsbStart
  BY <1>9, UsbKeeps
<1>10. QED
  BY <1>1, <1>2, <1>3, <1>4, <1>5, <1>6, <1>7, <1>8, <1>9 DEF User

LEMMA OutsideKeeps ==
  ASSUME IInv, Outside
  PROVE  IInv'
<1>1. CASE \E mode \in Mode : PowerOn(mode)
  BY <1>1, PowerOnKeeps
<1>2. CASE UsbReturn
  BY <1>2, UsbKeeps
<1>3. CASE MoveCard
  BY <1>3, CardMovesKeeps
<1>4. CASE NoticeCardGone \/ LineUnreadable
  BY <1>4, SuspendKeeps
<1>5. CASE PowerOff
  BY <1>5, PowerOffKeeps
<1>6. CASE PcWrites
  BY <1>6, PcWritesKeeps
<1>7. QED
  BY <1>1, <1>2, <1>3, <1>4, <1>5, <1>6 DEF Outside

(* IInv is an invariant: every step of every operation keeps it.           *)
THEOREM TheStoreIsSound == Spec => []IInv
<1>1. Init => IInv
  BY InitIInv
<1>2. IInv /\ [Next]_vars => IInv'
  BY ProceedKeeps, UserKeeps, OutsideKeeps, StutterKeeps DEF Next
<1>3. QED
  BY <1>1, <1>2, PTL DEF Spec

LEMMA KeptWorkFiles == IInv => WorkFilesKept
<1> SUFFICES ASSUME IInv PROVE WorkFilesKept
  OBVIOUS
<1>1. TypedDisk /\ TypedWriters /\ TypedRest
  BY DEF IInv, Typed
<1>2. SF!TypeOK
  BY <1>1, StagesAre DEF SF!TypeOK, TypedDisk, TypedWriters, Files, Stages, Content, Program, SF!Phase
<1>3. TypeOK
  <2>1. op = Idle => phase["edit"] = "closed" /\ phase["ses"] = "closed"
    BY IdleIs DEF IInv, Paced
  <2>2. \A w \in DOMAIN StageOf : w \in {"edit", "ses"}
    BY StagesAre
  <2>3. op = Idle => \A w \in DOMAIN StageOf : phase[w] = "closed"
    BY <2>1, <2>2
  <2>4. /\ op.pc \in Pc /\ op.by \in DOMAIN StageOf
        /\ op.into \in Work \cup UserFile \cup {None}
        /\ op.src \in Source /\ op.work \in Work \cup {None}
        /\ {repl, power, card, host, op.dirty, op.repl} \subseteq BOOLEAN
    BY <1>1, StagesAre DEF TypedRest, Ops
  <2>5. /\ store \in [sd : BOOLEAN, suspended : BOOLEAN, dirty : BOOLEAN,
                      src : Source, work : Work \cup {None},
                      name : UserFile \cup {NoName}, saved : Source \cup {Nothing}]
        /\ rescued \subseteq Source \cup {Torn}
    BY <1>1 DEF TypedRest, TypedDisk, Stores, Names
  <2>6. QED
    BY <1>2, <2>3, <2>4, <2>5 DEF TypeOK
<1>4. LiveWorkIntact
  BY DEF IInv, Living, LiveWorkIntact
<1>5. NoOrphans
  <2> SUFFICES ASSUME At("idle"), store.sd, ~store.suspended, used.faults = 0
               PROVE  Extra = {}
    BY DEF NoOrphans
  <2>1. op.pc = "idle" /\ op.into = None
    BY IdleIs DEF IInv, Shaped, At
  <2>2. None \notin Work
    BY Apart
  <2>3. \A w \in Work : w # store.work => file[w] = NoFile
    BY <2>1, <2>2 DEF IInv, Living, Tidy
  <2>4. QED
    BY <2>3 DEF Extra
<1>6. QED
  BY <1>3, <1>4, <1>5 DEF WorkFilesKept

(* While the store is in use, its work file holds the source in memory;    *)
(* and unless a call into the file system failed no operation leaves a     *)
(* second work file behind (new_work_name, publish_sd, remove_work and     *)
(* cleanup_orphans_locked: program_store.cpp:845-853, 1103-1185).          *)
THEOREM WorkFilesAreKept == Spec => []WorkFilesKept
  BY TheStoreIsSound, KeptWorkFiles, PTL

-----------------------------------------------------------------------------
(* What a step may do to the programs on the card.                         *)

(* The programs stay where they are.                                       *)
Quiet ==
    /\ \A t \in Work \cup UserFile : file'[t] = file[t]
    /\ rescued' = rescued /\ kept'["RMBEDIT"] = kept["RMBEDIT"]
    /\ kept["RMBEDIT"] # None => bak'["RMBEDIT"] = bak["RMBEDIT"]

LEMMA OnlyUsedSpends ==
  ASSUME IInv, NEW what \in {"faults", "recovery", "crashes", "stops"}, NEW n, Spends(what, n)
  PROVE  used'.edits = used.edits
  BY DEF Spends, IInv, Typed, TypedRest

LEMMA OthersSpend ==
  ASSUME IInv, used' = used \/ Spend("faults") \/ Spend("recovery") \/ Spend("stops")
               \/ Spend("crashes") \/ \E n : Spends("recovery", n)
  PROVE  used'.edits = used.edits
  BY OnlyUsedSpends DEF Spend

LEMMA QuietDisk ==
  ASSUME UNCHANGED disk
  PROVE  Quiet
  BY DEF Quiet, disk

LEMMA QuietWriter ==
  ASSUME IInv, OpenWriter \/ OpenRefused \/ FillWriter \/ SourceUnreadable \/ WriterFails
               \/ AbortWriter \/ SnapshotDone \/ SessionDone
  PROVE  Quiet /\ used'.edits = used.edits
<1>1. CASE OpenWriter
  BY <1>1 DEF OpenWriter, SF!Open, Quiet
<1>2. CASE OpenRefused
  <2>1. UNCHANGED disk /\ (used' = used \/ Spend("faults"))
    BY <1>2 DEF OpenRefused
  <2>2. QED
    BY <2>1, QuietDisk, OthersSpend
<1>3. CASE FillWriter
  BY <1>3 DEF FillWriter, SF!Write, SF!disk, Quiet
<1>4. CASE SourceUnreadable
  <2>1. UNCHANGED <<file, bak, kept, rescued>> /\ Spend("faults")
    BY <1>4 DEF SourceUnreadable, SF!WriteFails, SF!disk
  <2>2. QED
    BY <2>1, OthersSpend DEF Quiet
<1>5. CASE WriterFails
  <2>1. UNCHANGED <<file, bak, kept, rescued>> /\ Spend("faults")
    BY <1>5 DEF WriterFails, SF!WriteFails, SF!SealFails, SF!MoveOldFails, SF!InstallFails,
                SF!UndoFails, SF!disk
  <2>2. QED
    BY <2>1, OthersSpend DEF Quiet
<1>6. CASE AbortWriter
  <2>1. UNCHANGED <<file, bak, kept, rescued>> /\ (used' = used \/ Spend("faults"))
    BY <1>6 DEF AbortWriter, SF!Abort, SF!AbortLeavesTmp, SF!disk
  <2>2. QED
    BY <2>1, OthersSpend DEF Quiet
<1>7. CASE SnapshotDone \/ SessionDone
  <2>1. Finishes
    BY <1>7 DEF SnapshotDone, SessionDone
  <2>2. used' = used \/ Spend("faults")
    BY <2>1 DEF Finishes
  <2>3. Released
    BY <2>1, FinishesIs
  <2>4. QED
    BY <2>2, <2>3, OthersSpend DEF Released, Quiet
<1>8. QED
  BY <1>1, <1>2, <1>3, <1>4, <1>5, <1>6, <1>7

(* The session's files are not programs.                                   *)
LEMMA QuietDrops ==
  ASSUME IInv, UNCHANGED <<file, rescued>>,
         (DropTmp /\ UNCHANGED <<bak, kept>>) \/ DropBak
  PROVE  Quiet /\ used'.edits = used.edits
<1>1. used' = used \/ Spend("faults")
  BY DEF DropTmp, DropBak
<1>2. kept'["RMBEDIT"] = kept["RMBEDIT"] /\ bak'["RMBEDIT"] = bak["RMBEDIT"]
  BY DEF DropBak, IInv, Typed, TypedDisk, Stages
<1>3. QED
  BY <1>1, <1>2, OthersSpend DEF Quiet

LEMMA QuietRecovery ==
  ASSUME IInv, Verify \/ StaleTmp \/ StaleBak \/ ChooseSession \/ RecoverDropBak
               \/ RecoverDropSes \/ RecoverPromote \/ RecoverTidy \/ RecoverNoneTmp
               \/ RecoverNoneBak \/ PromoteFails
  PROVE  Quiet /\ used'.edits = used.edits
<1>1. CASE Verify
  <2>1. UNCHANGED disk /\ (used' = used \/ Spend("faults"))
    BY <1>1 DEF Verify
  <2>2. QED
    BY <2>1, QuietDisk, OthersSpend
<1>2. CASE StaleTmp
  <2>1. /\ UNCHANGED <<file, bak, kept, rescued>>
        /\ DropTmp \/ used' = used
    BY <1>2 DEF StaleTmp
  <2>2. CASE DropTmp
    BY <2>1, <2>2, QuietDrops
  <2>3. CASE used' = used
    BY <2>1, <2>3 DEF Quiet
  <2>4. QED
    BY <2>1, <2>2, <2>3
<1>3. CASE StaleBak \/ RecoverDropBak \/ RecoverNoneBak
  BY <1>3, QuietDrops DEF StaleBak, RecoverDropBak, RecoverNoneBak
<1>4. CASE RecoverTidy \/ RecoverNoneTmp
  BY <1>4, QuietDrops DEF RecoverTidy, RecoverNoneTmp
<1>5. CASE ChooseSession
  <2>1. UNCHANGED disk /\ \E n : Spends("recovery", n)
    BY <1>5 DEF ChooseSession
  <2>2. QED
    BY <2>1, QuietDisk, OthersSpend
<1>6. CASE RecoverDropSes
  <2>1. /\ file' = [file EXCEPT ![Ses] = NoFile] \/ file' = file
        /\ used' = used \/ Spend("recovery")
        /\ UNCHANGED <<bak, kept, rescued>>
    BY <1>6 DEF RecoverDropSes
  <2>2. \A t \in Work \cup UserFile : t \in Files /\ t # Ses
    BY Apart DEF Files
  <2>3. \A t \in Work \cup UserFile : file'[t] = file[t]
    BY <2>1, <2>2 DEF IInv, Typed, TypedDisk
  <2>4. QED
    BY <2>1, <2>3, OthersSpend DEF Quiet
<1>7. CASE RecoverPromote
  <2>1. /\ file' = [file EXCEPT ![Ses] = bak["RMBSES"]]
        /\ bak' = [bak EXCEPT !["RMBSES"] = NoFile]
        /\ kept' = [kept EXCEPT !["RMBSES"] = None]
        /\ UNCHANGED <<rescued, used>>
    BY <1>7 DEF RecoverPromote
  <2>2. \A t \in Work \cup UserFile : t \in Files /\ t # Ses
    BY Apart DEF Files
  <2>3. \A t \in Work \cup UserFile : file'[t] = file[t]
    BY <2>1, <2>2 DEF IInv, Typed, TypedDisk
  <2>4. kept'["RMBEDIT"] = kept["RMBEDIT"] /\ bak'["RMBEDIT"] = bak["RMBEDIT"]
    BY <2>1 DEF IInv, Typed, TypedDisk, Stages
  <2>5. QED
    BY <2>1, <2>3, <2>4 DEF Quiet
<1>8. CASE PromoteFails
  <2>1. UNCHANGED disk /\ (used' = used \/ Spend("recovery"))
    BY <1>8 DEF PromoteFails
  <2>2. QED
    BY <2>1, QuietDisk, OthersSpend
<1>9. QED
  BY <1>1, <1>2, <1>3, <1>4, <1>5, <1>6, <1>7, <1>8

LEMMA QuietUser ==
  ASSUME IInv, User
  PROVE  Quiet /\ used'.edits = used.edits
<1>1. CASE UsbStart
  BY <1>1, QuietDisk DEF UsbStart
<1>2. CASE \E c : Starts(c)
  <2>1. UNCHANGED disk /\ used' = used
    BY <1>2 DEF Starts
  <2>2. QED
    BY <2>1, QuietDisk
<1>3. QED
  BY <1>1, <1>2 DEF User, Edit, Load, Save, Remount, EraseNothing, New, MarkClean,
                    SwitchToRam, SwitchToSd, ResumeStorage

LEMMA QuietOutside ==
  ASSUME IInv, Outside, ~PcWrites
  PROVE  Quiet /\ used'.edits = used.edits
<1>1. CASE PowerOff
  <2>1. /\ rescued' = rescued /\ UNCHANGED <<file, bak, kept>>
        /\ Spend("stops") \/ Spend("crashes")
    BY <1>1 DEF PowerOff, SF!PowerLoss
  <2>2. QED
    BY <2>1, OthersSpend DEF Quiet
<1>2. CASE ~PowerOff
  <2>1. UNCHANGED disk /\ (used' = used \/ Spend("faults"))
    BY <1>2 DEF Outside, PowerOn, UsbReturn, MoveCard, NoticeCardGone, LineUnreadable
  <2>2. QED
    BY <2>1, QuietDisk, OthersSpend
<1>3. QED
  BY <1>1, <1>2

(* Of all steps, these alone change a program on the card.                 *)
LEMMA WhatMoves ==
  ASSUME IInv, [Next]_vars
  PROVE  \/ Quiet /\ used'.edits = used.edits
         \/ CommitWriter \/ UndoSnapshot \/ Preserve \/ Cleanup \/ PcWrites
<1>1. CASE UNCHANGED vars
  BY <1>1, QuietDisk DEF vars
<1>2. CASE Proceed
  BY <1>2, QuietWriter, QuietRecovery DEF Proceed
<1>3. CASE User
  BY <1>3, QuietUser
<1>4. CASE Outside
  BY <1>4, QuietOutside
<1>5. QED
  BY <1>1, <1>2, <1>3, <1>4 DEF Next

-----------------------------------------------------------------------------
(* A user's program is replaced, never gone.                               *)

(* The value of a user's file: only the editor's backup can be its only    *)
(* copy.                                                                   *)
Own(f) == IF file[f] = NoFile /\ kept["RMBEDIT"] = f THEN bak["RMBEDIT"] ELSE file[f]

Owned == \A f \in UserFile : SF!Value[f] = Own(f)

LEMMA ValueIsOwn == IInv => Owned
<1> SUFFICES ASSUME IInv, NEW f \in UserFile PROVE SF!Value[f] = Own(f)
  BY DEF Owned
<1>1. f \in Files /\ f # Ses /\ f # None
  BY Apart DEF Files
<1>2. \A s \in Stages : kept[s] = f <=> (s = "RMBEDIT" /\ kept["RMBEDIT"] = f)
  BY <1>1 DEF IInv, Aside, Stages
<1>3. (\E s \in Stages : kept[s] = f) <=> kept["RMBEDIT"] = f
  BY <1>2 DEF Stages
<1>4. SF!Value[f] = IF file[f] = NoFile /\ \E s \in Stages : kept[s] = f
                    THEN bak[CHOOSE s \in Stages : kept[s] = f] ELSE file[f]
  BY <1>1 DEF SF!Value, Files, Stages
<1>5. kept["RMBEDIT"] = f => (CHOOSE s \in Stages : kept[s] = f) = "RMBEDIT"
  BY <1>2 DEF Stages
<1>6. QED
  BY <1>3, <1>4, <1>5 DEF Own

LEMMA QuietOwn ==
  ASSUME Quiet, NEW f \in UserFile
  PROVE  Own(f)' = Own(f)
<1>1. f # None
  BY Apart
<1>2. QED
  BY <1>1 DEF Quiet, Own

LEMMA CommitOwn ==
  ASSUME IInv, CommitWriter, NEW f \in UserFile, Own(f) # NoFile
  PROVE  Own(f)' \in {Own(f), store.src}
<1>1. At("commit") /\ UNCHANGED <<rescued, store, repl, op, env>> /\ used' = used
  BY DEF CommitWriter
<1>2. /\ op \in Ops /\ op.pc = "commit" /\ op.by \in {"edit", "ses"}
      /\ phase[op.by] # "closed" /\ tgt[op.by] = Aim /\ Aim \in Files
      /\ op.by = "edit" => /\ Aim \in Work \cup UserFile /\ Aim = op.into
                           /\ phase["ses"] = "closed" /\ Staged = "RMBEDIT"
      /\ op.by = "ses" => /\ Aim = Ses /\ Aim \notin Work \cup UserFile
                          /\ phase["edit"] = "closed" /\ Staged = "RMBSES"
      /\ StageOf[op.by] = Staged
  BY <1>1, CommitNow
<1>3. f \in Files /\ f # None
  BY Apart DEF Files
<1>4. TypedDisk
  BY DEF IInv, Typed
<1>5. CASE SF!Seal(op.by)
  BY <1>5, QuietOwn, <1>1 DEF SF!Seal, Quiet
<1>6. CASE SF!MoveOld(op.by)
  <2>1. \/ UNCHANGED <<file, bak, kept>>
        \/ /\ file[Aim] # NoFile
           /\ bak' = [bak EXCEPT ![Staged] = file[Aim]]
           /\ file' = [file EXCEPT ![Aim] = NoFile]
           /\ kept' = [kept EXCEPT ![Staged] = Aim]
    BY <1>2, <1>6 DEF SF!MoveOld, SF!disk
  <2>2. op.by = "edit" => kept["RMBEDIT"] = None
    BY <1>2, <1>6 DEF SF!MoveOld, IInv, Aside
  <2>3. CASE UNCHANGED <<file, bak, kept>>
    BY <2>3 DEF Own
  <2>4. CASE /\ file[Aim] # NoFile
             /\ bak' = [bak EXCEPT ![Staged] = file[Aim]]
             /\ file' = [file EXCEPT ![Aim] = NoFile]
             /\ kept' = [kept EXCEPT ![Staged] = Aim]
    <3>1. file'[f] = IF f = Aim THEN NoFile ELSE file[f]
      BY <1>2, <1>3, <1>4, <2>4 DEF TypedDisk
    <3>2. CASE op.by = "ses"
      <4>1. kept'["RMBEDIT"] = kept["RMBEDIT"] /\ bak'["RMBEDIT"] = bak["RMBEDIT"]
        BY <1>2, <1>4, <2>4, <3>2 DEF TypedDisk, Stages
      <4>2. f # Aim
        BY <1>2, <3>2
      <4>3. QED
        BY <3>1, <4>1, <4>2 DEF Own
    <3>3. CASE op.by = "edit"
      <4>1. kept'["RMBEDIT"] = Aim /\ bak'["RMBEDIT"] = file[Aim]
        BY <1>2, <1>4, <2>4, <3>3 DEF TypedDisk, Stages
      <4>2. QED
        BY <1>3, <2>2, <2>4, <3>1, <3>3, <4>1 DEF Own
    <3>4. QED
      BY <1>2, <3>2, <3>3
  <2>5. QED
    BY <2>1, <2>3, <2>4
<1>7. CASE SF!Install(op.by)
  <2>1. /\ file' = [file EXCEPT ![Aim] = tmp[Staged]]
        /\ kept' = [r \in Stages |-> IF kept[r] = Aim THEN None ELSE kept[r]]
        /\ bak' = bak /\ phase[op.by] = "moved"
    BY <1>2, <1>7 DEF SF!Install, Stages
  <2>2. tmp[Staged] = Asked
    BY <1>2, <2>1 DEF IInv, Paced
  <2>3. file'[f] = IF f = Aim THEN Asked ELSE file[f]
    BY <1>2, <1>3, <1>4, <2>1, <2>2 DEF TypedDisk
  <2>4. kept'["RMBEDIT"] = IF kept["RMBEDIT"] = Aim THEN None ELSE kept["RMBEDIT"]
    BY <2>1 DEF Stages
  <2>5. CASE f = Aim
    <3>1. op.by = "edit" /\ op.into = f /\ Asked = op.src
      BY <1>2, <2>5 DEF Asked
    <3>2. op.src = store.src /\ op.src \in Source
      BY <1>2, <3>1 DEF IInv, Backed, Ops
    <3>3. Asked # NoFile
      BY <3>1, <3>2, Apart
    <3>4. QED
      BY <2>3, <2>5, <3>1, <3>2, <3>3 DEF Own
  <2>6. CASE f # Aim
    BY <1>3, <2>1, <2>3, <2>4, <2>6 DEF Own
  <2>7. QED
    BY <2>5, <2>6
<1>8. CASE SF!Undo(op.by)
  <2>1. /\ file' = [file EXCEPT ![Aim] = bak[Staged]]
        /\ bak' = [bak EXCEPT ![Staged] = NoFile]
        /\ kept' = [kept EXCEPT ![Staged] = None]
        /\ phase[op.by] = "undo"
    BY <1>2, <1>8 DEF SF!Undo
  <2>2. file'[f] = IF f = Aim THEN bak[Staged] ELSE file[f]
    BY <1>2, <1>3, <1>4, <2>1 DEF TypedDisk
  <2>3. CASE op.by = "ses"
    <3>1. kept'["RMBEDIT"] = kept["RMBEDIT"] /\ bak'["RMBEDIT"] = bak["RMBEDIT"]
      BY <1>2, <1>4, <2>1, <2>3 DEF TypedDisk, Stages
    <3>2. f # Aim
      BY <1>2, <2>3
    <3>3. QED
      BY <2>2, <3>1, <3>2 DEF Own
  <2>4. CASE op.by = "edit"
    <3>1. kept["RMBEDIT"] = Aim /\ file[Aim] = NoFile
      BY <1>2, <2>1, <2>4 DEF IInv, Aside
    <3>2. kept'["RMBEDIT"] = None
      BY <1>2, <1>4, <2>1, <2>4 DEF TypedDisk, Stages
    <3>3. QED
      BY <1>2, <1>3, <2>2, <2>4, <3>1, <3>2 DEF Own
  <2>5. QED
    BY <1>2, <2>3, <2>4
<1>9. QED
  BY <1>5, <1>6, <1>7, <1>8 DEF CommitWriter

(* Files of the machine are removed; no user's file is among them.         *)
LEMMA RemovalOwn ==
  ASSUME IInv, UndoSnapshot \/ Preserve \/ Cleanup, NEW f \in UserFile
  PROVE  Own(f)' = Own(f)
<1>1. kept' = kept /\ bak' = bak
  BY DEF UndoSnapshot, Preserve, Cleanup
<1>2. f \in Files /\ f \notin Work
  BY Apart DEF Files
<1>3. UndoSnapshot => op.into \in Work
  BY DEF UndoSnapshot, At, IInv, Shaped
<1>4. file' = file \/ \E w \in Work : file' = [file EXCEPT ![w] = NoFile]
  BY <1>3 DEF UndoSnapshot, Preserve, Cleanup, Extra
<1>5. file'[f] = file[f]
  BY <1>2, <1>4 DEF IInv, Typed, TypedDisk
<1>6. QED
  BY <1>1, <1>5 DEF Own

(* The changes by a PC are counted.                                        *)
Counted == used.edits \in Nat

LEMMA CountedKeeps == IInv /\ Counted /\ [Next]_vars => Counted'
<1> SUFFICES ASSUME IInv, Counted, [Next]_vars PROVE Counted'
  OBVIOUS
<1>1. CASE used'.edits = used.edits
  BY <1>1 DEF Counted
<1>2. CASE CommitWriter
  BY <1>2 DEF CommitWriter, Counted
<1>3. CASE UndoSnapshot \/ Preserve \/ Cleanup
  <2>1. used' = used \/ Spend("faults")
    BY <1>3 DEF UndoSnapshot, Preserve, Cleanup
  <2>2. QED
    BY <2>1, OthersSpend DEF Counted
<1>4. CASE PcWrites
  <2>1. Spends("edits", 1)
    BY <1>4 DEF PcWrites, Spend
  <2>2. used'.edits = used.edits + 1
    BY <2>1 DEF Spends, IInv, Typed, TypedRest
  <2>3. QED
    BY <2>2 DEF Counted
<1>5. QED
  BY <1>1, <1>2, <1>3, <1>4, WhatMoves

LEMMA PcCounts ==
  ASSUME IInv, Counted, PcWrites
  PROVE  used'.edits # used.edits
<1>1. Spends("edits", 1)
  BY DEF PcWrites, Spend
<1>2. used'.edits = used.edits + 1
  BY <1>1 DEF Spends, IInv, Typed, TypedRest
<1>3. QED
  BY <1>2 DEF Counted

LEMMA UserFilesStep ==
  ASSUME IInv, Counted, Owned, Owned', [Next]_vars,
         NEW f \in UserFile, used.edits = used'.edits, SF!Value[f] # NoFile
  PROVE  SF!Value'[f] \in {SF!Value[f], store.src}
<1>1. SF!Value[f] = Own(f) /\ SF!Value'[f] = Own(f)'
  BY DEF Owned
<1>2. ~PcWrites
  BY PcCounts
<1>3. CASE Quiet
  BY <1>1, <1>3, QuietOwn
<1>4. CASE CommitWriter
  BY <1>1, <1>4, CommitOwn
<1>5. CASE UndoSnapshot \/ Preserve \/ Cleanup
  BY <1>1, <1>5, RemovalOwn
<1>6. QED
  BY <1>2, <1>3, <1>4, <1>5, WhatMoves

(* Whatever fails and wherever power is lost, a user's program that was on *)
(* the card stays there, or the program in memory takes its place: only a  *)
(* PC can delete it (save() through SafeFileWriter,                        *)
(* program_store.cpp:1875-1887, safe_file.cpp:93-109).                     *)
THEOREM UserFilesAreKept == Spec => UserFilesKept
<1>1. Init => Counted
  BY DEF Init, Counted
<1>2. Spec => []IInv
  BY TheStoreIsSound
<1>3. IInv => Owned
  BY ValueIsOwn
<1>4. IInv /\ Counted /\ [Next]_vars => Counted'
  BY CountedKeeps
<1>5. IInv /\ Counted /\ Owned /\ Owned' /\ [Next]_vars =>
         \A f \in UserFile : used.edits = used'.edits /\ SF!Value[f] # NoFile =>
             SF!Value'[f] \in {SF!Value[f], store.src}
  BY UserFilesStep
<1>6. QED
  BY <1>1, <1>2, <1>3, <1>4, <1>5, PTL DEF Spec, UserFilesKept

-----------------------------------------------------------------------------
(* A boot destroys no program text before it has adopted a session.        *)

LEMMA BootStep ==
  ASSUME IInv, [Next]_vars, op.kind = "boot", op.pc # "cleanup"
  PROVE  Texts \subseteq Texts' \cup {Empty}
<1>1. op.pc # "idle" /\ power /\ ~host /\ NoFile \notin Source
  BY IdleIs, Apart DEF IInv, Shaped, Away
<1>2. CASE Quiet
  BY <1>2 DEF Quiet, Texts
<1>3. CASE CommitWriter
  <2>1. At("commit") /\ UNCHANGED <<rescued, store, repl, op, env>> /\ used' = used
    BY <1>3 DEF CommitWriter
  <2>2. /\ op \in Ops /\ op.pc = "commit" /\ op.by \in {"edit", "ses"}
        /\ tgt[op.by] = Aim
        /\ op.by = "edit" => Aim = op.into
        /\ op.by = "ses" => Aim \notin Work
    BY <2>1, CommitNow
  <2>3. \/ file' = file
        \/ /\ phase[op.by] \in {"sealed", "moved", "undo"}
           /\ \E c : file' = [file EXCEPT ![Aim] = c]
    BY <1>3, <2>2 DEF CommitWriter, SF!Seal, SF!MoveOld, SF!Install, SF!Undo, SF!disk
  <2>4. CASE file' = file
    BY <2>1, <2>4 DEF Texts
  <2>5. CASE /\ phase[op.by] \in {"sealed", "moved", "undo"}
             /\ \E c : file' = [file EXCEPT ![Aim] = c]
    <3>1. Aim \in Work => file[Aim] = NoFile
      BY <2>2, <2>5 DEF IInv, Fresh
    <3>2. \A w \in Work : w # Aim => file'[w] = file[w]
      BY <2>5 DEF IInv, Typed, TypedDisk, Files
    <3>3. QED
      BY <1>1, <2>1, <3>1, <3>2 DEF Texts
  <2>6. QED
    BY <2>3, <2>4, <2>5
<1>4. CASE UndoSnapshot
  <2>1. /\ op.pc = "undo" /\ rescued' = rescued
        /\ file' = file \/ file' = [file EXCEPT ![op.into] = NoFile]
    BY <1>4 DEF UndoSnapshot, At
  <2>2. op.into \in Work /\ op.src = Empty /\ file[op.into] = Empty
    BY <2>1 DEF IInv, Shaped, Backed
  <2>3. \A w \in Work : w # op.into => file'[w] = file[w]
    BY <2>1 DEF IInv, Typed, TypedDisk, Files
  <2>4. QED
    BY <2>1, <2>2, <2>3 DEF Texts
<1>5. CASE Preserve
  <2>1. CASE UNCHANGED <<file, rescued>>
    BY <2>1 DEF Texts
  <2>2. CASE \E w \in Work : /\ file' = [file EXCEPT ![w] = NoFile]
                            /\ rescued' = rescued \cup {file[w]}
    <3>1. PICK w \in Work : /\ file' = [file EXCEPT ![w] = NoFile]
                            /\ rescued' = rescued \cup {file[w]}
      BY <2>2
    <3>2. \A v \in Work : v # w => file'[v] = file[v]
      BY <3>1 DEF IInv, Typed, TypedDisk, Files
    <3>3. QED
      BY <3>1, <3>2 DEF Texts
  <2>3. QED
    BY <1>5, <2>1, <2>2 DEF Preserve
<1>6. ~Cleanup
  BY DEF Cleanup, At
<1>7. ~PcWrites
  BY <1>1 DEF PcWrites
<1>8. QED
  BY <1>2, <1>3, <1>4, <1>5, <1>6, <1>7, WhatMoves

(* A boot that finds no session it can adopt moves what the work files     *)
(* hold to RECOVER files; until its cleanup nothing but its own empty      *)
(* snapshot is removed (preserve_unverified_work_locked, remove_work:      *)
(* program_store.cpp:1045-1074, 1103-1133).                                *)
THEOREM BootsKeepTexts == Spec => BootKeepsTexts
<1>1. IInv /\ [Next]_vars =>
         (op.kind = "boot" /\ op.pc # "cleanup" => Texts \subseteq Texts' \cup {Empty})
  BY BootStep
<1>2. QED
  BY <1>1, TheStoreIsSound, PTL DEF Spec, BootKeepsTexts
=============================================================================

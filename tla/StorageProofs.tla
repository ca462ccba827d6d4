--------------------------- MODULE StorageProofs ---------------------------
(***************************************************************************)
(* Proofs about the card, for any set of raw requests and any set of       *)
(* writers, staging names, targets and contents.                           *)
(*                                                                         *)
(* Storage ownership: every invariant and action property the runs check,  *)
(* from one inductive invariant (OwnershipIInv).                           *)
(* Safe files: the invariants, by an inductive strengthening (IInv), and   *)
(* that the writer implements the abstract atomic file.                    *)
(***************************************************************************)
EXTENDS SafeFile, StorageOwnership, TLAPS

-----------------------------------------------------------------------------
(* Who may touch the card.                                                  *)


Beginning == {"begin", "clear", "unmount", "measure"}

(* The foreground has closed the card to new requests and seen the old     *)
(* ones out (Beginning, because the firmware owned the card).              *)
Held == Beginning \cup {"claim", "finish", "own", "remount", "forget"}

NoDriver == \A r \in Request : raw[r] # "driver"

(* The foreground still has to tell that the card has come back.           *)
Telling == pc = "tell" \/ (pc = "take" /\ event = "ReturnedToFirmware")

(* Why the card is exclusive: what owner, mounted and the place of the     *)
(* foreground say of each other.                                           *)
Exclusion ==
    /\ pc \in Held \cup {"poll3", "recover"} =>
         owner \in {"Transition", "Unavailable"}
    /\ pc \in {"media", "offer", "gone"} => owner # "Firmware"
    /\ pc = "poll2" /\ seen = "Transition" =>
         owner \in {"Transition", "Unavailable"} /\ ~mounted
    /\ pc \in {"measure", "poll3", "claim", "finish", "recover", "remount"} =>
         ~mounted
    /\ pc \in Held \/ owner = "Firmware" => NoDriver
    /\ mounted => \/ owner = "Firmware"
                  \/ pc \in {"begin", "clear", "unmount", "own", "forget"}
    /\ pc \in {"own", "forget"} => mounted

(* What a holder of the lease keeps the foreground from doing.             *)
Leasing ==
    /\ locked => pc \in {"idle", "poll", "poll2", "take"}
    /\ locked /\ pc = "poll2" => seen = "Firmware"

(* The program, the medium and the eject of a session.                     *)
Suspension ==
    /\ pc \in Beginning => ~stale /\ ~present /\ program \in {"ram", "suspended"}
    /\ owner = "UsbHost" => program # "open"
    /\ owner = "Firmware" /\ (program = "suspended" \/ present) => Telling
    /\ pc \in {"withdraw", "request", "store"} =>
         seen \in ReturnKind /\ (seen = "SafeEject" => hostDone)
    /\ owner = "UsbHost" /\ ejected => hostDone \/ pc \in Opening

OwnershipIInv ==
    /\ OwnershipTypeOK
    /\ LeaseSafe
    /\ NoStaleIndex
    /\ Exclusion
    /\ Leasing
    /\ Suspension

(* Initially nobody is at work and no request is in progress.              *)
LEMMA InitOwnershipIInv == OwnershipInit => OwnershipIInv
  BY DEF OwnershipInit, OwnershipIInv, OwnershipTypeOK, Owner, PendingReturn, ReturnKind, UsbEvent, LeaseSafe,
         NoStaleIndex, Exclusion, Leasing, Suspension, Held, Beginning,
         NoDriver, Telling, Opening

(* Every step of the foreground, of a request and of the bus preserves it. *)
LEMMA StepOwnershipIInv == OwnershipIInv /\ [OwnershipNext]_cardVars => OwnershipIInv'
<1> SUFFICES ASSUME OwnershipIInv, [OwnershipNext]_cardVars PROVE OwnershipIInv'
  OBVIOUS
<1> USE DEF OwnershipIInv, OwnershipTypeOK, Owner, PendingReturn, ReturnKind, UsbEvent, LeaseSafe,
            NoStaleIndex, Exclusion, Leasing, Suspension, Held, Beginning,
            NoDriver, Telling, Opening, ownership, medium, history, Go,
            CancelSuspend
<1>1. CASE Continue
  <2>1. CASE BeginClearsPending
    BY <2>1 DEF BeginClearsPending
  <2>2. CASE BeginClearsEvent
    BY <2>2 DEF BeginClearsEvent
  <2>3. CASE BeginUnmounts
    <3>1. mounted' \in BOOLEAN
      BY <2>3 DEF BeginUnmounts
    <3>2. QED
      BY <2>3, <3>1 DEF BeginUnmounts
  <2>4. CASE UnmountFails
    BY <2>4 DEF UnmountFails
  <2>5. CASE MeasureFails
    <3>1. mounted' \in BOOLEAN
      BY <2>5 DEF MeasureFails
    <3>2. QED
      BY <2>5, <3>1 DEF MeasureFails
  <2>6. CASE BeginHandsOver
    <3>1. hostDone' \in BOOLEAN
      BY <2>6 DEF BeginHandsOver
    <3>2. QED
      BY <2>6, <3>1 DEF BeginHandsOver
  <2>7. CASE MediaRefused
    BY <2>7 DEF MediaRefused
  <2>8. CASE MediaOffered
    BY <2>8 DEF MediaOffered
  <2>9. CASE MediaPresent
    BY <2>9 DEF MediaPresent
  <2>10. CASE MediaResetsEject
    <3>1. ejected' \in BOOLEAN
      BY <2>10 DEF MediaResetsEject
    <3>2. QED
      BY <2>10, <3>1 DEF MediaResetsEject
  <2>11. CASE Withdraw
    <3>1. present' \in BOOLEAN
      BY <2>11 DEF Withdraw
    <3>2. QED
      BY <2>11, <3>1 DEF Withdraw
  <2>12. CASE RequestReturn
    BY <2>12 DEF RequestReturn
  <2>13. CASE RequestLate
    BY <2>13 DEF RequestLate
  <2>14. CASE StoreReturn
    BY <2>14 DEF StoreReturn
  <2>15. CASE Service
    BY <2>15 DEF Service
  <2>16. CASE PollOwner
    BY <2>16 DEF PollOwner
  <2>17. CASE PollGone
    BY <2>17 DEF PollGone
  <2>18. CASE PollGonePending
    BY <2>18 DEF PollGonePending
  <2>19. CASE \E why \in {"CardRemoved", "IoError"} : PollLost(why)
    BY <2>19 DEF PollLost
  <2>20. CASE PollPending
    BY <2>20 DEF PollPending
  <2>21. CASE PollRaw
    BY <2>21 DEF PollRaw, RawActive
  <2>22. CASE PollClaims
    BY <2>22 DEF PollClaims
  <2>23. CASE FinishFails
    BY <2>23 DEF FinishFails
  <2>24. CASE FinishMounts
    BY <2>24 DEF FinishMounts
  <2>25. CASE TakeOwnership
    BY <2>25 DEF TakeOwnership
  <2>26. CASE TellReturned
    BY <2>26 DEF TellReturned
  <2>27. CASE TakeEvent
    <3>1. present' \in BOOLEAN /\ stale' \in BOOLEAN
      BY <2>27 DEF TakeEvent
    <3>2. owner = "Firmware" /\ (program = "suspended" \/ present) =>
             event = "ReturnedToFirmware"
      BY <2>27 DEF TakeEvent
    <3>3. owner = "Firmware" => ~present'
      BY <2>27, <3>2 DEF TakeEvent
    <3>4. owner = "Firmware" => program' # "suspended"
      BY <2>27, <3>2 DEF TakeEvent
    <3>5. program' = "open" => owner = "Firmware" \/ program = "open"
      BY <2>27 DEF TakeEvent
    <3>6. NoStaleIndex'
      BY <2>27 DEF TakeEvent
    <3>7. OwnershipTypeOK'
      BY <2>27, <3>1 DEF TakeEvent
    <3>8. LeaseSafe' /\ Exclusion' /\ Leasing'
      BY <2>27, <3>7 DEF TakeEvent
    <3>9. Suspension'
      BY <2>27, <3>3, <3>4, <3>5 DEF TakeEvent
    <3>10. QED
      BY <3>6, <3>7, <3>8, <3>9
  <2>28. CASE RecoverRaw
    BY <2>28 DEF RecoverRaw, RawActive
  <2>29. CASE RecoverRefused
    BY <2>29 DEF RecoverRefused
  <2>30. CASE RecoverMounts
    BY <2>30 DEF RecoverMounts
  <2>31. CASE RecoverForgets
    BY <2>31 DEF RecoverForgets
  <2>32. QED
    BY <1>1, <2>1, <2>2, <2>3, <2>4, <2>5, <2>6, <2>7, <2>8, <2>9, <2>10,
       <2>11, <2>12, <2>13, <2>14, <2>15, <2>16, <2>17, <2>18, <2>19, <2>20,
       <2>21, <2>22, <2>23, <2>24, <2>25, <2>26, <2>27, <2>28, <2>29, <2>30,
       <2>31, Zenon DEF Continue
<1>2. CASE Choose
  <2>1. CASE Enable
    BY <2>1 DEF Enable
  <2>2. CASE Recover
    BY <2>2 DEF Recover
  <2>3. CASE \E kind \in ReturnKind : AskReturn(kind)
    BY <2>3 DEF AskReturn
  <2>4. CASE InitCard
    BY <2>4 DEF InitCard
  <2>5. CASE Remount
    <3>1. mounted' \in BOOLEAN
      BY <2>5 DEF Remount
    <3>2. QED
      BY <2>5, <3>1 DEF Remount
  <2>6. CASE Resume
    <3>1. mounted' \in BOOLEAN /\ stale' \in BOOLEAN
      BY <2>6 DEF Resume
    <3>2. QED
      BY <2>6, <3>1 DEF Resume
  <2>7. CASE TryLock
    BY <2>7 DEF TryLock
  <2>8. CASE Unlock
    <3>1. locked' \in BOOLEAN
      BY <2>8 DEF Unlock
    <3>2. QED
      BY <2>8, <3>1 DEF Unlock
  <2>9. QED
    BY <1>2, <2>1, <2>2, <2>3, <2>4, <2>5, <2>6, <2>7, <2>8, Zenon DEF Choose
<1>3. CASE Bus
  <2>1. CASE Eject
    <3>1. present' \in BOOLEAN /\ ejected' \in BOOLEAN /\ hostDone' \in BOOLEAN
      BY <2>1 DEF Eject
    <3>2. QED
      BY <2>1, <3>1 DEF Eject
  <2>2. CASE Connect
    <3>1. connected' \in BOOLEAN /\ ejected' \in BOOLEAN
      BY <2>2 DEF Connect
    <3>2. QED
      BY <2>2, <3>1 DEF Connect
  <2>3. CASE Disconnect
    <3>1. present' \in BOOLEAN /\ connected' \in BOOLEAN
      BY <2>3 DEF Disconnect
    <3>2. CASE ejected
      BY <2>3, <3>1, <3>2 DEF Disconnect, ReturnOnDisconnect
    <3>3. CASE ~ejected
      BY <2>3, <3>1, <3>3 DEF Disconnect, NotifyDisconnect
    <3>4. QED
      BY <3>2, <3>3
  <2>4. CASE MoveCard
    BY <2>4 DEF MoveCard
  <2>5. QED
    BY <1>3, <2>1, <2>2, <2>3, <2>4, Zenon DEF Bus
<1>4. ASSUME NEW r \in Request, RawCall(r) \/ Proceed(r) PROVE OwnershipIInv'
  <2> USE DEF RawStep
  <2>1. CASE RawCall(r)
    BY <2>1 DEF RawCall
  <2>2. CASE RawCount(r)
    BY <2>2 DEF RawCount
  <2>3. CASE RawCheck(r)
    BY <2>3 DEF RawCheck
  <2>4. CASE RawDone(r)
    BY <2>4 DEF RawDone
  <2>5. CASE RawFails(r)
    BY <2>5 DEF RawFails
  <2>6. CASE RawExit(r)
    BY <2>6 DEF RawExit
  <2>7. QED
    BY <1>4, <2>1, <2>2, <2>3, <2>4, <2>5, <2>6, Zenon DEF Proceed
<1>5. CASE UNCHANGED cardVars
  BY <1>5 DEF cardVars
<1>6. QED
  BY <1>1, <1>2, <1>3, <1>4, <1>5, Zenon DEF OwnershipNext

(* The inductive invariant holds in every reachable state.                 *)
THEOREM Invariance == OwnershipSpec => []OwnershipIInv
  BY InitOwnershipIInv, StepOwnershipIInv, PTL DEF OwnershipSpec

(* Every variable keeps its type.                                          *)
THEOREM OwnershipTypeCorrect == OwnershipSpec => []OwnershipTypeOK
<1>1. OwnershipIInv => OwnershipTypeOK
  BY DEF OwnershipIInv
<1>2. QED
  BY Invariance, <1>1, PTL

(* The firmware never has the file system mounted, mounts, syncs or        *)
(* measures the card while a raw USB request is inside the SD driver.      *)
THEOREM CardIsExclusive == OwnershipSpec => []CardExclusive
<1>1. OwnershipIInv => CardExclusive
  BY DEF OwnershipIInv, Exclusion, CardExclusive, NoDriver, Held, Beginning, Mounting,
         OwnershipTypeOK
<1>2. QED
  BY Invariance, <1>1, PTL

(* fs_mount is only reached with the root unmounted.                       *)
THEOREM NeverMountedTwice == OwnershipSpec => []MountedOnce
<1>1. OwnershipIInv => MountedOnce
  BY DEF OwnershipIInv, Exclusion, MountedOnce
<1>2. QED
  BY Invariance, <1>1, PTL

(* Whoever holds the storage lease works on a card the firmware owns and   *)
(* has mounted.                                                            *)
THEOREM LeaseIsSafe == OwnershipSpec => []LeaseSafe
<1>1. OwnershipIInv => LeaseSafe
  BY DEF OwnershipIInv
<1>2. QED
  BY Invariance, <1>1, PTL

(* No program index outlives the host's access to the card.                *)
THEOREM IndexNeverStale == OwnershipSpec => []NoStaleIndex
<1>1. OwnershipIInv => NoStaleIndex
  BY DEF OwnershipIInv
<1>2. QED
  BY Invariance, <1>1, PTL

(* Every return of the card is followed by a resumption of the program.    *)
THEOREM EveryReturnResumes == OwnershipSpec => []ReturnResumes
<1>1. OwnershipIInv => ReturnResumes
  BY DEF OwnershipIInv, Suspension, ReturnResumes, Telling
<1>2. QED
  BY Invariance, <1>1, PTL

(* Only begin_usb_host_ownership makes the host the owner.                 *)
LEMMA HostByHandOver ==
  ASSUME [OwnershipNext]_cardVars, owner # "UsbHost", owner' = "UsbHost"
  PROVE  BeginHandsOver
<1>1. ASSUME Choose \/ Bus \/ UNCHANGED cardVars PROVE FALSE
  BY <1>1 DEF Choose, Enable, Recover, AskReturn, InitCard, Remount, Resume,
              TryLock, Unlock, Bus, Eject, Connect, Disconnect, MoveCard,
              ReturnOnDisconnect, NotifyDisconnect, cardVars, ownership
<1>2. ASSUME NEW r \in Request, RawCall(r) \/ Proceed(r) PROVE FALSE
  BY <1>2 DEF RawCall, Proceed, RawCount, RawCheck, RawDone, RawFails, RawExit,
              ownership
<1>3. ASSUME Continue PROVE BeginHandsOver
  BY <1>3 DEF Continue, BeginClearsPending, BeginClearsEvent, BeginUnmounts,
              UnmountFails, MeasureFails, MediaRefused, MediaOffered,
              MediaPresent, MediaResetsEject, Withdraw, RequestReturn,
              RequestLate, StoreReturn, Service, PollOwner, PollGone,
              PollGonePending, PollLost, PollPending, PollRaw, PollClaims,
              FinishFails, FinishMounts, TakeOwnership, TellReturned, TakeEvent,
              RecoverRaw, RecoverRefused, RecoverMounts, RecoverForgets,
              ownership
<1>4. QED
  BY <1>1, <1>2, <1>3 DEF OwnershipNext

(* Nothing of an earlier session is presented when the host gets the card. *)
THEOREM NothingPresentedEarly == OwnershipSpec => NotPresentEarly
<1>1. OwnershipIInv /\ [OwnershipNext]_cardVars =>
        (owner # "UsbHost" /\ owner' = "UsbHost" => ~present')
  <2> SUFFICES ASSUME OwnershipIInv, BeginHandsOver PROVE ~present'
    BY HostByHandOver
  <2>1. ~present
    BY DEF OwnershipIInv, Suspension, Beginning, BeginHandsOver, Go
  <2>2. QED
    BY <2>1 DEF BeginHandsOver, medium
<1>2. QED
  BY Invariance, <1>1, PTL DEF OwnershipSpec, NotPresentEarly

(* A return becomes safe by the menu's request or by a disconnect.         *)
LEMMA SafeByRequest ==
  ASSUME [OwnershipNext]_cardVars, pending # "SafeEject", pending' = "SafeEject"
  PROVE  StoreReturn \/ Disconnect
<1>1. ASSUME Choose \/ UNCHANGED cardVars PROVE FALSE
  BY <1>1 DEF Choose, Enable, Recover, AskReturn, InitCard, Remount, Resume,
              TryLock, Unlock, cardVars, ownership
<1>2. ASSUME Bus PROVE Disconnect
  BY <1>2 DEF Bus, Eject, Connect, MoveCard, ownership
<1>3. ASSUME NEW r \in Request, RawCall(r) \/ Proceed(r) PROVE FALSE
  BY <1>3 DEF RawCall, Proceed, RawCount, RawCheck, RawDone, RawFails, RawExit,
              ownership
<1>4. ASSUME Continue PROVE StoreReturn
  BY <1>4 DEF Continue, BeginClearsPending, BeginClearsEvent, BeginUnmounts,
              UnmountFails, MeasureFails, BeginHandsOver, MediaRefused,
              MediaOffered, MediaPresent, MediaResetsEject, Withdraw,
              RequestReturn, RequestLate, Service, PollOwner, PollGone,
              PollGonePending, PollLost, PollPending, PollRaw, PollClaims,
              FinishFails, FinishMounts, TakeOwnership, TellReturned, TakeEvent,
              RecoverRaw, RecoverRefused, RecoverMounts, RecoverForgets,
              ownership
<1>5. QED
  BY <1>1, <1>2, <1>3, <1>4 DEF OwnershipNext

(* A safe return of an offered medium follows an eject of this session.    *)
THEOREM SafeReturnIsSafe == OwnershipSpec => SafeOnceOffered
<1>1. OwnershipIInv /\ [OwnershipNext]_cardVars =>
        (pending' = "SafeEject" /\ pending # "SafeEject" =>
           hostDone \/ pc \in Opening)
  <2> SUFFICES ASSUME OwnershipIInv, StoreReturn \/ Disconnect,
                      pending' = "SafeEject", pending # "SafeEject"
               PROVE  hostDone \/ pc \in Opening
    BY SafeByRequest
  <2>1. CASE StoreReturn
    BY <2>1 DEF OwnershipIInv, Suspension, StoreReturn, Go
  <2>2. CASE Disconnect
    BY <2>2 DEF OwnershipIInv, Suspension, Disconnect, ReturnOnDisconnect,
                NotifyDisconnect, ownership
  <2>3. QED
    BY <2>1, <2>2
<1>2. QED
  BY Invariance, <1>1, PTL DEF OwnershipSpec, SafeOnceOffered

(* Together: every state of the hand-over is safe.                         *)
THEOREM OwnershipIsSafe == OwnershipSpec => []OwnershipSafe
  BY OwnershipTypeCorrect, CardIsExclusive, NeverMountedTwice, LeaseIsSafe, IndexNeverStale,
     EveryReturnResumes, PTL DEF OwnershipSafe

(* And the medium is shown, and given back, in its own session.            *)
THEOREM MediumIsSafe == OwnershipSpec => MediumSafe
  BY NothingPresentedEarly, SafeReturnIsSafe, PTL DEF MediumSafe

-----------------------------------------------------------------------------
(* The transactional writer.                                                *)


(* What a writer knows about the disk at each phase.                       *)
WriterKnows(w) ==
    LET s == StageOf[w]
        t == tgt[w]
    IN
    /\ phase[w] # "closed" => t \in Target
    /\ OwnsTemp(w) => tmp[s] # NoFile
    /\ phase[w] \in {"sealed", "moved", "undo"} => tmp[s] = buf[w]
    /\ phase[w] \in {"open", "sealed"} => bak[s] = NoFile
    /\ phase[w] = "moved" /\ ~had[w] => bak[s] = NoFile /\ file[t] = NoFile
    /\ phase[w] = "moved" /\ had[w] => kept[s] = t
    /\ phase[w] = "undo" => kept[s] = t
    /\ phase[w] = "done" => kept[s] = None
    /\ phase[w] \notin {"closed", "bad"} => res[w] = "none"

OneCommit == \A v, w \in Writer : InCommit(v) /\ InCommit(w) => v = w

(* The inductive invariant: the checked invariants do not say what a       *)
(* writer in the middle of a commit relies on.                             *)
IInv ==
    /\ TypeOK
    /\ NeverTorn
    /\ OneOwner
    /\ SoleCopyKept
    /\ OneCommit
    /\ \A w \in Writer : WriterKnows(w)

USE ConstantsAssumption

(* Initially no writer is at work and no staging file exists.              *)
LEMMA InitIInv == Init => IInv
  BY DEF Init, IInv, TypeOK, Phase, NeverTorn, OneOwner, SoleCopyKept,
         OneCommit, InCommit, WriterKnows, OwnsTemp

(* Every step of a writer, and a power loss, preserves the invariant.      *)
LEMMA StepIInv == IInv /\ [Next]_vars => IInv'
<1> SUFFICES ASSUME IInv, [Next]_vars PROVE IInv'
  OBVIOUS
<1> USE DEF IInv, Goto, Return, disk
<1>1. ASSUME NEW w \in Writer, NEW t \in Target, Open(w, t) PROVE IInv'
  <2> USE <1>1 DEF Open
  <2>1. TypeOK'
    BY DEF TypeOK, Phase
  <2>2. NeverTorn' /\ SoleCopyKept'
    BY DEF TypeOK, NeverTorn, SoleCopyKept
  <2>3. \A v \in Writer : phase[v] # "closed" => StageOf[v] # StageOf[w]
    BY DEF TypeOK, Phase, Alone, InCommit, OwnsTemp, WriterKnows
  <2>4. OneOwner'
    BY <2>3 DEF OneOwner, TypeOK
  <2>5. OneCommit'
    BY DEF OneCommit, InCommit, TypeOK
  <2>6. ASSUME NEW v \in Writer PROVE WriterKnows(v)'
    BY <2>3, <2>6 DEF WriterKnows, OwnsTemp, TypeOK
  <2> QED BY <2>1, <2>2, <2>4, <2>5, <2>6
<1>2. ASSUME NEW w \in Writer, NEW d \in Data, Write(w, d) PROVE IInv'
  <2> USE <1>2 DEF Write
  <2>1. TypeOK' /\ NeverTorn' /\ OneOwner' /\ SoleCopyKept' /\ OneCommit'
    BY DEF TypeOK, NeverTorn, OneOwner, SoleCopyKept, OneCommit, InCommit
  <2>2. ASSUME NEW v \in Writer PROVE WriterKnows(v)'
    BY <2>2 DEF WriterKnows, OwnsTemp, TypeOK
  <2> QED BY <2>1, <2>2
<1>3. ASSUME NEW w \in Writer, WriteFails(w) PROVE IInv'
  <2> USE <1>3 DEF WriteFails
  <2>1. TypeOK' /\ NeverTorn' /\ OneOwner' /\ SoleCopyKept'
    BY DEF TypeOK, Phase, NeverTorn, OneOwner, SoleCopyKept
  <2>2. OneCommit'
    BY DEF OneCommit, InCommit, TypeOK
  <2>3. ASSUME NEW v \in Writer PROVE WriterKnows(v)'
    BY <2>3 DEF WriterKnows, OwnsTemp, TypeOK
  <2> QED BY <2>1, <2>2, <2>3
<1>4. ASSUME NEW w \in Writer, Seal(w) \/ SealFails(w) PROVE IInv'
  <2> USE <1>4 DEF Seal, SealFails
  <2>1. TypeOK'
    BY DEF TypeOK, Phase
  <2>2. NeverTorn' /\ SoleCopyKept' /\ OneOwner'
    BY DEF TypeOK, NeverTorn, SoleCopyKept, OneOwner
  <2>3. OneCommit'
    BY DEF OneCommit, Alone, InCommit, TypeOK
  <2>4. \A v \in Writer : v # w /\ phase[v] # "closed" => StageOf[v] # StageOf[w]
    BY DEF OneOwner
  <2>5. ASSUME NEW v \in Writer PROVE WriterKnows(v)'
    BY <2>4, <2>5 DEF WriterKnows, OwnsTemp, TypeOK
  <2> QED BY <2>1, <2>2, <2>3, <2>5
<1>5. ASSUME NEW w \in Writer, MoveOld(w) \/ MoveOldFails(w) PROVE IInv'
  <2> USE <1>5 DEF MoveOld, MoveOldFails
  <2>0. tgt[w] \in Target /\ bak[StageOf[w]] = NoFile
    BY DEF WriterKnows
  <2>1. TypeOK'
    <3>1. CASE MoveOld(w)
      BY <3>1, <2>0 DEF MoveOld, TypeOK, Phase
    <3>2. CASE MoveOldFails(w)
      BY <3>2, <2>0 DEF MoveOldFails, TypeOK, Phase
    <3> QED BY <1>5, <3>1, <3>2
  <2>2. NeverTorn'
    BY <2>0 DEF TypeOK, NeverTorn
  <2>3. OneOwner' /\ OneCommit'
    BY DEF OneOwner, OneCommit, InCommit, TypeOK
  <2>4. SoleCopyKept'
    BY <2>0 DEF SoleCopyKept, TypeOK, NeverTorn
  <2>5. \A v \in Writer : v # w => ~InCommit(v)
    BY DEF OneCommit, InCommit
  <2>6. \A v \in Writer : v # w /\ phase[v] # "closed" => StageOf[v] # StageOf[w]
    BY DEF OneOwner
  <2>7. ASSUME NEW v \in Writer, v # w PROVE WriterKnows(v)'
    BY <2>5, <2>6, <2>7 DEF WriterKnows, OwnsTemp, TypeOK, InCommit
  <2>8. WriterKnows(w)'
    <3>0. res[w] = "none"
      BY DEF WriterKnows
    <3>1. CASE file[tgt[w]] = NoFile
      BY <2>0, <3>0, <3>1 DEF WriterKnows, OwnsTemp, TypeOK
    <3>2. CASE file[tgt[w]] # NoFile
      <4>1. tgt' = tgt /\ buf' = buf /\ tmp' = tmp /\ had'[w] = TRUE
        BY <3>2 DEF TypeOK
      <4>2. \/ phase'[w] = "moved" /\ kept'[StageOf[w]] = tgt[w] /\ res' = res
            \/ phase'[w] = "bad"
        BY <3>2 DEF TypeOK
      <4>3. tmp[StageOf[w]] # NoFile /\ tmp[StageOf[w]] = buf[w]
        BY DEF WriterKnows, OwnsTemp
      <4> QED BY <2>0, <3>0, <4>1, <4>2, <4>3 DEF WriterKnows, OwnsTemp
    <3> QED BY <3>1, <3>2
  <2> QED BY <2>1, <2>2, <2>3, <2>4, <2>7, <2>8
<1>6. ASSUME NEW w \in Writer, Install(w) \/ InstallFails(w) PROVE IInv'
  <2> USE <1>6 DEF Install, InstallFails
  <2>0. tgt[w] \in Target /\ tmp[StageOf[w]] = buf[w]
    BY DEF WriterKnows
  <2>1. TypeOK'
    BY <2>0 DEF TypeOK, Phase
  <2>2. NeverTorn'
    BY <2>0 DEF TypeOK, NeverTorn
  <2>3. OneOwner' /\ OneCommit'
    BY DEF OneOwner, OneCommit, InCommit, TypeOK
  <2>4. SoleCopyKept'
    BY <2>0 DEF SoleCopyKept, TypeOK
  <2>5. \A v \in Writer : v # w => ~InCommit(v)
    BY DEF OneCommit, InCommit
  <2>6. \A v \in Writer : v # w /\ phase[v] # "closed" => StageOf[v] # StageOf[w]
    BY DEF OneOwner
  <2>7. kept[StageOf[w]] \in {None, tgt[w]}
    BY <2>0 DEF WriterKnows, SoleCopyKept, TypeOK
  <2>8. ASSUME NEW v \in Writer PROVE WriterKnows(v)'
    BY <2>0, <2>5, <2>6, <2>7, <2>8 DEF WriterKnows, OwnsTemp, TypeOK, InCommit
  <2> QED BY <2>1, <2>2, <2>3, <2>4, <2>8
<1>7. ASSUME NEW w \in Writer, Undo(w) \/ UndoFails(w) PROVE IInv'
  <2> USE <1>7 DEF Undo, UndoFails
  <2>0. tgt[w] \in Target /\ kept[StageOf[w]] = tgt[w]
    BY DEF WriterKnows
  <2>1. TypeOK'
    BY <2>0 DEF TypeOK, Phase
  <2>2. NeverTorn'
    BY <2>0 DEF TypeOK, NeverTorn
  <2>3. OneOwner' /\ OneCommit'
    BY DEF OneOwner, OneCommit, InCommit, TypeOK
  <2>4. SoleCopyKept'
    BY <2>0 DEF SoleCopyKept, TypeOK
  <2>5. \A v \in Writer : v # w => ~InCommit(v)
    BY DEF OneCommit, InCommit
  <2>6. \A v \in Writer : v # w /\ phase[v] # "closed" => StageOf[v] # StageOf[w]
    BY DEF OneOwner
  <2>7. ASSUME NEW v \in Writer PROVE WriterKnows(v)'
    BY <2>0, <2>5, <2>6, <2>7 DEF WriterKnows, OwnsTemp, TypeOK, InCommit
  <2> QED BY <2>1, <2>2, <2>3, <2>4, <2>7
<1>8. ASSUME NEW w \in Writer, Finish(w) \/ FinishLeavesBak(w) PROVE IInv'
  <2> USE <1>8 DEF Finish, FinishLeavesBak, Retire
  <2>0. kept[StageOf[w]] = None
    BY DEF WriterKnows
  <2>1. TypeOK'
    <3>1. CASE Finish(w)
      BY <3>1 DEF Finish, Retire, TypeOK, Phase
    <3>2. CASE FinishLeavesBak(w)
      BY <3>2 DEF FinishLeavesBak, Retire, TypeOK, Phase
    <3> QED BY <1>8, <3>1, <3>2
  <2>2. NeverTorn' /\ SoleCopyKept'
    BY <2>0 DEF TypeOK, NeverTorn, SoleCopyKept
  <2>3. OneOwner' /\ OneCommit'
    BY DEF OneOwner, OneCommit, InCommit, TypeOK
  <2>4. ASSUME NEW v \in Writer PROVE WriterKnows(v)'
    BY <2>4 DEF WriterKnows, OwnsTemp, TypeOK
  <2> QED BY <2>1, <2>2, <2>3, <2>4
<1>9. ASSUME NEW w \in Writer, Abort(w) \/ AbortLeavesTmp(w) PROVE IInv'
  <2> USE <1>9 DEF Abort, AbortLeavesTmp, Retire
  <2>1. TypeOK'
    <3>1. CASE Abort(w)
      BY <3>1 DEF Abort, Retire, TypeOK, Phase
    <3>2. CASE AbortLeavesTmp(w)
      BY <3>2 DEF AbortLeavesTmp, Retire, TypeOK, Phase
    <3> QED BY <1>9, <3>1, <3>2
  <2>2. NeverTorn' /\ SoleCopyKept'
    BY DEF TypeOK, NeverTorn, SoleCopyKept
  <2>3. OneOwner' /\ OneCommit'
    BY DEF OneOwner, OneCommit, InCommit, TypeOK
  <2>4. \A v \in Writer : v # w /\ phase[v] # "closed" => StageOf[v] # StageOf[w]
    BY DEF OneOwner
  <2>5. ASSUME NEW v \in Writer PROVE WriterKnows(v)'
    BY <2>4, <2>5 DEF WriterKnows, OwnsTemp, TypeOK
  <2> QED BY <2>1, <2>2, <2>3, <2>5
<1>10. CASE PowerLoss
  BY <1>10 DEF PowerLoss, TypeOK, Phase, NeverTorn, OneOwner, SoleCopyKept,
               OneCommit, InCommit, WriterKnows, OwnsTemp
<1>11. CASE UNCHANGED vars
  BY <1>11 DEF vars, TypeOK, NeverTorn, OneOwner, SoleCopyKept, OneCommit,
               InCommit, WriterKnows, OwnsTemp
<1> QED
  BY <1>1, <1>2, <1>3, <1>4, <1>5, <1>6, <1>7, <1>8, <1>9, <1>10, <1>11
     DEF Next, Step, Fault

(* Type correctness of the writers and the disk.                           *)
THEOREM TypeCorrect == Spec => []TypeOK
  BY InitIInv, StepIInv, PTL DEF Spec, IInv

(* No target and no backup ever holds unfinished bytes.                    *)
THEOREM NothingTorn == Spec => []NeverTorn
  BY InitIInv, StepIInv, PTL DEF Spec, IInv

(* Staging files have one owner.                                           *)
THEOREM StagingOwned == Spec => []OneOwner
  BY InitIInv, StepIInv, PTL DEF Spec, IInv

(* The only copy of a target that was moved aside is never lost.           *)
THEOREM SoleCopySafe == Spec => []SoleCopyKept
  BY InitIInv, StepIInv, PTL DEF Spec, IInv

(* All of it: what the writers promise of the files.                       *)
THEOREM FilesAreSafe == Spec => []FilesSafe
  BY TypeCorrect, NothingTorn, StagingOwned, SoleCopySafe, PTL DEF FilesSafe

-----------------------------------------------------------------------------
(* Where the value of a target is found, without the CHOOSE of Value.      *)
ValueLaw ==
    /\ Value \in [Target -> Data \cup {NoFile, Torn}]
    /\ \A t \in Target :
        /\ \A s \in Stage : kept[s] = t => Value[t] = bak[s]
        /\ (\A s \in Stage : kept[s] # t) => Value[t] = file[t]

LEMMA ValueLawHolds == IInv => ValueLaw
<1> SUFFICES ASSUME IInv PROVE ValueLaw
  OBVIOUS
<1> USE DEF IInv, TypeOK, SoleCopyKept
<1>1. ASSUME NEW t \in Target, NEW s \in Stage, kept[s] = t
      PROVE  Value[t] = bak[s]
  <2>1. \A r \in Stage : kept[r] = t => r = s
    BY <1>1
  <2>2. s = CHOOSE r \in Stage : kept[r] = t
    BY <1>1, <2>1
  <2>3. file[t] = NoFile
    BY <1>1
  <2> QED BY <1>1, <2>2, <2>3 DEF Value
<1>2. ASSUME NEW t \in Target, \A s \in Stage : kept[s] # t
      PROVE  Value[t] = file[t]
  BY <1>2 DEF Value
<1>3. Value \in [Target -> Data \cup {NoFile, Torn}]
  <2>1. ASSUME NEW t \in Target PROVE Value[t] \in Data \cup {NoFile, Torn}
    BY <1>1, <1>2
  <2> QED BY <2>1 DEF Value
<1> QED BY <1>1, <1>2, <1>3 DEF ValueLaw

(* Steps that touch no target, backup or history leave every value alone.  *)
LEMMA SameValue == UNCHANGED <<file, bak, kept>> => Value' = Value
  BY DEF Value

(* A target keeps its value when a step leaves its file, its backup and    *)
(* the history of that backup alone.                                       *)
LEMMA ValueElsewhere ==
    ASSUME ValueLaw, ValueLaw', NEW x \in Target,
           file'[x] = file[x],
           \A r \in Stage : /\ kept'[r] = x <=> kept[r] = x
                            /\ kept[r] = x => bak'[r] = bak[r]
    PROVE  Value'[x] = Value[x]
<1>1. CASE \E r \in Stage : kept[r] = x
  BY <1>1 DEF ValueLaw
<1>2. CASE \A r \in Stage : kept[r] # x
  BY <1>2 DEF ValueLaw
<1> QED BY <1>1, <1>2

(* The initial states are initial states of the atomic file.               *)
LEMMA InitRefines == Init => Atomic!AInit
<1> SUFFICES ASSUME Init PROVE Atomic!AInit
  OBVIOUS
<1>1. Value \in [Target -> Data \cup {NoFile}]
  BY DEF Init, Value
<1>2. Job = [w \in Writer |-> "idle"]
  BY DEF Init, Job
<1> QED BY <1>1, <1>2 DEF Init, Atomic!AInit

(* Every step is a step of the atomic file or leaves it alone.             *)
LEMMA StepRefines ==
    IInv /\ IInv' /\ [Next]_vars => [Atomic!ANext]_(Atomic!avars)
<1> SUFFICES ASSUME IInv, IInv', [Next]_vars
             PROVE  [Atomic!ANext]_(Atomic!avars)
  OBVIOUS
<1>a. ValueLaw /\ ValueLaw'
  BY ValueLawHolds, PTL
<1>b. /\ TypeOK /\ TypeOK' /\ SoleCopyKept /\ SoleCopyKept'
      /\ \A w \in Writer : WriterKnows(w)
  BY DEF IInv
<1> USE DEF Goto, Return, disk
<1>1. ASSUME NEW w \in Writer, NEW t \in Target, Open(w, t)
      PROVE  Atomic!Begin(w, t)
  <2>1. Value' = Value
    BY <1>1, SameValue DEF Open
  <2>2. Job[w] = "idle" /\ Job' = [Job EXCEPT ![w] = "busy"]
    BY <1>1, <1>b DEF Open, Job, TypeOK
  <2> QED BY <1>1, <2>1, <2>2 DEF Open, Atomic!Begin
<1>2. ASSUME NEW w \in Writer, NEW d \in Data, Write(w, d)
      PROVE  Atomic!Supply(w, d)
  <2>1. Value' = Value
    BY <1>2, SameValue DEF Write
  <2>2. Job[w] = "busy" /\ Job' = Job
    BY <1>2 DEF Write, Job
  <2> QED BY <1>2, <2>1, <2>2 DEF Write, Atomic!Supply
<1>3. ASSUME NEW w \in Writer, WriteFails(w)
      PROVE  UNCHANGED Atomic!avars
  <2>1. Value' = Value
    BY <1>3, SameValue DEF WriteFails
  <2>2. Job' = Job
    BY <1>3, <1>b DEF WriteFails, Job, TypeOK, WriterKnows
  <2> QED BY <1>3, <2>1, <2>2 DEF WriteFails, Atomic!avars
<1>4. ASSUME NEW w \in Writer, Seal(w) \/ SealFails(w)
      PROVE  Atomic!Refuse(w) \/ UNCHANGED Atomic!avars
  <2>1. Value' = Value
    BY <1>4, SameValue DEF Seal, SealFails
  <2>2. CASE phase' = [phase EXCEPT ![w] = "sealed"] /\ res' = res
    <3>1. Job' = Job
      BY <1>4, <1>b, <2>2 DEF Seal, SealFails, Job, TypeOK
    <3> QED BY <1>4, <2>1, <2>2, <3>1 DEF Seal, SealFails, Atomic!avars
  <2>3. CASE phase' = [phase EXCEPT ![w] = "bad"]
             /\ res' = [res EXCEPT ![w] = "fail"]
    <3>1. Job[w] = "busy" /\ Job' = [Job EXCEPT ![w] = "refused"]
      BY <1>4, <1>b, <2>3 DEF Seal, SealFails, Job, TypeOK
    <3> QED BY <1>4, <2>1, <2>3, <3>1 DEF Seal, SealFails, Atomic!Refuse
  <2> QED BY <1>4, <2>2, <2>3 DEF Seal, SealFails
<1>5. ASSUME NEW w \in Writer, MoveOld(w) \/ MoveOldFails(w)
      PROVE  Atomic!Refuse(w) \/ UNCHANGED Atomic!avars
  <2> DEFINE s == StageOf[w]
             t == tgt[w]
  <2>0. /\ t \in Target /\ s \in Stage /\ bak[s] = NoFile /\ res[w] = "none"
        /\ kept[s] = None
    BY <1>5, <1>b DEF MoveOld, MoveOldFails, WriterKnows, SoleCopyKept
  <2>1. CASE UNCHANGED disk /\ phase' = [phase EXCEPT ![w] = "moved"]
             /\ res' = res
    <3>1. Value' = Value
      BY <2>1, SameValue
    <3>2. Job' = Job
      BY <1>5, <1>b, <2>1 DEF MoveOld, MoveOldFails, Job, TypeOK
    <3> QED BY <1>5, <2>1, <3>1, <3>2 DEF MoveOld, MoveOldFails, Atomic!avars
  <2>2. CASE UNCHANGED disk /\ phase' = [phase EXCEPT ![w] = "bad"]
             /\ res' = [res EXCEPT ![w] = "fail"]
    <3>1. Value' = Value
      BY <2>2, SameValue
    <3>2. Job[w] = "busy" /\ Job' = [Job EXCEPT ![w] = "refused"]
      BY <1>5, <1>b, <2>2 DEF MoveOld, MoveOldFails, Job, TypeOK
    <3> QED BY <1>5, <2>2, <3>1, <3>2 DEF MoveOld, MoveOldFails, Atomic!Refuse
  <2>3. CASE /\ file[t] # NoFile
             /\ bak' = [bak EXCEPT ![s] = file[t]]
             /\ file' = [file EXCEPT ![t] = NoFile]
             /\ kept' = [kept EXCEPT ![s] = t]
             /\ phase' = [phase EXCEPT ![w] = "moved"] /\ res' = res
    <3>1. ASSUME NEW x \in Target PROVE Value'[x] = Value[x]
      <4>1. CASE x = t
        <5>1. \A r \in Stage : kept[r] # t
          BY <1>b, <2>0, <2>3 DEF SoleCopyKept, TypeOK
        <5>2. Value[t] = file[t]
          BY <1>a, <2>0, <5>1 DEF ValueLaw
        <5>3. Value'[t] = bak'[s] /\ bak'[s] = file[t]
          BY <1>a, <1>b, <2>0, <2>3 DEF ValueLaw, TypeOK
        <5> QED BY <4>1, <5>2, <5>3
      <4>2. CASE x # t
        BY <1>a, <1>b, <2>0, <2>3, <4>2, ValueElsewhere DEF TypeOK
      <4> QED BY <4>1, <4>2
    <3>2. Value' = Value
      BY <1>a, <3>1 DEF ValueLaw
    <3>3. Job' = Job
      BY <1>5, <1>b, <2>3 DEF MoveOld, MoveOldFails, Job, TypeOK
    <3> QED BY <1>5, <2>3, <3>2, <3>3 DEF MoveOld, MoveOldFails, Atomic!avars
  <2> QED BY <1>5, <2>1, <2>2, <2>3 DEF MoveOld, MoveOldFails
<1>6. ASSUME NEW w \in Writer, Install(w) \/ InstallFails(w)
      PROVE  \/ Atomic!Publish(w) \/ Atomic!Refuse(w)
             \/ UNCHANGED Atomic!avars
  <2> DEFINE s == StageOf[w]
             t == tgt[w]
  <2>0. t \in Target /\ s \in Stage /\ tmp[s] = buf[w] /\ buf[w] \in Data
        /\ res[w] = "none"
    BY <1>6, <1>b DEF Install, InstallFails, WriterKnows, TypeOK
  <2>1. CASE UNCHANGED disk /\ phase' = [phase EXCEPT ![w] = "undo"]
             /\ res' = res
    <3>1. Value' = Value
      BY <2>1, SameValue
    <3>2. Job' = Job
      BY <1>6, <1>b, <2>1 DEF Install, InstallFails, Job, TypeOK
    <3> QED BY <1>6, <2>1, <3>1, <3>2 DEF Install, InstallFails, Atomic!avars
  <2>2. CASE UNCHANGED disk /\ phase' = [phase EXCEPT ![w] = "bad"]
             /\ res' = [res EXCEPT ![w] = "fail"]
    <3>1. Value' = Value
      BY <2>2, SameValue
    <3>2. Job[w] = "busy" /\ Job' = [Job EXCEPT ![w] = "refused"]
      BY <1>6, <1>b, <2>2 DEF Install, InstallFails, Job, TypeOK
    <3> QED BY <1>6, <2>2, <3>1, <3>2 DEF Install, InstallFails, Atomic!Refuse
  <2>3. CASE /\ file' = [file EXCEPT ![t] = tmp[s]]
             /\ kept' = [r \in Stage |-> IF kept[r] = t THEN None ELSE kept[r]]
             /\ phase' = [phase EXCEPT ![w] = "done"]
             /\ UNCHANGED <<bak, res>>
    <3>1. Value'[t] = buf[w]
      <4>1. file'[t] = buf[w] /\ \A r \in Stage : kept'[r] # t
        BY <1>b, <2>0, <2>3 DEF TypeOK
      <4> QED BY <1>a, <2>0, <4>1 DEF ValueLaw
    <3>2. ASSUME NEW x \in Target, x # t PROVE Value'[x] = Value[x]
      BY <1>a, <1>b, <2>0, <2>3, <3>2, ValueElsewhere DEF TypeOK
    <3>3. Value' = [Value EXCEPT ![t] = buf[w]]
      BY <1>a, <2>0, <3>1, <3>2 DEF ValueLaw
    <3>4. Job[w] = "busy" /\ Job' = [Job EXCEPT ![w] = "published"]
      BY <1>6, <1>b, <2>3 DEF Install, InstallFails, Job, TypeOK
    <3> QED BY <1>6, <2>3, <3>3, <3>4 DEF Install, InstallFails, Atomic!Publish
  <2> QED BY <1>6, <2>1, <2>2, <2>3 DEF Install, InstallFails
<1>7. ASSUME NEW w \in Writer, Undo(w) \/ UndoFails(w)
      PROVE  Atomic!Refuse(w)
  <2> DEFINE s == StageOf[w]
             t == tgt[w]
  <2>0. t \in Target /\ s \in Stage /\ kept[s] = t
    BY <1>7, <1>b DEF Undo, UndoFails, WriterKnows
  <2>1. Job[w] = "busy" /\ Job' = [Job EXCEPT ![w] = "refused"]
    <3>1. CASE Undo(w)
      BY <3>1, <1>b DEF Undo, Job, TypeOK
    <3>2. CASE UndoFails(w)
      BY <3>2, <1>b DEF UndoFails, Job, TypeOK
    <3> QED BY <1>7, <3>1, <3>2
  <2>2. CASE UNCHANGED disk
    <3>1. Value' = Value
      BY <2>2, SameValue
    <3> QED BY <1>7, <2>1, <3>1 DEF Undo, UndoFails, Atomic!Refuse
  <2>3. CASE /\ file' = [file EXCEPT ![t] = bak[s]]
             /\ bak' = [bak EXCEPT ![s] = NoFile]
             /\ kept' = [kept EXCEPT ![s] = None]
    <3>1. Value'[t] = Value[t]
      <4>1. file'[t] = bak[s] /\ \A r \in Stage : kept'[r] # t
        BY <1>b, <2>0, <2>3 DEF TypeOK, SoleCopyKept
      <4> QED BY <1>a, <2>0, <4>1 DEF ValueLaw
    <3>2. ASSUME NEW x \in Target, x # t PROVE Value'[x] = Value[x]
      BY <1>a, <1>b, <2>0, <2>3, <3>2, ValueElsewhere DEF TypeOK
    <3>3. Value' = Value
      BY <1>a, <3>1, <3>2 DEF ValueLaw
    <3> QED BY <1>7, <2>1, <3>3 DEF Undo, UndoFails, Atomic!Refuse
  <2> QED BY <1>7, <2>2, <2>3 DEF Undo, UndoFails
<1>8. ASSUME NEW w \in Writer, Finish(w) \/ FinishLeavesBak(w)
      PROVE  Atomic!Acknowledge(w)
  <2>0. kept[StageOf[w]] = None
    BY <1>8, <1>b DEF Finish, FinishLeavesBak, WriterKnows
  <2>1. ASSUME NEW x \in Target PROVE Value'[x] = Value[x]
    BY <1>8, <1>a, <1>b, <2>0, <2>1, ValueElsewhere DEF Finish, FinishLeavesBak, TypeOK
  <2>2. Value' = Value
    BY <1>a, <2>1 DEF ValueLaw
  <2>3. Job[w] = "published" /\ Job' = [Job EXCEPT ![w] = "idle"]
    <3>1. CASE Finish(w)
      BY <3>1, <1>b DEF Finish, Retire, Job, TypeOK
    <3>2. CASE FinishLeavesBak(w)
      BY <3>2, <1>b DEF FinishLeavesBak, Retire, Job, TypeOK
    <3> QED BY <1>8, <3>1, <3>2
  <2> QED BY <1>8, <2>2, <2>3 DEF Finish, FinishLeavesBak, Retire, Atomic!Acknowledge,
                                  Atomic!Retire
<1>9. ASSUME NEW w \in Writer, Abort(w) \/ AbortLeavesTmp(w)
      PROVE  Atomic!GiveUp(w)
  <2>1. Value' = Value
    BY <1>9, SameValue DEF Abort, AbortLeavesTmp
  <2>2. /\ Job[w] \in {"busy", "refused"}
        /\ Job' = [Job EXCEPT ![w] = "idle"]
    <3>1. CASE Abort(w)
      BY <3>1, <1>b DEF Abort, Retire, Job, TypeOK
    <3>2. CASE AbortLeavesTmp(w)
      BY <3>2, <1>b DEF AbortLeavesTmp, Retire, Job, TypeOK
    <3> QED BY <1>9, <3>1, <3>2
  <2> QED BY <1>9, <2>1, <2>2 DEF Abort, AbortLeavesTmp, Retire, Atomic!GiveUp, Atomic!Retire
<1>10. ASSUME PowerLoss PROVE Atomic!Lose
  <2>1. Value' = Value
    BY <1>10, SameValue DEF PowerLoss
  <2>2. Job' = [w \in Writer |-> "idle"]
    BY <1>10 DEF PowerLoss, Job
  <2> QED BY <1>10, <2>1, <2>2 DEF PowerLoss, Atomic!Lose
<1>11. ASSUME UNCHANGED vars PROVE UNCHANGED Atomic!avars
  <2>1. Value' = Value /\ Job' = Job
    BY <1>11 DEF vars, Value, Job
  <2> QED BY <1>11, <2>1 DEF vars, Atomic!avars
<1> QED
  BY <1>1, <1>2, <1>3, <1>4, <1>5, <1>6, <1>7, <1>8, <1>9, <1>10, <1>11
     DEF Next, Step, Fault, Atomic!ANext

(* The writer implements the atomic file.                                  *)
THEOREM ImplementsAtomicFile == Spec => Refinement
  BY InitRefines, StepRefines, InitIInv, StepIInv, PTL
     DEF Spec, Refinement, Atomic!ASpec
=============================================================================

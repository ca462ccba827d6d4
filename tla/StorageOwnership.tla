-------------------------- MODULE StorageOwnership --------------------------
(***************************************************************************)
(* Who may touch the SD card: the firmware's FAT file system or the raw    *)
(* block requests of a USB host (src/platform/picocalc/storage.cpp and     *)
(* usb_msc.cpp, driven by the USB STORAGE menu and service_background in   *)
(* src/core/repl.cpp).                                                     *)
(*                                                                         *)
(* The foreground runs one operation at a time, one step per access to an  *)
(* atomic the USB task also uses.  The USB task interrupts it between any  *)
(* two steps: the handlers of bus events run to completion, a raw request  *)
(* is several steps because storage.hpp promises, and the tests check with *)
(* a thread, that the foreground waits for one still inside the driver.    *)
(***************************************************************************)
EXTENDS FiniteSets

CONSTANT Request    \* the raw requests a host may have in progress

VARIABLES
    owner,      \* storage_owner
    pending,    \* pending_return
    event,      \* usb_event, a mailbox of one
    raw,        \* where each READ10 or WRITE10 is
    mounted,    \* the FAT file system is mounted
    locked,     \* storage_locked, the lease of a transfer
    card,       \* the card is in the slot
    present,    \* usb_msc: the host is told there is a medium
    ejected,    \* usb_msc: the host has ejected
    connected,  \* the USB cable
    pc,         \* where the foreground is
    seen,       \* the owner poll() has loaded, or the return that is asked
    program,    \* "ram", or the SD program: open, suspended, or closed
                \* after a failed resume_after_usb()
    stale,      \* the host was let at the card since the program's index
                \* was built (a history variable)
    hostDone    \* the host has ejected since it was given the card
                \* (a history variable)

ownership == <<owner, pending, event>>
medium == <<present, ejected, connected>>
history == <<stale, hostDone>>
cardVars == <<ownership, raw, mounted, locked, card, medium, pc, seen,
              program, history>>

Owner == {"Firmware", "UsbHost", "Transition", "Unavailable"}
ReturnKind == {"SafeEject", "Forced"}
PendingReturn == ReturnKind \cup {"None", "UnsafeDisconnect"}
UsbEvent == {"None", "ReturnedToFirmware", "UnsafeDisconnect", "CardRemoved",
             "IoError"}

(* raw_io_active counts the requests past their first instruction.         *)
RawActive == \E r \in Request : raw[r] \notin {"idle", "called"}
Go(from, to) == pc = from /\ pc' = to

-----------------------------------------------------------------------------
(* USB STORAGE / Enable: the program is suspended, then                    *)
(* begin_usb_host_ownership.  What its guards refuse leaves no trace, the  *)
(* suspension being cancelled.                                             *)
Enable ==
    /\ Go("idle", "begin")
    /\ program \in {"ram", "open"}
    /\ ~locked /\ mounted /\ card
    /\ owner = "Firmware" /\ owner' = "Transition"
    /\ program' = IF program = "open" THEN "suspended" ELSE program
    /\ UNCHANGED <<pending, event, raw, mounted, locked, card, medium, seen,
                   history>>

BeginClearsPending ==
    /\ Go("begin", "clear")
    /\ pending' = "None"
    /\ UNCHANGED <<owner, event, raw, mounted, locked, card, medium, seen,
                   program, history>>

BeginClearsEvent ==
    /\ Go("clear", "unmount")
    /\ event' = "None"
    /\ UNCHANGED <<owner, pending, raw, mounted, locked, card, medium, seen,
                   program, history>>

BeginUnmounts ==
    /\ Go("unmount", "measure")
    /\ mounted' = FALSE
    /\ UNCHANGED <<ownership, raw, locked, card, medium, seen, program,
                   history>>

(* cancel_usb_suspend, which the menu calls when beginning fails.          *)
CancelSuspend ==
    program' = IF program = "suspended" THEN "open" ELSE program

UnmountFails ==
    /\ Go("unmount", "idle")
    /\ owner' = "Firmware"
    /\ CancelSuspend
    /\ UNCHANGED <<pending, event, raw, mounted, locked, card, medium, seen,
                   history>>

(* The card does not sync or has an unsupported size: mount it again.      *)
MeasureFails ==
    /\ Go("measure", "idle")
    /\ \/ mounted' = TRUE /\ owner' = "Firmware"
       \/ mounted' = FALSE /\ owner' = "Unavailable"
    /\ CancelSuspend
    /\ UNCHANGED <<pending, event, raw, locked, card, medium, seen, history>>

(* The card is measured and the host owns it.                              *)
BeginHandsOver ==
    /\ Go("measure", "media")
    /\ owner' = "UsbHost"
    /\ hostDone' = FALSE
    /\ UNCHANGED <<pending, event, raw, mounted, locked, card, medium, seen,
                   program, stale>>

(* set_media_present(true), two stores; refused when the host has already  *)
(* lost the card, and then the menu forces a return and polls.             *)
MediaRefused ==
    /\ Go("media", "poll")
    /\ owner # "UsbHost"
    /\ UNCHANGED <<ownership, raw, mounted, locked, card, medium, seen,
                   program, history>>

MediaOffered ==
    /\ Go("media", "offer")
    /\ owner = "UsbHost"
    /\ UNCHANGED <<ownership, raw, mounted, locked, card, medium, seen,
                   program, history>>

MediaPresent ==
    /\ Go("offer", "reset")
    /\ present' = TRUE
    /\ UNCHANGED <<ownership, raw, mounted, locked, card, ejected, connected,
                   seen, program, history>>

MediaResetsEject ==
    /\ Go("reset", "idle")
    /\ ejected' = FALSE
    /\ UNCHANGED <<ownership, raw, mounted, locked, card, present, connected,
                   seen, program, history>>

-----------------------------------------------------------------------------
(* USB STORAGE / Return and Force Disconnect: the medium is withdrawn,     *)
(* then request_usb_safe_return or request_usb_force_return.               *)
AskReturn(kind) ==
    /\ Go("idle", "withdraw")
    /\ owner = "UsbHost"
    /\ kind = "SafeEject" => ejected
    /\ seen' = kind
    /\ UNCHANGED <<ownership, raw, mounted, locked, card, medium, program,
                   history>>

Withdraw ==
    /\ Go("withdraw", "request")
    /\ present' = FALSE
    /\ UNCHANGED <<ownership, raw, mounted, locked, card, ejected, connected,
                   seen, program, history>>

RequestReturn ==
    /\ Go("request", "store")
    /\ owner = "UsbHost" /\ owner' = "Transition"
    /\ UNCHANGED <<pending, event, raw, mounted, locked, card, medium, seen,
                   program, history>>

(* Somebody was faster: the same return is under way, or it is refused.    *)
RequestLate ==
    /\ owner # "UsbHost"
    /\ Go("request", IF owner = "Transition" /\ pending = seen
                       THEN "poll" ELSE "idle")
    /\ UNCHANGED <<ownership, raw, mounted, locked, card, medium, seen,
                   program, history>>

StoreReturn ==
    /\ Go("store", "poll")
    /\ pending' = seen
    /\ UNCHANGED <<owner, event, raw, mounted, locked, card, medium, seen,
                   program, history>>

-----------------------------------------------------------------------------
(* service_background: storage::poll, then take_usb_event.                 *)
Service ==
    /\ Go("idle", "poll")
    /\ UNCHANGED <<ownership, raw, mounted, locked, card, medium, seen,
                   program, history>>

PollOwner ==
    /\ seen' = owner
    /\ Go("poll", IF owner = "UsbHost" /\ ~card THEN "gone" ELSE "poll2")
    /\ UNCHANGED <<ownership, raw, mounted, locked, card, medium, program,
                   history>>

(* The three stores of poll() for a removed card.                          *)
PollGone ==
    /\ Go("gone", "gone2")
    /\ owner' = "Unavailable"
    /\ UNCHANGED <<pending, event, raw, mounted, locked, card, medium, seen,
                   program, history>>

PollGonePending ==
    /\ Go("gone2", "lost")
    /\ pending' = "None"
    /\ UNCHANGED <<owner, event, raw, mounted, locked, card, medium, seen,
                   program, history>>

PollLost(why) ==
    /\ Go(IF why = "CardRemoved" THEN "lost" ELSE "broken", "take")
    /\ event' = why
    /\ UNCHANGED <<owner, pending, raw, mounted, locked, card, medium, seen,
                   program, history>>

(* Wrong: a forced return is never finished.                               *)
PollSafeOnly ==
    /\ Go("poll2", IF seen = "Transition" /\ pending = "SafeEject"
                     THEN "poll3" ELSE "take")
    /\ UNCHANGED <<ownership, raw, mounted, locked, card, medium, seen,
                   program, history>>

PollPending ==
    /\ Go("poll2", IF seen = "Transition" /\ pending \in ReturnKind
                     THEN "poll3" ELSE "take")
    /\ UNCHANGED <<ownership, raw, mounted, locked, card, medium, seen,
                   program, history>>

(* Wrong: a request in the driver is not waited for.                       *)
PollImpatient ==
    /\ Go("poll3", "claim")
    /\ UNCHANGED <<ownership, raw, mounted, locked, card, medium, seen,
                   program, history>>

PollRaw ==
    /\ Go("poll3", IF RawActive THEN "take" ELSE "claim")
    /\ UNCHANGED <<ownership, raw, mounted, locked, card, medium, seen,
                   program, history>>

PollClaims ==
    /\ Go("claim", "finish")
    /\ pending' = "None"
    /\ UNCHANGED <<owner, event, raw, mounted, locked, card, medium, seen,
                   program, history>>

FinishFails ==
    /\ Go("finish", IF card THEN "broken" ELSE "lost")
    /\ owner' = "Unavailable"
    /\ UNCHANGED <<pending, event, raw, mounted, locked, card, medium, seen,
                   program, history>>

FinishMounts ==
    /\ Go("finish", "own")
    /\ card
    /\ mounted' = TRUE
    /\ UNCHANGED <<ownership, raw, locked, card, medium, seen, program,
                   history>>

TakeOwnership ==
    /\ Go("own", "tell")
    /\ owner' = "Firmware"
    /\ UNCHANGED <<pending, event, raw, mounted, locked, card, medium, seen,
                   program, history>>

TellReturned ==
    /\ Go("tell", "take")
    /\ event' = "ReturnedToFirmware"
    /\ UNCHANGED <<owner, pending, raw, mounted, locked, card, medium, seen,
                   program, history>>

(* Wrong: the medium is not withdrawn.                                     *)
TakeEventShowing ==
    /\ Go("take", "idle")
    /\ event' = "None"
    /\ program' = IF event = "ReturnedToFirmware" /\ program = "suspended"
                  THEN "closed" ELSE program
    /\ UNCHANGED <<owner, pending, raw, mounted, locked, card, medium, seen,
                   history>>

(* The event is taken out of the mailbox and acted on: resume_after_usb    *)
(* reads the whole program again, or leaves the store suspended.           *)
TakeEvent ==
    /\ Go("take", "idle")
    /\ event' = "None"
    /\ present' = (present /\ event = "None")
    /\ IF event = "ReturnedToFirmware" /\ program \in {"suspended", "closed"}
       THEN \/ /\ owner = "Firmware" /\ mounted /\ card /\ ~locked
               /\ program' = "open" /\ stale' = FALSE
            \/ program' = "closed" /\ UNCHANGED stale
       ELSE UNCHANGED <<program, stale>>
    /\ UNCHANGED <<owner, pending, raw, mounted, locked, card, ejected,
                   connected, seen, hostDone>>

-----------------------------------------------------------------------------
(* USB STORAGE / Return from Unavailable: recover_firmware_ownership, then *)
(* service_background, whose poll() finds nothing to do.                   *)
Recover ==
    /\ Go("idle", "recover")
    /\ owner = "Unavailable" /\ owner' = "Transition"
    /\ UNCHANGED <<pending, event, raw, mounted, locked, card, medium, seen,
                   program, history>>

RecoverRaw ==
    /\ Go("recover", "remount")
    /\ ~RawActive
    /\ UNCHANGED <<ownership, raw, mounted, locked, card, medium, seen,
                   program, history>>

RecoverRefused ==
    /\ pc' = "idle"
    /\ pc = "remount" \/ (pc = "recover" /\ RawActive)
    /\ owner' = "Unavailable"
    /\ UNCHANGED <<pending, event, raw, mounted, locked, card, medium, seen,
                   program, history>>

RecoverMounts ==
    /\ Go("remount", "forget")
    /\ card
    /\ mounted' = TRUE
    /\ UNCHANGED <<ownership, raw, locked, card, medium, seen, program,
                   history>>

RecoverForgets ==
    /\ Go("forget", "own")
    /\ pending' = "None"
    /\ UNCHANGED <<owner, event, raw, mounted, locked, card, medium, seen,
                   program, history>>

-----------------------------------------------------------------------------
(* The rest of the foreground: init and remount, the lease that transfers, *)
(* audio and the program store take, the storage menu's Resume.            *)
InitCard ==
    /\ pc = "idle" /\ owner = "Firmware" /\ ~locked
    /\ ~mounted /\ card
    /\ mounted' = TRUE
    /\ UNCHANGED <<ownership, raw, locked, card, medium, pc, seen, program,
                   history>>

Remount ==
    /\ pc = "idle" /\ owner = "Firmware" /\ ~locked
    /\ mounted' \in {card, FALSE}
    /\ UNCHANGED <<ownership, raw, locked, card, medium, pc, seen, program,
                   history>>

Resume ==
    /\ pc = "idle" /\ owner = "Firmware" /\ ~locked
    /\ card /\ mounted' = TRUE
    /\ program \in {"suspended", "closed"} /\ program' = "open"
    /\ stale' = FALSE
    /\ UNCHANGED <<ownership, raw, locked, card, medium, pc, seen, hostDone>>

TryLock ==
    /\ pc = "idle" /\ ~locked /\ mounted
    /\ locked' = TRUE
    /\ UNCHANGED <<ownership, raw, mounted, card, medium, pc, seen, program,
                   history>>

Unlock ==
    /\ pc = "idle" /\ locked
    /\ locked' = FALSE
    /\ UNCHANGED <<ownership, raw, mounted, card, medium, pc, seen, program,
                   history>>

-----------------------------------------------------------------------------
(* The USB task.  A request is admitted when there is a medium, counts     *)
(* itself in, looks at the owner, and only then enters the SD driver.      *)
RawStep(r, from, to) == raw[r] = from /\ raw' = [raw EXCEPT ![r] = to]

RawCall(r) ==
    /\ connected /\ present /\ owner = "UsbHost"
    /\ RawStep(r, "idle", "called")
    /\ UNCHANGED <<ownership, mounted, locked, card, medium, pc, seen,
                   program, history>>

RawCount(r) ==
    /\ RawStep(r, "called", "counted")
    /\ UNCHANGED <<ownership, mounted, locked, card, medium, pc, seen,
                   program, history>>

RawCheck(r) ==
    /\ RawStep(r, "counted", IF owner = "UsbHost" THEN "driver" ELSE "failed")
    /\ stale' = (stale \/ (owner = "UsbHost" /\ program # "ram"))
    /\ UNCHANGED <<ownership, mounted, locked, card, medium, pc, seen,
                   program, hostDone>>

RawDone(r) ==
    /\ card
    /\ RawStep(r, "driver", "done")
    /\ UNCHANGED <<ownership, mounted, locked, card, medium, pc, seen,
                   program, history>>

(* The driver reports an error: three stores before it counts itself out.  *)
RawFails(r) ==
    /\ RawStep(r, "driver", "failed")
    /\ owner' = "Unavailable" /\ pending' = "None" /\ event' = "IoError"
    /\ UNCHANGED <<mounted, locked, card, medium, pc, seen, program, history>>

RawExit(r) ==
    /\ raw[r] \in {"done", "failed"}
    /\ raw' = [raw EXCEPT ![r] = "idle"]
    /\ present' = (present /\ raw[r] = "done")
    /\ UNCHANGED <<ownership, mounted, locked, card, ejected, connected, pc,
                   seen, program, history>>

(* START STOP UNIT with eject, whether or not there is a medium.           *)
Eject ==
    /\ connected
    /\ ejected' = TRUE /\ present' = FALSE /\ hostDone' = TRUE
    /\ UNCHANGED <<ownership, raw, mounted, locked, card, connected, pc,
                   seen, program, stale>>

Connect ==
    /\ ~connected
    /\ connected' = TRUE /\ ejected' = FALSE
    /\ UNCHANGED <<ownership, raw, mounted, locked, card, present, pc, seen,
                   program, history>>

(* notify_usb_disconnect, when the host has not ejected.                   *)
NotifyDisconnect ==
    IF pending \notin ReturnKind /\ owner \in {"UsbHost", "Transition"}
    THEN /\ owner' = "Unavailable"
         /\ pending' = "UnsafeDisconnect" /\ event' = "UnsafeDisconnect"
    ELSE UNCHANGED ownership

(* request_usb_safe_return, when it has.                                   *)
ReturnOnDisconnect ==
    IF owner = "UsbHost"
    THEN owner' = "Transition" /\ pending' = "SafeEject" /\ UNCHANGED event
    ELSE UNCHANGED ownership

Disconnect ==
    /\ connected /\ connected' = FALSE
    /\ present' = FALSE
    /\ IF ejected THEN ReturnOnDisconnect ELSE NotifyDisconnect
    /\ UNCHANGED <<raw, mounted, locked, card, ejected, pc, seen, program,
                   history>>

MoveCard ==
    /\ card' = ~card
    /\ UNCHANGED <<ownership, raw, mounted, locked, medium, pc, seen, program,
                   history>>

-----------------------------------------------------------------------------
OwnershipInit ==
    /\ owner = "Firmware" /\ pending = "None" /\ event = "None"
    /\ raw = [r \in Request |-> "idle"]
    /\ card \in BOOLEAN /\ mounted = card /\ locked = FALSE
    /\ present = FALSE /\ ejected = FALSE /\ connected = FALSE
    /\ pc = "idle" /\ seen = "None"
    /\ program \in {"ram", "open"} /\ (program = "open" => card)
    /\ stale = FALSE /\ hostDone = FALSE

(* What the foreground does by itself, without a user's choice.            *)
Continue ==
    \/ BeginClearsPending \/ BeginClearsEvent \/ BeginUnmounts
    \/ UnmountFails \/ MeasureFails \/ BeginHandsOver
    \/ MediaRefused \/ MediaOffered \/ MediaPresent \/ MediaResetsEject
    \/ Withdraw \/ RequestReturn \/ RequestLate \/ StoreReturn
    \/ Service \/ PollOwner \/ PollGone \/ PollGonePending
    \/ \E why \in {"CardRemoved", "IoError"} : PollLost(why)
    \/ PollPending \/ PollRaw \/ PollClaims \/ FinishFails \/ FinishMounts
    \/ TakeOwnership \/ TellReturned \/ TakeEvent
    \/ RecoverRaw \/ RecoverRefused \/ RecoverMounts \/ RecoverForgets

Choose ==
    \/ Enable \/ Recover \/ \E kind \in ReturnKind : AskReturn(kind)
    \/ InitCard \/ Remount \/ Resume \/ TryLock \/ Unlock

Proceed(r) ==
    RawCount(r) \/ RawCheck(r) \/ RawDone(r) \/ RawFails(r) \/ RawExit(r)

Bus == Eject \/ Connect \/ Disconnect \/ MoveCard

OwnershipNext ==
    \/ Continue \/ Choose \/ Bus
    \/ \E r \in Request : RawCall(r) \/ Proceed(r)

OwnershipSpec == OwnershipInit /\ [][OwnershipNext]_cardVars

(* Every wait for a key runs service_background; the SD driver answers or  *)
(* reports an error.                                                       *)
Fairness == WF_cardVars(Continue) /\ \A r \in Request : WF_cardVars(Proceed(r))
FairSpec == OwnershipSpec /\ Fairness

-----------------------------------------------------------------------------
OwnershipTypeOK ==
    /\ owner \in Owner /\ pending \in PendingReturn /\ event \in UsbEvent
    /\ raw \in [Request -> {"idle", "called", "counted", "driver", "done",
                            "failed"}]
    /\ mounted \in BOOLEAN /\ locked \in BOOLEAN /\ card \in BOOLEAN
    /\ present \in BOOLEAN /\ ejected \in BOOLEAN /\ connected \in BOOLEAN
    /\ stale \in BOOLEAN /\ hostDone \in BOOLEAN
    /\ pc \in {"idle", "begin", "clear", "unmount", "measure", "media",
               "offer", "reset", "withdraw", "request", "store", "poll",
               "poll2", "poll3", "gone", "gone2", "lost", "broken", "claim",
               "finish", "own", "tell", "take", "recover", "remount",
               "forget"}
    /\ seen \in Owner \cup ReturnKind \cup {"None"}
    /\ program \in {"ram", "open", "suspended", "closed"}

(* The steps in which the foreground is inside FatFs or the SD driver for  *)
(* a change of ownership.                                                  *)
Mounting == {"unmount", "measure", "finish", "own", "remount", "forget"}

(* The card is exclusive: while any raw request is inside the SD driver,   *)
(* the file system is not mounted and the foreground is not mounting,      *)
(* syncing or measuring (storage.hpp: return processing waits for every    *)
(* raw MSC operation before syncing and remounting).                       *)
CardExclusive ==
    \A r \in Request : raw[r] = "driver" => ~mounted /\ pc \notin Mounting

(* The sole FAT volume is never mounted over itself: fs_mount is reached   *)
(* only with the root unmounted (the comment of mount_firmware_fs, and the *)
(* fake file system of the tests asserts it).                              *)
MountedOnce == pc \in {"measure", "finish", "remount"} => ~mounted

(* The lease outlives the call that took it: as long as a transfer holds   *)
(* it the firmware owns a mounted card, although try_lock itself does not  *)
(* look at the owner.                                                      *)
LeaseSafe == locked => mounted /\ owner = "Firmware"

(* A program index built before the host was let at the card is never used *)
(* again: the store stays suspended until the program is read anew         *)
(* (docs/development/usb-msc-stage2.md).                                   *)
NoStaleIndex == stale => program \in {"suspended", "closed"}

(* No return is lost in the mailbox: whenever the foreground is at rest    *)
(* and owns the card, a resumption of the suspended program was tried.     *)
ReturnResumes == pc = "idle" /\ owner = "Firmware" => program # "suspended"

(* What every state of the hand-over keeps: one user of the card at a      *)
(* time, one mount, leases and indexes that are still good, and no return  *)
(* that was forgotten.                                                     *)
OwnershipSafe ==
    /\ OwnershipTypeOK
    /\ CardExclusive
    /\ MountedOnce
    /\ LeaseSafe
    /\ NoStaleIndex
    /\ ReturnResumes

(* No medium is shown before the host owns the card: when ownership passes *)
(* to the host, nothing of an earlier session is still presented.          *)
NotPresentEarly ==
    [][owner # "UsbHost" /\ owner' = "UsbHost" => ~present']_cardVars

Opening == {"media", "offer", "reset"}

(* Once the medium has been offered, a return that counts as safe follows  *)
(* an eject by the host in this session, never one left from an earlier.   *)
SafeOnceOffered ==
    [][pending' = "SafeEject" /\ pending # "SafeEject" =>
         hostDone \/ pc \in Opening]_cardVars

(* What the flags of the medium tell the host and the firmware belongs to  *)
(* the session in progress, never to the one before.                       *)
MediumSafe == NotPresentEarly /\ SafeOnceOffered

(* A return, a recovery and a hand-over all end: Transition never stays.   *)
TransitionEnds == owner = "Transition" ~> owner # "Transition"

(* A card pulled while the host owns it is noticed.                        *)
RemovalNoticed == owner = "UsbHost" /\ ~card ~> owner # "UsbHost" \/ card

(* The ownership settles: no transition and no host without a card stays.  *)
OwnershipSettles == TransitionEnds /\ RemovalNoticed
=============================================================================

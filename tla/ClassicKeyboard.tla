--------------------------- MODULE ClassicKeyboard ---------------------------
(***************************************************************************)
(* The Bluetooth Classic keyboard (bluetooth_hid_keyboard.cpp): inquiry    *)
(* and names, connecting and pairing, the HID channel and its reports.     *)
(*                                                                         *)
(* As in BleKeyboard the driver is a record, and field link is the radio's *)
(* side, external.  The radio has one HID channel (the pool is one), so a  *)
(* new channel is refused while an old one is still closing.               *)
(***************************************************************************)
EXTENDS HidKeys

CONSTANT
  ClassicKeyboards      \* the Classic keyboards about

ASSUME KeyboardsAssumption == NoDevice \notin ClassicKeyboards

ClassicAtRest ==
  [link |-> "none", peer |-> NoDevice, cid |-> FALSE, connecting |-> FALSE,
   pairing |-> FALSE, deadline |-> FALSE, target |-> NoDevice,
   targetNamed |-> FALSE, connected |-> NoDevice, named |-> FALSE,
   descriptor |-> FALSE, code |-> FALSE, keys |-> KeyboardAtRest,
   scan |-> FALSE, inquiry |-> FALSE, naming |-> NoDevice, found |-> {},
   nameKnown |-> {}, nameTried |-> {}, nameAsked |-> FALSE]

(* clear_target_locked: the deadline becomes zero, a time long past.       *)
ClearTarget(c) ==
  [c EXCEPT !.target = NoDevice, !.targetNamed = FALSE, !.code = FALSE,
            !.deadline = FALSE]

(* hid_host_disconnect, as a request.                                      *)
CloseChannel(c) ==
  [c EXCEPT !.link = IF @ \in {"opening", "up"} THEN "closing" ELSE @]

FinishConnectFailure(c) ==
  LET closed == IF c.cid THEN [CloseChannel(c) EXCEPT !.cid = FALSE] ELSE c
  IN  ClearTarget([closed EXCEPT !.connecting = FALSE, !.pairing = FALSE,
                                 !.descriptor = FALSE])

(* begin_connect_locked after its guard; the stack takes the call or not.  *)
BeginConnect(c, device, pairing, named, accepted) ==
  LET begun == [c EXCEPT !.target = device, !.targetNamed = named,
                  !.connecting = TRUE, !.pairing = pairing,
                  !.descriptor = FALSE, !.code = FALSE, !.deadline = TRUE]
  IN  IF accepted /\ c.link = "none"
      THEN [begun EXCEPT !.cid = TRUE, !.link = "opening", !.peer = device]
      ELSE FinishConnectFailure(begun)

(* busy_locked and scanning_locked.                                        *)
ClassicScanning(c) == c.scan \/ c.inquiry \/ c.naming # NoDevice

ClassicBusy(c) == ClassicScanning(c) \/ c.connecting \/ c.pairing \/ c.cid

(* request_next_name_locked: names are asked for one at a time, each       *)
(* device once per scan; with none left the inquiry starts over while the  *)
(* scan is wanted.                                                         *)
AskNextName(c, refused) ==
  LET untried == c.found \ (c.nameKnown \cup c.nameTried)
      ask == untried \ refused
      tried == IF ask = {} THEN untried
               ELSE (untried \cap refused) \cup {CHOOSE d \in ask : TRUE}
      left == [c EXCEPT !.naming = NoDevice, !.nameTried = @ \cup tried]
  IN  IF ask # {}
      THEN [left EXCEPT !.naming = CHOOSE d \in ask : TRUE, !.nameAsked = TRUE]
      ELSE [left EXCEPT !.inquiry = @ \/ c.scan]

ScanBegun(c) ==
  IF ClassicScanning(c) THEN c
  ELSE [c EXCEPT !.found = {}, !.nameKnown = {}, !.nameTried = {},
                 !.naming = NoDevice, !.scan = TRUE, !.inquiry = TRUE]

ScanCancelled(c) ==
  [c EXCEPT !.scan = FALSE, !.inquiry = FALSE, !.naming = NoDevice]

InquiryResult(c, device, named, room) ==
  IF ~c.inquiry \/ (device \notin c.found /\ ~room) THEN c
  ELSE [c EXCEPT !.found = @ \cup {device},
                 !.nameKnown = IF named THEN @ \cup {device} ELSE @]

InquiryComplete(c, refused) ==
  IF c.inquiry THEN AskNextName([c EXCEPT !.inquiry = FALSE], refused) ELSE c

(* A name arrives: for the row that waits for one, or for the connected    *)
(* keyboard that has none yet (then it is remembered with its name).       *)
NameArrived(c, device, ok, refused) ==
  LET answered == [c EXCEPT !.nameAsked = FALSE]
  IN  IF c.naming # NoDevice
      THEN AskNextName([answered EXCEPT
             !.nameKnown = IF ok /\ c.naming = device THEN @ \cup {device} ELSE @],
             refused)
      ELSE [answered EXCEPT !.named = @ \/ (ok /\ c.connected = device)]

(* Authentication counts only for the keyboard being connected.            *)
AuthenticationTarget(c, device) ==
  c.target # NoDevice /\ (c.pairing \/ c.connecting) /\ c.target = device

CodeShown(c, device) ==
  IF AuthenticationTarget(c, device) THEN [c EXCEPT !.code = TRUE] ELSE c

AuthenticationComplete(c, ok) ==
  IF c.pairing /\ c.target # NoDevice /\ ~ok THEN FinishConnectFailure(c) ELSE c

(* A trusted keyboard calls in: it is taken unless a channel exists.  The  *)
(* deadline is not set, so what the last attempt left behind still stands. *)
IncomingAccepted(c, device, named) ==
  [c EXCEPT !.target = device, !.connecting = TRUE, !.cid = TRUE,
            !.targetNamed = @ \/ named, !.link = "opening", !.peer = device]

(* The HID channel opened or failed to, got its descriptor, closed.        *)
ChannelOpened(c, ok) ==
  IF ~ok THEN FinishConnectFailure([c EXCEPT !.link = "none"])
  ELSE ClearTarget([c EXCEPT !.link = "up", !.cid = TRUE, !.connected = c.peer,
         !.connecting = FALSE, !.pairing = FALSE, !.descriptor = FALSE,
         !.named = c.targetNamed, !.nameAsked = @ \/ ~c.targetNamed])

DescriptorAvailable(c, ok) == [c EXCEPT !.descriptor = ok]

ClassicReport(c, usages) ==
  IF c.descriptor THEN [c EXCEPT !.keys = KeyReport(@, FALSE, FALSE, usages)] ELSE c

(* Wrong: the keys held when the link went stay held.                      *)
ChannelClosedKeysHeld(c) ==
  [c EXCEPT !.link = "none", !.cid = FALSE, !.descriptor = FALSE,
     !.connecting = FALSE, !.pairing = FALSE, !.connected = NoDevice,
     !.named = FALSE]

ChannelClosed(c) ==
  [c EXCEPT !.link = "none", !.cid = FALSE, !.descriptor = FALSE,
     !.connecting = FALSE, !.pairing = FALSE, !.connected = NoDevice,
     !.named = FALSE, !.keys = KeysReset(@)]

ClassicReset(c) ==
  ClearTarget([c EXCEPT !.inquiry = FALSE, !.scan = FALSE, !.naming = NoDevice,
     !.connecting = FALSE, !.pairing = FALSE, !.cid = FALSE,
     !.descriptor = FALSE, !.connected = NoDevice, !.named = FALSE,
     !.keys = KeysReset(@)])

ClassicEnabled(c) == ClassicReset(c)

(* Off: the radio is powered down with it.                                 *)
ClassicDisabled(c) ==
  [ClassicReset(c) EXCEPT !.link = "none", !.nameAsked = FALSE]

(* connected_to_locked, and disconnect_address_locked for one keyboard or  *)
(* for whichever it is: the channel is asked to close and is still held.   *)
ConnectedTo(c, device) == c.cid /\ c.connected = device

DisconnectAddress(c, device) ==
  IF c.cid /\ (device = NoDevice \/ ConnectedTo(c, device))
  THEN CloseChannel(c) ELSE c

(* service_locked: late says whether an armed deadline has passed; one     *)
(* that is zero has.                                                       *)
ClassicServiced(c, late) ==
  IF c.connecting /\ (late \/ ~c.deadline) THEN FinishConnectFailure(c) ELSE c
=============================================================================

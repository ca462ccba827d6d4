----------------------------- MODULE BleKeyboard -----------------------------
(***************************************************************************)
(* The BLE keyboard (bluetooth_hid_ble_keyboard.cpp): from a scan through  *)
(* connecting, pairing and the discovery of the HID service to reports,    *)
(* with Report Protocol tried first and Boot Protocol behind it.           *)
(*                                                                         *)
(* The driver is a record and each of its functions an operator on it.     *)
(* Field link is the radio's side of the same connection, external: what   *)
(* gap_connect, gap_connect_cancel and gap_disconnect have asked of it.    *)
(* The one timer is field deadline, armed or not; when it has run out is   *)
(* left to the environment.                                                *)
(***************************************************************************)
EXTENDS HidKeys

CONSTANTS
  LeKeyboards,     \* the BLE keyboards about
  MaxFound         \* kMaxDiscoveredDevices

(* Wrong: a connection that waits to switch protocols has no deadline.     *)
ConnectActiveUntilSwitch ==
  {"Connecting", "Pairing", "DiscoveringReports", "DiscoveringService",
   "DiscoveringCharacteristics", "EnablingNotifications"}

ConnectActive ==
  {"Connecting", "Pairing", "DiscoveringReports", "DiscoveringService",
   "DiscoveringCharacteristics", "EnablingNotifications", "SwitchingProtocol"}

BleStates ==
  ConnectActive \cup {"Off", "Idle", "Scanning", "CancellingConnect", "Ready",
                      "Disconnecting"}

BleAtRest ==
  [state |-> "Off", handle |-> FALSE, link |-> "none", target |-> NoDevice,
   identity |-> NoDevice, hids |-> FALSE, reportMode |-> FALSE,
   fallback |-> FALSE, service |-> FALSE, input |-> FALSE, protocol |-> FALSE,
   listening |-> FALSE, query |-> "none", deadline |-> FALSE, code |-> FALSE,
   keys |-> KeyboardAtRest, found |-> <<>>, seen |-> {}, full |-> FALSE]

ClearGatt(b) ==
  [b EXCEPT !.listening = FALSE, !.fallback = FALSE, !.service = FALSE,
            !.input = FALSE, !.protocol = FALSE]

(* reset_connection_state; the radio drops its queries with the link.      *)
ResetConnection(b) ==
  [ClearGatt(b) EXCEPT !.hids = FALSE, !.reportMode = FALSE,
     !.identity = NoDevice, !.handle = FALSE, !.deadline = FALSE,
     !.code = FALSE, !.query = "none", !.keys = KeysReset(@)]

(* gap_disconnect and gap_connect_cancel, as requests to the radio.        *)
HangUp(b) == [b EXCEPT !.link = IF @ = "up" THEN "closing" ELSE @]
CancelCall(b) == [b EXCEPT !.link = IF @ = "calling" THEN "cancelling" ELSE @]

FailConnection(b) ==
  LET r == [b EXCEPT !.keys = KeysReset(@), !.code = FALSE]
  IN  IF b.handle
      THEN HangUp([ClearGatt(r) EXCEPT !.query = "none", !.state = "Disconnecting"])
      ELSE IF b.state = "Connecting"
      THEN CancelCall([r EXCEPT !.state = "CancellingConnect"])
      ELSE [r EXCEPT !.state = "Idle"]

MarkReady(b) ==
  [b EXCEPT !.state = "Ready", !.deadline = FALSE, !.code = FALSE,
            !.identity = b.target]

(* request_gatt_query: queued, or refused at once.                         *)
RequestQuery(b, accepted) ==
  IF accepted THEN [b EXCEPT !.query = "queued"] ELSE FailConnection(b)

BeginBootDiscovery(b, accepted) ==
  RequestQuery([ClearGatt(b) EXCEPT !.state = "DiscoveringService"], accepted)

BeginHidDiscovery(b, accepted) ==
  LET d == [ClearGatt(b) EXCEPT !.state = "DiscoveringReports"]
  IN  IF accepted THEN [d EXCEPT !.hids = TRUE]
      ELSE FailConnection([d EXCEPT !.hids = FALSE])

IdleOrOff(b, enabled) == [b EXCEPT !.state = IF enabled THEN "Idle" ELSE "Off"]

-----------------------------------------------------------------------------
(* What the radio reports.                                                 *)

(* Wrong: a call that succeeds after it was cancelled is forgotten.        *)
LeCompletionForgotten(b, ok, enabled) ==
  LET on == [b EXCEPT !.link = IF ok THEN "up" ELSE "none"]
  IN  IF b.state = "Connecting" /\ ok
      THEN [on EXCEPT !.handle = TRUE, !.state = "Pairing"]
      ELSE IdleOrOff(ResetConnection(on), enabled)

(* LE connection complete.  A call that succeeds while it is being         *)
(* cancelled is hung up again; a state that waits for no call ignores it.  *)
LeConnectionComplete(b, ok, enabled) ==
  LET on == [b EXCEPT !.link = IF ok THEN "up" ELSE "none"]
  IN  CASE b.state = "CancellingConnect" /\ ok ->
             HangUp([on EXCEPT !.handle = TRUE, !.state = "Disconnecting"])
        [] b.state \in {"CancellingConnect", "Connecting"} /\ ~ok ->
             IdleOrOff(ResetConnection(on), enabled)
        [] b.state = "Connecting" /\ ok ->
             [on EXCEPT !.handle = TRUE, !.state = "Pairing"]
        [] OTHER -> on

LeDisconnectionComplete(b, enabled) ==
  LET off == [b EXCEPT !.link = "none"]
  IN  IF b.handle THEN IdleOrOff(ResetConnection(off), enabled) ELSE off

(* Security manager events, all of them for the handle the driver holds    *)
(* and only in Pairing.  A passkey to type starts a window of its own.     *)
PasskeyShown(b, waitsForTyping) ==
  [b EXCEPT !.code = TRUE, !.deadline = @ \/ waitsForTyping]

PairingEnded(b, ok, accepted) ==
  IF ok THEN BeginHidDiscovery(b, accepted) ELSE FailConnection(b)

(* The HIDS client found a report map or not: without a keyboard in it the *)
(* fallback is left to the next service call.                              *)
HidsConnected(b, ok, keyboardFound) ==
  IF ~b.hids \/ b.state # "DiscoveringReports" THEN b
  ELSE IF ~ok THEN [b EXCEPT !.hids = FALSE, !.fallback = TRUE]
  ELSE IF ~keyboardFound THEN [b EXCEPT !.fallback = TRUE]
  ELSE MarkReady([b EXCEPT !.reportMode = TRUE])

HidsDisconnected(b) == [b EXCEPT !.hids = FALSE]

(* handle_report_protocol and handle_boot_report: reports count only when  *)
(* the keyboard is Ready, and in the protocol that is spoken.              *)
BleReport(b, usages) ==
  IF b.state = "Ready" /\ ((b.reportMode /\ b.hids) \/ (~b.reportMode /\ b.listening))
  THEN [b EXCEPT !.keys = KeyReport(@, FALSE, FALSE, usages)]
  ELSE b

(* The stack takes the queued query (send_next_query_with_handler,         *)
(* send_boot_protocol).                                                    *)
QueryTaken(b, accepted) ==
  LET taken == [b EXCEPT !.query = "none"]
  IN  IF ~accepted THEN FailConnection(taken)
      ELSE IF b.state = "SwitchingProtocol" THEN MarkReady(taken)
      ELSE [b EXCEPT !.query = "sent"]

(* handle_gatt_event: results, then the completion of the query.           *)
QueryResult(b, what) ==
  CASE b.state = "DiscoveringService" /\ what = "service" -> [b EXCEPT !.service = TRUE]
    [] b.state = "DiscoveringCharacteristics" /\ what = "input" -> [b EXCEPT !.input = TRUE]
    [] b.state = "DiscoveringCharacteristics" /\ what = "protocol" ->
         [b EXCEPT !.protocol = TRUE]
    [] OTHER -> b

QueryComplete(b, ok, accepted) ==
  LET done == [b EXCEPT !.query = "none"]
  IN  CASE b.state = "DiscoveringService" ->
             IF ok /\ b.service
             THEN RequestQuery([done EXCEPT !.state = "DiscoveringCharacteristics"], accepted)
             ELSE FailConnection(done)
        [] b.state = "DiscoveringCharacteristics" ->
             IF ok /\ b.input
             THEN RequestQuery([done EXCEPT !.state = "EnablingNotifications"], accepted)
             ELSE FailConnection(done)
        [] b.state = "EnablingNotifications" ->
             IF ~ok THEN FailConnection(done)
             ELSE LET listening == [done EXCEPT !.listening = TRUE]
                  IN  IF b.protocol
                      THEN RequestQuery([listening EXCEPT !.state = "SwitchingProtocol"], accepted)
                      ELSE MarkReady(listening)
        [] OTHER -> done

(* handle_advertisement: a keyboard heard takes the place of something     *)
(* that is none when the table is full.  An entry is [device, hint].       *)
Advertised(b, device, hint) ==
  LET index == SelectInSeq(b.found, LAMBDA e : e.device = device)
      other == SelectInSeq(b.found, LAMBDA e : ~e.hint)
      fresh == [device |-> device, hint |-> hint]
  IN  IF index # 0
      THEN [b EXCEPT !.found[index].hint = @ \/ hint, !.seen = @ \cup {index}]
      ELSE IF Len(b.found) < MaxFound
      THEN [b EXCEPT !.found = Append(@, fresh), !.seen = @ \cup {Len(b.found) + 1}]
      ELSE IF ~hint THEN b
      ELSE IF other = 0 THEN [b EXCEPT !.full = TRUE]
      ELSE [b EXCEPT !.found[other] = fresh, !.seen = @ \cup {other}]

-----------------------------------------------------------------------------
(* What the program asks.                                                  *)
BleEnabled(b) ==
  ResetConnection([b EXCEPT !.state = "Idle", !.found = <<>>, !.full = FALSE])

(* Off: the radio is powered down with it, so no link survives.            *)
BleDisabled(b) ==
  [ResetConnection([b EXCEPT !.state = "Off", !.found = <<>>, !.full = FALSE])
     EXCEPT !.link = "none"]

BleBusy(b) ==
  \/ b.state \in ConnectActive \cup {"Scanning", "CancellingConnect", "Ready",
                                     "Disconnecting"}
  \/ b.handle

(* Wrong: the rows of the last scan are still shown.                       *)
ScanStartedOnOldRows(b) == [b EXCEPT !.state = "Scanning", !.full = FALSE]

(* prepare_discovery_session keeps what is known to be a keyboard, moved   *)
(* up in order and unseen.                                                 *)
KnownKeyboards(found) ==
  LET kept[i \in 0..Len(found)] ==
        IF i = 0 THEN <<>>
        ELSE IF found[i].hint THEN Append(kept[i - 1], found[i]) ELSE kept[i - 1]
  IN  kept[Len(found)]

ScanStarted(b) ==
  [b EXCEPT !.state = "Scanning", !.seen = {}, !.full = FALSE,
            !.found = KnownKeyboards(@)]

ScanStopped(b) == IF b.state = "Scanning" THEN [b EXCEPT !.state = "Idle"] ELSE b

(* The rows the list shows.                                                *)
ShownDevices(b) ==
  {b.found[i].device : i \in {j \in b.seen : b.found[j].hint}}

(* connect_keyboard_impl once its guard has passed; a call the radio       *)
(* refuses leaves the state where it was.                                  *)
ConnectAsked(b, device, accepted) ==
  LET asked == [ClearGatt(b) EXCEPT !.target = device, !.code = FALSE,
                  !.reportMode = FALSE, !.hids = FALSE, !.keys = KeysReset(@),
                  !.deadline = TRUE]
  IN  IF accepted THEN [asked EXCEPT !.state = "Connecting", !.link = "calling"]
      ELSE asked

ConnectCancelled(b) ==
  IF b.state = "Connecting"
  THEN CancelCall([b EXCEPT !.state = "CancellingConnect"])
  ELSE IF b.state \in ConnectActive THEN FailConnection(b) ELSE b

Disconnect(b) ==
  LET quiet == ScanStopped(b)
      called == IF quiet.state = "Connecting"
                THEN CancelCall([quiet EXCEPT !.state = "CancellingConnect"])
                ELSE quiet
      closed == IF called.handle /\ called.state # "Disconnecting"
                THEN HangUp([ClearGatt(called) EXCEPT
                               !.query = "none", !.state = "Disconnecting"])
                ELSE called
  IN  [closed EXCEPT !.keys = KeysReset(@)]

(* service_locked: the fallback to Boot Protocol, then the deadline.       *)
BleServiced(b, late, accepted) ==
  LET fell == IF b.fallback /\ b.state = "DiscoveringReports"
              THEN BeginBootDiscovery([b EXCEPT !.hids = FALSE, !.reportMode = FALSE],
                                      accepted)
              ELSE b
  IN  IF fell.state \in ConnectActive /\ late THEN FailConnection(fell) ELSE fell
=============================================================================

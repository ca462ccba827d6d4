-------------------------- MODULE BluetoothKeyboards --------------------------
(***************************************************************************)
(* bluetooth_manager.cpp and the two keyboards under it, with the radio    *)
(* they share, the pairing keys and the registry.  Every public call and   *)
(* every event of the stack runs under the one lock of the background      *)
(* context, so each is a step.                                             *)
(*                                                                         *)
(* The radio is external.  It has one connection to give                   *)
(* (MAX_NR_HCI_CONNECTIONS), answers every call and every hang-up once,    *)
(* and may drop a link whenever it likes.                                  *)
(***************************************************************************)
EXTENDS Naturals, SequencesExt, BleKeyboard, ClassicKeyboard

CONSTANT RegistrySlots      \* DeviceRegistryCore::kCapacity

-----------------------------------------------------------------------------
(* The registry of paired keyboards (bluetooth_device_registry.cpp) and    *)
(* its copy in flash (bluetooth_device_registry_storage.cpp).  Every call  *)
(* loads the table, works on it and stores it again with its free slots    *)
(* squeezed out, so a table is a sequence of records; a record is keyed by *)
(* address and transport.  Names are left out but for being there or not.  *)

NoRegistry == <<>>

IndexOfDevice(table, address) ==
  SelectInSeq(table, LAMBDA record : record.address = address)

(* find / lookup_device: the profile recorded, or none.                    *)
KnownAs(table, address, profile) ==
  \E i \in DOMAIN table :
    table[i].address = address /\ table[i].profile = profile

(* upsert: the record of the address is changed in place, a new one takes  *)
(* a free slot, and a full table refuses it.                               *)
Upserted(table, address, profile, named) ==
  LET i == IndexOfDevice(table, address)
  IN  IF i # 0
      THEN [table EXCEPT ![i].profile = profile,
                         ![i].named = @ \/ named]
      ELSE IF Len(table) < RegistrySlots
      THEN Append(table, [address |-> address, profile |-> profile, named |-> named])
      ELSE table

(* remember_device: a record that already says so is not written again.    *)
Remembered(table, address, profile, named) ==
  IF KnownAs(table, address, profile) /\ ~named THEN table
  ELSE Upserted(table, address, profile, named)

(* forget_device: erase, and store what is left.                           *)
Erased(table, address) ==
  SelectSeq(table, LAMBDA record : record.address # address)

-----------------------------------------------------------------------------
VARIABLES
  hci,           \* power of the stack: off, starting, working
  ble,           \* bluetooth_hid_ble
  classic,       \* bluetooth_hid
  registry,      \* the stored table of paired keyboards
  linkKeys,      \* Classic keyboards with a link key
  bonds,         \* BLE keyboards with a bond
  onAir          \* history: who advertised since the BLE scan began, and
                 \* whether as a keyboard

btVars == <<hci, ble, classic, registry, linkKeys, bonds, onAir>>

BtInit ==
  /\ hci = "off"
  /\ ble = BleAtRest
  /\ classic = ClassicAtRest
  /\ registry = NoRegistry
  /\ linkKeys = {} /\ bonds = {}
  /\ onAir = {}

BluetoothEnabled == hci # "off"
RadioFree == ble.link = "none" /\ classic.link = "none"

(* What becoming Ready or being opened writes to the registry: a BLE       *)
(* keyboard only when its bond was saved.                                  *)
RegistryAfter(b, c) ==
  LET withBle == IF b.state = "Ready" /\ ble.state # "Ready" /\ b.target \in bonds
                 THEN Remembered(registry, b.target, "BleKeyboard", FALSE)
                 ELSE registry
  IN  IF c.connected # NoDevice /\ (classic.connected = NoDevice \/ c.named # classic.named)
      THEN Remembered(withBle, c.connected, "HidKeyboard", c.named)
      ELSE withBle

(* A step of one driver and nothing else of the manager's.                 *)
BleStep(b) ==
  /\ ble' = b
  /\ registry' = RegistryAfter(b, classic)
  /\ UNCHANGED <<hci, classic, linkKeys, bonds, onAir>>

ClassicStep(c) ==
  /\ classic' = c
  /\ registry' = RegistryAfter(ble, c)
  /\ UNCHANGED <<hci, ble, linkKeys, bonds, onAir>>

-----------------------------------------------------------------------------
(* The manager.                                                            *)
Enable ==
  /\ hci = "off"
  /\ hci' = "starting"
  /\ ble' = BleEnabled(ble)
  /\ classic' = ClassicEnabled(classic)
  /\ UNCHANGED <<registry, linkKeys, bonds, onAir>>

Disable ==
  /\ BluetoothEnabled
  /\ hci' = "off"
  /\ ble' = BleDisabled(ble)
  /\ classic' = ClassicDisabled(classic)
  /\ UNCHANGED <<registry, linkKeys, bonds, onAir>>

(* try_auto_reconnect_locked: the first keyboard with a link key and a     *)
(* record is called, unless something is under way.                        *)
Reconnectable == {d \in linkKeys : KnownAs(registry, d, "HidKeyboard")}

MayConnectClassic == ~classic.cid /\ ~classic.connecting /\ ~BleBusy(ble)

AutoReconnected(c, accepted) ==
  IF c.cid \/ c.connecting \/ Reconnectable = {} \/ BleBusy(ble) THEN c
  ELSE BeginConnect(c, CHOOSE d \in Reconnectable : TRUE, FALSE, TRUE,
                    accepted /\ RadioFree)

StackWorking ==
  /\ hci = "starting"
  /\ hci' = "working"
  /\ \E accepted \in BOOLEAN : classic' = AutoReconnected(classic, accepted)
  /\ UNCHANGED <<ble, registry, linkKeys, bonds, onAir>>

(* service(), with a deadline that has passed or not.                      *)
Service(late) ==
  \E accepted \in BOOLEAN :
    /\ BluetoothEnabled
    /\ classic' = ClassicServiced(classic, late)
    /\ ble' = BleServiced(ble, late, accepted)
    /\ registry' = registry
    /\ UNCHANGED <<hci, linkKeys, bonds, onAir>>

ServiceInTime == Service(FALSE)
ServiceLate == Service(TRUE)

(* forget_paired_device, forget_paired_keyboard, forget_paired_devices.    *)
ForgetClassic(d) ==
  /\ BluetoothEnabled
  /\ KnownAs(registry, d, "HidKeyboard")
  /\ classic' = DisconnectAddress(classic, d)
  /\ linkKeys' = linkKeys \ {d}
  /\ registry' = Erased(registry, d)
  /\ UNCHANGED <<hci, ble, bonds, onAir>>

ForgetBle(d) ==
  /\ BluetoothEnabled
  /\ d \in bonds
  /\ ble' = IF ble.state = "Ready" /\ ble.identity = d THEN Disconnect(ble) ELSE ble
  /\ bonds' = bonds \ {d}
  /\ registry' = Erased(registry, d)
  /\ UNCHANGED <<hci, classic, linkKeys, onAir>>

ForgetAll ==
  /\ BluetoothEnabled
  /\ classic' = DisconnectAddress(classic, NoDevice)
  /\ ble' = Disconnect(ble)
  /\ linkKeys' = {} /\ bonds' = {} /\ registry' = NoRegistry
  /\ UNCHANGED <<hci, onAir>>

-----------------------------------------------------------------------------
(* The BLE keyboard's calls and events.                                    *)
BleScan ==
  /\ hci = "working" /\ ~BleBusy(ble)
  /\ ClassicBusy(classic) => ClassicScanning(classic)
  /\ ble' = ScanStarted(ble)
  /\ onAir' = {}
  /\ UNCHANGED <<hci, classic, registry, linkKeys, bonds>>

BleStopScan ==
  /\ ble.state = "Scanning"
  /\ BleStep(ScanStopped(ble))

BleHears(d, hint) ==
  /\ ble.state = "Scanning"
  /\ ble' = Advertised(ble, d, hint)
  /\ onAir' = onAir \cup {<<d, hint>>}
  /\ UNCHANGED <<hci, classic, registry, linkKeys, bonds>>

(* A fresh pairing drops the bond it replaces first.                       *)
BleConnect(d, fresh) ==
  /\ hci = "working" /\ ~BleBusy(ble) /\ ~ClassicBusy(classic)
  /\ fresh \/ d \in bonds
  /\ \E accepted \in BOOLEAN :
       ble' = ConnectAsked(ble, d, accepted /\ RadioFree)
  /\ bonds' = IF fresh THEN bonds \ {d} ELSE bonds
  /\ UNCHANGED <<hci, classic, registry, linkKeys, onAir>>

BleCancelConnect ==
  /\ ble.state \in ConnectActive
  /\ BleStep(ConnectCancelled(ble))

BleDisconnect ==
  /\ ble.handle \/ ble.state = "Connecting"
  /\ BleStep(Disconnect(ble))

BleCallAnswered ==
  /\ ble.link \in {"calling", "cancelling"}
  /\ \E ok \in BOOLEAN : BleStep(LeConnectionComplete(ble, ok, BluetoothEnabled))

(* Of the answers, the one to gap_connect_cancel.                          *)
BleCancelAnswered == ble.link = "cancelling" /\ BleCallAnswered

BleLinkEnds ==
  /\ ble.link = "closing"
  /\ BleStep(LeDisconnectionComplete(ble, BluetoothEnabled))

BleLinkDrops ==
  /\ ble.link = "up"
  /\ BleStep(LeDisconnectionComplete(ble, BluetoothEnabled))

BleShowsCode ==
  /\ ble.state = "Pairing" /\ ~ble.code
  /\ \E typed \in BOOLEAN : BleStep(PasskeyShown(ble, typed))

(* A pairing leaves a bond; encryption of a known link uses the one there. *)
BlePairingEnds ==
  /\ ble.state = "Pairing"
  /\ \E ok \in BOOLEAN, accepted \in BOOLEAN :
       /\ ble' = PairingEnded(ble, ok, accepted)
       /\ bonds' = IF ok THEN bonds \cup {ble.target} ELSE bonds
  /\ UNCHANGED <<hci, classic, registry, linkKeys, onAir>>

BleHidsAnswers ==
  /\ ble.hids /\ ble.state = "DiscoveringReports" /\ ~ble.fallback
  /\ \E ok \in BOOLEAN, keyboardFound \in BOOLEAN :
       BleStep(HidsConnected(ble, ok, keyboardFound))

BleHidsLost ==
  /\ ble.hids
  /\ BleStep(HidsDisconnected(ble))

BleReports ==
  /\ ble.state = "Ready"
  /\ \E usages \in {<<>>, <<"letter">>, <<"enter", "cursor">>} :
       BleStep(BleReport(ble, usages))

BleQueryTaken ==
  /\ ble.query = "queued"
  /\ \E accepted \in BOOLEAN : BleStep(QueryTaken(ble, accepted))

BleQueryResult ==
  /\ ble.query = "sent"
  /\ \E what \in {"service", "input", "protocol"} : BleStep(QueryResult(ble, what))

BleQueryCompletes ==
  /\ ble.query = "sent"
  /\ \E ok \in BOOLEAN, accepted \in BOOLEAN : BleStep(QueryComplete(ble, ok, accepted))

-----------------------------------------------------------------------------
(* The Classic keyboard's calls and events.                                *)
ClassicScan ==
  /\ hci = "working" /\ ~classic.cid /\ ~classic.connecting
  /\ BleBusy(ble) => ble.state = "Scanning"
  /\ ClassicStep(ScanBegun(classic))

ClassicStopScan ==
  /\ ClassicScanning(classic)
  /\ ClassicStep(ScanCancelled(classic))

ClassicFinds(d) ==
  /\ classic.inquiry
  /\ \E named \in BOOLEAN : ClassicStep(InquiryResult(classic, d, named, TRUE))

ClassicInquiryEnds ==
  /\ classic.inquiry
  /\ \E refused \in SUBSET classic.found : ClassicStep(InquiryComplete(classic, refused))

ClassicNameArrives(d) ==
  /\ classic.nameAsked
  /\ classic.naming \in {NoDevice, d}
  /\ \E ok \in BOOLEAN, refused \in SUBSET classic.found :
       ClassicStep(NameArrived(classic, d, ok, refused))

(* From the list (a new pairing) or from Paired Devices (one that is known). *)
ClassicConnect(d, pairing) ==
  /\ BluetoothEnabled /\ MayConnectClassic
  /\ pairing \/ KnownAs(registry, d, "HidKeyboard")
  /\ \E accepted \in BOOLEAN :
       ClassicStep(BeginConnect(classic, d, pairing, ~pairing \/ d \in classic.nameKnown,
                                accepted /\ RadioFree))

ClassicCancelConnect ==
  /\ classic.connecting \/ classic.cid
  /\ ClassicStep(FinishConnectFailure(classic))

ClassicDisconnect ==
  /\ classic.cid
  /\ ClassicStep(DisconnectAddress(classic, NoDevice))

ClassicShowsCode(d) ==
  /\ AuthenticationTarget(classic, d)
  /\ ClassicStep(CodeShown(classic, d))

ClassicAuthenticates ==
  /\ classic.link = "opening" /\ classic.pairing
  /\ \E ok \in BOOLEAN : ClassicStep(AuthenticationComplete(classic, ok))

(* The link key of a pairing is saved, and the keyboard with it.           *)
ClassicLinkKey(d) ==
  /\ classic.link = "opening" /\ classic.peer = d
  /\ linkKeys' = linkKeys \cup {d}
  /\ registry' = IF AuthenticationTarget(classic, d)
                 THEN Remembered(registry, d, "HidKeyboard", classic.targetNamed)
                 ELSE registry
  /\ UNCHANGED <<hci, ble, classic, bonds, onAir>>

ClassicCallsIn(d) ==
  /\ hci = "working" /\ RadioFree
  /\ ~classic.cid
  /\ KnownAs(registry, d, "HidKeyboard")
  /\ ClassicStep(IncomingAccepted(classic, d, TRUE))

ClassicOpens ==
  /\ classic.link = "opening"
  /\ \E ok \in BOOLEAN : ClassicStep(ChannelOpened(classic, ok))

ClassicDescriptor ==
  /\ classic.link = "up" /\ classic.cid
  /\ \E ok \in BOOLEAN : ClassicStep(DescriptorAvailable(classic, ok))

ClassicReports ==
  /\ classic.link = "up"
  /\ \E usages \in {<<>>, <<"letter">>, <<"enter", "cursor">>} :
       ClassicStep(ClassicReport(classic, usages))

ClassicLinkEnds ==
  /\ classic.link = "closing"
  /\ ClassicStep(ChannelClosed(classic))

ClassicLinkDrops ==
  /\ classic.link = "up"
  /\ ClassicStep(ChannelClosed(classic))

(* Both keyboards are read, with a repeat that is due or not.              *)
ReadKeys ==
  \E due \in BOOLEAN :
    /\ classic' = [classic EXCEPT !.keys = KeyTaken(@, due)]
    /\ ble' = [ble EXCEPT !.keys = KeyTaken(@, due)]
    /\ UNCHANGED <<hci, registry, linkKeys, bonds, onAir>>

LinkNext ==
  \/ Enable \/ Disable \/ StackWorking \/ ServiceInTime \/ ServiceLate \/ ForgetAll
  \/ BleCancelConnect \/ BleDisconnect \/ BleCallAnswered \/ BleLinkEnds
  \/ BleLinkDrops \/ BleShowsCode \/ BlePairingEnds \/ BleHidsAnswers
  \/ BleHidsLost \/ BleReports \/ BleQueryTaken \/ BleQueryResult
  \/ BleQueryCompletes
  \/ \E d \in LeKeyboards : ForgetBle(d)
  \/ \E d \in LeKeyboards, fresh \in BOOLEAN : BleConnect(d, fresh)
  \/ ClassicCancelConnect \/ ClassicDisconnect \/ ClassicAuthenticates
  \/ ClassicOpens \/ ClassicDescriptor \/ ClassicReports \/ ClassicLinkEnds
  \/ ClassicLinkDrops
  \/ \E d \in ClassicKeyboards :
       \/ ForgetClassic(d) \/ ClassicNameArrives(d) \/ ClassicShowsCode(d)
       \/ ClassicLinkKey(d) \/ ClassicCallsIn(d)
  \/ \E d \in ClassicKeyboards, pairing \in BOOLEAN : ClassicConnect(d, pairing)
  \/ ReadKeys

ScanNext ==
  \/ Enable \/ Disable \/ StackWorking
  \/ BleScan \/ BleStopScan
  \/ \E d \in LeKeyboards, hint \in BOOLEAN : BleHears(d, hint)
  \/ ClassicScan \/ ClassicStopScan \/ ClassicInquiryEnds
  \/ \E d \in ClassicKeyboards : ClassicFinds(d) \/ ClassicNameArrives(d)

BtNext == LinkNext \/ ScanNext

(* The main loop calls service() for ever and time passes, so a deadline   *)
(* that stays armed is found passed; the radio answers cancels and hang-   *)
(* ups.  A call itself need never be answered.                             *)
BtFairness ==
  /\ WF_btVars(ServiceLate)
  /\ WF_btVars(BleCancelAnswered) /\ WF_btVars(BleLinkEnds) /\ WF_btVars(ClassicLinkEnds)

BtSpec == BtInit /\ [][BtNext]_btVars /\ BtFairness

-----------------------------------------------------------------------------
(* The drivers and the radio never lose each other.  A link that is up or  *)
(* being set up is one the driver still holds, so that it can be closed;   *)
(* and a driver that waits for the radio (connecting, cancelling, hanging  *)
(* up) waits for an answer that will come.                                 *)
LinksTracked ==
  /\ ble.handle <=> ble.link \in {"up", "closing"}
  /\ ble.state = "Connecting" => ble.link = "calling"
  /\ ble.state = "CancellingConnect" => ble.link = "cancelling"
  /\ ble.state = "Disconnecting" => ble.link = "closing"
  /\ ble.link = "calling" => ble.state = "Connecting"
  /\ classic.link \in {"opening", "up"} => classic.cid
  /\ classic.cid => classic.link # "none"
  /\ classic.connecting => classic.cid

(* No key is held, repeated or waiting on a keyboard without a link: a     *)
(* link that is lost in the middle of a key press types nothing more.      *)
NoKeysWithoutLink ==
  /\ ble.keys # KeysReset(ble.keys) => ble.state = "Ready"
  /\ classic.keys # KeysReset(classic.keys) => classic.link # "none"
  /\ \A k \in {ble.keys, classic.keys} : k.repeating # NoUsage => k.repeating \in k.held

(* The live list of keyboards to pair: it shows only what was heard since  *)
(* the scan began, whatever older scans left in the table, and everything  *)
(* heard as a keyboard unless it says that it is full; and the Classic     *)
(* scan goes on (an inquiry, or a name to wait for) for as long as it is   *)
(* wanted.                                                                 *)
ListIsLive ==
  /\ ble.state = "Scanning" =>
       /\ \A d \in ShownDevices(ble) : \E hint \in BOOLEAN : <<d, hint>> \in onAir
       /\ ble.full \/ \A d \in LeKeyboards :
            <<d, TRUE>> \in onAir => d \in ShownDevices(ble)
  /\ classic.scan => classic.inquiry \/ classic.naming # NoDevice

(* Every attempt to connect a keyboard ends, connected or not, whatever    *)
(* the keyboard does.                                                      *)
BleUnderWay == ble.state \notin {"Off", "Idle", "Scanning", "Ready"}

AttemptsSettle ==
  /\ BleUnderWay ~> ~BleUnderWay
  /\ classic.connecting ~> ~classic.connecting
=============================================================================

----------------------------- MODULE MCBluetooth -----------------------------
(* Bluetooth in one run, in two parts: connections and scans.              *)
EXTENDS BluetoothKeyboards

CONSTANTS Le1, Classic1      \* the keyboards that are connected

VARIABLE part

MCBtInit == part \in {"links", "scans"} /\ BtInit

(* Connections are tried with one keyboard of each kind.                   *)
OneOfEach ==
  /\ ble.target \in {NoDevice, Le1}
  /\ classic.peer \in {NoDevice, Classic1}

(* Two Classic keyboards are found while no BLE keyboard is heard, and one *)
(* of them beside a BLE scan.                                              *)
OneBesideBle == onAir = {} \/ classic.found \subseteq {Classic1}

LinksPart == part = "links" /\ UNCHANGED part
ScansPart == part = "scans" /\ UNCHANGED part

MCBtNext ==
  \/ LinkNext /\ OneOfEach' /\ LinksPart
  \/ ScanNext /\ OneBesideBle' /\ ScansPart

(* The fairness of BluetoothKeyboards.                                     *)
MCBtSpec ==
  /\ MCBtInit /\ [][MCBtNext]_<<btVars, part>>
  /\ WF_btVars(ServiceLate /\ LinksPart)
  /\ WF_btVars(BleCancelAnswered /\ LinksPart)
  /\ WF_btVars(BleLinkEnds /\ LinksPart)
  /\ WF_btVars(ClassicLinkEnds /\ LinksPart)
=============================================================================

--------------------------- MODULE UnifiedKeyboard ---------------------------
(***************************************************************************)
(* unified_keyboard.cpp: the keyboard in the case and the two Bluetooth    *)
(* keyboards read as one.  Each has a Caps Lock of its own; reading the    *)
(* 0xc1 event of one copies its state to the others, and the status line   *)
(* shows the one in the case.                                              *)
(***************************************************************************)
EXTENDS HidKeys

VARIABLES
  insideCaps,    \* caps_lock of picocalc::keyboard
  classicKeys,   \* KeyboardCore of bluetooth_hid
  bleKeys,       \* KeyboardCore of bluetooth_hid_ble
  resetSince     \* history: a keyboard was reset after the last Caps Lock
                 \* event that was read

ukVars == <<insideCaps, classicKeys, bleKeys, resetSince>>

UnifiedInit ==
  /\ insideCaps = FALSE
  /\ classicKeys = KeyboardAtRest
  /\ bleKeys = KeyboardAtRest
  /\ resetSince = FALSE

(* A report of either Bluetooth keyboard, between two reads.               *)
SomeReport(k) ==
  {KeyReport(k, FALSE, FALSE, usages) :
     usages \in {<<>>, <<"caps">>, <<"letter", "caps">>}}

ClassicPressed ==
  /\ classicKeys' \in SomeReport(classicKeys)
  /\ UNCHANGED <<insideCaps, bleKeys, resetSince>>

BlePressed ==
  /\ bleKeys' \in SomeReport(bleKeys)
  /\ UNCHANGED <<insideCaps, classicKeys, resetSince>>

(* read_key with Caps Lock pressed on the keyboard in the case: the press  *)
(* is counted as it is read, and the others follow at once.                *)
ReadInsideCaps ==
  /\ insideCaps' = ~insideCaps
  /\ classicKeys' = [classicKeys EXCEPT !.caps = insideCaps']
  /\ bleKeys' = [bleKeys EXCEPT !.caps = insideCaps']
  /\ resetSince' = FALSE

(* read_key with nothing from the case: the Classic keyboard is read, and  *)
(* the BLE one only when that has nothing either.                          *)
ReadBluetooth ==
  \E due \in BOOLEAN :
    LET classic == KeyHandedOut(classicKeys, due)
        ble == KeyHandedOut(bleKeys, due)
        classicRead == KeyTaken(classicKeys, due)
        bleRead == KeyTaken(bleKeys, due)
    IN  \/ /\ classic = CapsEvent
           /\ classicKeys' = classicRead
           /\ insideCaps' = classicKeys.caps
           /\ bleKeys' = [bleKeys EXCEPT !.caps = classicKeys.caps]
           /\ resetSince' = FALSE
        \/ /\ classic \notin {CapsEvent, NoKeyCode}
           /\ classicKeys' = classicRead
           /\ UNCHANGED <<insideCaps, bleKeys, resetSince>>
        \/ /\ classic = NoKeyCode /\ ble = CapsEvent
           /\ bleKeys' = bleRead
           /\ insideCaps' = bleKeys.caps
           /\ classicKeys' = [classicRead EXCEPT !.caps = bleKeys.caps]
           /\ resetSince' = FALSE
        \/ /\ classic = NoKeyCode /\ ble # CapsEvent
           /\ classicKeys' = classicRead
           /\ bleKeys' = bleRead
           /\ UNCHANGED <<insideCaps, resetSince>>

(* A link that closes, a connection attempt that starts or fails, resets   *)
(* that keyboard; the loss and the recovery of the keyboard controller     *)
(* reset the one in the case.                                              *)
KeyboardStateReset ==
  /\ \/ classicKeys' = KeysReset(classicKeys) /\ UNCHANGED <<insideCaps, bleKeys>>
     \/ bleKeys' = KeysReset(bleKeys) /\ UNCHANGED <<insideCaps, classicKeys>>
     \/ insideCaps' = FALSE /\ UNCHANGED <<classicKeys, bleKeys>>
  /\ resetSince' = TRUE

UnifiedNext ==
  \/ ClassicPressed
  \/ BlePressed
  \/ ReadInsideCaps
  \/ ReadBluetooth
  \/ KeyboardStateReset

UnifiedSpec == UnifiedInit /\ [][UnifiedNext]_ukVars

-----------------------------------------------------------------------------
CapsEventWaits(k) == \E i \in DOMAIN k.ring : k.ring[i].code = CapsEvent

(* Every Caps Lock press that reached a ring has been read.               *)
PressesRead ==
  /\ ~CapsEventWaits(classicKeys) /\ ~CapsEventWaits(bleKeys)
  /\ ~classicKeys.overflowed /\ ~bleKeys.overflowed

CapsEqual == classicKeys.caps = insideCaps /\ bleKeys.caps = insideCaps

(* Once every Caps Lock press has been read, in whatever order the presses *)
(* of several keyboards came, the three agree on Caps Lock, unless one of  *)
(* them was reset since: reading the last event settles all three.         *)
LastPressSettlesCaps == PressesRead /\ ~resetSince => CapsEqual

(* Caps Lock behaves consistently across the three keyboards: once every   *)
(* press has been read they agree, whatever links came and went.           *)
CapsAgree == PressesRead => CapsEqual
=============================================================================

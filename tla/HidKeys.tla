------------------------------- MODULE HidKeys -------------------------------
(***************************************************************************)
(* KeyboardCore (bluetooth_hid_keyboard_core.cpp), the part both Bluetooth *)
(* keyboards share: reports of pressed usages become key codes in a ring,  *)
(* with Caps Lock kept as state and the last repeatable key repeated while *)
(* it is held.  A keyboard is a record; each operator is one member        *)
(* function, from a record to a record.                                    *)
(*                                                                         *)
(* Usages and codes are kept only as far as they behave differently: a     *)
(* letter (cased, repeated), a cursor key (repeated), Enter (not repeated),*)
(* Caps Lock, and a usage that translates to nothing.                      *)
(***************************************************************************)
EXTENDS Integers, SequencesExt

CONSTANT RingSlots      \* kQueueCapacity: the ring holds one code less

NoUsage == "no usage"
NoKeyCode == "no code"
NoDevice == "no device"
CapsEvent == "0xc1"

KeyboardAtRest ==
  [ring |-> <<>>, held |-> {}, shift |-> FALSE, ctrl |-> FALSE,
   repeating |-> NoUsage, caps |-> FALSE, overflowed |-> FALSE]

(* reset() clears everything but the overflow count and the layout: Caps   *)
(* Lock goes off too, and no event says so.                                *)
KeysReset(k) == [KeyboardAtRest EXCEPT !.overflowed = k.overflowed]

(* translate_usage: what a usage types under the modifiers held.           *)
TranslateUsage(u, k) ==
  CASE u = "letter" -> IF k.ctrl THEN "control"
                       ELSE IF k.caps # k.shift THEN "A" ELSE "a"
    [] u = "cursor" -> "cursor"
    [] u = "enter"  -> "enter"
    [] OTHER        -> NoKeyCode

RepeatableCode(code) == code \in {"A", "a", "cursor"}

RingIsFull(k) == Len(k.ring) = RingSlots - 1

(* enqueue: a code is dropped when the ring is full, and counted.          *)
Enqueued(k, code, again) ==
  IF RingIsFull(k) THEN [k EXCEPT !.overflowed = TRUE]
  ELSE [k EXCEPT !.ring = Append(@, [code |-> code, again |-> again])]

(* Wrong: Caps Lock changes without an event.                              *)
UsagePressedSilently(k, u) ==
  IF u \in k.held THEN k
  ELSE IF u = "caps" THEN [k EXCEPT !.caps = ~@]
  ELSE Enqueued(k, TranslateUsage(u, k), FALSE)

(* One newly pressed usage of a report.                                    *)
UsagePressed(k, u) ==
  IF u \in k.held THEN k
  ELSE IF u = "caps" THEN Enqueued([k EXCEPT !.caps = ~@], CapsEvent, FALSE)
  ELSE LET code == TranslateUsage(u, k)
       IN  IF code = NoKeyCode THEN k
           ELSE [Enqueued(k, code, FALSE) EXCEPT
                   !.repeating = IF RepeatableCode(code) /\ ~RingIsFull(k)
                                 THEN u ELSE @]

(* handle_report: the usages in the order of the report, then the release  *)
(* of whatever the report no longer holds.                                 *)
KeyReport(k, shift, ctrl, usages) ==
  LET typed[i \in 0..Len(usages)] ==
        IF i = 0 THEN [k EXCEPT !.shift = shift, !.ctrl = ctrl]
        ELSE UsagePressed(typed[i - 1], usages[i])
  IN  [typed[Len(usages)] EXCEPT
         !.held = ToSet(usages),
         !.repeating = IF @ \in ToSet(usages) THEN @ ELSE NoUsage]

(* service_repeat: due says whether the repeat time has come.              *)
RepeatServiced(k, due) ==
  IF k.repeating = NoUsage \/ k.repeating \notin k.held \/ ~due THEN k
  ELSE LET code == TranslateUsage(k.repeating, k)
       IN  IF RepeatableCode(code) THEN Enqueued(k, code, TRUE) ELSE k

(* read_key: the keyboard afterwards, and the code it handed out.          *)
KeyTaken(k, due) ==
  LET r == RepeatServiced(k, due)
  IN  IF r.ring = <<>> THEN r ELSE [r EXCEPT !.ring = Tail(@)]

KeyHandedOut(k, due) ==
  LET r == RepeatServiced(k, due)
  IN  IF r.ring = <<>> THEN NoKeyCode ELSE Head(r.ring).code
=============================================================================

-------------------------- MODULE KeyboardController --------------------------
(***************************************************************************)
(* The keyboard in the case (keyboard.cpp, keyboard_i2c_recovery.hpp): a   *)
(* controller behind a slow I2C bus, asked for one register at a time by   *)
(* polling.  A cold start waits passively for it; three failures in a row  *)
(* declare it lost, and bus recovery with a probe brings it back.  The     *)
(* backlights and the BIOS version go through the same register.           *)
(*                                                                         *)
(* The driver is a record, and one poll is PollOnce: the phases of         *)
(* poll_key_event in their order, of which each call runs one.  What is    *)
(* chosen outside: whether the deadline looked at has passed (due),        *)
(* whether the bus does what the phase needs (ok: the wires are high, the  *)
(* controller acknowledges), and the key event read.  Deadlines, backoff   *)
(* times and error texts are left out.                                     *)
(***************************************************************************)
EXTENDS Naturals, FiniteSets

CONSTANTS
  Levels,        \* backlight levels
  Modifiers      \* keys whose press and release are tracked by the host

ASSUME LevelsAssumption == Levels # {}

FailureThreshold == 3      \* RecoveryPolicy::failure_threshold
Lights == {"backlight", "key backlight"}

VARIABLES
  kb,            \* the driver
  shown,         \* external: the level each light has
  calm           \* external: from now on the bus and the controller are well

kbVars == <<kb, shown, calm>>

KbAtReset ==
  [phase |-> "BootQuiet", health |-> "Initializing", everReady |-> FALSE,
   errors |-> 0, deferred |-> FALSE, idleTracking |-> FALSE,
   keyPending |-> FALSE, probePending |-> FALSE, probeReadPending |-> FALSE,
   biosPending |-> FALSE, biosKnown |-> FALSE,
   known |-> {}, pending |-> {}, desired |-> [l \in Lights |-> CHOOSE v \in Levels : TRUE],
   held |-> {},                 \* keys held; Caps Lock is UnifiedKeyboard's
   selected |-> "nothing"]     \* history: the register addressed last

KbInit ==
  /\ kb = KbAtReset
  /\ shown \in [Lights -> Levels]
  /\ calm = FALSE

-----------------------------------------------------------------------------
(* RecoveryPolicy.                                                         *)
Counted(k) == [k EXCEPT !.errors = IF @ < FailureThreshold THEN @ + 1 ELSE @]

KeysReleased(k) == [k EXCEPT !.held = {}]

RuntimeFailure(k) ==
  LET counted == Counted(k)
  IN  IF counted.errors >= FailureThreshold
      THEN [KeysReleased(counted) EXCEPT !.health = "Lost",
              !.biosKnown = FALSE, !.biosPending = FALSE]
      ELSE [counted EXCEPT !.health = "Degraded"]

KeyWorks(k) == [k EXCEPT !.health = "Ok", !.errors = 0]

(* What a successful probe does, at startup and after a recovery.          *)
Welcomed(k) ==
  [KeysReleased(k) EXCEPT !.phase = "Ready", !.everReady = TRUE,
     !.health = "Ok", !.errors = 0, !.biosKnown = FALSE, !.biosPending = FALSE,
     !.pending = @ \cup k.known]

StartupFailed(k) == [Counted(k) EXCEPT !.health = "Waiting", !.phase = "PassiveBackoff"]

(* Wrong: the failed recovery leaves the health at Recovering.             *)
RecoveryFailedForGood(k) == [Counted(k) EXCEPT !.deferred = TRUE]

RecoveryFailed(k) == [Counted(k) EXCEPT !.health = "Lost", !.deferred = TRUE]

(* waiting()                                                               *)
Waiting(k) == IF k.everReady THEN k ELSE [k EXCEPT !.health = "Waiting"]

-----------------------------------------------------------------------------
(* service_startup: the phases before Ready.                               *)
StartupPolled(k, due, ok) ==
  CASE k.phase = "BootQuiet" ->
         IF due THEN [Waiting(k) EXCEPT !.idleTracking = FALSE, !.phase = "WaitBusIdle"] ELSE k
    [] k.phase = "WaitBusIdle" ->
         IF ~ok THEN [k EXCEPT !.idleTracking = FALSE]
         ELSE IF ~k.idleTracking THEN [k EXCEPT !.idleTracking = TRUE]
         ELSE IF due THEN [k EXCEPT !.phase = "InitController"] ELSE k
    [] k.phase = "InitController" -> [k EXCEPT !.phase = "ProbeSelect"]
    [] k.phase = "ProbeSelect" ->
         LET asked == [k EXCEPT !.selected = "backlight"]
         IN  IF ok THEN [asked EXCEPT !.phase = "ProbeWait"] ELSE StartupFailed(asked)
    [] k.phase = "ProbeWait" -> IF due THEN [k EXCEPT !.phase = "ProbeRead"] ELSE k
    [] k.phase = "ProbeRead" -> IF ok THEN Welcomed(k) ELSE StartupFailed(k)
    [] k.phase = "PassiveBackoff" ->
         IF due THEN [Waiting(k) EXCEPT !.idleTracking = FALSE, !.phase = "WaitBusIdle"] ELSE k

(* service_recovery: probe read, probe, or the recovery of the bus.        *)
RecoveryDue(k, due) == k.health = "Lost" /\ (~k.deferred \/ due)

RecoveryWanted(k, due) == k.probeReadPending \/ k.probePending \/ RecoveryDue(k, due)

RecoveryPolled(k, due, ok) ==
  IF k.probeReadPending
  THEN IF ~due THEN k
       ELSE LET read == [k EXCEPT !.probeReadPending = FALSE]
            IN  IF ok THEN [Welcomed(read) EXCEPT !.deferred = FALSE]
                ELSE RecoveryFailed(read)
  ELSE IF k.probePending
  THEN LET asked == [k EXCEPT !.probePending = FALSE, !.selected = "backlight"]
       IN  IF ok THEN [asked EXCEPT !.probeReadPending = TRUE] ELSE RecoveryFailed(asked)
  ELSE LET begun == [k EXCEPT !.health = "Recovering", !.keyPending = FALSE,
                              !.biosPending = FALSE]
       IN  IF ok THEN [begun EXCEPT !.probePending = TRUE] ELSE RecoveryFailed(begun)

(* service_pending_backlight: the LCD first.                               *)
NextLight(k) == IF "backlight" \in k.pending THEN "backlight" ELSE "key backlight"

LightWanted(k) ==
  /\ k.everReady /\ k.health = "Ok"
  /\ ~k.keyPending /\ ~k.probePending /\ ~k.probeReadPending
  /\ k.pending # {}

LightWritten(k, light, ok) ==
  LET asked == [k EXCEPT !.selected = light]
  IN  IF ok THEN [asked EXCEPT !.pending = @ \ {light}] ELSE RuntimeFailure(asked)

(* Wrong: an answer that is waited for does not stop it.                   *)
MayTransactAlways(k) ==
  /\ k.everReady /\ k.phase = "Ready"
  /\ k.health \notin {"Lost", "Recovering"}

(* perform_keyboard_transaction lets another register be addressed only    *)
(* when no answer is being waited for.                                     *)
MayTransact(k) ==
  /\ k.everReady /\ k.phase = "Ready"
  /\ ~k.keyPending /\ ~k.probePending /\ ~k.probeReadPending
  /\ k.health \notin {"Lost", "Recovering"}

(* read_bios_version; reply says whether the firmware knows the register.  *)
BiosRead(k, ok, reply) ==
  IF k.biosKnown THEN k
  ELSE IF ~k.everReady \/ k.phase # "Ready" THEN [k EXCEPT !.biosPending = TRUE]
  ELSE IF k.health \in {"Lost", "Recovering"} THEN k
  ELSE IF k.keyPending THEN [k EXCEPT !.biosPending = TRUE]
  ELSE IF ~MayTransact(k) THEN k
  ELSE LET asked == [k EXCEPT !.selected = "bios"]
       IN  IF ok THEN [asked EXCEPT !.biosKnown = reply] ELSE RuntimeFailure(asked)

(* The two bytes of an answer, taken for a key event by read_key: modifiers *)
(* and navigation keys are tracked by their presses and releases.          *)
Empty == [key |-> "nothing", down |-> FALSE]

Answers == {Empty} \cup [key : Modifiers, down : BOOLEAN]

Pressed(k, answer) ==
  IF answer = Empty THEN k
  ELSE [k EXCEPT !.held = IF answer.down THEN @ \cup {answer.key} ELSE @ \ {answer.key}]

(* The key register itself: selected by one poll, read by a later one.     *)
KeyPolled(k, due, ok, answer) ==
  IF ~k.keyPending
  THEN LET asked == [k EXCEPT !.selected = "key"]
       IN  IF ok THEN [asked EXCEPT !.keyPending = TRUE] ELSE RuntimeFailure(asked)
  ELSE IF ~due THEN k
  ELSE LET read == [k EXCEPT !.keyPending = FALSE]
       IN  IF ok THEN Pressed(KeyWorks(read), answer) ELSE RuntimeFailure(read)

(* poll_key_event, all of it.                                              *)
PollOnce(k, due, ok, answer) ==
  IF k.phase # "Ready" THEN StartupPolled(k, due, ok)
  ELSE IF RecoveryWanted(k, due) THEN RecoveryPolled(k, due, ok)
  ELSE IF k.health \in {"Lost", "Recovering"} THEN k
  ELSE IF LightWanted(k) THEN LightWritten(k, NextLight(k), ok)
  ELSE IF k.biosPending /\ ~k.keyPending
  THEN BiosRead([k EXCEPT !.biosPending = FALSE], ok, answer # Empty)
  ELSE KeyPolled(k, due, ok, answer)

-----------------------------------------------------------------------------
(* Until things are calm whatever is asked of the bus may fail.            *)
Outcomes == IF calm THEN {TRUE} ELSE BOOLEAN

(* The level a light has after the driver went from kb to k.               *)
ShownAfter(k) ==
  [l \in Lights |-> IF l \in kb.pending /\ l \notin k.pending THEN kb.desired[l] ELSE shown[l]]

Poll(due) ==
  \E ok \in Outcomes, answer \in Answers :
    /\ kb' = PollOnce(kb, due, ok, answer)
    /\ shown' = ShownAfter(kb')
    /\ UNCHANGED calm

PollEarly == Poll(FALSE)
PollDue == Poll(TRUE)

(* set_lcd_backlight and set_keyboard_backlight: what is wanted is noted,  *)
(* written at once if the register is free, else left to a later poll.     *)
SetLight(light, level) ==
  LET noted == [kb EXCEPT !.desired[light] = level, !.known = @ \cup {light},
                          !.pending = @ \cup {light}]
  IN  \E ok \in Outcomes :
        /\ kb' = IF MayTransact(noted) THEN LightWritten(noted, light, ok) ELSE noted
        /\ shown' = [shown EXCEPT ![light] = IF MayTransact(noted) /\ ok THEN level ELSE @]
        /\ UNCHANGED calm

(* get_lcd_backlight and get_keyboard_backlight: the controller is asked   *)
(* unless a level waits to be written, and its answer becomes the wish.    *)
GetLight(light) ==
  /\ light \notin kb.pending /\ MayTransact(kb)
  /\ \E ok \in Outcomes :
       kb' = IF ok THEN [kb EXCEPT !.selected = light, !.desired[light] = shown[light],
                                   !.known = @ \cup {light}]
             ELSE RuntimeFailure([kb EXCEPT !.selected = light])
  /\ UNCHANGED <<shown, calm>>

ReadBios ==
  /\ \E ok \in Outcomes, reply \in BOOLEAN : kb' = BiosRead(kb, ok, reply)
  /\ UNCHANGED <<shown, calm>>

ReadBattery ==
  /\ MayTransact(kb)
  /\ \E ok \in Outcomes :
       kb' = IF ok THEN [kb EXCEPT !.selected = "battery"]
             ELSE RuntimeFailure([kb EXCEPT !.selected = "battery"])
  /\ UNCHANGED <<shown, calm>>

(* init() again: a warm restart of the firmware.                           *)
Restart ==
  /\ ~calm
  /\ kb' = KbAtReset
  /\ UNCHANGED <<shown, calm>>

(* The bus and the controller are well for good.                           *)
CalmDown ==
  /\ ~calm
  /\ calm' = TRUE
  /\ UNCHANGED <<kb, shown>>

KbNext ==
  \/ PollEarly \/ PollDue
  \/ \E light \in Lights, level \in Levels : SetLight(light, level)
  \/ \E light \in Lights : GetLight(light)
  \/ ReadBios \/ ReadBattery
  \/ Restart
  \/ CalmDown

(* Every input loop polls for ever, and every deadline comes; nobody       *)
(* restarts for ever, so after calm there is no restart.                   *)
KbSpec == KbInit /\ [][KbNext]_kbVars /\ WF_kbVars(PollDue)

-----------------------------------------------------------------------------
(* An answer is read only after its own register was addressed: whatever   *)
(* asks for a light, the battery or the BIOS between the two halves of a   *)
(* poll, what is taken for a key event is the answer of the key register.  *)
AnswersMatch ==
  /\ kb.keyPending => kb.selected = "key"
  /\ kb.probeReadPending \/ kb.phase \in {"ProbeWait", "ProbeRead"} =>
       kb.selected = "backlight"

(* Once the bus and the controller are well, the keyboard comes back from  *)
(* any state of startup or recovery, and the lights get the level asked    *)
(* for.                                                                    *)
KeyboardComesBack ==
  /\ calm ~> kb.phase = "Ready" /\ kb.health = "Ok"
  /\ \A l \in Lights : calm /\ l \in kb.pending ~> shown[l] = kb.desired[l]
=============================================================================

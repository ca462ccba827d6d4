------------------------------ MODULE MCDevices ------------------------------
(* The audio output, the keyboard controller and the three keyboards read  *)
(* as one in one run, each in a part of its own while the others rest.     *)
EXTENDS AudioOutput, KeyboardController, UnifiedKeyboard

VARIABLE part

ControllerAtRest ==
  kb = KbAtReset /\ calm = FALSE /\ shown = [l \in Lights |-> CHOOSE v \in Levels : TRUE]

DevicesInit ==
  /\ part \in {"audio", "controller", "caps"}
  /\ AudioInit
  /\ IF part = "controller" THEN KbInit ELSE ControllerAtRest
  /\ UnifiedInit

AudioPart == part = "audio" /\ UNCHANGED <<kbVars, ukVars, part>>
ControllerPart == part = "controller" /\ UNCHANGED <<avars, ukVars, part>>

(* A ring that has overflowed stays so, and nothing is promised then; the  *)
(* letters, which are there to be in the way, are those of one keyboard.   *)
CapsPart ==
  /\ part = "caps" /\ UNCHANGED <<avars, kbVars, part>>
  /\ ~classicKeys.overflowed /\ ~bleKeys.overflowed
  /\ bleKeys'.held \subseteq {"caps"}

DevicesNext ==
  \/ AudioNext /\ AudioPart
  \/ KbNext /\ ControllerPart
  \/ UnifiedNext /\ CapsPart

(* The fairness of each part is that of its module.                        *)
DevicesSpec ==
  /\ DevicesInit /\ [][DevicesNext]_<<avars, kbVars, ukVars, part>>
  /\ WF_avars(PwmWrap /\ AudioPart)
  /\ WF_avars(Serving /\ AudioPart)
  /\ WF_avars(TimePasses /\ AudioPart)
  /\ WF_kbVars(PollDue /\ ControllerPart)
=============================================================================

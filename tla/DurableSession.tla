--------------------------- MODULE DurableSession ---------------------------
(***************************************************************************)
(* What the SD program store promises: one editing session (source, file   *)
(* name, dirty flag) survives on the card.  It changes only to the session *)
(* an operation in flight asked for; a successful operation has made it    *)
(* durable; a recovery adopts exactly what is durable.                     *)
(***************************************************************************)
CONSTANTS SessionValue,   \* the sessions there can be
          Nothing         \* no session

VARIABLES dur,            \* the session a recovery would adopt now
          want,           \* the session the operation in flight asks for
          view,           \* the session the running machine works on
          aside           \* sources set aside

dvars == <<dur, want, view, aside>>

DInit == dur = Nothing /\ want = Nothing /\ view = Nothing /\ aside = {}

Ask(r) == want = Nothing /\ want' = r /\ UNCHANGED <<dur, view, aside>>

Commit == want # Nothing /\ dur' = want /\ UNCHANGED <<want, view, aside>>

Acknowledge ==
    /\ want # Nothing /\ dur = want
    /\ view' = want /\ want' = Nothing
    /\ UNCHANGED <<dur, aside>>

(* A refused operation leaves what the machine works on durable.           *)
GiveUp ==
    /\ want # Nothing /\ view \in {dur, Nothing}
    /\ want' = Nothing
    /\ UNCHANGED <<dur, view, aside>>

(* Power is lost, or the program moves to internal RAM.                    *)
Forget == view' = Nothing /\ want' = Nothing /\ UNCHANGED <<dur, aside>>

Recover ==
    /\ want = Nothing /\ dur # Nothing
    /\ view' = dur
    /\ UNCHANGED <<dur, want, aside>>

(* A machine that found no session keeps the sources it did find.          *)
SetAside(r) ==
    /\ view = Nothing /\ want = Nothing /\ dur = Nothing
    /\ aside' = aside \cup {r.src}
    /\ UNCHANGED <<dur, want, view>>

DNext ==
    \/ \E r \in SessionValue : Ask(r) \/ SetAside(r)
    \/ Commit \/ Acknowledge \/ GiveUp \/ Forget \/ Recover

DSpec == DInit /\ [][DNext]_dvars
=============================================================================

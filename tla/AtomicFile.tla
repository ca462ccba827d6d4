----------------------------- MODULE AtomicFile -----------------------------
(***************************************************************************)
(* What a SafeFileWriter promises its caller, with the staging files left  *)
(* out: every target has one value, which changes only when a writer       *)
(* publishes, and then to the bytes that writer was given; commit()        *)
(* returns true after a publication and false without one.                 *)
(***************************************************************************)
CONSTANTS Writer,   \* the SafeFileWriter objects alive at the same time
          Target,   \* the file names they replace
          Data,     \* what a whole file can hold
          Empty,    \* the content of a file nothing was written to
          NoFile,   \* the value of a name that names no file
          None      \* no target

VARIABLES value,    \* value[t]: what a reader (or a recovery) finds of t
          job,      \* job[w]: "idle", "busy", "published" or "refused"
          tgt, buf, \* the target and the bytes of the job
          res       \* what the last commit() of w returned

avars == <<value, job, tgt, buf, res>>

Begin(w, t) ==
    /\ job[w] = "idle"
    /\ job' = [job EXCEPT ![w] = "busy"]
    /\ tgt' = [tgt EXCEPT ![w] = t]
    /\ buf' = [buf EXCEPT ![w] = Empty]
    /\ res' = [res EXCEPT ![w] = "none"]
    /\ UNCHANGED value

Supply(w, d) ==
    /\ job[w] = "busy"
    /\ buf' = [buf EXCEPT ![w] = d]
    /\ UNCHANGED <<value, job, tgt, res>>

Publish(w) ==
    /\ job[w] = "busy"
    /\ value' = [value EXCEPT ![tgt[w]] = buf[w]]
    /\ job' = [job EXCEPT ![w] = "published"]
    /\ UNCHANGED <<tgt, buf, res>>

Retire(w) ==
    /\ job' = [job EXCEPT ![w] = "idle"]
    /\ tgt' = [tgt EXCEPT ![w] = None]
    /\ buf' = [buf EXCEPT ![w] = Empty]

Acknowledge(w) ==
    /\ job[w] = "published"
    /\ Retire(w)
    /\ res' = [res EXCEPT ![w] = "ok"]
    /\ UNCHANGED value

(* commit() answers false: nothing was published and nothing will be.      *)
Refuse(w) ==
    /\ job[w] = "busy"
    /\ job' = [job EXCEPT ![w] = "refused"]
    /\ res' = [res EXCEPT ![w] = "fail"]
    /\ UNCHANGED <<value, tgt, buf>>

(* abort() ends a job that published nothing.                              *)
GiveUp(w) ==
    /\ job[w] \in {"busy", "refused"}
    /\ Retire(w)
    /\ UNCHANGED <<value, res>>

(* A power loss ends every job where it is; no value changes.              *)
Lose ==
    /\ job' = [w \in Writer |-> "idle"]
    /\ tgt' = [w \in Writer |-> None]
    /\ buf' = [w \in Writer |-> Empty]
    /\ res' = [w \in Writer |-> "none"]
    /\ UNCHANGED value

AInit ==
    /\ value \in [Target -> Data \cup {NoFile}]
    /\ job = [w \in Writer |-> "idle"]
    /\ tgt = [w \in Writer |-> None]
    /\ buf = [w \in Writer |-> Empty]
    /\ res = [w \in Writer |-> "none"]

ANext ==
    \/ \E w \in Writer :
        \/ \E t \in Target : Begin(w, t)
        \/ \E d \in Data : Supply(w, d)
        \/ Publish(w)
        \/ Acknowledge(w)
        \/ Refuse(w)
        \/ GiveUp(w)
    \/ Lose

ASpec == AInit /\ [][ANext]_avars
=============================================================================

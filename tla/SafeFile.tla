------------------------------ MODULE SafeFile ------------------------------
(***************************************************************************)
(* SafeFileWriter (src/core/safe_file.cpp): the transactional writer every *)
(* durable file of the firmware goes through.  New bytes go to             *)
(* <staging>.TMP; commit() closes it, moves the old target aside to        *)
(* <staging>.BAK, renames the TMP over the target and removes the BAK.     *)
(* Each call into the file system is a step of its own: it may fail, and   *)
(* power may be lost before or after it.                                   *)
(*                                                                         *)
(* Several writers can be open at once (an HTTP upload while the editor    *)
(* snapshots a program), some with the same staging name.  A commit() is   *)
(* one uninterrupted call on the single core, so no other writer moves     *)
(* while one is between its first and its last file-system call.           *)
(*                                                                         *)
(* One rename is taken to be atomic and a closed file to be on the card:   *)
(* that is the FAT driver's promise, not this code's.                      *)
(***************************************************************************)
CONSTANTS Writer,   \* SafeFileWriter objects
          Stage,    \* staging names: XMODEM, YMODEM, HTTP, RMBEDIT, RMBSES
          StageOf,  \* StageOf[w]: the staging name w is opened with
          Target,   \* file names that are replaced
          Data,     \* contents of whole files
          Empty,    \* the content of a file nothing was written to
          NoFile,   \* the name is absent from the directory
          Torn,     \* the file exists with unfinished content
          None      \* no target

ASSUME ConstantsAssumption ==
    /\ StageOf \in [Writer -> Stage]
    /\ Empty \in Data
    /\ NoFile \notin Data /\ Torn \notin Data /\ NoFile # Torn
    /\ None \notin Target

VARIABLES file,     \* file[t]: the directory entry of a target
          tmp, bak, \* tmp[s], bak[s]: <s>.TMP and <s>.BAK
          phase,    \* phase[w]: how far writer w is
          tgt,      \* target_ of w
          buf,      \* the bytes handed to write() so far
          had,      \* had_old of the commit in progress
          res,      \* what the last commit() of w returned
          kept      \* history: kept[s] = t while <s>.BAK is t's only copy

disk == <<file, tmp, bak, kept>>
vars == <<file, tmp, bak, phase, tgt, buf, had, res, kept>>

Phase == {"closed",  \* file_ == nullptr and no TMP is owned
          "open",    \* file_ is open on the TMP
          "bad",     \* a call failed; only abort() is left
          "sealed",  \* commit(): TMP flushed and closed
          "moved",   \* commit(): the old target, if any, is the BAK
          "undo",    \* commit(): TMP could not be installed
          "done"}    \* commit(): TMP is the target

InCommit(w) == phase[w] \in {"sealed", "moved", "undo", "done"}
Alone(w) == \A v \in Writer : InCommit(v) => v = w
OwnsTemp(w) == phase[w] \in {"open", "bad", "sealed", "moved", "undo"}

Goto(w, p) == phase' = [phase EXCEPT ![w] = p]
Return(w, answer) == res' = [res EXCEPT ![w] = answer]

(* Every transaction uses an object of its own: after abort() or a         *)
(* successful commit() its members mean nothing more.                      *)
Retire(w) ==
    /\ Goto(w, "closed")
    /\ tgt' = [tgt EXCEPT ![w] = None]
    /\ buf' = [buf EXCEPT ![w] = Empty]
    /\ had' = [had EXCEPT ![w] = FALSE]

-----------------------------------------------------------------------------
(* open() refuses while a TMP or a BAK of its staging name is there        *)
(* ("STAGING FILE EXISTS"): a refusal, like a failing fopen, changes       *)
(* nothing.                                                                *)
Open(w, t) ==
    LET s == StageOf[w] IN
    /\ phase[w] = "closed" /\ Alone(w)
    /\ tmp[s] = NoFile /\ bak[s] = NoFile
    /\ tmp' = [tmp EXCEPT ![s] = Torn]
    /\ Goto(w, "open")
    /\ tgt' = [tgt EXCEPT ![w] = t]
    /\ buf' = [buf EXCEPT ![w] = Empty]
    /\ Return(w, "none")
    /\ UNCHANGED <<file, bak, had, kept>>

(* The write() calls of one transaction, which together deliver d.         *)
Write(w, d) ==
    /\ phase[w] = "open" /\ Alone(w)
    /\ buf' = [buf EXCEPT ![w] = d]
    /\ UNCHANGED <<disk, phase, tgt, had, res>>

(* A short fwrite: every caller then aborts.                               *)
WriteFails(w) ==
    /\ phase[w] = "open" /\ Alone(w)
    /\ Goto(w, "bad")
    /\ UNCHANGED <<disk, tgt, buf, had, res>>

(* commit(): fflush and fclose.                                            *)
Seal(w) ==
    /\ phase[w] = "open" /\ Alone(w)
    /\ tmp' = [tmp EXCEPT ![StageOf[w]] = buf[w]]
    /\ Goto(w, "sealed")
    /\ UNCHANGED <<file, bak, kept, tgt, buf, had, res>>

SealFails(w) ==
    /\ phase[w] = "open" /\ Alone(w)
    /\ Goto(w, "bad") /\ Return(w, "fail")
    /\ UNCHANGED <<disk, tgt, buf, had>>

(* commit(): rename(target, BAK) when there is a target.                   *)
MoveOld(w) ==
    LET s == StageOf[w]
        t == tgt[w]
    IN
    /\ phase[w] = "sealed"
    /\ had' = [had EXCEPT ![w] = file[t] # NoFile]
    /\ \/ file[t] = NoFile /\ UNCHANGED disk
       \/ /\ file[t] # NoFile
          /\ bak' = [bak EXCEPT ![s] = file[t]]
          /\ file' = [file EXCEPT ![t] = NoFile]
          /\ kept' = [kept EXCEPT ![s] = t]
          /\ UNCHANGED tmp
    /\ Goto(w, "moved")
    /\ UNCHANGED <<tgt, buf, res>>

(* A stat() error counts as a present target, whose rename then fails.     *)
MoveOldFails(w) ==
    /\ phase[w] = "sealed"
    /\ had' = [had EXCEPT ![w] = TRUE]
    /\ Goto(w, "bad") /\ Return(w, "fail")
    /\ UNCHANGED <<disk, tgt, buf>>

(* commit(): rename(TMP, target).                                          *)
Install(w) ==
    LET s == StageOf[w]
        t == tgt[w]
    IN
    /\ phase[w] = "moved"
    /\ file' = [file EXCEPT ![t] = tmp[s]]
    /\ tmp' = [tmp EXCEPT ![s] = NoFile]
    /\ kept' = [r \in Stage |-> IF kept[r] = t THEN None ELSE kept[r]]
    /\ Goto(w, "done")
    /\ UNCHANGED <<bak, tgt, buf, had, res>>

(* Wrong: success is reported although nothing was installed.              *)
InstallFailsSilently(w) ==
    /\ phase[w] = "moved"
    /\ \/ had[w] /\ Goto(w, "undo") /\ UNCHANGED res
       \/ ~had[w] /\ Goto(w, "bad") /\ Return(w, "ok")
    /\ UNCHANGED <<disk, tgt, buf, had>>

InstallFails(w) ==
    /\ phase[w] = "moved"
    /\ \/ had[w] /\ Goto(w, "undo") /\ UNCHANGED res
       \/ ~had[w] /\ Goto(w, "bad") /\ Return(w, "fail")
    /\ UNCHANGED <<disk, tgt, buf, had>>

(* commit(): rename(BAK, target) after a failed installation.  When it     *)
(* fails too, the old file stays in the BAK.                               *)
Undo(w) ==
    LET s == StageOf[w] IN
    /\ phase[w] = "undo"
    /\ Goto(w, "bad") /\ Return(w, "fail")
    /\ file' = [file EXCEPT ![tgt[w]] = bak[s]]
    /\ bak' = [bak EXCEPT ![s] = NoFile]
    /\ kept' = [kept EXCEPT ![s] = None]
    /\ UNCHANGED <<tmp, tgt, buf, had>>

UndoFails(w) ==
    /\ phase[w] = "undo"
    /\ Goto(w, "bad") /\ Return(w, "fail")
    /\ UNCHANGED <<disk, tgt, buf, had>>

(* commit(): remove(BAK), best effort, and return true.                    *)
Finish(w) ==
    LET s == StageOf[w] IN
    /\ phase[w] = "done"
    /\ Retire(w) /\ Return(w, "ok")
    /\ bak' = [bak EXCEPT ![s] = IF had[w] THEN NoFile ELSE bak[s]]
    /\ UNCHANGED <<file, tmp, kept>>

FinishLeavesBak(w) ==
    /\ phase[w] = "done" /\ had[w]
    /\ Retire(w) /\ Return(w, "ok")
    /\ UNCHANGED disk

(* Wrong: the BAK is tidied up with the TMP.                               *)
AbortRemovesBak(w) ==
    /\ phase[w] \in {"open", "bad"} /\ Alone(w)
    /\ Retire(w)
    /\ tmp' = [tmp EXCEPT ![StageOf[w]] = NoFile]
    /\ bak' = [bak EXCEPT ![StageOf[w]] = NoFile]
    /\ UNCHANGED <<file, kept, res>>

(* abort(), also run by the destructor: remove(TMP), best effort.          *)
Abort(w) ==
    /\ phase[w] \in {"open", "bad"} /\ Alone(w)
    /\ Retire(w)
    /\ tmp' = [tmp EXCEPT ![StageOf[w]] = NoFile]
    /\ UNCHANGED <<file, bak, kept, res>>

AbortLeavesTmp(w) ==
    /\ phase[w] \in {"open", "bad"} /\ Alone(w)
    /\ Retire(w)
    /\ UNCHANGED <<disk, res>>

(* The calls into the file system that can fail.                           *)
Fault(w) ==
    \/ WriteFails(w) \/ SealFails(w) \/ MoveOldFails(w) \/ InstallFails(w)
    \/ UndoFails(w) \/ FinishLeavesBak(w) \/ AbortLeavesTmp(w)

(* Power is lost: no destructor runs, and of a TMP that was not closed the *)
(* card may hold something or nothing.                                     *)
PowerLoss ==
    /\ phase' = [w \in Writer |-> "closed"]
    /\ res' = [w \in Writer |-> "none"]
    /\ tgt' = [w \in Writer |-> None]
    /\ buf' = [w \in Writer |-> Empty]
    /\ had' = [w \in Writer |-> FALSE]
    /\ \E lost \in SUBSET {s \in Stage : tmp[s] = Torn} :
          tmp' = [s \in Stage |-> IF s \in lost THEN NoFile ELSE tmp[s]]
    /\ UNCHANGED <<file, bak, kept>>

-----------------------------------------------------------------------------
Init ==
    /\ file \in [Target -> Data \cup {NoFile}]
    /\ tmp = [s \in Stage |-> NoFile]
    /\ bak = [s \in Stage |-> NoFile]
    /\ phase = [w \in Writer |-> "closed"]
    /\ tgt = [w \in Writer |-> None]
    /\ buf = [w \in Writer |-> Empty]
    /\ had = [w \in Writer |-> FALSE]
    /\ res = [w \in Writer |-> "none"]
    /\ kept = [s \in Stage |-> None]

Step(w) ==
    \/ \E t \in Target : Open(w, t)
    \/ \E d \in Data : Write(w, d)
    \/ Seal(w) \/ MoveOld(w) \/ Install(w) \/ Undo(w) \/ Finish(w)
    \/ Abort(w) \/ Fault(w)

Next == (\E w \in Writer : Step(w)) \/ PowerLoss

Spec == Init /\ [][Next]_vars

-----------------------------------------------------------------------------
TypeOK ==
    /\ file \in [Target -> Data \cup {NoFile, Torn}]
    /\ tmp \in [Stage -> Data \cup {NoFile, Torn}]
    /\ bak \in [Stage -> Data \cup {NoFile, Torn}]
    /\ phase \in [Writer -> Phase]
    /\ tgt \in [Writer -> Target \cup {None}]
    /\ buf \in [Writer -> Data]
    /\ had \in [Writer -> BOOLEAN]
    /\ res \in [Writer -> {"none", "ok", "fail"}]
    /\ kept \in [Stage -> Target \cup {None}]

(* No target and no backup ever holds unfinished bytes, whatever failed    *)
(* and wherever power was lost: commit() closes the TMP before it renames  *)
(* anything (safe_file.cpp:93-100).                                        *)
NeverTorn ==
    /\ \A t \in Target : file[t] # Torn
    /\ \A s \in Stage : bak[s] # Torn

(* Two writers never have the same staging files: the one that found       *)
(* neither TMP nor BAK owns both until it aborts or commits                *)
(* (safe_file.cpp:64-67).                                                  *)
OneOwner ==
    \A v, w \in Writer :
        /\ phase[v] # "closed" /\ phase[w] # "closed"
        /\ StageOf[v] = StageOf[w]
        => v = w

(* A target that was moved aside and not yet replaced is whole in exactly  *)
(* one backup, and stays there: no writer, with this or another staging    *)
(* name, overwrites or forgets the only copy (safe_file.cpp:64, 99-102).   *)
SoleCopyKept ==
    \A s \in Stage : kept[s] # None =>
        /\ file[kept[s]] = NoFile
        /\ bak[s] \in Data
        /\ \A r \in Stage : kept[r] = kept[s] => r = s

(* What the writers promise of the files, in one: nothing torn, no two at  *)
(* one staging name, and no file whose only copy is lost.                  *)
FilesSafe == TypeOK /\ NeverTorn /\ OneOwner /\ SoleCopyKept

-----------------------------------------------------------------------------
(* The value of a target: its file, or the backup that is its only copy.   *)
Value ==
    [t \in Target |->
        IF file[t] = NoFile /\ \E s \in Stage : kept[s] = t
        THEN bak[CHOOSE s \in Stage : kept[s] = t]
        ELSE file[t]]

Job ==
    [w \in Writer |->
        CASE phase[w] = "closed" -> "idle"
          [] phase[w] = "done" -> "published"
          [] phase[w] = "bad" /\ res[w] = "fail" -> "refused"
          [] OTHER -> "busy"]

Atomic == INSTANCE AtomicFile WITH value <- Value, job <- Job

(* The writer implements an atomic replacement: under every failure and    *)
(* power loss a target has its old or its new content, changes only at the *)
(* rename of line 100, and commit() tells the caller which.                *)
Refinement == Atomic!ASpec
=============================================================================

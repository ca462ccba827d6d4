--------------------------- MODULE ProgramSession ---------------------------
(***************************************************************************)
(* ProgramStore (src/core/program_store.cpp) and the card: on the SD       *)
(* backend the source being edited lives in a work file RMBPnnnn.BAS that  *)
(* every edit replaces by a new, verified snapshot; RMBASIC.SES names the  *)
(* live work file, the user's file and the dirty flag.  Both are written   *)
(* by the SafeFileWriter of module SafeFile, whose steps are the steps of  *)
(* this module's operations: every call into the file system may fail, and *)
(* may be the last one before power is lost.                               *)
(*                                                                         *)
(* A source is a whole program text.  Commands of the user and the events  *)
(* of the card are taken one at a time: the interpreter is one loop, and   *)
(* no other task uses these files.  The card is pulled between operations; *)
(* pulled in the middle of one, it shows as failing calls.                 *)
(***************************************************************************)
EXTENDS Sequences, FiniteSets, FiniteSetsExt

CONSTANTS WorkSeq,      \* RMBP0000.BAS, RMBP0001.BAS, ... in this order
          UserFile,     \* the names a user saves programs under
          Ses,          \* RMBASIC.SES
          Source,       \* program texts
          Empty,        \* the empty program
          NoFile, Torn, None, NoName, Nothing,
          Mode,         \* the storage modes the settings may name
          Command,      \* the user's commands of this instance
          Bounds        \* what may go wrong in one behavior: one of these
                        \* numbers of failing calls (faults), of those on
                        \* which a recovery's choice hangs (recovery), of
                        \* power losses in an operation (crashes) and
                        \* between two (stops), and of changes by a PC,
                        \* over USB or while the machine is off (edits)

Work == {WorkSeq[i] : i \in DOMAIN WorkSeq}
Session == [work : Work, name : UserFile \cup {NoName}, dirty : BOOLEAN]

ASSUME SessionConstants ==
    /\ WorkSeq \in Seq(Work) /\ Work \cap UserFile = {}
    /\ Ses \notin Work \cup UserFile /\ None \notin Work \cup UserFile \cup {Ses}
    /\ Empty \in Source /\ Source \cap Session = {}
    /\ NoFile # Torn /\ {NoFile, Torn} \cap (Source \cup Session) = {}
    /\ Mode \subseteq {"auto", "sd", "ram"}
    /\ Command \subseteq {"edit", "new", "load", "save", "clean", "erase",
                          "switch", "resume", "remount", "usb", "card"}

VARIABLES file, tmp, bak, kept, phase, tgt, buf, had, res,  \* SafeFile
          rescued,  \* the contents of the RECOVERnnnn.BAS files
          store,    \* the ProgramStore object
          repl,     \* Repl::program_dirty_
          op,       \* the operation in progress
          power,    \* the machine runs
          card,     \* the card is in the slot
          host,     \* a USB host, not the firmware, owns the card
          used      \* how much of each bound is spent

StageOf == [edit |-> "RMBEDIT", ses |-> "RMBSES"]
SF == INSTANCE SafeFile
        WITH Writer <- DOMAIN StageOf, Stage <- {"RMBEDIT", "RMBSES"},
             Target <- Work \cup UserFile \cup {Ses},
             Data <- Source \cup Session

writers == <<phase, tgt, buf, had, res>>
disk == <<file, tmp, bak, kept, rescued>>
env == <<power, card, host>>
vars == <<disk, writers, store, repl, op, env, used>>

(* backend_ = Sd; suspended_; dirty_; the source; sd_->work; filename_; and *)
(* the text the editor compares with, unknown in a recovered dirty session. *)
Blank == [sd |-> FALSE, suspended |-> FALSE, dirty |-> FALSE, src |-> Empty,
          work |-> None, name |-> NoName, saved |-> Empty]

(* What an operation is about, and where it is.  by: the writer it is      *)
(* using; into: the file its snapshot goes to; the session it will record; *)
(* repl: program_dirty_ once it has succeeded.                             *)
Idle == [kind |-> "none", pc |-> "idle", by |-> "edit", into |-> None,
         src |-> Empty, work |-> None, name |-> NoName, dirty |-> FALSE,
         repl |-> FALSE]

Spends(what, n) ==
    LET spent == [used EXCEPT ![what] = @ + n] IN
    /\ \E bound \in Bounds : \A kind \in DOMAIN bound : spent[kind] <= bound[kind]
    /\ used' = spent
Spend(what) == Spends(what, 1)
At(pc) == power /\ op.pc = pc
Goto(pc) == op' = [op EXCEPT !.pc = pc]
Return == op' = Idle
CardUsable == card /\ ~host
Ready == ~store.suspended /\ (store.sd => CardUsable)
Modified == repl \/ store.dirty

Extra == {w \in Work \ {store.work} : file[w] # NoFile}
Adopt(session, src, saved) ==
    [sd |-> TRUE, suspended |-> FALSE, dirty |-> session.dirty, src |-> src,
     work |-> session.work, name |-> session.name,
     saved |-> IF session.dirty THEN saved ELSE src]
Record(o) == [work |-> o.work, name |-> o.name, dirty |-> o.dirty]

-----------------------------------------------------------------------------
(* An operation that needs a new work file: snapshot() and publish_sd().   *)
(* new_work_name takes the first name that is absent and not the live one; *)
(* without one the operation fails before it touches anything.             *)
FreeWork == {i \in DOMAIN WorkSeq :
                file[WorkSeq[i]] = NoFile /\ WorkSeq[i] # store.work}

Publish(kind, src, name, dirty, replAfter) ==
    IF FreeWork = {} THEN Return
    ELSE LET w == WorkSeq[Min(FreeWork)] IN
         op' = [kind |-> kind, pc |-> "open", by |-> "edit", into |-> w,
                src |-> src, work |-> w, name |-> name, dirty |-> dirty,
                repl |-> replAfter]

(* The writer of the operation failed; a published session that could not  *)
(* be written takes its snapshot away again.                               *)
Fail ==
    /\ IF op.by = "ses" /\ op.into \in Work THEN Goto("undo") ELSE Return
    /\ repl' = (repl \/ op.kind = "clean")

OpenWriter ==
    /\ At("open")
    /\ SF!Open(op.by, IF op.by = "edit" THEN op.into ELSE Ses)
    /\ Goto("fill")
    /\ UNCHANGED <<rescued, store, repl, env, used>>

OpenRefused ==
    LET s == StageOf[op.by] IN
    /\ At("open")
    /\ \/ (tmp[s] # NoFile \/ bak[s] # NoFile) /\ UNCHANGED used
       \/ Spend("faults")
    /\ Fail
    /\ UNCHANGED <<disk, writers, store, env>>

FillWriter ==
    /\ At("fill") /\ phase[op.by] = "open"
    /\ SF!Write(op.by, IF op.by = "edit" THEN op.src ELSE Record(op))
    /\ Goto("commit")
    /\ UNCHANGED <<rescued, store, repl, env, used>>

(* Reading the source back from the live work file fails: the store is     *)
(* suspended.                                                              *)
SourceUnreadable ==
    /\ At("fill") /\ op.by = "edit" /\ phase.edit = "open"
    /\ store.sd /\ op.kind \in {"edit", "save"}
    /\ Spend("faults") /\ SF!WriteFails("edit")
    /\ store' = [store EXCEPT !.suspended = TRUE]
    /\ UNCHANGED <<rescued, repl, op, env>>

CommitWriter ==
    /\ At("commit")
    /\ SF!Seal(op.by) \/ SF!MoveOld(op.by) \/ SF!Install(op.by) \/ SF!Undo(op.by)
    /\ UNCHANGED <<rescued, store, repl, op, env, used>>

WriterFails ==
    /\ \/ At("fill") /\ SF!WriteFails(op.by)
       \/ /\ At("commit")
          /\ \/ SF!SealFails(op.by) \/ SF!MoveOldFails(op.by)
             \/ SF!InstallFails(op.by) \/ SF!UndoFails(op.by)
    /\ Spend("faults")
    /\ UNCHANGED <<rescued, store, repl, op, env>>

AbortWriter ==
    /\ At("fill") \/ At("commit")
    /\ phase[op.by] = "bad"
    /\ \/ SF!Abort(op.by) /\ UNCHANGED used
       \/ SF!AbortLeavesTmp(op.by) /\ Spend("faults")
    /\ Fail
    /\ UNCHANGED <<rescued, store, env>>

Finishes ==
    /\ At("commit")
    /\ \/ SF!Finish(op.by) /\ UNCHANGED used
       \/ SF!FinishLeavesBak(op.by) /\ Spend("faults")
    /\ UNCHANGED <<rescued, env>>

(* The snapshot is in place: a work file is verified, a user's file is     *)
(* followed by the session, or on the RAM backend ends the SAVE.           *)
SnapshotDone ==
    /\ op.by = "edit" /\ Finishes
    /\ CASE op.into \in Work -> Goto("verify") /\ UNCHANGED <<store, repl>>
         [] store.sd /\ op.into \notin Work ->
                /\ op' = [op EXCEPT !.pc = "stale tmp", !.by = "ses"]
                /\ UNCHANGED <<store, repl>>
         [] OTHER ->
                /\ Return /\ repl' = FALSE
                /\ store' = [store EXCEPT !.name = op.name, !.dirty = FALSE,
                                          !.saved = store.src]

(* Wrong: the object moves to the snapshot before its session is written.  *)
VerifyAdopts ==
    /\ At("verify") /\ file[op.into] = op.src
    /\ store' = Adopt(Record(op), op.src, store.saved)
    /\ op' = [op EXCEPT !.pc = "stale tmp", !.by = "ses"]
    /\ UNCHANGED <<disk, writers, repl, env, used>>

Verify ==
    /\ At("verify")
    /\ \/ /\ file[op.into] = op.src
          /\ op' = [op EXCEPT !.pc = "stale tmp", !.by = "ses"]
          /\ UNCHANGED used
       \/ Goto("undo") /\ Spend("faults")
    /\ UNCHANGED <<disk, writers, store, repl, env>>

(* remove_work of a snapshot that did not become live.                     *)
UndoSnapshot ==
    /\ At("undo")
    /\ \/ file' = [file EXCEPT ![op.into] = NoFile] /\ UNCHANGED used
       \/ UNCHANGED file /\ Spend("faults")
    /\ Return
    /\ UNCHANGED <<tmp, bak, kept, rescued, writers, store, repl, env>>

(* remove() of RMBSES.TMP and of RMBSES.BAK, best effort.                  *)
DropTmp ==
    \/ tmp' = [tmp EXCEPT !["RMBSES"] = NoFile] /\ UNCHANGED used
    \/ tmp["RMBSES"] # NoFile /\ UNCHANGED tmp /\ Spend("faults")

DropBak ==
    \/ /\ bak' = [bak EXCEPT !["RMBSES"] = NoFile]
       /\ kept' = [kept EXCEPT !["RMBSES"] = None]
       /\ UNCHANGED used
    \/ bak["RMBSES"] # NoFile /\ UNCHANGED <<bak, kept>> /\ Spend("faults")

(* write_session removes what an earlier commit left behind, but only      *)
(* while RMBASIC.SES itself can be parsed.                                 *)
StaleTmp ==
    /\ At("stale tmp")
    /\ IF file[Ses] \in Session THEN Goto("stale bak") /\ DropTmp
       ELSE Goto("open") /\ UNCHANGED <<tmp, used>>
    /\ UNCHANGED <<file, bak, kept, rescued, writers, store, repl, env>>

StaleBak ==
    /\ At("stale bak") /\ DropBak /\ Goto("open")
    /\ UNCHANGED <<file, tmp, rescued, writers, store, repl, env>>

(* The session is on the card: publish_sd (and save, set_dirty) now change *)
(* the object.  Only a publication goes on to the cleanup.                 *)
SessionDone ==
    /\ op.by = "ses" /\ Finishes
    /\ store' = Adopt(Record(op), op.src, store.saved)
    /\ repl' = op.repl
    /\ IF op.into \in Work THEN Goto("cleanup") ELSE Return

(* cleanup_orphans_locked, and before it publish_sd's removal of the old   *)
(* work file, in the order the directory gives; any removal may fail.      *)
Cleanup ==
    /\ At("cleanup")
    /\ \/ /\ \E w \in Extra : file' = [file EXCEPT ![w] = NoFile]
          /\ UNCHANGED <<op, used>>
       \/ Extra = {} /\ Return /\ UNCHANGED <<file, used>>
       \/ Extra # {} /\ Return /\ Spend("faults") /\ UNCHANGED file
    /\ UNCHANGED <<tmp, bak, kept, rescued, writers, store, repl, env>>

-----------------------------------------------------------------------------
(* recover_session_locked.  A candidate counts when it parses and the work *)
(* file it names can be scanned and verified; a failing read makes it look *)
(* invalid.                                                                *)
Valid(c) == c \in Session /\ file[c.work] \in Source

Found(c, next) ==
    op' = [op EXCEPT !.pc = next, !.work = c.work, !.name = c.name,
                     !.dirty = c.dirty, !.src = file[c.work], !.repl = c.dirty]

ChooseSession ==
    /\ At("recover")
    /\ \E misread \in SUBSET {"ses", "bak"} :
          LET ses == Valid(file[Ses]) /\ "ses" \notin misread
              old == Valid(bak["RMBSES"]) /\ "bak" \notin misread
          IN
          /\ Spends("recovery", Cardinality(misread))
          /\ \/ ses /\ Found(file[Ses], "drop bak")
             \/ ~ses /\ old /\ Found(bak["RMBSES"], "drop ses")
             \/ ~ses /\ ~old /\ Goto("none tmp")
    /\ UNCHANGED <<disk, writers, store, repl, env>>

(* RMBASIC.SES is good: its backup goes.                                   *)
RecoverDropBak ==
    /\ At("drop bak") /\ DropBak /\ Goto("tidy")
    /\ UNCHANGED <<file, tmp, rescued, writers, store, repl, env>>

(* RMBASIC.SES is not: the backup takes its place.                         *)
RecoverDropSes ==
    /\ At("drop ses") /\ Goto("promote")
    /\ \/ file' = [file EXCEPT ![Ses] = NoFile] /\ UNCHANGED used
       \/ file[Ses] # NoFile /\ UNCHANGED file /\ Spend("recovery")
    /\ UNCHANGED <<tmp, bak, kept, rescued, writers, store, repl, env>>

RecoverPromote ==
    /\ At("promote") /\ file[Ses] = NoFile
    /\ file' = [file EXCEPT ![Ses] = bak["RMBSES"]]
    /\ bak' = [bak EXCEPT !["RMBSES"] = NoFile]
    /\ kept' = [kept EXCEPT !["RMBSES"] = None]
    /\ Goto("tidy")
    /\ UNCHANGED <<tmp, rescued, writers, store, repl, env, used>>

RecoverTidy ==
    /\ At("tidy") /\ DropTmp
    /\ store' = Adopt(Record(op), op.src, Nothing)
    /\ repl' = op.repl
    /\ Goto("cleanup")
    /\ UNCHANGED <<file, bak, kept, rescued, writers, env>>

RecoverNoneTmp ==
    /\ At("none tmp") /\ DropTmp /\ Goto("none bak")
    /\ UNCHANGED <<file, bak, kept, rescued, writers, store, repl, env>>

(* ProgramStore::resume(): the work file must be the source in memory;     *)
(* a store that never had a work file gets an empty one.                   *)
Resume(replAfter) ==
    IF store.work = None
    THEN Publish("resume", Empty, NoName, FALSE, replAfter) /\ UNCHANGED <<store, repl>>
    ELSE /\ Return
         /\ store' = [store EXCEPT !.suspended = file[store.work] # store.src]
         /\ repl' = IF file[store.work] = store.src THEN replAfter ELSE repl

(* What the callers do without a session: a boot goes on, a remount keeps  *)
(* the program it has, the user's restore is an error.                     *)
NoSession ==
    CASE op.kind = "boot" -> Goto("preserve") /\ UNCHANGED <<store, repl>>
      [] op.kind = "remount" /\ store.sd -> Resume(store.dirty)
      [] op.kind = "remount" /\ ~store.sd ->
            /\ Publish("workspace", store.src, store.name, store.dirty, store.dirty)
            /\ UNCHANGED <<store, repl>>
      [] OTHER -> Return /\ UNCHANGED <<store, repl>>

RecoverNoneBak ==
    /\ At("none bak") /\ DropBak /\ NoSession
    /\ UNCHANGED <<file, tmp, rescued, writers, env>>

(* The rename of the backup fails, as it must over a file that could not   *)
(* be removed.                                                             *)
PromoteFails ==
    /\ At("promote")
    /\ (file[Ses] # NoFile /\ UNCHANGED used) \/ Spend("recovery")
    /\ NoSession
    /\ UNCHANGED <<disk, writers, env>>

(* Wrong: the work files are removed instead of renamed.                   *)
PreserveNothing ==
    /\ At("preserve")
    /\ \/ \E w \in Work :
            /\ file[w] # NoFile
            /\ file' = [file EXCEPT ![w] = NoFile]
            /\ UNCHANGED op
       \/ /\ \A w \in Work : file[w] = NoFile
          /\ Publish("boot", Empty, NoName, FALSE, FALSE)
          /\ UNCHANGED file
    /\ UNCHANGED <<tmp, bak, kept, rescued, writers, store, repl, env, used>>

(* preserve_unverified_work_locked: every work file becomes a RECOVER      *)
(* file; then the boot publishes an empty program.                         *)
Preserve ==
    /\ At("preserve")
    /\ \/ \E w \in Work :
            /\ file[w] # NoFile
            /\ file' = [file EXCEPT ![w] = NoFile]
            /\ rescued' = rescued \cup {file[w]}
            /\ UNCHANGED <<op, used>>
       \/ /\ \A w \in Work : file[w] = NoFile
          /\ Publish("boot", Empty, NoName, FALSE, FALSE)
          /\ UNCHANGED <<file, rescued, used>>
       \/ Return /\ Spend("faults") /\ UNCHANGED <<file, rescued>>
    /\ UNCHANGED <<tmp, bak, kept, writers, store, repl, env>>

(* Power on: ProgramStore::initialize with the mode of the settings.       *)
PowerOn(mode) ==
    LET sd == mode = "sd" \/ (mode = "auto" /\ card) IN
    /\ ~power /\ mode \in Mode
    /\ power' = TRUE /\ host' = FALSE
    /\ store' = [Blank EXCEPT !.sd = sd /\ ~card, !.suspended = sd /\ ~card]
    /\ op' = IF sd /\ card THEN [Idle EXCEPT !.kind = "boot", !.pc = "recover"]
             ELSE Idle
    /\ UNCHANGED <<disk, writers, repl, card, used>>

-----------------------------------------------------------------------------
(* The commands.  Each starts while no operation runs.                     *)
Starts(command) ==
    /\ command \in Command
    /\ At("idle")
    /\ UNCHANGED <<disk, writers, env, used>>

Assign(s, name, dirty, replAfter) ==
    /\ store' = [store EXCEPT !.src = s, !.name = name, !.dirty = dirty,
                              !.saved = IF dirty THEN store.saved ELSE s]
    /\ repl' = replAfter
    /\ UNCHANGED op

(* A change of the program on whichever backend holds it.                  *)
Change(kind, s, name, dirty) ==
    \/ store.sd /\ Publish(kind, s, name, dirty, dirty) /\ UNCHANGED <<store, repl>>
    \/ ~store.sd /\ Assign(s, name, dirty, dirty)

(* Wrong: an edit does not mark the program modified.                      *)
EditQuietly(s) ==
    /\ Starts("edit") /\ Ready /\ s # store.src
    /\ Change("edit", s, store.name, FALSE)

(* set_line, erase_line, the editor's rows: any other program text.        *)
Edit(s) ==
    /\ Starts("edit") /\ Ready /\ s # store.src
    /\ Change("edit", s, store.name, TRUE)

(* Erasing a line there is not: nothing changes, but the prompt takes the  *)
(* store's dirty flag over.                                                *)
EraseNothing ==
    /\ Starts("erase") /\ Ready
    /\ repl' = store.dirty
    /\ UNCHANGED <<store, op>>

(* NEW, and the menu's New: after the user saved or chose to discard.      *)
New == Starts("new") /\ Ready /\ Change("new", Empty, NoName, FALSE)

Load(f) ==
    /\ Starts("load") /\ Ready /\ CardUsable
    /\ file[f] \in Source
    /\ Change("load", file[f], f, FALSE)

(* save(): the user's file first, then the session.                        *)
Save(f) ==
    /\ Starts("save") /\ Ready /\ CardUsable
    /\ op' = [kind |-> "save", pc |-> "open", by |-> "edit", into |-> f,
              src |-> store.src, work |-> store.work, name |-> f,
              dirty |-> FALSE, repl |-> FALSE]
    /\ UNCHANGED <<store, repl>>

(* The full-screen editor's sync_committed_dirty after an undo back to the *)
(* saved text: set_dirty(false).                                           *)
MarkClean ==
    /\ Starts("clean") /\ store.dirty /\ store.src = store.saved
    /\ \/ ~store.sd /\ Assign(store.src, store.name, FALSE, FALSE)
       \/ /\ store.sd /\ Ready
          /\ op' = [kind |-> "clean", pc |-> "stale tmp", by |-> "ses",
                    into |-> None, src |-> store.src, work |-> store.work,
                    name |-> store.name, dirty |-> FALSE, repl |-> FALSE]
          /\ UNCHANGED <<store, repl>>

(* The storage menu, SD to RAM: the program is copied and the session      *)
(* stays on the card; a suspended program can only be discarded.  The copy *)
(* counts as modified unless it is empty (dirty_ = next.dirty_).           *)
SwitchToRam ==
    /\ Starts("switch") /\ store.sd
    /\ \/ /\ Ready
          /\ store' = [store EXCEPT !.sd = FALSE, !.work = None,
                                    !.dirty = store.src # Empty]
          /\ UNCHANGED repl
       \/ store.suspended /\ store' = Blank /\ repl' = FALSE
    /\ UNCHANGED op

(* RAM to SD, keeping the program or, if it is modified, discarding it.    *)
SwitchToSd ==
    /\ Starts("switch") /\ ~store.sd /\ CardUsable
    /\ \/ Publish("keep", store.src, store.name, store.dirty, repl)
       \/ Modified /\ Publish("new", Empty, NoName, FALSE, FALSE)
    /\ UNCHANGED <<store, repl>>

ResumeStorage ==
    Starts("resume") /\ store.sd /\ CardUsable /\ Resume(repl)

(* "Remount SD card" (recover_after_sd_remount).                           *)
Remount(mode) ==
    LET recover(kind) == op' = [Idle EXCEPT !.kind = kind, !.pc = "recover"] IN
    /\ Starts("remount") /\ CardUsable /\ mode \in Mode
    /\ IF mode = "ram" THEN
          /\ store' = IF ~store.sd THEN store
                      ELSE [store EXCEPT !.sd = FALSE, !.work = None,
                                         !.dirty = store.src # Empty]
          /\ store.sd => Ready
          /\ repl' = store'.dirty /\ UNCHANGED op
       ELSE IF ~store.sd /\ store.dirty THEN
          /\ \/ Publish("keep", store.src, store.name, TRUE, TRUE)
             \/ recover("restore")
          /\ UNCHANGED <<store, repl>>
       ELSE recover("remount") /\ UNCHANGED <<store, repl>>

-----------------------------------------------------------------------------
(* The USB menu: an SD program must be clean and is suspended while the    *)
(* host owns the card.                                                     *)
UsbStart ==
    /\ "usb" \in Command /\ At("idle") /\ CardUsable
    /\ store.sd => Ready /\ ~Modified
    /\ host' = TRUE
    /\ store' = [store EXCEPT !.suspended = store.sd]
    /\ UNCHANGED <<disk, writers, repl, op, power, card, used>>

(* Wrong: the index from before the host had the card is used again.       *)
UsbReturnTrusts ==
    /\ "usb" \in Command /\ At("idle") /\ host /\ card
    /\ host' = FALSE
    /\ store' = [store EXCEPT !.suspended = FALSE]
    /\ UNCHANGED <<disk, writers, op, repl, power, card, used>>

(* The card is back (service_background): the named file is read again,    *)
(* for the PC may have changed it.                                         *)
UsbReturn ==
    /\ "usb" \in Command /\ At("idle") /\ host /\ card
    /\ host' = FALSE
    /\ CASE ~store.sd -> UNCHANGED op
         [] store.sd /\ store.name = NoName ->
                Publish("usb", Empty, NoName, FALSE, FALSE)
         [] store.sd /\ store.name # NoName ->
                IF file[store.name] \in Source
                THEN Publish("usb", file[store.name], store.name, FALSE, FALSE)
                ELSE UNCHANGED op
    /\ UNCHANGED <<disk, writers, store, repl, power, card, used>>

(* Pulled or put back between operations.                                  *)
MoveCard ==
    /\ "card" \in Command /\ op = Idle
    /\ card' = ~card
    /\ UNCHANGED <<disk, writers, store, repl, op, power, host, used>>

(* ready(), called by any command, finds the card gone.                    *)
NoticeCardGone ==
    /\ At("idle") /\ store.sd /\ ~store.suspended /\ ~CardUsable
    /\ store' = [store EXCEPT !.suspended = TRUE]
    /\ UNCHANGED <<disk, writers, repl, op, env, used>>

(* Any other command that reads a line of the program (LIST, RUN, a copy   *)
(* to RAM) cannot: read_text_unlocked suspends the store.                  *)
LineUnreadable ==
    /\ At("idle") /\ store.sd /\ Ready
    /\ Spend("faults")
    /\ store' = [store EXCEPT !.suspended = TRUE]
    /\ UNCHANGED <<disk, writers, repl, op, env>>

PowerOff ==
    /\ power
    /\ IF op = Idle THEN Spend("stops") ELSE Spend("crashes")
    /\ SF!PowerLoss
    /\ power' = FALSE /\ host' = FALSE
    /\ store' = Blank /\ repl' = FALSE /\ op' = Idle
    /\ UNCHANGED <<rescued, card>>

(* A PC, over USB or with the card in its own reader: any user's file may  *)
(* be written or deleted, the machine's own files damaged or deleted.      *)
PcWrites ==
    /\ host \/ ~power
    /\ Spend("edits")
    /\ \/ \E f \in UserFile : \E c \in Source \cup {NoFile} :
              c # file[f] /\ file' = [file EXCEPT ![f] = c]
       \/ \E f \in Work \cup {Ses} : \E c \in {Torn, NoFile} :
              file[f] \notin {c, NoFile} /\ file' = [file EXCEPT ![f] = c]
    /\ UNCHANGED <<tmp, bak, kept, rescued, writers, store, repl, op, env>>

-----------------------------------------------------------------------------
(* A card with the user's files on it and nothing of the machine's.        *)
Init ==
    /\ \E users \in [UserFile -> Source \cup {NoFile}] :
          file = [f \in Work \cup UserFile \cup {Ses} |->
                     IF f \in UserFile THEN users[f] ELSE NoFile]
    /\ SF!Init
    /\ rescued = {} /\ store = Blank /\ repl = FALSE /\ op = Idle
    /\ power = FALSE /\ card = TRUE /\ host = FALSE
    /\ used = [faults |-> 0, recovery |-> 0, crashes |-> 0, stops |-> 0, edits |-> 0]

(* The operation in progress.                                              *)
Proceed ==
    \/ OpenWriter \/ OpenRefused \/ FillWriter \/ SourceUnreadable
    \/ CommitWriter \/ WriterFails \/ AbortWriter \/ SnapshotDone
    \/ Verify \/ UndoSnapshot \/ StaleTmp \/ StaleBak \/ SessionDone
    \/ Cleanup
    \/ ChooseSession \/ RecoverDropBak \/ RecoverDropSes \/ RecoverPromote
    \/ RecoverTidy \/ RecoverNoneTmp \/ RecoverNoneBak \/ PromoteFails
    \/ Preserve

User ==
    \/ \E s \in Source : Edit(s)
    \/ \E f \in UserFile : Load(f) \/ Save(f)
    \/ \E mode \in Mode : Remount(mode)
    \/ EraseNothing \/ New \/ MarkClean \/ SwitchToRam \/ SwitchToSd
    \/ ResumeStorage \/ UsbStart

Outside ==
    \/ \E mode \in Mode : PowerOn(mode)
    \/ UsbReturn \/ MoveCard \/ NoticeCardGone \/ LineUnreadable
    \/ PowerOff \/ PcWrites

Next == Proceed \/ User \/ Outside

Spec == Init /\ [][Next]_vars

-----------------------------------------------------------------------------
Pc == {"idle", "open", "fill", "commit", "verify", "undo", "stale tmp",
       "stale bak", "cleanup", "recover", "drop bak", "drop ses", "promote",
       "tidy", "none tmp", "none bak", "preserve"}

TypeOK ==
    /\ SF!TypeOK
    /\ rescued \subseteq Source \cup {Torn}
    /\ store \in [sd : BOOLEAN, suspended : BOOLEAN, dirty : BOOLEAN,
                  src : Source, work : Work \cup {None},
                  name : UserFile \cup {NoName}, saved : Source \cup {Nothing}]
    /\ op.pc \in Pc /\ op.by \in DOMAIN StageOf
    /\ op.into \in Work \cup UserFile \cup {None}
    /\ op.src \in Source /\ op.work \in Work \cup {None}
    /\ {repl, power, card, host, op.dirty, op.repl} \subseteq BOOLEAN
    /\ op = Idle => \A w \in DOMAIN StageOf : phase[w] = "closed"

(* What a recovery without misreads would adopt.                           *)
SessionOf(c) == [src |-> file[c.work], name |-> c.name, dirty |-> c.dirty]
Recoverable ==
    CASE Valid(file[Ses]) -> SessionOf(file[Ses])
      [] ~Valid(file[Ses]) /\ Valid(bak["RMBSES"]) -> SessionOf(bak["RMBSES"])
      [] OTHER -> Nothing

(* What the operation in progress asks to be recorded.                     *)
Requested ==
    IF op.pc \in {"open", "fill", "commit", "verify", "undo",
                  "stale tmp", "stale bak"} /\ (op.kind = "save" => store.sd)
    THEN [src |-> op.src, name |-> op.name, dirty |-> op.dirty]
    ELSE Nothing

Live ==
    IF store.sd /\ store.work # None
    THEN [src |-> store.src, name |-> store.name, dirty |-> store.dirty]
    ELSE Nothing

Durable == INSTANCE DurableSession
             WITH SessionValue <- [src : Source, name : UserFile \cup {NoName},
                                   dirty : BOOLEAN],
                  dur <- Recoverable, want <- Requested, view <- Live,
                  aside <- rescued

(* The editing session on the card is atomic and durable: whatever fails   *)
(* and wherever power is lost, a recovery adopts the last session that was *)
(* acknowledged or the one being written, and an operation that reports    *)
(* success has made its session the recoverable one                        *)
(* (program_store.cpp:1103-1133, 1134-1185).                               *)
Refinement == Durable!DSpec

(* While the store is not suspended its work file holds the source in      *)
(* memory: no cleanup, failed snapshot or recovery takes away the file the *)
(* index points into (program_store.cpp:1075-1090, 1128-1130).             *)
LiveWorkIntact ==
    power /\ store.sd /\ ~store.suspended /\ ~host => file[store.work] = store.src

(* A program shown as unmodified is the empty unnamed one, or is what the  *)
(* card has under its name, unless a PC deleted that file (save and load:  *)
(* program_store.cpp:1723-1887; the flag the prompt shows: repl.cpp:586).  *)
CleanHasCopy ==
    At("idle") /\ ~store.suspended /\ ~Modified /\ ~host =>
        IF store.name = NoName THEN store.src = Empty
        ELSE SF!Value[store.name] \in {store.src, NoFile}

(* Without failing calls no operation leaves a work file behind: orphans   *)
(* would use up the names (program_store.cpp:845-853, 1130, 1183).         *)
NoOrphans ==
    At("idle") /\ store.sd /\ ~store.suspended /\ used.faults = 0 => Extra = {}

(* The work files are exactly those that are needed: the live one, and no  *)
(* other.                                                                  *)
WorkFilesKept == TypeOK /\ LiveWorkIntact /\ NoOrphans

(* A boot that has not adopted a session destroys no program text: what    *)
(* the session's files held is still in a work or a RECOVER file           *)
(* (preserve_unverified_work_locked, program_store.cpp:1045-1074).         *)
Texts == ({file[w] : w \in Work} \cup rescued) \cap Source
BootKeepsTexts ==
    [][op.kind = "boot" /\ op.pc # "cleanup" => Texts \subseteq Texts' \cup {Empty}]_vars

(* A user's program is never lost: it is replaced, never gone              *)
(* (save through SafeFileWriter, program_store.cpp:1875-1887).             *)
UserFilesKept ==
    [][\A f \in UserFile : used.edits = used'.edits /\ SF!Value[f] # NoFile =>
           SF!Value'[f] \in {SF!Value[f], store.src}]_vars

-----------------------------------------------------------------------------
(* What the comments and documents say and the code does not keep.         *)

(* "Invalid/missing metadata never blocks boot; start an empty verified    *)
(* workspace" (program_store.cpp:1273-1274): a boot that finds the card    *)
(* ends with a usable SD workspace.                                        *)
BootNeverBlocked ==
    [][op.kind = "boot" /\ op' = Idle /\ power' => store'.sd /\ ~store'.suspended]_vars

(* "Cleanup runs only after that recovery decision and retains the         *)
(* live/session snapshot" (v0.84-storage-continuity.md:14-16): resuming    *)
(* the storage keeps the unsaved session that is on the card.              *)
ResumeKeepsSession ==
    [][op.kind = "resume" /\ Recoverable # Nothing /\ Recoverable.dirty =>
           Recoverable' = Recoverable]_vars

(* "An unreadable/mismatched session must not erase its last editing       *)
(* source.  Retain every work file" (program_store.cpp:1046-1047): neither *)
(* at a boot nor when a remount finds no session.                          *)
RemountKeepsTexts ==
    [][op.kind = "workspace" => Texts \subseteq Texts' \cup {Empty}]_vars
=============================================================================

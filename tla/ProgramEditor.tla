----------------------------- MODULE ProgramEditor -----------------------------
(***************************************************************************)
(* The full-screen editor (full_screen_editor.cpp): sessions on the        *)
(* program of the store, each key one operation on the editor's model, and *)
(* the flags that say whether the program has changes that no file holds.  *)
(*                                                                         *)
(* The store writes its flag whenever a line is written; the editor sets   *)
(* it to what its own count of states says, after Undo and Redo and on     *)
(* leaving.  An operation may meet one failure.                            *)
(***************************************************************************)
EXTENDS EditorModel

CONSTANTS
  Typeable,      \* words the user types and searches for
  Numbers,       \* line numbers the user gives
  Programs       \* programs to edit: the mode and the lines, the limit of a
                 \* line, the room for lines, the screen, the snapshots the
                 \* history holds, if there is one, and the bounds on what
                 \* happens: edits in a session, failures, sessions

\* The lines of a program are in the order of their numbers, in a structured
\* one numbered by position.
ASSUME ProgramsAssumption ==
  /\ Numbers \subseteq Nat
  /\ \A p \in Programs :
       /\ {"mode", "doc", "depth"} \subseteq DOMAIN p
       /\ p.mode \in Modes /\ p.depth \in Nat /\ Len(p.doc) \in Nat
       /\ p.doc = [i \in 1..Len(p.doc) |-> [number |-> p.doc[i].number,
                                           body |-> p.doc[i].body]]
       /\ \A i \in 1..Len(p.doc) : p.doc[i].number \in Nat
       /\ \A i, j \in 1..Len(p.doc) : i < j => p.doc[i].number < p.doc[j].number
       /\ p.mode = "Structured" => \A i \in 1..Len(p.doc) : p.doc[i].number = i

VARIABLES
  program,       \* the one of Programs that is edited
  ed,            \* EditorModel model_, with its document and its history
  session,       \* "open", "asking" in confirm_exit, or "closed"
  entryDirty,    \* entry_dirty_
  progDirty,     \* program_dirty_ of the prompt
  storeDirty,    \* ProgramStore's dirty flag
  file,          \* external: the program as the named file holds it
  texts,         \* history: the text each state_id_ was given to
  faults, sessions

vars == <<program, ed, session, entryDirty, progDirty, storeDirty, file, texts, faults,
          sessions>>

Init ==
  \E p \in Programs :
    /\ program = p
    /\ ed = Begin(p, p.depth > 0)
    /\ texts = <<p.doc>>
    /\ file = p.doc
    /\ session = "open" /\ sessions = 1 /\ faults = 0
    /\ entryDirty = FALSE /\ progDirty = FALSE /\ storeDirty = FALSE

-----------------------------------------------------------------------------
\* Every write to the document raises the store's flag.
Wrote(w) == w.doc # ed.doc

NameText(w) == [id \in 1..w.next |-> IF id = w.state + 1 THEN Text(w) ELSE texts[id]]

UsesFault(fault) ==
  /\ fault # "none" => faults < program.faults
  /\ faults' = IF fault = "none" THEN faults ELSE faults + 1

\* The editor when a key arrives, and the call of the operation that fails.
Given(fault) == [ed EXCEPT !.ok = TRUE, !.fault = fault]

\* A key that edits the text, and one that only moves or looks, with what
\* its operation makes of the editor.
EditKey(result, fault) ==
  /\ session = "open"
  /\ UsesFault(fault)
  /\ \E w \in {result} :
       /\ w.next <= program.edits + 1
       /\ ed' = [w EXCEPT !.fault = "none"]
       /\ texts' = IF w.ok THEN NameText(w) ELSE texts
       /\ storeDirty' = (storeDirty \/ Wrote(w))
  /\ UNCHANGED <<program, session, entryDirty, progDirty, file, sessions>>

MoveKey(result, fault) ==
  /\ session = "open"
  /\ UsesFault(fault)
  /\ \E w \in {result} :
       /\ ed' = [w EXCEPT !.fault = "none"]
       /\ storeDirty' = (storeDirty \/ Wrote(w))
  /\ UNCHANGED <<program, session, entryDirty, progDirty, file, texts, sessions>>

TypeKey(word, fault) == EditKey(InsertChar(Given(fault), word), fault)
TabKey(fault) == EditKey(InsertTab(Given(fault)), fault)
OutdentKey(fault) == ed.mode = "Structured" /\ EditKey(Outdent(Given(fault)), fault)
BackspaceKey(fault) == EditKey(Backspace(Given(fault)), fault)
DeleteKey(fault) == EditKey(DeleteChar(Given(fault)), fault)

\* split_line of the editor: whether Enter may ask for a number, that is, one
\* is free before or behind the line and the program is not full.
AsksForNumber ==
  /\ IF ed.cursor = 0
       THEN ed.number > (IF ed.index > 1 THEN ed.doc[ed.index - 1].number + 1 ELSE 0)
       ELSE ed.index < Len(ed.doc) => ed.doc[ed.index + 1].number > ed.number + 1
  /\ Len(ed.doc) < ed.room

\* Classic Enter asks for a number, an empty program for its first line.
EnterKey(n, fault) ==
  /\ ~Structured(ed) /\ ed.has => AsksForNumber
  /\ EditKey(IF ~Structured(ed) /\ ~ed.has THEN InsertLine(Given(fault), n)
                                          ELSE SplitLine(Given(fault), n), fault)
InsertLineKey(n, fault) == EditKey(InsertLine(Given(fault), n), fault)
DeleteLineKey(fault) == ed.has /\ EditKey(DeleteLine(Given(fault)), fault)

ArrowKey(fault) ==
  \/ MoveKey(MoveLeft(Given(fault)), fault) \/ MoveKey(MoveRight(Given(fault)), fault)
  \/ MoveKey(MoveHome(Given(fault)), fault) \/ MoveKey(MoveEnd(Given(fault)), fault)
  \/ \E down \in BOOLEAN : MoveKey(MoveVertical(Given(fault), down), fault)
PageKey(down, fault) == MoveKey(MovePage(Given(fault), down), fault)
MatchKey(fault) == ed.mode = "Structured" /\ MoveKey(MatchBlock(Given(fault)), fault)
GotoKey(n, fault) == MoveKey(GotoLine(Given(fault), n), fault)
FindKey(word, fault) ==
  \/ MoveKey(Find(Given(fault), word, FALSE), fault)
  \/ MoveKey(Find(Given(fault), word, TRUE), fault)
  \/ MoveKey(FindPrevious(Given(fault)), fault)

\* sync_committed_dirty sets both flags; with the fault "flag" the store
\* cannot record a change of its own.
HistoryKey(w, fault) ==
  LET dirty == entryDirty \/ Changed(w)
      stored == storeDirty \/ Wrote(w)
  IN  /\ session = "open"
      /\ UsesFault(fault)
      /\ ed' = [w EXCEPT !.fault = "none"]
      /\ IF w.ok THEN /\ progDirty' = IF fault = "flag" /\ stored # dirty THEN TRUE ELSE dirty
                      /\ storeDirty' = IF fault = "flag" THEN stored ELSE dirty
                 ELSE storeDirty' = stored /\ UNCHANGED progDirty
      /\ UNCHANGED <<program, session, entryDirty, file, texts, sessions>>

InModel(fault) == IF fault = "flag" THEN "none" ELSE fault
UndoKey(fault) == HistoryKey(Undo(Given(InModel(fault))), fault)
RedoKey(fault) == HistoryKey(Redo(Given(InModel(fault))), fault)

-----------------------------------------------------------------------------
(* Saving and leaving.                                                     *)

\* save: it may be cancelled at the name or at the overwrite, or fail.
SaveWith(w, saved) ==
  IF saved /\ w.ok
    THEN /\ ed' = MarkSaved(w)
         /\ file' = w.doc
         /\ entryDirty' = FALSE /\ progDirty' = FALSE /\ storeDirty' = FALSE
    ELSE /\ ed' = w
         /\ progDirty' = IF w.ok THEN entryDirty \/ Changed(w) ELSE progDirty
         /\ storeDirty' = (storeDirty \/ Wrote(w))
         /\ UNCHANGED <<entryDirty, file>>

CommitAs(fault) ==
  [Commit([ed EXCEPT !.ok = TRUE, !.fault = fault]) EXCEPT !.fault = "none"]

SaveKey(saved, fault) ==
  /\ session = "open"
  /\ UsesFault(fault)
  /\ SaveWith(CommitAs(fault), saved)
  /\ UNCHANGED <<program, session, texts, sessions>>

(* Wrong: on leaving, the changes the session began with are forgotten.    *)
LeaveForgetsEntry(fault, next) ==
  LET w == CommitAs(IF fault = "flag" THEN "none" ELSE fault)
      dirty == Changed(w)
      stored == storeDirty \/ Wrote(w)
      failed == fault = "flag" /\ stored # dirty
  IN  /\ session = "open"
      /\ UsesFault(fault)
      /\ ed' = w
      /\ IF ~w.ok THEN storeDirty' = stored /\ UNCHANGED <<progDirty, session>>
         ELSE IF failed
           THEN storeDirty' = stored /\ progDirty' = TRUE /\ UNCHANGED session
           ELSE storeDirty' = dirty /\ progDirty' = dirty
                  /\ session' = IF next = "asking" /\ ~dirty THEN "closed" ELSE next
      /\ UNCHANGED <<program, entryDirty, file, texts, sessions>>

\* Escape and Run write the working line back and record the flag first.
LeaveWith(fault, next) ==
  LET w == CommitAs(IF fault = "flag" THEN "none" ELSE fault)
      dirty == entryDirty \/ Changed(w)
      stored == storeDirty \/ Wrote(w)
      failed == fault = "flag" /\ stored # dirty
  IN  /\ session = "open"
      /\ UsesFault(fault)
      /\ ed' = w
      /\ IF ~w.ok THEN storeDirty' = stored /\ UNCHANGED <<progDirty, session>>
         ELSE IF failed
           THEN storeDirty' = stored /\ progDirty' = TRUE /\ UNCHANGED session
           ELSE storeDirty' = dirty /\ progDirty' = dirty
                  /\ session' = IF next = "asking" /\ ~dirty THEN "closed" ELSE next
      /\ UNCHANGED <<program, entryDirty, file, texts, sessions>>

EscapeKey(fault) == LeaveWith(fault, "asking")
RunKey(fault) == LeaveWith(fault, "closed")

\* confirm_exit: Save, Keep Unsaved, Cancel.
ConfirmSave(saved) ==
  /\ session = "asking"
  /\ SaveWith([ed EXCEPT !.ok = TRUE], saved)
  /\ session' = IF saved THEN "closed" ELSE "open"
  /\ UNCHANGED <<program, texts, faults, sessions>>

ConfirmOther(keep) ==
  /\ session = "asking"
  /\ session' = IF keep THEN "closed" ELSE "open"
  /\ UNCHANGED <<program, ed, entryDirty, progDirty, storeDirty, file, texts, faults, sessions>>

\* EDIT again, also at the line of an error: a new session on what the store
\* holds, without the history.
EditAgain(ready, n) ==
  /\ session = "closed" /\ sessions < program.sessions
  /\ session' = "open" /\ sessions' = sessions + 1
  /\ entryDirty' = (progDirty \/ storeDirty)
  /\ LET w == Begin([program EXCEPT !.doc = ed.doc], ready)
     IN  ed' = IF n > 0 THEN GotoLine(w, n) ELSE w
  /\ texts' = <<ed.doc>>
  /\ UNCHANGED <<program, progDirty, storeDirty, file, faults>>

Next ==
  \/ \E fault \in {"none", "push"} :
       \/ \E word \in Typeable : TypeKey(word, fault)
       \/ TabKey(fault) \/ OutdentKey(fault)
  \/ \E fault \in {"none", "push", "commit", "write"} :
       \/ BackspaceKey(fault) \/ DeleteKey(fault) \/ DeleteLineKey(fault)
       \/ \E n \in Numbers : EnterKey(n, fault) \/ InsertLineKey(n, fault)
  \/ \E fault \in {"none", "commit"} :
       \/ \E n \in Numbers : GotoKey(n, fault)
       \/ \E word \in Typeable : FindKey(word, fault)
       \/ ArrowKey(fault) \/ MatchKey(fault)
       \/ \E down \in BOOLEAN : PageKey(down, fault)
       \/ \E saved \in BOOLEAN : SaveKey(saved, fault)
  \/ \E fault \in {"none", "push", "pop", "commit", "write", "flag"} :
       UndoKey(fault) \/ RedoKey(fault)
  \/ \E fault \in {"none", "commit", "flag"} : EscapeKey(fault) \/ RunKey(fault)
  \/ \E saved \in BOOLEAN : ConfirmSave(saved)
  \/ \E keep \in BOOLEAN : ConfirmOther(keep)
  \/ \E ready \in {FALSE, program.depth > 0}, n \in Numbers \cup {0} : EditAgain(ready, n)

EditorSpec == Init /\ [][Next]_vars

-----------------------------------------------------------------------------
(***************************************************************************)
(* A state identity names one text (editor_model.hpp: "State IDs identify  *)
(* document contents, not edit depth"): whatever was typed, refused,       *)
(* undone and redone, what the user sees is the text its identity was      *)
(* given to, so an undo followed by a redo, or a failure in between, never *)
(* lands on a text that was not there.                                     *)
(***************************************************************************)
UndoIsExact == Text(ed) = texts[ed.state + 1]

(***************************************************************************)
(* The editor's own mark of a change is exact enough to be trusted: when   *)
(* it shows none, the text on the screen is the one in the file, also      *)
(* after an undo back to the saved state and edits along another branch.   *)
(***************************************************************************)
SavedMeansSaved == ~entryDirty /\ ~Changed(ed) => Text(ed) = file

(***************************************************************************)
(* A program left without the mark of a change is the one in the file:     *)
(* neither the store nor the prompt believes saved what no file holds,     *)
(* whichever way the editor was left.                                      *)
(***************************************************************************)
LeftAsMarked ==
  session = "closed" /\ (~storeDirty \/ ~progDirty) => ed.doc = file

(* The row the cursor is drawn on is the row of its text on the screen.    *)
CursorOnItsRow == CursorIsShown(ed)
=============================================================================

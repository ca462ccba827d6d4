------------------------------ MODULE EditorModel ------------------------------
(***************************************************************************)
(* The editor's model of the program (editor_model.cpp) and its history in *)
(* PSRAM (psram_editor_history.cpp).  The document holds the lines; the    *)
(* line under the cursor is a working copy of its own, written back when   *)
(* the cursor leaves it.  Undo and redo are two stacks of snapshots.       *)
(*                                                                         *)
(* The editor is a record w, an operation maps a record to the one it      *)
(* leaves.  w.ok says whether the operation has succeeded so far, and      *)
(* w.fault names the one call of it that fails: the "commit" of the        *)
(* working line, the "write" of another line, a "push" or a "pop" of the   *)
(* history.  Reads of the document do not fail here.                       *)
(***************************************************************************)
EXTENDS Naturals, Sequences, FiniteSets, TLC, SequencesExt, FiniteSetsExt

CONSTANT
  TabWidth       \* columns of a tab stop and of an indent step

-----------------------------------------------------------------------------
(* Where the screen shows the program and its cursor: every line wraps     *)
(* into rows of `columns` characters, and `visible` of those rows are on   *)
(* the screen, from `top` on.  A position is a line (from 1) and one of    *)
(* its rows (from 0); the cursor counts the characters before it.          *)

Body(w, line) == IF w.has /\ line = w.index THEN w.body ELSE w.doc[line].body

RowCount(w, line) == Max({1, (Len(Body(w, line)) + w.columns - 1) \div w.columns})

PositionBefore(left, right) ==
  \/ left.line < right.line
  \/ left.line = right.line /\ left.sub < right.sub

\* Every row of the program in order: stepping to the next or the previous
\* visual position walks along it.
VisualRows(w) ==
  FlattenSeq([line \in DOMAIN w.doc |->
    [row \in 1..RowCount(w, line) |-> [line |-> line, sub |-> row - 1]]])

RowsBefore(w, position) ==
  LET upTo[line \in 0..Len(w.doc)] ==
        IF line = 0 THEN 0 ELSE upTo[line - 1] + RowCount(w, line)
  IN  IF position.line \notin DOMAIN w.doc THEN upTo[Len(w.doc)]
      ELSE upTo[position.line - 1] + Min({position.sub, RowCount(w, position.line)})

CurrentPosition(w) ==
  [line |-> w.index,
   sub |-> IF w.cursor # 0 /\ w.cursor = Len(w.body) /\ w.cursor % w.columns = 0
             THEN w.cursor \div w.columns - 1
             ELSE w.cursor \div w.columns]

CursorColumn(w) == Min({w.cursor - w.columns * CurrentPosition(w).sub, w.columns - 1})

OnScreen(w, position) ==
  /\ ~PositionBefore(position, w.top)
  /\ RowsBefore(w, position) < RowsBefore(w, w.top) + w.visible

\* The cursor that a column asks for in a row: the last one of a full row
\* belongs to the next row, unless the line ends there.
CursorForRow(w, sub, column) ==
  LET start == sub * w.columns
      end == Min({Len(w.body), start + w.columns})
  IN  IF start >= Len(w.body) THEN Len(w.body)
      ELSE Min({start + column, IF end < Len(w.body) THEN end - 1 ELSE end})

FirstRow == [line |-> 1, sub |-> 0]

NormalizeTop(w) ==
  IF ~w.has \/ w.doc = <<>>
    THEN [w EXCEPT !.top = FirstRow, !.row = 0, !.shown = FALSE]
    ELSE LET line == Min({w.top.line, Len(w.doc)})
         IN  [w EXCEPT !.top = [line |-> line,
                                sub |-> Min({w.top.sub, RowCount(w, line) - 1})]]

EnsureCursorVisible(w) ==
  LET n == NormalizeTop(w)
      at == CurrentPosition(n)
      rows == VisualRows(n)
      here == RowsBefore(n, at)
      first == RowsBefore(n, n.top)
      back == Min({here, w.visible - 1})
  IN  CASE ~n.has -> n
        [] n.has /\ PositionBefore(at, n.top) ->
             [n EXCEPT !.top = at, !.row = 0, !.shown = TRUE]
        [] n.has /\ ~PositionBefore(at, n.top) /\ here < first + w.visible ->
             [n EXCEPT !.row = here - first, !.shown = TRUE]
        [] OTHER ->
             [n EXCEPT !.top = rows[here + 1 - back],
                       !.row = back, !.shown = TRUE]

(* Wrong: the screen follows the cursor one row after the last.            *)
FollowsOneRowLate(w, previous) ==
  LET at == CurrentPosition(w)
      rows == VisualRows(w)
      below == RowsBefore(w, w.top) + 2
  IN  CASE ~w.shown -> EnsureCursorVisible(w)
        [] w.shown /\ at = previous -> w
        [] w.shown /\ PositionBefore(at, previous) ->
             IF w.row # 0 THEN [w EXCEPT !.row = @ - 1] ELSE [w EXCEPT !.top = at]
        [] OTHER ->
             IF w.row < w.visible THEN [w EXCEPT !.row = @ + 1]
             ELSE [w EXCEPT !.top = IF below \in DOMAIN rows THEN rows[below] ELSE @]

\* After a step of one row, the screen follows without being searched.
UpdateNavigationView(w, previous) ==
  LET at == CurrentPosition(w)
      rows == VisualRows(w)
      below == RowsBefore(w, w.top) + 2
  IN  CASE ~w.shown -> EnsureCursorVisible(w)
        [] w.shown /\ at = previous -> w
        [] w.shown /\ PositionBefore(at, previous) ->
             IF w.row # 0 THEN [w EXCEPT !.row = @ - 1] ELSE [w EXCEPT !.top = at]
        [] OTHER ->
             IF w.row + 1 < w.visible THEN [w EXCEPT !.row = @ + 1]
             ELSE [w EXCEPT !.top = IF below \in DOMAIN rows THEN rows[below] ELSE @]

(***************************************************************************)
(* What the screen shows is where the cursor is: the row the editor keeps  *)
(* for the cursor, moved one by one while it navigates, is the row that    *)
(* counting from the top of the screen gives.                              *)
(***************************************************************************)
CursorIsShown(w) ==
  w.shown => /\ OnScreen(w, CurrentPosition(w))
             /\ w.row = RowsBefore(w, CurrentPosition(w)) - RowsBefore(w, w.top)

-----------------------------------------------------------------------------
(* The document and the history.                                           *)

(* A program is a sequence of numbered lines; in a structured one the      *)
(* number is the position.  A line is a sequence of words, each standing   *)
(* for the characters of it that matter: a space, a block word (Words), a  *)
(* colon, a comment, anything else.                                        *)
Modes == {"Classic", "Structured"}

Structured(w) == w.mode = "Structured"

\* What the editor keeps while the program is empty; it reads neither number
\* nor preferred column before it has set them for the next line.
NoLine == [has |-> FALSE, index |-> 1, number |-> 0, body |-> <<>>, cursor |-> 0,
           dirty |-> FALSE, preferred |-> 0, top |-> FirstRow, row |-> 0,
           shown |-> FALSE]

Empty(w) == [field \in DOMAIN w |->
               IF field \in DOMAIN NoLine THEN NoLine[field] ELSE w[field]]

Refuse(w) == [w EXCEPT !.ok = FALSE]

\* The program as the user sees it: the document with the working line in it.
Text(w) == [i \in DOMAIN w.doc |-> [w.doc[i] EXCEPT !.body = Body(w, i)]]

\* The lines are in the order of their numbers: how many come before n.
LinesBelow(doc, n) ==
  CHOOSE k \in 0..Len(doc) : \A i \in DOMAIN doc : doc[i].number < n <=> i <= k

Below(doc, n) == SubSeq(doc, 1, LinesBelow(doc, n))
Above(doc, n) == SubSeq(doc, LinesBelow(doc, n + 1) + 1, Len(doc))
Exact(doc, n) == \E i \in DOMAIN doc : doc[i].number = n
Locate(doc, n) == Max({1, Min({LinesBelow(doc, n) + 1, Len(doc)})})

-----------------------------------------------------------------------------
(* What the document does, all of it or nothing.                           *)

WithLine(doc, n, line) == Below(doc, n) \o line \o Above(doc, n)
Line(n, body) == <<[number |-> n, body |-> body]>>
LineIf(is, n, body) == IF is THEN Line(n, body) ELSE <<>>

WithRows(doc, first, removed, bodies) ==
  LET kept == [i \in DOMAIN doc |-> doc[i].body]
      all == SubSeq(kept, 1, first - 1) \o bodies
               \o SubSeq(kept, first + removed, Len(kept))
  IN  [i \in DOMAIN all |-> [number |-> i, body |-> all[i]]]

Write(w, doc) ==
  IF w.fault = "write" \/ Len(doc) > w.room THEN Refuse(w)
                                             ELSE [w EXCEPT !.doc = doc]

Commit(w) ==
  IF ~w.dirty THEN w
  ELSE IF w.fault = "commit" THEN Refuse(w)
  ELSE [w EXCEPT !.doc = WithLine(@, w.number, Line(w.number, w.body)),
                 !.dirty = FALSE]

LoadIndex(w, index, keepColumn, synchronize) ==
  LET line == w.doc[index]
      at == [w EXCEPT !.has = TRUE, !.index = index, !.number = line.number,
                      !.body = line.body, !.dirty = FALSE, !.cursor = 0,
                      !.preferred = IF keepColumn THEN @ ELSE 0]
      placed == [at EXCEPT !.cursor = IF keepColumn
                                        THEN CursorForRow(at, 0, at.preferred) ELSE 0]
  IN  IF index \notin DOMAIN w.doc THEN Refuse(w)
      ELSE IF synchronize THEN EnsureCursorVisible(placed) ELSE placed

PlaceCursor(w, cursor) ==
  LET at == [w EXCEPT !.cursor = Min({cursor, Len(w.body)})]
  IN  EnsureCursorVisible([at EXCEPT !.preferred = CursorColumn(at)])

-----------------------------------------------------------------------------
(* History: each state of the text has an identity of its own.             *)

\* Where a run of keys stands is kept only while there is one.
Grouped(w, group) ==
  [w EXCEPT !.group = group,
            !.groupLine = IF group = "None" THEN 0 ELSE w.number,
            !.groupCursor = IF group = "None" THEN 0 ELSE w.cursor]

HistoryBoundary(w) == Grouped(w, "None")

GroupMatches(w, group) ==
  w.group = group /\ w.has /\ w.groupLine = w.number /\ w.groupCursor = w.cursor

LineSnapshot(w) ==
  [kind |-> "line", state |-> w.state, number |-> w.number, index |-> w.index,
   body |-> w.body, cursor |-> w.cursor, existed |-> w.has]

\* capture_line: the line of that number, as the document has it.
CaptureLine(w, n) ==
  LET there == Exact(w.doc, n)
      at == LinesBelow(w.doc, n) + 1
  IN  [kind |-> "line", state |-> w.state, number |-> n, index |-> at,
       existed |-> there, body |-> IF there THEN w.doc[at].body ELSE <<>>,
       cursor |-> IF there /\ w.has /\ w.number = n
                    THEN Min({w.cursor, Len(w.doc[at].body)}) ELSE 0]

\* capture_other: with the second line of a split or a join.
CaptureOther(w, snapshot, n) ==
  [field \in DOMAIN snapshot \cup {"other", "otherBody", "otherExisted",
                                  "focus", "focusCursor"} |->
    CASE field = "kind" -> "pair"
      [] field = "other" -> n
      [] field = "otherExisted" -> Exact(w.doc, n)
      [] field = "otherBody" ->
           IF Exact(w.doc, n) THEN Body(w, Locate(w.doc, n)) ELSE <<>>
      [] field = "focus" -> w.number
      [] field = "focusCursor" -> w.cursor
      [] OTHER -> snapshot[field]]

(* Wrong: a snapshot takes the rows the document has, without the working  *)
(* one.                                                                    *)
CaptureStored(w, first, count, replaced) ==
  [kind |-> "rows", state |-> w.state, first |-> first, replace |-> replaced,
   rows |-> [i \in 1..count |-> w.doc[first + i - 1].body],
   focus |-> w.index, focusCursor |-> w.cursor]

\* capture_rows: rows of a structured program and how many replace them.
CaptureRows(w, first, count, replaced) ==
  [kind |-> "rows", state |-> w.state, first |-> first, replace |-> replaced,
   rows |-> [i \in 1..count |-> Body(w, first + i - 1)],
   focus |-> w.index, focusCursor |-> w.cursor]

Push(w, stack, snapshot) ==
  IF Len(stack) < w.depth THEN Append(stack, snapshot)
                          ELSE Append(Tail(stack), snapshot)

HistoryFault(w) == [w EXCEPT !.ready = FALSE, !.undo = <<>>, !.redo = <<>>]

RecordEdit(w, before, group) ==
  LET named == [Grouped(w, group) EXCEPT !.state = w.next, !.next = @ + 1]
  IN  IF ~w.ready THEN named
      ELSE IF w.fault = "push" THEN HistoryFault(named)
      ELSE [named EXCEPT !.redo = <<>>, !.undo = Push(w, @, before)]

Focus(w, index, cursor) ==
  IF w.doc = <<>> THEN Empty(w)
  ELSE PlaceCursor(LoadIndex(w, Min({index, Len(w.doc)}), FALSE, TRUE), cursor)

Restored(w, s) ==
  CASE s.kind = "rows" -> WithRows(w.doc, s.first, s.replace, s.rows)
    [] s.kind = "pair" -> WithLine(WithLine(w.doc, s.number,
                                            LineIf(s.existed, s.number, s.body)),
                                   s.other, LineIf(s.otherExisted, s.other, s.otherBody))
    [] s.kind = "line" -> WithLine(w.doc, s.number, LineIf(s.existed, s.number, s.body))

RestoreSnapshot(w, s) ==
  LET v == Write(w, Restored(w, s))
  IN  IF ~v.ok THEN v
      ELSE CASE s.kind = "rows" -> Focus(v, s.focus, s.focusCursor)
             [] s.kind = "pair" -> Focus(v, Locate(v.doc, s.focus), s.focusCursor)
             [] s.kind = "line" -> Focus(v, IF s.existed THEN Locate(v.doc, s.number) ELSE s.index,
                                         IF s.existed THEN s.cursor ELSE 0)

\* What takes the text back to where it is now.
Opposite(w, s) ==
  CASE s.kind = "rows" -> CaptureRows(w, s.first, s.replace, Len(s.rows))
    [] s.kind = "pair" -> CaptureOther(w, CaptureLine(w, s.number), s.other)
    [] s.kind = "line" -> CaptureLine(w, s.number)

\* from and to are the names of the two stacks.
ApplyHistory(w, from, to) ==
  LET bound == HistoryBoundary(w)
      v == Commit(bound)
      s == Last(v[from])
      back == Opposite(v, s)
      restored == RestoreSnapshot([v EXCEPT ![from] = Front(@)], s)
  IN  IF ~w.ready \/ w[from] = <<>> THEN Refuse(bound)
      ELSE IF ~v.ok THEN v
      ELSE IF v.fault = "pop" THEN Refuse(HistoryFault(v))
      ELSE IF ~restored.ok THEN [restored EXCEPT ![from] = v[from]]
      ELSE [(IF v.fault = "push" THEN HistoryFault(restored)
             ELSE [restored EXCEPT ![to] = Push(v, @, back)])
            EXCEPT !.state = s.state]

Undo(w) == ApplyHistory(w, "undo", "redo")
Redo(w) == ApplyHistory(w, "redo", "undo")

(* Wrong: a save in the middle of a run of keys does not end it.           *)
MarkSavedInRun(w) == [w EXCEPT !.saved = w.state]

MarkSaved(w) == [HistoryBoundary(w) EXCEPT !.saved = w.state]
Changed(w) == w.state # w.saved

-----------------------------------------------------------------------------
(* The block structure of a structured program: which rows open, close or  *)
(* divide a block, the row that matches another, and the indent a closing  *)
(* row takes.                                                              *)
(*                                                                         *)
(* A row is a sequence of words: a space, ":", "REM" for either kind of    *)
(* comment, a block word of Words, or any other text.  "IF" stands for the *)
(* IF and the condition up to THEN; it opens a block only when nothing     *)
(* follows it.                                                             *)

None == [kind |-> "none", action |-> "None"]

Boundary(kind, action) == [kind |-> kind, action |-> action]

Words ==
  "IF" :> Boundary("If", "Open") @@ "ELSEIF" :> Boundary("If", "Branch")
    @@ "ELSE" :> Boundary("If", "Else") @@ "END IF" :> Boundary("If", "Close")
    @@ "FOR" :> Boundary("For", "Open") @@ "NEXT" :> Boundary("For", "Close")
    @@ "WHILE" :> Boundary("While", "Open") @@ "WEND" :> Boundary("While", "Close")
    @@ "DO" :> Boundary("Do", "Open") @@ "LOOP" :> Boundary("Do", "Close")
    @@ "SELECT" :> Boundary("Select", "Open") @@ "CASE" :> Boundary("Select", "Branch")
    @@ "CASE ELSE" :> Boundary("Select", "Else")
    @@ "END SELECT" :> Boundary("Select", "Close")
    @@ "FUNCTION" :> Boundary("Function", "Open")
    @@ "END FUNCTION" :> Boundary("Function", "Close")
    @@ "SUB" :> Boundary("Sub", "Open") @@ "END SUB" :> Boundary("Sub", "Close")

IsBlank(word) == word = " "

\* The row up to its comment.
CodeOf(row) ==
  IF \E i \in DOMAIN row : row[i] = "REM"
    THEN SubSeq(row, 1, SelectInSeq(row, LAMBDA word : word = "REM") - 1)
    ELSE row

\* classify_boundary, for the statement that starts at i.
ClassifyBoundary(row, i) ==
  LET code == CodeOf(row)
      words == {j \in i..Len(code) : ~IsBlank(code[j])}
      at == CHOOSE j \in words : \A k \in words : j <= k
  IN  IF words = {} THEN None
      ELSE IF code[at] \notin DOMAIN Words THEN None
      ELSE IF code[at] = "IF" /\ (words # {at} \/ code # row) THEN None
      ELSE Words[code[at]]

\* The boundaries of a row's statements, in order.
Boundaries(row) ==
  LET code == CodeOf(row)
      starts == SelectSeq([i \in 1..Len(code) + 1 |-> i],
                          LAMBDA i : i = 1 \/ code[i - 1] = ":")
  IN  SelectSeq([k \in DOMAIN starts |-> ClassifyBoundary(row, starts[k])],
                LAMBDA boundary : boundary # None)

\* row_boundary: only a row of one statement is indented by itself.
RowBoundary(row) ==
  IF \E i \in DOMAIN CodeOf(row) : CodeOf(row)[i] = ":" THEN None
                                                    ELSE ClassifyBoundary(row, 1)

LeadingSpace(row) ==
  Cardinality({i \in DOMAIN row : \A j \in 1..i : IsBlank(row[j])})

-----------------------------------------------------------------------------
(* One pass over the program with a stack of the open blocks.              *)

Entry(row, boundary) == [row |-> row, kind |-> boundary.kind, seenElse |-> FALSE]

\* The boundaries of all rows, each with its row.
AllBoundaries(rows) ==
  FlattenSeq([i \in DOMAIN rows |->
    [k \in DOMAIN Boundaries(rows[i]) |-> <<i, Boundaries(rows[i])[k]>>]])

MatchStep(scan, at, row, boundary) ==
  LET open == scan.stack # <<>>
      top == Last(scan.stack)
      here == [scan EXCEPT !.count = @ + (IF row = at THEN 1 ELSE 0)]
      mate == IF row = at THEN top.row ELSE IF top.row = at THEN row ELSE here.target
  IN  CASE boundary.action = "Open" ->
             IF boundary.kind = "Function" /\ open
               THEN [here EXCEPT !.sound = FALSE]
               ELSE [here EXCEPT !.stack = Append(@, Entry(row, boundary))]
        [] boundary.action = "Close" ->
             IF ~open \/ top.kind # boundary.kind THEN [here EXCEPT !.sound = FALSE]
             ELSE [here EXCEPT !.target = mate, !.stack = Front(@)]
        [] OTHER ->
             IF ~open \/ top.kind # boundary.kind \/ top.seenElse
               THEN [here EXCEPT !.sound = FALSE]
               ELSE [here EXCEPT
                       !.target = IF row = at THEN top.row ELSE @,
                       !.stack[Len(scan.stack)].seenElse = (boundary.action = "Else")]

\* matching_block: the row the block word of row `at` belongs to, 0 for none.
MatchingBlock(rows, at) ==
  LET Step(scan, found) == IF scan.sound THEN MatchStep(scan, at, found[1], found[2])
                                         ELSE scan
      end == FoldLeft(Step, [stack |-> <<>>, target |-> 0, count |-> 0, sound |-> TRUE],
                      AllBoundaries(rows))
  IN  IF end.sound /\ end.stack = <<>> /\ end.count = 1 THEN end.target ELSE 0

\* matching_indent: the indent of the open block that `boundary` belongs to,
\* after the given rows, if they nest.
MatchingIndent(rows, boundary, step) ==
  LET Step(scan, found) ==
        IF ~scan.sound THEN scan
        ELSE IF found[2].action = "Open"
          THEN [scan EXCEPT !.stack = Append(@, found)]
        ELSE IF scan.stack = <<>> \/ Last(scan.stack)[2].kind # found[2].kind
          THEN [scan EXCEPT !.sound = FALSE]
        ELSE IF found[2].action = "Close" THEN [scan EXCEPT !.stack = Front(@)]
        ELSE scan
      end == FoldLeft(Step, [stack |-> <<>>, sound |-> TRUE], AllBoundaries(rows))
  IN  IF ~end.sound \/ end.stack = <<>> \/ Last(end.stack)[2].kind # boundary.kind
        THEN [found |-> FALSE, indent |-> 0]
        ELSE [found |-> TRUE,
              indent |-> LeadingSpace(rows[Last(end.stack)[1]])
                + (IF boundary.kind = "Select" /\ boundary.action # "Close"
                     THEN step ELSE 0)]

-----------------------------------------------------------------------------
(* A session.                                                              *)

NoTerm == "no search yet"

\* configure_viewport and begin: a new session on a program, its storage and
\* its screen, with a history if PSRAM gave one.
Begin(program, ready) ==
  LET fresh == [mode |-> program.mode, doc |-> program.doc, limit |-> program.limit,
                room |-> program.room,
                columns |-> program.columns, visible |-> program.visible,
                ok |-> TRUE, fault |-> "none",
                state |-> 0, saved |-> 0, next |-> 1, group |-> "None",
                groupLine |-> 0, groupCursor |-> 0,
                ready |-> ready, depth |-> program.depth,
                undo |-> <<>>, redo |-> <<>>, term |-> NoTerm]
      empty == [field \in DOMAIN fresh \cup DOMAIN NoLine |->
                  IF field \in DOMAIN fresh THEN fresh[field] ELSE NoLine[field]]
  IN  IF program.doc = <<>> THEN empty ELSE LoadIndex(empty, 1, FALSE, TRUE)

Rows(w) == [i \in DOMAIN w.doc |-> Body(w, i)]
Spaces(n) == [i \in 1..n |-> " "]
Before(w) == SubSeq(w.body, 1, w.cursor)
After(w) == SubSeq(w.body, w.cursor + 1, Len(w.body))

-----------------------------------------------------------------------------
(* Moving.                                                                 *)

MoveInLine(w, can, cursor) ==
  LET bound == HistoryBoundary(w)
      moved == [bound EXCEPT !.cursor = cursor]
      at == [moved EXCEPT !.preferred = CursorColumn(moved)]
  IN  IF w.has /\ can THEN UpdateNavigationView(at, CurrentPosition(w))
                      ELSE Refuse(bound)

MoveLeft(w) == MoveInLine(w, w.cursor > 0, w.cursor - 1)
MoveRight(w) == MoveInLine(w, w.cursor < Len(w.body), w.cursor + 1)

MoveToEdge(w, cursor) ==
  LET bound == HistoryBoundary(w)
  IN  IF w.has THEN PlaceCursor(bound, cursor) ELSE Refuse(bound)

MoveHome(w) == MoveToEdge(w, 0)
MoveEnd(w) == MoveToEdge(w, Len(w.body))

PlaceInRow(w, v, sub, incremental) ==
  LET wanted == [v EXCEPT !.preferred = w.preferred]
      at == [wanted EXCEPT !.cursor = CursorForRow(wanted, sub, w.preferred)]
  IN  IF incremental THEN UpdateNavigationView(at, CurrentPosition(w))
                     ELSE EnsureCursorVisible(at)

MoveToVisual(w, position, incremental) ==
  LET written == Commit(w)
      loaded == LoadIndex(written, position.line, FALSE, FALSE)
  IN  IF position.line = w.index THEN PlaceInRow(w, w, position.sub, incremental)
      ELSE IF ~written.ok THEN written
      ELSE IF ~loaded.ok THEN loaded
      ELSE PlaceInRow(w, loaded, position.sub, incremental)

\* Up and down one row; step is 1 row down or none, from one row back.
MoveVertical(w, down) ==
  LET bound == HistoryBoundary(w)
      rows == VisualRows(w)
      target == RowsBefore(w, CurrentPosition(w)) + (IF down THEN 2 ELSE 0)
  IN  IF w.has /\ target \in DOMAIN rows THEN MoveToVisual(bound, rows[target], TRUE)
                                         ELSE Refuse(bound)

\* A page scrolls the program and keeps the cursor on its row of the screen.
MovePage(w, down) ==
  LET bound == HistoryBoundary(w)
      rows == VisualRows(w)
      here == CurrentPosition(w)
      screenRow == IF OnScreen(w, here) THEN RowsBefore(w, here) - RowsBefore(w, w.top)
                                        ELSE 0
      top == RowsBefore(w, w.top) + 1
      newTop == IF down THEN Min({top + w.visible, Len(rows)})
                ELSE IF top > w.visible THEN top - w.visible ELSE 1
      target == Min({newTop + screenRow, Len(rows)})
      moved == MoveToVisual(bound, rows[target], FALSE)
  IN  IF ~w.has \/ newTop = top THEN Refuse(bound)
      ELSE IF ~moved.ok THEN moved
      ELSE EnsureCursorVisible([moved EXCEPT !.top = rows[newTop]])

\* Goto, and the search for the block that matches: write back, then go.
GoTo(w, index) ==
  LoadIndex([w EXCEPT !.preferred = 0], index, TRUE, TRUE)

GotoLine(w, n) ==
  LET v == Commit(HistoryBoundary(w))
  IN  IF ~v.ok THEN v
      ELSE IF v.doc = <<>> THEN Refuse(v) ELSE GoTo(v, Locate(v.doc, n))

MatchBlock(w) ==
  LET v == Commit(w)
      match == MatchingBlock(Rows(w), w.index)
  IN  IF ~Structured(w) \/ ~w.has \/ match = 0 THEN Refuse(w)
      ELSE IF ~v.ok THEN v
      ELSE GoTo(HistoryBoundary(v), match)

\* The first or the last word of the body within a range of cursors.
Found(body, from, to, term) == {at \in from..to : at < Len(body) /\ body[at + 1] = term}

Forward(w, skip) ==
  LET start(i) == IF i = w.index THEN w.cursor + skip ELSE 0
      hits(i) == Found(w.doc[i].body, start(i), Len(w.doc[i].body), w.term)
      lines == {i \in w.index..Len(w.doc) : hits(i) # {}}
  IN  IF lines = {} THEN Refuse(w)
      ELSE PlaceCursor(LoadIndex(w, Min(lines), FALSE, TRUE), Min(hits(Min(lines))))

Backward(w) ==
  LET end(i) == IF i = w.index THEN w.cursor ELSE Len(w.doc[i].body)
      hits(i) == {at \in Found(w.doc[i].body, 0, end(i), w.term) : at < end(i)}
      lines == {i \in 1..w.index : hits(i) # {}}
  IN  IF lines = {} THEN Refuse(w)
      ELSE PlaceCursor(LoadIndex(w, Max(lines), FALSE, TRUE), Max(hits(Max(lines))))

Find(w, term, next) ==
  LET bound == HistoryBoundary(w)
      v == Commit(bound)
  IN  IF ~w.has THEN Refuse(bound)
      ELSE IF ~v.ok THEN v
      ELSE IF ~next THEN Forward([v EXCEPT !.term = term], 0)
      ELSE IF v.term = NoTerm THEN Refuse(v)
      ELSE Forward(v, 1)

FindPrevious(w) ==
  LET bound == HistoryBoundary(w)
      v == Commit(bound)
  IN  IF ~w.has THEN Refuse(bound)
      ELSE IF ~v.ok THEN v
      ELSE IF v.term = NoTerm THEN Refuse(v)
      ELSE Backward(v)

-----------------------------------------------------------------------------
(* Typing in the working line.  A run of the same keys is one snapshot.    *)

Edited(w, body, cursor) ==
  LET e == [w EXCEPT !.body = body, !.cursor = cursor, !.dirty = TRUE]
  IN  [e EXCEPT !.preferred = CursorColumn(e)]

Typed(w, group, body, cursor) ==
  LET edited == Edited(w, body, cursor)
  IN  EnsureCursorVisible(
        IF GroupMatches(w, group) THEN [edited EXCEPT !.groupCursor = cursor]
                                  ELSE RecordEdit(edited, LineSnapshot(w), group))

InsertChar(w, word) ==
  IF ~w.has \/ Len(w.body) >= w.limit THEN Refuse(w)
  ELSE Typed(w, "Insert", Append(Before(w), word) \o After(w), w.cursor + 1)

\* A tab and an outdent are edits of their own.
EditAlone(w, body, cursor) ==
  EnsureCursorVisible(RecordEdit(Edited(w, body, cursor), LineSnapshot(w), "None"))

InsertTab(w) ==
  LET count == TabWidth - (w.cursor % TabWidth)
  IN  IF ~w.has \/ Len(w.body) + count > w.limit THEN Refuse(w)
      ELSE EditAlone(w, Before(w) \o Spaces(count) \o After(w), w.cursor + count)

Outdent(w) ==
  LET count == Min({TabWidth, LeadingSpace(w.body)})
  IN  IF ~Structured(w) \/ ~w.has THEN Refuse(w)
      ELSE IF count = 0 THEN w
      ELSE EditAlone(w, SubSeq(w.body, count + 1, Len(w.body)),
                     IF w.cursor > count THEN w.cursor - count ELSE 0)

-----------------------------------------------------------------------------
(* Lines: split, join, insert, delete.                                     *)

StructuredReplace(w, first, removed, rows, focus, cursor) ==
  LET v == Write(w, WithRows(w.doc, first, removed, rows))
  IN  IF ~v.ok THEN v
      ELSE Focus(RecordEdit(v, CaptureRows(w, first, removed, Len(rows)), "None"), focus, cursor)

\* replace_line_pair: the bodies of two numbered lines, in one transaction.
PairWritten(w, kept, keptBody, other, otherLine) ==
  Write(w, WithLine(WithLine(w.doc, kept, Line(kept, keptBody)), other, otherLine))

\* The line in hand becomes another one, already in the document.
OnLine(w, index, number, body, cursor) ==
  LET at == [w EXCEPT !.index = index, !.number = number, !.body = body,
                      !.cursor = cursor, !.dirty = FALSE]
  IN  [at EXCEPT !.preferred = CursorColumn(at)]

\* Enter at the end of a row indents the next one, and aligns a closing word
\* that was just typed with the row that opened its block.
SplitRow(w) ==
  LET boundary == RowBoundary(Before(w))
      divides == boundary.action \in {"Branch", "Else"}
      indent == LeadingSpace(w.body)
      mate == MatchingIndent(SubSeq(Rows(w), 1, w.index - 1), boundary, TabWidth)
      aligns == w.dirty /\ (divides \/ boundary.action = "Close") /\ mate.found
      left == IF aligns
                THEN Spaces(mate.indent) \o SubSeq(w.body, indent + 1, Len(w.body))
                ELSE w.body
      next == (IF aligns THEN mate.indent ELSE indent)
                + (IF divides \/ boundary.action = "Open" THEN TabWidth ELSE 0)
  IN  CASE w.cursor = 0 ->
             StructuredReplace(w, w.index, 1, <<<<>>, w.body>>, w.index, 0)
        [] w.cursor = Len(w.body) /\ w.cursor # 0 ->
             IF Len(left) > w.limit \/ next > w.limit THEN Refuse(w)
             ELSE StructuredReplace(w, w.index, 1, <<left, Spaces(next)>>,
                                    w.index + 1, next)
        [] OTHER ->
             StructuredReplace(w, w.index, 1, <<Before(w), After(w)>>, w.index + 1, 0)

\* n is free and between the lines it is to stand between.
NumberFits(w, n) ==
  IF w.cursor = 0
    THEN n < w.number /\ (w.index > 1 => n > w.doc[w.index - 1].number)
    ELSE n > w.number /\ (w.index < Len(w.doc) => n < w.doc[w.index + 1].number)

SplitNumbered(w, n) ==
  LET before == CaptureOther(w, LineSnapshot(w), n)
      written == IF w.cursor = 0
                   THEN PairWritten(w, w.number, w.body, n, Line(n, <<>>))
                   ELSE PairWritten(w, w.number, Before(w), n, Line(n, After(w)))
      landed == OnLine(written, IF w.cursor = 0 THEN w.index ELSE w.index + 1, n,
                       IF w.cursor = 0 THEN <<>> ELSE After(w), 0)
  IN  IF ~w.has \/ ~NumberFits(w, n) THEN Refuse(w)
      ELSE IF ~written.ok THEN written
      ELSE EnsureCursorVisible(RecordEdit(landed, before, "None"))

InsertNumbered(w, n) ==
  LET before == [CaptureLine(w, n) EXCEPT !.index = Locate(w.doc, n)]
      v == Write(w, WithLine(w.doc, n, Line(n, <<>>)))
  IN  IF Exact(w.doc, n) THEN Refuse(w)
      ELSE IF ~v.ok THEN v
      ELSE GoTo(RecordEdit(v, before, "None"), Locate(v.doc, n))

InsertLine(w, n) ==
  LET v == Commit(HistoryBoundary(w))
  IN  IF ~v.ok THEN v
      ELSE IF Structured(v) THEN StructuredReplace(v, v.index, 0, <<<<>>>>, v.index, 0)
      ELSE InsertNumbered(v, n)

SplitLine(w, n) ==
  LET bound == HistoryBoundary(w)
  IN  IF ~Structured(w) THEN SplitNumbered(bound, n)
      ELSE IF w.has THEN SplitRow(bound) ELSE InsertLine(bound, 0)

JoinLine(w, previous) ==
  LET bound == HistoryBoundary(w)
      other == IF previous THEN w.index - 1 ELSE w.index + 1
      n == w.doc[other].number
      body == w.doc[other].body
      joined == IF previous THEN body \o w.body ELSE w.body \o body
      seam == IF previous THEN Len(body) ELSE Len(w.body)
      index == Min({w.index, other})
      before == CaptureOther(w, LineSnapshot(w), n)
      kept == IF previous THEN n ELSE w.number
      gone == IF previous THEN w.number ELSE n
      written == PairWritten(bound, kept, joined, gone, <<>>)
  IN  IF ~w.has \/ other \notin DOMAIN w.doc THEN Refuse(bound)
      ELSE IF Len(joined) > w.limit THEN Refuse(bound)
      ELSE IF Structured(w)
        THEN StructuredReplace(bound, index, 2, <<joined>>, index, seam)
      ELSE IF ~written.ok THEN written
      ELSE EnsureCursorVisible(
             RecordEdit(OnLine(written, index, kept, joined, seam), before, "None"))

Backspace(w) ==
  IF ~w.has THEN Refuse(w)
  ELSE IF w.cursor = 0 THEN JoinLine(w, TRUE)
  ELSE Typed(w, "Backspace", Front(Before(w)) \o After(w), w.cursor - 1)

DeleteChar(w) ==
  IF ~w.has THEN Refuse(w)
  ELSE IF w.cursor >= Len(w.body) THEN JoinLine(w, FALSE)
  ELSE Typed(w, "Delete", Before(w) \o Tail(After(w)), w.cursor)

DeleteNumbered(w) ==
  LET v == Write(w, WithLine(w.doc, w.number, <<>>))
      recorded == RecordEdit(v, LineSnapshot(w), "None")
  IN  IF ~v.ok THEN v
      ELSE IF v.doc = <<>> THEN Empty(recorded)
      ELSE GoTo(recorded, Min({w.index, Len(v.doc)}))

DeleteLine(w) ==
  LET bound == HistoryBoundary(w)
      v == Commit(bound)
  IN  IF ~w.has THEN Refuse(bound)
      ELSE IF ~v.ok THEN v
      ELSE IF Structured(v) THEN StructuredReplace(v, v.index, 1, <<>>, v.index, 0)
      ELSE DeleteNumbered(v)
=============================================================================

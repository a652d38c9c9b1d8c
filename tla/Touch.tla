------------------------------- MODULE Touch -------------------------------
(***************************************************************************)
(* The hands on the board: the stroke recogniser (src/app/src/gestures.ts),*)
(* the paging session (paging.ts), the bookkeeping of presses and trailing *)
(* clicks (main.ts) and the action sheet (action-sheet.ts).                *)
(*                                                                         *)
(* One primary pointer; coordinates are reduced to what the recogniser     *)
(* makes of them.  What a tap, a flick or a sheet action asks of the       *)
(* registry is the business of BoardView and Registry.                     *)
(***************************************************************************)
EXTENDS Naturals, FiniteSets

CONSTANTS
    Card,          \* the interactive cards there may be
    Off,           \* no stroke, press, click, sheet or action
    LastPage,      \* pages are 0..LastPage
    MaxStrokes,    \* bound: strokes of the finger
    MaxSheets      \* bound: sheets opened and dismissals

Stroke == [moved : BOOLEAN, long : BOOLEAN, drag : BOOLEAN, vertical : BOOLEAN]
Sheet == [card : Card, sheet : 1..MaxSheets]

ASSUME TouchAssumption ==
    /\ {LastPage, MaxStrokes, MaxSheets} \subseteq Nat
    /\ Off \notin Card \cup Nat \cup {"act", "clear"} \cup Stroke \cup Sheet

Page == 0..LastPage
\* Open dismisses the sheet at once; Dismiss, Reveal and Copy alike ("act")
\* wait for an answer; Clear also, after a second tap.
Action == {"open", "act", "clear"}

VARIABLES
    grid,          \* the interactive cards of the page on the screen
    down,          \* the finger is on the panel
    count,         \* strokes so far
    stroke,        \* the recogniser: [moved, long, drag, vertical]
    press,         \* pendingPress: the card, and the stroke that captured it
    waiting,       \* pressAwaitingClick
    armed,         \* click suppression
    click,         \* a trailing click the browser still owes: its stroke, and was it clean
    scroll,        \* pendingScrollPress
    phase, target, \* the paging session: idle, dragging, settling; the verdict
    page,
    sheet,         \* the open sheet: its card, and which opening it is
    gen, clearArmed, pending,   \* SheetActionState
    flights,       \* actions whose settlement is out
    opened,        \* ghost: sheets opened so far
    lastTap        \* ghost: the previous tap on a sheet

strokes == <<down, count, stroke, press, waiting, armed, click, scroll>>
paging  == <<phase, target, page>>
actions == <<sheet, gen, clearArmed, pending, flights, opened, lastTap>>
touchVars == <<grid, strokes, paging, actions>>

Press == [card : Card, stroke : 0..MaxStrokes]
Flight == [gen : 0..MaxSheets, action : Action, card : Card, sheet : 1..MaxSheets]

TouchTypeOK ==
    /\ grid \subseteq Card /\ {down, armed, clearArmed} \subseteq BOOLEAN
    /\ count \in 0..MaxStrokes
    /\ stroke \in {Off} \cup Stroke
    /\ {press, waiting} \subseteq {Off} \cup Press
    /\ click \in {Off} \cup [stroke : 1..MaxStrokes, clean : BOOLEAN]
    /\ scroll \in {Off} \cup Card
    /\ phase \in {"idle", "dragging", "settling"} /\ {target, page} \subseteq Page
    /\ sheet \in {Off} \cup Sheet
    /\ gen \in 0..MaxSheets /\ opened \in 0..MaxSheets /\ pending \in {Off} \cup Action
    /\ flights \subseteq Flight /\ lastTap \in {Off} \cup [kind : Action, sheet : 1..MaxSheets]

TouchInit ==
    /\ grid = Card /\ down = FALSE /\ count = 0 /\ stroke = Off
    /\ press = Off /\ waiting = Off /\ armed = FALSE /\ click = Off /\ scroll = Off
    /\ phase = "idle" /\ target = 0 /\ page = 0
    /\ sheet = Off /\ gen = 0 /\ clearArmed = FALSE /\ pending = Off /\ flights = {}
    /\ opened = 0 /\ lastTap = Off

Fresh == [moved |-> FALSE, long |-> FALSE, drag |-> FALSE, vertical |-> FALSE]

-----------------------------------------------------------------------------
(***************************************************************************)
(* The action sheet.                                                       *)
(***************************************************************************)
\* advanceSheetGeneration
AdvanceGeneration == /\ gen < MaxSheets
                     /\ gen' = gen + 1 /\ clearArmed' = FALSE /\ pending' = Off

\* openActionSheetFor: a card that left the grid opens nothing.
OpenSheet(card) ==
    IF card \in grid
    THEN /\ AdvanceGeneration
         /\ opened' = opened + 1 /\ sheet' = [card |-> card, sheet |-> opened + 1]
         /\ UNCHANGED <<flights, lastTap>>
    ELSE UNCHANGED actions

\* Backdrop, Escape, and the Open action.
Dismiss == AdvanceGeneration /\ sheet' = Off
DismissSheet ==
    /\ sheet # Off
    /\ Dismiss
    /\ UNCHANGED <<grid, strokes, paging, flights, opened, lastTap>>

\* runSheetAction with beginSheetAction.  Reveal and Copy on a sheet whose
\* button should have been disabled by now dismiss it without asking.
SheetTap(id) ==
    /\ sheet # Off
    /\ lastTap' = [kind |-> id, sheet |-> sheet.sheet]
    /\ \/ /\ pending # Off
          /\ UNCHANGED <<sheet, gen, clearArmed, pending, flights>>
       \/ /\ pending = Off /\ id = "clear" /\ ~clearArmed
          /\ clearArmed' = TRUE
          /\ UNCHANGED <<sheet, gen, pending, flights>>
       \/ /\ pending = Off /\ id \in {"open", "act"}
          /\ Dismiss
          /\ UNCHANGED flights
       \/ /\ pending = Off /\ (id = "act" \/ (id = "clear" /\ clearArmed))
          /\ clearArmed' = FALSE /\ pending' = id
          /\ flights' = flights \cup {[gen |-> gen, action |-> id, card |-> sheet.card,
                                       sheet |-> sheet.sheet]}
          /\ UNCHANGED <<sheet, gen>>
    /\ UNCHANGED <<grid, strokes, paging, opened>>

\* Mutant: a settlement acts on whatever sheet is open.
OwnsAnySheet(f) == sheet # Off
OwnsSheet(f) == f.gen = gen

\* applySheetSettlement: success closes the sheet, failure opens it again.
SheetSettles(f, ok) ==
    /\ flights' = flights \ {f}
    /\ \/ /\ ~OwnsSheet(f)
          /\ UNCHANGED <<sheet, gen, clearArmed, pending>>
       \/ /\ OwnsSheet(f) /\ ok
          /\ Dismiss
       \/ /\ OwnsSheet(f) /\ ~ok
          /\ pending' = Off /\ sheet' = [card |-> f.card, sheet |-> f.sheet]
          /\ UNCHANGED <<gen, clearArmed>>
    /\ UNCHANGED <<grid, strokes, paging, opened, lastTap>>

-----------------------------------------------------------------------------
(***************************************************************************)
(* Paging.                                                                 *)
(***************************************************************************)
Beside(to) == to \in Page /\ (to = page + 1 \/ to + 1 = page)

\* pagingSession.start: refused unless idle.
StartDrag == IF phase = "idle" THEN phase' = "dragging" ELSE UNCHANGED phase
\* release: a verdict only for the session's own drag; commit or snap back.
ReleaseDrag(from) ==
    IF from = "dragging"
    THEN phase' = "settling" /\ (target' = page \/ \E to \in Page : Beside(to) /\ target' = to)
    ELSE phase' = from /\ UNCHANGED target
CancelDrag ==
    IF phase = "dragging" THEN phase' = "settling" /\ target' = page
                          ELSE UNCHANGED <<phase, target>>

\* finishSettle's done: the jump, then whatever snapshot was held back.
Settled ==
    /\ phase = "settling"
    /\ phase' = "idle" /\ page' = target
    /\ grid' \in SUBSET Card
    /\ UNCHANGED <<strokes, target, actions>>

\* A snapshot lands only between gestures (BoardView's latch).
Snapshot ==
    /\ phase = "idle"
    /\ grid' \in SUBSET Card \ {grid}
    /\ UNCHANGED <<strokes, paging, actions>>

-----------------------------------------------------------------------------
(***************************************************************************)
(* Strokes.                                                                *)
(***************************************************************************)
Captured(card) == IF card = Off THEN Off ELSE [card |-> card, stroke |-> count + 1]

\* The capture-phase bookkeeping, then the recogniser's down.
PointerDown(card) ==
    /\ ~down /\ sheet = Off /\ count < MaxStrokes
    /\ down' = TRUE /\ count' = count + 1
    /\ armed' = FALSE /\ waiting' = Off /\ click' = Off
    /\ press' = Captured(card)
    /\ stroke' = IF stroke = Off THEN Fresh ELSE stroke
    /\ UNCHANGED <<grid, scroll, paging, actions>>

\* A move past the slop; past the lock threshold the axes race.
MoveTo(moved) ==
    /\ down /\ stroke # Off /\ ~stroke.long
    /\ stroke' = moved
    /\ UNCHANGED <<grid, down, count, press, waiting, armed, click, scroll, page, target, actions>>
Undecided == stroke # Off /\ ~stroke.drag /\ ~stroke.vertical
MoveSlop       == MoveTo([stroke EXCEPT !.moved = TRUE]) /\ UNCHANGED phase
MoveVertical   == /\ Undecided /\ UNCHANGED phase
                  /\ MoveTo([stroke EXCEPT !.moved = TRUE, !.vertical = TRUE])
MoveHorizontal == /\ Undecided /\ StartDrag
                  /\ MoveTo([stroke EXCEPT !.moved = TRUE, !.drag = TRUE])

\* handleGestureIntents, longpress: the stroke is closed before the sheet
\* takes the pointer, its click stays swallowed.
LongPressOn(held) ==
    /\ press' = Off /\ stroke' = Off /\ armed' = TRUE
    /\ OpenSheet(held.card)

\* The long-press deadline; on no card the stroke just goes on.
LongPressTick ==
    /\ stroke # Off /\ ~stroke.moved /\ ~stroke.long /\ ~stroke.drag
    /\ IF press # Off THEN LongPressOn(press)
       ELSE stroke' = [stroke EXCEPT !.long = TRUE] /\ UNCHANGED <<press, armed, actions>>
    /\ UNCHANGED <<grid, down, count, waiting, click, scroll, paging>>

\* contextmenu: the platform's own hold, with or without a stroke.
ContextMenu(card) ==
    LET held == IF card = Off THEN press ELSE [card |-> card, stroke |-> count]
    IN  /\ sheet = Off
        /\ IF stroke # Off /\ (stroke.long \/ stroke.drag \/ stroke.moved)
           THEN press' = held /\ UNCHANGED <<stroke, armed, actions>>
           ELSE IF held # Off THEN /\ press' = Off /\ stroke' = Off
                                   /\ armed' = (armed \/ stroke # Off)
                                   /\ OpenSheet(held.card)
           ELSE /\ stroke' = IF stroke = Off THEN Off ELSE [stroke EXCEPT !.long = TRUE]
                /\ UNCHANGED <<press, armed, actions>>
        /\ UNCHANGED <<grid, down, count, waiting, click, scroll, paging>>

\* After the intents of an up: what the stroke did not consume waits for the
\* trailing click, which a touch drag never gets.
Lift(consumed, clean) ==
    /\ down /\ down' = FALSE /\ stroke' = Off
    /\ armed' = (armed \/ (stroke # Off /\ ~clean))
    /\ waiting' = IF consumed THEN Off ELSE press
    /\ press' = Off
    /\ click' \in {Off, [stroke |-> count, clean |-> clean]}
    /\ UNCHANGED <<grid, count, scroll, page, actions>>
Up(how) == IF stroke = Off THEN how = "stray" ELSE
           CASE stroke.long -> how = "long"
             [] stroke.drag -> how = "drag"
             [] OTHER -> how \in {"flick", "moved"} \cup (IF stroke.vertical THEN {} ELSE {"drag"})
                                \cup (IF stroke.moved THEN {} ELSE {"clean"})
PointerUp(how) ==
    /\ Up(how)
    /\ Lift(how = "flick", how = "clean")
    /\ IF how = "drag"
       THEN ReleaseDrag(IF ~stroke.drag /\ phase = "idle" THEN "dragging" ELSE phase)
       ELSE UNCHANGED <<phase, target>>

\* Mutant: the recogniser forgets the stroke and says nothing of its drag.
CancelWithoutRelease ==
    /\ stroke' = Off /\ press' = Off
    /\ UNCHANGED <<grid, count, armed, scroll, paging, actions>>

\* pointercancel ends the stroke and its presses; losing the capture or the
\* window's focus leaves the press that waits for its click.
CancelStroke ==
    /\ stroke' = Off /\ press' = Off
    /\ IF stroke # Off /\ stroke.drag THEN CancelDrag ELSE UNCHANGED <<phase, target>>
    /\ UNCHANGED <<grid, count, armed, scroll, page, actions>>
PointerCancel == down /\ down' = FALSE /\ waiting' = Off /\ click' = Off /\ CancelStroke
CaptureLost   == stroke # Off /\ UNCHANGED <<down, waiting, click>> /\ CancelStroke

-----------------------------------------------------------------------------
(***************************************************************************)
(* Clicks and scroll bursts.                                               *)
(***************************************************************************)
\* Mutant: the click is not asked whether it was suppressed.
ClickUnsuppressed ==
    /\ click # Off /\ sheet = Off
    /\ click' = Off /\ armed' = FALSE
    /\ waiting' = Off
    /\ UNCHANGED <<grid, down, count, stroke, press, scroll, paging, actions>>

\* The trailing click of a stroke: swallowed when armed, otherwise
\* onSurfaceClick settles the press that waits.
TrailingClick ==
    /\ click # Off /\ sheet = Off
    /\ click' = Off /\ armed' = FALSE
    /\ waiting' = IF armed THEN waiting ELSE Off
    /\ UNCHANGED <<grid, down, count, stroke, press, scroll, paging, actions>>
\* It may also land on the sheet that opened in the meantime.
ClickOnSheet ==
    /\ click # Off /\ sheet # Off
    /\ click' = Off
    /\ UNCHANGED <<grid, down, count, stroke, press, waiting, armed, scroll, paging, actions>>

Turn(to) == IF phase = "idle" /\ Beside(to) THEN page' = to /\ grid' \in SUBSET Card
                                            ELSE UNCHANGED <<page, grid>>
\* A band activated from the keyboard: no pointer, so it is never swallowed;
\* it turns the page and bubbles to onSurfaceClick.
KeyClick(to) ==
    /\ sheet = Off /\ ~down /\ to \in Page
    /\ armed' = FALSE /\ waiting' = Off
    /\ Turn(to)
    /\ UNCHANGED <<down, count, stroke, press, click, scroll, phase, target, actions>>
\* A pip: its press passes the bookkeeping and no recogniser.
PipTap(to) ==
    /\ sheet = Off /\ ~down /\ to \in Page
    /\ armed' = FALSE /\ waiting' = Off /\ click' = Off
    /\ Turn(to)
    /\ UNCHANGED <<down, count, stroke, press, scroll, phase, target, actions>>

\* A translated scroll burst: the card at its first sample, then one verdict.
ScrollStarts(card) ==
    /\ sheet = Off
    /\ scroll' = card
    /\ UNCHANGED <<grid, down, count, stroke, press, waiting, armed, click, paging, actions>>
ScrollPages(to) ==
    /\ scroll # Off /\ scroll' = Off
    /\ Turn(to)
    /\ UNCHANGED <<down, count, stroke, press, waiting, armed, click, phase, target, actions>>
ScrollFlicks ==
    /\ scroll # Off /\ scroll' = Off
    /\ UNCHANGED <<grid, down, count, stroke, press, waiting, armed, click, paging, actions>>

-----------------------------------------------------------------------------
Under == grid \cup {Off}
TouchNext ==
    \/ \E card \in Under : PointerDown(card) \/ ContextMenu(card)
    \/ MoveSlop \/ MoveVertical \/ MoveHorizontal
    \/ LongPressTick
    \/ \E how \in {"stray", "long", "drag", "flick", "moved", "clean"} : PointerUp(how)
    \/ PointerCancel \/ CaptureLost
    \/ TrailingClick \/ ClickOnSheet
    \/ \E to \in Page : KeyClick(to) \/ PipTap(to) \/ ScrollPages(to)
    \/ \E card \in grid : ScrollStarts(card)
    \/ ScrollFlicks
    \/ Settled \/ Snapshot
    \/ DismissSheet
    \/ \E id \in Action : SheetTap(id)
    \/ \E f \in flights, ok \in BOOLEAN : SheetSettles(f, ok)
TouchSpec == TouchInit /\ [][TouchNext]_touchVars

-----------------------------------------------------------------------------
(***************************************************************************)
(* Properties.                                                             *)
(***************************************************************************)

\* A pointer's click settles the press of its own stroke, and only when that
\* stroke neither moved nor was held: no press survives to be settled by a
\* later one.
SettlesOwnStroke == TrailingClick /\ waiting # Off /\ waiting' = Off
                        => click.clean /\ waiting.stroke = click.stroke
\* No press is settled by the click of another stroke.
ClickSettlesItsOwnStroke == [][SettlesOwnStroke]_touchVars

\* Snapshots wait while a drag owns the board, so a drag always has a live
\* stroke that will end it.
DragHasItsStroke == phase = "dragging" => stroke # Off /\ stroke.drag

\* What was meant for one sheet never reaches another: an answer that comes
\* late closes or reopens no sheet but the one it was asked from, and Clear
\* goes out on the second of two taps in a row on one and the same sheet.
AnswersReachTheirSheet ==
    /\ \A f \in flights \ flights' :
          sheet' # sheet \/ pending' # pending => sheet # Off /\ sheet.sheet = f.sheet
    /\ \A f \in flights' \ flights :
          f.action = "clear" => lastTap = [kind |-> "clear", sheet |-> f.sheet]
\* No answer and no tap meant for one sheet moves another.
SheetsKeepApart == [][AnswersReachTheirSheet]_touchVars
=============================================================================

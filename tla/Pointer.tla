------------------------------ MODULE Pointer ------------------------------
(***************************************************************************)
(* The pointer and the fingers over a terminal (render/terminal_view.rs,   *)
(* ui/events.rs on_terminal): which presses, motions and releases go to    *)
(* the program and which select text, and what a finger scrolls.           *)
(*                                                                         *)
(* The terminal is one row of cells; a place before the first or after the *)
(* last is outside.  Commands are taken to be applied at once, for they    *)
(* arrive in order (SessionCommands); what a word, a line or a block       *)
(* selects is the engine's, as is what a selection does when text scrolls. *)
(***************************************************************************)
EXTENDS Integers, FiniteSetsExt

CONSTANTS
  Columns,
  Fingers, Heights,  \* where a finger may be, in pixels
  TapSlop            \* TAP_SLOP

ASSUME PointerAssumption ==
  Columns \in Nat \ {0} /\ Heights \subseteq Nat /\ TapSlop \in Nat \ {0}

VARIABLES
  pointer,    \* its place
  modifiers,  \* ViewState::modifiers
  reporting,  \* the program has asked for the mouse, as the snapshot says
  dragging, clicks,  \* ViewState: dragging, and the count of last_press
  selection, copied,
  touch,      \* the finger that is tracked
  fingers,    \* finger -> its height, or Up
  copy_on_select, touch_scroll,  \* settings
  gesture,    \* auxiliary: the left button selects: none, plain, shift; done
  scrolled, start  \* auxiliary: what the tracked finger scrolled, and from where
mouseVars == <<pointer, modifiers, reporting, dragging, clicks>>
touchVars == <<touch, fingers, scrolled, start>>
pointerVars ==
  <<mouseVars, touchVars, selection, copied, copy_on_select, touch_scroll, gesture>>

Cells == 1..Columns
Places == 0..(Columns + 1)
CursorOver == pointer \in Cells
CellAt(place) == Max({1, Min({Columns, place})})

Up == -1
NoSelection == [is |-> FALSE, kind |-> "simple", from |-> 1, to |-> 1]
NoTouch == [is |-> FALSE, finger |-> "", last |-> 0, moved |-> FALSE]

PointerInit ==
  /\ pointer = 0 /\ modifiers = {} /\ reporting = FALSE /\ dragging = FALSE /\ clicks = 0
  /\ selection \in {NoSelection, [NoSelection EXCEPT !.is = TRUE]} /\ copied = NoSelection
  /\ touch = NoTouch /\ fingers = [f \in Fingers |-> Up]
  /\ copy_on_select \in BOOLEAN /\ touch_scroll \in BOOLEAN
  /\ gesture = "none" /\ scrolled = 0 /\ start = 0

(* report_mouse, to its answer: what it writes is in TerminalInput.        *)
Reported(button, shift) == ~shift /\ reporting /\ button \in {"left", "right"}

(***************************************************************************)
(* The mouse                                                               *)
(***************************************************************************)
Kind(count) ==
  CASE count = 2 -> "word" [] count = 3 -> "line"
    [] OTHER -> IF "alt" \in modifiers THEN "block" ELSE "simple"

(* press: `soon` and in the row of the press before, by whatever button.   *)
ButtonPressed(button, soon) ==
  LET shift == "shift" \in modifiers  at == CellAt(pointer)
  IN /\ CursorOver
     /\ clicks' = IF soon /\ clicks \in 1..2 THEN clicks + 1 ELSE 1
     /\ dragging' = (button = "left")
     /\ selection' = IF button = "left" /\ ~Reported(button, shift)
                     THEN [is |-> TRUE, kind |-> Kind(clicks'), from |-> at, to |-> at]
                     ELSE selection
     /\ gesture' = IF button # "left" THEN "none" ELSE IF shift THEN "shift"
                   ELSE IF reporting THEN "none" ELSE "plain"
     /\ UNCHANGED <<pointer, modifiers, reporting, touchVars, copied, copy_on_select, touch_scroll>>

(* update_selection does nothing without a selection.                      *)
Dragged(at) ==
  IF dragging /\ ~Reported("left", FALSE) /\ selection.is THEN [selection EXCEPT !.to = at]
  ELSE selection
CursorMoved(place) ==
  /\ place # pointer
  /\ pointer' = place /\ selection' = Dragged(CellAt(place))
  /\ UNCHANGED <<modifiers, reporting, dragging, clicks, touchVars, copied, copy_on_select,
                 touch_scroll, gesture>>

ButtonReleased(button) ==
  /\ dragging \/ CursorOver
  /\ dragging' = FALSE
  /\ copied' = IF button = "left" /\ ~Reported(button, FALSE) /\ copy_on_select THEN selection
               ELSE copied
  /\ gesture' = IF button = "left" /\ gesture = "plain" THEN "done" ELSE "none"
  /\ UNCHANGED <<pointer, modifiers, reporting, clicks, touchVars, selection, copy_on_select,
                 touch_scroll>>

ModifiersChanged(mods) ==
  /\ modifiers' = mods
  /\ UNCHANGED <<pointer, reporting, dragging, clicks, touchVars, selection, copied,
                 copy_on_select, touch_scroll, gesture>>

(* A snapshot with other modes arrives, in the middle of a drag as well.   *)
ModesChange ==
  /\ reporting' = ~reporting
  /\ gesture' = IF gesture = "shift" THEN gesture ELSE "none"
  /\ UNCHANGED <<pointer, modifiers, dragging, clicks, touchVars, selection, copied,
                 copy_on_select, touch_scroll>>

MouseNext ==
  \/ \E button \in {"left", "right", "other"} :
       ButtonReleased(button) \/ \E soon \in BOOLEAN : ButtonPressed(button, soon)
  \/ \E place \in Places : CursorMoved(place)
  \/ \E mods \in SUBSET {"shift", "alt"} : ModifiersChanged(mods)
  \/ ModesChange

(***************************************************************************)
(* Fingers                                                                 *)
(***************************************************************************)
FingerPressed(f, y, inside) ==
  /\ fingers[f] = Up
  /\ fingers' = [fingers EXCEPT ![f] = y]
  /\ IF inside /\ ~touch.is
       THEN /\ touch' = [is |-> TRUE, finger |-> f, last |-> y, moved |-> FALSE]
            /\ start' = y /\ scrolled' = 0
       ELSE UNCHANGED <<touch, start, scrolled>>
  /\ UNCHANGED <<mouseVars, selection, copied, copy_on_select, touch_scroll, gesture>>

Abs(n) == IF n < 0 THEN -n ELSE n

(* A finger within the slop has not moved yet, and nothing of it is lost.  *)
Tracked(y) ==
  IF touch.moved \/ Abs(y - touch.last) >= TapSlop THEN [touch EXCEPT !.moved = TRUE, !.last = y]
  ELSE touch
FingerMoved(f, y) ==
  /\ fingers[f] \notin {Up, y}
  /\ fingers' = [fingers EXCEPT ![f] = y]
  /\ touch' = IF touch.is /\ touch.finger = f THEN Tracked(y) ELSE touch
  /\ scrolled' = IF touch'.moved /\ touch_scroll THEN scrolled + (touch'.last - touch.last)
                 ELSE scrolled
  /\ UNCHANGED <<mouseVars, start, selection, copied, copy_on_select, touch_scroll, gesture>>

(* The track ends with whichever finger is lifted; a tap clears the        *)
(* selection.                                                              *)
FingerLifted(f) ==
  /\ fingers[f] # Up
  /\ fingers' = [fingers EXCEPT ![f] = Up]
  /\ touch' = NoTouch
  /\ IF touch.is /\ touch.finger = f /\ ~touch.moved
       THEN selection' = NoSelection /\ gesture' = "none"
       ELSE UNCHANGED <<selection, gesture>>
  /\ UNCHANGED <<mouseVars, scrolled, start, copied, copy_on_select, touch_scroll>>

TouchNext ==
  \E f \in Fingers :
    \/ FingerLifted(f)
    \/ \E y \in Heights : FingerMoved(f, y) \/ \E inside \in BOOLEAN : FingerPressed(f, y, inside)

(***************************************************************************)
(* Properties                                                              *)
(***************************************************************************)
(* A drag of the left button that the program has not asked for selects up *)
(* to the pointer, outside the terminal too, and is what is copied; what a *)
(* finger scrolls is how far it moved, and a tap is a finger that did not. *)
PointerFollowed ==
  /\ gesture = "plain" => dragging /\ selection.is /\ selection.to = CellAt(pointer)
  /\ gesture = "done" /\ copy_on_select => copied = selection
  /\ touch.is =>
       LET distance == fingers[touch.finger] - start
       IN IF touch.moved THEN scrolled = IF touch_scroll THEN distance ELSE 0
          ELSE scrolled = 0 /\ Abs(distance) < TapSlop

(* report_mouse: "Shift bypasses reporting so local selection always       *)
(* works": a drag that began with Shift selects up to the pointer.         *)
ShiftSelects == gesture = "shift" => selection.is /\ selection.to = CellAt(pointer)
=============================================================================

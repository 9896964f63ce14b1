--------------------------- MODULE OnScreenKeyboard ---------------------------
(***************************************************************************)
(* The on-screen keyboard (osk/state.rs): modifiers that hold for one key, *)
(* caps lock, and the key presses it makes, which are routed like those of *)
(* a real keyboard (ui/commands.rs on_osk).                                *)
(***************************************************************************)
EXTENDS TerminalInput

CONSTANTS
  Keys,      \* the keys of the layout
  Keyboards  \* layouts that settings may choose

ModifierKey(m) == [kind |-> "modifier", of |-> m, base |-> 0, shifted |-> 0]
CapsKey == [kind |-> "caps", of |-> "", base |-> 0, shifted |-> 0]
NamedKey(n) == [kind |-> "named", of |-> n, base |-> 0, shifted |-> 0]
TextKey(base, shifted) == [kind |-> "text", of |-> "", base |-> base, shifted |-> shifted]

(* validate_text, named_from_str: a layout has been validated.  The named  *)
(* keys it may have are those of a shortcut, but for insert.               *)
ASSUME KeysAssumption ==
  \A key \in Keys :
    \/ key \in {ModifierKey("shift"), ModifierKey("ctrl"), ModifierKey("alt"), CapsKey}
    \/ key.of \in NAMED_KEYS \ {"insert"} /\ key = NamedKey(key.of)
    \/ /\ key = TextKey(key.base, key.shifted)
       /\ key.base \in Nat /\ key.shifted \in Nat
       /\ ~IsControl(key.base) /\ (key.shifted # 0 => ~IsControl(key.shifted))

VARIABLES
  layout,  \* the layout that is shown, "hidden" without a keyboard
  held,    \* shift, ctrl and alt
  caps,
  typed    \* auxiliary: the last key, what was held, what it made
oskVars == <<layout, held, caps, typed>>

NoPress == [key |-> [named |-> "", char |-> 0], mods |-> {}, text |-> <<>>]
Nothing == [key |-> CapsKey, held |-> {}, caps |-> FALSE, press |-> NoPress]

OskInit ==
  /\ layout \in Keyboards \cup {"hidden"}
  /\ held = {} /\ caps = FALSE /\ typed = Nothing

(* is_cased, output_text: caps lock turns shift round for letters only.    *)
IsCased(c) == UpperOf(c) # LowerOf(c)
OutputText(base, shifted) ==
  LET upper == IF IsCased(base) THEN ("shift" \in held) # caps ELSE "shift" \in held
  IN IF ~upper THEN base
     ELSE IF shifted # 0 THEN shifted
     ELSE IF IsCased(base) THEN UpperOf(base) ELSE base

TextAlways(base, shifted) == <<OutputText(base, shifted)>>
TextSent(base, shifted) ==
  IF {"ctrl", "alt"} \subseteq held THEN <<>> ELSE <<OutputText(base, shifted)>>

PressOf(key) ==
  IF key.kind = "text"
    THEN [key |-> [named |-> "", char |-> LowerOf(key.base)], mods |-> held,
          text |-> TextSent(key.base, key.shifted)]
    ELSE [key |-> [named |-> key.of, char |-> 0], mods |-> held,
          text |-> IF key.of = "space" THEN <<32>> ELSE <<>>]

(* press: a modifier or caps makes no key press, every other key does, and *)
(* lets the modifiers go.                                                  *)
Toggled(m) == IF m \in held THEN held \ {m} ELSE held \cup {m}
Press(key) ==
  /\ layout # "hidden"
  /\ CASE key.kind = "modifier" -> held' = Toggled(key.of) /\ UNCHANGED <<caps, typed>>
       [] key.kind = "caps" -> caps' = ~caps /\ UNCHANGED <<held, typed>>
       [] OTHER -> /\ typed' = [key |-> key, held |-> held, caps |-> caps, press |-> PressOf(key)]
                   /\ held' = {}
                   /\ UNCHANGED caps
  /\ UNCHANGED layout

(* Shown, hidden, or given another layout by settings: it starts afresh.   *)
ShowKeyboard(l) ==
  /\ l # layout /\ layout' = l
  /\ held' = {} /\ caps' = FALSE
  /\ UNCHANGED typed

OskNext ==
  \/ \E key \in Keys : Press(key)
  \/ \E l \in Keyboards \cup {"hidden"} : ShowKeyboard(l)
=============================================================================

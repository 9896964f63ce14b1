---------------------------- MODULE TerminalInput ----------------------------
(***************************************************************************)
(* What keys, pastes and the pointer send to the program in the terminal   *)
(* (ui/input.rs, terminal-core/src/input.rs, ui/events.rs).  A key is      *)
(* [named, char]: a name and 0, or "" and a code point; a press adds its   *)
(* modifiers and the text the toolkit committed.  What is sent is the      *)
(* sequence of its bytes, in a set of at most one.                         *)
(***************************************************************************)
EXTENDS Keymap

CONSTANT MaxPaste  \* MAX_PASTE_BYTES

ASSUME PasteAssumption == MaxPaste \in Nat

ESC == 27

(* Code points below 2^11, and numbers below 1000.                         *)
Utf8(c) == IF c < 128 THEN <<c>> ELSE <<192 + (c \div 64), 128 + (c % 64)>>
Bytes(text) == FlattenSeq([i \in DOMAIN text |-> Utf8(text[i])])
Digits(n) ==
  LET d(k) == 48 + ((n \div k) % 10)
  IN IF n < 10 THEN <<d(1)>> ELSE IF n < 100 THEN <<d(10), d(1)>> ELSE <<d(100), d(10), d(1)>>

IsControl(c) == c < 32 \/ c \in 127..159
LowerOf(c) == IF c \in 65..90 \/ c \in 192..222 THEN c + 32 ELSE c
UpperOf(c) == IF c \in 97..122 \/ c \in 224..254 THEN c - 32 ELSE c

Weight(mods, m, w) == IF m \in mods THEN w ELSE 0
Param(mods) == 1 + Weight(mods, "shift", 1) + Weight(mods, "alt", 2) + Weight(mods, "ctrl", 4)

(***************************************************************************)
(* encode_key                                                              *)
(***************************************************************************)
CtrlChar(c) ==
  LET l == IF c \in 65..90 THEN c + 32 ELSE c
  IN CASE l \in 97..122 -> {l - 96}
       [] l \in {64, 32, 50} -> {0}
       [] l \in {91, 51} -> {27}
       [] l \in {92, 52} -> {28}
       [] l \in {93, 53} -> {29}
       [] l \in {94, 54} -> {30}
       [] l \in {95, 55, 45} -> {31}
       [] l \in {63, 56} -> {127}
       [] OTHER -> {}

AltPrefixed(mods, bytes) == IF "alt" \in mods THEN <<ESC>> \o bytes ELSE bytes

EncodeText(text, mods) ==
  IF text = <<>> THEN {}
  ELSE LET control == IF Len(text) = 1 /\ "ctrl" \in mods THEN CtrlChar(text[1]) ELSE {}
       IN {AltPrefixed(mods, IF control # {} THEN <<CHOOSE b \in control : TRUE>> ELSE Bytes(text))}

CursorKey(final, mods, mode) ==
  IF mods # {} THEN <<ESC, 91, 49, 59>> \o Digits(Param(mods)) \o <<final>>
  ELSE <<ESC, IF mode.appCursor THEN 79 ELSE 91, final>>

TildeKey(code, mods) ==
  <<ESC, 91>> \o Digits(code) \o (IF mods # {} THEN <<59>> \o Digits(Param(mods)) ELSE <<>>) \o <<126>>

FunctionKey(n, mods) ==
  LET Ss3(final) == IF mods # {} THEN <<ESC, 91, 49, 59>> \o Digits(Param(mods)) \o <<final>>
                    ELSE <<ESC, 79, final>>
  IN IF n <= 4 THEN Ss3(79 + n) ELSE TildeKey(<<15, 17, 18, 19, 20, 21, 23, 24>>[n - 4], mods)

CursorFinal == [up |-> 65, down |-> 66, right |-> 67, left |-> 68, home |-> 72, end |-> 70]
TildeCode == [insert |-> 2, delete |-> 3, pageup |-> 5, pagedown |-> 6]
FunctionNumber == [f1 |-> 1, f2 |-> 2, f3 |-> 3, f4 |-> 4, f5 |-> 5, f6 |-> 6, f7 |-> 7, f8 |-> 8,
                   f9 |-> 9, f10 |-> 10, f11 |-> 11, f12 |-> 12]

EncodeNamed(named, mods, mode) ==
  CASE named = "enter" -> AltPrefixed(mods, IF mode.lineFeed THEN <<13, 10>> ELSE <<13>>)
    [] named = "backspace" -> AltPrefixed(mods, IF "ctrl" \in mods THEN <<8>> ELSE <<127>>)
    [] named = "escape" -> AltPrefixed(mods, <<ESC>>)
    [] named = "tab" -> IF "shift" \in mods THEN <<ESC, 91, 90>> ELSE <<9>>
    [] named \in DOMAIN CursorFinal -> CursorKey(CursorFinal[named], mods, mode)
    [] named \in DOMAIN TildeCode -> TildeKey(TildeCode[named], mods)
    [] named \in DOMAIN FunctionNumber -> FunctionKey(FunctionNumber[named], mods)

(* encode: which modifiers and which text a press stands for.              *)
Committed(press) ==
  IF press.text # <<>> /\ ~(\A i \in DOMAIN press.text : IsControl(press.text[i])) THEN press.text
  ELSE <<>>
AltGr(press) == {"ctrl", "alt"} \subseteq press.mods /\ Committed(press) # <<>>

Encode(press, mode, optionAsAlt, mac) ==
  LET committed == Committed(press)
      meta == IF optionAsAlt \/ ~mac THEN {"alt"} ELSE {}
      mods == (press.mods \cap ({"shift"} \cup IF AltGr(press) THEN {} ELSE {"ctrl"} \cup meta))
      TextOf(bare) == IF {"ctrl", "alt"} \cap mods # {} \/ committed = <<>> THEN bare ELSE committed
  IN IF "logo" \in press.mods THEN {}
     ELSE IF press.key.named = "space" THEN EncodeText(<<32>>, mods)
     ELSE IF press.key.named \in NAMED_KEYS THEN {EncodeNamed(press.key.named, mods, mode)}
     ELSE IF press.key.named # "" THEN {}
     ELSE IF press.key.char = 0 THEN EncodeText(committed, mods)
     ELSE EncodeText(TextOf(<<press.key.char>>), mods)

(***************************************************************************)
(* A key press of the window, no modal open: a shortcut or input.          *)
(***************************************************************************)
Glyph ==
  [c \in {99, 116, 97, 43, 45, 48} |->
     CASE c = 99 -> "c" [] c = 116 -> "t" [] c = 97 -> "a"
       [] c = 43 -> "+" [] c = 45 -> "-" [] c = 48 -> "0"]

ChordOf(press) ==
  IF press.key.named # ""
    THEN {[mods |-> press.mods, key |-> named] : named \in {press.key.named} \cap NAMED_KEYS}
    ELSE {[mods |-> press.mods, key |-> Glyph[c]] : c \in {LowerOf(press.key.char)} \cap DOMAIN Glyph}

OnKey(press, keymap, mode, optionAsAlt, mac) ==
  LET run == UNION {Resolve(keymap, chord, TRUE) : chord \in ChordOf(press)}
  IN [run |-> run, sent |-> IF run # {} THEN {} ELSE Encode(press, mode, optionAsAlt, mac)]

(***************************************************************************)
(* Pastes                                                                  *)
(***************************************************************************)
PASTE_START == <<ESC, 91, 50, 48, 48, 126>>
PASTE_END == <<ESC, 91, 50, 48, 49, 126>>

EncodePaste(text, mode) ==
  IF Len(text) > MaxPaste THEN {}
  ELSE IF ~mode.bracketed THEN {text}
  ELSE IF \E i \in 1..(Len(text) - 5) : SubSeq(text, i, i + 5) = PASTE_END THEN {}
  ELSE {PASTE_START \o text \o PASTE_END}

NewLines == {10, 13}
Body(text) ==
  LET kept == {i \in DOMAIN text : text[i] \notin NewLines}
  IN SubSeq(text, 1, IF kept = {} THEN 0 ELSE Max(kept))
PasteRisk(text) ==
  [multiline |-> Range(Body(text)) \cap NewLines # {},
   controls |-> \E c \in Range(text) : IsControl(c) /\ c \notin NewLines \cup {9}]

(***************************************************************************)
(* The pointer                                                             *)
(***************************************************************************)
ButtonCode == [left |-> 0, middle |-> 1, right |-> 2, wheelup |-> 64, wheeldown |-> 65]
MouseActive(mode) == mode.mouseReport \/ mode.mouseDrag \/ mode.mouseMotion

EncodeMouse(button, action, col, row, mods, mode) ==
  LET modifier == Weight(mods, "shift", 4) + Weight(mods, "alt", 8) + Weight(mods, "ctrl", 16)
      code == ButtonCode[button] + modifier + IF action = "drag" THEN 32 ELSE 0
      legacy == IF action = "release" THEN 3 + modifier ELSE code
      Cell(v) == Min({v, 222}) + 33
  IN IF ~MouseActive(mode) \/ (action = "drag" /\ ~mode.mouseDrag /\ ~mode.mouseMotion) THEN {}
     ELSE IF mode.sgr
       THEN {<<ESC, 91, 60>> \o Digits(code) \o <<59>> \o Digits(col + 1) \o <<59>>
               \o Digits(row + 1) \o <<IF action = "release" THEN 109 ELSE 77>>}
       ELSE {<<ESC, 91, 77, 32 + legacy, Cell(col), Cell(row)>>}

(* report_mouse: Shift keeps the pointer for the local selection.          *)
ReportMouse(button, action, col, row, shift, mode) ==
  IF shift \/ ~MouseActive(mode) THEN {} ELSE EncodeMouse(button, action, col, row, {}, mode)

(* wheel: `accum` and `lines` in tenths of a line, up positive.            *)
Repeated(bytes, n) == [i \in 1..(n * Len(bytes)) |-> bytes[1 + ((i - 1) % Len(bytes))]]
WholeLines(tenths) == IF tenths >= 0 THEN tenths \div 10 ELSE -((-tenths) \div 10)
Wheel(accum, lines, col, row, mode) ==
  LET whole == WholeLines(accum + lines)
      many == Min({10, IF whole < 0 THEN -whole ELSE whole})
      up == whole > 0
      report == EncodeMouse(IF up THEN "wheelup" ELSE "wheeldown", "press", col, row, {}, mode)
      arrow == EncodeNamed(IF up THEN "up" ELSE "down", {}, mode)
      Many(bytes) == Repeated(bytes, many)
  IN [accum |-> accum + lines - 10 * whole,
      sent |-> IF MouseActive(mode) THEN Many(CHOOSE b \in report : TRUE)
               ELSE IF mode.altScreen /\ mode.alternateScroll THEN Many(arrow) ELSE <<>>,
      scroll |-> IF MouseActive(mode) \/ (mode.altScreen /\ mode.alternateScroll) THEN 0 ELSE whole]
=============================================================================

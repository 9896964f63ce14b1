------------------------------ MODULE MCSettings ------------------------------
(***************************************************************************)
(* Settings, shortcuts, input and sound in one run: they share no state,   *)
(* so a behaviour is a scene of one of them, or one input of the pure      *)
(* parts.                                                                  *)
(***************************************************************************)
EXTENDS Settings, OnScreenKeyboard, Sound, Pointer

VARIABLES scene, input

vars == <<settingsVars, oskVars, soundVars, pointerVars, scene, input>>

(***************************************************************************)
(* Constants                                                               *)
(***************************************************************************)
MCTried ==
  [theme |-> {"daylight"}, font_family |-> {""}, font_size |-> {48},
   scrollback_lines |-> {500, 100001},
   sound_enabled |-> {}]
Override(action, context, keys) == [action |-> action, context |-> context, keys |-> keys]
MCTriedKeys ==
  [zoom |-> {<<>>, CS("t")}, reset_layout |-> {<<"control", "q">>}]

(* By hand: another theme, a shortcut, a profile, a directory and a        *)
(* variable for the default one; a value out of range.                     *)
ByHand ==
  Whole([theme |-> "solar", scrollback_lines |-> 500],
        [default |-> [cwd |-> "home", LANG |-> "C"], work |-> NoFields],
        <<Override("zoom", "global", CS("q")), Override("sound", "global", CS("a"))>>)
MCTriedConfigs == {Missing, ByHand, [Missing EXCEPT !.is = "unreadable"]}
MCTriedOverrides ==
  {Missing,
   Whole([font_size |-> 20], [default |-> [command |-> "zsh", LANG |-> "de"]],
         <<Override("zoom", "global", <<"none">>)>>),
   Whole([font_size |-> 7], NoProfiles, <<>>)}

MCKeys ==
  {ModifierKey(m) : m \in {"shift", "ctrl", "alt"}}
  \cup {CapsKey, NamedKey("space"), NamedKey("up")}
  \cup {TextKey(116, 0), TextKey(50, 64), TextKey(233, 0), TextKey(45, 95)}

(***************************************************************************)
(* Inputs                                                                  *)
(***************************************************************************)
UpTo(S, n) == UNION {[1..k -> S] : k \in 0..n}

KeyInput(overrides, mac) == [what |-> "keys", overrides |-> overrides, mac |-> mac]
SingleTexts ==
  {text \in {<<"none">>, CS("t"), Cmd("w"), <<"shift", "pageup">>, <<"control", "q">>, <<"q">>,
             <<"cmd", "opt", "return">>, <<"hyper", "q">>, <<"f5">>, <<"enter">>,
             <<"ctrl", ",">>, <<"super", "alt", "shift", "control", "pgdn">>} : KeysValid(text)}
PairTexts == {<<"none">>, CS("c"), <<"shift", "pagedown">>, <<"alt", "q">>}
Single(actions, texts) ==
  {Override(a, c, t) : a \in actions, c \in Range(Contexts) \cup {"elsewhere"}, t \in texts}
KeyInputs ==
  {KeyInput(<<>>, mac) : mac \in BOOLEAN}
  \cup {KeyInput(<<o>>, mac) :
          o \in Single({"new_tab", "copy", "scroll_page_up", "reset_layout", "sound", "nonsense"},
                       SingleTexts), mac \in BOOLEAN}
  \cup {KeyInput(<<o, p>>, FALSE) :
          o, p \in {Override(a, InfoOf(a).context, t) :
                      a \in {"copy", "zoom", "reset_layout"}, t \in PairTexts}}
  \cup {KeyInput(<<o, p>>, TRUE) :
          o, p \in Single({"copy", "zoom"}, {<<"none">>, <<"alt", "q">>})}

Mode(flags) ==
  [appCursor |-> "appCursor" \in flags, lineFeed |-> "lineFeed" \in flags,
   bracketed |-> "bracketed" \in flags, mouseReport |-> "mouseReport" \in flags,
   mouseDrag |-> "mouseDrag" \in flags, mouseMotion |-> "mouseMotion" \in flags,
   sgr |-> "sgr" \in flags, altScreen |-> "altScreen" \in flags,
   alternateScroll |-> "alternateScroll" \in flags]

NamedInputs == {[what |-> "named", mode |-> Mode(f)] : f \in SUBSET {"appCursor", "lineFeed"}}

Char(c) == [named |-> "", char |-> c]
Named(n) == [named |-> n, char |-> 0]
PressInputs ==
  {[what |-> "press", press |-> [key |-> k, mods |-> mods, text |-> text], option |-> o, mac |-> m] :
     k \in {Char(c) : c \in {0, 97, 99, 50, 45, 91, 233}}
           \cup {Named(n) : n \in {"space", "enter", "tab", "home", "other"}},
     mods \in SUBSET {"shift", "ctrl", "alt", "logo"},
     text \in {<<>>, <<97>>, <<65>>, <<64>>, <<1>>, <<233>>, <<101, 233>>},
     o \in BOOLEAN, m \in BOOLEAN}

PasteInputs ==
  {[what |-> "paste", text |-> p \o SubSeq(PASTE_END, i, j) \o q, mode |-> Mode(f)] :
     p \in UpTo({97, 10}, 2), i \in {1, 2}, j \in 0..6, q \in UpTo({97, 13, 126}, 2),
     f \in {{}, {"bracketed"}}}

MouseInputs ==
  {[what |-> "mouse", button |-> b, action |-> a, col |-> c, row |-> r, mods |-> mods,
    mode |-> Mode(f)] :
     b \in DOMAIN ButtonCode, a \in {"press", "release", "drag"}, c \in {0, 9, 222, 223, 600},
     r \in {0, 98, 222, 300}, mods \in SUBSET {"shift", "alt", "ctrl"},
     f \in {{}, {"mouseReport"}, {"mouseReport", "sgr"}, {"mouseDrag", "sgr"}}}

WheelInputs ==
  {[what |-> "wheel", turns |-> t, mode |-> Mode(f)] :
     t \in UpTo({-125, -14, -3, 0, 6, 20, 333}, 3),
     f \in {{}, {"mouseReport"}, {"altScreen", "alternateScroll"}, {"altScreen"}}}

(* One field of the table, in config.toml or not, set by its widget.       *)
LayerInputs ==
  {[what |-> "layers", field |-> f, category |-> c, file |-> file, mode |-> mode] :
     c \in DOMAIN Rows, f \in UNION {DOMAIN Rows[k] : k \in DOMAIN Rows},
     file \in {"missing", "whole", "older", "newer", "unreadable"}, mode \in {"offered", "reset"}}

Inputs ==
  KeyInputs \cup NamedInputs \cup PressInputs \cup PasteInputs \cup MouseInputs \cup WheelInputs
  \cup {i \in LayerInputs : i.field \in DOMAIN Rows[i.category]}

(***************************************************************************)
(* Scenes                                                                  *)
(***************************************************************************)
NoInput == [what |-> "nothing"]
Init ==
  /\ scene \in {"settings", "input", "osk", "sound", "mouse", "touch"}
  /\ SettingsInit /\ OskInit /\ SoundInit /\ PointerInit
  /\ scene # "settings" => files = [config |-> Missing, overrides |-> Missing,
                                    backup |-> Missing, temp |-> Missing]
  /\ scene # "osk" => layout = "hidden"
  /\ scene # "sound" => ~keypress
  /\ scene # "mouse" => ~copy_on_select
  /\ scene # "touch" => ~selection.is /\ touch_scroll
  /\ IF scene = "input" THEN input \in Inputs ELSE input = NoInput

Next ==
  \/ scene = "settings" /\ SettingsNext
     /\ UNCHANGED <<oskVars, soundVars, pointerVars, scene, input>>
  \/ scene = "osk" /\ OskNext /\ UNCHANGED <<settingsVars, soundVars, pointerVars, scene, input>>
  \/ scene = "sound" /\ SoundNext /\ UNCHANGED <<settingsVars, oskVars, pointerVars, scene, input>>
  \/ scene = "mouse" /\ MouseNext /\ UNCHANGED <<settingsVars, oskVars, soundVars, scene, input>>
  \/ scene = "touch" /\ TouchNext /\ UNCHANGED <<settingsVars, oskVars, soundVars, scene, input>>

Spec == Init /\ [][Next]_vars /\ SoundFairness

(***************************************************************************)
(* Properties                                                              *)
(***************************************************************************)
ConfigOk(c) ==
  /\ DOMAIN c.fields = Fields /\ ("font_size" \in Fields => c.fields.font_size \in Nat)
  /\ "default" \in DOMAIN c.profiles

TypeOK ==
  /\ phase \in {"down", "normal", "safe", "no_paths"} /\ steps \in 0..MaxSteps
  /\ ConfigOk(cfg) /\ Valid(cfg) /\ DOMAIN look = Previewed
  /\ dialog.open \in BOOLEAN /\ ConfigOk(dialog.draft) /\ DOMAIN dialog.edits = ActionIds
  /\ (dialog.open \/ writing # Idle => Running) /\ ~(dialog.open /\ writing # Idle)
  /\ writing.at \in {"idle", "create", "write", "backup", "copy", "rename"}
  /\ ConfigOk(writing.config) /\ Valid(writing.config) /\ LoadLayer(Whole(NoFields, NoProfiles, <<>>))
  /\ \A name \in DOMAIN files : files[name].is \in {"missing", "unreadable", "torn", "whole"}
  /\ held \subseteq {"shift", "ctrl", "alt"} /\ caps \in BOOLEAN
  /\ layout \in Keyboards \cup {"hidden"}
  /\ output.is \in {"idle", "opening", "ready", "unavailable"} /\ output.thread \in 0..openings
  /\ recent \subseteq Cues /\ active \in Nat

(* What a field is set to is read back over what config.toml has; a        *)
(* slider, a box or a list cannot set what is refused, and Reset section   *)
(* resets what its section shows.                                          *)
FieldReloads ==
  LET f == input.field
      Only(v) == [x \in {f} |-> v]
      One(v) == [fields |-> Only(v), profiles |-> NoProfiles, keys |-> <<>>]
      File(v) == CASE input.file = "missing" -> Missing
                   [] input.file = "unreadable" -> [Missing EXCEPT !.is = "unreadable"]
                   [] input.file = "older" -> [Whole(Only(v), NoProfiles, <<>>) EXCEPT !.version = 0]
                   [] input.file = "newer" -> [Whole(Only(v), NoProfiles, <<>>) EXCEPT !.version = 2]
                   [] OTHER -> Whole(Only(v), NoProfiles, <<>>)
      offered == Rows[input.category][f]
      Reloads(byHand, set) ==
        LET files0 == [config |-> File(byHand), overrides |-> Missing]
            base == LoadEffective(One(Defaults[f]), files0, TRUE)
            next == [files0 EXCEPT !.overrides = OverridesToml(base, One(set))]
        IN LoadEffective(One(Defaults[f]), next, FALSE) = One(set)
  IN /\ ValidField(f, Defaults[f])
     /\ IF input.mode = "reset"
          THEN /\ f \in ResetBy[input.category]
               /\ \A other \in DOMAIN ResetBy \ {input.category} : f \notin ResetBy[other]
               /\ \A byHand \in offered : Reloads(byHand, Defaults[f])
          ELSE /\ f \notin Typed => \A v \in offered : ValidField(f, v)
               /\ \A set \in {v \in offered : ValidField(f, v)} :
                    Reloads(CHOOSE v \in offered : TRUE, set)

ShowsAsTyped(mac, keymap) ==
  \A id \in ActionIds : \A chord \in ShortcutFor(keymap, id) :
    ParseChord(Display(chord, mac)) = {chord}
OwnContext(o) == Applicable(o) /\ o.context = InfoOf(o.action).context
Reopens(overrides, mac, keymap, again) ==
  /\ overrides = <<>> => keymap.refused = {} /\ again = <<>>
  /\ (\A o \in Range(overrides) : OwnContext(o)) =>
       KeyErrors(again, mac) = {} /\ Build(again, mac).bindings = keymap.bindings
HonestAndReopens(overrides, mac, keymap) ==
  /\ Unambiguous(Chosen(overrides, mac), keymap) /\ ShowsAsTyped(mac, keymap)
  /\ Reopens(overrides, mac, keymap, KeybindingOverrides(Edits(keymap, mac), Build(<<>>, mac)))

(* What the settings dialog shows and offers works.  Whatever the          *)
(* overrides say, a chord runs one action wherever the focus is, typing is *)
(* never taken, a shortcut that is shown runs its action and reads back as *)
(* the same chord, no wanted shortcut disappears in silence, the defaults  *)
(* of a platform all work, and what the dialog writes binds the same keys  *)
(* again (Keymap::build, resolve, keybinding_overrides); every field of    *)
(* its table is saved, read back and reset (panels, reset_section,         *)
(* validate).                                                              *)
DialogHonest ==
  CASE input.what = "keys" ->
         HonestAndReopens(input.overrides, input.mac, Build(input.overrides, input.mac))
    [] input.what = "layers" -> FieldReloads
    [] OTHER -> TRUE

(***************************************************************************)
(* What arrives in the terminal                                            *)
(***************************************************************************)
Plain == Mode({})
CsiKeys == DOMAIN CursorFinal \cup DOMAIN TildeCode \cup DOMAIN FunctionNumber
TerminalMods == SUBSET {"shift", "alt", "ctrl"}

(* Programs can tell every one of these keys from the others.              *)
NamedReach(mode) ==
  Cardinality({EncodeNamed(k, mods, mode) : k \in CsiKeys, mods \in TerminalMods})
    = Cardinality(CsiKeys) * Cardinality(TerminalMods)

(* The key by itself: its control code under Ctrl, else its character,     *)
(* which is the one that it has without Shift.                             *)
BareKey(press) ==
  LET control == IF "ctrl" \in press.mods THEN CtrlChar(press.key.char) ELSE {}
  IN IF control = {} THEN {Utf8(press.key.char)} ELSE {<<b>> : b \in control}

(* The window manager's key sends nothing.  Without Ctrl and Alt, and      *)
(* under AltGr, what the toolkit composed arrives as it is, with the Shift *)
(* that is in it.  Alt sends Escape and the key by itself: nothing of what *)
(* was composed, so that Alt+Shift+a arrives as Alt+a does, although the   *)
(* code says of a text key that its characters carry Shift.                *)
PressReach(press, option, mac) ==
  LET sent == Encode(press, Plain, option, mac)
      composed == Committed(press)
      textKey == press.key.named = ""
      effective == IF option \/ ~mac THEN press.mods ELSE press.mods \ {"alt"}
  IN /\ "logo" \in press.mods => sent = {}
     /\ textKey /\ composed # <<>> /\ "logo" \notin press.mods /\ ~AltGr(press)
          /\ effective \cap {"ctrl", "alt"} = {} => sent = {Bytes(composed)}
     /\ textKey /\ press.key.char # 0 /\ AltGr(press) /\ "logo" \notin press.mods =>
          sent = {Bytes(composed)}
     /\ textKey /\ press.key.char # 0 /\ ~AltGr(press) /\ effective = press.mods
          /\ "alt" \in press.mods /\ "logo" \notin press.mods =>
          sent = {<<ESC>> \o b : b \in BareKey(press)}

(* A bracketed paste ends where it says, and what needs no confirmation    *)
(* has nothing after a line break.                                         *)
PasteReach(text, mode) ==
  LET EndsAt(bytes) == {i \in 1..(Len(bytes) - 5) : SubSeq(bytes, i, i + 5) = PASTE_END}
  IN /\ \A sent \in EncodePaste(text, mode) :
          IF mode.bracketed THEN EndsAt(sent) = {Len(sent) - 5} /\ SubSeq(sent, 7, Len(sent) - 6) = text
          ELSE sent = text
     /\ ~PasteRisk(text).multiline =>
          \A i, j \in DOMAIN text : i < j /\ text[i] \in NewLines => text[j] \in NewLines

(* What a program reads out of a mouse report is the cell.                 *)
Number(bytes) ==
  LET value[n \in 0..Len(bytes)] ==
        IF n = 0 THEN 0 ELSE 10 * value[n - 1] + (bytes[n] - 48)
  IN value[Len(bytes)]
MouseReach(button, action, col, row, mods, mode) ==
  \A b \in EncodeMouse(button, action, col, row, mods, mode) :
    IF mode.sgr
      THEN LET semi == {i \in DOMAIN b : b[i] = 59}
           IN /\ Number(SubSeq(b, Min(semi) + 1, Max(semi) - 1)) = col + 1
              /\ Number(SubSeq(b, Max(semi) + 1, Len(b) - 1)) = row + 1
              /\ Number(SubSeq(b, 4, Min(semi) - 1)) % 4 = ButtonCode[button] % 4
              /\ (Last(b) = 109) = (action = "release")
      ELSE /\ Len(b) = 6 /\ \A i \in 4..6 : b[i] \in 32..255
           /\ b[5] - 33 \in {col, 222} /\ b[6] - 33 \in {row, 222}

Turned(so_far, lines, mode) ==
  LET w == Wheel(so_far.accum, lines, 0, 0, mode)
  IN [accum |-> w.accum, scroll |-> so_far.scroll + w.scroll, total |-> so_far.total + lines,
      most |-> Max({so_far.most, Len(w.sent)})]

(* No turn of the wheel is lost or counted twice: what is left is less     *)
(* than a line.                                                            *)
WheelReach(turns, mode) ==
  LET done[n \in 0..Len(turns)] ==
        IF n = 0 THEN [accum |-> 0, scroll |-> 0, total |-> 0, most |-> 0]
        ELSE Turned(done[n - 1], turns[n], mode)
      end == done[Len(turns)]
      local == ~MouseActive(mode) /\ ~(mode.altScreen /\ mode.alternateScroll)
  IN /\ end.accum \in -9..9 /\ end.most <= 60
     /\ local => 10 * end.scroll + end.accum = end.total /\ end.most = 0
     /\ ~local => end.scroll = 0

(* Without Ctrl and Alt, a key of the on-screen keyboard sends what its    *)
(* label shows.  With Alt, or with Ctrl where the key has a control code,  *)
(* it sends that code or its lower-case base after Alt's Escape, whatever  *)
(* Shift and the caps lock make its label show.  A named key sends its     *)
(* sequence with the modifiers that are held; space is apart, and with     *)
(* both Ctrl and Alt nothing is said of it (its text loses both).  The     *)
(* chord of a shortcut runs it.                                            *)
Label(key) ==
  LET cased == IsCased(key.base)
  IN IF ("shift" \in typed.held) = (cased /\ typed.caps) THEN key.base
     ELSE IF key.shifted # 0 THEN key.shifted ELSE UpperOf(key.base)
OskReach ==
  LET key == typed.key  held0 == typed.held
      sent == Encode(typed.press, Plain, TRUE, FALSE)
      prefix == IF "alt" \in held0 THEN <<ESC>> ELSE <<>>
      control == IF "ctrl" \in held0 THEN CtrlChar(key.base) ELSE {}
  IN CASE key.kind = "text" ->
            /\ held0 \cap {"ctrl", "alt"} = {} => sent = {Utf8(Label(key))}
            /\ "alt" \in held0 \/ control # {} =>
                 sent = {prefix \o c : c \in IF control = {} THEN {Utf8(LowerOf(key.base))}
                                            ELSE {<<b>> : b \in control}}
            /\ key.base = 116 /\ held0 = {"ctrl", "shift"} =>
                 OnKey(typed.press, Build(<<>>, FALSE), Plain, TRUE, FALSE).run = {"new_tab"}
       [] key.kind = "named" ->
            IF key.of = "space"
              THEN ~{"ctrl", "alt"} \subseteq held0 =>
                     sent = {prefix \o (IF "ctrl" \in held0 THEN <<0>> ELSE <<32>>)}
              ELSE sent = {EncodeNamed(key.of, held0, Plain)}
       [] OTHER -> TRUE

(* What keys, pastes, the pointer, the wheel and the on-screen keyboard    *)
(* send: every named key with its modifiers, a paste, a reported cell and  *)
(* every turn of the wheel can be read back out of the bytes; a press of a *)
(* text key and a key of the on-screen keyboard arrive as PressReach and   *)
(* OskReach say, which under Alt is less than what was typed; drags and    *)
(* fingers do what they show (terminal-core/input.rs, ui/input.rs,         *)
(* events.rs, osk/state.rs, render/terminal_view.rs).                      *)
KeysReach ==
  /\ OskReach /\ PointerFollowed
  /\ CASE input.what = "named" -> NamedReach(input.mode)
       [] input.what = "press" -> PressReach(input.press, input.option, input.mac)
       [] input.what = "paste" -> PasteReach(input.text, input.mode)
       [] input.what = "mouse" ->
              MouseReach(input.button, input.action, input.col, input.row, input.mods, input.mode)
       [] input.what = "wheel" -> WheelReach(input.turns, input.mode)
       [] OTHER -> TRUE
=============================================================================

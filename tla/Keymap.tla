------------------------------- MODULE Keymap -------------------------------
(***************************************************************************)
(* Keyboard shortcuts (ui/actions.rs) and how the settings dialog edits    *)
(* them (ui/settings.rs).  The text of a shortcut is the sequence of its   *)
(* tokens, as splitting at + gives them; <<>> is the empty text.           *)
(***************************************************************************)
EXTENDS Integers, SequencesExt

(***************************************************************************)
(* ACTIONS: the registry                                                   *)
(***************************************************************************)
Info(id, context, keys, mac) == [id |-> id, context |-> context, keys |-> keys, mac |-> mac]
CS(key) == <<"ctrl", "shift", key>>
Cmd(key) == <<"cmd", key>>
CmdS(key) == <<"cmd", "shift", key>>

(* In the order of the enum, which is the order of binding.                *)
Registry ==
  <<Info("new_tab", "global", CS("t"), Cmd("t")),
    Info("close_pane", "global", CS("w"), Cmd("w")),
    Info("split_right", "global", CS("d"), Cmd("d")),
    Info("split_down", "global", CS("e"), CmdS("d")),
    Info("focus_next", "global", CS("]"), Cmd("]")),
    Info("focus_previous", "global", CS("["), Cmd("[")),
    Info("zoom", "global", CS("z"), CmdS("enter")),
    Info("next_tab", "global", <<"ctrl", "pagedown">>, CmdS("]")),
    Info("previous_tab", "global", <<"ctrl", "pageup">>, CmdS("[")),
    Info("copy", "terminal", CS("c"), Cmd("c")),
    Info("paste", "terminal", CS("v"), Cmd("v")),
    Info("search", "terminal", CS("f"), Cmd("f")),
    Info("scroll_page_up", "terminal", <<"shift", "pageup">>, <<"shift", "pageup">>),
    Info("scroll_page_down", "terminal", <<"shift", "pagedown">>, <<"shift", "pagedown">>),
    Info("palette", "global", CS("p"), CmdS("p")),
    Info("settings", "global", <<"ctrl", ",">>, Cmd(",")),
    Info("toggle_system", "global", CS("m"), CmdS("m")),
    Info("toggle_network", "global", CS("n"), CmdS("n")),
    Info("toggle_directory", "global", CS("o"), CmdS("o")),
    Info("reset_layout", "global", <<>>, <<>>),
    Info("font_increase", "global", <<"ctrl", "=">>, Cmd("=")),
    Info("font_decrease", "global", <<"ctrl", "-">>, Cmd("-")),
    Info("font_reset", "global", <<"ctrl", "0">>, Cmd("0")),
    Info("keyboard", "global", CS("k"), CmdS("k")),
    Info("sound", "global", <<>>, <<>>)>>

Contexts == <<"global", "terminal">>
ActionIds == {info.id : info \in Range(Registry)}
InfoOf(id) == CHOOSE info \in Range(Registry) : info.id = id
DefaultKeys(info, mac) == IF mac THEN info.mac ELSE info.keys

(***************************************************************************)
(* Chords                                                                  *)
(***************************************************************************)
ModifierOf ==
  [ctrl |-> "ctrl", control |-> "ctrl", shift |-> "shift",
   alt |-> "alt", option |-> "alt", opt |-> "alt",
   cmd |-> "logo", command |-> "logo", super |-> "logo", logo |-> "logo", win |-> "logo",
   meta |-> "logo"]

TYPING_KEYS == {"enter", "tab", "space", "backspace", "escape", "delete"}
NAMED_KEYS ==
  TYPING_KEYS \cup {"insert", "home", "end", "pageup", "pagedown", "up", "down", "left", "right"}
  \cup {"f1", "f2", "f3", "f4", "f5", "f6", "f7", "f8", "f9", "f10", "f11", "f12"}
KeyAlias == [return |-> "enter", esc |-> "escape", pgup |-> "pageup", pgdn |-> "pagedown",
             del |-> "delete"]

(* The keys that are one character, of those a shortcut here may name.     *)
Characters ==
  {"t", "w", "d", "e", "]", "[", "z", "c", "v", "f", "p", ",", "m", "n", "o", "=", "-", "0",
   "k", "+", "q", "h", "l", "a"}

NormalizeKey(token) == IF token \in DOMAIN KeyAlias THEN KeyAlias[token] ELSE token

(* Chord::parse: at most one chord.  The + key needs a modifier: alone it  *)
(* is split into two empty parts and refused.                              *)
ParseChord(text) ==
  IF text = <<>> THEN {}
  ELSE LET key == NormalizeKey(Last(text))
           mods == Range(Front(text))
       IN IF /\ mods \subseteq DOMAIN ModifierOf /\ key \in Characters \cup NAMED_KEYS
             /\ key = "+" => mods # {}
            THEN {[mods |-> {ModifierOf[m] : m \in mods}, key |-> key]}
            ELSE {}

(* Display, which parses back to the same chord.                           *)
Display(chord, mac) ==
  LET Part(m, label) == IF m \in chord.mods THEN <<label>> ELSE <<>>
  IN Part("ctrl", "ctrl") \o Part("alt", IF mac THEN "option" ELSE "alt")
     \o Part("shift", "shift") \o Part("logo", IF mac THEN "cmd" ELSE "super") \o <<chord.key>>

HasModifier(chord) == chord.mods \cap {"ctrl", "alt", "logo"} # {}
BlocksTyping(chord) == ~HasModifier(chord) /\ chord.key \in Characters \cup TYPING_KEYS

(* validate_keybinding: stricter than Chord::parse about the key +.        *)
KeysValid(text) == text # <<>> /\ Range(text) \cap {"", "+"} = {}

(***************************************************************************)
(* Keymap::build.  An override is [action, context, keys].                 *)
(***************************************************************************)
Unbound == <<>>
KeysOf(override) == IF override.keys = <<"none">> THEN Unbound ELSE override.keys

(* The action loses its own context, whichever one the override names.     *)
ApplyOverride(chosen, override) ==
  LET key == <<override.action, override.context>>
      kept == DOMAIN chosen \ {<<override.action, InfoOf(override.action).context>>}
  IN [k \in kept \cup {key} |-> IF k = key THEN KeysOf(override) ELSE chosen[k]]

Applicable(override) == override.action \in ActionIds /\ override.context \in Range(Contexts)

DefaultChosen(mac) ==
  [k \in {<<info.id, info.context>> : info \in Range(Registry)} |-> DefaultKeys(InfoOf(k[1]), mac)]
Chosen(overrides, mac) ==
  LET chosen[n \in 0..Len(overrides)] ==
        IF n = 0 THEN DefaultChosen(mac)
        ELSE IF Applicable(overrides[n]) THEN ApplyOverride(chosen[n - 1], overrides[n])
        ELSE chosen[n - 1]
  IN chosen[Len(overrides)]

(* What is wanted and may be bound, in the order of binding: by action,    *)
(* global first.                                                           *)
Bindable(context, chord) == ~BlocksTyping(chord) /\ (context = "global" => HasModifier(chord))
Place(slot) ==
  2 * (CHOOSE i \in DOMAIN Registry : Registry[i].id = slot[1]) + IF slot[2] = "global" THEN 0 ELSE 1
Wanted(chosen) ==
  UNION {{[place |-> Place(slot), action |-> slot[1], context |-> slot[2], chord |-> chord] :
            chord \in {c \in ParseChord(chosen[slot]) : Bindable(slot[2], c)}} :
         slot \in DOMAIN chosen}

(* conflict: a chord that either context has belongs to the first.         *)
ClashHere(w, v) == v.chord = w.chord /\ v.context = w.context
Clash(w, v) == v.chord = w.chord
First(wanted) == {w \in wanted : ~\E v \in wanted : v.place < w.place /\ Clash(w, v)}

(* Without a diagnostic only what is bound or unbound on purpose.          *)
BindAll(chosen, bound, unknown) ==
  [bindings |-> {[context |-> w.context, chord |-> w.chord, action |-> w.action] : w \in bound},
   refused |-> unknown \cup {slot[1] : slot \in {k \in DOMAIN chosen :
                  chosen[k] # Unbound /\ ~\E w \in bound : w.place = Place(k)}}]
BindChosen(chosen, unknown) == BindAll(chosen, First(Wanted(chosen)), unknown)

Build(overrides, mac) ==
  BindChosen(Chosen(overrides, mac),
             {o.action : o \in {p \in Range(overrides) : ~Applicable(p)}})

(* resolve: global first.                                                  *)
Resolve(keymap, chord, terminalFocused) ==
  LET Runs(context) == {b.action : b \in {c \in keymap.bindings : c.context = context
                                                                   /\ c.chord = chord}}
  IN IF Runs("global") # {} THEN Runs("global")
     ELSE IF terminalFocused THEN Runs("terminal") ELSE {}

(* shortcut_for: an action has at most one chord in a context.             *)
ShortcutFor(keymap, id) ==
  LET Chords(context) == {b.chord : b \in {c \in keymap.bindings : c.context = context
                                                                   /\ c.action = id}}
  IN IF Chords("global") # {} THEN Chords("global") ELSE Chords("terminal")

(* A chord runs one action wherever the focus is, typing is never taken,   *)
(* no wanted shortcut disappears in silence, and a shortcut that is shown  *)
(* runs its action (bind, conflict, resolve, shortcut_for).                *)
Unambiguous(chosen, keymap) ==
  /\ \A b, c \in keymap.bindings : b.chord = c.chord => b = c
  /\ \A b \in keymap.bindings :
       ~BlocksTyping(b.chord) /\ (b.context = "global" => HasModifier(b.chord))
  /\ \A key \in DOMAIN chosen :
       \/ chosen[key] = Unbound \/ key[1] \in keymap.refused
       \/ \E b \in keymap.bindings : b.action = key[1] /\ b.context = key[2]
  /\ \A id \in ActionIds : \A chord \in ShortcutFor(keymap, id) :
       Resolve(keymap, chord, TRUE) = {id}

(***************************************************************************)
(* The shortcuts of the settings dialog                                    *)
(***************************************************************************)
(* Settings::open: an action without a shortcut has an empty text.         *)
EditOf(shown, mac) == IF shown = {} THEN <<>> ELSE Display(CHOOSE chord \in shown : TRUE, mac)
Edits(keymap, mac) == [id \in ActionIds |-> EditOf(ShortcutFor(keymap, id), mac)]

(* What candidate writes: only shortcuts that differ from the defaults.    *)
Unchanged(keys, default) == ParseChord(keys) = default \/ (keys = <<>> /\ default = {})

EmptyKeys == <<"none">>
Written(info, keys) ==
  [action |-> info.id, context |-> info.context, keys |-> IF keys = <<>> THEN EmptyKeys ELSE keys]
KeybindingOverrides(edits, defaults) ==
  LET written[n \in 0..Len(Registry)] ==
        IF n = 0 THEN <<>>
        ELSE LET info == Registry[n]
             IN IF Unchanged(edits[info.id], ShortcutFor(defaults, info.id)) THEN written[n - 1]
                ELSE Append(written[n - 1], Written(info, edits[info.id]))
  IN written[Len(Registry)]

(* candidate: what the dialog reports instead of applying.                 *)
KeyErrors(overrides, mac) ==
  {o.action : o \in {p \in Range(overrides) : ~KeysValid(p.keys)}}
  \cup Build(overrides, mac).refused

(* merge_keybindings: by action and context, in place or at the end.       *)
BindingKey(override) == <<override.action, override.context>>
Put(merged, entry) ==
  LET at == {i \in DOMAIN merged : BindingKey(merged[i]) = BindingKey(entry)}
  IN IF at = {} THEN Append(merged, entry)
     ELSE [merged EXCEPT ![CHOOSE i \in at : \A j \in at : i <= j] = entry]
MergeKeybindings(base, overlay) ==
  LET merged[n \in 0..Len(overlay)] == IF n = 0 THEN base ELSE Put(merged[n - 1], overlay[n])
  IN merged[Len(overlay)]
=============================================================================

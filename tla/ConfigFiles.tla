----------------------------- MODULE ConfigFiles -----------------------------
(***************************************************************************)
(* Configuration (app/src/config) as data: the fields and their defaults,  *)
(* which values are valid, what the widgets of the settings dialog offer,  *)
(* how the files are layered, and the difference that is saved.            *)
(*                                                                         *)
(* A number with two decimals is counted in hundredths.  A text is one of  *)
(* the few that are told apart: blank, unsafe, a URL.  A configuration has *)
(* fields, profiles and keys, which are overrides of Keymap; a file has    *)
(* the same for what it says, and how it reads.  A profile is its table:   *)
(* the command (executable, args, login_shell: always there), a cwd if it  *)
(* has one, and the variables of its env, each an entry of its own since   *)
(* tables merge by key.                                                    *)
(***************************************************************************)
EXTENDS Keymap

CONSTANTS
  Fields,   \* the fields of a configuration that a run looks at
  Numbers   \* what may be typed where a number is expected

SCHEMA_VERSION == 1

(* A table laid over another one.                                          *)
Over(f, g) == [x \in DOMAIN f \cup DOMAIN g |-> IF x \in DOMAIN f THEN f[x] ELSE g[x]]
NoFields == [f \in {} |-> 0]

(***************************************************************************)
(* The schema                                                              *)
(***************************************************************************)
Appearance ==
  [theme |-> "graphite", font_family |-> "monospace", font_size |-> 14, line_height |-> 115,
   ligatures |-> FALSE, ui_scale |-> 100, reduced_motion |-> TRUE]
TerminalSettings ==
  [scrollback_lines |-> 10000, scrollback_max_mib |-> 32, cursor_shape |-> "block",
   cursor_blink |-> FALSE, confirm_multiline_paste |-> TRUE, copy_on_select |-> FALSE]
LayoutSettings == [preset |-> "focus", restore |-> TRUE, max_sessions |-> 8]
WindowSettings == [mode |-> "windowed", width |-> 1100, height |-> 700]
LocalPanels ==
  [metrics_enabled |-> TRUE, metrics_interval |-> 1000, processes_enabled |-> TRUE,
   processes_count |-> 6, files_enabled |-> TRUE, show_hidden |-> FALSE, preview |-> TRUE]
NetworkPanel ==
  [network_enabled |-> TRUE, network_interval |-> 2000, connections |-> TRUE,
   geoip_database |-> "", globe |-> TRUE, globe_rotate |-> TRUE, public_ip_lookup |-> FALSE,
   public_ip_endpoint |-> "https://default"]
Effects == [effects_preset |-> "off", intensity |-> 15, max_fps |-> 30]
SoundSettings == [sound_enabled |-> FALSE, volume |-> 40, keypress |-> FALSE]
InputSettings == [option_as_alt |-> FALSE, touch_scroll |-> TRUE]
KeyboardSettings == [on_screen |-> FALSE, layout |-> "en-us"]

Panels == Over(LocalPanels, NetworkPanel)
Defaults ==
  Over(Over(Appearance, Over(TerminalSettings, LayoutSettings)),
       Over(Over(WindowSettings, Over(Panels, Effects)),
            Over(SoundSettings, Over(InputSettings, KeyboardSettings))))

ASSUME FieldsAssumption == Fields \subseteq DOMAIN Defaults

(***************************************************************************)
(* validate                                                                *)
(***************************************************************************)
AppearanceRanges == [font_size |-> 8..48, line_height |-> 100..200, ui_scale |-> 75..300]
TerminalRanges == [scrollback_lines |-> 0..100000, scrollback_max_mib |-> 1..256]
LayoutRanges ==
  [max_sessions |-> 1..8, width |-> 640..7680, height |-> 400..4320,
   intensity |-> 0..100, max_fps |-> 1..60]
ExtensionRanges == [processes_count |-> 1..10, volume |-> 0..100]
Intervals == {"metrics_interval", "network_interval"}
Ranges ==
  Over(Over(AppearanceRanges, TerminalRanges), Over(LayoutRanges, ExtensionRanges))

Blank == {"", " "}
IsSafeId(text) == text \notin Blank \cup {"No Id"}
ValidEndpoint(text) == text \in {"https://default", "https://other"}

ValidField(f, v) ==
  CASE f \in DOMAIN Ranges -> v \in Ranges[f]
    [] f \in Intervals -> v >= 1000
    [] f \in {"theme", "layout"} -> IsSafeId(v)
    [] f = "font_family" -> v \notin Blank
    [] f = "geoip_database" -> v # "https://db"
    [] f = "public_ip_endpoint" -> ValidEndpoint(v)
    [] OTHER -> TRUE

ValidProfile(profile) ==
  \A entry \in DOMAIN profile : entry # "NO=NAME" /\ profile[entry] # "with NUL"
ValidBinding(binding) == binding.action # "" /\ KeysValid(binding.keys)
Valid(config) ==
  /\ \A f \in DOMAIN config.fields : ValidField(f, config.fields[f])
  /\ \A id \in DOMAIN config.profiles : IsSafeId(id) /\ ValidProfile(config.profiles[id])
  /\ \A i \in DOMAIN config.keys : ValidBinding(config.keys[i])

(***************************************************************************)
(* The widgets of the settings dialog: which values each can set.  A       *)
(* slider stays in its range; a message rounds what it gives.              *)
(***************************************************************************)
Twentieths(from, to) == {5 * k : k \in (from \div 5)..(to \div 5)}
AppearanceRows ==
  [theme |-> {"graphite", "daylight"}, font_family |-> {"monospace", "", "mono two"},
   font_size |-> 8..48, line_height |-> Twentieths(100, 200), reduced_motion |-> BOOLEAN,
   mode |-> {"windowed", "maximized", "fullscreen"}, width |-> Numbers, height |-> Numbers]
TerminalRows ==
  [cursor_shape |-> {"block", "beam", "underline"}, cursor_blink |-> BOOLEAN,
   scrollback_lines |-> Numbers, confirm_multiline_paste |-> BOOLEAN, copy_on_select |-> BOOLEAN]
PanelRows ==
  [metrics_enabled |-> BOOLEAN, effects_preset |-> {"off", "subtle"},
   processes_enabled |-> BOOLEAN, network_enabled |-> BOOLEAN, connections |-> BOOLEAN,
   globe |-> BOOLEAN, globe_rotate |-> BOOLEAN, geoip_database |-> {"", "off", "file", "https://db"},
   public_ip_lookup |-> BOOLEAN,
   public_ip_endpoint |-> {"https://default", "https://other", "http://plain", ""},
   files_enabled |-> BOOLEAN, show_hidden |-> BOOLEAN, preview |-> BOOLEAN]
InputSoundRows ==
  [sound_enabled |-> BOOLEAN, volume |-> Twentieths(0, 100), keypress |-> BOOLEAN,
   option_as_alt |-> BOOLEAN, touch_scroll |-> BOOLEAN, on_screen |-> BOOLEAN]

Rows ==
  [appearance |-> AppearanceRows, terminal |-> TerminalRows, panels |-> PanelRows,
   input_sound |-> InputSoundRows]
Typed ==
  {"font_family", "width", "height", "scrollback_lines", "geoip_database", "public_ip_endpoint"}

(* reset_section, for the categories that hold fields.                     *)
ResetBy ==
  [appearance |-> DOMAIN Appearance \cup DOMAIN WindowSettings,
   terminal |-> DOMAIN TerminalSettings,
   panels |-> DOMAIN Panels \cup DOMAIN Effects,
   input_sound |-> DOMAIN SoundSettings \cup DOMAIN InputSettings \cup DOMAIN KeyboardSettings]

(***************************************************************************)
(* Layers                                                                  *)
(***************************************************************************)
NoProfiles == NoFields
Missing ==
  [is |-> "missing", version |-> 0, fields |-> NoFields, profiles |-> NoProfiles, keys |-> <<>>]
Torn == [Missing EXCEPT !.is = "torn"]
Whole(fields, profiles, keys) ==
  [is |-> "whole", version |-> SCHEMA_VERSION, fields |-> fields, profiles |-> profiles,
   keys |-> keys]

NewProfile == [command |-> "shell"]
DefaultConfig ==
  [fields |-> Restrict(Defaults, Fields), profiles |-> [default |-> NewProfile], keys |-> <<>>]

(* load_layer: read_limited, check_declared_version and validate; version  *)
(* 0 stands for a file that does not say it.                               *)
LoadLayer(file) == file.is = "whole" /\ file.version = SCHEMA_VERSION /\ Valid(file)

Entries(config) == {BindingKey(config.keys[i]) : i \in DOMAIN config.keys}
Of(profiles, id) == IF id \in DOMAIN profiles THEN profiles[id] ELSE NoFields
MergeProfiles(base, file) ==
  [id \in DOMAIN base \cup DOMAIN file |->
     Over(Of(file, id), Over(Of(base, id), NewProfile))]
MergeTables(base, file) ==
  [fields |-> Over(file.fields, base.fields),
   profiles |-> MergeProfiles(base.profiles, file.profiles),
   keys |-> MergeKeybindings(base.keys, file.keys)]

(* load_effective: a layer that cannot be used is reported and skipped.    *)
Layered(config, file) ==
  IF LoadLayer(file) /\ Valid(MergeTables(config, file)) THEN MergeTables(config, file)
  ELSE config
LoadEffective(defaults, files, safe) ==
  LET base == Layered(defaults, files.config)
  IN IF safe THEN base ELSE Layered(base, files.overrides)

(* diff_tables: what the draft has and the base has not, or not so.  What  *)
(* only the base has (a profile, its cwd, a variable) is not written, and  *)
(* a profile with no difference is left out.                               *)
DiffTables(base, draft) ==
  Restrict(draft, {k \in DOMAIN draft : k \in DOMAIN base => draft[k] # base[k]})
DiffProfiles(base, draft) ==
  LET Differs(id) == DOMAIN DiffTables(Of(base, id), draft[id]) # {} \/ id \notin DOMAIN base
  IN [id \in {i \in DOMAIN draft : Differs(i)} |-> DiffTables(Of(base, id), draft[id])]

(* overrides_toml: the difference.  Arrays are written whole.              *)
OverridesToml(base, draft) ==
  Whole(DiffTables(base.fields, draft.fields), DiffProfiles(base.profiles, draft.profiles),
        IF draft.keys = base.keys THEN <<>> ELSE draft.keys)
=============================================================================

------------------------------- MODULE Settings -------------------------------
(***************************************************************************)
(* The settings dialog and the running configuration (ui/settings.rs,      *)
(* ui/app.rs, ui/commands.rs), with the file it is saved in                *)
(* (config/load.rs).  Saving happens inside the handler of Apply: other    *)
(* messages wait for it, a crash or an edit of the files does not.         *)
(***************************************************************************)
EXTENDS ConfigFiles

CONSTANTS
  Tried,        \* field -> values that are tried of those its widget offers
  TriedKeys,    \* action -> shortcuts that are typed for it
  TriedConfigs, TriedOverrides,  \* contents the files get from outside
  Mac,          \* the platform
  MaxSteps      \* bound: what the user, other programs and crashes do

(* Other programs write the overrides as write_atomic does, by a rename.   *)
ASSUME OverridesWholeOutside == \A file \in TriedOverrides : file.is # "torn"

(* What is parsed has no other fields, and its shortcuts are a list.       *)
ASSUME FilesAssumption ==
  \A file \in TriedConfigs \cup TriedOverrides :
    /\ DOMAIN file.fields \subseteq Fields /\ file.keys \in Seq(Range(file.keys))
    /\ file.is \in {"missing", "unreadable", "torn", "whole"}

ASSUME StepsAssumption == MaxSteps \in Nat

VARIABLES
  phase,    \* down, or how the program was started: normal, safe, no_paths
  cfg,      \* App::config
  look,     \* the theme, font and cell that are applied
  dialog,   \* App::settings
  writing,  \* write_atomic under way
  files,
  saved,    \* auxiliary: the last save that nobody outside has touched since
  steps
settingsVars == <<phase, cfg, look, dialog, writing, files, saved, steps>>

Running == phase # "down"
Idle == [at |-> "idle", file |-> Missing, config |-> DefaultConfig, disturbed |-> FALSE]
Closed == [open |-> FALSE, draft |-> DefaultConfig, edits |-> [id \in ActionIds |-> <<>>],
           errors |-> FALSE]
NotSaved == [is |-> FALSE, config |-> DefaultConfig]

Previewed == {"theme", "font_family", "font_size", "line_height"} \cap Fields

(* resolve_theme and font_for.                                             *)
ResolveTheme(id) == IF id \in {"graphite", "daylight"} THEN id ELSE "graphite"
FontFor(family) == IF family \in Blank THEN "monospace" ELSE family
LookOf(config) ==
  [f \in Previewed |-> CASE f = "theme" -> ResolveTheme(config.fields[f])
                         [] f = "font_family" -> FontFor(config.fields[f])
                         [] OTHER -> config.fields[f]]

SettingsInit ==
  /\ phase = "down" /\ cfg = DefaultConfig /\ look = LookOf(DefaultConfig)
  /\ dialog = Closed /\ writing = Idle /\ saved = NotSaved /\ steps = 0
  /\ files \in [config : TriedConfigs, overrides : TriedOverrides, backup : {Missing},
                temp : {Missing}]

(* A handler that runs to its end without saving.                          *)
Handles ==
  /\ Running /\ writing = Idle /\ steps < MaxSteps
  /\ steps' = steps + 1 /\ UNCHANGED <<phase, files, saved>>

ApplyConfig(config) == cfg' = config /\ look' = LookOf(config)

(* boot: in safe mode without the overrides, without paths the defaults.   *)
Boot ==
  /\ ~Running /\ steps < MaxSteps /\ steps' = steps + 1
  /\ phase' \in {"normal", "safe", "no_paths"}
  /\ ApplyConfig(IF phase' = "no_paths" THEN DefaultConfig
                 ELSE LoadEffective(DefaultConfig, files, phase' = "safe"))
  /\ files' = [files EXCEPT !.temp = Missing]  \* never read, nor is its name used again
  /\ UNCHANGED <<dialog, writing, saved>>

(* What changes the configuration of this run only.                        *)
Unclamped(size) == size
Clamped(size) == Max({8, Min({48, size})})
AdjustFont(delta) ==
  /\ Handles /\ ~dialog.open /\ "font_size" \in Fields
  /\ ApplyConfig([cfg EXCEPT !.fields.font_size =
       IF delta = 0 THEN Defaults.font_size ELSE Clamped(@ + delta)])
  /\ UNCHANGED <<dialog, writing>>

PickTheme(id) ==
  /\ Handles /\ ~dialog.open /\ "theme" \in Fields
  /\ ApplyConfig([cfg EXCEPT !.fields.theme = id])
  /\ UNCHANGED <<dialog, writing>>

ToggleSound ==
  /\ Handles /\ ~dialog.open /\ "sound_enabled" \in Fields
  /\ ApplyConfig([cfg EXCEPT !.fields.sound_enabled = ~@])
  /\ UNCHANGED <<dialog, writing>>

(***************************************************************************)
(* The dialog                                                              *)
(***************************************************************************)
Open ==
  /\ Handles /\ ~dialog.open
  /\ dialog' = [open |-> TRUE, draft |-> cfg, edits |-> Edits(Build(cfg.keys, Mac), Mac),
                errors |-> FALSE]
  /\ UNCHANGED <<cfg, look, writing>>

(* on_settings: a change of the appearance is shown at once.               *)
SetField(f, v) ==
  /\ Handles /\ dialog.open
  /\ dialog' = [dialog EXCEPT !.draft.fields[f] = v]
  /\ look' = IF f \in Previewed THEN LookOf(dialog'.draft) ELSE look
  /\ UNCHANGED <<cfg, writing>>

SetKey(id, keys) ==
  /\ Handles /\ dialog.open
  /\ dialog' = [dialog EXCEPT !.edits[id] = keys]
  /\ UNCHANGED <<cfg, look, writing>>

DefaultKeymap == Build(<<>>, Mac)
ResetKeysToDefaults == Edits(DefaultKeymap, Mac)

(* The category whose button was pressed last.                             *)
ResetSection(category) ==
  /\ Handles /\ dialog.open
  /\ dialog' = IF category = "keys" THEN [dialog EXCEPT !.edits = ResetKeysToDefaults]
               ELSE [dialog EXCEPT !.draft.fields =
                       Over(Restrict(Defaults, ResetBy[category] \cap Fields), @)]
  /\ UNCHANGED <<cfg, look, writing>>

ResetAll ==
  /\ Handles /\ dialog.open
  /\ dialog' = [dialog EXCEPT !.draft = DefaultConfig, !.edits = ResetKeysToDefaults]
  /\ UNCHANGED <<cfg, look, writing>>

(* Cancel and Escape drop the preview.                                     *)
PreviewStays(config) == look
AfterCancel(config) == LookOf(config)
Cancel ==
  /\ Handles /\ dialog.open
  /\ dialog' = Closed /\ look' = AfterCancel(cfg)
  /\ UNCHANGED <<cfg, writing>>

Candidate ==
  [dialog.draft EXCEPT !.keys = KeybindingOverrides(dialog.edits, DefaultKeymap)]
Acceptable(candidate) == Valid(candidate) /\ KeyErrors(candidate.keys, Mac) = {}

(* persist_overrides, to the point where it writes: the difference to the  *)
(* files without the overrides.                                            *)
RunningBase == cfg
SaveBase == LoadEffective(DefaultConfig, files, TRUE)
Save(candidate) ==
  /\ dialog' = Closed
  /\ IF phase = "normal"
       THEN /\ writing' = [at |-> "create", file |-> OverridesToml(SaveBase, candidate),
                           config |-> candidate, disturbed |-> FALSE]
            /\ UNCHANGED <<cfg, look>>
       ELSE ApplyConfig(candidate) /\ UNCHANGED writing

(* Apply: what has errors stays open.                                      *)
Submit(candidate) ==
  IF Acceptable(candidate) THEN Save(candidate)
  ELSE dialog' = [dialog EXCEPT !.errors = TRUE] /\ UNCHANGED <<cfg, look, writing>>
Apply == Handles /\ dialog.open /\ Submit(Candidate)

(***************************************************************************)
(* write_atomic                                                            *)
(***************************************************************************)
Step(from, to) ==
  /\ Running /\ writing.at = from /\ writing' = [writing EXCEPT !.at = to]
  /\ UNCHANGED <<phase, cfg, look, dialog, saved, steps>>

TornInPlace == [files EXCEPT !.overrides = Torn]
TornAside == [files EXCEPT !.temp = Torn]
CreateTemp == Step("create", "write") /\ files' = TornAside
WriteTemp == Step("write", "backup") /\ files' = [files EXCEPT !.temp = writing.file]

(* fs::copy, when there is a file to keep.                                 *)
NothingToKeep ==
  /\ files.overrides.is = "missing"
  /\ Step("backup", "rename") /\ UNCHANGED files
StartCopy ==
  /\ files.overrides.is # "missing"
  /\ Step("backup", "copy") /\ files' = [files EXCEPT !.backup = Torn]
EndCopy == Step("copy", "rename") /\ files' = [files EXCEPT !.backup = files.overrides]

(* However saving went, the candidate is applied.                          *)
EndWrite ==
  /\ Running /\ writing' = Idle /\ ApplyConfig(writing.config)
  /\ UNCHANGED <<phase, dialog, steps>>
RenameTemp ==
  /\ writing.at = "rename" /\ EndWrite
  /\ files' = [files EXCEPT !.overrides = files.temp, !.temp = Missing]
  /\ saved' = IF writing.disturbed THEN NotSaved ELSE [is |-> TRUE, config |-> writing.config]
WriteFails ==
  /\ writing.at # "idle" /\ EndWrite
  /\ files' = [files EXCEPT !.temp = Missing]
  /\ UNCHANGED saved

(***************************************************************************)
(* What the program does not do itself                                     *)
(***************************************************************************)
(* It is closed or crashes, in the middle of saving too.                   *)
Stop ==
  /\ Running /\ steps < MaxSteps /\ steps' = steps + 1
  /\ phase' = "down" /\ dialog' = Closed /\ writing' = Idle
  /\ cfg' = DefaultConfig /\ look' = LookOf(DefaultConfig)
  /\ UNCHANGED <<files, saved>>

(* An editor, or another window of the program that saves.                 *)
EditOutside ==
  /\ steps < MaxSteps /\ steps' = steps + 1
  /\ \/ \E file \in TriedConfigs \ {files.config} : files' = [files EXCEPT !.config = file]
     \/ \E file \in TriedOverrides \ {files.overrides} :
          files' = [files EXCEPT !.overrides = file]
  /\ saved' = NotSaved
  /\ writing' = IF writing = Idle THEN Idle ELSE [writing EXCEPT !.disturbed = TRUE]
  /\ UNCHANGED <<phase, cfg, look, dialog>>

UseDialog ==
  \/ Open \/ ResetAll \/ Cancel \/ Apply
  \/ \E category \in DOMAIN Rows : \E f \in DOMAIN Rows[category] \cap Fields :
       \E v \in Rows[category][f] \cap Tried[f] : SetField(f, v)
  \/ \E id \in DOMAIN TriedKeys : \E keys \in TriedKeys[id] : SetKey(id, keys)
  \/ \E category \in DOMAIN ResetBy \cup {"keys"} : ResetSection(category)

WriteAtomic ==
  \/ CreateTemp \/ WriteTemp \/ NothingToKeep \/ StartCopy \/ EndCopy \/ RenameTemp \/ WriteFails

SettingsNext ==
  \/ Boot \/ UseDialog \/ WriteAtomic \/ Stop \/ EditOutside
  \/ \E delta \in {-1, 0, 1} : AdjustFont(delta)
  \/ \E id \in {"graphite", "daylight"} : PickTheme(id)
  \/ ToggleSound

SettingsSpec == SettingsInit /\ [][SettingsNext]_settingsVars

(***************************************************************************)
(* Properties                                                              *)
(***************************************************************************)
(* Whatever fails or crashes while settings are saved, ui-overrides.toml   *)
(* is never half of a file, and is replaced only when the one before it is *)
(* in its backup (write_atomic).                                           *)
FileWhole ==
  /\ files.overrides.is # "torn"
  /\ writing.at = "rename" /\ ~writing.disturbed /\ files.overrides.is # "missing" =>
       files.backup = files.overrides

(* With every dialog closed the window shows the theme, font and sizes of  *)
(* its configuration: no preview outlives the dialog (on_settings).        *)
LookFollowsConfig ==
  Running /\ ~dialog.open /\ writing = Idle => look = LookOf(cfg)

(* What Apply saved is what the next start reads, after a crash as well,   *)
(* as long as nobody else writes the files: every field, all that the      *)
(* profiles say, and the shortcuts.  An override cannot take away what     *)
(* config.toml has: a profile, its cwd, a variable of its env or a         *)
(* shortcut that was reset away is back at the next start, but never       *)
(* anything else (persist_overrides, diff_tables, load_effective,          *)
(* merge_tables).                                                          *)
SavedReloads ==
  LET read == LoadEffective(DefaultConfig, files, FALSE)
      byHand == LoadEffective(DefaultConfig, files, TRUE)
  IN saved.is =>
       /\ read.fields = saved.config.fields
       /\ DOMAIN read.profiles = DOMAIN saved.config.profiles \cup DOMAIN byHand.profiles
       /\ \A id \in DOMAIN saved.config.profiles :
            read.profiles[id] = Over(saved.config.profiles[id], Of(byHand.profiles, id))
       /\ Entries(byHand) \subseteq Entries(saved.config) =>
            Range(read.keys) = Range(saved.config.keys)
=============================================================================

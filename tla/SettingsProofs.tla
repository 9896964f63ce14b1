--------------------------- MODULE SettingsProofs ---------------------------
(***************************************************************************)
(* What holds of the settings dialog, of write_atomic and of the sound     *)
(* player for every set of fields, of contents that files get, and any     *)
(* number of steps.                                                        *)
(***************************************************************************)
EXTENDS Settings, Sound, ConfigProofs

(***************************************************************************)
(* The invariant                                                           *)
(***************************************************************************)
(* The records that actions update keep their fields.                      *)
FilesShape ==
  files = [config |-> files.config, overrides |-> files.overrides, backup |-> files.backup,
           temp |-> files.temp]
WritingShape ==
  writing = [at |-> writing.at, file |-> writing.file, config |-> writing.config,
             disturbed |-> writing.disturbed]
DialogShape ==
  dialog = [open |-> dialog.open, draft |-> dialog.draft, edits |-> dialog.edits,
            errors |-> dialog.errors]
Shapes == FilesShape /\ WritingShape /\ DialogShape

(* Nothing is saved while a dialog is open, or while nothing runs.         *)
Saving ==
  /\ writing # Idle => Running /\ ~dialog.open /\ writing.at # "idle" /\ writing.file.is = "whole"
  /\ dialog.open => Running

(* The temporary file is complete before anything depends on it.           *)
TempReady == writing.at \in {"backup", "copy", "rename"} => files.temp = writing.file

Inv == Shapes /\ Saving /\ TempReady /\ FileWhole /\ LookFollowsConfig

LEMMA IdleAt == Idle.at = "idle" /\ Missing.is = "missing" /\ Torn.is = "torn"
  BY DEF Idle, Missing, Torn

LEMMA SavedIsWhole == \A base, draft : OverridesToml(base, draft).is = "whole"
  BY DEF OverridesToml, Whole

LEMMA InitInv == SettingsInit => Inv
<1> SUFFICES ASSUME SettingsInit PROVE Inv
  OBVIOUS
<1>1. Shapes
  BY DEF SettingsInit, Shapes, FilesShape, WritingShape, DialogShape, Idle, Closed
<1>2. Saving /\ TempReady
  BY IdleAt DEF SettingsInit, Saving, TempReady, Closed
<1>3. FileWhole
  BY IdleAt, OverridesWholeOutside DEF SettingsInit, FileWhole
<1>4. LookFollowsConfig
  BY DEF SettingsInit, LookFollowsConfig
<1> QED
  BY <1>1, <1>2, <1>3, <1>4 DEF Inv

(***************************************************************************)
(* The steps                                                               *)
(***************************************************************************)
(* A step that leaves the files alone and does not save keeps what is said *)
(* of them.                                                                *)
LEMMA NotSaving ==
  ASSUME Inv, writing' = Idle, files'.overrides = files.overrides
  PROVE  TempReady' /\ FileWhole'
  BY IdleAt DEF Inv, TempReady, FileWhole

LEMMA BootInv == Inv /\ Boot => Inv'
<1> SUFFICES ASSUME Inv, Boot PROVE Inv'
  OBVIOUS
<1>1. writing = Idle /\ writing' = Idle /\ dialog' = dialog /\ Running' /\ ~dialog.open
  BY DEF Inv, Saving, Boot, Running
<1>2. files' = [files EXCEPT !.temp = Missing] /\ look' = LookOf(cfg')
  BY DEF Boot, ApplyConfig
<1>3. Shapes' /\ Saving'
  BY <1>1, <1>2 DEF Inv, Shapes, FilesShape, WritingShape, DialogShape, Saving
<1>4. LookFollowsConfig'
  BY <1>2 DEF LookFollowsConfig
<1>5. files'.overrides = files.overrides
  BY <1>2 DEF Inv, Shapes, FilesShape
<1> QED
  BY <1>1, <1>3, <1>4, <1>5, NotSaving DEF Inv

(* The handlers that only set the configuration of this run.               *)
LEMMA ShortcutInv ==
  Inv /\ (ToggleSound \/ (\E delta : AdjustFont(delta)) \/ (\E id : PickTheme(id))) => Inv'
<1> SUFFICES ASSUME Inv, ToggleSound \/ (\E delta : AdjustFont(delta)) \/ (\E id : PickTheme(id))
             PROVE Inv'
  OBVIOUS
<1>1. /\ writing = Idle /\ writing' = Idle /\ dialog' = dialog /\ phase' = phase
      /\ files' = files /\ look' = LookOf(cfg')
  BY DEF ToggleSound, AdjustFont, PickTheme, Handles, ApplyConfig
<1>2. Shapes' /\ Saving'
  BY <1>1 DEF Inv, Shapes, FilesShape, WritingShape, DialogShape, Saving, Running
<1>3. LookFollowsConfig'
  BY <1>1 DEF LookFollowsConfig
<1> QED
  BY <1>1, <1>2, <1>3, NotSaving DEF Inv

(* What edits the draft leaves the dialog open.                            *)
LEMMA EditInv ==
  ASSUME Inv, Handles, dialog'.open, writing' = writing, DialogShape'
  PROVE  Inv'
<1>1. writing = Idle /\ writing' = Idle /\ phase' = phase /\ files' = files /\ Running
  BY DEF Handles
<1>2. Shapes' /\ Saving'
  BY <1>1 DEF Inv, Shapes, FilesShape, WritingShape, Saving, Running
<1>3. LookFollowsConfig'
  BY DEF LookFollowsConfig
<1> QED
  BY <1>1, <1>2, <1>3, NotSaving DEF Inv

LEMMA DraftInv ==
  Inv /\ (Open \/ ResetAll \/ (\E f, v : SetField(f, v)) \/ (\E id, keys : SetKey(id, keys))
          \/ (\E category : ResetSection(category))) => Inv'
<1> SUFFICES ASSUME Inv
             PROVE  Open \/ ResetAll \/ (\E f, v : SetField(f, v))
                    \/ (\E id, keys : SetKey(id, keys))
                    \/ (\E category : ResetSection(category)) => Inv'
  OBVIOUS
<1>0. DialogShape
  BY DEF Inv, Shapes
<1>1. ASSUME Open PROVE Inv'
  <2>1. Handles /\ dialog'.open /\ writing' = writing /\ DialogShape'
    BY <1>1 DEF Open, DialogShape
  <2> QED
    BY <2>1, EditInv
<1>2. ASSUME ResetAll PROVE Inv'
  <2>1. Handles /\ dialog'.open /\ writing' = writing /\ DialogShape'
    BY <1>0, <1>2 DEF ResetAll, DialogShape
  <2> QED
    BY <2>1, EditInv
<1>3. ASSUME NEW f, NEW v, SetField(f, v) PROVE Inv'
  <2> DEFINE fields == [dialog.draft.fields EXCEPT ![f] = v]
             draft == [dialog.draft EXCEPT !.fields = fields]
  <2>1. Handles /\ dialog.open /\ writing' = writing /\ dialog' = [dialog EXCEPT !.draft = draft]
    BY <1>3 DEF SetField
  <2>2. DialogShape' /\ dialog'.open
    <3> HIDE DEF draft
    <3> QED
      BY <1>0, <2>1 DEF DialogShape
  <2> QED
    BY <2>1, <2>2, EditInv
<1>4. ASSUME NEW id, NEW keys, SetKey(id, keys) PROVE Inv'
  <2> DEFINE edits == [dialog.edits EXCEPT ![id] = keys]
  <2>1. Handles /\ dialog.open /\ writing' = writing /\ dialog' = [dialog EXCEPT !.edits = edits]
    BY <1>4 DEF SetKey
  <2>2. DialogShape' /\ dialog'.open
    <3> HIDE DEF edits
    <3> QED
      BY <1>0, <2>1 DEF DialogShape
  <2> QED
    BY <2>1, <2>2, EditInv
<1>5. ASSUME NEW category, ResetSection(category) PROVE Inv'
  <2> DEFINE fields == Over(Restrict(Defaults, ResetBy[category] \cap Fields), dialog.draft.fields)
             draft == [dialog.draft EXCEPT !.fields = fields]
  <2>1. /\ Handles /\ dialog.open /\ writing' = writing
        /\ \/ dialog' = [dialog EXCEPT !.edits = ResetKeysToDefaults]
           \/ dialog' = [dialog EXCEPT !.draft = draft]
    BY <1>5 DEF ResetSection
  <2>2. DialogShape' /\ dialog'.open
    <3> HIDE DEF draft
    <3> QED
      BY <1>0, <2>1 DEF DialogShape
  <2> QED
    BY <2>1, <2>2, EditInv
<1> QED
  BY <1>1, <1>2, <1>3, <1>4, <1>5

LEMMA CancelInv == Inv /\ Cancel => Inv'
<1> SUFFICES ASSUME Inv, Cancel PROVE Inv'
  OBVIOUS
<1>1. /\ writing = Idle /\ writing' = Idle /\ dialog' = Closed /\ files' = files
      /\ look' = LookOf(cfg) /\ cfg' = cfg
  BY DEF Cancel, Handles, AfterCancel
<1>2. Shapes' /\ Saving'
  BY <1>1 DEF Inv, Shapes, FilesShape, WritingShape, DialogShape, Saving, Closed
<1>3. LookFollowsConfig'
  BY <1>1 DEF LookFollowsConfig
<1> QED
  BY <1>1, <1>2, <1>3, NotSaving DEF Inv

(* Apply keeps the dialog, starts to save, or applies without saving.      *)
LEMMA ApplyInv == Inv /\ Apply => Inv'
<1> SUFFICES ASSUME Inv, Apply PROVE Inv'
  OBVIOUS
<1> DEFINE candidate == Candidate
<1>1. /\ Handles /\ dialog.open /\ writing = Idle /\ files' = files /\ phase' = phase /\ Running
      /\ Submit(candidate)
  BY DEF Apply, Handles
<1> HIDE DEF candidate
<1>2. CASE ~Acceptable(candidate)
  <2>1. dialog' = [dialog EXCEPT !.errors = TRUE] /\ writing' = writing
    BY <1>1, <1>2 DEF Submit
  <2>2. DialogShape' /\ dialog'.open
    BY <1>1, <2>1 DEF Inv, Shapes, DialogShape
  <2> QED
    BY <1>1, <2>1, <2>2, EditInv
<1>3. CASE Acceptable(candidate) /\ phase = "normal"
  <2> DEFINE toml == OverridesToml(SaveBase, candidate)
  <2>1. /\ dialog' = Closed
        /\ writing' = [at |-> "create", file |-> toml, config |-> candidate, disturbed |-> FALSE]
    BY <1>1, <1>3 DEF Submit, Save
  <2>2. toml.is = "whole"
    BY SavedIsWhole
  <2> HIDE DEF toml
  <2>3. Shapes' /\ Saving'
    BY <1>1, <2>1, <2>2
    DEF Inv, Shapes, FilesShape, WritingShape, DialogShape, Saving, Closed, Running
  <2>4. TempReady' /\ FileWhole'
    BY <1>1, <2>1 DEF Inv, TempReady, FileWhole
  <2>5. LookFollowsConfig'
    BY <2>1, IdleAt DEF LookFollowsConfig
  <2> QED
    BY <2>3, <2>4, <2>5 DEF Inv
<1>4. CASE Acceptable(candidate) /\ phase # "normal"
  <2>1. dialog' = Closed /\ writing' = Idle /\ look' = LookOf(cfg')
    BY <1>1, <1>4 DEF Submit, Save, ApplyConfig
  <2>2. Shapes' /\ Saving'
    BY <1>1, <2>1 DEF Inv, Shapes, FilesShape, WritingShape, DialogShape, Saving, Closed
  <2>3. LookFollowsConfig'
    BY <2>1 DEF LookFollowsConfig
  <2> QED
    BY <1>1, <2>1, <2>2, <2>3, NotSaving DEF Inv
<1> QED
  BY <1>2, <1>3, <1>4

(* The steps of write_atomic before the rename.                            *)
LEMMA StepInv ==
  ASSUME Inv, NEW from, NEW to, Step(from, to), from # "idle", to # "idle", FilesShape',
         files'.overrides = files.overrides,
         to \in {"backup", "copy", "rename"} => files'.temp = writing.file,
         to = "rename" => files.overrides.is = "missing" \/ files'.backup = files.overrides
  PROVE  Inv'
<1>1. /\ writing # Idle /\ writing' = [writing EXCEPT !.at = to] /\ dialog' = dialog
      /\ phase' = phase
  BY IdleAt DEF Step
<1>2. writing'.at = to /\ writing'.file = writing.file /\ WritingShape'
  BY <1>1 DEF Inv, Shapes, WritingShape
<1>3. Shapes' /\ Saving'
  BY <1>1, <1>2 DEF Inv, Shapes, DialogShape, Saving, Running
<1>4. TempReady' /\ FileWhole'
  BY <1>2 DEF Inv, TempReady, FileWhole
<1>5. LookFollowsConfig'
  BY <1>2, IdleAt DEF LookFollowsConfig
<1> QED
  BY <1>3, <1>4, <1>5 DEF Inv

LEMMA WriteInv == Inv /\ WriteAtomic => Inv'
<1> SUFFICES ASSUME Inv, WriteAtomic PROVE Inv'
  OBVIOUS
<1>0. FilesShape /\ TempReady /\ FileWhole
  BY DEF Inv, Shapes
<1>1. CASE CreateTemp
  <2>1. Step("create", "write") /\ files' = [files EXCEPT !.temp = Torn]
    BY <1>1 DEF CreateTemp, TornAside
  <2>2. FilesShape' /\ files'.overrides = files.overrides
    BY <1>0, <2>1 DEF FilesShape
  <2> QED
    BY <2>1, <2>2, StepInv
<1>2. CASE WriteTemp
  <2>1. Step("write", "backup") /\ files' = [files EXCEPT !.temp = writing.file]
    BY <1>2 DEF WriteTemp
  <2>2. FilesShape' /\ files'.overrides = files.overrides /\ files'.temp = writing.file
    BY <1>0, <2>1 DEF FilesShape
  <2> QED
    BY <2>1, <2>2, StepInv
<1>3. CASE NothingToKeep
  <2>1. Step("backup", "rename") /\ files' = files /\ files.overrides.is = "missing"
    BY <1>3 DEF NothingToKeep
  <2>2. FilesShape' /\ files.temp = writing.file
    BY <1>0, <2>1 DEF FilesShape, TempReady, Step
  <2> QED
    BY <2>1, <2>2, StepInv
<1>4. CASE StartCopy
  <2>1. Step("backup", "copy") /\ files' = [files EXCEPT !.backup = Torn]
    BY <1>4 DEF StartCopy
  <2>2. FilesShape' /\ files'.overrides = files.overrides /\ files'.temp = writing.file
    BY <1>0, <2>1 DEF FilesShape, TempReady, Step
  <2> QED
    BY <2>1, <2>2, StepInv
<1>5. CASE EndCopy
  <2>1. Step("copy", "rename") /\ files' = [files EXCEPT !.backup = files.overrides]
    BY <1>5 DEF EndCopy
  <2>2. /\ FilesShape' /\ files'.overrides = files.overrides /\ files'.temp = writing.file
        /\ files'.backup = files.overrides
    BY <1>0, <2>1 DEF FilesShape, TempReady, Step
  <2> QED
    BY <2>1, <2>2, StepInv
<1>6. CASE RenameTemp \/ WriteFails
  <2>1. /\ writing' = Idle /\ dialog' = dialog /\ look' = LookOf(cfg')
        /\ writing # Idle
    BY <1>6, IdleAt DEF RenameTemp, WriteFails, EndWrite, ApplyConfig
  <2>2. FilesShape' /\ files'.overrides.is # "torn"
    <3>1. CASE RenameTemp
      <4>1. /\ files' = [files EXCEPT !.overrides = files.temp, !.temp = Missing]
            /\ files.temp.is = "whole"
        BY <1>0, <2>1, <3>1 DEF RenameTemp, TempReady, Inv, Saving
      <4> QED
        BY <1>0, <4>1 DEF FilesShape
    <3>2. CASE WriteFails
      BY <1>0, <3>2 DEF WriteFails, FilesShape, FileWhole
    <3> QED
      BY <1>6, <3>1, <3>2
  <2>3. Shapes' /\ Saving'
    BY <2>1, <2>2 DEF Inv, Shapes, WritingShape, DialogShape, Saving, Idle
  <2>4. TempReady' /\ FileWhole' /\ LookFollowsConfig'
    BY <2>1, <2>2, IdleAt DEF TempReady, FileWhole, LookFollowsConfig
  <2> QED
    BY <2>3, <2>4 DEF Inv
<1> QED
  BY <1>1, <1>2, <1>3, <1>4, <1>5, <1>6 DEF WriteAtomic

LEMMA StopInv == Inv /\ Stop => Inv'
<1> SUFFICES ASSUME Inv, Stop PROVE Inv'
  OBVIOUS
<1>1. dialog' = Closed /\ writing' = Idle /\ files' = files /\ ~Running'
  BY DEF Stop, Running
<1>2. Shapes' /\ Saving'
  BY <1>1 DEF Inv, Shapes, FilesShape, WritingShape, DialogShape, Saving, Closed, Idle
<1>3. LookFollowsConfig'
  BY <1>1 DEF LookFollowsConfig
<1> QED
  BY <1>1, <1>2, <1>3, NotSaving DEF Inv

(* An edit from outside may come between any two steps of saving.          *)
LEMMA EditOutsideInv == Inv /\ EditOutside => Inv'
<1> SUFFICES ASSUME Inv, EditOutside PROVE Inv'
  OBVIOUS
<1>0. FilesShape /\ WritingShape
  BY DEF Inv, Shapes
<1>1. phase' = phase /\ cfg' = cfg /\ look' = look /\ dialog' = dialog
  BY DEF EditOutside
<1>2. FilesShape' /\ files'.overrides.is # "torn" /\ files'.temp = files.temp
  BY <1>0, OverridesWholeOutside DEF EditOutside, FilesShape, Inv, FileWhole
<1>3. CASE writing = Idle
  <2>1. writing' = Idle
    BY <1>3 DEF EditOutside
  <2> QED
    BY <1>1, <1>2, <1>3, <2>1, IdleAt
    DEF Inv, Shapes, WritingShape, DialogShape, Saving, TempReady, FileWhole, LookFollowsConfig,
        Running
<1>4. CASE writing # Idle
  <2>1. writing' = [writing EXCEPT !.disturbed = TRUE]
    BY <1>4 DEF EditOutside
  <2>2. /\ WritingShape' /\ writing'.at = writing.at /\ writing'.file = writing.file
        /\ writing'.disturbed
    BY <1>0, <2>1 DEF WritingShape
  <2>3. writing.at # "idle" /\ Saving'
    BY <1>1, <1>4, <2>2 DEF Inv, Saving, Running
  <2>4. Shapes' /\ TempReady' /\ FileWhole'
    BY <1>1, <1>2, <2>2 DEF Inv, Shapes, DialogShape, TempReady, FileWhole
  <2>5. LookFollowsConfig'
    BY <2>2, <2>3, IdleAt DEF LookFollowsConfig
  <2> QED
    BY <2>3, <2>4, <2>5 DEF Inv
<1> QED
  BY <1>3, <1>4

LEMMA NextInv == Inv /\ [SettingsNext]_settingsVars => Inv'
<1> SUFFICES ASSUME Inv, [SettingsNext]_settingsVars PROVE Inv'
  OBVIOUS
<1>1. CASE UseDialog
  BY <1>1, DraftInv, CancelInv, ApplyInv DEF UseDialog
<1>2. CASE UNCHANGED settingsVars
  BY <1>2 DEF settingsVars, Inv, Shapes, FilesShape, WritingShape, DialogShape, Saving, TempReady,
              FileWhole, LookFollowsConfig, Running
<1> QED
  BY <1>1, <1>2, BootInv, WriteInv, StopInv, EditOutsideInv, ShortcutInv DEF SettingsNext

LEMMA Invariance == SettingsSpec => []Inv
  BY InitInv, NextInv, PTL DEF SettingsSpec

(***************************************************************************)
(* The configuration, and what is saved of it                              *)
(***************************************************************************)
FilesReadable == Readable(files.config) /\ Readable(files.overrides)
Configured ==
  /\ Usable(cfg) /\ WellFormed(dialog.draft)
  /\ writing # Idle => Usable(writing.config) /\ Readable(writing.file)
SavedAs(file, config) == Usable(config) /\ file = OverridesToml(SaveBase, config)
Remembered ==
  /\ writing # Idle /\ ~writing.disturbed => writing.file = OverridesToml(SaveBase, writing.config)
  /\ saved.is => SavedAs(files.overrides, saved.config)
ConfigInv == FilesReadable /\ Configured /\ Remembered

LEMMA SavedInv == ConfigInv => SavedReloads
<1> SUFFICES ASSUME ConfigInv, saved.is PROVE
      LET read == LoadEffective(DefaultConfig, files, FALSE)
          byHand == LoadEffective(DefaultConfig, files, TRUE)
      IN  /\ read.fields = saved.config.fields
          /\ DOMAIN read.profiles = DOMAIN saved.config.profiles \cup DOMAIN byHand.profiles
          /\ \A id \in DOMAIN saved.config.profiles :
               read.profiles[id] = Over(saved.config.profiles[id], Of(byHand.profiles, id))
          /\ Entries(byHand) \subseteq Entries(saved.config) =>
               Range(read.keys) = Range(saved.config.keys)
  BY DEF SavedReloads
<1> DEFINE base == Layered(DefaultConfig, files.config)
<1>1. Usable(base)
  BY DefaultUsable, LayeredUsable DEF ConfigInv, FilesReadable
<1>2. /\ SaveBase = base /\ LoadEffective(DefaultConfig, files, TRUE) = base
      /\ LoadEffective(DefaultConfig, files, FALSE) = Layered(base, files.overrides)
  BY DEF SaveBase, LoadEffective
<1> HIDE DEF base
<1>3. Usable(saved.config) /\ files.overrides = OverridesToml(base, saved.config)
  BY <1>2 DEF ConfigInv, Remembered, SavedAs
<1> DEFINE read == Layered(base, OverridesToml(base, saved.config))
<1>4. /\ read.fields = saved.config.fields
      /\ DOMAIN read.profiles = DOMAIN saved.config.profiles \cup DOMAIN base.profiles
      /\ \A id \in DOMAIN saved.config.profiles :
           read.profiles[id] = Over(saved.config.profiles[id], Of(base.profiles, id))
      /\ Entries(base) \subseteq Entries(saved.config) => Range(read.keys) = Range(saved.config.keys)
  BY <1>1, <1>3, ReadsBack
<1>5. read = LoadEffective(DefaultConfig, files, FALSE)
  BY <1>2, <1>3
<1> HIDE DEF read
<1> QED
  BY <1>2, <1>4, <1>5

(***************************************************************************)
(* The steps                                                               *)
(***************************************************************************)
(* What is saved is compared with config.toml, and with nothing else.      *)
LEMMA SameBase ==
  ASSUME files'.config = files.config
  PROVE  SaveBase' = SaveBase
  BY DEF SaveBase, LoadEffective

LEMMA InitConfig == SettingsInit => ConfigInv
<1> SUFFICES ASSUME SettingsInit PROVE ConfigInv
  OBVIOUS
<1>1. FilesReadable
  BY FilesAssumption DEF SettingsInit, FilesReadable, Readable, ListOf
<1>2. Configured
  BY DefaultUsable DEF SettingsInit, Configured, Closed, Usable
<1>3. Remembered
  BY DEF SettingsInit, Remembered, NotSaved
<1> QED
  BY <1>1, <1>2, <1>3 DEF ConfigInv

(* A step that leaves the files, the saving and what was saved alone.      *)
LEMMA NothingSaved ==
  ASSUME ConfigInv, files'.config = files.config, files'.overrides = files.overrides,
         writing' \in {writing, Idle}, saved' = saved, Usable(cfg'), WellFormed(dialog'.draft)
  PROVE  ConfigInv'
<1>1. SaveBase' = SaveBase
  BY SameBase
<1>2. FilesReadable'
  BY DEF ConfigInv, FilesReadable
<1>3. Configured'
  BY DEF ConfigInv, Configured
<1>4. Remembered'
  BY <1>1 DEF ConfigInv, Remembered, SavedAs
<1> QED
  BY <1>2, <1>3, <1>4 DEF ConfigInv

LEMMA BootConfig == Inv /\ ConfigInv /\ Boot => ConfigInv'
<1> SUFFICES ASSUME Inv, ConfigInv, Boot PROVE ConfigInv'
  OBVIOUS
<1>1. files'.config = files.config /\ files'.overrides = files.overrides
  BY DEF Boot, Inv, Shapes, FilesShape
<1>2. Usable(LoadEffective(DefaultConfig, files, phase' = "safe"))
  BY EffectiveUsable DEF ConfigInv, FilesReadable
<1>3. Usable(cfg')
  BY <1>2, DefaultUsable DEF Boot, ApplyConfig
<1> QED
  BY <1>1, <1>3, NothingSaved DEF Boot, ConfigInv, Configured

LEMMA StopConfig == Inv /\ ConfigInv /\ Stop => ConfigInv'
  BY NothingSaved, DefaultUsable DEF Stop, Closed, Usable

LEMMA CancelConfig == Inv /\ ConfigInv /\ Cancel => ConfigInv'
  BY NothingSaved, DefaultUsable DEF Cancel, Handles, Closed, Usable, ConfigInv, Configured

(* One field set to a value that is valid.                                 *)
LEMMA FieldSet ==
  ASSUME NEW config, NEW f, NEW v, WellFormed(config)
  PROVE  LET set == [config EXCEPT !.fields = [@ EXCEPT ![f] = v]]
         IN  /\ WellFormed(set) /\ set.keys = config.keys
             /\ (Usable(config) /\ ValidField(f, v) => Usable(set))
<1> DEFINE fields == [config.fields EXCEPT ![f] = v]
           set == [config EXCEPT !.fields = fields]
<1>1. fields = [g \in Fields |-> fields[g]] /\ \A g \in Fields : fields[g] = IF g = f THEN v ELSE config.fields[g]
  BY DEF WellFormed
<1> HIDE DEF fields
<1>2. set.fields = fields /\ set.profiles = config.profiles /\ set.keys = config.keys
  BY DEF WellFormed
<1>3. set = [fields |-> set.fields, profiles |-> set.profiles, keys |-> set.keys]
  BY <1>2 DEF WellFormed
<1> HIDE DEF set
<1>4. WellFormed(set)
  BY <1>1, <1>2, <1>3 DEF WellFormed
<1>5. ASSUME Usable(config), ValidField(f, v) PROVE Usable(set)
  <2>1. DOMAIN config.fields = Fields /\ DOMAIN fields = Fields
    BY <1>1 DEF WellFormed
  <2>2. Valid(set)
    BY <1>1, <1>2, <1>5, <2>1 DEF Usable, Valid
  <2> QED
    BY <1>2, <1>4, <1>5, <2>2 DEF Usable
<1> QED
  BY <1>2, <1>4, <1>5 DEF set, fields

LEMMA Clamps == ASSUME NEW n \in Int PROVE Clamped(n) \in 8..48
<1> DEFINE m == Min({48, n})
<1>1. m \in Int /\ m <= 48
  <2>1. CASE 48 <= n
    <3>1. 48 \in {48, n} /\ \A y \in {48, n} : 48 <= y
      BY <2>1
    <3>2. \A x \in {48, n} : (\A y \in {48, n} : x <= y) => x = 48
      BY <2>1
    <3> QED
      BY <3>1, <3>2 DEF Min
  <2>2. CASE n < 48
    <3>1. n \in {48, n} /\ \A y \in {48, n} : n <= y
      BY <2>2
    <3>2. \A x \in {48, n} : (\A y \in {48, n} : x <= y) => x = n
      BY <2>2
    <3> QED
      BY <2>2, <3>1, <3>2 DEF Min
  <2> QED
    BY <2>1, <2>2
<1> HIDE DEF m
<1>2. Max({8, m}) \in 8..48
  <2>1. CASE 8 >= m
    <3>1. 8 \in {8, m} /\ \A y \in {8, m} : 8 >= y
      BY <1>1, <2>1
    <3>2. \A x \in {8, m} : (\A y \in {8, m} : x >= y) => x = 8
      BY <1>1, <2>1
    <3> QED
      BY <3>1, <3>2 DEF Max
  <2>2. CASE m > 8
    <3>1. m \in {8, m} /\ \A y \in {8, m} : m >= y
      BY <1>1, <2>2
    <3>2. \A x \in {8, m} : (\A y \in {8, m} : x >= y) => x = m
      BY <1>1, <2>2
    <3> QED
      BY <1>1, <2>2, <3>1, <3>2 DEF Max
  <2> QED
    BY <1>1, <2>1, <2>2
<1> QED
  BY <1>2 DEF Clamped, m

LEMMA FontSizes == \A v : ValidField("font_size", v) <=> v \in 8..48
<1>1. "font_size" \in DOMAIN Ranges /\ Ranges["font_size"] = 8..48
  BY RangesAt, SMT DEF AppearanceRanges
<1> QED
  BY <1>1, RangesAt, SMT DEF ValidField, Intervals

(* The commands outside the dialog set a valid value.                      *)
LEMMA ShortcutConfig ==
  Inv /\ ConfigInv
  /\ (ToggleSound \/ (\E delta \in {-1, 0, 1} : AdjustFont(delta))
      \/ (\E id \in {"graphite", "daylight"} : PickTheme(id))) => ConfigInv'
<1> SUFFICES ASSUME Inv, ConfigInv
             PROVE  ToggleSound \/ (\E delta \in {-1, 0, 1} : AdjustFont(delta))
                    \/ (\E id \in {"graphite", "daylight"} : PickTheme(id)) => ConfigInv'
  OBVIOUS
<1>0. Usable(cfg) /\ WellFormed(cfg) /\ WellFormed(dialog.draft)
  BY DEF ConfigInv, Configured, Usable
<1>1. ASSUME ToggleSound PROVE ConfigInv'
  <2> DEFINE v == ~cfg.fields.sound_enabled
  <2>1. ValidField("sound_enabled", v)
    BY RangesAt, Unchecked, SMT DEF Intervals
  <2>2. cfg' = [cfg EXCEPT !.fields = [@ EXCEPT !["sound_enabled"] = v]]
    BY <1>0, <1>1 DEF ToggleSound, ApplyConfig, WellFormed
  <2> HIDE DEF v
  <2>3. Usable(cfg')
    BY <1>0, <2>1, <2>2, FieldSet
  <2> QED
    BY <1>0, <1>1, <2>3, NothingSaved DEF ToggleSound, Handles
<1>2. ASSUME NEW delta \in {-1, 0, 1}, AdjustFont(delta) PROVE ConfigInv'
  <2> DEFINE v == IF delta = 0 THEN Defaults.font_size ELSE Clamped(cfg.fields.font_size + delta)
  <2>0. "font_size" \in Fields
    BY <1>2 DEF AdjustFont
  <2>1. cfg.fields.font_size \in 8..48
    BY <1>0, <2>0, FontSizes DEF Usable, Valid, WellFormed
  <2>2. ValidField("font_size", v)
    <3>1. ValidField("font_size", Defaults.font_size)
      BY <2>0, FieldsAssumption, DefaultsValid DEF FieldsValid
    <3>2. Clamped(cfg.fields.font_size + delta) \in 8..48
      BY <2>1, Clamps
    <3> QED
      BY <3>1, <3>2, FontSizes
  <2>3. cfg' = [cfg EXCEPT !.fields = [@ EXCEPT !["font_size"] = v]]
    BY <1>0, <1>2 DEF AdjustFont, ApplyConfig, WellFormed
  <2> HIDE DEF v
  <2>4. Usable(cfg')
    BY <1>0, <2>2, <2>3, FieldSet
  <2> QED
    BY <1>0, <1>2, <2>4, NothingSaved DEF AdjustFont, Handles
<1>3. ASSUME NEW id \in {"graphite", "daylight"}, PickTheme(id) PROVE ConfigInv'
  <2>1. ValidField("theme", id)
    BY TextsValid
  <2>2. cfg' = [cfg EXCEPT !.fields = [@ EXCEPT !["theme"] = id]]
    BY <1>0, <1>3 DEF PickTheme, ApplyConfig, WellFormed
  <2>3. Usable(cfg')
    BY <1>0, <2>1, <2>2, FieldSet
  <2> QED
    BY <1>0, <1>3, <2>3, NothingSaved DEF PickTheme, Handles
<1> QED
  BY <1>1, <1>2, <1>3

(* The draft keeps its fields, whatever is done in the dialog.             *)
LEMMA DraftConfig ==
  Inv /\ ConfigInv
  /\ (Open \/ ResetAll \/ (\E f, v : SetField(f, v)) \/ (\E id, keys : SetKey(id, keys))
      \/ (\E category : ResetSection(category))) => ConfigInv'
<1> SUFFICES ASSUME Inv, ConfigInv
             PROVE  Open \/ ResetAll \/ (\E f, v : SetField(f, v))
                    \/ (\E id, keys : SetKey(id, keys))
                    \/ (\E category : ResetSection(category)) => ConfigInv'
  OBVIOUS
<1>0. Usable(cfg) /\ WellFormed(cfg) /\ WellFormed(dialog.draft) /\ DialogShape
  BY DEF ConfigInv, Configured, Usable, Inv, Shapes
<1>1. ASSUME Handles, cfg' = cfg, writing' = writing, WellFormed(dialog'.draft) PROVE ConfigInv'
  BY <1>0, <1>1, NothingSaved DEF Handles
<1>2. ASSUME Open PROVE ConfigInv'
  BY <1>0, <1>1, <1>2 DEF Open
<1>3. ASSUME ResetAll PROVE ConfigInv'
  <2>1. dialog'.draft = DefaultConfig
    BY <1>0, <1>3 DEF ResetAll, DialogShape
  <2> QED
    BY <1>1, <1>3, <2>1, DefaultUsable DEF ResetAll, Usable
<1>4. ASSUME NEW f, NEW v, SetField(f, v) PROVE ConfigInv'
  <2> DEFINE draft == [dialog.draft EXCEPT !.fields = [@ EXCEPT ![f] = v]]
  <2>1. dialog' = [dialog EXCEPT !.draft = draft]
    BY <1>0, <1>4 DEF SetField
  <2>2. WellFormed(draft)
    BY <1>0, FieldSet
  <2> HIDE DEF draft
  <2>3. dialog'.draft = draft
    BY <1>0, <2>1 DEF DialogShape
  <2> QED
    BY <1>1, <1>4, <2>2, <2>3 DEF SetField
<1>5. ASSUME NEW id, NEW keys, SetKey(id, keys) PROVE ConfigInv'
  <2>1. dialog'.draft = dialog.draft
    BY <1>0, <1>5 DEF SetKey, DialogShape
  <2> QED
    BY <1>0, <1>1, <1>5, <2>1 DEF SetKey
<1>6. ASSUME NEW category, ResetSection(category) PROVE ConfigInv'
  <2> DEFINE default == Restrict(Defaults, ResetBy[category] \cap Fields)
             fields == Over(default, dialog.draft.fields)
             draft == [dialog.draft EXCEPT !.fields = fields]
  <2>1. DOMAIN fields = Fields /\ fields = [f \in Fields |-> fields[f]]
    <3>1. DOMAIN default \subseteq Fields /\ DOMAIN dialog.draft.fields = Fields
      BY <1>0 DEF Restrict, WellFormed
    <3> HIDE DEF default
    <3>2. DOMAIN default \cup DOMAIN dialog.draft.fields = Fields
      BY <3>1
    <3> QED
      BY <3>2 DEF Over
  <2> HIDE DEF fields
  <2>2. WellFormed(draft)
    BY <1>0, <2>1 DEF WellFormed
  <2>3. \/ dialog' = [dialog EXCEPT !.edits = ResetKeysToDefaults]
        \/ dialog' = [dialog EXCEPT !.draft = draft]
    BY <1>6 DEF ResetSection, fields
  <2> HIDE DEF draft
  <2>4. dialog'.draft \in {dialog.draft, draft}
    BY <1>0, <2>3 DEF DialogShape
  <2> QED
    BY <1>0, <1>1, <1>6, <2>2, <2>4 DEF ResetSection
<1> QED
  BY <1>2, <1>3, <1>4, <1>5, <1>6

(* Apply: only what is valid is saved.                                     *)
LEMMA SubmitConfig == Inv /\ ConfigInv /\ Apply => ConfigInv'
<1> SUFFICES ASSUME Inv, ConfigInv, Apply PROVE ConfigInv'
  OBVIOUS
<1> DEFINE candidate == Candidate
           keys == KeybindingOverrides(dialog.edits, DefaultKeymap)
<1>0. /\ Usable(cfg) /\ WellFormed(dialog.draft) /\ DialogShape /\ WellFormed(Closed.draft)
      /\ writing = Idle /\ files' = files /\ saved' = saved /\ Submit(candidate)
  BY DefaultUsable DEF ConfigInv, Configured, Usable, Inv, Shapes, Apply, Handles, Closed
<1>1. ListOf(keys) /\ Distinct(keys)
  BY DialogWrites DEF ListOf
<1>2. candidate = [dialog.draft EXCEPT !.keys = keys]
  BY DEF Candidate
<1> HIDE DEF candidate, keys
<1>3. WellFormed(candidate) /\ candidate.keys = keys
  BY <1>0, <1>2 DEF WellFormed
<1>4. Acceptable(candidate) => Usable(candidate)
  BY <1>1, <1>3 DEF Acceptable, Usable
<1>5. CASE ~Acceptable(candidate)
  <2>1. dialog' = [dialog EXCEPT !.errors = TRUE] /\ writing' = writing /\ cfg' = cfg
    BY <1>0, <1>5 DEF Submit
  <2>2. dialog'.draft = dialog.draft
    BY <1>0, <2>1 DEF DialogShape
  <2> QED
    BY <1>0, <2>1, <2>2, NothingSaved
<1>6. CASE Acceptable(candidate) /\ phase # "normal"
  <2>1. dialog' = Closed /\ writing' = writing /\ cfg' = candidate
    BY <1>0, <1>6 DEF Submit, Save, ApplyConfig
  <2> QED
    BY <1>0, <1>4, <1>6, <2>1, NothingSaved
<1>7. CASE Acceptable(candidate) /\ phase = "normal"
  <2> DEFINE toml == OverridesToml(SaveBase, candidate)
  <2>1. /\ dialog' = Closed /\ cfg' = cfg
        /\ writing' = [at |-> "create", file |-> toml, config |-> candidate, disturbed |-> FALSE]
    BY <1>0, <1>7 DEF Submit, Save
  <2>2. Usable(SaveBase)
    BY EffectiveUsable DEF SaveBase, ConfigInv, FilesReadable
  <2>3. Usable(candidate) /\ Readable(toml)
    BY <1>4, <1>7, <2>2, WhatIsWritten
  <2>4. SaveBase' = SaveBase
    BY <1>0, SameBase
  <2>5. writing'.file = toml /\ writing'.config = candidate
    BY <2>1
  <2>6. Configured'
    BY <1>0, <2>1, <2>3, <2>5 DEF Configured
  <2>7. toml = OverridesToml(SaveBase', candidate)
    BY <2>4
  <2> HIDE DEF toml
  <2>8. Remembered'
    BY <1>0, <2>4, <2>5, <2>7 DEF ConfigInv, Remembered, SavedAs
  <2>9. FilesReadable'
    BY <1>0 DEF ConfigInv, FilesReadable
  <2> QED
    BY <2>6, <2>8, <2>9 DEF ConfigInv
<1> QED
  BY <1>5, <1>6, <1>7

(* Saving changes no file that is read before the rename.                  *)
LEMMA StepConfig ==
  ASSUME ConfigInv, WritingShape, NEW from, NEW to, Step(from, to), from # "idle",
         files'.config = files.config, files'.overrides = files.overrides
  PROVE  ConfigInv'
<1>1. /\ writing # Idle /\ writing' = [writing EXCEPT !.at = to] /\ dialog' = dialog
      /\ cfg' = cfg /\ saved' = saved
  BY IdleAt DEF Step
<1>2. /\ writing'.file = writing.file /\ writing'.config = writing.config
      /\ writing'.disturbed = writing.disturbed
  BY <1>1 DEF WritingShape
<1>3. SaveBase' = SaveBase
  BY SameBase
<1>4. FilesReadable'
  BY DEF ConfigInv, FilesReadable
<1>5. Configured'
  BY <1>1, <1>2 DEF ConfigInv, Configured
<1>6. Remembered'
  BY <1>1, <1>2, <1>3 DEF ConfigInv, Remembered, SavedAs
<1> QED
  BY <1>4, <1>5, <1>6 DEF ConfigInv

LEMMA WriteConfig == Inv /\ ConfigInv /\ WriteAtomic => ConfigInv'
<1> SUFFICES ASSUME Inv, ConfigInv, WriteAtomic PROVE ConfigInv'
  OBVIOUS
<1>0. FilesShape /\ WritingShape /\ TempReady
  BY DEF Inv, Shapes
<1>1. CASE CreateTemp \/ WriteTemp \/ NothingToKeep \/ StartCopy \/ EndCopy
  <2>1. files'.config = files.config /\ files'.overrides = files.overrides
    BY <1>0, <1>1
    DEF CreateTemp, WriteTemp, NothingToKeep, StartCopy, EndCopy, TornAside, FilesShape
  <2>2. PICK from, to : Step(from, to) /\ from # "idle"
    BY <1>1 DEF CreateTemp, WriteTemp, NothingToKeep, StartCopy, EndCopy
  <2> QED
    BY <1>0, <2>1, <2>2, StepConfig
<1>2. CASE RenameTemp \/ WriteFails
  <2>1. /\ writing # Idle /\ writing' = Idle /\ dialog' = dialog /\ cfg' = writing.config
    BY <1>2, IdleAt DEF RenameTemp, WriteFails, EndWrite, ApplyConfig
  <2>2. Usable(cfg') /\ WellFormed(dialog'.draft) /\ Readable(writing.file)
    BY <2>1 DEF ConfigInv, Configured
  <2>3. CASE WriteFails
    <3>1. files'.config = files.config /\ files'.overrides = files.overrides /\ saved' = saved
      BY <1>0, <2>3 DEF WriteFails, FilesShape
    <3> QED
      BY <2>1, <2>2, <3>1, NothingSaved
  <2>4. CASE RenameTemp
    <3>1. /\ files'.config = files.config /\ files'.overrides = writing.file
      BY <1>0, <2>4 DEF RenameTemp, FilesShape, TempReady
    <3>2. SaveBase' = SaveBase
      BY <3>1, SameBase
    <3>3. FilesReadable'
      BY <2>2, <3>1 DEF ConfigInv, FilesReadable
    <3>4. Configured'
      BY <2>1, <2>2 DEF Configured
    <3>5. saved'.is => SavedAs(writing.file, saved'.config)
      BY <2>1, <2>4 DEF RenameTemp, NotSaved, ConfigInv, Configured, Remembered, SavedAs
    <3>6. Remembered'
      BY <2>1, <3>1, <3>2, <3>5 DEF Remembered, SavedAs
    <3> QED
      BY <3>3, <3>4, <3>6 DEF ConfigInv
  <2> QED
    BY <1>2, <2>3, <2>4
<1> QED
  BY <1>1, <1>2 DEF WriteAtomic

LEMMA EditOutsideConfig == Inv /\ ConfigInv /\ EditOutside => ConfigInv'
<1> SUFFICES ASSUME Inv, ConfigInv, EditOutside PROVE ConfigInv'
  OBVIOUS
<1>0. FilesShape /\ WritingShape
  BY DEF Inv, Shapes
<1>1. cfg' = cfg /\ dialog' = dialog /\ saved' = NotSaved
  BY DEF EditOutside
<1>2. FilesReadable'
  <2>1. \A file \in TriedConfigs \cup TriedOverrides : Readable(file)
    BY FilesAssumption DEF Readable, ListOf
  <2>2. /\ files'.config \in TriedConfigs \cup {files.config}
        /\ files'.overrides \in TriedOverrides \cup {files.overrides}
    BY <1>0 DEF EditOutside, FilesShape
  <2> QED
    BY <2>1, <2>2 DEF ConfigInv, FilesReadable
<1>3. \/ writing' = Idle
      \/ /\ writing # Idle /\ writing'.disturbed /\ writing'.config = writing.config
         /\ writing'.file = writing.file
  BY <1>0 DEF EditOutside, WritingShape
<1>4. Configured'
  BY <1>1, <1>3 DEF ConfigInv, Configured
<1>5. Remembered'
  BY <1>1, <1>3 DEF Remembered, NotSaved
<1> QED
  BY <1>2, <1>4, <1>5 DEF ConfigInv

LEMMA NextConfig == Inv /\ ConfigInv /\ [SettingsNext]_settingsVars => ConfigInv'
<1> SUFFICES ASSUME Inv, ConfigInv, [SettingsNext]_settingsVars PROVE ConfigInv'
  OBVIOUS
<1>1. CASE UseDialog
  BY <1>1, DraftConfig, CancelConfig, SubmitConfig DEF UseDialog
<1>2. CASE UNCHANGED settingsVars
  BY <1>2, NothingSaved DEF settingsVars, ConfigInv, Configured
<1> QED
  BY <1>1, <1>2, BootConfig, WriteConfig, StopConfig, EditOutsideConfig, ShortcutConfig
  DEF SettingsNext

LEMMA ConfigInvariance == SettingsSpec => []ConfigInv
  BY Invariance, InitConfig, NextConfig, PTL DEF SettingsSpec

(***************************************************************************)
(* The sound player                                                        *)
(***************************************************************************)
(* One element for each source in a mixer.                                 *)
Sources(s) == {p \in Openings \X Nat : p[2] \in 1..s[p[1]]}
SoundInv ==
  /\ sounding \in [Openings -> Nat] /\ active \in Nat /\ active <= MaxOverlap
  /\ IsFiniteSet(Sources(sounding)) /\ Cardinality(Sources(sounding)) <= active

LEMMA SourcesOf ==
  ASSUME NEW s \in [Openings -> Nat], NEW t \in Openings, IsFiniteSet(Sources(s))
  PROVE  LET Own == {p \in Sources(s) : p[1] = t}
         IN  IsFiniteSet(Own) /\ Cardinality(Own) = s[t] /\ Own \subseteq Sources(s)
<1> DEFINE Own == {p \in Sources(s) : p[1] = t}
           f == [k \in 1..s[t] |-> <<t, k>>]
<1>1. IsFiniteSet(1..s[t]) /\ Cardinality(1..s[t]) = s[t]
  <2>1. s[t] \in Nat
    OBVIOUS
  <2> QED
    BY <2>1, FS_Interval
<1>2. \A k \in 1..s[t] : <<t, k>> \in Own
  BY DEF Sources
<1>3. \A p \in Own : p[2] \in 1..s[t] /\ p = <<t, p[2]>>
  BY DEF Sources
<1>4. f \in Bijection(1..s[t], Own)
  <2> HIDE DEF Own
  <2>1. f \in [1..s[t] -> Own]
    BY <1>2
  <2>2. \A a, b \in 1..s[t] : f[a] = f[b] => a = b
    OBVIOUS
  <2>3. \A p \in Own : \E a \in 1..s[t] : f[a] = p
    BY <1>3
  <2> HIDE DEF f
  <2> QED
    BY <2>1, <2>2, <2>3 DEF Bijection, Injection, Surjection, IsInjective
<1>5. ExistsBijection(1..s[t], Own)
  BY <1>4 DEF ExistsBijection
<1> HIDE DEF f
<1>6. IsFiniteSet(Own) /\ Cardinality(Own) = s[t]
  <2> HIDE DEF Own
  <2> QED
    BY <1>1, <1>5, FS_Bijection
<1> QED
  BY <1>6

LEMMA SoundLimits == SoundInv => CuesLimited
<1> SUFFICES ASSUME SoundInv, NEW t \in Openings PROVE sounding[t] <= active /\ active <= MaxOverlap
  BY DEF CuesLimited
<1> DEFINE Own == {p \in Sources(sounding) : p[1] = t}
<1>1. IsFiniteSet(Own) /\ Cardinality(Own) = sounding[t] /\ Own \subseteq Sources(sounding)
  BY SourcesOf DEF SoundInv
<1> HIDE DEF Own
<1>2. Cardinality(Own) <= Cardinality(Sources(sounding)) /\ Cardinality(Sources(sounding)) \in Nat
  BY <1>1, FS_Subset, FS_CardinalityType DEF SoundInv
<1> QED
  BY <1>1, <1>2, SoundAssumption DEF SoundInv

LEMMA SoundInitInv == SoundInit => SoundInv
<1> SUFFICES ASSUME SoundInit PROVE SoundInv
  OBVIOUS
<1>1. Sources(sounding) = {}
  BY DEF SoundInit, Sources
<1> QED
  BY <1>1, FS_EmptySet, SoundAssumption DEF SoundInit, SoundInv

LEMMA SoundNextInv == SoundInv /\ [SoundNext]_soundVars => SoundInv'
<1> SUFFICES ASSUME SoundInv, [SoundNext]_soundVars PROVE SoundInv'
  OBVIOUS
<1> DEFINE S == Sources(sounding)
           T == Sources(sounding')
<1>0. /\ sounding \in [Openings -> Nat] /\ active \in Nat /\ active <= MaxOverlap /\ MaxOverlap \in Nat
      /\ IsFiniteSet(S) /\ Cardinality(S) <= active /\ Cardinality(S) \in Nat
  BY SoundAssumption, FS_CardinalityType DEF SoundInv
<1>1. ASSUME sounding' = sounding, active' = active PROVE SoundInv'
  BY <1>0, <1>1 DEF SoundInv
<1>2. ASSUME NEW cue, Play(cue) PROVE SoundInv'
  <2>1. CASE Polled.is = "ready" /\ Allowed(cue)
    <3> DEFINE t == Polled.thread
    <3>1. active' = active + 1 /\ active < MaxOverlap /\ sounding' = [sounding EXCEPT ![t] = @ + 1]
      BY <1>2, <2>1 DEF Play, Allowed
    <3> HIDE DEF t
    <3>2. CASE t \in Openings
      <4> DEFINE x == <<t, sounding[t] + 1>>
      <4>1. T = S \cup {x}
        <5>1. ASSUME NEW p \in Openings \X Nat
              PROVE  p[2] \in 1..sounding'[p[1]] <=> p[2] \in 1..sounding[p[1]] \/ p = x
          BY <1>0, <3>1, <3>2
        <5>2. x \in Openings \X Nat
          BY <1>0, <3>2
        <5> HIDE DEF x
        <5> QED
          BY <5>1, <5>2 DEF Sources
      <4> HIDE DEF S, T, x
      <4>2. IsFiniteSet(T) /\ Cardinality(T) <= Cardinality(S) + 1
        BY <1>0, <4>1, FS_AddElement
      <4>3. Cardinality(T) \in Nat
        BY <4>2, FS_CardinalityType
      <4>4. sounding' \in [Openings -> Nat]
        BY <1>0, <3>1, <3>2
      <4>5. active' \in Nat /\ active' <= MaxOverlap /\ Cardinality(T) <= active'
        BY <1>0, <3>1, <4>2, <4>3
      <4> QED
        BY <4>2, <4>4, <4>5 DEF SoundInv, T
    <3>3. CASE t \notin Openings
      <4>1. sounding' = sounding
        BY <1>0, <3>1, <3>3
      <4>2. active' \in Nat /\ active' <= MaxOverlap /\ Cardinality(S) <= active'
        BY <1>0, <3>1
      <4> QED
        BY <1>0, <4>1, <4>2 DEF SoundInv
    <3> QED
      BY <3>2, <3>3
  <2>2. CASE ~(Polled.is = "ready" /\ Allowed(cue))
    BY <1>1, <1>2, <2>2 DEF Play
  <2> QED
    BY <2>1, <2>2
<1>3. ASSUME NEW t \in Openings, LetsGo(t) PROVE SoundInv'
  <2> DEFINE Own == {p \in S : p[1] = t}
  <2>1. sounding' = [sounding EXCEPT ![t] = 0] /\ active' \in {active, active - sounding[t]}
    BY <1>3 DEF LetsGo
  <2>2. IsFiniteSet(Own) /\ Cardinality(Own) = sounding[t] /\ Own \subseteq S
    BY <1>0, SourcesOf
  <2>3. T = S \ Own
    BY <1>0, <2>1 DEF Sources
  <2> HIDE DEF Own, S, T
  <2>4. IsFiniteSet(T) /\ Cardinality(T) = Cardinality(S) - Cardinality(Own)
    <3>1. S \cap Own = Own
      BY <2>2
    <3>2. IsFiniteSet(S \ Own) /\ Cardinality(S \ Own) = Cardinality(S) - Cardinality(S \cap Own)
      BY <1>0, FS_Difference
    <3> QED
      BY <2>3, <3>1, <3>2
  <2>5. Cardinality(T) \in Nat
    BY <2>4, FS_CardinalityType
  <2>6. sounding' \in [Openings -> Nat] /\ sounding[t] \in Nat
    BY <1>0, <2>1
  <2>7. active' \in Nat /\ active' <= MaxOverlap /\ Cardinality(T) <= active'
    BY <1>0, <2>1, <2>2, <2>4, <2>5, <2>6
  <2> QED
    BY <2>4, <2>6, <2>7 DEF SoundInv, T
<1>4. ASSUME NEW t \in Openings, CueEnds(t) PROVE SoundInv'
  <2> DEFINE x == <<t, sounding[t]>>
  <2>1. sounding[t] > 0 /\ sounding' = [sounding EXCEPT ![t] = @ - 1] /\ active' = active - 1
    BY <1>4 DEF CueEnds
  <2>2. x \in S
    BY <1>0, <2>1 DEF Sources
  <2>3. T = S \ {x}
    <3>1. ASSUME NEW p \in Openings \X Nat
          PROVE  p[2] \in 1..sounding'[p[1]] <=> p[2] \in 1..sounding[p[1]] /\ p # x
      BY <1>0, <2>1
    <3> HIDE DEF x
    <3> QED
      BY <3>1 DEF Sources
  <2>4. sounding' \in [Openings -> Nat]
    BY <1>0, <2>1
  <2> HIDE DEF S, T, x
  <2>5. IsFiniteSet(T) /\ Cardinality(T) = Cardinality(S) - 1
    BY <1>0, <2>2, <2>3, FS_RemoveElement
  <2>6. Cardinality(T) \in Nat
    BY <2>5, FS_CardinalityType
  <2> QED
    BY <1>0, <2>1, <2>4, <2>5, <2>6 DEF SoundInv, T
<1>5. CASE UNCHANGED soundVars
  BY <1>1, <1>5 DEF soundVars
<1>6. CASE SwitchOn \/ SwitchOff \/ SetKeypress
  BY <1>1, <1>6 DEF SwitchOn, SwitchOff, SetKeypress
<1>7. ASSUME NEW cue, IntervalPasses(cue) PROVE SoundInv'
  BY <1>1, <1>7 DEF IntervalPasses
<1>8. ASSUME NEW t \in Openings, Opens(t) PROVE SoundInv'
  BY <1>1, <1>8 DEF Opens
<1> QED
  BY <1>2, <1>3, <1>4, <1>5, <1>6, <1>7, <1>8 DEF SoundNext, OutputThread

(***************************************************************************)
(* Theorems                                                                *)
(***************************************************************************)
(* write_atomic: whatever fails or crashes while settings are saved, and   *)
(* whoever else edits the files in between, ui-overrides.toml is never     *)
(* half of a file, and is replaced only when it is in its backup.          *)
THEOREM OverridesNeverTorn == SettingsSpec => []FileWhole
  BY Invariance, PTL DEF Inv

(* on_settings: no preview of a theme or font outlives the dialog, however *)
(* it is left and whether saving works or not.                             *)
THEOREM PreviewNeverOutlives == SettingsSpec => []LookFollowsConfig
  BY Invariance, PTL DEF Inv

(* persist_overrides, overrides_toml, load_effective: what Apply saved is  *)
(* what the next start reads, as long as nobody else writes the files: the *)
(* fields, the profiles and the shortcuts that an override can express.    *)
THEOREM SavedIsReadBack == SettingsSpec => []SavedReloads
  BY ConfigInvariance, SavedInv, PTL

(* Whatever is loaded, changed by a command or applied in the dialog, the  *)
(* running configuration is one that validate accepts.                     *)
THEOREM RunningConfigValid == SettingsSpec => []Valid(cfg)
<1>1. ConfigInv => Valid(cfg)
  BY DEF ConfigInv, Configured, Usable
<1> QED
  BY <1>1, ConfigInvariance, PTL

(* Limiter: no more cues sound at once than MAX_OVERLAP, on all devices    *)
(* together, and their counter never runs below what it counts.            *)
THEOREM CuesStayLimited == SoundSpec => []CuesLimited
  BY SoundInitInv, SoundNextInv, SoundLimits, PTL DEF SoundSpec
=============================================================================

---------------------------- MODULE ConfigProofs ----------------------------
(***************************************************************************)
(* What holds of shortcuts and of layered configuration files for every    *)
(* list of overrides, every set of fields and every content of the files.  *)
(***************************************************************************)
EXTENDS ConfigFiles, FiniteSetTheorems, SequenceTheorems, TLAPS

(***************************************************************************)
(* Loops                                                                   *)
(***************************************************************************)
LEMMA LeastNat ==
  ASSUME NEW S \in SUBSET Nat, S # {}
  PROVE  \E m \in S : \A n \in S : m <= n
<1> DEFINE R == StrictSubsetOrdering(Nat)
           I == {T \in FiniteSubsetsOf(Nat) : \E m \in S : T = 0..m}
<1>1. \A m \in S : 0..m \in I
  <2> TAKE m \in S
  <2>1. IsFiniteSet(0..m)
    BY FS_Interval
  <2> QED
    BY <2>1 DEF FiniteSubsetsOf
<1>2. \E x \in I : \A y \in I : ~ (<<y, x>> \in R)
  <2>1. I # {} /\ I \subseteq FiniteSubsetsOf(Nat)
    BY <1>1
  <2> HIDE DEF I, R
  <2> QED
    BY <2>1, FS_StrictSubsetOrderingWellFounded, WFMin DEF R
<1>3. PICK m \in S : \A y \in I : ~ (<<y, 0..m>> \in R)
  BY <1>2
<1>4. ASSUME NEW n \in S, n < m PROVE FALSE
  <2>1. 0..n \subseteq 0..m /\ 0..n # 0..m
    <3>1. m \in 0..m /\ m \notin 0..n
      BY <1>4
    <3> QED
      BY <1>4, <3>1
  <2>2. <<0..n, 0..m>> \in R
    BY <2>1 DEF StrictSubsetOrdering
  <2> QED
    BY <2>2, <1>1, <1>3
<1> QED
  BY <1>4

(* What holds at the start of a loop and is kept by every turn holds at    *)
(* its end.                                                                *)
LEMMA Turns ==
  ASSUME NEW k \in Nat, NEW G, 0 \in G, \A n \in 1..k : n - 1 \in G => n \in G
  PROVE  \A n \in 0..k : n \in G
<1> DEFINE Bad == (0..k) \ G
<1>1. SUFFICES ASSUME Bad # {} PROVE FALSE
  OBVIOUS
<1>2. Bad \in SUBSET Nat
  OBVIOUS
<1> HIDE DEF Bad
<1>3. \E n \in Bad : \A m \in Bad : n <= m
  BY <1>1, <1>2, LeastNat
<1>4. PICK n \in Bad : \A m \in Bad : n <= m
  BY <1>3
<1>5. n \in 0..k /\ n \notin G /\ n # 0
  BY DEF Bad
<1>6. n \in 1..k /\ n - 1 \in 0..k
  BY <1>5
<1>7. n - 1 \notin G
  BY <1>5, <1>6
<1>8. n - 1 \in Bad
  BY <1>6, <1>7 DEF Bad
<1> QED
  BY <1>4, <1>5, <1>8

(* A loop over k entries that stays within S has a run, which is what a    *)
(* recursive function denotes.                                             *)
LoopRun(f, k, S, start, turn) ==
  /\ f \in [0..k -> S] /\ f[0] = start
  /\ \A n \in 1..k : f[n] = turn[n][f[n - 1]]

LEMMA LoopRuns ==
  ASSUME NEW k \in Nat, NEW S, NEW start \in S, NEW turn, turn \in [1..k -> [S -> S]]
  PROVE  \E f : LoopRun(f, k, S, start, turn)
<1> DEFINE Run(f, m) == /\ f \in [0..m -> S] /\ f[0] = start
                        /\ \A n \in 1..m : f[n] = turn[n][f[n - 1]]
           G == {m \in 0..k : \E f \in [0..m -> S] : Run(f, m)}
<1>1. 0 \in G
  <2> DEFINE f == [n \in 0..0 |-> start]
  <2>1. f \in [0..0 -> S] /\ f[0] = start
    OBVIOUS
  <2>2. \A n \in 1..0 : FALSE
    OBVIOUS
  <2> HIDE DEF f
  <2>3. Run(f, 0)
    BY <2>1, <2>2
  <2> QED
    BY <2>1, <2>3
<1>2. ASSUME NEW m \in 1..k, m - 1 \in G PROVE m \in G
  <2>1. PICK f \in [0..(m - 1) -> S] : Run(f, m - 1)
    BY <1>2
  <2> DEFINE g == [n \in 0..m |-> IF n = m THEN turn[m][f[m - 1]] ELSE f[n]]
  <2>2. m \in Nat /\ m - 1 \in 0..(m - 1) /\ (\A n \in 0..m : n # m => n \in 0..(m - 1))
    BY <1>2
  <2>3. f[m - 1] \in S /\ turn[m] \in [S -> S] /\ turn[m][f[m - 1]] \in S
    BY <2>2
  <2>4. g \in [0..m -> S]
    BY <2>2, <2>3
  <2>5. g[0] = start
    BY <2>1, <2>2
  <2>6. ASSUME NEW n \in 1..m PROVE g[n] = turn[n][g[n - 1]]
    <3>1. n - 1 \in 0..m /\ n \in 0..m /\ n - 1 # m
      BY <2>2
    <3>2. g[n - 1] = f[n - 1]
      BY <3>1
    <3>3. CASE n = m
      BY <3>1, <3>2, <3>3
    <3>4. CASE n # m
      <4>1. n \in 1..(m - 1)
        BY <2>2, <3>4
      <4>2. f[n] = turn[n][f[n - 1]]
        BY <2>1, <4>1
      <4>3. g[n] = f[n]
        BY <3>1, <3>4
      <4> HIDE DEF g
      <4> QED
        BY <3>2, <4>2, <4>3
    <3> QED
      BY <3>3, <3>4
  <2> HIDE DEF g
  <2>7. Run(g, m)
    BY <2>4, <2>5, <2>6
  <2>8. m \in 0..k
    BY <2>2
  <2> QED
    BY <2>4, <2>7, <2>8
<1>3. k \in G
  <2> HIDE DEF G
  <2>1. \A n \in 0..k : n \in G
    BY <1>1, <1>2, Turns
  <2> QED
    BY <2>1
<1>4. \E f \in [0..k -> S] : Run(f, k)
  BY <1>3
<1> QED
  BY <1>4 DEF LoopRun

(***************************************************************************)
(* The registry                                                            *)
(***************************************************************************)
LEMMA RegistryNames ==
  /\ Registry[1].id = "new_tab" /\ Registry[1].context = "global"
  /\ Registry[2].id = "close_pane" /\ Registry[2].context = "global"
  /\ Registry[3].id = "split_right" /\ Registry[3].context = "global"
  /\ Registry[4].id = "split_down" /\ Registry[4].context = "global"
  /\ Registry[5].id = "focus_next" /\ Registry[5].context = "global"
  /\ Registry[6].id = "focus_previous" /\ Registry[6].context = "global"
  /\ Registry[7].id = "zoom" /\ Registry[7].context = "global"
  /\ Registry[8].id = "next_tab" /\ Registry[8].context = "global"
  /\ Registry[9].id = "previous_tab" /\ Registry[9].context = "global"
  /\ Registry[10].id = "copy" /\ Registry[10].context = "terminal"
  /\ Registry[11].id = "paste" /\ Registry[11].context = "terminal"
  /\ Registry[12].id = "search" /\ Registry[12].context = "terminal"
  /\ Registry[13].id = "scroll_page_up" /\ Registry[13].context = "terminal"
  /\ Registry[14].id = "scroll_page_down" /\ Registry[14].context = "terminal"
  /\ Registry[15].id = "palette" /\ Registry[15].context = "global"
  /\ Registry[16].id = "settings" /\ Registry[16].context = "global"
  /\ Registry[17].id = "toggle_system" /\ Registry[17].context = "global"
  /\ Registry[18].id = "toggle_network" /\ Registry[18].context = "global"
  /\ Registry[19].id = "toggle_directory" /\ Registry[19].context = "global"
  /\ Registry[20].id = "reset_layout" /\ Registry[20].context = "global"
  /\ Registry[21].id = "font_increase" /\ Registry[21].context = "global"
  /\ Registry[22].id = "font_decrease" /\ Registry[22].context = "global"
  /\ Registry[23].id = "font_reset" /\ Registry[23].context = "global"
  /\ Registry[24].id = "keyboard" /\ Registry[24].context = "global"
  /\ Registry[25].id = "sound" /\ Registry[25].context = "global"
  BY Zenon DEF Registry, Info

LEMMA RegistryIds ==
  /\ Len(Registry) = 25 /\ DOMAIN Registry = 1..25
  /\ \A i, j \in 1..25 : Registry[i].id = Registry[j].id => i = j
  /\ \A i \in 1..25 : Registry[i].context \in Range(Contexts)
<1>1. Len(Registry) = 25 /\ DOMAIN Registry = 1..25
  BY SMT DEF Registry
<1>2. \A i, j \in 1..25 : Registry[i].id = Registry[j].id => i = j
  BY RegistryNames, SMTT(60)
<1>3. "global" \in Range(Contexts) /\ "terminal" \in Range(Contexts)
  <2>1. 1 \in DOMAIN Contexts /\ 2 \in DOMAIN Contexts /\ Contexts[1] = "global" /\ Contexts[2] = "terminal"
    BY DEF Contexts
  <2> QED
    BY <2>1 DEF Range
<1>4. \A i \in 1..25 : Registry[i].context \in Range(Contexts)
  BY <1>3, RegistryNames, SMTT(60)
<1> QED
  BY <1>1, <1>2, <1>4

(***************************************************************************)
(* The keymap                                                              *)
(***************************************************************************)
Slots == ActionIds \X Range(Contexts)

LEMMA ActionIdsAre == ActionIds = {Registry[n].id : n \in 1..25}
  BY RegistryIds DEF ActionIds, Range

LEMMA RegistryPlaces ==
  /\ \A slot \in Slots : Place(slot) \in Nat
  /\ \A s, t \in Slots : Place(s) = Place(t) => s = t
<1> DEFINE At(id) == CHOOSE i \in DOMAIN Registry : Registry[i].id = id
<1>1. \A id \in ActionIds : At(id) \in 1..25 /\ Registry[At(id)].id = id
  <2> TAKE id \in ActionIds
  <2>1. \E i \in DOMAIN Registry : Registry[i].id = id
    BY RegistryIds, ActionIdsAre
  <2> QED
    BY <2>1, RegistryIds
<1>2. \A slot \in Slots : Place(slot) = 2 * At(slot[1]) + IF slot[2] = "global" THEN 0 ELSE 1
  BY DEF Place
<1>3. \A slot \in Slots : slot = <<slot[1], slot[2]>> /\ slot[1] \in ActionIds /\ slot[2] \in {"global", "terminal"}
  <2>1. Range(Contexts) = {"global", "terminal"}
    <3>1. DOMAIN Contexts = 1..2 /\ Contexts[1] = "global" /\ Contexts[2] = "terminal"
      BY DEF Contexts
    <3> QED
      BY <3>1 DEF Range
  <2> QED
    BY <2>1 DEF Slots
<1> HIDE DEF At
<1>4. \A slot \in Slots : Place(slot) \in Nat
  BY <1>1, <1>2, <1>3
<1>5. ASSUME NEW s \in Slots, NEW t \in Slots, Place(s) = Place(t) PROVE s = t
  <2>1. At(s[1]) \in 1..25 /\ At(t[1]) \in 1..25 /\ Registry[At(s[1])].id = s[1] /\ Registry[At(t[1])].id = t[1]
    BY <1>1, <1>3
  <2>2. At(s[1]) = At(t[1]) /\ (s[2] = "global" <=> t[2] = "global")
    <3> DEFINE i == At(s[1])
               j == At(t[1])
               b == IF s[2] = "global" THEN 0 ELSE 1
               c == IF t[2] = "global" THEN 0 ELSE 1
    <3>1. i \in Int /\ j \in Int /\ b \in {0, 1} /\ c \in {0, 1}
      BY <2>1
    <3>2. 2 * i + b = 2 * j + c
      BY <1>2, <1>5
    <3>3. i = j /\ b = c
      <4> HIDE DEF i, j, b, c
      <4> QED
        BY <3>1, <3>2
    <3> QED
      BY <3>3
  <2>3. s[1] = t[1] /\ s[2] = t[2]
    BY <1>3, <2>1, <2>2
  <2> QED
    BY <1>3, <2>3
<1> QED
  BY <1>4, <1>5

(* A shortcut is at most one chord.                                        *)
LEMMA OneChord == \A text : \A c, d \in ParseChord(text) : c = d
  BY DEF ParseChord

LEMMA WantedAre ==
  ASSUME NEW chosen
  PROVE  /\ \A w \in Wanted(chosen) :
              \E slot \in DOMAIN chosen :
                /\ w.place = Place(slot) /\ w.action = slot[1] /\ w.context = slot[2]
                /\ w.chord \in ParseChord(chosen[slot]) /\ Bindable(slot[2], w.chord)
                /\ w = [place |-> w.place, action |-> w.action, context |-> w.context, chord |-> w.chord]
  BY DEF Wanted

LEMMA BindAllSound ==
  ASSUME NEW chosen, DOMAIN chosen \subseteq Slots, NEW unknown
  PROVE  Unambiguous(chosen, BindChosen(chosen, unknown))
<1> DEFINE wanted == Wanted(chosen)
           bound == First(wanted)
           keymap == BindChosen(chosen, unknown)
<1>1. /\ \A w \in wanted : w.place \in Nat
      /\ \A w, v \in wanted : w.place = v.place => w = v
  <2>1. \A w \in wanted : w.place \in Nat
    BY WantedAre, RegistryPlaces
  <2>2. ASSUME NEW w \in wanted, NEW v \in wanted, w.place = v.place PROVE w = v
    <3>1. PICK s \in DOMAIN chosen :
            /\ w.place = Place(s) /\ w.action = s[1] /\ w.context = s[2]
            /\ w.chord \in ParseChord(chosen[s])
            /\ w = [place |-> w.place, action |-> w.action, context |-> w.context, chord |-> w.chord]
      BY WantedAre
    <3>2. PICK t \in DOMAIN chosen :
            /\ v.place = Place(t) /\ v.action = t[1] /\ v.context = t[2]
            /\ v.chord \in ParseChord(chosen[t])
            /\ v = [place |-> v.place, action |-> v.action, context |-> v.context, chord |-> v.chord]
      BY WantedAre
    <3>3. s = t
      BY <2>2, <3>1, <3>2, RegistryPlaces
    <3>4. w.chord = v.chord
      BY <3>1, <3>2, <3>3, OneChord
    <3> QED
      BY <3>1, <3>2, <3>3, <3>4
  <2> QED
    BY <2>1, <2>2
<1> HIDE DEF wanted
<1>2. bound \subseteq wanted /\ \A w, v \in bound : w.chord = v.chord => w = v
  <2>1. ASSUME NEW w \in bound, NEW v \in bound, w.chord = v.chord PROVE w = v
    <3>1. w \in wanted /\ v \in wanted /\ ~(v.place < w.place) /\ ~(w.place < v.place)
      BY <2>1 DEF First, Clash
    <3>2. w.place = v.place
      BY <1>1, <3>1
    <3> QED
      BY <1>1, <3>1, <3>2
  <2> QED
    BY <2>1 DEF First
<1>3. keymap.bindings = {[context |-> w.context, chord |-> w.chord, action |-> w.action] : w \in bound}
  BY DEF BindChosen, BindAll, wanted
<1>4. keymap.refused = unknown \cup {slot[1] : slot \in {k \in DOMAIN chosen :
                         chosen[k] # Unbound /\ ~\E w \in bound : w.place = Place(k)}}
  BY DEF BindChosen, BindAll, wanted
<1> HIDE DEF keymap, bound
<1>5. \A b \in keymap.bindings :
        /\ b = [context |-> b.context, chord |-> b.chord, action |-> b.action]
        /\ \E w \in bound : b.context = w.context /\ b.chord = w.chord /\ b.action = w.action
  BY <1>3
<1>6. \A b, c \in keymap.bindings : b.chord = c.chord => b = c
  <2> TAKE b, c \in keymap.bindings
  <2> HAVE b.chord = c.chord
  <2>1. PICK w \in bound : b.context = w.context /\ b.chord = w.chord /\ b.action = w.action
    BY <1>5
  <2>2. PICK v \in bound : c.context = v.context /\ c.chord = v.chord /\ c.action = v.action
    BY <1>5
  <2>3. w = v
    BY <1>2, <2>1, <2>2
  <2> QED
    BY <1>5, <2>1, <2>2, <2>3
<1>7. \A w \in wanted : \E slot \in DOMAIN chosen :
        /\ w.place = Place(slot) /\ w.action = slot[1] /\ w.context = slot[2]
        /\ Bindable(slot[2], w.chord)
  BY WantedAre DEF wanted
<1>8. \A b \in keymap.bindings :
        ~BlocksTyping(b.chord) /\ (b.context = "global" => HasModifier(b.chord))
  <2> TAKE b \in keymap.bindings
  <2>1. PICK w \in bound : b.context = w.context /\ b.chord = w.chord /\ b.action = w.action
    BY <1>5
  <2>2. Bindable(b.context, b.chord)
    BY <1>2, <1>7, <2>1
  <2> QED
    BY <2>2 DEF Bindable
<1>9. \A key \in DOMAIN chosen :
        \/ chosen[key] = Unbound \/ key[1] \in keymap.refused
        \/ \E b \in keymap.bindings : b.action = key[1] /\ b.context = key[2]
  <2> TAKE key \in DOMAIN chosen
  <2>1. CASE \E w \in bound : w.place = Place(key)
    <3>1. PICK w \in bound : w.place = Place(key)
      BY <2>1
    <3>2. PICK slot \in DOMAIN chosen :
            w.place = Place(slot) /\ w.action = slot[1] /\ w.context = slot[2]
      BY <1>2, <1>7
    <3>3. slot = key
      BY <3>1, <3>2, RegistryPlaces
    <3> DEFINE b == [context |-> w.context, chord |-> w.chord, action |-> w.action]
    <3>4. b \in keymap.bindings /\ b.action = key[1] /\ b.context = key[2]
      BY <1>3, <3>2, <3>3
    <3> QED
      BY <3>4
  <2>2. CASE ~\E w \in bound : w.place = Place(key)
    BY <1>4, <2>2
  <2> QED
    BY <2>1, <2>2
<1>10. \A id \in ActionIds : \A chord \in ShortcutFor(keymap, id) :
         Resolve(keymap, chord, TRUE) = {id}
  <2> TAKE id \in ActionIds
  <2> TAKE chord \in ShortcutFor(keymap, id)
  <2> DEFINE Runs(context) == {b.action : b \in {c \in keymap.bindings : c.context = context
                                                                        /\ c.chord = chord}}
  <2>1. PICK b \in keymap.bindings : /\ b.action = id /\ b.chord = chord
                                     /\ b.context \in {"global", "terminal"}
    BY DEF ShortcutFor
  <2>2. \A c \in keymap.bindings : c.chord = chord => c = b
    BY <1>6, <2>1
  <2>3. CASE b.context = "global"
    <3>1. Runs("global") = {id}
      BY <2>1, <2>2, <2>3
    <3> QED
      BY <3>1 DEF Resolve
  <2>4. CASE b.context = "terminal"
    <3>1. Runs("terminal") = {id} /\ Runs("global") = {}
      BY <2>1, <2>2, <2>4
    <3> QED
      BY <3>1 DEF Resolve
  <2> QED
    BY <2>1, <2>3, <2>4
<1> QED
  BY <1>6, <1>8, <1>9, <1>10 DEF Unambiguous, keymap

(* The loop of build, override by override: a map from slots to the        *)
(* shortcuts of the registry and of the overrides.                         *)
ChosenKeys(overrides, mac) ==
  {DefaultKeys(InfoOf(slot[1]), mac) : slot \in Slots}
  \cup {KeysOf(overrides[n]) : n \in 1..Len(overrides)}
ChosenMaps(overrides, mac) == UNION {[D -> ChosenKeys(overrides, mac)] : D \in SUBSET Slots}
ChooseNext(chosen, override) ==
  IF Applicable(override) THEN ApplyOverride(chosen, override) ELSE chosen
ChosenBy(f, overrides, mac) ==
  /\ f[0] = DefaultChosen(mac) /\ f[Len(overrides)] = Chosen(overrides, mac)
  /\ \A n \in 1..Len(overrides) : f[n] = ChooseNext(f[n - 1], overrides[n])

LEMMA ChosenRun ==
  ASSUME NEW T, NEW overrides \in Seq(T), NEW mac
  PROVE  \E f \in [0..Len(overrides) -> ChosenMaps(overrides, mac)] : ChosenBy(f, overrides, mac)
<1> DEFINE k == Len(overrides)
           V == ChosenKeys(overrides, mac)
           S == ChosenMaps(overrides, mac)
           start == DefaultChosen(mac)
           Turn(n, c) == ChooseNext(c, overrides[n])
           turn == [n \in 1..k |-> [c \in S |-> Turn(n, c)]]
           chosen[n \in 0..k] == IF n = 0 THEN start ELSE Turn(n, chosen[n - 1])
           Run(f) == f = [n \in 0..k |-> IF n = 0 THEN start ELSE Turn(n, f[n - 1])]
<1>0. k \in Nat /\ k \in 0..k
  OBVIOUS
<1>1. start \in S
  <2> DEFINE D == {<<info.id, info.context>> : info \in Range(Registry)}
  <2>1. D \in SUBSET Slots
    BY RegistryIds, SMTT(30) DEF Slots, ActionIds, Range
  <2> HIDE DEF D
  <2>2. start = [slot \in D |-> DefaultKeys(InfoOf(slot[1]), mac)]
    BY DEF DefaultChosen, D
  <2>3. start \in [D -> V]
    BY <2>1, <2>2 DEF ChosenKeys
  <2> QED
    BY <2>1, <2>3 DEF ChosenMaps
<1>2. \A n \in 1..k : \A c \in S : Turn(n, c) \in S
  <2> TAKE n \in 1..k
  <2> TAKE c \in S
  <2>1. CASE Applicable(overrides[n])
    <3> DEFINE o == overrides[n]
               key == <<o.action, o.context>>
               D == (DOMAIN c \ {<<o.action, InfoOf(o.action).context>>}) \cup {key}
    <3>1. key \in Slots /\ DOMAIN c \in SUBSET Slots /\ c \in [DOMAIN c -> V]
      BY <2>1 DEF Applicable, Slots, ChosenMaps
    <3>2. KeysOf(o) \in V
      BY DEF ChosenKeys
    <3>3. D \in SUBSET Slots
      BY <3>1
    <3>4. Turn(n, c) = [slot \in D |-> IF slot = key THEN KeysOf(o) ELSE c[slot]]
      BY <2>1 DEF ChooseNext, ApplyOverride
    <3> HIDE DEF V, o, key
    <3>5. [slot \in D |-> IF slot = key THEN KeysOf(o) ELSE c[slot]] \in [D -> V]
      BY <3>1, <3>2
    <3> HIDE DEF D, Turn
    <3>6. Turn(n, c) \in [D -> V]
      BY <3>4, <3>5
    <3> QED
      BY <3>3, <3>6 DEF ChosenMaps, V
  <2>2. CASE ~Applicable(overrides[n])
    BY <2>2 DEF ChooseNext
  <2> QED
    BY <2>1, <2>2
<1>3. turn \in [1..k -> [S -> S]]
  <2> HIDE DEF S, k, Turn
  <2> QED
    BY <1>2
<1>4. PICK f : LoopRun(f, k, S, start, turn)
  <2> HIDE DEF S, k, turn, start
  <2> QED
    BY <1>0, <1>1, <1>3, LoopRuns
<1>5. f \in [0..k -> S] /\ f[0] = start /\ \A n \in 1..k : f[n] = turn[n][f[n - 1]]
  BY <1>4 DEF LoopRun
<1>6. \A n \in 0..k : f[n] = IF n = 0 THEN start ELSE Turn(n, f[n - 1])
  <2> SUFFICES ASSUME NEW n \in 0..k, n # 0 PROVE f[n] = Turn(n, f[n - 1])
    BY <1>5
  <2>1. n \in 1..k /\ n - 1 \in 0..k
    BY <1>0
  <2>2. f[n - 1] \in S /\ f[n] = turn[n][f[n - 1]]
    BY <1>5, <2>1
  <2> HIDE DEF S, k, Turn
  <2> QED
    BY <2>1, <2>2
<1>7. Run(f)
  <2>1. f = [n \in 0..k |-> f[n]]
    BY <1>5
  <2> HIDE DEF S, k, turn, Turn, start
  <2> QED
    BY <1>6, <2>1
<1>8. chosen = CHOOSE g : Run(g)
  OBVIOUS
<1>9. Chosen(overrides, mac) = chosen[k]
  BY DEF Chosen, ChooseNext
<1>10. Run(chosen)
  <2> HIDE DEF Run, chosen
  <2> QED
    BY <1>7, <1>8
<1>11. chosen[0] = start /\ \A n \in 1..k : chosen[n] = Turn(n, chosen[n - 1])
  <2>1. \A n \in 0..k : chosen[n] = IF n = 0 THEN start ELSE Turn(n, chosen[n - 1])
    <3> HIDE DEF chosen, k, Turn, start
    <3> QED
      BY <1>10
  <2>2. 0 \in 0..k /\ \A n \in 1..k : n \in 0..k /\ n # 0
    BY <1>0
  <2> HIDE DEF chosen, Run, Turn, k, start
  <2> QED
    BY <2>1, <2>2
<1> HIDE DEF chosen, Run
<1> DEFINE G == {n \in 0..k : chosen[n] \in S}
<1>12. 0 \in G
  BY <1>0, <1>1, <1>11
<1>13. ASSUME NEW n \in 1..k, n - 1 \in G PROVE n \in G
  <2>1. n \in 0..k /\ chosen[n - 1] \in S /\ chosen[n] = Turn(n, chosen[n - 1])
    BY <1>0, <1>11, <1>13
  <2> HIDE DEF S, Turn
  <2> QED
    BY <1>2, <2>1
<1>14. \A n \in 0..k : chosen[n] \in S
  <2> HIDE DEF G, k
  <2>1. \A n \in 0..k : n \in G
    BY <1>0, <1>12, <1>13, Turns
  <2> QED
    BY <2>1 DEF G
<1>15. DOMAIN chosen = 0..k /\ chosen = [n \in 0..k |-> chosen[n]]
  BY <1>10 DEF Run
<1>16. chosen \in [0..k -> S]
  <2> HIDE DEF S, k
  <2> QED
    BY <1>14, <1>15
<1>17. ChosenBy(chosen, overrides, mac)
  BY <1>9, <1>11 DEF ChosenBy
<1> QED
  BY <1>16, <1>17

(* Overrides name actions and contexts that exist.                         *)
LEMMA ChosenSlots ==
  ASSUME NEW T, NEW overrides \in Seq(T), NEW mac
  PROVE  /\ Chosen(overrides, mac) \in ChosenMaps(overrides, mac)
         /\ DOMAIN Chosen(overrides, mac) \subseteq Slots
<1>1. PICK f \in [0..Len(overrides) -> ChosenMaps(overrides, mac)] : ChosenBy(f, overrides, mac)
  BY ChosenRun
<1>2. Len(overrides) \in 0..Len(overrides)
  OBVIOUS
<1>3. f[Len(overrides)] \in ChosenMaps(overrides, mac)
  BY <1>2
<1>4. \A c \in ChosenMaps(overrides, mac) : DOMAIN c \subseteq Slots
  BY DEF ChosenMaps
<1> QED
  BY <1>1, <1>3, <1>4 DEF ChosenBy

(* Keymap::build, resolve and shortcut_for: whatever the overrides say, a  *)
(* chord runs one action wherever the focus is, typing is never taken, no  *)
(* wanted shortcut disappears in silence, and one that is shown runs its   *)
(* action.                                                                 *)
THEOREM KeymapUnambiguous ==
  ASSUME NEW T, NEW overrides \in Seq(T), NEW mac
  PROVE  Unambiguous(Chosen(overrides, mac), Build(overrides, mac))
  BY ChosenSlots, BindAllSound DEF Build

(***************************************************************************)
(* Lists of shortcuts                                                      *)
(***************************************************************************)
Distinct(s) == \A i, j \in DOMAIN s : BindingKey(s[i]) = BindingKey(s[j]) => i = j

LEMMA PutEntry ==
  ASSUME NEW T, NEW s \in Seq(T), Distinct(s), NEW e \in T
  PROVE  /\ Put(s, e) \in Seq(T) /\ Distinct(Put(s, e))
         /\ e \in Range(Put(s, e))
         /\ \A x \in Range(Put(s, e)) : x = e \/ (x \in Range(s) /\ BindingKey(x) # BindingKey(e))
         /\ \A x \in Range(s) : BindingKey(x) # BindingKey(e) => x \in Range(Put(s, e))
<1> DEFINE at == {i \in DOMAIN s : BindingKey(s[i]) = BindingKey(e)}
           r == Put(s, e)
<1>0. DOMAIN s = 1..Len(s) /\ Len(s) \in Nat
  OBVIOUS
<1>1. CASE at = {}
  <2>1. r = Append(s, e)
    BY <1>1 DEF Put
  <2>2. /\ r \in Seq(T) /\ Len(r) = Len(s) + 1 /\ r[Len(s) + 1] = e
        /\ \A i \in 1..Len(s) : r[i] = s[i]
    BY <2>1
  <2>3. DOMAIN r = 1..(Len(s) + 1)
    BY <2>2
  <2>4. \A i \in 1..Len(s) : BindingKey(s[i]) # BindingKey(e)
    BY <1>0, <1>1
  <2> HIDE DEF r, at
  <2>5. \A i \in 1..(Len(s) + 1) : i \in 1..Len(s) \/ i = Len(s) + 1
    BY <1>0
  <2>6. Len(s) + 1 \in DOMAIN r /\ \A i \in 1..Len(s) : i \in DOMAIN r
    BY <1>0, <2>3
  <2>7. Distinct(r)
    <3>1. ASSUME NEW i \in DOMAIN r, NEW j \in DOMAIN r, BindingKey(r[i]) = BindingKey(r[j])
          PROVE  i = j
      <4>1. CASE i \in 1..Len(s) /\ j \in 1..Len(s)
        BY <1>0, <2>2, <3>1, <4>1 DEF Distinct
      <4>2. CASE i = Len(s) + 1 /\ j = Len(s) + 1
        BY <4>2
      <4>3. CASE i \in 1..Len(s) /\ j = Len(s) + 1
        BY <2>2, <2>4, <3>1, <4>3
      <4>4. CASE i = Len(s) + 1 /\ j \in 1..Len(s)
        BY <2>2, <2>4, <3>1, <4>4
      <4> QED
        BY <2>3, <2>5, <4>1, <4>2, <4>3, <4>4
    <3> QED
      BY <3>1 DEF Distinct
  <2>8. e \in Range(r)
    BY <2>2, <2>6 DEF Range
  <2>9. \A x \in Range(r) : x = e \/ (x \in Range(s) /\ BindingKey(x) # BindingKey(e))
    <3>1. ASSUME NEW i \in DOMAIN r
          PROVE  r[i] = e \/ (r[i] \in Range(s) /\ BindingKey(r[i]) # BindingKey(e))
      BY <1>0, <2>2, <2>3, <2>4, <2>5 DEF Range
    <3> QED
      BY <3>1 DEF Range
  <2>10. \A x \in Range(s) : x \in Range(r)
    BY <1>0, <2>2, <2>6 DEF Range
  <2> QED
    BY <2>2, <2>7, <2>8, <2>9, <2>10 DEF r
<1>2. CASE at # {}
  <2> DEFINE k == CHOOSE i \in at : \A j \in at : i <= j
  <2>1. at \in SUBSET Nat
    BY <1>0
  <2>2. k \in at
    <3> HIDE DEF at
    <3> QED
      BY <1>2, <2>1, LeastNat
  <2>3. k \in DOMAIN s /\ BindingKey(s[k]) = BindingKey(e)
    BY <2>2
  <2>4. r = [s EXCEPT ![k] = e]
    BY <1>2 DEF Put
  <2> HIDE DEF r, k, at
  <2>5. r \in Seq(T) /\ DOMAIN r = DOMAIN s /\ r[k] = e /\ \A i \in DOMAIN s : i # k => r[i] = s[i]
    BY <1>0, <2>3, <2>4
  <2>6. \A i \in DOMAIN s : i # k => BindingKey(s[i]) # BindingKey(e)
    BY <2>3 DEF Distinct
  <2>7. Distinct(r)
    <3>1. ASSUME NEW i \in DOMAIN s, NEW j \in DOMAIN s, BindingKey(r[i]) = BindingKey(r[j])
          PROVE  i = j
      <4>1. CASE i # k /\ j # k
        BY <2>5, <3>1, <4>1 DEF Distinct
      <4>2. CASE i = k \/ j = k
        BY <2>5, <2>6, <3>1, <4>2
      <4> QED
        BY <4>1, <4>2
    <3> QED
      BY <2>5, <3>1 DEF Distinct
  <2>8. e \in Range(r)
    BY <2>3, <2>5 DEF Range
  <2>9. \A x \in Range(r) : x = e \/ (x \in Range(s) /\ BindingKey(x) # BindingKey(e))
    BY <2>5, <2>6 DEF Range
  <2>10. \A x \in Range(s) : BindingKey(x) # BindingKey(e) => x \in Range(r)
    BY <2>3, <2>5 DEF Range
  <2> QED
    BY <2>5, <2>7, <2>8, <2>9, <2>10 DEF r
<1> QED
  BY <1>1, <1>2

(* The loop of merge_keybindings, turn by turn.                            *)
LEMMA MergeRun ==
  ASSUME NEW T, NEW base \in Seq(T), NEW overlay \in Seq(T), Distinct(base)
  PROVE  LET S == {s \in Seq(T) : Distinct(s)}
             k == Len(overlay)
         IN  \E f \in [0..k -> S] :
               /\ f[0] = base /\ f[k] = MergeKeybindings(base, overlay)
               /\ \A n \in 1..k : f[n] = Put(f[n - 1], overlay[n])
<1> DEFINE S == {s \in Seq(T) : Distinct(s)}
           k == Len(overlay)
           turn == [n \in 1..k |-> [s \in S |-> Put(s, overlay[n])]]
           merged[n \in 0..k] == IF n = 0 THEN base ELSE Put(merged[n - 1], overlay[n])
           Run(f) == f = [n \in 0..k |-> IF n = 0 THEN base ELSE Put(f[n - 1], overlay[n])]
<1>1. k \in Nat /\ base \in S
  OBVIOUS
<1>2. \A n \in 1..k : overlay[n] \in T
  OBVIOUS
<1>3. \A n \in 1..k : \A s \in S : Put(s, overlay[n]) \in S
  BY <1>2, PutEntry
<1>4. turn \in [1..k -> [S -> S]]
  <2> HIDE DEF S, k
  <2> QED
    BY <1>3
<1>5. PICK f : LoopRun(f, k, S, base, turn)
  <2> HIDE DEF S, k, turn
  <2> QED
    BY <1>1, <1>4, LoopRuns
<1>6. f \in [0..k -> S] /\ f[0] = base /\ \A n \in 1..k : f[n] = turn[n][f[n - 1]]
  BY <1>5 DEF LoopRun
<1>7. \A n \in 0..k : f[n] = IF n = 0 THEN base ELSE Put(f[n - 1], overlay[n])
  <2> SUFFICES ASSUME NEW n \in 0..k, n # 0 PROVE f[n] = Put(f[n - 1], overlay[n])
    BY <1>6
  <2>1. n \in 1..k /\ n - 1 \in 0..k
    BY <1>1
  <2>2. f[n - 1] \in S /\ f[n] = turn[n][f[n - 1]]
    BY <1>6, <2>1
  <2> HIDE DEF S, k
  <2> QED
    BY <2>1, <2>2
<1>8. Run(f)
  <2>1. f = [n \in 0..k |-> f[n]]
    BY <1>6
  <2> HIDE DEF S, k, turn
  <2> QED
    BY <1>7, <2>1
<1>9. merged = CHOOSE g : Run(g)
  OBVIOUS
<1>10. MergeKeybindings(base, overlay) = merged[k]
  BY DEF MergeKeybindings
<1>11. Run(merged)
  <2> HIDE DEF Run, merged
  <2> QED
    BY <1>8, <1>9
<1>12. merged[0] = base /\ \A n \in 1..k : merged[n] = Put(merged[n - 1], overlay[n])
  <2>1. \A n \in 0..k : merged[n] = IF n = 0 THEN base ELSE Put(merged[n - 1], overlay[n])
    <3> HIDE DEF merged, k
    <3> QED
      BY <1>11
  <2> HIDE DEF merged, Run
  <2> QED
    BY <1>1, <2>1
<1> HIDE DEF merged, Run
<1>13. \A n \in 0..k : n \in {m \in 0..k : merged[m] \in S}
  <2> DEFINE G == {m \in 0..k : merged[m] \in S}
  <2>1. 0 \in G
    BY <1>1, <1>12
  <2>2. ASSUME NEW n \in 1..k, n - 1 \in G PROVE n \in G
    <3>1. n \in 0..k
      BY <1>1
    <3> QED
      BY <1>3, <1>12, <2>2, <3>1
  <2> HIDE DEF G, k
  <2>3. \A n \in 0..k : n \in G
    BY <1>1, <2>1, <2>2, Turns
  <2> QED
    BY <2>3 DEF G
<1>14. DOMAIN merged = 0..k
  BY <1>11 DEF Run
<1> DEFINE g == [n \in 0..k |-> merged[n]]
<1>15. g \in [0..k -> S]
  BY <1>13
<1>16. /\ g[0] = base /\ g[k] = MergeKeybindings(base, overlay)
       /\ \A n \in 1..k : g[n] = Put(g[n - 1], overlay[n])
  <2>1. 0 \in 0..k /\ k \in 0..k /\ \A n \in 1..k : n \in 0..k /\ n - 1 \in 0..k
    BY <1>1
  <2> HIDE DEF k, S
  <2> QED
    BY <1>10, <1>12, <2>1
<1> HIDE DEF g
<1> QED
  BY <1>15, <1>16

LEMMA MergeType ==
  ASSUME NEW T, NEW base \in Seq(T), NEW overlay \in Seq(T), Distinct(base)
  PROVE  MergeKeybindings(base, overlay) \in Seq(T) /\ Distinct(MergeKeybindings(base, overlay))
<1> DEFINE S == {s \in Seq(T) : Distinct(s)}
           k == Len(overlay)
<1>1. PICK f \in [0..k -> S] : f[k] = MergeKeybindings(base, overlay)
  BY MergeRun
<1>2. k \in 0..k
  OBVIOUS
<1>3. f[k] \in S
  BY <1>2
<1> QED
  BY <1>1, <1>3

(* Merged over a base that has no other entries, a list is read back.      *)
LEMMA MergeReads ==
  ASSUME NEW T, NEW base \in Seq(T), NEW overlay \in Seq(T), Distinct(base), Distinct(overlay),
         {BindingKey(base[i]) : i \in DOMAIN base} \subseteq
           {BindingKey(overlay[i]) : i \in DOMAIN overlay}
  PROVE  Range(MergeKeybindings(base, overlay)) = Range(overlay)
<1> DEFINE S == {s \in Seq(T) : Distinct(s)}
           k == Len(overlay)
<1>1. PICK f \in [0..k -> S] :
        /\ f[0] = base /\ f[k] = MergeKeybindings(base, overlay)
        /\ \A n \in 1..k : f[n] = Put(f[n - 1], overlay[n])
  BY MergeRun
<1>0. k \in Nat /\ DOMAIN overlay = 1..k /\ \A n \in 1..k : overlay[n] \in T
  OBVIOUS
<1> DEFINE Kept(n) == \A j \in 1..n : overlay[j] \in Range(f[n])
           From(n) == \A x \in Range(f[n]) :
                        \/ \E j \in 1..n : x = overlay[j]
                        \/ x \in Range(base) /\ \A j \in 1..n : BindingKey(x) # BindingKey(overlay[j])
           G == {n \in 0..k : Kept(n) /\ From(n)}
<1>2. 0 \in G
  BY <1>0, <1>1
<1>3. ASSUME NEW n \in 1..k, n - 1 \in G PROVE n \in G
  <2> DEFINE e == overlay[n]
             s == f[n - 1]
  <2>0. n \in 0..k /\ n - 1 \in 0..k /\ n \in Nat /\ e \in T
        /\ (\A j \in 1..n : j = n \/ j \in 1..(n - 1)) /\ (\A j \in 1..(n - 1) : j \in 1..k /\ j # n)
        /\ \A j \in 1..(n - 1) : j \in 1..n
    BY <1>0
  <2>1. s \in Seq(T) /\ Distinct(s) /\ f[n] = Put(s, e)
    <3>1. f[n - 1] \in S
      BY <2>0
    <3> QED
      BY <1>1, <3>1
  <2>2. Kept(n - 1) /\ From(n - 1)
    BY <1>3
  <2>3. /\ e \in Range(f[n])
        /\ \A x \in Range(f[n]) : x = e \/ (x \in Range(s) /\ BindingKey(x) # BindingKey(e))
        /\ \A x \in Range(s) : BindingKey(x) # BindingKey(e) => x \in Range(f[n])
    <3> HIDE DEF e, s
    <3> QED
      BY <2>0, <2>1, PutEntry
  <2>4. \A j \in 1..(n - 1) : BindingKey(overlay[j]) # BindingKey(e)
    <3> TAKE j \in 1..(n - 1)
    <3>1. j \in DOMAIN overlay /\ n \in DOMAIN overlay /\ j # n
      BY <1>0, <2>0
    <3> QED
      BY <3>1 DEF Distinct
  <2>5. Kept(n)
    <3>1. ASSUME NEW j \in 1..(n - 1) PROVE overlay[j] \in Range(f[n])
      <4>1. overlay[j] \in Range(s)
        BY <2>2
      <4> QED
        BY <2>3, <2>4, <4>1
    <3> QED
      BY <2>0, <2>3, <3>1
  <2>6. From(n)
    <3> SUFFICES ASSUME NEW x \in Range(f[n]), x # e
                 PROVE  \/ \E j \in 1..n : x = overlay[j]
                        \/ x \in Range(base)
                           /\ \A j \in 1..n : BindingKey(x) # BindingKey(overlay[j])
      OBVIOUS
    <3>1. x \in Range(s) /\ BindingKey(x) # BindingKey(e)
      BY <2>3
    <3>2. CASE \E j \in 1..(n - 1) : x = overlay[j]
      BY <2>0, <3>2
    <3>3. CASE x \in Range(base) /\ \A j \in 1..(n - 1) : BindingKey(x) # BindingKey(overlay[j])
      BY <2>0, <3>1, <3>3
    <3> QED
      BY <2>2, <3>1, <3>2, <3>3
  <2> QED
    BY <2>0, <2>5, <2>6
<1>4. k \in G
  <2> HIDE DEF G, k
  <2>1. \A n \in 0..k : n \in G
    BY <1>0, <1>2, <1>3, Turns
  <2> QED
    BY <1>0, <2>1
<1>5. Kept(k) /\ From(k)
  BY <1>4
<1>6. Range(overlay) \subseteq Range(f[k])
  BY <1>0, <1>5 DEF Range
<1>7. ASSUME NEW x \in Range(f[k]) PROVE x \in Range(overlay)
  <2>1. x \in Range(base) => \E j \in 1..k : BindingKey(x) = BindingKey(overlay[j])
    <3>1. x \in Range(base) => \E i \in DOMAIN base : x = base[i]
      BY DEF Range
    <3> QED
      BY <1>0, <3>1
  <2>2. \E j \in 1..k : x = overlay[j]
    BY <1>5, <2>1
  <2> QED
    BY <1>0, <2>2 DEF Range
<1> QED
  BY <1>1, <1>6, <1>7

(* What the dialog writes: one entry for an action whose shortcut is not   *)
(* the default, none for the others.                                       *)
EntryOf(edits, n) == Written(Registry[n], edits[Registry[n].id])
SameAs(edits, defaults, n) ==
  Unchanged(edits[Registry[n].id], ShortcutFor(defaults, Registry[n].id))
LEMMA DialogWrites ==
  ASSUME NEW edits, NEW defaults
  PROVE  LET keys == KeybindingOverrides(edits, defaults)
         IN  /\ keys \in Seq(Range(keys)) /\ Distinct(keys)
             /\ \A x \in Range(keys) :
                  \E n \in 1..25 : x = EntryOf(edits, n) /\ ~SameAs(edits, defaults, n)
             /\ \A n \in 1..25 : ~SameAs(edits, defaults, n) => EntryOf(edits, n) \in Range(keys)
<1> DEFINE k == 25
           Entry(n) == EntryOf(edits, n)
           Same(n) == SameAs(edits, defaults, n)
           T == {Entry(n) : n \in 1..k}
           S == Seq(T)
           Turn(n, s) == IF Same(n) THEN s ELSE Append(s, Entry(n))
           turn == [n \in 1..k |-> [s \in S |-> Turn(n, s)]]
           written[n \in 0..k] == IF n = 0 THEN <<>> ELSE Turn(n, written[n - 1])
           Run(f) == f = [n \in 0..k |-> IF n = 0 THEN <<>> ELSE Turn(n, f[n - 1])]
<1>0. k \in Nat /\ k \in 0..k
  OBVIOUS
<1>1. \A n \in 1..k : Entry(n) \in T
  OBVIOUS
<1>2. \A n \in 1..k : \A s \in S : Turn(n, s) \in S
  <2> TAKE n \in 1..k
  <2> TAKE s \in S
  <2>1. s \in Seq(T) /\ Entry(n) \in T
    BY <1>1
  <2> HIDE DEF T, Entry
  <2>2. Append(s, Entry(n)) \in Seq(T)
    BY <2>1
  <2> QED
    BY <2>1, <2>2
<1>3. turn \in [1..k -> [S -> S]]
  <2> HIDE DEF S, k, Turn
  <2> QED
    BY <1>2
<1>4. <<>> \in S
  OBVIOUS
<1>5. PICK f : LoopRun(f, k, S, <<>>, turn)
  <2> HIDE DEF S, k, turn
  <2> QED
    BY <1>0, <1>3, <1>4, LoopRuns
<1>6. f \in [0..k -> S] /\ f[0] = <<>> /\ \A n \in 1..k : f[n] = turn[n][f[n - 1]]
  BY <1>5 DEF LoopRun
<1>7. \A n \in 0..k : f[n] = IF n = 0 THEN <<>> ELSE Turn(n, f[n - 1])
  <2> SUFFICES ASSUME NEW n \in 0..k, n # 0 PROVE f[n] = Turn(n, f[n - 1])
    BY <1>6
  <2>1. n \in 1..k /\ n - 1 \in 0..k
    OBVIOUS
  <2>2. f[n - 1] \in S /\ f[n] = turn[n][f[n - 1]]
    BY <1>6, <2>1
  <2> HIDE DEF S, k, Turn
  <2> QED
    BY <2>1, <2>2
<1>8. Run(f)
  <2>1. f = [n \in 0..k |-> f[n]]
    BY <1>6
  <2> HIDE DEF S, k, turn, Turn
  <2> QED
    BY <1>7, <2>1
<1>9. written = CHOOSE g : Run(g)
  OBVIOUS
<1>10. KeybindingOverrides(edits, defaults) = written[k]
  BY RegistryIds DEF KeybindingOverrides, EntryOf, SameAs
<1>11. Run(written)
  <2> HIDE DEF Run, written
  <2> QED
    BY <1>8, <1>9
<1>12. written[0] = <<>> /\ \A n \in 1..k : written[n] = Turn(n, written[n - 1])
  <2>1. \A n \in 0..k : written[n] = IF n = 0 THEN <<>> ELSE Turn(n, written[n - 1])
    <3> HIDE DEF written, k, Turn
    <3> QED
      BY <1>11
  <2>2. 0 \in 0..k /\ \A n \in 1..k : n \in 0..k /\ n # 0
    OBVIOUS
  <2> HIDE DEF written, Run, Turn, k
  <2> QED
    BY <2>1, <2>2
<1> HIDE DEF written, Run
<1>17. \A n \in 1..k : Entry(n).action = Registry[n].id
  BY DEF EntryOf, Written
<1> DEFINE Upto(n) == \A i \in DOMAIN written[n] :
                        \E j \in 1..n : written[n][i] = Entry(j) /\ ~Same(j)
           All(n) == \A j \in 1..n : ~Same(j) => \E i \in DOMAIN written[n] : written[n][i] = Entry(j)
           G == {n \in 0..k : written[n] \in S /\ Distinct(written[n]) /\ Upto(n) /\ All(n)}
<1>13. 0 \in G
  <2>1. 0 \in 0..k /\ written[0] = <<>> /\ DOMAIN <<>> = {}
    BY <1>12
  <2>2. \A i \in DOMAIN written[0] : FALSE
    BY <2>1
  <2>3. Distinct(written[0]) /\ Upto(0) /\ All(0)
    <3>1. \A j \in 1..0 : FALSE
      OBVIOUS
    <3> QED
      BY <2>2, <3>1 DEF Distinct
  <2> QED
    BY <1>4, <2>1, <2>3
<1>14. ASSUME NEW n \in 1..k, n - 1 \in G PROVE n \in G
  <2>1. n - 1 \in 0..k /\ n \in 0..k /\ (\A j \in 1..(n - 1) : j \in 1..n /\ j \in 1..k /\ j # n)
        /\ \A j \in 1..n : j = n \/ j \in 1..(n - 1)
    OBVIOUS
  <2>2. written[n - 1] \in S /\ Distinct(written[n - 1]) /\ Upto(n - 1) /\ All(n - 1)
    BY <1>14
  <2>3. written[n] = Turn(n, written[n - 1])
    BY <1>12
  <2>4. written[n] \in S
    <3> HIDE DEF S, Turn
    <3> QED
      BY <1>2, <2>2, <2>3
  <2>5. CASE Same(n)
    <3>1. written[n] = written[n - 1]
      BY <2>3, <2>5
    <3>2. Upto(n)
      <4> HIDE DEF Entry, Same, S
      <4> QED
        BY <2>1, <2>2, <3>1
    <3>3. All(n)
      <4> HIDE DEF Entry, Same, S
      <4> QED
        BY <2>1, <2>2, <2>5, <3>1
    <3> QED
      BY <2>1, <2>2, <2>4, <3>1, <3>2, <3>3
  <2>6. CASE ~Same(n)
    <3> DEFINE s == written[n - 1]
               e == Entry(n)
    <3>1. written[n] = Append(s, e)
      BY <2>3, <2>6
    <3>2. e.action = Registry[n].id
      BY <1>17
    <3>3. s \in Seq(T) /\ e \in T
      BY <1>1, <2>2
    <3> HIDE DEF s, e, T
    <3>4. /\ DOMAIN s = 1..Len(s) /\ Len(s) \in Nat /\ DOMAIN written[n] = 1..(Len(s) + 1)
          /\ written[n][Len(s) + 1] = e /\ \A i \in 1..Len(s) : written[n][i] = s[i]
      BY <3>1, <3>3
    <3>5. Upto(n)
      <4>1. ASSUME NEW i \in 1..Len(s) PROVE \E j \in 1..n : written[n][i] = Entry(j) /\ ~Same(j)
        <5>1. \E j \in 1..(n - 1) : s[i] = Entry(j) /\ ~Same(j)
          BY <2>2, <3>4 DEF s
        <5> HIDE DEF Entry, Same
        <5> QED
          BY <2>1, <3>4, <5>1
      <4>2. n \in 1..n /\ written[n][Len(s) + 1] = Entry(n)
        BY <3>4 DEF e
      <4> HIDE DEF Entry, Same
      <4>3. \A i \in 1..(Len(s) + 1) : i \in 1..Len(s) \/ i = Len(s) + 1
        BY <3>4
      <4> QED
        BY <2>6, <3>4, <4>1, <4>2, <4>3
    <3>8. All(n)
      <4> HIDE DEF Entry, Same
      <4>1. ASSUME NEW j \in 1..(n - 1), ~Same(j) PROVE \E i \in DOMAIN written[n] : written[n][i] = Entry(j)
        <5>1. PICK i \in 1..Len(s) : s[i] = Entry(j)
          BY <2>2, <3>4, <4>1 DEF s
        <5> QED
          BY <3>4, <5>1
      <4>2. Len(s) + 1 \in DOMAIN written[n] /\ written[n][Len(s) + 1] = Entry(n)
        BY <3>4 DEF e
      <4> QED
        BY <2>1, <4>1, <4>2
    <3>6. \A i \in 1..Len(s) : BindingKey(s[i]) # BindingKey(e)
      <4> TAKE i \in 1..Len(s)
      <4>1. PICK j \in 1..(n - 1) : s[i].action = Registry[j].id
        <5>1. PICK j \in 1..(n - 1) : s[i] = Entry(j)
          BY <2>2, <3>4 DEF s
        <5> QED
          BY <1>17, <2>1, <5>1
      <4>2. s[i].action # e.action
        BY <2>1, <3>2, <4>1, RegistryIds
      <4> QED
        BY <4>2 DEF BindingKey
    <3>7. Distinct(written[n])
      <4>1. Distinct(s)
        BY <2>2 DEF s
      <4>2. ASSUME NEW i \in 1..(Len(s) + 1), NEW j \in 1..(Len(s) + 1),
                   BindingKey(written[n][i]) = BindingKey(written[n][j])
            PROVE  i = j
        BY <3>4, <3>6, <4>1, <4>2 DEF Distinct
      <4> QED
        BY <3>4, <4>2 DEF Distinct
    <3> QED
      BY <2>1, <2>4, <3>5, <3>7, <3>8
  <2> QED
    BY <2>5, <2>6
<1>15. k \in G
  <2> HIDE DEF G, k
  <2>1. \A n \in 0..k : n \in G
    BY <1>0, <1>13, <1>14, Turns
  <2> QED
    BY <1>0, <2>1
<1>16. written[k] \in Seq(T) /\ Distinct(written[k]) /\ Upto(k) /\ All(k)
  BY <1>15
<1>18. \A s \in Seq(T) : s \in Seq(Range(s))
  <2> HIDE DEF T
  <2> QED
    BY DEF Range
<1>19. \A x \in Range(written[k]) : \E n \in 1..k : x = Entry(n) /\ ~Same(n)
  <2> HIDE DEF Entry, Same, T, k
  <2> QED
    BY <1>16 DEF Range
<1>20. \A n \in 1..k : ~Same(n) => Entry(n) \in Range(written[k])
  <2> HIDE DEF Entry, Same, T, k
  <2> QED
    BY <1>16 DEF Range
<1> QED
  BY <1>10, <1>16, <1>18, <1>19, <1>20

(***************************************************************************)
(* validate                                                                *)
(***************************************************************************)
LEMMA OverAt ==
  \A f, g :
    /\ DOMAIN Over(f, g) = DOMAIN f \cup DOMAIN g
    /\ \A x \in DOMAIN f : Over(f, g)[x] = f[x]
    /\ \A x \in DOMAIN g \ DOMAIN f : Over(f, g)[x] = g[x]
  BY DEF Over

LEMMA RangesAt ==
  /\ DOMAIN Ranges = {"font_size", "line_height", "ui_scale", "scrollback_lines",
                      "scrollback_max_mib", "max_sessions", "width", "height", "intensity",
                      "max_fps", "processes_count", "volume"}
  /\ \A f \in DOMAIN AppearanceRanges : Ranges[f] = AppearanceRanges[f]
  /\ \A f \in DOMAIN TerminalRanges : Ranges[f] = TerminalRanges[f]
  /\ \A f \in DOMAIN LayoutRanges : Ranges[f] = LayoutRanges[f]
  /\ \A f \in DOMAIN ExtensionRanges : Ranges[f] = ExtensionRanges[f]
<1> DEFINE A == {"font_size", "line_height", "ui_scale"}
           B == {"scrollback_lines", "scrollback_max_mib"}
           C == {"max_sessions", "width", "height", "intensity", "max_fps"}
           D == {"processes_count", "volume"}
           ab == Over(AppearanceRanges, TerminalRanges)
           cd == Over(LayoutRanges, ExtensionRanges)
<1>1. /\ DOMAIN AppearanceRanges = A /\ DOMAIN TerminalRanges = B
      /\ DOMAIN LayoutRanges = C /\ DOMAIN ExtensionRanges = D
  BY SMT DEF AppearanceRanges, TerminalRanges, LayoutRanges, ExtensionRanges
<1>2. A \cap B = {} /\ C \cap D = {} /\ (A \cup B) \cap (C \cup D) = {}
  OBVIOUS
<1>3. Ranges = Over(ab, cd)
  BY DEF Ranges
<1> HIDE DEF A, B, C, D
<1>4. DOMAIN ab = A \cup B /\ DOMAIN cd = C \cup D
  BY <1>1, OverAt
<1>5. \A f \in A : ab[f] = AppearanceRanges[f]
  BY <1>1, OverAt
<1>6. \A f \in B : ab[f] = TerminalRanges[f]
  BY <1>1, <1>2, OverAt
<1>7. \A f \in C : cd[f] = LayoutRanges[f]
  BY <1>1, OverAt
<1>8. \A f \in D : cd[f] = ExtensionRanges[f]
  BY <1>1, <1>2, OverAt
<1> HIDE DEF ab, cd
<1>9. DOMAIN Ranges = (A \cup B) \cup (C \cup D)
  BY <1>3, <1>4, OverAt
<1>10. \A f \in A \cup B : Ranges[f] = ab[f]
  BY <1>3, <1>4, OverAt
<1>11. \A f \in C \cup D : Ranges[f] = cd[f]
  BY <1>2, <1>3, <1>4, OverAt
<1> QED
  BY <1>1, <1>5, <1>6, <1>7, <1>8, <1>9, <1>10, <1>11 DEF A, B, C, D

(* A field outside the ranges, the intervals and the texts is not checked. *)
LEMMA Unchecked ==
  ASSUME NEW f, NEW v, f \notin DOMAIN Ranges, f \notin Intervals,
         f \notin {"theme", "layout", "font_family", "geoip_database", "public_ip_endpoint"}
  PROVE  ValidField(f, v)
  BY DEF ValidField
LEMMA Ranged ==
  ASSUME NEW f \in DOMAIN Ranges, NEW v, v \in Ranges[f]
  PROVE  ValidField(f, v)
  BY RangesAt, SMT DEF ValidField, Intervals

FieldsValid(fields) == \A f \in DOMAIN fields : ValidField(f, fields[f])

LEMMA OverValid ==
  ASSUME NEW f, NEW g, FieldsValid(f), FieldsValid(g)
  PROVE  FieldsValid(Over(f, g))
<1>1. ASSUME NEW x \in DOMAIN f \cup DOMAIN g PROVE ValidField(x, Over(f, g)[x])
  <2>1. CASE x \in DOMAIN f
    BY <2>1, OverAt DEF FieldsValid
  <2>2. CASE x \notin DOMAIN f
    BY <1>1, <2>2, OverAt DEF FieldsValid
  <2> QED
    BY <2>1, <2>2
<1> QED
  BY <1>1, OverAt DEF FieldsValid

LEMMA TextsValid ==
  /\ ValidField("theme", "graphite") /\ ValidField("theme", "daylight")
  /\ ValidField("font_family", "monospace") /\ ValidField("geoip_database", "")
  /\ ValidField("public_ip_endpoint", "https://default") /\ ValidField("layout", "en-us")
  BY RangesAt, SMT DEF ValidField, Intervals, IsSafeId, Blank, ValidEndpoint
LEMMA IntervalsValid ==
  ValidField("metrics_interval", 1000) /\ ValidField("network_interval", 2000)
  BY RangesAt, SMT DEF ValidField, Intervals

LEMMA FirstDefaults == FieldsValid(Appearance) /\ FieldsValid(TerminalSettings)
<1>1. Ranges["font_size"] = 8..48 /\ Ranges["line_height"] = 100..200 /\ Ranges["ui_scale"] = 75..300
  BY RangesAt, SMT DEF AppearanceRanges
<1>2. ASSUME NEW f \in DOMAIN Appearance PROVE ValidField(f, Appearance[f])
  <2>1. CASE f \in {"font_size", "line_height", "ui_scale"}
    BY <1>1, <2>1, RangesAt, Ranged, SMT DEF Appearance
  <2>2. CASE f \in {"ligatures", "reduced_motion"}
    BY <2>2, RangesAt, Unchecked, SMT DEF Intervals
  <2>3. CASE f \in {"theme", "font_family"}
    <3>1. Appearance["theme"] = "graphite" /\ Appearance["font_family"] = "monospace"
      BY SMT DEF Appearance
    <3> QED
      BY <2>3, <3>1, TextsValid
  <2> QED
    BY <2>1, <2>2, <2>3, SMT DEF Appearance
<1>3. /\ TerminalSettings["scrollback_lines"] \in TerminalRanges["scrollback_lines"]
      /\ TerminalSettings["scrollback_max_mib"] \in TerminalRanges["scrollback_max_mib"]
  BY SMT DEF TerminalSettings, TerminalRanges
<1>4. DOMAIN TerminalRanges = {"scrollback_lines", "scrollback_max_mib"}
  BY SMT DEF TerminalRanges
<1>5. ASSUME NEW f \in DOMAIN TerminalSettings PROVE ValidField(f, TerminalSettings[f])
  <2>1. CASE f \in DOMAIN TerminalRanges
    <3>1. Ranges[f] = TerminalRanges[f] /\ f \in DOMAIN Ranges
      BY <1>4, <2>1, RangesAt
    <3>2. TerminalSettings[f] \in TerminalRanges[f]
      BY <1>3, <1>4, <2>1
    <3> QED
      BY <3>1, <3>2, Ranged
  <2>2. CASE f \notin DOMAIN TerminalRanges
    BY <1>4, <1>5, <2>2, RangesAt, Unchecked, SMT DEF TerminalSettings, Intervals
  <2> QED
    BY <2>1, <2>2
<1> QED
  BY <1>2, <1>5 DEF FieldsValid

LEMMA OtherDefaults ==
  /\ FieldsValid(LayoutSettings) /\ FieldsValid(WindowSettings) /\ FieldsValid(Effects)
  /\ FieldsValid(SoundSettings) /\ FieldsValid(InputSettings) /\ FieldsValid(KeyboardSettings)
<1>1. /\ Ranges["max_sessions"] = 1..8 /\ Ranges["width"] = 640..7680
      /\ Ranges["height"] = 400..4320 /\ Ranges["intensity"] = 0..100
      /\ Ranges["max_fps"] = 1..60 /\ Ranges["volume"] = 0..100
  <2>1. /\ LayoutRanges["max_sessions"] = 1..8 /\ LayoutRanges["width"] = 640..7680
        /\ LayoutRanges["height"] = 400..4320 /\ LayoutRanges["intensity"] = 0..100
        /\ LayoutRanges["max_fps"] = 1..60
        /\ "max_sessions" \in DOMAIN LayoutRanges /\ "width" \in DOMAIN LayoutRanges
        /\ "height" \in DOMAIN LayoutRanges /\ "intensity" \in DOMAIN LayoutRanges
        /\ "max_fps" \in DOMAIN LayoutRanges
    BY DEF LayoutRanges
  <2>2. ExtensionRanges["volume"] = 0..100 /\ "volume" \in DOMAIN ExtensionRanges
    BY DEF ExtensionRanges
  <2>3. /\ Ranges["max_sessions"] = LayoutRanges["max_sessions"]
        /\ Ranges["width"] = LayoutRanges["width"] /\ Ranges["height"] = LayoutRanges["height"]
        /\ Ranges["intensity"] = LayoutRanges["intensity"]
        /\ Ranges["max_fps"] = LayoutRanges["max_fps"]
    <3>1. \A f \in DOMAIN LayoutRanges : Ranges[f] = LayoutRanges[f]
      BY RangesAt, Zenon
    <3>2. \A f : f \in DOMAIN LayoutRanges => Ranges[f] = LayoutRanges[f]
      BY <3>1, Zenon
    <3>3. Ranges["max_sessions"] = LayoutRanges["max_sessions"]
      BY <2>1, <3>2
    <3>4. Ranges["width"] = LayoutRanges["width"]
      BY <2>1, <3>2
    <3>5. Ranges["height"] = LayoutRanges["height"]
      BY <2>1, <3>2
    <3>6. Ranges["intensity"] = LayoutRanges["intensity"]
      BY <2>1, <3>2
    <3>7. Ranges["max_fps"] = LayoutRanges["max_fps"]
      BY <2>1, <3>2
    <3> QED
      BY <3>3, <3>4, <3>5, <3>6, <3>7, Zenon
  <2>4. Ranges["volume"] = ExtensionRanges["volume"]
    <3>1. \A f \in DOMAIN ExtensionRanges : Ranges[f] = ExtensionRanges[f]
      BY RangesAt, Zenon
    <3> QED
      BY <2>2, <3>1, Zenon
  <2> QED
    BY <2>1, <2>2, <2>3, <2>4
<1>2. FieldsValid(LayoutSettings)
  <2>1. DOMAIN LayoutSettings = {"preset", "restore", "max_sessions"}
    BY SMT DEF LayoutSettings
  <2>2. ValidField("max_sessions", LayoutSettings["max_sessions"])
    BY <1>1, RangesAt, Ranged, SMT DEF LayoutSettings
  <2> QED
    BY <2>1, <2>2, RangesAt, Unchecked, SMT DEF FieldsValid, Intervals
<1>3. FieldsValid(WindowSettings)
  <2>1. DOMAIN WindowSettings = {"mode", "width", "height"}
    BY SMT DEF WindowSettings
  <2>2. /\ ValidField("width", WindowSettings["width"])
        /\ ValidField("height", WindowSettings["height"])
    BY <1>1, RangesAt, Ranged, SMT DEF WindowSettings
  <2> QED
    BY <2>1, <2>2, RangesAt, Unchecked, SMT DEF FieldsValid, Intervals
<1>4. FieldsValid(Effects)
  <2>1. DOMAIN Effects = {"effects_preset", "intensity", "max_fps"}
    BY SMT DEF Effects
  <2>2. ValidField("intensity", Effects["intensity"]) /\ ValidField("max_fps", Effects["max_fps"])
    BY <1>1, RangesAt, Ranged, SMT DEF Effects
  <2> QED
    BY <2>1, <2>2, RangesAt, Unchecked, SMT DEF FieldsValid, Intervals
<1>5. FieldsValid(SoundSettings)
  <2>1. DOMAIN SoundSettings = {"sound_enabled", "volume", "keypress"}
    BY SMT DEF SoundSettings
  <2>2. ValidField("volume", SoundSettings["volume"])
    BY <1>1, RangesAt, Ranged, SMT DEF SoundSettings
  <2> QED
    BY <2>1, <2>2, RangesAt, Unchecked, SMT DEF FieldsValid, Intervals
<1>6. FieldsValid(InputSettings)
  <2>1. DOMAIN InputSettings = {"option_as_alt", "touch_scroll"}
    BY SMT DEF InputSettings
  <2> QED
    BY <2>1, RangesAt, Unchecked, SMT DEF FieldsValid, Intervals
<1>7. FieldsValid(KeyboardSettings)
  <2>1. DOMAIN KeyboardSettings = {"on_screen", "layout"} /\ KeyboardSettings["layout"] = "en-us"
    BY SMT DEF KeyboardSettings
  <2> QED
    <3>1. ValidField("on_screen", KeyboardSettings["on_screen"])
      BY RangesAt, Unchecked, SMT DEF Intervals
    <3> QED
      BY <2>1, <3>1, TextsValid DEF FieldsValid
<1> QED
  BY <1>2, <1>3, <1>4, <1>5, <1>6, <1>7

LEMMA PanelDefaults == FieldsValid(Panels)
<1>1. Ranges["processes_count"] = 1..10
  BY RangesAt, SMT DEF ExtensionRanges
<1>2. ASSUME NEW f \in DOMAIN LocalPanels PROVE ValidField(f, LocalPanels[f])
  <2>1. CASE f = "processes_count"
    BY <1>1, <2>1, RangesAt, Ranged, SMT DEF LocalPanels
  <2>2. CASE f = "metrics_interval"
    BY <2>2, IntervalsValid, SMT DEF LocalPanels
  <2>3. CASE f \notin {"processes_count", "metrics_interval"}
    BY <1>2, <2>3, RangesAt, Unchecked, SMT DEF LocalPanels, Intervals
  <2> QED
    BY <2>1, <2>2, <2>3
<1>3. ASSUME NEW f \in DOMAIN NetworkPanel PROVE ValidField(f, NetworkPanel[f])
  <2>1. CASE f \in {"geoip_database", "public_ip_endpoint"}
    <3>1. /\ NetworkPanel["geoip_database"] = ""
          /\ NetworkPanel["public_ip_endpoint"] = "https://default"
      BY SMT DEF NetworkPanel
    <3> QED
      BY <2>1, <3>1, TextsValid
  <2>2. CASE f = "network_interval"
    BY <2>2, IntervalsValid, SMT DEF NetworkPanel
  <2>3. CASE f \notin {"geoip_database", "public_ip_endpoint", "network_interval"}
    <3>1. DOMAIN NetworkPanel =
            {"network_enabled", "network_interval", "connections", "geoip_database", "globe",
             "globe_rotate", "public_ip_lookup", "public_ip_endpoint"}
      BY SMT DEF NetworkPanel
    <3>2. f \in {"network_enabled", "connections", "globe", "globe_rotate", "public_ip_lookup"}
      BY <1>3, <2>3, <3>1
    <3> QED
      BY <3>2, RangesAt, Unchecked, SMT DEF Intervals
  <2> QED
    BY <2>1, <2>2, <2>3
<1>4. FieldsValid(LocalPanels) /\ FieldsValid(NetworkPanel)
  BY <1>2, <1>3 DEF FieldsValid
<1> QED
  BY <1>4, OverValid DEF Panels

(* The configuration the program ships with passes its own checks          *)
(* (Config::default, validate).                                            *)
THEOREM DefaultsValid == FieldsValid(Defaults) /\ Valid(DefaultConfig)
<1>1. FieldsValid(Over(Appearance, Over(TerminalSettings, LayoutSettings)))
  BY FirstDefaults, OtherDefaults, OverValid
<1>2. FieldsValid(Over(WindowSettings, Over(Panels, Effects)))
  BY PanelDefaults, OtherDefaults, OverValid
<1>3. FieldsValid(Over(SoundSettings, Over(InputSettings, KeyboardSettings)))
  BY OtherDefaults, OverValid
<1>4. FieldsValid(Defaults)
  BY <1>1, <1>2, <1>3, OverValid DEF Defaults
<1>5. \A f \in Fields : Restrict(Defaults, Fields)[f] = Defaults[f] /\ f \in DOMAIN Defaults
  BY FieldsAssumption DEF Restrict
<1>6. DOMAIN Restrict(Defaults, Fields) = Fields
  BY DEF Restrict
<1>7. IsSafeId("default")
  BY SMT DEF IsSafeId, Blank
<1>8. ValidProfile(NewProfile)
  <2>1. DOMAIN NewProfile = {"command"} /\ NewProfile["command"] = "shell"
    BY SMT DEF NewProfile
  <2>2. "command" # "NO=NAME" /\ "shell" # "with NUL"
    BY SMT
  <2> QED
    BY <2>1, <2>2, Zenon DEF ValidProfile
<1>9. /\ DOMAIN DefaultConfig.profiles = {"default"}
      /\ DefaultConfig.profiles["default"] = NewProfile
      /\ DefaultConfig.fields = Restrict(Defaults, Fields) /\ DOMAIN DefaultConfig.keys = {}
  BY DEF DefaultConfig
<1> QED
  BY <1>4, <1>5, <1>6, <1>7, <1>8, <1>9 DEF FieldsValid, Valid

(***************************************************************************)
(* Layers                                                                  *)
(***************************************************************************)
ListOf(keys) == keys \in Seq(Range(keys))
WellFormed(config) ==
  /\ config = [fields |-> config.fields, profiles |-> config.profiles, keys |-> config.keys]
  /\ config.fields = [f \in Fields |-> config.fields[f]]
  /\ \A id \in DOMAIN config.profiles : "command" \in DOMAIN config.profiles[id]
Usable(config) ==
  WellFormed(config) /\ Valid(config) /\ ListOf(config.keys) /\ Distinct(config.keys)
Readable(file) == DOMAIN file.fields \subseteq Fields /\ ListOf(file.keys)

LEMMA DefaultUsable == Usable(DefaultConfig)
<1>1. WellFormed(DefaultConfig)
  BY DEF WellFormed, DefaultConfig, NewProfile, Restrict
<1>2. DefaultConfig.keys = <<>> /\ ListOf(<<>>) /\ Distinct(<<>>)
  BY DEF DefaultConfig, ListOf, Distinct, Range
<1> QED
  BY <1>1, <1>2, DefaultsValid DEF Usable

LEMMA MergedKeys ==
  ASSUME NEW a, NEW b, ListOf(a), Distinct(a), ListOf(b)
  PROVE  LET m == MergeKeybindings(a, b)
         IN  ListOf(m) /\ Distinct(m) /\ Range(m) \subseteq Range(a) \cup Range(b)
<1> DEFINE T == Range(a) \cup Range(b)
           m == MergeKeybindings(a, b)
<1>1. a \in Seq(T) /\ b \in Seq(T)
  BY DEF ListOf
<1> HIDE DEF T
<1>2. m \in Seq(T) /\ Distinct(m)
  BY <1>1, MergeType
<1> HIDE DEF m
<1>3. ListOf(m) /\ Range(m) \subseteq T
  BY <1>2 DEF ListOf, Range
<1> QED
  BY <1>2, <1>3 DEF m, T

(* A profile that two layers say something of.                             *)
LEMMA MergedProfiles ==
  ASSUME NEW base, NEW file
  PROVE  /\ DOMAIN MergeProfiles(base, file) = DOMAIN base \cup DOMAIN file
         /\ \A id \in DOMAIN base \cup DOMAIN file :
              /\ MergeProfiles(base, file)[id] = Over(Of(file, id), Over(Of(base, id), NewProfile))
              /\ "command" \in DOMAIN MergeProfiles(base, file)[id]
<1>1. /\ DOMAIN MergeProfiles(base, file) = DOMAIN base \cup DOMAIN file
      /\ \A id \in DOMAIN base \cup DOMAIN file :
           MergeProfiles(base, file)[id] = Over(Of(file, id), Over(Of(base, id), NewProfile))
  BY DEF MergeProfiles
<1>2. \A f, g : "command" \in DOMAIN Over(f, Over(g, NewProfile))
  BY DEF Over, NewProfile
<1> QED
  BY <1>1, <1>2

LEMMA MergedProfileValid ==
  ASSUME NEW f, NEW g, ValidProfile(f), ValidProfile(g)
  PROVE  ValidProfile(Over(f, Over(g, NewProfile)))
<1> DEFINE low == Over(g, NewProfile)
           high == Over(f, low)
<1>1. /\ DOMAIN low = DOMAIN g \cup {"command"}
      /\ \A k \in DOMAIN low : low[k] = IF k \in DOMAIN g THEN g[k] ELSE "shell"
  BY DEF Over, NewProfile
<1> HIDE DEF low
<1>2. ValidProfile(low)
  BY <1>1 DEF ValidProfile
<1>3. /\ DOMAIN high = DOMAIN f \cup DOMAIN low
      /\ \A k \in DOMAIN high : high[k] = IF k \in DOMAIN f THEN f[k] ELSE low[k]
  BY DEF Over
<1> HIDE DEF high
<1>4. ValidProfile(high)
  BY <1>2, <1>3 DEF ValidProfile
<1> QED
  BY <1>4 DEF high, low

LEMMA MergedTables ==
  ASSUME NEW base, NEW file, Usable(base), Readable(file)
  PROVE  LET merged == MergeTables(base, file)
         IN  /\ WellFormed(merged) /\ ListOf(merged.keys) /\ Distinct(merged.keys)
             /\ Range(merged.keys) \subseteq Range(base.keys) \cup Range(file.keys)
             /\ \A f \in Fields : merged.fields[f] = IF f \in DOMAIN file.fields THEN file.fields[f]
                                                     ELSE base.fields[f]
             /\ merged.profiles = MergeProfiles(base.profiles, file.profiles)
             /\ merged.keys = MergeKeybindings(base.keys, file.keys)
<1> DEFINE merged == MergeTables(base, file)
<1>1. /\ merged = [fields |-> merged.fields, profiles |-> merged.profiles, keys |-> merged.keys]
      /\ merged.fields = Over(file.fields, base.fields)
      /\ merged.profiles = MergeProfiles(base.profiles, file.profiles)
      /\ merged.keys = MergeKeybindings(base.keys, file.keys)
  BY DEF MergeTables
<1>2. /\ ListOf(base.keys) /\ Distinct(base.keys) /\ ListOf(file.keys)
      /\ DOMAIN base.fields = Fields /\ DOMAIN file.fields \subseteq Fields
  BY DEF Usable, Readable, WellFormed
<1> HIDE DEF merged
<1>3. /\ ListOf(merged.keys) /\ Distinct(merged.keys)
      /\ Range(merged.keys) \subseteq Range(base.keys) \cup Range(file.keys)
  BY <1>1, <1>2, MergedKeys
<1>4. DOMAIN merged.fields = Fields /\ merged.fields = [f \in DOMAIN merged.fields |-> merged.fields[f]]
  BY <1>1, <1>2 DEF Over
<1>5. \A f \in Fields : merged.fields[f] = IF f \in DOMAIN file.fields THEN file.fields[f]
                                           ELSE base.fields[f]
  BY <1>1, <1>2 DEF Over
<1>6. \A id \in DOMAIN merged.profiles : "command" \in DOMAIN merged.profiles[id]
  <2>1. \A b, f : \A id \in DOMAIN MergeProfiles(b, f) :
          "command" \in DOMAIN MergeProfiles(b, f)[id]
    BY MergedProfiles
  <2> QED
    BY <1>1, <2>1, Zenon
<1> QED
  BY <1>1, <1>3, <1>4, <1>5, <1>6 DEF merged, WellFormed

LEMMA LayeredUsable ==
  ASSUME NEW base, NEW file, Usable(base), Readable(file)
  PROVE  Usable(Layered(base, file))
  BY MergedTables DEF Layered, Usable

LEMMA EffectiveUsable ==
  ASSUME NEW texts, Readable(texts.config), Readable(texts.overrides), NEW safe
  PROVE  Usable(LoadEffective(DefaultConfig, texts, safe))
<1>1. Usable(Layered(DefaultConfig, texts.config))
  BY DefaultUsable, LayeredUsable
<1>2. Usable(Layered(Layered(DefaultConfig, texts.config), texts.overrides))
  BY <1>1, LayeredUsable
<1> QED
  BY <1>1, <1>2 DEF LoadEffective

(* What is in a list is valid when the lists it was merged from are.       *)
LEMMA MergedValid ==
  ASSUME NEW base, NEW file, Usable(base), Readable(file), Valid(file)
  PROVE  Valid(MergeTables(base, file))
<1> DEFINE merged == MergeTables(base, file)
<1>1. /\ WellFormed(merged) /\ ListOf(merged.keys)
      /\ Range(merged.keys) \subseteq Range(base.keys) \cup Range(file.keys)
      /\ \A f \in Fields : merged.fields[f] = IF f \in DOMAIN file.fields THEN file.fields[f]
                                              ELSE base.fields[f]
      /\ merged.profiles = MergeProfiles(base.profiles, file.profiles)
  BY MergedTables
<1> HIDE DEF merged
<1>2. Valid(base) /\ DOMAIN base.fields = Fields /\ DOMAIN merged.fields = Fields
  BY <1>1 DEF Usable, WellFormed
<1>3. \A f \in DOMAIN merged.fields : ValidField(f, merged.fields[f])
  BY <1>1, <1>2 DEF Valid
<1>4. ASSUME NEW id \in DOMAIN merged.profiles
      PROVE  IsSafeId(id) /\ ValidProfile(merged.profiles[id])
  <2>1. /\ DOMAIN merged.profiles = DOMAIN base.profiles \cup DOMAIN file.profiles
        /\ merged.profiles[id] =
             Over(Of(file.profiles, id), Over(Of(base.profiles, id), NewProfile))
    <3>1. ASSUME NEW b, NEW f, NEW i \in DOMAIN MergeProfiles(b, f)
          PROVE  /\ DOMAIN MergeProfiles(b, f) = DOMAIN b \cup DOMAIN f
                 /\ MergeProfiles(b, f)[i] = Over(Of(f, i), Over(Of(b, i), NewProfile))
      BY <3>1, MergedProfiles
    <3>2. /\ merged.profiles = MergeProfiles(base.profiles, file.profiles)
          /\ id \in DOMAIN MergeProfiles(base.profiles, file.profiles)
      BY <1>1, <1>4
    <3> QED
      BY <3>1, <3>2, Zenon
  <2>2. ValidProfile(NoFields)
    BY DEF ValidProfile, NoFields
  <2>3. ValidProfile(Of(file.profiles, id)) /\ ValidProfile(Of(base.profiles, id)) /\ IsSafeId(id)
    BY <1>2, <1>4, <2>1, <2>2 DEF Valid, Of
  <2> QED
    BY <2>1, <2>3, MergedProfileValid
<1>5. \A x \in Range(base.keys) \cup Range(file.keys) : ValidBinding(x)
  BY <1>2 DEF Valid, Range
<1>6. \A i \in DOMAIN merged.keys : ValidBinding(merged.keys[i])
  <2> TAKE i \in DOMAIN merged.keys
  <2>1. merged.keys[i] \in Range(merged.keys)
    BY DEF Range
  <2> QED
    BY <1>1, <1>5, <2>1
<1> QED
  BY <1>3, <1>4, <1>6 DEF Valid, merged

LEMMA MergeNothing ==
  ASSUME NEW a, ListOf(a), Distinct(a)
  PROVE  MergeKeybindings(a, <<>>) = a
<1> DEFINE T == Range(a)
<1>1. a \in Seq(T) /\ <<>> \in Seq(T) /\ Len(<<>>) = 0
  BY DEF ListOf
<1> HIDE DEF T
<1>2. PICK f \in [0..Len(<<>>) -> {s \in Seq(T) : Distinct(s)}] :
        f[0] = a /\ f[Len(<<>>)] = MergeKeybindings(a, <<>>)
  BY <1>1, MergeRun
<1> QED
  BY <1>1, <1>2

(* What is written of a profile.                                           *)
LEMMA DiffIs ==
  ASSUME NEW base, NEW draft
  PROVE  /\ \A k : k \in DOMAIN DiffTables(base, draft) <=>
                     (k \in DOMAIN draft /\ (k \in DOMAIN base => draft[k] # base[k]))
         /\ \A k \in DOMAIN DiffTables(base, draft) : DiffTables(base, draft)[k] = draft[k]
  BY DEF DiffTables, Restrict

LEMMA DiffOfProfiles ==
  ASSUME NEW base, NEW draft, NEW diff, diff = DiffProfiles(base, draft)
  PROVE  /\ \A id \in DOMAIN diff :
              /\ id \in DOMAIN draft /\ diff[id] = DiffTables(Of(base, id), draft[id])
              /\ DOMAIN diff[id] \subseteq DOMAIN draft[id]
              /\ \A k \in DOMAIN diff[id] : diff[id][k] = draft[id][k]
         /\ \A id \in DOMAIN draft \ DOMAIN diff :
              id \in DOMAIN base /\ DOMAIN DiffTables(Of(base, id), draft[id]) = {}
<1>1. /\ DOMAIN diff = {id \in DOMAIN draft :
                          DOMAIN DiffTables(Of(base, id), draft[id]) # {} \/ id \notin DOMAIN base}
      /\ \A id \in DOMAIN diff : diff[id] = DiffTables(Of(base, id), draft[id])
  BY DEF DiffProfiles
<1>2. ASSUME NEW id \in DOMAIN diff
      PROVE  /\ DOMAIN diff[id] \subseteq DOMAIN draft[id]
             /\ \A k \in DOMAIN diff[id] : diff[id][k] = draft[id][k]
  <2>1. ASSUME NEW below, NEW said
        PROVE  /\ DOMAIN DiffTables(below, said) \subseteq DOMAIN said
               /\ \A k \in DOMAIN DiffTables(below, said) : DiffTables(below, said)[k] = said[k]
    BY DEF DiffTables, Restrict
  <2>2. diff[id] = DiffTables(Of(base, id), draft[id])
    BY <1>1, <1>2
  <2> QED
    BY <2>1, <2>2
<1> QED
  BY <1>1, <1>2

(* A difference laid over the base is the draft laid over it.              *)
LEMMA DiffOver ==
  ASSUME NEW base, NEW draft, "command" \in DOMAIN draft,
         NEW diff, DOMAIN diff = DOMAIN DiffTables(base, draft),
         \A k \in DOMAIN diff : diff[k] = draft[k]
  PROVE  Over(diff, Over(base, NewProfile)) = Over(draft, base)
<1>1. \A k : k \in DOMAIN diff <=> (k \in DOMAIN draft /\ (k \in DOMAIN base => draft[k] # base[k]))
  BY DiffIs
<1> DEFINE low == Over(base, NewProfile)
<1>2. /\ DOMAIN low = DOMAIN base \cup {"command"} /\ \A k \in DOMAIN base : low[k] = base[k]
  BY DEF Over, NewProfile
<1> HIDE DEF low
<1>3. DOMAIN diff \cup DOMAIN low = DOMAIN draft \cup DOMAIN base
  BY <1>1, <1>2
<1>4. \A k \in DOMAIN draft \cup DOMAIN base :
        (IF k \in DOMAIN diff THEN diff[k] ELSE low[k]) =
        (IF k \in DOMAIN draft THEN draft[k] ELSE base[k])
  BY <1>1, <1>2
<1>5. Over(diff, low) = Over(draft, base)
  BY <1>3, <1>4 DEF Over
<1> QED
  BY <1>5 DEF low

Commanded(profiles) == \A id \in DOMAIN profiles : "command" \in DOMAIN profiles[id]
ReadBackAs(read, draft, base) ==
  /\ DOMAIN read = DOMAIN draft \cup DOMAIN base
  /\ \A id \in DOMAIN draft : read[id] = Over(draft[id], Of(base, id))

LEMMA ProfilesReadBack ==
  ASSUME NEW base, NEW draft, Commanded(draft),
         NEW diff, diff = DiffProfiles(base, draft), NEW read, read = MergeProfiles(base, diff)
  PROVE  ReadBackAs(read, draft, base)
<1>1. /\ \A id \in DOMAIN diff :
           /\ id \in DOMAIN draft /\ diff[id] = DiffTables(Of(base, id), draft[id])
           /\ \A k \in DOMAIN diff[id] : diff[id][k] = draft[id][k]
      /\ \A id \in DOMAIN draft \ DOMAIN diff :
           id \in DOMAIN base /\ DOMAIN DiffTables(Of(base, id), draft[id]) = {}
  BY DiffOfProfiles
<1>2. /\ DOMAIN read = DOMAIN base \cup DOMAIN diff
      /\ \A id \in DOMAIN read : read[id] = Over(Of(diff, id), Over(Of(base, id), NewProfile))
  BY MergedProfiles
<1>3. DOMAIN read = DOMAIN draft \cup DOMAIN base
  BY <1>1, <1>2
<1>4. ASSUME NEW id \in DOMAIN draft PROVE read[id] = Over(draft[id], Of(base, id))
  <2>1. /\ DOMAIN Of(diff, id) = DOMAIN DiffTables(Of(base, id), draft[id])
        /\ \A k \in DOMAIN Of(diff, id) : Of(diff, id)[k] = draft[id][k]
    BY <1>1, <1>4 DEF Of, NoFields
  <2>2. Over(Of(diff, id), Over(Of(base, id), NewProfile)) = Over(draft[id], Of(base, id))
    BY <1>4, <2>1, DiffOver DEF Commanded
  <2> QED
    BY <1>2, <1>3, <1>4, <2>2
<1> QED
  BY <1>3, <1>4 DEF ReadBackAs

(* Which fields of a draft are written.                                    *)
LEMMA WhatIsWritten ==
  ASSUME NEW base, NEW config, Usable(base), Usable(config)
  PROVE  LET toml == OverridesToml(base, config)
         IN  /\ LoadLayer(toml) /\ Readable(toml)
             /\ DOMAIN toml.fields = {f \in Fields : config.fields[f] # base.fields[f]}
             /\ \A f \in DOMAIN toml.fields : toml.fields[f] = config.fields[f]
             /\ toml.profiles = DiffProfiles(base.profiles, config.profiles)
             /\ toml.keys = IF config.keys = base.keys THEN <<>> ELSE config.keys
<1> DEFINE toml == OverridesToml(base, config)
<1>1. DOMAIN config.fields = Fields /\ DOMAIN base.fields = Fields
  BY DEF Usable, WellFormed
<1>2. /\ toml.is = "whole" /\ toml.version = SCHEMA_VERSION
      /\ DOMAIN toml.fields = {f \in Fields : config.fields[f] # base.fields[f]}
      /\ \A f \in DOMAIN toml.fields : toml.fields[f] = config.fields[f]
      /\ toml.profiles = DiffProfiles(base.profiles, config.profiles)
      /\ toml.keys = IF config.keys = base.keys THEN <<>> ELSE config.keys
  BY <1>1 DEF OverridesToml, Whole, DiffTables, Restrict
<1> HIDE DEF toml
<1>3. ListOf(<<>>) /\ ListOf(config.keys) /\ Valid(config)
  BY DEF Usable, ListOf
<1>4. Readable(toml)
  BY <1>2, <1>3 DEF Readable
<1>5. ASSUME NEW id \in DOMAIN toml.profiles PROVE IsSafeId(id) /\ ValidProfile(toml.profiles[id])
  <2>1. /\ id \in DOMAIN config.profiles /\ DOMAIN toml.profiles[id] \subseteq DOMAIN config.profiles[id]
        /\ \A k \in DOMAIN toml.profiles[id] : toml.profiles[id][k] = config.profiles[id][k]
    BY <1>2, <1>5, DiffOfProfiles
  <2> QED
    BY <1>3, <2>1 DEF Valid, ValidProfile
<1>6. Valid(toml)
  BY <1>1, <1>2, <1>3, <1>5 DEF Valid
<1> QED
  BY <1>2, <1>4, <1>6 DEF toml, LoadLayer

(* overrides_toml, merge_tables and load_effective: what is written over a *)
(* configuration is read back over it: every field, all that the profiles  *)
(* say, and, with no shortcut that only the one below has, the shortcuts.  *)
(* What else a profile has then (a cwd or a variable that was taken away)  *)
(* is what the one below says.                                             *)
THEOREM ReadsBack ==
  ASSUME NEW base, NEW config, Usable(base), Usable(config)
  PROVE  LET read == Layered(base, OverridesToml(base, config))
         IN  /\ read.fields = config.fields
             /\ DOMAIN read.profiles = DOMAIN config.profiles \cup DOMAIN base.profiles
             /\ \A id \in DOMAIN config.profiles :
                  read.profiles[id] = Over(config.profiles[id], Of(base.profiles, id))
             /\ Entries(base) \subseteq Entries(config) => Range(read.keys) = Range(config.keys)
<1> DEFINE toml == OverridesToml(base, config)
           read == MergeTables(base, toml)
<1>1. /\ LoadLayer(toml) /\ Readable(toml)
      /\ DOMAIN toml.fields = {f \in Fields : config.fields[f] # base.fields[f]}
      /\ \A f \in DOMAIN toml.fields : toml.fields[f] = config.fields[f]
      /\ toml.profiles = DiffProfiles(base.profiles, config.profiles)
      /\ toml.keys = IF config.keys = base.keys THEN <<>> ELSE config.keys
  BY WhatIsWritten
<1> HIDE DEF toml
<1>2. /\ WellFormed(read)
      /\ \A f \in Fields : read.fields[f] = IF f \in DOMAIN toml.fields THEN toml.fields[f]
                                            ELSE base.fields[f]
      /\ read.profiles = MergeProfiles(base.profiles, toml.profiles)
      /\ read.keys = MergeKeybindings(base.keys, toml.keys)
  BY <1>1, MergedTables
<1>3. Valid(toml)
  BY <1>1 DEF LoadLayer
<1>4. Valid(read)
  BY <1>1, <1>3, MergedValid
<1> HIDE DEF read
<1>5. Layered(base, toml) = read
  BY <1>1, <1>4 DEF Layered, read
<1>6. read.fields = config.fields
  <2>1. \A f \in Fields : read.fields[f] = config.fields[f]
    BY <1>1, <1>2
  <2>2. /\ read.fields = [f \in Fields |-> read.fields[f]]
        /\ config.fields = [f \in Fields |-> config.fields[f]]
    BY <1>2 DEF Usable, WellFormed
  <2>3. [f \in Fields |-> read.fields[f]] = [f \in Fields |-> config.fields[f]]
    BY <2>1
  <2> QED
    BY <2>2, <2>3
<1>7. /\ DOMAIN read.profiles = DOMAIN config.profiles \cup DOMAIN base.profiles
      /\ \A id \in DOMAIN config.profiles :
           read.profiles[id] = Over(config.profiles[id], Of(base.profiles, id))
  <2>1. \A id \in DOMAIN config.profiles : "command" \in DOMAIN config.profiles[id]
    BY DEF Usable, WellFormed
  <2> QED
    <3>1. /\ toml.profiles = DiffProfiles(base.profiles, config.profiles)
          /\ read.profiles = MergeProfiles(base.profiles, toml.profiles)
      BY <1>1, <1>2
    <3>2. Commanded(config.profiles)
      BY <2>1 DEF Commanded
    <3>3. ReadBackAs(read.profiles, config.profiles, base.profiles)
      BY <3>1, <3>2, ProfilesReadBack, Zenon
    <3> QED
      BY <3>3 DEF ReadBackAs
<1>8. ASSUME Entries(base) \subseteq Entries(config) PROVE Range(read.keys) = Range(config.keys)
  <2>1. /\ ListOf(base.keys) /\ Distinct(base.keys) /\ ListOf(config.keys) /\ Distinct(config.keys)
    BY DEF Usable
  <2>2. CASE config.keys = base.keys
    <3>1. read.keys = base.keys
      BY <1>1, <1>2, <2>1, <2>2, MergeNothing
    <3> QED
      BY <2>2, <3>1
  <2>3. CASE config.keys # base.keys
    <3> DEFINE T == Range(base.keys) \cup Range(config.keys)
               a == base.keys
               b == config.keys
    <3>1. a \in Seq(T) /\ b \in Seq(T) /\ Distinct(a) /\ Distinct(b)
      BY <2>1 DEF ListOf
    <3>2. {BindingKey(a[i]) : i \in DOMAIN a} \subseteq {BindingKey(b[i]) : i \in DOMAIN b}
      BY <1>8 DEF Entries
    <3>3. read.keys = MergeKeybindings(a, b)
      BY <1>1, <1>2, <2>3
    <3> HIDE DEF a, b, T
    <3>4. Range(MergeKeybindings(a, b)) = Range(b)
      BY <3>1, <3>2, MergeReads
    <3> QED
      BY <3>3, <3>4 DEF b
  <2> QED
    BY <2>2, <2>3
<1> QED
  BY <1>5, <1>6, <1>7, <1>8 DEF toml

(***************************************************************************)
(* Shortcuts as the settings dialog shows and writes them                  *)
(***************************************************************************)
(* An action is described once.                                            *)
LEMMA InfoIs == \A n \in 1..25 : InfoOf(Registry[n].id) = Registry[n]
<1> TAKE n \in 1..25
<1>1. Registry[n] \in Range(Registry)
  BY RegistryIds DEF Range
<1>2. \A info \in Range(Registry) : info.id = Registry[n].id => info = Registry[n]
  BY RegistryIds DEF Range
<1> QED
  BY <1>1, <1>2, Zenon DEF InfoOf

(* The slot that an action has of its own.                                 *)
OwnSlot(id) == <<id, InfoOf(id).context>>
OwnSlots == {OwnSlot(id) : id \in ActionIds}

LEMMA OwnSlotsAre ==
  /\ OwnSlots \subseteq Slots
  /\ OwnSlots = {<<info.id, info.context>> : info \in Range(Registry)}
  /\ \A i, j \in ActionIds : OwnSlot(i) = OwnSlot(j) => i = j
<1>1. \A n \in 1..25 : OwnSlot(Registry[n].id) = <<Registry[n].id, Registry[n].context>>
  BY InfoIs DEF OwnSlot
<1>2. OwnSlots = {<<info.id, info.context>> : info \in Range(Registry)}
  <2>1. OwnSlots = {OwnSlot(Registry[n].id) : n \in 1..25}
    BY ActionIdsAre DEF OwnSlots
  <2>2. Range(Registry) = {Registry[n] : n \in 1..25}
    BY RegistryIds DEF Range
  <2>3. OwnSlots = {<<Registry[n].id, Registry[n].context>> : n \in 1..25}
    BY <1>1, <2>1
  <2>4. {<<info.id, info.context>> : info \in Range(Registry)} =
          {<<Registry[n].id, Registry[n].context>> : n \in 1..25}
    BY <2>2
  <2> QED
    BY <2>3, <2>4
<1>3. OwnSlots \subseteq Slots
  <2>1. \A n \in 1..25 : Registry[n].id \in ActionIds /\ Registry[n].context \in Range(Contexts)
    BY ActionIdsAre, RegistryIds
  <2>2. ASSUME NEW slot \in OwnSlots PROVE slot \in Slots
    <3>1. PICK n \in 1..25 : slot = OwnSlot(Registry[n].id)
      BY <2>2, ActionIdsAre DEF OwnSlots
    <3> QED
      BY <1>1, <2>1, <3>1, SMTT(30) DEF Slots
  <2> QED
    BY <2>2
<1> QED
  BY <1>2, <1>3 DEF OwnSlot

LEMMA DefaultChosenAre ==
  ASSUME NEW mac
  PROVE  /\ DOMAIN DefaultChosen(mac) = OwnSlots
         /\ \A id \in ActionIds : DefaultChosen(mac)[OwnSlot(id)] = DefaultKeys(InfoOf(id), mac)
<1>1. DefaultChosen(mac) = [k \in OwnSlots |-> DefaultKeys(InfoOf(k[1]), mac)]
  BY OwnSlotsAre DEF DefaultChosen
<1>2. \A id \in ActionIds : OwnSlot(id) \in OwnSlots /\ OwnSlot(id)[1] = id
  BY DEF OwnSlots, OwnSlot
<1> QED
  BY <1>1, <1>2

(* An override that names the context of its action.                       *)
InOwnContext(o) == Applicable(o) /\ o.context = InfoOf(o.action).context

LEMMA OwnTurn ==
  ASSUME NEW c, DOMAIN c = OwnSlots, NEW o, InOwnContext(o)
  PROVE  LET d == ChooseNext(c, o)
         IN  /\ DOMAIN d = OwnSlots
             /\ d[OwnSlot(o.action)] = KeysOf(o)
             /\ \A id \in ActionIds \ {o.action} : d[OwnSlot(id)] = c[OwnSlot(id)]
<1> DEFINE d == ChooseNext(c, o)
           key == OwnSlot(o.action)
<1>1. key \in OwnSlots /\ o.action \in ActionIds
  BY DEF InOwnContext, Applicable, OwnSlots
<1>2. d = [k \in (OwnSlots \ {key}) \cup {key} |-> IF k = key THEN KeysOf(o) ELSE c[k]]
  BY DEF ChooseNext, ApplyOverride, InOwnContext, OwnSlot
<1>3. \A id \in ActionIds \ {o.action} : OwnSlot(id) \in OwnSlots /\ OwnSlot(id) # key
  BY <1>1, OwnSlotsAre DEF OwnSlots
<1> HIDE DEF d, key
<1>4. (OwnSlots \ {key}) \cup {key} = OwnSlots
  BY <1>1
<1>5. DOMAIN d = OwnSlots /\ d[key] = KeysOf(o)
  BY <1>1, <1>2, <1>4
<1>6. \A id \in ActionIds \ {o.action} : d[OwnSlot(id)] = c[OwnSlot(id)]
  BY <1>2, <1>3, <1>4
<1> QED
  BY <1>5, <1>6 DEF d, key

LEMMA OwnChosen ==
  ASSUME NEW T, NEW overrides \in Seq(T), NEW mac, \A o \in Range(overrides) : InOwnContext(o)
  PROVE  DOMAIN Chosen(overrides, mac) = OwnSlots
<1> DEFINE k == Len(overrides)
<1>1. PICK f \in [0..k -> ChosenMaps(overrides, mac)] : ChosenBy(f, overrides, mac)
  BY ChosenRun
<1>2. k \in Nat /\ k \in 0..k /\ \A n \in 1..k : overrides[n] \in Range(overrides)
  BY DEF Range
<1> DEFINE G == {n \in 0..k : DOMAIN f[n] = OwnSlots}
<1>3. 0 \in G
  BY <1>1, <1>2, DefaultChosenAre DEF ChosenBy
<1>4. ASSUME NEW n \in 1..k, n - 1 \in G PROVE n \in G
  <2>1. f[n] = ChooseNext(f[n - 1], overrides[n]) /\ InOwnContext(overrides[n]) /\ n \in 0..k
    BY <1>1, <1>2 DEF ChosenBy
  <2>2. DOMAIN f[n - 1] = OwnSlots
    BY <1>4
  <2> QED
    BY <2>1, <2>2, OwnTurn
<1>5. k \in G
  <2> HIDE DEF G, k
  <2>1. \A n \in 0..k : n \in G
    BY <1>2, <1>3, <1>4, Turns
  <2> QED
    BY <1>2, <2>1
<1> QED
  BY <1>1, <1>5 DEF ChosenBy

(***************************************************************************)
(* Display                                                                 *)
(***************************************************************************)
Tokens == DOMAIN ModifierOf \cup Characters \cup NAMED_KEYS
Texts == Seq(Tokens)

LEMMA PieceRange ==
  ASSUME NEW s \in Texts, NEW t \in Texts
  PROVE  s \o t \in Texts /\ Range(s \o t) = Range(s) \cup Range(t)
<1>0. s \in Seq(Tokens) /\ t \in Seq(Tokens)
  BY DEF Texts
<1>1. s \o t \in Texts /\ s \o t \in Seq(Tokens) /\ Len(s \o t) = Len(s) + Len(t)
  BY <1>0 DEF Texts
<1>2. ASSUME NEW x \in Range(s \o t) PROVE x \in Range(s) \cup Range(t)
  <2>1. PICK i \in 1..(Len(s) + Len(t)) : x = (s \o t)[i]
    BY <1>1 DEF Range
  <2>2. CASE i <= Len(s)
    <3>1. i \in 1..Len(s) /\ x = s[i]
      BY <1>0, <2>1, <2>2
    <3> QED
      BY <1>0, <3>1 DEF Range
  <2>3. CASE i > Len(s)
    <3>1. i - Len(s) \in 1..Len(t) /\ x = t[i - Len(s)]
      BY <1>0, <2>1, <2>3
    <3> QED
      BY <1>0, <3>1 DEF Range
  <2>4. i \in Nat /\ Len(s) \in Nat
    BY <1>0, <2>1
  <2> QED
    BY <2>2, <2>3, <2>4
<1>3. ASSUME NEW i \in 1..Len(s) PROVE s[i] \in Range(s \o t)
  <2>1. i \in 1..(Len(s) + Len(t)) /\ (s \o t)[i] = s[i]
    BY <1>0
  <2> QED
    BY <1>1, <2>1 DEF Range
<1>4. ASSUME NEW i \in 1..Len(t) PROVE t[i] \in Range(s \o t)
  <2>1. i + Len(s) \in 1..(Len(s) + Len(t)) /\ (s \o t)[i + Len(s)] = t[i]
    BY <1>0
  <2> QED
    BY <1>1, <2>1 DEF Range
<1>5. \A x \in Range(s) : x \in Range(s \o t)
  BY <1>0, <1>3 DEF Range
<1>6. \A x \in Range(t) : x \in Range(s \o t)
  BY <1>0, <1>4 DEF Range
<1> QED
  BY <1>1, <1>2, <1>5, <1>6

(* The last token of a text is the key, the others are the modifiers.      *)
LEMMA LastPiece ==
  ASSUME NEW s \in Texts, NEW x \in Tokens, NEW text, text = s \o <<x>>
  PROVE  text # <<>> /\ Last(text) = x /\ Front(text) = s /\ Range(text) = Range(s) \cup {x}
<1>0. s \in Seq(Tokens) /\ <<x>> \in Texts /\ Range(<<x>>) = {x}
  BY DEF Texts, Range
<1>1. text \in Seq(Tokens) /\ Len(text) = Len(s) + 1 /\ text[Len(text)] = x
  BY <1>0
<1>2. Front(text) = s
  <2>1. \A i \in 1..Len(s) : text[i] = s[i]
    BY <1>0
  <2>2. Len(text) - 1 = Len(s) /\ Len(s) \in Nat
    BY <1>0, <1>1
  <2>3. SubSeq(text, 1, Len(s)) = s
    BY <1>0, <1>1, <2>1, <2>2
  <2> QED
    BY <2>2, <2>3 DEF Front
<1>3. Range(text) = Range(s) \cup {x}
  BY <1>0, PieceRange
<1>4. text # <<>>
  BY <1>0, <1>1
<1> QED
  BY <1>1, <1>2, <1>3, <1>4 DEF Last

(* The labels of the modifiers, which parse as the modifiers.              *)
ShownAs(m, mac) ==
  CASE m = "alt" -> IF mac THEN "option" ELSE "alt"
    [] m = "logo" -> IF mac THEN "cmd" ELSE "super"
    [] OTHER -> m
Modifiers == {"ctrl", "alt", "shift", "logo"}

LEMMA ModifiersAre ==
  /\ DOMAIN ModifierOf = {"ctrl", "control", "shift", "alt", "option", "opt", "cmd", "command",
                          "super", "logo", "win", "meta"}
  /\ ModifierOf["ctrl"] = "ctrl" /\ ModifierOf["shift"] = "shift" /\ ModifierOf["alt"] = "alt"
  /\ ModifierOf["option"] = "alt" /\ ModifierOf["cmd"] = "logo" /\ ModifierOf["super"] = "logo"
  BY SMT DEF ModifierOf

LEMMA Labels ==
  ASSUME NEW mac
  PROVE  /\ ShownAs("ctrl", mac) = "ctrl" /\ ShownAs("shift", mac) = "shift"
         /\ ShownAs("alt", mac) = IF mac THEN "option" ELSE "alt"
         /\ ShownAs("logo", mac) = IF mac THEN "cmd" ELSE "super"
         /\ \A m \in Modifiers : /\ ShownAs(m, mac) \in DOMAIN ModifierOf
                                 /\ ModifierOf[ShownAs(m, mac)] = m
                                 /\ ShownAs(m, mac) # "" /\ ShownAs(m, mac) # "+"
<1>1. /\ ShownAs("ctrl", mac) = "ctrl" /\ ShownAs("shift", mac) = "shift"
      /\ ShownAs("alt", mac) = IF mac THEN "option" ELSE "alt"
      /\ ShownAs("logo", mac) = IF mac THEN "cmd" ELSE "super"
  BY SMT DEF ShownAs
<1>2. /\ "ctrl" \in DOMAIN ModifierOf /\ "shift" \in DOMAIN ModifierOf
      /\ "alt" \in DOMAIN ModifierOf /\ "option" \in DOMAIN ModifierOf
      /\ "cmd" \in DOMAIN ModifierOf /\ "super" \in DOMAIN ModifierOf
  BY ModifiersAre
<1>3. ASSUME NEW m \in Modifiers PROVE ShownAs(m, mac) \in DOMAIN ModifierOf
  BY <1>1, <1>2, SMT DEF Modifiers
<1>4. ASSUME NEW m \in Modifiers PROVE ModifierOf[ShownAs(m, mac)] = m
  <2> DEFINE F == ModifierOf
  <2>1. /\ F["ctrl"] = "ctrl" /\ F["shift"] = "shift" /\ F["alt"] = "alt"
        /\ F["option"] = "alt" /\ F["cmd"] = "logo" /\ F["super"] = "logo"
    BY ModifiersAre
  <2> HIDE DEF F
  <2>2. F[ShownAs(m, mac)] = m
    BY <1>1, <2>1, SMT DEF Modifiers
  <2> QED
    BY <2>2 DEF F
<1>5. ASSUME NEW m \in Modifiers PROVE ShownAs(m, mac) # "" /\ ShownAs(m, mac) # "+"
  BY <1>1, Zenon DEF Modifiers
<1> QED
  BY <1>1, <1>3, <1>4, <1>5

LEMMA DisplayIs ==
  ASSUME NEW mac, NEW mods \in SUBSET Modifiers, NEW key \in Tokens
  PROVE  \E front \in Texts : /\ Display([mods |-> mods, key |-> key], mac) = front \o <<key>>
                              /\ Range(front) = {ShownAs(m, mac) : m \in mods}
<1> DEFINE Part(m) == IF m \in mods THEN <<ShownAs(m, mac)>> ELSE <<>>
           a == Part("ctrl")
           b == Part("alt")
           c == Part("shift")
           d == Part("logo")
           ab == a \o b
           abc == ab \o c
           front == abc \o d
<1>1. Display([mods |-> mods, key |-> key], mac) = front \o <<key>>
  BY Labels DEF Display
<1>2. \A m \in Modifiers : /\ Part(m) \in Texts
                           /\ Range(Part(m)) = IF m \in mods THEN {ShownAs(m, mac)} ELSE {}
  <2> TAKE m \in Modifiers
  <2>1. ShownAs(m, mac) \in Tokens
    BY Labels DEF Tokens
  <2>2. /\ <<ShownAs(m, mac)>> \in Texts /\ Range(<<ShownAs(m, mac)>>) = {ShownAs(m, mac)}
        /\ <<>> \in Texts /\ Range(<<>>) = {}
    BY <2>1 DEF Texts, Range
  <2> QED
    BY <2>2
<1>3. a \in Texts /\ b \in Texts /\ c \in Texts /\ d \in Texts
  BY <1>2 DEF Modifiers
<1>4. /\ Range(a) = IF "ctrl" \in mods THEN {ShownAs("ctrl", mac)} ELSE {}
      /\ Range(b) = IF "alt" \in mods THEN {ShownAs("alt", mac)} ELSE {}
      /\ Range(c) = IF "shift" \in mods THEN {ShownAs("shift", mac)} ELSE {}
      /\ Range(d) = IF "logo" \in mods THEN {ShownAs("logo", mac)} ELSE {}
  BY <1>2 DEF Modifiers
<1> HIDE DEF a, b, c, d
<1>5. ab \in Texts /\ Range(ab) = Range(a) \cup Range(b)
  BY <1>3, PieceRange
<1> HIDE DEF ab
<1>6. abc \in Texts /\ Range(abc) = Range(ab) \cup Range(c)
  BY <1>3, <1>5, PieceRange
<1> HIDE DEF abc
<1>7. front \in Texts /\ Range(front) = Range(abc) \cup Range(d)
  BY <1>3, <1>6, PieceRange
<1> HIDE DEF front
<1>8. Range(front) = {ShownAs(m, mac) : m \in mods}
  <2>1. \A m \in mods : m = "ctrl" \/ m = "alt" \/ m = "shift" \/ m = "logo"
    BY DEF Modifiers
  <2>2. ASSUME NEW m \in mods PROVE ShownAs(m, mac) \in Range(front)
    BY <1>4, <1>5, <1>6, <1>7, <2>1
  <2>3. ASSUME NEW x \in Range(front) PROVE \E m \in mods : x = ShownAs(m, mac)
    BY <1>4, <1>5, <1>6, <1>7, <2>3
  <2> QED
    BY <2>2, <2>3
<1> QED
  BY <1>1, <1>7, <1>8

(* What Chord::parse can give: + is the key of a chord only with a modifier. *)
Chords ==
  {chord \in [mods : SUBSET Modifiers, key : Characters \cup NAMED_KEYS] :
     chord.key = "+" => chord.mods # {}}

LEMMA KeysAre ==
  /\ \A key \in Characters \cup NAMED_KEYS :
       NormalizeKey(key) = key /\ key # "none" /\ key # "" /\ key \in Tokens
  /\ \A alias \in DOMAIN KeyAlias : KeyAlias[alias] # "+"
<1> DEFINE Others == {"insert", "home", "end", "pageup", "pagedown", "up", "down", "left", "right"}
           Fs == {"f1", "f2", "f3", "f4", "f5", "f6", "f7", "f8", "f9", "f10", "f11", "f12"}
           Strange == {"return", "esc", "pgup", "pgdn", "del", "none", ""}
<1>1. DOMAIN KeyAlias = {"return", "esc", "pgup", "pgdn", "del"}
  BY SMT DEF KeyAlias
<1>2. Characters \cap Strange = {}
  BY SMTT(60) DEF Characters
<1>3. TYPING_KEYS \cap Strange = {}
  BY SMTT(60) DEF TYPING_KEYS
<1>4. Others \cap Strange = {}
  BY SMTT(60)
<1>5. Fs \cap Strange = {}
  BY SMTT(60)
<1>6. NAMED_KEYS = TYPING_KEYS \cup Others \cup Fs
  BY DEF NAMED_KEYS
<1> HIDE DEF Others, Fs
<1>7. \A key \in Characters \cup NAMED_KEYS : key \notin Strange
  BY <1>2, <1>3, <1>4, <1>5, <1>6
<1>8. \A alias \in DOMAIN KeyAlias : KeyAlias[alias] # "+"
  BY <1>1, SMT DEF KeyAlias
<1> QED
  BY <1>1, <1>7, <1>8 DEF NormalizeKey, Tokens

(* Display shows every chord that Chord::parse can give as a text that it  *)
(* reads as the same chord.  The + key without a modifier is none of them: *)
(* split_chord makes two empty parts of it, and it is refused.             *)
THEOREM ShownIsRead ==
  ASSUME NEW chord \in Chords, NEW mac
  PROVE  LET text == Display(chord, mac)
         IN  /\ ParseChord(text) = {chord} /\ text # <<>> /\ text # <<"none">>
             /\ chord.key # "+" => KeysValid(text)
<1> DEFINE text == Display(chord, mac)
           mods == chord.mods
           key == chord.key
<1>1. /\ mods \in SUBSET Modifiers /\ key \in Characters \cup NAMED_KEYS
      /\ chord = [mods |-> mods, key |-> key]
  BY DEF Chords
<1>2. key \in Tokens /\ key # "none" /\ key # "" /\ NormalizeKey(key) = key
  BY <1>1, KeysAre
<1> HIDE DEF mods, key
<1>3. PICK front \in Texts : /\ text = front \o <<key>>
                             /\ Range(front) = {ShownAs(m, mac) : m \in mods}
  BY <1>1, <1>2, DisplayIs
<1> HIDE DEF text
<1>4. /\ text # <<>> /\ Last(text) = key /\ Front(text) = front
      /\ Range(text) = Range(front) \cup {key}
  BY <1>2, <1>3, LastPiece
<1>5. Range(front) \subseteq DOMAIN ModifierOf
  BY <1>1, <1>3, Labels
<1>6. {ModifierOf[x] : x \in Range(front)} = mods
  <2>1. {ModifierOf[x] : x \in Range(front)} = {ModifierOf[ShownAs(m, mac)] : m \in mods}
    BY <1>3
  <2>2. \A m \in mods : ModifierOf[ShownAs(m, mac)] = m
    BY <1>1, Labels
  <2> QED
    BY <2>1, <2>2
<1>7. ParseChord(text) = {chord}
  <2>1. key = "+" => Range(front) # {}
    BY <1>6 DEF Chords, key, mods
  <2> QED
    BY <1>1, <1>2, <1>4, <1>5, <1>6, <2>1 DEF ParseChord
<1>8. text # <<"none">>
  <2>1. Last(<<"none">>) = "none"
    BY DEF Last
  <2> QED
    BY <1>2, <1>4, <2>1
<1>9. key # "+" => KeysValid(text)
  <2>1. \A x \in Range(front) : x # "" /\ x # "+"
    BY <1>1, <1>3, Labels
  <2> QED
    BY <1>2, <1>4, <2>1 DEF KeysValid
<1> QED
  BY <1>4, <1>7, <1>8, <1>9 DEF text, key

(* What Chord::parse reads is a chord.                                     *)
LEMMA ParsedChords ==
  ASSUME NEW text
  PROVE  /\ ParseChord(text) \subseteq Chords
         /\ text = <<>> => ParseChord(text) = {}
         /\ KeysValid(text) => \A chord \in ParseChord(text) : text \in Seq(Range(text)) => chord.key # "+"
<1>1. \A m \in DOMAIN ModifierOf : ModifierOf[m] \in Modifiers
  BY SMT DEF ModifierOf, Modifiers
<1>2. ASSUME NEW chord \in ParseChord(text)
      PROVE  /\ chord \in Chords /\ chord.key = NormalizeKey(Last(text)) /\ text # <<>>
  <2>1. text # <<>>
    BY <1>2 DEF ParseChord
  <2> DEFINE key == NormalizeKey(Last(text))
             mods == Range(Front(text))
  <2>2. /\ mods \subseteq DOMAIN ModifierOf /\ key \in Characters \cup NAMED_KEYS
        /\ key = "+" => mods # {}
        /\ chord = [mods |-> {ModifierOf[m] : m \in mods}, key |-> key]
    BY <1>2, <2>1 DEF ParseChord
  <2> HIDE DEF key, mods
  <2>3. /\ {ModifierOf[m] : m \in mods} \in SUBSET Modifiers
        /\ mods # {} => {ModifierOf[m] : m \in mods} # {}
    BY <1>1, <2>2
  <2> QED
    BY <2>1, <2>2, <2>3 DEF Chords, key
<1>3. ASSUME KeysValid(text), NEW chord \in ParseChord(text), text \in Seq(Range(text))
      PROVE  chord.key # "+"
  <2>1. text # <<>> /\ chord.key = NormalizeKey(Last(text))
    BY <1>2, <1>3
  <2>2. Len(text) \in DOMAIN text
    BY <1>3, <2>1
  <2>3. Last(text) \in Range(text)
    BY <2>2 DEF Last, Range
  <2>4. Last(text) # "+"
    BY <1>3, <2>3 DEF KeysValid
  <2> QED
    BY <2>1, <2>4, KeysAre DEF NormalizeKey
<1> QED
  BY <1>2, <1>3 DEF ParseChord

(***************************************************************************)
(* The keymap of shortcuts in their own contexts                           *)
(***************************************************************************)
ParsedOf(chosen, id) == ParseChord(chosen[OwnSlot(id)])
BindingOf(id, chord) == [context |-> InfoOf(id).context, chord |-> chord, action |-> id]
WantedOf(id, chord) ==
  [place |-> Place(OwnSlot(id)), action |-> id, context |-> InfoOf(id).context, chord |-> chord]

LEMMA OwnWanted ==
  ASSUME NEW chosen, DOMAIN chosen = OwnSlots
  PROVE  /\ \A w \in Wanted(chosen) :
              /\ w.action \in ActionIds /\ w.chord \in ParsedOf(chosen, w.action)
              /\ Bindable(InfoOf(w.action).context, w.chord) /\ w = WantedOf(w.action, w.chord)
         /\ \A id \in ActionIds : \A chord \in ParsedOf(chosen, id) :
              Bindable(InfoOf(id).context, chord) => WantedOf(id, chord) \in Wanted(chosen)
<1>1. ASSUME NEW w \in Wanted(chosen)
      PROVE  /\ w.action \in ActionIds /\ w.chord \in ParsedOf(chosen, w.action)
             /\ Bindable(InfoOf(w.action).context, w.chord) /\ w = WantedOf(w.action, w.chord)
  <2>1. PICK slot \in OwnSlots :
          /\ w.place = Place(slot) /\ w.action = slot[1] /\ w.context = slot[2]
          /\ w.chord \in ParseChord(chosen[slot]) /\ Bindable(slot[2], w.chord)
          /\ w = [place |-> w.place, action |-> w.action, context |-> w.context, chord |-> w.chord]
    BY WantedAre
  <2>2. PICK id \in ActionIds : slot = OwnSlot(id)
    BY DEF OwnSlots
  <2>3. slot[1] = id /\ slot[2] = InfoOf(id).context
    BY <2>2 DEF OwnSlot
  <2> QED
    BY <2>1, <2>2, <2>3 DEF ParsedOf, WantedOf
<1>2. ASSUME NEW id \in ActionIds, NEW chord \in ParsedOf(chosen, id),
             Bindable(InfoOf(id).context, chord)
      PROVE  WantedOf(id, chord) \in Wanted(chosen)
  <2> DEFINE slot == OwnSlot(id)
  <2>1. slot \in DOMAIN chosen /\ slot[1] = id /\ slot[2] = InfoOf(id).context
    BY DEF OwnSlots, OwnSlot
  <2>2. chord \in {c \in ParseChord(chosen[slot]) : Bindable(slot[2], c)}
    BY <1>2, <2>1 DEF ParsedOf
  <2>3. WantedOf(id, chord) =
          [place |-> Place(slot), action |-> slot[1], context |-> slot[2], chord |-> chord]
    BY <2>1 DEF WantedOf
  <2> HIDE DEF slot
  <2> QED
    BY <2>1, <2>2, <2>3 DEF Wanted
<1> QED
  BY <1>1, <1>2

LEMMA ContextsAre ==
  /\ Range(Contexts) = {"global", "terminal"}
  /\ \A id \in ActionIds : InfoOf(id).context \in {"global", "terminal"}
<1>1. Range(Contexts) = {"global", "terminal"}
  <2>1. DOMAIN Contexts = 1..2 /\ Contexts[1] = "global" /\ Contexts[2] = "terminal"
    BY DEF Contexts
  <2> QED
    BY <2>1 DEF Range
<1>2. \A n \in 1..25 : InfoOf(Registry[n].id).context \in Range(Contexts)
  BY InfoIs, RegistryIds
<1> QED
  BY <1>1, <1>2, ActionIdsAre

(* What is shown of an action is what is bound to it.                      *)
ShownIn(keymap, id) == {b.chord : b \in {c \in keymap.bindings : c.action = id}}

LEMMA OwnKeymap ==
  ASSUME NEW chosen, DOMAIN chosen = OwnSlots, NEW unknown, NEW keymap,
         keymap = BindChosen(chosen, unknown)
  PROVE  /\ \A b \in keymap.bindings :
              b.action \in ActionIds /\ b.chord \in ShortcutFor(keymap, b.action)
              /\ b = BindingOf(b.action, b.chord)
         /\ \A id \in ActionIds : \A chord \in ShortcutFor(keymap, id) :
              /\ BindingOf(id, chord) \in keymap.bindings
              /\ chord \in ParsedOf(chosen, id) /\ Bindable(InfoOf(id).context, chord)
         /\ \A i, j \in ActionIds : \A chord \in ShortcutFor(keymap, i) :
              chord \in ShortcutFor(keymap, j) => i = j
         /\ \A id \in keymap.refused :
              id \in unknown \/ (id \in ActionIds /\ chosen[OwnSlot(id)] # Unbound
                                 /\ ShortcutFor(keymap, id) = {})
<1> DEFINE bound == First(Wanted(chosen))
<1>1. \A w \in bound :
        /\ w.action \in ActionIds /\ w.chord \in ParsedOf(chosen, w.action)
        /\ Bindable(InfoOf(w.action).context, w.chord) /\ w = WantedOf(w.action, w.chord)
  BY OwnWanted DEF First
<1>2. /\ keymap.bindings = {[context |-> w.context, chord |-> w.chord, action |-> w.action] : w \in bound}
      /\ keymap.refused = unknown \cup {slot[1] : slot \in {k \in DOMAIN chosen :
                            chosen[k] # Unbound /\ ~\E w \in bound : w.place = Place(k)}}
  BY DEF BindChosen, BindAll
<1> HIDE DEF bound
<1>3. \A b \in keymap.bindings :
        /\ b.action \in ActionIds /\ b.chord \in ParsedOf(chosen, b.action)
        /\ Bindable(InfoOf(b.action).context, b.chord) /\ b = BindingOf(b.action, b.chord)
        /\ WantedOf(b.action, b.chord) \in bound
  <2> TAKE b \in keymap.bindings
  <2>1. PICK w \in bound : b = [context |-> w.context, chord |-> w.chord, action |-> w.action]
    BY <1>2
  <2>2. b.action = w.action /\ b.chord = w.chord /\ b.context = w.context
    BY <2>1
  <2>3. w.context = InfoOf(w.action).context
    BY <1>1 DEF WantedOf
  <2> QED
    BY <1>1, <2>1, <2>2, <2>3 DEF BindingOf
<1>4. \A b \in keymap.bindings : b.context = InfoOf(b.action).context
  BY <1>3 DEF BindingOf
<1>5. \A id \in ActionIds : ShortcutFor(keymap, id) = ShownIn(keymap, id)
  <2> TAKE id \in ActionIds
  <2> DEFINE Chord(context) == {b.chord : b \in {c \in keymap.bindings : c.context = context
                                                                         /\ c.action = id}}
  <2>1. ShortcutFor(keymap, id) = IF Chord("global") # {} THEN Chord("global") ELSE Chord("terminal")
    BY DEF ShortcutFor
  <2>2. Chord(InfoOf(id).context) = ShownIn(keymap, id)
    BY <1>4 DEF ShownIn
  <2>3. \A context : context # InfoOf(id).context => Chord(context) = {}
    BY <1>4
  <2> HIDE DEF Chord
  <2>4. CASE InfoOf(id).context = "global"
    <3>1. Chord("terminal") = {}
      BY <2>3, <2>4
    <3> QED
      BY <2>1, <2>2, <2>4, <3>1
  <2>5. CASE InfoOf(id).context = "terminal"
    <3>1. Chord("global") = {}
      BY <2>3, <2>5
    <3> QED
      BY <2>1, <2>2, <2>5, <3>1
  <2> QED
    BY <2>4, <2>5, ContextsAre
<1>6. \A b \in keymap.bindings : b.chord \in ShortcutFor(keymap, b.action)
  BY <1>3, <1>5 DEF ShownIn
<1>7. ASSUME NEW id \in ActionIds, NEW chord \in ShortcutFor(keymap, id)
      PROVE  /\ BindingOf(id, chord) \in keymap.bindings
             /\ chord \in ParsedOf(chosen, id) /\ Bindable(InfoOf(id).context, chord)
  <2>1. PICK b \in keymap.bindings : b.action = id /\ b.chord = chord
    BY <1>5, <1>7 DEF ShownIn
  <2> QED
    BY <1>3, <2>1
<1>8. ASSUME NEW i \in ActionIds, NEW j \in ActionIds, NEW chord \in ShortcutFor(keymap, i),
             chord \in ShortcutFor(keymap, j)
      PROVE  i = j
  <2>1. Unambiguous(chosen, keymap)
    BY BindAllSound, OwnSlotsAre
  <2>2. BindingOf(i, chord) \in keymap.bindings /\ BindingOf(j, chord) \in keymap.bindings
    BY <1>7, <1>8
  <2>3. BindingOf(i, chord).chord = chord /\ BindingOf(j, chord).chord = chord
    BY DEF BindingOf
  <2>4. BindingOf(i, chord) = BindingOf(j, chord)
    BY <2>1, <2>2, <2>3 DEF Unambiguous
  <2>5. BindingOf(i, chord).action = i /\ BindingOf(j, chord).action = j
    BY DEF BindingOf
  <2> QED
    BY <2>4, <2>5
<1>9. ASSUME NEW id \in keymap.refused, id \notin unknown
      PROVE  id \in ActionIds /\ chosen[OwnSlot(id)] # Unbound /\ ShortcutFor(keymap, id) = {}
  <2>1. PICK slot \in OwnSlots : /\ slot[1] = id /\ chosen[slot] # Unbound
                                 /\ ~\E w \in bound : w.place = Place(slot)
    BY <1>2, <1>9
  <2>2. id \in ActionIds /\ slot = OwnSlot(id)
    BY <2>1 DEF OwnSlots, OwnSlot
  <2>3. ASSUME NEW chord \in ShortcutFor(keymap, id) PROVE FALSE
    <3>1. PICK b \in keymap.bindings : b.action = id /\ b.chord = chord
      BY <1>5, <2>2 DEF ShownIn
    <3>2. WantedOf(id, chord) \in bound
      BY <1>3, <3>1
    <3>3. WantedOf(id, chord).place = Place(slot)
      BY <2>2 DEF WantedOf
    <3> QED
      BY <2>1, <3>2, <3>3
  <2> QED
    BY <2>1, <2>2, <2>3
<1> QED
  BY <1>3, <1>6, <1>7, <1>8, <1>9

(* Shortcuts that do not meet are all bound.                               *)
Separate(chosen) ==
  /\ \A id \in ActionIds : \A chord \in ParsedOf(chosen, id) : Bindable(InfoOf(id).context, chord)
  /\ \A i, j \in ActionIds : \A chord \in ParsedOf(chosen, i) : chord \in ParsedOf(chosen, j) => i = j

LEMMA SeparateKeymap ==
  ASSUME NEW chosen, DOMAIN chosen = OwnSlots, Separate(chosen), NEW unknown, NEW keymap,
         keymap = BindChosen(chosen, unknown)
  PROVE  \A id \in ActionIds : ShortcutFor(keymap, id) = ParsedOf(chosen, id)
<1> TAKE id \in ActionIds
<1>1. ASSUME NEW chord \in ParsedOf(chosen, id) PROVE chord \in ShortcutFor(keymap, id)
  <2> DEFINE w == WantedOf(id, chord)
  <2>1. w \in Wanted(chosen)
    BY OwnWanted DEF Separate
  <2>2. ASSUME NEW v \in Wanted(chosen), v.chord = chord PROVE v = w
    <3>1. /\ v.action \in ActionIds /\ v.chord \in ParsedOf(chosen, v.action)
          /\ v = WantedOf(v.action, v.chord)
      BY OwnWanted
    <3>2. v.action = id
      BY <2>2, <3>1 DEF Separate
    <3> QED
      BY <2>2, <3>1, <3>2
  <2>3. w.chord = chord /\ w.action = id /\ w.context = InfoOf(id).context /\ w.place \in Nat
    BY RegistryPlaces, OwnSlotsAre DEF WantedOf, OwnSlots
  <2> HIDE DEF w
  <2>4. w \in First(Wanted(chosen))
    <3>1. ASSUME NEW v \in Wanted(chosen), v.place < w.place, v.chord = w.chord PROVE FALSE
      <4>1. v = w
        BY <2>2, <2>3, <3>1
      <4>2. w.place < w.place
        BY <3>1, <4>1
      <4> QED
        BY <2>3, <4>2
    <3> QED
      BY <2>1, <3>1 DEF First, Clash
  <2>5. [context |-> w.context, chord |-> w.chord, action |-> w.action] \in keymap.bindings
    BY <2>4 DEF BindChosen, BindAll
  <2>6. BindingOf(id, chord) \in keymap.bindings
    BY <2>3, <2>5 DEF BindingOf
  <2>7. BindingOf(id, chord).action = id /\ BindingOf(id, chord).chord = chord
    BY DEF BindingOf
  <2> QED
    BY <2>6, <2>7, OwnKeymap
<1>2. \A chord \in ShortcutFor(keymap, id) : chord \in ParsedOf(chosen, id)
  BY OwnKeymap
<1> QED
  BY <1>1, <1>2

(* What an action gets is what one of its overrides says, or its default.  *)
LEMMA OwnValues ==
  ASSUME NEW T, NEW overrides \in Seq(T), NEW mac, \A o \in Range(overrides) : InOwnContext(o)
  PROVE  \A id \in ActionIds :
           LET keys == Chosen(overrides, mac)[OwnSlot(id)]
           IN  \/ \E o \in Range(overrides) : o.action = id /\ keys = KeysOf(o)
               \/ /\ \A o \in Range(overrides) : o.action # id
                  /\ keys = DefaultKeys(InfoOf(id), mac)
<1> DEFINE k == Len(overrides)
<1>1. PICK f \in [0..k -> ChosenMaps(overrides, mac)] : ChosenBy(f, overrides, mac)
  BY ChosenRun
<1>2. k \in Nat /\ k \in 0..k /\ \A n \in 1..k : overrides[n] \in Range(overrides)
  BY DEF Range
<1> DEFINE From(n, id) ==
             \/ \E m \in 1..n : overrides[m].action = id /\ f[n][OwnSlot(id)] = KeysOf(overrides[m])
             \/ /\ \A m \in 1..n : overrides[m].action # id
                /\ f[n][OwnSlot(id)] = DefaultKeys(InfoOf(id), mac)
           G == {n \in 0..k : DOMAIN f[n] = OwnSlots /\ \A id \in ActionIds : From(n, id)}
<1>3. 0 \in G
  <2>1. f[0] = DefaultChosen(mac) /\ 0 \in 0..k /\ \A m \in 1..0 : FALSE
    BY <1>1, <1>2 DEF ChosenBy
  <2> QED
    BY <2>1, DefaultChosenAre
<1>4. ASSUME NEW n \in 1..k, n - 1 \in G PROVE n \in G
  <2> DEFINE o == overrides[n]
  <2>1. f[n] = ChooseNext(f[n - 1], o) /\ InOwnContext(o) /\ n \in 0..k
    BY <1>1, <1>2 DEF ChosenBy
  <2>2. DOMAIN f[n - 1] = OwnSlots /\ \A id \in ActionIds : From(n - 1, id)
    BY <1>4
  <2>3. (\A m \in 1..n : m = n \/ m \in 1..(n - 1)) /\ n \in 1..n /\ \A m \in 1..(n - 1) : m \in 1..n
    BY <1>2
  <2>4. /\ DOMAIN f[n] = OwnSlots /\ f[n][OwnSlot(o.action)] = KeysOf(o)
        /\ \A id \in ActionIds \ {o.action} : f[n][OwnSlot(id)] = f[n - 1][OwnSlot(id)]
    <3> HIDE DEF o
    <3> QED
      BY <2>1, <2>2, OwnTurn
  <2>5. ASSUME NEW id \in ActionIds PROVE From(n, id)
    <3>1. CASE id = o.action
      BY <2>3, <2>4, <3>1
    <3>2. CASE id # o.action
      <4>1. f[n][OwnSlot(id)] = f[n - 1][OwnSlot(id)] /\ From(n - 1, id)
        BY <2>2, <2>4, <3>2
      <4> QED
        BY <2>3, <3>2, <4>1
    <3> QED
      BY <3>1, <3>2
  <2> QED
    BY <2>1, <2>4, <2>5
<1>5. k \in G
  <2> HIDE DEF G, k
  <2>1. \A n \in 0..k : n \in G
    BY <1>2, <1>3, <1>4, Turns
  <2> QED
    BY <1>2, <2>1
<1>6. \A id \in ActionIds : From(k, id)
  BY <1>5
<1>7. f[k] = Chosen(overrides, mac)
  BY <1>1 DEF ChosenBy
<1>8. \A o \in Range(overrides) : \E m \in 1..k : o = overrides[m]
  BY DEF Range
<1> QED
  BY <1>2, <1>6, <1>7, <1>8

(***************************************************************************)
(* The defaults of a platform, as the kind and the key of their chords     *)
(***************************************************************************)
Comma == ","
OtherKeys ==
  {"-", "0", "=", "[", "]", "c", "d", "e", "enter", "f", "k", "m", "n",
   "none", "o", "p", "pagedown", "pageup", "t", "v", "w", "z"}
PlainKinds ==
  <<"cs", "cs", "cs", "cs", "cs", "cs", "cs", "c", "c", "cs", "cs", "cs",
    "s", "s", "cs", "c", "cs", "cs", "cs", "none", "c", "c", "c", "cs",
    "none">>
PlainKeys ==
  <<"t", "w", "d", "e", "]", "[", "z", "pagedown", "pageup", "c", "v", "f",
    "pageup", "pagedown", "p", Comma, "m", "n", "o", "none", "=", "-", "0",
    "k", "none">>
MacKinds ==
  <<"l", "l", "l", "ls", "l", "l", "ls", "ls", "ls", "l", "l", "l", "s", "s",
    "ls", "l", "ls", "ls", "ls", "none", "l", "l", "l", "ls", "none">>
MacKeys ==
  <<"t", "w", "d", "d", "]", "[", "enter", "]", "[", "c", "v", "f", "pageup",
    "pagedown", "p", Comma, "m", "n", "o", "none", "=", "-", "0", "k",
    "none">>

TextOf(kind, key) ==
  CASE kind = "cs" -> CS(key) [] kind = "c" -> <<"ctrl", key>> [] kind = "s" -> <<"shift", key>>
    [] kind = "l" -> Cmd(key) [] kind = "ls" -> CmdS(key) [] OTHER -> <<>>
ModsOf(kind) ==
  CASE kind = "cs" -> {"ctrl", "shift"} [] kind = "c" -> {"ctrl"} [] kind = "s" -> {"shift"}
    [] kind = "l" -> {"logo"} [] kind = "ls" -> {"logo", "shift"} [] OTHER -> {}
Kinds == {"cs", "c", "s", "l", "ls"}
ChordFrom(kind, key) == [mods |-> ModsOf(kind), key |-> key]

LEMMA PlainKindsAre ==
  /\ PlainKinds[1] = "cs" /\ PlainKinds[2] = "cs" /\ PlainKinds[3] = "cs"
  /\ PlainKinds[4] = "cs" /\ PlainKinds[5] = "cs" /\ PlainKinds[6] = "cs"
  /\ PlainKinds[7] = "cs" /\ PlainKinds[8] = "c" /\ PlainKinds[9] = "c"
  /\ PlainKinds[10] = "cs" /\ PlainKinds[11] = "cs" /\ PlainKinds[12] = "cs"
  /\ PlainKinds[13] = "s" /\ PlainKinds[14] = "s" /\ PlainKinds[15] = "cs"
  /\ PlainKinds[16] = "c" /\ PlainKinds[17] = "cs" /\ PlainKinds[18] = "cs"
  /\ PlainKinds[19] = "cs" /\ PlainKinds[20] = "none" /\ PlainKinds[21] = "c"
  /\ PlainKinds[22] = "c" /\ PlainKinds[23] = "c" /\ PlainKinds[24] = "cs"
  /\ PlainKinds[25] = "none"
  BY Zenon DEF PlainKinds

LEMMA PlainKeysAre ==
  /\ PlainKeys[1] = "t" /\ PlainKeys[2] = "w" /\ PlainKeys[3] = "d"
  /\ PlainKeys[4] = "e" /\ PlainKeys[5] = "]" /\ PlainKeys[6] = "["
  /\ PlainKeys[7] = "z" /\ PlainKeys[8] = "pagedown" /\ PlainKeys[9] = "pageup"
  /\ PlainKeys[10] = "c" /\ PlainKeys[11] = "v" /\ PlainKeys[12] = "f"
  /\ PlainKeys[13] = "pageup" /\ PlainKeys[14] = "pagedown" /\ PlainKeys[15] = "p"
  /\ PlainKeys[16] = Comma /\ PlainKeys[17] = "m" /\ PlainKeys[18] = "n"
  /\ PlainKeys[19] = "o" /\ PlainKeys[20] = "none" /\ PlainKeys[21] = "="
  /\ PlainKeys[22] = "-" /\ PlainKeys[23] = "0" /\ PlainKeys[24] = "k"
  /\ PlainKeys[25] = "none"
  BY Zenon DEF PlainKeys

LEMMA MacKindsAre ==
  /\ MacKinds[1] = "l" /\ MacKinds[2] = "l" /\ MacKinds[3] = "l"
  /\ MacKinds[4] = "ls" /\ MacKinds[5] = "l" /\ MacKinds[6] = "l"
  /\ MacKinds[7] = "ls" /\ MacKinds[8] = "ls" /\ MacKinds[9] = "ls"
  /\ MacKinds[10] = "l" /\ MacKinds[11] = "l" /\ MacKinds[12] = "l"
  /\ MacKinds[13] = "s" /\ MacKinds[14] = "s" /\ MacKinds[15] = "ls"
  /\ MacKinds[16] = "l" /\ MacKinds[17] = "ls" /\ MacKinds[18] = "ls"
  /\ MacKinds[19] = "ls" /\ MacKinds[20] = "none" /\ MacKinds[21] = "l"
  /\ MacKinds[22] = "l" /\ MacKinds[23] = "l" /\ MacKinds[24] = "ls"
  /\ MacKinds[25] = "none"
  BY Zenon DEF MacKinds

LEMMA MacKeysAre ==
  /\ MacKeys[1] = "t" /\ MacKeys[2] = "w" /\ MacKeys[3] = "d"
  /\ MacKeys[4] = "d" /\ MacKeys[5] = "]" /\ MacKeys[6] = "["
  /\ MacKeys[7] = "enter" /\ MacKeys[8] = "]" /\ MacKeys[9] = "["
  /\ MacKeys[10] = "c" /\ MacKeys[11] = "v" /\ MacKeys[12] = "f"
  /\ MacKeys[13] = "pageup" /\ MacKeys[14] = "pagedown" /\ MacKeys[15] = "p"
  /\ MacKeys[16] = Comma /\ MacKeys[17] = "m" /\ MacKeys[18] = "n"
  /\ MacKeys[19] = "o" /\ MacKeys[20] = "none" /\ MacKeys[21] = "="
  /\ MacKeys[22] = "-" /\ MacKeys[23] = "0" /\ MacKeys[24] = "k"
  /\ MacKeys[25] = "none"
  BY Zenon DEF MacKeys

LEMMA TextsAre ==
  \A key : /\ TextOf("cs", key) = CS(key) /\ TextOf("c", key) = <<"ctrl", key>>
           /\ TextOf("s", key) = <<"shift", key>> /\ TextOf("l", key) = Cmd(key)
           /\ TextOf("ls", key) = CmdS(key) /\ TextOf("none", key) = <<>>
  BY Zenon DEF TextOf

LEMMA ModsAre ==
  /\ ModsOf("cs") = {"ctrl", "shift"} /\ ModsOf("c") = {"ctrl"} /\ ModsOf("s") = {"shift"}
  /\ ModsOf("l") = {"logo"} /\ ModsOf("ls") = {"logo", "shift"}
  BY Zenon DEF ModsOf

LEMMA TablePlain ==
  /\ Registry[1].keys = TextOf(PlainKinds[1], PlainKeys[1])
  /\ Registry[2].keys = TextOf(PlainKinds[2], PlainKeys[2])
  /\ Registry[3].keys = TextOf(PlainKinds[3], PlainKeys[3])
  /\ Registry[4].keys = TextOf(PlainKinds[4], PlainKeys[4])
  /\ Registry[5].keys = TextOf(PlainKinds[5], PlainKeys[5])
  /\ Registry[6].keys = TextOf(PlainKinds[6], PlainKeys[6])
  /\ Registry[7].keys = TextOf(PlainKinds[7], PlainKeys[7])
  /\ Registry[8].keys = TextOf(PlainKinds[8], PlainKeys[8])
  /\ Registry[9].keys = TextOf(PlainKinds[9], PlainKeys[9])
  /\ Registry[10].keys = TextOf(PlainKinds[10], PlainKeys[10])
  /\ Registry[11].keys = TextOf(PlainKinds[11], PlainKeys[11])
  /\ Registry[12].keys = TextOf(PlainKinds[12], PlainKeys[12])
  /\ Registry[13].keys = TextOf(PlainKinds[13], PlainKeys[13])
  /\ Registry[14].keys = TextOf(PlainKinds[14], PlainKeys[14])
  /\ Registry[15].keys = TextOf(PlainKinds[15], PlainKeys[15])
  /\ Registry[16].keys = TextOf(PlainKinds[16], PlainKeys[16])
  /\ Registry[17].keys = TextOf(PlainKinds[17], PlainKeys[17])
  /\ Registry[18].keys = TextOf(PlainKinds[18], PlainKeys[18])
  /\ Registry[19].keys = TextOf(PlainKinds[19], PlainKeys[19])
  /\ Registry[20].keys = TextOf(PlainKinds[20], PlainKeys[20])
  /\ Registry[21].keys = TextOf(PlainKinds[21], PlainKeys[21])
  /\ Registry[22].keys = TextOf(PlainKinds[22], PlainKeys[22])
  /\ Registry[23].keys = TextOf(PlainKinds[23], PlainKeys[23])
  /\ Registry[24].keys = TextOf(PlainKinds[24], PlainKeys[24])
  /\ Registry[25].keys = TextOf(PlainKinds[25], PlainKeys[25])
  BY TextsAre, ZenonT(100) DEF Registry, Info, PlainKinds, PlainKeys, Comma
LEMMA TableMac ==
  /\ Registry[1].mac = TextOf(MacKinds[1], MacKeys[1])
  /\ Registry[2].mac = TextOf(MacKinds[2], MacKeys[2])
  /\ Registry[3].mac = TextOf(MacKinds[3], MacKeys[3])
  /\ Registry[4].mac = TextOf(MacKinds[4], MacKeys[4])
  /\ Registry[5].mac = TextOf(MacKinds[5], MacKeys[5])
  /\ Registry[6].mac = TextOf(MacKinds[6], MacKeys[6])
  /\ Registry[7].mac = TextOf(MacKinds[7], MacKeys[7])
  /\ Registry[8].mac = TextOf(MacKinds[8], MacKeys[8])
  /\ Registry[9].mac = TextOf(MacKinds[9], MacKeys[9])
  /\ Registry[10].mac = TextOf(MacKinds[10], MacKeys[10])
  /\ Registry[11].mac = TextOf(MacKinds[11], MacKeys[11])
  /\ Registry[12].mac = TextOf(MacKinds[12], MacKeys[12])
  /\ Registry[13].mac = TextOf(MacKinds[13], MacKeys[13])
  /\ Registry[14].mac = TextOf(MacKinds[14], MacKeys[14])
  /\ Registry[15].mac = TextOf(MacKinds[15], MacKeys[15])
  /\ Registry[16].mac = TextOf(MacKinds[16], MacKeys[16])
  /\ Registry[17].mac = TextOf(MacKinds[17], MacKeys[17])
  /\ Registry[18].mac = TextOf(MacKinds[18], MacKeys[18])
  /\ Registry[19].mac = TextOf(MacKinds[19], MacKeys[19])
  /\ Registry[20].mac = TextOf(MacKinds[20], MacKeys[20])
  /\ Registry[21].mac = TextOf(MacKinds[21], MacKeys[21])
  /\ Registry[22].mac = TextOf(MacKinds[22], MacKeys[22])
  /\ Registry[23].mac = TextOf(MacKinds[23], MacKeys[23])
  /\ Registry[24].mac = TextOf(MacKinds[24], MacKeys[24])
  /\ Registry[25].mac = TextOf(MacKinds[25], MacKeys[25])
  BY TextsAre, ZenonT(100) DEF Registry, Info, MacKinds, MacKeys, Comma

LEMMA CommaIs == Comma \notin OtherKeys
  BY Zenon DEF Comma, OtherKeys

LEMMA PlainDiffer ==
  \A i, j \in 1..25 :
    PlainKinds[i] # "none" /\ PlainKinds[i] = PlainKinds[j] /\ PlainKeys[i] = PlainKeys[j] => i = j
  BY PlainKindsAre, PlainKeysAre, CommaIs, SMTT(200) DEF OtherKeys
LEMMA PlainKindsIn ==
  \A n \in 1..25 : \/ PlainKinds[n] = "none"
                   \/ PlainKinds[n] \in {"cs", "c", "l", "ls"}
                   \/ PlainKinds[n] = "s" /\ n \in {13, 14}
  BY PlainKindsAre, SMTT(60)
LEMMA PlainKeysIn ==
  \A n \in 1..25 : PlainKinds[n] = "none" \/ PlainKeys[n] \in (OtherKeys \ {"none"}) \cup {Comma}
  BY PlainKindsAre, PlainKeysAre, SMTT(60) DEF OtherKeys

LEMMA MacDiffer ==
  \A i, j \in 1..25 :
    MacKinds[i] # "none" /\ MacKinds[i] = MacKinds[j] /\ MacKeys[i] = MacKeys[j] => i = j
  BY MacKindsAre, MacKeysAre, CommaIs, SMTT(200) DEF OtherKeys
LEMMA MacKindsIn ==
  \A n \in 1..25 : \/ MacKinds[n] = "none"
                   \/ MacKinds[n] \in {"cs", "c", "l", "ls"}
                   \/ MacKinds[n] = "s" /\ n \in {13, 14}
  BY MacKindsAre, SMTT(60)
LEMMA MacKeysIn ==
  \A n \in 1..25 : MacKinds[n] = "none" \/ MacKeys[n] \in (OtherKeys \ {"none"}) \cup {Comma}
  BY MacKindsAre, MacKeysAre, SMTT(60) DEF OtherKeys

LEMMA TableOf ==
  /\ \A n \in 1..25 : Registry[n].keys = TextOf(PlainKinds[n], PlainKeys[n])
  /\ \A n \in 1..25 : Registry[n].mac = TextOf(MacKinds[n], MacKeys[n])
<1>1. \A n \in 1..25 : Registry[n].keys = TextOf(PlainKinds[n], PlainKeys[n])
  BY TablePlain, SMTT(60)
<1>2. \A n \in 1..25 : Registry[n].mac = TextOf(MacKinds[n], MacKeys[n])
  BY TableMac, SMTT(60)
<1> QED
  BY <1>1, <1>2

LEMMA OtherKeysIn == (OtherKeys \ {"none"}) \cup {Comma} \subseteq (Characters \cup NAMED_KEYS) \ {"+"}
<1>1. \A key \in OtherKeys \ {"none"} : key \in Characters \cup NAMED_KEYS
  BY ZenonT(60) DEF OtherKeys, Characters, NAMED_KEYS, TYPING_KEYS
<1>2. "+" \notin OtherKeys
  BY Zenon DEF OtherKeys
<1>3. Comma \in Characters /\ Comma # "+"
  BY Zenon DEF Comma, Characters
<1> QED
  BY <1>1, <1>2, <1>3

KindAt(n, mac) == IF mac THEN MacKinds[n] ELSE PlainKinds[n]
KeyAt(n, mac) == IF mac THEN MacKeys[n] ELSE PlainKeys[n]

LEMMA DefaultsTable ==
  ASSUME NEW mac \in BOOLEAN
  PROVE  /\ \A n \in 1..25 :
              /\ DefaultKeys(Registry[n], mac) = TextOf(KindAt(n, mac), KeyAt(n, mac))
              /\ \/ KindAt(n, mac) = "none"
                 \/ /\ KeyAt(n, mac) \in (Characters \cup NAMED_KEYS) \ {"+"}
                    /\ KindAt(n, mac) \in Kinds /\ (KindAt(n, mac) = "s" => n \in {13, 14})
         /\ \A i, j \in 1..25 :
              KindAt(i, mac) # "none" /\ KindAt(i, mac) = KindAt(j, mac)
                /\ KeyAt(i, mac) = KeyAt(j, mac) => i = j
<1>1. CASE mac
  <2>1. /\ \A n \in 1..25 : KindAt(n, mac) = MacKinds[n] /\ KeyAt(n, mac) = MacKeys[n]
        /\ \A n \in 1..25 : DefaultKeys(Registry[n], mac) = Registry[n].mac
    BY <1>1 DEF KindAt, KeyAt, DefaultKeys
  <2>2. \A n \in 1..25 :
          \/ MacKinds[n] = "none"
          \/ /\ MacKeys[n] \in (Characters \cup NAMED_KEYS) \ {"+"}
             /\ MacKinds[n] \in Kinds /\ (MacKinds[n] = "s" => n \in {13, 14})
    <3> TAKE n \in 1..25
    <3>1. MacKinds[n] = "none" \/ MacKeys[n] \in (Characters \cup NAMED_KEYS) \ {"+"}
      BY MacKeysIn, OtherKeysIn
    <3>2. MacKinds[n] = "none" \/ (MacKinds[n] \in Kinds /\ (MacKinds[n] = "s" => n \in {13, 14}))
      BY MacKindsIn DEF Kinds
    <3> QED
      BY <3>1, <3>2
  <2>3. \A i, j \in 1..25 :
          KindAt(i, mac) # "none" /\ KindAt(i, mac) = KindAt(j, mac)
            /\ KeyAt(i, mac) = KeyAt(j, mac) => i = j
    BY <2>1, MacDiffer
  <2>4. \A n \in 1..25 : DefaultKeys(Registry[n], mac) = TextOf(KindAt(n, mac), KeyAt(n, mac))
    BY <2>1, TableOf
  <2> QED
    BY <2>1, <2>2, <2>3, <2>4
<1>2. CASE ~mac
  <2>1. /\ \A n \in 1..25 : KindAt(n, mac) = PlainKinds[n] /\ KeyAt(n, mac) = PlainKeys[n]
        /\ \A n \in 1..25 : DefaultKeys(Registry[n], mac) = Registry[n].keys
    BY <1>2 DEF KindAt, KeyAt, DefaultKeys
  <2>2. \A n \in 1..25 :
          \/ PlainKinds[n] = "none"
          \/ /\ PlainKeys[n] \in (Characters \cup NAMED_KEYS) \ {"+"}
             /\ PlainKinds[n] \in Kinds /\ (PlainKinds[n] = "s" => n \in {13, 14})
    <3> TAKE n \in 1..25
    <3>1. PlainKinds[n] = "none" \/ PlainKeys[n] \in (Characters \cup NAMED_KEYS) \ {"+"}
      BY PlainKeysIn, OtherKeysIn
    <3>2. PlainKinds[n] = "none" \/ (PlainKinds[n] \in Kinds /\ (PlainKinds[n] = "s" => n \in {13, 14}))
      BY PlainKindsIn DEF Kinds
    <3> QED
      BY <3>1, <3>2
  <2>3. \A i, j \in 1..25 :
          KindAt(i, mac) # "none" /\ KindAt(i, mac) = KindAt(j, mac)
            /\ KeyAt(i, mac) = KeyAt(j, mac) => i = j
    BY <2>1, PlainDiffer
  <2>4. \A n \in 1..25 : DefaultKeys(Registry[n], mac) = TextOf(KindAt(n, mac), KeyAt(n, mac))
    BY <2>1, TableOf
  <2> QED
    BY <2>1, <2>2, <2>3, <2>4
<1> QED
  BY <1>1, <1>2

LEMMA ParsedTexts ==
  ASSUME NEW kind \in Kinds, NEW key \in Characters \cup NAMED_KEYS
  PROVE  ParseChord(TextOf(kind, key)) = {ChordFrom(kind, key)} /\ TextOf(kind, key) # <<>>
<1>1. key \in Tokens /\ NormalizeKey(key) = key
  BY KeysAre
<1>2. /\ "ctrl" \in Tokens /\ "shift" \in Tokens /\ "cmd" \in Tokens
      /\ "ctrl" \in DOMAIN ModifierOf /\ "shift" \in DOMAIN ModifierOf /\ "cmd" \in DOMAIN ModifierOf
  BY ModifiersAre DEF Tokens
<1>3. ASSUME NEW front \in Texts, NEW text, text = front \o <<key>>, NEW mods,
             Range(front) \subseteq DOMAIN ModifierOf, mods = {ModifierOf[m] : m \in Range(front)},
             Range(front) # {}
      PROVE  ParseChord(text) = {[mods |-> mods, key |-> key]} /\ text # <<>>
  <2>1. text # <<>> /\ Last(text) = key /\ Front(text) = front
    BY <1>1, <1>3, LastPiece
  <2> QED
    BY <1>1, <1>3, <2>1 DEF ParseChord
<1>4. ASSUME NEW a \in Tokens, NEW b \in Tokens
      PROVE  /\ <<a, b>> \in Texts /\ <<a>> \in Texts
             /\ Range(<<a, b>>) = {a, b} /\ Range(<<a>>) = {a}
             /\ <<a, b>> \o <<key>> = <<a, b, key>> /\ <<a>> \o <<key>> = <<a, key>>
  <2>1. <<a, b>> \in Texts /\ <<a>> \in Texts
    BY DEF Texts
  <2>2. Range(<<a, b>>) = {a, b} /\ Range(<<a>>) = {a}
    BY DEF Range
  <2>3. <<a, b>> \o <<key>> = <<a, b, key>>
    <3> DEFINE s == <<a, b>> \o <<key>>
               t == <<a, b, key>>
    <3>1. s \in Seq(Tokens) /\ Len(s) = 3 /\ s[1] = a /\ s[2] = b /\ s[3] = key
      BY <1>1
    <3>2. t \in Seq(Tokens) /\ Len(t) = 3 /\ t[1] = a /\ t[2] = b /\ t[3] = key
      BY <1>1
    <3> HIDE DEF s, t
    <3>3. \A i \in 1..3 : s[i] = t[i]
      BY <3>1, <3>2
    <3> QED
      BY <3>1, <3>2, <3>3, SeqEqual DEF s, t
  <2>4. <<a>> \o <<key>> = <<a, key>>
    <3> DEFINE s == <<a>> \o <<key>>
               t == <<a, key>>
    <3>1. s \in Seq(Tokens) /\ Len(s) = 2 /\ s[1] = a /\ s[2] = key
      BY <1>1
    <3>2. t \in Seq(Tokens) /\ Len(t) = 2 /\ t[1] = a /\ t[2] = key
      BY <1>1
    <3> HIDE DEF s, t
    <3>3. \A i \in 1..2 : s[i] = t[i]
      BY <3>1, <3>2
    <3> QED
      BY <3>1, <3>2, <3>3, SeqEqual DEF s, t
  <2> QED
    BY <2>1, <2>2, <2>3, <2>4
<1>5. ModifierOf["ctrl"] = "ctrl" /\ ModifierOf["shift"] = "shift" /\ ModifierOf["cmd"] = "logo"
  BY ModifiersAre
<1>6. \A a, b \in DOMAIN ModifierOf :
        /\ {ModifierOf[m] : m \in {a, b}} = {ModifierOf[a], ModifierOf[b]}
        /\ {ModifierOf[m] : m \in {a}} = {ModifierOf[a]}
  OBVIOUS
<1>7. ASSUME NEW a \in DOMAIN ModifierOf, NEW b \in DOMAIN ModifierOf, a \in Tokens, b \in Tokens
      PROVE  /\ ParseChord(<<a, b, key>>) = {[mods |-> {ModifierOf[a], ModifierOf[b]}, key |-> key]}
             /\ <<a, b, key>> # <<>>
             /\ ParseChord(<<a, key>>) = {[mods |-> {ModifierOf[a]}, key |-> key]}
             /\ <<a, key>> # <<>>
  <2>1. /\ Range(<<a, b>>) \subseteq DOMAIN ModifierOf /\ Range(<<a>>) \subseteq DOMAIN ModifierOf
        /\ Range(<<a, b>>) # {} /\ Range(<<a>>) # {}
    BY <1>4, <1>7
  <2>2. /\ {ModifierOf[a], ModifierOf[b]} = {ModifierOf[m] : m \in Range(<<a, b>>)}
        /\ {ModifierOf[a]} = {ModifierOf[m] : m \in Range(<<a>>)}
    BY <1>4, <1>6, <1>7
  <2>3. /\ <<a, b>> \in Texts /\ <<a>> \in Texts
        /\ <<a, b, key>> = <<a, b>> \o <<key>> /\ <<a, key>> = <<a>> \o <<key>>
    BY <1>4, <1>7
  <2>4. /\ ParseChord(<<a, b, key>>) = {[mods |-> {ModifierOf[a], ModifierOf[b]}, key |-> key]}
        /\ <<a, b, key>> # <<>>
    BY <1>3, <2>1, <2>2, <2>3
  <2>5. ParseChord(<<a, key>>) = {[mods |-> {ModifierOf[a]}, key |-> key]} /\ <<a, key>> # <<>>
    BY <1>3, <2>1, <2>2, <2>3
  <2> QED
    BY <2>4, <2>5
<1>8. CASE kind = "cs"
  <2>1. TextOf(kind, key) = <<"ctrl", "shift", key>> /\ ModsOf(kind) = {"ctrl", "shift"}
    BY <1>8, TextsAre, ModsAre DEF CS
  <2>2. ParseChord(<<"ctrl", "shift", key>>) = {[mods |-> {"ctrl", "shift"}, key |-> key]} /\ <<"ctrl", "shift", key>> # <<>>
    BY <1>2, <1>5, <1>7
  <2> QED
    BY <2>1, <2>2 DEF ChordFrom
<1>9. CASE kind = "c"
  BY <1>2, <1>5, <1>7, <1>9, TextsAre, ModsAre, ZenonT(40) DEF ChordFrom
<1>10. CASE kind = "s"
  <2>1. TextOf(kind, key) = <<"shift", key>> /\ ModsOf(kind) = {"shift"}
    BY <1>10, TextsAre, ModsAre
  <2>2. ParseChord(<<"shift", key>>) = {[mods |-> {"shift"}, key |-> key]} /\ <<"shift", key>> # <<>>
    BY <1>2, <1>5, <1>7
  <2> QED
    BY <2>1, <2>2 DEF ChordFrom
<1>11. CASE kind = "l"
  BY <1>2, <1>5, <1>7, <1>11, TextsAre, ModsAre, ZenonT(40) DEF ChordFrom, Cmd
<1>12. CASE kind = "ls"
  <2>1. TextOf(kind, key) = <<"cmd", "shift", key>> /\ ModsOf(kind) = {"logo", "shift"}
    BY <1>12, TextsAre, ModsAre DEF CmdS
  <2>2. ParseChord(<<"cmd", "shift", key>>) = {[mods |-> {"logo", "shift"}, key |-> key]} /\ <<"cmd", "shift", key>> # <<>>
    BY <1>2, <1>5, <1>7
  <2> QED
    BY <2>1, <2>2 DEF ChordFrom
<1> QED
  BY <1>8, <1>9, <1>10, <1>11, <1>12 DEF Kinds

LEMMA ChordsDiffer ==
  ASSUME NEW k \in Kinds, NEW l \in Kinds, NEW a, NEW b, ChordFrom(k, a) = ChordFrom(l, b)
  PROVE  k = l /\ a = b
<1>1. ModsOf(k) = ModsOf(l) /\ a = b
  <2>1. /\ ChordFrom(k, a).mods = ModsOf(k) /\ ChordFrom(k, a).key = a
        /\ ChordFrom(l, b).mods = ModsOf(l) /\ ChordFrom(l, b).key = b
    BY DEF ChordFrom
  <2> QED
    BY <2>1
<1>2. \A m \in Kinds : /\ "logo" \in ModsOf(m) <=> m \in {"l", "ls"}
                       /\ "shift" \in ModsOf(m) <=> m \in {"cs", "s", "ls"}
                       /\ "ctrl" \in ModsOf(m) <=> m \in {"c", "cs"}
  BY ModsAre, SMTT(30) DEF Kinds
<1>3. k \in {"cs", "c", "s", "l", "ls"} /\ l \in {"cs", "c", "s", "l", "ls"}
  BY DEF Kinds
<1>4. k = l
  BY <1>1, <1>2, <1>3, SMTT(30)
<1> QED
  BY <1>1, <1>4

(* The default shortcuts of a platform may all be bound, and do not meet.  *)
LEMMA DefaultsSeparate ==
  ASSUME NEW mac \in BOOLEAN
  PROVE  LET chosen == DefaultChosen(mac)
         IN  /\ Separate(chosen)
             /\ \A id \in ActionIds :
                  /\ chosen[OwnSlot(id)] = Unbound \/ ParsedOf(chosen, id) # {}
                  /\ \A chord \in ParsedOf(chosen, id) : chord.key # "+"
<1> DEFINE chosen == DefaultChosen(mac)
           P(n) == ParsedOf(chosen, Registry[n].id)
<1>1. \A n \in 1..25 : /\ P(n) = ParseChord(TextOf(KindAt(n, mac), KeyAt(n, mac)))
                       /\ chosen[OwnSlot(Registry[n].id)] = TextOf(KindAt(n, mac), KeyAt(n, mac))
  BY DefaultChosenAre, DefaultsTable, InfoIs, ActionIdsAre DEF ParsedOf
<1> HIDE DEF chosen, P
<1>2. ASSUME NEW n \in 1..25, KindAt(n, mac) = "none"
      PROVE  P(n) = {} /\ chosen[OwnSlot(Registry[n].id)] = Unbound
  BY <1>1, <1>2, TextsAre DEF ParseChord, Unbound
<1>3. ASSUME NEW n \in 1..25, KindAt(n, mac) # "none"
      PROVE  /\ P(n) = {ChordFrom(KindAt(n, mac), KeyAt(n, mac))}
             /\ KindAt(n, mac) \in Kinds /\ KeyAt(n, mac) \in (Characters \cup NAMED_KEYS) \ {"+"}
             /\ KindAt(n, mac) = "s" => n \in {13, 14}
  BY <1>1, <1>3, DefaultsTable, ParsedTexts
<1>4. ASSUME NEW n \in 1..25, NEW chord \in P(n)
      PROVE  Bindable(Registry[n].context, chord) /\ chord.key # "+"
  <2>1. KindAt(n, mac) # "none"
    BY <1>2, <1>4
  <2>2. /\ chord = ChordFrom(KindAt(n, mac), KeyAt(n, mac)) /\ KindAt(n, mac) \in Kinds
        /\ KeyAt(n, mac) # "+" /\ (KindAt(n, mac) = "s" => n \in {13, 14})
    BY <1>3, <1>4, <2>1
  <2>3. chord.mods = ModsOf(KindAt(n, mac)) /\ chord.key = KeyAt(n, mac)
    BY <2>2 DEF ChordFrom
  <2>4. CASE KindAt(n, mac) # "s"
    <3>1. "ctrl" \in chord.mods \/ "logo" \in chord.mods
      BY <2>2, <2>3, <2>4, ModsAre DEF Kinds
    <3> QED
      BY <2>2, <2>3, <3>1 DEF Bindable, BlocksTyping, HasModifier
  <2>5. CASE KindAt(n, mac) = "s"
    <3>1. n = 13 \/ n = 14
      BY <2>2, <2>5
    <3>2. Registry[n].context = "terminal"
      BY <3>1, RegistryNames
    <3>3. KeyAt(n, mac) \in {"pageup", "pagedown"}
      <4>1. /\ PlainKeys[13] = "pageup" /\ PlainKeys[14] = "pagedown"
            /\ MacKeys[13] = "pageup" /\ MacKeys[14] = "pagedown"
        BY PlainKeysAre, MacKeysAre
      <4> QED
        BY <3>1, <4>1 DEF KeyAt
    <3>4. "pageup" \notin Characters \cup TYPING_KEYS /\ "pagedown" \notin Characters \cup TYPING_KEYS
      BY Zenon DEF Characters, TYPING_KEYS
    <3> QED
      BY <2>2, <2>3, <3>2, <3>3, <3>4 DEF Bindable, BlocksTyping
  <2> QED
    BY <2>4, <2>5
<1>5. ASSUME NEW i \in 1..25, NEW j \in 1..25, NEW chord \in P(i), chord \in P(j) PROVE i = j
  <2>1. KindAt(i, mac) # "none" /\ KindAt(j, mac) # "none"
    BY <1>2, <1>5
  <2>2. /\ KindAt(i, mac) \in Kinds /\ KindAt(j, mac) \in Kinds
        /\ ChordFrom(KindAt(i, mac), KeyAt(i, mac)) = ChordFrom(KindAt(j, mac), KeyAt(j, mac))
    BY <1>3, <1>5, <2>1
  <2>3. KindAt(i, mac) = KindAt(j, mac) /\ KeyAt(i, mac) = KeyAt(j, mac)
    BY <2>2, ChordsDiffer
  <2> QED
    BY <2>1, <2>3, DefaultsTable
<1>6. \A id \in ActionIds : \E n \in 1..25 : id = Registry[n].id
  BY ActionIdsAre
<1>7. \A id \in ActionIds : \A chord \in ParsedOf(chosen, id) :
        Bindable(InfoOf(id).context, chord) /\ chord.key # "+"
  BY <1>4, <1>6, InfoIs DEF P
<1>8. \A i, j \in ActionIds : \A chord \in ParsedOf(chosen, i) : chord \in ParsedOf(chosen, j) => i = j
  <2> TAKE i, j \in ActionIds
  <2> TAKE chord \in ParsedOf(chosen, i)
  <2> HAVE chord \in ParsedOf(chosen, j)
  <2>1. PICK m \in 1..25 : i = Registry[m].id
    BY <1>6
  <2>2. PICK n \in 1..25 : j = Registry[n].id
    BY <1>6
  <2> QED
    BY <1>5, <2>1, <2>2 DEF P
<1>9. \A id \in ActionIds : chosen[OwnSlot(id)] = Unbound \/ ParsedOf(chosen, id) # {}
  <2> TAKE id \in ActionIds
  <2>1. PICK n \in 1..25 : id = Registry[n].id
    BY <1>6
  <2>2. CASE KindAt(n, mac) = "none"
    BY <1>2, <2>1, <2>2
  <2>3. CASE KindAt(n, mac) # "none"
    BY <1>3, <2>1, <2>3 DEF P
  <2> QED
    BY <2>2, <2>3
<1> QED
  BY <1>7, <1>8, <1>9 DEF Separate, chosen

(***************************************************************************)
(* The dialog reopens what it wrote                                        *)
(***************************************************************************)
LEMMA BuildDefaults ==
  ASSUME NEW mac \in BOOLEAN
  PROVE  LET keymap == Build(<<>>, mac)
         IN  /\ Chosen(<<>>, mac) = DefaultChosen(mac) /\ keymap.refused = {}
             /\ \A id \in ActionIds : ShortcutFor(keymap, id) = ParsedOf(DefaultChosen(mac), id)
<1> DEFINE keymap == Build(<<>>, mac)
           chosen == DefaultChosen(mac)
<1>1. Chosen(<<>>, mac) = chosen
  <2>1. <<>> \in Seq({}) /\ Len(<<>>) = 0
    OBVIOUS
  <2>2. \E f : ChosenBy(f, <<>>, mac)
    BY <2>1, ChosenRun
  <2> QED
    BY <2>1, <2>2 DEF ChosenBy
<1>2. keymap = BindChosen(chosen, {})
  <2>1. {o.action : o \in {p \in Range(<<>>) : ~Applicable(p)}} = {}
    BY DEF Range
  <2> QED
    BY <1>1, <2>1 DEF Build
<1>3. DOMAIN chosen = OwnSlots /\ Separate(chosen)
  BY DefaultChosenAre, DefaultsSeparate
<1>4. \A id \in ActionIds : chosen[OwnSlot(id)] = Unbound \/ ParsedOf(chosen, id) # {}
  BY DefaultsSeparate
<1> HIDE DEF keymap, chosen
<1>5. \A id \in ActionIds : ShortcutFor(keymap, id) = ParsedOf(chosen, id)
  BY <1>2, <1>3, SeparateKeymap
<1>6. keymap.refused = {}
  <2>1. ASSUME NEW id \in keymap.refused PROVE FALSE
    <3>1. id \in ActionIds /\ chosen[OwnSlot(id)] # Unbound /\ ShortcutFor(keymap, id) = {}
      BY <1>2, <1>3, OwnKeymap
    <3> QED
      BY <1>4, <1>5, <3>1
  <2> QED
    BY <2>1
<1> QED
  BY <1>1, <1>5, <1>6 DEF keymap, chosen

LEMMA ShortcutChords ==
  ASSUME NEW chosen, NEW unknown, NEW id
  PROVE  ShortcutFor(BindChosen(chosen, unknown), id) \subseteq Chords
<1> DEFINE keymap == BindChosen(chosen, unknown)
<1>1. \A w \in Wanted(chosen) : w.chord \in Chords
  BY WantedAre, ParsedChords
<1>2. \A b \in keymap.bindings : \E w \in Wanted(chosen) : b.chord = w.chord
  BY DEF BindChosen, BindAll, First
<1> HIDE DEF keymap
<1>3. \A chord \in ShortcutFor(keymap, id) : \E b \in keymap.bindings : chord = b.chord
  BY DEF ShortcutFor
<1> QED
  BY <1>1, <1>2, <1>3 DEF keymap

(* The text that the dialog shows for the shortcut of an action.           *)
LEMMA EditIs ==
  ASSUME NEW shown, shown \subseteq Chords, \A c, d \in shown : c = d, NEW mac
  PROVE  LET keys == EditOf(shown, mac)
         IN  /\ ParseChord(keys) = shown /\ keys # <<"none">> /\ (keys = <<>> <=> shown = {})
             /\ (\A c \in shown : c.key # "+") /\ shown # {} => KeysValid(keys)
<1>1. CASE shown = {}
  <2>1. EditOf(shown, mac) = <<>> /\ <<>> # <<"none">>
    BY <1>1 DEF EditOf
  <2> QED
    BY <1>1, <2>1 DEF ParseChord
<1>2. CASE shown # {}
  <2>1. PICK chord \in shown : TRUE
    BY <1>2
  <2>2. shown = {chord} /\ chord \in Chords
    BY <2>1
  <2>3. EditOf(shown, mac) = Display(chord, mac)
    BY <2>2 DEF EditOf
  <2>4. /\ ParseChord(Display(chord, mac)) = {chord} /\ Display(chord, mac) # <<>>
        /\ Display(chord, mac) # <<"none">>
        /\ chord.key # "+" => KeysValid(Display(chord, mac))
    BY <2>2, ShownIsRead
  <2> QED
    BY <2>2, <2>3, <2>4
<1> QED
  BY <1>1, <1>2

TextsAllowed(overrides) == \A o \in Range(overrides) : KeysValid(o.keys) /\ ListOf(o.keys)

(* A shortcut whose key is + is refused before it gets here.               *)
LEMMA NoPlus ==
  ASSUME NEW T, NEW overrides \in Seq(T), TextsAllowed(overrides), NEW mac \in BOOLEAN,
         \A o \in Range(overrides) : InOwnContext(o), NEW id \in ActionIds
  PROVE  \A chord \in ParsedOf(Chosen(overrides, mac), id) : chord.key # "+"
<1> DEFINE keys == Chosen(overrides, mac)[OwnSlot(id)]
<1>1. \/ \E o \in Range(overrides) : o.action = id /\ keys = KeysOf(o)
      \/ keys = DefaultKeys(InfoOf(id), mac)
  BY OwnValues
<1>2. ParsedOf(Chosen(overrides, mac), id) = ParseChord(keys)
  BY DEF ParsedOf
<1> HIDE DEF keys
<1>3. ASSUME NEW o \in Range(overrides), keys = KeysOf(o), NEW chord \in ParseChord(keys)
      PROVE  chord.key # "+"
  <2>1. keys # <<>>
    BY <1>3, ParsedChords
  <2>2. keys = o.keys
    BY <1>3, <2>1 DEF KeysOf, Unbound
  <2>3. KeysValid(keys) /\ keys \in Seq(Range(keys))
    BY <2>2 DEF TextsAllowed, ListOf
  <2> QED
    BY <1>3, <2>3, ParsedChords
<1>4. ASSUME keys = DefaultKeys(InfoOf(id), mac), NEW chord \in ParseChord(keys)
      PROVE  chord.key # "+"
  <2>1. keys = DefaultChosen(mac)[OwnSlot(id)]
    BY <1>4, DefaultChosenAre
  <2>2. chord \in ParsedOf(DefaultChosen(mac), id)
    BY <1>4, <2>1 DEF ParsedOf
  <2> QED
    BY <2>2, DefaultsSeparate
<1> QED
  BY <1>1, <1>2, <1>3, <1>4

WrittenAgain(overrides, mac) ==
  KeybindingOverrides(Edits(Build(overrides, mac), mac), Build(<<>>, mac))

LEMMA EditsAre ==
  ASSUME NEW keymap, NEW mac, NEW id \in ActionIds
  PROVE  Edits(keymap, mac)[id] = EditOf(ShortcutFor(keymap, id), mac)
  BY DEF Edits

LEMMA DefaultsReopen ==
  ASSUME NEW mac \in BOOLEAN
  PROVE  WrittenAgain(<<>>, mac) = <<>>
<1> DEFINE keymap == Build(<<>>, mac)
           edits == Edits(keymap, mac)
           again == KeybindingOverrides(edits, keymap)
<1>1. ASSUME NEW n \in 1..25 PROVE SameAs(edits, keymap, n)
  <2> DEFINE id == Registry[n].id
             shown == ShortcutFor(keymap, id)
  <2>1. id \in ActionIds
    BY ActionIdsAre
  <2>2. shown = ParsedOf(DefaultChosen(mac), id)
    BY <2>1, BuildDefaults
  <2>3. shown \subseteq Chords /\ \A c, d \in shown : c = d
    BY <2>2, ParsedChords, OneChord DEF ParsedOf
  <2>4. edits[id] = EditOf(shown, mac)
    BY <2>1, EditsAre
  <2> HIDE DEF shown, edits, keymap
  <2>5. ParseChord(edits[id]) = shown
    BY <2>3, <2>4, EditIs
  <2> QED
    BY <2>5 DEF SameAs, Unchanged, shown
<1> HIDE DEF keymap, edits
<1>2. again \in Seq(Range(again)) /\ \A x \in Range(again) : FALSE
  BY <1>1, DialogWrites
<1> HIDE DEF again
<1>3. again = <<>>
  <2>1. Len(again) = 0 \/ 1 \in DOMAIN again
    BY <1>2
  <2>2. 1 \notin DOMAIN again
    BY <1>2 DEF Range
  <2> QED
    BY <1>2, <2>1, <2>2
<1> QED
  BY <1>3 DEF again, edits, keymap, WrittenAgain

(* What the dialog writes for an action.                                   *)
LEMMA AgainOwn ==
  ASSUME NEW edits, NEW defaults, NEW x \in Range(KeybindingOverrides(edits, defaults))
  PROVE  /\ InOwnContext(x) /\ x.action \in ActionIds
         /\ x.keys = IF edits[x.action] = <<>> THEN EmptyKeys ELSE edits[x.action]
<1>1. PICK n \in 1..25 : x = EntryOf(edits, n)
  BY DialogWrites
<1>2. /\ x.action = Registry[n].id /\ x.context = Registry[n].context
      /\ x.keys = IF edits[Registry[n].id] = <<>> THEN EmptyKeys ELSE edits[Registry[n].id]
  BY <1>1 DEF EntryOf, Written
<1>3. InfoOf(Registry[n].id).context = Registry[n].context
  BY InfoIs
<1>4. Registry[n].id \in ActionIds /\ Registry[n].context \in Range(Contexts)
  BY ActionIdsAre, RegistryIds
<1> QED
  BY <1>2, <1>3, <1>4 DEF InOwnContext, Applicable

LEMMA AgainKept ==
  ASSUME NEW edits, NEW defaults, NEW id \in ActionIds,
         \A x \in Range(KeybindingOverrides(edits, defaults)) : x.action # id
  PROVE  Unchanged(edits[id], ShortcutFor(defaults, id))
<1>1. PICK n \in 1..25 : id = Registry[n].id
  BY ActionIdsAre
<1>2. EntryOf(edits, n).action = id
  BY <1>1 DEF EntryOf, Written
<1>3. SameAs(edits, defaults, n)
  BY <1>2, DialogWrites
<1> QED
  BY <1>1, <1>3 DEF SameAs

(* What Apply writes for the shortcuts that are shown binds them again.    *)
LEMMA ReopensSame ==
  ASSUME NEW T, NEW overrides \in Seq(T), TextsAllowed(overrides), NEW mac \in BOOLEAN,
         \A o \in Range(overrides) : InOwnContext(o)
  PROVE  LET again == WrittenAgain(overrides, mac)
         IN  /\ KeyErrors(again, mac) = {}
             /\ Build(again, mac).bindings = Build(overrides, mac).bindings
<1> DEFINE keymap == Build(overrides, mac)
           defaults == Build(<<>>, mac)
           chosen == Chosen(overrides, mac)
           edits == Edits(keymap, mac)
           again == KeybindingOverrides(edits, defaults)
           rechosen == Chosen(again, mac)
           rebuilt == Build(again, mac)
           Shown(id) == ShortcutFor(keymap, id)
<1>1. DOMAIN chosen = OwnSlots
  BY OwnChosen
<1>2. keymap = BindChosen(chosen, {o.action : o \in {p \in Range(overrides) : ~Applicable(p)}})
  BY DEF Build
<1>3. /\ \A id \in ActionIds : \A chord \in Shown(id) :
           /\ BindingOf(id, chord) \in keymap.bindings
           /\ chord \in ParsedOf(chosen, id) /\ Bindable(InfoOf(id).context, chord)
      /\ \A i, j \in ActionIds : \A chord \in Shown(i) : chord \in Shown(j) => i = j
      /\ \A b \in keymap.bindings :
           b.action \in ActionIds /\ b.chord \in Shown(b.action) /\ b = BindingOf(b.action, b.chord)
  <2> HIDE DEF keymap, chosen
  <2> QED
    BY <1>1, <1>2, OwnKeymap
<1>4. ASSUME NEW id \in ActionIds
      PROVE  /\ ParseChord(edits[id]) = Shown(id) /\ edits[id] # <<"none">>
             /\ edits[id] = <<>> <=> Shown(id) = {}
             /\ Shown(id) # {} => KeysValid(edits[id])
  <2>1. edits[id] = EditOf(Shown(id), mac)
    BY EditsAre
  <2>2. Shown(id) \subseteq Chords
    BY <1>2, ShortcutChords
  <2>3. \A c, d \in Shown(id) : c = d
    BY <1>3, OneChord DEF ParsedOf
  <2>4. \A c \in Shown(id) : c.key # "+"
    BY <1>3, NoPlus
  <2> HIDE DEF edits, Shown
  <2> QED
    BY <2>1, <2>2, <2>3, <2>4, EditIs
<1>5. again \in Seq(Range(again)) /\ Distinct(again)
  BY DialogWrites
<1>6. \A x \in Range(again) :
        /\ InOwnContext(x) /\ x.action \in ActionIds
        /\ x.keys = IF edits[x.action] = <<>> THEN EmptyKeys ELSE edits[x.action]
  <2> HIDE DEF edits, defaults
  <2> QED
    BY AgainOwn
<1>7. \A id \in ActionIds : (\A x \in Range(again) : x.action # id) =>
        Unchanged(edits[id], ShortcutFor(defaults, id))
  <2> HIDE DEF edits, defaults
  <2> QED
    BY AgainKept
<1>8. \A id \in ActionIds : ShortcutFor(defaults, id) = ParsedOf(DefaultChosen(mac), id)
  BY BuildDefaults
<1> HIDE DEF again, edits, defaults, Shown, keymap
<1>9. DOMAIN rechosen = OwnSlots
  BY <1>5, <1>6, OwnChosen
<1>10. \A id \in ActionIds :
         \/ \E x \in Range(again) : x.action = id /\ rechosen[OwnSlot(id)] = KeysOf(x)
         \/ /\ \A x \in Range(again) : x.action # id
            /\ rechosen[OwnSlot(id)] = DefaultKeys(InfoOf(id), mac)
  BY <1>5, <1>6, OwnValues
<1> HIDE DEF rechosen
<1>11. ASSUME NEW id \in ActionIds
       PROVE  /\ ParsedOf(rechosen, id) = Shown(id)
              /\ rechosen[OwnSlot(id)] = Unbound \/ Shown(id) # {}
  <2>1. CASE \E x \in Range(again) : x.action = id /\ rechosen[OwnSlot(id)] = KeysOf(x)
    <3>1. PICK x \in Range(again) : x.action = id /\ rechosen[OwnSlot(id)] = KeysOf(x)
      BY <2>1
    <3>2. x.keys = IF edits[id] = <<>> THEN EmptyKeys ELSE edits[id]
      BY <1>6, <3>1
    <3>3. KeysOf(x) = edits[id]
      BY <1>4, <3>2 DEF KeysOf, EmptyKeys, Unbound
    <3> QED
      BY <1>4, <3>1, <3>3 DEF ParsedOf, Unbound
  <2>2. CASE /\ \A x \in Range(again) : x.action # id
             /\ rechosen[OwnSlot(id)] = DefaultKeys(InfoOf(id), mac)
    <3>1. Unchanged(edits[id], ParsedOf(DefaultChosen(mac), id))
      BY <1>7, <1>8, <2>2
    <3>2. Shown(id) = ParsedOf(DefaultChosen(mac), id)
      BY <1>4, <3>1 DEF Unchanged
    <3>3. rechosen[OwnSlot(id)] = DefaultChosen(mac)[OwnSlot(id)]
      BY <2>2, DefaultChosenAre
    <3>4. DefaultChosen(mac)[OwnSlot(id)] = Unbound \/ ParsedOf(DefaultChosen(mac), id) # {}
      BY DefaultsSeparate
    <3> QED
      BY <3>2, <3>3, <3>4 DEF ParsedOf
  <2> QED
    BY <1>10, <2>1, <2>2
<1>12. Separate(rechosen)
  BY <1>3, <1>11 DEF Separate
<1>13. {o.action : o \in {p \in Range(again) : ~Applicable(p)}} = {}
  BY <1>6 DEF InOwnContext
<1>14. rebuilt = BindChosen(rechosen, {})
  BY <1>13 DEF Build, rechosen
<1> HIDE DEF rebuilt
<1>15. \A id \in ActionIds : ShortcutFor(rebuilt, id) = Shown(id)
  <2>1. \A id \in ActionIds : ShortcutFor(rebuilt, id) = ParsedOf(rechosen, id)
    BY <1>9, <1>12, <1>14, SeparateKeymap
  <2> QED
    BY <1>11, <2>1
<1>16. /\ \A id \in ActionIds : \A chord \in ShortcutFor(rebuilt, id) :
            BindingOf(id, chord) \in rebuilt.bindings
       /\ \A b \in rebuilt.bindings :
            /\ b.action \in ActionIds /\ b.chord \in ShortcutFor(rebuilt, b.action)
            /\ b = BindingOf(b.action, b.chord)
       /\ \A id \in rebuilt.refused : /\ id \in ActionIds /\ rechosen[OwnSlot(id)] # Unbound
                                      /\ ShortcutFor(rebuilt, id) = {}
  BY <1>9, <1>14, OwnKeymap
<1>17. \A b \in rebuilt.bindings : b \in keymap.bindings
  <2> TAKE b \in rebuilt.bindings
  <2>1. b.action \in ActionIds /\ b.chord \in Shown(b.action) /\ b = BindingOf(b.action, b.chord)
    BY <1>15, <1>16
  <2>2. BindingOf(b.action, b.chord) \in keymap.bindings
    BY <1>3, <2>1
  <2> QED
    BY <2>1, <2>2
<1>18. \A b \in keymap.bindings : b \in rebuilt.bindings
  <2> TAKE b \in keymap.bindings
  <2>1. b.action \in ActionIds /\ b.chord \in Shown(b.action) /\ b = BindingOf(b.action, b.chord)
    BY <1>3
  <2>2. BindingOf(b.action, b.chord) \in rebuilt.bindings
    BY <1>15, <1>16, <2>1
  <2> QED
    BY <2>1, <2>2
<1>19. rebuilt.refused = {}
  <2>1. ASSUME NEW id \in rebuilt.refused PROVE FALSE
    BY <1>11, <1>15, <1>16, <2>1
  <2> QED
    BY <2>1
<1>20. \A x \in Range(again) : KeysValid(x.keys)
  <2> TAKE x \in Range(again)
  <2>1. x.action \in ActionIds /\ x.keys = IF edits[x.action] = <<>> THEN EmptyKeys ELSE edits[x.action]
    BY <1>6
  <2>2. CASE edits[x.action] = <<>>
    <3>1. EmptyKeys # <<>> /\ Range(EmptyKeys) = {"none"}
      BY DEF EmptyKeys, Range
    <3> QED
      BY <2>1, <2>2, <3>1 DEF KeysValid
  <2>3. CASE edits[x.action] # <<>>
    BY <1>4, <2>1, <2>3
  <2> QED
    BY <2>2, <2>3
<1>21. KeyErrors(again, mac) = {}
  BY <1>19, <1>20 DEF KeyErrors, rebuilt
<1>22. rebuilt.bindings = keymap.bindings
  BY <1>17, <1>18
<1> QED
  BY <1>21, <1>22 DEF WrittenAgain, again, edits, keymap, defaults, rebuilt

(* Settings::open, keybinding_overrides, candidate: whatever the overrides *)
(* say, a shortcut that the dialog shows reads back as the same chord; the *)
(* defaults of a platform are all bound and are not written; and the       *)
(* overrides it writes for shortcuts in their own contexts have no errors  *)
(* and bind the same keys.                                                 *)
THEOREM KeysReopen ==
  ASSUME NEW T, NEW overrides \in Seq(T), TextsAllowed(overrides), NEW mac \in BOOLEAN
  PROVE  LET keymap == Build(overrides, mac)
             again == WrittenAgain(overrides, mac)
         IN  /\ \A id : \A chord \in ShortcutFor(keymap, id) :
                  ParseChord(Display(chord, mac)) = {chord}
             /\ overrides = <<>> => keymap.refused = {} /\ again = <<>>
             /\ (\A o \in Range(overrides) : InOwnContext(o)) =>
                  KeyErrors(again, mac) = {} /\ Build(again, mac).bindings = keymap.bindings
<1> DEFINE keymap == Build(overrides, mac)
           again == WrittenAgain(overrides, mac)
<1>1. \A id : \A chord \in ShortcutFor(keymap, id) : ParseChord(Display(chord, mac)) = {chord}
  <2>1. \A id : ShortcutFor(keymap, id) \subseteq Chords
    BY ShortcutChords DEF Build
  <2> HIDE DEF keymap
  <2> QED
    BY <2>1, ShownIsRead
<1>2. overrides = <<>> => keymap.refused = {} /\ again = <<>>
  BY BuildDefaults, DefaultsReopen
<1>3. (\A o \in Range(overrides) : InOwnContext(o)) =>
        KeyErrors(again, mac) = {} /\ Build(again, mac).bindings = keymap.bindings
  BY ReopensSame
<1> QED
  BY <1>1, <1>2, <1>3

(***************************************************************************)
(* One field of the dialog                                                 *)
(***************************************************************************)
OnlyField(f, v) == [x \in {f} |-> v]
OneField(f, v) == [fields |-> OnlyField(f, v), profiles |-> NoProfiles, keys |-> <<>>]

LEMMA NoProfilesAre ==
  /\ DOMAIN NoProfiles = {} /\ MergeProfiles(NoProfiles, NoProfiles) = NoProfiles
  /\ DiffProfiles(NoProfiles, NoProfiles) = NoProfiles
<1>1. DOMAIN NoProfiles = {} /\ NoProfiles = [id \in {} |-> 0]
  BY DEF NoProfiles, NoFields
<1>2. \A F : F = [id \in DOMAIN F |-> F[id]] /\ DOMAIN F = {} => F = NoProfiles
  BY <1>1
<1>3. /\ DOMAIN MergeProfiles(NoProfiles, NoProfiles) = {}
      /\ MergeProfiles(NoProfiles, NoProfiles) =
           [id \in DOMAIN MergeProfiles(NoProfiles, NoProfiles) |->
              MergeProfiles(NoProfiles, NoProfiles)[id]]
  BY <1>1 DEF MergeProfiles
<1>4. /\ DOMAIN DiffProfiles(NoProfiles, NoProfiles) = {}
      /\ DiffProfiles(NoProfiles, NoProfiles) =
           [id \in DOMAIN DiffProfiles(NoProfiles, NoProfiles) |->
              DiffProfiles(NoProfiles, NoProfiles)[id]]
  BY <1>1 DEF DiffProfiles
<1> QED
  BY <1>1, <1>2, <1>3, <1>4

LEMMA NoKeys == MergeKeybindings(<<>>, <<>>) = <<>>
<1>1. ListOf(<<>>) /\ Distinct(<<>>)
  BY DEF ListOf, Distinct, Range
<1> QED
  BY <1>1, MergeNothing

(* A layer that says only this field, or nothing, laid over another.       *)
LEMMA MergeOne ==
  ASSUME NEW f, NEW a, NEW v, NEW layer, layer.profiles = NoProfiles, layer.keys = <<>>,
         layer.fields = OnlyField(f, v) \/ (DOMAIN layer.fields = {} /\ v = a)
  PROVE  MergeTables(OneField(f, a), layer) = OneField(f, v)
<1> DEFINE merged == Over(layer.fields, OnlyField(f, a))
<1>1. merged = OnlyField(f, v)
  <2>1. DOMAIN merged = {f} /\ merged = [x \in DOMAIN merged |-> merged[x]]
    BY DEF Over, OnlyField
  <2>2. merged[f] = v
    BY DEF Over, OnlyField
  <2> HIDE DEF merged
  <2> QED
    BY <2>1, <2>2 DEF OnlyField
<1>2. OneField(f, a).fields = OnlyField(f, a) /\ OneField(f, a).profiles = NoProfiles /\ OneField(f, a).keys = <<>>
  BY DEF OneField
<1>3. MergeTables(OneField(f, a), layer) = [fields |-> merged, profiles |-> NoProfiles, keys |-> <<>>]
  BY <1>2, NoKeys, NoProfilesAre DEF MergeTables
<1> QED
  BY <1>1, <1>3 DEF OneField

LEMMA OneValid == \A f, v : ValidField(f, v) => Valid(OneField(f, v))
<1> TAKE f, v
<1> HAVE ValidField(f, v)
<1>1. /\ OneField(f, v).fields = OnlyField(f, v) /\ OneField(f, v).profiles = NoProfiles
      /\ OneField(f, v).keys = <<>>
  BY DEF OneField
<1>2. DOMAIN OnlyField(f, v) = {f} /\ OnlyField(f, v)[f] = v /\ DOMAIN <<>> = {}
  BY DEF OnlyField
<1> QED
  BY <1>1, <1>2, NoProfilesAre DEF Valid

LEMMA OneLayered ==
  ASSUME NEW f, NEW a, NEW v, NEW layer, layer.profiles = NoProfiles, layer.keys = <<>>,
         layer.fields = OnlyField(f, v) \/ (DOMAIN layer.fields = {} /\ v = a),
         LoadLayer(layer), ValidField(f, v)
  PROVE  Layered(OneField(f, a), layer) = OneField(f, v)
BY MergeOne, OneValid DEF Layered

LEMMA WholeSays ==
  \A fields : /\ Whole(fields, NoProfiles, <<>>).is = "whole"
              /\ Whole(fields, NoProfiles, <<>>).version = SCHEMA_VERSION
              /\ Whole(fields, NoProfiles, <<>>).fields = fields
              /\ Whole(fields, NoProfiles, <<>>).profiles = NoProfiles /\ Whole(fields, NoProfiles, <<>>).keys = <<>>
  BY DEF Whole

LEMMA WholeLoads ==
  ASSUME NEW fields, FieldsValid(fields)
  PROVE  LoadLayer(Whole(fields, NoProfiles, <<>>))
<1>1. DOMAIN <<>> = {}
  OBVIOUS
<1> QED
  BY <1>1, WholeSays, NoProfilesAre DEF LoadLayer, Valid, FieldsValid

(* What config.toml says of the field: nothing that can be read, or this.  *)
SaysOf(file, f) == ~LoadLayer(file) \/ \E b : file = Whole(OnlyField(f, b), NoProfiles, <<>>)

LEMMA BaseIsOne ==
  ASSUME NEW f, NEW d, NEW file, ValidField(f, d), SaysOf(file, f)
  PROVE  \E a : Layered(OneField(f, d), file) = OneField(f, a)
<1>1. CASE ~LoadLayer(file)
  BY <1>1 DEF Layered
<1>2. CASE LoadLayer(file)
  <2>1. PICK b : file = Whole(OnlyField(f, b), NoProfiles, <<>>)
    BY <1>2 DEF SaysOf
  <2>2. file.fields = OnlyField(f, b) /\ file.profiles = NoProfiles /\ file.keys = <<>>
    BY <2>1, WholeSays
  <2>3. MergeTables(OneField(f, d), file) = OneField(f, b)
    BY <2>2, MergeOne
  <2> QED
    BY <2>3 DEF Layered
<1> QED
  BY <1>1, <1>2

LEMMA OneWritten ==
  ASSUME NEW f, NEW a, NEW s, ValidField(f, s)
  PROVE  Layered(OneField(f, a), OverridesToml(OneField(f, a), OneField(f, s))) = OneField(f, s)
<1> DEFINE fields == DiffTables(OnlyField(f, a), OnlyField(f, s))
           toml == OverridesToml(OneField(f, a), OneField(f, s))
<1>1. \A v : /\ OneField(f, v).fields = OnlyField(f, v) /\ OneField(f, v).profiles = NoProfiles
             /\ OneField(f, v).keys = <<>>
  BY DEF OneField
<1>2. \A v : DOMAIN OnlyField(f, v) = {f} /\ OnlyField(f, v)[f] = v
  BY DEF OnlyField
<1>3. toml = Whole(fields, NoProfiles, <<>>)
  BY <1>1, NoProfilesAre DEF OverridesToml
<1>4. fields = OnlyField(f, s) \/ (DOMAIN fields = {} /\ s = a)
  <2>1. CASE s = a
    BY <1>2, <2>1 DEF DiffTables, Restrict
  <2>2. CASE s # a
    <3>1. {x \in DOMAIN OnlyField(f, s) : x \in DOMAIN OnlyField(f, a) =>
             OnlyField(f, s)[x] # OnlyField(f, a)[x]} = {f}
      BY <1>2, <2>2
    <3>2. fields = [x \in {f} |-> OnlyField(f, s)[x]]
      BY <3>1 DEF DiffTables, Restrict
    <3> QED
      BY <3>2, <1>2 DEF OnlyField
  <2> QED
    BY <2>1, <2>2
<1>5. FieldsValid(fields)
  BY <1>2 DEF FieldsValid, DiffTables, Restrict
<1> HIDE DEF fields, toml
<1>6. LoadLayer(toml)
  BY <1>3, <1>5, WholeLoads
<1>7. toml.fields = fields /\ toml.profiles = NoProfiles /\ toml.keys = <<>>
  BY <1>3, WholeSays
<1>8. Layered(OneField(f, a), toml) = OneField(f, s)
  BY <1>4, <1>6, <1>7, OneLayered
<1> QED
  BY <1>8 DEF toml

(* overrides_toml and load_effective: whatever config.toml says of a       *)
(* field, the valid value that its widget sets is the one read back.       *)
THEOREM FieldReadsBack ==
  ASSUME NEW f, NEW d, NEW s, NEW file, ValidField(f, d), ValidField(f, s), SaysOf(file, f)
  PROVE  LET files0 == [config |-> file, overrides |-> Missing]
             base == LoadEffective(OneField(f, d), files0, TRUE)
             next == [files0 EXCEPT !.overrides = OverridesToml(base, OneField(f, s))]
         IN  LoadEffective(OneField(f, d), next, FALSE) = OneField(f, s)
<1> DEFINE files0 == [config |-> file, overrides |-> Missing]
           base == LoadEffective(OneField(f, d), files0, TRUE)
           toml == OverridesToml(base, OneField(f, s))
           next == [files0 EXCEPT !.overrides = toml]
<1>1. files0.config = file /\ base = Layered(OneField(f, d), file)
  BY DEF LoadEffective
<1>2. PICK a : base = OneField(f, a)
  <2>1. \E a : Layered(OneField(f, d), file) = OneField(f, a)
    BY BaseIsOne
  <2> HIDE DEF base
  <2> QED
    BY <1>1, <2>1
<1>3. Layered(base, toml) = OneField(f, s)
  BY <1>2, OneWritten
<1> HIDE DEF base, toml
<1>4. next.config = file /\ next.overrides = toml
  OBVIOUS
<1>5. LoadEffective(OneField(f, d), next, FALSE) = OneField(f, s)
  BY <1>1, <1>3, <1>4 DEF LoadEffective
<1> QED
  BY <1>5 DEF base, toml

(***************************************************************************)
(* The tables of the dialog                                                *)
(***************************************************************************)
LEMMA DefaultsAre ==
  DOMAIN Defaults =
    (DOMAIN Appearance \cup (DOMAIN TerminalSettings \cup DOMAIN LayoutSettings))
    \cup ((DOMAIN WindowSettings \cup (DOMAIN Panels \cup DOMAIN Effects))
          \cup (DOMAIN SoundSettings \cup (DOMAIN InputSettings \cup DOMAIN KeyboardSettings)))
<1> DEFINE tl == Over(TerminalSettings, LayoutSettings)
           pe == Over(Panels, Effects)
           ik == Over(InputSettings, KeyboardSettings)
           a == Over(Appearance, tl)
           w == Over(WindowSettings, pe)
           s == Over(SoundSettings, ik)
           ws == Over(w, s)
<1>1. Defaults = Over(a, ws)
  BY DEF Defaults
<1>2. /\ DOMAIN tl = DOMAIN TerminalSettings \cup DOMAIN LayoutSettings
      /\ DOMAIN pe = DOMAIN Panels \cup DOMAIN Effects
      /\ DOMAIN ik = DOMAIN InputSettings \cup DOMAIN KeyboardSettings
  BY OverAt
<1> HIDE DEF tl, pe, ik
<1>3. /\ DOMAIN a = DOMAIN Appearance \cup DOMAIN tl
      /\ DOMAIN w = DOMAIN WindowSettings \cup DOMAIN pe
      /\ DOMAIN s = DOMAIN SoundSettings \cup DOMAIN ik
  BY OverAt
<1> HIDE DEF a, w, s
<1>4. DOMAIN ws = DOMAIN w \cup DOMAIN s
  BY OverAt
<1> HIDE DEF ws
<1>5. DOMAIN Defaults = DOMAIN a \cup DOMAIN ws
  BY <1>1, OverAt
<1> QED
  BY <1>2, <1>3, <1>4, <1>5, Zenon

LEMMA SectionsAre ==
  /\ ResetBy["appearance"] = {"theme", "font_family", "font_size", "line_height", "ligatures",
                             "ui_scale", "reduced_motion", "mode", "width", "height"}
  /\ ResetBy["terminal"] = {"scrollback_lines", "scrollback_max_mib", "cursor_shape",
                           "cursor_blink", "confirm_multiline_paste", "copy_on_select"}
  /\ ResetBy["panels"] = {"metrics_enabled", "metrics_interval", "processes_enabled",
                         "processes_count", "files_enabled", "show_hidden", "preview",
                         "network_enabled", "network_interval", "connections", "geoip_database",
                         "globe", "globe_rotate", "public_ip_lookup", "public_ip_endpoint",
                         "effects_preset", "intensity", "max_fps"}
  /\ ResetBy["input_sound"] = {"sound_enabled", "volume", "keypress", "option_as_alt",
                              "touch_scroll", "on_screen", "layout"}
<1>1. /\ ResetBy["appearance"] = DOMAIN Appearance \cup DOMAIN WindowSettings
      /\ ResetBy["terminal"] = DOMAIN TerminalSettings
      /\ ResetBy["panels"] = DOMAIN Panels \cup DOMAIN Effects
      /\ ResetBy["input_sound"] =
           DOMAIN SoundSettings \cup DOMAIN InputSettings \cup DOMAIN KeyboardSettings
  BY SMT DEF ResetBy
<1>2. DOMAIN Panels = DOMAIN LocalPanels \cup DOMAIN NetworkPanel
  BY OverAt DEF Panels
<1>3. /\ DOMAIN Appearance = {"theme", "font_family", "font_size", "line_height", "ligatures",
                             "ui_scale", "reduced_motion"}
      /\ DOMAIN WindowSettings = {"mode", "width", "height"}
      /\ DOMAIN TerminalSettings = {"scrollback_lines", "scrollback_max_mib", "cursor_shape",
                                   "cursor_blink", "confirm_multiline_paste", "copy_on_select"}
  BY SMT DEF Appearance, WindowSettings, TerminalSettings
<1>4. /\ DOMAIN LocalPanels = {"metrics_enabled", "metrics_interval", "processes_enabled",
                              "processes_count", "files_enabled", "show_hidden", "preview"}
      /\ DOMAIN NetworkPanel = {"network_enabled", "network_interval", "connections",
                               "geoip_database", "globe", "globe_rotate", "public_ip_lookup",
                               "public_ip_endpoint"}
      /\ DOMAIN Effects = {"effects_preset", "intensity", "max_fps"}
  BY SMT DEF LocalPanels, NetworkPanel, Effects
<1>5. /\ DOMAIN SoundSettings = {"sound_enabled", "volume", "keypress"}
      /\ DOMAIN InputSettings = {"option_as_alt", "touch_scroll"}
      /\ DOMAIN KeyboardSettings = {"on_screen", "layout"}
  BY SMT DEF SoundSettings, InputSettings, KeyboardSettings
<1>6. ResetBy["appearance"] = {"theme", "font_family", "font_size", "line_height", "ligatures",
                             "ui_scale", "reduced_motion", "mode", "width", "height"}
  BY <1>1, <1>3
<1>7. ResetBy["panels"] = {"metrics_enabled", "metrics_interval", "processes_enabled",
                         "processes_count", "files_enabled", "show_hidden", "preview",
                         "network_enabled", "network_interval", "connections", "geoip_database",
                         "globe", "globe_rotate", "public_ip_lookup", "public_ip_endpoint",
                         "effects_preset", "intensity", "max_fps"}
  BY <1>1, <1>2, <1>4
<1>8. ResetBy["input_sound"] = {"sound_enabled", "volume", "keypress", "option_as_alt",
                              "touch_scroll", "on_screen", "layout"}
  BY <1>1, <1>5
<1> QED
  BY <1>1, <1>3, <1>6, <1>7, <1>8

Categories == {"appearance", "terminal", "panels", "input_sound"}

LEMMA CategoriesAre == DOMAIN Rows = Categories /\ DOMAIN ResetBy = Categories
  BY SMT DEF Rows, ResetBy, Categories

LEMMA RowsReset ==
  \A c \in Categories : DOMAIN Rows[c] \subseteq ResetBy[c]
<1>1. /\ Rows["appearance"] = AppearanceRows /\ Rows["terminal"] = TerminalRows
      /\ Rows["panels"] = PanelRows /\ Rows["input_sound"] = InputSoundRows
  BY SMT DEF Rows
<1>2. /\ DOMAIN AppearanceRows = {"theme", "font_family", "font_size", "line_height",
                                 "reduced_motion", "mode", "width", "height"}
      /\ DOMAIN TerminalRows = {"cursor_shape", "cursor_blink", "scrollback_lines",
                               "confirm_multiline_paste", "copy_on_select"}
      /\ DOMAIN InputSoundRows = {"sound_enabled", "volume", "keypress", "option_as_alt",
                                 "touch_scroll", "on_screen"}
  BY SMT DEF AppearanceRows, TerminalRows, InputSoundRows
<1>3. DOMAIN PanelRows = {"metrics_enabled", "effects_preset", "processes_enabled",
                          "network_enabled", "connections", "globe", "globe_rotate",
                          "geoip_database", "public_ip_lookup", "public_ip_endpoint",
                          "files_enabled", "show_hidden", "preview"}
  BY SMT DEF PanelRows
<1>4. DOMAIN Rows["appearance"] \subseteq ResetBy["appearance"]
  BY <1>1, <1>2, SectionsAre, SMT
<1>5. DOMAIN Rows["terminal"] \subseteq ResetBy["terminal"]
  BY <1>1, <1>2, SectionsAre, SMT
<1>6. DOMAIN Rows["panels"] \subseteq ResetBy["panels"]
  BY <1>1, <1>3, SectionsAre, SMT
<1>7. DOMAIN Rows["input_sound"] \subseteq ResetBy["input_sound"]
  BY <1>1, <1>2, SectionsAre, SMT
<1> QED
  BY <1>4, <1>5, <1>6, <1>7 DEF Categories

LEMMA SectionsApart ==
  \A c, k \in Categories : c # k => ResetBy[c] \cap ResetBy[k] = {}
<1>1. /\ ResetBy["appearance"] \cap ResetBy["terminal"] = {}
      /\ ResetBy["appearance"] \cap ResetBy["input_sound"] = {}
      /\ ResetBy["terminal"] \cap ResetBy["input_sound"] = {}
  BY SectionsAre, SMT
<1>2. ResetBy["appearance"] \cap ResetBy["panels"] = {}
  BY SectionsAre, SMT
<1>3. ResetBy["terminal"] \cap ResetBy["panels"] = {}
  BY SectionsAre, SMT
<1>4. ResetBy["panels"] \cap ResetBy["input_sound"] = {}
  BY SectionsAre, SMT
<1> QED
  BY <1>1, <1>2, <1>3, <1>4 DEF Categories

LEMMA SectionsDefault == \A c \in Categories : ResetBy[c] \subseteq DOMAIN Defaults
<1>1. /\ ResetBy["appearance"] = DOMAIN Appearance \cup DOMAIN WindowSettings
      /\ ResetBy["terminal"] = DOMAIN TerminalSettings
      /\ ResetBy["panels"] = DOMAIN Panels \cup DOMAIN Effects
      /\ ResetBy["input_sound"] =
           DOMAIN SoundSettings \cup DOMAIN InputSettings \cup DOMAIN KeyboardSettings
  BY SMT DEF ResetBy
<1> QED
  BY <1>1, DefaultsAre DEF Categories

LEMMA Stepped ==
  /\ Twentieths(100, 200) \subseteq 100..200
  /\ Twentieths(0, 100) \subseteq 0..100
<1>1. 100 \div 5 = 20 /\ 200 \div 5 = 40 /\ 0 \div 5 = 0
  OBVIOUS
<1>2. \A k \in 20..40 : 5 * k \in 100..200
  OBVIOUS
<1>3. \A k \in 0..20 : 5 * k \in 0..100
  OBVIOUS
<1> QED
  BY <1>1, <1>2, <1>3 DEF Twentieths

(* A slider, a box and a list offer what validate accepts.                 *)
LEMMA OfferedValid ==
  \A c \in Categories : \A f \in DOMAIN Rows[c] \ Typed : \A v \in Rows[c][f] : ValidField(f, v)
<1>1. /\ Rows["appearance"] = AppearanceRows /\ Rows["terminal"] = TerminalRows
      /\ Rows["panels"] = PanelRows /\ Rows["input_sound"] = InputSoundRows
  BY SMT DEF Rows
<1>2. /\ Ranges["font_size"] = 8..48 /\ Ranges["line_height"] = 100..200
      /\ Ranges["volume"] = 0..100
  BY RangesAt, SMT DEF AppearanceRanges, ExtensionRanges
<1>0. /\ DOMAIN AppearanceRows = {"theme", "font_family", "font_size", "line_height",
                                 "reduced_motion", "mode", "width", "height"}
      /\ AppearanceRows["theme"] = {"graphite", "daylight"}
      /\ AppearanceRows["font_size"] = 8..48
      /\ AppearanceRows["line_height"] = Twentieths(100, 200)
  BY SMT DEF AppearanceRows
<1>3. ASSUME NEW f \in DOMAIN AppearanceRows \ Typed, NEW v \in AppearanceRows[f]
      PROVE  ValidField(f, v)
  <2>1. f \in {"theme", "font_size", "line_height", "reduced_motion", "mode"}
    BY <1>0, SMT DEF Typed
  <2>2. CASE f = "theme"
    BY <1>0, <2>2, TextsValid
  <2>3. CASE f \in {"font_size", "line_height"}
    <3>2. v \in Ranges[f] /\ f \in DOMAIN Ranges
      BY <1>2, <1>0, <2>3, Stepped, RangesAt
    <3> QED
      BY <3>2, Ranged
  <2>4. CASE f \in {"reduced_motion", "mode"}
    BY <2>4, RangesAt, Unchecked, SMT DEF Intervals
  <2> QED
    BY <2>1, <2>2, <2>3, <2>4
<1>4. ASSUME NEW f \in DOMAIN TerminalRows \ Typed, NEW v PROVE ValidField(f, v)
  <2>1. f \in {"cursor_shape", "cursor_blink", "confirm_multiline_paste", "copy_on_select"}
    BY SMT DEF TerminalRows, Typed
  <2> QED
    BY <2>1, RangesAt, Unchecked, SMT DEF Intervals
<1>5. ASSUME NEW f \in DOMAIN PanelRows \ Typed, NEW v PROVE ValidField(f, v)
  <2>1. f \in {"metrics_enabled", "effects_preset", "processes_enabled", "network_enabled",
               "connections", "globe", "globe_rotate", "public_ip_lookup", "files_enabled",
               "show_hidden", "preview"}
    BY SMT DEF PanelRows, Typed
  <2> QED
    BY <2>1, RangesAt, Unchecked, SMT DEF Intervals
<1>6. ASSUME NEW f \in DOMAIN InputSoundRows \ Typed, NEW v \in InputSoundRows[f]
      PROVE  ValidField(f, v)
  <2>1. f \in {"sound_enabled", "volume", "keypress", "option_as_alt", "touch_scroll", "on_screen"}
    BY SMT DEF InputSoundRows
  <2>2. CASE f = "volume"
    <3>1. InputSoundRows["volume"] = Twentieths(0, 100)
      BY SMT DEF InputSoundRows
    <3>2. v \in Ranges["volume"] /\ "volume" \in DOMAIN Ranges
      BY <1>2, <2>2, <3>1, Stepped, RangesAt
    <3> QED
      BY <2>2, <3>2, Ranged
  <2>3. CASE f \in {"sound_enabled", "keypress", "option_as_alt", "touch_scroll", "on_screen"}
    BY <2>3, RangesAt, Unchecked, SMT DEF Intervals
  <2> QED
    BY <2>1, <2>2, <2>3
<1>7. ASSUME NEW c \in Categories, NEW f \in DOMAIN Rows[c] \ Typed, NEW v \in Rows[c][f]
      PROVE  ValidField(f, v)
  BY <1>1, <1>3, <1>4, <1>5, <1>6 DEF Categories
<1> QED
  BY <1>7
=============================================================================

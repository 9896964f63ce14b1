-------------------------------- MODULE Sound --------------------------------
(***************************************************************************)
(* The sound player (sound/player.rs): a device that a thread opens when   *)
(* sound is switched on and holds until the player lets it go, and cues    *)
(* that are limited in rate and number.  A thread is named by the number   *)
(* of the opening it was started for.                                      *)
(***************************************************************************)
EXTENDS Integers, FiniteSets

CONSTANTS
  Cues,
  MaxOverlap,  \* MAX_OVERLAP
  MaxOpenings  \* bound: times sound is switched on

ASSUME SoundAssumption == MaxOverlap \in Nat /\ MaxOpenings \in Nat

VARIABLES
  enabled, keypress,  \* SoundSettings
  output,             \* [is, thread]
  openings,
  threads,            \* thread -> opening, holding or gone
  reported,           \* threads whose mixer, or whose failure, is in the channel
  recent,             \* cues played less than their interval ago
  active,             \* the shared counter
  sounding            \* thread -> sources in its mixer
soundVars == <<enabled, keypress, output, openings, threads, reported, recent, active, sounding>>

Openings == 1..MaxOpenings
NoOutput == [is |-> "idle", thread |-> 0]

SoundInit ==
  /\ enabled = FALSE /\ keypress \in BOOLEAN
  /\ output = NoOutput /\ openings = 0
  /\ threads = [t \in Openings |-> "gone"] /\ reported = [t \in Openings |-> "none"]
  /\ recent = {} /\ active = 0 /\ sounding = [t \in Openings |-> 0]

(* set_settings: what output is dropped takes its keep_alive with it.      *)
KeptOpen == output
Dropped == NoOutput
SwitchOff ==
  /\ enabled /\ enabled' = FALSE
  /\ output' = Dropped
  /\ UNCHANGED <<keypress, openings, threads, reported, recent, active, sounding>>

(* Output::open: the thread may not start.                                 *)
SwitchOn ==
  /\ ~enabled /\ openings < MaxOpenings
  /\ enabled' = TRUE /\ openings' = openings + 1
  /\ IF output = NoOutput
       THEN \/ /\ output' = [is |-> "opening", thread |-> openings']
               /\ threads' = [threads EXCEPT ![openings'] = "opening"]
            \/ output' = [is |-> "unavailable", thread |-> 0] /\ UNCHANGED threads
       ELSE UNCHANGED <<output, threads>>
  /\ UNCHANGED <<keypress, reported, recent, active, sounding>>

SetKeypress ==
  /\ keypress' = ~keypress
  /\ UNCHANGED <<enabled, output, openings, threads, reported, recent, active, sounding>>

(* poll: the thread has reported, or has gone without a word.              *)
Polled ==
  IF output.is # "opening" THEN output
  ELSE CASE reported[output.thread] = "mixer" -> [output EXCEPT !.is = "ready"]
         [] reported[output.thread] = "failed" -> [is |-> "unavailable", thread |-> 0]
         [] OTHER -> output

(* play.                                                                   *)
Allowed(cue) == active < MaxOverlap /\ cue \notin recent
Play(cue) ==
  /\ enabled /\ (cue = "keypress" => keypress)
  /\ output' = Polled
  /\ IF Polled.is = "ready" /\ Allowed(cue)
       THEN /\ recent' = recent \cup {cue} /\ active' = active + 1
            /\ sounding' = [sounding EXCEPT ![Polled.thread] = @ + 1]
       ELSE UNCHANGED <<recent, active, sounding>>
  /\ UNCHANGED <<enabled, keypress, openings, threads, reported>>

(* run_output_thread: it holds the device until the player lets it go.     *)
Owned(t) == output.thread = t
Opens(t) ==
  /\ threads[t] = "opening"
  /\ \/ /\ threads' = [threads EXCEPT ![t] = IF Owned(t) THEN "holding" ELSE "gone"]
        /\ reported' = [reported EXCEPT ![t] = "mixer"]
     \/ /\ threads' = [threads EXCEPT ![t] = "gone"]
        /\ reported' = [reported EXCEPT ![t] = "failed"]
  /\ UNCHANGED <<enabled, keypress, output, openings, recent, active, sounding>>

(* Its mixer goes with it.  Whether a source that is dropped before its    *)
(* end lowers the counter is up to the library.                            *)
LetsGo(t) ==
  /\ threads[t] = "holding" /\ ~Owned(t)
  /\ threads' = [threads EXCEPT ![t] = "gone"]
  /\ sounding' = [sounding EXCEPT ![t] = 0]
  /\ active' \in {active, active - sounding[t]}
  /\ UNCHANGED <<enabled, keypress, output, openings, reported, recent>>

CueEnds(t) ==
  /\ sounding[t] > 0
  /\ sounding' = [sounding EXCEPT ![t] = @ - 1] /\ active' = active - 1
  /\ UNCHANGED <<enabled, keypress, output, openings, threads, reported, recent>>

IntervalPasses(cue) ==
  /\ cue \in recent /\ recent' = recent \ {cue}
  /\ UNCHANGED <<enabled, keypress, output, openings, threads, reported, active, sounding>>

OutputThread == \E t \in Openings : Opens(t) \/ LetsGo(t)
SoundNext ==
  \/ SwitchOn \/ SwitchOff \/ SetKeypress
  \/ \E cue \in Cues : Play(cue) \/ IntervalPasses(cue)
  \/ OutputThread
  \/ \E t \in Openings : CueEnds(t)

SoundSpec == SoundInit /\ [][SoundNext]_soundVars
SoundFairness == WF_soundVars(OutputThread)

(* No more cues sound at once than allowed, on all devices together, nor   *)
(* does the counter they share run below what it counts (Limiter).         *)
CuesLimited == \A t \in Openings : sounding[t] <= active /\ active <= MaxOverlap

(* Sound that is switched off lets the device go, however often it was     *)
(* switched on before and whatever its threads were doing; meanwhile no    *)
(* more cues sound at once than allowed (set_settings, run_output_thread,  *)
(* Limiter).                                                               *)
DeviceReleased ==
  /\ []CuesLimited
  /\ \A t \in Openings : <>[]~enabled => <>[](threads[t] = "gone" /\ sounding[t] = 0)
=============================================================================

------------------------------ MODULE AudioFrame ------------------------------
(***************************************************************************)
(* The hybrid audio pipeline: each frame of an audio program drains every  *)
(* buffer the microphone has delivered, filters and analyses them one by   *)
(* one, and publishes one AudioFrame (audioProcessing.h:548-820).          *)
(*                                                                         *)
(* Samples, spectra and running averages are abstracted to what the        *)
(* control flow asks of them: where a buffer's smoothed level lies between *)
(* the two thresholds of the noise gate, on which buses it carries an      *)
(* onset, and what kind of signal an average was last taken over.  BLE     *)
(* callbacks switch avLeveler and autoFloor at any time.                   *)
(***************************************************************************)
EXTENDS Naturals

CONSTANTS
  Bus,             \* busA, busB, busC
  MaxBuffers,      \* readAll() returns at most this many buffers
  minBeatInterval, \* in timestamps
  MaxTime,         \* bound: buffers delivered
  None             \* no timestamp

ASSUME AudioAssumption ==
  /\ MaxBuffers \in Nat \ {0}
  /\ minBeatInterval \in Nat
  /\ MaxTime \in Nat
  /\ None \notin Nat

Level == {"quiet", "between", "loud"}   \* against cNoiseGateClose, cNoiseGateOpen

VARIABLES
  avLeveler, autoFloor,   \* written by the BLE task
  clock,                  \* timestamp of the next buffer
  pc,                     \* "loop", "drain" or "publish"
  left,                   \* buffers of this read still to be processed
  busBased,               \* does the program ask for the buses?
  viz,                    \* vizConfig: this frame's switches and floor
  filtered,               \* timestamp of filteredSample, None when invalid
  noiseGateOpen,
  prevGateForBus,
  prevGateOpen,           \* of updateAvLeveler
  prevEnabled,            \* of updateAutoFloor
  ceiling,                \* what ceilingEstimate was taken over
  bus,                    \* the three Bus globals
  lastFftTimestamp, lastFft,
  frame,                  \* the static AudioFrame
  \* History
  onsets,                 \* buses with an onset accepted in this frame
  leveled,                \* did the last buffer adapt the ceiling?
  measured                \* what an accepted onset's baseline was taken over

controls == <<avLeveler, autoFloor>>
gates    == <<noiseGateOpen, prevGateForBus, prevGateOpen, prevEnabled, ceiling>>
fft      == <<lastFftTimestamp, lastFft>>
history  == <<onsets, leveled, measured>>
vars     == <<controls, clock, pc, left, busBased, viz, filtered, gates, bus, fft,
              frame, history>>

\* baseline: avgLevel and energyEMA were last "reset", or followed "signal"
\* or "silence";  warm: energyEMA >= emaWarmupFloor.
InitBus == [newBeat |-> FALSE, lastBeat |-> 0, baseline |-> "reset", warm |-> FALSE]
EmptyFrame == [valid |-> FALSE, timestamp |-> 0, fft |-> None,
               floor |-> "manual", beats |-> {}]

Init ==
  /\ avLeveler = TRUE /\ autoFloor = FALSE
  /\ clock = 0
  /\ pc = "loop" /\ left = 0 /\ busBased = FALSE
  /\ viz = [avLeveler |-> TRUE, autoFloor |-> TRUE, floor |-> "manual"]
  /\ filtered = None
  /\ noiseGateOpen = FALSE /\ prevGateForBus = FALSE
  /\ prevGateOpen = FALSE /\ prevEnabled = FALSE
  /\ ceiling = "initial"
  /\ bus = [b \in Bus |-> InitBus]
  /\ lastFftTimestamp = 0 /\ lastFft = None
  /\ frame = EmptyFrame
  /\ onsets = {} /\ leveled = FALSE /\ measured = {}

-----------------------------------------------------------------------------
(* BLE: processCheckbox                                                    *)

ToggleLeveler ==
  avLeveler' = ~avLeveler
  /\ UNCHANGED <<autoFloor, clock, pc, left, busBased, viz, filtered, gates, bus, fft,
                 frame, history>>

ToggleAutoFloor ==
  autoFloor' = ~autoFloor
  /\ UNCHANGED <<avLeveler, clock, pc, left, busBased, viz, filtered, gates, bus, fft,
                 frame, history>>

-----------------------------------------------------------------------------
(* captureAudioFrame                                                       *)

\* updateVizConfig, the per-frame latch reset and the default snapshot.
BeginFrame(wanted) ==
  /\ pc = "loop"
  /\ busBased' = wanted
  /\ viz' = [avLeveler |-> avLeveler, autoFloor |-> autoFloor, floor |-> "manual"]
  /\ bus' = [b \in Bus |-> [bus[b] EXCEPT !.newBeat = FALSE]]
  /\ onsets' = {} /\ leveled' = FALSE
  /\ UNCHANGED <<controls, clock, gates, fft, measured>>

\* audioSource is null, or reports an error: an invalid frame at once.
Fail(wanted) ==
  /\ BeginFrame(wanted)
  /\ filtered' = None
  /\ frame' = [frame EXCEPT !.valid = FALSE, !.fft = None,
                            !.timestamp = IF filtered = None THEN 0 ELSE filtered,
                            !.beats = IF wanted THEN {} ELSE @]
  /\ UNCHANGED <<pc, left>>

\* Mutant: the buffers of a read are looped over even when there are none.
ReadEager(wanted, n) ==
  /\ BeginFrame(wanted)
  /\ left' = n
  /\ pc' = "drain"
  /\ UNCHANGED <<filtered, frame>>

\* readAll() returns n buffers; the default snapshot is all that none brings.
Read(wanted, n) ==
  /\ BeginFrame(wanted)
  /\ left' = n
  /\ pc' = IF n = 0 THEN "publish" ELSE "drain"
  /\ frame' = [frame EXCEPT !.valid = filtered # None,
                            !.timestamp = IF filtered = None THEN 0 ELSE filtered,
                            !.fft = IF n = 0 /\ filtered = None THEN None ELSE @]
  /\ UNCHANGED filtered

-----------------------------------------------------------------------------
(* One drained buffer                                                      *)

\* filterSample: the noise gate, with hysteresis.
Gate(level) ==
  IF level = "loud" THEN TRUE ELSE IF level = "quiet" THEN FALSE ELSE noiseGateOpen

\* updateAutoFloor
UpdateAutoFloor ==
  /\ prevEnabled' = viz.autoFloor
  /\ viz' = [viz EXCEPT !.floor = IF viz.autoFloor THEN "auto" ELSE @]

\* Mutant: a closed gate returns before it is remembered.
UpdateAvLevelerEarly(gate) ==
  LET reset == gate /\ ~prevGateOpen
  IN  IF viz.avLeveler
      THEN /\ prevGateOpen' = (prevGateOpen \/ gate)
           /\ ceiling' = IF reset THEN "current"
                       ELSE IF gate \/ ceiling = "initial" THEN ceiling ELSE "previous"
           /\ leveled' = gate
      ELSE /\ ceiling' = IF ~gate /\ ceiling = "current" THEN "missed" ELSE ceiling
           /\ leveled' = FALSE
           /\ UNCHANGED prevGateOpen

\* updateAvLeveler: with a silence the ceiling becomes that of the "previous"
\* signal, or of one whose end was "missed" when the leveler was off; the
\* estimate itself is frozen.
UpdateAvLeveler(gate) ==
  LET reset == gate /\ ~prevGateOpen
  IN  IF viz.avLeveler
      THEN /\ prevGateOpen' = gate
           /\ ceiling' = IF reset THEN "current"
                       ELSE IF gate \/ ceiling = "initial" THEN ceiling ELSE "previous"
           /\ leveled' = gate
      ELSE /\ ceiling' = IF ~gate /\ ceiling = "current" THEN "missed" ELSE ceiling
           /\ leveled' = FALSE
           /\ UNCHANGED prevGateOpen

\* Mutant: the averages are reset only while the buses are asked for.
OpenedIfBusBased(gate) ==
  [b \in Bus |-> IF gate /\ ~prevGateForBus /\ busBased
                 THEN [bus[b] EXCEPT !.baseline = "reset", !.warm = FALSE]
                 ELSE bus[b]]

\* The gate opens: a bus starts from clean averages.
Opened(gate) ==
  [b \in Bus |-> IF gate /\ ~prevGateForBus
                 THEN [bus[b] EXCEPT !.baseline = "reset", !.warm = FALSE]
                 ELSE bus[b]]

\* The FFT window spans two buffers: it holds a signal until the second one
\* that the closed gate has zeroed.
Sounding(gate) == gate \/ prevGateForBus

\* finalizeBus: a warm baseline, energy, and time since the last beat.
Accepted(was, sounding, onset, ts) ==
  {b \in onset : sounding /\ was[b].warm /\ ts - was[b].lastBeat > minBeatInterval}

\* updateBus and finalizeBus: the averages follow the spectrum after the
\* check, and warm up only on a signal.
Follow(bu, sounding, warm) ==
  [bu EXCEPT !.baseline = IF sounding THEN "signal" ELSE "silence",
             !.warm = warm /\ (sounding \/ @)]

\* Mutant: newBeat is overwritten by every buffer, as before the latch.
BeatUnlatched(bu, hit, ts) ==
  [bu EXCEPT !.newBeat = hit, !.lastBeat = IF hit THEN ts ELSE @]

\* newBeat stays latched over the buffers of a frame.
Beat(bu, hit, ts) == IF hit THEN [bu EXCEPT !.newBeat = TRUE, !.lastBeat = ts] ELSE bu

\* Mutant: the FFT is run once.
FftOnce(ts) == IF lastFft = None THEN ts ELSE lastFft

\* Run the FFT engine once per timestamp.
FftAt(ts) == IF ts # lastFftTimestamp THEN ts ELSE lastFft

ProcessBuffer(level, onset, warm) ==
  LET gate == Gate(level)
      was  == Opened(gate)
      hasBins == FftAt(clock) # None
  IN  /\ pc = "drain" /\ clock < MaxTime
      /\ left' = left - 1
      /\ pc' = IF left = 1 THEN "publish" ELSE "drain"
      /\ clock' = clock + 1
      /\ filtered' = clock
      /\ noiseGateOpen' = gate /\ prevGateForBus' = gate
      /\ lastFftTimestamp' = clock /\ lastFft' = FftAt(clock)
      /\ UpdateAutoFloor /\ UpdateAvLeveler(gate)
      /\ frame' = [frame EXCEPT !.valid = TRUE, !.timestamp = clock, !.fft = FftAt(clock)]
      /\ IF busBased /\ hasBins
         THEN LET sounding == Sounding(gate)
                  hit == Accepted(was, sounding, onset, clock)
              IN  /\ bus' = [b \in Bus |->
                             Follow(Beat(was[b], b \in hit, clock), sounding, b \in warm)]
                  /\ onsets' = onsets \cup hit
                  /\ measured' = measured \cup {was[b].baseline : b \in hit}
         ELSE bus' = was /\ UNCHANGED <<onsets, measured>>
      /\ UNCHANGED <<controls, busBased>>

\* A buffer that is not valid closes nothing and measures nothing.
ProcessInvalid ==
  /\ pc = "drain"
  /\ left' = left - 1
  /\ pc' = IF left = 1 THEN "publish" ELSE "drain"
  /\ filtered' = None
  /\ frame' = [frame EXCEPT !.valid = FALSE, !.timestamp = 0, !.fft = None]
  /\ UNCHANGED <<controls, clock, busBased, viz, gates, bus, fft, history>>

-----------------------------------------------------------------------------
(* The published levels and buses                                          *)
Publish ==
  /\ pc = "publish"
  /\ pc' = "loop"
  /\ frame' = [frame EXCEPT
       !.floor = viz.floor,
       !.beats = IF busBased THEN {b \in Bus : bus[b].newBeat} ELSE @]
  /\ UNCHANGED <<controls, clock, left, busBased, viz, filtered, gates, bus, fft, history>>

-----------------------------------------------------------------------------
Ble == ToggleLeveler \/ ToggleAutoFloor
Capture == \E wanted \in BOOLEAN : Fail(wanted) \/ \E n \in 0 .. MaxBuffers : Read(wanted, n)
Drain ==
  \/ \E level \in Level, onset, warm \in SUBSET Bus : ProcessBuffer(level, onset, warm)
  \/ ProcessInvalid

Next == Ble \/ Capture \/ Drain \/ Publish

Spec == Init /\ [][Next]_vars

-----------------------------------------------------------------------------
BusType == [newBeat : BOOLEAN, lastBeat : Nat, warm : BOOLEAN,
            baseline : {"reset", "signal", "silence"}]
VizType == [avLeveler : BOOLEAN, autoFloor : BOOLEAN, floor : {"manual", "auto"}]
FrameType == [valid : BOOLEAN, timestamp : Nat, fft : Nat \cup {None},
              floor : {"manual", "auto"}, beats : SUBSET Bus]

TypeOK ==
  /\ avLeveler \in BOOLEAN /\ autoFloor \in BOOLEAN
  /\ clock \in Nat
  /\ pc \in {"loop", "drain", "publish"}
  /\ left \in 0 .. MaxBuffers /\ (pc = "drain" <=> left > 0)
  /\ busBased \in BOOLEAN
  /\ viz \in VizType
  /\ filtered \in Nat \cup {None}
  /\ noiseGateOpen \in BOOLEAN /\ prevGateForBus \in BOOLEAN
  /\ prevGateOpen \in BOOLEAN /\ prevEnabled \in BOOLEAN
  /\ ceiling \in {"initial", "current", "previous", "missed"}
  /\ bus \in [Bus -> BusType]
  /\ lastFftTimestamp \in Nat /\ lastFft \in Nat \cup {None}
  /\ frame \in FrameType
  /\ onsets \subseteq Bus
  /\ leveled \in BOOLEAN
  /\ measured \subseteq {"reset", "signal", "silence"}

(***************************************************************************)
(* "We process all audio buffers drained per render frame" so as not to    *)
(* miss onsets (audioTypes.h:18-20): an onset accepted in any of the       *)
(* buffers is in the frame that is published, whatever follows it.         *)
(***************************************************************************)
OnsetsReachTheFrame == pc = "loop" /\ busBased => frame.beats = onsets

(***************************************************************************)
(* No onset is accepted because the music has just come back: the averages *)
(* a bus is compared with have followed a signal since the gate opened     *)
(* (audioProcessing.h:311-315, 671-679), also when the gate opened while   *)
(* another visualizer was not asking for the buses.                        *)
(***************************************************************************)
MeasuredOnSignal == measured \subseteq {"signal"}

(***************************************************************************)
(* A frame is one instant: its spectrum is the one of the buffer whose     *)
(* timestamp and level it carries, through reads that deliver nothing,     *)
(* invalid buffers and input errors (audioProcessing.h:560-563, 691-698).  *)
(***************************************************************************)
OneInstant == frame.valid /\ frame.fft # None => frame.fft = frame.timestamp

(***************************************************************************)
(* "Persist floor state across frames even though updateVizConfig() resets *)
(* the manual floor each render frame" (audioProcessing.h:151-152): with   *)
(* the auto floor on and seeded, the levels are measured against it.       *)
(***************************************************************************)
FloorPersists ==
  pc = "loop" /\ frame.valid /\ viz.autoFloor /\ prevEnabled => frame.floor = "auto"

(***************************************************************************)
(* "On gate-open transition: reset to clean defaults"                      *)
(* (audioProcessing.h:89-95): the leveler never goes on adapting the       *)
(* ceiling of a signal that ended in a silence it was on for, however the  *)
(* switch and the gate interleave.  A silence that begins and ends while   *)
(* the leveler is off escapes it: line 76 returns before prevGateOpen is   *)
(* written, so no transition is seen when it is switched on again.         *)
(***************************************************************************)
CeilingResets == leveled => ceiling \in {"current", "missed"}
==============================================================================

-------------------------- MODULE AudioFrame_proofs --------------------------
(***************************************************************************)
(* Proofs about AudioFrame, for any set of buses, any size of a read and   *)
(* any minimal interval between beats.                                     *)
(***************************************************************************)
EXTENDS AudioFrame, TLAPS

-----------------------------------------------------------------------------
(* The inductive invariants                                                *)

\* onsets is what the latches hold, and the published frame a copy of it.
LatchInv ==
  /\ onsets = {b \in Bus : bus[b].newBeat}
  /\ OnsetsReachTheFrame

\* A baseline that can accept an onset while the window still holds a signal
\* has followed a signal.
BaselineInv ==
  /\ prevGateForBus => \A b \in Bus : bus[b].warm => bus[b].baseline = "signal"
  /\ MeasuredOnSignal

\* The spectrum in the frame is that of the last valid buffer.
InstantInv ==
  /\ lastFft # None => lastFft = lastFftTimestamp
  /\ filtered # None /\ frame.fft # None => frame.fft = filtered
  /\ frame.valid => filtered # None /\ frame.timestamp = filtered

\* A ceiling no signal has been reset to is one whose gate is remembered closed.
CeilingInv ==
  /\ ceiling \in {"initial", "previous"} => ~prevGateOpen
  /\ CeilingResets

-----------------------------------------------------------------------------
(* Lemmas about one bus and the gate                                       *)

\* Opening the gate keeps the latches, and cools every bus down.
LEMMA OpenedKeeps ==
  ASSUME bus \in [Bus -> BusType], NEW gate \in BOOLEAN
  PROVE  /\ Opened(gate) \in [Bus -> BusType]
         /\ \A b \in Bus : Opened(gate)[b].newBeat = bus[b].newBeat
         /\ gate /\ ~prevGateForBus => \A b \in Bus : ~Opened(gate)[b].warm
         /\ ~gate \/ prevGateForBus => Opened(gate) = bus
  BY DEF Opened, BusType

\* One buffer on one bus: the latch only ever rises.
LEMMA BusStep ==
  ASSUME NEW bu \in BusType, NEW hit \in BOOLEAN, NEW sounding \in BOOLEAN,
         NEW warm \in BOOLEAN, NEW ts \in Nat
  PROVE  LET next == Follow(Beat(bu, hit, ts), sounding, warm)
         IN  /\ next \in BusType
             /\ next.newBeat <=> (hit \/ bu.newBeat)
  BY DEF Follow, Beat, BusType

-----------------------------------------------------------------------------
(* Every variable keeps its type.                                          *)
THEOREM TypeCorrect == Spec => []TypeOK
<1>1. Init => TypeOK
  <2> SUFFICES ASSUME Init PROVE TypeOK
    OBVIOUS
  <2>1. frame \in FrameType
    BY DEF Init, EmptyFrame, FrameType
  <2>2. bus \in [Bus -> BusType]
    BY DEF Init, InitBus, BusType
  <2>3. viz \in VizType
    BY DEF Init, VizType
  <2>4. left \in 0 .. MaxBuffers /\ (pc = "drain" <=> left > 0)
    BY AudioAssumption DEF Init
  <2> QED
    BY <2>1, <2>2, <2>3, <2>4 DEF Init, TypeOK
<1>2. TypeOK /\ [Next]_vars => TypeOK'
  <2> SUFFICES ASSUME TypeOK, [Next]_vars PROVE TypeOK'
    OBVIOUS
  <2> USE AudioAssumption DEF controls, gates, fft, history
  <2>0. ASSUME NEW wanted \in BOOLEAN, BeginFrame(wanted)
        PROVE  busBased' \in BOOLEAN /\ viz' \in VizType /\ bus' \in [Bus -> BusType]
    BY <2>0 DEF BeginFrame, TypeOK, BusType, VizType
  <2>1. CASE ToggleLeveler
    BY <2>1 DEF ToggleLeveler, TypeOK
  <2>2. CASE ToggleAutoFloor
    BY <2>2 DEF ToggleAutoFloor, TypeOK
  <2>3. ASSUME NEW wanted \in BOOLEAN, Fail(wanted) PROVE TypeOK'
    <3>1. BeginFrame(wanted)
      BY <2>3 DEF Fail
    <3>2. frame' \in FrameType
      BY <2>3 DEF Fail, TypeOK, FrameType
    <3> QED
      BY <2>0, <2>3, <3>1, <3>2 DEF Fail, BeginFrame, TypeOK
  <2>4. ASSUME NEW wanted \in BOOLEAN, NEW n \in 0 .. MaxBuffers, Read(wanted, n)
        PROVE  TypeOK'
    <3>1. BeginFrame(wanted)
      BY <2>4 DEF Read
    <3>2. frame' \in FrameType
      <4>1. (filtered # None) \in BOOLEAN
        OBVIOUS
      <4>2. filtered # None => filtered \in Nat
        BY DEF TypeOK
      <4> QED
        BY <2>4, <4>1, <4>2 DEF Read, TypeOK, FrameType
    <3>3. left' \in 0 .. MaxBuffers /\ pc' \in {"drain", "publish"}
          /\ (pc' = "drain" <=> left' > 0)
      BY <2>4 DEF Read
    <3>4. filtered' = filtered
      BY <2>4 DEF Read
    <3>5. viz' \in VizType
      BY <2>0, <3>1
    <3>6. bus' \in [Bus -> BusType]
      BY <2>0, <3>1
    <3>7. /\ busBased' \in BOOLEAN /\ onsets' = {} /\ leveled' = FALSE
          /\ UNCHANGED <<controls, clock, gates, fft, measured>>
      BY <3>1 DEF BeginFrame
    <3> QED
      BY <3>2, <3>3, <3>4, <3>5, <3>6, <3>7 DEF TypeOK
  <2>5. ASSUME NEW level \in Level, NEW onset \in SUBSET Bus, NEW warm \in SUBSET Bus,
               ProcessBuffer(level, onset, warm)
        PROVE  TypeOK'
    <3> DEFINE gate == Gate(level)
    <3> DEFINE was == Opened(gate)
    <3> DEFINE hit == Accepted(was, Sounding(gate), onset, clock)
    <3>1. gate \in BOOLEAN
      BY DEF Gate, TypeOK
    <3>2. was \in [Bus -> BusType]
      BY <3>1, OpenedKeeps DEF TypeOK
    <3>3. hit \subseteq Bus
      BY DEF Accepted
    <3>4. bus' \in [Bus -> BusType] /\ onsets' \subseteq Bus
      <4>1. CASE busBased /\ FftAt(clock) # None
        <5>1. bus' = [b \in Bus |-> Follow(Beat(was[b], b \in hit, clock),
                                           Sounding(gate), b \in warm)]
          BY <2>5, <4>1 DEF ProcessBuffer
        <5>2. ASSUME NEW b \in Bus
              PROVE  Follow(Beat(was[b], b \in hit, clock), Sounding(gate), b \in warm)
                       \in BusType
          <6> HIDE DEF was, gate, hit
          <6>1. was[b] \in BusType
            BY <3>2
          <6>2. (b \in hit) \in BOOLEAN /\ Sounding(gate) \in BOOLEAN
                /\ (b \in warm) \in BOOLEAN /\ clock \in Nat
            BY <3>1 DEF Sounding, TypeOK
          <6> QED
            BY <6>1, <6>2, BusStep
        <5>3. onsets' = onsets \cup hit
          BY <2>5, <4>1 DEF ProcessBuffer
        <5> QED
          BY <5>1, <5>2, <5>3, <3>3 DEF TypeOK
      <4>2. CASE ~(busBased /\ FftAt(clock) # None)
        BY <2>5, <4>2, <3>2 DEF ProcessBuffer, TypeOK
      <4> QED
        BY <4>1, <4>2
    <3>5. measured' \subseteq {"reset", "signal", "silence"}
      <4>1. CASE busBased /\ FftAt(clock) # None
        <5>1. measured' = measured \cup {was[b].baseline : b \in hit}
          BY <2>5, <4>1 DEF ProcessBuffer
        <5>2. \A b \in hit : was[b].baseline \in {"reset", "signal", "silence"}
          BY <3>2, <3>3 DEF BusType
        <5> HIDE DEF was, hit
        <5> QED
          BY <5>1, <5>2 DEF TypeOK
      <4>2. CASE ~(busBased /\ FftAt(clock) # None)
        BY <2>5, <4>2 DEF ProcessBuffer, TypeOK
      <4> QED
        BY <4>1, <4>2
    <3>6. FftAt(clock) \in Nat \cup {None}
      BY DEF FftAt, TypeOK
    <3>7. viz' \in VizType /\ prevEnabled' \in BOOLEAN
      BY <2>5 DEF ProcessBuffer, UpdateAutoFloor, TypeOK, VizType
    <3>8. prevGateOpen' \in BOOLEAN /\ leveled' \in BOOLEAN
          /\ ceiling' \in {"initial", "current", "previous", "missed"}
      BY <2>5, <3>1 DEF ProcessBuffer, UpdateAvLeveler, TypeOK, VizType
    <3>9. left' \in 0 .. MaxBuffers /\ (pc' = "drain" <=> left' > 0)
          /\ pc' \in {"loop", "drain", "publish"}
      BY <2>5 DEF ProcessBuffer, TypeOK
    <3>10. frame' \in FrameType
      BY <2>5, <3>6 DEF ProcessBuffer, TypeOK, FrameType
    <3> QED
      BY <2>5, <3>1, <3>4, <3>5, <3>6, <3>7, <3>8, <3>9, <3>10 DEF ProcessBuffer, TypeOK
  <2>6. CASE ProcessInvalid
    <3>1. frame' \in FrameType
      BY <2>6 DEF ProcessInvalid, TypeOK, FrameType
    <3>2. left' \in 0 .. MaxBuffers /\ pc' \in {"drain", "publish"}
          /\ (pc' = "drain" <=> left' > 0)
      BY <2>6 DEF ProcessInvalid, TypeOK
    <3> QED
      BY <2>6, <3>1, <3>2 DEF ProcessInvalid, TypeOK
  <2>7. CASE Publish
    <3>1. frame' \in FrameType
      <4>1. viz.floor \in {"manual", "auto"}
        BY DEF TypeOK, VizType
      <4> QED
        BY <2>7, <4>1 DEF Publish, TypeOK, FrameType
    <3> QED
      BY <2>7, <3>1 DEF Publish, TypeOK
  <2>8. CASE UNCHANGED vars
    BY <2>8 DEF vars, TypeOK
  <2> QED
    BY <2>1, <2>2, <2>3, <2>4, <2>5, <2>6, <2>7, <2>8 DEF Next, Ble, Capture, Drain
<1> QED
  BY <1>1, <1>2, PTL DEF Spec

-----------------------------------------------------------------------------
(* OnsetsReachTheFrame: an onset accepted in any buffer of a read is in    *)
(* the frame that is published.  The latches are cleared when a frame      *)
(* begins and only rise until it is published.                             *)
THEOREM OnsetsCorrect == Spec => []OnsetsReachTheFrame
<1>1. Init => LatchInv
  BY DEF Init, LatchInv, OnsetsReachTheFrame, InitBus
<1>2. TypeOK /\ LatchInv /\ [Next]_vars => LatchInv'
  <2> SUFFICES ASSUME TypeOK, LatchInv, [Next]_vars PROVE LatchInv'
    OBVIOUS
  <2> USE DEF controls, gates, fft, history
  <2>1. CASE ToggleLeveler
    BY <2>1 DEF ToggleLeveler, LatchInv, OnsetsReachTheFrame
  <2>2. CASE ToggleAutoFloor
    BY <2>2 DEF ToggleAutoFloor, LatchInv, OnsetsReachTheFrame
  <2>3. ASSUME NEW wanted \in BOOLEAN, BeginFrame(wanted)
        PROVE  onsets' = {} /\ {b \in Bus : bus'[b].newBeat} = {} /\ busBased' = wanted
    BY <2>3 DEF BeginFrame, TypeOK, BusType
  <2>4. ASSUME NEW wanted \in BOOLEAN, Fail(wanted) PROVE LatchInv'
    <3>1. wanted => frame'.beats = {}
      BY <2>4 DEF Fail, TypeOK, FrameType
    <3> QED
      BY <2>3, <2>4, <3>1 DEF Fail, LatchInv, OnsetsReachTheFrame
  <2>5. ASSUME NEW wanted \in BOOLEAN, NEW n \in 0 .. MaxBuffers, Read(wanted, n)
        PROVE  LatchInv'
    BY <2>3, <2>5 DEF Read, LatchInv, OnsetsReachTheFrame
  <2>6. ASSUME NEW level \in Level, NEW onset \in SUBSET Bus, NEW warm \in SUBSET Bus,
               ProcessBuffer(level, onset, warm)
        PROVE  LatchInv'
    <3> DEFINE gate == Gate(level)
    <3> DEFINE was == Opened(gate)
    <3> DEFINE hit == Accepted(was, Sounding(gate), onset, clock)
    <3>1. gate \in BOOLEAN
      BY DEF Gate, TypeOK
    <3>2. was \in [Bus -> BusType] /\ \A b \in Bus : was[b].newBeat = bus[b].newBeat
      BY <3>1, OpenedKeeps DEF TypeOK
    <3>3. hit \subseteq Bus
      BY DEF Accepted
    <3>4. onsets' = {b \in Bus : bus'[b].newBeat}
      <4>1. CASE busBased /\ FftAt(clock) # None
        <5>1. bus' = [b \in Bus |-> Follow(Beat(was[b], b \in hit, clock),
                                           Sounding(gate), b \in warm)]
              /\ onsets' = onsets \cup hit
          BY <2>6, <4>1 DEF ProcessBuffer
        <5>2. ASSUME NEW b \in Bus PROVE bus'[b].newBeat <=> b \in hit \/ bus[b].newBeat
          <6> HIDE DEF was, gate, hit
          <6>1. was[b] \in BusType /\ was[b].newBeat = bus[b].newBeat
            BY <3>2
          <6>2. (b \in hit) \in BOOLEAN /\ Sounding(gate) \in BOOLEAN
                /\ (b \in warm) \in BOOLEAN /\ clock \in Nat
            BY <3>1 DEF Sounding, TypeOK
          <6>3. Follow(Beat(was[b], b \in hit, clock), Sounding(gate), b \in warm).newBeat
                  <=> ((b \in hit) \/ was[b].newBeat)
            BY <6>1, <6>2, BusStep
          <6> QED
            BY <5>1, <6>1, <6>3
        <5> HIDE DEF hit
        <5> QED
          BY <5>1, <5>2, <3>3 DEF LatchInv
      <4>2. CASE ~(busBased /\ FftAt(clock) # None)
        <5>1. bus' = was /\ onsets' = onsets
          BY <2>6, <4>2 DEF ProcessBuffer
        <5> HIDE DEF was
        <5> QED
          BY <5>1, <3>2 DEF LatchInv
      <4> QED
        BY <4>1, <4>2
    <3>5. pc' # "loop"
      BY <2>6 DEF ProcessBuffer
    <3> QED
      BY <3>4, <3>5 DEF LatchInv, OnsetsReachTheFrame
  <2>7. CASE ProcessInvalid
    <3>1. pc' # "loop" /\ onsets' = onsets /\ bus' = bus
      BY <2>7 DEF ProcessInvalid
    <3> QED
      BY <3>1 DEF LatchInv, OnsetsReachTheFrame
  <2>8. CASE Publish
    <3>1. busBased => frame'.beats = {b \in Bus : bus[b].newBeat}
      BY <2>8 DEF Publish, TypeOK, FrameType
    <3> QED
      BY <2>8, <3>1 DEF Publish, LatchInv, OnsetsReachTheFrame
  <2>9. CASE UNCHANGED vars
    BY <2>9 DEF vars, LatchInv, OnsetsReachTheFrame
  <2> QED
    BY <2>1, <2>2, <2>4, <2>5, <2>6, <2>7, <2>8, <2>9 DEF Next, Ble, Capture, Drain
<1> QED
  BY <1>1, <1>2, TypeCorrect, PTL DEF Spec, LatchInv

-----------------------------------------------------------------------------
(* MeasuredOnSignal: no onset is accepted against an average of silence.   *)
(* Averages of silence are warm only behind a closed gate, and the buffer  *)
(* that opens the gate cools every bus, whoever is drawing.                *)
THEOREM BaselineCorrect == Spec => []MeasuredOnSignal
<1>1. Init => BaselineInv
  BY DEF Init, BaselineInv, MeasuredOnSignal
<1>2. TypeOK /\ BaselineInv /\ [Next]_vars => BaselineInv'
  <2> SUFFICES ASSUME TypeOK, BaselineInv, [Next]_vars PROVE BaselineInv'
    OBVIOUS
  <2> USE DEF controls, gates, fft, history
  <2>1. ASSUME bus' = bus, prevGateForBus' = prevGateForBus, measured' = measured
        PROVE  BaselineInv'
    BY <2>1 DEF BaselineInv, MeasuredOnSignal
  <2>2. ASSUME NEW wanted \in BOOLEAN, BeginFrame(wanted) PROVE BaselineInv'
    <3>1. \A b \in Bus : bus'[b].warm = bus[b].warm /\ bus'[b].baseline = bus[b].baseline
      BY <2>2 DEF BeginFrame, TypeOK, BusType
    <3> QED
      BY <2>2, <3>1 DEF BeginFrame, BaselineInv, MeasuredOnSignal
  <2>3. ASSUME NEW level \in Level, NEW onset \in SUBSET Bus, NEW warm \in SUBSET Bus,
               ProcessBuffer(level, onset, warm)
        PROVE  BaselineInv'
    <3> DEFINE gate == Gate(level)
    <3> DEFINE was == Opened(gate)
    <3> DEFINE hit == Accepted(was, Sounding(gate), onset, clock)
    <3>1. gate \in BOOLEAN /\ prevGateForBus \in BOOLEAN
      BY DEF Gate, TypeOK
    <3>2. was \in [Bus -> BusType]
      BY <3>1, OpenedKeeps DEF TypeOK
    <3>3. prevGateForBus' = gate
      BY <2>3 DEF ProcessBuffer
    <3>4. Sounding(gate) => \A b \in Bus : was[b].warm => was[b].baseline = "signal"
      <4>1. CASE gate /\ ~prevGateForBus
        BY <3>1, <4>1, OpenedKeeps DEF TypeOK
      <4>2. CASE prevGateForBus
        BY <3>1, <4>2, OpenedKeeps DEF TypeOK, BaselineInv
      <4> QED
        BY <4>1, <4>2 DEF Sounding
    <3>5. CASE busBased /\ FftAt(clock) # None
      <4>1. bus' = [b \in Bus |-> Follow(Beat(was[b], b \in hit, clock),
                                         Sounding(gate), b \in warm)]
            /\ measured' = measured \cup {was[b].baseline : b \in hit}
        BY <2>3, <3>5 DEF ProcessBuffer
      <4>2. \A b \in hit : was[b].baseline = "signal"
        <5> HIDE DEF was, gate
        <5> QED
          BY <3>4 DEF Accepted
      <4>3. measured' \subseteq {"signal"}
        <5> HIDE DEF hit, was
        <5> QED
          BY <4>1, <4>2 DEF BaselineInv, MeasuredOnSignal
      <4>4. ASSUME NEW b \in Bus, gate PROVE bus'[b].baseline = "signal"
        <5> HIDE DEF was, gate, hit
        <5>1. was[b] \in BusType /\ Sounding(gate)
          BY <3>2, <4>4 DEF Sounding
        <5>2. (b \in hit) \in BOOLEAN /\ Sounding(gate) \in BOOLEAN
              /\ (b \in warm) \in BOOLEAN /\ clock \in Nat
          BY <3>1 DEF Sounding, TypeOK
        <5>3. Follow(Beat(was[b], b \in hit, clock), Sounding(gate), b \in warm).baseline
                = "signal"
          BY <5>1, <5>2 DEF Follow, Beat, BusType
        <5> QED
          BY <4>1, <5>3
      <4> HIDE DEF gate
      <4> QED
        BY <3>3, <4>3, <4>4 DEF BaselineInv, MeasuredOnSignal
    <3>6. CASE ~(busBased /\ FftAt(clock) # None)
      <4>1. bus' = was /\ measured' = measured
        BY <2>3, <3>6 DEF ProcessBuffer
      <4> HIDE DEF was, gate
      <4> QED
        BY <3>3, <3>4, <4>1 DEF BaselineInv, MeasuredOnSignal, Sounding
    <3> QED
      BY <3>5, <3>6
  <2>4. CASE ToggleLeveler \/ ToggleAutoFloor \/ ProcessInvalid \/ Publish \/ UNCHANGED vars
    BY <2>1, <2>4 DEF ToggleLeveler, ToggleAutoFloor, ProcessInvalid, Publish, vars
  <2> QED
    BY <2>2, <2>3, <2>4 DEF Next, Ble, Capture, Drain, Fail, Read
<1> QED
  BY <1>1, <1>2, TypeCorrect, PTL DEF Spec, BaselineInv

-----------------------------------------------------------------------------
(* OneInstant: the spectrum of a valid frame is that of the buffer whose   *)
(* timestamp it carries.                                                   *)
THEOREM InstantCorrect == Spec => []OneInstant
<1>1. Init => InstantInv
  BY DEF Init, InstantInv, EmptyFrame
<1>2. TypeOK /\ InstantInv /\ [Next]_vars => InstantInv'
  <2> SUFFICES ASSUME TypeOK, InstantInv, [Next]_vars PROVE InstantInv'
    OBVIOUS
  <2> USE DEF controls, gates, fft, history
  <2>1. ASSUME frame'.valid => frame.valid, frame'.fft = frame.fft,
               frame'.timestamp = frame.timestamp, UNCHANGED <<filtered, fft>>
        PROVE  InstantInv'
    BY <2>1 DEF InstantInv
  <2>2. CASE ToggleLeveler \/ ToggleAutoFloor \/ UNCHANGED vars
    BY <2>1, <2>2 DEF ToggleLeveler, ToggleAutoFloor, vars
  <2>3. ASSUME NEW wanted \in BOOLEAN, Fail(wanted) PROVE InstantInv'
    BY <2>3 DEF Fail, BeginFrame, InstantInv, TypeOK, FrameType
  <2>4. ASSUME NEW wanted \in BOOLEAN, NEW n \in 0 .. MaxBuffers, Read(wanted, n)
        PROVE  InstantInv'
    BY <2>4 DEF Read, BeginFrame, InstantInv, TypeOK, FrameType
  <2>5. ASSUME NEW level \in Level, NEW onset \in SUBSET Bus, NEW warm \in SUBSET Bus,
               ProcessBuffer(level, onset, warm)
        PROVE  InstantInv'
    <3>1. filtered' = clock /\ lastFftTimestamp' = clock /\ lastFft' = FftAt(clock)
          /\ frame' = [frame EXCEPT !.valid = TRUE, !.timestamp = clock,
                                    !.fft = FftAt(clock)]
      BY <2>5 DEF ProcessBuffer
    <3>2. FftAt(clock) # None => FftAt(clock) = clock
      BY DEF FftAt, InstantInv
    <3>3. clock # None
      BY AudioAssumption DEF TypeOK
    <3> QED
      BY <3>1, <3>2, <3>3 DEF InstantInv, TypeOK, FrameType
  <2>6. CASE ProcessInvalid
    BY <2>6 DEF ProcessInvalid, InstantInv, TypeOK, FrameType
  <2>7. CASE Publish
    <3>1. frame'.valid = frame.valid /\ frame'.fft = frame.fft
          /\ frame'.timestamp = frame.timestamp
      BY <2>7 DEF Publish, TypeOK, FrameType
    <3> QED
      BY <2>1, <2>7, <3>1 DEF Publish
  <2> QED
    BY <2>2, <2>3, <2>4, <2>5, <2>6, <2>7 DEF Next, Ble, Capture, Drain
<1>3. InstantInv => OneInstant
  BY DEF InstantInv, OneInstant
<1> QED
  BY <1>1, <1>2, <1>3, TypeCorrect, PTL DEF Spec

-----------------------------------------------------------------------------
(* CeilingResets: a silence the leveler was on for clears prevGateOpen, so *)
(* the buffer that opens the gate again starts from a clean ceiling,       *)
(* however often the leveler is switched in between.                       *)
THEOREM CeilingCorrect == Spec => []CeilingResets
<1>1. Init => CeilingInv
  BY DEF Init, CeilingInv, CeilingResets
<1>2. TypeOK /\ CeilingInv /\ [Next]_vars => CeilingInv'
  <2> SUFFICES ASSUME TypeOK, CeilingInv, [Next]_vars PROVE CeilingInv'
    OBVIOUS
  <2> USE DEF controls, gates, fft, history
  <2>1. ASSUME ceiling' = ceiling, prevGateOpen' = prevGateOpen,
               leveled' = leveled \/ leveled' = FALSE
        PROVE  CeilingInv'
    BY <2>1 DEF CeilingInv, CeilingResets
  <2>2. CASE Ble
    BY <2>1, <2>2 DEF Ble, ToggleLeveler, ToggleAutoFloor
  <2>3. CASE Capture
    BY <2>1, <2>3 DEF Capture, Fail, Read, BeginFrame
  <2>4. ASSUME NEW level \in Level, NEW onset \in SUBSET Bus, NEW warm \in SUBSET Bus,
               ProcessBuffer(level, onset, warm)
        PROVE  CeilingInv'
    <3> DEFINE gate == Gate(level)
    <3>1. UpdateAvLeveler(gate)
      BY <2>4 DEF ProcessBuffer
    <3>2. gate \in BOOLEAN
      BY DEF Gate, TypeOK
    <3> HIDE DEF gate
    <3>3. CASE viz.avLeveler
      BY <3>1, <3>2, <3>3 DEF UpdateAvLeveler, CeilingInv, CeilingResets, TypeOK
    <3>4. CASE ~viz.avLeveler
      BY <3>1, <3>4 DEF UpdateAvLeveler, CeilingInv, CeilingResets
    <3> QED
      BY <3>3, <3>4
  <2>5. CASE ProcessInvalid
    BY <2>1, <2>5 DEF ProcessInvalid
  <2>6. CASE Publish
    BY <2>1, <2>6 DEF Publish
  <2>7. CASE UNCHANGED vars
    BY <2>1, <2>7 DEF vars
  <2> QED
    BY <2>2, <2>3, <2>4, <2>5, <2>6, <2>7 DEF Next, Drain
<1> QED
  BY <1>1, <1>2, TypeCorrect, PTL DEF Spec, CeilingInv
==============================================================================

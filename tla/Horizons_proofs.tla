-------------------------- MODULE Horizons_proofs --------------------------
(***************************************************************************)
(* Types, the cycle counter against the cycles that ran to their end, and  *)
(* the light a cycle departs from, for any clock, any scenes, durations    *)
(* and times, and any commands.                                            *)
(***************************************************************************)
EXTENDS Horizons, TLAPS

(***************************************************************************)
(* cycleCounter counts one start more than there are finished cycles.  A   *)
(* restart that checkTransitions() made itself has left it at 1, so the    *)
(* cycle that may begin in the same frame does not take it past the end.   *)
(***************************************************************************)
CountInv ==
  /\ cycleCounter \in 0 .. CyclesPerPalette /\ finished \in Nat /\ strobed \in BOOLEAN
  /\ firstRun <=> At("first")
  /\ firstRun => finished = 0 /\ ~strobed
  /\ ~firstRun /\ ~strobed => cycleCounter = finished + 1
  /\ At("due") => cycleCounter = 1

(***************************************************************************)
(* Types.  TypeOK is not inductive without the stores still to make, and   *)
(* its bound on cycleCounter is CountInv's.                                *)
(***************************************************************************)
Store == ({"flag"} \X Flag) \cup ({"cScene"} \X Scene) \cup ({"cDuration"} \X Duration)
         \cup ({"sceneManual", "timingManual"} \X BOOLEAN)

Steps == {"first", "rotate", "rotated", "restart", "restarting", "scene", "sceneLower",
          "sceneDone", "timing", "timingDone", "check", "due", "render"}

TypeInv ==
  /\ now \in 0 .. Wrap - 1
  /\ flags \subseteq Flag
  /\ sceneManual \in BOOLEAN /\ timingManual \in BOOLEAN
  /\ cScene \in Scene /\ cDuration \in Duration
  /\ todo \in Seq(Store) /\ commands \in 0 .. MaxCommands
  /\ pc \in Steps \X Panel
  /\ firstRun \in BOOLEAN
  /\ old \in [Panel -> Scene] /\ new \in [Panel -> Scene]
  /\ start \in 0 .. Wrap - 1 /\ nextCycleStart \in 0 .. Wrap - 1
  /\ setting \in Setting
  /\ shown \in {"none", "old", "brightening", "new"}

(***************************************************************************)
(* The clock.  After the first frame the due time is the one of the cycle  *)
(* that runs.  A frame that was not drawn in the full light of the new     *)
(* scene was drawn so early in a cycle that the next one is not due in the *)
(* frame after it.                                                         *)
(***************************************************************************)
ClockInv ==
  /\ firstRun => shown = "none"
  /\ ~firstRun => nextCycleStart = (start + CycleTime(setting) + NextCycleDelay(setting)) % Wrap
  /\ shown \in {"old", "brightening"} /\ ~Straddles => now <= nextCycleStart

-----------------------------------------------------------------------------
(* The palette's cycles.                                                   *)

USE DEF At, Goto

\* The steps that leave the counter alone and lead to no start of a cycle.
LEMMA CountQuiet ==
  ASSUME CountInv, UNCHANGED <<firstRun, cycleCounter, finished, strobed>>,
         ~At("first"), pc'[1] # "first", pc'[1] # "due"
  PROVE  CountInv'
  BY DEF CountInv

LEMMA CountStutter ==
  ASSUME CountInv, UNCHANGED <<pc, firstRun, cycleCounter, finished, strobed>>
  PROVE  CountInv'
  BY DEF CountInv

\* The first frame, and the restarts the user asks for.
LEMMA CountFirst == CountInv /\ FirstRun => CountInv'
  BY PaletteAssumption DEF CountInv, FirstRun, history

LEMMA CountRestart == CountInv /\ (TriggeredRestart \/ AutomaticRestart) => CountInv'
<1> SUFFICES ASSUME CountInv, TriggeredRestart \/ AutomaticRestart PROVE CountInv'
    OBVIOUS
<1>1. /\ ~firstRun' /\ pc'[1] # "first"
      /\ cycleCounter' = 1 /\ finished' = 0 /\ strobed' = FALSE
  BY DEF CountInv, TriggeredRestart, AutomaticRestart, Restart
<1>2. 1 \in 0 .. CyclesPerPalette
  BY PaletteAssumption
<1>3. strobed' \in BOOLEAN /\ ~strobed'
  BY <1>1, Zenon
<1>4. cycleCounter' \in 0 .. CyclesPerPalette /\ finished' \in Nat /\ cycleCounter' = finished' + 1
  BY <1>1, <1>2
<1> QED
  BY <1>1, <1>3, <1>4 DEF CountInv

\* A cycle that was due: the counter was 1, or was found below the end.
LEMMA CountNext == CountInv /\ NextCycle => CountInv'
<1> SUFFICES ASSUME CountInv, NextCycle PROVE CountInv'
    OBVIOUS
<1>1. cycleCounter' \in 0 .. CyclesPerPalette
  BY PaletteAssumption DEF CountInv, NextCycle, RestartIsSettled, PaletteIsDone
<1>2. strobed' \in BOOLEAN
  BY Zenon DEF NextCycle
<1>3. finished' \in Nat
  BY DEF CountInv, NextCycle
<1>4. ~firstRun' /\ pc'[1] = "render"
  BY DEF CountInv, NextCycle, RestartIsSettled
<1>5. ASSUME ~strobed' PROVE cycleCounter' = finished' + 1
  <2>1. ~strobed /\ ~firstRun
    BY <1>5, <1>4 DEF NextCycle
  <2> QED
    BY <1>5, <2>1 DEF CountInv, NextCycle
<1> QED
  BY <1>1, <1>2, <1>3, <1>4, <1>5 DEF CountInv

\* The other steps of applyTriggers().
LEMMA CountTriggers == CountInv /\ ApplyTriggers => CountInv'
<1> SUFFICES ASSUME CountInv, ApplyTriggers PROVE CountInv'
    OBVIOUS
<1> USE CountQuiet DEF program, history, AfterTriggers, Lower
<1>1. CASE NoTrigger \/ EndTriggers \/ ClearTiming
  BY <1>1 DEF NoTrigger, EndTriggers, ClearTiming
<1>2. CASE Rotate \/ TriggerRestart
  BY <1>2 DEF Rotate, TriggerRestart, Clear
<1>3. CASE \/ flags # {} /\ Skip("rotate", RotateFlag, "restart")
           \/ Skip("restart", "restart", "scene") \/ Skip("scene", "updateScene", "timing")
  BY <1>3 DEF Skip
<1>4. CASE Clear("rotated", RotateFlag, "restart") \/ Clear("sceneDone", "updateScene", "timing")
  BY <1>4 DEF Clear
<1>5. CASE UpdateUpper \/ UpdateLower
  BY <1>5 DEF UpdateUpper, UpdateLower
<1>6. CASE UpdateTiming
  BY <1>6 DEF UpdateTiming, CountOfRetimed
<1>7. CASE TriggeredRestart
  BY <1>7, CountRestart
<1> QED
  BY <1>1, <1>2, <1>3, <1>4, <1>5, <1>6, <1>7 DEF ApplyTriggers

LEMMA CountStep == CountInv /\ [Next]_vars => CountInv'
<1> SUFFICES ASSUME CountInv, [Next]_vars PROVE CountInv'
    OBVIOUS
<1>1. CASE Ble
  BY <1>1, CountStutter DEF Ble, PressTrigger, SendScene, SendDuration, SendSceneManual,
     SendTimingManual, LoadPreset, Callback, program, history
<1>2. CASE MakeStore \/ Away \/ UNCHANGED vars
  BY <1>2, CountStutter DEF MakeStore, Away, vars, program, history
<1>3. CASE FirstRun \/ ApplyTriggers
  BY <1>3, CountFirst, CountTriggers
<1>4. CASE AutomaticRestart \/ NextCycle
  BY <1>4, CountRestart, CountNext
<1>5. CASE NotDue
  BY <1>5, CountQuiet DEF NotDue, RestartIsSettled, program, history
<1>6. CASE Render
  BY <1>6, CountQuiet DEF Render, program
<1> QED
  BY <1>1, <1>2, <1>3, <1>4, <1>5, <1>6 DEF Next, Loop, CheckTransitions

LEMMA CountInit == Init => CountInv
<1> SUFFICES ASSUME Init PROVE CountInv
    OBVIOUS
<1>1. pc[1] = "first" /\ firstRun = TRUE
  BY DEF Init
<1>2. cycleCounter = 0 /\ finished = 0 /\ strobed = FALSE
  BY DEF Init
<1>3. strobed \in BOOLEAN /\ ~strobed /\ firstRun
  BY <1>1, <1>2, Zenon
<1>4. cycleCounter \in 0 .. CyclesPerPalette /\ finished \in Nat /\ finished = 0
  BY <1>2, PaletteAssumption
<1> QED
  BY <1>1, <1>3, <1>4 DEF CountInv

LEMMA Invariance == Spec => []CountInv
  BY CountInit, CountStep, PTL DEF Spec

(***************************************************************************)
(* A palette changes by itself exactly when its cycles have run: no        *)
(* trigger, setting, preset, visit of another program or interleaving with *)
(* the host makes it come early or late, unless the wrap of millis() cut a *)
(* cycle short (horizons_detail.hpp:387-396).                              *)
(***************************************************************************)
THEOREM PaletteCorrect == Spec => PaletteLastsItsCycles
<1>1. CountInv /\ [Next]_vars
        => [AutomaticRestart /\ ~strobed => finished = CyclesPerPalette - 1]_vars
  <2> SUFFICES ASSUME CountInv, AutomaticRestart, ~strobed
               PROVE  finished = CyclesPerPalette - 1
      OBVIOUS
  <2> QED
    BY PaletteAssumption DEF CountInv, AutomaticRestart, PaletteIsDone
<1> QED
  BY <1>1, Invariance, PTL DEF Spec, PaletteLastsItsCycles

-----------------------------------------------------------------------------
(* Types.                                                                  *)

LEMMA ModTypes ==
  ASSUME NEW n \in Nat
  PROVE  n % Wrap \in 0 .. Wrap - 1
  BY ClockAssumption

LEMMA TimeTypes ==
  ASSUME NEW s \in Setting
  PROVE  /\ CycleTime(s) \in Nat /\ NextCycleDelay(s) \in Nat
         /\ RiseTime[s] \in Nat /\ HoldTime[s] \in Nat
         /\ CycleTime(s) = RiseTime[s] + HoldTime[s] + RiseTime[s]
         /\ NextCycleDelay(s) = HoldTime[s]
  BY SettingAssumption DEF CycleTime, NextCycleDelay

\* A started cycle has a start, a due time and the setting of its times.
LEMMA StartType ==
  ASSUME TypeInv, NEW s \in Scene, StartLightCycle(s)
  PROVE  start' \in 0 .. Wrap - 1 /\ nextCycleStart' \in 0 .. Wrap - 1 /\ setting' \in Setting
<1>1. setting' \in Setting
  BY DEF StartLightCycle, TypeInv, Setting
<1>2. now + CycleTime(setting') + NextCycleDelay(setting') \in Nat
  BY <1>1, TimeTypes, ClockAssumption DEF TypeInv
<1> QED
  BY <1>1, <1>2, ModTypes DEF StartLightCycle, Due, TypeInv

LEMMA NewCycleType ==
  ASSUME TypeInv, StartNewCycle
  PROVE  /\ old' \in [Panel -> Scene] /\ new' \in [Panel -> Scene]
         /\ start' \in 0 .. Wrap - 1 /\ nextCycleStart' \in 0 .. Wrap - 1 /\ setting' \in Setting
<1>1. old' \in [Panel -> Scene] /\ new' \in [Panel -> Scene]
  BY DEF StartNewCycle, NewScenes, TypeInv
<1>2. new'["upper"] \in Scene
  BY <1>1 DEF Panel
<1> QED
  BY <1>1, <1>2, StartType DEF StartNewCycle

LEMMA StoreTypes ==
  /\ \A f \in Flag : <<"flag", f>> \in Store
  /\ \A s \in Scene : <<"cScene", s>> \in Store
  /\ \A d \in Duration : <<"cDuration", d>> \in Store
  /\ \A b \in BOOLEAN : <<"sceneManual", b>> \in Store /\ <<"timingManual", b>> \in Store
  BY DEF Store

\* One store of a callback.
LEMMA MakeType ==
  ASSUME TypeInv, NEW store \in Store, Make(store)
  PROVE  /\ flags' \subseteq Flag
         /\ sceneManual' \in BOOLEAN /\ timingManual' \in BOOLEAN
         /\ cScene' \in Scene /\ cDuration' \in Duration
  BY DEF Make, Stored, Store, TypeInv

LEMMA CallbackType ==
  ASSUME TypeInv, NEW stores \in Seq(Store), stores # <<>>, Callback(stores)
  PROVE  TypeInv'
<1>1. Head(stores) \in Store /\ Tail(stores) \in Seq(Store)
  OBVIOUS
<1>2. Make(Head(stores)) /\ todo' = Tail(stores)
  BY DEF Callback
<1>3. commands' \in 0 .. MaxCommands
  BY ClockAssumption DEF Callback, TypeInv
<1> QED
  BY <1>1, <1>2, <1>3, MakeType DEF Callback, TypeInv, program, cycle, history

LEMMA BleType ==
  ASSUME TypeInv, Ble
  PROVE  TypeInv'
<1>s. \A a, b \in Store : /\ <<a>> \in Seq(Store) /\ <<a>> # <<>>
                            /\ <<a, b>> \in Seq(Store) /\ <<a, b>> # <<>>
  OBVIOUS
<1>f. {"rotateUpper", "rotateLower", "restart", "updateScene", "updateCycleTiming"} = Flag
  BY DEF Flag
<1>1. CASE PressTrigger
  BY <1>1, <1>s, <1>f, StoreTypes, CallbackType DEF PressTrigger
<1>2. CASE SendScene
  BY <1>2, <1>s, <1>f, StoreTypes, CallbackType DEF SendScene
<1>3. CASE SendDuration
  BY <1>3, <1>s, <1>f, StoreTypes, CallbackType DEF SendDuration
<1>4. CASE SendSceneManual
  BY <1>4, <1>s, <1>f, StoreTypes, CallbackType DEF SendSceneManual
<1>5. CASE SendTimingManual
  BY <1>5, <1>s, <1>f, StoreTypes, CallbackType DEF SendTimingManual
<1>6. CASE LoadPreset
  BY <1>6, <1>s, <1>f, StoreTypes, CallbackType DEF LoadPreset
<1> QED
  BY <1>1, <1>2, <1>3, <1>4, <1>5, <1>6 DEF Ble

LEMMA MakeStoreType ==
  ASSUME TypeInv, MakeStore
  PROVE  TypeInv'
<1>1. todo # <<>> /\ Head(todo) \in Store /\ Tail(todo) \in Seq(Store)
  BY DEF MakeStore, TypeInv
<1> QED
  BY <1>1, MakeType DEF MakeStore, TypeInv, program, cycle, history

LEMMA StepTypes ==
  /\ \A step \in Steps, p \in Panel : <<step, p>> \in Steps \X Panel
  /\ \A q \in Steps \X Panel : q[2] \in Panel
  /\ AfterTriggers \in Steps \X Panel
  /\ {"first", "rotate", "rotated", "restart", "restarting", "scene", "sceneLower",
      "sceneDone", "timing", "timingDone", "check", "due", "render"} = Steps
  /\ "upper" \in Panel /\ "lower" \in Panel
  BY DEF AfterTriggers, Steps, Panel

LEMMA TriggersType ==
  ASSUME TypeInv, ApplyTriggers
  PROVE  TypeInv'
<1>1. CASE NoTrigger \/ EndTriggers
  BY <1>1, StepTypes DEF NoTrigger, EndTriggers, TypeInv, settings, host, program, cycle, history
<1>2. CASE ClearTiming
  BY <1>2, StepTypes DEF ClearTiming, Lower, TypeInv, host, program, cycle, history
<1>3. CASE \/ flags # {} /\ Skip("rotate", RotateFlag, "restart")
           \/ Skip("restart", "restart", "scene") \/ Skip("scene", "updateScene", "timing")
  <2>1. pc' \in Steps \X Panel
    BY <1>3, StepTypes DEF Skip, TypeInv
  <2> QED
    BY <1>3, <2>1 DEF Skip, TypeInv, settings, host, program, cycle, history
<1>4. CASE Rotate
  <2>1. pc' \in Steps \X Panel
    BY <1>4, StepTypes DEF Rotate, TypeInv
  <2> QED
    BY <1>4, <2>1 DEF Rotate, TypeInv, settings, host, program, cycle, history
<1>5. CASE \/ Clear("rotated", RotateFlag, "restart") \/ Clear("sceneDone", "updateScene", "timing")
           \/ TriggerRestart
  <2>1. pc' \in Steps \X Panel
    BY <1>5, StepTypes DEF Clear, TriggerRestart, TypeInv
  <2> QED
    BY <1>5, <2>1 DEF Clear, TriggerRestart, Lower, TypeInv, host, program, cycle, history
<1>6. CASE TriggeredRestart
  <2>1. pc' \in Steps \X Panel
    BY <1>6, StepTypes DEF TriggeredRestart, TypeInv
  <2> QED
    BY <1>6, <2>1, NewCycleType DEF TriggeredRestart, Restart, TypeInv, settings, host
<1>7. CASE UpdateUpper
  <2>1. pc' \in Steps \X Panel
    BY <1>7, StepTypes DEF UpdateUpper, TypeInv
  <2>2. new' \in [Panel -> Scene]
    BY <1>7 DEF UpdateUpper, ScenesFor, TypeInv
  <2> QED
    BY <1>7, <2>1, <2>2 DEF UpdateUpper, TypeInv, settings, host, cycle, history
<1>8. CASE UpdateLower
  <2>1. pc' \in Steps \X Panel
    BY <1>8, StepTypes DEF UpdateLower, TypeInv
  <2>2. new' \in [Panel -> Scene]
    BY <1>8 DEF UpdateLower, ScenesFor, TypeInv
  <2> QED
    BY <1>8, <2>1, <2>2 DEF UpdateLower, TypeInv, settings, host, cycle
<1>9. CASE UpdateTiming
  <2>1. pc' \in Steps \X Panel
    BY <1>9, StepTypes DEF UpdateTiming, TypeInv
  <2>2. new["upper"] \in Scene
    BY StepTypes DEF TypeInv
  <2>3. start' \in 0 .. Wrap - 1 /\ nextCycleStart' \in 0 .. Wrap - 1 /\ setting' \in Setting
    BY <1>9, <2>2, StartType DEF UpdateTiming
  <2> QED
    BY <1>9, <2>1, <2>3 DEF UpdateTiming, TypeInv, settings, host
<1> QED
  BY <1>1, <1>2, <1>3, <1>4, <1>5, <1>6, <1>7, <1>8, <1>9 DEF ApplyTriggers

LEMMA FrameType ==
  ASSUME TypeInv, Away \/ FirstRun \/ CheckTransitions \/ Render
  PROVE  TypeInv'
<1>1. CASE Away
  BY <1>1 DEF Away, TypeInv, settings, host, program, cycle
<1>2. CASE FirstRun
  <2>1. pc' \in Steps \X Panel
    BY <1>2, StepTypes DEF FirstRun, TypeInv
  <2>2. new'["upper"] \in Scene
    BY <1>2, StepTypes DEF FirstRun
  <2>3. start' \in 0 .. Wrap - 1 /\ nextCycleStart' \in 0 .. Wrap - 1 /\ setting' \in Setting
    BY <1>2, <2>2, StartType DEF FirstRun
  <2> QED
    BY <1>2, <2>1, <2>3 DEF FirstRun, TypeInv, settings, host, history
<1>3. CASE AutomaticRestart
  <2>1. pc' \in Steps \X Panel
    BY <1>3, StepTypes DEF AutomaticRestart, TypeInv
  <2> QED
    BY <1>3, <2>1, NewCycleType DEF AutomaticRestart, Restart, TypeInv, settings, host
<1>4. CASE NextCycle
  <2>1. pc' \in Steps \X Panel
    BY <1>4, StepTypes DEF NextCycle, TypeInv
  <2> QED
    BY <1>4, <2>1, NewCycleType DEF NextCycle, TypeInv, settings, host
<1>5. CASE NotDue
  <2>1. pc' \in Steps \X Panel
    BY <1>5, StepTypes DEF NotDue, TypeInv
  <2> QED
    BY <1>5, <2>1 DEF NotDue, TypeInv, settings, host, program, cycle, history
<1>6. CASE Render
  <2>1. pc' \in Steps \X Panel
    BY <1>6, StepTypes DEF Render
  <2>2. PICK d \in 1 .. MaxFrame : now' = (now + d) % Wrap
    BY <1>6 DEF Render
  <2>3. now' \in 0 .. Wrap - 1
    <3>1. now \in Nat /\ d \in Nat
      BY ClockAssumption DEF TypeInv
    <3>2. now + d \in Nat
      BY <3>1
    <3> QED
      BY <2>2, <3>2, ModTypes
  <2>4. shown' \in {"none", "old", "brightening", "new"}
    BY <1>6 DEF Render, Light
  <2> QED
    BY <1>6, <2>1, <2>3, <2>4 DEF Render, TypeInv, settings, host, program, cycle
<1> QED
  BY <1>1, <1>2, <1>3, <1>4, <1>5, <1>6 DEF CheckTransitions

LEMMA TypeInit == Init => TypeInv
<1> SUFFICES ASSUME Init PROVE TypeInv
  OBVIOUS
<1>1. 0 \in 0 .. Wrap - 1 /\ 0 \in 0 .. MaxCommands
  BY ClockAssumption
<1>2. pc \in Steps \X Panel /\ flags \subseteq Flag /\ <<>> \in Seq(Store)
  BY StepTypes, BootAssumption DEF Init, Flag
<1>3. PICK s \in Scene : old = [p \in Panel |-> s] /\ new = [p \in Panel |-> s] /\ setting = s
  BY DEF Init
<1>4. old \in [Panel -> Scene] /\ new \in [Panel -> Scene] /\ setting \in Setting
  BY <1>3 DEF Setting
<1>5. cScene \in Scene /\ cDuration \in Duration /\ firstRun \in BOOLEAN
      /\ sceneManual \in BOOLEAN /\ timingManual \in BOOLEAN
  BY SettingAssumption DEF Init
<1> QED
  BY <1>1, <1>2, <1>4, <1>5 DEF Init, TypeInv

LEMMA TypeStep == TypeInv /\ [Next]_vars => TypeInv'
<1>1. TypeInv /\ UNCHANGED vars => TypeInv'
  BY DEF TypeInv, vars, settings, host, program, cycle, history
<1> QED
  BY <1>1, BleType, MakeStoreType, TriggersType, FrameType DEF Next, Loop

(***************************************************************************)
(* Every reachable state is well typed; in particular cycleCounter never   *)
(* passes the cycles of a palette, from whichever of its four places it is *)
(* counted.                                                                *)
(***************************************************************************)
THEOREM TypeCorrect == Spec => []TypeOK
<1>1. TypeInv /\ CountInv => TypeOK
  BY StepTypes DEF TypeInv, CountInv, TypeOK
<1> QED
  BY TypeInit, TypeStep, Invariance, <1>1, PTL DEF Spec

-----------------------------------------------------------------------------
(* The light.                                                              *)

\* Modulo one round of the clock.
LEMMA WrapOnce ==
  ASSUME NEW n \in Nat, n < Wrap + Wrap
  PROVE  n % Wrap = IF n < Wrap THEN n ELSE n - Wrap
<1>1. Wrap \in Nat \ {0}
  BY ClockAssumption
<1>2. CASE n < Wrap
  BY <1>1, <1>2
<1>3. CASE n >= Wrap
  BY <1>1, <1>3
<1> QED
  BY <1>1, <1>2, <1>3

\* A cycle whose due time does not cross the wrap is due later than now.
LEMMA StartedNow ==
  ASSUME TypeInv, NEW s \in Scene, StartLightCycle(s)
  PROVE  /\ nextCycleStart' = (start' + CycleTime(setting') + NextCycleDelay(setting')) % Wrap
         /\ ~Straddles' => now <= nextCycleStart'
<1>1. start' \in 0 .. Wrap - 1 /\ nextCycleStart' \in 0 .. Wrap - 1 /\ start' = now
  BY StartType DEF StartLightCycle
<1> QED
  BY <1>1, ClockAssumption DEF StartLightCycle, Due, Straddles

\* A frame on the way to the new light: the next one comes before the cycle is due.
LEMMA HalfLightIsEarly ==
  ASSUME TypeInv, ~Straddles, NEW d \in 1 .. MaxFrame,
         nextCycleStart = (start + CycleTime(setting) + NextCycleDelay(setting)) % Wrap,
         Elapsed < CycleTime(setting)
  PROVE  (now + d) % Wrap <= nextCycleStart
<1> DEFINE rise == RiseTime[setting]
           hold == HoldTime[setting]
<1>1. /\ now \in Nat /\ now < Wrap /\ start \in Nat /\ start < Wrap
      /\ nextCycleStart \in Nat /\ nextCycleStart < Wrap /\ start <= nextCycleStart
      /\ Wrap \in Nat \ {0} /\ rise \in Nat /\ hold \in Nat
      /\ d \in Nat /\ d <= hold
      /\ rise + hold + rise + hold < Wrap
      /\ nextCycleStart = (start + rise + hold + rise + hold) % Wrap
  <2>1. setting \in Setting
    BY DEF TypeInv
  <2>2. /\ CycleTime(setting) = rise + hold + rise /\ NextCycleDelay(setting) = hold
        /\ rise \in Nat /\ hold \in Nat
    BY <2>1, TimeTypes
  <2>3. CycleTime(setting) + NextCycleDelay(setting) < Wrap /\ MaxFrame <= hold
        /\ MaxFrame \in Nat /\ Wrap \in Nat \ {0}
    BY <2>1, <2>2, ClockAssumption
  <2> HIDE DEF rise, hold
  <2>4. /\ now \in Nat /\ now < Wrap /\ start \in Nat /\ start < Wrap
        /\ nextCycleStart \in Nat /\ nextCycleStart < Wrap /\ start <= nextCycleStart
    BY <2>3 DEF TypeInv, Straddles
  <2>5. nextCycleStart = (start + rise + hold + rise + hold) % Wrap
    <3>1. start + CycleTime(setting) + NextCycleDelay(setting) = start + rise + hold + rise + hold
      BY <2>2, <2>4
    <3> QED
      BY <3>1
  <2> QED
    BY <2>2, <2>3, <2>4, <2>5
<1>2. (now + Wrap - start) % Wrap < rise + hold + rise
  <2>1. setting \in Setting
    BY DEF TypeInv
  <2>2. CycleTime(setting) = rise + hold + rise
    BY <2>1, TimeTypes
  <2> HIDE DEF rise, hold
  <2> QED
    BY <2>2 DEF Elapsed
<1> HIDE DEF rise, hold
<1>3. nextCycleStart = start + rise + hold + rise + hold
  <2>1. start + rise + hold + rise + hold \in Nat
        /\ start + rise + hold + rise + hold < Wrap + Wrap
    BY <1>1
  <2> QED
    BY <1>1, <2>1, WrapOnce
<1>4. now >= start /\ now - start < rise + hold + rise
  <2>1. now + Wrap - start \in Nat /\ now + Wrap - start < Wrap + Wrap
    BY <1>1
  <2> DEFINE n == now + Wrap - start
  <2>2. n \in Nat /\ n < Wrap + Wrap
    BY <2>1
  <2> HIDE DEF n
  <2>3. n % Wrap = IF n < Wrap THEN n ELSE n - Wrap
    BY <2>2, WrapOnce
  <2> QED
    BY <1>1, <1>2, <1>3, <2>3 DEF n
<1>5. now + d \in Nat /\ now + d <= nextCycleStart
  BY <1>1, <1>3, <1>4
<1>6. (now + d) % Wrap = now + d
  BY <1>1, <1>5, WrapOnce
<1> QED
  BY <1>5, <1>6

LEMMA ClockQuiet ==
  ASSUME ClockInv, UNCHANGED <<now, firstRun, cycle, shown>>
  PROVE  ClockInv'
  BY DEF ClockInv, Straddles, cycle

\* What the user asked for, and other programs.
LEMMA ClockGone ==
  ASSUME ClockInv, UNCHANGED <<firstRun, cycle>>, shown' = "none"
  PROVE  ClockInv'
  BY DEF ClockInv, cycle

LEMMA ClockStarted ==
  ASSUME TypeInv, NEW s \in Scene, StartLightCycle(s), now' = now, ~firstRun'
  PROVE  ClockInv'
<1>1. start' = now
  BY DEF StartLightCycle
<1> QED
  BY <1>1, StartedNow DEF ClockInv

LEMMA ClockTriggers ==
  ASSUME TypeInv, CountInv, ClockInv, ApplyTriggers
  PROVE  ClockInv'
<1>1. CASE NoTrigger \/ EndTriggers \/ Rotate
  BY <1>1, ClockQuiet DEF NoTrigger, EndTriggers, Rotate, program, history
<1>2. CASE \/ flags # {} /\ Skip("rotate", RotateFlag, "restart")
           \/ Skip("restart", "restart", "scene") \/ Skip("scene", "updateScene", "timing")
  BY <1>2, ClockQuiet DEF Skip, program, history
<1>3. CASE \/ Clear("rotated", RotateFlag, "restart") \/ Clear("sceneDone", "updateScene", "timing")
           \/ TriggerRestart \/ ClearTiming
  BY <1>3, ClockQuiet DEF Clear, TriggerRestart, ClearTiming, Lower, program, history
<1>4. CASE UpdateUpper
  BY <1>4, ClockQuiet DEF UpdateUpper, history
<1>5. CASE UpdateLower
  BY <1>5, ClockGone DEF UpdateLower
<1>6. CASE TriggeredRestart
  <2>1. new'["upper"] \in Scene
    BY <1>6, NewCycleType, StepTypes DEF TriggeredRestart, Restart
  <2>2. ~firstRun' /\ now' = now
    BY <1>6 DEF TriggeredRestart, CountInv
  <2> QED
    BY <1>6, <2>1, <2>2, ClockStarted DEF TriggeredRestart, Restart, StartNewCycle
<1>7. CASE UpdateTiming
  <2>1. new["upper"] \in Scene
    BY StepTypes DEF TypeInv
  <2>2. ~firstRun' /\ now' = now
    BY <1>7 DEF UpdateTiming, CountInv
  <2> QED
    BY <1>7, <2>1, <2>2, ClockStarted DEF UpdateTiming
<1> QED
  BY <1>1, <1>2, <1>3, <1>4, <1>5, <1>6, <1>7 DEF ApplyTriggers

\* A cycle that runHorizons() starts by itself.
LEMMA ClockCycle ==
  ASSUME TypeInv, CountInv, FirstRun \/ AutomaticRestart \/ NextCycle
  PROVE  ClockInv'
<1>1. ~firstRun' /\ now' = now
  <2>1. CASE FirstRun
    BY <2>1 DEF FirstRun
  <2>2. CASE AutomaticRestart \/ NextCycle
    BY <2>2 DEF AutomaticRestart, NextCycle, RestartIsSettled, CountInv
  <2> QED
    BY <2>1, <2>2
<1>2. new'["upper"] \in Scene /\ StartLightCycle(new'["upper"])
  <2>1. CASE FirstRun
    BY <2>1, StepTypes DEF FirstRun
  <2>2. CASE AutomaticRestart \/ NextCycle
    BY <2>2, NewCycleType, StepTypes DEF AutomaticRestart, NextCycle, Restart, StartNewCycle
  <2> QED
    BY <2>1, <2>2
<1> QED
  BY <1>1, <1>2, ClockStarted

\* A frame is drawn; the next one comes after MaxFrame at the latest.
LEMMA ClockFrame ==
  ASSUME TypeInv, CountInv, ClockInv, Render
  PROVE  ClockInv'
<1>1. /\ ~firstRun /\ ~firstRun'
      /\ start' = start /\ setting' = setting /\ nextCycleStart' = nextCycleStart
  BY DEF Render, CountInv, program, cycle
<1>2. nextCycleStart = (start + CycleTime(setting) + NextCycleDelay(setting)) % Wrap
  BY <1>1 DEF ClockInv
<1>3. ASSUME shown' \in {"old", "brightening"}, ~Straddles
      PROVE  now' <= nextCycleStart
  <2>1. Elapsed < CycleTime(setting)
    <3>1. setting \in Setting
      BY DEF TypeInv
    <3>2. RiseTime[setting] + HoldTime[setting] <= CycleTime(setting)
      BY <3>1, TimeTypes
    <3>3. Elapsed \in Nat
      <4>1. now + Wrap - start \in Nat
        BY ClockAssumption DEF TypeInv
      <4> QED
        BY <4>1, ModTypes, ClockAssumption DEF Elapsed
    <3>4. CycleTime(setting) \in Nat /\ RiseTime[setting] + HoldTime[setting] \in Nat
      BY <3>1, TimeTypes
    <3>5. \/ Elapsed < RiseTime[setting] + HoldTime[setting]
          \/ Elapsed < CycleTime(setting)
      BY <1>3 DEF Render, Light
    <3> QED
      BY <3>2, <3>3, <3>4, <3>5
  <2>2. PICK d \in 1 .. MaxFrame : now' = (now + d) % Wrap
    BY DEF Render
  <2> QED
    BY <1>2, <1>3, <2>1, <2>2, HalfLightIsEarly
<1> QED
  BY <1>1, <1>2, <1>3 DEF ClockInv, Straddles

LEMMA ClockStep == TypeInv /\ CountInv /\ ClockInv /\ [Next]_vars => ClockInv'
<1> SUFFICES ASSUME TypeInv, CountInv, ClockInv, [Next]_vars PROVE ClockInv'
    OBVIOUS
<1>1. CASE Ble
  BY <1>1, ClockQuiet DEF Ble, PressTrigger, SendScene, SendDuration, SendSceneManual,
     SendTimingManual, LoadPreset, Callback, program, history
<1>2. CASE MakeStore \/ NotDue \/ UNCHANGED vars
  BY <1>2, ClockQuiet DEF MakeStore, NotDue, vars, program, history
<1>3. CASE Away
  BY <1>3, ClockGone DEF Away, program
<1>4. CASE ApplyTriggers
  BY <1>4, ClockTriggers
<1>5. CASE FirstRun \/ AutomaticRestart \/ NextCycle
  BY <1>5, ClockCycle
<1>6. CASE Render
  BY <1>6, ClockFrame
<1> QED
  BY <1>1, <1>2, <1>3, <1>4, <1>5, <1>6 DEF Next, Loop, CheckTransitions

LEMMA ClockInit == Init => ClockInv
<1> SUFFICES ASSUME Init PROVE ClockInv
    OBVIOUS
<1>1. firstRun = TRUE /\ shown = "none"
  BY DEF Init
<1>2. firstRun
  BY <1>1, Zenon
<1> QED
  BY <1>1, <1>2 DEF ClockInv

(***************************************************************************)
(* A cycle that was due departs from the light its panels show, whatever   *)
(* the times of its scene or its duration, the frame rate up to MaxFrame,  *)
(* and the order of triggers, settings, presets and visits of other        *)
(* programs (horizons_detail.hpp:237-283, 387-400).                        *)
(***************************************************************************)
THEOREM LightCorrect == Spec => CycleDepartsFromWhatIsShown
<1>1. TypeInv /\ ClockInv /\ [Next]_vars
        => [NextCycle /\ ~Straddles /\ shown # "none" => shown = "new" /\ old' = new]_vars
  <2> SUFFICES ASSUME TypeInv, ClockInv, NextCycle, ~Straddles, shown # "none"
               PROVE  shown = "new" /\ old' = new
      OBVIOUS
  <2>1. old' = new
    BY DEF NextCycle, StartNewCycle, NewScenes
  <2>2. now > nextCycleStart /\ now \in 0 .. Wrap - 1 /\ nextCycleStart \in 0 .. Wrap - 1
    BY DEF NextCycle, IsDue, TypeInv
  <2>3. shown \notin {"old", "brightening"}
    BY <2>2, ClockAssumption DEF ClockInv
  <2> QED
    BY <2>1, <2>3 DEF TypeInv
<1> QED
  BY <1>1, TypeInit, TypeStep, Invariance, ClockInit, ClockStep, PTL
  DEF Spec, CycleDepartsFromWhatIsShown
=============================================================================

------------------------------ MODULE Horizons ------------------------------
(***************************************************************************)
(* The horizons program (programs/horizons_detail.hpp): a light cycle that *)
(* dims from the light values of the old scene to its dark values, holds,  *)
(* and brightens to the light values of a new scene; a palette for a       *)
(* number of cycles; and the buttons and settings the BLE task sends it    *)
(* through five unlocked flags (bleControl.h).                             *)
(*                                                                         *)
(* Time is the 32-bit millis(), modulo Wrap here.  runHorizons() is cut    *)
(* where it reads or clears a flag: the host may store between the two.    *)
(* A frame is drawn at one instant.  startNewCycle() and restart() are one *)
(* step each: what they read of a setting stored meanwhile is as if it had *)
(* been stored just before or just after.  Which palettes the two panels   *)
(* show, and their rows of pixels, are left out.                           *)
(***************************************************************************)
EXTENDS Naturals, Sequences

CONSTANTS
  Wrap,             \* 2^32: millis() counts modulo this
  MaxFrame,         \* the longest time from one frame to the next
  MaxCommands,      \* bound: how many commands the host sends
  Scene,            \* pairs of a lightBias and a dramaScale
  Duration,         \* values of cCycleDuration, after constrain(1, 10)
  BootScene, BootDuration,  \* what the host left before the first frame
  BootFlags,        \* the flags it may have raised by then
  BootManual,       \* and what it may have made of the two manual switches
  RiseTime, HoldTime,  \* of a scene (automatic) or a duration (manual); it
                       \* falls as long as it rises and pauses as it holds
  CyclesPerPalette

Setting == Scene \cup Duration
CycleTime(s) == RiseTime[s] + HoldTime[s] + RiseTime[s]
NextCycleDelay(s) == HoldTime[s]

ASSUME SettingAssumption ==
  /\ BootScene \in Scene /\ BootDuration \in Duration
  /\ RiseTime \in [Setting -> Nat] /\ HoldTime \in [Setting -> Nat]
ASSUME ClockAssumption ==
  /\ Wrap \in Nat \ {0} /\ MaxFrame \in Nat \ {0} /\ MaxCommands \in Nat
  /\ \A s \in Setting : /\ CycleTime(s) + NextCycleDelay(s) < Wrap
                         /\ MaxFrame <= NextCycleDelay(s)
ASSUME BootAssumption ==
  /\ BootFlags \subseteq {"rotateUpper", "rotateLower", "restart", "updateScene", "updateCycleTiming"}
  /\ BootManual \subseteq BOOLEAN \X BOOLEAN
ASSUME PaletteAssumption == CyclesPerPalette \in Nat \ {0, 1}

Panel == {"upper", "lower"}
Flag  == {"rotateUpper", "rotateLower", "restart", "updateScene", "updateCycleTiming"}

VARIABLES
  now,              \* fl::millis()
  \* Stored by the host, read by the program
  flags,            \* the trigger flags that are true
  sceneManual,      \* sceneManualMode
  timingManual,     \* cycleDurationManualMode
  cScene,           \* cLightBias and cDramaScale
  cDuration,        \* cCycleDuration
  todo,             \* stores the running callback has not made yet
  commands,         \* how many commands were sent
  \* The program
  pc,               \* the next step of runHorizons(), and the panel of applyTriggers
  firstRun,
  cycleCounter,
  old, new,         \* per panel: the scene behind the ...Old and ...New gradients
  start,            \* when the TimeRamp was triggered
  setting,          \* what its times were computed from
  nextCycleStart,
  \* History
  shown,            \* what lit the last frame: the old scene (dimming or dark), the
                    \* way from its dark values to the new one, the new, or none
  finished,         \* cycles that ran to their end since the last restart,
  strobed           \* unless the wrap of the clock cut one short

settings == <<flags, sceneManual, timingManual, cScene, cDuration>>
host     == <<todo, commands>>
cycle    == <<start, setting, nextCycleStart>>
program  == <<firstRun, cycleCounter, old, new, cycle>>
history  == <<shown, finished, strobed>>
vars     == <<now, settings, host, pc, program, history>>

\* The panels are set up by the first frame.  The settings and the flags are
\* what the host made of them while other programs were shown: a switch turned
\* on has raised its flag, and nobody has lowered one.
Init ==
  /\ now = 0
  /\ flags \in SUBSET BootFlags
  /\ sceneManual \in BOOLEAN /\ timingManual \in BOOLEAN
  /\ <<sceneManual, timingManual>> \in BootManual
  /\ sceneManual => "updateScene" \in flags
  /\ timingManual => "updateCycleTiming" \in flags
  /\ cScene = BootScene /\ cDuration = BootDuration
  /\ todo = <<>> /\ commands = 0
  /\ pc = <<"first", "upper">>
  /\ firstRun = TRUE
  /\ cycleCounter = 0
  /\ \E s \in Scene :
       old = [p \in Panel |-> s] /\ new = [p \in Panel |-> s] /\ setting = s
  /\ start = 0 /\ nextCycleStart = 0
  /\ shown = "none" /\ finished = 0 /\ strobed = FALSE

-----------------------------------------------------------------------------
(* NimBLE host task: a callback is a sequence of stores, the first of      *)
(* which begins it.                                                        *)

Stored(store, name, value) == IF store[1] = name THEN store[2] ELSE value

Make(store) ==
  /\ flags' = flags \cup {f \in Flag : store = <<"flag", f>>}
  /\ sceneManual' = Stored(store, "sceneManual", sceneManual)
  /\ timingManual' = Stored(store, "timingManual", timingManual)
  /\ cScene' = Stored(store, "cScene", cScene)
  /\ cDuration' = Stored(store, "cDuration", cDuration)

Callback(stores) ==
  /\ todo = <<>> /\ commands < MaxCommands
  /\ commands' = commands + 1
  /\ Make(Head(stores)) /\ todo' = Tail(stores)
  /\ UNCHANGED <<now, pc, program, history>>

MakeStore ==
  /\ todo # <<>>
  /\ Make(Head(todo)) /\ todo' = Tail(todo)
  /\ UNCHANGED <<now, commands, pc, program, history>>

\* Buttons 151, 152 and 153.
PressTrigger == \E f \in {"rotateUpper", "rotateLower", "restart"} :
  Callback(<< <<"flag", f>> >>)
\* inLightBias, inDramaScale.
SendScene == \E s \in Scene : Callback(<< <<"cScene", s>>, <<"flag", "updateScene">> >>)
\* inCycleDuration raises no flag.
SendDuration == \E d \in Duration : Callback(<< <<"cDuration", d>> >>)
\* cx12 and cx13.
SendSceneManual == \E b \in BOOLEAN :
  Callback(<< <<"sceneManual", b>>, <<"flag", "updateScene">> >>)
SendTimingManual == \E b \in BOOLEAN :
  Callback(<< <<"timingManual", b>>, <<"flag", "updateCycleTiming">> >>)
\* loadPreset() stores the values and raises no flag.
LoadPreset == \E s \in Scene, d \in Duration :
  Callback(<< <<"cScene", s>>, <<"cDuration", d>> >>)

Ble == PressTrigger \/ SendScene \/ SendDuration \/ SendSceneManual
       \/ SendTimingManual \/ LoadPreset

-----------------------------------------------------------------------------
(* The pieces a cycle is started with.                                     *)

\* Mutant: a manual scene is picked up by the upper panel alone.
ScenesForUpper(p) == IF sceneManual THEN {IF p = "upper" THEN cScene ELSE new[p]} ELSE Scene
\* setScene(): the scenes it may pick.
ScenesFor(p) == IF sceneManual THEN {cScene} ELSE Scene

Due(s) == (now + CycleTime(s) + NextCycleDelay(s)) % Wrap

\* Mutant: a cycle in manual timing goes on with the duration it has.
StartLightCycleSticky(upperScene) ==
  /\ setting' = CASE ~timingManual -> upperScene
                  [] timingManual /\ setting \in Duration -> setting
                  [] OTHER -> cDuration
  /\ start' = now
  /\ nextCycleStart' = Due(setting')

\* startLightCycle(), with upper.dramaIndex as it is after the call's caller.
StartLightCycle(upperScene) ==
  /\ setting' = IF timingManual THEN cDuration ELSE upperScene
  /\ start' = now
  /\ nextCycleStart' = Due(setting')

\* Mutant: the new gradients are set before the old ones are saved.
NewScenesSwapped == new' \in [Panel -> Scene] /\ (\A p \in Panel : new'[p] \in ScenesFor(p)) /\ old' = new'
\* saveNewToOld(), then setGradients().
NewScenes ==
  /\ old' = new
  /\ new' \in [Panel -> Scene] /\ \A p \in Panel : new'[p] \in ScenesFor(p)

StartNewCycle == NewScenes /\ StartLightCycle(new'["upper"])

\* restart(): cycleCounter = 0, and startLightCycle() counts one.
Restart ==
  /\ cycleCounter' = 1
  /\ StartNewCycle
  /\ finished' = 0 /\ strobed' = FALSE

-----------------------------------------------------------------------------
(* runHorizons().                                                          *)

At(step) == pc[1] = step
Goto(step) == pc' = <<step, pc[2]>>

\* Another program is shown, for as long as it may be.
Away ==
  /\ pc \in { <<"first", "upper">>, <<"rotate", "upper">> }
  /\ now' \in 0 .. Wrap - 1
  /\ shown' = "none"
  /\ UNCHANGED <<settings, host, pc, program, finished, strobed>>

FirstRun ==
  /\ At("first")
  /\ old' \in [Panel -> Scene] /\ new' \in [Panel -> Scene]
  /\ StartLightCycle(new'["upper"])
  /\ cycleCounter' = 1
  /\ firstRun' = FALSE
  /\ Goto("rotate")
  /\ UNCHANGED <<now, settings, host, history>>

\* applyTriggers(): a flag that is up leads to the step that acts on it.
Skip(step, flag, next) ==
  /\ At(step) /\ flag \notin flags
  /\ Goto(next)
  /\ UNCHANGED <<now, settings, host, program, history>>

Lower(flag) ==
  /\ flags' = flags \ {flag}
  /\ UNCHANGED <<now, sceneManual, timingManual, cScene, cDuration, host, program, history>>

Clear(step, flag, next) == At(step) /\ Goto(next) /\ Lower(flag)

RotateFlag == IF pc[2] = "upper" THEN "rotateUpper" ELSE "rotateLower"

Rotate ==
  /\ At("rotate") /\ RotateFlag \in flags
  /\ Goto("rotated")
  /\ UNCHANGED <<now, settings, host, program, history>>

\* The flag is cleared first.
TriggerRestart == "restart" \in flags /\ Clear("restart", "restart", "restarting")

TriggeredRestart ==
  /\ At("restarting")
  /\ Restart
  /\ shown' = "none"
  /\ Goto("scene")
  /\ UNCHANGED <<now, settings, host, firstRun>>

\* setGradients(upper), setGradients(lower): each reads the settings.
UpdateUpper ==
  /\ At("scene") /\ "updateScene" \in flags
  /\ \E s \in ScenesFor("upper") : new' = [new EXCEPT !["upper"] = s]
  /\ Goto("sceneLower")
  /\ UNCHANGED <<now, settings, host, firstRun, cycleCounter, old, cycle, history>>

UpdateLower ==
  /\ At("sceneLower")
  /\ \E s \in ScenesFor("lower") : new' = [new EXCEPT !["lower"] = s]
  /\ old' = new'
  /\ shown' = "none"
  /\ Goto("sceneDone")
  /\ UNCHANGED <<now, settings, host, firstRun, cycleCounter, cycle, finished, strobed>>

\* Mutant: startLightCycle() with its default argument.
CountRetimed == cycleCounter + 1
CountOfRetimed == cycleCounter

UpdateTiming ==
  /\ At("timing") /\ "updateCycleTiming" \in flags
  /\ StartLightCycle(new["upper"])
  /\ cycleCounter' = CountOfRetimed
  /\ shown' = "none"
  /\ Goto("timingDone")
  /\ UNCHANGED <<now, settings, host, firstRun, old, new, finished, strobed>>

AfterTriggers == IF pc[2] = "upper" THEN <<"rotate", "lower">> ELSE <<"check", "lower">>

\* All flags are found down: the reads are one step then.
NoTrigger ==
  /\ At("rotate") /\ flags = {}
  /\ pc' = AfterTriggers
  /\ UNCHANGED <<now, settings, host, program, history>>

ClearTiming == At("timingDone") /\ pc' = AfterTriggers /\ Lower("updateCycleTiming")

EndTriggers ==
  /\ At("timing") /\ "updateCycleTiming" \notin flags
  /\ pc' = AfterTriggers
  /\ UNCHANGED <<now, settings, host, program, history>>

ApplyTriggers ==
  \/ NoTrigger
  \/ flags # {} /\ Skip("rotate", RotateFlag, "restart")
  \/ Rotate
  \/ Clear("rotated", RotateFlag, "restart")
  \/ Skip("restart", "restart", "scene")
  \/ TriggerRestart
  \/ TriggeredRestart
  \/ Skip("scene", "updateScene", "timing")
  \/ UpdateUpper
  \/ UpdateLower
  \/ Clear("sceneDone", "updateScene", "timing")
  \/ EndTriggers
  \/ UpdateTiming
  \/ ClearTiming

\* The cycle's due time lies beyond the wrap of the clock.
Straddles == nextCycleStart < start

\* Mutant: one more start than the palette has cycles.
PaletteIsDoneLate == cycleCounter > CyclesPerPalette
PaletteIsDone == cycleCounter >= CyclesPerPalette

\* checkTransitions()
AutomaticRestart ==
  /\ At("check") /\ PaletteIsDone
  /\ Restart
  /\ Goto("due")
  /\ UNCHANGED <<now, settings, host, firstRun, shown>>

\* Mutant: the due time is computed in 64 bits.
IsDueLong == now > start + CycleTime(setting) + NextCycleDelay(setting)
IsDue == now > nextCycleStart

\* The second condition is looked at after a restart, too.
RestartIsSettled == At("due") \/ (At("check") /\ ~PaletteIsDone)

NextCycle ==
  /\ RestartIsSettled /\ IsDue
  /\ StartNewCycle
  /\ cycleCounter' = cycleCounter + 1
  /\ strobed' = (strobed \/ Straddles)
  /\ finished' = IF strobed' THEN 0 ELSE finished + 1
  /\ Goto("render")
  /\ UNCHANGED <<now, settings, host, firstRun, shown>>

NotDue ==
  /\ RestartIsSettled /\ ~IsDue
  /\ Goto("render")
  /\ UNCHANGED <<now, settings, host, program, history>>

CheckTransitions == AutomaticRestart \/ NextCycle \/ NotDue

(***************************************************************************)
(* FastLED's TimeRamp, as a function of the time since it was triggered.   *)
(* What it answers for a ramp that crosses the wrap is left open.          *)
(***************************************************************************)
Elapsed == (now + Wrap - start) % Wrap
Light ==
  CASE Straddles -> {"old", "brightening", "new"}
    [] ~Straddles /\ Elapsed < RiseTime[setting] + HoldTime[setting] -> {"old"}
    [] ~Straddles /\ Elapsed >= RiseTime[setting] + HoldTime[setting]
         /\ Elapsed < CycleTime(setting) -> {"brightening"}
    [] OTHER -> {"new"}

\* updateValues() and renderColors(); the next frame comes after some time.
Render ==
  /\ At("render")
  /\ shown' \in Light
  /\ pc' = <<"rotate", "upper">>
  /\ \E d \in 1 .. MaxFrame : now' = (now + d) % Wrap
  /\ UNCHANGED <<settings, host, program, finished, strobed>>

Loop == FirstRun \/ ApplyTriggers \/ CheckTransitions \/ Render

Next == Ble \/ MakeStore \/ Loop \/ Away

\* loop() runs on and a callback ends.  Commands and other programs come as
\* they like.
Spec == Init /\ [][Next]_vars /\ WF_vars(Loop) /\ WF_vars(MakeStore)

-----------------------------------------------------------------------------
TypeOK ==
  /\ now \in 0 .. Wrap - 1
  /\ flags \subseteq Flag
  /\ sceneManual \in BOOLEAN /\ timingManual \in BOOLEAN
  /\ cScene \in Scene /\ cDuration \in Duration
  /\ commands \in 0 .. MaxCommands
  /\ pc \in {"first", "rotate", "rotated", "restart", "restarting", "scene",
             "sceneLower", "sceneDone", "timing", "timingDone", "check",
             "due", "render"} \X Panel
  /\ firstRun \in BOOLEAN
  /\ cycleCounter \in 0 .. CyclesPerPalette
  /\ old \in [Panel -> Scene] /\ new \in [Panel -> Scene]
  /\ start \in 0 .. Wrap - 1 /\ nextCycleStart \in 0 .. Wrap - 1
  /\ setting \in Setting
  /\ shown \in {"none", "old", "brightening", "new"}
  /\ finished \in Nat /\ strobed \in BOOLEAN

(***************************************************************************)
(* A new cycle departs from the light its panels show: however triggers,   *)
(* settings, presets and visits of other programs fall, the start of a     *)
(* cycle that was due makes no jump: the frame before it was in the full   *)
(* light of the new scene, which is the one the cycle dims from.  Excepted *)
(* are a cycle whose due time crosses the wrap of millis() (it is cut      *)
(* short, horizons_detail.hpp:396) and what the user asked for; a palette  *)
(* change does jump (393).                                                 *)
(***************************************************************************)
CycleDepartsFromWhatIsShown ==
  [][NextCycle /\ ~Straddles /\ shown # "none" => shown = "new" /\ old' = new]_vars

(***************************************************************************)
(* The palette changes by itself after CyclesPerPalette - 1 whole cycles:  *)
(* cycleCounter counts starts, so the last one is replaced a frame after   *)
(* it began (393), but no retiming, restart or re-entry makes it fewer.    *)
(***************************************************************************)
PaletteLastsItsCycles ==
  [][AutomaticRestart /\ ~strobed => finished = CyclesPerPalette - 1]_vars

\* now > nextCycleStart is never seen by a frame: none may fall between the
\* due time and the wrap, and the next round is the same.
DueAtTheWrap == nextCycleStart \in Wrap - MaxFrame .. Wrap - 1

(***************************************************************************)
(* Cycles keep starting, through the wrap of millis() and through visits   *)
(* of other programs, unless the next one comes due within a frame of the  *)
(* wrap: then none may start for a whole round of the clock (396).         *)
(***************************************************************************)
CyclesKeepStarting == []<><<NextCycle>>_vars \/ []<><<Away>>_vars \/ <>[]DueAtTheWrap

(***************************************************************************)
(* The manual settings are adopted in the end.  updateScene and            *)
(* updateCycleTiming are cleared after they were acted on, so a setting    *)
(* stored in between loses its flag, one panel may take the old value and  *)
(* one the new, and a preset raises no flag at all; the next cycle         *)
(* repairs it (horizons_detail.hpp:272-283, bleControl.h:463-492).         *)
(***************************************************************************)
Adopted ==
  /\ sceneManual => \A p \in Panel : new[p] = cScene
  /\ timingManual => setting = cDuration
SettingsAreAdopted == <>[]Adopted \/ []<><<Away>>_vars \/ <>[]DueAtTheWrap
=============================================================================

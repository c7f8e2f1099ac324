---------------------------- MODULE ControlPlane ----------------------------
(***************************************************************************)
(* The control plane of the firmware: the shared globals PROGRAM, MODE,    *)
(* displayOn, mappingOverride and the c-parameters, the two tasks that     *)
(* touch them without a lock, and the preset files.                        *)
(*                                                                         *)
(*   - the NimBLE host task runs processButton, processNumber and          *)
(*     processCheckbox, one callback at a time (bleControl.h);             *)
(*   - the Arduino task runs loop() for ever (main.cpp).                   *)
(*                                                                         *)
(* A callback is a straight line of stores, and loop() may run between any *)
(* two of them: `todo' holds the stores the current callback still has to  *)
(* make.  loop() is cut wherever it touches a shared global.               *)
(***************************************************************************)
EXTENDS Naturals, Sequences

CONSTANTS
  Program,          \* the program numbers a button can select
  Mode,             \* the mode numbers a button can select
  ModeCount,        \* MODE_COUNTS, the number of modes of each program
  Param,            \* valuations of the c-parameters of PARAMETER_TABLE
  OverrideMapping,  \* the cOverrideMapping part of a valuation
  DefaultMapping,   \* the enum Mapping a program's case assigns, if it does
  Slot,             \* preset slots
  BootProgram,      \* setup() sets PROGRAM = 6, MODE = 10
  BootMode,
  BootParam,
  NoProgram,        \* the 0xFF lastProgram starts from
  NoPreset,         \* an absent /preset_N.json
  NoMode            \* a preset file without a modeNum

ASSUME ProgramAssumption ==
  /\ BootProgram \in Program
  /\ NoProgram \notin Program
ASSUME ModeAssumption ==
  /\ Mode \subseteq Nat
  /\ 0 \in Mode
  /\ BootMode \in Mode
  /\ ModeCount \in [Program -> Nat]
ASSUME ParamAssumption ==
  /\ BootParam \in Param
  /\ DOMAIN OverrideMapping = Param
ASSUME PresetAssumption ==
  /\ NoMode \notin Mode
  /\ NoPreset \notin [programNum: Program, modeNum: Mode \cup {NoMode}, parameters: Param]
  /\ 0 \notin Slot
ASSUME MappingAssumption == DOMAIN DefaultMapping \subseteq Program

VARIABLES
  \* Globals both tasks touch
  program,          \* PROGRAM
  mode,             \* MODE
  displayOn,
  mappingOverride,
  params,           \* every c-parameter of PARAMETER_TABLE
  \* The NimBLE host task
  todo,             \* stores the running callback has not made yet
  preset,           \* LittleFS: slot -> file contents or NoPreset
  \* The Arduino task
  pc,               \* where loop() is
  cur,              \* PROGRAM as this frame read it last
  lastProgram,      \* static of loop()
  instance,         \* programs whose xInstance flag is set
  defaultMapping,
  cMapping,
  \* History, read by properties only
  lastRun,          \* the program that drew the last frame
  initSince,        \* programs initialised since that frame was drawn
  strays,           \* programs drawn since the flags were last cleared by a
                    \* frame whose detector had noted another program
  overridden,       \* did the frame being drawn take its mapping from the override?
  savedAs,          \* what was on show when each slot was last saved
  loaded            \* the slot whose load was the last thing the host changed

shared  == <<program, mode, displayOn, mappingOverride, params>>
host    == <<todo, preset>>
loop    == <<pc, cur, lastProgram, instance, defaultMapping, cMapping>>
history == <<lastRun, initSince, strays, overridden, savedAs, loaded>>
vars    == <<shared, host, loop, history>>

Mapping  == {DefaultMapping[p] : p \in DOMAIN DefaultMapping}
            \cup {OverrideMapping[v] : v \in Param} \cup {0}
NoSlot   == 0

(***************************************************************************)
(* VisualizerManager::getVisualizerName: a mode is part of the name only   *)
(* for a program that has modes, and only while it is in range.            *)
(***************************************************************************)
Visualizer(p, m) == IF m < ModeCount[p] THEN <<p, m>> ELSE <<p>>

-----------------------------------------------------------------------------
(* The stores a callback makes, as <<global, value>> pairs.                *)

Store == ({"PROGRAM"} \X Program) \cup ({"MODE"} \X Mode)
         \cup ({"displayOn", "mappingOverride"} \X BOOLEAN)
         \cup ({"params"} \X Param)

\* A modeNum is written only for a program that has modes.
PresetFile == [programNum: Program, modeNum: Mode \cup {NoMode}, parameters: Param]

Init ==
  /\ program = BootProgram
  /\ mode = BootMode
  /\ displayOn = TRUE
  /\ mappingOverride = FALSE
  /\ params = BootParam
  /\ todo = <<>>
  /\ preset = [s \in Slot |-> NoPreset]
  /\ pc = "top"
  /\ cur = NoProgram
  /\ lastProgram = NoProgram
  /\ instance = {}
  /\ defaultMapping = 0
  /\ cMapping = 0
  /\ lastRun = NoProgram
  /\ initSince = {}
  /\ strays = {}
  /\ overridden = FALSE
  /\ savedAs = [s \in Slot |-> NoPreset]
  /\ loaded = NoSlot

-----------------------------------------------------------------------------
(* NimBLE host task.  The callbacks are serialised by the host stack, so a *)
(* new one starts only when the last one has made all its stores.          *)

Callback(stores, slot) ==
  /\ todo = <<>>
  /\ todo' = stores
  /\ loaded' = slot
  /\ UNCHANGED <<shared, preset, loop, lastRun, initSince, strays, overridden, savedAs>>

\* Buttons 0..19; PROGRAM holds the numbers the switch of loop() has a case for
\* (0..11), the ones the page offers.
SelectProgram(p) ==
  Callback(<< <<"PROGRAM", p>>, <<"MODE", 0>>, <<"displayOn", TRUE>> >>, NoSlot)

\* Mutant: the mode button's offset of 20 is not subtracted.
SelectModeOffset(m) == Callback(<< <<"MODE", m + 20>>, <<"displayOn", TRUE>> >>, NoSlot)

\* Buttons 20..39: the value is not checked against the program's modes.
\* (The cFxIndex it also sets is read nowhere.)
SelectMode(m) ==
  Callback(<< <<"MODE", m>>, <<"displayOn", TRUE>> >>, NoSlot)

\* Buttons 98 and 99.
SwitchDisplay(on) == Callback(<< <<"displayOn", on>> >>, loaded)

\* Checkbox cx11, and a number that is one of PARAMETER_TABLE.
SetOverride(on) == Callback(<< <<"mappingOverride", on>> >>, loaded)
SetParam(v) == Callback(<< <<"params", v>> >>, NoSlot)

\* Mutant: the mode is left out of the file when it is 0.
SavePresetNonZeroMode(s) ==
  /\ todo = <<>>
  /\ preset' = [preset EXCEPT ![s] =
       [programNum |-> program,
        modeNum    |-> IF mode > 0 THEN mode ELSE NoMode,
        parameters |-> params]]
  /\ savedAs' = [savedAs EXCEPT ![s] = <<Visualizer(program, mode), params>>]
  /\ loaded' = IF loaded = s THEN NoSlot ELSE loaded
  /\ UNCHANGED <<shared, todo, loop, lastRun, initSince, strays, overridden>>

\* Buttons 101..120.  The host task is the only writer of what it captures.
SavePreset(s) ==
  /\ todo = <<>>
  /\ preset' = [preset EXCEPT ![s] =
       [programNum |-> program,
        modeNum    |-> IF ModeCount[program] > 0 THEN mode ELSE NoMode,
        parameters |-> params]]
  /\ savedAs' = [savedAs EXCEPT ![s] = <<Visualizer(program, mode), params>>]
  /\ loaded' = IF loaded = s THEN NoSlot ELSE loaded
  /\ UNCHANGED <<shared, todo, loop, lastRun, initSince, strays, overridden>>

\* Buttons 121..140.  A file without a modeNum leaves MODE as it is; displayOn
\* is not touched.
LoadStores(f) ==
  IF f.modeNum = NoMode
  THEN << <<"PROGRAM", f.programNum>>, <<"params", f.parameters>> >>
  ELSE << <<"PROGRAM", f.programNum>>, <<"MODE", f.modeNum>>, <<"params", f.parameters>> >>

LoadPreset(s) == preset[s] # NoPreset /\ Callback(LoadStores(preset[s]), s)

\* One store of the running callback.
HostStore ==
  /\ todo # <<>>
  /\ todo' = Tail(todo)
  /\ LET dest == Head(todo)[1]
         val  == Head(todo)[2]
     IN  /\ program'   = IF dest = "PROGRAM" THEN val ELSE program
         /\ mode'      = IF dest = "MODE" THEN val ELSE mode
         /\ displayOn' = IF dest = "displayOn" THEN val ELSE displayOn
         /\ mappingOverride' = IF dest = "mappingOverride" THEN val ELSE mappingOverride
         /\ params'    = IF dest = "params" THEN val ELSE params
  /\ UNCHANGED <<preset, loop, history>>

HostCallback ==
  \/ \E p \in Program : SelectProgram(p)
  \/ \E m \in Mode : SelectMode(m)
  \/ \E on \in BOOLEAN : SwitchDisplay(on) \/ SetOverride(on)
  \/ \E v \in Param : SetParam(v)
  \/ \E s \in Slot : SavePreset(s) \/ LoadPreset(s)

Host == HostCallback \/ HostStore

-----------------------------------------------------------------------------
(* Arduino task: one frame of loop().                                      *)

Goto(from, to) == pc = from /\ pc' = to

\* main.cpp names PROGRAM three times with no call in between, and PROGRAM is
\* neither volatile nor atomic: a build keeps what it loaded or loads it again.
Again(read) == {read, program}

\* if (!displayOn) FastLED.clear();
FrameDark ==
  /\ ~displayOn
  /\ Goto("top", "show")
  /\ UNCHANGED <<shared, host, cur, lastProgram, instance, defaultMapping,
                 cMapping, history>>

\* else {
FrameLit ==
  /\ displayOn
  /\ Goto("top", "mapping")
  /\ UNCHANGED <<shared, host, cur, lastProgram, instance, defaultMapping,
                 cMapping, history>>

\* Mutant: the else branch that returns to the default mapping is missing.
ChooseMappingSticky ==
  /\ Goto("mapping", IF mappingOverride THEN "override" ELSE "detect")
  /\ overridden' = mappingOverride
  /\ UNCHANGED <<shared, host, cur, lastProgram, instance, defaultMapping, cMapping,
                 lastRun, initSince, strays, savedAs, loaded>>

\* mappingOverride ? ... : cMapping = defaultMapping, which the case of the last
\* frame set.
ChooseMapping ==
  /\ Goto("mapping", IF mappingOverride THEN "override" ELSE "detect")
  /\ cMapping' = IF mappingOverride THEN cMapping ELSE defaultMapping
  /\ overridden' = mappingOverride
  /\ UNCHANGED <<shared, host, cur, lastProgram, instance, defaultMapping,
                 lastRun, initSince, strays, savedAs, loaded>>

\* cMapping = cOverrideMapping
TakeOverride ==
  /\ Goto("override", "detect")
  /\ cMapping' = OverrideMapping[params]
  /\ UNCHANGED <<shared, host, cur, lastProgram, instance, defaultMapping, history>>

\* Mutant: the flags survive a program change.
DetectKeepsFlags ==
  /\ Goto("detect", IF program # lastProgram THEN "latch" ELSE "switch")
  /\ cur' = program
  /\ strays' = IF program # lastProgram THEN {} ELSE strays
  /\ UNCHANGED <<shared, host, lastProgram, instance, defaultMapping, cMapping,
                 lastRun, initSince, overridden, savedAs, loaded>>

\* Mutant: the load of PROGRAM is hoisted out of the frame loop.
DetectHoisted ==
  /\ cur' = IF cur = NoProgram THEN program ELSE cur
  /\ Goto("detect", IF cur' # lastProgram THEN "latch" ELSE "switch")
  /\ instance' = IF cur' # lastProgram THEN {} ELSE instance
  /\ strays' = IF cur' # lastProgram THEN {} ELSE strays
  /\ UNCHANGED <<shared, host, lastProgram, defaultMapping, cMapping,
                 lastRun, initSince, overridden, savedAs, loaded>>

\* if (PROGRAM != lastProgram) { every xInstance = false; ...
Detect ==
  /\ Goto("detect", IF program # lastProgram THEN "latch" ELSE "switch")
  /\ cur' = program
  /\ instance' = IF program # lastProgram THEN {} ELSE instance
  /\ strays' = IF program # lastProgram THEN {} ELSE strays
  /\ UNCHANGED <<shared, host, lastProgram, defaultMapping, cMapping,
                 lastRun, initSince, overridden, savedAs, loaded>>

\* ... lastProgram = PROGRAM; }
Latch ==
  /\ Goto("latch", "switch")
  /\ \E read \in Again(cur) :
       /\ lastProgram' = read
       /\ cur' \in {cur, read}
  /\ UNCHANGED <<shared, host, instance, defaultMapping, cMapping, history>>

\* switch (PROGRAM): the case sets defaultMapping (two cases do not).
Switch ==
  /\ pc = "switch"
  /\ cur' \in Again(cur)
  /\ defaultMapping' = IF cur' \in DOMAIN DefaultMapping THEN DefaultMapping[cur']
                       ELSE defaultMapping
  /\ pc' = IF cur' \in instance THEN "run" ELSE "init"
  /\ UNCHANGED <<shared, host, lastProgram, instance, cMapping, history>>

\* if (!xInstance) initX();
InitProgram ==
  /\ Goto("init", "run")
  /\ instance' = instance \cup {cur}
  /\ initSince' = initSince \cup {cur}
  /\ UNCHANGED <<shared, host, cur, lastProgram, defaultMapping, cMapping,
                 lastRun, strays, overridden, savedAs, loaded>>

\* runX();
RunProgram ==
  /\ Goto("run", "show")
  /\ lastRun' = cur
  /\ initSince' = {}
  /\ strays' = IF cur = lastProgram THEN strays ELSE strays \cup {cur}
  /\ overridden' = FALSE
  /\ UNCHANGED <<shared, host, cur, lastProgram, instance, defaultMapping,
                 cMapping, savedAs, loaded>>

\* FastLED.show() and the end of loop().
Show ==
  /\ Goto("show", "top")
  /\ UNCHANGED <<shared, host, cur, lastProgram, instance, defaultMapping,
                 cMapping, history>>

Loop == FrameDark \/ FrameLit \/ ChooseMapping \/ TakeOverride \/ Detect \/ Latch
        \/ Switch \/ InitProgram \/ RunProgram \/ Show

-----------------------------------------------------------------------------
Next == Host \/ Loop

\* FreeRTOS runs loop() for ever.  Nothing makes a user press a button.
Spec == Init /\ [][Next]_vars /\ WF_vars(Loop)

-----------------------------------------------------------------------------
TypeOK ==
  /\ program \in Program
  /\ mode \in Mode
  /\ displayOn \in BOOLEAN
  /\ mappingOverride \in BOOLEAN
  /\ params \in Param
  /\ todo \in Seq(Store)
  /\ preset \in [Slot -> PresetFile \cup {NoPreset}]
  /\ pc \in {"top", "mapping", "override", "detect", "latch", "switch", "init", "run", "show"}
  /\ {cur, lastProgram, lastRun} \subseteq Program \cup {NoProgram}
  /\ instance \subseteq Program
  /\ initSince \subseteq Program
  /\ strays \subseteq Program
  /\ defaultMapping \in Mapping
  /\ cMapping \in Mapping
  /\ overridden \in BOOLEAN
  /\ loaded \in Slot \cup {NoSlot}

(***************************************************************************)
(* The comment of the program-change detector, word for word: whenever     *)
(* PROGRAM changes, "the target program re-inits cleanly on re-entry"      *)
(* (main.cpp:383-386).  So the first frame of a program after another      *)
(* one's is drawn by a program initialised in between.                     *)
(***************************************************************************)
CleanReentry ==
  pc = "run" /\ lastRun # cur => cur \in initSince

(***************************************************************************)
(* What the code keeps of that comment in every build, however PROGRAM is  *)
(* stored to between the loads of a frame: the state of an earlier session *)
(* is drawn on only around a stray frame, one whose switch took another    *)
(* program than its detector had noted.  If neither of two programs drawn  *)
(* in a row was a stray since the flags were last cleared, the second one  *)
(* was initialised after the first one's frame (main.cpp:387-404).         *)
(***************************************************************************)
ReentryInits ==
  pc = "run" /\ lastRun # cur /\ {lastRun, cur} \cap strays = {}
    => cur \in initSince

(***************************************************************************)
(* The mapping lags a program change by one frame and no more: from the    *)
(* second frame in a row of a program whose case sets a mapping, and       *)
(* without the override, the frame is drawn with that mapping              *)
(* (main.cpp:381 reads what the case of the frame before assigned).        *)
(***************************************************************************)
MappingSettles ==
  pc = "run" /\ lastRun = cur /\ cur \in DOMAIN DefaultMapping /\ ~overridden
    => cMapping = DefaultMapping[cur]

(***************************************************************************)
(* Loading a preset brings back the visualizer and the parameters that     *)
(* were on show when it was saved, whatever was selected in between, even  *)
(* though a modeless program's file has no modeNum (bleControl.h:151-212). *)
(***************************************************************************)
PresetRestores ==
  todo = <<>> /\ loaded # NoSlot
    => <<Visualizer(program, mode), params>> = savedAs[loaded]

(***************************************************************************)
(* A selection takes effect: if the host task stops changing PROGRAM and   *)
(* the display stays on, the frames end up being that program's.           *)
(***************************************************************************)
SelectionIsDrawn ==
  \A p \in Program :
    <>[](program = p /\ displayOn) => <>[](lastRun = p)
=============================================================================

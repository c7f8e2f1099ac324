# AuroraPortal: TLA+ verification

AuroraPortal is LED-matrix firmware for ESP32 boards (Arduino, FastLED, NimBLE)
with a single-page browser UI that drives it over Web Bluetooth. This directory
holds TLA+ models of the parts of it whose correctness depends on *order*: which
task stores what, which message arrives first, what a cached value still stands
for. TLC checks them on small instances; TLAPS proves the main results for every
value of the constants.

Paths below are relative to the repository root (`src/main.cpp` is the firmware's
main file, `index.html` the page); `PROJECT.json` repeats them as `src/src/...`
and `src/index.html`, and maps every definition to its lines.

1. [The system](#1-the-system)
2. [The models](#2-the-models)
3. [What is checked](#3-what-is-checked)
4. [What is proved](#4-what-is-proved)
5. [Disagreements with the documentation](#5-disagreements-with-the-documentation)
6. [What is not modelled](#6-what-is-not-modelled)
7. [Plan](#7-plan)

## 1. The system

Two tasks share one address space and take no lock:

* the **NimBLE host task** runs the characteristic callbacks (`processButton`,
  `processNumber`, `processCheckbox`, `processString`) and the server callbacks
  (`onConnect`, `onDisconnect`), one at a time;
* the **Arduino task** runs `setup()` once and `loop()` for ever: one LED frame
  a turn, a poll of the connection flags at its end.

On the other side of the air are a **page** (`index.html`, one JavaScript thread:
event handlers, timers and notification handlers run to their end) and the
**microphone**, whose driver collects buffers until a frame drains them.

```
 index.html  --writes-->  NimBLE host task  --globals-->  loop()  --> LEDs
     ^                        |   |                         |
     +------notifications-----+   +-- LittleFS presets      +-- audio frame <-- I2S
```

The components, the state each keeps, what it does, and what makes it correct:

| Component | State | Operations | Correct when | Here |
|---|---|---|---|---|
| **Control plane** `main.cpp:367-500`, `bleControl.h` | `PROGRAM`, `MODE`, `displayOn`, `mappingOverride`, the `c...` parameters, twelve `xInstance` flags, `lastProgram`, `defaultMapping`, `cMapping`, `/preset_N.json` | the callbacks; a frame of `loop()` | a re-entered program is initialised again; the right LED mapping is used; a preset brings back what was saved; the last selection is drawn | `ControlPlane` |
| **BLE connection** `main.cpp:507-514`, `bleControl.h:517-529`, `:640-720` | `deviceConnected`, `wasConnected`, the stack's advertising, links and sync state | connect, failed connect, disconnect, host reset, the poll in `loop()` | a device with nobody connected becomes visible again; no call through a null `pServer` | `Peripheral`, `Connection` |
| **Radio bring-up** `hosted_ble_bridge.cpp` | loop counters; the co-processor's transport and controller | `hostedBlePrepare()` | `true` only with the controller enabled; bounded delay; it returns | `HostedBle` |
| **Audio pipeline** `audio/audioProcessing.h` | noise gate, leveler ceiling, auto floor, three buses with baselines and a beat latch, the FFT cache, the published frame | `captureAudioFrame` per frame; two checkboxes | no onset lost, none invented, one instant per frame | `AudioFrame` |
| **Browser UI** `index.html:744-2400` | current program and mode, mode list, sliders, one debounce timer | selecting, typing, dragging, presets, sync, connecting; receipts and state messages | the page shows what the device has | `UiSync` |
| **Registries** `parameterSchema.h`, `index.html:880-1100` | names, mode counts, parameter lists, defaults, each twice | look-ups | both copies agree; no index out of its table | planned: `Registry` |
| **Bus parameters** `bleControl.h:343-437`, `audioProcessing.h:970-1007`, `index.html:2435-2900` | three buses' parameters, two function pointers, sliders with a timer each | adjusting, `setBusParam`, `applyPreset`, `sendBusState`, `initBus` at boot | what a bus took stands; the panel shows what the bus holds | `BusParams` |
| **Audio settings panel** `bleControl.h:325-341`, `index.html` | global audio parameters | as visualizer parameters | as in `UiSync` | not modelled |
| **Boot order, LittleFS** `main.cpp:183-285` | mounted file system, initialised buses, brightness/program/mode in NVS (written every 30 s; the two last are read and not used) | `setup()` | nothing is taken before it can be kept | buses: `BusParams` |
| **LED mapping** `main.cpp`, `boardConfig.h`, `reference/matrixMap_*.h` | generated tables | `myXY` | every table a permutation; enum and switch agree | planned: `Mapping` |
| **Palettes** `bleControl.h`, `main.cpp`, `reference/palettes.h` | current and target palette | rotation, blending | the number names the palette | planned: `Palettes` |
| **Animartrix** `programs/animartrix_detail.hpp:1885-1915` | last mode, centre flag, polar tables, drawing state, bus preset | entry of the program and of a mode, a frame | a rendered mode was set up; a preset comes once | `ModeEntry` |
| **Animartrix effects** same file | 20 timers, bus copies | shaders over `getAudio` and the timers | looks | not modelled |
| **Horizons** `programs/horizons_detail.hpp` | light cycle, cycle counter, scenes, triggers | cycle start, palette rotation, manual scene and timing, buttons | cycles keep starting, without a jump; a palette lasts its cycles; settings are adopted | `Horizons` |
| **Synaptide** `programs/synaptide_detail.hpp` | energy history, startup and boost times, reset request | a sample, a boost, reset, re-entry | a dead field is revived, a living one left alone | `Synaptide` |
| **Synaptide's automaton** same file | two buffers of floats | a generation, drawing | looks | not modelled |
| **Cube** `programs/cube_detail.hpp` | three angles, freeze flags | a frame | a frozen axis keeps its angle | planned, last |
| **Other visualizers** bubble, fxWave2d, dots, radii, waves, rainbow, test, audioTest | a table, an angle or a hue | a frame of pixels | looks | not modelled |
| **Lead energy, AV helpers** `audio/leadEnergy.h`, `avHelpers.h` | envelopes | arithmetic on a frame | looks | not modelled |
| **Audio input, board** `audio/audioInput.h`, `boardConfig.h` | constants, the driver | - | - | input of `AudioFrame` |
| **Profiler** `profiler.h` | nested sections | start, end, report | sections balance | not modelled |
| **NimBLE** `libNimBLE/` | vendored | - | - | as far as `Connection` needs |
| **Build, docs** | - | - | - | source of section 5 |

What is hard here, and which model takes it on (the full list, line by line, is
`hazards` in `PROJECT.json`):

* *Unlocked globals.* A callback is several stores and a frame several loads:
  a frame can see half of a selection. `ControlPlane`, `Connection`, `ModeEntry` and
  `Horizons` are cut at single loads and stores, or where a flag is read or cleared,
  for this.
* *One-way guards.* `if (!xInstance) initX()` is right only if every program
  change is noticed, whatever the interleaving. `ControlPlane`.
* *Values that lag.* The mapping of a frame was chosen by the frame before;
  `wasConnected` is cleared after the call it asked for; the auto floor is put back
  by a buffer and wiped by a frame. `ControlPlane`, `Connection`, `AudioFrame`.
* *Flags cleared after the work.* A request stored while one is being acted on loses
  its flag and must be made good later. `Horizons`.
* *Clocks that wrap.* 32-bit milliseconds and microseconds, compared absolutely in
  one place and as differences in another. `Horizons`, `Synaptide`.
* *Commands before boot is over.* BLE is up before the file system and the buses are.
  `BusParams`.
* *Retries whose first try may have worked.* `HostedBle`.
* *Many buffers, one frame.* Latches, caches keyed by time stamps, statics that a
  switched-off stage stops updating. `AudioFrame`.
* *Receipts.* The page changes at the click and again at the answer, with any
  number of clicks in flight, a timer that outlives what it was for, and writes
  and notifications that are dropped without a retry. `UiSync`, `BusParams`.

## 2. The models

Each module's header says what it models; mutants of its operators stand directly
before them ("Mutant: ...") and are used by no specification.

### `ControlPlane`: globals, frames and presets

| TLA+ | Code |
|---|---|
| `program`, `mode`, `displayOn`, `mappingOverride`, `params` | `PROGRAM`, `MODE`, `displayOn`, `mappingOverride`, the parameters of `PARAMETER_TABLE` as one valuation |
| `todo`, `Callback`, `HostStore` | a running callback: the stores it has still to make, one a step |
| `SelectProgram`, `SelectMode`, `SwitchDisplay`, `SetOverride`, `SetParam` | `processButton` (0-19, 20-39, 98/99), checkbox `cx11`, `processNumber` |
| `SavePreset`, `LoadPreset` | buttons 101-120 and 121-140: `savePreset`, `loadPreset`, `applyCurrentParameters` |
| `pc`, `FrameDark` ... `Show` | one turn of `loop()`, cut wherever it touches a shared global |
| `Detect`, `Latch`, `Switch` | the three places where `loop()` names `PROGRAM`: comparing, `lastProgram = PROGRAM`, `switch (PROGRAM)` |
| `FrameLit`, `ChooseMapping`, `TakeOverride` | `displayOn`, `mappingOverride` and `cOverrideMapping`, each loaded in a step of its own |
| `instance` | the twelve `xInstance` flags |
| `lastRun`, `initSince`, `strays`, `overridden`, `savedAs`, `loaded` | history: which program drew last, who was initialised since, which programs were drawn by a frame that had noted another, what was on show at a save |

`PROGRAM` is a plain global without `volatile`, named three times with no call
between. The C++ standard calls the concurrent store a data race; what a build can
make of it is that the last load is kept in a register, or that the global is
loaded again, as the default build does at every mention (`platformio.ini:8`,
`build_type = debug`). The model leaves the choice open at every mention (`Again`), and
everything that is checked or proved holds for all builds.

A frame whose `switch` takes another program than its detector noted in
`lastProgram` is a *stray*, and so is the program it draws until the flags are
cleared again (`strays`). Strays are the harm that the repeated loads do: the
program that was noted, or the stray itself, can be drawn later on the state of an
earlier session, without an `initX()`. The comment at the detector (`main.cpp:383-386`)
says that this does not happen (`CleanReentry`); a run shows that it does
(section 5). `ReentryInits` says that nothing else does: in every build, a program drawn
after another one's frame was initialised in between if neither is a stray. A build that
loads `PROGRAM` once a frame has no strays, and there the comment holds as it stands. A
local copy of `PROGRAM` at the top of the frame, loaded once and `volatile`, would make
every build such a build.

A preset file is written in one step. LittleFS replaces a file when it is closed;
what a torn file would do is in the hazard list.

### `Peripheral` and `Connection`: advertising again

`Peripheral` is the promise to the browser: once BLE is up, a device that nobody is
connected to becomes visible again (`WF_vars(links = {} /\ Appear)`), a browser
joins only while it is visible, and joining hides it.

`Connection` is the code: `onConnect` stores two flags, `onDisconnect` stores two
flags, `loop()` loads the one, then the other, calls `startAdvertising()` after half
a second and then clears the second. Around it are the events of the vendored stack
as its source delivers them: a failed connect restarts advertising inside the GAP
handler, a host reset breaks every link (with a disconnect event each), ends
advertising, and restarts it from `onSync`. An event handler runs to its end before
the next one starts; `todo` is what it has left.

`ServerExists` covers the boards on which `bleSetup()` gives up and leaves `pServer`
null while `loop()` still contains `pServer->startAdvertising()`.

`ShortLinks` says whether a browser can connect *and* leave between
`startAdvertising()` and the next statement, `wasConnected = false`. That window is
a debug print wide and a BLE connection takes tens of milliseconds, so the run and the
theorem take `ShortLinks = FALSE`; the variable `fresh` exists only to say so. With
`TRUE` the flag of that link is overwritten and the device stays invisible.

### `HostedBle`: bringing up the co-processor

One action per call of `hostedBlePrepare()` and its helpers, each with the answers
the code tells apart: `ESP_OK`, `ESP_ERR_INVALID_STATE` (taken for success) and an
error. A call to the co-processor that answers with an error may have been carried
out. `PrepareInit` allows every state the radio can be found in: ESP-Hosted up or not,
the controller left initialised or enabled by a restart of the main processor only.
The co-processor may be reset when the transport connects and does not otherwise
restart by itself.

### `AudioFrame`: from buffers to one frame

A frame is `BeginFrame` (refresh `vizConfig`, clear the latches, default snapshot),
then one `ProcessBuffer` or `ProcessInvalid` per drained buffer, then `Publish`.
`Fail` is the early return on an input error. `ProcessBuffer` is the whole path of
one buffer: gate with hysteresis, auto floor, leveler, FFT cache, reset of the buses
on the opening gate, onset test, latch, averages.

Samples and averages are abstracted to the questions the control flow asks:
`Level` is where the smoothed level lies between the gate's two thresholds;
`onset` and `warm` are arbitrary sets of buses; `baseline` remembers whether a bus's
averages were last reset, or followed a signal or a silence; `ceiling` whether the
leveler's estimate is of the current signal, of the previous one, or of one whose end
it missed because it was switched off. A buffer's FFT window spans
two buffers, so the first buffer after the gate closes still holds a signal
(`Sounding`).

The first buffer has timestamp 0, equal to the initial `lastFftTimestamp`: it gets
no spectrum, as in the code.

### `UiSync`: the page and the device

Two FIFO channels that may lose elements (a failed `writeValue()` is logged, a
failed `notify()` ignored), the device's callbacks on one end and the page's handlers
on the other. A callback of the device is one step here; `ControlPlane` has its
single stores.

| TLA+ | Code |
|---|---|
| `Type`, `Drag`, `DebounceFires` | the number input (`sendValue`), the range input (`debouncedSend`), its 300 ms timer |
| `SelectProgram`, `SelectMode`, `PressPreset`, `PressSync` | the button groups |
| `Connect`, `SyncInitialState`, `Disconnect` | the subscriptions, the request 500 ms later, `onDisconnected` |
| `HandleProgram` ... `HandleSync` | `processButton`, `processNumber`, `sendVisualizerState` |
| `ShowProgram` ... `ShowState` | `applyReceivedButton`, `applyReceivedNumber`, `applyReceivedString` |
| `shown[p].by` | history: whether a slider's value is a default, dragged, typed or from the device, or a drag that another slider's drag has cut off (`Cut`: one timer serves all sliders) |
| `lost`, `byPreset` | history: something was lost since the last state message; a preset chose the program |

Values are in halves (2 is 1.0, 3 is 1.5), so that "fraction" means something;
`Stored` is the C++ conversion of the receipted float to the parameter's type.
`Receipts` of a preset load are the changed parameters in the order of
`PARAMETER_TABLE`. A mode is a button of some program (`Mode`), or the 0 a program
starts in.

The firmware's and the page's mode counts are two constants (`ModeCount`, `UiModeCount`);
the theorems need no relation between them. In the code they agree for every program but
audiotest, of which the firmware counts eleven modes (`parameterSchema.h:97`), its name
table has ten, and the page lists ten (`index.html:906-909`). What `getVisualizerName()`
answers past the end of that table is not modelled. The page's own `MODE_COUNTS`
(`index.html:912`) is read nowhere.

`syncInitialState()` waits on when the connection breaks, in `UiSync` and in
`BusParams`: for less than a second, after which it finds no connection and logs. A new
connection takes a choice in the browser's dialog, discovery and four subscriptions, so
the models end the wait with the connection.

### `ModeEntry`: animartrix enters a mode

`runAnimartrix()` names `MODE` five times. Three calls between them (`init()`, which
recomputes the polar tables pixel by pixel, `applyModeAudioPreset`, `render`) make it
load `MODE` again; where no call lies between two names, `Rereads` lets the build
choose. Each load is an action; `SelectMode` stores at any moment.

A mode is what its set-up asks for: the centre of the polar tables (`LowCentre` is mode
10), a drawing state that no other effect has left anything in (`leftover`), its bus
preset. `disturbed` and `asked` are history: `MODE` changed while it was being looked at;
`MODE` changed, or the program was entered, since the last preset. A selection of the mode
that is already selected changes nothing and asks for nothing.

### `BusParams`: the settings of the buses and their panel

| TLA+ | Code |
|---|---|
| `boot`, `InitBuses`, `SetHandlers` | `setup()` after `bleSetup()`: `initBus()` three times, then the two function pointers |
| `HandleBusParam` | `processNumber` with a `bus` field; before the pointer is set the value is receipted and lost |
| `SendBusState`, `ReportBus` | button 94: one message a bus, or none before the pointer is set |
| `ApplyModeAudioPreset` | what `ModeEntry` calls, at any time after boot |
| `Drag`, `DebounceFires`, `Type` | the panel's range input with its own timer, its number input and reset button |
| `Connect`, `SyncBuses`, `ReceiveBusState` | subscribed; the third question of `syncInitialState`; the answers |
| `Reboot` | no bus setting is stored anywhere |
| `accepted`, `unanswered`, `disturbed`, `dropped` | history, see the properties |

### `Horizons`: light cycles

| TLA+ | Code |
|---|---|
| `flags`, `todo`, `Callback`, `MakeStore` | the five trigger flags; a callback begins with its first store and makes the others one by one |
| `BootFlags`, `BootManual` | what the host may have left of the flags and the two manual switches before the first frame |
| `ApplyTriggers` with `pc` | `applyTriggers()` for the upper and the lower panel, cut where a flag is read or cleared |
| `old`, `new`, `setting` | the scenes behind the `...Old` and `...New` gradients, and what the times were computed from |
| `AutomaticRestart`, `NextCycle`, `NotDue` | `checkTransitions()`: its two conditions in order |
| `Light`, `Render` | `updateValues()`: the old scene while the ramp rises and holds, the way from its dark values to the new scene while it falls, the new scene afterwards |
| `Away` | another program is shown for any time: the clock jumps to anywhere |
| `shown`, `finished`, `strobed` | history: what lit the last frame; whole cycles since the last restart; whether the wrap cut one short |

`now` is `millis()` modulo `Wrap`. `FirstRun` happens once in the life of the device,
as `firstRun` is never set again.

### `Synaptide`: the energy monitor

The field is floating point; a sample of its energy is any member of `Energy`. The
history is the ring buffer of the code (`historyIndex`, `historyFilled`), averaged up to
the index until it has filled once. Startup and boost times are values of a clock
that wraps, and only differences of them are compared. `Total` is the loop of
`getAverageEnergy()`, so the sum is taken in the order of the array, not of the samples.
`samples`, `darkFor` and `sinceBoost` are history: what the monitor should know, kept
without a ring or a wrap.

## 3. What is checked

`tlc -config X.cfg M`. State counts are distinct states; `control_plane`
takes two to three minutes, every other run a minute or less.

| Run | Configuration | States | Checks |
|---|---|---|---|
| `control_plane` | `MCControlPlane.cfg` | 2,075,520 | `ReentryInits`, `MappingSettles`, `PresetRestores`, `SelectionIsDrawn` |
| `connection` | `MCConnection.cfg` | 408 | `NeverForgotten`, `ServerExists`, `ImplementsPeripheral` |
| `hosted_ble` | `MCHostedBle.cfg` | 720 | `ReadyMeansEnabled`, `DelaysBounded`, `Returns` |
| `audio_frame` | `AudioFrame.cfg` | 469,496 | `OnsetsReachTheFrame`, `MeasuredOnSignal`, `OneInstant`, `CeilingResets` |
| `ui_sync` | `MCUiSync.cfg` | 820,414 | `SelectionAgrees`, `ConfirmedSliderAgrees`, `DragsAreSent` |
| `mode_entry` | `MCModeEntry.cfg` | 9,102 | `SetUpForItsMode`, `PresetOncePerRequest`, `SelectedModeIsDrawn` |
| `bus_params` | `MCBusParams.cfg` | 227,896 | `AcceptedStands`, `PanelAgrees`, `PanelIsFilled` |
| `horizons` | `MCHorizons.cfg` | 356,275 | `CycleDepartsFromWhatIsShown`, `PaletteLastsItsCycles`, `CyclesKeepStarting`, `SettingsAreAdopted` |
| `synaptide` | `MCSynaptide.cfg` | 1,374,208 | `DarkFieldIsRevived`, `LivingFieldIsLeftAlone`, `BoostsKeepTheirDistance` |
| `control_plane_reentry`, `audio_auto_floor`, `ui_preset` | `MCControlPlaneReentry.cfg`, `AudioFrameFloor.cfg`, `MCUiSyncPreset.cfg` | | one documented statement each, violated (section 5) |

Every passing run also checks its module's `TypeOK` (`PrepareTypeOK` in `HostedBle`).

### The properties

* `ReentryInits`: when the frame before was another program's, this program was
  initialised after it, unless one of the two was drawn as a stray since the flags were
  cleared. A failure takes two selections and an interleaving, and shows as a visualizer
  that starts in the middle of its last visit.
* `MappingSettles`: the mapping lags a program change by one frame and no more,
  although it is read before the `switch` assigns it and two cases never do.
* `PresetRestores`: a load brings back the visualizer and the parameters of the save,
  although a modeless program's file has no mode and `MODE` is left as it was.
* `SelectionIsDrawn`: if the selections stop and the display stays on, the frames
  end up being the last selection's.
* `NeverForgotten`: a synced device that nobody is connected to and that does not
  advertise still has somebody who will: a flag `loop()` has not acted on, or a
  handler in progress.
* `ImplementsPeripheral`: the refinement, with the fairness of `Peripheral`.
* `ReadyMeansEnabled`: `true` means transport and controller are up, although
  `INVALID_STATE` counts as success and answers can be lost.
* `DelaysBounded`, `Returns`: `setup()` is held up for a bounded time.
* `OnsetsReachTheFrame`: what any buffer of a read detected is in the frame, and
  nothing else.
* `MeasuredOnSignal`: no onset is measured against averages taken over a silence.
* `OneInstant`: a frame's spectrum belongs to its timestamp.
* `CeilingResets`: the leveler never adapts the ceiling of a signal that ended in a
  silence it was on for, however its switch and the gate interleave.
* `SelectionAgrees`: when the air is quiet and nothing was lost since the last state
  message, the page shows the device's program and mode and lists that program's
  modes, unless a preset chose them.
* `ConfirmedSliderAgrees`: likewise, a slider that was typed into or set by the
  device shows the device's value, up to the conversion of its type.
* `DragsAreSent`: likewise, a dragged value was sent or has been overwritten on the page
  as well, unless another slider's drag cut its timer off.
* `SetUpForItsMode`: a frame is drawn with the centre, the clean state and the preset of
  its own mode, unless `MODE` changed while `runAnimartrix()` was looking at it.
* `PresetOncePerRequest`: a mode's preset overwrites the buses once for a change of
  `MODE` or an entry of the program, so that what the user adjusts afterwards stays, the
  selection of the mode that already runs included.
* `SelectedModeIsDrawn`: the mode that stays selected is drawn in the end, about its own
  centre unless it was disturbed.
* `AcceptedStands`: what a bus took stands until the next adjustment, preset or reboot,
  because boot sets the pointers after it has initialised the buses.
* `PanelAgrees`: a bus that was reported in this connection is shown as it is once
  nothing is under way. Four ways to disagree remain, and the property names them: a
  preset overrode the bus, a number was typed over a running drag timer, the bus was
  adjusted while the answer was due, a write failed. Every other one is excluded,
  settings made during boot, without a connection or before a reboot included.
* `PanelIsFilled`: the panel of a lasting connection is filled in for every bus if no
  message is lost and boot was over when the question arrived.
* `CycleDepartsFromWhatIsShown`: a cycle that was due begins from the light its panels
  show, the full light of the scene it dims from and not a moment of the way there, however
  triggers, presets and absences fall.
* `PaletteLastsItsCycles`: a palette that changes by itself has had exactly
  `CyclesPerPalette - 1` whole cycles: starts are counted, so the last is replaced a
  frame after it began, but no retiming or restart makes it fewer.
* `CyclesKeepStarting`: through wraps and absences, unless a cycle comes due within a
  frame of the wrap of `millis()`.
* `SettingsAreAdopted`: manual scene and timing are adopted in the end, although a flag
  raised while the last is being acted on is lost, a new duration and a preset raise
  none. One mutant of the run takes the scene for one panel only, another keeps the
  duration of a cycle that is in manual timing already.
* `DarkFieldIsRevived`: a field that stays dark is given energy within the time of a
  history, one more sample, a grace period and a cooldown. The last two add up because
  `lastBoostTime` starts at 0 and `micros()` wraps: the time since startup can pass zero
  again and begin a second grace period, and the time since a boost that never was can do
  the same just before or after it. Between the two there may be a moment at which
  neither holds the boost back, but no sample falls into it: that is the one more sample.
* `LivingFieldIsLeftAlone`: a boost means that the samples of this monitor average below
  the bound, never an older monitor's or the initial 0.5.
* `BoostsKeepTheirDistance`: boosts of one monitor are more than the cooldown apart.

### The bounds

* `MCControlPlane`: three programs cover the three kinds (without modes; with a mode
  that is in range for one and out of range for another; a case that assigns no
  mapping), and leaving, visiting and re-entering needs two. One valuation of the
  parameters, whose override mapping is one that a case assigns; with a second one and
  repeated loads the liveness check would take too long. So the run does not see a load
  bring the wrong parameters back; that half of `PresetRestores` is carried by the theorem
  `PresetCorrect`. One preset slot, since slots share nothing. The number of callbacks is
  not bounded. `control_plane_reentry` does without presets.
* `MCConnection`: two browsers, so that one can leave while another is connected and
  one can join while the other's handler has just run; one connection slot more than
  browsers, because a full stack refuses to advertise and that refusal is not
  modelled. Nothing else is bounded.
* `MCHostedBle`: the repository's own numbers, five connects in each of two attempts.
* `AudioFrame.cfg`: the buses influence each other only through the gate and the
  spectrum, which are shared inputs, so one bus is enough; two buffers a read are
  enough for a later buffer to disturb an earlier one's onset. `MaxTime` bounds the
  buffers: the longest story needs six (the first has no spectrum, one warms the
  average up, one closes the gate, one is silence, one opens it, one is accepted).
  `minBeatInterval` of 1 leaves both outcomes of that test possible.
* `MCUiSync`: `MaxActions` bounds the user's actions, connecting included, at five:
  connect, then any four of type, drag, save, load, select, disconnect, sync (a save,
  a change and a load with one to spare). `ui_preset` allows six. Two programs,
  one with two modes, in the firmware and in the page; two sliders, one of an integer
  type; two values; one slot. In `MCUiSync.cfg` the two registries differ as they do for
  TEST3.
* `MCModeEntry`: the first mode, the one with a bus preset and the one with the low
  centre; other modes differ in none of the three. Nothing else is bounded.
* `MCBusParams`: a bus a preset overrides and one none does; two values, with `initBus()`
  and the page's default different, as they are for `minBeatInterval` (75 and 0) and
  `expDecayFactor` (0.85 and 0.90). `MaxActions` is five: connect, adjust twice with a
  preset or a disconnection between, and connect again.
* `MCHorizons`: a clock of six ticks and cycles of four and two, with a pause, so that
  a cycle wraps, ends just before the wrap, and fits; two scenes and two manual
  durations, so that a duration can change under manual timing; three cycles a palette,
  as in the code. One command, falling anywhere, besides what the host left before the
  first frame: the scene manual, the timing manual or not (`BootManual`), and the flags a
  switch that is on has raised, with `updateCycleTiming` possibly raised besides
  (`BootFlags`). So a command can hit a flag that is being acted on, change the duration
  in either timing, turn manual timing on while its flag is being cleared, and turn either
  switch off. A second command after the scene is automatic would need several times the
  states: that a cycle's scenes are drawn at random matters to
  `CycleDepartsFromWhatIsShown` only, which is proved.
  `PaletteLastsItsCycles` and `CycleDepartsFromWhatIsShown` are proved for any number.
* `MCSynaptide`: a clock of 16 ticks, one more than a history, two gaps, a grace period
  of 2 and a cooldown of 3 need; a history of 3, so that it is partly filled, filled and
  wrapped around; samples up to two ticks apart. One bright sample keeps the average of
  three at 20, above the bound of 18: the samples before a dark spell can then delay the
  boost until all of them are dark, and the bound of `DarkFieldIsRevived` is reached. The
  number of resets and visits is not bounded.

### Fairness

* `ControlPlane`: `WF(Loop)`. FreeRTOS runs the loop task for ever. No fairness for
  the host task: nobody has to press a button.
* `Connection`: `WF(Loop)`, and `WF(Recover)`: a handler that has started runs to its
  end and the stack completes a reset it has begun. Nobody has to connect or leave.
* `HostedBle`: `WF(PrepareNext)`. `setup()` runs on and every `esp_hosted` call returns.
* `ModeEntry`: `WF(InitAnimartrix)`, `WF(RunAnimartrix)`: the loop runs on. No fairness
  for the selections or for leaving the program.
* `BusParams`: timers fire, `setup()` runs to its end, and a connection that stays up
  delivers in both directions. Nobody has to touch the panel.
* `Horizons`: `WF(Loop)`, and `WF(MakeStore)`: a callback that has begun ends. No
  fairness for commands or for showing other programs.
* `AudioFrame`, `UiSync` and `Synaptide` state no fairness; their properties are safety
  properties, `UiSync`'s said of quiet states and `Synaptide`'s of a measured time.

Deadlock is checked except where the modelled thing ends: `HostedBle` returns, and the
users of `UiSync` and `BusParams` have a bounded number of actions.

## 4. What is proved

`tlapm M.tla` for each module below, for every value of the constants that satisfies the modules'
`ASSUME`s.

| Module | Theorems | Needs |
|---|---|---|
| `ControlPlane_proofs` | `TypeCorrect`, `ReentryCorrect`, `MappingCorrect`, `PresetCorrect` | - (any build) |
| `Ble_proofs`: `Connection` | `TypeCorrect`, `NeverForgottenCorrect`, `ServerExistsCorrect`, `ImplementsSafety` | `NeverForgottenCorrect`: `~ShortLinks` |
| `Ble_proofs`: `HostedBle` | `PrepareTypeCorrect`, `ReadyCorrect`, `DelaysCorrect` | - |
| `AudioFrame_proofs` | `TypeCorrect`, `OnsetsCorrect`, `BaselineCorrect`, `InstantCorrect`, `CeilingCorrect` | - |
| `ModeEntry_proofs` | `TypeCorrect`, `SetUpCorrect`, `PresetCorrect` | - (either value of `Rereads`) |
| `UiSync_proofs` | `TypeCorrect`, `SelectionCorrect`, `SlidersCorrect`, `DragsCorrect` | - |
| `BusParams_proofs` | `TypeCorrect`, `AdjustmentsStand`, `PanelCorrect` | - |
| `Horizons_proofs` | `TypeCorrect`, `PaletteCorrect`, `LightCorrect` | - |
| `Synaptide_proofs` | `TypeCorrect`, `RevivalCorrect`, `LivingCorrect`, `DistanceCorrect` | - |

So every safety property of the passing runs, invariant or action property, is proved.
The `ASSUME`s say what the constants stand for in the code. The proofs lean most on
three: one round of the clock is longer than a light cycle and its pause, with a frame
no longer than the pause (`Horizons`, 49.7 days against minutes, seconds against
milliseconds); one round of `micros()` is longer than the grace period, the cooldown and
22 gaps between samples (`Synaptide`, 71 minutes: samples less than 195 seconds apart,
where the code asks for 0.1); and `sendBusState()` reports no bus twice (`BusParams`, a
`for` loop over three numbers). `UiSync` assumes of the values that an integer
parameter's default is whole and that truncating a value gives a value, and says how
long the firmware's parameter table is: a finite sequence.

The arguments:

* **`ReentryCorrect`.** The property only speaks of the moment a program runs.
  `SessionInv` follows the flags through the frames: a set flag is that of a program this
  frame initialised, of a stray, or of the noted program
  (`instance \subseteq initSince \cup strays \cup {lastProgram}`); this is what the
  detector's clearing of *all* flags buys. And if the noted program's flag is set, and it
  is neither of the first two, it drew the last frame itself, or a stray did. A program
  that runs uninitialised after another one's frame therefore is a stray or comes after
  one, whatever the loads of `PROGRAM` returned.
* **`MappingCorrect`.** `defaultMapping` belongs to the program of the last frame
  outside `init`/`run`, and to the current one inside; `cMapping` still has the one of
  the last frame, unless it was taken from the override. It holds for every build, since
  the assignment and the choice of the case use the same load.
* **`PresetCorrect`.** `FileInv`: what a file would bring back is what was on show when it
  was written, for *every* mode if it is a modeless program's file, which has none.
  `LoadInv`: while a load is being carried out each global already has the file's value
  or has it among the stores the callback has still to make; `loop()` stores to none of
  them.
* **`NeverForgottenCorrect`.** The invariant says where a handler can be
  (`HandlerInv`: a half-made `onConnect`, or a half-made handler with the flag still up,
  means that somebody is connected) and what `loop()` has just done (`ClearInv`: in
  front of `wasConnected = false` the device advertises, has a link younger than that
  statement's predecessor, is out of sync, or is restarting). `ClearInv` is where
  `~ShortLinks` enters.
* **`ServerExistsCorrect`, `ImplementsSafety`.** `BootInv` ties every flag, link and
  handler to a stack that came up. `ImplementsSafety` is the safety part of the
  refinement; its fairness part is TLC's.
* **`ReadyCorrect`, `DelaysCorrect`.** `UpInv` says what each call finds up: a
  `controller_enable` finds an initialised or enabled controller, which is why its
  `INVALID_STATE` means enabled. `CountInv` bounds the connects by completed attempts
  plus those of the running one.
* **`OnsetsCorrect`, `BaselineCorrect`, `InstantCorrect`.** The latches of the buses
  are exactly the onsets of the frame; while the window can still hold a signal, a
  warm bus has followed a signal; the cached spectrum is that of the timestamp it is
  cached under, and the frame's is that of the last valid buffer.

* **`CeilingCorrect`.** A ceiling of the previous signal, or the initial one, goes with
  a gate remembered closed, so that the buffer that opens it starts afresh.
* **`SetUpCorrect`, `PresetCorrect`.** Along the steps of an entry the invariant says
  what has been set up so far, for the mode loaded last; undisturbed, every later load
  returns the same mode. Outside an entry `lastMode` is the mode everything was set up for.
  A preset is due exactly between a comparison that found a new mode and its
  application, and that mode was selected, or the program entered, since the last one.
* **`SelectionCorrect`, `SlidersCorrect`, `DragsCorrect`.** A page that may be wrong now
  must be right when the air is quiet, so the invariants speak of what is in the air. The
  *last* message in `down` that names the program carries the device's program
  (`LastIs`); if there is none, the page has it, or a selection is in `up` that will be
  answered (`Has`). `ModeInv` says the same of modes, which a program receipt resets to 0;
  `SliderInv` of each slider that is typed into or set by the device; `DragInv` that a
  dragged one is with the timer, in `up`, or about to be redrawn. Each step of the
  device takes a message from `up` and puts its answer behind everything in `down`,
  whence the channel lemmas `TakeHead` and `PutBehind`. `TypeInv` carries the types of the
  messages, the files and the timer, from which the variables are assigned.
* **`AdjustmentsStand`.** Before the pointer is set no bus has accepted anything
  (`BootInv`), and `initBus()` runs only before it is set.
* **`PanelCorrect`.** The question and the answers separate the adjustments before them
  from those after. A connection asks once and is answered after that by a device that
  has booted (`AskInv`); each bus is reported once, while the page still waits for it
  (`OnceInv`: without it a second report could overwrite a later adjustment). For a bus
  whose report is still to come and that nothing disturbed, no timer runs and all its
  writes are *before* the question (`Before`), so a report in the air says what the bus
  will hold when it arrives (`AnswerInv`). From then on the panel's value is with the
  timer, is the last write in `up`, or is what the bus holds (`PanelInv`).
* **`PaletteCorrect`.** `CountInv`: unless the wrap has cut a cycle short,
  `cycleCounter` is one more than the cycles finished since the last restart, through
  retimings, triggered restarts and visits; between an automatic restart and the second
  condition of `checkTransitions()` it is one.
* **`LightCorrect`.** `ClockInv`: once the first frame has run, `nextCycleStart` is the due
  time of the cycle whose times and start the ramp has; and when the last frame was
  drawn in the old light or on the way to the new one, the clock has not passed it, for the
  cycle ends with a pause in the new light (`HalfLightIsEarly`), and no frame takes as long
  as that. A cycle that straddles the wrap is the property's exception.

* **`LivingCorrect`.** `RingInv`: slot by slot, the ring holds the last samples, in the
  order of the array until it has filled and turned by `historyIndex` afterwards. The code
  adds the array up from its first entry; `AverageOfRing` cuts that sum at the index
  (`TotalSplits`), exchanges the parts and matches them with the samples
  (`TotalOfEquals`). The lemmas about `Total` are inductions over the number of entries.
  The library's induction theorems take an operator as a parameter, which the provers
  here cannot instantiate; `Induction` says it with a *set* of numbers instead, from the
  least element that well-foundedness gives (`WFMin`), and the tables of partial sums are
  shown to exist by it.
* **`DistanceCorrect`.** `DistanceInv`: up to the cooldown, the difference of two readings
  of the clock is the time that has passed.
* **`RevivalCorrect`.** `DarkInv` follows a dark spell: before the first sample its age is
  the age of the monitor; then the last `k` samples are dark, fewer than a history, and
  its age is at most `k` gaps; then all are, and their average is below the bound
  (`TotalOfSmall`), so that only a delay that still runs can hold the boost back
  (`DelaysRun`). `Held` bounds the age of the spell by that of the delay, which either was
  there before the history was dark, or began to count again with the wrap and took over
  from the other one. `HeldStep`, the hand-over, is where the length of a round of the
  clock is needed: it is too long for the delay that has ended to begin yet again.

Only model-checked: the liveness properties `SelectionIsDrawn`, `Returns`,
`SelectedModeIsDrawn`, `PanelIsFilled`, `CyclesKeepStarting`, `SettingsAreAdopted` and the
fairness of `Peripheral`. TLAPS does not do `ENABLED`.

## 5. Disagreements with the documentation

Each of these is a run that TLC finds violated, on the code as it is.

| Run | Statement | What happens |
|---|---|---|
| `control_plane_reentry` | "when PROGRAM changes, clear all per-program *Instance flags so the target program re-inits cleanly on re-entry" (`main.cpp:383-386`) | a selection between the detector's comparison and the `switch`, taken back before the next frame, is drawn and never noticed: the program it interrupted goes on without being initialised |
| `audio_auto_floor` | the auto floor persists across frames (`audioProcessing.h:151`) | a frame that drains no buffer publishes levels against the manual floor |
| `ui_preset` | loading a preset syncs the UI (`BLE_UI_SYSTEM.md:260`) | program and mode are stored without a notification |

`control_plane_reentry` takes a build that loads `PROGRAM` again in the `switch`, as the
default build does. `ui_preset` uses two registries that agree, so that it is not an effect of the lists.

Others are stated as exceptions of properties that hold, so that the property says
exactly how far the code goes:

* "the UI always reflects the device's actual accepted value" (`BLE_UI_SYSTEM.md:32`):
  not for a slider redrawn at its default by a selection, for one whose drag was cut off
  by another slider's, for a fraction given to an integer parameter
  (`ConfirmedSliderAgrees`, `DragsAreSent`), nor for a bus in the four cases of
  `PanelAgrees`.
* the leveler's reset on the gate-open transition (`audioProcessing.h:89`): not when it
  is switched off over all of a silence (`CeilingResets`, `"missed"`).
* a cycle due at the wrap of `millis()` (`CyclesKeepStarting`), and `MODE` stored in the
  middle of an entry (`SetUpForItsMode`).

## 6. What is not modelled

* Pixels, palettes' colours, shaders, envelopes: floating-point formulas over whole
  frames. TLC has no reals, and no property of them is about order.
* The inside of NimBLE, FastLED, ArduinoJson and LittleFS, beyond the events and
  answers named above.
* In the UI: checkboxes, layers, dropdowns, the audio panel, styling, the log.
* In the audio pipeline: the same-millisecond cache of `updateAudioFrame`, the median
  filter of the RMS, the FastLED audio processor, code under `#if 0`.
* Horizons' palettes and rows of pixels, animartrix's timer slots and bus copies,
  Synaptide's field.
* A preset saved or loaded before `LittleFS.begin()` has returned.
* Running out of connection slots, and a state message longer than the MTU.
* The components marked *planned* in section 1.

## 7. Plan

1. Proofs. The *mirror* below as an abstract specification that `UiSync`'s `ProgramInv` and
   `ModeInv` already imply step by step.
2. `Registry` and `Mapping`: pure tables as functions: both registries entry by entry,
   `MODE_COUNTS` against the name tables, `myXY` and the generated maps as permutations.
3. `Palettes`, `Cube`: small state machines over numbers.
4. Animartrix's timer slots: which slots an effect reads against which it has set.

Abstract specifications worth stating later: a *mirror* (the page's view is an earlier
state of the device) that `UiSync` and `BusParams` implement between losses, and an
*exact light cycle* that `Horizons` implements away from the wrap.

------------------------------- MODULE UiSync -------------------------------
(***************************************************************************)
(* The web page (index.html) and the device (bleControl.h) over one        *)
(* Bluetooth connection: what the page shows of the program, the mode and  *)
(* the visualizer's sliders, against what the device has.                  *)
(*                                                                         *)
(* Writes and notifications are two FIFO channels that may lose elements:  *)
(* a failed writeValue() is only logged, a failed notify() is ignored.     *)
(* A device callback and a page event handler each run to their end.       *)
(***************************************************************************)
EXTENDS Integers, Sequences, SequencesExt

CONSTANTS
  Program,        \* programs with a button
  ModeCount,      \* number of modes of each program: MODE_COUNTS of the firmware
  UiModeCount,    \* the same in the page: the lengths of its ..._MODES arrays
  Param,          \* parameters of VISUALIZER_PARAMETER_REGISTRY
  ParamTable,     \* the same in the order of PARAMETER_TABLE
  IntegerParam,   \* the uint8_t and uint16_t ones
  UiParams,       \* VISUALIZER_PARAMS of the page, by visualizer
  DeviceParams,   \* VISUALIZER_PARAM_LOOKUP of the firmware
  Value,          \* what a number input accepts, in halves
  UiDefault,      \* the default of the page's registry
  BootValue,      \* the default of the firmware's variable
  Slot,           \* preset slots
  BootProgram,
  BootMode,
  NoProgram,      \* the NaN of updateDisplayProgram(undefined)
  NoTimer,
  NoPreset,
  MaxActions      \* bound: user actions of one behaviour

\* The mode buttons 20 .. 39 of some program, and the 0 every program starts in.
Mode == {m \in 0 .. 19 : m = 0 \/ \E p \in Program : m < UiModeCount[p]}

ASSUME SyncAssumption ==
  /\ BootProgram \in Program /\ BootMode \in Mode /\ NoProgram \notin Program
  \* The mode buttons are 20 .. 39.
  /\ ModeCount \in [Program -> 0 .. 20] /\ UiModeCount \in [Program -> 0 .. 20]
  /\ ParamTable \in Seq(Param) /\ Range(ParamTable) = Param
  /\ IntegerParam \subseteq Param
  /\ \A v \in DOMAIN UiParams : UiParams[v] \subseteq Param
  /\ \A v \in DOMAIN DeviceParams : DeviceParams[v] \subseteq Param
  \* An integer parameter's range and default are whole numbers.
  /\ Value \subseteq Int /\ \A v \in Value : v - (v % 2) \in Value
  /\ UiDefault \in [Param -> Value] /\ BootValue \in [Param -> Value]
  /\ \A p \in IntegerParam : BootValue[p] % 2 = 0
  /\ NoTimer \notin [id: Param, val: Value]
  /\ MaxActions \in Nat

VARIABLES
  \* The device
  program, mode, value, preset,
  \* The air
  connected,
  up,             \* writes the device has not handled yet
  down,           \* notifications the page has not handled yet
  \* The page
  pendingSync,    \* syncInitialState() is in its 500 ms wait
  uiProgram,      \* ProgramSelector.currentProgram
  uiMode,         \* ModeSelector.currentMode
  listed,         \* how many mode buttons are rendered
  shown,          \* rendered slider -> its value and where that came from
  timer,          \* ParameterSettings.debounceTimer with what it will send
  \* History and bound
  lost,           \* something was lost since the last state message
  byPreset,       \* a preset chose program and mode since the last selection
  actions

device  == <<program, mode, value, preset>>
page    == <<uiProgram, uiMode, listed, shown>>
vars    == <<device, connected, up, down, pendingSync, page, timer, lost, byPreset, actions>>

(***************************************************************************)
(* getVisualizerName of the firmware and getCurrentVisualizer of the page, *)
(* each with its own count of modes; an unlisted visualizer has no         *)
(* parameters.  A mode the firmware counts has a name: not so mode 10 of   *)
(* AUDIOTEST, which is left out.                                           *)
(***************************************************************************)
Visualizer(count, p, m) ==
  IF p \in Program /\ m < count[p] THEN <<p, m>> ELSE <<p>>
ParamsOf(registry, v) == IF v \in DOMAIN registry THEN registry[v] ELSE {}
Modes(p) == IF p \in Program THEN UiModeCount[p] ELSE 0

\* c##parameter = receivedValue, from float to the type of the table.
Stored(p, v) == IF p \in IntegerParam THEN v - (v % 2) ELSE v
\* What a range input can hold: its step is 1 for these parameters.
OnStep(p, v) == Stored(p, v) = v

\* ParameterSettings.render(): the sliders of the visualizer, at the defaults.
Render(p, m) ==
  [q \in ParamsOf(UiParams, Visualizer(UiModeCount, p, m)) |-> [val |-> UiDefault[q], by |-> "default"]]
Set(q, v, by) ==
  [r \in DOMAIN shown |-> IF r = q THEN [val |-> v, by |-> by] ELSE shown[r]]

Init ==
  /\ program = BootProgram
  /\ mode = BootMode
  /\ value = BootValue
  /\ preset = [s \in Slot |-> NoPreset]
  /\ connected = FALSE
  /\ up = <<>>
  /\ down = <<>>
  /\ pendingSync = FALSE
  /\ uiProgram = NoProgram
  /\ uiMode = 0
  /\ listed = 0
  /\ shown = <<>>
  /\ timer = NoTimer
  /\ lost = TRUE
  /\ byPreset = FALSE
  /\ actions = 0

-----------------------------------------------------------------------------
(* The page: what the user does.                                           *)

UserActs == connected /\ actions < MaxActions /\ actions' = actions + 1
Send(m)  == up' = Append(up, m)
Number(p, v) == [type |-> "number", id |-> p, val |-> v]

\* Mutant: typing a value cancels the timer, whichever slider's it is.
TypeCancels(p, v) ==
  /\ UserActs
  /\ p \in DOMAIN shown
  /\ shown' = Set(p, v, "typed")
  /\ timer' = NoTimer
  /\ Send(Number(p, v))
  /\ UNCHANGED <<device, connected, down, pendingSync, uiProgram, uiMode, listed,
                 lost, byPreset>>

\* A number input, or the reset button of a slider: sendValue() at once.  A
\* pending debounce timer is left running.
Type(p, v) ==
  /\ UserActs
  /\ p \in DOMAIN shown
  /\ shown' = Set(p, v, "typed")
  /\ Send(Number(p, v))
  /\ UNCHANGED <<device, connected, down, pendingSync, uiProgram, uiMode, listed, timer,
                 lost, byPreset>>

\* The slider whose timer is restarted for another: its value is not sent.
Cut(q) ==
  IF timer # NoTimer /\ timer.id = q /\ shown[q].by = "drag"
  THEN [shown[q] EXCEPT !.by = "cut"]
  ELSE shown[q]

\* A range input: debouncedSend() restarts the one timer of all sliders.
Drag(p, v) ==
  /\ UserActs
  /\ p \in DOMAIN shown
  /\ OnStep(p, v)
  /\ shown' = [q \in DOMAIN shown |-> IF q = p THEN [val |-> v, by |-> "drag"] ELSE Cut(q)]
  /\ timer' = [id |-> p, val |-> v]
  /\ UNCHANGED <<device, connected, up, down, pendingSync, uiProgram, uiMode, listed,
                 lost, byPreset>>

\* 300 ms later.  A send without a connection is only logged.
DebounceFires ==
  /\ timer # NoTimer
  /\ timer' = NoTimer
  /\ up' = IF connected
           THEN Append(up, Number(timer.id, timer.val))
           ELSE up
  /\ UNCHANGED <<device, connected, down, pendingSync, page, lost, byPreset, actions>>

\* The sliders are drawn again at once, the mode list only with the receipt.
SelectProgram(p) ==
  /\ UserActs
  /\ uiProgram' = p
  /\ shown' = Render(p, uiMode)
  /\ Send([type |-> "program", val |-> p])
  /\ UNCHANGED <<device, connected, down, pendingSync, uiMode, listed, timer, lost, byPreset>>

SelectMode(m) ==
  /\ UserActs
  /\ m < listed
  /\ uiMode' = m
  /\ shown' = Render(uiProgram, m)
  /\ Send([type |-> "mode", val |-> m])
  /\ UNCHANGED <<device, connected, down, pendingSync, uiProgram, listed, timer, lost, byPreset>>

PressPreset(type, s) ==
  /\ UserActs
  /\ Send([type |-> type, val |-> s])
  /\ UNCHANGED <<device, connected, down, pendingSync, page, timer, lost, byPreset>>

PressSync ==
  /\ UserActs
  /\ Send([type |-> "sync"])
  /\ UNCHANGED <<device, connected, down, pendingSync, page, timer, lost, byPreset>>

User ==
  \/ \E p \in Param, v \in Value : Type(p, v) \/ Drag(p, v)
  \/ \E p \in Program : SelectProgram(p)
  \/ \E m \in Mode : SelectMode(m)
  \/ \E s \in Slot, type \in {"save", "load"} : PressPreset(type, s)
  \/ PressSync

-----------------------------------------------------------------------------
(* The connection.                                                         *)

\* All four subscriptions are confirmed: the buttons are rendered, with the
\* modes the page last listed; the sliders wait for the state message.
Connect ==
  /\ ~connected
  /\ actions < MaxActions
  /\ actions' = actions + 1
  /\ connected' = TRUE
  /\ pendingSync' = TRUE
  /\ UNCHANGED <<device, up, down, page, timer, lost, byPreset>>

\* After 500 ms.
SyncInitialState ==
  /\ pendingSync
  /\ pendingSync' = FALSE
  /\ Send([type |-> "sync"])
  /\ UNCHANGED <<device, connected, down, page, timer, lost, byPreset, actions>>

\* Whatever is in the air is gone, and the sliders with it.  syncInitialState()
\* waits on, for half a second at most, and then only logs that there is no
\* connection: the next one needs a device picked from the browser's list,
\* its services and four subscriptions first.  Its wait ends here.
Disconnect ==
  /\ connected
  /\ actions < MaxActions
  /\ actions' = actions + 1
  /\ connected' = FALSE
  /\ pendingSync' = FALSE
  /\ up' = <<>>
  /\ down' = <<>>
  /\ shown' = <<>>
  /\ lost' = TRUE
  /\ UNCHANGED <<device, uiProgram, uiMode, listed, timer, byPreset>>

\* A write or a notification fails; nothing retries it.
LoseWrite ==
  /\ \E i \in DOMAIN up : up' = RemoveAt(up, i)
  /\ lost' = TRUE
  /\ UNCHANGED <<device, connected, down, pendingSync, page, timer, byPreset, actions>>

LoseNotification ==
  /\ \E i \in DOMAIN down : down' = RemoveAt(down, i)
  /\ lost' = TRUE
  /\ UNCHANGED <<device, connected, up, pendingSync, page, timer, byPreset, actions>>

-----------------------------------------------------------------------------
(* The device: one callback.                                               *)

Handle(type) == up # <<>> /\ Head(up).type = type /\ up' = Tail(up)
Notify(ms)   == down' = down \o ms

\* Mutant: MODE survives a program selection.
HandleProgramKeepsMode ==
  /\ Handle("program")
  /\ Notify(<<Head(up)>>)
  /\ program' = Head(up).val
  /\ byPreset' = FALSE
  /\ UNCHANGED <<mode, value, preset, connected, pendingSync, page, timer, lost, actions>>

HandleProgram ==
  /\ Handle("program")
  /\ Notify(<<Head(up)>>)
  /\ program' = Head(up).val
  /\ mode' = 0
  /\ byPreset' = FALSE
  /\ UNCHANGED <<value, preset, connected, pendingSync, page, timer, lost, actions>>

HandleMode ==
  /\ Handle("mode")
  /\ Notify(<<Head(up)>>)
  /\ mode' = Head(up).val
  /\ UNCHANGED <<program, value, preset, connected, pendingSync, page, timer, lost, byPreset,
                 actions>>

\* Mutant: the number is stored without the conversion to its type.
HandleNumberRaw ==
  /\ Handle("number")
  /\ Notify(<<Head(up)>>)
  /\ value' = [value EXCEPT ![Head(up).id] = Head(up).val]
  /\ UNCHANGED <<program, mode, preset, connected, pendingSync, page, timer, lost, byPreset,
                 actions>>

\* The receipt is sent before the value is stored.
HandleNumber ==
  /\ Handle("number")
  /\ Notify(<<Head(up)>>)
  /\ value' = [value EXCEPT ![Head(up).id] = Stored(Head(up).id, Head(up).val)]
  /\ UNCHANGED <<program, mode, preset, connected, pendingSync, page, timer, lost, byPreset,
                 actions>>

\* The receipts of buttons from 92 on change nothing in the page: left out.
HandleSave ==
  /\ Handle("save")
  /\ preset' = [preset EXCEPT ![Head(up).val] =
       [program |-> program,
        mode    |-> IF ModeCount[program] > 0 THEN {mode} ELSE {},
        value   |-> value]]
  /\ UNCHANGED <<program, mode, value, connected, down, pendingSync, page, timer, lost,
                 byPreset, actions>>

\* Some positions of the parameter table, in its order.
InTableOrder(S) ==
  {f \in [1 .. Cardinality(S) -> S] :
     Range(f) = S /\ \A i, j \in DOMAIN f : i < j => f[i] < f[j]}

Changed(old, new) == {i \in DOMAIN ParamTable : old[ParamTable[i]] # new[ParamTable[i]]}

\* Mutant: the receipts are sent before the values are assigned.
ReceiptsOfOld(old, new) ==
  {[k \in DOMAIN order |-> Number(ParamTable[order[k]], old[ParamTable[order[k]]])] :
     order \in InTableOrder(Changed(old, new))}

\* applyCurrentParameters: a receipt for each parameter the file changes.
Receipts(old, new) ==
  {[k \in DOMAIN order |-> Number(ParamTable[order[k]], new[ParamTable[order[k]]])] :
     order \in InTableOrder(Changed(old, new))}

HandleLoad ==
  /\ Handle("load")
  /\ LET f == preset[Head(up).val] IN
     IF f = NoPreset
     THEN UNCHANGED <<program, mode, value, down, byPreset>>
     ELSE /\ program' = f.program
          /\ mode' \in IF f.mode = {} THEN {mode} ELSE f.mode
          /\ value' = f.value
          /\ \E ms \in Receipts(value, f.value) : Notify(ms)
          /\ byPreset' = TRUE
  /\ UNCHANGED <<preset, connected, pendingSync, page, timer, lost, actions>>

\* sendVisualizerState(): only the parameters of the current visualizer.
HandleSync ==
  /\ Handle("sync")
  /\ Notify(<< [type    |-> "state",
                program |-> program,
                mode    |-> mode,
                value   |-> [q \in ParamsOf(DeviceParams, Visualizer(ModeCount, program, mode))
                               |-> value[q]]] >>)
  /\ lost' = FALSE
  /\ byPreset' = FALSE
  /\ UNCHANGED <<device, connected, pendingSync, page, timer, actions>>

Device == HandleProgram \/ HandleMode \/ HandleNumber \/ HandleSave \/ HandleLoad \/ HandleSync

-----------------------------------------------------------------------------
(* The page: one notification.                                             *)

Receive(type) == down # <<>> /\ Head(down).type = type /\ down' = Tail(down)

\* updateDisplayProgram, updateModes, updateParameters.
ShowProgram ==
  /\ Receive("program")
  /\ uiProgram' = Head(down).val
  /\ uiMode' = 0
  /\ listed' = Modes(uiProgram')
  /\ shown' = Render(uiProgram', uiMode')
  /\ UNCHANGED <<device, connected, up, pendingSync, timer, lost, byPreset, actions>>

\* updateDisplayMode, updateParameters.
ShowMode ==
  /\ Receive("mode")
  /\ uiMode' = Head(down).val
  /\ shown' = Render(uiProgram, uiMode')
  /\ UNCHANGED <<device, connected, up, pendingSync, uiProgram, listed, timer, lost, byPreset,
                 actions>>

\* A receipt for a parameter without a slider is dropped.
ShowNumber ==
  /\ Receive("number")
  /\ shown' = Set(Head(down).id, Head(down).val, "device")
  /\ UNCHANGED <<device, connected, up, pendingSync, uiProgram, uiMode, listed, timer, lost,
                 byPreset, actions>>

\* The atomic sync of applyReceivedString: render once, then fill in.
ShowState ==
  /\ Receive("state")
  /\ uiProgram' = Head(down).program
  /\ uiMode' = Head(down).mode
  /\ listed' = Modes(uiProgram')
  /\ shown' = [q \in DOMAIN Render(uiProgram', uiMode') |->
                 IF q \in DOMAIN Head(down).value
                 THEN [val |-> Head(down).value[q], by |-> "device"]
                 ELSE Render(uiProgram', uiMode')[q]]
  /\ UNCHANGED <<device, connected, up, pendingSync, timer, lost, byPreset, actions>>

Page == ShowProgram \/ ShowMode \/ ShowNumber \/ ShowState

-----------------------------------------------------------------------------
Next == User \/ Connect \/ SyncInitialState \/ Disconnect \/ LoseWrite \/ LoseNotification
        \/ Device \/ DebounceFires \/ Page

Spec == Init /\ [][Next]_vars

-----------------------------------------------------------------------------
Quiet == connected /\ up = <<>> /\ down = <<>> /\ ~pendingSync

Slider == [val: Value, by: {"default", "drag", "cut", "typed", "device"}]

TypeOK ==
  /\ program \in Program /\ mode \in Mode
  /\ value \in [Param -> Value]
  /\ \A p \in Param : OnStep(p, value[p])
  /\ uiProgram \in Program \cup {NoProgram} /\ uiMode \in Mode
  /\ listed \in 0 .. 20
  /\ DOMAIN shown \subseteq Param
  /\ \A p \in DOMAIN shown : shown[p] \in Slider
  /\ timer = NoTimer \/ OnStep(timer.id, timer.val)
  /\ connected \/ (shown = <<>> /\ up = <<>> /\ down = <<>>)

(***************************************************************************)
(* However fast the user selects, and whatever receipts are in flight, the *)
(* page ends on the program and the mode the device draws and lists that   *)
(* program's modes, unless a message was lost or a preset chose them       *)
(* (index.html:1141-1285, bleControl.h:375-388).                           *)
(***************************************************************************)
SelectionAgrees ==
  Quiet /\ ~lost /\ ~byPreset =>
    uiProgram = program /\ uiMode = mode /\ listed = Modes(program)

(***************************************************************************)
(* A slider the user typed into, or that the device set last, shows what   *)
(* the device has, up to the conversion to the parameter's type: every     *)
(* typed value is answered, and no receipt, preset or state message        *)
(* overtakes another (bleControl.h:137-148, 432-459, index.html:1197-1222)*)
(***************************************************************************)
ConfirmedSliderAgrees ==
  Quiet /\ ~lost =>
    \A p \in DOMAIN shown :
      shown[p].by \in {"typed", "device"} => Stored(p, shown[p].val) = value[p]

(***************************************************************************)
(* What a slider was dragged to is sent: whatever is typed, selected,      *)
(* loaded or synced while its timer runs, only another slider dragged      *)
(* within the 300 ms cancels it (index.html:2398-2413), and then the page  *)
(* shows a value the device never gets.                                    *)
(***************************************************************************)
DragsAreSent ==
  Quiet /\ ~lost /\ timer = NoTimer => \A p \in DOMAIN shown : shown[p].by # "drag"

-----------------------------------------------------------------------------
(* What the documentation says and the code does not do.                   *)

(***************************************************************************)
(* Loading a preset brings the page to the preset's visualizer             *)
(* (BLE_UI_SYSTEM.md:260).                                                 *)
(***************************************************************************)
PresetIsShown ==
  Quiet /\ ~lost =>
    Visualizer(UiModeCount, uiProgram, uiMode) = Visualizer(ModeCount, program, mode)
=============================================================================

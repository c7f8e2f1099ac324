----------------------------- MODULE BusParams -----------------------------
(***************************************************************************)
(* The settings of the three audio buses: who may change them, and what    *)
(* the panel of the page shows.  They are set by initBus() at boot, by the *)
(* panel (processNumber with a "bus" field, through a function pointer     *)
(* that boot fills in last), and by the bus preset of a mode; the page     *)
(* learns of them from the answer to button 94 only, which it presses once *)
(* in a connection.                                                        *)
(*                                                                         *)
(* One parameter stands for the six, as each has a slider, a timer and a   *)
(* field of its own.  When the loop enters a mode with a preset is the     *)
(* matter of ModeEntry; here it may at any time once setup() is over.      *)
(***************************************************************************)
EXTENDS Sequences, SequencesExt, Naturals

CONSTANTS
  Bus, Value,
  BusOrder,      \* the order sendBusState() reports the buses in
  InitialValue,  \* initBus()
  UiDefault,     \* BUS_PARAMETER_REGISTRY, not always the value of initBus()
  Overridden,    \* the buses a mode's preset overrides: CK6_PRESET, A and B
  PresetValue,
  None,
  MaxActions     \* bound on the user's actions, connections, presets, reboots

ASSUME BusAssumption ==
  /\ InitialValue \in Value /\ UiDefault \in Value /\ PresetValue \in Value
  /\ None \notin Value /\ Overridden \subseteq Bus
  /\ BusOrder \in Seq(Bus) /\ IsInjective(BusOrder)
  /\ MaxActions \in Nat

VARIABLES
  \* Device
  boot,          \* how far setup() has come since bleSetup()
  bus,           \* [Bus -> Value]
  reports,       \* the buses sendBusState() has yet to report
  \* Link
  linked, up, down,
  \* Page
  askPending,    \* syncInitialState() has yet to press 94
  slider,        \* [Bus -> Value]
  timer,         \* debounceTimers: the value each will send
  \* History
  accepted,      \* the last adjustment a bus took, if no preset came after it
  unanswered,    \* the buses not yet reported in this connection
  disturbed,     \* the buses the panel may be wrong about, see PanelAgrees
  dropped,       \* has this connection lost the question or an answer?
  actions

device == <<boot, bus, reports>>
page   == <<askPending, slider, timer>>
vars   == <<boot, bus, reports, linked, up, down, askPending, slider, timer,
            accepted, unanswered, disturbed, dropped, actions>>

Init ==
  /\ boot = "ble"
  /\ bus = [b \in Bus |-> InitialValue]
  /\ reports = <<>>
  /\ linked = FALSE /\ up = <<>> /\ down = <<>>
  /\ askPending = FALSE
  /\ slider = [b \in Bus |-> UiDefault]
  /\ timer = [b \in Bus |-> None]
  /\ accepted = [b \in Bus |-> None]
  /\ unanswered = Bus /\ disturbed = {} /\ dropped = FALSE
  /\ actions = 0

Acts == actions < MaxActions /\ actions' = actions + 1

-----------------------------------------------------------------------------
(* setup() after bleSetup().  LittleFS.begin(true) comes first and formats *)
(* a new partition: the NimBLE host takes commands all the while.          *)

Boot(from, to) == boot = from /\ boot' = to

InitBuses ==
  /\ Boot("ble", "buses")
  /\ bus' = [b \in Bus |-> InitialValue]
  /\ UNCHANGED <<reports, linked, up, down, page, accepted, unanswered, disturbed, dropped,
                 actions>>

SetHandlers ==
  /\ Boot("buses", "setter") \/ Boot("setter", "ready")
  /\ UNCHANGED <<bus, reports, linked, up, down, page, accepted, unanswered, disturbed,
                 dropped, actions>>

\* Mutant: the pointer refers to the handler from the start.
SettableAtOnce == TRUE
\* setBusParam != nullptr
Settable == boot \in {"setter", "ready"}

\* Mutant: getBusParam is set before setBusParam.
GettableFirst == boot \in {"setter", "ready", "buses"}
\* getBusParam != nullptr
Gettable == boot = "ready"

-----------------------------------------------------------------------------
(* The page.                                                               *)

\* What is adjusted while the answers are due may be overwritten by them.
Answering == linked /\ ~askPending /\ unanswered # {}
Disturb(b) == disturbed' = IF Answering THEN disturbed \cup {b} ELSE disturbed

\* sendValue(): without a connection the value is only logged.
Send(b, v) == up' = IF linked THEN Append(up, [type |-> "bus", bus |-> b, val |-> v]) ELSE up

\* A range input: debouncedSend().
Drag(b, v) ==
  /\ Acts
  /\ slider' = [slider EXCEPT ![b] = v]
  /\ timer' = [timer EXCEPT ![b] = v]
  /\ Disturb(b)
  /\ UNCHANGED <<device, linked, up, down, askPending, accepted, unanswered, dropped>>

\* Mutant: the timer's value is cleared before it is sent.
DebounceFiresCleared(b) ==
  /\ timer[b] # None
  /\ timer' = [timer EXCEPT ![b] = None]
  /\ Send(b, timer'[b])
  /\ UNCHANGED <<device, linked, down, askPending, slider, accepted, unanswered, disturbed,
                 dropped, actions>>

DebounceFires(b) ==
  /\ timer[b] # None
  /\ timer' = [timer EXCEPT ![b] = None]
  /\ Send(b, timer[b])
  /\ UNCHANGED <<device, linked, down, askPending, slider, accepted, unanswered, disturbed,
                 dropped, actions>>

\* A number input or the reset button: sendValue() at once.  A timer left
\* from a drag runs on and sends the older value after the newer.
Type(b, v) ==
  /\ Acts
  /\ slider' = [slider EXCEPT ![b] = v]
  /\ Send(b, v)
  /\ disturbed' = IF Answering \/ timer[b] # None THEN disturbed \cup {b} ELSE disturbed
  /\ UNCHANGED <<device, linked, down, askPending, timer, accepted, unanswered, dropped>>

\* The last of syncInitialState()'s three buttons, 900 ms after connecting.
SyncBuses ==
  /\ askPending
  /\ askPending' = FALSE
  /\ up' = Append(up, [type |-> "ask"])
  /\ disturbed' = {b \in Bus : timer[b] # None}
  /\ UNCHANGED <<device, linked, down, slider, timer, accepted, unanswered, dropped, actions>>

\* syncInputs() for a bus; a timer that runs is left alone.
ReceiveBusState ==
  /\ down # <<>>
  /\ down' = Tail(down)
  /\ slider' = [slider EXCEPT ![Head(down).bus] = Head(down).val]
  /\ unanswered' = unanswered \ {Head(down).bus}
  /\ UNCHANGED <<device, linked, up, askPending, timer, accepted, disturbed, dropped, actions>>

-----------------------------------------------------------------------------
(* The link.                                                               *)

\* The panel keeps its sliders: notifyComponents() does not name it.
Connect ==
  /\ Acts
  /\ ~linked
  /\ linked' = TRUE /\ askPending' = TRUE
  /\ unanswered' = Bus /\ dropped' = FALSE
  /\ UNCHANGED <<device, up, down, slider, timer, accepted, disturbed>>

\* syncInitialState() waits on for 900 ms at most and then only logs that there
\* is no connection: the user picks a device before there is a new one.
CutLink ==
  /\ linked' = FALSE /\ askPending' = FALSE
  /\ up' = <<>> /\ down' = <<>> /\ reports' = <<>>
  /\ UNCHANGED <<slider, timer, unanswered, disturbed, dropped>>

Disconnect ==
  /\ Acts
  /\ linked
  /\ CutLink
  /\ UNCHANGED <<boot, bus, accepted>>

\* A write that fails is logged and not repeated.
LoseWrite ==
  /\ \E i \in DOMAIN up :
       /\ up' = RemoveAt(up, i)
       /\ IF up[i].type = "ask"
          THEN dropped' = TRUE /\ UNCHANGED disturbed
          ELSE disturbed' = disturbed \cup {up[i].bus} /\ UNCHANGED dropped
  /\ UNCHANGED <<device, linked, down, page, accepted, unanswered, actions>>

LoseNotification ==
  /\ \E i \in DOMAIN down : down' = RemoveAt(down, i)
  /\ dropped' = TRUE
  /\ UNCHANGED <<device, linked, up, page, accepted, unanswered, disturbed, actions>>

-----------------------------------------------------------------------------
(* The device.                                                             *)

\* The host task is done with the last message.
Handle(type) == reports = <<>> /\ up # <<>> /\ Head(up).type = type /\ up' = Tail(up)

\* processNumber(); before boot has set the pointer the value falls through to
\* the parameter table, whose globals no bus reads.
HandleBusParam ==
  /\ Handle("bus")
  /\ IF Settable
     THEN /\ bus' = [bus EXCEPT ![Head(up).bus] = Head(up).val]
          /\ accepted' = [accepted EXCEPT ![Head(up).bus] = Head(up).val]
     ELSE UNCHANGED <<bus, accepted>>
  /\ UNCHANGED <<boot, reports, linked, down, page, unanswered, disturbed, dropped, actions>>

\* Mutant: all buses in one message, too long for the link.
SendBusStateCut ==
  /\ Handle("ask")
  /\ reports' = IF Gettable THEN SubSeq(BusOrder, 1, 1) ELSE <<>>
  /\ dropped' = (dropped \/ ~Gettable)
  /\ UNCHANGED <<boot, bus, linked, down, page, accepted, unanswered, disturbed, actions>>

\* sendBusState(): nothing at all before boot has set the pointer.
SendBusState ==
  /\ Handle("ask")
  /\ reports' = IF Gettable THEN BusOrder ELSE <<>>
  /\ dropped' = (dropped \/ ~Gettable)
  /\ UNCHANGED <<boot, bus, linked, down, page, accepted, unanswered, disturbed, actions>>

\* One message for each bus.
ReportBus ==
  /\ reports # <<>>
  /\ reports' = Tail(reports)
  /\ down' = Append(down, [bus |-> Head(reports), val |-> bus[Head(reports)]])
  /\ UNCHANGED <<boot, bus, linked, up, page, accepted, unanswered, disturbed, dropped,
                 actions>>

\* The loop enters a mode with a bus preset.  The page is not told.
ApplyModeAudioPreset ==
  /\ Acts
  /\ boot = "ready"
  /\ bus' = [b \in Bus |-> IF b \in Overridden THEN PresetValue ELSE bus[b]]
  /\ accepted' = [b \in Bus |-> IF b \in Overridden THEN None ELSE accepted[b]]
  /\ disturbed' = disturbed \cup Overridden
  /\ UNCHANGED <<boot, reports, linked, up, down, page, unanswered, dropped>>

\* A power cycle: no bus setting is stored anywhere.
Reboot ==
  /\ Acts
  /\ boot' = "ble"
  /\ bus' = [b \in Bus |-> InitialValue]
  /\ accepted' = [b \in Bus |-> None]
  /\ CutLink

-----------------------------------------------------------------------------
User   == \E b \in Bus, v \in Value : Drag(b, v) \/ Type(b, v)
Timers == \E b \in Bus : DebounceFires(b)
Setup  == InitBuses \/ SetHandlers
Host   == HandleBusParam \/ SendBusState \/ ReportBus
Faults == Disconnect \/ LoseWrite \/ LoseNotification \/ Reboot

Next ==
  \/ User \/ Timers \/ SyncBuses \/ ReceiveBusState \/ Connect
  \/ Setup \/ Host \/ ApplyModeAudioPreset \/ Faults

\* Timers fire, setup() runs to its end, and a connection that stays up
\* delivers in both directions.
Spec ==
  /\ Init /\ [][Next]_vars
  /\ \A b \in Bus : WF_vars(DebounceFires(b))
  /\ WF_vars(Setup) /\ WF_vars(Host) /\ WF_vars(SyncBuses) /\ WF_vars(ReceiveBusState)

-----------------------------------------------------------------------------
Write  == [type : {"ask"}] \cup [type : {"bus"}, bus : Bus, val : Value]
Report == [bus : Bus, val : Value]

TypeOK ==
  /\ boot \in {"ble", "buses", "setter", "ready"}
  /\ bus \in [Bus -> Value] /\ reports \in Seq(Bus)
  /\ linked \in BOOLEAN /\ up \in Seq(Write) /\ down \in Seq(Report)
  /\ askPending \in BOOLEAN
  /\ slider \in [Bus -> Value] /\ timer \in [Bus -> Value \cup {None}]
  /\ accepted \in [Bus -> Value \cup {None}]
  /\ unanswered \subseteq Bus /\ disturbed \subseteq Bus /\ dropped \in BOOLEAN
  /\ actions \in 0 .. MaxActions

(***************************************************************************)
(* An adjustment a bus took stands until the next one, or until a mode     *)
(* with a preset for that bus is entered: boot never takes it back,        *)
(* because initAudioProcessing() sets the pointers after it has            *)
(* initialised the buses (audioProcessing.h:1002-1007), however late       *)
(* LittleFS.begin() lets it run.                                           *)
(***************************************************************************)
AcceptedStands == \A b \in Bus : accepted[b] # None => bus[b] = accepted[b]

\* Nothing is under way that would still change the panel or a bus.
Quiet(b) == linked /\ up = <<>> /\ down = <<>> /\ reports = <<>> /\ timer[b] = None

(***************************************************************************)
(* Once a bus was reported in this connection, and nothing is under way,   *)
(* the panel shows what the bus holds, values set during boot, without a   *)
(* connection or before a reboot included (bleControl.h:341-365,           *)
(* index.html:1341-1356).  It may differ only when, since the page asked:  *)
(* a mode's preset overrode the bus (the page is not told), a number was   *)
(* typed over a drag whose timer still ran (2795-2848: the older value     *)
(* arrives last), it was adjusted while the answer was due, or a write     *)
(* failed.                                                                 *)
(***************************************************************************)
PanelAgrees ==
  \A b \in Bus :
    Quiet(b) /\ b \notin unanswered \cup disturbed => slider[b] = bus[b]

(***************************************************************************)
(* The panel of a connection that lasts is filled in for every bus, if no  *)
(* message is lost and boot was over when the question arrived: the page   *)
(* asks once and does not repeat it.                                       *)
(***************************************************************************)
PanelIsFilled == linked ~> (unanswered = {} \/ dropped \/ ~linked)
=============================================================================

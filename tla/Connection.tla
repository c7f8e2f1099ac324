----------------------------- MODULE Connection -----------------------------
(***************************************************************************)
(* Connecting, disconnecting and advertising again.                        *)
(*                                                                         *)
(*   - the NimBLE host task delivers connect, disconnect and reset events  *)
(*     and runs onConnect and onDisconnect, which store to two flags;      *)
(*   - loop() polls the two flags once a frame and restarts advertising    *)
(*     half a second after a disconnect (main.cpp:507-514).                *)
(*                                                                         *)
(* The flags are plain bools.  loop() loads one, then the other, and       *)
(* clears the second one after the call that starts advertising.           *)
(***************************************************************************)
EXTENDS Naturals, Sequences, FiniteSets

CONSTANTS
  Central,        \* browsers in range
  MaxConnections, \* CONFIG_BT_NIMBLE_MAX_CONNECTIONS
  ShortLinks      \* may a link begin and end between two statements of loop()?

\* Advertising with every connection slot taken is refused by the stack: not
\* modelled, there are slots enough.
ASSUME CentralAssumption ==
  IsFiniteSet(Central) /\ Cardinality(Central) < MaxConnections
ASSUME ShortLinksAssumption == ShortLinks \in BOOLEAN

VARIABLES
  \* The NimBLE stack
  running,         \* did bleSetup() bring the stack up?
  synced,          \* host and controller in step: advertising can be started
  advertising,     \* ble_gap_adv_active()
  links,           \* the centrals connected
  \* The host task
  todo,            \* what the running event handler still has to do
  deviceConnected,
  wasConnected,
  \* The Arduino task
  pc,
  \* History
  fresh            \* centrals that joined while loop() stood between
                   \* startAdvertising() and wasConnected = false

stack == <<synced, advertising, links>>
flags == <<deviceConnected, wasConnected>>
vars  == <<running, stack, todo, flags, pc, fresh>>

\* Instructions of an event handler.
Connected(b)    == <<"deviceConnected", b>>
WasConnected(b) == <<"wasConnected", b>>
Advertise       == <<"advertise", TRUE>>
Instruction     == {"deviceConnected", "wasConnected", "advertise"} \X BOOLEAN

Init ==
  /\ running = FALSE
  /\ synced = FALSE
  /\ advertising = FALSE
  /\ links = {}
  /\ todo = <<>>
  /\ deviceConnected = FALSE
  /\ wasConnected = FALSE
  /\ pc = "setup"
  /\ fresh = {}

-----------------------------------------------------------------------------
(* setup()                                                                 *)

\* bleSetup() ends with pAdvertising->start().
BleSetup ==
  /\ pc = "setup"
  /\ running' = TRUE
  /\ synced' = TRUE
  /\ advertising' = TRUE
  /\ pc' = "connected?"
  /\ UNCHANGED <<links, todo, flags, fresh>>

\* hostedBlePrepare() fails ("BLE setup aborted"), or NimBLEDevice::init does,
\* whose result is not looked at: the portal runs on without BLE.
BleSetupFails ==
  /\ pc = "setup"
  /\ pc' = "connected?"
  /\ UNCHANGED <<running, stack, todo, flags, fresh>>

-----------------------------------------------------------------------------
(* The NimBLE host task                                                    *)

\* A central connects: connectable advertising ends with it.
Connect(c) ==
  /\ todo = <<>> /\ synced /\ advertising
  /\ c \notin links
  /\ links' = links \cup {c}
  /\ advertising' = FALSE
  /\ todo' = << Connected(TRUE), WasConnected(TRUE) >>
  /\ fresh' = IF pc = "clear" THEN fresh \cup {c} ELSE fresh
  /\ UNCHANGED <<running, synced, flags, pc>>

\* A connect event with a status: handleGapEvent starts advertising again.
ConnectFails ==
  /\ todo = <<>> /\ synced /\ advertising
  /\ advertising' = FALSE
  /\ todo' = << Advertise >>
  /\ UNCHANGED <<running, synced, links, flags, pc, fresh>>

\* Mutant: the event is handled inside the handler of another event.
DisconnectNested(c) ==
  /\ synced
  /\ c \in links /\ (ShortLinks \/ c \notin fresh)
  /\ links' = links \ {c}
  /\ todo' = << Connected(FALSE), WasConnected(TRUE) >> \o todo
  /\ fresh' = fresh \ {c}
  /\ UNCHANGED <<running, synced, advertising, flags, pc>>

\* Mutant: onDisconnect trusts onConnect to have raised wasConnected.
DisconnectTrustsConnect(c) ==
  /\ todo = <<>> /\ synced
  /\ c \in links /\ (ShortLinks \/ c \notin fresh)
  /\ links' = links \ {c}
  /\ todo' = << Connected(FALSE) >>
  /\ fresh' = fresh \ {c}
  /\ UNCHANGED <<running, synced, advertising, flags, pc>>

\* The browser closes the link, or it times out.
Disconnect(c) ==
  /\ todo = <<>> /\ synced
  /\ c \in links /\ (ShortLinks \/ c \notin fresh)
  /\ links' = links \ {c}
  /\ todo' = << Connected(FALSE), WasConnected(TRUE) >>
  /\ fresh' = fresh \ {c}
  /\ UNCHANGED <<running, synced, advertising, flags, pc>>

\* The host loses the controller (ble_hs_reset): nothing can be started now.
HostReset ==
  /\ todo = <<>> /\ synced
  /\ synced' = FALSE
  /\ UNCHANGED <<running, advertising, links, todo, flags, pc, fresh>>

\* Every link is broken in turn, with a disconnect event each ...
BreakLink(c) ==
  /\ todo = <<>> /\ ~synced
  /\ c \in links
  /\ links' = links \ {c}
  /\ todo' = << Connected(FALSE), WasConnected(TRUE) >>
  /\ fresh' = fresh \ {c}
  /\ UNCHANGED <<running, synced, advertising, flags, pc>>

\* ... then advertising is ended ...
StopAdvertising ==
  /\ todo = <<>> /\ ~synced /\ links = {}
  /\ advertising
  /\ advertising' = FALSE
  /\ UNCHANGED <<running, synced, links, todo, flags, pc, fresh>>

\* ... and onSync starts it again (onHostSync, m_duration is 0).
Resync ==
  /\ todo = <<>> /\ ~synced /\ links = {} /\ ~advertising
  /\ running
  /\ synced' = TRUE
  /\ todo' = << Advertise >>
  /\ UNCHANGED <<running, advertising, links, flags, pc, fresh>>

\* One instruction of the running handler.
HostStep ==
  /\ todo # <<>>
  /\ todo' = Tail(todo)
  /\ LET dest == Head(todo)[1]
         val  == Head(todo)[2]
     IN  /\ deviceConnected' = IF dest = "deviceConnected" THEN val ELSE deviceConnected
         /\ wasConnected' = IF dest = "wasConnected" THEN val ELSE wasConnected
         /\ advertising' = IF dest = "advertise" THEN synced \/ advertising ELSE advertising
  /\ UNCHANGED <<running, synced, links, pc, fresh>>

-----------------------------------------------------------------------------
(* loop(): if (!deviceConnected && wasConnected) ...                       *)

Goto(from, to) == pc = from /\ pc' = to

\* Mutant: if (deviceConnected && wasConnected).
LoadConnectedInverted ==
  /\ Goto("connected?", IF deviceConnected THEN "was?" ELSE "connected?")
  /\ UNCHANGED <<running, stack, todo, flags, fresh>>

LoadConnected ==
  /\ Goto("connected?", IF deviceConnected THEN "connected?" ELSE "was?")
  /\ UNCHANGED <<running, stack, todo, flags, fresh>>

\* Mutant: if (!deviceConnected) alone, advertising again every frame.
LoadWasConnectedDropped ==
  /\ Goto("was?", "start")
  /\ UNCHANGED <<running, stack, todo, flags, fresh>>

LoadWasConnected ==
  /\ Goto("was?", IF wasConnected THEN "start" ELSE "connected?")
  /\ UNCHANGED <<running, stack, todo, flags, fresh>>

\* delay(500); pServer->startAdvertising();  the result is not looked at.
StartAdvertising ==
  /\ Goto("start", "clear")
  /\ advertising' = (synced \/ advertising)
  /\ UNCHANGED <<running, synced, links, todo, flags, fresh>>

\* wasConnected = false;
ClearWasConnected ==
  /\ Goto("clear", "connected?")
  /\ wasConnected' = FALSE
  /\ fresh' = {}
  /\ UNCHANGED <<running, stack, todo, deviceConnected>>

-----------------------------------------------------------------------------
Setup == BleSetup \/ BleSetupFails
Recover == (\E c \in Central : BreakLink(c)) \/ StopAdvertising \/ Resync \/ HostStep
Host == (\E c \in Central : Connect(c) \/ Disconnect(c)) \/ ConnectFails \/ HostReset
        \/ Recover
Loop == LoadConnected \/ LoadWasConnected \/ StartAdvertising \/ ClearWasConnected

Next == Setup \/ Host \/ Loop

\* loop() runs for ever, an event handler runs to its end, and the stack
\* completes a reset it has begun.  Nobody has to connect or to disconnect.
Spec == Init /\ [][Next]_vars /\ WF_vars(Loop) /\ WF_vars(Recover)

-----------------------------------------------------------------------------
TypeOK ==
  /\ running \in BOOLEAN
  /\ synced \in BOOLEAN
  /\ advertising \in BOOLEAN
  /\ links \subseteq Central
  /\ todo \in Seq(Instruction) /\ Len(todo) <= 2
  /\ deviceConnected \in BOOLEAN
  /\ wasConnected \in BOOLEAN
  /\ pc \in {"setup", "connected?", "was?", "start", "clear"}
  /\ fresh \subseteq links

(***************************************************************************)
(* An AuroraPortal that nobody is connected to and that does not advertise *)
(* has not forgotten it: the flags tell loop() to start advertising, or    *)
(* the event handler is about to raise them, or the stack is going to      *)
(* resync (bleControl.h:517-529 against main.cpp:508-513).                 *)
(***************************************************************************)
NeverForgotten ==
  synced /\ links = {} /\ ~advertising
    => \/ \E i \in DOMAIN todo : todo[i] \in {WasConnected(TRUE), Advertise}
       \/ wasConnected /\ ~deviceConnected /\ pc # "clear"

(***************************************************************************)
(* pServer is null when bleSetup() was given up (bleControl.h:644-647).    *)
(* Nothing but the flags keeps loop() from calling through it              *)
(* (main.cpp:511): they are raised only by a server that exists.           *)
(***************************************************************************)
ServerExists == pc = "start" => running

(***************************************************************************)
(* The flags, the two tasks and the resets of the stack implement what     *)
(* Peripheral promises: a central joins only a visible device, and a       *)
(* device left alone becomes visible again.                                *)
(***************************************************************************)
Abstract == INSTANCE Peripheral
  WITH alive <- running, visible <- advertising
ImplementsPeripheral == Abstract!Spec
=============================================================================

------------------------------ MODULE Ble_proofs ------------------------------
(***************************************************************************)
(* Proofs about BLE: Connection, for every set of centrals, and HostedBle, *)
(* the bring-up of the radio that comes before it, for every number of     *)
(* attempts.                                                               *)
(***************************************************************************)
EXTENDS Connection, HostedBle, TLAPS

-----------------------------------------------------------------------------
(* Connection                                                              *)

\* What a running handler can have left to do.
OnConnect    == << Connected(TRUE), WasConnected(TRUE) >>
OnDisconnect == << Connected(FALSE), WasConnected(TRUE) >>
Raise        == << WasConnected(TRUE) >>
Restart      == << Advertise >>
Handler      == {OnConnect, OnDisconnect, Raise, Restart}

(***************************************************************************)
(* The invariants.  NeverForgotten is not inductive: it must be known what *)
(* an event handler can have left to do, which flags it has stored by      *)
(* then, and that what startAdvertising() did has not been undone when     *)
(* loop() clears wasConnected.                                             *)
(***************************************************************************)
Pcs == {"setup", "connected?", "was?", "start", "clear"}

TypeInv ==
  /\ running \in BOOLEAN /\ synced \in BOOLEAN /\ advertising \in BOOLEAN
  /\ links \subseteq Central
  /\ deviceConnected \in BOOLEAN /\ wasConnected \in BOOLEAN
  /\ pc \in Pcs
  /\ fresh \subseteq links
  /\ todo \in Handler \cup {<<>>}

BootInv ==
  /\ pc = "setup" => ~running
  /\ synced \/ advertising \/ links # {} \/ todo # <<>> => running
  /\ wasConnected \/ pc = "start" => running

HandlerInv ==
  /\ todo = OnConnect => links # {}
  /\ todo = Raise /\ deviceConnected => links # {}

ClearInv ==
  pc = "clear" => ~synced \/ advertising \/ fresh # {} \/ todo = Restart

IInv == TypeInv /\ BootInv /\ HandlerInv

-----------------------------------------------------------------------------
(* The handlers: what is left of each after one step.                      *)
LEMMA Handlers ==
  /\ OnConnect # <<>> /\ OnDisconnect # <<>> /\ Raise # <<>> /\ Restart # <<>>
  /\ OnConnect # OnDisconnect /\ OnConnect # Raise /\ OnConnect # Restart
  /\ OnDisconnect # Raise /\ OnDisconnect # Restart /\ Raise # Restart
  BY DEF OnConnect, OnDisconnect, Raise, Restart, Connected, WasConnected, Advertise

LEMMA ShortSequences ==
  ASSUME NEW a, NEW b
  PROVE  /\ Head(<<a>>) = a /\ Tail(<<a>>) = <<>>
         /\ Head(<<a, b>>) = a /\ Tail(<<a, b>>) = <<b>>
<1>1. Head(<<a>>) = a /\ Head(<<a, b>>) = a
  OBVIOUS
<1>2. Tail(<<a>>) = <<>>
  OBVIOUS
<1>3. Tail(<<a, b>>) = <<b>>
  OBVIOUS
<1> QED
  BY <1>1, <1>2, <1>3

LEMMA Pairs ==
  /\ \A b : Connected(b)[1] = "deviceConnected" /\ Connected(b)[2] = b
  /\ \A b : WasConnected(b)[1] = "wasConnected" /\ WasConnected(b)[2] = b
  /\ Advertise[1] = "advertise"
<1>1. \A a, b : <<a, b>>[1] = a /\ <<a, b>>[2] = b
  OBVIOUS
<1> QED
  BY <1>1, Zenon DEF Connected, WasConnected, Advertise

LEMMA HandlerSteps ==
  /\ Tail(OnConnect) = Raise /\ Head(OnConnect) = Connected(TRUE)
  /\ Tail(OnDisconnect) = Raise /\ Head(OnDisconnect) = Connected(FALSE)
  /\ Tail(Raise) = <<>> /\ Head(Raise) = WasConnected(TRUE)
  /\ Tail(Restart) = <<>> /\ Head(Restart) = Advertise
  BY ShortSequences, Zenon
     DEF OnConnect, OnDisconnect, Raise, Restart, Connected, WasConnected, Advertise

LEMMA HandlerTypes ==
  \A t \in Handler \cup {<<>>} : t \in Seq(Instruction) /\ Len(t) <= 2
<1>1. /\ <<"deviceConnected", TRUE>> \in Instruction
      /\ <<"deviceConnected", FALSE>> \in Instruction
      /\ <<"wasConnected", TRUE>> \in Instruction
      /\ <<"advertise", TRUE>> \in Instruction
  BY DEF Instruction
<1>2. \A a, b \in Instruction :
        <<a>> \in Seq(Instruction) /\ <<a, b>> \in Seq(Instruction)
  OBVIOUS
<1>3. \A a, b \in Instruction : Len(<<a>>) = 1 /\ Len(<<a, b>>) = 2
  OBVIOUS
<1>4. OnConnect \in Seq(Instruction) /\ Len(OnConnect) <= 2
  BY <1>1, <1>2, <1>3 DEF OnConnect, Connected, WasConnected
<1>5. OnDisconnect \in Seq(Instruction) /\ Len(OnDisconnect) <= 2
  BY <1>1, <1>2, <1>3 DEF OnDisconnect, Connected, WasConnected
<1>6. Raise \in Seq(Instruction) /\ Len(Raise) <= 2
  BY <1>1, <1>2, <1>3 DEF Raise, WasConnected
<1>7. Restart \in Seq(Instruction) /\ Len(Restart) <= 2
  BY <1>1, <1>2, <1>3 DEF Restart, Advertise
<1>8. <<>> \in Seq(Instruction) /\ Len(<<>>) <= 2
  OBVIOUS
<1> QED
  BY <1>4, <1>5, <1>6, <1>7, <1>8, Zenon DEF Handler

\* What NeverForgotten asks of the handler that is running.
LEMMA HandlerPending ==
  \A t \in Handler :
    \E i \in DOMAIN t : t[i] \in {WasConnected(TRUE), Advertise}
<1>1. OnConnect[2] = WasConnected(TRUE) /\ 2 \in DOMAIN OnConnect
  BY DEF OnConnect
<1>2. OnDisconnect[2] = WasConnected(TRUE) /\ 2 \in DOMAIN OnDisconnect
  BY DEF OnDisconnect
<1>3. Raise[1] = WasConnected(TRUE) /\ 1 \in DOMAIN Raise
  BY DEF Raise
<1>4. Restart[1] = Advertise /\ 1 \in DOMAIN Restart
  BY DEF Restart
<1> QED
  BY <1>1, <1>2, <1>3, <1>4 DEF Handler

-----------------------------------------------------------------------------
LEMMA Initially == Init => IInv /\ ClearInv
  BY Handlers DEF Init, IInv, TypeInv, BootInv, HandlerInv, ClearInv, Pcs

\* One instruction of a handler, in the handlers' terms.
LEMMA HostStepCases ==
  ASSUME IInv, HostStep
  PROVE  \/ /\ todo = OnConnect /\ todo' = Raise
            /\ deviceConnected' = TRUE /\ UNCHANGED <<wasConnected, advertising>>
         \/ /\ todo = OnDisconnect /\ todo' = Raise
            /\ deviceConnected' = FALSE /\ UNCHANGED <<wasConnected, advertising>>
         \/ /\ todo = Raise /\ todo' = <<>>
            /\ wasConnected' = TRUE /\ UNCHANGED <<deviceConnected, advertising>>
         \/ /\ todo = Restart /\ todo' = <<>>
            /\ advertising' = (synced \/ advertising)
            /\ UNCHANGED <<deviceConnected, wasConnected>>
<1> DEFINE dest == Head(todo)[1]
           val  == Head(todo)[2]
<1>1. todo \in Handler
  BY DEF IInv, TypeInv, HostStep
<1>2. /\ todo' = Tail(todo)
      /\ deviceConnected' = IF dest = "deviceConnected" THEN val ELSE deviceConnected
      /\ wasConnected' = IF dest = "wasConnected" THEN val ELSE wasConnected
      /\ advertising' = IF dest = "advertise" THEN synced \/ advertising ELSE advertising
  BY DEF HostStep
<1>3. ASSUME todo = OnConnect
      PROVE  todo' = Raise /\ dest = "deviceConnected" /\ val = TRUE
  BY <1>2, <1>3, HandlerSteps, Pairs, Zenon
<1>4. ASSUME todo = OnDisconnect
      PROVE  todo' = Raise /\ dest = "deviceConnected" /\ val = FALSE
  BY <1>2, <1>4, HandlerSteps, Pairs, Zenon
<1>5. ASSUME todo = Raise
      PROVE  todo' = <<>> /\ dest = "wasConnected" /\ val = TRUE
  BY <1>2, <1>5, HandlerSteps, Pairs, Zenon
<1>6. ASSUME todo = Restart
      PROVE  todo' = <<>> /\ dest = "advertise"
  BY <1>2, <1>6, HandlerSteps, Pairs, Zenon
<1> HIDE DEF dest, val
<1> QED
  BY <1>1, <1>2, <1>3, <1>4, <1>5, <1>6 DEF Handler

LEMMA HostPreserves == ASSUME IInv, Host PROVE IInv'
<1> USE Handlers DEF IInv, TypeInv, BootInv, HandlerInv, Handler
<1>1. ASSUME NEW c \in Central, Connect(c) PROVE IInv'
  BY <1>1 DEF Connect, flags, OnConnect
<1>2. ASSUME NEW c \in Central, Disconnect(c) PROVE IInv'
  BY <1>2 DEF Disconnect, flags, OnDisconnect
<1>3. CASE ConnectFails
  BY <1>3 DEF ConnectFails, flags, Restart
<1>4. CASE HostReset
  BY <1>4 DEF HostReset, flags
<1>5. ASSUME NEW c \in Central, BreakLink(c) PROVE IInv'
  BY <1>5 DEF BreakLink, flags, OnDisconnect
<1>6. CASE StopAdvertising
  BY <1>6 DEF StopAdvertising, flags
<1>7. CASE Resync
  BY <1>7 DEF Resync, flags, Restart
<1>8. CASE HostStep
  BY <1>8, HostStepCases DEF HostStep
<1> QED
  BY <1>1, <1>2, <1>3, <1>4, <1>5, <1>6, <1>7, <1>8 DEF Host, Recover

LEMMA TaskPreserves == ASSUME IInv, Setup \/ Loop PROVE IInv'
<1> USE DEF IInv, TypeInv, BootInv, HandlerInv, Pcs
<1>1. CASE BleSetup
  BY <1>1 DEF BleSetup, flags
<1>2. CASE BleSetupFails
  BY <1>2 DEF BleSetupFails, stack, flags
<1>3. CASE LoadConnected
  BY <1>3 DEF LoadConnected, Goto, stack, flags
<1>4. CASE LoadWasConnected
  BY <1>4 DEF LoadWasConnected, Goto, stack, flags
<1>5. CASE StartAdvertising
  BY <1>5 DEF StartAdvertising, Goto, flags
<1>6. CASE ClearWasConnected
  BY <1>6 DEF ClearWasConnected, Goto, stack
<1> QED
  BY <1>1, <1>2, <1>3, <1>4, <1>5, <1>6 DEF Setup, Loop

LEMMA Inductive == IInv /\ [Next]_vars => IInv'
<1> SUFFICES ASSUME IInv, [Next]_vars PROVE IInv'
  OBVIOUS
<1>1. CASE Host
  BY <1>1, HostPreserves
<1>2. CASE Setup \/ Loop
  BY <1>2, TaskPreserves
<1>3. CASE UNCHANGED vars
  BY <1>3 DEF vars, stack, flags, IInv, TypeInv, BootInv, HandlerInv
<1> QED
  BY <1>1, <1>2, <1>3 DEF Next

\* Only here short links matter: a link made between the two statements is
\* still there at the second, unless a reset broke it.
LEMMA ClearPreserved ==
  ASSUME ~ShortLinks, IInv, ClearInv, [Next]_vars PROVE ClearInv'
<1> USE Handlers DEF IInv, TypeInv, ClearInv, Handler
<1>1. ASSUME NEW c \in Central, Connect(c) PROVE ClearInv'
  BY <1>1 DEF Connect
<1>2. ASSUME NEW c \in Central, Disconnect(c) PROVE ClearInv'
  BY <1>2 DEF Disconnect
<1>3. CASE ConnectFails
  BY <1>3 DEF ConnectFails, Restart
<1>4. CASE HostReset \/ StopAdvertising
  BY <1>4 DEF HostReset, StopAdvertising
<1>5. ASSUME NEW c \in Central, BreakLink(c) PROVE ClearInv'
  BY <1>5 DEF BreakLink
<1>6. CASE Resync
  BY <1>6 DEF Resync, Restart
<1>7. CASE HostStep
  BY <1>7, HostStepCases DEF HostStep
<1>8. CASE Setup \/ LoadConnected \/ LoadWasConnected
  BY <1>8 DEF Setup, BleSetup, BleSetupFails, LoadConnected, LoadWasConnected, Goto
<1>9. CASE StartAdvertising
  BY <1>9 DEF StartAdvertising, Goto
<1>10. CASE ClearWasConnected
  BY <1>10 DEF ClearWasConnected, Goto
<1>11. CASE UNCHANGED vars
  BY <1>11 DEF vars, stack
<1> QED
  BY <1>1, <1>2, <1>3, <1>4, <1>5, <1>6, <1>7, <1>8, <1>9, <1>10, <1>11
     DEF Next, Host, Recover, Loop

-----------------------------------------------------------------------------
LEMMA TypeFollows == IInv => TypeOK
<1> SUFFICES ASSUME IInv PROVE TypeOK
  OBVIOUS
<1>1. todo \in Seq(Instruction) /\ Len(todo) <= 2
  BY HandlerTypes DEF IInv, TypeInv
<1> QED
  BY <1>1 DEF TypeOK, IInv, TypeInv, Pcs

(***************************************************************************)
(* The flags, the program counters and the running handler keep their      *)
(* types: no event handler begins inside another one.                      *)
(***************************************************************************)
THEOREM TypeCorrect == Spec => []TypeOK
  BY Initially, Inductive, TypeFollows, PTL DEF Spec

LEMMA NeverForgottenStep ==
  ASSUME IInv, ClearInv, NeverForgotten, [Next]_vars PROVE NeverForgotten'
<1> DEFINE Forgotten == synced /\ links = {} /\ ~advertising
           Pending   == todo \in Handler
           Raised    == wasConnected /\ ~deviceConnected /\ pc # "clear"
<1>1. todo \in Handler \/ todo = <<>>
  BY DEF IInv, TypeInv
<1>2. Forgotten => Pending \/ Raised
  <2>1. DOMAIN <<>> = {}
    OBVIOUS
  <2> QED
    BY <1>1, <2>1 DEF NeverForgotten
<1>3. ASSUME Forgotten' => Pending' \/ Raised' PROVE NeverForgotten'
  BY <1>3, HandlerPending DEF NeverForgotten
<1> SUFFICES Forgotten' => Pending' \/ Raised'
  BY <1>3
<1>4. CASE \/ \E c \in Central : Connect(c) \/ Disconnect(c) \/ BreakLink(c)
           \/ ConnectFails \/ Resync
  BY <1>4 DEF Connect, Disconnect, BreakLink, ConnectFails, Resync,
     Handler, OnConnect, OnDisconnect, Restart
<1>5. CASE HostReset \/ StopAdvertising
  BY <1>5 DEF HostReset, StopAdvertising
<1>6. CASE HostStep
  BY <1>6, HostStepCases, Handlers
     DEF HostStep, Handler, IInv, TypeInv, HandlerInv, ClearInv
<1>7. CASE Setup
  BY <1>2, <1>7 DEF Setup, BleSetup, BleSetupFails, stack, flags
<1>8. CASE LoadConnected \/ LoadWasConnected
  BY <1>2, <1>8 DEF LoadConnected, LoadWasConnected, Goto, stack, flags
<1>9. CASE StartAdvertising
  BY <1>9 DEF StartAdvertising
<1>10. CASE ClearWasConnected
  BY <1>10 DEF ClearWasConnected, Goto, stack, ClearInv, IInv, TypeInv, Handler
<1>11. CASE UNCHANGED vars
  BY <1>2, <1>11 DEF vars, stack, flags
<1> QED
  BY <1>4, <1>5, <1>6, <1>7, <1>8, <1>9, <1>10, <1>11
     DEF Next, Host, Recover, Loop

(***************************************************************************)
(* Where no link begins and ends between two statements of loop(), a       *)
(* device left alone never forgets that it has to advertise again.         *)
(***************************************************************************)
THEOREM NeverForgottenCorrect == ASSUME ~ShortLinks PROVE Spec => []NeverForgotten
<1>1. Init => IInv /\ ClearInv /\ NeverForgotten
  BY Initially DEF Init, NeverForgotten
<1>2. IInv /\ ClearInv /\ NeverForgotten /\ [Next]_vars
        => (IInv /\ ClearInv /\ NeverForgotten)'
  BY Inductive, ClearPreserved, NeverForgottenStep
<1> QED
  BY <1>1, <1>2, PTL DEF Spec

(***************************************************************************)
(* loop() never calls startAdvertising() on the null pServer of a bleSetup *)
(* that was given up.                                                      *)
(***************************************************************************)
THEOREM ServerExistsCorrect == Spec => []ServerExists
<1>1. IInv => ServerExists
  BY DEF IInv, BootInv, ServerExists
<1> QED
  BY <1>1, Initially, Inductive, PTL DEF Spec

-----------------------------------------------------------------------------
LEMMA AbstractStep == ASSUME IInv, [Next]_vars PROVE [Abstract!Next]_(Abstract!vars)
<1> USE DEF Abstract!Next, Abstract!vars
<1>1. ASSUME NEW c \in Central, Connect(c) PROVE Abstract!Join(c)
  BY <1>1 DEF Connect, Abstract!Join
<1>2. ASSUME NEW c \in Central, Disconnect(c) \/ BreakLink(c) PROVE Abstract!Leave(c)
  BY <1>2 DEF Disconnect, BreakLink, Abstract!Leave
<1>3. ASSUME ConnectFails \/ StopAdvertising PROVE Abstract!Vanish
  BY <1>3 DEF ConnectFails, StopAdvertising, Abstract!Vanish
<1>4. CASE HostReset \/ Resync
  BY <1>4 DEF HostReset, Resync
<1>5. CASE HostStep
  BY <1>5, HostStepCases DEF HostStep, Abstract!Appear, IInv, TypeInv, BootInv
<1>6. CASE BleSetup
  BY <1>6 DEF BleSetup, Abstract!Boot, IInv, BootInv
<1>7. CASE BleSetupFails \/ LoadConnected \/ LoadWasConnected \/ ClearWasConnected
  BY <1>7 DEF BleSetupFails, LoadConnected, LoadWasConnected, ClearWasConnected, stack
<1>8. CASE StartAdvertising
  BY <1>8 DEF StartAdvertising, Abstract!Appear, IInv, TypeInv, BootInv
<1>9. CASE UNCHANGED vars
  BY <1>9 DEF vars, stack
<1> QED
  BY <1>1, <1>2, <1>3, <1>4, <1>5, <1>6, <1>7, <1>8, <1>9
     DEF Next, Setup, Host, Recover, Loop

(***************************************************************************)
(* Whatever the links do, every step of the two tasks and of the stack is  *)
(* a step the abstract peripheral may take, or invisible to it.            *)
(***************************************************************************)
THEOREM ImplementsSafety == Spec => Abstract!Init /\ [][Abstract!Next]_(Abstract!vars)
<1>1. Init => Abstract!Init
  BY DEF Init, Abstract!Init
<1> QED
  BY <1>1, Initially, Inductive, AbstractStep, PTL DEF Spec

-----------------------------------------------------------------------------
(* HostedBle                                                               *)

USE AttemptsAssumption

(***************************************************************************)
(* What is up at each call, and how many delays there have been by then.   *)
(***************************************************************************)
BringUpInv ==
  /\ call \in {"connect", "controller_init", "controller_enable"} => hosted
  /\ call \in {"controller_init", "controller_enable"} => slave
  /\ call = "controller_enable" => controller # "off"
  /\ slave => hosted
  /\ call # "done" => result = "none"
  /\ call \in {"disable", "deinit", "hosted_deinit"} => attempt < BringupAttempts

DelayInv ==
  /\ resets = attempt - 1
  /\ call \in {"nvs", "nvs_erase", "nvs_again", "hosted_init"}
       => connects <= (attempt - 1) * ConnectAttempts
  /\ call = "connect"
       => connects + ConnectAttempts + 1 <= attempt * ConnectAttempts + connect
  /\ connects <= attempt * ConnectAttempts

PrepareInv == PrepareTypeOK /\ BringUpInv /\ DelayInv /\ ReadyMeansEnabled

-----------------------------------------------------------------------------
LEMMA Products ==
  ASSUME NEW a \in Nat, NEW c \in Nat
  PROVE  /\ a * c \in Nat
         /\ (a + 1 - 1) * c = a * c
         /\ (a + 1) * c = a * c + c
<1>1. (a + 1) * c = a * c + c
  BY SMT
<1>2. a + 1 - 1 = a
  OBVIOUS
<1> QED
  BY <1>1, <1>2

LEMMA PrepareInitially == PrepareInit => PrepareInv
<1>1. (1 - 1) * ConnectAttempts = 0 /\ 1 * ConnectAttempts = ConnectAttempts
  OBVIOUS
<1> QED
  BY <1>1
     DEF PrepareInit, PrepareInv, PrepareTypeOK, BringUpInv, DelayInv, ReadyMeansEnabled

LEMMA NvsPreserves ==
  ASSUME PrepareInv, InitNvsIfNeeded PROVE PrepareInv'
  BY DEF InitNvsIfNeeded, NvsReady, NvsFull, Erased, NvsAgain, NvsFails, Proceed, Return,
         program, esp, history,
         PrepareInv, PrepareTypeOK, BringUpInv, DelayInv, ReadyMeansEnabled

LEMMA TransportPreserves ==
  ASSUME PrepareInv, EnsureHostedTransportReady PROVE PrepareInv'
<1> USE DEF PrepareInv, PrepareTypeOK, BringUpInv, DelayInv, ReadyMeansEnabled,
            Proceed, Return, AttemptFails, program, esp, history
<1>1. CASE HostedInit
  <2>1. attempt \in Nat /\ attempt - 1 \in Nat /\ (attempt - 1) + 1 = attempt
    OBVIOUS
  <2>2. attempt * ConnectAttempts = (attempt - 1) * ConnectAttempts + ConnectAttempts
    BY <2>1, Products
  <2> QED
    BY <1>1, <2>2 DEF HostedInit
<1>2. CASE HostedInitFails
  BY <1>2 DEF HostedInitFails
<1>3. CASE ConnectToSlave
  BY <1>3 DEF ConnectToSlave
<1>4. CASE ConnectToSlaveFails
  BY <1>4, Products DEF ConnectToSlaveFails
<1> QED
  BY <1>1, <1>2, <1>3, <1>4 DEF EnsureHostedTransportReady

LEMMA ControllerPreserves ==
  ASSUME PrepareInv, BringUpHostedBleController PROVE PrepareInv'
<1> USE DEF PrepareInv, PrepareTypeOK, BringUpInv, DelayInv, ReadyMeansEnabled,
            Proceed, Return, AttemptFails, program, history
<1>1. CASE ControllerInit
  BY <1>1 DEF ControllerInit
<1>2. CASE ControllerInitFails
  BY <1>2 DEF ControllerInitFails
<1>3. CASE ControllerEnable
  BY <1>3 DEF ControllerEnable
<1>4. CASE ControllerEnableFails
  BY <1>4 DEF ControllerEnableFails
<1> QED
  BY <1>1, <1>2, <1>3, <1>4 DEF BringUpHostedBleController

LEMMA ResetPreserves ==
  ASSUME PrepareInv, ResetHostedStackForRetry PROVE PrepareInv'
<1> USE DEF PrepareInv, PrepareTypeOK, BringUpInv, DelayInv, ReadyMeansEnabled,
            Proceed, program, history
<1>1. CASE Disable
  BY <1>1 DEF Disable
<1>2. CASE Deinit
  BY <1>2 DEF Deinit
<1>3. CASE HostedDeinit
  <2>1. attempt \in Nat /\ attempt' = attempt + 1 /\ attempt' - 1 = attempt
    BY <1>3 DEF HostedDeinit
  <2>2. (attempt' - 1) * ConnectAttempts = attempt * ConnectAttempts
    BY <2>1
  <2>3. attempt' * ConnectAttempts = attempt * ConnectAttempts + ConnectAttempts
    BY <2>1, Products
  <2>4. attempt * ConnectAttempts \in Nat
    BY <2>1
  <2>5. DelayInv'
    <3>1. connects' <= attempt * ConnectAttempts /\ resets' = attempt' - 1
          /\ call' = "hosted_init"
      BY <1>3, <2>1 DEF HostedDeinit
    <3> HIDE DEF PrepareInv, PrepareTypeOK
    <3>2. connects' \in Nat
      BY <1>3 DEF HostedDeinit, PrepareInv, PrepareTypeOK
    <3> QED
      BY <2>2, <2>3, <2>4, <3>1, <3>2
  <2>6. PrepareTypeOK' /\ BringUpInv' /\ ReadyMeansEnabled'
    <3>1. attempt' \in 1 .. BringupAttempts /\ resets' \in Nat
      BY <1>3, <2>1 DEF HostedDeinit
    <3>2. /\ hosted' \in BOOLEAN /\ slave' \in BOOLEAN /\ slave' => hosted'
          /\ call' = "hosted_init" /\ result' = "none"
      BY <1>3 DEF HostedDeinit
    <3> HIDE DEF DelayInv
    <3> QED
      BY <1>3, <3>1, <3>2 DEF HostedDeinit
  <2> QED
    BY <2>5, <2>6
<1> QED
  BY <1>1, <1>2, <1>3 DEF ResetHostedStackForRetry

LEMMA PrepareInductive == PrepareInv /\ [PrepareNext]_prepareVars => PrepareInv'
<1> SUFFICES ASSUME PrepareInv, [PrepareNext]_prepareVars PROVE PrepareInv'
  OBVIOUS
<1>1. CASE UNCHANGED prepareVars
  BY <1>1 DEF prepareVars, program, esp, history, PrepareInv, PrepareTypeOK,
                 BringUpInv, DelayInv, ReadyMeansEnabled
<1> QED
  BY <1>1, NvsPreserves, TransportPreserves, ControllerPreserves, ResetPreserves
     DEF PrepareNext

-----------------------------------------------------------------------------
(***************************************************************************)
(* Both loop variables stay within their bounds, for any bounds.           *)
(***************************************************************************)
THEOREM PrepareTypeCorrect == PrepareSpec => []PrepareTypeOK
  BY PrepareInitially, PrepareInductive, PTL DEF PrepareSpec, PrepareInv

(***************************************************************************)
(* An answer of true means that the controller can be used, whatever was   *)
(* up before, whichever answers were lost and however often it was tried.  *)
(***************************************************************************)
THEOREM ReadyCorrect == PrepareSpec => []ReadyMeansEnabled
  BY PrepareInitially, PrepareInductive, PTL DEF PrepareSpec, PrepareInv

(***************************************************************************)
(* The delays of setup() are bounded by the product of the two bounds.     *)
(***************************************************************************)
THEOREM DelaysCorrect == PrepareSpec => []DelaysBounded
<1>1. PrepareInv => DelaysBounded
  BY DEF PrepareInv, PrepareTypeOK, DelayInv, DelaysBounded
<1> QED
  BY <1>1, PrepareInitially, PrepareInductive, PTL DEF PrepareSpec
=============================================================================

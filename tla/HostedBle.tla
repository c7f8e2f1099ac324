------------------------------ MODULE HostedBle ------------------------------
(***************************************************************************)
(* hostedBlePrepare(): on boards whose radio is an ESP-Hosted co-processor *)
(* bleSetup() first brings up the transport to it and its BLE controller,  *)
(* with a bounded number of retries (hosted_ble_bridge.cpp).               *)
(*                                                                         *)
(* The esp_hosted calls are not in the repository.  They are modelled by   *)
(* the three answers the code tells apart: ESP_OK, ESP_ERR_INVALID_STATE   *)
(* ("not in the state this call starts from", which the code takes for     *)
(* success) and an error.  A controller call is a request to the           *)
(* co-processor whose answer may be lost: an error says nothing of whether *)
(* it was carried out.  The co-processor may be reset when the transport   *)
(* connects, but does not restart by itself.                               *)
(***************************************************************************)
EXTENDS Naturals

CONSTANTS
  ConnectAttempts,   \* kConnectAttempts
  BringupAttempts    \* kBleBringupAttempts

ASSUME AttemptsAssumption ==
  ConnectAttempts \in Nat \ {0} /\ BringupAttempts \in Nat \ {0}

VARIABLES
  call,        \* the call hostedBlePrepare() makes next
  attempt,     \* its loop variable
  connect,     \* the loop variable of ensureHostedTransportReady()
  result,
  hosted,      \* is ESP-Hosted initialised?
  slave,       \* is the transport to the co-processor connected?
  controller,  \* the BLE controller on the co-processor
  connects,    \* history: delays of kConnectDelayMs so far
  resets       \* history: delays of kBleRetryDelayMs so far

program     == <<attempt, connect, result>>
esp         == <<hosted, slave, controller>>
history     == <<connects, resets>>
prepareVars == <<call, program, esp, history>>

\* The Arduino core may have brought up the transport before, and the
\* co-processor may have run on through a restart of this processor.
PrepareInit ==
  /\ call = "nvs"
  /\ attempt = 1 /\ connect = 1 /\ result = "none"
  /\ hosted \in BOOLEAN /\ slave \in BOOLEAN
  /\ slave => hosted
  /\ controller \in {"off", "initialised", "enabled"}
  /\ connects = 0 /\ resets = 0

Proceed(from, to) == call = from /\ call' = to

Return(from, answer) ==
  /\ Proceed(from, "done")
  /\ result' = answer
  /\ UNCHANGED <<attempt, connect>>

-----------------------------------------------------------------------------
(* NVS.  The event loop is created after it; its failure is only logged.   *)

NvsReady == Proceed("nvs", "hosted_init") /\ UNCHANGED <<program, esp, history>>
NvsFull  == Proceed("nvs", "nvs_erase") /\ UNCHANGED <<program, esp, history>>
Erased   == Proceed("nvs_erase", "nvs_again") /\ UNCHANGED <<program, esp, history>>
\* Mutant: while instead of if.
NvsEraseLoop == Proceed("nvs_again", "nvs_erase") /\ UNCHANGED <<program, esp, history>>
NvsAgain == Proceed("nvs_again", "hosted_init") /\ UNCHANGED <<program, esp, history>>
NvsFails == \E at \in {"nvs", "nvs_erase", "nvs_again"} :
  Return(at, "failed") /\ UNCHANGED <<esp, history>>

InitNvsIfNeeded == NvsReady \/ NvsFull \/ Erased \/ NvsAgain \/ NvsFails

-----------------------------------------------------------------------------
(* A failed attempt: reset the stack and try again, or give up.            *)

\* Mutant: the stack is reset after the last failure too.
ResetAlways(from) ==
  /\ Proceed(from, "disable")
  /\ UNCHANGED program

AttemptFails(from) ==
  \/ /\ attempt < BringupAttempts
     /\ Proceed(from, "disable")
     /\ UNCHANGED program
  \/ attempt = BringupAttempts /\ Return(from, "failed")

-----------------------------------------------------------------------------
(* ensureHostedTransportReady()                                            *)

\* ESP_OK, or ESP_ERR_INVALID_STATE because it was initialised before.
HostedInit ==
  /\ Proceed("hosted_init", "connect")
  /\ hosted' = TRUE
  /\ connect' = 1
  /\ UNCHANGED <<attempt, result, slave, controller, history>>

HostedInitFails == AttemptFails("hosted_init") /\ UNCHANGED <<esp, history>>

ConnectToSlave ==
  /\ Proceed("connect", "controller_init")
  /\ slave' = TRUE
  /\ controller' \in IF slave THEN {controller} ELSE {controller, "off"}
  /\ UNCHANGED <<program, hosted, history>>

\* Mutant: the counter of connect attempts is not advanced.
ConnectToSlaveFailsAgain ==
  /\ call = "connect"
  /\ connects' = connects + 1
  /\ Proceed("connect", "connect") /\ UNCHANGED program
  /\ UNCHANGED <<esp, resets>>

ConnectToSlaveFails ==
  /\ call = "connect"
  /\ connects' = connects + 1
  /\ \/ /\ connect < ConnectAttempts
        /\ connect' = connect + 1
        /\ Proceed("connect", "connect") /\ UNCHANGED <<attempt, result>>
     \/ connect = ConnectAttempts /\ AttemptFails("connect")
  /\ UNCHANGED <<esp, resets>>

-----------------------------------------------------------------------------
(* bringUpHostedBleController()                                            *)

\* esp_hosted_bt_controller_init
ControllerInit ==
  /\ Proceed("controller_init", "controller_enable")
  /\ controller' = IF controller = "off" THEN "initialised" ELSE controller
  /\ UNCHANGED <<program, hosted, slave, history>>

\* Mutant: a failed init is logged, and enable is called all the same.
ControllerInitUnchecked ==
  /\ Proceed("controller_init", "controller_enable") /\ UNCHANGED program
  /\ \/ UNCHANGED controller
     \/ controller = "off" /\ controller' = "initialised"
  /\ UNCHANGED <<hosted, slave, history>>

ControllerInitFails ==
  /\ AttemptFails("controller_init")
  /\ \/ UNCHANGED controller
     \/ controller = "off" /\ controller' = "initialised"
  /\ UNCHANGED <<hosted, slave, history>>

\* esp_hosted_bt_controller_enable: anything but "initialised" is an
\* INVALID_STATE, and taken for enabled.
ControllerEnable ==
  /\ Return("controller_enable", "ready")
  /\ controller' = IF controller = "initialised" THEN "enabled" ELSE controller
  /\ UNCHANGED <<hosted, slave, history>>

ControllerEnableFails ==
  /\ AttemptFails("controller_enable")
  /\ \/ UNCHANGED controller
     \/ controller = "initialised" /\ controller' = "enabled"
  /\ UNCHANGED <<hosted, slave, history>>

-----------------------------------------------------------------------------
(* resetHostedStackForRetry(): every result is ignored.                    *)

Disable ==
  /\ Proceed("disable", "deinit")
  /\ \/ UNCHANGED controller
     \/ slave /\ controller = "enabled" /\ controller' = "initialised"
  /\ UNCHANGED <<program, hosted, slave, history>>

Deinit ==
  /\ Proceed("deinit", "hosted_deinit")
  /\ \/ UNCHANGED controller
     \/ slave /\ controller = "initialised" /\ controller' = "off"
  /\ UNCHANGED <<program, hosted, slave, history>>

HostedDeinit ==
  /\ Proceed("hosted_deinit", "hosted_init")
  /\ \/ UNCHANGED <<hosted, slave>>
     \/ hosted' = FALSE /\ slave' = FALSE
  /\ attempt' = attempt + 1
  /\ resets' = resets + 1
  /\ UNCHANGED <<connect, result, controller, connects>>

-----------------------------------------------------------------------------
EnsureHostedTransportReady ==
  HostedInit \/ HostedInitFails \/ ConnectToSlave \/ ConnectToSlaveFails
BringUpHostedBleController ==
  \/ ControllerInit \/ ControllerInitFails \/ ControllerEnable \/ ControllerEnableFails
ResetHostedStackForRetry == Disable \/ Deinit \/ HostedDeinit

PrepareNext == InitNvsIfNeeded \/ EnsureHostedTransportReady \/ BringUpHostedBleController
        \/ ResetHostedStackForRetry

\* setup() runs on, and every esp_hosted call returns.
PrepareSpec == PrepareInit /\ [][PrepareNext]_prepareVars /\ WF_prepareVars(PrepareNext)

-----------------------------------------------------------------------------
PrepareTypeOK ==
  /\ call \in {"nvs", "nvs_erase", "nvs_again", "hosted_init", "connect",
             "controller_init", "controller_enable",
             "disable", "deinit", "hosted_deinit", "done"}
  /\ attempt \in 1 .. BringupAttempts
  /\ connect \in 1 .. ConnectAttempts
  /\ result \in {"none", "ready", "failed"}
  /\ hosted \in BOOLEAN /\ slave \in BOOLEAN
  /\ controller \in {"off", "initialised", "enabled"}
  /\ connects \in Nat /\ resets \in Nat

(***************************************************************************)
(* When hostedBlePrepare() answers true, ESP-Hosted is initialised, the    *)
(* transport connected and the controller enabled, whatever was up before, *)
(* whatever answers were lost, and although INVALID_STATE counts as        *)
(* success (hosted_ble_bridge.cpp:63-77).                                  *)
(***************************************************************************)
ReadyMeansEnabled == result = "ready" => hosted /\ slave /\ controller = "enabled"

(***************************************************************************)
(* setup() is held up for a bounded time: a failed connect costs           *)
(* kConnectDelayMs, a reset kBleRetryDelayMs, and the two loops together   *)
(* bound how often (hosted_ble_bridge.cpp:47-57, 97-116).                  *)
(***************************************************************************)
DelaysBounded ==
  connects <= attempt * ConnectAttempts /\ resets <= BringupAttempts - 1

(***************************************************************************)
(* hostedBlePrepare() returns.                                             *)
(***************************************************************************)
Returns == <>(result # "none")
==============================================================================

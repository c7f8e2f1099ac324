------------------------------ MODULE MCUiSync ------------------------------
(* BUBBLE (2), without modes, and ANIMARTRIX (6) with two of its modes.  In *)
(* MCFirmware the second is TEST3, which the page gives a slider that the   *)
(* firmware's list does not have; in MCSame the two lists agree.            *)
EXTENDS UiSync
MCModeCount  == 2 :> 0 @@ 6 :> 2
MCParamTable == <<"speed", "linearSpeed">>
MCSame       == <<2>> :> {"speed"} @@ <<6, 0>> :> {"speed"} @@ <<6, 1>> :> {"speed", "linearSpeed"}
MCFirmware   == <<2>> :> {"speed"} @@ <<6, 0>> :> {"speed"} @@ <<6, 1>> :> {"speed"}
MCDefault    == "speed" :> 2 @@ "linearSpeed" :> 2
=============================================================================

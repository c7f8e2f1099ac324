---------------------------- MODULE MCModeEntry ----------------------------
(* ModeEntry with the first mode, the one with a bus preset and the one    *)
(* with the low centre.                                                    *)
EXTENDS ModeEntry
=============================================================================

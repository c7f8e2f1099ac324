---------------------------- MODULE MCBusParams ----------------------------
(* BusParams with a bus a mode overrides and one no mode does.             *)
EXTENDS BusParams

CONSTANTS A, C
MCOrder == <<A, C>>
=============================================================================

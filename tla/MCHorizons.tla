---------------------------- MODULE MCHorizons ----------------------------
(* Two scenes, two durations, and a clock of a few ticks.  The scene is     *)
(* manual at boot, the timing may be; a command can turn either off.        *)
EXTENDS Horizons

CONSTANTS dim, bright, minutes, moment
MCRise == [s \in {dim, bright, minutes, moment} |-> IF s = moment THEN 0 ELSE 1]
MCHold == [s \in {dim, bright, minutes, moment} |-> 1]
MCBootManual == {<<TRUE, b>> : b \in BOOLEAN}
=============================================================================

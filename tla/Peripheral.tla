------------------------------ MODULE Peripheral ------------------------------
(***************************************************************************)
(* What the BLE link promises the browser, whatever tasks and flags bring  *)
(* it about: once BLE is up, an AuroraPortal that nobody is connected to   *)
(* becomes visible again, so that the Web Bluetooth chooser can find it.   *)
(* A central can join only while the device is visible, and joining hides  *)
(* it.                                                                     *)
(***************************************************************************)
CONSTANT Central
VARIABLES alive, visible, links

vars == <<alive, visible, links>>

Init == alive = FALSE /\ visible = FALSE /\ links = {}

Boot ==
  /\ ~alive
  /\ alive' = TRUE
  /\ visible' = TRUE
  /\ UNCHANGED links

Join(c) ==
  /\ visible
  /\ c \notin links
  /\ links' = links \cup {c}
  /\ visible' = FALSE
  /\ UNCHANGED alive

Leave(c) ==
  /\ c \in links
  /\ links' = links \ {c}
  /\ UNCHANGED <<alive, visible>>

\* An attempt to join that fails, or a reset of the radio.
Vanish == visible /\ visible' = FALSE /\ UNCHANGED <<alive, links>>

Appear == alive /\ ~visible /\ visible' = TRUE /\ UNCHANGED <<alive, links>>

Next == Boot \/ (\E c \in Central : Join(c) \/ Leave(c)) \/ Vanish \/ Appear

Spec == Init /\ [][Next]_vars /\ WF_vars(links = {} /\ Appear)
=============================================================================

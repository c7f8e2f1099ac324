---------------------------- MODULE MCSynaptide ----------------------------
(* Synaptide with dark and bright samples and a clock that wraps soon.     *)
EXTENDS Synaptide
=============================================================================

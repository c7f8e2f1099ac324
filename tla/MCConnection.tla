---------------------------- MODULE MCConnection ----------------------------
(* Connection with two browsers in range.                                  *)
EXTENDS Connection
=============================================================================

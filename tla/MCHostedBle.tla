---------------------------- MODULE MCHostedBle ----------------------------
(* HostedBle with the repository's numbers of attempts.                    *)
EXTENDS HostedBle
=============================================================================

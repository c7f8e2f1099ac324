--------------------------- MODULE MCControlPlane ---------------------------
(* ControlPlane on a small instance: rainbow (modeless), waves (cut to     *)
(* one mode, so that mode 1 is out of its range) and animartrix (cut to    *)
(* two modes; its case sets no defaultMapping).  One valuation of the      *)
(* parameters; its override mapping is the one rainbow sets.               *)
EXTENDS ControlPlane

MCProgram == {0, 1, 6}
MCMode == {0, 1}
MCModeCount == [p \in MCProgram |-> CASE p = 0 -> 0 [] p = 1 -> 1 [] p = 6 -> 2]
MCParam == {"v0"}
MCOverrideMapping == [v \in MCParam |-> 0]
MCDefaultMapping == [p \in {0, 1} |-> p]
=============================================================================

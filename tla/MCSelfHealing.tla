---------------------------- MODULE MCSelfHealing ----------------------------
(* Two threads; errors of three severities, of which one is healed.         *)
EXTENDS SelfHealing
=============================================================================

------------------------- MODULE MCAnalysisWorkflow -------------------------
(* One workflow: workflows share nothing but the process, and another one    *)
(* would only multiply the states.  Two crashes: one during a run, and one    *)
(* after what it left has been recovered.                                    *)
EXTENDS AnalysisWorkflow
=============================================================================

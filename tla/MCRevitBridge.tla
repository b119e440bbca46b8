---------------------------- MODULE MCRevitBridge ----------------------------
(* A server and a script, three updates, and one session of Revit.          *)
EXTENDS RevitBridge
=============================================================================

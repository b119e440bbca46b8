----------------------------- MODULE MCDigitalTwin -----------------------------
(* Two threads on two detectors of one room.  A liveness property is checked, *)
(* so that no symmetry is used.                                              *)
EXTENDS DigitalTwin
=============================================================================

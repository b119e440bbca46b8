---------------------------- MODULE MCTwinReports ----------------------------
EXTENDS TwinReports, TLC

Symmetry == Permutations(Detectors) \cup Permutations(Rooms)
=============================================================================

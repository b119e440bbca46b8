--------------------------- MODULE DetectorStatus ---------------------------
(* The statuses of a detector and LEGAL_STATUS_TRANSITIONS, digital_twin.py. *)

Status == {"planned", "ok", "fault", "offline", "decommissioned"}

Legal == [planned        |-> {"ok", "decommissioned"},
          ok             |-> {"fault", "offline", "decommissioned"},
          fault          |-> {"ok", "offline", "decommissioned"},
          offline        |-> {"ok", "fault", "decommissioned"},
          decommissioned |-> {}]

=============================================================================

------------------------- MODULE MCOperatorProcess -------------------------
(***************************************************************************)
(* The settings of the operator, for TLC.                                  *)
(***************************************************************************)
EXTENDS OperatorProcess

Required == {"NAMESPACE", "DELETION_TIMEOUT", "PRODUCER_RECONCILE_INTERVAL",
             "NETWORK_POLICIES_ENABLED", "SELECTOR_LABELS"}
=============================================================================

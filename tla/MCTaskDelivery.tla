--------------------------- MODULE MCTaskDelivery ---------------------------
(* Small instances of TaskDelivery for TLC. *)
EXTENDS TaskDelivery

CONSTANTS c1, c2, m1, m2
=============================================================================

--------------------------- MODULE MCUsageWorker ---------------------------
(* A small instance of UsageWorker for TLC. *)
EXTENDS UsageWorker, TLC

CONSTANTS w1, w2, r1
============================================================================

--------------------------- MODULE MCSlotClients ----------------------------
(* TLC instance of SlotClients: three interchangeable requests, two rows.  *)
EXTENDS SlotClients, TLC

ReqSymmetry == Permutations(ReqIds)
=============================================================================

------------------------- MODULE MCLedgerIngestion -------------------------
(***************************************************************************)
(* LedgerIngestion on a small instance: three ledgers in batches of two,   *)
(* so that the last batch is cut off by the end of the chain.              *)
(***************************************************************************)
EXTENDS LedgerIngestion
=============================================================================

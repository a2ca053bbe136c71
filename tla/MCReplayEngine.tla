--------------------------- MODULE MCReplayEngine ---------------------------
(***************************************************************************)
(* ReplayEngine on a small instance: three ledgers in batches of two with  *)
(* checkpoints at ledgers 2 and 4.  From ledger 0 the second batch has     *)
(* three events, one more than the limit, and the processor does not know  *)
(* the second of them; two contracts published epoch 1.                    *)
(***************************************************************************)
EXTENDS ReplayEngine

CONSTANTS h1, h2

Event(l, e, h, k) == [ledger |-> l, epoch |-> e, hash |-> h, known |-> k]
MCLog == <<Event(1, 1, h1, TRUE), Event(2, 2, h1, TRUE), Event(3, 3, h1, FALSE),
           Event(3, 1, h2, TRUE)>>
MCModes == {[dry |-> FALSE, full |-> TRUE], [dry |-> TRUE, full |-> TRUE]}
=============================================================================

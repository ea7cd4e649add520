---------------------------- MODULE MCWorkerLoop ----------------------------
(* The hosted kalshi-market-ingestion worker: cadence 300 s, backoff from 2 s. *)
EXTENDS WorkerLoop
=============================================================================

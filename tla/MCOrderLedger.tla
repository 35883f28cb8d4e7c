----------------------------- MODULE MCOrderLedger -----------------------------
(* The shops of MCOrderStock, with the ledger kept. *)
EXTENDS MCOrderStock, OrderLedger
===============================================================================

----------------------------- MODULE MCOrderBook -----------------------------
(***************************************************************************)
(* OrderBook for TLC.  No symmetry: its runs check liveness.               *)
(***************************************************************************)
EXTENDS OrderBook
=============================================================================

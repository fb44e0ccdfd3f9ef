---------------------------- MODULE MCTradeCards ----------------------------
(* One trade, its reports and its cards on a small instance.               *)
EXTENDS TradeCards
=============================================================================

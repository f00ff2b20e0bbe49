---------------------------- MODULE MCBootstrap ----------------------------
(* Small instances of Bootstrap for TLC.  Five of the ten tables: the ones  *)
(* with foreign keys to each other, and orders for those of the other five  *)
(* that refer to exchanges.                                                 *)
EXTENDS Bootstrap

MCCreated == <<"exchanges", "orders", "trades", "trade_triggers", "triggers">>
MCCandleTables == {"xlm_usd_1d_coinbase", "btc_usd_1d_coinbase", "eth_usd_1d_coinbase"}
MCWatch == <<"xlm_usd_1d_coinbase", "btc_usd_1d_coinbase">>
MCLineTables == {"trendlines_xlm_usd_1d_coinbase"}

MCReferences ==
  [t \in Tables |-> CASE t = "orders" -> {"exchanges"}
                      [] t = "trade_triggers" -> {"trades", "triggers"}
                      [] OTHER -> {}]
=============================================================================

--------------------------- MODULE MCTradeManager ---------------------------
(* Values of TradeManager's constants for TLC. *)
EXTENDS TradeManager, TLC

CONSTANTS a, b, t1, t2

TwoTrades == {a, b}
\* Two blocks that share a trigger.
SharedLinks == (a :> {t1, t2} @@ b :> {t1})

\* A loaded trade and a posted one that wait for the same trigger.
PostedLinks == (a :> {t1} @@ b :> {t1})
=============================================================================

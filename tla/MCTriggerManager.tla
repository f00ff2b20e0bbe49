-------------------------- MODULE MCTriggerManager --------------------------
(* Values of TriggerManager's constants for TLC. *)
EXTENDS TriggerManager

CONSTANTS t1, t2

MCIds == {t1, t2}

\* A wick trigger any tick may fire and a close trigger that needs two candles.
WickAbove  == [type |-> "price_above", price |-> 1, timeframe |-> "any", count |-> 1]
CloseAbove == [type |-> "closes_above", price |-> 1, timeframe |-> "1h", count |-> 2]

MCSpecs == {WickAbove, CloseAbove}

\* One whose wicks are counted: two candles above the price.
TwoWicks == {[type |-> "price_above", price |-> 1, timeframe |-> "1h", count |-> 2]}

\* One that closes above the price, one that only wicks above it.
TwoCandles == {[ts |-> 1, close |-> 2, high |-> 2, low |-> 1],
               [ts |-> 2, close |-> 1, high |-> 2, low |-> 1]}
=============================================================================

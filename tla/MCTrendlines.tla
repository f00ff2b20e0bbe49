----------------------------- MODULE MCTrendlines -----------------------------
(* Values of Trendlines' constants for TLC. *)
EXTENDS Trendlines

C(l, h, c) == [low |-> l, high |-> h, close |-> c]

\* Overlapping, inside, rising, falling and flat candles.
MCCandles == {C(1, 3, 2), C(2, 4, 4), C(2, 3, 2), C(3, 4, 3), C(1, 1, 1), C(1, 4, 1)}
===============================================================================

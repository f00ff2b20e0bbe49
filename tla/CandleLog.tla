----------------------------- MODULE CandleLog -----------------------------
(***************************************************************************)
(* What a reader of a candle table may rely on, without windows, chunks,   *)
(* failures and restarts: trading goes on, and now and then the table      *)
(* learns of it.  A row never tells of trades that have not happened, and  *)
(* what a row has told once it never takes back: it does not disappear and *)
(* does not return to an earlier state of its candle.                      *)
(***************************************************************************)
EXTENDS Integers

CONSTANTS
  Times,      \* when a candle may start
  Most        \* what is traded in a candle that has closed

VARIABLES
  traded,     \* how much has been traded in each candle
  rows        \* how much of it the row of the candle tells, 0 for no row

vars == <<traded, rows>>

Init ==
  /\ traded \in [Times -> 0 .. Most]
  /\ rows = [t \in Times |-> 0]

Trade ==
  /\ \A t \in Times : traded[t] <= traded'[t] /\ traded'[t] <= Most
  /\ rows' = rows

Learn ==
  /\ \A t \in Times : rows[t] <= rows'[t] /\ rows'[t] <= traded[t]
  /\ traded' = traded

Spec == Init /\ [][Trade \/ Learn]_vars
=============================================================================

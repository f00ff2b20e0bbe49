--------------------------- MODULE AccountMirror ---------------------------
(***************************************************************************)
(* What the tables of one exchange may say of it, without rounds, answers, *)
(* failures and requests.  An order only moves forward.  A fill is only    *)
(* recorded of a filled order, and never lost; the other two tables are    *)
(* emptied or gain a row, of an order that was opened or of an asset that  *)
(* is held.                                                                *)
(***************************************************************************)
CONSTANT Orders

VARIABLES
  order,      \* status of each order at the exchange
  fills, rows, portfolio

vars == <<order, fills, rows, portfolio>>

Forward == {<<"none", "open">>, <<"open", "filled">>, <<"open", "cancelled">>}
Filled == {o \in Orders : order[o] = "filled"}

Init ==
  /\ order = [o \in Orders |-> "none"]
  /\ fills = {} /\ rows = {} /\ portfolio = {}

Move(o, s) ==
  /\ <<order[o], s>> \in Forward
  /\ order' = [order EXCEPT ![o] = s]
  /\ UNCHANGED <<fills, rows, portfolio>>

RecordFills ==
  /\ fills \subseteq fills' /\ fills' \subseteq Filled
  /\ UNCHANGED <<order, rows, portfolio>>

\* The order may be closed by now.
List(o) ==
  /\ order[o] # "none"
  /\ rows' = rows \cup {o}
  /\ UNCHANGED <<order, fills, portfolio>>

Hold(o) ==
  /\ o \in Filled
  /\ portfolio' = portfolio \cup {o}
  /\ UNCHANGED <<order, fills, rows>>

Empty ==
  /\ \/ rows' = {} /\ UNCHANGED portfolio
     \/ portfolio' = {} /\ UNCHANGED rows
  /\ UNCHANGED <<order, fills>>

Next ==
  \/ \E o \in Orders : List(o) \/ Hold(o) \/ \E s \in {"open", "filled", "cancelled"} : Move(o, s)
  \/ RecordFills \/ Empty

Spec == Init /\ [][Next]_vars
=============================================================================

---------------------------- MODULE OrderLedger ----------------------------
(***************************************************************************)
(* What the trade manager promises of the orders it places, without the    *)
(* tables, notifications, goroutines and failures it works with: an entry  *)
(* is placed for a trade of the start-up pass only once all its triggers   *)
(* have been seen triggered; a filled entry may be followed by another     *)
(* order for the same trade, and that one by a last; a trade is only ever  *)
(* tied to one of its own entries.                                         *)
(***************************************************************************)
EXTENDS Naturals, Sequences

CONSTANTS
  Trades, Triggers,
  Links,      \* per trade, the triggers its entry waits for
  Guarded     \* trades whose triggers are all known from the start

VARIABLES
  orders,     \* all orders ever placed: the trade, and the order it follows
  recorded,   \* per trade, the order its row names, or 0
  seen        \* triggers that have been triggered

vars == <<orders, recorded, seen>>

IsEntry(n, tr) == n \in 1 .. Len(orders) /\ orders[n] = [trade |-> tr, after |-> 0]

Init ==
  /\ orders = << >>
  /\ recorded = [tr \in Trades |-> 0]
  /\ seen = {}

See(t) == seen' = seen \cup {t} /\ UNCHANGED <<orders, recorded>>

Enter(tr) ==
  /\ tr \in Guarded => Links[tr] \subseteq seen
  /\ orders' = Append(orders, [trade |-> tr, after |-> 0])
  /\ UNCHANGED <<recorded, seen>>

\* The order placed by PlaceBracketOrder, or the one by its goroutine.
Follow(n) ==
  /\ \/ orders[n].after = 0
     \/ IsEntry(orders[n].after, orders[n].trade)
  /\ orders' = Append(orders, [trade |-> orders[n].trade, after |-> n])
  /\ UNCHANGED <<recorded, seen>>

Record(tr, n) ==
  /\ IsEntry(n, tr)
  /\ recorded' = [recorded EXCEPT ![tr] = n]
  /\ UNCHANGED <<orders, seen>>

\* The trade is deleted.
Forget(tr) ==
  /\ recorded' = [recorded EXCEPT ![tr] = 0]
  /\ UNCHANGED <<orders, seen>>

Next ==
  \/ \E t \in Triggers : See(t)
  \/ \E tr \in Trades : Enter(tr) \/ Forget(tr)
  \/ \E n \in 1 .. Len(orders) : Follow(n) \/ \E tr \in Trades : Record(tr, n)

Spec == Init /\ [][Next]_vars
=============================================================================

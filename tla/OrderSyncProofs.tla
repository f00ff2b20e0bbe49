--------------------------- MODULE OrderSyncProofs ---------------------------
(***************************************************************************)
(* TypeOK, SuccessMeansClosed and ImplementsMirror of OrderSync for any    *)
(* set of orders, any size of page and any number of faults.  "success" is *)
(* also said when the exchange finds nothing to cancel; that the order is  *)
(* closed then needs that what is cancelled was opened once, and this      *)
(* comes with the row the handler found, with the answer that row was      *)
(* inserted from, and so from the exchange (Known).  In the same way fills *)
(* and holdings come from answers about filled orders (Filled).            *)
(***************************************************************************)
EXTENDS OrderSync, TLAPS

Known ==
  /\ fetched \subseteq Opened
  /\ rows \subseteq Opened
  /\ {o \in Orders : cancel[o] = "found"} \subseteq Opened

\* What is written into fills and portfolio was filled when it was fetched,
\* and an order that is filled stays so.
Filled ==
  /\ at \in {"write", "erase", "add"} => fetched \subseteq With("filled")
  /\ fills \subseteq With("filled") /\ portfolio \subseteq With("filled")

IInv == TypeOK /\ Known /\ Filled /\ SuccessMeansClosed

LEMMA InitHolds == Init => IInv
BY SyncAssumption DEF Init, IInv, TypeOK, Known, Filled, SuccessMeansClosed, Replies

LEMMA FaultCounted == ASSUME TypeOK, Fault PROVE faults' \in Nat
BY DEF TypeOK, Fault

LEMMA PageOfList == ASSUME NEW list, NEW page \in FirstOf(list) PROVE page \subseteq list
BY DEF FirstOf, kSubset

\* The answers of the exchange are about orders that were opened.
LEMMA Answers ==
  ASSUME TypeOK, NEW s \in {"open", "filled"}
  PROVE  With(s) \subseteq Opened /\ With(s) \subseteq Orders /\ Held \subseteq With("filled")
BY DEF TypeOK, With, Opened, Held

\* An order changes its status only forward, and only it changes then.
LEMMA OrderMoves ==
  ASSUME [Next]_vars
  PROVE  \/ order' = order
         \/ \E o \in Orders :
              /\ \/ order[o] = "none" /\ order' = [order EXCEPT ![o] = "open"]
                 \/ order[o] = "open" /\ order' = [order EXCEPT ![o] = "filled"]
                 \/ order[o] = "open" /\ order' = [order EXCEPT ![o] = "cancelled"]
              /\ UNCHANGED <<fills, rows, portfolio>>
<1>1. ASSUME NEW o \in Orders, Open(o)
      PROVE  /\ order[o] = "none" /\ order' = [order EXCEPT ![o] = "open"]
             /\ UNCHANGED <<fills, rows, portfolio>>
  BY <1>1 DEF Open
<1>2. ASSUME NEW o \in Orders, Fill(o)
      PROVE  /\ order[o] = "open" /\ order' = [order EXCEPT ![o] = "filled"]
             /\ UNCHANGED <<fills, rows, portfolio>>
  BY <1>2 DEF Fill
<1>3. ASSUME NEW o \in Orders, CancelOrder(o)
      PROVE  \/ order' = order
             \/ /\ order[o] = "open" /\ order' = [order EXCEPT ![o] = "cancelled"]
                /\ UNCHANGED <<fills, rows, portfolio>>
  BY <1>3 DEF CancelOrder
<1>4. ASSUME NEW o \in Orders, AskCancel(o) PROVE order' = order
  BY <1>4 DEF AskCancel
<1>5. CASE WakeUp \/ FetchFills \/ WriteFills \/ FetchOrders \/ Delete \/ Insert \/ Inserted
  BY <1>5 DEF WakeUp, FetchFills, WriteFills, FetchOrders, Delete, Insert, Inserted
<1>6. CASE FetchPortfolio \/ Erase \/ Add \/ Added \/ Crash
  BY <1>6 DEF FetchPortfolio, Erase, Add, Added, Crash
<1>7. CASE UNCHANGED vars
  BY <1>7 DEF vars
<1> QED BY <1>1, <1>2, <1>3, <1>4, <1>5, <1>6, <1>7 DEF Next

\* A closed order stays closed and an opened one stays opened.
LEMMA StatusStep ==
  ASSUME TypeOK, [Next]_vars
  PROVE  /\ order' \in [Orders -> {"none", "open", "filled", "cancelled"}]
         /\ Opened \subseteq Opened'
         /\ \A o \in Orders : order[o] \in {"filled", "cancelled"} => order'[o] = order[o]
<1>0. order \in [Orders -> {"none", "open", "filled", "cancelled"}]
  BY DEF TypeOK
<1>1. CASE order' = order
  BY <1>0, <1>1 DEF Opened
<1>2. ASSUME NEW o \in Orders, NEW s \in {"open", "filled", "cancelled"},
             order[o] \in {"none", "open"}, order' = [order EXCEPT ![o] = s]
      PROVE  /\ order' \in [Orders -> {"none", "open", "filled", "cancelled"}]
             /\ Opened \subseteq Opened'
             /\ \A p \in Orders : order[p] \in {"filled", "cancelled"} => order'[p] = order[p]
  BY <1>0, <1>2 DEF Opened
<1> QED BY <1>1, <1>2, OrderMoves

\* What the fill loop and a request do to the tables and to themselves.
LEMMA TablesStep ==
  ASSUME TypeOK, Known, [Next]_vars
  PROVE  /\ at' \in {"asleep", "fills", "write", "orders", "delete", "insert",
                     "accounts", "erase", "add"}
         /\ fetched' \subseteq Opened /\ rows' \subseteq Opened
         /\ fills' \subseteq Orders /\ portfolio' \subseteq Orders
         /\ faults' \in Nat
<1> DEFINE Goal ==
      /\ at' \in {"asleep", "fills", "write", "orders", "delete", "insert",
                  "accounts", "erase", "add"}
      /\ fetched' \subseteq Opened /\ rows' \subseteq Opened
      /\ fills' \subseteq Orders /\ portfolio' \subseteq Orders
      /\ faults' \in Nat
<1>0. /\ at \in {"asleep", "fills", "write", "orders", "delete", "insert",
                 "accounts", "erase", "add"}
      /\ fetched \subseteq Opened /\ rows \subseteq Opened /\ fetched \subseteq Orders
      /\ fills \subseteq Orders /\ portfolio \subseteq Orders /\ faults \in Nat
  BY DEF TypeOK, Known
<1>1. ASSUME UNCHANGED faults \/ Fault PROVE faults' \in Nat
  BY <1>0, <1>1, FaultCounted
<1>2. ASSUME UNCHANGED <<fills, rows, portfolio, loopVars>>, UNCHANGED faults \/ Fault
      PROVE  Goal
  BY <1>0, <1>1, <1>2 DEF loopVars
<1>3. ASSUME NEW o \in Orders, Open(o) \/ Fill(o) \/ AskCancel(o) \/ CancelOrder(o) PROVE Goal
  BY <1>2, <1>3 DEF Open, Fill, AskCancel, CancelOrder
<1>4. CASE WakeUp \/ Inserted \/ Added
  BY <1>0, <1>4 DEF WakeUp, Inserted, Added, To
<1>5. CASE FetchFills
  BY <1>0, <1>1, <1>5, Answers, PageOfList DEF FetchFills, To
<1>6. CASE WriteFills
  BY <1>0, <1>1, <1>6 DEF WriteFills, To
<1>7. CASE FetchOrders
  BY <1>0, <1>1, <1>7, Answers, PageOfList DEF FetchOrders, To
<1>8. CASE Delete
  BY <1>0, <1>1, <1>8 DEF Delete, To
<1>9. CASE Insert
  BY <1>0, <1>1, <1>9 DEF Insert, To
<1>10. CASE FetchPortfolio
  BY <1>0, <1>1, <1>10, Answers DEF FetchPortfolio, To
<1>11. CASE Erase
  BY <1>0, <1>1, <1>11 DEF Erase, To
<1>12. CASE Add
  BY <1>0, <1>1, <1>12 DEF Add, To
<1>13. CASE Crash
  BY <1>0, <1>1, <1>13 DEF Crash, To
<1>14. CASE UNCHANGED vars
  BY <1>0, <1>14 DEF vars, loopVars
<1> QED BY <1>3, <1>4, <1>5, <1>6, <1>7, <1>8, <1>9, <1>10, <1>11, <1>12, <1>13, <1>14 DEF Next

\* What the fill loop writes into fills and portfolio.
LEMMA FilledStep ==
  ASSUME TypeOK, Filled, [Next]_vars
  PROVE  Filled'
<1> DEFINE F == With("filled")
           Goal == /\ at' \in {"write", "erase", "add"} => fetched' \subseteq F
                   /\ fills' \subseteq F /\ portfolio' \subseteq F
<1>1. F \subseteq F'
  BY StatusStep DEF With
<1>2. /\ at \in {"write", "erase", "add"} => fetched \subseteq F
      /\ fills \subseteq F /\ portfolio \subseteq F
  BY DEF Filled
<1> HIDE DEF F
<1>3. Goal
  <2>1. ASSUME UNCHANGED <<fills, portfolio, loopVars>> PROVE Goal
    BY <1>2, <2>1 DEF loopVars
  <2>2. ASSUME NEW o \in Orders, Open(o) \/ Fill(o) \/ AskCancel(o) \/ CancelOrder(o) PROVE Goal
    BY <2>1, <2>2 DEF Open, Fill, AskCancel, CancelOrder
  <2>3. CASE WakeUp \/ Inserted \/ Added \/ FetchOrders \/ Delete \/ Insert \/ Crash
    BY <1>2, <2>3 DEF WakeUp, Inserted, Added, FetchOrders, Delete, Insert, Crash, To
  <2>4. CASE FetchFills
    BY <1>2, <2>4, PageOfList DEF FetchFills, To, F
  <2>5. CASE WriteFills
    BY <1>2, <2>5 DEF WriteFills, To
  <2>6. CASE FetchPortfolio
    BY <1>2, <2>6, Answers DEF FetchPortfolio, To, F
  <2>7. CASE Erase
    BY <1>2, <2>7 DEF Erase, To
  <2>8. CASE Add
    BY <1>2, <2>8 DEF Add, To
  <2>9. CASE UNCHANGED vars
    BY <2>1, <2>9 DEF vars
  <2> QED BY <2>2, <2>3, <2>4, <2>5, <2>6, <2>7, <2>8, <2>9 DEF Next
<1> QED BY <1>1, <1>3 DEF Filled, F

\* Handlers: an order is looked for again only if it has a row, and success
\* is only said of an order that is closed by then or was refused.
LEMMA RequestsStep ==
  ASSUME IInv, [Next]_vars
  PROVE  /\ cancel' \in [Orders -> {"idle", "found"}] /\ reply' \in [Orders -> Replies]
         /\ refused' \subseteq Orders
         /\ {o \in Orders : cancel'[o] = "found"} \subseteq Opened
         /\ SuccessMeansClosed'
<1> DEFINE Closed(o) == order'[o] \in {"filled", "cancelled"}
           Goal ==
      /\ cancel' \in [Orders -> {"idle", "found"}] /\ reply' \in [Orders -> Replies]
      /\ refused' \subseteq Orders
      /\ {o \in Orders : cancel'[o] = "found"} \subseteq Opened
      /\ \A o \in Orders : reply'[o] = "success" => Closed(o) \/ o \in refused'
<1> SUFFICES Goal
  BY DEF SuccessMeansClosed
<1>0. /\ TypeOK /\ Known /\ SuccessMeansClosed /\ refused \subseteq Orders
      /\ cancel \in [Orders -> {"idle", "found"}] /\ reply \in [Orders -> Replies]
  BY DEF IInv, TypeOK
<1>1. \A o \in Orders : order[o] \in {"filled", "cancelled"} => order'[o] = order[o]
  BY <1>0, StatusStep
<1>2. \A o \in Orders : reply[o] = "success" => Closed(o) \/ o \in refused
  BY <1>0, <1>1 DEF SuccessMeansClosed
<1> HIDE DEF Closed
<1>3. ASSUME UNCHANGED httpVars PROVE Goal
  BY <1>0, <1>2, <1>3 DEF Known, httpVars
<1>4. ASSUME NEW o \in Orders, NEW r \in Replies, Reply(o, r),
             refused' \subseteq Orders, refused \ {o} \subseteq refused',
             r = "success" => Closed(o) \/ o \in refused'
      PROVE  Goal
  <2>1. cancel' = [cancel EXCEPT ![o] = "idle"] /\ reply' = [reply EXCEPT ![o] = r]
    BY <1>4 DEF Reply
  <2>2. \A p \in Orders : cancel'[p] = "found" => cancel[p] = "found"
    BY <1>0, <2>1
  <2> QED BY <1>0, <1>2, <1>4, <2>1, <2>2 DEF Known
<1>5. ASSUME NEW o \in Orders, AskCancel(o) PROVE Goal
  <2>0. refused' = refused
    BY <1>5 DEF AskCancel
  <2>1. CASE o \in rows /\ cancel' = [cancel EXCEPT ![o] = "found"] /\ UNCHANGED <<reply, faults>>
    BY <1>0, <1>2, <2>0, <2>1 DEF Known
  <2>2. CASE Reply(o, "not found")
    BY <1>0, <1>4, <2>0, <2>2 DEF Replies
  <2> QED BY <1>5, <2>1, <2>2 DEF AskCancel
<1>6. ASSUME NEW o \in Orders, CancelOrder(o) PROVE Goal
  <2>0. refused' = refused \cup {o} \/ refused' = refused \ {o}
    BY <1>6 DEF CancelOrder
  <2>1. CASE Reply(o, "failed")
    BY <1>0, <1>4, <2>0, <2>1 DEF Replies
  <2>2. CASE Reply(o, "success") /\ refused' = refused \cup {o}
    BY <1>0, <1>4, <2>2 DEF Replies
  <2>3. CASE /\ order[o] = "open" /\ order' = [order EXCEPT ![o] = "cancelled"]
             /\ Reply(o, "success")
    <3>1. Closed(o)
      BY <1>0, <2>3 DEF TypeOK, Closed
    <3> QED BY <1>0, <1>4, <2>0, <2>3, <3>1 DEF Replies
  <2>4. CASE order[o] # "open" /\ Reply(o, "success")
    <3>1. order[o] \in {"filled", "cancelled"}
      BY <1>0, <1>6, <2>4 DEF CancelOrder, Known, Opened, TypeOK
    <3>2. Closed(o)
      BY <1>1, <3>1 DEF Closed
    <3> QED BY <1>0, <1>4, <2>0, <2>4, <3>2 DEF Replies
  <2> QED BY <1>6, <2>1, <2>2, <2>3, <2>4 DEF CancelOrder
<1>7. ASSUME NEW o \in Orders, Open(o) \/ Fill(o) PROVE Goal
  BY <1>3, <1>7 DEF Open, Fill
<1>8. CASE WakeUp \/ FetchFills \/ WriteFills \/ FetchOrders \/ Delete \/ Insert \/ Inserted
  BY <1>3, <1>8 DEF WakeUp, FetchFills, WriteFills, FetchOrders, Delete, Insert, Inserted
<1>9. CASE FetchPortfolio \/ Erase \/ Add \/ Added
  BY <1>3, <1>9 DEF FetchPortfolio, Erase, Add, Added
<1>10. CASE Crash
  <2>1. cancel' = [o \in Orders |-> "idle"] /\ reply' = reply /\ refused' = refused
    BY <1>10 DEF Crash
  <2> QED BY <1>0, <1>2, <2>1
<1>11. CASE UNCHANGED vars
  BY <1>3, <1>11 DEF vars
<1> QED BY <1>5, <1>6, <1>7, <1>8, <1>9, <1>10, <1>11 DEF Next

LEMMA Invariance == Spec => []IInv
<1>1. IInv /\ [Next]_vars => IInv'
  <2> SUFFICES ASSUME IInv, [Next]_vars PROVE IInv'
    OBVIOUS
  <2>0. TypeOK /\ Known /\ Filled
    BY DEF IInv
  <2>1. Opened \subseteq Opened' /\ Opened' \subseteq Orders
    BY <2>0, StatusStep DEF Opened
  <2>2. TypeOK'
    BY <2>0, <2>1, StatusStep, TablesStep, RequestsStep DEF TypeOK
  <2>3. Known'
    BY <2>0, <2>1, TablesStep, RequestsStep DEF Known
  <2>4. SuccessMeansClosed'
    BY RequestsStep DEF SuccessMeansClosed
  <2> QED BY <2>0, <2>2, <2>3, <2>4, FilledStep DEF IInv
<1> QED BY <1>1, InitHolds, PTL DEF Spec

-----------------------------------------------------------------------------
\* Types; every order in a table is one of the exchange's.
THEOREM TypeCorrectness == Spec => []TypeOK
<1>1. IInv => TypeOK
  BY DEF IInv
<1> QED BY <1>1, Invariance, PTL

\* "Order cancelled successfully" is said of an order that is not closed only
\* if the exchange refused in the body of its answer, whatever pages, answers
\* that are out of date, lost answers and the time columns did before.
THEOREM TrueSuccess == Spec => []SuccessMeansClosed
<1>1. IInv => SuccessMeansClosed
  BY DEF IInv
<1> QED BY <1>1, Invariance, PTL

-----------------------------------------------------------------------------
\* A step of the fill loop, of a request or of the exchange is one of the
\* mirror, or none.
LEMMA MirrorStep ==
  ASSUME IInv, [Next]_vars
  PROVE  [Mirror!Next]_(Mirror!vars)
<1>0. /\ TypeOK /\ Known /\ Filled /\ Filled' /\ fetched \subseteq Orders
      /\ With("filled") = Mirror!Filled
  BY FilledStep DEF IInv, TypeOK, With, Mirror!Filled
<1>1. CASE order' # order
  <2>1. PICK o \in Orders, s \in {"open", "filled", "cancelled"} :
          /\ <<order[o], s>> \in Mirror!Forward
          /\ order' = [order EXCEPT ![o] = s]
          /\ UNCHANGED <<fills, rows, portfolio>>
    BY <1>1, OrderMoves DEF Mirror!Forward
  <2> QED BY <2>1 DEF Mirror!Next, Mirror!Move
<1>2. ASSUME UNCHANGED <<order, fills, rows, portfolio>> PROVE UNCHANGED (Mirror!vars)
  BY <1>2 DEF Mirror!vars
<1>3. ASSUME NEW o \in Orders, Open(o) \/ Fill(o) \/ AskCancel(o) \/ CancelOrder(o), order' = order
      PROVE  UNCHANGED (Mirror!vars)
  BY <1>2, <1>3 DEF Open, Fill, AskCancel, CancelOrder
<1>4. CASE WakeUp \/ Inserted \/ Added \/ FetchFills \/ FetchOrders \/ FetchPortfolio \/ Crash
  BY <1>2, <1>4 DEF WakeUp, Inserted, Added, FetchFills, FetchOrders, FetchPortfolio, Crash
<1>5. CASE WriteFills
  <2>1. fills \subseteq fills' /\ UNCHANGED <<order, rows, portfolio>>
    BY <1>5 DEF WriteFills
  <2>2. fills' \subseteq With("filled")
    BY <1>0, <2>1 DEF Filled, With
  <2> QED BY <1>0, <2>1, <2>2 DEF Mirror!RecordFills, Mirror!Next
<1>6. CASE Delete
  BY <1>2, <1>6 DEF Delete, Mirror!Empty, Mirror!Next
<1>7. CASE Insert
  <2>1. PICK o \in fetched : rows' = rows \cup {o} \/ rows' = rows
    BY <1>7 DEF Insert
  <2>2. o \in Orders /\ order[o] # "none"
    BY <1>0 DEF Known, Opened
  <2>3. UNCHANGED <<order, fills, portfolio>>
    BY <1>7 DEF Insert
  <2> QED BY <1>2, <2>1, <2>2, <2>3 DEF Mirror!List, Mirror!Next
<1>8. CASE Erase
  BY <1>2, <1>8 DEF Erase, Mirror!Empty, Mirror!Next
<1>9. CASE Add
  <2>1. PICK o \in fetched : portfolio' = portfolio \cup {o} \/ portfolio' = portfolio
    BY <1>9 DEF Add
  <2>2. o \in Orders /\ o \in Mirror!Filled
    BY <1>0, <1>9 DEF Filled, Add
  <2>3. UNCHANGED <<order, fills, rows>>
    BY <1>9 DEF Add
  <2> QED BY <1>2, <2>1, <2>2, <2>3 DEF Mirror!Hold, Mirror!Next
<1>10. CASE UNCHANGED vars
  BY <1>2, <1>10 DEF vars
<1> QED BY <1>1, <1>3, <1>4, <1>5, <1>6, <1>7, <1>8, <1>9, <1>10 DEF Next

\* Every behaviour of the tables is a behaviour of the mirror.
THEOREM MirrorIsImplemented == Spec => ImplementsMirror
<1>1. Init => Mirror!Init
  BY DEF Init, Mirror!Init
<1> QED BY <1>1, MirrorStep, Invariance, PTL DEF Spec, ImplementsMirror, Mirror!Spec
=============================================================================

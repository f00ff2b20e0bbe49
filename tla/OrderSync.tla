------------------------------ MODULE OrderSync ------------------------------
(***************************************************************************)
(* Orders, fills and the portfolio of one exchange: once a minute the fill *)
(* loop of main.go copies them into the tables fills, orders and portfolio *)
(* (Do_Orders_and_Fills, Write_Fills, Write_Orders, Do_Portfolio,          *)
(* Write_Portfolio), while orders are opened and filled at the exchange    *)
(* and cancelOrderHandler looks orders up in the table and cancels them    *)
(* there.  Write_Orders and Write_Portfolio delete every row and insert    *)
(* the new ones, each statement a transaction of its own.                  *)
(*                                                                         *)
(* Every order buys an asset of its own, so the account holds the assets   *)
(* of the filled orders, and an asset is named by its order.               *)
(*                                                                         *)
(* TimesFit: the timestamps of the exchange convert to the type of the     *)
(* time columns.  CreateTables makes these BIGINT and the exchange sends   *)
(* RFC 3339 strings, so with the tables of CreateTables it is FALSE.       *)
(*                                                                         *)
(* The exchange answers list requests in pages.  The code asks for no page *)
(* after the first.                                                        *)
(***************************************************************************)
EXTENDS FiniteSets, FiniteSetsExt, Integers

CONSTANTS
  Orders,
  FirstPage,  \* assets whose account is on the first page of accounts
  PageSize,   \* fills, or orders, on a page
  TimesFit,
  MaxFaults   \* bound: crashes, failed and refused calls

ASSUME SyncAssumption ==
  /\ FirstPage \subseteq Orders
  /\ PageSize \in Nat \ {0}
  /\ TimesFit \in BOOLEAN
  /\ MaxFaults \in Nat

VARIABLES
  order,      \* status of each order at the exchange
  fills,      \* the fills table
  rows,       \* the orders table
  portfolio,  \* the portfolio table
  at,         \* the fill loop
  fetched,    \* what the last fetch of the loop returned
  cancel,     \* per order, cancelOrderHandler: "idle", or "found" in the table
  reply,      \* per order, the handler's last reply
  refused,    \* ghost: orders whose last answer to a cancellation refused it in its body
  faults

loopVars == <<at, fetched>>
httpVars == <<cancel, reply, refused>>
vars == <<order, fills, rows, portfolio, loopVars, httpVars, faults>>

Replies == {"none", "success", "not found", "failed"}

TypeOK ==
  /\ order \in [Orders -> {"none", "open", "filled", "cancelled"}]
  /\ fills \subseteq Orders /\ rows \subseteq Orders /\ portfolio \subseteq Orders
  /\ at \in {"asleep", "fills", "write", "orders", "delete", "insert",
             "accounts", "erase", "add"}
  /\ fetched \subseteq Orders
  /\ cancel \in [Orders -> {"idle", "found"}]
  /\ reply \in [Orders -> Replies]
  /\ refused \subseteq Orders
  /\ faults \in Nat

Init ==
  /\ order = [o \in Orders |-> "none"]
  /\ fills = {} /\ rows = {} /\ portfolio = {}
  /\ at = "asleep" /\ fetched = {}
  /\ cancel = [o \in Orders |-> "idle"] /\ reply = [o \in Orders |-> "none"]
  /\ refused = {}
  /\ faults = 0

Fault == faults < MaxFaults /\ faults' = faults + 1

With(status) == {o \in Orders : order[o] = status}
Opened == {o \in Orders : order[o] # "none"}

\* The first page of a list, for whatever order the exchange lists it in.
FirstOf(list) ==
  IF Cardinality(list) > PageSize THEN kSubset(PageSize, list) ELSE {list}

-----------------------------------------------------------------------------
(* The exchange. *)

Open(o) ==
  /\ order[o] = "none"
  /\ order' = [order EXCEPT ![o] = "open"]
  /\ UNCHANGED <<fills, rows, portfolio, loopVars, httpVars, faults>>

Fill(o) ==
  /\ order[o] = "open"
  /\ order' = [order EXCEPT ![o] = "filled"]
  /\ UNCHANGED <<fills, rows, portfolio, loopVars, httpVars, faults>>

-----------------------------------------------------------------------------
(* Do_Orders_and_Fills *)

To(place, set) == at' = place /\ fetched' = set

WakeUp ==
  /\ at = "asleep" /\ To("fills", {})
  /\ UNCHANGED <<order, fills, rows, portfolio, httpVars, faults>>

\* The status code of the answer is not looked at: a refusal whose body is
\* JSON reads like an answer with nothing in it.
FetchFills ==
  /\ at = "fills"
  /\ \/ (\E page \in FirstOf(With("filled")) : To("write", page)) /\ UNCHANGED faults
     \/ To("write", {}) /\ Fault
     \/ To("accounts", {}) /\ Fault
  /\ UNCHANGED <<order, fills, rows, portfolio, httpVars>>

\* Mutant: the rows are deleted first, as those of the orders are.
WriteFillsAnew ==
  /\ at = "write"
  /\ IF TimesFit THEN fills' = fetched ELSE UNCHANGED fills
  /\ To("orders", {})
  /\ UNCHANGED <<order, rows, portfolio, httpVars, faults>>

\* Write_Fills, one transaction; its error is logged and forgotten.
WriteFills ==
  /\ at = "write"
  /\ \/ /\ fills' = IF TimesFit THEN fills \cup fetched ELSE fills
        /\ UNCHANGED faults
     \/ UNCHANGED fills /\ Fault
  /\ To("orders", {})
  /\ UNCHANGED <<order, rows, portfolio, httpVars>>

\* The list is of all orders there ever were; the code keeps the open ones.
FetchOrders ==
  /\ at = "orders"
  /\ \/ (\E page \in FirstOf(Opened) : To("delete", page \cap With("open"))) /\ UNCHANGED faults
     \/ To("delete", {}) /\ Fault
     \/ To("accounts", {}) /\ Fault
  /\ UNCHANGED <<order, fills, rows, portfolio, httpVars>>

\* Mutant: the rows that are there stay.
DeleteNothing ==
  /\ at = "delete" /\ To("insert", fetched)
  /\ UNCHANGED <<order, fills, rows, portfolio, httpVars, faults>>

Delete ==
  /\ at = "delete"
  /\ \/ rows' = {} /\ To("insert", fetched) /\ UNCHANGED faults
     \/ UNCHANGED rows /\ To("accounts", {}) /\ Fault
  /\ UNCHANGED <<order, fills, portfolio, httpVars>>

\* The first insert that fails ends Write_Orders; nobody looks at its error.
Insert ==
  /\ at = "insert"
  /\ \E o \in fetched :
       \/ TimesFit /\ rows' = rows \cup {o} /\ To("insert", fetched \ {o}) /\ UNCHANGED faults
       \/ ~TimesFit /\ UNCHANGED <<rows, faults>> /\ To("accounts", {})
       \/ UNCHANGED rows /\ To("accounts", {}) /\ Fault
  /\ UNCHANGED <<order, fills, portfolio, httpVars>>

Inserted ==
  /\ at = "insert" /\ fetched = {}
  /\ To("accounts", {})
  /\ UNCHANGED <<order, fills, rows, portfolio, httpVars, faults>>

-----------------------------------------------------------------------------
(* Do_Portfolio.  It runs whatever Do_Orders_and_Fills returned. *)

\* What the first page of accounts shows of the assets held.
Held == With("filled") \cap FirstPage

\* FetchPortfolio asks for the accounts and then for one price each: an asset
\* whose price is refused is left out of this round.
FetchPortfolio ==
  /\ at = "accounts"
  /\ \/ To("erase", Held) /\ UNCHANGED faults
     \/ \E o \in Held : To("erase", Held \ {o}) /\ Fault
     \/ To("erase", {}) /\ Fault
     \/ To("asleep", {}) /\ Fault
  /\ UNCHANGED <<order, fills, rows, portfolio, httpVars>>

\* Mutant: the test of the error is the wrong way round.
EraseInverted ==
  /\ at = "erase"
  /\ \/ portfolio' = {} /\ To("asleep", {}) /\ UNCHANGED faults
     \/ UNCHANGED portfolio /\ To("add", fetched) /\ Fault
  /\ UNCHANGED <<order, fills, rows, httpVars>>

\* The DELETE of Write_Portfolio.
Erase ==
  /\ at = "erase"
  /\ \/ portfolio' = {} /\ To("add", fetched) /\ UNCHANGED faults
     \/ UNCHANGED portfolio /\ To("asleep", {}) /\ Fault
  /\ UNCHANGED <<order, fills, rows, httpVars>>

\* One INSERT of Write_Portfolio; the first that fails ends it.
Add ==
  /\ at = "add"
  /\ \E o \in fetched :
       \/ portfolio' = portfolio \cup {o} /\ To("add", fetched \ {o}) /\ UNCHANGED faults
       \/ UNCHANGED portfolio /\ To("asleep", {}) /\ Fault
  /\ UNCHANGED <<order, fills, rows, httpVars>>

Added ==
  /\ at = "add" /\ fetched = {}
  /\ To("asleep", {})
  /\ UNCHANGED <<order, fills, rows, portfolio, httpVars, faults>>

Crash ==
  /\ Fault
  /\ To("asleep", {})
  /\ cancel' = [o \in Orders |-> "idle"]
  /\ UNCHANGED <<order, fills, rows, portfolio, reply, refused>>

-----------------------------------------------------------------------------
(* Requests. *)

\* Mutant: the reply and the state of the handler are mixed up.
ReplySwapped(o, r) ==
  /\ cancel' = [cancel EXCEPT ![o] = r]
  /\ reply' = [reply EXCEPT ![o] = "idle"]

Reply(o, r) ==
  /\ reply' = [reply EXCEPT ![o] = r]
  /\ cancel' = [cancel EXCEPT ![o] = "idle"]

\* cancelOrderHandler up to Get_Order, of which every error says "not found".
AskCancel(o) ==
  /\ cancel[o] = "idle"
  /\ \/ o \in rows /\ cancel' = [cancel EXCEPT ![o] = "found"] /\ UNCHANGED <<reply, faults>>
     \/ o \notin rows /\ Reply(o, "not found") /\ UNCHANGED faults
     \/ Fault /\ Reply(o, "not found")
  /\ UNCHANGED <<order, fills, rows, portfolio, loopVars, refused>>

\* Mutant: a request that got no answer is taken for done.
CancelOrderUnchecked(o) ==
  /\ cancel[o] = "found"
  /\ \/ order' = [order EXCEPT ![o] = IF @ = "open" THEN "cancelled" ELSE @] /\ UNCHANGED faults
     \/ UNCHANGED order /\ Fault
  /\ Reply(o, "success") /\ refused' = refused \ {o}
  /\ UNCHANGED <<fills, rows, portfolio, loopVars>>

\* CancelOrder.  The status code alone decides.  The exchange cancels an open
\* order, or answers 200 with a body that refuses; of an order that is not open
\* it may answer either way.  A failure may have had its effect or not.
CancelOrder(o) ==
  /\ cancel[o] = "found"
  /\ \/ /\ order[o] = "open" /\ UNCHANGED <<order, faults>>
        /\ Reply(o, "success") /\ refused' = refused \cup {o}
     \/ /\ refused' = refused \ {o}
        /\ \/ /\ order[o] = "open" /\ order' = [order EXCEPT ![o] = "cancelled"]
              /\ Reply(o, "success") /\ UNCHANGED faults
           \/ /\ order[o] # "open" /\ UNCHANGED <<order, faults>>
              /\ Reply(o, "success") \/ Reply(o, "failed")
           \/ /\ Fault /\ Reply(o, "failed")
              /\ UNCHANGED order \/ (order[o] = "open" /\ order' = [order EXCEPT ![o] = "cancelled"])
  /\ UNCHANGED <<fills, rows, portfolio, loopVars>>

Loop ==
  \/ WakeUp \/ FetchFills \/ WriteFills \/ FetchOrders \/ Delete \/ Insert \/ Inserted
  \/ FetchPortfolio \/ Erase \/ Add \/ Added

Next ==
  \/ \E o \in Orders : Open(o) \/ Fill(o) \/ AskCancel(o) \/ CancelOrder(o)
  \/ WakeUp \/ FetchFills \/ WriteFills \/ FetchOrders \/ Delete \/ Insert \/ Inserted
  \/ FetchPortfolio \/ Erase \/ Add \/ Added
  \/ Crash

Spec == Init /\ [][Next]_vars

\* The fill loop runs on.
LiveSpec == Spec /\ WF_vars(Loop)

-----------------------------------------------------------------------------
(* Properties. *)

\* "Order cancelled successfully" is said of an order that is still open only
\* if the exchange has refused in the body nobody reads: a row that is out of
\* date, a lost answer or a filling in between never leads to it.
SuccessMeansClosed ==
  \A o \in Orders :
    reply[o] = "success" => order[o] \in {"filled", "cancelled"} \/ o \in refused

\* "Write Current Orders": an order that stays open gets a row.
OpenOrdersAreListed ==
  \A o \in Orders : order[o] = "open" ~> (o \in rows \/ order[o] # "open")

\* "Write Fills": the fills of an order are recorded for good.
FillsAreRecorded ==
  \A o \in Orders : order[o] = "filled" ~> [](o \in fills)

\* Implied by either of the two, so that what refutes it refutes both.
OrdersOrFillsArrive == OpenOrdersAreListed \/ FillsAreRecorded

\* A row inserted from an answer that is out of date does not stay: once
\* closed, an order leaves the table for good.
ClosedOrdersLeave ==
  \A o \in Orders : order[o] \in {"filled", "cancelled"} ~> [](o \notin rows)

\* What a filled order bought is shown in the portfolio again and again,
\* although every round begins by deleting it and may be cut short: all of it
\* that is on the first page of accounts.
HoldingsAreShown ==
  \A o \in FirstPage : order[o] = "filled" ~> o \in portfolio

\* What the tables may say of the exchange, as a specification of its own.
Mirror == INSTANCE AccountMirror

\* Between an answer and the rows written from it the exchange goes on, and
\* a refusal reads like an answer with nothing in it.  Still no table ever
\* tells of a fill, an order or a holding that was not there, and no fill,
\* once recorded, is lost.
ImplementsMirror == Mirror!Spec

=============================================================================

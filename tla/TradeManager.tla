---------------------------- MODULE TradeManager ----------------------------
(***************************************************************************)
(* Entry orders of trades (trademanager/trademanager.go): the start-up     *)
(* pass of Initialize, the listener of database notifications, and the     *)
(* goroutines processTradeUpdates and processOrderUpdates, over the tables *)
(* trades, trade_triggers, triggers and orders, with the HTTP handlers     *)
(* that write them, PlaceBracketOrder with the goroutine it leaves behind  *)
(* (model/coinbase.go), and an exchange that numbers the orders it accepts. *)
(*                                                                         *)
(* tradesMutex: a read lock is taken and released within one step, so only *)
(* the write lock is state; only processTradeUpdates keeps it over several *)
(* steps.  Three constants describe what a deployment hands to the         *)
(* component: HasApi (an API is registered for the exchange of the trades),*)
(* RowsDecode (the JSON of a trades row decodes into model.Trade) and      *)
(* NoticeStatuses (what the JSON of an orders row has as "status").  With  *)
(* main.go and CreateTables as they are they are FALSE, FALSE and {""}.    *)
(* No statement of the program writes stop_order_id or pt_order_id, so the *)
(* branches of processOrderUpdates that need them are left out.            *)
(***************************************************************************)
EXTENDS Integers, Sequences, FiniteSets

CONSTANTS
  Trades, Triggers,
  Links,            \* per trade, the triggers its block names
  Existing,         \* trades that are in the table when the process starts
  HasApi, RowsDecode, NoticeStatuses,
  ChannelCap,       \* capacity of orderUpdates and of tradeUpdates (100)
  MaxOrders,        \* bound: orders the exchange accepts
  MaxTriggerWrites, \* bound: writes of trigger rows
  MaxOrderNotices,  \* bound: rows of orders rewritten
  MaxFaults         \* bound: crashes and failed calls

ASSUME TradeAssumption ==
  /\ Links \in [Trades -> SUBSET Triggers]
  /\ Existing \subseteq Trades
  /\ "none" \notin Trades
  /\ HasApi \in BOOLEAN /\ RowsDecode \in BOOLEAN
  /\ ChannelCap \in Nat \ {0}
  /\ {MaxOrders, MaxTriggerWrites, MaxOrderNotices, MaxFaults} \subseteq Nat

\* An order the exchange has accepted: the trade it was placed for, and the
\* order whose filling led to it, if any.  A bracket, that is; but what
\* PlaceBracketOrder sends, twice, is PlaceOrder of the trade: the bodies it
\* builds for a bracket are not used.
NoOrder == 0
Order == [trade : Trades, after : 0 .. MaxOrders]

EntryStatuses == {"", "PENDING"} \cup NoticeStatuses
Row == [entry : 0 .. MaxOrders, status : EntryStatuses]
NewRow == [entry |-> NoOrder, status |-> ""]
NoTrade == [entry |-> NoOrder]
DeletedTrade == [entry |-> NoOrder, deleted |-> TRUE]

TradeNote   == [table : {"trades"}, op : {"INSERT", "UPDATE", "DELETE"}, id : Trades, row : Row]
OrderNote   == [table : {"orders"}, order : 1 .. MaxOrders, status : NoticeStatuses]
TriggerNote == [table : {"triggers"}, id : Triggers, status : {"active", "triggered"}]
Notes == TradeNote \cup OrderNote \cup TriggerNote

\* The callers of checkAndExecuteTrade and of placeEntryOrder.
Init0    == "Initialize"
Listener == "ListenForDBChanges"
Updater  == "processTradeUpdates"
Callers  == {Init0, Listener, Updater}

Jobs == [at : {"next", "check", "place", "record"}, todo : SUBSET Trades, order : 0 .. MaxOrders]
Batch(due) == [at |-> "next", todo |-> due, order |-> NoOrder]
Idle == Batch({})

VARIABLES
  trade,      \* the trades table
  links,      \* the trade_triggers table, per trade
  trigger,    \* status column of the triggers table
  posting,    \* per trade, rows of trade_triggers its handler has still to insert
  owner,      \* the exchange: the orders it accepted, their numbers the index
  phase,      \* "starting" (Initialize), "started", "running" (listening)
  mem,        \* TradeManager.trades
  notes,      \* notifications not yet handled by the listener
  tradeUpdates, orderUpdates,   \* the two channels
  job,        \* per caller: the trades it has to go through, how far it is
  current,    \* per caller: the trade it is at, once past "next"
  writeLock,  \* tradesMutex is held for writing
  found,      \* processOrderUpdates: the trade it points to, or Nothing
  watchers,   \* goroutines of PlaceBracketOrder, by the order they wait for
  boots, triggerWrites, orderNotices, faults, \* counters, the last three bounded
  fired       \* ghost: the triggers that were left triggered, write by write

None == "none"
Found == [id : Trades \cup {None}, entry : 0 .. MaxOrders, at : {"use", "bracket"}]
Nothing == [id |-> None, entry |-> NoOrder, at |-> "use"]

dbVars   == <<trade, links, trigger, posting>>
jobVars  == <<job, current, writeLock>>
procVars == <<phase, mem, found, watchers, jobVars>>
chanVars == <<tradeUpdates, orderUpdates>>
countVars == <<boots, triggerWrites, orderNotices, fired>>
vars == <<dbVars, procVars, chanVars, countVars, notes, owner, faults>>

TypeOK ==
  /\ trade \in [Trades -> Row \cup {NoTrade, DeletedTrade}]
  /\ links \in [Trades -> SUBSET Triggers]
  /\ trigger \in [Triggers -> {"active", "triggered"}]
  /\ posting \in [Trades -> SUBSET Triggers]
  /\ owner \in Seq(Order) /\ Len(owner) <= MaxOrders
  /\ phase \in {"starting", "started", "running"}
  /\ mem \in [Trades -> Row \cup {NoTrade}]
  /\ notes \in Seq(Notes)
  /\ tradeUpdates \in Seq(TradeNote) /\ Len(tradeUpdates) <= ChannelCap
  /\ orderUpdates \in Seq(OrderNote) /\ Len(orderUpdates) <= ChannelCap
  /\ job \in [Callers -> Jobs]
  /\ current \in [Callers -> Trades \cup {None}]
  /\ writeLock \in BOOLEAN
  /\ found \in Found
  /\ watchers \subseteq 1 .. MaxOrders
  /\ boots \in Nat \ {0}
  /\ fired \in Seq(Triggers)

Exists(tr) == trade[tr] \notin {NoTrade, DeletedTrade}
AllTriggered(tr) == \A t \in links[tr] : trigger[t] = "triggered"
Entry(tr) == [trade |-> tr, after |-> NoOrder]
EntryOrders(tr) == {n \in 1 .. Len(owner) : owner[n] = Entry(tr)}

\* A committed write notifies the listener only while it listens.
Notified(n) == notes' = IF phase = "running" THEN Append(notes, n) ELSE notes

WriteRow(tr, r) ==
  /\ trade' = [trade EXCEPT ![tr] = r]
  /\ Notified([table |-> "trades", op |-> "UPDATE", id |-> tr, row |-> r])

\* GetIncompleteTrades: no trade is ever completed.  Initialize holds the
\* write lock while it goes through those without an entry order.
Load(existing) ==
  /\ phase' = "starting"
  /\ mem' = [tr \in Trades |-> IF tr \in existing THEN trade[tr] ELSE NoTrade]
  /\ job' = [c \in Callers |->
               IF c = Init0 THEN Batch({tr \in existing : /\ trade[tr].entry = NoOrder
                                                         /\ trade[tr].status # "FILLED"})
               ELSE Idle]
  /\ current' = [c \in Callers |-> None]
  /\ writeLock' = FALSE
  /\ found' = Nothing /\ watchers' = {}
  /\ tradeUpdates' = << >> /\ orderUpdates' = << >> /\ notes' = << >>
  /\ posting' = [tr \in Trades |-> {}]
  /\ boots' = boots + 1

Init ==
  /\ trade = [tr \in Trades |-> IF tr \in Existing THEN NewRow ELSE NoTrade]
  /\ links = [tr \in Trades |-> IF tr \in Existing THEN Links[tr] ELSE {}]
  /\ trigger = [t \in Triggers |-> "active"]
  /\ posting = [tr \in Trades |-> {}]
  /\ owner = << >>
  /\ phase = "starting"
  /\ mem = [tr \in Trades |-> IF tr \in Existing THEN NewRow ELSE NoTrade]
  /\ notes = << >>
  /\ tradeUpdates = << >> /\ orderUpdates = << >>
  /\ job = [c \in Callers |-> IF c = Init0 THEN Batch(Existing) ELSE Idle]
  /\ current = [c \in Callers |-> None]
  /\ writeLock = FALSE
  /\ found = Nothing /\ watchers = {}
  /\ boots = 1 /\ triggerWrites = 0 /\ orderNotices = 0 /\ faults = 0
  /\ fired = << >>

-----------------------------------------------------------------------------
(* The world outside the component. *)

Fault == faults < MaxFaults /\ faults' = faults + 1

\* TriggerManager or updateTriggerHandler writes a trigger row.
WriteTrigger(t, st) ==
  /\ triggerWrites < MaxTriggerWrites
  /\ triggerWrites' = triggerWrites + 1
  /\ trigger' = [trigger EXCEPT ![t] = st]
  /\ fired' = IF st = "triggered" THEN Append(fired, t) ELSE fired
  /\ Notified([table |-> "triggers", id |-> t, status |-> st])
  /\ UNCHANGED <<trade, links, posting, procVars, chanVars, boots, orderNotices, owner, faults>>

\* TradeBlockHandler and WriteTrades: the trade row first, then, statement
\* by statement and in no transaction, its rows of trade_triggers.
PostTrade(tr) ==
  /\ phase = "running"
  /\ trade[tr] = NoTrade
  /\ trade' = [trade EXCEPT ![tr] = NewRow]
  /\ posting' = [posting EXCEPT ![tr] = Links[tr]]
  /\ Notified([table |-> "trades", op |-> "INSERT", id |-> tr, row |-> NewRow])
  /\ UNCHANGED <<links, trigger, procVars, chanVars, countVars, owner, faults>>

LinkTrigger(tr, t) ==
  /\ t \in posting[tr]
  /\ posting' = [posting EXCEPT ![tr] = posting[tr] \ {t}]
  /\ links' = [links EXCEPT ![tr] = links[tr] \cup {t}]
  /\ UNCHANGED <<trade, trigger, procVars, chanVars, countVars, notes, owner, faults>>

\* deleteTradeBlockHandler and DeleteTradeGroup: the statement fails, and is
\* rolled back, while trade_triggers still refers to the trade.
DeleteGroup(tr) ==
  /\ phase = "running"
  /\ Exists(tr) /\ links[tr] = {} /\ posting[tr] = {}
  /\ trade' = [trade EXCEPT ![tr] = DeletedTrade]
  /\ Notified([table |-> "trades", op |-> "DELETE", id |-> tr, row |-> trade[tr]])
  /\ UNCHANGED <<links, trigger, posting, procVars, chanVars, countVars, owner, faults>>

\* Do_Orders_and_Fills rewrites the orders table: every deleted and every
\* inserted row notifies.
RewriteOrder(n, st) ==
  /\ n \in 1 .. Len(owner)
  /\ orderNotices < MaxOrderNotices
  /\ orderNotices' = orderNotices + 1
  /\ Notified([table |-> "orders", order |-> n, status |-> st])
  /\ UNCHANGED <<dbVars, procVars, chanVars, boots, triggerWrites, fired, owner, faults>>

\* The LISTEN connection is lost and made again: what was written meanwhile
\* is not delivered, the nil notification that says so is skipped.
LoseNotes(kept) ==
  /\ Fault
  /\ phase = "running"
  /\ kept < Len(notes)
  /\ notes' = SubSeq(notes, 1, kept)
  /\ UNCHANGED <<dbVars, procVars, chanVars, countVars, owner>>

Crash ==
  /\ Fault
  /\ Load({tr \in Trades : Exists(tr)})
  /\ UNCHANGED <<trade, links, trigger, triggerWrites, orderNotices, fired, owner>>

-----------------------------------------------------------------------------
(* checkAndExecuteTrade and placeEntryOrder, for the trades in job[c].todo. *)

At(c, tr, where) == current[c] = tr /\ job[c].at = where

Goto(c, tr, where, n) ==
  /\ job' = [job EXCEPT ![c] = [at |-> where, todo |-> job[c].todo, order |-> n]]
  /\ current' = [current EXCEPT ![c] = tr]
  /\ UNCHANGED writeLock

\* This trade is dealt with; processTradeUpdates unlocks.
Done(c, tr) ==
  /\ job' = [job EXCEPT ![c] = Batch(job[c].todo \ {tr})]
  /\ current' = [current EXCEPT ![c] = None]
  /\ writeLock' = IF c = Updater THEN FALSE ELSE writeLock

Otherwise == UNCHANGED <<phase, mem, found, watchers, chanVars, countVars>>

\* Mutant: the trade is read without the lock.
LookUpUnlocked(c, tr) ==
  /\ job[c].at = "next" /\ tr \in job[c].todo
  /\ IF mem[tr] # NoTrade THEN Goto(c, tr, "check", NoOrder) ELSE Done(c, tr)
  /\ UNCHANGED <<dbVars, notes, owner, faults>> /\ Otherwise

\* checkAndExecuteTrade reads the trade under the read lock; Initialize has
\* it at hand.
LookUp(c, tr) ==
  /\ job[c].at = "next" /\ tr \in job[c].todo
  /\ c # Init0 => ~writeLock
  /\ IF mem[tr] # NoTrade THEN Goto(c, tr, "check", NoOrder) ELSE Done(c, tr)
  /\ UNCHANGED <<dbVars, notes, owner, faults>> /\ Otherwise

\* Mutant: the statuses of the linked triggers are not asked for.
CheckNothing(c, tr) ==
  /\ At(c, tr, "check")
  /\ IF HasApi THEN Goto(c, tr, "place", NoOrder) ELSE Done(c, tr)
  /\ UNCHANGED <<dbVars, notes, owner, faults>> /\ Otherwise

\* GetTriggersForTrade and AreAllTriggersTriggered: a trade with no linked
\* triggers passes too.
Check(c, tr) ==
  /\ At(c, tr, "check")
  /\ IF AllTriggered(tr) /\ HasApi THEN Goto(c, tr, "place", NoOrder) ELSE Done(c, tr)
  /\ UNCHANGED <<dbVars, notes, owner, faults>> /\ Otherwise

\* Mutant: the number of the order before is taken for this one's.
PlaceStale(c, tr) ==
  /\ At(c, tr, "place")
  /\ Len(owner) < MaxOrders
  /\ owner' = Append(owner, Entry(tr))
  /\ Goto(c, tr, "record", Len(owner))
  /\ UNCHANGED <<dbVars, notes, faults>> /\ Otherwise

\* The exchange accepts the order and its number comes back.
Place(c, tr) ==
  /\ At(c, tr, "place")
  /\ Len(owner) < MaxOrders
  /\ owner' = Append(owner, Entry(tr))
  /\ Goto(c, tr, "record", Len(owner) + 1)
  /\ UNCHANGED <<dbVars, notes, faults>> /\ Otherwise

\* A call fails: the queries or PlaceOrder with no order accepted, or
\* PlaceOrder after it was accepted, or UpdateTradeEntry.
PlaceError(c, tr, accepted) ==
  /\ At(c, tr, "place")
  /\ Fault
  /\ accepted => Len(owner) < MaxOrders
  /\ owner' = IF accepted THEN Append(owner, Entry(tr)) ELSE owner
  /\ Done(c, tr)
  /\ UNCHANGED <<dbVars, notes>> /\ Otherwise

\* UpdateTradeEntry: the table only, the copy in memory learns of it from the
\* notification.  A deleted row leaves nothing to update.
Record(c, tr) ==
  /\ At(c, tr, "record")
  /\ IF Exists(tr) THEN WriteRow(tr, [entry |-> job[c].order, status |-> "PENDING"])
                   ELSE UNCHANGED <<trade, notes>>
  /\ Done(c, tr)
  /\ UNCHANGED <<links, trigger, posting, owner, faults>> /\ Otherwise

\* The end of Initialize: both channel goroutines start.
Started ==
  /\ phase = "starting"
  /\ job[Init0].todo = {}
  /\ phase' = "started"
  /\ UNCHANGED <<dbVars, mem, found, watchers, jobVars, chanVars, countVars, notes, owner, faults>>

\* listener.Listen, some time after Initialize: writes before it are not seen.
Listen ==
  /\ phase = "started"
  /\ phase' = "running"
  /\ UNCHANGED <<dbVars, mem, found, watchers, jobVars, chanVars, countVars, notes, owner, faults>>

-----------------------------------------------------------------------------
(* ListenForDBChanges: one notification at a time; sends wait for room. *)

ListenerFree == phase = "running" /\ job[Listener].todo = {} /\ notes # << >>

NoteTrade ==
  /\ ListenerFree /\ Head(notes).table = "trades"
  /\ IF RowsDecode
     THEN Len(tradeUpdates) < ChannelCap /\ tradeUpdates' = Append(tradeUpdates, Head(notes))
     ELSE UNCHANGED tradeUpdates
  /\ notes' = Tail(notes)
  /\ UNCHANGED <<dbVars, procVars, orderUpdates, countVars, owner, faults>>

\* Mutant: the send to orderUpdates does not wait for room.
NoteOrderUnbounded ==
  /\ ListenerFree /\ Head(notes).table = "orders"
  /\ orderUpdates' = Append(orderUpdates, Head(notes))
  /\ notes' = Tail(notes)
  /\ UNCHANGED <<dbVars, procVars, tradeUpdates, countVars, owner, faults>>

NoteOrder ==
  /\ ListenerFree /\ Head(notes).table = "orders"
  /\ Len(orderUpdates) < ChannelCap
  /\ orderUpdates' = Append(orderUpdates, Head(notes))
  /\ notes' = Tail(notes)
  /\ UNCHANGED <<dbVars, procVars, tradeUpdates, countVars, owner, faults>>

NoteTriggerFor(due) ==
  /\ ListenerFree /\ Head(notes).table = "triggers"
  /\ job' = IF Head(notes).status = "triggered"
            THEN [job EXCEPT ![Listener] = Batch(due)] ELSE job
  /\ notes' = Tail(notes)
  /\ UNCHANGED <<dbVars, phase, mem, current, writeLock, found, watchers, chanVars, countVars, owner, faults>>

TradesOf(t) == {tr \in Trades : t \in links[tr]}

\* Mutant: only the first of the linked trades is gone through.
NoteTriggerFirst ==
  \E n \in {notes[i] : i \in 1 .. Len(notes)} :
    /\ n = Head(notes)
    /\ IF n.table = "triggers" /\ Cardinality(TradesOf(n.id)) > 1
       THEN NoteTriggerFor({CHOOSE tr \in TradesOf(n.id) : TRUE})
       ELSE NoteTriggerFor(IF n.table = "triggers" THEN TradesOf(n.id) ELSE {})

\* Mutant: a trigger that is not triggered is handled too.
NoteTriggerAny ==
  /\ ListenerFree /\ Head(notes).table = "triggers"
  /\ job' = [job EXCEPT ![Listener] = Batch(TradesOf(Head(notes).id))]
  /\ notes' = Tail(notes)
  /\ UNCHANGED <<dbVars, phase, mem, current, writeLock, found, watchers, chanVars, countVars, owner, faults>>

\* handleTriggerUpdate, for a row whose status is triggered.
NoteTrigger ==
  /\ ListenerFree /\ Head(notes).table = "triggers"
  /\ NoteTriggerFor(TradesOf(Head(notes).id))

-----------------------------------------------------------------------------
(* processTradeUpdates: everything under the write lock. *)

\* INSERT calls checkAndExecuteTrade, which asks for the read lock, while the
\* write lock is held.
UpdateTrade ==
  /\ phase # "starting"
  /\ job[Updater].todo = {}
  /\ ~writeLock
  /\ tradeUpdates # << >>
  /\ LET u == Head(tradeUpdates)
     IN  /\ mem' = [mem EXCEPT ![u.id] = CASE u.op = "INSERT" -> u.row
                                          [] u.op = "UPDATE" -> IF @ = NoTrade THEN @ ELSE u.row
                                          [] u.op = "DELETE" -> NoTrade]
         /\ found' = IF u.op = "UPDATE" /\ mem[u.id] # NoTrade /\ found.id = u.id
                     THEN [found EXCEPT !.entry = u.row.entry] ELSE found
         /\ writeLock' = (u.op = "INSERT")
         /\ job' = IF u.op = "INSERT" THEN [job EXCEPT ![Updater] = Batch({u.id})] ELSE job
  /\ tradeUpdates' = Tail(tradeUpdates)
  /\ UNCHANGED <<dbVars, phase, current, watchers, orderUpdates, countVars, notes, owner, faults>>

(* processOrderUpdates: the trade is found under the read lock and used,  *)
(* through its pointer, after the lock is released; an UPDATE in between  *)
(* is seen through the pointer.                                           *)

\* Mutant: any trade in memory will do.
FindAnyTrade ==
  /\ phase # "starting"
  /\ found = Nothing
  /\ orderUpdates # << >>
  /\ ~writeLock /\ HasApi
  /\ \E tr \in Trades : /\ mem[tr] # NoTrade
                        /\ found' = [id |-> tr, entry |-> Head(orderUpdates).order, at |-> "use"]
  /\ UNCHANGED <<dbVars, phase, mem, watchers, jobVars, chanVars, countVars, notes, owner, faults>>

FindTrade ==
  /\ phase # "starting"
  /\ found = Nothing
  /\ orderUpdates # << >>
  /\ ~writeLock
  /\ LET n == Head(orderUpdates).order
         hit == {tr \in Trades : mem[tr] # NoTrade /\ mem[tr].entry = n}
     IN  IF hit # {} /\ HasApi
         THEN (\E tr \in hit : found' = [id |-> tr, entry |-> n, at |-> "use"]) /\ UNCHANGED orderUpdates
         ELSE orderUpdates' = Tail(orderUpdates) /\ UNCHANGED found
  /\ UNCHANGED <<dbVars, phase, mem, watchers, jobVars, tradeUpdates, countVars, notes, owner, faults>>

\* The entry order of this update is looked for again, through the pointer.
\* UpdateTradeEntryStatus may fail, which is logged; a filled entry goes on to
\* PlaceBracketOrder all the same, whatever was placed for it before.
UseTrade(failed) ==
  /\ found # Nothing /\ found.at = "use"
  /\ IF failed THEN Fault ELSE UNCHANGED faults
  /\ LET u == Head(orderUpdates)
         tr == found.id
         same == found.entry = u.order
     IN  /\ IF same /\ Exists(tr) /\ ~failed
            THEN WriteRow(tr, [entry |-> trade[tr].entry, status |-> u.status])
            ELSE UNCHANGED <<trade, notes>>
         /\ IF same /\ u.status = "FILLED"
            THEN found' = [found EXCEPT !.at = "bracket"] /\ UNCHANGED orderUpdates
            ELSE found' = Nothing /\ orderUpdates' = Tail(orderUpdates)
  /\ UNCHANGED <<links, trigger, posting, phase, mem, watchers, jobVars, tradeUpdates, countVars, owner>>

Follow(n) == Append(owner, [trade |-> owner[n].trade, after |-> n])

\* Mutant: the order is recorded as the trade's entry, like one of
\* placeEntryOrder.
BracketRecorded ==
  /\ found.at = "bracket"
  /\ Len(owner) < MaxOrders
  /\ owner' = Append(owner, [trade |-> found.id, after |-> Head(orderUpdates).order])
  /\ watchers' = watchers \cup {Len(owner) + 1}
  /\ WriteRow(found.id, [entry |-> Len(owner) + 1, status |-> "PENDING"])
  /\ orderUpdates' = Tail(orderUpdates) /\ found' = Nothing
  /\ UNCHANGED <<links, trigger, posting, phase, mem, jobVars, tradeUpdates, countVars, faults>>

\* PlaceBracketOrder: an order for the trade behind the pointer, and a
\* goroutine that asks for its status until it is filled.
PlaceBracketOrder ==
  /\ found.at = "bracket"
  /\ Len(owner) < MaxOrders
  /\ owner' = Append(owner, [trade |-> found.id, after |-> Head(orderUpdates).order])
  /\ watchers' = watchers \cup {Len(owner) + 1}
  /\ orderUpdates' = Tail(orderUpdates) /\ found' = Nothing
  /\ UNCHANGED <<dbVars, phase, mem, jobVars, tradeUpdates, countVars, notes, faults>>

\* No goroutine is left behind, whether or not the order was accepted.
BracketError(accepted) ==
  /\ found.at = "bracket"
  /\ Fault
  /\ accepted => Len(owner) < MaxOrders
  /\ owner' = IF accepted THEN Append(owner, [trade |-> found.id, after |-> Head(orderUpdates).order])
              ELSE owner
  /\ orderUpdates' = Tail(orderUpdates) /\ found' = Nothing
  /\ UNCHANGED <<dbVars, phase, mem, watchers, jobVars, tradeUpdates, countVars, notes>>

\* The exchange answers FILLED, sooner or later; the goroutine places its
\* order for the same trade, which may fail, and returns.  Failed questions
\* are repeated and change nothing.
OrderFilled(n) ==
  /\ n \in watchers
  /\ \/ Len(owner) < MaxOrders /\ owner' = Follow(n) /\ UNCHANGED faults
     \/ Fault /\ UNCHANGED owner
  /\ watchers' = watchers \ {n}
  /\ UNCHANGED <<dbVars, phase, mem, found, jobVars, chanVars, countVars, notes>>

-----------------------------------------------------------------------------
Work(c, tr) == LookUp(c, tr) \/ Check(c, tr) \/ Place(c, tr) \/ Record(c, tr)

Next ==
  \/ \E t \in Triggers, st \in {"active", "triggered"} : WriteTrigger(t, st)
  \/ \E tr \in Trades : PostTrade(tr) \/ DeleteGroup(tr) \/ \E t \in Triggers : LinkTrigger(tr, t)
  \/ \E n \in 1 .. MaxOrders, st \in NoticeStatuses : RewriteOrder(n, st)
  \/ Crash \/ \E kept \in 0 .. Len(notes) : LoseNotes(kept)
  \/ \E c \in Callers, tr \in Trades :
       \/ LookUp(c, tr) \/ Check(c, tr) \/ Place(c, tr) \/ Record(c, tr)
       \/ \E accepted \in BOOLEAN : PlaceError(c, tr, accepted)
  \/ Started \/ Listen
  \/ NoteTrade \/ NoteOrder \/ NoteTrigger
  \/ UpdateTrade \/ FindTrade \/ PlaceBracketOrder
  \/ \E failed \in BOOLEAN : UseTrade(failed)
  \/ \E accepted \in BOOLEAN : BracketError(accepted)
  \/ \E n \in 1 .. MaxOrders : OrderFilled(n)

Spec == Init /\ [][Next]_vars

\* Every goroutine of a running process goes on when it can.
Fairness ==
  /\ \A c \in Callers : WF_vars(\E tr \in Trades : Work(c, tr))
  /\ WF_vars(Started) /\ WF_vars(Listen)
  /\ WF_vars(NoteTrade \/ NoteOrder \/ NoteTrigger)
  /\ WF_vars(UpdateTrade) /\ WF_vars(FindTrade \/ UseTrade(FALSE) \/ PlaceBracketOrder)
  /\ \A tr \in Trades, t \in Triggers : WF_vars(LinkTrigger(tr, t))

LiveSpec == Spec /\ Fairness

-----------------------------------------------------------------------------
(* Properties. *)

Fired(t) == \E i \in 1 .. Len(fired) : fired[i] = t

\* The table never ties a trade to an order that was not placed as its entry:
\* the number UpdateTradeEntry records is that of an entry order of this very
\* trade, through crashes, lost answers and whatever brackets follow.
RecordedOrdersExist ==
  \A tr \in Trades : trade[tr].entry # NoOrder =>
    trade[tr].entry \in EntryOrders(tr)

\* No order is placed for a trade loaded from the table before each trigger
\* of its block has been triggered.
EntryNeedsTriggers ==
  \A tr \in Existing : EntryOrders(tr) # {} => \A t \in Links[tr] : Fired(t)

Firings(tr) == {i \in 1 .. Len(fired) : fired[i] \in Links[tr]}

\* checkAndExecuteTrade does not ask whether the trade has an order already,
\* so a trade may get several.  Still each has a cause of its own: a write
\* that left a trigger of the block triggered, or a restart.
OrdersHaveCauses ==
  \A tr \in Existing : Links[tr] # {} =>
    Cardinality(EntryOrders(tr)) <= (boots - 1) + Cardinality(Firings(tr))

\* A trade in memory all of whose triggers are triggered, with the
\* notification of one of them under way.
Due(tr) ==
  /\ mem[tr] # NoTrade /\ AllTriggered(tr)
  /\ \E i \in 1 .. Len(notes) : /\ notes[i].table = "triggers"
                                /\ notes[i].id \in links[tr]
                                /\ notes[i].status = "triggered"

\* "Place entry order to exchange": a due trade gets an order, unless one of
\* its triggers is armed again before.
DueTradesAreEntered ==
  \A tr \in Trades : Due(tr) ~> (EntryOrders(tr) # {} \/ ~AllTriggered(tr))

\* processOrderUpdates places a bracket through a pointer it found before it
\* released the lock, on an update that may be old, and the goroutine acts
\* later still: every order that follows a filled one is for the same trade.
\* Nor is it taken for an entry that, filled, needs a bracket again: one entry
\* leads to chains of at most two orders (that of PlaceBracketOrder and that
\* of its goroutine), however often its filling is reported.
BracketsFollowEntry ==
  \A n \in 1 .. Len(owner) :
    LET first == owner[n].after
    IN  first # NoOrder =>
          /\ first < n /\ owner[first].trade = owner[n].trade
          /\ owner[first].after # NoOrder => owner[owner[first].after].after = NoOrder

\* The INSERT of a trade is the last update processTradeUpdates handles:
\* checkAndExecuteTrade waits for the lock its caller holds.  From then until
\* the process is started again the posted trade is not checked, memory stays
\* as it is, no caller begins with another trade and no order notice finds
\* its trade; only what had been read before goes on.
InsertsBlock ==
  [][writeLock /\ boots' = boots =>
       /\ writeLock' /\ mem' = mem
       /\ job'[Updater] = job[Updater]
       /\ \A c \in Callers : job[c].at = "next" => job'[c].at = "next"
       /\ found = Nothing => found' = Nothing]_vars

\* What the manager promises of its orders, as a specification of its own:
\* crashes, lost notifications and answers, stale pointers and late
\* goroutines come down to the steps of a ledger, or to none.
Ledger == INSTANCE OrderLedger WITH
  Guarded  <- Existing,
  orders   <- owner,
  recorded <- [tr \in Trades |-> trade[tr].entry],
  seen     <- {t \in Triggers : Fired(t)}

\* Every behaviour of the trade manager is one of the ledger.
ImplementsLedger == Ledger!Spec

=============================================================================

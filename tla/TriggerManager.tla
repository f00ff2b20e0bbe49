--------------------------- MODULE TriggerManager ---------------------------
(***************************************************************************)
(* The price and candle triggers of one product: the rows of the triggers  *)
(* table, the copy TriggerManager keeps in memory (triggers/triggers.go),  *)
(* the notifications that carry a written row to that copy (notify_table_  *)
(* update in db/db.go, SSEManager.ListenForDBChanges in sse/sse.go) and    *)
(* the HTTP handlers that write rows (main.go).                            *)
(*                                                                         *)
(* triggers.triggerMutex is held for a whole evaluation of a tick, so it   *)
(* is modelled by "scan": scan.kind # "idle" means the mutex is held and   *)
(* nobody else reads or writes mem.  Rows are NOT protected by it: clients *)
(* write them between two database updates of one evaluation.              *)
(***************************************************************************)
EXTENDS Integers, Sequences, FiniteSets

CONSTANTS
  Ids,          \* primary keys of the triggers table (SERIAL: never reused)
  Specs,        \* what a client may ask for: type, price, timeframe, count
  Timeframes,   \* candle timeframes the tables exist for
  Prices,       \* prices a market tick may carry
  Candles,      \* candles a table may report
  MaxHistory,   \* TriggerManager.maxHistory (100 in the code)
  MaxWrites,    \* bound: client writes to the table
  MaxFaults     \* bound: failed updates, lost connections, restarts

Types == {"price_above", "price_below", "closes_above", "closes_below"}

\* "inactive" stands for every status that is neither of the two the code uses.
Statuses == {"active", "triggered", "inactive"}

AnyTimeframe == "any"

\* The price of an evaluation that is not of a price tick.
NoPrice == 0

ASSUME SpecsAssumption ==
  Specs \subseteq [type : Types, price : Int,
                   timeframe : Timeframes \cup {AnyTimeframe}, count : Nat]

ASSUME CandlesAssumption ==
  Candles \subseteq [ts : Nat, close : Int, high : Int, low : Int]

ASSUME BoundsAssumption ==
  /\ Prices \subseteq Int
  /\ MaxHistory \in Nat \ {0}
  /\ MaxWrites \in Nat
  /\ MaxFaults \in Nat

Trigger == [spec : Specs, status : Statuses]

\* A row not inserted yet, a row deleted, an id memory does not hold.
Unborn  == [status |-> "unborn"]
Deleted == [status |-> "deleted"]
Absent  == [status |-> "absent"]

Notification == [op : {"INSERT", "UPDATE", "DELETE"}, id : Ids, row : Trigger]

VARIABLES
  row,        \* the triggers table
  mem,        \* TriggerManager.triggers
  hist,       \* TriggerManager.candleHistory, per timeframe
  queue,      \* notifications committed and not yet handled
  listening,  \* the LISTEN connection is up
  scan,       \* the evaluation that holds triggerMutex, if any
  stale,      \* ghost: ids whose memory a lost event may have left behind
  writes,     \* client writes so far (bounded by MaxWrites)
  faults      \* faults so far (bounded by MaxFaults)

vars == <<row, mem, hist, queue, listening, scan, stale, writes, faults>>

Idle == [kind |-> "idle", timeframe |-> AnyTimeframe, price |-> NoPrice, todo |-> {}]

Scans == [kind : {"idle", "price", "candle"},
          timeframe : Timeframes \cup {AnyTimeframe},
          price : Prices \cup {NoPrice}, todo : SUBSET Ids]

TypeOK ==
  /\ row \in [Ids -> Trigger \cup {Unborn, Deleted}]
  /\ mem \in [Ids -> Trigger \cup {Absent}]
  /\ hist \in [Timeframes -> Seq(Candles)]
  /\ \A tf \in Timeframes : Len(hist[tf]) <= MaxHistory
  /\ queue \in Seq(Notification)
  /\ listening \in BOOLEAN
  /\ scan \in Scans
  /\ stale \subseteq Ids
  /\ writes \in 0 .. MaxWrites
  /\ faults \in 0 .. MaxFaults

-----------------------------------------------------------------------------
(* What the code decides from a trigger and the market. *)

Exists(t)  == row[t].status \in Statuses
Pending(t) == \E i \in DOMAIN queue : queue[i].id = t

\* The switch of ProcessPriceUpdate: candle types never match a price tick,
\* and timeframe and count of a price type are not looked at.
PriceMet(s, p) ==
  \/ s.type = "price_above" /\ p > s.price
  \/ s.type = "price_below" /\ p < s.price

CandleBeyond(s, c) ==
  \/ s.type = "closes_above" /\ c.close > s.price
  \/ s.type = "closes_below" /\ c.close < s.price
  \/ s.type = "price_above"  /\ c.high > s.price
  \/ s.type = "price_below"  /\ c.low < s.price

\* checkCandleCondition: the last count candles of the history, none of
\* which may fail; no candle can fail when count is zero.
CandleMet(s, h) ==
  /\ Len(h) >= s.count
  /\ \A i \in (Len(h) - s.count + 1) .. Len(h) : CandleBeyond(s, h[i])

\* Mutant: the history is never cut off.
RememberAll(h, c) == Append(h, c)

\* One candle appended, the oldest one cut off beyond MaxHistory.
Remember(h, c) ==
  IF Len(h) < MaxHistory THEN Append(h, c) ELSE Tail(Append(h, c))

\* GetActiveTriggers and GetTriggers(.., "active"): only active rows are read.
LoadedFrom(r) == [t \in Ids |-> IF r[t].status = "active" THEN r[t] ELSE Absent]

-----------------------------------------------------------------------------
Init ==
  /\ row = [t \in Ids |-> Unborn]
  /\ mem = [t \in Ids |-> Absent]
  /\ hist = [tf \in Timeframes |-> << >>]
  /\ queue = << >>
  /\ listening = FALSE
  /\ scan = Idle
  /\ stale = {}
  /\ writes = 0
  /\ faults = 0

(* A committed statement changes the row and, through the row-level trigger, *)
(* sends one notification, which only an open LISTEN connection receives.    *)
Commit(op, t, r, sent) ==
  /\ row' = [row EXCEPT ![t] = r]
  /\ queue' = IF listening
              THEN Append(queue, [op |-> op, id |-> t, row |-> sent])
              ELSE queue
  /\ stale' = IF listening THEN stale \ {t} ELSE stale \cup {t}

ClientWrite ==
  /\ writes < MaxWrites
  /\ writes' = writes + 1
  /\ UNCHANGED <<mem, hist, listening, scan, faults>>

\* createTriggerHandler and db.CreateTrigger: only price types are accepted,
\* status, timeframe and candle count are taken as they come.
CreateTrigger(t, s, st) ==
  /\ row[t] = Unborn
  /\ s.type \in {"price_above", "price_below"}
  /\ Commit("INSERT", t, [spec |-> s, status |-> st], [spec |-> s, status |-> st])
  /\ ClientWrite

\* updateTriggerHandler: any column may be overwritten, the status too.
UpdateTrigger(t, s, st) ==
  /\ Exists(t)
  /\ Commit("UPDATE", t, [spec |-> s, status |-> st], [spec |-> s, status |-> st])
  /\ ClientWrite

\* deleteTriggerHandler and db.DeleteTrigger: the notification carries OLD.
DeleteTrigger(t) ==
  /\ Exists(t)
  /\ Commit("DELETE", t, Deleted, row[t])
  /\ ClientWrite

-----------------------------------------------------------------------------
(* Evaluation of a tick, under triggerMutex. *)

StartPrice(p) ==
  LET hit == {t \in Ids : mem[t].status = "active" /\ PriceMet(mem[t].spec, p)}
  IN  /\ scan = Idle
      /\ hit # {}
      /\ scan' = [kind |-> "price", timeframe |-> AnyTimeframe, price |-> p, todo |-> hit]
      /\ UNCHANGED <<row, mem, hist, queue, listening, stale, writes, faults>>

StartCandle(tf, c) ==
  LET h   == Remember(hist[tf], c)
      hit == {t \in Ids : /\ mem[t].status = "active"
                          /\ mem[t].spec.timeframe \in {tf, AnyTimeframe}
                          /\ CandleMet(mem[t].spec, h)}
  IN  /\ scan = Idle
      /\ hist' = [hist EXCEPT ![tf] = h]
      /\ scan' = [kind |-> "candle", timeframe |-> tf, price |-> NoPrice, todo |-> hit]
      /\ UNCHANGED <<row, mem, queue, listening, stale, writes, faults>>

Take(t) == scan' = [kind |-> scan.kind, timeframe |-> scan.timeframe,
                    price |-> scan.price, todo |-> scan.todo \ {t}]

Triggered(r) == [spec |-> r.spec, status |-> "triggered"]

MarkTriggered(t) == mem' = [mem EXCEPT ![t] = Triggered(mem[t])]

Fault ==
  /\ faults < MaxFaults
  /\ faults' = faults + 1

\* updateTriggerStatus(id, "triggered") takes effect in the database; it
\* touches no row, and notifies nobody, when the row is gone.
StatusWritten(t) ==
  IF Exists(t)
  THEN Commit("UPDATE", t, Triggered(row[t]), Triggered(row[t]))
  ELSE UNCHANGED <<row, queue, stale>>

\* A tick's condition holds and the update succeeds: both paths agree.
Fire(t) ==
  /\ t \in scan.todo
  /\ Take(t)
  /\ MarkTriggered(t)
  /\ StatusWritten(t)
  /\ UNCHANGED <<hist, listening, writes, faults>>

\* Mutant: memory is marked before the update is known to have succeeded.
MarkedThenFailed(t, done) ==
  /\ t \in scan.todo
  /\ scan.kind = "price"
  /\ Fault
  /\ Take(t)
  /\ MarkTriggered(t)
  /\ IF done THEN StatusWritten(t) ELSE UNCHANGED <<row, queue, stale>>
  /\ UNCHANGED <<hist, listening, writes>>

\* The update fails on the price path: the trigger is left active in memory
\* and not reported; "done" says whether the statement had been committed
\* before its connection broke.
FirePriceError(t, done) ==
  /\ t \in scan.todo
  /\ scan.kind = "price"
  /\ Fault
  /\ Take(t)
  /\ IF done THEN StatusWritten(t) ELSE UNCHANGED <<row, queue, stale>>
  /\ UNCHANGED <<mem, hist, listening, writes>>

\* The update fails on the candle path: the trigger is already marked in
\* memory and reported, the error is only logged.
FireCandleError(t, done) ==
  /\ t \in scan.todo
  /\ scan.kind = "candle"
  /\ Fault
  /\ Take(t)
  /\ MarkTriggered(t)
  /\ IF done THEN StatusWritten(t)
             ELSE stale' = stale \cup {t} /\ UNCHANGED <<row, queue>>
  /\ UNCHANGED <<hist, listening, writes>>

\* The deferred Unlock: only now may the copy be read or replaced again.
FinishScan ==
  /\ scan.kind # "idle"
  /\ scan.todo = {}
  /\ scan' = Idle
  /\ UNCHANGED <<row, mem, hist, queue, listening, stale, writes, faults>>

-----------------------------------------------------------------------------
(* How memory learns about rows. *)

\* Mutant: the notification of a trigger memory already holds is dropped.
DeliverUnknownOnly ==
  /\ scan = Idle
  /\ queue # << >>
  /\ LET n == Head(queue)
     IN  mem' = [mem EXCEPT ![n.id] = IF @ = Absent THEN n.row ELSE @]
  /\ queue' = Tail(queue)
  /\ UNCHANGED <<row, hist, listening, scan, stale, writes, faults>>

\* Mutant: the notification of a trigger memory does not hold is dropped.
DeliverKnownOnly ==
  /\ scan = Idle
  /\ queue # << >>
  /\ LET n == Head(queue)
     IN  mem' = [mem EXCEPT ![n.id] = IF @ = Absent THEN Absent ELSE n.row]
  /\ queue' = Tail(queue)
  /\ UNCHANGED <<row, hist, listening, scan, stale, writes, faults>>

\* Mutant: UpdateTriggers does not take the mutex.
DeliverUnlocked ==
  /\ queue # << >>
  /\ mem' = [mem EXCEPT ![Head(queue).id] = Head(queue).row]
  /\ queue' = Tail(queue)
  /\ UNCHANGED <<row, hist, listening, scan, stale, writes, faults>>

\* SSEManager's listener passes the row of the next notification to
\* UpdateTriggers: replaced by id or appended, whatever the operation was.
Deliver ==
  /\ scan = Idle
  /\ queue # << >>
  /\ mem' = [mem EXCEPT ![Head(queue).id] = Head(queue).row]
  /\ queue' = Tail(queue)
  /\ UNCHANGED <<row, hist, listening, scan, stale, writes, faults>>

\* ReloadTriggers, on every new stream client: the copy is rebuilt.
Reload ==
  /\ scan = Idle
  /\ mem' = LoadedFrom(row)
  /\ stale' = {t \in stale : Pending(t)}
  /\ UNCHANGED <<row, hist, queue, listening, scan, writes, faults>>

\* The query of ReloadTriggers fails after the map was emptied.
ReloadError ==
  /\ scan = Idle
  /\ Fault
  /\ mem' = [t \in Ids |-> Absent]
  /\ stale' = Ids
  /\ UNCHANGED <<row, hist, queue, listening, scan, writes>>

\* The LISTEN connection breaks: what the client library had not received
\* is gone, and the nil event that announces the new connection is skipped.
Disconnect(kept) ==
  /\ listening
  /\ Fault
  /\ listening' = FALSE
  /\ queue' = SubSeq(queue, 1, kept)
  /\ stale' = stale \cup {queue[i].id : i \in (kept + 1) .. Len(queue)}
  /\ UNCHANGED <<row, mem, hist, scan, writes>>

\* listener.Listen, at start or by the library after a lost connection.
Listen ==
  /\ ~listening
  /\ listening' = TRUE
  /\ UNCHANGED <<row, mem, hist, queue, scan, stale, writes, faults>>

\* The process stops and starts again: NewTriggerManager, then
\* InitializeTriggersFromExchange, whose error main only logs.
Restart(loaded) ==
  /\ Fault
  /\ mem' = IF loaded THEN LoadedFrom(row) ELSE [t \in Ids |-> Absent]
  /\ stale' = IF loaded THEN {} ELSE Ids
  /\ hist' = [tf \in Timeframes |-> << >>]
  /\ queue' = << >>
  /\ listening' = FALSE
  /\ scan' = Idle
  /\ UNCHANGED <<row, writes>>

-----------------------------------------------------------------------------
Next ==
  \/ \E t \in Ids, s \in Specs, st \in Statuses :
       CreateTrigger(t, s, st) \/ UpdateTrigger(t, s, st)
  \/ \E t \in Ids : DeleteTrigger(t) \/ Fire(t)
  \/ \E t \in Ids, done \in BOOLEAN : FirePriceError(t, done) \/ FireCandleError(t, done)
  \/ \E p \in Prices : StartPrice(p)
  \/ \E tf \in Timeframes, c \in Candles : StartCandle(tf, c)
  \/ FinishScan
  \/ Deliver
  \/ Reload
  \/ ReloadError
  \/ \E kept \in 0 .. Len(queue) : Disconnect(kept)
  \/ Listen
  \/ \E loaded \in BOOLEAN : Restart(loaded)

Spec == Init /\ [][Next]_vars

(* An evaluation in progress goes on; the market keeps ticking at the prices *)
(* of Prices; the LISTEN connection is opened; and the listener gets the     *)
(* mutex again and again, which sync.Mutex's starvation mode ensures though  *)
(* ticks compete for it (hence strong fairness).                             *)
Fairness ==
  /\ WF_vars(FinishScan)
  /\ WF_vars(\E t \in Ids : Fire(t))
  /\ WF_vars(Listen)
  /\ SF_vars(Deliver)
  /\ \A p \in Prices : SF_vars(StartPrice(p))

LiveSpec == Spec /\ Fairness

-----------------------------------------------------------------------------
(* Properties. *)

\* Two triggers behave alike if they are the same or neither can fire.
Alike(m, r) == m = r \/ (m.status # "active" /\ r.status # "active")

Newest(i, t) ==
  /\ i \in DOMAIN queue
  /\ queue[i].id = t
  /\ \A j \in DOMAIN queue : j > i => queue[j].id # t

\* The copy in memory follows the table: for an existing trigger whose
\* events were not lost, the newest notification under way carries the row as
\* it is now, and with none under way memory already behaves like the row,
\* whatever order ticks, edits, reloads and reconnects came in.
MemoryFollowsRows ==
  \A t \in Ids \ stale : Exists(t) =>
    /\ \A i \in DOMAIN queue : Newest(i, t) => queue[i].row = row[t]
    /\ ~Pending(t) => Alike(mem[t], row[t])

\* A step of an evaluation that marks t as triggered, and so reports it.
Fires(t) == t \in scan.todo /\ t \notin scan'.todo /\ mem'[t].status = "triggered"

\* An alert goes out for a trigger the table has as active, exactly as it is
\* evaluated; the only exceptions are a write still under way, a lost
\* event, and a deleted row.
AlertsAreCurrent ==
  [][\A t \in Ids : Fires(t) /\ Exists(t) /\ ~Pending(t) /\ t \notin stale
       => row[t] = mem[t]]_vars

\* What an evaluation decided of a trigger at its start.
Met(t) ==
  /\ mem[t].status = "active"
  /\ \/ scan.kind = "price" /\ PriceMet(mem[t].spec, scan.price)
     \/ /\ scan.kind = "candle"
        /\ mem[t].spec.timeframe \in {scan.timeframe, AnyTimeframe}
        /\ CandleMet(mem[t].spec, hist[scan.timeframe])

\* Every condition is evaluated at the start of a tick, and the alerts go out
\* one database update after the other, while rows are edited and notified:
\* still a trigger that is reported is armed, and the condition it has by then
\* holds for the price of the tick, or for the candle history.
AlertsAreTrue == [][\A t \in Ids : Fires(t) => Met(t)]_vars

Crossed(t) ==
  /\ Exists(t) /\ row[t].status = "active"
  /\ \E p \in Prices : PriceMet(row[t].spec, p)

\* A trigger the market has crossed and keeps crossing does not stay active
\* for ever, unless its memory was left behind by a lost event.
CrossedTriggersFire ==
  \A t \in Ids : (Crossed(t) /\ t \notin stale) ~> (~Crossed(t) \/ t \in stale)

\* The table has the trigger, or memory may be excused for not knowing better:
\* one of its notifications is lost or still under way.
Grounded(t) == row[t] # Deleted \/ Pending(t) \/ t \in stale

\* As many different candles as the trigger asks for have been seen.
EnoughCandles(t) ==
  LET h == hist[scan.timeframe]
      n == mem[t].spec.count
  IN  Cardinality({h[i].ts : i \in (Len(h) - n + 1) .. Len(h)}) = n

\* deleteTriggerHandler answers "Trigger deleted successfully": a deleted
\* trigger raises no alert any more.
DeletedTriggersAreSilent == [][\A t \in Ids : Fires(t) => Grounded(t)]_vars

\* CandleCount is the number of candles needed to trigger: a trigger that
\* fires on the candle path has seen that many different candles.
CandleCountIsCandles ==
  [][\A t \in Ids : Fires(t) /\ scan.kind = "candle" => EnoughCandles(t)]_vars

\* Implied by either of the two, so that the step that refutes it refutes
\* both: an alert of the candle path has a trigger behind it or the candles.
CandleAlertsHaveGround ==
  [][\A t \in Ids : Fires(t) /\ scan.kind = "candle" => Grounded(t) \/ EnoughCandles(t)]_vars

=============================================================================

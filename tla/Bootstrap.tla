----------------------------- MODULE Bootstrap -----------------------------
(***************************************************************************)
(* Start-up (main.go, db/db.go, indicators/indicators.go) over the tables  *)
(* of the database and the row-level triggers on them: notify_<table>,     *)
(* which sends global_changes, and notify_candle_update_<table>, which     *)
(* sends candle_updates.  main runs through DBConnect, the trade manager,  *)
(* CreateTables, ListTables and the indicator manager, and starts the fill *)
(* loop, which creates candle tables.  A log.Fatal ends the process; the   *)
(* database keeps what was done.                                           *)
(*                                                                         *)
(* DBConnect also wants an event trigger that writes each new table to     *)
(* table_creation_log, from which a goroutine attaches notify_<table>.     *)
(* PostgreSQL refuses the function of the trigger: its RETURNS EVENT       *)
(* TRIGGER does not parse.  Only the log is made; it stays empty, and the  *)
(* goroutine finds no table, so neither has a variable here.               *)
(***************************************************************************)
EXTENDS Naturals, Sequences, SequencesExt

CONSTANTS
  Created,       \* tables of CreateTables, in order
  References,    \* per table, the tables its foreign keys name
  CandleTables,  \* tables of the products on the watchlist
  Watch,         \* tables IndicatorManager.Start attaches to, in order
  LineTables,    \* tables of the trendline indicators
  MaxFaults      \* bound: crashes and failed statements

Log == "table_creation_log"
Tables == ToSet(Created) \cup CandleTables \cup LineTables \cup {Log}
Watchable == ToSet(Watch)

\* Failures CreateTables returns; it logs those of the other tables.
Fatal == {"trade_triggers", "triggers"}

ASSUME BootAssumption ==
  /\ Created \in Seq(STRING) /\ Watch \in Seq(CandleTables)
  /\ Fatal \cup {"trades"} \subseteq ToSet(Created)
  /\ References \in [Tables -> SUBSET Tables]
  /\ \A t \in CandleTables \cup LineTables \cup {Log} : References[t] = {}
  /\ MaxFaults \in Nat

VARIABLES
  tables,        \* tables there are
  notifies,      \* those with the trigger notify_<table>
  watched,       \* those with the trigger notify_candle_update_<table>
  main,          \* where main is
  next,          \* its position in CreateTables, or in the loops of attach
  todo,          \* tables the pass over existing tables has still to do
  filling,       \* the fill loop runs
  faults,
  old, missed    \* ghosts: tables there at the start, those a failure left out

dbVars == <<tables, notifies, watched>>
procVars == <<main, next, todo, filling>>
vars == <<dbVars, procVars, faults, old, missed>>

Stages == {"down", "query", "existing", "event", "trades", "create", "list",
           "indicators", "attach", "up"}

TypeOK ==
  /\ tables \subseteq Tables
  /\ notifies \subseteq tables
  /\ watched \subseteq tables \cap Watchable
  /\ \A t \in tables : References[t] \subseteq tables
  /\ main \in Stages
  /\ next \in 1 .. (IF main = "create" THEN Len(Created) ELSE Len(Watch)) + 1
  /\ todo \subseteq tables
  /\ filling \in BOOLEAN
  /\ faults \in 0 .. MaxFaults
  /\ old \subseteq tables /\ missed \subseteq tables

\* Whatever tables somebody has made by hand, and no triggers yet.
Init ==
  /\ tables \in SUBSET (ToSet(Created) \cup CandleTables)
  /\ \A t \in tables : References[t] \subseteq tables
  /\ notifies = {} /\ watched = {}
  /\ main = "down" /\ next = 1 /\ todo = {} /\ filling = FALSE
  /\ faults = 0 /\ old = {} /\ missed = {}

Alive == main # "down"
Connected == main \notin {"down", "query", "existing"}

Fault == faults < MaxFaults /\ faults' = faults + 1

Stop ==
  /\ main' = "down" /\ next' = 1
  /\ todo' = {} /\ filling' = FALSE

Goto(stage) == main' = stage /\ next' = 1 /\ todo' = {} /\ UNCHANGED filling

\* Mutant: the tables are made without their foreign keys.
SucceedsAlone(t) == t \in Tables

\* CREATE TABLE IF NOT EXISTS: a new table needs those it refers to, and one
\* that is there has them.
Succeeds(t) == References[t] \subseteq tables

Launch ==
  /\ ~Alive
  /\ main' = "query"
  /\ old' = tables /\ missed' = {}
  /\ UNCHANGED <<dbVars, next, todo, filling, faults>>

-----------------------------------------------------------------------------
(* DBConnect. *)

\* CreateTriggersForExistingTables: the tables with no trigger notify_...,
\* and one of the indicator manager has such a name too.
QueryTables ==
  /\ main = "query"
  /\ todo' = tables \ (notifies \cup watched)
  /\ main' = "existing"
  /\ UNCHANGED <<dbVars, next, filling, faults, old, missed>>

\* The function or the query fails: logged, the pass is left out.
QueryError ==
  /\ main = "query"
  /\ Fault
  /\ missed' = old
  /\ Goto("event")
  /\ UNCHANGED <<dbVars, old>>

\* Mutant: a failure ends the pass.
NotifyUntilFailure(t, failed) ==
  /\ main = "existing" /\ t \in todo
  /\ IF failed THEN Fault /\ missed' = missed \cup {t} /\ todo' = {} /\ UNCHANGED notifies
               ELSE notifies' = notifies \cup {t} /\ todo' = todo \ {t} /\ UNCHANGED <<faults, missed>>
  /\ UNCHANGED <<tables, watched, main, next, filling, old>>

\* One CREATE TRIGGER; a failure is logged and the next table is taken.
NotifyExisting(t, failed) ==
  /\ main = "existing" /\ t \in todo
  /\ IF failed THEN Fault /\ missed' = missed \cup {t} /\ UNCHANGED notifies
               ELSE notifies' = notifies \cup {t} /\ UNCHANGED <<faults, missed>>
  /\ todo' = todo \ {t}
  /\ UNCHANGED <<tables, watched, main, next, filling, old>>

ExistingDone ==
  /\ main = "existing" /\ todo = {}
  /\ Goto("event")
  /\ UNCHANGED <<dbVars, faults, old, missed>>

\* The rows of the query end early, or one cannot be read: rows.Err is not
\* asked, and main takes the error of Scan for a warning.
ExistingCutShort ==
  /\ main = "existing" /\ todo # {}
  /\ Fault
  /\ missed' = missed \cup todo
  /\ Goto("event")
  /\ UNCHANGED <<dbVars, old>>

\* CreateEventTriggerForNewTables makes the log and fails at the function,
\* which is logged.
EnsureLog ==
  /\ main = "event"
  /\ Succeeds(Log) /\ tables' = tables \cup {Log}
  /\ Goto("trades")
  /\ UNCHANGED <<notifies, watched, faults, old, missed>>

EnsureLogError ==
  /\ main = "event"
  /\ Fault
  /\ Goto("trades")
  /\ UNCHANGED <<dbVars, old, missed>>

-----------------------------------------------------------------------------
(* main, after DBConnect. *)

\* TradeManager.Initialize reads trades; an error is fatal.
InitializeTrades ==
  /\ main = "trades"
  /\ IF "trades" \in tables THEN Goto("create") ELSE Stop
  /\ UNCHANGED <<dbVars, faults, old, missed>>

CreateDone == next > Len(Created)
ThisTable == Created[next]

\* Mutant: the failure of trade_triggers is logged like the ones before it.
RefusedLogged ==
  IF ThisTable = "triggers" THEN Stop
  ELSE next' = next + 1 /\ UNCHANGED <<main, todo, filling>>

\* An error of the last two tables is returned to main, which dies of it.
Refused ==
  IF ThisTable \in Fatal THEN Stop
  ELSE next' = next + 1 /\ UNCHANGED <<main, todo, filling>>

\* CreateTables, one statement at a time.
CreateNext ==
  /\ main = "create" /\ ~CreateDone
  /\ Succeeds(ThisTable)
  /\ tables' = tables \cup {ThisTable}
  /\ next' = next + 1
  /\ UNCHANGED <<notifies, watched, main, todo, filling, faults, old, missed>>

CreateRefused ==
  /\ main = "create" /\ ~CreateDone
  /\ ~Succeeds(ThisTable)
  /\ Refused
  /\ UNCHANGED <<dbVars, faults, old, missed>>

CreateError ==
  /\ main = "create" /\ ~CreateDone
  /\ Fault
  /\ Refused
  /\ UNCHANGED <<dbVars, old, missed>>

CreateTables ==
  /\ main = "create" /\ CreateDone
  /\ Goto("list")
  /\ UNCHANGED <<dbVars, faults, old, missed>>

\* ListTables only reads; the fill loop starts after it.
ListTables ==
  /\ main = "list"
  /\ main' = "indicators" /\ filling' = TRUE
  /\ UNCHANGED <<dbVars, next, todo, faults, old, missed>>

\* Write_Candles of the fill loop, for a product and timeframe whose table is
\* missing; it may fail and comes again a minute later.
FillTable(t) ==
  /\ filling
  /\ t \in CandleTables \ tables
  /\ tables' = tables \cup {t}
  /\ UNCHANGED <<notifies, watched, procVars, faults, old, missed>>

\* NewIndicatorManager: each indicator makes its table unless it is there; an
\* error, of this or of what it reads then, is logged.
RegisterIndicators(made) ==
  /\ main = "indicators"
  /\ IF made = LineTables \ tables THEN UNCHANGED faults ELSE Fault
  /\ tables' = tables \cup made
  /\ Goto("attach")
  /\ UNCHANGED <<notifies, watched, old, missed>>

AttachDone == next > Len(Watch)

\* Mutant: CREATE TRIGGER is not asked whether it is there already.
AttachAgain ==
  /\ main = "attach" /\ ~AttachDone
  /\ IF Watch[next] \in tables \ watched
     THEN watched' = watched \cup {Watch[next]} /\ next' = next + 1
          /\ UNCHANGED <<main, todo, filling>>
     ELSE UNCHANGED watched /\ Stop
  /\ UNCHANGED <<tables, notifies, faults, old, missed>>

\* Start, attachTriggersToCandlestickTables: a table that is not there is an
\* error, and that is fatal.
AttachNext ==
  /\ main = "attach" /\ ~AttachDone
  /\ IF Watch[next] \in tables
     THEN watched' = watched \cup {Watch[next]} /\ next' = next + 1
          /\ UNCHANGED <<main, todo, filling>>
     ELSE UNCHANGED watched /\ Stop
  /\ UNCHANGED <<tables, notifies, faults, old, missed>>

\* The web server is started.
Serve ==
  /\ main = "attach" /\ AttachDone
  /\ Goto("up")
  /\ UNCHANGED <<dbVars, faults, old, missed>>

\* A crash, or an error main or Start ends the process for: a lost
\* connection, a query of Initialize, of ListTables or of Start that fails.
Crash ==
  /\ Alive
  /\ Fault
  /\ Stop
  /\ UNCHANGED <<dbVars, old, missed>>

-----------------------------------------------------------------------------
Main ==
  \/ QueryTables \/ ExistingDone \/ \E t \in Tables : NotifyExisting(t, FALSE)
  \/ EnsureLog \/ InitializeTrades
  \/ CreateNext \/ CreateRefused \/ CreateTables
  \/ ListTables \/ RegisterIndicators(LineTables \ tables) \/ AttachNext \/ Serve

Next ==
  \/ Launch \/ Crash
  \/ QueryTables \/ QueryError \/ ExistingDone
  \/ \E t \in Tables, failed \in BOOLEAN : NotifyExisting(t, failed)
  \/ ExistingCutShort \/ EnsureLog \/ EnsureLogError \/ InitializeTrades
  \/ CreateNext \/ CreateRefused \/ CreateError \/ CreateTables \/ ListTables
  \/ \E t \in CandleTables : FillTable(t)
  \/ \E made \in SUBSET (LineTables \ tables) : RegisterIndicators(made)
  \/ AttachNext \/ Serve

Spec == Init /\ [][Next]_vars

\* main goes on.
LiveSpec == Spec /\ WF_vars(Main)

-----------------------------------------------------------------------------
(* Properties. *)

\* Whatever failed on the way and was only logged: once the web server runs,
\* the tables the trade manager reads are there, and each table the indicator
\* manager follows is there with its trigger.
UpMeansComplete ==
  main = "up" =>
    /\ {"trades", "trade_triggers", "triggers"} \subseteq tables
    /\ Watchable \subseteq watched

\* "Ensure triggers for existing tables are created": once DBConnect is past
\* its pass, a table that was there when the process started, and that no
\* failed statement left out, notifies, on global_changes unless it is one the
\* indicator manager follows; and what one start has done no other start, no
\* crash and no other routine undoes.
ExistingTablesNotify ==
  Connected => old \ missed \subseteq notifies \cup watched

\* A complete database starts: what earlier attempts left behind never stops
\* a later one.
Complete == ToSet(Created) \cup CandleTables \subseteq tables
CompleteDatabaseStarts ==
  (main = "query" /\ Complete /\ faults = MaxFaults) ~> main = "up"

=============================================================================

-------------------------- MODULE BootstrapProofs --------------------------
(***************************************************************************)
(* TypeOK, UpMeansComplete and ExistingTablesNotify of Bootstrap for any   *)
(* list of tables, any foreign keys between them, any tables the indicator *)
(* manager follows and any number of crashes and failed statements.  The   *)
(* inductive invariant says what each stage of main has behind it, that    *)
(* the fill loop runs only after the pass over existing tables, and which  *)
(* tables that pass has still to do.                                       *)
(***************************************************************************)
EXTENDS Bootstrap, TLAPS

PastTrades == main \in {"create", "list", "indicators", "attach", "up"}
PastCreate == main \in {"list", "indicators", "attach", "up"}

\* The tables main needs are there from the step that needs them on.
Needed ==
  /\ PastTrades => "trades" \in tables
  /\ main = "create" => \A i \in 1 .. next - 1 : Created[i] \in Fatal => Created[i] \in tables
  /\ PastCreate => Fatal \subseteq tables
  /\ main = "attach" => \A i \in 1 .. next - 1 : Watch[i] \in watched
  /\ main = "up" => Watchable \subseteq watched

\* Nothing else makes tables before the pass over existing tables is done,
\* and what that pass has still to do is in todo.
Passed ==
  /\ filling => main \in {"indicators", "attach", "up"}
  /\ main = "query" => old = tables
  /\ main = "existing" => old \ missed \subseteq todo \cup notifies \cup watched
  /\ Connected => old \ missed \subseteq notifies \cup watched

IInv == TypeOK /\ Needed /\ Passed

-----------------------------------------------------------------------------
(* The three parts of the invariant, for each action. *)

LEMMA Lengths == Len(Created) \in Nat /\ Len(Watch) \in Nat
BY BootAssumption

LEMMA InitHolds == Init => IInv
<1> SUFFICES ASSUME Init PROVE IInv
  OBVIOUS
<1>1. TypeOK
  <2>1. tables \subseteq Tables /\ \A t \in tables : References[t] \subseteq tables
    BY DEF Init, Tables
  <2>2. faults \in 0 .. MaxFaults
    BY BootAssumption DEF Init
  <2>3. next \in 1 .. Len(Watch) + 1
    BY Lengths DEF Init
  <2> QED BY <2>1, <2>2, <2>3 DEF Init, TypeOK, Stages
<1>2. Needed /\ Passed
  BY DEF Init, Needed, Passed, PastTrades, PastCreate, Connected
<1> QED BY <1>1, <1>2 DEF IInv

Place == main' \in Stages /\ next' \in 1 .. (IF main' = "create" THEN Len(Created) ELSE Len(Watch)) + 1

LEMMA Stopping ==
  ASSUME Stop
  PROVE  Place /\ todo' = {} /\ filling' = FALSE /\ main' = "down"
<1>1. next' \in 1 .. Len(Watch) + 1
  BY Lengths DEF Stop
<1> QED BY <1>1 DEF Stop, Place, Stages

LEMMA Going ==
  ASSUME NEW stage \in Stages, Goto(stage)
  PROVE  Place /\ todo' = {} /\ filling' = filling /\ main' = stage
<1>1. next' \in 1 .. Len(Watch) + 1 /\ next' \in 1 .. Len(Created) + 1
  BY Lengths DEF Goto
<1> QED BY <1>1 DEF Goto, Place

LEMMA ThisTableNamed ==
  ASSUME TypeOK, main = "create", ~CreateDone
  PROVE  /\ next \in 1 .. Len(Created) /\ next + 1 \in 1 .. Len(Created) + 1
         /\ ThisTable \in ToSet(Created) /\ ThisTable \in Tables
BY Lengths, BootAssumption DEF TypeOK, CreateDone, ThisTable, ToSet, Tables

LEMMA ThisWatchNamed ==
  ASSUME TypeOK, main = "attach", ~AttachDone
  PROVE  /\ next \in 1 .. Len(Watch) /\ next + 1 \in 1 .. Len(Watch) + 1
         /\ Watch[next] \in Watchable
BY Lengths, BootAssumption DEF TypeOK, AttachDone, Watchable, ToSet

LEMMA FaultCounted ==
  ASSUME TypeOK, Fault PROVE faults' \in 0 .. MaxFaults
BY BootAssumption DEF TypeOK, Fault

LEMMA TypesDBConnect ==
  ASSUME TypeOK, NEW t \in Tables, NEW failed \in BOOLEAN,
         \/ Launch \/ QueryTables \/ QueryError \/ NotifyExisting(t, failed)
         \/ ExistingDone \/ ExistingCutShort
  PROVE  TypeOK'
<1>1. CASE Launch
  BY <1>1, Lengths DEF Launch, TypeOK, Alive, Stages, dbVars
<1>2. CASE QueryTables
  BY <1>2, Lengths DEF QueryTables, TypeOK, Stages, dbVars
<1>3. CASE QueryError
  BY <1>3, Lengths, FaultCounted DEF QueryError, TypeOK, Stages, dbVars, Goto
<1>4. CASE NotifyExisting(t, failed)
  <2>1. faults' \in 0 .. MaxFaults
    BY <1>4, FaultCounted DEF NotifyExisting, TypeOK
  <2>2. notifies' \subseteq tables /\ missed' \subseteq tables /\ todo' \subseteq tables
    BY <1>4 DEF NotifyExisting, TypeOK
  <2> QED BY <1>4, <2>1, <2>2 DEF NotifyExisting, TypeOK
<1>5. CASE ExistingDone
  BY <1>5, Lengths DEF ExistingDone, TypeOK, Stages, dbVars, Goto
<1>6. CASE ExistingCutShort
  BY <1>6, Lengths, FaultCounted DEF ExistingCutShort, TypeOK, Stages, dbVars, Goto
<1> QED BY <1>1, <1>2, <1>3, <1>4, <1>5, <1>6

LEMMA TypesLog ==
  ASSUME TypeOK, EnsureLog \/ EnsureLogError
  PROVE  TypeOK'
<1>1. CASE EnsureLog
  <2>1. tables' = tables \cup {Log} /\ References[Log] = {} /\ Log \in Tables
    BY <1>1, BootAssumption DEF EnsureLog, Tables
  <2> QED BY <1>1, <2>1, Lengths DEF EnsureLog, TypeOK, Stages, Goto
<1>2. CASE EnsureLogError
  BY <1>2, Lengths, FaultCounted DEF EnsureLogError, TypeOK, Stages, dbVars, Goto
<1> QED BY <1>1, <1>2

\* Tables are made with those they refer to.
LEMMA TablesMade ==
  ASSUME TypeOK, NEW made \in SUBSET Tables,
         \A t \in made : References[t] \subseteq tables,
         tables' = tables \cup made,
         UNCHANGED <<notifies, watched, old, missed>>,
         faults' \in 0 .. MaxFaults,
         todo' \in {todo, {}}, filling' = filling,
         Place
  PROVE  TypeOK'
BY DEF TypeOK, Place

\* Only the place of main changes.
LEMMA TypesMoved ==
  ASSUME TypeOK, UNCHANGED <<dbVars, old, missed>>,
         faults' \in 0 .. MaxFaults,
         todo' \in {todo, {}}, filling' \in BOOLEAN,
         Place
  PROVE  TypeOK'
BY DEF TypeOK, Place, dbVars

LEMMA TypesMain ==
  ASSUME TypeOK,
         \/ InitializeTrades \/ CreateNext \/ CreateRefused \/ CreateError
         \/ CreateTables \/ ListTables \/ Serve \/ Crash
  PROVE  TypeOK'
<1>1. CASE InitializeTrades
  <2>1. Goto("create") \/ Stop
    BY <1>1 DEF InitializeTrades
  <2>2. Place /\ todo' \in {todo, {}} /\ filling' \in BOOLEAN
    BY <2>1, Going, Stopping DEF TypeOK, Stages
  <2> QED BY <1>1, <2>2, TypesMoved DEF InitializeTrades, TypeOK
<1>2. CASE CreateNext
  <2>1. next + 1 \in 1 .. Len(Created) + 1 /\ ThisTable \in Tables /\ main = "create"
    BY <1>2, ThisTableNamed DEF CreateNext
  <2>2. Place
    BY <1>2, <2>1 DEF CreateNext, Place, Stages
  <2>3. PICK t : t = ThisTable
    OBVIOUS
  <2>4. {t} \in SUBSET Tables /\ \A u \in {t} : References[u] \subseteq tables
    BY <1>2, <2>1, <2>3 DEF CreateNext, Succeeds, TypeOK
  <2>5. tables' = tables \cup {t}
    BY <1>2, <2>3 DEF CreateNext
  <2>6. faults' \in 0 .. MaxFaults
    BY <1>2 DEF CreateNext, TypeOK
  <2>7. UNCHANGED <<notifies, watched, old, missed, todo, filling>>
    BY <1>2 DEF CreateNext
  <2> QED BY <2>2, <2>4, <2>5, <2>6, <2>7, TablesMade
<1>3. CASE CreateRefused \/ CreateError
  <2>1. next + 1 \in 1 .. Len(Created) + 1 /\ main = "create"
    BY <1>3, ThisTableNamed DEF CreateRefused, CreateError
  <2>2. faults' \in 0 .. MaxFaults
    BY <1>3, FaultCounted DEF CreateRefused, CreateError, TypeOK
  <2>3. Stop \/ (next' = next + 1 /\ UNCHANGED <<main, todo, filling>>)
    BY <1>3 DEF CreateRefused, CreateError, Refused
  <2>4. Place /\ todo' \in {todo, {}} /\ filling' \in BOOLEAN
    <3>1. CASE Stop
      BY <3>1, Stopping
    <3>2. CASE next' = next + 1 /\ UNCHANGED <<main, todo, filling>>
      BY <2>1, <3>2 DEF TypeOK, Place, Stages
    <3> QED BY <2>3, <3>1, <3>2
  <2>5. UNCHANGED <<dbVars, old, missed>>
    BY <1>3 DEF CreateRefused, CreateError
  <2> QED BY <2>2, <2>4, <2>5, TypesMoved
<1>4. CASE CreateTables \/ Serve
  <2>1. Goto("list") \/ Goto("up")
    BY <1>4 DEF CreateTables, Serve
  <2>2. Place /\ todo' = {} /\ filling' \in BOOLEAN
    BY <2>1, Going DEF TypeOK, Stages
  <2> QED BY <1>4, <2>2, TypesMoved DEF CreateTables, Serve, TypeOK
<1>5. CASE ListTables
  BY <1>5, Lengths, TypesMoved DEF ListTables, TypeOK, Place, Stages
<1>6. CASE Crash
  <2>1. faults' \in 0 .. MaxFaults
    BY <1>6, FaultCounted DEF Crash
  <2>2. Place /\ todo' = {} /\ filling' = FALSE
    BY <1>6, Stopping DEF Crash
  <2> QED BY <1>6, <2>1, <2>2, TypesMoved DEF Crash
<1> QED BY <1>1, <1>2, <1>3, <1>4, <1>5, <1>6

LEMMA TypesCandles ==
  ASSUME TypeOK,
         \/ \E t \in CandleTables : FillTable(t)
         \/ \E made \in SUBSET (LineTables \ tables) : RegisterIndicators(made)
         \/ AttachNext
  PROVE  TypeOK'
<1>1. ASSUME NEW t \in CandleTables, FillTable(t) PROVE TypeOK'
  <2>1. {t} \in SUBSET Tables /\ References[t] = {}
    BY BootAssumption DEF Tables
  <2>2. Place
    BY <1>1 DEF FillTable, procVars, Place, TypeOK
  <2> QED BY <1>1, <2>1, <2>2, TablesMade DEF FillTable, procVars, TypeOK
<1>2. ASSUME NEW made \in SUBSET (LineTables \ tables), RegisterIndicators(made) PROVE TypeOK'
  <2>1. made \in SUBSET Tables /\ \A t \in made : References[t] = {}
    BY BootAssumption DEF Tables
  <2>2. faults' \in 0 .. MaxFaults
    BY <1>2, FaultCounted DEF RegisterIndicators, TypeOK
  <2>3. Place /\ todo' = {} /\ filling' = filling
    BY <1>2, Going DEF RegisterIndicators, Stages
  <2>4. UNCHANGED <<notifies, watched, old, missed>>
    BY <1>2 DEF RegisterIndicators
  <2>5. tables' = tables \cup made
    BY <1>2 DEF RegisterIndicators
  <2>6. \A t \in made : References[t] \subseteq tables
    BY <2>1
  <2> QED BY <2>1, <2>2, <2>3, <2>4, <2>5, <2>6, TablesMade
<1>3. CASE AttachNext
  <2>1. next + 1 \in 1 .. Len(Watch) + 1 /\ Watch[next] \in Watchable /\ main = "attach"
    BY <1>3, ThisWatchNamed DEF AttachNext
  <2>2. watched' \subseteq tables \cap Watchable
    BY <1>3, <2>1 DEF AttachNext, TypeOK
  <2>3. Stop \/ (next' = next + 1 /\ UNCHANGED <<main, todo, filling>>)
    BY <1>3 DEF AttachNext
  <2>4. Place /\ todo' \subseteq tables /\ filling' \in BOOLEAN
    <3>1. CASE Stop
      BY <3>1, Stopping
    <3>2. CASE next' = next + 1 /\ UNCHANGED <<main, todo, filling>>
      BY <2>1, <3>2 DEF TypeOK, Place, Stages
    <3> QED BY <2>3, <3>1, <3>2
  <2> QED BY <1>3, <2>2, <2>4 DEF AttachNext, TypeOK, Place
<1> QED BY <1>1, <1>2, <1>3

\* Nothing is ever taken away.
LEMMA Monotone ==
  ASSUME TypeOK, [Next]_vars
  PROVE  tables \subseteq tables' /\ notifies \subseteq notifies' /\ watched \subseteq watched'
<1>1. CASE UNCHANGED vars
  BY <1>1 DEF vars, dbVars
<1>2. ASSUME NEW t \in Tables, NEW failed \in BOOLEAN,
             NotifyExisting(t, failed) \/ FillTable(t)
      PROVE  tables \subseteq tables' /\ notifies \subseteq notifies' /\ watched \subseteq watched'
  BY <1>2 DEF NotifyExisting, FillTable
<1>3. ASSUME NEW made \in SUBSET (LineTables \ tables), RegisterIndicators(made)
      PROVE  tables \subseteq tables' /\ notifies \subseteq notifies' /\ watched \subseteq watched'
  BY <1>3 DEF RegisterIndicators
<1>4. CASE \/ Launch \/ Crash \/ QueryTables \/ QueryError \/ ExistingDone \/ ExistingCutShort
           \/ EnsureLog \/ EnsureLogError \/ InitializeTrades \/ CreateNext \/ CreateRefused \/ CreateError
           \/ CreateTables \/ ListTables \/ AttachNext \/ Serve
  BY <1>4 DEF Launch, Crash, QueryTables, QueryError, ExistingDone, ExistingCutShort,
     EnsureLog, EnsureLogError, InitializeTrades, CreateNext, CreateRefused, CreateError, CreateTables, ListTables,
     AttachNext, Serve, dbVars
<1>5. CandleTables \subseteq Tables /\ TRUE \in BOOLEAN
  BY DEF Tables
<1>6. CASE \/ \E t \in Tables, failed \in BOOLEAN : NotifyExisting(t, failed)
           \/ \E t \in CandleTables : FillTable(t)
  BY <1>2, <1>5, <1>6
<1> QED BY <1>1, <1>3, <1>4, <1>6 DEF Next

LEMMA TypesStep == TypeOK /\ [Next]_vars => TypeOK'
<1> SUFFICES ASSUME TypeOK, [Next]_vars PROVE TypeOK'
  OBVIOUS
<1>1. CASE UNCHANGED vars
  BY <1>1 DEF TypeOK, vars, dbVars, procVars
<1>2. PICK t : t \in Tables
  BY DEF Tables
<1> QED BY <1>1, <1>2, TypesDBConnect, TypesLog, TypesMain, TypesCandles DEF Next

\* What main has behind it stays behind it while it stands still.
LEMMA NeededKept ==
  ASSUME Needed, tables \subseteq tables', watched \subseteq watched', UNCHANGED <<main, next>>
  PROVE  Needed'
BY DEF Needed, PastTrades, PastCreate

LEMMA NeededStep == TypeOK /\ Needed /\ [Next]_vars => Needed'
<1> SUFFICES ASSUME TypeOK, Needed, [Next]_vars PROVE Needed'
  OBVIOUS
<1>0. tables \subseteq tables' /\ watched \subseteq watched'
  BY Monotone
<1>1. ASSUME main' \in {"down", "query", "existing", "event", "trades"} PROVE Needed'
  BY <1>1 DEF Needed, PastTrades, PastCreate
<1>2. CASE \/ Launch \/ QueryTables \/ QueryError \/ ExistingDone \/ ExistingCutShort
           \/ EnsureLog \/ EnsureLogError \/ Crash
  BY <1>1, <1>2 DEF Launch, QueryTables, QueryError, ExistingDone, ExistingCutShort,
     EnsureLog, EnsureLogError, Crash, Goto, Stop
<1>3. CASE \/ \E t \in Tables, failed \in BOOLEAN : NotifyExisting(t, failed)
           \/ (\E t \in CandleTables : FillTable(t)) \/ UNCHANGED vars
  BY <1>0, <1>3, NeededKept DEF NotifyExisting, FillTable, vars, procVars
<1>4. CASE InitializeTrades
  <2>1. CASE Goto("create")
    BY <1>4, <2>1 DEF InitializeTrades, Goto, Needed, PastTrades, PastCreate, dbVars, Stop
  <2>2. CASE Stop
    BY <1>1, <2>2 DEF Stop
  <2> QED BY <1>4, <2>1, <2>2 DEF InitializeTrades
<1>5. ASSUME main = "create", ~CreateDone,
             main' = main, next' = next + 1,
             ThisTable \in Fatal => ThisTable \in tables'
      PROVE  Needed'
  <2>1. next \in Nat /\ 1 .. next' - 1 = (1 .. next - 1) \cup {next}
    BY <1>5, ThisTableNamed
  <2>2. \A i \in 1 .. next' - 1 : Created[i] \in Fatal => Created[i] \in tables'
    BY <1>0, <1>5, <2>1 DEF Needed, ThisTable
  <2> QED BY <1>0, <1>5, <2>2 DEF Needed, PastTrades, PastCreate
<1>6. CASE CreateNext
  BY <1>5, <1>6 DEF CreateNext
<1>7. CASE CreateRefused \/ CreateError
  <2>1. CASE ThisTable \in Fatal
    BY <1>1, <1>7, <2>1 DEF CreateRefused, CreateError, Refused, Stop
  <2>2. CASE ThisTable \notin Fatal
    BY <1>5, <1>7, <2>2 DEF CreateRefused, CreateError, Refused
  <2> QED BY <2>1, <2>2
<1>8. CASE CreateTables
  <2>1. \A t \in ToSet(Created) : t \in Fatal => t \in tables
    <3>1. main = "create" /\ next \in 1 .. Len(Created) + 1 /\ next > Len(Created)
      BY <1>8 DEF CreateTables, CreateDone, TypeOK
    <3>2. 1 .. next - 1 = 1 .. Len(Created)
      BY <3>1, Lengths
    <3>3. ToSet(Created) = {Created[i] : i \in 1 .. Len(Created)}
      BY BootAssumption DEF ToSet
    <3> QED BY <3>1, <3>2, <3>3 DEF Needed
  <2>2. Fatal \subseteq tables
    BY <2>1, BootAssumption
  <2>3. main' = "list" /\ main = "create" /\ tables' = tables
    BY <1>8 DEF CreateTables, Goto, dbVars
  <2> QED BY <2>2, <2>3 DEF Needed, PastTrades, PastCreate
<1>9. CASE ListTables
  BY <1>9 DEF ListTables, Needed, PastTrades, PastCreate, dbVars
<1>10. ASSUME NEW made \in SUBSET (LineTables \ tables), RegisterIndicators(made) PROVE Needed'
  <2>1. main' = "attach" /\ main = "indicators" /\ next' = 1
    BY <1>10 DEF RegisterIndicators, Goto
  <2> QED BY <1>0, <2>1 DEF Needed, PastTrades, PastCreate
<1>11. CASE AttachNext
  <2>1. CASE Stop
    BY <1>1, <2>1 DEF Stop
  <2>2. CASE watched' = watched \cup {Watch[next]} /\ next' = next + 1 /\ main' = main
    <3>1. next \in Nat /\ 1 .. next' - 1 = (1 .. next - 1) \cup {next}
      BY <1>11, <2>2, ThisWatchNamed DEF AttachNext
    <3>2. main = "attach"
      BY <1>11 DEF AttachNext
    <3>3. \A i \in 1 .. next' - 1 : Watch[i] \in watched'
      BY <2>2, <3>1, <3>2 DEF Needed
    <3> QED BY <1>0, <2>2, <3>2, <3>3 DEF Needed, PastTrades, PastCreate
  <2> QED BY <1>11, <2>1, <2>2 DEF AttachNext
<1>12. CASE Serve
  <2>1. main = "attach" /\ next \in 1 .. Len(Watch) + 1 /\ next > Len(Watch)
    BY <1>12 DEF Serve, AttachDone, TypeOK
  <2>2. 1 .. next - 1 = 1 .. Len(Watch)
    BY <2>1, Lengths
  <2>3. Watchable = {Watch[i] : i \in 1 .. Len(Watch)}
    BY BootAssumption DEF Watchable, ToSet
  <2>4. Watchable \subseteq watched'
    BY <1>0, <2>1, <2>2, <2>3 DEF Needed
  <2>5. main' = "up"
    BY <1>12 DEF Serve, Goto
  <2> QED BY <1>0, <2>1, <2>4, <2>5 DEF Needed, PastTrades, PastCreate
<1> QED BY <1>2, <1>3, <1>4, <1>6, <1>7, <1>8, <1>9, <1>10, <1>11, <1>12 DEF Next

LEMMA PassedStep == TypeOK /\ Passed /\ [Next]_vars => Passed'
<1> SUFFICES ASSUME TypeOK, Passed, [Next]_vars PROVE Passed'
  OBVIOUS
<1>0. notifies \subseteq notifies' /\ watched \subseteq watched'
  BY Monotone
<1>1. ASSUME Connected, Connected', UNCHANGED <<old, missed>>,
             filling' => main' \in {"indicators", "attach", "up"}
      PROVE  Passed'
  BY <1>0, <1>1 DEF Passed, Connected
<1>2. CASE Launch
  BY <1>2 DEF Launch, Alive, Passed, Connected, dbVars
<1>3. CASE QueryTables
  BY <1>3 DEF QueryTables, Passed, Connected, dbVars
<1>4. CASE QueryError
  BY <1>4 DEF QueryError, Passed, Connected, dbVars, Goto
<1>5. ASSUME NEW t \in Tables, NEW failed \in BOOLEAN, NotifyExisting(t, failed) PROVE Passed'
  <2>1. main' = main /\ main = "existing" /\ old' = old /\ UNCHANGED filling
    BY <1>5 DEF NotifyExisting
  <2>2. old' \ missed' \subseteq todo' \cup notifies' \cup watched'
    BY <1>5 DEF NotifyExisting, Passed
  <2> QED BY <2>1, <2>2 DEF Passed, Connected
<1>6. CASE ExistingDone
  <2>1. old \ missed \subseteq notifies \cup watched
    BY <1>6 DEF ExistingDone, Passed
  <2> QED BY <1>6, <2>1 DEF ExistingDone, Passed, Goto, Connected, dbVars
<1>7. CASE ExistingCutShort \/ EnsureLog \/ EnsureLogError
  <2>1. CASE ExistingCutShort
    <3>1. old \ missed' \subseteq notifies \cup watched
      BY <2>1 DEF ExistingCutShort, Passed
    <3> QED BY <2>1, <3>1 DEF ExistingCutShort, Passed, Goto, Connected, dbVars
  <2>2. CASE EnsureLog \/ EnsureLogError
    BY <1>1, <2>2 DEF EnsureLog, EnsureLogError, Goto, Passed, Connected
  <2> QED BY <1>7, <2>1, <2>2
<1>8. ASSUME Stop, UNCHANGED <<old, missed>> PROVE Passed'
  BY <1>8 DEF Stop, Passed, Connected
<1>9. ASSUME NEW stage \in {"create", "list", "attach", "up"}, Goto(stage), main \in {"trades", "create", "indicators", "attach"},
             filling => stage \in {"attach", "up"}, UNCHANGED <<old, missed>>
      PROVE  Passed'
  BY <1>1, <1>9 DEF Passed, Connected, Goto
<1>10. CASE Crash
  BY <1>8, <1>10 DEF Crash
<1>11. CASE InitializeTrades
  BY <1>8, <1>9, <1>11 DEF InitializeTrades, Passed
<1>12. CASE CreateTables
  BY <1>9, <1>12 DEF CreateTables, Passed
<1>13. CASE Serve
  BY <1>9, <1>13 DEF Serve
<1>14. ASSUME NEW made \in SUBSET (LineTables \ tables), RegisterIndicators(made) PROVE Passed'
  BY <1>9, <1>14 DEF RegisterIndicators
<1>15. ASSUME UNCHANGED <<main, filling, old, missed, todo>>, main \notin {"query"} \/ tables' = tables
       PROVE  Passed'
  BY <1>0, <1>15 DEF Passed, Connected
<1>16. CASE CreateNext
  BY <1>15, <1>16 DEF CreateNext
<1>17. CASE CreateRefused \/ CreateError
  BY <1>8, <1>15, <1>17 DEF CreateRefused, CreateError, Refused
<1>18. CASE ListTables
  <2>1. Connected /\ Connected'
    BY <1>18 DEF ListTables, Connected
  <2> QED BY <1>1, <1>18, <2>1 DEF ListTables
<1>19. CASE AttachNext
  BY <1>8, <1>15, <1>19 DEF AttachNext
<1>20. ASSUME NEW t \in CandleTables, FillTable(t) PROVE Passed'
  BY <1>15, <1>20 DEF FillTable, procVars, Passed
<1>21. CASE UNCHANGED vars
  BY <1>15, <1>21 DEF vars, dbVars, procVars
<1> QED BY <1>2, <1>3, <1>4, <1>5, <1>6, <1>7, <1>10, <1>11, <1>12, <1>13, <1>14, <1>16, <1>17,
           <1>18, <1>19, <1>20, <1>21 DEF Next

LEMMA Invariance == Spec => []IInv
<1>1. IInv /\ [Next]_vars => IInv'
  BY TypesStep, NeededStep, PassedStep DEF IInv
<1> QED BY <1>1, InitHolds, PTL DEF Spec

-----------------------------------------------------------------------------
\* Types of the database and of main, the foreign keys among them.
THEOREM TypeCorrectness == Spec => []TypeOK
<1>1. IInv => TypeOK
  BY DEF IInv
<1> QED BY <1>1, Invariance, PTL

\* A process that serves has the tables it needs and follows all candles.
THEOREM CompleteWhenUp == Spec => []UpMeansComplete
<1>1. IInv => UpMeansComplete
  BY DEF IInv, Needed, PastTrades, PastCreate, Fatal, UpMeansComplete
<1> QED BY <1>1, Invariance, PTL

\* No table the process found at its start stays without a notification.
THEOREM OldTablesNotify == Spec => []ExistingTablesNotify
<1>1. IInv => ExistingTablesNotify
  BY DEF IInv, Passed, ExistingTablesNotify
<1> QED BY <1>1, Invariance, PTL
=============================================================================

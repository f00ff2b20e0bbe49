-------------------------- MODULE CandleStoreProofs --------------------------
(***************************************************************************)
(* For every length of candle, window and chunk: a written window is       *)
(* complete and final, the table has no hole while windows meet, and its   *)
(* rows only ever move forward (CandleLog).  The argument is about the     *)
(* candles fetched so far (Fetching): they are those of the window up to   *)
(* the cursor; about the stored ones (Solid); and about the age of both    *)
(* (Honest): what is fetched is no older than what is stored.              *)
(***************************************************************************)
EXTENDS CandleStore, TLAPS

\* While a window is being fetched it lies in the past, and everything from
\* its start to the cursor has been fetched.
Fetching ==
  at = "fetching" =>
    /\ end \in Times /\ end <= now
    /\ start < end /\ start <= cursor /\ cursor <= end
    /\ \A t \in Times : got[t] > 0 => start <= t /\ t <= end
    /\ start < cursor => \A t \in Starts : start <= t /\ t <= cursor =>
         got[t] > 0 /\ (t + Minutes <= end => got[t] = Closed)

\* From any stored candle to the end of the last window there is no hole.
Solid ==
  /\ last <= now
  /\ at = "fetching" => last <= end
  /\ \A a \in Starts : Stored(a) => a <= last
  /\ ~missed => \A a, t \in Starts : Stored(a) /\ a < t /\ t <= last => Stored(t)

\* Neither the table nor the candles fetched run ahead of the exchange, and
\* what has been fetched is not behind the table.
Honest ==
  /\ \A t \in Times : table[t] <= Traded[t] /\ got[t] <= Traded[t]
  /\ at = "fetching" => \A t \in Times : got[t] > 0 => table[t] <= got[t]

IInv == TypeOK /\ Fetching /\ Solid /\ Honest

\* The products of the constants.
LEMMA Products ==
  /\ MaxCandles * Minutes \in Nat \ {0} /\ CandleLimit * Minutes \in Nat \ {0}
  /\ Window \in Nat \ {0} /\ Minutes \in Nat \ {0}
<1>1. \A a, b \in Nat \ {0} : a * b \in Nat \ {0}
  OBVIOUS
<1> QED BY <1>1, StoreAssumption DEF Window

\* A candle starts at a point of time, and the tables hold numbers.
LEMMA StartTypes ==
  ASSUME NEW t \in Starts
  PROVE  t \in Times /\ t \in Int
<1>1. t \in Times
  BY DEF Starts
<1> QED BY <1>1, StoreAssumption DEF Times

\* The tables of the model hold numbers.
LEMMA TableTypes ==
  ASSUME TypeOK, NEW t \in Times
  PROVE  got[t] \in Int /\ table[t] \in Int
<1>1. got[t] \in Seen /\ table[t] \in Seen
  BY DEF TypeOK
<1> QED BY <1>1 DEF Seen

\* A chunk is not empty and does not go past the window.
LEMMA Chunks ==
  ASSUME cursor \in Int, end \in Int, cursor < end
  PROVE  ChunkEnd \in Int /\ cursor < ChunkEnd /\ ChunkEnd <= end
<1> DEFINE step == MaxCandles * Minutes
<1>1. step \in Nat \ {0}
  BY Products
<1>2. ChunkEnd = end \/ (ChunkEnd = cursor + step /\ ~(cursor + step > end))
  BY DEF ChunkEnd
<1> HIDE DEF step
<1> QED BY <1>1, <1>2

\* What the exchange has of a candle that has started.
LEMMA SoFar ==
  ASSUME now \in Times, NEW t \in Times, t <= now
  PROVE  /\ TradedSoFar(t) \in Seen /\ TradedSoFar(t) > 0
         /\ t + Minutes <= now => TradedSoFar(t) = Closed
<1>1. now \in Int /\ t \in Int /\ Minutes \in Nat \ {0}
  BY Products, StoreAssumption DEF Times
<1>2. CASE now - t >= Minutes
  BY <1>1, <1>2 DEF TradedSoFar, Seen, Closed
<1>3. CASE ~(now - t >= Minutes)
  <2>1. TradedSoFar(t) = now - t + 1
    BY <1>3 DEF TradedSoFar
  <2>2. ~(t + Minutes <= now)
    BY <1>1, <1>3
  <2> QED BY <1>1, <1>3, <2>1, <2>2 DEF Seen, Closed
<1> QED BY <1>2, <1>3

\* What the exchange has of a candle is a number, and nothing before it starts.
LEMMA TradedTypes ==
  ASSUME TypeOK, NEW t \in Times
  PROVE  /\ Traded[t] \in Seen /\ Traded[t] \in Int /\ 0 <= Traded[t]
         /\ t \in Starts /\ t <= now => Traded[t] = TradedSoFar(t)
<1>1. now \in Times /\ 0 \in Seen
  BY StoreAssumption DEF TypeOK, Seen, Closed
<1>2. Traded[t] = IF t \in Starts /\ t <= now THEN TradedSoFar(t) ELSE 0
  BY DEF Traded
<1>3. Traded[t] \in Seen
  BY <1>1, <1>2, SoFar
<1> QED BY <1>2, <1>3 DEF Seen

\* As time passes, what has been traded in a candle becomes more.
LEMMA TradedGrows ==
  ASSUME TypeOK, Tick, NEW t \in Times
  PROVE  Traded[t] <= Traded'[t] /\ Traded'[t] \in Int /\ Traded'[t] <= Closed
<1>1. /\ now \in Int /\ t \in Int /\ Minutes \in Nat \ {0}
      /\ now' = now + 1
  BY Products, StoreAssumption DEF TypeOK, Times, Tick
<1>2. /\ Traded[t] = IF t \in Starts /\ t <= now THEN TradedSoFar(t) ELSE 0
      /\ Traded'[t] = IF t \in Starts /\ t <= now + 1 THEN TradedSoFar(t)' ELSE 0
  BY <1>1 DEF Traded
<1>3. /\ TradedSoFar(t) = IF now - t >= Minutes THEN Closed ELSE now - t + 1
      /\ TradedSoFar(t)' = IF now + 1 - t >= Minutes THEN Closed ELSE now + 1 - t + 1
  BY <1>1 DEF TradedSoFar
<1>4. Closed = Minutes + 1
  BY DEF Closed
<1> QED BY <1>1, <1>2, <1>3, <1>4

\* The invariant holds initially.
LEMMA InitIInv == Init => IInv
<1> SUFFICES ASSUME Init PROVE IInv
  OBVIOUS
<1>1. 0 \in Seen /\ FirstTime \in Times /\ FirstTime \in Nat
  BY StoreAssumption DEF Seen, Closed, Times
<1>2. TypeOK
  <2>1. NoCandles \in [Times -> Seen]
    BY <1>1 DEF NoCandles
  <2>2. 0 \in Int /\ 0 \in Nat /\ FALSE \in BOOLEAN
    OBVIOUS
  <2> QED BY <1>1, <2>1, <2>2 DEF Init, TypeOK
<1>3. Fetching
  BY DEF Init, Fetching
<1>4. Solid
  BY <1>1 DEF Init, Solid, Stored, Starts, NoCandles, Never, Times
<1>5. Honest
  <2>1. \A t \in Times : table[t] = 0 /\ got[t] = 0
    BY DEF Init, NoCandles
  <2>2. \A t \in Times : 0 <= Traded[t]
    BY <1>2, TradedTypes
  <2> QED BY <2>1, <2>2 DEF Honest
<1> QED BY <1>2, <1>3, <1>4, <1>5 DEF IInv

\* Begin opens a window with nothing fetched.
LEMMA BeginIInv == ASSUME IInv, Begin PROVE IInv'
<1>1. now \in Int /\ now \in Times /\ 0 \in Seen /\ Window \in Nat \ {0}
  BY Products, StoreAssumption DEF IInv, TypeOK, Times, Seen, Closed
<1>2. TypeOK'
  BY <1>1 DEF IInv, TypeOK, Begin, NoCandles
<1>3. Fetching'
  BY <1>1 DEF Begin, Fetching, NoCandles
<1>4. Solid'
  BY <1>1 DEF IInv, Begin, Solid, Stored
<1>5. Honest'
  <2>1. Traded' = Traded /\ table' = table /\ got' = NoCandles
    BY DEF Begin, Traded, TradedSoFar
  <2>2. \A t \in Times : table[t] <= Traded[t] /\ 0 <= Traded[t] /\ got'[t] = 0
    BY <2>1, TradedTypes DEF IInv, Honest, NoCandles
  <2> QED BY <2>1, <2>2 DEF Honest
<1> QED BY <1>2, <1>3, <1>4, <1>5 DEF IInv

\* Request extends what has been fetched up to the new cursor.
LEMMA RequestIInv == ASSUME IInv, Request PROVE IInv'
<1>1. /\ TypeOK /\ Fetching /\ Solid /\ at = "fetching" /\ cursor < end
      /\ now \in Int /\ start \in Int /\ end \in Int /\ cursor \in Int
      /\ Minutes \in Nat \ {0}
  BY Products, StoreAssumption DEF IInv, TypeOK, Request, Times
<1>2. ChunkEnd \in Int /\ cursor < ChunkEnd /\ ChunkEnd <= end
  BY <1>1, Chunks
<1>3. /\ cursor' = ChunkEnd /\ got' = Answer(cursor, ChunkEnd)
      /\ UNCHANGED <<now, listed, table, at, wake, start, end, last, missed, faults>>
  BY DEF Request
<1>4. ASSUME NEW t \in Times
      PROVE  /\ got[t] \in Seen
             /\ got'[t] = IF t \in Starts /\ cursor <= t /\ t <= ChunkEnd /\ t <= now
                          THEN TradedSoFar(t) ELSE got[t]
  BY <1>1, <1>3 DEF Answer, TypeOK
<1>5. got' \in [Times -> Seen]
  <2>1. ASSUME NEW t \in Times PROVE got'[t] \in Seen
    BY <1>1, <1>4, SoFar DEF TypeOK
  <2> QED BY <2>1, <1>3 DEF Answer
<1>6. TypeOK'
  BY <1>1, <1>2, <1>3, <1>5 DEF TypeOK
<1>7. ASSUME NEW t \in Times, got'[t] > 0 PROVE start <= t /\ t <= end
  BY <1>1, <1>2, <1>4, <1>7 DEF Fetching, Times
<1>8. ASSUME NEW t \in Starts, start <= t, t <= ChunkEnd
      PROVE  got'[t] > 0 /\ (t + Minutes <= end => got'[t] = Closed)
  <2>1. t \in Times /\ t \in Int
    BY DEF Starts, Times
  <2>2. CASE cursor <= t
    <3>1. t <= now /\ (t + Minutes <= end => t + Minutes <= now)
      BY <1>1, <1>2, <1>8, <2>1 DEF Fetching
    <3>2. got'[t] = TradedSoFar(t)
      BY <1>4, <1>8, <2>1, <2>2, <3>1
    <3> QED BY <1>1, <2>1, <3>1, <3>2, SoFar DEF TypeOK
  <2>3. CASE t < cursor
    <3>1. got'[t] = got[t]
      BY <1>1, <1>4, <2>1, <2>3
    <3> QED BY <1>1, <1>8, <2>1, <2>3, <3>1 DEF Fetching
  <2> QED BY <1>1, <2>1, <2>2, <2>3
<1>9. Fetching'
  BY <1>1, <1>2, <1>3, <1>7, <1>8 DEF Fetching
<1>10. Solid'
  BY <1>1, <1>3 DEF Solid, Stored
<1>11. Honest'
  <2>1. Traded' = Traded /\ table' = table
    BY <1>3 DEF Traded, TradedSoFar
  <2>2. ASSUME NEW t \in Times
        PROVE  /\ table[t] <= Traded[t] /\ got'[t] <= Traded[t]
               /\ got'[t] > 0 => table[t] <= got'[t]
    <3>1. /\ table[t] <= Traded[t] /\ got[t] <= Traded[t]
          /\ got[t] > 0 => table[t] <= got[t]
      BY <1>1 DEF IInv, Honest
    <3>2. CASE t \in Starts /\ cursor <= t /\ t <= ChunkEnd /\ t <= now
      <4>1. got'[t] = Traded[t]
        BY <1>1, <1>4, <3>2, TradedTypes
      <4> QED BY <1>1, <3>1, <4>1, TradedTypes
    <3>3. CASE ~(t \in Starts /\ cursor <= t /\ t <= ChunkEnd /\ t <= now)
      BY <1>4, <3>1, <3>3
    <3> QED BY <3>2, <3>3
  <2> QED BY <2>1, <2>2 DEF Honest
<1> QED BY <1>6, <1>9, <1>10, <1>11 DEF IInv

\* At the end of a window all of it has been fetched.
LEMMA WholeWindow ==
  ASSUME IInv, Write
  PROVE  /\ last' = end /\ end \in Times /\ end <= now /\ last <= end
         /\ \A t \in Times : table'[t] = IF got[t] > 0 THEN got[t] ELSE table[t]
         /\ \A t \in Times : got[t] > 0 => start <= t /\ t <= end
         /\ \A t \in Starts : start <= t /\ t <= end =>
              got[t] > 0 /\ (t + Minutes <= end => got[t] = Closed)
<1>1. /\ at = "fetching" /\ cursor >= end /\ start \in Int /\ end \in Int /\ cursor \in Int
      /\ Fetching /\ Solid
  BY DEF IInv, TypeOK, Write
<1>2. cursor = end /\ start < cursor
  BY <1>1 DEF Fetching
<1> QED BY <1>1, <1>2 DEF Fetching, Solid, Write

\* Write moves rows forward, to what the exchange had.
LEMMA RowsLearn ==
  ASSUME IInv, Write, NEW t \in Times
  PROVE  table[t] <= table'[t] /\ table'[t] <= Traded[t] /\ got[t] <= Traded[t]
<1>1. /\ table[t] <= Traded[t] /\ got[t] <= Traded[t]
      /\ got[t] > 0 => table[t] <= got[t]
  BY DEF IInv, Honest, Write
<1>2. table'[t] = IF got[t] > 0 THEN got[t] ELSE table[t]
  BY WholeWindow
<1>3. got[t] \in Int /\ table[t] \in Int
  BY TableTypes DEF IInv
<1> QED BY <1>1, <1>2, <1>3

\* Write keeps the table solid.
LEMMA WriteIInv == ASSUME IInv, Write PROVE IInv'
<1>1. TypeOK'
  <2>1. \A t \in Times : got[t] \in Seen /\ table[t] \in Seen
    BY DEF IInv, TypeOK
  <2>2. table' \in [Times -> Seen]
    BY <2>1 DEF Write
  <2>3. now + 1 \in Nat /\ end \in Times
    BY WholeWindow, StoreAssumption DEF IInv, TypeOK, Times
  <2> QED BY <2>2, <2>3 DEF IInv, TypeOK, Write, Sleep, loopVars
<1>2. Fetching'
  BY DEF Write, Sleep, Fetching
<1>3. Solid'
  <2>1. /\ last \in Int /\ start \in Int /\ end \in Int /\ now \in Int /\ last' = end
        /\ now' = now /\ at' = "asleep"
    BY StoreAssumption DEF IInv, TypeOK, Write, Sleep, Times, Never
  <2>2. ASSUME NEW a \in Starts, Stored(a)' PROVE a <= end
    <3>1. a \in Times /\ a \in Int /\ got[a] \in Int /\ table[a] \in Int
      BY StartTypes, TableTypes DEF IInv
    <3>2. got[a] > 0 \/ Stored(a)
      BY <2>2, <3>1, WholeWindow DEF Stored
    <3> QED BY <2>1, <3>1, <3>2, WholeWindow DEF IInv, Solid
  <2>3. ASSUME ~missed', NEW a \in Starts, NEW t \in Starts,
               Stored(a)', a < t, t <= end
        PROVE  Stored(t)'
    <3>1. /\ a \in Times /\ a \in Int /\ t \in Times /\ t \in Int
          /\ got[t] \in Int /\ table[t] \in Int /\ got[a] \in Int /\ table[a] \in Int
      BY StartTypes, TableTypes DEF IInv
    <3>2. CASE got[t] > 0
      BY <3>1, <3>2, WholeWindow DEF Stored
    <3>3. CASE ~(got[t] > 0)
      <4>1. t < start
        BY <2>1, <2>3, <3>1, <3>3, WholeWindow
      <4>2. ~(got[a] > 0)
        BY <2>1, <2>3, <3>1, <4>1, WholeWindow
      <4>3. Stored(a)
        BY <2>3, <3>1, <4>2, WholeWindow DEF Stored
      <4>4. last # Never
        BY <3>1, <4>3, StoreAssumption DEF IInv, Solid, Never, Times
      <4>5. ~missed /\ ~(start > last)
        BY <2>3, <4>4 DEF Write
      <4>6. Stored(t)
        BY <2>1, <2>3, <3>1, <4>1, <4>3, <4>5 DEF IInv, Solid
      <4> QED BY <3>1, <3>3, <4>6, WholeWindow DEF Stored
    <3> QED BY <3>2, <3>3
  <2> QED BY <2>1, <2>2, <2>3, WholeWindow DEF Solid
<1>4. Honest'
  <2>1. Traded' = Traded /\ got' = got /\ at' = "asleep"
    BY DEF Write, Sleep, loopVars, Traded, TradedSoFar
  <2> QED BY <2>1, RowsLearn DEF Honest
<1> QED BY <1>1, <1>2, <1>3, <1>4 DEF IInv

\* The other steps leave the window and the table alone, or end the round.
LEMMA OtherIInv ==
  ASSUME IInv, Tick \/ AddToWatchlist \/ Failure \/ Crash
  PROVE  IInv'
<1>1. now \in Times /\ now \in Int /\ wake \in Nat /\ end \in Int /\ last \in Int
  BY StoreAssumption DEF IInv, TypeOK, Times, Never
<1>2. CASE Tick
  <2>1. now' = now + 1 /\ now' \in Times
    BY <1>1, <1>2, StoreAssumption DEF Tick, Times
  <2>2. TypeOK'
    BY <1>2, <2>1 DEF IInv, TypeOK, Tick, loopVars
  <2>3. Fetching'
    BY <1>1, <1>2, <2>1, StoreAssumption DEF IInv, TypeOK, Fetching, Tick, loopVars, Times
  <2>4. Solid'
    BY <1>1, <1>2, <2>1 DEF IInv, Solid, Stored, Tick, loopVars
  <2>5. Honest'
    <3>1. table' = table /\ got' = got /\ at' = at
      BY <1>2 DEF Tick, loopVars
    <3>2. ASSUME NEW t \in Times PROVE table[t] <= Traded'[t] /\ got[t] <= Traded'[t]
      <4>1. table[t] <= Traded[t] /\ got[t] <= Traded[t]
        BY DEF IInv, Honest
      <4>2. got[t] \in Int /\ table[t] \in Int /\ Traded[t] \in Int
        BY TableTypes, TradedTypes DEF IInv
      <4>3. Traded[t] <= Traded'[t] /\ Traded'[t] \in Int
        BY <1>2, TradedGrows DEF IInv
      <4> QED BY <4>1, <4>2, <4>3
    <3> QED BY <3>1, <3>2 DEF IInv, Honest
  <2> QED BY <2>2, <2>3, <2>4, <2>5 DEF IInv
<1>3. CASE AddToWatchlist
  BY <1>1, <1>3 DEF IInv, TypeOK, Fetching, Solid, Stored, Honest, Traded, TradedSoFar,
                    AddToWatchlist, loopVars
<1>4. CASE Failure \/ Crash
  <2>1. /\ at' = "asleep" /\ wake' \in Nat /\ faults' \in Nat
        /\ UNCHANGED <<now, listed, table, loopVars, last, missed>>
    BY <1>1, <1>4 DEF IInv, TypeOK, Failure, Crash, Fault, Sleep, Times
  <2> QED BY <2>1 DEF IInv, TypeOK, Fetching, Solid, Stored, Honest, Traded, TradedSoFar,
                      loopVars
<1> QED BY <1>2, <1>3, <1>4

\* Every step keeps the invariant.
LEMMA NextIInv == IInv /\ [Next]_vars => IInv'
<1> SUFFICES ASSUME IInv, [Next]_vars PROVE IInv'
  OBVIOUS
<1>1. CASE UNCHANGED vars
  BY <1>1 DEF IInv, TypeOK, Fetching, Solid, Stored, Honest, Traded, TradedSoFar,
              vars, loopVars
<1> QED BY <1>1, BeginIInv, RequestIInv, WriteIInv, OtherIInv DEF Next

\* The invariant holds throughout.
LEMMA Invariance == Spec => []IInv
BY InitIInv, NextIInv, PTL DEF Spec

\* Every variable of the fill loop keeps its type.
THEOREM TypeCorrectness == Spec => []TypeOK
<1>1. IInv => TypeOK
  BY DEF IInv
<1> QED BY <1>1, Invariance, PTL

\* The candle table has no hole while no outage is longer than the window.
THEOREM NoHoles == Spec => []NoGaps
<1>1. IInv => NoGaps
  <2> SUFFICES ASSUME IInv, ~missed, NEW a \in Starts, NEW b \in Starts,
                      Stored(a), Stored(b), NEW t \in Starts, a < t, t < b
               PROVE  Stored(t)
    BY DEF NoGaps
  <2>1. a \in Int /\ b \in Int /\ t \in Int /\ last \in Int
    BY StoreAssumption DEF IInv, TypeOK, Starts, Times, Never
  <2> QED BY <2>1 DEF IInv, Solid
<1> QED BY <1>1, Invariance, PTL

\* A written window holds the final state of every candle closed before it
\* was asked for.
THEOREM FinalCandles == Spec => ClosedCandlesBecomeFinal
<1> DEFINE Final == \A t \in Starts : start <= t /\ t + Minutes <= end => table'[t] = Closed
<1>1. ASSUME IInv, [Next]_vars PROVE [last' # last => Final]_vars
  <2>1. CASE Write
    <3>1. ASSUME NEW t \in Starts, start <= t, t + Minutes <= end
          PROVE  table'[t] = Closed
      <4>1. t \in Times /\ t \in Int /\ Minutes \in Nat \ {0} /\ end \in Int
        BY <1>1, Products, StartTypes DEF IInv, TypeOK
      <4>2. t <= end
        BY <3>1, <4>1
      <4> QED BY <1>1, <2>1, <3>1, <4>1, <4>2, WholeWindow
    <3> QED BY <3>1
  <2>2. CASE ~Write
    <3>1. last' = last
      BY <1>1, <2>2 DEF Next, Tick, AddToWatchlist, Begin, Request, Failure, Crash, vars
    <3> QED BY <3>1
  <2> QED BY <2>1, <2>2
<1> QED BY <1>1, Invariance, PTL DEF Spec, ClosedCandlesBecomeFinal

\* A step of the fill loop or of time is one of the log, or none.
LEMMA LogStep ==
  ASSUME IInv, [Next]_vars
  PROVE  [Log!Trade \/ Log!Learn]_(Log!vars)
<1>1. CASE Tick
  <2>1. table' = table
    BY <1>1 DEF Tick
  <2>2. \A t \in Times : Traded[t] <= Traded'[t] /\ Traded'[t] <= Closed
    BY <1>1, TradedGrows DEF IInv
  <2> QED BY <2>1, <2>2 DEF Log!Trade
<1>2. CASE Write
  <2>1. Traded' = Traded
    BY <1>2 DEF Write, Traded, TradedSoFar
  <2> QED BY <1>2, <2>1, RowsLearn DEF Log!Learn
<1>3. CASE ~Tick /\ ~Write
  <2>1. now' = now /\ table' = table
    BY <1>3 DEF Next, AddToWatchlist, Begin, Request, Failure, Crash, vars
  <2>2. Traded' = Traded
    BY <2>1 DEF Traded, TradedSoFar
  <2> QED BY <2>1, <2>2 DEF Log!vars
<1> QED BY <1>1, <1>2, <1>3

\* Every behaviour of the candle table is a behaviour of the log: no row is
\* lost, returns to an earlier state or runs ahead of the exchange.
THEOREM LogIsImplemented == Spec => ImplementsLog
<1>1. Init => Log!Init
  <2> SUFFICES ASSUME Init PROVE Log!Init
    OBVIOUS
  <2>1. TypeOK
    BY InitIInv DEF IInv
  <2>2. \A t \in Times : Traded[t] \in 0 .. Closed
    BY <2>1, TradedTypes DEF Seen
  <2>3. Traded \in [Times -> 0 .. Closed]
    BY <2>2 DEF Traded
  <2> QED BY <2>3 DEF Log!Init, Init, NoCandles
<1> QED BY <1>1, LogStep, Invariance, PTL DEF Spec, ImplementsLog, Log!Spec
=============================================================================

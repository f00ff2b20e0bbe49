----------------------------- MODULE CandleStore -----------------------------
(***************************************************************************)
(* The candle table of one product and timeframe: the fill loop of main.go *)
(* calls Fetch_And_Store_Candles (api/api.go) once a minute, which asks    *)
(* the exchange for a window of time, in chunks if it is long              *)
(* (FetchCandles, model/coinbase.go), and writes what it got in one        *)
(* transaction (Write_Candles, db/db.go).  The exchange and the clock go   *)
(* on meanwhile.                                                           *)
(*                                                                         *)
(* Time is in minutes.  A candle is the minute it starts at; what it holds *)
(* is how much of it had been traded when the exchange was asked: 0 for no *)
(* candle, Minutes + 1 for a closed one.                                   *)
(***************************************************************************)
EXTENDS Integers

CONSTANTS
  Minutes,      \* of a candle: timeframe.Minutes
  CandleLimit,  \* candles of a window: exchange.CandleLimit
  MaxCandles,   \* candles of one request: maxCandles
  ThirtyDays,   \* the long window
  Full,         \* the argument full
  FirstTime,    \* when the process starts
  MaxTime,      \* bound: end of time
  MaxFaults     \* bound: crashes and failed calls

ASSUME StoreAssumption ==
  /\ Minutes \in Nat \ {0} /\ CandleLimit \in Nat \ {0} /\ MaxCandles \in Nat \ {0}
  /\ ThirtyDays \in Nat \ {0} /\ Full \in BOOLEAN
  /\ FirstTime \in Nat /\ MaxTime \in Nat /\ MaxFaults \in Nat
  /\ FirstTime <= MaxTime

Times  == 0 .. MaxTime
Starts == {t \in Times : t % Minutes = 0}
Closed == Minutes + 1
Seen   == 0 .. Closed

VARIABLES
  now,
  listed,   \* when the product was put on the watchlist, or Never
  table,    \* the candle table
  at,       \* the fill loop: "asleep", "fetching"
  wake,     \* when it wakes up
  start, end, cursor,  \* the window, and how far FetchCandles is
  got,      \* the candles fetched so far
  last,     \* ghost: end of the window written last, or Never
  missed,   \* ghost: a window began after the one written before it had ended
  faults

Never == -1
loopVars == <<start, end, cursor, got>>
vars == <<now, listed, table, at, wake, loopVars, last, missed, faults>>

TypeOK ==
  /\ now \in Times
  /\ listed \in Times \cup {Never}
  /\ table \in [Times -> Seen]
  /\ at \in {"asleep", "fetching"}
  /\ wake \in Nat
  /\ start \in Int /\ end \in Int /\ cursor \in Int
  /\ got \in [Times -> Seen]
  /\ last \in Times \cup {Never}
  /\ missed \in BOOLEAN
  /\ faults \in Nat

NoCandles == [t \in Times |-> 0]

Init ==
  /\ now = FirstTime
  /\ listed = Never
  /\ table = NoCandles
  /\ at = "asleep" /\ wake = FirstTime
  /\ start = 0 /\ end = 0 /\ cursor = 0 /\ got = NoCandles
  /\ last = Never /\ missed = FALSE
  /\ faults = 0

Tick ==
  /\ now < MaxTime
  /\ now' = now + 1
  /\ UNCHANGED <<listed, table, at, wake, loopVars, last, missed, faults>>

\* addToWatchlistHandler and Write_Watchlist: no candle is fetched for it.
AddToWatchlist ==
  /\ listed = Never
  /\ listed' = now
  /\ UNCHANGED <<now, table, at, wake, loopVars, last, missed, faults>>

-----------------------------------------------------------------------------
Window == IF Full THEN ThirtyDays ELSE CandleLimit * Minutes

\* Fetch_And_Store_Candles: the window ends now.
Begin ==
  /\ at = "asleep" /\ now >= wake /\ listed # Never
  /\ at' = "fetching"
  /\ end' = now /\ start' = now - Window /\ cursor' = now - Window
  /\ got' = NoCandles
  /\ UNCHANGED <<now, listed, table, wake, last, missed, faults>>

\* FetchCandles: one request if the window has no more than maxCandles.
ChunkEnd ==
  IF (end - start) \div Minutes <= MaxCandles \/ cursor + MaxCandles * Minutes > end
  THEN end ELSE cursor + MaxCandles * Minutes

\* What the exchange answers: the candles that start from one end of the
\* chunk to the other, both included, as they are now.
TradedUncapped(t) == now - t + 1  \* mutant: a candle never closes
TradedSoFar(t) == IF now - t >= Minutes THEN Closed ELSE now - t + 1
Answer(from, to) ==
  [t \in Times |-> IF t \in Starts /\ from <= t /\ t <= to /\ t <= now
                   THEN TradedSoFar(t) ELSE got[t]]

\* Mutant: the next chunk starts one candle after the end of this one.
RequestSkipping ==
  /\ at = "fetching" /\ cursor < end
  /\ got' = Answer(cursor, ChunkEnd)
  /\ cursor' = IF ChunkEnd = end THEN end ELSE ChunkEnd + Minutes
  /\ UNCHANGED <<now, listed, table, at, wake, start, end, last, missed, faults>>

Request ==
  /\ at = "fetching" /\ cursor < end
  /\ got' = Answer(cursor, ChunkEnd)
  /\ cursor' = ChunkEnd
  /\ UNCHANGED <<now, listed, table, at, wake, start, end, last, missed, faults>>

Fault == faults < MaxFaults /\ faults' = faults + 1
Sleep(t) == at' = "asleep" /\ wake' = t

\* A request fails and what earlier chunks brought is dropped; or the
\* transaction fails and is rolled back.
Failure ==
  /\ at = "fetching" /\ Fault /\ Sleep(now + 1)
  /\ UNCHANGED <<now, listed, table, loopVars, last, missed>>

\* Mutant: rows that exist are left alone.
WriteKeepingRows ==
  /\ at = "fetching" /\ cursor >= end
  /\ table' = [t \in Times |-> IF table[t] = 0 THEN got[t] ELSE table[t]]
  /\ last' = end
  /\ missed' = (missed \/ (last # Never /\ start > last))
  /\ Sleep(now + 1)
  /\ UNCHANGED <<now, listed, loopVars, faults>>

\* Mutant: the rows are deleted and inserted anew.
WriteReplacing ==
  /\ at = "fetching" /\ cursor >= end
  /\ table' = got
  /\ last' = end
  /\ missed' = (missed \/ (last # Never /\ start > last))
  /\ Sleep(now + 1)
  /\ UNCHANGED <<now, listed, loopVars, faults>>

\* Write_Candles: new candles are inserted, those that differ updated.
Write ==
  /\ at = "fetching" /\ cursor >= end
  /\ table' = [t \in Times |-> IF got[t] > 0 THEN got[t] ELSE table[t]]
  /\ last' = end
  /\ missed' = (missed \/ (last # Never /\ start > last))
  /\ Sleep(now + 1)
  /\ UNCHANGED <<now, listed, loopVars, faults>>

\* The process dies and is started again: the loop begins at once.
Crash ==
  /\ Fault /\ Sleep(now)
  /\ UNCHANGED <<now, listed, table, loopVars, last, missed>>

Next == Tick \/ AddToWatchlist \/ Begin \/ Request \/ Failure \/ Write \/ Crash

Spec == Init /\ [][Next]_vars

\* Time passes and the fill loop runs on.
LiveSpec == Spec /\ WF_vars(Tick) /\ WF_vars(Begin \/ Request \/ Write)

-----------------------------------------------------------------------------
(* Properties. *)

\* Write_Candles brings every candle of the window that was closed when the
\* round began to its final state: chunks leave nothing out, and a row
\* stored while its candle was open does not stay as it was.
ClosedCandlesBecomeFinal ==
  [][last' # last =>
       \A t \in Starts : start <= t /\ t + Minutes <= end => table'[t] = Closed]_vars

Stored(t) == table[t] > 0

\* The table has no hole as long as each window reaches back to the end of
\* the one written before it, whatever failed in between.
NoGaps ==
  ~missed => \A a, b \in Starts : Stored(a) /\ Stored(b) =>
               \A t \in Starts : a < t /\ t < b => Stored(t)

\* What the exchange has of each candle.
Traded == [t \in Times |-> IF t \in Starts /\ t <= now THEN TradedSoFar(t) ELSE 0]

\* What the readers of the table are promised, as a specification of its own.
Log == INSTANCE CandleLog WITH Most <- Closed, traded <- Traded, rows <- table

\* Write_Candles overwrites the row that is there without asking which of
\* the two is newer, with answers that may be minutes old.  Still no row is
\* lost, goes back or runs ahead of the exchange, whatever chunks fail,
\* rounds are cut short or windows overlap.
ImplementsLog == Log!Spec
=============================================================================

------------------------------ MODULE Trendlines ------------------------------
(***************************************************************************)
(* Trendlines of one candle table (indicators/trendlines/trendlines.go):   *)
(* Start, called once by RegisterIndicator whenever the process starts,    *)
(* fills an empty trendlines table.  MakeTrendlines cuts the candles into  *)
(* rising and falling segments, one candle per step here, and the segments *)
(* it returns are inserted one statement at a time.                        *)
(*                                                                         *)
(* A candle is its high, low and close; a time is the candle's place in    *)
(* the table.  TrendStart, which nothing reads, is left out, and so is     *)
(* `counter': it is reset wherever it is tested, and counter >= 0 is true. *)
(* What the loop computed stays readable after Start has returned.         *)
(***************************************************************************)
EXTENDS Integers, Sequences

CONSTANTS
  Candles,     \* the shapes a candle may have
  MaxCandles,  \* bound: rows of the candle table
  MaxFaults    \* bound: crashes and failed statements

ASSUME CandleAssumption ==
  \A c \in Candles : /\ c \in [high : Int, low : Int, close : Int]
                     /\ c.low <= c.close /\ c.close <= c.high

Points     == [time : Nat, point : Int, inv : Int]
Directions == {"up", "down"}
Statuses   == {"current", "done"}
Lines      == [start : Points, end : Points, direction : Directions, status : Statuses]

VARIABLES
  candles,   \* the candle table, in the order of its timestamps
  at,        \* where Start is: "down", "scan", "insert", "returned"
  fetched,   \* fetchHistoricalCandles
  i,         \* MakeTrendlines: candles done
  lines,     \* MakeTrendlines: trendlines
  current,   \* MakeTrendlines: the segment under way
  todo,      \* segments still to insert
  rows,      \* the trendlines table
  refills,   \* ghost: where in rows a pass began whose count had failed
  faults

scanVars == <<fetched, i, lines, current>>
vars == <<candles, at, scanVars, todo, rows, refills, faults>>

Point(time, point, inv) == [time |-> time, point |-> point, inv |-> inv]
Line(start, end, direction) ==
  [start |-> start, end |-> end, direction |-> direction, status |-> "current"]

\* The segment before the first candle is looked at: up, from its low to its
\* high, with the close as the level that breaks it.
FirstLine(c) == Line(Point(1, c.low, c.close), Point(1, c.high, c.close), "up")

TypeOK ==
  /\ candles \in Seq(Candles)
  /\ at \in {"down", "scan", "insert", "returned"}
  /\ fetched \in Seq(Candles)
  /\ i \in Nat
  /\ lines \in Seq(Lines)
  /\ current \in Lines
  /\ todo \in Seq(Lines)
  /\ rows \in Seq(Lines)
  /\ refills \subseteq Nat
  /\ faults \in Nat

NoLine == FirstLine([high |-> 0, low |-> 0, close |-> 0])

Init ==
  /\ candles = << >>
  /\ at = "down"
  /\ fetched = << >> /\ i = 0 /\ lines = << >> /\ current = NoLine
  /\ todo = << >> /\ rows = << >> /\ refills = {}
  /\ faults = 0

Fault == faults < MaxFaults /\ faults' = faults + 1

\* Write_Candles adds a candle.
NewCandle(c) ==
  /\ Len(candles) < MaxCandles
  /\ candles' = Append(candles, c)
  /\ UNCHANGED <<at, scanVars, todo, rows, refills, faults>>

Generate ==
  /\ candles # << >>
  /\ at' = "scan"
  /\ fetched' = candles /\ i' = 0 /\ lines' = << >>
  /\ current' = FirstLine(candles[1])

\* Mutant: a table that has rows is filled again.
StartAgain ==
  /\ at = "down"
  /\ Generate
  /\ UNCHANGED <<candles, todo, rows, refills, faults>>

\* Start up to the loop of MakeTrendlines.  Only a table with no rows at all
\* is filled; with no candles either Start returns an error, which is logged.
\* A count that fails is logged and taken for 0; the other queries end Start.
Start ==
  /\ at = "down"
  /\ \/ rows = << >> /\ Generate /\ UNCHANGED <<refills, faults>>
     \/ Generate /\ refills' = refills \cup {Len(rows) + 1} /\ Fault
     \/ /\ rows # << >> \/ candles = << >>
        /\ at' = "returned" /\ UNCHANGED <<scanVars, refills, faults>>
     \/ at' = "returned" /\ UNCHANGED <<scanVars, refills>> /\ Fault
  /\ UNCHANGED <<candles, todo, rows>>

-----------------------------------------------------------------------------
(* One turn of the loop of MakeTrendlines, for candle k with value c. *)

HigherHigh(k, c) == k > 1 /\ c.high > fetched[k - 1].high
LowerLow(k, c)   == k > 1 /\ c.low < fetched[k - 1].low

Rises(c)     == current.direction = "up" /\ c.high > current.end.point
TurnsUp(k, c) ==
  current.direction = "down" /\ (c.high > current.end.inv \/ HigherHigh(k, c))
TurnsDown(k, c) ==
  /\ current.direction = "up" /\ ~Rises(c)
  /\ c.low < current.end.inv \/ LowerLow(k, c)
Falls(k, c) ==
  current.direction = "down" /\ ~TurnsUp(k, c) /\ c.low < current.end.point

Trough(k, c) == Point(k, c.low, c.high)
Peak(k, c)   == Point(k, c.high, c.low)  \* mutant: Trough

Extend(end) ==
  /\ current' = [current EXCEPT !.end = end]
  /\ UNCHANGED lines

\* Mutant: the new segment keeps the old direction.
TurnNoSwitch(end, direction) ==
  /\ lines' = Append(lines, [current EXCEPT !.status = "done"])
  /\ current' = Line(current.end, end, current.direction)

\* Mutant: a status no query asks for.
TurnFinished(end, direction) ==
  /\ lines' = Append(lines, [current EXCEPT !.status = "finished"])
  /\ current' = Line(current.end, end, direction)

Turn(end, direction) ==
  /\ lines' = Append(lines, [current EXCEPT !.status = "done"])
  /\ current' = Line(current.end, end, direction)

Step(k, c) ==
  \/ Rises(c) /\ Extend(Peak(k, c))
  \/ TurnsUp(k, c) /\ Turn(Peak(k, c), "up")
  \/ TurnsDown(k, c) /\ Turn(Trough(k, c), "down")
  \/ Falls(k, c) /\ Extend(Trough(k, c))
  \/ /\ ~Rises(c) /\ ~TurnsUp(k, c) /\ ~TurnsDown(k, c) /\ ~Falls(k, c)
     /\ UNCHANGED <<lines, current>>

Scan ==
  /\ at = "scan" /\ i < Len(fetched)
  /\ i' = i + 1
  /\ Step(i + 1, fetched[i + 1])
  /\ UNCHANGED <<candles, at, fetched, todo, rows, refills, faults>>

-----------------------------------------------------------------------------
\* MakeTrendlines returns: the segment under way is not among its results.
Scanned ==
  /\ at = "scan" /\ i = Len(fetched)
  /\ at' = "insert"
  /\ todo' = lines
  /\ UNCHANGED <<candles, scanVars, rows, refills, faults>>

Insert ==
  /\ at = "insert" /\ todo # << >>
  /\ rows' = Append(rows, Head(todo))
  /\ todo' = Tail(todo)
  /\ UNCHANGED <<candles, at, scanVars, refills, faults>>

\* The error of insertTrendline is dropped by its caller.
InsertError ==
  /\ at = "insert" /\ todo # << >>
  /\ Fault
  /\ todo' = Tail(todo)
  /\ UNCHANGED <<candles, at, scanVars, rows, refills>>

\* "wrote trends to db table"; getCurrentTrendline finds no current row.
Return ==
  /\ at = "insert" /\ todo = << >>
  /\ at' = "returned"
  /\ UNCHANGED <<candles, scanVars, todo, rows, refills, faults>>

Crash ==
  /\ Fault
  /\ at' = "down"
  /\ todo' = << >>
  /\ UNCHANGED <<candles, scanVars, rows, refills>>

Next ==
  \/ \E c \in Candles : NewCandle(c)
  \/ Start \/ Scan \/ Scanned \/ Insert \/ InsertError \/ Return \/ Crash

Spec == Init /\ [][Next]_vars

-----------------------------------------------------------------------------
(* Properties. *)

\* Each segment starts at the very point where the one before it ends.
SegmentsChain ==
  /\ \A k \in 1 .. Len(lines) - 1 : lines[k + 1].start = lines[k].end
  /\ lines # << >> => current.start = lines[Len(lines)].end

\* Rising and falling segments take turns.
DirectionsAlternate ==
  /\ \A k \in 1 .. Len(lines) - 1 : lines[k + 1].direction # lines[k].direction
  /\ lines # << >> => current.direction # lines[Len(lines)].direction

\* MakeTrendlines cuts the candles into one unbroken zigzag.
OneZigzag == SegmentsChain /\ DirectionsAlternate

GoesItsWay(l) ==
  IF l.direction = "up" THEN l.start.point <= l.end.point
                        ELSE l.start.point > l.end.point

\* A segment goes the way it says, although a turn is decided by comparison
\* with the candle before, or with the other end of the candle at the turning
\* point, never with the turning point itself.
SegmentsGoTheirWay ==
  /\ GoesItsWay(current)
  /\ \A k \in 1 .. Len(lines) : GoesItsWay(lines[k])

\* A pass whose count had failed began between the rows k and l.
Parted(k, l) == \E p \in refills : k < p /\ p <= l

\* Rows of the table overlap in time only across the beginning of a pass that
\* should not have been, as it took a failed count for an empty table: no
\* crash, no failed insert and no part left by an earlier process brings that
\* about by itself.
RowsDoNotOverlap ==
  \A k, l \in 1 .. Len(rows) :
    k < l => rows[k].end.time <= rows[l].start.time \/ Parted(k, l)

=============================================================================

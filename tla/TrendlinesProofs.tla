--------------------------- MODULE TrendlinesProofs ---------------------------
(***************************************************************************)
(* MakeTrendlines cuts any sequence of candles into an unbroken zigzag.    *)
(* That a segment goes its way is not inductive: a turn is decided by the  *)
(* candle before and by the far end of the turning candle, so the proof    *)
(* carries (Levels) where these two lie relative to the turning point.     *)
(* That rows overlap only across the beginning of a pass whose count had   *)
(* failed rests on when each segment ends (InOrder) and on what separates  *)
(* a pass from the rows it found (Written).                                *)
(***************************************************************************)
EXTENDS Trendlines, SequenceTheorems, TLAPS

\* The last candle looked at, and the level that breaks the segment, lie on
\* the near side of the segment's end.
Levels ==
  /\ i \in 0 .. Len(fetched)
  /\ current.direction = "up" =>
       /\ current.end.inv <= current.end.point
       /\ i > 0 => fetched[i].high <= current.end.point
  /\ current.direction = "down" =>
       /\ current.end.inv >= current.end.point
       /\ i > 0 => fetched[i].low >= current.end.point

Zigzag == SegmentsChain /\ DirectionsAlternate /\ SegmentsGoTheirWay

\* No segment of s starts before an earlier one has ended.
Apart(s) == \A k, l \in 1 .. Len(s) : k < l => s[k].end.time <= s[l].start.time

\* The segments found are apart, the one under way comes after them all and
\* does not end beyond the next candle.
InOrder ==
  /\ Apart(lines)
  /\ \A k \in 1 .. Len(lines) : lines[k].end.time <= current.start.time
  /\ current.start.time <= current.end.time
  /\ current.end.time <= i + 1

\* A row is apart from what is still to be inserted, or parted from it, since
\* the pass began after it; a pass that fills a table with rows has parted all.
Written ==
  /\ RowsDoNotOverlap
  /\ Apart(todo)
  /\ \A k \in 1 .. Len(rows), l \in 1 .. Len(todo) :
       rows[k].end.time <= todo[l].start.time \/ Parted(k, Len(rows) + 1)
  /\ at = "scan" => \A k \in 1 .. Len(rows) : Parted(k, Len(rows) + 1)
  /\ at # "insert" => todo = << >>

IInv == TypeOK /\ Levels /\ Zigzag /\ InOrder /\ Written

\* A candle has integer prices and its low is not above its high.
LEMMA CandlePrices ==
  ASSUME NEW c \in Candles
  PROVE  /\ c.high \in Int /\ c.low \in Int /\ c.close \in Int
         /\ c.low <= c.close /\ c.close <= c.high /\ c.low <= c.high
<1>1. c \in [high : Int, low : Int, close : Int] /\ c.low <= c.close /\ c.close <= c.high
  BY CandleAssumption
<1> QED BY <1>1

\* The segment MakeTrendlines starts with is well formed.
LEMMA FirstLineType ==
  ASSUME NEW c \in Candles
  PROVE  FirstLine(c) \in Lines
BY CandlePrices DEF FirstLine, Line, Point, Lines, Points, Directions, Statuses

\* An extended segment is well formed.
LEMMA ExtendType ==
  ASSUME current \in Lines, NEW end \in Points, Extend(end)
  PROVE  current' \in Lines
BY DEF Extend, Lines

\* A turn keeps everything well formed.
LEMMA TurnType ==
  ASSUME current \in Lines, lines \in Seq(Lines),
         NEW end \in Points, NEW direction \in Directions, Turn(end, direction)
  PROVE  current' \in Lines /\ lines' \in Seq(Lines)
<1>1. [current EXCEPT !.status = "done"] \in Lines
  BY DEF Lines, Statuses
<1>2. Line(current.end, end, direction) \in Lines
  BY DEF Line, Lines, Statuses
<1> QED BY <1>1, <1>2 DEF Turn

\* The initial states satisfy the invariant.
LEMMA InitIInv == Init => IInv
<1> SUFFICES ASSUME Init PROVE IInv
  OBVIOUS
<1>1. NoLine \in Lines
  BY DEF NoLine, FirstLine, Line, Point, Lines, Points, Directions, Statuses
<1>2. TypeOK
  BY <1>1 DEF Init, TypeOK
<1>3. Levels
  BY DEF Init, Levels, NoLine, FirstLine, Line, Point
<1>4. Zigzag
  BY DEF Init, Zigzag, SegmentsChain, DirectionsAlternate, SegmentsGoTheirWay,
         GoesItsWay, NoLine, FirstLine, Line, Point
<1>5. InOrder /\ Written
  BY DEF Init, InOrder, Written, Apart, RowsDoNotOverlap, NoLine, FirstLine, Line, Point
<1> QED BY <1>2, <1>3, <1>4, <1>5 DEF IInv

\* An extension keeps the zigzag if the new end is no worse than the old one.
LEMMA ExtendZigzag ==
  ASSUME current \in Lines, lines \in Seq(Lines), Zigzag,
         NEW end \in Points, Extend(end),
         GoesItsWay([current EXCEPT !.end = end])
  PROVE  Zigzag'
<1>1. /\ lines' = lines /\ current'.start = current.start
      /\ current'.direction = current.direction
  BY DEF Extend, Lines
<1>2. SegmentsChain'
  BY <1>1 DEF Zigzag, SegmentsChain
<1>3. DirectionsAlternate'
  BY <1>1 DEF Zigzag, DirectionsAlternate
<1>4. GoesItsWay(current')
  BY DEF Extend
<1>5. SegmentsGoTheirWay'
  BY <1>1, <1>4 DEF Zigzag, SegmentsGoTheirWay, GoesItsWay
<1> QED BY <1>2, <1>3, <1>5 DEF Zigzag

\* A turn keeps the zigzag if it switches direction and the new segment goes
\* its way from the old end.
LEMMA TurnZigzag ==
  ASSUME current \in Lines, lines \in Seq(Lines), Zigzag,
         NEW end \in Points, NEW direction \in Directions, Turn(end, direction),
         direction # current.direction,
         GoesItsWay(Line(current.end, end, direction))
  PROVE  Zigzag'
<1> DEFINE done == [current EXCEPT !.status = "done"]
<1>1. /\ done \in Lines
      /\ done.start = current.start /\ done.end = current.end
      /\ done.direction = current.direction
  BY DEF Lines, Statuses
<1>2. lines' = Append(lines, done) /\ current' = Line(current.end, end, direction)
  BY DEF Turn
<1>3. /\ current'.start = current.end /\ current'.end = end
      /\ current'.direction = direction
  BY <1>2 DEF Line
<1> HIDE DEF done
<1>4. /\ Len(lines') = Len(lines) + 1 /\ Len(lines) \in Nat
      /\ lines'[Len(lines) + 1] = done
      /\ \A k \in 1 .. Len(lines) : lines'[k] = lines[k]
      /\ lines' # << >>
      /\ lines = << >> <=> Len(lines) = 0
  BY <1>1, <1>2
<1>5. SegmentsChain'
  <2>1. ASSUME NEW k \in 1 .. Len(lines') - 1
        PROVE  lines'[k + 1].start = lines'[k].end
    <3>1. CASE k = Len(lines)
      <4>1. lines # << >> /\ lines'[k] = lines[k] /\ lines'[k + 1] = done
        BY <1>4, <3>1
      <4> QED BY <4>1, <3>1, <1>1 DEF Zigzag, SegmentsChain
    <3>2. CASE k # Len(lines)
      <4>1. k \in 1 .. Len(lines) - 1 /\ k + 1 \in 1 .. Len(lines) /\ k \in 1 .. Len(lines)
        BY <1>4, <2>1, <3>2
      <4>2. lines'[k] = lines[k] /\ lines'[k + 1] = lines[k + 1]
        BY <4>1, <1>4
      <4> QED BY <4>1, <4>2 DEF Zigzag, SegmentsChain
    <3> QED BY <3>1, <3>2
  <2>2. current'.start = lines'[Len(lines')].end
    BY <1>1, <1>3, <1>4
  <2> QED BY <2>1, <2>2 DEF SegmentsChain
<1>6. DirectionsAlternate'
  <2>1. ASSUME NEW k \in 1 .. Len(lines') - 1
        PROVE  lines'[k + 1].direction # lines'[k].direction
    <3>1. CASE k = Len(lines)
      <4>1. lines # << >> /\ lines'[k] = lines[k] /\ lines'[k + 1] = done
        BY <1>4, <3>1
      <4> QED BY <4>1, <3>1, <1>1 DEF Zigzag, DirectionsAlternate
    <3>2. CASE k # Len(lines)
      <4>1. k \in 1 .. Len(lines) - 1 /\ k + 1 \in 1 .. Len(lines) /\ k \in 1 .. Len(lines)
        BY <1>4, <2>1, <3>2
      <4>2. lines'[k] = lines[k] /\ lines'[k + 1] = lines[k + 1]
        BY <4>1, <1>4
      <4> QED BY <4>1, <4>2 DEF Zigzag, DirectionsAlternate
    <3> QED BY <3>1, <3>2
  <2>2. current'.direction # lines'[Len(lines')].direction
    BY <1>1, <1>3, <1>4
  <2> QED BY <2>1, <2>2 DEF DirectionsAlternate
<1>7. SegmentsGoTheirWay'
  <2>1. GoesItsWay(current')
    BY <1>2
  <2>2. GoesItsWay(done)
    BY <1>1 DEF Zigzag, SegmentsGoTheirWay, GoesItsWay
  <2>3. ASSUME NEW k \in 1 .. Len(lines') PROVE GoesItsWay(lines'[k])
    <3>1. CASE k \in 1 .. Len(lines)
      BY <3>1, <1>4 DEF Zigzag, SegmentsGoTheirWay
    <3>2. CASE k = Len(lines) + 1
      BY <3>2, <1>4, <2>2
    <3> QED BY <3>1, <3>2, <1>4, <2>3
  <2> QED BY <2>1, <2>3 DEF SegmentsGoTheirWay, GoesItsWay
<1> QED BY <1>5, <1>6, <1>7 DEF Zigzag

\* An extension to the candle that is looked at keeps the order.
LEMMA ExtendInOrder ==
  ASSUME TypeOK, InOrder, i' = i + 1,
         NEW end \in Points, end.time = i + 1, Extend(end)
  PROVE  InOrder'
<1>1. /\ current \in Lines /\ lines \in Seq(Lines) /\ i \in Nat
      /\ current.start.time \in Nat /\ current.end.time \in Nat
  BY DEF TypeOK, Lines, Points
<1>2. /\ lines' = lines
      /\ current'.start = current.start /\ current'.end = end
  BY <1>1 DEF Extend, Lines
<1> QED BY <1>1, <1>2 DEF InOrder, Apart

\* A turn keeps the order: the new segment starts where the old one ended.
LEMMA TurnInOrder ==
  ASSUME TypeOK, InOrder, i' = i + 1,
         NEW end \in Points, end.time = i + 1, NEW direction \in Directions,
         Turn(end, direction)
  PROVE  InOrder'
<1> DEFINE done == [current EXCEPT !.status = "done"]
<1>1. /\ current \in Lines /\ lines \in Seq(Lines) /\ i \in Nat
      /\ current.start.time \in Nat /\ current.end.time \in Nat
  BY DEF TypeOK, Lines, Points
<1>2. done.start = current.start /\ done.end = current.end /\ done \in Lines
  BY <1>1 DEF Lines, Statuses
<1>3. /\ lines' = Append(lines, done)
      /\ current'.start = current.end /\ current'.end = end
  BY DEF Turn, Line
<1> HIDE DEF done
<1>4. /\ Len(lines) \in Nat /\ Len(lines') = Len(lines) + 1
      /\ lines'[Len(lines) + 1] = done
      /\ \A k \in 1 .. Len(lines) : lines'[k] = lines[k] /\ lines[k] \in Lines
  BY <1>1, <1>2, <1>3
<1>5. \A k \in 1 .. Len(lines) : lines[k].end.time \in Nat
  BY <1>4 DEF Lines, Points
<1>6. Apart(lines')
  <2>1. ASSUME NEW k \in 1 .. Len(lines'), NEW l \in 1 .. Len(lines'), k < l
        PROVE  lines'[k].end.time <= lines'[l].start.time
    <3>1. k \in 1 .. Len(lines)
      BY <2>1, <1>4
    <3>2. CASE l = Len(lines) + 1
      BY <3>1, <3>2, <1>2, <1>4 DEF InOrder
    <3>3. CASE l # Len(lines) + 1
      <4>1. l \in 1 .. Len(lines)
        BY <2>1, <3>3, <1>4
      <4>2. lines'[k] = lines[k] /\ lines'[l] = lines[l]
        BY <3>1, <4>1, <1>4
      <4> QED BY <2>1, <3>1, <4>1, <4>2 DEF InOrder, Apart
    <3> QED BY <3>2, <3>3
  <2> QED BY <2>1 DEF Apart
<1>7. \A k \in 1 .. Len(lines') : lines'[k].end.time <= current'.start.time
  <2>1. ASSUME NEW k \in 1 .. Len(lines') PROVE lines'[k].end.time <= current.end.time
    <3>1. CASE k = Len(lines) + 1
      BY <3>1, <1>1, <1>2, <1>4
    <3>2. CASE k # Len(lines) + 1
      <4>1. k \in 1 .. Len(lines) /\ lines'[k] = lines[k]
        BY <2>1, <3>2, <1>4
      <4>2. lines[k].end.time <= current.start.time /\ current.start.time <= current.end.time
        BY <4>1 DEF InOrder
      <4> QED BY <4>1, <4>2, <1>1, <1>5
    <3> QED BY <3>1, <3>2
  <2> QED BY <2>1, <1>3
<1> QED BY <1>1, <1>3, <1>6, <1>7 DEF InOrder, Apart

\* One turn of the loop keeps the invariant.
LEMMA ScanIInv ==
  ASSUME IInv, Scan
  PROVE  IInv'
<1> DEFINE k == i + 1
           c == fetched[k]
<1>1. /\ candles \in Seq(Candles) /\ fetched \in Seq(Candles) /\ current \in Lines
      /\ lines \in Seq(Lines) /\ i \in Nat /\ i < Len(fetched) /\ i' = k
      /\ fetched' = fetched /\ Zigzag /\ Levels /\ InOrder /\ TypeOK
  BY DEF IInv, TypeOK, Scan
<1>2. c \in Candles /\ k \in Nat
  BY <1>1
<1>3. i > 0 => fetched[i] \in Candles
  BY <1>1
<1>4. /\ c.high \in Int /\ c.low \in Int /\ c.low <= c.high
      /\ i > 0 => fetched[i].high \in Int /\ fetched[i].low \in Int /\ fetched[i].low <= fetched[i].high
  BY <1>2, <1>3, CandlePrices
<1>5. /\ current.end.point \in Int /\ current.end.inv \in Int /\ current.start.point \in Int
      /\ current.direction \in Directions /\ current.end \in Points
  BY <1>1 DEF Lines, Points
<1>6. /\ Peak(k, c) \in Points /\ Peak(k, c).time = k
      /\ Trough(k, c) \in Points /\ Trough(k, c).time = k
  BY <1>2, <1>4 DEF Peak, Trough, Point, Points
<1>7. GoesItsWay(current)
  BY <1>1 DEF Zigzag, SegmentsGoTheirWay
<1>8. Step(k, c) /\ k - 1 = i /\ (k > 1 <=> i > 0) /\ k \in 0 .. Len(fetched)
  BY <1>1 DEF Scan
<1>15. Written'
  BY DEF IInv, Written, RowsDoNotOverlap, Parted, Apart, Scan
<1>9. SUFFICES current' \in Lines /\ lines' \in Seq(Lines) /\ Levels' /\ Zigzag' /\ InOrder'
  BY <1>1, <1>2, <1>15 DEF IInv, TypeOK, Scan
<1>16. k = i + 1
  OBVIOUS
<1> HIDE DEF k, c
<1>10. CASE Rises(c) /\ Extend(Peak(k, c))
  <2>1. current' = [current EXCEPT !.end = Peak(k, c)] /\ lines' = lines
    BY <1>10 DEF Extend
  <2>2. GoesItsWay([current EXCEPT !.end = Peak(k, c)])
    BY <1>1, <1>4, <1>5, <1>7, <1>10 DEF GoesItsWay, Rises, Peak, Point, Lines
  <2>3. Levels'
    <3>1. /\ current'.direction = "up" /\ current'.end.point = c.high
          /\ current'.end.inv = c.low
      BY <2>1, <1>1, <1>10 DEF Rises, Peak, Point, Lines
    <3> QED BY <3>1, <1>1, <1>4, <1>8 DEF Levels, c
  <2> QED BY <2>1, <2>2, <2>3, <1>1, <1>6, <1>10, <1>16, ExtendType, ExtendZigzag, ExtendInOrder
<1>11. CASE TurnsUp(k, c) /\ Turn(Peak(k, c), "up")
  <2>1. current' = Line(current.end, Peak(k, c), "up")
    BY <1>11 DEF Turn
  <2>2. current.end.point <= c.high
    BY <1>1, <1>4, <1>5, <1>8, <1>11 DEF TurnsUp, HigherHigh, Levels
  <2>3. GoesItsWay(Line(current.end, Peak(k, c), "up"))
    BY <2>2 DEF GoesItsWay, Line, Peak, Point
  <2>4. Levels'
    <3>1. /\ current'.direction = "up" /\ current'.end.point = c.high
          /\ current'.end.inv = c.low
      BY <2>1 DEF Line, Peak, Point
    <3> QED BY <3>1, <1>1, <1>4, <1>8 DEF Levels, c
  <2>5. "up" \in Directions /\ "up" # current.direction
    BY <1>11 DEF Directions, TurnsUp
  <2> QED BY <2>3, <2>4, <2>5, <1>1, <1>6, <1>11, <1>16, TurnType, TurnZigzag, TurnInOrder
<1>12. CASE TurnsDown(k, c) /\ Turn(Trough(k, c), "down")
  <2>1. current' = Line(current.end, Trough(k, c), "down")
    BY <1>12 DEF Turn
  <2>2. current.end.point > c.low
    BY <1>1, <1>4, <1>5, <1>8, <1>12 DEF TurnsDown, LowerLow, Levels
  <2>3. GoesItsWay(Line(current.end, Trough(k, c), "down"))
    BY <2>2 DEF GoesItsWay, Line, Trough, Point
  <2>4. Levels'
    <3>1. /\ current'.direction = "down" /\ current'.end.point = c.low
          /\ current'.end.inv = c.high
      BY <2>1 DEF Line, Trough, Point
    <3> QED BY <3>1, <1>1, <1>4, <1>8 DEF Levels, c
  <2>5. "down" \in Directions /\ "down" # current.direction
    BY <1>12 DEF Directions, TurnsDown
  <2> QED BY <2>3, <2>4, <2>5, <1>1, <1>6, <1>12, <1>16, TurnType, TurnZigzag, TurnInOrder
<1>13. CASE Falls(k, c) /\ Extend(Trough(k, c))
  <2>1. current' = [current EXCEPT !.end = Trough(k, c)] /\ lines' = lines
    BY <1>13 DEF Extend
  <2>2. GoesItsWay([current EXCEPT !.end = Trough(k, c)])
    BY <1>1, <1>4, <1>5, <1>7, <1>13 DEF GoesItsWay, Falls, Trough, Point, Lines
  <2>3. Levels'
    <3>1. /\ current'.direction = "down" /\ current'.end.point = c.low
          /\ current'.end.inv = c.high
      BY <2>1, <1>1, <1>13 DEF Falls, Trough, Point, Lines
    <3> QED BY <3>1, <1>1, <1>4, <1>8 DEF Levels, c
  <2> QED BY <2>1, <2>2, <2>3, <1>1, <1>6, <1>13, <1>16, ExtendType, ExtendZigzag, ExtendInOrder
<1>14. CASE /\ ~Rises(c) /\ ~TurnsUp(k, c) /\ ~TurnsDown(k, c) /\ ~Falls(k, c)
            /\ UNCHANGED <<lines, current>>
  <2>1. Levels'
    <3>1. current.direction = "up" => c.high <= current.end.point
      BY <1>14, <1>4, <1>5 DEF Rises
    <3>2. current.direction = "down" => c.low >= current.end.point
      BY <1>14, <1>4, <1>5 DEF Falls
    <3> QED BY <3>1, <3>2, <1>1, <1>8, <1>14 DEF Levels, c
  <2>2. Zigzag'
    BY <1>1, <1>14 DEF Zigzag, SegmentsChain, DirectionsAlternate, SegmentsGoTheirWay, GoesItsWay
  <2>3. InOrder'
    BY <1>1, <1>14, <1>16 DEF InOrder, Apart, Lines, Points
  <2> QED BY <2>1, <2>2, <2>3, <1>1, <1>14
<1> QED BY <1>8, <1>10, <1>11, <1>12, <1>13, <1>14 DEF Step

\* What Start begins with satisfies the invariant.
LEMMA StartIInv ==
  ASSUME IInv, Start
  PROVE  IInv'
<1>0. /\ rows \in Seq(Lines) /\ Len(rows) \in Nat /\ refills \subseteq Nat /\ faults \in Nat
      /\ rows' = rows /\ todo' = todo /\ candles' = candles /\ at = "down"
  BY DEF IInv, TypeOK, Start
<1>1. refills' \subseteq Nat /\ faults' \in Nat /\ refills \subseteq refills'
  <2>1. refills' \in {refills, refills \cup {Len(rows) + 1}} /\ (faults' = faults \/ Fault)
    BY DEF Start
  <2>2. Len(rows) + 1 \in Nat
    BY <1>0
  <2>3. faults' \in Nat
    BY <1>0, <2>1 DEF Fault
  <2> QED BY <1>0, <2>1, <2>2, <2>3
<1>2. RowsDoNotOverlap' /\ todo' = << >>
  BY <1>0, <1>1 DEF IInv, Written, RowsDoNotOverlap, Parted
<1>3. CASE Generate /\ (rows = << >> \/ refills' = refills \cup {Len(rows) + 1})
  <2>1. candles \in Seq(Candles) /\ candles[1] \in Candles
    BY <1>3 DEF IInv, TypeOK, Generate
  <2>2. /\ fetched' = candles /\ i' = 0 /\ lines' = << >> /\ at' = "scan"
        /\ current' = FirstLine(candles[1])
    BY <1>3 DEF Generate
  <2>3. /\ candles[1].low <= candles[1].high /\ candles[1].close <= candles[1].high
        /\ candles[1].low \in Int /\ candles[1].high \in Int
    BY <2>1, CandlePrices
  <2>4. TypeOK'
    BY <1>0, <1>1, <1>2, <2>1, <2>2, FirstLineType DEF IInv, TypeOK
  <2>5. Levels'
    BY <2>1, <2>2, <2>3 DEF Levels, FirstLine, Line, Point
  <2>6. Zigzag'
    BY <2>1, <2>2, <2>3 DEF Zigzag, SegmentsChain, DirectionsAlternate, SegmentsGoTheirWay,
                       GoesItsWay, FirstLine, Line, Point
  <2>7. InOrder'
    BY <2>2 DEF InOrder, Apart, FirstLine, Line, Point
  <2>8. ASSUME NEW k \in 1 .. Len(rows) PROVE Parted(k, Len(rows) + 1)'
    <3>1. Len(rows) + 1 \in refills' /\ k < Len(rows) + 1 /\ Len(rows) + 1 <= Len(rows') + 1
      BY <1>0, <1>3
    <3> QED BY <3>1 DEF Parted
  <2>9. Written'
    BY <1>0, <1>2, <2>2, <2>8 DEF Written, Apart
  <2> QED BY <2>4, <2>5, <2>6, <2>7, <2>9 DEF IInv
<1>4. CASE at' = "returned" /\ UNCHANGED scanVars
  <2>1. TypeOK'
    BY <1>0, <1>1, <1>4 DEF IInv, TypeOK, scanVars
  <2>2. Levels' /\ Zigzag' /\ InOrder'
    BY <1>4 DEF IInv, scanVars, Levels, Zigzag, SegmentsChain, DirectionsAlternate,
                SegmentsGoTheirWay, GoesItsWay, InOrder, Apart
  <2>3. Written'
    BY <1>2, <1>4 DEF Written, Apart
  <2> QED BY <2>1, <2>2, <2>3 DEF IInv
<1> QED BY <1>3, <1>4 DEF Start

\* The steps outside MakeTrendlines keep the types.
LEMMA OtherType ==
  ASSUME TypeOK,
         (\E c \in Candles : NewCandle(c)) \/ Scanned \/ Insert \/ InsertError \/ Return \/ Crash
  PROVE  TypeOK' /\ UNCHANGED scanVars
<1>1. ASSUME NEW c \in Candles, NewCandle(c) PROVE TypeOK' /\ UNCHANGED scanVars
  BY <1>1 DEF TypeOK, NewCandle, scanVars
<1>2. CASE Scanned
  BY <1>2 DEF TypeOK, Scanned, scanVars
<1>3. CASE Insert
  BY <1>3 DEF TypeOK, Insert, scanVars
<1>4. CASE InsertError
  BY <1>4 DEF TypeOK, InsertError, Fault, scanVars
<1>5. CASE Return
  BY <1>5 DEF TypeOK, Return, scanVars
<1>6. CASE Crash
  BY <1>6 DEF TypeOK, Crash, Fault, scanVars
<1> QED BY <1>1, <1>2, <1>3, <1>4, <1>5, <1>6

\* What MakeTrendlines returned is inserted in its order, and what fails is
\* left out, so that the rows stay apart or parted.
LEMMA OtherWritten ==
  ASSUME TypeOK, InOrder, Written,
         (\E c \in Candles : NewCandle(c)) \/ Scanned \/ Insert \/ InsertError \/ Return \/ Crash
  PROVE  Written'
<1>1. /\ rows \in Seq(Lines) /\ Len(rows) \in Nat
      /\ todo \in Seq(Lines) /\ Len(todo) \in Nat /\ refills \subseteq Nat
  BY DEF TypeOK
<1>2. CASE Scanned
  BY <1>1, <1>2 DEF Written, InOrder, Apart, RowsDoNotOverlap, Parted, Scanned
<1>3. CASE Insert \/ InsertError
  <2>0. /\ todo # << >> /\ todo' = Tail(todo) /\ at = "insert" /\ at' = at
        /\ refills' = refills
    BY <1>3 DEF Insert, InsertError
  <2>1. /\ Len(todo') = Len(todo) - 1
        /\ \A l \in 1 .. Len(todo') : todo'[l] = todo[l + 1]
        /\ Head(todo) = todo[1]
    <3>1. /\ Len(Tail(todo)) = Len(todo) - 1
          /\ \A l \in 1 .. Len(Tail(todo)) : Tail(todo)[l] = todo[l + 1]
      BY <1>1, <2>0, HeadTailProperties
    <3>2. Head(todo) = todo[1]
      BY <1>1, <2>0
    <3> QED BY <2>0, <3>1, <3>2
  <2>2. Apart(todo')
    <3>1. ASSUME NEW k \in 1 .. Len(todo'), NEW l \in 1 .. Len(todo'), k < l
          PROVE  todo'[k].end.time <= todo'[l].start.time
      <4>1. /\ k + 1 \in 1 .. Len(todo) /\ l + 1 \in 1 .. Len(todo) /\ k + 1 < l + 1
            /\ todo'[k] = todo[k + 1] /\ todo'[l] = todo[l + 1]
        BY <1>1, <2>1, <3>1
      <4> QED BY <4>1 DEF Written, Apart
    <3> QED BY <3>1 DEF Apart
  <2>5. \A k, l : Parted(k, l)' <=> Parted(k, l)
    BY <2>0 DEF Parted
  <2>6. ASSUME NEW k \in Nat, Parted(k, Len(rows) + 1) PROVE Parted(k, Len(rows) + 2)
    BY <1>1, <2>6 DEF Parted
  <2>3. CASE rows' = rows
    <3>1. RowsDoNotOverlap'
      BY <2>3, <2>5 DEF Written, RowsDoNotOverlap
    <3>2. ASSUME NEW k \in 1 .. Len(rows), NEW l \in 1 .. Len(todo')
          PROVE  rows[k].end.time <= todo'[l].start.time \/ Parted(k, Len(rows) + 1)
      <4>1. todo'[l] = todo[l + 1] /\ l + 1 \in 1 .. Len(todo)
        BY <1>1, <2>1
      <4> QED BY <4>1 DEF Written
    <3> QED BY <2>0, <2>2, <2>3, <2>5, <3>1, <3>2 DEF Written
  <2>4. CASE rows' = Append(rows, Head(todo))
    <3>1. /\ Len(rows') = Len(rows) + 1 /\ rows'[Len(rows) + 1] = todo[1]
          /\ \A k \in 1 .. Len(rows) : rows'[k] = rows[k]
      BY <1>1, <2>0, <2>1, <2>4
    <3>2. ASSUME NEW k \in 1 .. Len(rows'), NEW l \in 1 .. Len(rows'), k < l
          PROVE  rows'[k].end.time <= rows'[l].start.time \/ Parted(k, l)
      <4>1. k \in 1 .. Len(rows) /\ rows'[k] = rows[k]
        BY <1>1, <3>1, <3>2
      <4>2. CASE l = Len(rows) + 1
        BY <4>1, <4>2, <1>1, <2>1, <3>1 DEF Written
      <4>3. CASE l # Len(rows) + 1
        <5>1. l \in 1 .. Len(rows)
          BY <4>3, <1>1, <3>1, <3>2
        <5>2. rows'[l] = rows[l]
          BY <5>1, <3>1
        <5> QED BY <3>2, <4>1, <5>1, <5>2 DEF Written, RowsDoNotOverlap
      <4> QED BY <4>2, <4>3
    <3>3. ASSUME NEW k \in 1 .. Len(rows'), NEW l \in 1 .. Len(todo')
          PROVE  rows'[k].end.time <= todo'[l].start.time \/ Parted(k, Len(rows') + 1)
      <4>1. todo'[l] = todo[l + 1] /\ l + 1 \in 1 .. Len(todo) /\ 1 \in 1 .. Len(todo) /\ 1 < l + 1
        BY <1>1, <2>1
      <4>2. CASE k = Len(rows) + 1
        BY <4>1, <4>2, <3>1 DEF Written, Apart
      <4>3. CASE k # Len(rows) + 1
        <5>1. k \in 1 .. Len(rows) /\ rows'[k] = rows[k] /\ k \in Nat
          BY <1>1, <3>1, <4>3
        <5>2. rows[k].end.time <= todo[l + 1].start.time \/ Parted(k, Len(rows) + 1)
          BY <4>1, <5>1 DEF Written
        <5>3. Len(rows') + 1 = Len(rows) + 2
          BY <1>1, <3>1
        <5> QED BY <4>1, <5>1, <5>2, <5>3, <2>6
      <4> QED BY <4>2, <4>3
    <3> QED BY <2>0, <2>2, <2>5, <3>2, <3>3 DEF Written, RowsDoNotOverlap
  <2> QED BY <1>3, <2>3, <2>4 DEF Insert, InsertError
<1>4. CASE (\E c \in Candles : NewCandle(c)) \/ Return
  BY <1>4 DEF Written, RowsDoNotOverlap, Parted, Apart, NewCandle, Return
<1>5. CASE Crash
  BY <1>5 DEF Written, RowsDoNotOverlap, Parted, Apart, Crash
<1> QED BY <1>2, <1>3, <1>4, <1>5

\* Every step keeps the invariant.
LEMMA NextIInv == IInv /\ [Next]_vars => IInv'
<1> SUFFICES ASSUME IInv, [Next]_vars PROVE IInv'
  OBVIOUS
<1>1. CASE Start
  BY <1>1, StartIInv
<1>2. CASE Scan
  BY <1>2, ScanIInv
<1>3. CASE (\E c \in Candles : NewCandle(c)) \/ Scanned \/ Insert \/ InsertError \/ Return \/ Crash
  <2>1. TypeOK' /\ UNCHANGED scanVars
    BY <1>3, OtherType DEF IInv
  <2>2. Written'
    BY <1>3, OtherWritten DEF IInv
  <2> QED BY <2>1, <2>2 DEF IInv, scanVars, Levels, Zigzag, SegmentsChain, DirectionsAlternate,
                SegmentsGoTheirWay, GoesItsWay, InOrder, Apart
<1>4. CASE UNCHANGED vars
  BY <1>4 DEF IInv, TypeOK, vars, scanVars, Levels, Zigzag, SegmentsChain, DirectionsAlternate,
              SegmentsGoTheirWay, GoesItsWay, InOrder, Written, Apart, RowsDoNotOverlap, Parted
<1> QED BY <1>1, <1>2, <1>3, <1>4 DEF Next

\* The invariant holds throughout.
LEMMA Invariance == Spec => []IInv
BY InitIInv, NextIInv, PTL DEF Spec

\* Every variable of Start and MakeTrendlines keeps its type.
THEOREM TypeCorrectness == Spec => []TypeOK
<1>1. IInv => TypeOK
  BY DEF IInv
<1> QED BY <1>1, Invariance, PTL

\* For all candles, the segments of MakeTrendlines form one unbroken zigzag.
THEOREM ZigzagOfSegments == Spec => []OneZigzag
<1>1. IInv => OneZigzag
  BY DEF IInv, Zigzag, OneZigzag
<1> QED BY <1>1, Invariance, PTL

\* For all candles, a segment goes the way it says.
THEOREM TrueDirections == Spec => []SegmentsGoTheirWay
<1>1. IInv => SegmentsGoTheirWay
  BY DEF IInv, Zigzag
<1> QED BY <1>1, Invariance, PTL

\* For all candles, crashes and failed statements, rows of the trendlines
\* table overlap only across the beginning of a pass whose count had failed.
THEOREM SeparateRows == Spec => []RowsDoNotOverlap
<1>1. IInv => RowsDoNotOverlap
  BY DEF IInv, Written
<1> QED BY <1>1, Invariance, PTL
===============================================================================

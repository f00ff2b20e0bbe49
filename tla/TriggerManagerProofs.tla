------------------------ MODULE TriggerManagerProofs ------------------------
(* TriggerManager, for every set of triggers, every history length and every *)
(* number of writes and faults.                                              *)
EXTENDS TriggerManager, SequenceTheorems, TLAPS

\* Only triggers that memory has as active are waiting in an evaluation: the
\* mutex keeps deliveries and reloads out until it ends.
TodoActive == \A t \in scan.todo : mem[t].status = "active"

\* So the conditions that held at the start of the evaluation go on holding.
TodoMet == \A t \in scan.todo : Met(t)

IInv == TypeOK /\ TodoActive /\ TodoMet /\ MemoryFollowsRows

-----------------------------------------------------------------------------
\* A committed write of the row of t, whose new value the notification
\* carries unless the row is gone, keeps the copies of all triggers in step.
LEMMA CommitKeepsInStep ==
  ASSUME TypeOK, MemoryFollowsRows,
         NEW op, NEW t \in Ids, NEW r, NEW sent,
         Commit(op, t, r, sent),
         r.status \in Statuses => sent = r,
         \A u \in Ids \ {t} : mem'[u] = mem[u]
  PROVE  MemoryFollowsRows'
<1> SUFFICES ASSUME NEW u \in Ids \ stale', Exists(u)'
             PROVE  /\ \A i \in DOMAIN queue' : Newest(i, u)' => queue'[i].row = row'[u]
                    /\ ~Pending(u)' => Alike(mem'[u], row'[u])
  BY DEF MemoryFollowsRows
<1> DEFINE n == [op |-> op, id |-> t, row |-> sent]
<1>1. CASE u = t
  <2>1. listening /\ queue' = Append(queue, n)
    BY <1>1 DEF Commit
  <2>2. row'[t] = r /\ sent = r
    BY <1>1 DEF Commit, TypeOK, Exists
  <2>3. queue \in Seq(Notification)
    BY DEF TypeOK
  <2>4. /\ Len(queue) \in Nat
        /\ DOMAIN queue' = 1 .. Len(queue) + 1
        /\ queue'[Len(queue) + 1] = n
    BY <2>1, <2>3
  <2>5. Pending(u)'
    BY <1>1, <2>4 DEF Pending
  <2>6. ASSUME NEW i \in DOMAIN queue', Newest(i, u)'
        PROVE  queue'[i].row = row'[u]
    <3>1. i = Len(queue) + 1
      BY <1>1, <2>4, <2>6 DEF Newest
    <3> QED BY <1>1, <2>2, <2>4, <3>1
  <2> QED BY <2>5, <2>6
<1>2. CASE u # t
  <2>1. u \notin stale /\ Exists(u) /\ row'[u] = row[u] /\ mem'[u] = mem[u]
    BY <1>2 DEF Commit, TypeOK, Exists
  <2>2. CASE ~listening
    BY <2>1, <2>2 DEF Commit, MemoryFollowsRows, Newest, Pending
  <2>3. CASE listening
    <3>1. queue' = Append(queue, n) /\ queue \in Seq(Notification)
      BY <2>3 DEF Commit, TypeOK
    <3>2. /\ Len(queue) \in Nat
          /\ DOMAIN queue = 1 .. Len(queue)
          /\ DOMAIN queue' = 1 .. Len(queue) + 1
          /\ queue'[Len(queue) + 1] = n
          /\ \A i \in DOMAIN queue : queue'[i] = queue[i]
      BY <3>1
    <3>3. ASSUME NEW i \in DOMAIN queue', Newest(i, u)'
          PROVE  Newest(i, u) /\ queue'[i] = queue[i]
      BY <1>2, <3>2, <3>3 DEF Newest
    <3>4. Pending(u) => Pending(u)'
      BY <3>2 DEF Pending
    <3>5. ASSUME NEW i \in DOMAIN queue', Newest(i, u)'
          PROVE  queue'[i].row = row'[u]
      BY <2>1, <3>3, <3>5 DEF MemoryFollowsRows, Newest
    <3> QED BY <2>1, <3>4, <3>5 DEF MemoryFollowsRows
  <2> QED BY <2>2, <2>3
<1> QED BY <1>1, <1>2

-----------------------------------------------------------------------------
\* The effect of a status update on the database keeps memory in step, if
\* memory changed for that trigger only.
LEMMA StatusKeepsInStep ==
  ASSUME IInv, NEW t \in Ids, StatusWritten(t),
         \A u \in Ids \ {t} : mem'[u] = mem[u]
  PROVE  MemoryFollowsRows'
<1> DEFINE r == Triggered(row[t])
<1>1. CASE Exists(t)
  BY <1>1, CommitKeepsInStep, Commit("UPDATE", t, r, r) DEF IInv, StatusWritten
<1>2. CASE ~Exists(t)
  BY <1>2 DEF IInv, StatusWritten, MemoryFollowsRows, Exists, Newest, Pending
<1> QED BY <1>1, <1>2

\* The types of what a commit writes.
LEMMA CommitTypes ==
  ASSUME TypeOK, NEW op \in {"INSERT", "UPDATE", "DELETE"}, NEW t \in Ids,
         NEW r \in Trigger \cup {Deleted}, NEW sent \in Trigger,
         Commit(op, t, r, sent)
  PROVE  /\ row' \in [Ids -> Trigger \cup {Unborn, Deleted}]
         /\ queue' \in Seq(Notification)
         /\ stale' \subseteq Ids
<1>1. [op |-> op, id |-> t, row |-> sent] \in Notification
  BY DEF Notification
<1> QED BY <1>1 DEF Commit, TypeOK

LEMMA ExistingIsTrigger ==
  ASSUME TypeOK, NEW t \in Ids, Exists(t)
  PROVE  row[t] \in Trigger
BY DEF TypeOK, Exists, Unborn, Deleted, Statuses

LEMMA StatusTypes ==
  ASSUME TypeOK, NEW t \in Ids, StatusWritten(t)
  PROVE  /\ row' \in [Ids -> Trigger \cup {Unborn, Deleted}]
         /\ queue' \in Seq(Notification)
         /\ stale' \subseteq Ids
<1> DEFINE r == Triggered(row[t])
<1>1. CASE Exists(t)
  <2>1. r \in Trigger
    BY <1>1, ExistingIsTrigger DEF Trigger, Triggered, Statuses
  <2> QED BY <1>1, <2>1, CommitTypes DEF StatusWritten
<1>2. CASE ~Exists(t)
  BY <1>2 DEF StatusWritten, TypeOK
<1> QED BY <1>1, <1>2

\* Marking keeps memory typed, because only active triggers are marked.
LEMMA MarkTypes ==
  ASSUME TypeOK, TodoActive, NEW t \in scan.todo, t \in Ids, MarkTriggered(t)
  PROVE  /\ mem' \in [Ids -> Trigger \cup {Absent}]
         /\ \A u \in Ids \ {t} : mem'[u] = mem[u]
<1>1. mem[t] \in Trigger
  BY DEF TypeOK, TodoActive, Absent
<1>2. Triggered(mem[t]) \in Trigger
  BY <1>1 DEF Trigger, Triggered, Statuses
<1> QED BY <1>2 DEF MarkTriggered, TypeOK
-----------------------------------------------------------------------------
LEMMA LoadedTypes ==
  ASSUME TypeOK
  PROVE  LoadedFrom(row) \in [Ids -> Trigger \cup {Absent}]
BY DEF TypeOK, LoadedFrom, Unborn, Deleted

LEMMA IdleIsScan == Idle \in Scans
BY DEF Idle, Scans

LEMMA NoHistory ==
  LET h == [tf \in Timeframes |-> << >>]
  IN  h \in [Timeframes -> Seq(Candles)] /\ \A tf \in Timeframes : Len(h[tf]) <= MaxHistory
<1>1. << >> \in Seq(Candles) /\ Len(<< >>) = 0 /\ 0 <= MaxHistory
  BY BoundsAssumption
<1> QED BY <1>1

\* Types hold initially and every action keeps them, given that only active
\* triggers are waiting in an evaluation.
LEMMA TypesStep ==
  ASSUME TypeOK, TodoActive, [Next]_vars
  PROVE  TypeOK'
<1> USE BoundsAssumption
<1>1. ASSUME NEW t \in Ids, NEW s \in Specs, NEW st \in Statuses,
             CreateTrigger(t, s, st) \/ UpdateTrigger(t, s, st)
      PROVE  TypeOK'
  <2>1. [spec |-> s, status |-> st] \in Trigger
    BY DEF Trigger
  <2> QED BY <1>1, <2>1, CommitTypes DEF CreateTrigger, UpdateTrigger, ClientWrite, TypeOK
<1>2. ASSUME NEW t \in Ids, DeleteTrigger(t) PROVE TypeOK'
  <2>1. row[t] \in Trigger /\ Commit("DELETE", t, Deleted, row[t])
    BY <1>2, ExistingIsTrigger DEF DeleteTrigger
  <2>2. /\ row' \in [Ids -> Trigger \cup {Unborn, Deleted}]
        /\ queue' \in Seq(Notification)
        /\ stale' \subseteq Ids
    BY <2>1, CommitTypes
  <2> QED BY <1>2, <2>2 DEF DeleteTrigger, ClientWrite, TypeOK
<1>3. ASSUME NEW t \in Ids, Fire(t) PROVE TypeOK'
  BY <1>3, StatusTypes, MarkTypes DEF Fire, Take, TypeOK, Scans
<1>4. ASSUME NEW t \in Ids, NEW done \in BOOLEAN, FirePriceError(t, done) PROVE TypeOK'
  BY <1>4, StatusTypes DEF FirePriceError, Take, Fault, TypeOK, Scans
<1>5. ASSUME NEW t \in Ids, NEW done \in BOOLEAN, FireCandleError(t, done) PROVE TypeOK'
  BY <1>5, StatusTypes, MarkTypes DEF FireCandleError, Take, Fault, TypeOK, Scans
<1>6. ASSUME NEW p \in Prices, StartPrice(p) PROVE TypeOK'
  BY <1>6 DEF StartPrice, TypeOK, Scans
<1>7. ASSUME NEW tf \in Timeframes, NEW c \in Candles, StartCandle(tf, c) PROVE TypeOK'
  <2>1. hist[tf] \in Seq(Candles) /\ Len(hist[tf]) <= MaxHistory
    BY DEF TypeOK
  <2>2. Remember(hist[tf], c) \in Seq(Candles) /\ Len(Remember(hist[tf], c)) <= MaxHistory
    BY <2>1 DEF Remember
  <2> QED BY <1>7, <2>2 DEF StartCandle, TypeOK, Scans
<1>8. CASE FinishScan
  BY <1>8 DEF FinishScan, TypeOK, Scans, Idle
<1>9. CASE Deliver
  <2>1. Head(queue) \in Notification /\ Tail(queue) \in Seq(Notification)
    BY <1>9 DEF Deliver, TypeOK
  <2> QED BY <1>9, <2>1 DEF Deliver, TypeOK, Notification
<1>10. CASE Reload
  BY <1>10, LoadedTypes DEF Reload, TypeOK
<1>11. CASE ReloadError
  BY <1>11 DEF ReloadError, Fault, TypeOK
<1>12. ASSUME NEW kept \in 0 .. Len(queue), Disconnect(kept) PROVE TypeOK'
  <2>1. SubSeq(queue, 1, kept) \in Seq(Notification)
    BY DEF TypeOK
  <2>2. \A i \in (kept + 1) .. Len(queue) : queue[i] \in Notification
    BY DEF TypeOK
  <2>3. stale' \subseteq Ids
    BY <1>12, <2>2 DEF Disconnect, TypeOK, Notification
  <2>4. faults' \in 0 .. MaxFaults
    BY <1>12 DEF Disconnect, Fault, TypeOK
  <2> QED BY <1>12, <2>1, <2>3, <2>4 DEF Disconnect, TypeOK
<1>13. CASE Listen
  BY <1>13 DEF Listen, TypeOK
<1>14. ASSUME NEW loaded \in BOOLEAN, Restart(loaded) PROVE TypeOK'
  <2>1. mem' \in [Ids -> Trigger \cup {Absent}]
    BY <1>14, LoadedTypes DEF Restart
  <2>2. hist' \in [Timeframes -> Seq(Candles)] /\ \A tf \in Timeframes : Len(hist'[tf]) <= MaxHistory
    BY <1>14, NoHistory DEF Restart
  <2>3. listening' \in BOOLEAN
    BY <1>14 DEF Restart
  <2>6. queue' \in Seq(Notification)
    <3>1. << >> \in Seq(Notification)
      OBVIOUS
    <3>2. queue' = << >>
      BY <1>14 DEF Restart
    <3> QED BY <3>1, <3>2
  <2>5. scan' \in Scans
    BY <1>14, IdleIsScan DEF Restart
  <2>4. stale' \subseteq Ids /\ row' = row /\ writes' = writes /\ faults' \in 0 .. MaxFaults
    BY <1>14 DEF Restart, Fault, TypeOK
  <2> QED BY <2>1, <2>2, <2>3, <2>4, <2>5, <2>6 DEF TypeOK
<1>15. CASE UNCHANGED vars
  BY <1>15 DEF vars, TypeOK
<1> QED
  BY <1>1, <1>2, <1>3, <1>4, <1>5, <1>6, <1>7, <1>8, <1>9, <1>10, <1>11,
     <1>12, <1>13, <1>14, <1>15 DEF Next

\* Nothing deactivates a waiting trigger but the evaluation itself.
LEMMA TodoStep ==
  ASSUME TypeOK, TodoActive, [Next]_vars
  PROVE  TodoActive'
<1>1. ASSUME NEW t \in Ids, DeleteTrigger(t) \/ \E s \in Specs, st \in Statuses :
                               CreateTrigger(t, s, st) \/ UpdateTrigger(t, s, st)
      PROVE  TodoActive'
  BY <1>1 DEF CreateTrigger, UpdateTrigger, DeleteTrigger, ClientWrite, TodoActive
<1>2. ASSUME NEW t \in Ids, Fire(t) \/ \E done \in BOOLEAN :
                               FirePriceError(t, done) \/ FireCandleError(t, done)
      PROVE  TodoActive'
  BY <1>2 DEF Fire, FirePriceError, FireCandleError, Take, MarkTriggered, TodoActive, TypeOK, Scans
<1>3. ASSUME NEW p \in Prices, StartPrice(p) PROVE TodoActive'
  BY <1>3 DEF StartPrice, TodoActive
<1>4. ASSUME NEW tf \in Timeframes, NEW c \in Candles, StartCandle(tf, c) PROVE TodoActive'
  BY <1>4 DEF StartCandle, TodoActive
<1>5. ASSUME scan' = Idle PROVE TodoActive'
  BY <1>5 DEF TodoActive, Idle
<1>6. CASE FinishScan \/ Deliver \/ Reload \/ ReloadError
  BY <1>5, <1>6 DEF FinishScan, Deliver, Reload, ReloadError
<1>7. ASSUME NEW loaded \in BOOLEAN, Restart(loaded) PROVE TodoActive'
  BY <1>5, <1>7 DEF Restart
<1>8. ASSUME NEW kept \in 0 .. Len(queue), Disconnect(kept) PROVE TodoActive'
  BY <1>8 DEF Disconnect, TodoActive
<1>9. CASE Listen \/ UNCHANGED vars
  BY <1>9 DEF Listen, vars, TodoActive
<1> QED BY <1>1, <1>2, <1>3, <1>4, <1>6, <1>7, <1>8, <1>9 DEF Next

\* What is decided of a trigger rests on its copy, the scan and the history.
LEMMA MetStays ==
  ASSUME NEW t, Met(t), mem'[t] = mem[t], hist' = hist,
         scan'.kind = scan.kind, scan'.timeframe = scan.timeframe, scan'.price = scan.price
  PROVE  Met(t)'
BY DEF Met

\* An evaluation keeps memory and history as they were when it began, but for
\* the triggers it is done with.
LEMMA TodoMetStep ==
  ASSUME TypeOK, TodoMet, [Next]_vars
  PROVE  TodoMet'
<1>1. ASSUME mem' = mem, hist' = hist, scan' = scan PROVE TodoMet'
  BY <1>1, MetStays DEF TodoMet
<1>2. ASSUME NEW t \in Ids, DeleteTrigger(t) \/ \E s \in Specs, st \in Statuses :
                               CreateTrigger(t, s, st) \/ UpdateTrigger(t, s, st)
      PROVE  TodoMet'
  BY <1>1, <1>2 DEF CreateTrigger, UpdateTrigger, DeleteTrigger, ClientWrite
<1>3. ASSUME NEW t \in Ids, Fire(t) \/ \E done \in BOOLEAN :
                               FirePriceError(t, done) \/ FireCandleError(t, done)
      PROVE  TodoMet'
  <2>1. Take(t) /\ hist' = hist /\ (mem' = mem \/ MarkTriggered(t))
    BY <1>3 DEF Fire, FirePriceError, FireCandleError
  <2>2. /\ scan'.kind = scan.kind /\ scan'.timeframe = scan.timeframe /\ scan'.price = scan.price
        /\ scan'.todo = scan.todo \ {t}
    BY <2>1 DEF Take
  <2>3. \A u \in scan'.todo : mem'[u] = mem[u]
    BY <2>1, <2>2 DEF MarkTriggered, TypeOK, Scans
  <2> QED BY <2>1, <2>2, <2>3, MetStays DEF TodoMet
<1>4. ASSUME NEW p \in Prices, StartPrice(p) PROVE TodoMet'
  BY <1>4 DEF StartPrice, TodoMet, Met
<1>5. ASSUME NEW tf \in Timeframes, NEW c \in Candles, StartCandle(tf, c) PROVE TodoMet'
  <2>1. hist'[tf] = Remember(hist[tf], c)
    BY <1>5 DEF StartCandle, TypeOK
  <2> QED BY <1>5, <2>1 DEF StartCandle, TodoMet, Met
<1>6. ASSUME scan' = Idle PROVE TodoMet'
  BY <1>6 DEF TodoMet, Idle
<1>7. CASE FinishScan \/ Deliver \/ Reload \/ ReloadError
  BY <1>6, <1>7 DEF FinishScan, Deliver, Reload, ReloadError
<1>8. ASSUME NEW loaded \in BOOLEAN, Restart(loaded) PROVE TodoMet'
  BY <1>6, <1>8 DEF Restart
<1>9. ASSUME NEW kept \in 0 .. Len(queue), Disconnect(kept) PROVE TodoMet'
  BY <1>1, <1>9 DEF Disconnect
<1>10. CASE Listen \/ UNCHANGED vars
  BY <1>1, <1>10 DEF Listen, vars
<1> QED BY <1>2, <1>3, <1>4, <1>5, <1>7, <1>8, <1>9, <1>10 DEF Next

\* A delivered notification: if it was the newest of its trigger, memory now
\* holds the row; otherwise a newer one is still under way.
LEMMA DeliverKeepsInStep ==
  ASSUME TypeOK, MemoryFollowsRows, Deliver
  PROVE  MemoryFollowsRows'
<1>1. SUFFICES ASSUME NEW t \in Ids \ stale, Exists(t)
               PROVE  /\ \A i \in DOMAIN queue' : Newest(i, t)' => queue'[i].row = row[t]
                      /\ ~Pending(t)' => Alike(mem'[t], row[t])
  BY DEF MemoryFollowsRows, Deliver, Exists
<1>2. queue \in Seq(Notification) /\ queue # << >>
  BY DEF TypeOK, Deliver
<1>3. /\ Len(queue) \in Nat \ {0}
      /\ DOMAIN queue = 1 .. Len(queue)
      /\ queue' = Tail(queue)
      /\ DOMAIN queue' = 1 .. Len(queue) - 1
      /\ \A i \in DOMAIN queue' : queue'[i] = queue[i + 1]
      /\ Head(queue) = queue[1]
  BY <1>2 DEF Deliver
<1>4. ASSUME NEW i \in DOMAIN queue', Newest(i, t)'
      PROVE  queue'[i].row = row[t]
  <2>1. i + 1 \in DOMAIN queue
    BY <1>3
  <2>2. ASSUME NEW j \in DOMAIN queue, j > i + 1
        PROVE  queue[j].id # t
    <3>1. j - 1 \in DOMAIN queue' /\ j - 1 > i /\ queue'[j - 1] = queue[j]
      BY <1>3, <2>2
    <3> QED BY <1>4, <3>1 DEF Newest
  <2>3. Newest(i + 1, t)
    BY <1>3, <1>4, <2>1, <2>2 DEF Newest
  <2> QED BY <1>1, <1>3, <2>1, <2>3 DEF MemoryFollowsRows
<1>5. ASSUME ~Pending(t)'
      PROVE  Alike(mem'[t], row[t])
  <2>1. \A j \in DOMAIN queue : j > 1 => queue[j].id # t
    <3>1. SUFFICES ASSUME NEW j \in DOMAIN queue, j > 1 PROVE queue[j].id # t
      OBVIOUS
    <3>2. j - 1 \in DOMAIN queue' /\ queue'[j - 1] = queue[j]
      BY <1>3, <3>1
    <3> QED BY <1>5, <3>2 DEF Pending
  <2>2. CASE queue[1].id = t
    <3>1. Newest(1, t)
      BY <1>3, <2>1, <2>2 DEF Newest
    <3>2. queue[1].row = row[t]
      BY <1>1, <1>3, <3>1 DEF MemoryFollowsRows, Newest
    <3> QED BY <1>3, <2>2, <3>2 DEF Deliver, TypeOK, Alike
  <2>3. CASE queue[1].id # t
    <3>1. ~Pending(t)
      BY <1>3, <2>1, <2>3 DEF Pending
    <3> QED BY <1>1, <1>3, <2>3, <3>1 DEF Deliver, TypeOK, MemoryFollowsRows
  <2> QED BY <2>2, <2>3
<1> QED BY <1>4, <1>5

\* A lost connection leaves a prefix of the notifications: a trigger none of
\* whose notifications is lost keeps its newest one.
LEMMA DisconnectKeepsInStep ==
  ASSUME TypeOK, MemoryFollowsRows, NEW kept \in 0 .. Len(queue), Disconnect(kept)
  PROVE  MemoryFollowsRows'
<1>1. SUFFICES ASSUME NEW t \in Ids \ stale', Exists(t)
               PROVE  /\ \A i \in DOMAIN queue' : Newest(i, t)' => queue'[i].row = row[t]
                      /\ ~Pending(t)' => Alike(mem[t], row[t])
  BY DEF MemoryFollowsRows, Disconnect, Exists
<1>2. queue \in Seq(Notification) /\ queue' = SubSeq(queue, 1, kept)
  BY DEF TypeOK, Disconnect
<1>3. /\ Len(queue) \in Nat
      /\ DOMAIN queue = 1 .. Len(queue)
      /\ DOMAIN queue' = 1 .. kept
      /\ \A i \in 1 .. kept : queue'[i] = queue[i]
  BY <1>2
<1>4. t \notin stale /\ \A i \in (kept + 1) .. Len(queue) : queue[i].id # t
  BY DEF Disconnect
<1>5. \A i \in DOMAIN queue' : Newest(i, t)' => Newest(i, t)
  BY <1>3, <1>4 DEF Newest
<1>6. Pending(t) => Pending(t)'
  BY <1>3, <1>4 DEF Pending
<1> QED BY <1>1, <1>3, <1>4, <1>5, <1>6 DEF MemoryFollowsRows

\* Memory read from the table behaves like the table.
LEMMA LoadedIsAlike == ASSUME NEW t \in Ids PROVE Alike(LoadedFrom(row)[t], row[t])
BY DEF Alike, LoadedFrom, Absent

LEMMA ReloadKeepsInStep ==
  ASSUME TypeOK, MemoryFollowsRows, Reload
  PROVE  MemoryFollowsRows'
<1>1. SUFFICES ASSUME NEW t \in Ids \ stale', Exists(t)
               PROVE  /\ \A i \in DOMAIN queue : Newest(i, t) => queue[i].row = row[t]
                      /\ Alike(mem'[t], row[t])
  BY DEF MemoryFollowsRows, Reload, Exists, Newest, Pending
<1>2. Alike(mem'[t], row[t])
  BY LoadedIsAlike DEF Reload
<1>3. t \notin stale \/ ~Pending(t)
  BY DEF Reload
<1> QED BY <1>1, <1>2, <1>3 DEF MemoryFollowsRows, Newest, Pending

LEMMA RestartKeepsInStep ==
  ASSUME TypeOK, NEW loaded \in BOOLEAN, Restart(loaded)
  PROVE  MemoryFollowsRows'
<1>1. SUFFICES ASSUME NEW t \in Ids \ stale', Exists(t)
               PROVE  Alike(mem'[t], row[t])
  BY DEF MemoryFollowsRows, Restart, Exists, Newest
<1>2. mem' = LoadedFrom(row)
  BY <1>1 DEF Restart
<1> QED BY <1>2, LoadedIsAlike

LEMMA InStep ==
  ASSUME IInv, [Next]_vars
  PROVE  MemoryFollowsRows'
<1>1. ASSUME NEW t \in Ids, NEW s \in Specs, NEW st \in Statuses,
             CreateTrigger(t, s, st) \/ UpdateTrigger(t, s, st)
      PROVE  MemoryFollowsRows'
  BY <1>1, CommitKeepsInStep DEF IInv, CreateTrigger, UpdateTrigger, ClientWrite
<1>2. ASSUME NEW t \in Ids, DeleteTrigger(t) PROVE MemoryFollowsRows'
  <2>1. Deleted.status \notin Statuses
    BY DEF Deleted, Statuses
  <2> QED BY <1>2, <2>1, CommitKeepsInStep DEF IInv, DeleteTrigger, ClientWrite
<1>3. ASSUME NEW t \in Ids, Fire(t) PROVE MemoryFollowsRows'
  BY <1>3, StatusKeepsInStep, MarkTypes DEF IInv, Fire
<1>4. ASSUME NEW t \in Ids, NEW done \in BOOLEAN, FirePriceError(t, done)
      PROVE  MemoryFollowsRows'
  <2>1. CASE done
    BY <1>4, <2>1, StatusKeepsInStep DEF FirePriceError
  <2>2. CASE ~done
    BY <1>4, <2>2 DEF FirePriceError, IInv, MemoryFollowsRows, Exists, Newest, Pending
  <2> QED BY <2>1, <2>2
<1>5. ASSUME NEW t \in Ids, NEW done \in BOOLEAN, FireCandleError(t, done)
      PROVE  MemoryFollowsRows'
  <2>1. CASE done
    BY <1>5, <2>1, StatusKeepsInStep, MarkTypes DEF FireCandleError, IInv
  <2>2. CASE ~done
    BY <1>5, <2>2, MarkTypes DEF FireCandleError, IInv, MemoryFollowsRows, Exists, Newest, Pending
  <2> QED BY <2>1, <2>2
<1>6. CASE Deliver
  BY <1>6, DeliverKeepsInStep DEF IInv
<1>7. CASE Reload
  BY <1>7, ReloadKeepsInStep DEF IInv
<1>8. CASE ReloadError
  BY <1>8 DEF ReloadError, MemoryFollowsRows
<1>9. ASSUME NEW kept \in 0 .. Len(queue), Disconnect(kept) PROVE MemoryFollowsRows'
  BY <1>9, DisconnectKeepsInStep DEF IInv
<1>10. ASSUME NEW loaded \in BOOLEAN, Restart(loaded) PROVE MemoryFollowsRows'
  BY <1>10, RestartKeepsInStep DEF IInv
<1>11. ASSUME UNCHANGED <<row, mem, queue, stale>> PROVE MemoryFollowsRows'
  BY <1>11 DEF IInv, MemoryFollowsRows, Exists, Newest, Pending
<1>12. CASE \/ \E p \in Prices : StartPrice(p)
            \/ \E tf \in Timeframes, c \in Candles : StartCandle(tf, c)
            \/ FinishScan \/ Listen \/ UNCHANGED vars
  BY <1>11, <1>12 DEF StartPrice, StartCandle, FinishScan, Listen, vars
<1> QED
  BY <1>1, <1>2, <1>3, <1>4, <1>5, <1>6, <1>7, <1>8, <1>9, <1>10, <1>12 DEF Next

-----------------------------------------------------------------------------
LEMMA Invariance == Spec => []IInv
<1>1. Init => IInv
  <2>1. Init => TypeOK
    <3>1. ASSUME Init PROVE queue \in Seq(Notification)
      <4>1. queue = << >>
        BY <3>1 DEF Init
      <4> QED BY <4>1
    <3>2. ASSUME Init PROVE hist \in [Timeframes -> Seq(Candles)]
                            /\ \A tf \in Timeframes : Len(hist[tf]) <= MaxHistory
      BY <3>2, NoHistory DEF Init
    <3>3. ASSUME Init PROVE scan \in Scans
      BY <3>3, IdleIsScan DEF Init
    <3>4. ASSUME Init PROVE writes \in 0 .. MaxWrites /\ faults \in 0 .. MaxFaults
      BY <3>4, BoundsAssumption DEF Init
    <3>5. ASSUME Init PROVE /\ row \in [Ids -> Trigger \cup {Unborn, Deleted}]
                            /\ mem \in [Ids -> Trigger \cup {Absent}]
                            /\ listening \in BOOLEAN /\ stale \subseteq Ids
      BY <3>5 DEF Init
    <3> QED BY <3>1, <3>2, <3>3, <3>4, <3>5 DEF TypeOK
  <2>2. Init => TodoActive
    BY DEF Init, TodoActive, Idle
  <2>3. Init => TodoMet
    BY DEF Init, TodoMet, Idle
  <2>4. Init => MemoryFollowsRows
    BY DEF Init, MemoryFollowsRows, Exists, Unborn, Statuses
  <2> QED BY <2>1, <2>2, <2>3, <2>4 DEF IInv
<1>2. IInv /\ [Next]_vars => IInv'
  BY TypesStep, TodoStep, TodoMetStep, InStep DEF IInv
<1> QED BY <1>1, <1>2, PTL DEF Spec

\* The types of TriggerManager's state, for every value of the constants.
THEOREM TypeCorrectness == Spec => []TypeOK
<1>1. IInv => TypeOK
  BY DEF IInv
<1> QED BY <1>1, Invariance, PTL

\* The copy of the triggers in memory follows the triggers table.
THEOREM MemoryFollows == Spec => []MemoryFollowsRows
<1>1. IInv => MemoryFollowsRows
  BY DEF IInv
<1> QED BY <1>1, Invariance, PTL

\* An alert is raised for a trigger the table holds, active and unchanged,
\* unless a write is under way or an event was lost.
THEOREM CurrentAlerts == Spec => AlertsAreCurrent
<1> DEFINE Current == \A t \in Ids : Fires(t) /\ Exists(t) /\ ~Pending(t) /\ t \notin stale
                                  => row[t] = mem[t]
<1>1. ASSUME IInv PROVE Current
  <2>1. SUFFICES ASSUME NEW t \in Ids, Fires(t), Exists(t), ~Pending(t), t \notin stale
                 PROVE  row[t] = mem[t]
    OBVIOUS
  <2>2. mem[t].status = "active"
    BY <1>1, <2>1 DEF IInv, TodoActive, Fires
  <2>3. Alike(mem[t], row[t])
    BY <1>1, <2>1 DEF IInv, MemoryFollowsRows
  <2> QED BY <2>2, <2>3 DEF Alike
<1>2. IInv /\ [Next]_vars => [Current]_vars
  BY <1>1
<1> QED BY <1>2, Invariance, PTL DEF AlertsAreCurrent, Spec

\* A trigger that is reported is armed and met when it is reported.
THEOREM TrueAlerts == Spec => AlertsAreTrue
<1> DEFINE AllMet == \A t \in Ids : Fires(t) => Met(t)
<1>1. IInv => AllMet
  BY DEF IInv, TodoMet, Fires
<1>2. IInv /\ [Next]_vars => [AllMet]_vars
  BY <1>1
<1> QED BY <1>2, Invariance, PTL DEF AlertsAreTrue, Spec
=============================================================================

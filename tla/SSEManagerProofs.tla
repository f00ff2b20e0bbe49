-------------------------- MODULE SSEManagerProofs --------------------------
(* SSEManager, for every set of clients, tables, capacities and bounds. *)
EXTENDS SSEManager, SequenceTheorems, TLAPS

\* A broadcaster in the middle of a loop has a message to send; a channel
\* that is in the registry is not closed, for a client is registered once and
\* its watcher removes it once.
SendingHasWork == \A b \in Broadcasters : sending[b] => work[b] # << >>

ClosedIsGone ==
  /\ clients \cap closed = {}
  /\ \A c \in Clients : stream[c] \in {"new", "reloaded"} => c \notin closed
  /\ \A c \in clients : stream[c] = "open"

\* Nothing has been sent to a client that is not registered yet.
NewAreEmpty == \A c \in Clients : stream[c] \in {"new", "reloaded"} => latest[c] = 0

NewestQueued == arrived # 0 /\ \E i \in 1 .. Len(updates) : updates[i] = arrived

\* The candles of the feed and of the listener: none, and none but the newest.
\* Those of the handler are old only while the newest is still queued for it,
\* and the queue has the newest last.
OldBeforeNew ==
  /\ \A j \in 1 .. Len(work[Feed]) : work[Feed][j].n = 0
  /\ \A j \in 1 .. Len(work[Listener]) : work[Listener][j].n \in {0, arrived}
  /\ ~dropped =>
       /\ \A j \in 1 .. Len(work[Handler]) :
            work[Handler][j].n \in {0, arrived} \/ NewestQueued
       /\ \A j \in 1 .. Len(updates) : updates[j] # 0 =>
            arrived # 0 /\ \E k \in j .. Len(updates) : updates[k] = arrived

\* The handler has still to send the newest candle to c.
ToCome(c) ==
  /\ arrived # 0
  /\ \/ NewestQueued
     \/ \E j \in 1 .. Len(work[Handler]) :
          /\ work[Handler][j].n = arrived
          /\ j = 1 /\ sending[Handler] => c \in todo[Handler]

\* A client that has got a candle has the newest, or the handler will send it.
NewestSent ==
  ~dropped => \A c \in clients : latest[c] \in {0, arrived} \/ ToCome(c)

InOrder == NewAreEmpty /\ OldBeforeNew /\ NewestSent

SafeSends == TypeOK /\ SendingHasWork /\ ClosedIsGone /\ SendsAreOpen

IInv == SafeSends /\ InOrder

USE DEF streamVars, registryVars, channelVars, inputVars, sendVars

LEMMA AlertsType ==
  ASSUME NEW k \in 0 .. MaxAlerts
  PROVE  Alerts(k) \in Seq(Messages)
<1>1. k \in Nat
  BY CapsAssumption
<1>2. [kind |-> "trigger", n |-> 0] \in Messages
  BY CapsAssumption DEF Messages
<1> QED BY <1>1, <1>2 DEF Alerts

\* What the listener queues and broadcasts is typed.
LEMMA NotifyTypes ==
  ASSUME TypeOK, NEW tbl \in Tables, Notify(tbl)
  PROVE  TypeOK'
<1> DEFINE n == IF tbl \in CandleTables THEN arrived + 1 ELSE 0
           m == << [kind |-> "candle", n |-> n] >>
<1>1. n \in 0 .. MaxCandles /\ arrived' \in 0 .. MaxCandles
  BY CapsAssumption DEF Notify, TypeOK
<1>2. m \in Seq(Messages) /\ m # << >>
  BY <1>1 DEF Messages
<1>3. work' \in [Broadcasters -> Seq(Messages)]
  BY <1>2 DEF Notify, TypeOK, Broadcasters
<1>4. updates' \in Seq(0 .. MaxCandles) /\ Len(updates') <= UpdatesCap /\ dropped' \in BOOLEAN
  <2>1. CASE Len(updates) < UpdatesCap
    <3>1. updates' = Append(updates, n) /\ dropped' = dropped
      BY <2>1 DEF Notify
    <3>2. Len(updates) \in Nat /\ updates \in Seq(0 .. MaxCandles)
      BY DEF TypeOK
    <3>3. Append(updates, n) \in Seq(0 .. MaxCandles) /\ Len(Append(updates, n)) = Len(updates) + 1
      BY <1>1, <3>2
    <3>4. Len(updates) + 1 <= UpdatesCap
      BY <2>1, <3>2, CapsAssumption
    <3> QED BY <3>1, <3>3, <3>4 DEF TypeOK
  <2>2. CASE ~(Len(updates) < UpdatesCap)
    BY <2>2 DEF Notify, TypeOK
  <2> QED BY <2>1, <2>2
<1> QED BY <1>1, <1>3, <1>4 DEF Notify, TypeOK

LEMMA HandleTypes ==
  ASSUME TypeOK, NEW k \in 0 .. MaxAlerts, Handle(k)
  PROVE  TypeOK'
<1>1. updates \in Seq(0 .. MaxCandles) /\ updates # << >>
  BY DEF Handle, TypeOK
<1>2. /\ Head(updates) \in 0 .. MaxCandles
      /\ Tail(updates) \in Seq(0 .. MaxCandles)
      /\ Len(Tail(updates)) = Len(updates) - 1
  BY <1>1, HeadTailProperties
<1>7. Len(updates) \in Nat
  BY <1>1
<1>3. [kind |-> "candle", n |-> Head(updates)] \in Messages
  BY <1>2 DEF Messages
<1>4. Append(Alerts(k), [kind |-> "candle", n |-> Head(updates)]) \in Seq(Messages)
  BY <1>3, AlertsType
<1>5. work' \in [Broadcasters -> Seq(Messages)]
  <2>1. << [kind |-> "candle", n |-> Head(updates)] >> \in Seq(Messages)
    BY <1>3
  <2> QED BY <1>4, <2>1 DEF Handle, TypeOK
<1>6. updates' \in Seq(0 .. MaxCandles) /\ Len(updates') <= UpdatesCap
  BY <1>2, <1>7, CapsAssumption DEF Handle, TypeOK
<1> QED BY <1>5, <1>6 DEF Handle, TypeOK

LEMMA TickTypes ==
  ASSUME TypeOK, NEW k \in 0 .. MaxAlerts, Tick(k)
  PROVE  TypeOK'
<1>1. [kind |-> "price", n |-> 0] \in Messages
  BY CapsAssumption DEF Messages
<1>2. << [kind |-> "price", n |-> 0] >> \o Alerts(k) \in Seq(Messages)
  BY <1>1, AlertsType
<1>3. work' \in [Broadcasters -> Seq(Messages)]
  BY <1>2 DEF Tick, TypeOK
<1>4. ticks' \in 0 .. MaxPrices
  BY CapsAssumption DEF Tick, TypeOK
<1> QED BY <1>3, <1>4 DEF Tick, TypeOK

LEMMA SendTypes ==
  ASSUME TypeOK, SendingHasWork, NEW b \in Broadcasters, NEW c \in Clients, SendTo(b, c)
  PROVE  TypeOK'
<1>1. Head(work[b]) \in Messages
  <2>1. work[b] \in Seq(Messages) /\ work[b] # << >>
    BY DEF TypeOK, SendingHasWork, SendTo
  <2> QED BY <2>1
<1>2. Head(work[b]).n \in 0 .. MaxCandles
  BY <1>1 DEF Messages
<1>3. buffered' \in [Clients -> 0 .. ClientCap]
  <2>1. CASE buffered[c] < ClientCap
    <3>1. buffered[c] + 1 \in 0 .. ClientCap
      BY <2>1, CapsAssumption DEF TypeOK
    <3> QED BY <2>1, <3>1 DEF SendTo, TypeOK
  <2>2. CASE ~(buffered[c] < ClientCap)
    BY <2>2 DEF SendTo, TypeOK
  <2> QED BY <2>1, <2>2
<1>4. latest' \in [Clients -> 0 .. MaxCandles]
  BY <1>2 DEF SendTo, TypeOK
<1>5. dropped' \in BOOLEAN /\ todo' \in [Broadcasters -> SUBSET Clients]
  BY DEF SendTo, TypeOK
<1> QED BY <1>3, <1>4, <1>5 DEF SendTo, TypeOK

LEMMA SafeStep ==
  ASSUME SafeSends, [Next]_vars
  PROVE  SafeSends'
<1> USE DEF SafeSends
<1>1. ASSUME NEW c \in Clients, Connect(c) PROVE SafeSends'
  BY <1>1 DEF Connect, TypeOK, SendingHasWork, ClosedIsGone, SendsAreOpen
<1>2. ASSUME NEW c \in Clients, Register(c) PROVE SafeSends'
  BY <1>2 DEF Register, TypeOK, SendingHasWork, ClosedIsGone, SendsAreOpen
<1>15. ASSUME NEW c \in Clients, Lock(c) PROVE SafeSends'
  BY <1>15 DEF Lock, TypeOK, SendingHasWork, ClosedIsGone, SendsAreOpen
<1>3. ASSUME NEW c \in Clients, HangUp(c) PROVE SafeSends'
  BY <1>3 DEF HangUp, TypeOK, SendingHasWork, ClosedIsGone, SendsAreOpen
<1>4. ASSUME NEW c \in Clients, Unregister(c) PROVE SafeSends'
  <2>1. TypeOK' /\ SendingHasWork'
    BY <1>4 DEF Unregister, TypeOK, SendingHasWork
  <2>2. ClosedIsGone'
    BY <1>4 DEF Unregister, TypeOK, ClosedIsGone
  <2>3. SendsAreOpen'
    BY <1>4 DEF Unregister, NoReader, SendsAreOpen
  <2> QED BY <2>1, <2>2, <2>3
<1>5. ASSUME NEW c \in Clients, Receive(c) PROVE SafeSends'
  <2>1. buffered' \in [Clients -> 0 .. ClientCap]
    BY <1>5, CapsAssumption DEF Receive, TypeOK
  <2> QED BY <1>5, <2>1 DEF Receive, TypeOK, SendingHasWork, ClosedIsGone, SendsAreOpen
<1>6. ASSUME NEW c \in Clients, EndStream(c) PROVE SafeSends'
  BY <1>6 DEF EndStream, TypeOK, SendingHasWork, ClosedIsGone, SendsAreOpen
<1>7. ASSUME NEW tbl \in Tables, SelectTable(tbl) PROVE SafeSends'
  BY <1>7 DEF SelectTable, TypeOK, SendingHasWork, ClosedIsGone, SendsAreOpen
<1>8. ASSUME NEW tbl \in Tables, Notify(tbl) PROVE SafeSends'
  <2>1. SendingHasWork'
    BY <1>8 DEF Notify, Idle, TypeOK, SendingHasWork
  <2> QED BY <1>8, <2>1, NotifyTypes DEF Notify, ClosedIsGone, SendsAreOpen
<1>9. ASSUME NEW k \in 0 .. MaxAlerts, Handle(k) PROVE SafeSends'
  <2>1. SendingHasWork'
    BY <1>9 DEF Handle, Idle, TypeOK, SendingHasWork
  <2> QED BY <1>9, <2>1, HandleTypes DEF Handle, ClosedIsGone, SendsAreOpen
<1>10. ASSUME NEW k \in 0 .. MaxAlerts, Tick(k) PROVE SafeSends'
  <2>1. SendingHasWork'
    BY <1>10 DEF Tick, Idle, TypeOK, SendingHasWork
  <2> QED BY <1>10, <2>1, TickTypes DEF Tick, ClosedIsGone, SendsAreOpen
<1>11. ASSUME NEW b \in Broadcasters, BeginSend(b) PROVE SafeSends'
  BY <1>11 DEF BeginSend, Idle, TypeOK, SendingHasWork, ClosedIsGone, SendsAreOpen
<1>12. ASSUME NEW b \in Broadcasters, EndSend(b) PROVE SafeSends'
  <2>1. work[b] \in Seq(Messages) /\ work[b] # << >>
    BY <1>12 DEF EndSend, TypeOK, SendingHasWork
  <2>2. Tail(work[b]) \in Seq(Messages)
    BY <2>1
  <2>3. TypeOK'
    BY <1>12, <2>2 DEF EndSend, TypeOK
  <2>4. SendingHasWork'
    BY <1>12 DEF EndSend, TypeOK, SendingHasWork
  <2> QED BY <1>12, <2>3, <2>4 DEF EndSend, TypeOK, ClosedIsGone, SendsAreOpen
<1>13. ASSUME NEW b \in Broadcasters, NEW c \in Clients, SendTo(b, c) PROVE SafeSends'
  <2>1. SendsAreOpen'
    BY <1>13 DEF SendTo, TypeOK, SendsAreOpen
  <2> QED BY <1>13, <2>1, SendTypes DEF SendTo, SendingHasWork, ClosedIsGone
<1>14. CASE UNCHANGED vars
  BY <1>14 DEF vars, TypeOK, SendingHasWork, ClosedIsGone, SendsAreOpen
<1> QED
  BY <1>1, <1>2, <1>3, <1>4, <1>5, <1>6, <1>7, <1>8, <1>9, <1>10, <1>11, <1>12,
     <1>13, <1>14, <1>15 DEF Next

-----------------------------------------------------------------------------
(* The newest candle comes last: InOrder, action by action. *)

\* Where the elements of a sequence are in its tail.
LEMMA TailIndex ==
  ASSUME NEW S, NEW s \in Seq(S), s # << >>
  PROVE  /\ Len(s) \in Nat \ {0} /\ Head(s) = s[1] /\ Head(s) \in S
         /\ Len(Tail(s)) = Len(s) - 1
         /\ \A j \in 1 .. Len(s) - 1 : Tail(s)[j] = s[j + 1]
<1>1. Len(s) \in Nat \ {0} /\ Head(s) = s[1]
  OBVIOUS
<1>2. /\ Head(s) \in S
      /\ Len(Tail(s)) = Len(s) - 1
      /\ \A j \in 1 .. Len(Tail(s)) : Tail(s)[j] = s[j + 1]
  BY HeadTailProperties
<1> QED BY <1>1, <1>2

\* A step of a stream, of SelectTable or of the start of a broadcast leaves
\* what is queued as it is; a client that is added has got nothing, and the
\* handler's broadcast starts with all clients.
LEMMA StreamOrder ==
  ASSUME TypeOK, SendingHasWork, InOrder,
         UNCHANGED <<latest, updates, arrived, work, dropped>>,
         \A c \in Clients : stream'[c] \in {"new", "reloaded"} => stream[c] \in {"new", "reloaded"},
         \A c \in clients' : c \in clients \/ stream[c] = "reloaded",
         clients' \subseteq Clients,
         \/ todo'[Handler] = clients'
         \/ todo'[Handler] = todo[Handler] /\ (sending'[Handler] => sending[Handler])
  PROVE  InOrder'
<1>1. NewAreEmpty'
  BY DEF InOrder, NewAreEmpty
<1>2. OldBeforeNew'
  BY DEF InOrder, OldBeforeNew, NewestQueued
<1>3. ASSUME NEW c \in clients', ~dropped', latest'[c] \notin {0, arrived'}
      PROVE  ToCome(c)'
  <2>1. c \in clients /\ ToCome(c)
    BY <1>3 DEF InOrder, NewAreEmpty, NewestSent
  <2> QED BY <2>1, <1>3 DEF ToCome, NewestQueued
<1> QED BY <1>1, <1>2, <1>3 DEF InOrder, NewestSent

\* A new candle is queued behind all others, or has been dropped.
LEMMA NotifyOrder ==
  ASSUME TypeOK, InOrder, NEW tbl \in Tables, Notify(tbl)
  PROVE  InOrder'
<1> DEFINE n == IF tbl \in CandleTables THEN arrived + 1 ELSE 0
<1>1. /\ arrived \in Nat /\ updates \in Seq(0 .. MaxCandles) /\ Len(updates) \in Nat
      /\ work \in [Broadcasters -> Seq(Messages)]
      /\ Listener \in Broadcasters /\ Handler \in Broadcasters /\ Feed \in Broadcasters
      /\ Listener # Handler /\ Listener # Feed
  BY CapsAssumption DEF TypeOK, Broadcasters, Listener, Handler, Feed
<1>2. /\ n \in Nat /\ n \in {0, arrived'} /\ n \in 0 .. MaxCandles
      /\ arrived' = IF n = 0 THEN arrived ELSE n
      /\ n = 0 \/ n = arrived + 1
  BY <1>1, CapsAssumption DEF Notify, TypeOK
<1>3. /\ work'[Listener] = << [kind |-> "candle", n |-> n] >>
      /\ work'[Handler] = work[Handler] /\ work'[Feed] = work[Feed]
  BY <1>1 DEF Notify
<1>4. UNCHANGED <<stream, latest, clients, sending, todo>>
  BY DEF Notify
<1>5. ~dropped' => ~dropped /\ updates' = Append(updates, n)
  BY <1>1 DEF Notify
<1> HIDE DEF n
<1>6. NewAreEmpty'
  BY <1>4 DEF InOrder, NewAreEmpty
<1>7. \A j \in 1 .. Len(work'[Listener]) : work'[Listener][j].n \in {0, arrived'}
  BY <1>2, <1>3
<1>8. \A j \in 1 .. Len(work'[Feed]) : work'[Feed][j].n = 0
  BY <1>3 DEF InOrder, OldBeforeNew
<1>9. CASE ~dropped'
  <2>0. updates' = Append(updates, n)
    BY <1>5, <1>9
  <2>1. /\ Len(updates') = Len(updates) + 1 /\ updates'[Len(updates) + 1] = n
        /\ \A j \in 1 .. Len(updates) : updates'[j] = updates[j]
    BY <1>1, <1>2, <2>0
  <2>2. CASE n = 0
    <3>1. arrived' = arrived
      BY <1>2, <2>2
    <3>2. NewestQueued => NewestQueued'
      BY <1>1, <2>1, <3>1 DEF NewestQueued
    <3>3. \A j \in 1 .. Len(work'[Handler]) : work'[Handler][j].n \in {0, arrived'} \/ NewestQueued'
      BY <1>3, <1>5, <1>9, <3>1, <3>2 DEF InOrder, OldBeforeNew
    <3>4. ASSUME NEW j \in 1 .. Len(updates'), updates'[j] # 0
          PROVE  arrived' # 0 /\ \E k \in j .. Len(updates') : updates'[k] = arrived'
      <4>1. j \in 1 .. Len(updates)
        BY <1>1, <2>1, <2>2, <3>4
      <4>2. PICK k \in j .. Len(updates) : updates[k] = arrived /\ arrived # 0
        BY <4>1, <1>5, <1>9, <2>1, <3>4 DEF InOrder, OldBeforeNew
      <4>3. k \in j .. Len(updates') /\ updates'[k] = arrived'
        BY <1>1, <2>1, <3>1, <4>1, <4>2
      <4> QED BY <3>1, <4>2, <4>3
    <3>5. ASSUME NEW c \in clients', latest'[c] \notin {0, arrived'} PROVE ToCome(c)'
      BY <1>3, <1>4, <1>5, <1>9, <3>1, <3>2, <3>5 DEF InOrder, NewestSent, ToCome
    <3> QED BY <1>6, <1>7, <1>8, <3>3, <3>4, <3>5 DEF InOrder, OldBeforeNew, NewestSent
  <2>3. CASE n # 0
    <3>1. arrived' = n /\ arrived' # 0
      BY <1>2, <2>3
    <3>2. Len(updates) + 1 \in 1 .. Len(updates') /\ updates'[Len(updates) + 1] = arrived'
      BY <1>1, <2>1, <3>1
    <3>3. NewestQueued'
      BY <3>1, <3>2 DEF NewestQueued
    <3>4. \A j \in 1 .. Len(updates') : arrived' # 0 /\ \E k \in j .. Len(updates') : updates'[k] = arrived'
      BY <1>1, <2>1, <3>1, <3>2
    <3>5. \A c \in clients' : ToCome(c)'
      BY <3>1, <3>3 DEF ToCome
    <3> QED BY <1>6, <1>7, <1>8, <3>3, <3>4, <3>5 DEF InOrder, OldBeforeNew, NewestSent
  <2> QED BY <2>2, <2>3
<1>10. CASE dropped'
  BY <1>6, <1>7, <1>8, <1>10 DEF InOrder, OldBeforeNew, NewestSent
<1> QED BY <1>9, <1>10

\* The handler takes candles in the order they were queued in: what it takes
\* is the newest, or the newest is still behind it.
LEMMA HandleOrder ==
  ASSUME TypeOK, SendingHasWork, InOrder, NEW k \in 0 .. MaxAlerts, Handle(k)
  PROVE  InOrder'
<1> DEFINE x == Head(updates)
           m == Append(Alerts(k), [kind |-> "candle", n |-> x])
<1>1. /\ arrived \in Nat /\ updates \in Seq(0 .. MaxCandles) /\ updates # << >>
      /\ work \in [Broadcasters -> Seq(Messages)] /\ k \in Nat
      /\ Listener \in Broadcasters /\ Handler \in Broadcasters /\ Feed \in Broadcasters
      /\ Handler # Listener /\ Handler # Feed
  BY CapsAssumption DEF Handle, TypeOK, Broadcasters, Listener, Handler, Feed
<1>2. /\ x = updates[1] /\ x \in 0 .. MaxCandles /\ Len(updates) \in Nat
      /\ Len(Tail(updates)) = Len(updates) - 1
      /\ \A j \in 1 .. Len(updates) - 1 : Tail(updates)[j] = updates[j + 1]
  BY <1>1, TailIndex
<1>3. /\ Len(m) = k + 1 /\ m[k + 1].n = x
      /\ \A j \in 1 .. k : m[j].n = 0
  <2>1. /\ Alerts(k) \in Seq(Messages) /\ Len(Alerts(k)) = k
        /\ \A j \in 1 .. k : Alerts(k)[j].n = 0
    <3>1. Alerts(k) \in Seq(Messages)
      BY AlertsType
    <3>2. Len(Alerts(k)) = k /\ \A j \in 1 .. k : Alerts(k)[j] = [kind |-> "trigger", n |-> 0]
      BY <1>1 DEF Alerts
    <3> QED BY <3>1, <3>2
  <2>2. [kind |-> "candle", n |-> x] \in Messages
    BY <1>2 DEF Messages
  <2>3. /\ Len(m) = Len(Alerts(k)) + 1
        /\ m[Len(Alerts(k)) + 1] = [kind |-> "candle", n |-> x]
        /\ \A j \in 1 .. Len(Alerts(k)) : m[j] = Alerts(k)[j]
    BY <2>1, <2>2
  <2> QED BY <1>1, <2>1, <2>3
<1>4. /\ work[Handler] = << >> /\ ~sending[Handler]
      /\ updates' = Tail(updates)
      /\ x # 0 => work'[Handler] = m
      /\ x = 0 => work'[Handler] = << >> \/ work'[Handler] = << [kind |-> "candle", n |-> 0] >>
      /\ work'[Listener] = work[Listener] /\ work'[Feed] = work[Feed]
      /\ UNCHANGED <<stream, latest, clients, sending, todo, arrived, dropped>>
  BY <1>1 DEF Handle, Idle, SendingHasWork
<1> HIDE DEF x, m
<1>5. ASSUME arrived # x, NewestQueued PROVE NewestQueued'
  <2>1. PICK j \in 1 .. Len(updates) : updates[j] = arrived
    BY <1>5 DEF NewestQueued
  <2>2. j - 1 \in 1 .. Len(updates') /\ updates'[j - 1] = arrived'
    BY <1>2, <1>4, <1>5, <2>1
  <2> QED BY <1>4, <1>5, <2>2 DEF NewestQueued
<1>6. ~dropped /\ x # 0 => x = arrived \/ NewestQueued'
  <2>1. SUFFICES ASSUME ~dropped, x # 0, x # arrived PROVE NewestQueued'
    OBVIOUS
  <2>2. 1 \in 1 .. Len(updates) /\ updates[1] # 0
    BY <1>1, <1>2, <2>1
  <2>3. NewestQueued
    BY <2>1, <2>2 DEF InOrder, OldBeforeNew, NewestQueued
  <2> QED BY <1>5, <2>1, <2>3
<1>7. ~dropped =>
        /\ \A j \in 1 .. Len(work'[Handler]) : work'[Handler][j].n \in {0, arrived'} \/ NewestQueued'
        /\ \A j \in 1 .. Len(updates') : updates'[j] # 0 =>
             arrived' # 0 /\ \E l \in j .. Len(updates') : updates'[l] = arrived'
  <2> SUFFICES ASSUME ~dropped
               PROVE  /\ \A j \in 1 .. Len(work'[Handler]) :
                           work'[Handler][j].n \in {0, arrived'} \/ NewestQueued'
                      /\ \A j \in 1 .. Len(updates') : updates'[j] # 0 =>
                           arrived' # 0 /\ \E l \in j .. Len(updates') : updates'[l] = arrived'
    OBVIOUS
  <2>1. ASSUME NEW j \in 1 .. Len(work'[Handler])
        PROVE  work'[Handler][j].n \in {0, arrived'} \/ NewestQueued'
    <3>1. CASE x = 0
      <4>1. work'[Handler][j].n = 0
        BY <1>4, <2>1, <3>1
      <4> QED BY <4>1
    <3>2. CASE x # 0
      <4>1. j \in 1 .. k + 1 /\ work'[Handler] = m
        BY <1>3, <1>4, <2>1, <3>2
      <4>2. m[j].n = 0 \/ m[j].n = x
        BY <1>1, <1>3, <4>1
      <4> QED BY <1>4, <1>6, <3>2, <4>1, <4>2
    <3> QED BY <3>1, <3>2
  <2>2. ASSUME NEW j \in 1 .. Len(updates'), updates'[j] # 0
        PROVE  arrived' # 0 /\ \E l \in j .. Len(updates') : updates'[l] = arrived'
    <3>1. j + 1 \in 1 .. Len(updates) /\ updates[j + 1] # 0
      BY <1>2, <1>4, <2>2
    <3>2. PICK l \in j + 1 .. Len(updates) : updates[l] = arrived /\ arrived # 0
      BY <3>1 DEF InOrder, OldBeforeNew
    <3>3. l - 1 \in j .. Len(updates') /\ updates'[l - 1] = arrived'
      BY <1>2, <1>4, <3>1, <3>2
    <3> QED BY <1>4, <3>2, <3>3
  <2> QED BY <2>1, <2>2
<1>8. NewAreEmpty' /\ OldBeforeNew'
  BY <1>4, <1>7 DEF InOrder, NewAreEmpty, OldBeforeNew
<1>9. ASSUME NEW c \in clients', ~dropped', latest'[c] \notin {0, arrived'}
      PROVE  ToCome(c)'
  <2>1. ToCome(c)
    BY <1>4, <1>9 DEF InOrder, NewestSent
  <2>2. arrived # 0 /\ NewestQueued
    BY <1>4, <2>1 DEF ToCome
  <2>3. CASE x = arrived
    <3>1. k + 1 \in 1 .. Len(work'[Handler]) /\ work'[Handler][k + 1].n = arrived'
      BY <1>1, <1>3, <1>4, <2>2, <2>3
    <3> QED BY <1>4, <2>2, <3>1 DEF ToCome
  <2>4. CASE x # arrived
    BY <1>1, <1>4, <1>5, <2>2, <2>4 DEF ToCome
  <2> QED BY <2>3, <2>4
<1> QED BY <1>8, <1>9 DEF InOrder, NewestSent

\* The feed sends no candles.
LEMMA TickOrder ==
  ASSUME TypeOK, InOrder, NEW k \in 0 .. MaxAlerts, Tick(k)
  PROVE  InOrder'
<1> DEFINE m == << [kind |-> "price", n |-> 0] >> \o Alerts(k)
<1>1. /\ Listener \in Broadcasters /\ Handler \in Broadcasters /\ Feed \in Broadcasters
      /\ Feed # Listener /\ Feed # Handler /\ k \in Nat
  BY CapsAssumption DEF Broadcasters, Listener, Handler, Feed
<1>2. \A j \in 1 .. Len(m) : m[j].n = 0
  <2>1. /\ Alerts(k) \in Seq(Messages) /\ Len(Alerts(k)) = k
        /\ \A j \in 1 .. k : Alerts(k)[j].n = 0
    BY <1>1, AlertsType DEF Alerts
  <2>2. << [kind |-> "price", n |-> 0] >> \in Seq(Messages)
    BY CapsAssumption DEF Messages
  <2>3. /\ Len(m) = 1 + k
        /\ \A j \in 1 .. Len(m) :
             m[j] = IF j <= 1 THEN << [kind |-> "price", n |-> 0] >>[j] ELSE Alerts(k)[j - 1]
    BY <1>1, <2>1, <2>2
  <2> QED BY <1>1, <2>1, <2>3
<1>3. /\ work'[Feed] = m
      /\ work'[Listener] = work[Listener] /\ work'[Handler] = work[Handler]
      /\ UNCHANGED <<stream, latest, updates, arrived, clients, sending, todo, dropped>>
  BY <1>1 DEF Tick, TypeOK
<1> HIDE DEF m
<1>4. NewAreEmpty' /\ OldBeforeNew'
  BY <1>2, <1>3 DEF InOrder, NewAreEmpty, OldBeforeNew, NewestQueued
<1>5. \A c \in Clients : ToCome(c) => ToCome(c)'
  BY <1>3 DEF ToCome, NewestQueued
<1> QED BY <1>3, <1>4, <1>5 DEF TypeOK, InOrder, NewestSent

\* A send is of the newest candle, or of an old one or none while the newest
\* is still to come.
LEMMA SendOrder ==
  ASSUME IInv, NEW b \in Broadcasters, NEW c \in Clients, SendTo(b, c)
  PROVE  InOrder'
<1> DEFINE n == Head(work[b]).n
<1>1. /\ TypeOK /\ InOrder /\ sending[b] /\ work[b] # << >> /\ c \in clients
      /\ work[b] \in Seq(Messages) /\ arrived \in Nat
  BY DEF IInv, SafeSends, SendTo, SendingHasWork, SendsAreOpen, TypeOK
<1>2. /\ 1 \in 1 .. Len(work[b]) /\ n = work[b][1].n
      /\ Handler \in Broadcasters
      /\ b = Handler \/ b = Listener \/ b = Feed
  BY <1>1 DEF Broadcasters
<1>3. UNCHANGED <<stream, clients, updates, arrived, work, sending>>
  BY DEF SendTo
<1>4. /\ \A d \in Clients : d # c => latest'[d] = latest[d]
      /\ dropped => dropped'
      /\ ~dropped' => ~dropped /\ latest'[c] = IF n = 0 THEN latest[c] ELSE n
      /\ dropped' => UNCHANGED latest \/ dropped
  BY <1>1 DEF SendTo, TypeOK
<1> HIDE DEF n
<1>5. NewAreEmpty'
  <2>1. stream[c] = "open"
    BY <1>1 DEF IInv, SafeSends, ClosedIsGone
  <2> QED BY <1>1, <1>3, <1>4, <2>1 DEF InOrder, NewAreEmpty
<1>6. OldBeforeNew'
  BY <1>1, <1>3, <1>4 DEF InOrder, OldBeforeNew, NewestQueued
<1>7. ASSUME NEW d \in clients', ~dropped', latest'[d] \notin {0, arrived'}
      PROVE  ToCome(d)'
  <2>1. d \in Clients /\ d \in clients /\ ~dropped
    BY <1>1, <1>3, <1>4, <1>7 DEF TypeOK
  <2>2. CASE d # c
    <3>1. ToCome(d)
      BY <1>1, <1>3, <1>4, <1>7, <2>1, <2>2 DEF InOrder, NewestSent
    <3>2. d \in todo[Handler] => d \in todo'[Handler]
      BY <1>1, <1>2, <2>2 DEF SendTo, TypeOK
    <3> QED BY <1>3, <3>1, <3>2 DEF ToCome, NewestQueued
  <2>3. CASE d = c
    <3>1. CASE n = 0
      <4>1. ToCome(c)
        BY <1>1, <1>3, <1>4, <1>7, <2>1, <2>3, <3>1 DEF InOrder, NewestSent
      <4>2. CASE b = Handler
        <5>1. arrived # 0 /\ work[Handler][1].n # arrived
          BY <1>2, <3>1, <4>1, <4>2 DEF ToCome
        <5> QED BY <1>3, <2>3, <4>1, <5>1 DEF ToCome, NewestQueued
      <4>3. CASE b # Handler
        <5>1. todo'[Handler] = todo[Handler]
          BY <1>1, <1>2, <4>3 DEF SendTo, TypeOK
        <5> QED BY <1>3, <2>3, <4>1, <5>1 DEF ToCome, NewestQueued
      <4> QED BY <4>2, <4>3
    <3>2. CASE n # 0
      <4>1. n # arrived
        BY <1>3, <1>4, <1>7, <2>3, <3>2
      <4>2. b = Handler
        BY <1>1, <1>2, <3>2, <4>1 DEF InOrder, OldBeforeNew
      <4>3. NewestQueued
        BY <1>1, <1>2, <2>1, <3>2, <4>1, <4>2 DEF InOrder, OldBeforeNew
      <4> QED BY <1>3, <4>3 DEF ToCome, NewestQueued
    <3> QED BY <3>1, <3>2
  <2> QED BY <2>2, <2>3
<1> QED BY <1>5, <1>6, <1>7 DEF InOrder, NewestSent

\* The message is dropped from the work only when all clients had it.
LEMMA EndOrder ==
  ASSUME TypeOK, SendingHasWork, InOrder, NEW b \in Broadcasters, EndSend(b)
  PROVE  InOrder'
<1>1. /\ work[b] \in Seq(Messages) /\ work[b] # << >> /\ sending[b] /\ todo[b] = {}
      /\ Handler \in Broadcasters /\ Listener \in Broadcasters /\ Feed \in Broadcasters
  BY DEF EndSend, SendingHasWork, TypeOK, Broadcasters
<1>3. /\ ~sending'[b]
      /\ \A d \in Broadcasters : d # b => sending'[d] = sending[d]
      /\ UNCHANGED <<stream, latest, updates, arrived, clients, todo, dropped>>
  BY <1>1 DEF EndSend, TypeOK
<1>8. /\ work'[b] = Tail(work[b])
      /\ \A d \in Broadcasters : d # b => work'[d] = work[d]
  BY <1>1 DEF EndSend, TypeOK
<1>2. /\ Len(work[b]) \in Nat /\ Len(work'[b]) = Len(work[b]) - 1
      /\ \A j \in 1 .. Len(work[b]) - 1 : work'[b][j] = work[b][j + 1]
  <2>1. /\ Len(work[b]) \in Nat /\ Len(Tail(work[b])) = Len(work[b]) - 1
        /\ \A j \in 1 .. Len(work[b]) - 1 : Tail(work[b])[j] = work[b][j + 1]
    BY <1>1, TailIndex
  <2> QED BY <1>8, <2>1
<1>4. ASSUME NEW d \in Broadcasters, NEW j \in 1 .. Len(work'[d])
      PROVE  \E l \in 1 .. Len(work[d]) : work'[d][j] = work[d][l]
  <2>1. CASE d = b
    <3>1. j + 1 \in 1 .. Len(work[b]) /\ work'[b][j] = work[b][j + 1]
      BY <1>2, <1>4, <2>1
    <3> QED BY <2>1, <3>1
  <2>2. CASE d # b
    BY <1>8, <2>2
  <2> QED BY <2>1, <2>2
<1>5. NewAreEmpty'
  BY <1>3 DEF InOrder, NewAreEmpty
<1>6. OldBeforeNew'
  <2>1. \A j \in 1 .. Len(work'[Feed]) : work'[Feed][j].n = 0
    BY <1>1, <1>4 DEF InOrder, OldBeforeNew
  <2>2. \A j \in 1 .. Len(work'[Listener]) : work'[Listener][j].n \in {0, arrived}
    BY <1>1, <1>4 DEF InOrder, OldBeforeNew
  <2>3. ~dropped => \A j \in 1 .. Len(work'[Handler]) : work'[Handler][j].n \in {0, arrived} \/ NewestQueued
    BY <1>1, <1>4 DEF InOrder, OldBeforeNew
  <2> QED BY <1>3, <2>1, <2>2, <2>3 DEF InOrder, OldBeforeNew, NewestQueued
<1>7. ASSUME NEW c \in clients', ~dropped', latest'[c] \notin {0, arrived'}
      PROVE  ToCome(c)'
  <2>1. ToCome(c)
    BY <1>3, <1>7 DEF InOrder, NewestSent
  <2>2. CASE NewestQueued
    BY <1>3, <2>1, <2>2 DEF ToCome, NewestQueued
  <2>3. CASE b # Handler
    BY <1>1, <1>3, <1>8, <2>1, <2>3 DEF ToCome, NewestQueued
  <2>4. CASE ~NewestQueued /\ b = Handler
    <3>1. PICK j \in 1 .. Len(work[Handler]) : work[Handler][j].n = arrived /\ j # 1
      BY <1>1, <2>1, <2>4 DEF ToCome
    <3>2. j - 1 \in 1 .. Len(work'[Handler]) /\ work'[Handler][j - 1].n = arrived
      BY <1>2, <2>4, <3>1
    <3> QED BY <1>3, <2>1, <2>4, <3>2 DEF ToCome
  <2> QED BY <2>2, <2>3, <2>4
<1> QED BY <1>5, <1>6, <1>7 DEF InOrder, NewestSent

LEMMA OrderStep ==
  ASSUME IInv, [Next]_vars
  PROVE  InOrder'
<1>0. TypeOK /\ SendingHasWork /\ ClosedIsGone /\ InOrder /\ Handler \in Broadcasters
  BY DEF IInv, SafeSends, Broadcasters
<1>1. ASSUME NEW c \in Clients, Connect(c) PROVE InOrder'
  BY <1>0, <1>1, StreamOrder DEF Connect, TypeOK
<1>2. ASSUME NEW c \in Clients, Register(c) PROVE InOrder'
  BY <1>0, <1>2, StreamOrder DEF Register, TypeOK
<1>10. ASSUME NEW c \in Clients, Lock(c) PROVE InOrder'
  BY <1>0, <1>10, StreamOrder DEF Lock, TypeOK
<1>3. ASSUME NEW c \in Clients, HangUp(c) PROVE InOrder'
  BY <1>0, <1>3, StreamOrder DEF HangUp, TypeOK
<1>4. ASSUME NEW c \in Clients, Unregister(c) PROVE InOrder'
  BY <1>0, <1>4, StreamOrder DEF Unregister, TypeOK
<1>5. ASSUME NEW c \in Clients, Receive(c) PROVE InOrder'
  BY <1>0, <1>5, StreamOrder DEF Receive, TypeOK
<1>6. ASSUME NEW c \in Clients, EndStream(c) PROVE InOrder'
  BY <1>0, <1>6, StreamOrder DEF EndStream, TypeOK
<1>7. ASSUME NEW tbl \in Tables, SelectTable(tbl) PROVE InOrder'
  BY <1>0, <1>7, StreamOrder DEF SelectTable, TypeOK
<1>8. ASSUME NEW b \in Broadcasters, BeginSend(b) PROVE InOrder'
  <2>1. clients' \subseteq Clients /\ clients' = clients /\ stream' = stream
    BY <1>0, <1>8 DEF BeginSend, TypeOK
  <2>2. \/ todo'[Handler] = clients'
        \/ todo'[Handler] = todo[Handler] /\ (sending'[Handler] => sending[Handler])
    <3>1. CASE b = Handler
      BY <1>0, <1>8, <3>1 DEF BeginSend, TypeOK
    <3>2. CASE b # Handler
      BY <1>0, <1>8, <3>2 DEF BeginSend, TypeOK
    <3> QED BY <3>1, <3>2
  <2>3. UNCHANGED <<latest, updates, arrived, work, dropped>>
    BY <1>8 DEF BeginSend
  <2> QED BY <1>0, <2>1, <2>2, <2>3, StreamOrder
<1>9. CASE UNCHANGED vars
  BY <1>0, <1>9, StreamOrder DEF vars, TypeOK
<1> QED
  BY <1>0, <1>1, <1>2, <1>3, <1>4, <1>5, <1>6, <1>7, <1>8, <1>9, <1>10,
     NotifyOrder, HandleOrder, TickOrder, SendOrder, EndOrder DEF Next

-----------------------------------------------------------------------------
LEMMA InitIInv == Init => IInv
<1> SUFFICES ASSUME Init PROVE IInv
  OBVIOUS
<1>1. updates \in Seq(0 .. MaxCandles) /\ Len(updates) <= UpdatesCap
  <2>1. updates = << >>
    BY DEF Init
  <2>2. 0 <= UpdatesCap
    BY CapsAssumption
  <2> QED BY <2>1, <2>2
<1>2. work \in [Broadcasters -> Seq(Messages)]
  <2>1. work = [b \in Broadcasters |-> << >>]
    BY DEF Init
  <2> QED BY <2>1
<1>3. /\ buffered \in [Clients -> 0 .. ClientCap]
      /\ latest \in [Clients -> 0 .. MaxCandles]
      /\ arrived \in 0 .. MaxCandles
      /\ ticks \in 0 .. MaxPrices
  BY CapsAssumption DEF Init
<1>4. TypeOK
  BY <1>1, <1>2, <1>3 DEF Init, TypeOK
<1>5. SafeSends
  BY <1>4 DEF Init, SafeSends, SendingHasWork, ClosedIsGone, SendsAreOpen
<1>6. \A b \in Broadcasters : Len(work[b]) = 0
  BY DEF Init
<1>7. InOrder
  BY <1>6 DEF Init, InOrder, NewAreEmpty, OldBeforeNew, NewestSent, Broadcasters
<1> QED BY <1>5, <1>7 DEF IInv

LEMMA Invariance == Spec => []IInv
<1>1. IInv /\ [Next]_vars => IInv'
  BY SafeStep, OrderStep DEF IInv
<1> QED BY InitIInv, <1>1, PTL DEF Spec

\* The types of SSEManager's state, in particular that no channel holds more
\* than its capacity.
THEOREM TypeCorrectness == Spec => []TypeOK
<1>1. IInv => TypeOK
  BY DEF IInv, SafeSends
<1> QED BY <1>1, Invariance, PTL

\* No broadcast reaches a closed channel, in any interleaving of streams
\* that open and end with any number of broadcasts.
THEOREM OpenSends == Spec => []SendsAreOpen
<1>1. IInv => SendsAreOpen
  BY DEF IInv, SafeSends
<1> QED BY <1>1, Invariance, PTL

\* Nothing dropped, the newest candle is the last each stream has got, for
\* any number of clients, candles and alerts, and channels of any size.
THEOREM NewestLast == Spec => []NewestCandleLast
<1>1. IInv => NewestCandleLast
  <2> SUFFICES ASSUME IInv, updates = << >>, \A b \in Broadcasters : Idle(b), ~dropped,
                      NEW c \in clients
               PROVE  latest[c] \in {0, arrived}
    BY DEF NewestCandleLast
  <2>1. Len(updates) = 0 /\ Len(work[Handler]) = 0
    BY DEF Idle, Broadcasters
  <2>2. ~ToCome(c)
    BY <2>1 DEF ToCome, NewestQueued
  <2> QED BY <2>2 DEF IInv, InOrder, NewestSent
<1> QED BY <1>1, Invariance, PTL
=============================================================================

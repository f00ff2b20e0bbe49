----------------------------- MODULE SSEManager -----------------------------
(***************************************************************************)
(* The fan-out of events to browser streams (sse/sse.go): the registry of  *)
(* client channels under clientMux, ServeHTTP and the goroutine it starts  *)
(* to wait for the end of a request, the three goroutines that broadcast   *)
(* (the listener of database notifications, the handler of the channel     *)
(* candleUpdates, and a market feed), and the candle pipeline between the  *)
(* first two.                                                              *)
(*                                                                         *)
(* BroadcastMessage holds clientMux for reading over several steps, one    *)
(* per client.  AddClient and RemoveClient hold it for writing: a writer   *)
(* announces itself (Lock), which keeps further readers out, and does its  *)
(* work in one step when those inside are gone.  clientMux is a RWMutex,   *)
(* and announces one writer at a time.                                     *)
(* A channel is the number of messages it holds and the newest candle put  *)
(* into it; candles are numbered in the order the listener meets them.     *)
(***************************************************************************)
EXTENDS Integers, Sequences, FiniteSets

CONSTANTS
  Clients,       \* requests to /trigger/stream
  Tables,        \* tables that may be selected and notify, candle tables or not
  CandleTables,  \* those whose name has the form product_quote_timeframe_exchange
  Contains,      \* pairs of tables: the name of the first contains that of the second
  ClientCap,     \* capacity of a client channel (1000 in the code)
  UpdatesCap,    \* capacity of candleUpdates (100 in the code)
  MaxCandles,    \* bound: notifications of candle tables
  MaxPrices,     \* bound: ticks of the market feed
  MaxAlerts      \* bound: triggers one candle or tick fires

ASSUME CapsAssumption ==
  /\ CandleTables \subseteq Tables
  /\ Contains \subseteq Tables \X Tables
  /\ \A tbl \in Tables : <<tbl, tbl>> \in Contains
  /\ ClientCap \in Nat \ {0}
  /\ UpdatesCap \in Nat \ {0}
  /\ MaxCandles \in Nat
  /\ MaxPrices \in Nat
  /\ MaxAlerts \in Nat

Listener == "listener"   \* ListenForDBChanges
Handler  == "handler"    \* handleCandleUpdates
Feed     == "feed"       \* CoinbaseAPI.handleWebsocketMessages
Broadcasters == {Listener, Handler, Feed}

NoTable == "none"        \* selectedTable is "": contained in every table name

Nobody == "nobody"       \* no writer waits

\* Candle number n, a row of some other table broadcast as if it were a
\* candle (n = 0), an alert, a price.
Messages == [kind : {"candle", "trigger", "price"}, n : 0 .. MaxCandles]

VARIABLES
  stream,     \* per client, how far its ServeHTTP is
  connected,  \* clients whose request context is not done
  watcher,    \* per client, the goroutine that waits for the context
  clients,    \* SSEManager.clients: the registered channels
  closed,     \* channels RemoveClient has closed
  writer,     \* the client for which clientMux.Lock waits, or Nobody
  buffered,   \* per client, messages in its channel
  latest,     \* per client, the newest candle ever put into its channel
  selected,   \* selectedTable
  updates,    \* candleUpdates
  arrived,    \* candles the listener has met
  ticks,      \* prices the feed has reported
  work,       \* per broadcaster, the messages it has still to broadcast
  sending,    \* per broadcaster: it holds clientMux for reading
  todo,       \* per broadcaster, the clients its loop has still to visit
  dropped     \* ghost: a full channel has lost something

streamVars   == <<stream, connected, watcher>>
registryVars == <<clients, closed, writer>>
channelVars  == <<buffered, latest>>
inputVars    == <<selected, updates, arrived, ticks>>
sendVars     == <<work, sending, todo>>
vars == <<streamVars, registryVars, channelVars, inputVars, sendVars, dropped>>

TypeOK ==
  /\ stream \in [Clients -> {"new", "reloaded", "open", "done"}]
  /\ connected \subseteq Clients
  /\ watcher \in [Clients -> {"none", "waiting", "done"}]
  /\ clients \subseteq Clients
  /\ closed \subseteq Clients
  /\ writer \in Clients \cup {Nobody}
  /\ buffered \in [Clients -> 0 .. ClientCap]
  /\ latest \in [Clients -> 0 .. MaxCandles]
  /\ selected \in Tables \cup {NoTable}
  /\ updates \in Seq(0 .. MaxCandles)
  /\ Len(updates) <= UpdatesCap
  /\ arrived \in 0 .. MaxCandles
  /\ ticks \in 0 .. MaxPrices
  /\ work \in [Broadcasters -> Seq(Messages)]
  /\ sending \in [Broadcasters -> BOOLEAN]
  /\ todo \in [Broadcasters -> SUBSET Clients]
  /\ dropped \in BOOLEAN

Init ==
  /\ stream = [c \in Clients |-> "new"]
  /\ connected = {}
  /\ watcher = [c \in Clients |-> "none"]
  /\ clients = {}
  /\ closed = {}
  /\ writer = Nobody
  /\ buffered = [c \in Clients |-> 0]
  /\ latest = [c \in Clients |-> 0]
  /\ selected = NoTable
  /\ updates = << >>
  /\ arrived = 0
  /\ ticks = 0
  /\ work = [b \in Broadcasters |-> << >>]
  /\ sending = [b \in Broadcasters |-> FALSE]
  /\ todo = [b \in Broadcasters |-> {}]
  /\ dropped = FALSE

\* What a writer of clientMux waits for.
NoReader == \A b \in Broadcasters : ~sending[b]

-----------------------------------------------------------------------------
(* A stream. *)

\* ServeHTTP up to ReloadTriggers: the client is not registered yet.
Connect(c) ==
  /\ stream[c] = "new"
  /\ stream' = [stream EXCEPT ![c] = "reloaded"]
  /\ connected' = connected \cup {c}
  /\ UNCHANGED <<watcher, registryVars, channelVars, inputVars, sendVars, dropped>>

\* AddClient or RemoveClient calls clientMux.Lock.
Lock(c) ==
  /\ stream[c] = "reloaded" \/ (watcher[c] = "waiting" /\ c \notin connected)
  /\ writer = Nobody
  /\ writer' = c
  /\ UNCHANGED <<clients, closed, streamVars, channelVars, inputVars, sendVars, dropped>>

\* AddClient, then the goroutine that waits for the request to end.
Register(c) ==
  /\ stream[c] = "reloaded"
  /\ writer = c /\ NoReader
  /\ writer' = Nobody
  /\ clients' = clients \cup {c}
  /\ stream' = [stream EXCEPT ![c] = "open"]
  /\ watcher' = [watcher EXCEPT ![c] = "waiting"]
  /\ UNCHANGED <<connected, closed, channelVars, inputVars, sendVars, dropped>>

\* The browser goes away: the request context is done.
HangUp(c) ==
  /\ c \in connected
  /\ connected' = connected \ {c}
  /\ UNCHANGED <<stream, watcher, registryVars, channelVars, inputVars, sendVars, dropped>>

\* Mutant: RemoveClient does not wait for the readers of the registry.
UnregisterUnlocked(c) ==
  /\ watcher[c] = "waiting"
  /\ c \notin connected
  /\ writer = c /\ writer' = Nobody
  /\ watcher' = [watcher EXCEPT ![c] = "done"]
  /\ clients' = clients \ {c}
  /\ closed' = IF c \in clients THEN closed \cup {c} ELSE closed
  /\ UNCHANGED <<stream, connected, channelVars, inputVars, sendVars, dropped>>

\* Mutant: RemoveClient takes the channel out of the registry only.
UnregisterUnclosed(c) ==
  /\ watcher[c] = "waiting"
  /\ c \notin connected
  /\ writer = c /\ NoReader
  /\ writer' = Nobody
  /\ watcher' = [watcher EXCEPT ![c] = "done"]
  /\ clients' = clients \ {c}
  /\ UNCHANGED <<stream, connected, closed, channelVars, inputVars, sendVars, dropped>>

\* RemoveClient: the channel leaves the registry and is closed, once.
Unregister(c) ==
  /\ watcher[c] = "waiting"
  /\ c \notin connected
  /\ writer = c /\ NoReader
  /\ writer' = Nobody
  /\ watcher' = [watcher EXCEPT ![c] = "done"]
  /\ clients' = clients \ {c}
  /\ closed' = IF c \in clients THEN closed \cup {c} ELSE closed
  /\ UNCHANGED <<stream, connected, channelVars, inputVars, sendVars, dropped>>

\* The range loop of ServeHTTP takes a message; write errors are ignored.
Receive(c) ==
  /\ stream[c] = "open"
  /\ buffered[c] > 0
  /\ buffered' = [buffered EXCEPT ![c] = buffered[c] - 1]
  /\ UNCHANGED <<latest, streamVars, registryVars, inputVars, sendVars, dropped>>

\* The loop ends when the channel is closed and drained.
EndStream(c) ==
  /\ stream[c] = "open"
  /\ c \in closed
  /\ buffered[c] = 0
  /\ stream' = [stream EXCEPT ![c] = "done"]
  /\ UNCHANGED <<connected, watcher, registryVars, channelVars, inputVars, sendVars, dropped>>

-----------------------------------------------------------------------------
(* What is broadcast. *)

Idle(b) == work[b] = << >>

Alerts(k) == [i \in 1 .. k |-> [kind |-> "trigger", n |-> 0]]

\* strings.Contains(table, selectedTable), read without clientMux.
Watched(tbl) == selected = NoTable \/ <<tbl, selected>> \in Contains

\* UpdateSelectedProduct, for every stream at once.
SelectTable(tbl) ==
  /\ writer = Nobody /\ NoReader
  /\ selected # tbl
  /\ selected' = tbl
  /\ UNCHANGED <<updates, arrived, ticks, streamVars, registryVars, channelVars, sendVars, dropped>>

\* Mutant: the notification is queued whether there is room or not.
NotifyUnbounded(tbl) ==
  /\ Idle(Listener)
  /\ Watched(tbl)
  /\ tbl \in CandleTables => arrived < MaxCandles
  /\ arrived' = IF tbl \in CandleTables THEN arrived + 1 ELSE arrived
  /\ LET n == IF tbl \in CandleTables THEN arrived + 1 ELSE 0
     IN  /\ updates' = Append(updates, n)
         /\ work' = [work EXCEPT ![Listener] = << [kind |-> "candle", n |-> n] >>]
  /\ UNCHANGED <<selected, ticks, sending, todo, streamVars, registryVars, channelVars, dropped>>

\* The listener meets a row of a watched table: offered to candleUpdates
\* without waiting, then broadcast.
Notify(tbl) ==
  /\ Idle(Listener)
  /\ Watched(tbl)
  /\ tbl \in CandleTables => arrived < MaxCandles
  /\ arrived' = IF tbl \in CandleTables THEN arrived + 1 ELSE arrived
  /\ LET n == IF tbl \in CandleTables THEN arrived + 1 ELSE 0
     IN  /\ IF Len(updates) < UpdatesCap
            THEN updates' = Append(updates, n) /\ UNCHANGED dropped
            ELSE dropped' = TRUE /\ UNCHANGED updates
         /\ work' = [work EXCEPT ![Listener] = << [kind |-> "candle", n |-> n] >>]
  /\ UNCHANGED <<selected, ticks, sending, todo, streamVars, registryVars, channelVars>>

\* Mutant: the handler takes the candle that came last.
HandleNewest(k) ==
  /\ Idle(Handler)
  /\ updates # << >>
  /\ LET n == updates[Len(updates)]
     IN  work' = IF n = 0 THEN work
                 ELSE [work EXCEPT ![Handler] = Append(Alerts(k), [kind |-> "candle", n |-> n])]
  /\ updates' = SubSeq(updates, 1, Len(updates) - 1)
  /\ UNCHANGED <<selected, arrived, ticks, sending, todo, streamVars, registryVars, channelVars, dropped>>

\* handleCandleUpdates: the alerts of the candle, then the candle once more.
\* A row of another table is skipped if the name has fewer than three parts;
\* else the name is read as a product and a timeframe no trigger is of, and
\* the row, too, goes out once more.
Handle(k) ==
  /\ Idle(Handler)
  /\ updates # << >>
  /\ LET again == [kind |-> "candle", n |-> Head(updates)]
     IN  \/ /\ Head(updates) # 0
            /\ work' = [work EXCEPT ![Handler] = Append(Alerts(k), again)]
         \/ /\ Head(updates) = 0
            /\ UNCHANGED work \/ work' = [work EXCEPT ![Handler] = <<again>>]
  /\ updates' = Tail(updates)
  /\ UNCHANGED <<selected, arrived, ticks, sending, todo, streamVars, registryVars, channelVars, dropped>>

\* handleWebsocketMessages: BroadcastPrice, then the alerts of the tick.
Tick(k) ==
  /\ Idle(Feed)
  /\ ticks < MaxPrices
  /\ ticks' = ticks + 1
  /\ work' = [work EXCEPT ![Feed] = << [kind |-> "price", n |-> 0] >> \o Alerts(k)]
  /\ UNCHANGED <<selected, updates, arrived, sending, todo, streamVars, registryVars, channelVars, dropped>>

-----------------------------------------------------------------------------
(* BroadcastMessage. *)

BeginSend(b) ==
  /\ ~Idle(b)
  /\ ~sending[b]
  /\ writer = Nobody
  /\ sending' = [sending EXCEPT ![b] = TRUE]
  /\ todo' = [todo EXCEPT ![b] = clients]
  /\ UNCHANGED <<work, streamVars, registryVars, channelVars, inputVars, dropped>>

\* Mutant: the send waits for room in the channel.
SendToWaiting(b, c) ==
  /\ sending[b]
  /\ c \in todo[b]
  /\ buffered[c] < ClientCap
  /\ todo' = [todo EXCEPT ![b] = todo[b] \ {c}]
  /\ buffered' = [buffered EXCEPT ![c] = buffered[c] + 1]
  /\ latest' = IF Head(work[b]).n = 0 THEN latest
               ELSE [latest EXCEPT ![c] = Head(work[b]).n]
  /\ UNCHANGED <<work, sending, streamVars, registryVars, inputVars, dropped>>

\* The select of one client: the message is put into its channel, or dropped
\* when the channel is full.
SendTo(b, c) ==
  /\ sending[b]
  /\ c \in todo[b]
  /\ todo' = [todo EXCEPT ![b] = todo[b] \ {c}]
  /\ IF buffered[c] < ClientCap
     THEN /\ buffered' = [buffered EXCEPT ![c] = buffered[c] + 1]
          /\ latest' = IF Head(work[b]).n = 0 THEN latest
                       ELSE [latest EXCEPT ![c] = Head(work[b]).n]
          /\ UNCHANGED dropped
     ELSE dropped' = TRUE /\ UNCHANGED channelVars
  /\ UNCHANGED <<work, sending, streamVars, registryVars, inputVars>>

EndSend(b) ==
  /\ sending[b]
  /\ todo[b] = {}
  /\ sending' = [sending EXCEPT ![b] = FALSE]
  /\ work' = [work EXCEPT ![b] = Tail(work[b])]
  /\ UNCHANGED <<todo, streamVars, registryVars, channelVars, inputVars, dropped>>

-----------------------------------------------------------------------------
Next ==
  \/ \E c \in Clients : \/ Connect(c) \/ Lock(c) \/ Register(c) \/ HangUp(c)
                        \/ Unregister(c) \/ Receive(c) \/ EndStream(c)
  \/ \E tbl \in Tables : SelectTable(tbl) \/ Notify(tbl)
  \/ \E k \in 0 .. MaxAlerts : Handle(k) \/ Tick(k)
  \/ \E b \in Broadcasters : BeginSend(b) \/ EndSend(b) \/ \E c \in Clients : SendTo(b, c)

Spec == Init /\ [][Next]_vars

(* Goroutines that can go on do, and none waits for ever for its turn at the *)
(* mutex among the writers of clientMux (strong fairness): sync.Mutex hands  *)
(* itself over to one that has waited.  Nothing is assumed of a connected    *)
(* browser: it may never read.                                               *)
Fairness ==
  /\ \A c \in Clients : /\ SF_vars(Lock(c))
                        /\ WF_vars(Register(c) \/ Unregister(c))
                        /\ WF_vars((c \notin connected /\ Receive(c)) \/ EndStream(c))
  /\ \A b \in Broadcasters : WF_vars(EndSend(b) \/ \E c \in Clients : SendTo(b, c))

LiveSpec == Spec /\ Fairness

-----------------------------------------------------------------------------
(* Properties. *)

\* A broadcast only ever sends on channels that are registered and open:
\* sending on a channel RemoveClient has closed would panic.
SendsAreOpen ==
  \A b \in Broadcasters : sending[b] => todo[b] \subseteq clients \ closed

\* Every candle is broadcast twice, by the listener and by the handler, in
\* any order of the two.  Once all is sent and nothing was dropped, the last
\* candle a stream got is still the newest one: no late copy of an older
\* candle ends up on top.
NewestCandleLast ==
  (updates = << >> /\ \A b \in Broadcasters : Idle(b)) /\ ~dropped
    => \A c \in clients : latest[c] \in {0, arrived}

\* The request of a browser that went away ends, however full its channel
\* was and however much is being broadcast.
StreamsEnd ==
  \A c \in Clients : (stream[c] # "new" /\ c \notin connected) ~> stream[c] = "done"

\* A broadcast ends even if no browser ever reads its stream.
BroadcastsEnd ==
  \A b \in Broadcasters : sending[b] ~> ~sending[b]
=============================================================================

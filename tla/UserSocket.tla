----------------------------- MODULE UserSocket -----------------------------
(***************************************************************************)
(* The websocket for the account's own orders (model/coinbase.go):         *)
(* ConnectUserWebsocket, the reader and the monitor it starts, and the     *)
(* reconnection by the monitor.  All share the field UserWSConn, which     *)
(* reader and monitor read anew each time they use it.  Connections are    *)
(* numbered as they are dialled; the reader and the monitor started for    *)
(* connection k are reader k and monitor k.  The exchange may drop a       *)
(* connection, and does when two readers share it and tear its frames.     *)
(* Messages are only logged, and are left out.                             *)
(***************************************************************************)
EXTENDS Naturals

CONSTANT MaxFaults  \* bound: lost connections and failed calls

ASSUME FaultsAssumption == MaxFaults \in Nat

Conns == 1 .. MaxFaults + 1   \* each dial but the first follows a fault
Main == 0                     \* main, which connects first; the others are monitors
Callers == {Main} \cup Conns

VARIABLES
  conn,        \* UserWSConn, 0 for nil
  dialled,     \* connections so far
  state,       \* per connection
  subscribed,  \* connections with both subscriptions sent
  reader,      \* per reader
  reading,     \* per reader, the connection of its ReadMessage
  caller,      \* per monitor, and main: what it is doing
  mine,        \* per caller in ConnectUserWebsocket, its variable c
  faults

connVars == <<conn, dialled, state, subscribed>>
vars == <<connVars, reader, reading, caller, mine, faults>>

\* A reader is started for a subscribed connection and for no other.
TypeOK ==
  /\ conn = dialled /\ dialled \in {0} \cup Conns
  /\ state \in [Conns -> {"none", "open", "broken", "closed"}]
  /\ \A c \in Conns : state[c] = "none" <=> c > dialled
  /\ subscribed \subseteq 1 .. dialled
  /\ reader \in [Conns -> {"none", "next", "reading", "ended"}]
  /\ \A k \in Conns : reader[k] # "none" <=> k \in subscribed
  /\ reading \in [Conns -> 0 .. dialled]
  /\ \A k \in Conns : reader[k] = "reading" => reading[k] # 0
  /\ caller \in [Callers -> {"none", "ticking", "close", "dial", "subscribe", "gone"}]
  /\ mine \in [Callers -> 0 .. dialled]
  /\ faults \in 0 .. MaxFaults

Init ==
  /\ conn = 0 /\ dialled = 0 /\ subscribed = {}
  /\ state = [c \in Conns |-> "none"]
  /\ reader = [k \in Conns |-> "none"] /\ reading = [k \in Conns |-> 0]
  /\ caller = [e \in Callers |-> IF e = Main THEN "dial" ELSE "none"]
  /\ mine = [e \in Callers |-> 0]
  /\ faults = 0

Fault == faults < MaxFaults /\ faults' = faults + 1

Lose(c) ==
  /\ Fault
  /\ state[c] = "open"
  /\ state' = [state EXCEPT ![c] = "broken"]
  /\ UNCHANGED <<conn, dialled, subscribed, reader, reading, caller, mine>>

-----------------------------------------------------------------------------
(* ConnectUserWebsocket. *)

\* Mutant: a reconnection that fails is not repeated.
Failed(e) == caller' = [caller EXCEPT ![e] = "gone"]

\* main logs the error and goes on without; a monitor waits and repeats.
Retry(e) == caller' = [caller EXCEPT ![e] = IF e = Main THEN "gone" ELSE "dial"]

Dial(e) ==
  /\ caller[e] = "dial"
  /\ dialled + 1 \in Conns
  /\ dialled' = dialled + 1 /\ conn' = dialled + 1
  /\ state' = [state EXCEPT ![dialled + 1] = "open"]
  /\ mine' = [mine EXCEPT ![e] = dialled + 1]
  /\ caller' = [caller EXCEPT ![e] = "subscribe"]
  /\ UNCHANGED <<subscribed, reader, reading, faults>>

DialError(e) ==
  /\ caller[e] = "dial"
  /\ Fault
  /\ Retry(e)
  /\ UNCHANGED <<connVars, reader, reading, mine>>

\* Mutant: the monitor goes on after it has reconnected.
SubscribeStaying(e) ==
  /\ caller[e] = "subscribe"
  /\ subscribed' = subscribed \cup {mine[e]}
  /\ reader' = [reader EXCEPT ![mine[e]] = "next"]
  /\ caller' = [caller EXCEPT ![mine[e]] = "ticking", ![e] = IF e = Main THEN "gone" ELSE "ticking"]
  /\ UNCHANGED <<conn, dialled, state, reading, mine, faults>>

\* Both messages are written, if only into a buffer; the goroutines start,
\* and a monitor that called for it returns.
Subscribe(e) ==
  /\ caller[e] = "subscribe"
  /\ subscribed' = subscribed \cup {mine[e]}
  /\ reader' = [reader EXCEPT ![mine[e]] = "next"]
  /\ caller' = [caller EXCEPT ![mine[e]] = "ticking", ![e] = "gone"]
  /\ UNCHANGED <<conn, dialled, state, reading, mine, faults>>

\* Mutant: the reader is started before the messages are written.
SubscribeErrorRead(e) ==
  /\ caller[e] = "subscribe"
  /\ Fault
  /\ Retry(e)
  /\ reader' = [reader EXCEPT ![mine[e]] = "next"]
  /\ UNCHANGED <<connVars, reading, mine>>

\* The token or a write fails.  The field keeps the connection, and nothing
\* closes it.
SubscribeError(e) ==
  /\ caller[e] = "subscribe"
  /\ Fault
  /\ Retry(e)
  /\ UNCHANGED <<connVars, reader, reading, mine>>

-----------------------------------------------------------------------------
(* handleUserWebsocketMessages: reader k. *)

Read(k) ==
  /\ reader[k] = "next"
  /\ reader' = [reader EXCEPT ![k] = "reading"]
  /\ reading' = [reading EXCEPT ![k] = conn]
  /\ UNCHANGED <<connVars, caller, mine, faults>>

Message(k) ==
  /\ reader[k] = "reading"
  /\ state[reading[k]] = "open"
  /\ reader' = [reader EXCEPT ![k] = "next"]
  /\ UNCHANGED <<connVars, reading, caller, mine, faults>>

ReadError(k) ==
  /\ reader[k] = "reading"
  /\ state[reading[k]] # "open"
  /\ reader' = [reader EXCEPT ![k] = "ended"]
  /\ UNCHANGED <<connVars, reading, caller, mine, faults>>

(* monitorUserHeartbeat and reconnectUserWebSocket: monitor k. *)

\* A ping on a broken connection fails, sooner or later.
PingError(k) ==
  /\ caller[k] = "ticking"
  /\ state[conn] # "open"
  /\ caller' = [caller EXCEPT ![k] = "close"]
  /\ UNCHANGED <<connVars, reader, reading, mine, faults>>

Close(k) ==
  /\ caller[k] = "close"
  /\ state' = [state EXCEPT ![conn] = "closed"]
  /\ caller' = [caller EXCEPT ![k] = "dial"]
  /\ UNCHANGED <<conn, dialled, subscribed, reader, reading, mine, faults>>

-----------------------------------------------------------------------------
Next ==
  \/ \E e \in Callers : Dial(e) \/ DialError(e) \/ Subscribe(e) \/ SubscribeError(e)
  \/ \E k \in Conns : Lose(k) \/ Read(k) \/ Message(k) \/ ReadError(k) \/ PingError(k) \/ Close(k)

Spec == Init /\ [][Next]_vars

\* Goroutines go on; a read is only sure to return once Close was called.
Fairness ==
  /\ \A e \in Callers : WF_vars(Dial(e) \/ Subscribe(e))
  /\ \A k \in Conns : /\ WF_vars(PingError(k) \/ Close(k))
                      /\ WF_vars(Read(k))
                      /\ WF_vars(reading[k] # 0 /\ state[reading[k]] = "closed" /\ ReadError(k))

LiveSpec == Spec /\ Fairness

-----------------------------------------------------------------------------
(* Properties. *)

\* A monitor pings the connection it was started for, which is the one in
\* the field, was subscribed and was not closed: however reconnections and
\* failures follow each other, there is one monitor, and none reconnects
\* while another still ticks.
MonitorHasNewest ==
  \A k \in Conns : caller[k] = "ticking" =>
    /\ k = conn /\ k \in subscribed /\ state[k] # "closed"
    /\ \A e \in Callers \ {k} : caller[e] \in {"none", "gone"}

Fed == conn \in subscribed /\ state[conn] = "open"
       /\ \E k \in Conns : reader[k] \in {"next", "reading"} /\ (reader[k] = "reading" => reading[k] = conn)

\* Once it was connected, the feed comes back after every lost connection,
\* failed dial and failed subscription.  (A first connection that fails is
\* not repeated.)
UserFeedReturns == (subscribed # {} /\ ~Fed) ~> Fed
=============================================================================

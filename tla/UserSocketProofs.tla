-------------------------- MODULE UserSocketProofs --------------------------
(***************************************************************************)
(* TypeOK and MonitorHasNewest of UserSocket for any number of lost        *)
(* connections and failed calls.  The baton the argument follows is the    *)
(* one caller that is busy: main at first, then the monitor it starts, and *)
(* so on; a caller that subscribes does so on the newest connection, for   *)
(* which no monitor was started yet.                                       *)
(***************************************************************************)
EXTENDS UserSocket, TLAPS

Busy(e) == caller[e] \notin {"none", "gone"}

OneBusy == \A e, f \in Callers : Busy(e) /\ Busy(f) => e = f

Started ==
  /\ \A k \in Conns : caller[k] # "none" => k \in subscribed
  /\ \A e \in Callers : caller[e] = "subscribe" =>
       mine[e] = conn /\ conn \in Conns /\ conn \notin subscribed /\ state[conn] # "closed"
  /\ \A e \in Callers : caller[e] \in {"ticking", "close"} =>
       e \in Conns /\ e = conn
  /\ \A k \in Conns : caller[k] = "ticking" => state[k] # "closed"

IInv == TypeOK /\ OneBusy /\ Started

LEMMA Numbers == Conns \subseteq Nat /\ 0 \notin Conns /\ Main \notin Conns
BY FaultsAssumption DEF Conns, Main

LEMMA InitHolds == Init => IInv
<1> SUFFICES ASSUME Init PROVE IInv
  OBVIOUS
<1>1. TypeOK
  <2>1. faults \in 0 .. MaxFaults
    BY FaultsAssumption DEF Init
  <2>2. \A c \in Conns : c > 0
    BY Numbers
  <2> QED BY <2>1, <2>2, Numbers DEF Init, TypeOK
<1>2. OneBusy /\ Started
  BY Numbers DEF Init, OneBusy, Started, Busy, Callers
<1> QED BY <1>1, <1>2 DEF IInv

LEMMA FaultCounted == ASSUME TypeOK, Fault PROVE faults' \in 0 .. MaxFaults
BY FaultsAssumption DEF TypeOK, Fault

LEMMA TypesStep == IInv /\ [Next]_vars => TypeOK'
<1> SUFFICES ASSUME IInv, [Next]_vars PROVE TypeOK'
  OBVIOUS
<1>0. TypeOK /\ dialled \in Nat
  BY Numbers DEF IInv, TypeOK
<1>1. ASSUME NEW e \in Callers, Dial(e) PROVE TypeOK'
  <2>1. PICK d : d = dialled + 1
    OBVIOUS
  <2>2. d \in Conns /\ d > dialled /\ dialled' = d /\ conn' = d
    BY <1>0, <1>1, <2>1 DEF Dial
  <2>3. 1 .. dialled \subseteq 1 .. d /\ 0 .. dialled \subseteq 0 .. d
    BY <1>0, <2>1
  <2>4. state' \in [Conns -> {"none", "open", "broken", "closed"}]
    BY <1>0, <1>1, <2>1, <2>2 DEF Dial, TypeOK
  <2>5. \A c \in Conns : state'[c] = "none" <=> c > d
    <3>1. state' = [state EXCEPT ![d] = "open"]
      BY <1>1, <2>1 DEF Dial
    <3>2. \A c \in Conns : c > d <=> c > dialled /\ c # d
      BY <1>0, <2>1, Numbers
    <3> QED BY <1>0, <2>2, <3>1, <3>2 DEF TypeOK
  <2>6. mine' \in [Callers -> 0 .. d] /\ d \in 0 .. d
    BY <1>0, <1>1, <2>1, <2>3, Numbers DEF Dial, TypeOK
  <2>7. caller' \in [Callers -> {"none", "ticking", "close", "dial", "subscribe", "gone"}]
    BY <1>0, <1>1 DEF Dial, TypeOK
  <2>8. UNCHANGED <<subscribed, reader, reading, faults>>
    BY <1>1 DEF Dial
  <2> QED BY <1>0, <2>2, <2>3, <2>4, <2>5, <2>6, <2>7, <2>8 DEF TypeOK
<1>2. ASSUME NEW e \in Callers, DialError(e) \/ SubscribeError(e) PROVE TypeOK'
  <2>1. faults' \in 0 .. MaxFaults
    BY <1>0, <1>2, FaultCounted DEF DialError, SubscribeError
  <2>2. caller' \in [Callers -> {"none", "ticking", "close", "dial", "subscribe", "gone"}]
    BY <1>0, <1>2 DEF DialError, SubscribeError, Retry, TypeOK
  <2> QED BY <1>0, <1>2, <2>1, <2>2 DEF DialError, SubscribeError, TypeOK, connVars
<1>3. ASSUME NEW e \in Callers, Subscribe(e) PROVE TypeOK'
  <2>1. PICK c : c = mine[e]
    OBVIOUS
  <2>2. c = conn /\ c \in Conns /\ c \in 1 .. dialled
    BY <1>0, <1>3, <2>1, Numbers DEF Subscribe, IInv, Started, TypeOK
  <2>3. /\ reader' = [reader EXCEPT ![c] = "next"] /\ subscribed' = subscribed \cup {c}
        /\ caller' = [caller EXCEPT ![c] = "ticking", ![e] = "gone"]
        /\ UNCHANGED <<conn, dialled, state, reading, mine, faults>>
    BY <1>3, <2>1 DEF Subscribe
  <2>4. \A k \in Conns : reader'[k] # "none" <=> k \in subscribed'
    BY <1>0, <2>2, <2>3 DEF TypeOK
  <2>5. caller' \in [Callers -> {"none", "ticking", "close", "dial", "subscribe", "gone"}]
    BY <1>0, <2>2, <2>3 DEF TypeOK
  <2>6. /\ reader' \in [Conns -> {"none", "next", "reading", "ended"}]
        /\ \A k \in Conns : reader'[k] = "reading" => reading[k] # 0
    BY <1>0, <2>2, <2>3 DEF TypeOK
  <2> QED BY <1>0, <2>2, <2>3, <2>4, <2>5, <2>6 DEF TypeOK
<1>4. ASSUME NEW k \in Conns, Lose(k) PROVE TypeOK'
  <2>1. faults' \in 0 .. MaxFaults
    BY <1>0, <1>4, FaultCounted DEF Lose
  <2> QED BY <1>0, <1>4, <2>1 DEF Lose, TypeOK
<1>5. ASSUME NEW k \in Conns, Read(k) PROVE TypeOK'
  <2>1. k \in subscribed /\ subscribed \subseteq 1 .. dialled /\ conn = dialled
    BY <1>0, <1>5 DEF Read, TypeOK
  <2>2. conn # 0 /\ conn \in 0 .. dialled
    BY <1>0, <2>1
  <2> QED BY <1>0, <1>5, <2>1, <2>2 DEF Read, TypeOK, connVars
<1>6. ASSUME NEW k \in Conns, Message(k) \/ ReadError(k) PROVE TypeOK'
  BY <1>0, <1>6 DEF Message, ReadError, TypeOK, connVars
<1>7. ASSUME NEW k \in Conns, PingError(k) PROVE TypeOK'
  BY <1>0, <1>7 DEF PingError, TypeOK, connVars, Callers
<1>8. ASSUME NEW k \in Conns, Close(k) PROVE TypeOK'
  <2>1. \A c \in Conns : state'[c] = "none" <=> c > dialled
    <3>1. conn = k /\ ~(k > dialled)
      BY <1>0, <1>8, Numbers DEF Close, IInv, Started, TypeOK, Callers
    <3> QED BY <1>0, <1>8, <3>1 DEF Close, TypeOK
  <2> QED BY <1>0, <1>8, <2>1 DEF Close, TypeOK, Callers
<1>9. CASE UNCHANGED vars
  BY <1>0, <1>9 DEF TypeOK, vars, connVars
<1> QED BY <1>1, <1>2, <1>3, <1>4, <1>5, <1>6, <1>7, <1>8, <1>9 DEF Next

\* The baton: one busy caller, or none.
LEMMA OneBusyStep == IInv /\ [Next]_vars => OneBusy'
<1> SUFFICES ASSUME IInv, [Next]_vars PROVE OneBusy'
  OBVIOUS
<1>0. TypeOK /\ OneBusy
  BY DEF IInv
<1>1. ASSUME NEW e \in Callers, Busy(e), \A f \in Callers \ {e} : caller'[f] = caller[f]
      PROVE  OneBusy'
  BY <1>0, <1>1 DEF OneBusy, Busy
<1>2. ASSUME NEW e \in Callers, Dial(e) \/ DialError(e) \/ SubscribeError(e) PROVE OneBusy'
  <2>1. \A f \in Callers \ {e} : caller'[f] = caller[f]
    BY <1>0, <1>2 DEF Dial, DialError, SubscribeError, Retry, TypeOK
  <2> QED BY <1>1, <1>2, <2>1 DEF Dial, DialError, SubscribeError, Busy
<1>3. ASSUME NEW e \in Callers, Subscribe(e) PROVE OneBusy'
  <2>1. caller' = [caller EXCEPT ![mine[e]] = "ticking", ![e] = "gone"] /\ Busy(e)
    BY <1>3 DEF Subscribe, Busy
  <2>2. \A f \in Callers \ {e} : ~Busy(f)
    BY <1>0, <2>1 DEF OneBusy
  <2>3. \A f \in Callers : f # mine[e] => caller'[f] \in {"none", "gone"}
    BY <1>0, <2>1, <2>2 DEF Busy, TypeOK
  <2> QED BY <2>3 DEF OneBusy, Busy
<1>4. ASSUME NEW k \in Conns, PingError(k) \/ Close(k) PROVE OneBusy'
  <2>1. Busy(k) /\ k \in Callers
    BY <1>4 DEF PingError, Close, Busy, Callers
  <2>2. \A f \in Callers \ {k} : caller'[f] = caller[f]
    BY <1>0, <1>4 DEF PingError, Close, TypeOK
  <2> QED BY <1>1, <2>1, <2>2
<1>5. ASSUME caller' = caller PROVE OneBusy'
  BY <1>0, <1>5 DEF OneBusy, Busy
<1>6. ASSUME NEW k \in Conns, Lose(k) \/ Read(k) \/ Message(k) \/ ReadError(k) PROVE OneBusy'
  BY <1>5, <1>6 DEF Lose, Read, Message, ReadError
<1> QED BY <1>2, <1>3, <1>4, <1>5, <1>6 DEF Next, vars

LEMMA StartedStep == IInv /\ [Next]_vars => Started'
<1> SUFFICES ASSUME IInv, [Next]_vars PROVE Started'
  OBVIOUS
<1>0. TypeOK /\ OneBusy /\ Started
  BY DEF IInv
<1>1. ASSUME NEW e \in Callers, Dial(e) PROVE Started'
  <2>1. PICK d : d = dialled + 1
    OBVIOUS
  <2>2. /\ d \in Conns /\ conn' = d /\ UNCHANGED subscribed
        /\ caller' = [caller EXCEPT ![e] = "subscribe"] /\ mine' = [mine EXCEPT ![e] = d]
        /\ state' = [state EXCEPT ![d] = "open"]
    BY <1>1, <2>1 DEF Dial
  <2>3. d \notin subscribed
    BY <1>0, <2>1, Numbers DEF TypeOK
  <2>4. \A f \in Callers \ {e} : caller'[f] \in {"none", "gone"}
    BY <1>0, <1>1, <2>2 DEF Dial, OneBusy, Busy, TypeOK
  <2>7. state'[d] # "closed"
    BY <1>0, <2>2 DEF TypeOK
  <2>5. caller'[e] = "subscribe" /\ mine'[e] = d /\ (e \in Conns => e \in subscribed)
    BY <1>0, <1>1, <2>2 DEF Dial, Started, TypeOK
  <2>6. \A k \in Conns : caller'[k] # "none" => k \in subscribed
    BY <1>0, <2>2, <2>5 DEF Started, TypeOK
  <2> QED BY <2>2, <2>3, <2>4, <2>5, <2>6, <2>7 DEF Started, Callers
<1>2. ASSUME NEW e \in Callers, DialError(e) \/ SubscribeError(e) PROVE Started'
  <2>1. /\ caller'[e] \in {"gone", "dial"} /\ caller[e] # "none"
        /\ \A f \in Callers \ {e} : caller'[f] = caller[f]
    BY <1>0, <1>2 DEF DialError, SubscribeError, Retry, TypeOK
  <2>2. UNCHANGED <<conn, state, subscribed, mine>>
    BY <1>2 DEF DialError, SubscribeError, connVars
  <2> QED BY <1>0, <2>1, <2>2 DEF Started, Callers
<1>3. ASSUME NEW e \in Callers, Subscribe(e) PROVE Started'
  <2>1. PICK c : c = mine[e]
    OBVIOUS
  <2>2. c = conn /\ c \in Conns /\ c \notin subscribed /\ c # e
    BY <1>0, <1>3, <2>1 DEF Subscribe, Started
  <2>3. /\ caller' = [caller EXCEPT ![c] = "ticking", ![e] = "gone"]
        /\ subscribed' = subscribed \cup {c} /\ UNCHANGED <<conn, state, mine>>
    BY <1>3, <2>1 DEF Subscribe
  <2>4. caller'[c] = "ticking" /\ \A f \in Callers : f # c => caller'[f] \in {"none", "gone"}
    BY <1>0, <1>3, <2>2, <2>3 DEF OneBusy, Busy, Subscribe, TypeOK, Callers
  <2>5. state[c] # "closed"
    BY <1>0, <1>3, <2>1, <2>2 DEF Subscribe, Started
  <2>6. ASSUME NEW k \in Conns, caller'[k] # "none" PROVE k \in subscribed'
    <3>1. CASE k = c
      BY <2>3, <3>1
    <3>2. CASE k # c
      <4>1. caller[k] # "none"
        BY <1>0, <1>3, <2>3, <2>6, <3>2 DEF TypeOK, Subscribe, Callers
      <4> QED BY <1>0, <2>3, <4>1 DEF Started
    <3> QED BY <3>1, <3>2
  <2> QED BY <2>2, <2>3, <2>4, <2>5, <2>6 DEF Started, Callers
<1>4. ASSUME NEW k \in Conns, Lose(k) \/ Read(k) \/ Message(k) \/ ReadError(k) PROVE Started'
  <2>1. UNCHANGED <<conn, subscribed, caller, mine>>
    BY <1>4 DEF Lose, Read, Message, ReadError, connVars
  <2>2. \A c \in Conns : state[c] # "closed" => state'[c] # "closed"
    BY <1>0, <1>4 DEF Lose, Read, Message, ReadError, connVars, TypeOK
  <2> QED BY <1>0, <2>1, <2>2 DEF Started
<1>5. ASSUME NEW k \in Conns, PingError(k) PROVE Started'
  <2>1. caller' = [caller EXCEPT ![k] = "close"] /\ UNCHANGED <<conn, state, subscribed, mine>>
    BY <1>5 DEF PingError, connVars
  <2>2. k = conn /\ k \in subscribed
    BY <1>0, <1>5 DEF PingError, Started, Callers
  <2> QED BY <1>0, <2>1, <2>2 DEF Started, TypeOK, Callers
<1>6. ASSUME NEW k \in Conns, Close(k) PROVE Started'
  <2>1. /\ caller' = [caller EXCEPT ![k] = "dial"]
        /\ UNCHANGED <<conn, subscribed, mine>>
    BY <1>6 DEF Close
  <2>2. \A f \in Callers : f # k => caller'[f] \in {"none", "gone"}
    BY <1>0, <1>6, <2>1 DEF Close, OneBusy, Busy, TypeOK, Callers
  <2>3. caller'[k] = "dial" /\ k \in subscribed
    BY <1>0, <1>6, <2>1 DEF Close, Started, TypeOK, Callers
  <2> QED BY <1>0, <2>1, <2>2, <2>3 DEF Started, TypeOK, Callers
<1>7. CASE UNCHANGED vars
  BY <1>0, <1>7 DEF Started, vars, connVars
<1> QED BY <1>1, <1>2, <1>3, <1>4, <1>5, <1>6, <1>7 DEF Next

LEMMA Invariance == Spec => []IInv
<1>1. IInv /\ [Next]_vars => IInv'
  BY TypesStep, OneBusyStep, StartedStep DEF IInv
<1> QED BY <1>1, InitHolds, PTL DEF Spec

-----------------------------------------------------------------------------
\* Types; readers are started for subscribed connections only.
THEOREM TypeCorrectness == Spec => []TypeOK
<1>1. IInv => TypeOK
  BY DEF IInv
<1> QED BY <1>1, Invariance, PTL

\* One monitor, on the connection that is in use.
THEOREM OneMonitor == Spec => []MonitorHasNewest
<1>1. IInv => MonitorHasNewest
  BY DEF IInv, OneBusy, Started, Busy, MonitorHasNewest, Callers
<1> QED BY <1>1, Invariance, PTL
=============================================================================

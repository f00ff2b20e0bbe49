------------------------- MODULE TradeManagerProofs -------------------------
(* TradeManager, for any trades, triggers, blocks, channel capacities and   *)
(* any number of orders, writes, notices and faults.                        *)
EXTENDS TradeManager, SequenceTheorems, FiniteSetTheorems, TLAPS

IsEntry(n, tr) == n \in 1 .. Len(owner) /\ owner[n] = Entry(tr)

\* Wherever the number of a trade's order is kept or under way (the table,
\* memory, a notification, a channel, the pointer of processOrderUpdates, the
\* answer a caller holds), it is that of an entry order of this trade.
Named(r, tr) == r.entry # NoOrder => IsEntry(r.entry, tr)

TradeNamed   == \A tr \in Trades : Named(trade[tr], tr)
MemNamed     == \A tr \in Trades : Named(mem[tr], tr)
NotesNamed   == \A i \in 1 .. Len(notes) :
                  notes[i].table = "trades" => Named(notes[i].row, notes[i].id)
UpdatesNamed == \A i \in 1 .. Len(tradeUpdates) : Named(tradeUpdates[i].row, tradeUpdates[i].id)
FoundNamed   == found # Nothing => Named(found, found.id)
JobsNamed    == \A c \in Callers : job[c].at = "record" => IsEntry(job[c].order, current[c])

EntriesKept ==
  TradeNamed /\ MemNamed /\ NotesNamed /\ UpdatesNamed /\ FoundNamed /\ JobsNamed

\* The update processOrderUpdates works on stays in the channel meanwhile.
Bracketing ==
  /\ found # Nothing => orderUpdates # << >> /\ found.id \in Trades
  /\ found.at = "bracket" => IsEntry(Head(orderUpdates).order, found.id)

\* Orders follow orders of the same trade, the last of a chain an order that
\* follows an entry; only such orders are waited for.
Second(n) == n \in 1 .. Len(owner) /\ IsEntry(owner[n].after, owner[n].trade)

Chains ==
  \A n \in 1 .. Len(owner) : owner[n].after # NoOrder =>
    /\ owner[n].after < n
    /\ owner[owner[n].after].trade = owner[n].trade
    /\ IsEntry(owner[n].after, owner[n].trade) \/ Second(owner[n].after)

Watched == \A n \in watchers : Second(n)

\* A caller past its check, and every entry order, has the triggers of its
\* trade behind it; the links of a loaded trade do not change.
Seen(tr) == \A t \in Links[tr] : Fired(t)

LinksFixed == \A tr \in Existing : links[tr] = Links[tr] /\ posting[tr] = {} /\ trade[tr] # NoTrade
TriggersFired == \A t \in Triggers : trigger[t] = "triggered" => Fired(t)
CheckedSeen == \A c \in Callers :
                 job[c].at = "place" /\ current[c] \in Existing => Seen(current[c])
EntriesSeen == \A n \in 1 .. Len(owner) :
                 owner[n].after = NoOrder /\ owner[n].trade \in Existing => Seen(owner[n].trade)

Guarded == LinksFixed /\ TriggersFired /\ CheckedSeen /\ EntriesSeen

\* Orders and their causes, counted.  A write that leaves a trigger of the
\* block triggered causes one order: its notification, then the listener, is
\* the entry still to come.  A restart causes one: the pass of Initialize.
One(yes) == IF yes THEN 1 ELSE 0
Where(s, S) == {i \in 1 .. Len(s) : s[i] \in S}
Count(s, S) == Cardinality(Where(s, S))

Calls(tr) == {n \in TriggerNote : n.id \in Links[tr] /\ n.status = "triggered"}
MayPlace(c, tr) == tr \in job[c].todo /\ ~At(c, tr, "record")

\* The first pass has a cause only once its check has passed.
Starting(tr) == MayPlace(Init0, tr) /\ (boots > 1 \/ At(Init0, tr, "place"))

Ordered(tr) == Count(owner, {Entry(tr)})
Pending(tr) == Count(notes, Calls(tr))
Fires(tr)   == Count(fired, Links[tr])
Effects(tr) == Ordered(tr) + Pending(tr) + One(MayPlace(Listener, tr)) + One(Starting(tr))

Within(tr)  == Effects(tr) <= (boots - 1) + Fires(tr)

CausesKept == \A tr \in Existing : Links[tr] # {} => Within(tr)
FirstPass  == \A tr \in Existing : boots = 1 /\ MayPlace(Init0, tr) => Ordered(tr) = 0

\* A caller is at a trade it has to go through; nothing goes on beside
\* Initialize; what arrives as an INSERT was not there at the start.
AtWork == \A c \in Callers : job[c].at # "next" => current[c] \in job[c].todo

Quiet ==
  /\ phase = "starting" => /\ notes = << >> /\ tradeUpdates = << >>
                           /\ job[Listener].todo = {} /\ job[Updater].todo = {}
  /\ phase # "starting" => job[Init0].todo = {}

IsPosted(n) == n.table = "trades" /\ n.op = "INSERT" => n.id \notin Existing

Posted ==
  /\ \A i \in 1 .. Len(notes) : IsPosted(notes[i])
  /\ \A i \in 1 .. Len(tradeUpdates) : IsPosted(tradeUpdates[i])
  /\ \A tr \in Existing : tr \notin job[Updater].todo

Caused == CausesKept /\ FirstPass /\ AtWork /\ Quiet /\ Posted

\* The write lock is held from one step to the next only by an INSERT whose
\* trade is still to be looked up, and not while Initialize is at work.
Locked == writeLock => job[Updater].at = "next" /\ phase # "starting"

IInv == TypeOK /\ EntriesKept /\ Bracketing /\ Chains /\ Watched /\ Guarded /\ Caused /\ Locked

-----------------------------------------------------------------------------
(* Types. *)

\* A write of the owner sequence: the orders there are stay.
Grows(o) == /\ Len(owner) < MaxOrders
            /\ owner' = Append(owner, o)

LEMMA OwnerGrows ==
  ASSUME TypeOK, NEW o \in Order, Grows(o)
  PROVE  /\ owner' \in Seq(Order) /\ Len(owner') <= MaxOrders
         /\ Len(owner) \in Nat /\ Len(owner') = Len(owner) + 1
         /\ Len(owner) + 1 \in 1 .. MaxOrders
         /\ \A n \in 1 .. Len(owner) : owner'[n] = owner[n]
         /\ owner'[Len(owner) + 1] = o
BY TradeAssumption DEF TypeOK, Grows

LEMMA EntryIsOrder ==
  ASSUME NEW tr \in Trades
  PROVE  Entry(tr) \in Order
BY TradeAssumption DEF Entry, Order, NoOrder

LEMMA NotifiedTypes ==
  ASSUME TypeOK, NEW n \in Notes, Notified(n)
  PROVE  notes' \in Seq(Notes)
BY DEF TypeOK, Notified

LEMMA NewRowIsRow == NewRow \in Row
BY TradeAssumption DEF NewRow, Row, EntryStatuses, NoOrder

LEMMA IdleIsJob ==
  /\ Idle \in Jobs /\ Idle.at = "next" /\ Idle.todo = {}
  /\ \A S \in SUBSET Trades : Batch(S) \in Jobs /\ Batch(S).at = "next" /\ Batch(S).todo = S
BY TradeAssumption DEF Idle, Batch, Jobs, NoOrder

LEMMA NothingIsFound ==
  /\ Nothing \in Found /\ Nothing.at = "use" /\ Nothing.id = None /\ None \notin Trades
  /\ \A tr \in Trades, n \in 0 .. MaxOrders, at \in {"use", "bracket"} :
       [id |-> tr, entry |-> n, at |-> at] \in Found
BY TradeAssumption DEF Nothing, Found, NoOrder, None

\* The parts of an existing row.
LEMMA RowParts ==
  ASSUME TypeOK, NEW tr \in Trades
  PROVE  /\ trade[tr].entry \in 0 .. MaxOrders
         /\ mem[tr].entry \in 0 .. MaxOrders
         /\ Exists(tr) => trade[tr] \in Row
         /\ mem[tr] # NoTrade => mem[tr] \in Row
BY TradeAssumption DEF TypeOK, Exists, Row, NoTrade, DeletedTrade, NoOrder

\* The head of each queue.
LEMMA Heads ==
  ASSUME TypeOK
  PROVE  /\ notes # << >> => Head(notes) \in Notes /\ Tail(notes) \in Seq(Notes)
         /\ tradeUpdates # << >> => /\ Head(tradeUpdates) \in TradeNote
                                    /\ Tail(tradeUpdates) \in Seq(TradeNote)
                                    /\ Len(Tail(tradeUpdates)) <= ChannelCap
         /\ orderUpdates # << >> => /\ Head(orderUpdates) \in OrderNote
                                    /\ Tail(orderUpdates) \in Seq(OrderNote)
                                    /\ Len(Tail(orderUpdates)) <= ChannelCap
BY TradeAssumption DEF TypeOK

LEMMA GotoTypes ==
  ASSUME TypeOK, NEW c \in Callers, NEW tr \in Trades,
         NEW where \in {"check", "place", "record"}, NEW n \in 0 .. MaxOrders,
         Goto(c, tr, where, n)
  PROVE  /\ job' \in [Callers -> Jobs] /\ current' \in [Callers -> Trades \cup {None}]
         /\ writeLock' \in BOOLEAN
<1>1. [at |-> where, todo |-> job[c].todo, order |-> n] \in Jobs
  BY DEF TypeOK, Jobs
<1> QED BY <1>1 DEF Goto, TypeOK

LEMMA DoneTypes ==
  ASSUME TypeOK, NEW c \in Callers, NEW tr \in Trades, Done(c, tr)
  PROVE  /\ job' \in [Callers -> Jobs] /\ current' \in [Callers -> Trades \cup {None}]
         /\ writeLock' \in BOOLEAN
<1>1. Batch(job[c].todo \ {tr}) \in Jobs
  BY IdleIsJob DEF TypeOK, Jobs
<1> QED BY <1>1 DEF Done, TypeOK

LEMMA WriteRowTypes ==
  ASSUME TypeOK, NEW tr \in Trades, NEW r \in Row, WriteRow(tr, r)
  PROVE  trade' \in [Trades -> Row \cup {NoTrade, DeletedTrade}] /\ notes' \in Seq(Notes)
<1>1. [table |-> "trades", op |-> "UPDATE", id |-> tr, row |-> r] \in Notes
  BY DEF Notes, TradeNote
<1> QED BY <1>1, NotifiedTypes DEF WriteRow, TypeOK

\* The environment and the start of the process.
LEMMA TypesOutside ==
  ASSUME TypeOK,
         \/ \E t \in Triggers, st \in {"active", "triggered"} : WriteTrigger(t, st)
         \/ \E tr \in Trades : PostTrade(tr) \/ DeleteGroup(tr) \/ \E t \in Triggers : LinkTrigger(tr, t)
         \/ \E n \in 1 .. MaxOrders, st \in NoticeStatuses : RewriteOrder(n, st)
         \/ Crash \/ \E kept \in 0 .. Len(notes) : LoseNotes(kept)
         \/ Started \/ Listen
  PROVE  TypeOK'
<1>1. ASSUME NEW t \in Triggers, NEW st \in {"active", "triggered"}, WriteTrigger(t, st)
      PROVE  TypeOK'
  <2>1. [table |-> "triggers", id |-> t, status |-> st] \in Notes
    BY DEF Notes, TriggerNote
  <2>2. notes' \in Seq(Notes)
    BY <1>1, <2>1, NotifiedTypes DEF WriteTrigger
  <2>3. fired' \in Seq(Triggers) /\ trigger' \in [Triggers -> {"active", "triggered"}]
    BY <1>1 DEF WriteTrigger, TypeOK
  <2> QED BY <1>1, <2>2, <2>3 DEF WriteTrigger, TypeOK, procVars, jobVars, chanVars
<1>2. ASSUME NEW tr \in Trades, PostTrade(tr) PROVE TypeOK'
  <2>1. [table |-> "trades", op |-> "INSERT", id |-> tr, row |-> NewRow] \in Notes
    BY NewRowIsRow DEF Notes, TradeNote
  <2>2. notes' \in Seq(Notes)
    BY <1>2, <2>1, NotifiedTypes DEF PostTrade
  <2>3. /\ trade' \in [Trades -> Row \cup {NoTrade, DeletedTrade}]
        /\ posting' \in [Trades -> SUBSET Triggers]
    BY <1>2, NewRowIsRow, TradeAssumption DEF PostTrade, TypeOK
  <2> QED BY <1>2, <2>2, <2>3 DEF PostTrade, TypeOK, procVars, jobVars, chanVars, countVars
<1>3. ASSUME NEW tr \in Trades, DeleteGroup(tr) PROVE TypeOK'
  <2>1. [table |-> "trades", op |-> "DELETE", id |-> tr, row |-> trade[tr]] \in Notes
    BY <1>3, RowParts DEF DeleteGroup, Notes, TradeNote
  <2>2. notes' \in Seq(Notes)
    BY <1>3, <2>1, NotifiedTypes DEF DeleteGroup
  <2> QED BY <1>3, <2>2 DEF DeleteGroup, TypeOK, procVars, jobVars, chanVars, countVars
<1>4. ASSUME NEW tr \in Trades, NEW t \in Triggers, LinkTrigger(tr, t) PROVE TypeOK'
  <2>1. /\ posting' \in [Trades -> SUBSET Triggers]
        /\ links' \in [Trades -> SUBSET Triggers]
    BY <1>4 DEF LinkTrigger, TypeOK
  <2> QED BY <1>4, <2>1 DEF LinkTrigger, TypeOK, procVars, jobVars, chanVars, countVars
<1>5. ASSUME NEW n \in 1 .. MaxOrders, NEW st \in NoticeStatuses, RewriteOrder(n, st)
      PROVE  TypeOK'
  <2>1. [table |-> "orders", order |-> n, status |-> st] \in Notes
    BY DEF Notes, OrderNote
  <2>2. notes' \in Seq(Notes)
    BY <1>5, <2>1, NotifiedTypes DEF RewriteOrder
  <2> QED BY <1>5, <2>2 DEF RewriteOrder, TypeOK, dbVars, procVars, jobVars, chanVars
<1>6. CASE Crash
  <2> DEFINE S == {tr \in Trades : Exists(tr)}
  <2>1. Load(S) /\ UNCHANGED <<trade, links, trigger, fired, owner>>
    BY <1>6 DEF Crash
  <2>2. mem' \in [Trades -> Row \cup {NoTrade}]
    BY <2>1, RowParts DEF Load
  <2>3. job' \in [Callers -> Jobs] /\ current' \in [Callers -> Trades \cup {None}]
    BY <2>1, IdleIsJob DEF Load
  <2>4. /\ notes' = << >> /\ tradeUpdates' = << >> /\ orderUpdates' = << >>
        /\ writeLock' \in BOOLEAN /\ boots' \in Nat \ {0} /\ watchers' \subseteq 1 .. MaxOrders
        /\ posting' \in [Trades -> SUBSET Triggers] /\ found' \in Found
        /\ phase' \in {"starting", "started", "running"}
    <3>1. /\ found' = Nothing /\ watchers' = {} /\ posting' = [tr \in Trades |-> {}]
          /\ notes' = << >> /\ tradeUpdates' = << >> /\ orderUpdates' = << >>
          /\ writeLock' = FALSE /\ phase' = "starting"
      BY <2>1 DEF Load
    <3>2. boots' = boots + 1 /\ boots \in Nat \ {0}
      BY <2>1 DEF Load, TypeOK
    <3>3. boots' \in Nat \ {0}
      BY <3>2
    <3>4. watchers' \subseteq 1 .. MaxOrders /\ posting' \in [Trades -> SUBSET Triggers]
      BY <3>1
    <3>5. found' \in Found
      BY <3>1, NothingIsFound
    <3> QED BY <3>1, <3>3, <3>4, <3>5
  <2>5. /\ notes' \in Seq(Notes)
        /\ tradeUpdates' \in Seq(TradeNote) /\ Len(tradeUpdates') <= ChannelCap
        /\ orderUpdates' \in Seq(OrderNote) /\ Len(orderUpdates') <= ChannelCap
    BY <2>4, TradeAssumption
  <2> QED BY <2>1, <2>2, <2>3, <2>4, <2>5 DEF TypeOK
<1>7. ASSUME NEW kept \in 0 .. Len(notes), LoseNotes(kept) PROVE TypeOK'
  <2>1. notes' \in Seq(Notes)
    BY <1>7 DEF LoseNotes, TypeOK
  <2> QED BY <1>7, <2>1 DEF LoseNotes, TypeOK, dbVars, procVars, jobVars, chanVars, countVars
<1>8. CASE Started \/ Listen
  BY <1>8 DEF Started, Listen, TypeOK, dbVars, jobVars, chanVars, countVars
<1> QED BY <1>1, <1>2, <1>3, <1>4, <1>5, <1>6, <1>7, <1>8

\* The callers of checkAndExecuteTrade.
LEMMA TypesCallers ==
  ASSUME TypeOK, NEW c \in Callers, NEW tr \in Trades,
         \/ LookUp(c, tr) \/ Check(c, tr) \/ Place(c, tr) \/ Record(c, tr)
         \/ \E accepted \in BOOLEAN : PlaceError(c, tr, accepted)
  PROVE  TypeOK'
<1>1. /\ phase' = phase /\ mem' = mem /\ found' = found /\ watchers' = watchers
      /\ tradeUpdates' = tradeUpdates /\ orderUpdates' = orderUpdates
      /\ boots' = boots /\ fired' = fired
      /\ links' = links /\ trigger' = trigger /\ posting' = posting
  BY DEF LookUp, Check, Place, Record, PlaceError, Otherwise, chanVars, countVars, dbVars
<1>2. NoOrder \in 0 .. MaxOrders /\ job[c].order \in 0 .. MaxOrders
  BY TradeAssumption DEF NoOrder, TypeOK, Jobs
<1>3. CASE LookUp(c, tr) \/ Check(c, tr)
  <2>1. Goto(c, tr, "check", NoOrder) \/ Goto(c, tr, "place", NoOrder) \/ Done(c, tr)
    BY <1>3 DEF LookUp, Check
  <2>2. /\ job' \in [Callers -> Jobs] /\ current' \in [Callers -> Trades \cup {None}]
        /\ writeLock' \in BOOLEAN
    BY <1>2, <2>1, GotoTypes, DoneTypes
  <2>3. trade' = trade /\ notes' = notes /\ owner' = owner
    BY <1>3 DEF LookUp, Check, dbVars
  <2> QED BY <1>1, <2>2, <2>3 DEF TypeOK
<1>4. CASE Place(c, tr)
  <2>1. Grows(Entry(tr)) /\ Goto(c, tr, "record", Len(owner) + 1)
    BY <1>4 DEF Place, Grows
  <2>2. /\ owner' \in Seq(Order) /\ Len(owner') <= MaxOrders
        /\ Len(owner) + 1 \in 0 .. MaxOrders
    BY <2>1, OwnerGrows, EntryIsOrder
  <2>3. /\ job' \in [Callers -> Jobs] /\ current' \in [Callers -> Trades \cup {None}]
        /\ writeLock' \in BOOLEAN
    BY <2>1, <2>2, GotoTypes
  <2>4. trade' = trade /\ notes' = notes
    BY <1>4 DEF Place, dbVars
  <2> QED BY <1>1, <2>2, <2>3, <2>4 DEF TypeOK
<1>5. ASSUME NEW accepted \in BOOLEAN, PlaceError(c, tr, accepted) PROVE TypeOK'
  <2>1. Grows(Entry(tr)) \/ owner' = owner
    BY <1>5 DEF PlaceError, Grows
  <2>2. owner' \in Seq(Order) /\ Len(owner') <= MaxOrders
    BY <2>1, OwnerGrows, EntryIsOrder DEF TypeOK
  <2>3. /\ job' \in [Callers -> Jobs] /\ current' \in [Callers -> Trades \cup {None}]
        /\ writeLock' \in BOOLEAN
    BY <1>5, DoneTypes DEF PlaceError
  <2>4. trade' = trade /\ notes' = notes
    BY <1>5 DEF PlaceError, dbVars
  <2> QED BY <1>1, <2>2, <2>3, <2>4 DEF TypeOK
<1>6. CASE Record(c, tr)
  <2>1. [entry |-> job[c].order, status |-> "PENDING"] \in Row
    BY <1>2 DEF Row, EntryStatuses
  <2>2. trade' \in [Trades -> Row \cup {NoTrade, DeletedTrade}] /\ notes' \in Seq(Notes)
    BY <1>6, <2>1, WriteRowTypes DEF Record, TypeOK
  <2>3. /\ job' \in [Callers -> Jobs] /\ current' \in [Callers -> Trades \cup {None}]
        /\ writeLock' \in BOOLEAN
    BY <1>6, DoneTypes DEF Record
  <2>4. owner' = owner
    BY <1>6 DEF Record
  <2> QED BY <1>1, <2>2, <2>3, <2>4 DEF TypeOK
<1> QED BY <1>3, <1>4, <1>5, <1>6

\* The listener and the two channel goroutines.
LEMMA TypesChannels ==
  ASSUME TypeOK, Bracketing, Watched,
         \/ NoteTrade \/ NoteOrder \/ NoteTrigger
         \/ UpdateTrade \/ FindTrade \/ PlaceBracketOrder
         \/ \E failed \in BOOLEAN : UseTrade(failed)
         \/ \E accepted \in BOOLEAN : BracketError(accepted)
         \/ \E n \in 1 .. MaxOrders : OrderFilled(n)
  PROVE  TypeOK'
<1>1. CASE NoteTrade
  <2>1. notes # << >> /\ Head(notes) \in TradeNote
    BY <1>1, Heads DEF NoteTrade, ListenerFree, Notes, OrderNote, TriggerNote
  <2>2. /\ notes' \in Seq(Notes)
        /\ tradeUpdates' \in Seq(TradeNote) /\ Len(tradeUpdates') <= ChannelCap
    <3>1. notes' \in Seq(Notes) /\ tradeUpdates \in Seq(TradeNote) /\ Len(tradeUpdates) <= ChannelCap
      BY <1>1, <2>1, Heads DEF NoteTrade, TypeOK
    <3>2. \/ tradeUpdates' = tradeUpdates
          \/ Len(tradeUpdates) < ChannelCap /\ tradeUpdates' = Append(tradeUpdates, Head(notes))
      BY <1>1 DEF NoteTrade
    <3> QED BY <2>1, <3>1, <3>2, TradeAssumption
  <2> QED BY <1>1, <2>2 DEF NoteTrade, TypeOK, dbVars, procVars, jobVars, countVars
<1>2. CASE NoteOrder
  <2>1. notes # << >> /\ Head(notes) \in OrderNote
    BY <1>2, Heads DEF NoteOrder, ListenerFree, Notes, TradeNote, TriggerNote
  <2>2. /\ notes' \in Seq(Notes)
        /\ orderUpdates' \in Seq(OrderNote) /\ Len(orderUpdates') <= ChannelCap
    BY <1>2, <2>1, Heads, TradeAssumption DEF NoteOrder, TypeOK
  <2> QED BY <1>2, <2>2 DEF NoteOrder, TypeOK, dbVars, procVars, jobVars, countVars
<1>3. CASE NoteTrigger
  <2> DEFINE due == TradesOf(Head(notes).id)
  <2>1. notes' \in Seq(Notes)
    BY <1>3, Heads DEF NoteTrigger, NoteTriggerFor, ListenerFree
  <2>2. Batch(due) \in Jobs
    BY IdleIsJob DEF TradesOf
  <2>3. job' \in [Callers -> Jobs]
    BY <1>3, <2>2 DEF NoteTrigger, NoteTriggerFor, TypeOK
  <2> QED BY <1>3, <2>1, <2>3 DEF NoteTrigger, NoteTriggerFor, TypeOK, dbVars, chanVars, countVars
<1>4. CASE UpdateTrade
  <2> DEFINE u == Head(tradeUpdates)
  <2>1. u \in TradeNote /\ /\ tradeUpdates' \in Seq(TradeNote)
                           /\ Len(tradeUpdates') <= ChannelCap
    BY <1>4, Heads DEF UpdateTrade
  <2>2. u.id \in Trades /\ u.op \in {"INSERT", "UPDATE", "DELETE"} /\ u.row \in Row
    BY <2>1 DEF TradeNote
  <2>3. mem' \in [Trades -> Row \cup {NoTrade}]
    BY <1>4, <2>2 DEF UpdateTrade, TypeOK
  <2>4. found' \in Found
    BY <1>4, <2>2 DEF UpdateTrade, TypeOK, Found, Row
  <2>5. Batch({u.id}) \in Jobs
    BY <2>2, IdleIsJob
  <2>6. job' \in [Callers -> Jobs]
    BY <1>4, <2>5 DEF UpdateTrade, TypeOK
  <2>7. writeLock' \in BOOLEAN
    BY <1>4 DEF UpdateTrade
  <2> QED BY <1>4, <2>1, <2>3, <2>4, <2>6, <2>7 DEF UpdateTrade, TypeOK, dbVars, countVars
<1>5. CASE FindTrade
  <2> DEFINE n == Head(orderUpdates).order
  <2>1. n \in 1 .. MaxOrders /\ Tail(orderUpdates) \in Seq(OrderNote)
                             /\ Len(Tail(orderUpdates)) <= ChannelCap
    BY <1>5, Heads DEF FindTrade, OrderNote
  <2>2. found' \in Found
    <3>1. found' = found \/ \E tr \in Trades : found' = [id |-> tr, entry |-> n, at |-> "use"]
      BY <1>5 DEF FindTrade
    <3>2. found \in Found
      BY DEF TypeOK
    <3>3. ASSUME NEW tr \in Trades PROVE [id |-> tr, entry |-> n, at |-> "use"] \in Found
      BY <2>1 DEF Found
    <3> QED BY <3>1, <3>2, <3>3
  <2>3. orderUpdates' \in Seq(OrderNote) /\ Len(orderUpdates') <= ChannelCap
    BY <1>5, <2>1 DEF FindTrade, TypeOK
  <2> QED BY <1>5, <2>2, <2>3 DEF FindTrade, TypeOK, dbVars, jobVars, countVars
<1>6. ASSUME NEW failed \in BOOLEAN, UseTrade(failed) PROVE TypeOK'
  <2> DEFINE u == Head(orderUpdates)
  <2>1. /\ found.id \in Trades /\ u \in OrderNote
        /\ Tail(orderUpdates) \in Seq(OrderNote)
        /\ Len(Tail(orderUpdates)) <= ChannelCap
    BY <1>6, Heads DEF UseTrade, Bracketing
  <2>2. Exists(found.id) => [entry |-> trade[found.id].entry, status |-> u.status] \in Row
    BY <2>1, RowParts DEF Row, OrderNote, EntryStatuses
  <2>3. trade' \in [Trades -> Row \cup {NoTrade, DeletedTrade}] /\ notes' \in Seq(Notes)
    BY <1>6, <2>1, <2>2, WriteRowTypes DEF UseTrade, TypeOK
  <2>4. found' \in Found
    <3>1. found' = Nothing \/ found' = [found EXCEPT !.at = "bracket"]
      BY <1>6 DEF UseTrade
    <3>2. found \in Found
      BY DEF TypeOK
    <3>3. [found EXCEPT !.at = "bracket"] \in Found
      BY <3>2 DEF Found
    <3> QED BY <3>1, <3>3, NothingIsFound
  <2>5. orderUpdates' \in Seq(OrderNote) /\ Len(orderUpdates') <= ChannelCap
    BY <1>6, <2>1 DEF UseTrade, TypeOK
  <2> QED BY <1>6, <2>3, <2>4, <2>5 DEF UseTrade, TypeOK, dbVars, jobVars, countVars
<1>7. ASSUME PlaceBracketOrder \/ \E accepted \in BOOLEAN : BracketError(accepted)
      PROVE  TypeOK'
  <2> DEFINE u == Head(orderUpdates)
             o == [trade |-> found.id, after |-> u.order]
  <2>1. /\ found.id \in Trades /\ u \in OrderNote
        /\ Tail(orderUpdates) \in Seq(OrderNote)
        /\ Len(Tail(orderUpdates)) <= ChannelCap
    BY <1>7, Heads, NothingIsFound DEF PlaceBracketOrder, BracketError, Bracketing
  <2>2. o \in Order
    BY <2>1 DEF Order, OrderNote
  <2>3. Grows(o) \/ (owner' = owner /\ watchers' = watchers)
    BY <1>7 DEF PlaceBracketOrder, BracketError, Grows
  <2>4. owner' \in Seq(Order) /\ Len(owner') <= MaxOrders
    BY <2>2, <2>3, OwnerGrows DEF TypeOK
  <2>5. watchers' \subseteq 1 .. MaxOrders
    BY <1>7, <2>2, <2>3, OwnerGrows DEF PlaceBracketOrder, BracketError, TypeOK
  <2>6. found' \in Found /\ orderUpdates' = Tail(orderUpdates)
    BY <1>7, NothingIsFound DEF PlaceBracketOrder, BracketError
  <2>7. UNCHANGED <<dbVars, phase, mem, jobVars, tradeUpdates, countVars, notes>>
    BY <1>7 DEF PlaceBracketOrder, BracketError
  <2> QED BY <2>1, <2>4, <2>5, <2>6, <2>7 DEF TypeOK, dbVars, jobVars, countVars
<1>8. ASSUME NEW n \in 1 .. MaxOrders, OrderFilled(n) PROVE TypeOK'
  <2> DEFINE o == [trade |-> owner[n].trade, after |-> n]
  <2>1. n \in 1 .. Len(owner)
    BY <1>8 DEF OrderFilled, Watched, Second
  <2>2. o \in Order
    <3>1. owner[n] \in Order
      BY <2>1 DEF TypeOK
    <3> QED BY <1>8, <3>1 DEF Order
  <2>3. Grows(o) \/ owner' = owner
    BY <1>8 DEF OrderFilled, Follow, Grows
  <2>4. owner' \in Seq(Order) /\ Len(owner') <= MaxOrders
    BY <2>2, <2>3, OwnerGrows DEF TypeOK
  <2> QED BY <1>8, <2>4 DEF OrderFilled, TypeOK, dbVars, jobVars, chanVars, countVars
<1> QED BY <1>1, <1>2, <1>3, <1>4, <1>5, <1>6, <1>7, <1>8

-----------------------------------------------------------------------------
(* Numbers of orders. *)

OwnerKept == owner' = owner \/ \E o \in Order : Grows(o)

\* An entry order stays one, as orders are only ever added.
LEMMA EntryStays ==
  ASSUME TypeOK, OwnerKept, NEW n, NEW tr, IsEntry(n, tr)
  PROVE  IsEntry(n, tr)'
BY OwnerGrows DEF OwnerKept, IsEntry, TypeOK, Entry

LEMMA NamedStays ==
  ASSUME TypeOK, OwnerKept, NEW r, NEW tr, Named(r, tr)
  PROVE  Named(r, tr)'
BY EntryStays DEF Named

\* What a step leaves alone, or only takes away from, stays named.
LEMMA UntouchedNamed ==
  ASSUME TypeOK, EntriesKept, OwnerKept
  PROVE  /\ trade' = trade => TradeNamed'
         /\ mem' = mem => MemNamed'
         /\ notes' = notes => NotesNamed'
         /\ notes # << >> /\ notes' = Tail(notes) => NotesNamed'
         /\ tradeUpdates' = tradeUpdates => UpdatesNamed'
         /\ tradeUpdates # << >> /\ tradeUpdates' = Tail(tradeUpdates) => UpdatesNamed'
         /\ found' = found => FoundNamed'
         /\ found' = Nothing => FoundNamed'
         /\ job' = job /\ current' = current => JobsNamed'
<1>1. trade' = trade => TradeNamed'
  BY NamedStays DEF EntriesKept, TradeNamed
<1>2. mem' = mem => MemNamed'
  BY NamedStays DEF EntriesKept, MemNamed
<1>3. notes' = notes => NotesNamed'
  BY NamedStays DEF EntriesKept, NotesNamed
<1>4. ASSUME notes # << >>, notes' = Tail(notes) PROVE NotesNamed'
  <2>1. \A i \in 1 .. Len(notes') : i + 1 \in 1 .. Len(notes) /\ notes'[i] = notes[i + 1]
    BY <1>4 DEF TypeOK
  <2> QED BY <2>1, NamedStays DEF EntriesKept, NotesNamed
<1>5. tradeUpdates' = tradeUpdates => UpdatesNamed'
  BY NamedStays DEF EntriesKept, UpdatesNamed
<1>6. ASSUME tradeUpdates # << >>, tradeUpdates' = Tail(tradeUpdates) PROVE UpdatesNamed'
  <2>1. \A i \in 1 .. Len(tradeUpdates') :
          i + 1 \in 1 .. Len(tradeUpdates) /\ tradeUpdates'[i] = tradeUpdates[i + 1]
    BY <1>6 DEF TypeOK
  <2> QED BY <2>1, NamedStays DEF EntriesKept, UpdatesNamed
<1>7. found' = found => FoundNamed'
  BY NamedStays DEF EntriesKept, FoundNamed
<1>8. found' = Nothing => FoundNamed'
  BY DEF FoundNamed
<1>9. job' = job /\ current' = current => JobsNamed'
  BY EntryStays DEF EntriesKept, JobsNamed
<1> QED BY <1>1, <1>2, <1>3, <1>4, <1>5, <1>6, <1>7, <1>8, <1>9

LEMMA NotifiedNamed ==
  ASSUME TypeOK, EntriesKept, OwnerKept, NEW n \in Notes, Notified(n),
         n.table = "trades" => Named(n.row, n.id)'
  PROVE  NotesNamed'
<1>1. CASE notes' = notes
  BY <1>1, UntouchedNamed
<1>2. CASE notes' = Append(notes, n)
  <2>1. /\ \A i \in 1 .. Len(notes') : i \in 1 .. Len(notes) \/ i = Len(notes) + 1
        /\ \A i \in 1 .. Len(notes) : notes'[i] = notes[i]
        /\ notes'[Len(notes) + 1] = n
    BY <1>2 DEF TypeOK
  <2> QED BY <2>1, NamedStays DEF EntriesKept, NotesNamed
<1> QED BY <1>1, <1>2 DEF Notified

\* A caller that is not just handed a number holds one only if it did before.
LEMMA JobsStayNamed ==
  ASSUME TypeOK, EntriesKept, OwnerKept, NEW c \in Callers, NEW j,
         job' = [job EXCEPT ![c] = j], j.at # "record",
         \A d \in Callers \ {c} : current'[d] = current[d]
  PROVE  JobsNamed'
BY EntryStays DEF TypeOK, EntriesKept, JobsNamed

LEMMA WriteRowNamed ==
  ASSUME TypeOK, EntriesKept, OwnerKept, NEW tr \in Trades, NEW r \in Row,
         WriteRow(tr, r), Named(r, tr)
  PROVE  TradeNamed' /\ NotesNamed'
<1> DEFINE n == [table |-> "trades", op |-> "UPDATE", id |-> tr, row |-> r]
<1>1. n \in Notes
  BY DEF Notes, TradeNote
<1>2. Notified(n) /\ trade' = [trade EXCEPT ![tr] = r]
  BY DEF WriteRow
<1>3. Named(r, tr)'
  BY NamedStays
<1>4. NotesNamed'
  BY <1>1, <1>2, <1>3, NotifiedNamed
<1>5. TradeNamed'
  BY <1>2, <1>3, NamedStays DEF TradeNamed, EntriesKept, TypeOK
<1> QED BY <1>4, <1>5

LEMMA KeptOutside ==
  ASSUME TypeOK, EntriesKept,
         \/ \E t \in Triggers, st \in {"active", "triggered"} : WriteTrigger(t, st)
         \/ \E tr \in Trades : PostTrade(tr) \/ DeleteGroup(tr) \/ \E t \in Triggers : LinkTrigger(tr, t)
         \/ \E n \in 1 .. MaxOrders, st \in NoticeStatuses : RewriteOrder(n, st)
         \/ Crash \/ \E kept \in 0 .. Len(notes) : LoseNotes(kept)
         \/ Started \/ Listen
  PROVE  EntriesKept'
<1>1. OwnerKept
  BY DEF OwnerKept, WriteTrigger, PostTrade, DeleteGroup, LinkTrigger, RewriteOrder, Crash,
         LoseNotes, Started, Listen
<1>2. ASSUME NEW t \in Triggers, NEW st \in {"active", "triggered"}, WriteTrigger(t, st)
      PROVE  EntriesKept'
  <2> DEFINE n == [table |-> "triggers", id |-> t, status |-> st]
  <2>1. n \in Notes /\ n.table # "trades" /\ Notified(n)
    BY <1>2 DEF Notes, TriggerNote, WriteTrigger
  <2>2. NotesNamed'
    BY <1>1, <2>1, NotifiedNamed
  <2> QED BY <1>1, <1>2, <2>2, UntouchedNamed
          DEF WriteTrigger, EntriesKept, procVars, jobVars, chanVars
<1>3. ASSUME NEW tr \in Trades, PostTrade(tr) PROVE EntriesKept'
  <2> DEFINE n == [table |-> "trades", op |-> "INSERT", id |-> tr, row |-> NewRow]
  <2>1. n \in Notes /\ Notified(n)
    BY <1>3, NewRowIsRow DEF Notes, TradeNote, PostTrade
  <2>2. Named(NewRow, tr)'
    BY DEF Named, NewRow, NoOrder
  <2>3. NotesNamed'
    BY <1>1, <2>1, <2>2, NotifiedNamed
  <2>4. TradeNamed'
    BY <1>1, <1>3, <2>2, NamedStays DEF PostTrade, TradeNamed, EntriesKept, TypeOK
  <2> QED BY <1>1, <1>3, <2>3, <2>4, UntouchedNamed
          DEF PostTrade, EntriesKept, procVars, jobVars, chanVars
<1>4. ASSUME NEW tr \in Trades, DeleteGroup(tr) PROVE EntriesKept'
  <2>1. PICK r \in Row : r = trade[tr]
    BY <1>4, RowParts DEF DeleteGroup
  <2> DEFINE n == [table |-> "trades", op |-> "DELETE", id |-> tr, row |-> r]
  <2>2. n \in Notes /\ Notified(n)
    BY <1>4, <2>1 DEF Notes, TradeNote, DeleteGroup
  <2>3. Named(r, tr)'
    BY <1>1, <2>1, NamedStays DEF EntriesKept, TradeNamed
  <2>4. NotesNamed'
    BY <1>1, <2>2, <2>3, NotifiedNamed
  <2>5. Named(DeletedTrade, tr)'
    BY DEF Named, DeletedTrade, NoOrder
  <2>6. TradeNamed'
    BY <1>1, <1>4, <2>5, NamedStays DEF DeleteGroup, TradeNamed, EntriesKept, TypeOK
  <2> QED BY <1>1, <1>4, <2>4, <2>6, UntouchedNamed
          DEF DeleteGroup, EntriesKept, procVars, jobVars, chanVars
<1>5. ASSUME NEW tr \in Trades, NEW t \in Triggers, LinkTrigger(tr, t) PROVE EntriesKept'
  BY <1>1, <1>5, UntouchedNamed DEF LinkTrigger, EntriesKept, procVars, jobVars, chanVars
<1>6. ASSUME NEW m \in 1 .. MaxOrders, NEW st \in NoticeStatuses, RewriteOrder(m, st)
      PROVE  EntriesKept'
  <2> DEFINE n == [table |-> "orders", order |-> m, status |-> st]
  <2>1. n \in Notes /\ n.table # "trades" /\ Notified(n)
    BY <1>6 DEF Notes, OrderNote, RewriteOrder
  <2>2. NotesNamed'
    BY <1>1, <2>1, NotifiedNamed
  <2> QED BY <1>1, <1>6, <2>2, UntouchedNamed
          DEF RewriteOrder, EntriesKept, dbVars, procVars, jobVars, chanVars
<1>7. CASE Crash
  <2> DEFINE S == {tr \in Trades : Exists(tr)}
  <2>1. Load(S) /\ trade' = trade /\ owner' = owner
    BY <1>7 DEF Crash
  <2>2. /\ notes' = << >> /\ tradeUpdates' = << >> /\ found' = Nothing
        /\ \A c \in Callers : job'[c].at = "next"
        /\ \A tr \in Trades : mem'[tr] = trade[tr] \/ mem'[tr] = NoTrade
    BY <2>1, IdleIsJob DEF Load, Batch
  <2>3. MemNamed'
    BY <2>1, <2>2 DEF MemNamed, TradeNamed, EntriesKept, Named, NoTrade, IsEntry, NoOrder
  <2>4. NotesNamed' /\ UpdatesNamed' /\ JobsNamed'
    BY <2>2 DEF NotesNamed, UpdatesNamed, JobsNamed
  <2> QED BY <1>1, <2>1, <2>2, <2>3, <2>4, UntouchedNamed DEF EntriesKept
<1>8. ASSUME NEW kept \in 0 .. Len(notes), LoseNotes(kept) PROVE EntriesKept'
  <2>1. \A i \in 1 .. Len(notes') : i \in 1 .. Len(notes) /\ notes'[i] = notes[i]
    BY <1>8 DEF LoseNotes, TypeOK
  <2>2. NotesNamed'
    BY <1>1, <2>1, NamedStays DEF NotesNamed, EntriesKept
  <2> QED BY <1>1, <1>8, <2>2, UntouchedNamed
          DEF LoseNotes, EntriesKept, dbVars, procVars, jobVars, chanVars
<1>9. CASE Started \/ Listen
  BY <1>1, <1>9, UntouchedNamed DEF Started, Listen, EntriesKept, dbVars, jobVars, chanVars
<1> QED BY <1>2, <1>3, <1>4, <1>5, <1>6, <1>7, <1>8, <1>9

LEMMA KeptCallers ==
  ASSUME TypeOK, EntriesKept, NEW c \in Callers, NEW tr \in Trades,
         \/ LookUp(c, tr) \/ Check(c, tr) \/ Place(c, tr) \/ Record(c, tr)
         \/ \E accepted \in BOOLEAN : PlaceError(c, tr, accepted)
  PROVE  EntriesKept'
<1>1. OwnerKept
  BY EntryIsOrder DEF OwnerKept, Grows, LookUp, Check, Place, Record, PlaceError
<1>2. mem' = mem /\ found' = found /\ tradeUpdates' = tradeUpdates
  BY DEF LookUp, Check, Place, Record, PlaceError, Otherwise, chanVars
<1>3. MemNamed' /\ UpdatesNamed' /\ FoundNamed'
  BY <1>1, <1>2, UntouchedNamed
<1>4. ASSUME Done(c, tr) PROVE JobsNamed'
  <2>1. Batch(job[c].todo \ {tr}).at # "record"
    BY DEF Batch
  <2>2. \A d \in Callers \ {c} : current'[d] = current[d]
    BY <1>4 DEF Done, TypeOK
  <2> QED BY <1>1, <1>4, <2>1, <2>2, JobsStayNamed DEF Done
<1>5. CASE LookUp(c, tr) \/ Check(c, tr)
  <2>1. trade' = trade /\ notes' = notes
    BY <1>5 DEF LookUp, Check, dbVars
  <2>2. ASSUME NEW where \in {"check", "place"}, Goto(c, tr, where, NoOrder) PROVE JobsNamed'
    <3> DEFINE j == [at |-> where, todo |-> job[c].todo, order |-> NoOrder]
    <3>1. job' = [job EXCEPT ![c] = j] /\ j.at # "record"
      BY <2>2 DEF Goto
    <3>2. \A d \in Callers \ {c} : current'[d] = current[d]
      BY <2>2 DEF Goto, TypeOK
    <3> QED BY <1>1, <3>1, <3>2, JobsStayNamed
  <2>3. JobsNamed'
    BY <1>4, <1>5, <2>2 DEF LookUp, Check
  <2> QED BY <1>1, <1>3, <2>1, <2>3, UntouchedNamed DEF EntriesKept
<1>6. CASE Place(c, tr)
  <2>1. trade' = trade /\ notes' = notes
    BY <1>6 DEF Place, dbVars
  <2>2. Grows(Entry(tr)) /\ Goto(c, tr, "record", Len(owner) + 1)
    BY <1>6 DEF Place, Grows
  <2>3. PICK k \in Nat : k = Len(owner) + 1
    BY <2>2, OwnerGrows, EntryIsOrder
  <2>4. IsEntry(k, tr)'
    BY <2>2, <2>3, OwnerGrows, EntryIsOrder DEF IsEntry, Entry
  <2>5. /\ job'[c].order = k /\ current'[c] = tr
        /\ \A d \in Callers \ {c} : job'[d] = job[d] /\ current'[d] = current[d]
    BY <2>2, <2>3 DEF Goto, TypeOK
  <2>6. ASSUME NEW d \in Callers, job'[d].at = "record"
        PROVE  IsEntry(job[d].order, current[d])'
    <3>1. PICK m, u : m = job'[d].order /\ u = current'[d]
      OBVIOUS
    <3>2. d # c => IsEntry(m, u)
      BY <2>5, <2>6, <3>1 DEF EntriesKept, JobsNamed
    <3>3. IsEntry(m, u)'
      BY <1>1, <2>4, <2>5, <3>1, <3>2, EntryStays
    <3> QED BY <3>1, <3>3 DEF IsEntry
  <2>7. JobsNamed'
    BY <2>6 DEF JobsNamed
  <2> QED BY <1>1, <1>3, <2>1, <2>7, UntouchedNamed DEF EntriesKept
<1>7. ASSUME NEW accepted \in BOOLEAN, PlaceError(c, tr, accepted) PROVE EntriesKept'
  BY <1>1, <1>3, <1>4, <1>7, UntouchedNamed DEF PlaceError, dbVars, EntriesKept
<1>8. CASE Record(c, tr)
  <2> DEFINE r == [entry |-> job[c].order, status |-> "PENDING"]
  <2>1. r \in Row
    BY DEF Row, EntryStatuses, TypeOK, Jobs
  <2>2. Named(r, tr)
    BY <1>8 DEF EntriesKept, JobsNamed, Named, Record, At
  <2>3. TradeNamed' /\ NotesNamed'
    BY <1>1, <1>8, <2>1, <2>2, WriteRowNamed, UntouchedNamed DEF Record
  <2> QED BY <1>3, <1>4, <1>8, <2>3 DEF Record, EntriesKept
<1> QED BY <1>5, <1>6, <1>7, <1>8

LEMMA KeptChannels ==
  ASSUME TypeOK, EntriesKept, Bracketing, Watched,
         \/ NoteTrade \/ NoteOrder \/ NoteTrigger
         \/ UpdateTrade \/ FindTrade \/ PlaceBracketOrder
         \/ \E failed \in BOOLEAN : UseTrade(failed)
         \/ \E accepted \in BOOLEAN : BracketError(accepted)
         \/ \E n \in 1 .. MaxOrders : OrderFilled(n)
  PROVE  EntriesKept'
<1>1. CASE NoteTrade \/ NoteOrder
  <2>1. OwnerKept
    BY <1>1 DEF OwnerKept, NoteTrade, NoteOrder
  <2>2. /\ notes # << >> /\ notes' = Tail(notes)
        /\ trade' = trade /\ mem' = mem /\ found' = found /\ job' = job /\ current' = current
    BY <1>1 DEF NoteTrade, NoteOrder, ListenerFree, dbVars, procVars, jobVars
  <2>3. UpdatesNamed'
    <3>1. CASE tradeUpdates' = tradeUpdates
      BY <2>1, <3>1, UntouchedNamed
    <3>2. CASE Head(notes).table = "trades" /\ tradeUpdates' = Append(tradeUpdates, Head(notes))
      <4>1. PICK n \in Notes : n = Head(notes)
        BY <2>2, Heads
      <4>2. Named(n.row, n.id)
        <5>1. notes[1] = n /\ 1 \in 1 .. Len(notes)
          BY <2>2, <4>1 DEF TypeOK
        <5> QED BY <3>2, <4>1, <5>1 DEF EntriesKept, NotesNamed
      <4>3. Named(n.row, n.id)'
        BY <2>1, <4>2, NamedStays
      <4>4. /\ \A i \in 1 .. Len(tradeUpdates') :
                 i \in 1 .. Len(tradeUpdates) \/ i = Len(tradeUpdates) + 1
            /\ \A i \in 1 .. Len(tradeUpdates) : tradeUpdates'[i] = tradeUpdates[i]
            /\ tradeUpdates'[Len(tradeUpdates) + 1] = n
        BY <3>2, <4>1 DEF TypeOK
      <4> QED BY <2>1, <4>3, <4>4, NamedStays DEF EntriesKept, UpdatesNamed
    <3> QED BY <1>1, <3>1, <3>2 DEF NoteTrade, NoteOrder
  <2> QED BY <2>1, <2>2, <2>3, UntouchedNamed DEF EntriesKept
<1>2. CASE NoteTrigger
  <2> DEFINE due == TradesOf(Head(notes).id)
  <2>1. OwnerKept
    BY <1>2 DEF OwnerKept, NoteTrigger, NoteTriggerFor
  <2>2. /\ notes # << >> /\ notes' = Tail(notes) /\ current' = current
        /\ trade' = trade /\ mem' = mem /\ found' = found /\ tradeUpdates' = tradeUpdates
    BY <1>2 DEF NoteTrigger, NoteTriggerFor, ListenerFree, dbVars, chanVars
  <2>3. job' = job \/ job' = [job EXCEPT ![Listener] = Batch(due)]
    BY <1>2 DEF NoteTrigger, NoteTriggerFor
  <2>4. JobsNamed'
    <3>1. Listener \in Callers /\ Batch(due).at # "record"
      BY DEF Batch, Callers
    <3> QED BY <2>1, <2>2, <2>3, <3>1, JobsStayNamed, UntouchedNamed
  <2> QED BY <2>1, <2>2, <2>4, UntouchedNamed DEF EntriesKept
<1>3. CASE UpdateTrade
  <2>1. OwnerKept
    BY <1>3 DEF OwnerKept, UpdateTrade
  <2>2. PICK u \in TradeNote : u = Head(tradeUpdates)
    BY <1>3, Heads DEF UpdateTrade
  <2>3. /\ tradeUpdates # << >> /\ tradeUpdates' = Tail(tradeUpdates)
        /\ trade' = trade /\ notes' = notes /\ current' = current
    BY <1>3 DEF UpdateTrade, dbVars
  <2>4. u.id \in Trades /\ u.op \in {"INSERT", "UPDATE", "DELETE"}
    BY DEF TradeNote
  <2>5. Named(u.row, u.id)
    <3>1. 1 \in 1 .. Len(tradeUpdates) /\ u = tradeUpdates[1]
      BY <2>2, <2>3 DEF TypeOK
    <3> QED BY <3>1 DEF EntriesKept, UpdatesNamed
  <2>6. Named(u.row, u.id)' /\ Named(NoTrade, u.id)'
    BY <2>1, <2>5, NamedStays DEF Named, NoTrade, NoOrder
  <2>7. MemNamed'
    <3>1. mem'[u.id] \in {u.row, NoTrade}
      BY <1>3, <2>2, <2>4 DEF UpdateTrade, TypeOK
    <3>2. \A tr \in Trades \ {u.id} : mem'[tr] = mem[tr]
      BY <1>3, <2>2 DEF UpdateTrade, TypeOK
    <3> QED BY <2>1, <2>6, <3>1, <3>2, NamedStays DEF EntriesKept, MemNamed
  <2>8. FoundNamed'
    <3>1. found' = found \/ (found.id = u.id /\ found' = [found EXCEPT !.entry = u.row.entry])
      BY <1>3, <2>2 DEF UpdateTrade
    <3>2. CASE found.id = u.id /\ found' = [found EXCEPT !.entry = u.row.entry]
      <4>1. found'.entry = u.row.entry /\ found'.id = u.id
        BY <3>2 DEF TypeOK, Found
      <4> QED BY <2>6, <4>1 DEF FoundNamed, Named, IsEntry
    <3> QED BY <2>1, <3>1, <3>2, UntouchedNamed
  <2>9. JobsNamed'
    <3>1. job' = job \/ job' = [job EXCEPT ![Updater] = Batch({u.id})]
      BY <1>3, <2>2 DEF UpdateTrade
    <3>2. Updater \in Callers /\ Batch({u.id}).at # "record"
      BY DEF Batch, Callers
    <3> QED BY <2>1, <2>3, <3>1, <3>2, JobsStayNamed, UntouchedNamed
  <2> QED BY <2>1, <2>3, <2>7, <2>8, <2>9, UntouchedNamed DEF EntriesKept
<1>4. CASE FindTrade
  <2>1. OwnerKept
    BY <1>4 DEF OwnerKept, FindTrade
  <2>2. FoundNamed'
    <3>1. CASE found' = found
      BY <2>1, <3>1, UntouchedNamed
    <3>2. ASSUME NEW tr \in Trades, mem[tr].entry = Head(orderUpdates).order,
                 found' = [id |-> tr, entry |-> Head(orderUpdates).order, at |-> "use"]
          PROVE  FoundNamed'
      <4>1. PICK r : r = mem[tr]
        OBVIOUS
      <4>2. Named(r, tr)'
        BY <2>1, <4>1, NamedStays DEF EntriesKept, MemNamed
      <4> QED BY <3>2, <4>1, <4>2 DEF FoundNamed, Named, IsEntry
    <3> QED BY <1>4, <3>1, <3>2 DEF FindTrade
  <2> QED BY <1>4, <2>1, <2>2, UntouchedNamed DEF FindTrade, dbVars, jobVars, EntriesKept
<1>5. ASSUME NEW failed \in BOOLEAN, UseTrade(failed) PROVE EntriesKept'
  <2> DEFINE u == Head(orderUpdates)
             r == [entry |-> trade[found.id].entry, status |-> u.status]
  <2>1. OwnerKept
    BY <1>5 DEF OwnerKept, UseTrade
  <2>2. found.id \in Trades /\ u \in OrderNote
    BY <1>5, Heads DEF UseTrade, Bracketing
  <2>3. Exists(found.id) => r \in Row
    BY <2>2, RowParts DEF Row, OrderNote, EntryStatuses
  <2>4. Named(r, found.id)
    BY <2>2 DEF EntriesKept, TradeNamed, Named
  <2>5. TradeNamed' /\ NotesNamed'
    BY <1>5, <2>1, <2>2, <2>3, <2>4, WriteRowNamed, UntouchedNamed DEF UseTrade
  <2>6. FoundNamed'
    <3>1. found' = Nothing \/ found' = [found EXCEPT !.at = "bracket"]
      BY <1>5 DEF UseTrade
    <3>2. CASE found' = [found EXCEPT !.at = "bracket"]
      <4>1. found'.entry = found.entry /\ found'.id = found.id /\ found # Nothing
        BY <1>5, <3>2 DEF TypeOK, Found, UseTrade
      <4> QED BY <1>5, <4>1 DEF UseTrade, EntriesKept, FoundNamed, Named, IsEntry
    <3> QED BY <2>1, <3>1, <3>2, UntouchedNamed
  <2> QED BY <1>5, <2>1, <2>5, <2>6, UntouchedNamed DEF UseTrade, jobVars, EntriesKept
<1>6. ASSUME PlaceBracketOrder \/ \E accepted \in BOOLEAN : BracketError(accepted)
      PROVE  EntriesKept'
  <2> DEFINE o == [trade |-> found.id, after |-> Head(orderUpdates).order]
  <2>1. found # Nothing
    BY <1>6, NothingIsFound DEF PlaceBracketOrder, BracketError
  <2>2. o \in Order
    BY <2>1, Heads DEF Bracketing, Order, OrderNote
  <2>3. OwnerKept
    BY <1>6, <2>2 DEF OwnerKept, PlaceBracketOrder, BracketError, Grows
  <2>4. /\ trade' = trade /\ mem' = mem /\ notes' = notes /\ tradeUpdates' = tradeUpdates
        /\ found' = Nothing /\ job' = job /\ current' = current
    BY <1>6 DEF PlaceBracketOrder, BracketError, dbVars, jobVars
  <2> QED BY <2>3, <2>4, UntouchedNamed DEF EntriesKept
<1>7. ASSUME NEW n \in 1 .. MaxOrders, OrderFilled(n) PROVE EntriesKept'
  <2> DEFINE o == [trade |-> owner[n].trade, after |-> n]
  <2>1. owner[n] \in Order
    BY <1>7 DEF OrderFilled, Watched, Second, TypeOK
  <2>2. o \in Order
    BY <1>7, <2>1 DEF Order
  <2>3. OwnerKept
    BY <1>7, <2>2 DEF OwnerKept, OrderFilled, Follow, Grows
  <2> QED BY <1>7, <2>3, UntouchedNamed DEF OrderFilled, EntriesKept, dbVars, jobVars, chanVars
<1> QED BY <1>1, <1>2, <1>3, <1>4, <1>5, <1>6, <1>7

-----------------------------------------------------------------------------
(* The pointer of processOrderUpdates, and chains of orders. *)

LEMMA BracketingStep ==
  ASSUME TypeOK, EntriesKept, Bracketing, Watched, [Next]_vars
  PROVE  Bracketing'
<1> DEFINE Kept == found' = found /\ OwnerKept /\ (found # Nothing => orderUpdates' # << >> /\ Head(orderUpdates') = Head(orderUpdates))
<1>1. ASSUME Kept PROVE Bracketing'
  <2>1. PICK n, tr : n = Head(orderUpdates).order /\ tr = found.id
    OBVIOUS
  <2>2. found.at = "bracket" => found # Nothing /\ IsEntry(n, tr)'
    BY <1>1, <2>1, NothingIsFound, EntryStays DEF Bracketing
  <2> QED BY <1>1, <2>1, <2>2 DEF Bracketing, IsEntry
<1>2. ASSUME found' = Nothing PROVE Bracketing'
  BY <1>2, NothingIsFound DEF Bracketing
<1>3. ASSUME UNCHANGED <<owner, found, orderUpdates>> PROVE Bracketing'
  BY <1>3 DEF Bracketing, IsEntry, Entry
<1>4. CASE \/ \E t \in Triggers, st \in {"active", "triggered"} : WriteTrigger(t, st)
           \/ \E tr \in Trades : PostTrade(tr) \/ DeleteGroup(tr) \/ \E t \in Triggers : LinkTrigger(tr, t)
           \/ \E n \in 1 .. MaxOrders, st \in NoticeStatuses : RewriteOrder(n, st)
           \/ \E kept \in 0 .. Len(notes) : LoseNotes(kept)
           \/ Started \/ Listen \/ NoteTrade \/ NoteTrigger \/ UNCHANGED vars
  BY <1>3, <1>4 DEF WriteTrigger, PostTrade, DeleteGroup, LinkTrigger, RewriteOrder, LoseNotes,
     Started, Listen, NoteTrade, NoteTrigger, NoteTriggerFor, vars, procVars, chanVars
<1>5. CASE Crash
  BY <1>2, <1>5 DEF Crash, Load
<1>6. ASSUME NEW c \in Callers, NEW tr \in Trades,
             \/ LookUp(c, tr) \/ Check(c, tr) \/ Place(c, tr) \/ Record(c, tr)
             \/ \E accepted \in BOOLEAN : PlaceError(c, tr, accepted)
      PROVE  Bracketing'
  <2>1. OwnerKept
    BY <1>6, EntryIsOrder DEF OwnerKept, Grows, LookUp, Check, Place, Record, PlaceError
  <2>2. found' = found /\ orderUpdates' = orderUpdates
    BY <1>6 DEF LookUp, Check, Place, Record, PlaceError, Otherwise, chanVars
  <2> QED BY <1>1, <2>1, <2>2 DEF Bracketing
<1>7. CASE NoteOrder
  <2>1. owner' = owner /\ found' = found /\ orderUpdates' = Append(orderUpdates, Head(notes))
    BY <1>7 DEF NoteOrder, procVars
  <2>2. /\ orderUpdates' # << >>
        /\ orderUpdates # << >> => Head(orderUpdates') = Head(orderUpdates)
    BY <2>1 DEF TypeOK
  <2> QED BY <1>1, <2>1, <2>2 DEF Bracketing, OwnerKept
<1>8. CASE UpdateTrade
  <2>1. owner' = owner /\ orderUpdates' = orderUpdates
    BY <1>8 DEF UpdateTrade
  <2>2. \/ found' = found
        \/ found.id \in Trades /\ found' = [found EXCEPT !.entry = Head(tradeUpdates).row.entry]
    BY <1>8, Heads DEF UpdateTrade, TradeNote
  <2>3. CASE found.id \in Trades /\ found' = [found EXCEPT !.entry = Head(tradeUpdates).row.entry]
    <3>1. found # Nothing /\ found'.id = found.id /\ found'.at = found.at
      BY <2>3, NothingIsFound DEF TypeOK, Found
    <3> QED BY <2>1, <3>1 DEF Bracketing, IsEntry, Entry
  <2> QED BY <1>3, <2>1, <2>2, <2>3
<1>9. CASE FindTrade
  <2>1. owner' = owner /\ found = Nothing /\ orderUpdates # << >>
    BY <1>9 DEF FindTrade
  <2>2. CASE found' = found
    BY <1>2, <2>1, <2>2
  <2>3. ASSUME NEW tr \in Trades, orderUpdates' = orderUpdates,
               found' = [id |-> tr, entry |-> Head(orderUpdates).order, at |-> "use"]
        PROVE  Bracketing'
    BY <2>1, <2>3 DEF Bracketing
  <2> QED BY <1>9, <2>2, <2>3 DEF FindTrade
<1>10. ASSUME NEW failed \in BOOLEAN, UseTrade(failed) PROVE Bracketing'
  <2>1. CASE found' = [found EXCEPT !.at = "bracket"] /\ orderUpdates' = orderUpdates
             /\ found.entry = Head(orderUpdates).order
    <3>1. /\ owner' = owner /\ found # Nothing /\ found'.id = found.id
          /\ Head(orderUpdates).order # NoOrder
      <4>1. orderUpdates # << >> /\ owner' = owner /\ found # Nothing
        BY <1>10 DEF UseTrade, Bracketing
      <4>2. Head(orderUpdates).order # NoOrder
        BY <4>1, Heads DEF OrderNote, NoOrder
      <4>3. found \in Found
        BY DEF TypeOK
      <4> QED BY <2>1, <4>1, <4>2, <4>3 DEF Found
    <3>2. IsEntry(Head(orderUpdates).order, found.id)
      BY <2>1, <3>1 DEF EntriesKept, FoundNamed, Named
    <3> QED BY <2>1, <3>1, <3>2 DEF Bracketing, IsEntry, Entry
  <2> QED BY <1>2, <1>10, <2>1 DEF UseTrade
<1>11. CASE PlaceBracketOrder \/ \E accepted \in BOOLEAN : BracketError(accepted)
  BY <1>2, <1>11 DEF PlaceBracketOrder, BracketError
<1>12. ASSUME NEW n \in 1 .. MaxOrders, OrderFilled(n) PROVE Bracketing'
  <2>1. owner[n] \in Order
    BY <1>12 DEF OrderFilled, Watched, Second, TypeOK
  <2>2. [trade |-> owner[n].trade, after |-> n] \in Order
    BY <1>12, <2>1 DEF Order
  <2>3. OwnerKept /\ found' = found /\ orderUpdates' = orderUpdates
    BY <1>12, <2>2 DEF OwnerKept, OrderFilled, Follow, Grows, chanVars
  <2> QED BY <1>1, <2>3 DEF Bracketing
<1> QED BY <1>4, <1>5, <1>6, <1>7, <1>8, <1>9, <1>10, <1>11, <1>12 DEF Next

\* What may be placed: an entry whose triggers have been seen, an order that
\* follows an entry of the same trade, or one that follows such an order.
Justified(o) ==
  \/ o.after = NoOrder /\ (o.trade \in Existing => Seen(o.trade))
  \/ IsEntry(o.after, o.trade)
  \/ Second(o.after) /\ owner[o.after].trade = o.trade

LEMMA OwnerStep ==
  ASSUME IInv, [Next]_vars
  PROVE  owner' = owner \/ \E o \in Order : Grows(o) /\ Justified(o)
<1>1. ASSUME NEW c \in Callers, NEW tr \in Trades,
             Place(c, tr) \/ \E accepted \in BOOLEAN : PlaceError(c, tr, accepted)
      PROVE  owner' = owner \/ \E o \in Order : Grows(o) /\ Justified(o)
  <2>1. Entry(tr) \in Order /\ Entry(tr).after = NoOrder /\ Entry(tr).trade = tr
    BY EntryIsOrder DEF Entry
  <2>2. owner' = owner \/ Grows(Entry(tr))
    BY <1>1 DEF Place, PlaceError, Grows
  <2>3. tr \in Existing => Seen(tr)
    BY <1>1 DEF Place, PlaceError, At, IInv, Guarded, CheckedSeen
  <2> QED BY <2>1, <2>2, <2>3 DEF Justified
<1>2. ASSUME PlaceBracketOrder \/ \E accepted \in BOOLEAN : BracketError(accepted)
      PROVE  owner' = owner \/ \E o \in Order : Grows(o) /\ Justified(o)
  <2> DEFINE o == [trade |-> found.id, after |-> Head(orderUpdates).order]
  <2>1. found.at = "bracket" /\ found # Nothing
    BY <1>2, NothingIsFound DEF PlaceBracketOrder, BracketError
  <2>2. o \in Order
    BY <2>1, Heads DEF IInv, Bracketing, Order, OrderNote
  <2>3. owner' = owner \/ Grows(o)
    BY <1>2 DEF PlaceBracketOrder, BracketError, Grows
  <2>4. IsEntry(o.after, o.trade)
    BY <2>1 DEF IInv, Bracketing
  <2> QED BY <2>2, <2>3, <2>4 DEF Justified
<1>3. ASSUME NEW n \in 1 .. MaxOrders, OrderFilled(n)
      PROVE  owner' = owner \/ \E o \in Order : Grows(o) /\ Justified(o)
  <2> DEFINE o == [trade |-> owner[n].trade, after |-> n]
  <2>1. Second(n) /\ owner[n] \in Order
    BY <1>3 DEF OrderFilled, IInv, Watched, Second, TypeOK
  <2>2. o \in Order
    BY <1>3, <2>1 DEF Order
  <2>3. owner' = owner \/ Grows(o)
    BY <1>3 DEF OrderFilled, Follow, Grows
  <2> QED BY <2>1, <2>2, <2>3 DEF Justified
<1>4. CASE \/ \E t \in Triggers, st \in {"active", "triggered"} : WriteTrigger(t, st)
           \/ \E tr \in Trades : PostTrade(tr) \/ DeleteGroup(tr) \/ \E t \in Triggers : LinkTrigger(tr, t)
           \/ \E n \in 1 .. MaxOrders, st \in NoticeStatuses : RewriteOrder(n, st)
           \/ Crash \/ \E kept \in 0 .. Len(notes) : LoseNotes(kept)
           \/ \E c \in Callers, tr \in Trades : LookUp(c, tr) \/ Check(c, tr) \/ Record(c, tr)
           \/ Started \/ Listen \/ NoteTrade \/ NoteOrder \/ NoteTrigger \/ UpdateTrade \/ FindTrade
           \/ (\E failed \in BOOLEAN : UseTrade(failed)) \/ UNCHANGED vars
  BY <1>4 DEF WriteTrigger, PostTrade, DeleteGroup, LinkTrigger, RewriteOrder, LoseNotes, Crash,
     LookUp, Check, Record, Started, Listen, NoteTrade, NoteOrder, NoteTrigger, NoteTriggerFor,
     UpdateTrade, FindTrade, UseTrade, vars
<1> QED BY <1>1, <1>2, <1>3, <1>4 DEF Next

LEMMA SecondStays ==
  ASSUME TypeOK, OwnerKept, NEW n, Second(n)
  PROVE  Second(n)'
<1>1. n \in 1 .. Len(owner) /\ n \in 1 .. Len(owner') /\ owner'[n] = owner[n]
  BY OwnerGrows DEF OwnerKept, Second, TypeOK
<1>2. PICK m, tr : m = owner[n].after /\ tr = owner[n].trade
  OBVIOUS
<1>3. IsEntry(m, tr)'
  BY <1>2, EntryStays DEF Second
<1> QED BY <1>1, <1>2, <1>3 DEF Second, IsEntry

LEMMA ChainsStep ==
  ASSUME IInv, [Next]_vars
  PROVE  Chains'
<1>1. CASE owner' = owner
  BY <1>1 DEF IInv, Chains, IsEntry, Second, Entry
<1>2. ASSUME NEW o \in Order, Grows(o), Justified(o) PROVE Chains'
  <2>1. OwnerKept /\ TypeOK /\ Chains
    BY <1>2 DEF OwnerKept, IInv
  <2>2. /\ Len(owner) \in Nat /\ Len(owner') = Len(owner) + 1
        /\ \A n \in 1 .. Len(owner) : owner'[n] = owner[n] /\ owner[n] \in Order
        /\ owner'[Len(owner) + 1] = o
    BY <1>2, <2>1, OwnerGrows DEF TypeOK
  <2>3. ASSUME NEW n \in 1 .. Len(owner'), owner'[n].after # NoOrder
        PROVE  /\ owner'[n].after < n
               /\ owner'[owner'[n].after].trade = owner'[n].trade
               /\ IsEntry(owner[n].after, owner[n].trade)' \/ Second(owner[n].after)'
    <3>1. PICK m, tr : m = owner'[n].after /\ tr = owner'[n].trade
      OBVIOUS
    <3>2. CASE n = Len(owner) + 1
      <4>1. o.after = m /\ o.trade = tr
        BY <2>2, <3>1, <3>2
      <4>2. /\ m \in 1 .. Len(owner) /\ owner[m].trade = tr
            /\ IsEntry(m, tr) \/ Second(m)
        BY <1>2, <2>3, <3>1, <4>1 DEF Justified, IsEntry, Entry, Second
      <4>3. IsEntry(m, tr)' \/ Second(m)'
        BY <2>1, <4>2, EntryStays, SecondStays
      <4>4. m < n /\ owner'[m].trade = tr
        BY <2>2, <3>2, <4>2
      <4> QED BY <3>1, <4>3, <4>4 DEF IsEntry, Second
    <3>3. CASE n \in 1 .. Len(owner)
      <4>1. owner[n].after = m /\ owner[n].trade = tr /\ m # NoOrder
        BY <2>2, <2>3, <3>1, <3>3
      <4>2. m < n /\ owner[m].trade = tr /\ (IsEntry(m, tr) \/ Second(m))
        BY <2>1, <3>3, <4>1 DEF Chains
      <4>3. m \in 1 .. Len(owner)
        BY <4>2 DEF IsEntry, Second
      <4>4. IsEntry(m, tr)' \/ Second(m)'
        BY <2>1, <4>2, EntryStays, SecondStays
      <4> QED BY <2>2, <3>1, <4>2, <4>3, <4>4 DEF IsEntry, Second
    <3> QED BY <2>2, <3>2, <3>3
  <2> QED BY <2>3 DEF Chains
<1> QED BY <1>1, <1>2, OwnerStep

LEMMA WatchedStep ==
  ASSUME IInv, [Next]_vars
  PROVE  Watched'
<1>1. OwnerKept /\ TypeOK
  BY OwnerStep DEF OwnerKept, IInv
<1>2. CASE watchers' \subseteq watchers
  BY <1>1, <1>2, SecondStays DEF IInv, Watched
<1>3. CASE PlaceBracketOrder
  <2> DEFINE o == [trade |-> found.id, after |-> Head(orderUpdates).order]
  <2>1. found.at = "bracket" /\ found # Nothing
    BY <1>3, NothingIsFound DEF PlaceBracketOrder
  <2>2. IsEntry(o.after, o.trade)
    BY <2>1 DEF IInv, Bracketing
  <2>3. o \in Order
    BY <1>1, <2>1, Heads DEF IInv, Bracketing, Order, OrderNote
  <2>4. Grows(o)
    BY <1>3 DEF PlaceBracketOrder, Grows
  <2>5. PICK k, m, tr : k = Len(owner) + 1 /\ m = o.after /\ tr = o.trade
    OBVIOUS
  <2>6. IsEntry(m, tr)'
    BY <1>1, <2>2, <2>5, EntryStays
  <2>7. k \in 1 .. Len(owner') /\ owner'[k] = o
    BY <1>1, <2>3, <2>4, <2>5, OwnerGrows
  <2>8. Second(k)'
    BY <2>5, <2>6, <2>7 DEF Second, IsEntry
  <2>9. watchers' = watchers \cup {k}
    BY <1>3, <2>5 DEF PlaceBracketOrder
  <2> QED BY <1>1, <2>8, <2>9, SecondStays DEF IInv, Watched
<1>4. CASE Next /\ ~PlaceBracketOrder
  BY <1>2, <1>4 DEF Next, WriteTrigger, PostTrade, DeleteGroup, LinkTrigger, RewriteOrder, LoseNotes,
     Crash, Load, LookUp, Check, Place, PlaceError, Record, Otherwise, Started, Listen, NoteTrade,
     NoteOrder, NoteTrigger, NoteTriggerFor, UpdateTrade, FindTrade, UseTrade, BracketError,
     OrderFilled, procVars
<1>5. CASE UNCHANGED vars
  BY <1>2, <1>5 DEF vars, procVars
<1> QED BY <1>3, <1>4, <1>5

-----------------------------------------------------------------------------
(* Triggers that have been seen triggered. *)

LEMMA RowsAreThere == NoTrade \notin Row /\ DeletedTrade # NoTrade
BY DEF NoTrade, DeletedTrade, Row

\* A write of a trigger row: what had been fired, and the one left triggered.
LEMMA FiredWrite ==
  ASSUME TypeOK, NEW u \in Triggers, NEW st \in {"active", "triggered"}, WriteTrigger(u, st)
  PROVE  /\ st = "triggered" => \A t \in Triggers : Fired(t)' <=> t = u \/ Fired(t)
         /\ st # "triggered" => fired' = fired
<1>1. IF st = "triggered" THEN fired' = Append(fired, u) ELSE fired' = fired
  BY DEF WriteTrigger
<1>2. fired \in Seq(Triggers)
  BY DEF TypeOK
<1>3. ASSUME fired' = Append(fired, u), NEW t \in Triggers PROVE Fired(t)' <=> t = u \/ Fired(t)
  <2>1. /\ Len(fired') = Len(fired) + 1 /\ Len(fired) \in Nat
        /\ \A i \in 1 .. Len(fired) : fired'[i] = fired[i]
        /\ fired'[Len(fired) + 1] = u
    BY <1>2, <1>3
  <2> QED BY <2>1 DEF Fired
<1> QED BY <1>1, <1>3

\* Writes that left a trigger triggered are never taken back.
LEMMA FiredStays ==
  ASSUME IInv, [Next]_vars, NEW t \in Triggers, Fired(t)
  PROVE  Fired(t)'
<1>1. ASSUME NEW u \in Triggers, NEW st \in {"active", "triggered"}, WriteTrigger(u, st)
      PROVE  Fired(t)'
  <2>1. TypeOK
    BY DEF IInv
  <2>2. CASE st = "triggered"
    BY <1>1, <2>1, <2>2, FiredWrite
  <2>3. CASE st # "triggered"
    BY <1>1, <2>1, <2>3, FiredWrite DEF Fired
  <2> QED BY <2>2, <2>3
<1>2. CASE fired' = fired
  BY <1>2 DEF Fired
<1>3. CASE Next
  BY <1>1, <1>2, <1>3 DEF Next, PostTrade, DeleteGroup, LinkTrigger, RewriteOrder, LoseNotes,
     Crash, LookUp, Check, Place, PlaceError, Record, Otherwise, Started, Listen, NoteTrade,
     NoteOrder, NoteTrigger, NoteTriggerFor, UpdateTrade, FindTrade, UseTrade, PlaceBracketOrder,
     BracketError, OrderFilled, countVars
<1>4. CASE UNCHANGED vars
  BY <1>2, <1>4 DEF vars, countVars
<1> QED BY <1>3, <1>4

LEMMA LinksFixedStep ==
  ASSUME IInv, [Next]_vars
  PROVE  LinksFixed'
<1> USE DEF LinksFixed
<1>1. LinksFixed /\ TypeOK /\ Existing \subseteq Trades
  BY TradeAssumption DEF IInv, Guarded
<1>2. ASSUME UNCHANGED <<links, posting, trade>> PROVE LinksFixed'
  BY <1>1, <1>2
<1>3. ASSUME NEW tr \in Trades, PostTrade(tr) PROVE LinksFixed'
  BY <1>1, <1>3 DEF PostTrade, TypeOK
<1>4. ASSUME NEW tr \in Trades, DeleteGroup(tr) PROVE LinksFixed'
  BY <1>1, <1>4, RowsAreThere DEF DeleteGroup, TypeOK
<1>5. ASSUME NEW tr \in Trades, NEW t \in Triggers, LinkTrigger(tr, t) PROVE LinksFixed'
  BY <1>1, <1>5 DEF LinkTrigger, TypeOK
<1>6. ASSUME NEW tr \in Trades, NEW r \in Row, WriteRow(tr, r), UNCHANGED <<links, posting>>
      PROVE  LinksFixed'
  BY <1>1, <1>6, RowsAreThere DEF WriteRow, TypeOK
<1>7. CASE Crash
  <2>1. /\ links' = links /\ trade' = trade
        /\ \A tr \in Trades : posting'[tr] = {}
    BY <1>7 DEF Crash, Load
  <2> QED BY <1>1, <2>1
<1>8. ASSUME NEW c \in Callers, NEW tr \in Trades, Record(c, tr) PROVE LinksFixed'
  <2>1. [entry |-> job[c].order, status |-> "PENDING"] \in Row
    BY <1>1 DEF Row, EntryStatuses, TypeOK, Jobs
  <2> QED BY <1>2, <1>6, <1>8, <2>1 DEF Record
<1>9. ASSUME NEW failed \in BOOLEAN, UseTrade(failed) PROVE LinksFixed'
  <2>1. found.id \in Trades /\ Head(orderUpdates) \in OrderNote
    BY <1>1, <1>9, Heads DEF UseTrade, IInv, Bracketing
  <2>2. [entry |-> trade[found.id].entry, status |-> Head(orderUpdates).status] \in Row
    BY <1>1, <2>1, RowParts DEF Row, OrderNote, EntryStatuses
  <2> QED BY <1>2, <1>6, <1>9, <2>1, <2>2 DEF UseTrade
<1>10. CASE \/ \E t \in Triggers, st \in {"active", "triggered"} : WriteTrigger(t, st)
            \/ \E n \in 1 .. MaxOrders, st \in NoticeStatuses : RewriteOrder(n, st)
            \/ \E kept \in 0 .. Len(notes) : LoseNotes(kept)
            \/ \E c \in Callers, tr \in Trades :
                 LookUp(c, tr) \/ Check(c, tr) \/ Place(c, tr)
                 \/ \E accepted \in BOOLEAN : PlaceError(c, tr, accepted)
            \/ Started \/ Listen \/ NoteTrade \/ NoteOrder \/ NoteTrigger \/ UpdateTrade
            \/ FindTrade \/ PlaceBracketOrder \/ (\E accepted \in BOOLEAN : BracketError(accepted))
            \/ (\E n \in 1 .. MaxOrders : OrderFilled(n)) \/ UNCHANGED vars
  BY <1>2, <1>10 DEF WriteTrigger, RewriteOrder, LoseNotes, LookUp, Check, Place, PlaceError,
     Started, Listen, NoteTrade, NoteOrder, NoteTrigger, NoteTriggerFor, UpdateTrade, FindTrade,
     PlaceBracketOrder, BracketError, OrderFilled, dbVars, vars
<1> QED BY <1>3, <1>4, <1>5, <1>7, <1>8, <1>9, <1>10 DEF Next

LEMMA TriggersFiredStep ==
  ASSUME IInv, [Next]_vars
  PROVE  TriggersFired'
<1> USE DEF TriggersFired
<1>1. TriggersFired /\ TypeOK
  BY DEF IInv, Guarded
<1>2. ASSUME NEW u \in Triggers, NEW st \in {"active", "triggered"}, WriteTrigger(u, st)
      PROVE  TriggersFired'
  <2>1. trigger' = [trigger EXCEPT ![u] = st]
    BY <1>2 DEF WriteTrigger
  <2>2. \A t \in Triggers : Fired(t) => Fired(t)'
    BY FiredStays
  <2>3. ASSUME NEW t \in Triggers, trigger'[t] = "triggered" PROVE Fired(t)'
    <3>1. CASE t = u
      <4>1. st = "triggered"
        BY <1>1, <2>1, <2>3, <3>1 DEF TypeOK
      <4> QED BY <1>1, <1>2, <3>1, <4>1, FiredWrite
    <3>2. CASE t # u
      <4>1. trigger[t] = "triggered"
        BY <1>1, <2>1, <2>3, <3>2 DEF TypeOK
      <4> QED BY <1>1, <2>2, <4>1
    <3> QED BY <3>1, <3>2
  <2> QED BY <2>3
<1>3. ASSUME trigger' = trigger PROVE TriggersFired'
  BY <1>1, <1>3, FiredStays
<1>4. CASE Next
  BY <1>2, <1>3, <1>4 DEF Next, PostTrade, DeleteGroup, LinkTrigger, RewriteOrder, LoseNotes,
     Crash, LookUp, Check, Place, PlaceError, Record, Started, Listen, NoteTrade,
     NoteOrder, NoteTrigger, NoteTriggerFor, UpdateTrade, FindTrade, UseTrade, PlaceBracketOrder,
     BracketError, OrderFilled, dbVars
<1>5. CASE UNCHANGED vars
  BY <1>3, <1>5 DEF vars, dbVars
<1> QED BY <1>4, <1>5

LEMMA SeenStays ==
  ASSUME IInv, [Next]_vars, NEW tr \in Existing, Seen(tr)
  PROVE  Seen(tr)'
BY FiredStays, TradeAssumption DEF Seen

LEMMA CheckedSeenStep ==
  ASSUME IInv, [Next]_vars
  PROVE  CheckedSeen'
<1> USE DEF CheckedSeen
<1>1. CheckedSeen /\ TypeOK
  BY DEF IInv, Guarded
<1>2. ASSUME \A c \in Callers : job'[c].at = "place" =>
               job[c].at = "place" /\ current'[c] = current[c]
      PROVE  CheckedSeen'
  BY <1>1, <1>2, SeenStays
<1>3. ASSUME NEW c \in Callers, NEW tr \in Trades, Done(c, tr) PROVE CheckedSeen'
  <2>1. /\ job'[c].at = "next"
        /\ \A d \in Callers \ {c} : job'[d] = job[d] /\ current'[d] = current[d]
    BY <1>1, <1>3 DEF Done, Batch, TypeOK
  <2> QED BY <1>2, <2>1
<1>4. ASSUME NEW c \in Callers, NEW tr \in Trades, NEW where, NEW n, Goto(c, tr, where, n),
             where = "place" => AllTriggered(tr)
      PROVE  CheckedSeen'
  <2>1. /\ job'[c].at = where /\ current'[c] = tr
        /\ \A d \in Callers \ {c} : job'[d] = job[d] /\ current'[d] = current[d]
    BY <1>1, <1>4 DEF Goto, TypeOK
  <2>2. ASSUME where = "place", tr \in Existing PROVE Seen(tr)
    BY <1>4, <2>2, TradeAssumption
       DEF AllTriggered, IInv, Guarded, LinksFixed, TriggersFired, Seen
  <2> QED BY <1>1, <2>1, <2>2, SeenStays
<1>5. ASSUME NEW c \in Callers, NEW tr \in Trades,
             \/ LookUp(c, tr) \/ Check(c, tr) \/ Place(c, tr) \/ Record(c, tr)
             \/ \E accepted \in BOOLEAN : PlaceError(c, tr, accepted)
      PROVE  CheckedSeen'
  <2>1. \/ Done(c, tr) \/ Goto(c, tr, "check", NoOrder) \/ Goto(c, tr, "record", Len(owner) + 1)
        \/ Goto(c, tr, "place", NoOrder) /\ AllTriggered(tr)
    BY <1>5 DEF LookUp, Check, Place, Record, PlaceError
  <2> QED BY <1>3, <1>4, <2>1
<1>6. ASSUME NEW S \in SUBSET Trades, NEW c \in Callers,
             job' = [job EXCEPT ![c] = Batch(S)], current' = current
      PROVE  CheckedSeen'
  BY <1>2, <1>1, <1>6 DEF Batch, TypeOK
<1>7. CASE NoteTrigger
  <2> DEFINE due == TradesOf(Head(notes).id)
  <2>1. due \in SUBSET Trades /\ Listener \in Callers
    BY DEF TradesOf, Callers
  <2>2. current' = current /\ (job' = job \/ job' = [job EXCEPT ![Listener] = Batch(due)])
    BY <1>7 DEF NoteTrigger, NoteTriggerFor
  <2> QED BY <1>2, <1>6, <2>1, <2>2
<1>8. CASE UpdateTrade
  <2>1. {Head(tradeUpdates).id} \in SUBSET Trades /\ Updater \in Callers
    BY <1>1, <1>8, Heads DEF UpdateTrade, Callers, TradeNote
  <2>2. current' = current
        /\ (job' = job \/ job' = [job EXCEPT ![Updater] = Batch({Head(tradeUpdates).id})])
    BY <1>8 DEF UpdateTrade
  <2> QED BY <1>2, <1>6, <2>1, <2>2
<1>9. CASE Crash
  <2>1. \A c \in Callers : job'[c].at = "next"
    BY <1>9, IdleIsJob DEF Crash, Load, Batch
  <2> QED BY <1>2, <2>1
<1>10. CASE UNCHANGED jobVars
  BY <1>2, <1>10 DEF jobVars
<1>11. CASE \/ \E t \in Triggers, st \in {"active", "triggered"} : WriteTrigger(t, st)
            \/ \E tr \in Trades : PostTrade(tr) \/ DeleteGroup(tr) \/ \E t \in Triggers : LinkTrigger(tr, t)
            \/ \E n \in 1 .. MaxOrders, st \in NoticeStatuses : RewriteOrder(n, st)
            \/ \E kept \in 0 .. Len(notes) : LoseNotes(kept)
            \/ Started \/ Listen \/ NoteTrade \/ NoteOrder
            \/ FindTrade \/ PlaceBracketOrder \/ (\E accepted \in BOOLEAN : BracketError(accepted))
            \/ (\E failed \in BOOLEAN : UseTrade(failed))
            \/ (\E n \in 1 .. MaxOrders : OrderFilled(n)) \/ UNCHANGED vars
  BY <1>10, <1>11 DEF WriteTrigger, PostTrade, DeleteGroup, LinkTrigger, RewriteOrder, LoseNotes,
     Started, Listen, NoteTrade, NoteOrder, FindTrade, PlaceBracketOrder, BracketError, UseTrade,
     OrderFilled, procVars, vars
<1> QED BY <1>5, <1>7, <1>8, <1>9, <1>11 DEF Next

LEMMA EntriesSeenStep ==
  ASSUME IInv, [Next]_vars
  PROVE  EntriesSeen'
<1> USE DEF EntriesSeen
<1>1. EntriesSeen /\ TypeOK
  BY DEF IInv, Guarded
<1>2. CASE owner' = owner
  BY <1>1, <1>2, SeenStays
<1>3. ASSUME NEW o \in Order, Grows(o), Justified(o) PROVE EntriesSeen'
  <2>1. /\ Len(owner) \in Nat /\ Len(owner') = Len(owner) + 1
        /\ \A n \in 1 .. Len(owner) : owner'[n] = owner[n]
        /\ owner'[Len(owner) + 1] = o
    BY <1>1, <1>3, OwnerGrows
  <2>2. o.after = NoOrder /\ o.trade \in Existing => Seen(o.trade)
    BY <1>3 DEF Justified, IsEntry, Second, NoOrder
  <2>3. PICK tr : tr = o.trade
    OBVIOUS
  <2>4. o.after = NoOrder /\ tr \in Existing => Seen(tr)'
    BY <2>2, <2>3, SeenStays
  <2>5. ASSUME NEW n \in 1 .. Len(owner'), owner'[n].after = NoOrder, owner'[n].trade \in Existing
        PROVE  Seen(owner[n].trade)'
    <3>1. CASE n = Len(owner) + 1
      BY <2>1, <2>3, <2>4, <2>5, <3>1 DEF Seen
    <3>2. CASE n \in 1 .. Len(owner)
      <4>1. PICK u : u = owner[n].trade
        OBVIOUS
      <4>2. u \in Existing /\ Seen(u)
        BY <1>1, <2>1, <2>5, <3>2, <4>1
      <4>3. Seen(u)'
        BY <4>2, SeenStays
      <4> QED BY <2>1, <3>2, <4>1, <4>3 DEF Seen
    <3> QED BY <2>1, <3>1, <3>2
  <2> QED BY <2>5
<1> QED BY <1>2, <1>3, OwnerStep

-----------------------------------------------------------------------------
(* Orders and their causes. *)

\* Of the elements of a sequence, those in S, counted.
LEMMA CountType ==
  ASSUME NEW T, NEW s \in Seq(T), NEW S
  PROVE  IsFiniteSet(Where(s, S)) /\ Count(s, S) \in Nat
<1>1. Len(s) \in Nat /\ IsFiniteSet(1 .. Len(s)) /\ Where(s, S) \in SUBSET (1 .. Len(s))
  BY FS_Interval DEF Where
<1>2. IsFiniteSet(Where(s, S))
  BY <1>1, FS_Subset
<1> QED BY <1>2, FS_CardinalityType DEF Count

LEMMA CountEmpty ==
  ASSUME NEW S
  PROVE  Count(<< >>, S) = 0
<1>1. Where(<< >>, S) = {}
  BY DEF Where
<1> QED BY <1>1, FS_EmptySet DEF Count

LEMMA CountAppend ==
  ASSUME NEW T, NEW s \in Seq(T), NEW e \in T, NEW S
  PROVE  Count(Append(s, e), S) = Count(s, S) + One(e \in S)
<1> DEFINE n == Len(s) + 1
           a == Append(s, e)
<1>1. /\ Len(s) \in Nat /\ Len(a) = n /\ a[n] = e
      /\ \A i \in 1 .. Len(s) : a[i] = s[i]
  OBVIOUS
<1>2. \A i \in 1 .. n : i = n \/ i \in 1 .. Len(s)
  BY <1>1
<1>3. n \in 1 .. n /\ n \notin 1 .. Len(s) /\ \A i \in 1 .. Len(s) : i \in 1 .. n
  BY <1>1
<1> HIDE DEF n, a
<1>4. n \notin Where(s, S) /\ IsFiniteSet(Where(s, S)) /\ Count(s, S) \in Nat
  BY <1>3, CountType DEF Where
<1>5. CASE e \in S
  <2>1. Where(a, S) = Where(s, S) \cup {n}
    BY <1>1, <1>2, <1>3, <1>5 DEF Where
  <2>2. Cardinality(Where(a, S)) = Cardinality(Where(s, S)) + 1
    BY <1>4, <2>1, FS_AddElement
  <2> QED BY <1>5, <2>2 DEF Count, One, a
<1>6. CASE e \notin S
  <2>1. Where(a, S) = Where(s, S)
    BY <1>1, <1>2, <1>3, <1>6 DEF Where
  <2> QED BY <1>4, <1>6, <2>1 DEF Count, One, a
<1> QED BY <1>5, <1>6

\* What remains after the first one: it counts once less if that was in S.
LEMMA CountTail ==
  ASSUME NEW T, NEW s \in Seq(T), s # << >>, NEW S
  PROVE  Count(Tail(s), S) + One(Head(s) \in S) <= Count(s, S)
<1> DEFINE u == Tail(s)
           f == [i \in Where(u, S) |-> i + 1]
<1>1. /\ Len(s) \in Nat \ {0} /\ Head(s) = s[1]
  OBVIOUS
<1>2. /\ u \in Seq(T) /\ Len(u) = Len(s) - 1
      /\ \A i \in 1 .. Len(u) : u[i] = s[i + 1]
  BY HeadTailProperties
<1> HIDE DEF u
<1>3. \A i \in 1 .. Len(u) : i + 1 \in 1 .. Len(s) /\ i + 1 # 1 /\ i \in Int
  BY <1>1, <1>2
<1>4. f \in Injection(Where(u, S), Where(s, S) \ {1})
  <2>1. \A i \in Where(u, S) : i + 1 \in Where(s, S) \ {1} /\ i \in Int
    BY <1>2, <1>3 DEF Where
  <2>2. f \in [Where(u, S) -> Where(s, S) \ {1}]
    BY <2>1
  <2>3. \A i, j \in Where(u, S) : f[i] = f[j] => i = j
    BY <2>1
  <2> QED BY <2>2, <2>3 DEF Injection, IsInjective
<1>5. /\ IsFiniteSet(Where(s, S)) /\ Count(s, S) \in Nat
      /\ IsFiniteSet(Where(u, S)) /\ Count(u, S) \in Nat
  BY <1>2, CountType
<1>6. /\ IsFiniteSet(Where(s, S) \ {1})
      /\ Cardinality(Where(s, S) \ {1}) = IF 1 \in Where(s, S) THEN Count(s, S) - 1 ELSE Count(s, S)
  BY <1>5, FS_RemoveElement DEF Count
<1>7. Count(u, S) <= Cardinality(Where(s, S) \ {1})
  BY <1>4, <1>6, FS_Injection DEF Count
<1>8. 1 \in Where(s, S) <=> Head(s) \in S
  BY <1>1 DEF Where
<1> QED BY <1>5, <1>6, <1>7, <1>8 DEF One, u

LEMMA CountPrefix ==
  ASSUME NEW T, NEW s \in Seq(T), NEW k \in 0 .. Len(s), NEW S
  PROVE  Count(SubSeq(s, 1, k), S) <= Count(s, S)
<1>1. Len(s) \in Nat /\ Len(SubSeq(s, 1, k)) = k /\ \A i \in 1 .. k : SubSeq(s, 1, k)[i] = s[i]
  OBVIOUS
<1>2. Where(SubSeq(s, 1, k), S) \in SUBSET Where(s, S)
  BY <1>1 DEF Where
<1>3. IsFiniteSet(Where(s, S))
  BY CountType
<1> QED BY <1>2, <1>3, FS_Subset DEF Count
\* What a caller of checkAndExecuteTrade does to its job.
Moves(c, tr) ==
  \/ \E where \in {"check", "place", "record"}, n \in Int : Goto(c, tr, where, n)
  \/ Done(c, tr)

CallerStep(c, tr) ==
  \/ LookUp(c, tr) \/ Check(c, tr) \/ Place(c, tr) \/ Record(c, tr)
  \/ \E accepted \in BOOLEAN : PlaceError(c, tr, accepted)

LEMMA CallerMoves ==
  ASSUME IInv, NEW c \in Callers, NEW tr \in Trades, CallerStep(c, tr)
  PROVE  /\ Moves(c, tr) /\ tr \in job[c].todo
         /\ job[c].at = "next" \/ current[c] = tr
         /\ phase' = phase /\ tradeUpdates' = tradeUpdates /\ boots' = boots /\ fired' = fired
<1>1. /\ phase' = phase /\ tradeUpdates' = tradeUpdates /\ boots' = boots /\ fired' = fired
  BY DEF CallerStep, LookUp, Check, Place, Record, PlaceError, Otherwise, chanVars, countVars
<1>2. (job[c].at = "next" /\ tr \in job[c].todo) \/ (current[c] = tr /\ job[c].at # "next")
  BY DEF CallerStep, LookUp, Check, Place, Record, PlaceError, At
<1>3. tr \in job[c].todo /\ (job[c].at = "next" \/ current[c] = tr)
  BY <1>2 DEF IInv, Caused, AtWork
<1>4. Len(owner) + 1 \in Int /\ NoOrder \in Int
  BY DEF IInv, TypeOK, NoOrder
<1>5. Moves(c, tr)
  BY <1>4 DEF CallerStep, LookUp, Check, Place, Record, PlaceError, Moves
<1> QED BY <1>1, <1>3, <1>5

\* A caller goes on with a trade: what the callers may still place.
LEMMA JobAfterGoto ==
  ASSUME TypeOK, NEW c \in Callers, NEW tr \in Trades, NEW where, NEW n, Goto(c, tr, where, n)
  PROVE  /\ job'[c].at = where /\ job'[c].todo = job[c].todo /\ current'[c] = tr
         /\ \A d \in Callers \ {c} : job'[d] = job[d] /\ current'[d] = current[d]
BY DEF TypeOK, Goto

LEMMA JobAfterDone ==
  ASSUME TypeOK, NEW c \in Callers, NEW tr \in Trades, Done(c, tr)
  PROVE  /\ job'[c].at = "next" /\ job'[c].todo = job[c].todo \ {tr}
         /\ \A d \in Callers \ {c} : job'[d] = job[d] /\ current'[d] = current[d]
BY DEF TypeOK, Done, Batch

LEMMA AtWorkStep ==
  ASSUME IInv, [Next]_vars
  PROVE  AtWork'
<1>1. TypeOK /\ AtWork
  BY DEF IInv, Caused
<1>2. ASSUME UNCHANGED <<job, current>> PROVE AtWork'
  BY <1>1, <1>2 DEF AtWork
<1>3. ASSUME NEW c \in Callers, NEW tr \in Trades, CallerStep(c, tr) PROVE AtWork'
  <2>1. Moves(c, tr) /\ tr \in job[c].todo
    BY <1>3, CallerMoves
  <2>2. CASE Done(c, tr)
    BY <1>1, <2>2, JobAfterDone DEF AtWork
  <2>3. ASSUME NEW where \in {"check", "place", "record"}, NEW n \in Int, Goto(c, tr, where, n)
        PROVE  AtWork'
    BY <1>1, <2>1, <2>3, JobAfterGoto DEF AtWork
  <2> QED BY <2>1, <2>2, <2>3 DEF Moves
<1>4. ASSUME NEW c \in Callers, NEW S \in SUBSET Trades, job' = [job EXCEPT ![c] = Batch(S)],
             current' = current
      PROVE  AtWork'
  BY <1>1, <1>4, IdleIsJob DEF AtWork, TypeOK
<1>5. CASE NoteTrigger
  <2>1. TradesOf(Head(notes).id) \in SUBSET Trades /\ Listener \in Callers
    BY DEF TradesOf, Callers
  <2> QED BY <1>2, <1>4, <1>5, <2>1 DEF NoteTrigger, NoteTriggerFor
<1>6. CASE UpdateTrade
  <2> DEFINE u == Head(tradeUpdates)
  <2>1. {u.id} \in SUBSET Trades /\ Updater \in Callers
    BY <1>1, <1>6, Heads DEF UpdateTrade, TradeNote, Callers
  <2> QED BY <1>2, <1>4, <1>6, <2>1 DEF UpdateTrade
<1>7. CASE Crash
  <2>1. \A c \in Callers : job'[c].at = "next"
    BY <1>7, IdleIsJob DEF Crash, Load
  <2> QED BY <2>1 DEF AtWork
<1>8. CASE \/ \E t \in Triggers, st \in {"active", "triggered"} : WriteTrigger(t, st)
           \/ \E tr \in Trades : PostTrade(tr) \/ DeleteGroup(tr) \/ \E t \in Triggers : LinkTrigger(tr, t)
           \/ \E n \in 1 .. MaxOrders, st \in NoticeStatuses : RewriteOrder(n, st)
           \/ \E kept \in 0 .. Len(notes) : LoseNotes(kept)
           \/ Started \/ Listen \/ NoteTrade \/ NoteOrder
           \/ FindTrade \/ PlaceBracketOrder \/ (\E failed \in BOOLEAN : UseTrade(failed))
           \/ (\E accepted \in BOOLEAN : BracketError(accepted))
           \/ (\E n \in 1 .. MaxOrders : OrderFilled(n)) \/ UNCHANGED vars
  BY <1>2, <1>8 DEF WriteTrigger, PostTrade, DeleteGroup, LinkTrigger, RewriteOrder, LoseNotes,
     Started, Listen, NoteTrade, NoteOrder, FindTrade, UseTrade,
     PlaceBracketOrder, BracketError, OrderFilled, vars, procVars, jobVars
<1> QED BY <1>3, <1>5, <1>6, <1>7, <1>8 DEF Next, CallerStep

LEMMA QuietStep ==
  ASSUME IInv, [Next]_vars
  PROVE  Quiet'
<1>1. TypeOK /\ Quiet
  BY DEF IInv, Caused
<1>2. ASSUME phase' = phase, phase = "starting" => notes' = notes /\ tradeUpdates' = tradeUpdates,
             \A c \in Callers : job'[c].todo \subseteq job[c].todo
      PROVE  Quiet'
  BY <1>1, <1>2 DEF Quiet, Callers
<1>3. ASSUME UNCHANGED <<phase, tradeUpdates, job>>, \/ notes' = notes
                                                     \/ \E n : Notified(n)
                                                     \/ phase = "running"
      PROVE  Quiet'
  BY <1>2, <1>3 DEF Notified
<1>4. ASSUME NEW c \in Callers, NEW tr \in Trades, CallerStep(c, tr) PROVE Quiet'
  <2>1. Moves(c, tr) /\ phase' = phase /\ tradeUpdates' = tradeUpdates
    BY <1>4, CallerMoves
  <2>2. phase = "starting" => notes' = notes
    BY <1>4 DEF CallerStep, LookUp, Check, Place, Record, PlaceError, WriteRow, Notified
  <2>3. \A d \in Callers : job'[d].todo \subseteq job[d].todo
    BY <1>1, <2>1, JobAfterDone, JobAfterGoto DEF Moves
  <2> QED BY <1>2, <2>1, <2>2, <2>3
<1>5. CASE NoteTrigger
  <2>1. phase = "running" /\ phase' = phase /\ job'[Init0] = job[Init0]
    BY <1>1, <1>5 DEF NoteTrigger, NoteTriggerFor, ListenerFree, TypeOK, Callers, Listener, Init0
  <2> QED BY <1>1, <2>1 DEF Quiet
<1>6. CASE UpdateTrade
  <2>1. phase # "starting" /\ phase' = phase /\ job'[Init0] = job[Init0]
    BY <1>1, <1>6 DEF UpdateTrade, TypeOK, Callers, Updater, Init0
  <2> QED BY <1>1, <2>1 DEF Quiet
<1>7. CASE Crash
  <2>1. /\ phase' = "starting" /\ notes' = << >> /\ tradeUpdates' = << >>
        /\ job'[Listener].todo = {} /\ job'[Updater].todo = {}
    BY <1>7, IdleIsJob DEF Crash, Load, Callers, Listener, Updater, Init0
  <2> QED BY <2>1 DEF Quiet
<1>8. CASE Started \/ Listen
  BY <1>1, <1>8 DEF Started, Listen, Quiet, jobVars
<1>9. CASE \/ \E t \in Triggers, st \in {"active", "triggered"} : WriteTrigger(t, st)
           \/ \E tr \in Trades : PostTrade(tr) \/ DeleteGroup(tr) \/ \E t \in Triggers : LinkTrigger(tr, t)
           \/ \E n \in 1 .. MaxOrders, st \in NoticeStatuses : RewriteOrder(n, st)
           \/ \E kept \in 0 .. Len(notes) : LoseNotes(kept)
           \/ NoteOrder \/ FindTrade \/ PlaceBracketOrder
           \/ (\E accepted \in BOOLEAN : BracketError(accepted))
           \/ (\E n \in 1 .. MaxOrders : OrderFilled(n)) \/ UNCHANGED vars
  BY <1>3, <1>9 DEF WriteTrigger, PostTrade, DeleteGroup, LinkTrigger, RewriteOrder, LoseNotes,
     NoteOrder, ListenerFree, FindTrade, PlaceBracketOrder, BracketError, OrderFilled,
     vars, procVars, chanVars, jobVars
<1>10. ASSUME NEW failed \in BOOLEAN, UseTrade(failed) PROVE Quiet'
  BY <1>3, <1>10 DEF UseTrade, WriteRow, jobVars
<1>11. CASE NoteTrade
  <2>1. phase = "running" /\ phase' = phase /\ job' = job
    BY <1>11 DEF NoteTrade, ListenerFree, procVars, jobVars
  <2> QED BY <1>1, <2>1 DEF Quiet
<1> QED BY <1>4, <1>5, <1>6, <1>7, <1>8, <1>9, <1>10, <1>11 DEF Next, CallerStep

LEMMA PostedStep ==
  ASSUME IInv, [Next]_vars
  PROVE  Posted'
<1>1. TypeOK /\ Posted /\ LinksFixed /\ Quiet
  BY DEF IInv, Caused, Guarded
<1> DEFINE NotesPosted == \A i \in 1 .. Len(notes) : IsPosted(notes[i])
           UpdatesPosted == \A i \in 1 .. Len(tradeUpdates) : IsPosted(tradeUpdates[i])
           TodoPosted == \A tr \in Existing : tr \notin job[Updater].todo
<1>2. NotesPosted /\ UpdatesPosted /\ TodoPosted
  BY <1>1 DEF Posted
<1>3. ASSUME NotesPosted', UpdatesPosted', TodoPosted' PROVE Posted'
  BY <1>3 DEF Posted
<1>4. notes \in Seq(Notes) /\ tradeUpdates \in Seq(TradeNote)
  BY <1>1 DEF TypeOK
<1>5. ASSUME notes' = notes PROVE NotesPosted'
  BY <1>2, <1>5 DEF IsPosted
<1>6. ASSUME NEW n \in Notes, Notified(n), IsPosted(n) PROVE NotesPosted'
  <2>1. /\ Len(Append(notes, n)) = Len(notes) + 1 /\ Len(notes) \in Nat
        /\ \A i \in 1 .. Len(notes) : Append(notes, n)[i] = notes[i]
        /\ Append(notes, n)[Len(notes) + 1] = n
    BY <1>4
  <2>2. notes' = notes \/ notes' = Append(notes, n)
    BY <1>6 DEF Notified
  <2> QED BY <1>2, <1>5, <1>6, <2>1, <2>2 DEF IsPosted
<1>7. ASSUME notes # << >>, notes' = Tail(notes)
      PROVE  NotesPosted' /\ Head(notes) \in Notes /\ IsPosted(Head(notes))
  <2>1. /\ Head(notes) = notes[1] /\ Len(notes) \in Nat \ {0}
    BY <1>4, <1>7
  <2>2. /\ Head(notes) \in Notes /\ Len(Tail(notes)) = Len(notes) - 1
        /\ \A i \in 1 .. Len(Tail(notes)) : Tail(notes)[i] = notes[i + 1]
    BY <1>4, <1>7, HeadTailProperties
  <2> QED BY <1>2, <1>7, <2>1, <2>2 DEF IsPosted
<1>8. ASSUME UNCHANGED tradeUpdates PROVE UpdatesPosted'
  BY <1>2, <1>8 DEF IsPosted
<1>9. ASSUME job' = job \/ job'[Updater] = job[Updater] \/ job'[Updater].todo \subseteq job[Updater].todo
      PROVE  TodoPosted'
  BY <1>2, <1>9
<1> HIDE DEF NotesPosted, UpdatesPosted, TodoPosted
<1>10. ASSUME NEW n \in Notes, n.table # "trades" \/ n.op # "INSERT", Notified(n),
              UNCHANGED <<tradeUpdates, job>>
       PROVE  Posted'
  BY <1>3, <1>6, <1>8, <1>9, <1>10 DEF IsPosted
<1>11. ASSUME UNCHANGED <<notes, tradeUpdates, job>> PROVE Posted'
  BY <1>3, <1>5, <1>8, <1>9, <1>11
<1>12. ASSUME NEW t \in Triggers, NEW st \in {"active", "triggered"}, WriteTrigger(t, st)
       PROVE  Posted'
  <2>1. PICK n : n = [table |-> "triggers", id |-> t, status |-> st]
    OBVIOUS
  <2>2. n \in Notes /\ n.table # "trades" /\ Notified(n)
    BY <1>12, <2>1 DEF WriteTrigger, Notes, TriggerNote
  <2> QED BY <1>10, <1>12, <2>2 DEF WriteTrigger, procVars, jobVars, chanVars
<1>13. ASSUME NEW n \in 1 .. MaxOrders, NEW st \in NoticeStatuses, RewriteOrder(n, st) PROVE Posted'
  <2>1. PICK m : m = [table |-> "orders", order |-> n, status |-> st]
    OBVIOUS
  <2>2. m \in Notes /\ m.table # "trades" /\ Notified(m)
    BY <1>13, <2>1 DEF RewriteOrder, Notes, OrderNote
  <2> QED BY <1>10, <1>13, <2>2 DEF RewriteOrder, procVars, jobVars, chanVars
<1>14. ASSUME NEW tr \in Trades, DeleteGroup(tr) PROVE Posted'
  <2>1. PICK m : m = [table |-> "trades", op |-> "DELETE", id |-> tr, row |-> trade[tr]]
    OBVIOUS
  <2>2. m \in Notes /\ m.op # "INSERT" /\ Notified(m)
    BY <1>1, <1>14, <2>1, RowParts DEF DeleteGroup, Notes, TradeNote
  <2> QED BY <1>10, <1>14, <2>2 DEF DeleteGroup, procVars, jobVars, chanVars
<1>15. ASSUME NEW tr \in Trades, PostTrade(tr) PROVE Posted'
  <2>1. PICK m : m = [table |-> "trades", op |-> "INSERT", id |-> tr, row |-> NewRow]
    OBVIOUS
  <2>2. m \in Notes /\ Notified(m)
    BY <1>15, <2>1, NewRowIsRow DEF PostTrade, Notes, TradeNote
  <2>3. IsPosted(m)
    BY <1>1, <1>15, <2>1 DEF IsPosted, PostTrade, LinksFixed
  <2>4. tradeUpdates' = tradeUpdates /\ job' = job
    BY <1>15 DEF PostTrade, procVars, jobVars, chanVars
  <2> QED BY <1>3, <1>6, <1>8, <1>9, <2>2, <2>3, <2>4
<1>16. ASSUME NEW tr \in Trades, NEW r \in Row, WriteRow(tr, r)
       PROVE  NotesPosted'
  <2>1. PICK m : m = [table |-> "trades", op |-> "UPDATE", id |-> tr, row |-> r]
    OBVIOUS
  <2>2. m \in Notes /\ m.op # "INSERT" /\ Notified(m)
    BY <1>16, <2>1 DEF WriteRow, Notes, TradeNote
  <2> QED BY <1>6, <2>2 DEF IsPosted
<1>17. ASSUME NEW kept \in 0 .. Len(notes), LoseNotes(kept) PROVE Posted'
  <2>1. notes' = SubSeq(notes, 1, kept)
    BY <1>17 DEF LoseNotes
  <2>2. /\ Len(SubSeq(notes, 1, kept)) = kept /\ Len(notes) \in Nat
        /\ \A i \in 1 .. kept : SubSeq(notes, 1, kept)[i] = notes[i]
    BY <1>4
  <2>3. NotesPosted'
    BY <1>2, <2>1, <2>2 DEF NotesPosted, IsPosted
  <2> QED BY <1>3, <1>8, <1>9, <1>17, <2>3 DEF LoseNotes, procVars, jobVars, chanVars
<1>18. CASE Crash
  <2>1. notes' = << >> /\ tradeUpdates' = << >> /\ job'[Updater].todo = {}
    BY <1>18, IdleIsJob DEF Crash, Load, Callers, Updater, Init0
  <2> QED BY <1>3, <2>1 DEF NotesPosted, UpdatesPosted, TodoPosted
<1>19. ASSUME NEW c \in Callers, NEW tr \in Trades, CallerStep(c, tr) PROVE Posted'
  <2>1. Moves(c, tr) /\ tradeUpdates' = tradeUpdates
    BY <1>19, CallerMoves
  <2>2. job'[Updater].todo \subseteq job[Updater].todo
    BY <1>1, <2>1, JobAfterDone, JobAfterGoto DEF Moves, Callers
  <2>3. [entry |-> job[c].order, status |-> "PENDING"] \in Row
    BY <1>1 DEF Row, EntryStatuses, TypeOK, Jobs
  <2>4. NotesPosted'
    BY <1>5, <1>16, <1>19, <2>3 DEF CallerStep, LookUp, Check, Place, Record, PlaceError
  <2> QED BY <1>3, <1>8, <1>9, <2>1, <2>2, <2>4
<1>20. ASSUME NEW failed \in BOOLEAN, UseTrade(failed) PROVE Posted'
  <2>1. found.id \in Trades /\ Head(orderUpdates) \in OrderNote
    BY <1>1, <1>20, Heads DEF UseTrade, IInv, Bracketing
  <2>2. [entry |-> trade[found.id].entry, status |-> Head(orderUpdates).status] \in Row
    BY <1>1, <2>1, RowParts DEF Row, OrderNote, EntryStatuses
  <2>3. NotesPosted'
    BY <1>5, <1>16, <1>20, <2>1, <2>2 DEF UseTrade
  <2> QED BY <1>3, <1>8, <1>9, <1>20, <2>3 DEF UseTrade, jobVars
<1>21. CASE NoteTrade
  <2>1. NotesPosted' /\ Head(notes) \in Notes /\ IsPosted(Head(notes)) /\ Head(notes).table = "trades"
    BY <1>7, <1>21 DEF NoteTrade, ListenerFree
  <2>2. ASSUME tradeUpdates' = Append(tradeUpdates, Head(notes)) PROVE UpdatesPosted'
    <3>1. PICK n \in TradeNote : n = Head(notes)
      BY <2>1 DEF Notes, OrderNote, TriggerNote
    <3>2. /\ Len(Append(tradeUpdates, n)) = Len(tradeUpdates) + 1 /\ Len(tradeUpdates) \in Nat
          /\ \A i \in 1 .. Len(tradeUpdates) : Append(tradeUpdates, n)[i] = tradeUpdates[i]
          /\ Append(tradeUpdates, n)[Len(tradeUpdates) + 1] = n
      BY <1>4
    <3> QED BY <1>2, <2>1, <2>2, <3>1, <3>2 DEF UpdatesPosted, IsPosted
  <2>3. UpdatesPosted'
    BY <1>8, <1>21, <2>2 DEF NoteTrade
  <2> QED BY <1>3, <1>9, <1>21, <2>1, <2>3 DEF NoteTrade, procVars, jobVars
<1>22. CASE NoteOrder
  BY <1>3, <1>7, <1>8, <1>9, <1>22 DEF NoteOrder, ListenerFree, procVars, jobVars
<1>23. CASE NoteTrigger
  <2>1. job'[Updater] = job[Updater]
    BY <1>1, <1>23 DEF NoteTrigger, NoteTriggerFor, TypeOK, Callers, Listener, Updater
  <2> QED BY <1>3, <1>7, <1>8, <1>9, <1>23, <2>1 DEF NoteTrigger, NoteTriggerFor, ListenerFree, chanVars
<1>24. CASE UpdateTrade
  <2>1. /\ tradeUpdates # << >> /\ tradeUpdates' = Tail(tradeUpdates) /\ notes' = notes
    BY <1>24 DEF UpdateTrade
  <2>2. /\ Head(tradeUpdates) = tradeUpdates[1] /\ Len(tradeUpdates) \in Nat \ {0}
    BY <1>4, <2>1
  <2>3. /\ Head(tradeUpdates) \in TradeNote /\ Len(Tail(tradeUpdates)) = Len(tradeUpdates) - 1
        /\ \A i \in 1 .. Len(Tail(tradeUpdates)) : Tail(tradeUpdates)[i] = tradeUpdates[i + 1]
    BY <1>4, <2>1, HeadTailProperties
  <2>4. UpdatesPosted' /\ IsPosted(Head(tradeUpdates))
    BY <1>2, <2>1, <2>2, <2>3 DEF UpdatesPosted, IsPosted
  <2>5. ASSUME Head(tradeUpdates).op = "INSERT"
        PROVE  job'[Updater].todo = {Head(tradeUpdates).id} /\ Head(tradeUpdates).id \notin Existing
    <3>1. Batch({Head(tradeUpdates).id}).todo = {Head(tradeUpdates).id}
      BY <2>3, IdleIsJob DEF TradeNote
    <3>2. job'[Updater] = Batch({Head(tradeUpdates).id})
      BY <1>1, <1>24, <2>5 DEF UpdateTrade, TypeOK, Callers
    <3> QED BY <2>3, <2>4, <2>5, <3>1, <3>2 DEF TradeNote, IsPosted
  <2>6. TodoPosted'
    <3>1. CASE Head(tradeUpdates).op = "INSERT"
      BY <2>5, <3>1 DEF TodoPosted
    <3>2. CASE Head(tradeUpdates).op # "INSERT"
      BY <1>9, <1>24, <3>2 DEF UpdateTrade
    <3> QED BY <3>1, <3>2
  <2> QED BY <1>3, <1>5, <2>1, <2>4, <2>6
<1>25. CASE \/ \E tr \in Trades, t \in Triggers : LinkTrigger(tr, t)
            \/ Started \/ Listen \/ FindTrade \/ PlaceBracketOrder
            \/ (\E accepted \in BOOLEAN : BracketError(accepted))
            \/ (\E n \in 1 .. MaxOrders : OrderFilled(n)) \/ UNCHANGED vars
  BY <1>11, <1>25 DEF LinkTrigger, Started, Listen, FindTrade, PlaceBracketOrder, BracketError,
     OrderFilled, vars, procVars, chanVars, jobVars
<1> QED BY <1>12, <1>13, <1>14, <1>15, <1>17, <1>18, <1>19, <1>20, <1>21, <1>22, <1>23, <1>24, <1>25
        DEF Next, CallerStep

\* The counts, and what each kind of write does to them.
LEMMA CountsTypes ==
  ASSUME TypeOK, NEW tr \in Trades
  PROVE  Ordered(tr) \in Nat /\ Pending(tr) \in Nat /\ Fires(tr) \in Nat /\ boots \in Nat
<1>1. owner \in Seq(Order) /\ notes \in Seq(Notes) /\ fired \in Seq(Triggers) /\ boots \in Nat
  BY DEF TypeOK
<1> QED BY <1>1, CountType DEF Ordered, Pending, Fires

LEMMA CountsTypesNext ==
  ASSUME TypeOK', NEW tr \in Trades
  PROVE  Ordered(tr)' \in Nat /\ Pending(tr)' \in Nat /\ Fires(tr)' \in Nat /\ boots' \in Nat
<1>1. owner' \in Seq(Order) /\ notes' \in Seq(Notes) /\ fired' \in Seq(Triggers) /\ boots' \in Nat
  BY DEF TypeOK
<1> QED BY <1>1, CountType DEF Ordered, Pending, Fires

LEMMA OrderCounted ==
  ASSUME TypeOK, NEW tr \in Trades, NEW o \in Order, owner' = Append(owner, o)
  PROVE  Ordered(tr)' = Ordered(tr) + One(o = Entry(tr))
<1>1. owner \in Seq(Order)
  BY DEF TypeOK
<1>2. Count(Append(owner, o), {Entry(tr)}) = Count(owner, {Entry(tr)}) + One(o \in {Entry(tr)})
  BY <1>1, CountAppend
<1>3. One(o \in {Entry(tr)}) = One(o = Entry(tr))
  BY DEF One
<1> QED BY <1>2, <1>3 DEF Ordered

LEMMA NoteCounted ==
  ASSUME TypeOK, NEW tr \in Trades, NEW n \in Notes, Notified(n)
  PROVE  Pending(tr)' <= Pending(tr) + One(n \in Calls(tr))
<1>1. notes \in Seq(Notes) /\ Pending(tr) \in Nat /\ One(n \in Calls(tr)) \in Nat
  BY CountsTypes DEF TypeOK, One
<1>2. Count(Append(notes, n), Calls(tr)) = Count(notes, Calls(tr)) + One(n \in Calls(tr))
  BY <1>1, CountAppend
<1>3. CASE notes' = Append(notes, n)
  BY <1>1, <1>2, <1>3 DEF Pending
<1>4. CASE notes' = notes
  BY <1>1, <1>4 DEF Pending
<1> QED BY <1>3, <1>4 DEF Notified

LEMMA NoteTaken ==
  ASSUME TypeOK, NEW tr \in Trades, notes # << >>, notes' = Tail(notes)
  PROVE  Pending(tr)' + One(Head(notes) \in Calls(tr)) <= Pending(tr)
<1>1. notes \in Seq(Notes)
  BY DEF TypeOK
<1>2. Count(Tail(notes), Calls(tr)) + One(Head(notes) \in Calls(tr)) <= Count(notes, Calls(tr))
  BY <1>1, CountTail
<1> QED BY <1>2 DEF Pending

\* The entry orders of a trade grow only by a caller that places it.
LEMMA NoEntry ==
  ASSUME TypeOK, NEW tr \in Trades, NEW o \in Order, o.after # NoOrder, owner' = Append(owner, o)
  PROVE  Ordered(tr)' = Ordered(tr)
<1>1. o # Entry(tr) /\ Ordered(tr) \in Nat
  BY CountsTypes DEF Entry
<1> QED BY <1>1, OrderCounted DEF One

LEMMA OrderedStep ==
  ASSUME IInv, [Next]_vars, NEW tr \in Trades
  PROVE  \/ Ordered(tr)' = Ordered(tr)
         \/ \E c \in Callers : /\ CallerStep(c, tr) /\ At(c, tr, "place")
                               /\ Ordered(tr)' = Ordered(tr) + 1
<1>1. TypeOK /\ Ordered(tr) \in Nat
  BY CountsTypes DEF IInv
<1>2. CASE owner' = owner
  BY <1>2 DEF Ordered
<1>3. ASSUME NEW c \in Callers, NEW x \in Trades, CallerStep(c, x), owner' # owner
      PROVE  \/ Ordered(tr)' = Ordered(tr)
             \/ CallerStep(c, tr) /\ At(c, tr, "place") /\ Ordered(tr)' = Ordered(tr) + 1
  <2>1. owner' = Append(owner, Entry(x)) /\ At(c, x, "place")
    BY <1>3 DEF CallerStep, LookUp, Check, Place, Record, PlaceError
  <2>2. Ordered(tr)' = Ordered(tr) + One(Entry(x) = Entry(tr))
    BY <1>1, <2>1, EntryIsOrder, OrderCounted
  <2>3. CASE x = tr
    BY <1>1, <1>3, <2>1, <2>2, <2>3 DEF One
  <2>4. CASE x # tr
    <3>1. Entry(x) # Entry(tr)
      BY <2>4 DEF Entry
    <3> QED BY <1>1, <2>2, <3>1 DEF One
  <2> QED BY <2>3, <2>4
<1>4. CASE PlaceBracketOrder \/ \E accepted \in BOOLEAN : BracketError(accepted)
  <2> DEFINE o == [trade |-> found.id, after |-> Head(orderUpdates).order]
  <2>1. IsEntry(Head(orderUpdates).order, found.id) /\ found # Nothing
    BY <1>4, NothingIsFound DEF IInv, Bracketing, PlaceBracketOrder, BracketError
  <2>2. found.id \in Trades /\ Head(orderUpdates) \in OrderNote
    BY <1>1, <2>1, Heads DEF IInv, Bracketing
  <2>3. o \in Order /\ o.after # NoOrder
    BY <2>2 DEF Order, OrderNote, NoOrder
  <2>4. owner' = owner \/ owner' = Append(owner, o)
    BY <1>4 DEF PlaceBracketOrder, BracketError
  <2> QED BY <1>1, <1>2, <2>3, <2>4, NoEntry
<1>5. ASSUME NEW n \in 1 .. MaxOrders, OrderFilled(n) PROVE Ordered(tr)' = Ordered(tr)
  <2> DEFINE o == [trade |-> owner[n].trade, after |-> n]
  <2>1. owner[n] \in Order
    BY <1>1, <1>5 DEF OrderFilled, IInv, Watched, Second, TypeOK
  <2>2. o \in Order /\ o.after # NoOrder
    BY <2>1 DEF Order, NoOrder
  <2>3. owner' = owner \/ owner' = Append(owner, o)
    BY <1>5 DEF OrderFilled, Follow
  <2>4. CASE owner' = owner
    BY <2>4 DEF Ordered
  <2> QED BY <1>1, <2>2, <2>3, <2>4, NoEntry
<1>6. CASE \/ \E t \in Triggers, st \in {"active", "triggered"} : WriteTrigger(t, st)
           \/ \E x \in Trades : PostTrade(x) \/ DeleteGroup(x) \/ \E t \in Triggers : LinkTrigger(x, t)
           \/ \E n \in 1 .. MaxOrders, st \in NoticeStatuses : RewriteOrder(n, st)
           \/ Crash \/ \E kept \in 0 .. Len(notes) : LoseNotes(kept)
           \/ Started \/ Listen \/ NoteTrade \/ NoteOrder \/ NoteTrigger \/ UpdateTrade
           \/ FindTrade \/ (\E failed \in BOOLEAN : UseTrade(failed)) \/ UNCHANGED vars
  BY <1>2, <1>6 DEF WriteTrigger, PostTrade, DeleteGroup, LinkTrigger, RewriteOrder, Crash,
     LoseNotes, Started, Listen, NoteTrade, NoteOrder, NoteTrigger, NoteTriggerFor, UpdateTrade,
     FindTrade, UseTrade, vars
<1> QED BY <1>2, <1>3, <1>4, <1>5, <1>6 DEF Next, CallerStep

\* What a step of a caller changes in what may still be placed for a trade.
LEMMA MayPlaceStep ==
  ASSUME IInv, NEW c \in Callers, NEW tr \in Trades, CallerStep(c, tr), NEW x \in Trades,
         NEW d \in Callers
  PROVE  /\ MayPlace(d, x)' => MayPlace(d, x)
         /\ d = c /\ x = tr /\ At(c, tr, "place") => MayPlace(d, x) /\ ~MayPlace(d, x)'
<1>1. TypeOK /\ Moves(c, tr) /\ tr \in job[c].todo /\ (job[c].at = "next" \/ current[c] = tr)
  BY CallerMoves DEF IInv
<1>2. CASE d # c
  BY <1>1, <1>2, JobAfterGoto, JobAfterDone DEF Moves, MayPlace, At
<1>3. ASSUME d = c, Done(c, tr)
      PROVE  MayPlace(d, x)' => MayPlace(d, x) /\ x # tr
  BY <1>1, <1>3, JobAfterDone DEF MayPlace, At
<1>4. ASSUME d = c, NEW where \in {"check", "place", "record"}, NEW n \in Int, Goto(c, tr, where, n),
             job[c].at # "record"
      PROVE  /\ MayPlace(d, x)' => MayPlace(d, x)
             /\ where = "record" /\ x = tr => ~MayPlace(d, x)'
  BY <1>1, <1>4, JobAfterGoto DEF MayPlace, At
<1>5. At(c, tr, "place") => MayPlace(c, tr)
  BY <1>1 DEF At, MayPlace
<1>6. CASE d = c
  <2>1. CASE LookUp(c, tr)
    BY <1>3, <1>4, <1>6, <2>1 DEF LookUp, At, NoOrder
  <2>2. CASE Check(c, tr)
    BY <1>3, <1>4, <1>6, <2>2 DEF Check, At, NoOrder
  <2>3. CASE Place(c, tr)
    <3>1. Len(owner) + 1 \in Int /\ job[c].at # "record"
      BY <1>1, <2>3 DEF TypeOK, Place, At
    <3> QED BY <1>4, <1>5, <1>6, <2>3, <3>1 DEF Place
  <2>4. CASE Record(c, tr)
    BY <1>3, <1>6, <2>4 DEF Record, At
  <2>5. CASE \E accepted \in BOOLEAN : PlaceError(c, tr, accepted)
    BY <1>3, <1>5, <1>6, <2>5 DEF PlaceError
  <2> QED BY <2>1, <2>2, <2>3, <2>4, <2>5 DEF CallerStep
<1> QED BY <1>2, <1>6

\* Only a restart gives the pass of Initialize a trade.
LEMMA InitializeStep ==
  ASSUME IInv, [Next]_vars, NEW tr \in Trades
  PROVE  Crash \/ (boots' = boots /\ (MayPlace(Init0, tr)' => MayPlace(Init0, tr)))
<1>1. TypeOK /\ Init0 \in Callers
  BY DEF IInv, Callers
<1>2. Crash \/ boots' = boots
  BY DEF Next, WriteTrigger, PostTrade, DeleteGroup, LinkTrigger, RewriteOrder, LoseNotes,
     LookUp, Check, Place, PlaceError, Record, Otherwise, Started, Listen, NoteTrade,
     NoteOrder, NoteTrigger, NoteTriggerFor, UpdateTrade, FindTrade, UseTrade,
     PlaceBracketOrder, BracketError, OrderFilled, countVars, vars
<1>3. ASSUME job'[Init0] = job[Init0], current' = current
      PROVE  MayPlace(Init0, tr)' => MayPlace(Init0, tr)
  BY <1>3 DEF MayPlace, At
<1>4. ASSUME NEW c \in Callers, NEW x \in Trades, CallerStep(c, x)
      PROVE  MayPlace(Init0, tr)' => MayPlace(Init0, tr)
  BY <1>1, <1>4, MayPlaceStep
<1>5. CASE NoteTrigger \/ UpdateTrade
  <2>1. job'[Init0] = job[Init0] /\ current' = current
    BY <1>1, <1>5 DEF NoteTrigger, NoteTriggerFor, UpdateTrade, TypeOK, Callers, Init0, Listener, Updater
  <2> QED BY <1>2, <1>3, <2>1
<1>6. CASE \/ \E t \in Triggers, st \in {"active", "triggered"} : WriteTrigger(t, st)
           \/ \E x \in Trades : PostTrade(x) \/ DeleteGroup(x) \/ \E t \in Triggers : LinkTrigger(x, t)
           \/ \E n \in 1 .. MaxOrders, st \in NoticeStatuses : RewriteOrder(n, st)
           \/ \E kept \in 0 .. Len(notes) : LoseNotes(kept)
           \/ Started \/ Listen \/ NoteTrade \/ NoteOrder
           \/ FindTrade \/ PlaceBracketOrder \/ (\E failed \in BOOLEAN : UseTrade(failed))
           \/ (\E accepted \in BOOLEAN : BracketError(accepted))
           \/ (\E n \in 1 .. MaxOrders : OrderFilled(n)) \/ UNCHANGED vars
  <2>1. job' = job /\ current' = current
    BY <1>6 DEF WriteTrigger, PostTrade, DeleteGroup, LinkTrigger, RewriteOrder, LoseNotes,
       Started, Listen, NoteTrade, NoteOrder, FindTrade, UseTrade,
       PlaceBracketOrder, BracketError, OrderFilled, vars, procVars, jobVars
  <2> QED BY <1>2, <1>3, <2>1
<1> QED BY <1>2, <1>4, <1>5, <1>6 DEF Next, CallerStep

LEMMA FirstPassStep ==
  ASSUME IInv, [Next]_vars
  PROVE  FirstPass'
<1> SUFFICES ASSUME NEW tr \in Existing, boots' = 1, MayPlace(Init0, tr)'
             PROVE  Ordered(tr)' = 0
  BY DEF FirstPass
<1>1. /\ TypeOK /\ Quiet /\ FirstPass /\ tr \in Trades /\ Init0 \in Callers
      /\ boots \in Nat \ {0}
  BY TradeAssumption DEF IInv, Caused, Callers, TypeOK
<1>2. ~Crash
  BY <1>1 DEF Crash, Load
<1>3. MayPlace(Init0, tr) /\ boots = 1
  BY <1>1, <1>2, InitializeStep
<1>4. Ordered(tr) = 0 /\ phase = "starting"
  BY <1>1, <1>3 DEF FirstPass, Quiet, MayPlace
<1>5. ASSUME NEW c \in Callers, CallerStep(c, tr), At(c, tr, "place") PROVE FALSE
  <2>1. tr \in job[c].todo
    BY <1>1, <1>5, CallerMoves
  <2>2. c = Init0
    BY <1>1, <1>4, <2>1 DEF Quiet, Callers
  <2> QED BY <1>1, <1>5, <2>2, MayPlaceStep
<1> QED BY <1>1, <1>4, <1>5, OrderedStep

\* The effects of a step weighed against its causes.
LEMMA Weighed ==
  ASSUME TypeOK, TypeOK', NEW tr \in Trades, Within(tr),
         NEW o \in Int, NEW p \in Int, NEW l \in Int, NEW s \in Int, NEW k \in Int,
         Ordered(tr)' <= Ordered(tr) + o, Pending(tr)' <= Pending(tr) + p,
         One(MayPlace(Listener, tr))' <= One(MayPlace(Listener, tr)) + l,
         One(Starting(tr))' <= One(Starting(tr)) + s,
         boots + Fires(tr) + k <= boots' + Fires(tr)',
         o + p + l + s <= k
  PROVE  Within(tr)'
<1>1. /\ Ordered(tr) \in Nat /\ Pending(tr) \in Nat /\ Fires(tr) \in Nat /\ boots \in Nat
  BY CountsTypes
<1>2. /\ Ordered(tr)' \in Nat /\ Pending(tr)' \in Nat /\ Fires(tr)' \in Nat /\ boots' \in Nat
  BY CountsTypesNext
<1>3. /\ One(MayPlace(Listener, tr)) \in Nat /\ One(Starting(tr)) \in Nat
      /\ One(MayPlace(Listener, tr))' \in Nat /\ One(Starting(tr))' \in Nat
  BY DEF One
<1> QED BY <1>1, <1>2, <1>3 DEF Within, Effects

\* Nothing new is under way.
LEMMA NothingNew ==
  ASSUME TypeOK, TypeOK', NEW tr \in Trades, Within(tr), Ordered(tr)' = Ordered(tr),
         boots' = boots, fired' = fired, Pending(tr)' <= Pending(tr),
         MayPlace(Listener, tr)' => MayPlace(Listener, tr), Starting(tr)' => Starting(tr)
  PROVE  Within(tr)'
<1>1. /\ Ordered(tr) \in Nat /\ Pending(tr) \in Nat /\ Fires(tr) \in Nat /\ boots \in Nat
  BY CountsTypes
<1>2. Fires(tr)' = Fires(tr)
  BY DEF Fires
<1>3. One(MayPlace(Listener, tr))' <= One(MayPlace(Listener, tr)) + 0
  BY DEF One
<1>4. One(Starting(tr))' <= One(Starting(tr)) + 0
  BY DEF One
<1>5. Ordered(tr)' <= Ordered(tr) + 0 /\ Pending(tr)' <= Pending(tr) + 0
      /\ boots + Fires(tr) + 0 <= boots' + Fires(tr)'
  BY <1>1, <1>2, CountsTypesNext
<1> QED BY <1>3, <1>4, <1>5, Weighed

\* A trigger left triggered calls for each trade of its blocks.
LEMMA WithinWrite ==
  ASSUME IInv, TypeOK', NEW tr \in Existing, Within(tr),
         NEW t \in Triggers, NEW st \in {"active", "triggered"}, WriteTrigger(t, st)
  PROVE  Within(tr)'
<1> DEFINE n == [table |-> "triggers", id |-> t, status |-> st]
           k == One(n \in Calls(tr))
<1>1. TypeOK /\ tr \in Trades
  BY TradeAssumption DEF IInv
<1>2. n \in Notes /\ (n \in Calls(tr) <=> st = "triggered" /\ t \in Links[tr])
  BY DEF Notes, TriggerNote, Calls
<1>3. Pending(tr)' <= Pending(tr) + k
  BY <1>1, <1>2, NoteCounted DEF WriteTrigger
<1>4. Fires(tr)' = Fires(tr) + k
  <2>1. CASE st = "triggered"
    <3>1. fired \in Seq(Triggers) /\ fired' = Append(fired, t)
      BY <1>1, <2>1 DEF TypeOK, WriteTrigger
    <3>2. Count(Append(fired, t), Links[tr]) = Count(fired, Links[tr]) + One(t \in Links[tr])
      BY <3>1, CountAppend
    <3>3. One(t \in Links[tr]) = k
      BY <1>2, <2>1 DEF One
    <3> QED BY <3>1, <3>2, <3>3 DEF Fires
  <2>2. CASE st # "triggered"
    <3>1. fired' = fired /\ k = 0 /\ Fires(tr) \in Nat
      BY <1>1, <1>2, <2>2, CountsTypes DEF WriteTrigger, One
    <3> QED BY <3>1 DEF Fires
  <2> QED BY <2>1, <2>2
<1> HIDE DEF n
<1>5. k \in Int
  BY DEF One
<1>6. Ordered(tr)' = Ordered(tr) /\ MayPlace(Listener, tr)' = MayPlace(Listener, tr)
      /\ Starting(tr)' = Starting(tr) /\ boots' = boots
  BY DEF WriteTrigger, Ordered, MayPlace, Starting, At, procVars, jobVars
<1>7. /\ Ordered(tr)' <= Ordered(tr) + 0
      /\ One(MayPlace(Listener, tr))' <= One(MayPlace(Listener, tr)) + 0
      /\ One(Starting(tr))' <= One(Starting(tr)) + 0
      /\ boots + Fires(tr) + k <= boots' + Fires(tr)'
  BY <1>1, <1>4, <1>5, <1>6, CountsTypes DEF One
<1>8. 0 + k + 0 + 0 <= k
  BY <1>5
<1> QED BY <1>1, <1>3, <1>5, <1>7, <1>8, Weighed

\* The listener takes the call.
LEMMA WithinCalled ==
  ASSUME IInv, TypeOK', NEW tr \in Existing, Within(tr), NoteTrigger
  PROVE  Within(tr)'
<1> DEFINE k == One(Head(notes) \in Calls(tr))
<1>1. /\ TypeOK /\ tr \in Trades /\ links[tr] = Links[tr]
      /\ notes # << >> /\ notes' = Tail(notes) /\ job[Listener].todo = {}
  BY TradeAssumption DEF IInv, Guarded, LinksFixed, NoteTrigger, NoteTriggerFor, ListenerFree
<1>2. Pending(tr)' + k <= Pending(tr) /\ Pending(tr) \in Nat /\ k \in Int
  BY <1>1, NoteTaken, CountsTypes DEF One
<1>3. Pending(tr)' \in Nat
  BY <1>1, CountsTypesNext
<1>4. ~MayPlace(Listener, tr)
  BY <1>1 DEF MayPlace
<1>5. MayPlace(Listener, tr)' => Head(notes) \in Calls(tr)
  <2> SUFFICES ASSUME MayPlace(Listener, tr)' PROVE Head(notes) \in Calls(tr)
    OBVIOUS
  <2>1. Head(notes) \in Notes /\ Head(notes).table = "triggers"
    BY <1>1, Heads DEF NoteTrigger, NoteTriggerFor
  <2>2. Head(notes) \in TriggerNote
    BY <2>1 DEF Notes, TradeNote, OrderNote
  <2>3. tr \in job'[Listener].todo
    BY DEF MayPlace
  <2>4. Head(notes).status = "triggered" /\ job'[Listener] = Batch(TradesOf(Head(notes).id))
    BY <1>1, <2>3 DEF NoteTrigger, NoteTriggerFor, TypeOK, Callers
  <2>5. tr \in TradesOf(Head(notes).id)
    BY <2>3, <2>4, IdleIsJob DEF TradesOf
  <2> QED BY <1>1, <2>2, <2>4, <2>5 DEF TradesOf, Calls
<1>6. One(MayPlace(Listener, tr))' <= One(MayPlace(Listener, tr)) + k
  BY <1>4, <1>5 DEF One
<1>7. job'[Init0] = job[Init0] /\ current' = current /\ boots' = boots /\ fired' = fired /\ owner' = owner
  BY <1>1 DEF NoteTrigger, NoteTriggerFor, TypeOK, Callers, Init0, Listener, countVars
<1>8. Ordered(tr)' = Ordered(tr) /\ Starting(tr)' = Starting(tr) /\ Fires(tr)' = Fires(tr)
  BY <1>7 DEF Ordered, Starting, MayPlace, At, Fires
<1>9. /\ Ordered(tr)' <= Ordered(tr) + 0 /\ Pending(tr)' <= Pending(tr) + (0 - k)
      /\ One(Starting(tr))' <= One(Starting(tr)) + 0
      /\ boots + Fires(tr) + 0 <= boots' + Fires(tr)'
  BY <1>1, <1>2, <1>3, <1>7, <1>8, CountsTypes DEF One
<1>10. 0 + (0 - k) + k + 0 <= 0 /\ 0 - k \in Int
  BY <1>2
<1> HIDE DEF k
<1> QED BY <1>1, <1>2, <1>6, <1>9, <1>10, Weighed

\* What was under way at a crash is gone; the pass that follows has it as a cause.
LEMMA WithinCrash ==
  ASSUME IInv, TypeOK', NEW tr \in Existing, Within(tr), Crash
  PROVE  Within(tr)'
<1>1. TypeOK /\ tr \in Trades
  BY TradeAssumption DEF IInv
<1>2. /\ boots' = boots + 1 /\ fired' = fired /\ owner' = owner /\ notes' = << >>
      /\ job'[Listener].todo = {}
  BY IdleIsJob DEF Crash, Load, Callers, Listener, Init0
<1>3. Ordered(tr)' = Ordered(tr) /\ Fires(tr)' = Fires(tr) /\ ~MayPlace(Listener, tr)'
  BY <1>2 DEF Ordered, Fires, MayPlace
<1>4. Pending(tr)' = 0
  BY <1>2, CountEmpty DEF Pending
<1>5. One(MayPlace(Listener, tr))' <= One(MayPlace(Listener, tr)) + 0
  BY <1>3 DEF One
<1>6. One(Starting(tr))' <= One(Starting(tr)) + 1
  BY DEF One
<1>7. /\ Ordered(tr)' <= Ordered(tr) + 0 /\ Pending(tr)' <= Pending(tr) + 0
      /\ boots + Fires(tr) + 1 <= boots' + Fires(tr)'
  BY <1>1, <1>2, <1>3, <1>4, CountsTypes
<1> QED BY <1>1, <1>5, <1>6, <1>7, Weighed

\* A row is written: no call.
LEMMA RowCallsNobody ==
  ASSUME TypeOK, NEW x \in Trades, NEW r \in Row, NEW op \in {"INSERT", "UPDATE", "DELETE"},
         Notified([table |-> "trades", op |-> op, id |-> x, row |-> r]), NEW tr \in Trades
  PROVE  Pending(tr)' <= Pending(tr)
<1>1. PICK n : n = [table |-> "trades", op |-> op, id |-> x, row |-> r]
  OBVIOUS
<1>2. n \in Notes /\ n \notin Calls(tr)
  BY <1>1 DEF Notes, TradeNote, TriggerNote, Calls
<1>3. Pending(tr)' <= Pending(tr) + One(n \in Calls(tr))
  BY <1>1, <1>2, NoteCounted
<1>4. Pending(tr) \in Nat /\ One(n \in Calls(tr)) = 0
  BY <1>2, CountsTypes DEF One
<1> QED BY <1>3, <1>4

LEMMA CallerNotes ==
  ASSUME IInv, NEW c \in Callers, NEW x \in Trades, CallerStep(c, x), NEW tr \in Trades
  PROVE  Pending(tr)' <= Pending(tr)
<1>1. TypeOK /\ Pending(tr) \in Nat
  BY CountsTypes DEF IInv
<1>2. CASE notes' = notes
  BY <1>1, <1>2 DEF Pending
<1>3. [entry |-> job[c].order, status |-> "PENDING"] \in Row
  BY <1>1 DEF Row, EntryStatuses, TypeOK, Jobs
<1>4. CASE Record(c, x)
  BY <1>1, <1>2, <1>3, <1>4, RowCallsNobody DEF Record, WriteRow
<1> QED BY <1>2, <1>4 DEF CallerStep, LookUp, Check, Place, PlaceError

\* The first pass goes on past its check: one of the triggers has fired, and
\* nothing has been placed for the trade before.
LEMMA WithinFirst ==
  ASSUME IInv, TypeOK', NEW tr \in Existing, Links[tr] # {}, Check(Init0, tr), AllTriggered(tr),
         boots = 1
  PROVE  Within(tr)'
<1>1. /\ TypeOK /\ tr \in Trades /\ links[tr] = Links[tr] /\ TriggersFired
      /\ Quiet /\ FirstPass /\ Init0 \in Callers /\ Links[tr] \in SUBSET Triggers
  BY TradeAssumption DEF IInv, Guarded, LinksFixed, Caused, Callers
<1>2. MayPlace(Init0, tr) /\ phase = "starting"
  <2>1. tr \in job[Init0].todo
    BY <1>1, CallerMoves DEF CallerStep
  <2> QED BY <1>1, <2>1 DEF Check, At, MayPlace, Quiet
<1>3. Ordered(tr) = 0 /\ notes = << >> /\ job[Listener].todo = {}
  BY <1>1, <1>2 DEF FirstPass, Quiet
<1>4. owner' = owner /\ notes' = notes /\ boots' = boots /\ fired' = fired
  BY DEF Check, Otherwise, countVars
<1>5. Ordered(tr)' = 0 /\ Pending(tr)' = 0
  BY <1>3, <1>4, CountEmpty DEF Ordered, Pending
<1>6. ~MayPlace(Listener, tr)'
  <2>1. MayPlace(Listener, tr)' => MayPlace(Listener, tr)
    BY <1>1, MayPlaceStep DEF CallerStep, Callers
  <2> QED BY <1>3, <2>1 DEF MayPlace
<1>7. One(MayPlace(Listener, tr))' = 0 /\ One(Starting(tr))' \in {0, 1}
  BY <1>6 DEF One
<1>8. Fires(tr)' >= 1
  <2>1. PICK t \in Links[tr] : trigger[t] = "triggered" /\ t \in Triggers
    BY <1>1 DEF AllTriggered
  <2>2. PICK i \in 1 .. Len(fired) : fired[i] = t
    BY <1>1, <2>1 DEF TriggersFired, Fired
  <2>3. Where(fired, Links[tr]) # {}
    BY <2>1, <2>2 DEF Where
  <2>4. fired \in Seq(Triggers)
    BY <1>1 DEF TypeOK
  <2>5. IsFiniteSet(Where(fired, Links[tr]))
    BY <2>4, CountType
  <2>6. Fires(tr) # 0 /\ Fires(tr) \in Nat
    BY <1>1, <2>3, <2>5, FS_EmptySet, CountsTypes DEF Fires, Count
  <2>7. Fires(tr)' = Fires(tr)
    BY <1>4 DEF Fires
  <2> QED BY <2>6, <2>7
<1>9. Fires(tr)' \in Nat
  BY <1>1, CountsTypesNext
<1>10. Effects(tr)' = Ordered(tr)' + Pending(tr)' + One(MayPlace(Listener, tr))' + One(Starting(tr))'
  BY DEF Effects
<1> QED BY <1>4, <1>5, <1>7, <1>8, <1>9, <1>10 DEF Within

\* What the pass of Initialize may still place, after a step of a caller.
LEMMA StartingStep ==
  ASSUME IInv, NEW c \in Callers, NEW x \in Trades, CallerStep(c, x), NEW tr \in Trades
  PROVE  \/ Starting(tr)' => Starting(tr)
         \/ boots = 1 /\ c = Init0 /\ x = tr /\ Check(Init0, tr) /\ AllTriggered(tr)
<1>1. TypeOK /\ Moves(c, x) /\ boots' = boots /\ boots \in Nat \ {0} /\ Init0 \in Callers
  BY CallerMoves DEF IInv, TypeOK, Callers
<1>2. MayPlace(Init0, tr)' => MayPlace(Init0, tr)
  BY <1>1, MayPlaceStep
<1>3. CASE At(Init0, tr, "place")' => At(Init0, tr, "place")
  BY <1>1, <1>2, <1>3 DEF Starting
<1>4. CASE boots > 1
  BY <1>1, <1>2, <1>4 DEF Starting
<1>5. CASE boots = 1 /\ At(Init0, tr, "place")' /\ ~At(Init0, tr, "place")
  <2>1. c = Init0
    BY <1>1, <1>5, JobAfterGoto, JobAfterDone DEF Moves, At
  <2>2. ~Done(c, x)
    BY <1>1, <1>5, <2>1, JobAfterDone DEF At
  <2>3. PICK where \in {"check", "place", "record"}, n \in Int : Goto(c, x, where, n)
    BY <1>1, <2>2 DEF Moves
  <2>4. job'[c].at = "place" /\ current'[c] = tr
    BY <1>5, <2>1 DEF At
  <2>5. job'[c].at = where /\ current'[c] = x
    BY <1>1, <2>3, JobAfterGoto
  <2>6. x = tr
    BY <2>4, <2>5
  <2>7. ASSUME NEW w, NEW m, Goto(c, x, w, m) PROVE w = "place"
    BY <1>1, <2>4, <2>7, JobAfterGoto
  <2>8. Check(c, x) /\ AllTriggered(x)
    BY <2>2, <2>7 DEF CallerStep, LookUp, Check, Place, Record, PlaceError
  <2> QED BY <1>5, <2>1, <2>6, <2>8
<1> QED BY <1>1, <1>3, <1>4, <1>5

LEMMA WithinCallers ==
  ASSUME IInv, TypeOK', [Next]_vars, NEW tr \in Existing, Links[tr] # {}, Within(tr),
         NEW c \in Callers, NEW x \in Trades, CallerStep(c, x)
  PROVE  Within(tr)'
<1>1. /\ TypeOK /\ tr \in Trades /\ Init0 \in Callers /\ Listener \in Callers
      /\ tr \notin job[Updater].todo
  BY TradeAssumption DEF IInv, Caused, Posted, Callers
<1>2. boots' = boots /\ fired' = fired /\ Pending(tr)' <= Pending(tr)
  BY <1>1, CallerMoves, CallerNotes
<1>3. MayPlace(Listener, tr)' => MayPlace(Listener, tr)
  BY <1>1, MayPlaceStep
<1>4. CASE Ordered(tr)' = Ordered(tr)
  <2>1. CASE Starting(tr)' => Starting(tr)
    BY <1>1, <1>2, <1>3, <1>4, <2>1, NothingNew
  <2>2. CASE boots = 1 /\ Check(Init0, tr) /\ AllTriggered(tr)
    BY <2>2, WithinFirst
  <2> QED BY <1>1, <2>1, <2>2, StartingStep
<1>5. ASSUME NEW d \in Callers, CallerStep(d, tr), At(d, tr, "place"), Ordered(tr)' = Ordered(tr) + 1
      PROVE  Within(tr)'
  <2>1. MayPlace(d, tr) /\ ~MayPlace(d, tr)'
    BY <1>1, <1>5, MayPlaceStep
  <2>2. d # Updater
    BY <1>1, <2>1 DEF MayPlace
  <2>3. /\ Ordered(tr)' <= Ordered(tr) + 1 /\ Pending(tr)' <= Pending(tr) + 0
        /\ boots + Fires(tr) + 0 <= boots' + Fires(tr)'
    <3>1. Ordered(tr) \in Nat /\ Pending(tr) \in Nat /\ Fires(tr) \in Nat /\ boots \in Nat
      BY <1>1, CountsTypes
    <3>2. Pending(tr)' \in Nat /\ Fires(tr)' = Fires(tr)
      BY <1>1, <1>2, CountsTypesNext DEF Fires
    <3> QED BY <1>2, <1>5, <3>1, <3>2
  <2>4. CASE d = Listener
    <3>1. One(MayPlace(Listener, tr))' <= One(MayPlace(Listener, tr)) + (0 - 1)
      BY <2>1, <2>4 DEF One
    <3>2. Starting(tr)' => Starting(tr)
      BY <1>1, <1>5, <2>4, StartingStep DEF Listener, Init0
    <3>3. One(Starting(tr))' <= One(Starting(tr)) + 0
      BY <3>2 DEF One
    <3> QED BY <1>1, <2>3, <3>1, <3>3, Weighed
  <2>5. CASE d = Init0
    <3>1. One(MayPlace(Listener, tr))' <= One(MayPlace(Listener, tr)) + 0
      BY <1>3 DEF One
    <3>2. Starting(tr) /\ ~Starting(tr)'
      BY <1>5, <2>1, <2>5 DEF Starting
    <3>3. One(Starting(tr))' <= One(Starting(tr)) + (0 - 1)
      BY <3>2 DEF One
    <3> QED BY <1>1, <2>3, <3>1, <3>3, Weighed
  <2> QED BY <2>2, <2>4, <2>5 DEF Callers
<1> QED BY <1>1, <1>4, <1>5, OrderedStep

\* Every other step.
LEMMA WithinOther ==
  ASSUME IInv, TypeOK', [Next]_vars, NEW tr \in Existing, Links[tr] # {}, Within(tr),
         \/ \E x \in Trades : PostTrade(x) \/ DeleteGroup(x) \/ \E t \in Triggers : LinkTrigger(x, t)
         \/ \E n \in 1 .. MaxOrders, st \in NoticeStatuses : RewriteOrder(n, st)
         \/ \E kept \in 0 .. Len(notes) : LoseNotes(kept)
         \/ Started \/ Listen \/ NoteTrade \/ NoteOrder
         \/ UpdateTrade \/ FindTrade \/ PlaceBracketOrder
         \/ (\E failed \in BOOLEAN : UseTrade(failed))
         \/ (\E accepted \in BOOLEAN : BracketError(accepted))
         \/ (\E n \in 1 .. MaxOrders : OrderFilled(n)) \/ UNCHANGED vars
  PROVE  Within(tr)'
<1>1. TypeOK /\ tr \in Trades /\ Pending(tr) \in Nat
  BY TradeAssumption, CountsTypes DEF IInv
<1>2. boots' = boots /\ fired' = fired
  BY DEF PostTrade, DeleteGroup, LinkTrigger, RewriteOrder, LoseNotes, Started, Listen, NoteTrade,
     NoteOrder, UpdateTrade, FindTrade, UseTrade, PlaceBracketOrder, BracketError, OrderFilled,
     countVars, vars
<1>3. job'[Listener] = job[Listener] /\ job'[Init0] = job[Init0] /\ current' = current
  <2>1. CASE UpdateTrade
    BY <1>1, <2>1 DEF UpdateTrade, TypeOK, Callers, Init0, Listener, Updater
  <2>2. (job' = job /\ current' = current) \/ UpdateTrade
    BY DEF PostTrade, DeleteGroup, LinkTrigger, RewriteOrder, LoseNotes, Started, Listen, NoteTrade,
       NoteOrder, FindTrade, UseTrade, PlaceBracketOrder, BracketError, OrderFilled,
       vars, procVars, jobVars
  <2> QED BY <2>1, <2>2
<1>4. (MayPlace(Listener, tr)' => MayPlace(Listener, tr)) /\ (Starting(tr)' => Starting(tr))
  BY <1>2, <1>3 DEF MayPlace, Starting, At
<1>5. Pending(tr)' <= Pending(tr)
  <2>1. notes' = notes => Pending(tr)' <= Pending(tr)
    BY <1>1 DEF Pending
  <2>2. ASSUME NEW x \in Trades, PostTrade(x) PROVE Pending(tr)' <= Pending(tr)
    BY <1>1, <2>2, NewRowIsRow, RowCallsNobody DEF PostTrade
  <2>3. ASSUME NEW x \in Trades, DeleteGroup(x) PROVE Pending(tr)' <= Pending(tr)
    BY <1>1, <2>3, RowParts, RowCallsNobody DEF DeleteGroup
  <2>4. ASSUME NEW n \in 1 .. MaxOrders, NEW st \in NoticeStatuses, RewriteOrder(n, st)
        PROVE  Pending(tr)' <= Pending(tr)
    <3>1. PICK m : m = [table |-> "orders", order |-> n, status |-> st]
      OBVIOUS
    <3>2. m \in Notes /\ m \notin Calls(tr) /\ Notified(m)
      BY <2>4, <3>1 DEF RewriteOrder, Notes, OrderNote, TriggerNote, Calls
    <3>3. Pending(tr)' <= Pending(tr) + One(m \in Calls(tr)) /\ One(m \in Calls(tr)) = 0
      BY <1>1, <3>2, NoteCounted DEF One
    <3> QED BY <1>1, <3>3
  <2>5. ASSUME NEW kept \in 0 .. Len(notes), LoseNotes(kept) PROVE Pending(tr)' <= Pending(tr)
    <3>1. notes \in Seq(Notes) /\ notes' = SubSeq(notes, 1, kept)
      BY <1>1, <2>5 DEF TypeOK, LoseNotes
    <3>2. Count(SubSeq(notes, 1, kept), Calls(tr)) <= Count(notes, Calls(tr))
      BY <3>1, CountPrefix
    <3> QED BY <3>1, <3>2 DEF Pending
  <2>6. ASSUME NEW failed \in BOOLEAN, UseTrade(failed) PROVE Pending(tr)' <= Pending(tr)
    <3>1. found.id \in Trades /\ Head(orderUpdates) \in OrderNote
      BY <1>1, <2>6, Heads DEF UseTrade, IInv, Bracketing
    <3>2. [entry |-> trade[found.id].entry, status |-> Head(orderUpdates).status] \in Row
      BY <1>1, <3>1, RowParts DEF Row, OrderNote, EntryStatuses
    <3> QED BY <1>1, <2>1, <2>6, <3>1, <3>2, RowCallsNobody DEF UseTrade, WriteRow
  <2>7. CASE NoteTrade \/ NoteOrder
    <3>1. notes # << >> /\ notes' = Tail(notes)
      BY <2>7 DEF NoteTrade, NoteOrder, ListenerFree
    <3>2. Pending(tr)' + One(Head(notes) \in Calls(tr)) <= Pending(tr)
      BY <1>1, <3>1, NoteTaken
    <3>3. Pending(tr)' \in Nat /\ One(Head(notes) \in Calls(tr)) \in Nat
      BY <1>1, CountsTypesNext DEF One
    <3> QED BY <1>1, <3>2, <3>3
  <2> QED BY <2>1, <2>2, <2>3, <2>4, <2>5, <2>6, <2>7
          DEF LinkTrigger, Started, Listen, UpdateTrade, FindTrade, PlaceBracketOrder, BracketError,
              OrderFilled, vars
<1>6. CASE Ordered(tr)' = Ordered(tr)
  BY <1>1, <1>2, <1>4, <1>5, <1>6, NothingNew
<1>7. ASSUME NEW c \in Callers, CallerStep(c, tr) PROVE Within(tr)'
  BY <1>1, <1>7, WithinCallers
<1> QED BY <1>1, <1>6, <1>7, OrderedStep

LEMMA CausesStep ==
  ASSUME IInv, TypeOK', [Next]_vars
  PROVE  CausesKept'
<1> SUFFICES ASSUME NEW tr \in Existing, Links[tr] # {} PROVE Within(tr)'
  BY DEF CausesKept
<1>1. Within(tr)
  BY DEF IInv, Caused, CausesKept
<1> QED BY <1>1, WithinWrite, WithinCalled, WithinCrash, WithinCallers, WithinOther DEF Next, CallerStep

LEMMA CausedStep ==
  ASSUME IInv, TypeOK', [Next]_vars
  PROVE  Caused'
BY CausesStep, FirstPassStep, AtWorkStep, QuietStep, PostedStep DEF Caused

LEMMA CausedAtStart ==
  ASSUME Init
  PROVE  Caused
<1>1. /\ boots = 1 /\ owner = << >> /\ notes = << >> /\ tradeUpdates = << >> /\ phase = "starting"
      /\ \A c \in Callers : job[c].at = "next" /\ (c # Init0 => job[c].todo = {})
  BY IdleIsJob, TradeAssumption DEF Init
<1>2. AtWork /\ Quiet /\ Posted
  BY <1>1 DEF AtWork, Quiet, Posted, Callers, Init0, Listener, Updater
<1>3. \A tr \in Trades : Ordered(tr) = 0 /\ Pending(tr) = 0
  BY <1>1, CountEmpty DEF Ordered, Pending
<1>4. ASSUME NEW tr \in Existing PROVE Within(tr)
  <2>1. tr \in Trades /\ ~MayPlace(Listener, tr) /\ ~Starting(tr)
    BY <1>1, TradeAssumption DEF MayPlace, Starting, At, Callers, Init0, Listener
  <2>2. Effects(tr) = 0
    BY <1>3, <2>1 DEF Effects, One
  <2>3. fired \in Seq(Triggers)
    BY DEF Init
  <2>4. Fires(tr) \in Nat
    BY <2>3, CountType DEF Fires
  <2> QED BY <1>1, <2>2, <2>4 DEF Within
<1>5. FirstPass
  BY <1>3, TradeAssumption DEF FirstPass
<1> QED BY <1>2, <1>4, <1>5 DEF Caused, CausesKept

-----------------------------------------------------------------------------
(* The write lock. *)

\* While the lock is held no trade is looked up.
LEMMA LockedCallers ==
  ASSUME IInv, writeLock, NEW c \in Callers, NEW tr \in Trades, CallerStep(c, tr)
  PROVE  /\ c # Updater /\ job[c].at # "next"
         /\ job'[Updater] = job[Updater]
         /\ \A d \in Callers : job[d].at = "next" => job'[d].at = "next"
         /\ writeLock' /\ mem' = mem /\ found' = found /\ phase' = phase
<1>1. TypeOK /\ Moves(c, tr) /\ tr \in job[c].todo
  BY CallerMoves DEF IInv
<1>2. job[Updater].at = "next" /\ phase # "starting" /\ job[Init0].todo = {}
  BY DEF IInv, Locked, Caused, Quiet
<1>3. job[c].at # "next"
  <2>1. c # Init0
    BY <1>1, <1>2
  <2>2. ~LookUp(c, tr)
    BY <2>1 DEF LookUp
  <2> QED BY <2>2 DEF CallerStep, Check, Place, Record, PlaceError, At
<1>4. c # Updater /\ Updater \in Callers
  BY <1>2, <1>3 DEF Callers
<1>5. \A d \in Callers \ {c} : job'[d] = job[d]
  BY <1>1, JobAfterGoto, JobAfterDone DEF Moves
<1>6. writeLock' = writeLock
  BY <1>1, <1>4 DEF Moves, Goto, Done
<1>7. writeLock'
  BY <1>6
<1>8. mem' = mem /\ found' = found /\ phase' = phase
  BY DEF CallerStep, LookUp, Check, Place, Record, PlaceError, Otherwise
<1> QED BY <1>3, <1>4, <1>5, <1>7, <1>8

\* The other steps leave the job of the trade updater alone, but for its own.
LEMMA LockedStep ==
  ASSUME IInv, [Next]_vars
  PROVE  Locked'
<1>1. TypeOK /\ Locked
  BY DEF IInv
<1>2. ASSUME writeLock' = writeLock, job'[Updater] = job[Updater], phase' = phase
      PROVE  Locked'
  BY <1>1, <1>2 DEF Locked
<1>3. ASSUME NEW c \in Callers, NEW tr \in Trades, CallerStep(c, tr) PROVE Locked'
  <2>1. CASE writeLock
    <3>1. job'[Updater] = job[Updater] /\ phase' = phase
      BY <1>3, <2>1, LockedCallers
    <3> QED BY <1>1, <2>1, <3>1 DEF Locked
  <2>2. CASE ~writeLock
    <3>1. Moves(c, tr)
      BY <1>3, CallerMoves
    <3>2. writeLock' = writeLock \/ writeLock' = FALSE
      BY <3>1 DEF Moves, Goto, Done
    <3>3. ~writeLock'
      BY <2>2, <3>2
    <3> QED BY <3>3 DEF Locked
  <2> QED BY <2>1, <2>2
<1>4. CASE NoteTrigger
  <2>1. writeLock' = writeLock /\ phase' = phase
    BY <1>4 DEF NoteTrigger, NoteTriggerFor
  <2>2. job'[Updater] = job[Updater]
    BY <1>1, <1>4 DEF NoteTrigger, NoteTriggerFor, TypeOK, Callers, Listener, Updater
  <2> QED BY <1>2, <2>1, <2>2
<1>5. CASE UpdateTrade
  <2> DEFINE u == Head(tradeUpdates)
  <2>1. phase' = phase /\ phase # "starting" /\ writeLock' = (u.op = "INSERT")
    BY <1>5 DEF UpdateTrade
  <2>2. CASE u.op = "INSERT"
    <3>1. job' = [job EXCEPT ![Updater] = Batch({u.id})]
      BY <1>5, <2>2 DEF UpdateTrade
    <3>2. {u.id} \in SUBSET Trades /\ Updater \in Callers
      BY <1>1, <1>5, Heads DEF UpdateTrade, TradeNote, Callers
    <3>3. job'[Updater].at = "next"
      BY <1>1, <3>1, <3>2, IdleIsJob DEF TypeOK
    <3> QED BY <2>1, <3>3 DEF Locked
  <2>3. CASE u.op # "INSERT"
    <3>1. ~writeLock'
      BY <2>1, <2>3
    <3> QED BY <3>1 DEF Locked
  <2> QED BY <2>2, <2>3
<1>6. CASE Crash
  <2>1. ~writeLock'
    BY <1>6 DEF Crash, Load
  <2> QED BY <2>1 DEF Locked
<1>7. CASE Started \/ Listen
  <2>1. phase' # "starting" /\ job' = job /\ writeLock' = writeLock
    BY <1>7 DEF Started, Listen, jobVars
  <2> QED BY <1>1, <2>1 DEF Locked
<1>8. CASE \/ \E t \in Triggers, st \in {"active", "triggered"} : WriteTrigger(t, st)
           \/ \E tr \in Trades : PostTrade(tr) \/ DeleteGroup(tr) \/ \E t \in Triggers : LinkTrigger(tr, t)
           \/ \E n \in 1 .. MaxOrders, st \in NoticeStatuses : RewriteOrder(n, st)
           \/ \E kept \in 0 .. Len(notes) : LoseNotes(kept)
           \/ NoteTrade \/ NoteOrder
           \/ FindTrade \/ PlaceBracketOrder \/ (\E failed \in BOOLEAN : UseTrade(failed))
           \/ (\E accepted \in BOOLEAN : BracketError(accepted))
           \/ (\E n \in 1 .. MaxOrders : OrderFilled(n)) \/ UNCHANGED vars
  <2>1. UNCHANGED <<writeLock, job, phase>>
    BY <1>8 DEF WriteTrigger, PostTrade, DeleteGroup, LinkTrigger, RewriteOrder, LoseNotes,
       NoteTrade, NoteOrder, FindTrade, UseTrade, PlaceBracketOrder, BracketError, OrderFilled,
       vars, procVars, jobVars
  <2> QED BY <1>2, <2>1
<1> QED BY <1>3, <1>4, <1>5, <1>6, <1>7, <1>8 DEF Next, CallerStep

-----------------------------------------------------------------------------
LEMMA InitHolds == Init => IInv
<1> SUFFICES ASSUME Init PROVE IInv
  OBVIOUS
<1>1. TypeOK
  <2>1. /\ owner = << >> /\ notes = << >> /\ tradeUpdates = << >> /\ orderUpdates = << >>
        /\ found = Nothing /\ watchers = {}
    BY DEF Init
  <2>2. /\ owner \in Seq(Order) /\ Len(owner) <= MaxOrders /\ notes \in Seq(Notes)
        /\ tradeUpdates \in Seq(TradeNote) /\ Len(tradeUpdates) <= ChannelCap
        /\ orderUpdates \in Seq(OrderNote) /\ Len(orderUpdates) <= ChannelCap
    BY <2>1, TradeAssumption
  <2>3. /\ trade \in [Trades -> Row \cup {NoTrade, DeletedTrade}]
        /\ mem \in [Trades -> Row \cup {NoTrade}]
    BY NewRowIsRow DEF Init
  <2>4. job \in [Callers -> Jobs] /\ current \in [Callers -> Trades \cup {None}]
    BY IdleIsJob, TradeAssumption DEF Init
  <2>5. /\ links \in [Trades -> SUBSET Triggers] /\ posting \in [Trades -> SUBSET Triggers]
        /\ trigger \in [Triggers -> {"active", "triggered"}]
    BY TradeAssumption DEF Init
  <2>6. found \in Found /\ watchers \subseteq 1 .. MaxOrders
    BY <2>1, NothingIsFound
  <2>7. fired \in Seq(Triggers)
    BY DEF Init
  <2>8. writeLock \in BOOLEAN /\ phase \in {"starting", "started", "running"}
    BY DEF Init
  <2>9. boots = 1
    BY DEF Init
  <2>10. boots \in Nat \ {0}
    BY <2>9
  <2> QED BY <2>2, <2>3, <2>4, <2>5, <2>6, <2>7, <2>8, <2>10 DEF TypeOK
<1>2. /\ \A tr \in Trades : trade[tr].entry = NoOrder /\ mem[tr].entry = NoOrder
      /\ \A c \in Callers : job[c].at = "next"
      /\ owner = << >> /\ notes = << >> /\ tradeUpdates = << >>
      /\ found = Nothing /\ watchers = {}
  BY IdleIsJob DEF Init, NewRow, NoTrade, Batch, NoOrder
<1>3. EntriesKept
  BY <1>2 DEF EntriesKept, TradeNamed, MemNamed, NotesNamed, UpdatesNamed, FoundNamed, JobsNamed,
     Named
<1>4. Bracketing /\ Chains /\ Watched
  BY <1>2, NothingIsFound DEF Bracketing, Chains, Watched
<1>5. LinksFixed
  BY NewRowIsRow, RowsAreThere, TradeAssumption DEF Init, LinksFixed
<1>6. Guarded
  <2>1. TriggersFired
    BY DEF Init, TriggersFired
  <2> QED BY <1>2, <1>5, <2>1 DEF Guarded, CheckedSeen, EntriesSeen
<1>7. Locked
  BY DEF Init, Locked
<1> QED BY <1>1, <1>3, <1>4, <1>6, <1>7, CausedAtStart DEF IInv

LEMMA StepHolds == IInv /\ [Next]_vars => IInv'
<1> SUFFICES ASSUME IInv, [Next]_vars PROVE IInv'
  OBVIOUS
<1>1. TypeOK /\ EntriesKept /\ Bracketing /\ Watched
  BY DEF IInv
<1>2. TypeOK' /\ EntriesKept'
  <2>1. CASE UNCHANGED vars
    <3>1. TypeOK'
      BY <1>1, <2>1 DEF TypeOK, vars, dbVars, procVars, jobVars, chanVars, countVars
    <3> QED BY <1>1, <2>1, <3>1, UntouchedNamed
            DEF EntriesKept, OwnerKept, vars, dbVars, procVars, jobVars, chanVars
  <2>2. CASE Next
    BY <1>1, <2>2, TypesOutside, TypesCallers, TypesChannels,
       KeptOutside, KeptCallers, KeptChannels DEF Next
  <2> QED BY <2>1, <2>2
<1>3. Bracketing' /\ Chains' /\ Watched'
  BY <1>1, BracketingStep, ChainsStep, WatchedStep
<1>4. LinksFixed' /\ TriggersFired' /\ CheckedSeen' /\ EntriesSeen'
  BY LinksFixedStep, TriggersFiredStep, CheckedSeenStep, EntriesSeenStep
<1>5. Guarded'
  BY <1>4 DEF Guarded
<1>6. Caused'
  BY <1>2, CausedStep
<1> QED BY <1>2, <1>3, <1>5, <1>6, LockedStep DEF IInv

LEMMA Invariance == Spec => []IInv
BY InitHolds, StepHolds, PTL DEF Spec

\* The types of the trade manager's state and the limits of its channels.
THEOREM TypeCorrectness == Spec => []TypeOK
<1>1. IInv => TypeOK
  BY DEF IInv
<1> QED BY <1>1, Invariance, PTL

\* The order a row names is an entry order of that trade.
THEOREM RecordedOrders == Spec => []RecordedOrdersExist
<1>1. IInv => RecordedOrdersExist
  BY DEF IInv, EntriesKept, TradeNamed, Named, IsEntry, RecordedOrdersExist, EntryOrders
<1> QED BY <1>1, Invariance, PTL

\* No entry for a loaded trade before each of its triggers has fired.
THEOREM EntriesWait == Spec => []EntryNeedsTriggers
<1>1. IInv => EntryNeedsTriggers
  BY TradeAssumption DEF IInv, Guarded, EntriesSeen, Seen, EntryNeedsTriggers, EntryOrders, Entry, NoOrder
<1> QED BY <1>1, Invariance, PTL

\* Each entry order of a loaded trade has a cause of its own.
THEOREM OrdersCaused == Spec => []OrdersHaveCauses
<1>1. IInv => OrdersHaveCauses
  <2> SUFFICES ASSUME IInv, NEW tr \in Existing, Links[tr] # {}
               PROVE  Cardinality(EntryOrders(tr)) <= (boots - 1) + Cardinality(Firings(tr))
    BY DEF OrdersHaveCauses
  <2>1. TypeOK /\ Within(tr) /\ tr \in Trades
    BY TradeAssumption DEF IInv, Caused, CausesKept
  <2>2. EntryOrders(tr) = Where(owner, {Entry(tr)}) /\ Firings(tr) = Where(fired, Links[tr])
    BY DEF EntryOrders, Firings, Where
  <2>3. Ordered(tr) \in Nat /\ Pending(tr) \in Nat /\ Fires(tr) \in Nat /\ boots \in Nat
    BY <2>1, CountsTypes
  <2>4. One(MayPlace(Listener, tr)) \in Nat /\ One(Starting(tr)) \in Nat
    BY DEF One
  <2>5. Ordered(tr) <= (boots - 1) + Fires(tr)
    BY <2>1, <2>3, <2>4 DEF Within, Effects
  <2> QED BY <2>2, <2>5 DEF Ordered, Fires, Count
<1> QED BY <1>1, Invariance, PTL

\* Once an INSERT has been taken from the channel nothing that needs the lock
\* goes on before the next start.
THEOREM BlockedByInsert == Spec => InsertsBlock
<1> DEFINE Stays == /\ writeLock' /\ mem' = mem
                    /\ job'[Updater] = job[Updater]
                    /\ \A c \in Callers : job[c].at = "next" => job'[c].at = "next"
                    /\ found = Nothing => found' = Nothing
<1>1. ASSUME IInv, [Next]_vars, writeLock, boots' = boots PROVE Stays
  <2>1. ASSUME writeLock' = writeLock, mem' = mem, job' = job, found = Nothing => found' = Nothing
        PROVE  Stays
    <3>1. writeLock'
      BY <1>1, <2>1
    <3> QED BY <2>1, <3>1
  <2>2. ASSUME NEW c \in Callers, NEW tr \in Trades, CallerStep(c, tr) PROVE Stays
    BY <1>1, <2>2, LockedCallers
  <2>3. CASE NoteTrigger
    <3>1. writeLock' = writeLock /\ mem' = mem /\ found' = found
      BY <2>3 DEF NoteTrigger, NoteTriggerFor
    <3>2. writeLock'
      BY <1>1, <3>1
    <3>3. TradesOf(Head(notes).id) \in SUBSET Trades
      BY DEF TradesOf
    <3>4. job' = job \/ job' = [job EXCEPT ![Listener] = Batch(TradesOf(Head(notes).id))]
      BY <2>3 DEF NoteTrigger, NoteTriggerFor
    <3>5. job \in [Callers -> Jobs]
      BY <1>1 DEF IInv, TypeOK
    <3>6. job'[Updater] = job[Updater]
      BY <3>4, <3>5 DEF Listener, Updater, Callers
    <3>7. ASSUME NEW c \in Callers, job[c].at = "next" PROVE job'[c].at = "next"
      <4> DEFINE due == TradesOf(Head(notes).id)
      <4>1. Batch(due).at = "next"
        BY <3>3, IdleIsJob
      <4> QED BY <3>4, <3>5, <3>7, <4>1
    <3> QED BY <3>1, <3>2, <3>6, <3>7
  <2>4. ~UpdateTrade /\ ~FindTrade
    BY <1>1 DEF UpdateTrade, FindTrade
  <2>5. ~Crash
    <3>1. boots \in Nat
      BY <1>1 DEF IInv, TypeOK
    <3>2. boots' # boots + 1
      BY <1>1, <3>1
    <3> QED BY <3>2 DEF Crash, Load
  <2>6. CASE \/ \E t \in Triggers, st \in {"active", "triggered"} : WriteTrigger(t, st)
             \/ \E tr \in Trades : PostTrade(tr) \/ DeleteGroup(tr) \/ \E t \in Triggers : LinkTrigger(tr, t)
             \/ \E n \in 1 .. MaxOrders, st \in NoticeStatuses : RewriteOrder(n, st)
             \/ \E kept \in 0 .. Len(notes) : LoseNotes(kept)
             \/ Started \/ Listen \/ NoteTrade \/ NoteOrder
             \/ PlaceBracketOrder \/ (\E failed \in BOOLEAN : UseTrade(failed))
             \/ (\E accepted \in BOOLEAN : BracketError(accepted))
             \/ (\E n \in 1 .. MaxOrders : OrderFilled(n)) \/ UNCHANGED vars
    <3>1. writeLock' = writeLock /\ mem' = mem /\ job' = job
      BY <2>6 DEF WriteTrigger, PostTrade, DeleteGroup, LinkTrigger, RewriteOrder, LoseNotes,
         Started, Listen, NoteTrade, NoteOrder, UseTrade, PlaceBracketOrder, BracketError,
         OrderFilled, vars, procVars, jobVars
    <3>2. found = Nothing => found' = Nothing
      BY <2>6 DEF WriteTrigger, PostTrade, DeleteGroup, LinkTrigger, RewriteOrder, LoseNotes,
         Started, Listen, NoteTrade, NoteOrder, UseTrade, PlaceBracketOrder, BracketError,
         OrderFilled, vars, procVars
    <3> QED BY <2>1, <3>1, <3>2
  <2> QED BY <1>1, <2>2, <2>3, <2>4, <2>5, <2>6 DEF Next, CallerStep
<1>2. IInv /\ [Next]_vars => [writeLock /\ boots' = boots => Stays]_vars
  BY <1>1
<1> QED BY <1>2, Invariance, PTL DEF Spec, InsertsBlock

\* Orders that follow a filled one are placed for the trade of that one, and
\* no chain of orders is longer than an entry and two orders after it.
THEOREM BracketsOfEntry == Spec => []BracketsFollowEntry
<1>1. IInv => BracketsFollowEntry
  <2> SUFFICES ASSUME IInv, NEW n \in 1 .. Len(owner), owner[n].after # NoOrder
               PROVE  /\ owner[n].after < n /\ owner[owner[n].after].trade = owner[n].trade
                      /\ owner[owner[n].after].after # NoOrder =>
                           owner[owner[owner[n].after].after].after = NoOrder
    BY DEF BracketsFollowEntry
  <2>1. owner[n].after < n /\ owner[owner[n].after].trade = owner[n].trade
    BY DEF IInv, Chains
  <2>2. ASSUME owner[owner[n].after].after # NoOrder PROVE Second(owner[n].after)
    <3>1. PICK m, tr : m = owner[n].after /\ tr = owner[n].trade
      OBVIOUS
    <3>2. IsEntry(m, tr) \/ Second(m)
      BY <3>1 DEF IInv, Chains
    <3>3. IsEntry(m, tr) => owner[m].after = NoOrder
      BY DEF IsEntry, Entry
    <3> QED BY <2>2, <3>1, <3>2, <3>3
  <2> QED BY <2>1, <2>2 DEF Second, IsEntry, Entry, NoOrder
<1> QED BY <1>1, Invariance, PTL

-----------------------------------------------------------------------------
(* The ledger. *)

Recorded == [tr \in Trades |-> trade[tr].entry]
SeenTriggers == {t \in Triggers : Fired(t)}

LEMMA LedgerEnters ==
  ASSUME IInv, NEW c \in Callers, NEW tr \in Trades,
         Place(c, tr) \/ \E accepted \in BOOLEAN : PlaceError(c, tr, accepted)
  PROVE  [Ledger!Next]_(Ledger!vars)
<1>1. trade' = trade /\ fired' = fired
  BY DEF Place, PlaceError, Otherwise, dbVars, countVars
<1>2. owner' = owner \/ owner' = Append(owner, Entry(tr))
  BY DEF Place, PlaceError
<1>3. tr \in Existing => Links[tr] \subseteq SeenTriggers
  BY TradeAssumption DEF Place, PlaceError, At, IInv, Guarded, CheckedSeen, Seen, SeenTriggers, Fired
<1>4. CASE owner' = owner
  BY <1>1, <1>4 DEF Ledger!vars, Fired
<1>5. CASE owner' = Append(owner, Entry(tr))
  <2>1. Ledger!Enter(tr)
    BY <1>1, <1>3, <1>5 DEF Ledger!Enter, SeenTriggers, Fired, Entry, NoOrder
  <2> QED BY <2>1 DEF Ledger!Next
<1> QED BY <1>2, <1>4, <1>5

LEMMA LedgerFollows ==
  ASSUME IInv,
         \/ PlaceBracketOrder \/ \E accepted \in BOOLEAN : BracketError(accepted)
         \/ \E n \in 1 .. MaxOrders : OrderFilled(n)
  PROVE  [Ledger!Next]_(Ledger!vars)
<1>1. trade' = trade /\ fired' = fired
  BY DEF PlaceBracketOrder, BracketError, OrderFilled, dbVars, countVars
<1>2. CASE owner' = owner
  BY <1>1, <1>2 DEF Ledger!vars, Fired
<1>3. ASSUME NEW n \in 1 .. Len(owner), Second(n) \/ IsEntry(n, owner[n].trade),
             owner' = Append(owner, [trade |-> owner[n].trade, after |-> n])
      PROVE  Ledger!Next
  <2>1. owner[n].after = 0 \/ Ledger!IsEntry(owner[n].after, owner[n].trade)
    BY <1>3 DEF Second, IsEntry, Entry, NoOrder, Ledger!IsEntry
  <2>2. Ledger!Follow(n)
    BY <1>1, <1>3, <2>1 DEF Ledger!Follow, Fired
  <2> QED BY <2>2 DEF Ledger!Next
<1>4. CASE PlaceBracketOrder \/ \E accepted \in BOOLEAN : BracketError(accepted)
  <2> DEFINE n == Head(orderUpdates).order
  <2>1. found.at = "bracket"
    BY <1>4 DEF PlaceBracketOrder, BracketError
  <2>2. n \in 1 .. Len(owner) /\ owner[n].trade = found.id /\ IsEntry(n, owner[n].trade)
    BY <2>1 DEF IInv, Bracketing, IsEntry, Entry
  <2>3. owner' = owner \/ owner' = Append(owner, [trade |-> owner[n].trade, after |-> n])
    BY <1>4, <2>2 DEF PlaceBracketOrder, BracketError
  <2> QED BY <1>2, <1>3, <2>2, <2>3
<1>5. ASSUME NEW n \in 1 .. MaxOrders, OrderFilled(n) PROVE [Ledger!Next]_(Ledger!vars)
  <2>1. Second(n) /\ n \in 1 .. Len(owner)
    BY <1>5 DEF OrderFilled, IInv, Watched, Second
  <2>2. owner' = owner \/ owner' = Append(owner, [trade |-> owner[n].trade, after |-> n])
    BY <1>5 DEF OrderFilled, Follow
  <2> QED BY <1>2, <1>3, <2>1, <2>2
<1> QED BY <1>4, <1>5

LEMMA LedgerRows ==
  ASSUME IInv,
         \/ \E tr \in Trades : PostTrade(tr) \/ DeleteGroup(tr)
         \/ \E c \in Callers, tr \in Trades : Record(c, tr)
         \/ \E failed \in BOOLEAN : UseTrade(failed)
  PROVE  [Ledger!Next]_(Ledger!vars)
<1>1. TypeOK /\ trade \in [Trades -> Row \cup {NoTrade, DeletedTrade}]
  BY DEF IInv, TypeOK
<1>2. owner' = owner /\ fired' = fired
  BY DEF PostTrade, DeleteGroup, Record, UseTrade, Otherwise, countVars
<1>3. ASSUME Recorded' = Recorded PROVE UNCHANGED Ledger!vars
  BY <1>2, <1>3 DEF Recorded, Ledger!vars, Fired
<1>4. ASSUME NEW tr \in Trades, NEW r, trade' = [trade EXCEPT ![tr] = r]
      PROVE  Recorded' = [Recorded EXCEPT ![tr] = r.entry]
  BY <1>1, <1>4 DEF Recorded
<1>5. ASSUME NEW tr \in Trades, PostTrade(tr) PROVE Recorded' = Recorded
  <2>1. trade' = [trade EXCEPT ![tr] = NewRow] /\ trade[tr].entry = 0
    BY <1>5 DEF PostTrade, NoTrade, NoOrder
  <2>2. NewRow.entry = 0
    BY DEF NewRow, NoOrder
  <2>3. Recorded' = [Recorded EXCEPT ![tr] = NewRow.entry]
    BY <1>4, <2>1
  <2>4. Recorded[tr] = 0
    BY <2>1 DEF Recorded
  <2> QED BY <2>2, <2>3, <2>4 DEF Recorded
<1>6. ASSUME NEW tr \in Trades, DeleteGroup(tr) PROVE Ledger!Next
  <2>1. Recorded' = [Recorded EXCEPT ![tr] = 0]
    <3>1. trade' = [trade EXCEPT ![tr] = DeletedTrade]
      BY <1>6 DEF DeleteGroup
    <3>2. DeletedTrade.entry = 0
      BY DEF DeletedTrade, NoOrder
    <3>3. Recorded' = [Recorded EXCEPT ![tr] = DeletedTrade.entry]
      BY <1>4, <3>1
    <3> QED BY <3>2, <3>3
  <2>2. Ledger!Forget(tr)
    BY <1>2, <2>1 DEF Ledger!Forget, Recorded, Fired
  <2> QED BY <2>2 DEF Ledger!Next
<1>7. ASSUME NEW c \in Callers, NEW tr \in Trades, Record(c, tr)
      PROVE  [Ledger!Next]_(Ledger!vars)
  <2>0. PICK n : n = job[c].order
    OBVIOUS
  <2>1. CASE trade' = trade
    BY <1>3, <2>1 DEF Recorded
  <2>2. ASSUME WriteRow(tr, [entry |-> n, status |-> "PENDING"]) PROVE Ledger!Next
    <3> DEFINE r == [entry |-> n, status |-> "PENDING"]
    <3>1. Recorded' = [Recorded EXCEPT ![tr] = n]
      <4>1. trade' = [trade EXCEPT ![tr] = r] /\ r.entry = n
        BY <2>2 DEF WriteRow
      <4> HIDE DEF r
      <4>2. Recorded' = [Recorded EXCEPT ![tr] = r.entry]
        BY <1>4, <4>1
      <4> QED BY <4>1, <4>2
    <3>2. IsEntry(n, tr)
      BY <1>7, <2>0 DEF Record, At, IInv, EntriesKept, JobsNamed
    <3>3. n \in 1 .. Len(owner) /\ Ledger!IsEntry(n, tr)
      BY <3>2 DEF IsEntry, Entry, NoOrder, Ledger!IsEntry
    <3>4. Ledger!Record(tr, n)
      BY <1>2, <3>1, <3>3 DEF Ledger!Record, Recorded, Fired
    <3> QED BY <3>3, <3>4 DEF Ledger!Next
  <2> QED BY <1>7, <2>0, <2>1, <2>2 DEF Record
<1>8. ASSUME NEW failed \in BOOLEAN, UseTrade(failed) PROVE Recorded' = Recorded
  <2>1. found.id \in Trades
    BY <1>8 DEF UseTrade, IInv, Bracketing
  <2>2. CASE trade' = trade
    BY <2>2 DEF Recorded
  <2>3. CASE WriteRow(found.id, [entry |-> trade[found.id].entry,
                                 status |-> Head(orderUpdates).status])
    BY <1>1, <2>1, <2>3 DEF WriteRow, Recorded
  <2> QED BY <1>8, <2>2, <2>3 DEF UseTrade
<1> QED BY <1>3, <1>5, <1>6, <1>7, <1>8

LEMMA LedgerStep == IInv /\ [Next]_vars => [Ledger!Next]_(Ledger!vars)
<1> SUFFICES ASSUME IInv, [Next]_vars PROVE [Ledger!Next]_(Ledger!vars)
  OBVIOUS
<1>1. ASSUME NEW t \in Triggers, NEW st \in {"active", "triggered"}, WriteTrigger(t, st)
      PROVE  [Ledger!Next]_(Ledger!vars)
  <2>1. TypeOK /\ trade' = trade /\ owner' = owner
    BY <1>1 DEF IInv, WriteTrigger
  <2>2. CASE st # "triggered"
    <3>1. fired' = fired
      BY <1>1, <2>1, <2>2, FiredWrite
    <3>2. SeenTriggers' = SeenTriggers
      BY <3>1 DEF SeenTriggers, Fired
    <3> QED BY <2>1, <3>2 DEF Ledger!vars, SeenTriggers
  <2>3. CASE st = "triggered"
    <3>1. \A u \in Triggers : Fired(u)' <=> u = t \/ Fired(u)
      BY <1>1, <2>1, <2>3, FiredWrite
    <3>2. SeenTriggers' = SeenTriggers \cup {t}
      BY <3>1 DEF SeenTriggers
    <3>3. Ledger!See(t)
      BY <2>1, <3>2 DEF Ledger!See, SeenTriggers
    <3> QED BY <3>3 DEF Ledger!Next
  <2> QED BY <2>2, <2>3
<1>2. CASE UNCHANGED <<trade, owner, fired>>
  BY <1>2 DEF Ledger!vars, Fired
<1>3. CASE \/ \E n \in 1 .. MaxOrders, st \in NoticeStatuses : RewriteOrder(n, st)
           \/ \E kept \in 0 .. Len(notes) : LoseNotes(kept)
           \/ \E tr \in Trades, t \in Triggers : LinkTrigger(tr, t)
           \/ \E c \in Callers, tr \in Trades : LookUp(c, tr) \/ Check(c, tr)
           \/ Crash \/ Started \/ Listen \/ NoteTrade \/ NoteOrder \/ NoteTrigger \/ UpdateTrade
           \/ FindTrade \/ UNCHANGED vars
  BY <1>2, <1>3 DEF RewriteOrder, LoseNotes, LinkTrigger, LookUp, Check, Otherwise, Crash,
     Started, Listen, NoteTrade, NoteOrder, NoteTrigger, NoteTriggerFor, UpdateTrade,
     FindTrade, dbVars, countVars, vars
<1> QED BY <1>1, <1>3, LedgerEnters, LedgerFollows, LedgerRows DEF Next

\* Every behaviour of the trade manager is a behaviour of the ledger.
THEOREM LedgerIsImplemented == Spec => ImplementsLedger
<1>1. Init => Ledger!Init
  <2> SUFFICES ASSUME Init PROVE Ledger!Init
    OBVIOUS
  <2>1. owner = << >>
    BY DEF Init
  <2>2. Recorded = [tr \in Trades |-> 0]
    <3>1. \A tr \in Trades : trade[tr] = NewRow \/ trade[tr] = NoTrade
      BY DEF Init
    <3>2. NewRow.entry = 0 /\ NoTrade.entry = 0
      BY DEF NewRow, NoTrade, NoOrder
    <3>3. \A tr \in Trades : trade[tr].entry = 0
      BY <3>1, <3>2
    <3> QED BY <3>3 DEF Recorded
  <2>3. SeenTriggers = {}
    BY DEF Init, SeenTriggers, Fired
  <2> QED BY <2>1, <2>2, <2>3 DEF Ledger!Init, Recorded, SeenTriggers
<1> QED BY <1>1, LedgerStep, Invariance, PTL DEF Spec, ImplementsLedger, Ledger!Spec
=============================================================================

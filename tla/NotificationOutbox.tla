------------------------- MODULE NotificationOutbox -------------------------
(***************************************************************************)
(* Notifications: an event goes over the bus, or straight, into the durable*)
(* outbox, one row per channel; the dispatcher hands the oldest row of each*)
(* channel to the workers, and a worker settles the row it sent: removed,  *)
(* given up or rescheduled.  Writes of the outbox fail, channels change,   *)
(* time passes and the process dies in between.  A round of attempts is one    *)
(* send.                                                                   *)
(***************************************************************************)
EXTENDS Integers, Sequences, FiniteSets, Functions

CONSTANTS
    Channels,    \* the channels, numbers: the order in which rules name them
    Workers,     \* the workers of the pool
    MaxEvents,   \* bound on the events: 1..MaxEvents
    Routes,      \* the channels that the rules name for each event
    Alerts,      \* those of them that DeliverNow queues before they are published
    BusSize,     \* capacity of the bus
    QueueSize,   \* capacity of the queue of the workers
    Limit,       \* outboxLimit
    Rounds,      \* outboxAttempts
    MaxFaults    \* bound on failed writes, crashes, long waits and changed channels

ASSUME OutboxAssumption ==
    /\ Channels \subseteq Nat /\ IsFiniteSet(Channels) /\ IsFiniteSet(Workers)
    /\ {BusSize, QueueSize, Limit, Rounds} \subseteq Nat \ {0}
    /\ MaxEvents \in Nat /\ MaxFaults \in Nat /\ Alerts \subseteq 1..MaxEvents
    /\ Routes \in [1..MaxEvents -> SUBSET Channels]

VARIABLES
    chan,     \* the state of each channel
    emitted,  \* how far each event got: "new", "stored" by DeliverNow, "published"
    bus,      \* the queue of the bus
    direct,   \* the events DeliverNow queued, whose copy the bus still carries
    log,      \* every row ever stored, by ID: its channel and its event
    rows,     \* the rows of notification_outbox
    queue,    \* the deliveries handed to the workers
    worker,   \* what each worker does
    flight,   \* the channels with an outbox delivery in the queue or being sent
    settled,  \* the channels whose counter moved since the dispatcher read the counters
    held,     \* the rows whose last write failed
    disp,     \* the dispatcher
    got,      \* what each channel accepted: the row and the run of the process
    lost,     \* the rows that were dropped, expired, discarded or given up, each reported
    run,      \* how many times the process has started
    faults

memory == <<bus, direct, queue, worker, flight, settled, held, disp>>
vars == <<chan, emitted, log, rows, got, lost, run, faults, memory>>

Faults == faults < MaxFaults /\ faults' = faults + 1

NoDelivery == [id |-> 0, ch |-> 0, tries |-> 0]
Resting == [pc |-> "idle", d |-> NoDelivery]
Asleep == [pc |-> "wait", heads |-> <<>>]

-----------------------------------------------------------------------------
(* Events. *)

RowOf(r) == [id |-> r.id, ch |-> r.ch, tries |-> 0, due |-> TRUE, old |-> FALSE]

\* The channels in C, in order.
Ascending(C) == {s \in [1..Cardinality(C) -> C] : \A i, j \in DOMAIN s : i < j => s[i] < s[j]}

\* EnqueueDeliveries: the rows of event e for the channels in C, then the oldest rows
\* beyond the limit are dropped.
Enqueue(e, C) ==
    \E cs \in Ascending(C) :
    LET new == {RowOf([id |-> Len(log) + i, ch |-> cs[i]]) : i \in DOMAIN cs}
        all == rows \cup new
        over == Cardinality(all) - Limit
        dropped == {r \in all : Cardinality({q \in all : q.id < r.id}) < over}
    IN  /\ log' = log \o [i \in DOMAIN cs |-> [ch |-> cs[i], ev |-> e]]
        /\ rows' = all \ dropped
        /\ lost' = lost \cup {r.id : r \in dropped}

\* What does not fit in the queue is dropped.
Room(n) == IF n <= QueueSize - Len(queue) THEN n ELSE QueueSize - Len(queue)
EnqueueInMemory(C) ==
    \E cs \in Ascending(C) :
    queue' = queue \o [i \in 1..Room(Len(cs)) |-> [NoDelivery EXCEPT !.ch = cs[i]]]

\* The event is stored for every channel that is enabled and can be read; without the
\* store it is delivered from memory.
handle(e) ==
    LET C == {c \in Routes[e] : chan[c] = "enabled"} IN
    \/ Enqueue(e, C) /\ UNCHANGED <<queue, faults>>
    \/ Faults /\ EnqueueInMemory(C) /\ UNCHANGED <<log, rows, lost>>

Publish(e) == bus' = IF Len(bus) < BusSize THEN Append(bus, e) ELSE bus

Emit(e) ==
    /\ emitted[e] = "new" /\ e \notin Alerts
    /\ emitted' = [emitted EXCEPT ![e] = "published"]
    /\ Publish(e)
    /\ UNCHANGED <<chan, direct, log, rows, queue, worker, flight, settled, held, disp, got, lost, run, faults>>

DeliverNow(e) ==
    /\ emitted[e] = "new" /\ e \in Alerts
    /\ emitted' = [emitted EXCEPT ![e] = "stored"]
    /\ direct' = direct \cup {e}
    /\ handle(e)
    /\ UNCHANGED <<chan, bus, worker, flight, settled, held, disp, got, run>>

PublishAlert(e) ==
    /\ emitted[e] = "stored"
    /\ emitted' = [emitted EXCEPT ![e] = "published"]
    /\ Publish(e)
    /\ UNCHANGED <<chan, direct, log, rows, queue, worker, flight, settled, held, disp, got, lost, run, faults>>

\* The copy of an event that DeliverNow queued is skipped.
HandleEvent ==
    /\ bus # <<>>
    /\ bus' = Tail(bus)
    /\ \/ /\ Head(bus) \in direct
          /\ direct' = direct \ {Head(bus)}
          /\ UNCHANGED <<log, rows, queue, lost, faults>>
       \/ Head(bus) \notin direct /\ handle(Head(bus)) /\ UNCHANGED direct
    /\ UNCHANGED <<chan, emitted, worker, flight, settled, held, disp, got, run>>

-----------------------------------------------------------------------------
(* Writes of the outbox. *)

Held(id) == {h \in held : h.id = id}
Release(id) == held \ Held(id)

\* A row that could not be deleted is kept in memory as one to remove, never to send.
remove(id) ==
    \/ /\ rows' = {r \in rows : r.id # id}
       /\ held' = Release(id)
       /\ UNCHANGED faults
    \/ /\ Faults
       /\ held' = Release(id) \cup {[id |-> id, removeOnly |-> TRUE, tries |-> 0, due |-> FALSE]}
       /\ UNCHANGED rows

\* A round that could not be recorded is kept in memory.
reschedule(id, tries) ==
    \/ /\ rows' = {IF r.id = id THEN [r EXCEPT !.tries = tries, !.due = FALSE] ELSE r : r \in rows}
       /\ held' = Release(id)
       /\ UNCHANGED faults
    \/ /\ Faults
       /\ held' = Release(id) \cup {[id |-> id, removeOnly |-> FALSE, tries |-> tries, due |-> FALSE]}
       /\ UNCHANGED rows

Report(id) == lost' = lost \cup {id}

-----------------------------------------------------------------------------
(* The dispatcher.  It compares the counters of the channels with those it read first: *)
(* all that matters is which of them moved.                                          *)

\* The counters are read before the outbox.
TakeSnapshot ==
    /\ disp.pc = "wait" /\ rows # {}
    /\ disp' = [disp EXCEPT !.pc = "read"]
    /\ settled' = {}
    /\ UNCHANGED <<chan, emitted, bus, direct, log, rows, queue, worker, flight, held, got, lost, run, faults>>

\* Mutant: the oldest row that is due, past those that wait for their next round.
HeadsDue == {r \in rows : r.due /\ \A q \in rows : q.ch = r.ch /\ q.due => r.id <= q.id}
Heads == {r \in rows : \A q \in rows : q.ch = r.ch => r.id <= q.id}
\* Some rows, the oldest first.
ByID(S) == {s \in [1..Cardinality(S) -> S] : \A i, j \in DOMAIN s : i < j => s[i].id < s[j].id}
OutboxHeads ==
    /\ disp.pc = "read"
    /\ \E s \in ByID(Heads) :
         disp' = IF Heads = {} THEN Asleep ELSE [disp EXCEPT !.pc = "heads", !.heads = s]
    /\ UNCHANGED <<chan, emitted, bus, direct, log, rows, queue, worker, flight, settled, held, got, lost, run, faults>>

\* Mutant: a channel that settled since the outbox was read counts as idle.
idleNow(c) == c \notin flight
idle(c) == c \notin flight /\ c \notin settled

\* The first head that is left: as it was read, with what is held in its place.
h == Head(disp.heads)
Waits == \E x \in Held(h.id) : ~x.due
\* Mutant: whatever is held is only removed.
RemoveAllHeld == Held(h.id) # {}
RemoveOnly == \E x \in Held(h.id) : x.removeOnly
Tries == IF Held(h.id) = {} THEN h.tries ELSE (CHOOSE x \in Held(h.id) : TRUE).tries
NotDue == IF Held(h.id) = {} THEN ~h.due ELSE FALSE
DoneWithHead ==
    disp' = IF Len(disp.heads) = 1 THEN Asleep ELSE [disp EXCEPT !.pc = "heads", !.heads = Tail(@)]

SkipHead ==
    /\ disp.pc = "heads" /\ (~idle(h.ch) \/ Waits \/ (~RemoveOnly /\ ~h.old /\ NotDue))
    /\ DoneWithHead
    /\ UNCHANGED <<chan, emitted, bus, direct, log, rows, queue, worker, flight, settled, held, got, lost, run, faults>>

\* A row that was delivered or given up is only removed; an expired one, and one whose
\* channel is gone, is reported as well.
RemoveHead ==
    /\ disp.pc = "heads" /\ idle(h.ch) /\ ~Waits
    /\ \/ RemoveOnly /\ UNCHANGED lost
       \/ ~RemoveOnly /\ h.old /\ Report(h.id)
       \/ ~RemoveOnly /\ ~h.old /\ ~NotDue /\ chan[h.ch] \in {"deleted", "disabled"} /\ Report(h.id)
    /\ remove(h.id)
    /\ DoneWithHead
    /\ UNCHANGED <<chan, emitted, bus, direct, log, queue, worker, flight, settled, got, run>>

\* Mutant: a channel that cannot be loaded is asked again and again.
unreadableForever ==
    /\ disp.pc = "heads" /\ idle(h.ch) /\ ~Waits /\ ~RemoveOnly /\ ~h.old /\ ~NotDue
    /\ chan[h.ch] = "unreadable"
    /\ reschedule(h.id, Tries) /\ UNCHANGED lost
    /\ DoneWithHead
    /\ UNCHANGED <<chan, emitted, bus, direct, log, queue, worker, flight, settled, got, run>>
\* A channel that cannot be loaded counts as a failed round.
unreadableChannel ==
    /\ disp.pc = "heads" /\ idle(h.ch) /\ ~Waits /\ ~RemoveOnly /\ ~h.old /\ ~NotDue
    /\ chan[h.ch] = "unreadable"
    /\ \/ Tries + 1 >= Rounds /\ remove(h.id) /\ Report(h.id)
       \/ Tries + 1 < Rounds /\ reschedule(h.id, Tries + 1) /\ UNCHANGED lost
    /\ DoneWithHead
    /\ UNCHANGED <<chan, emitted, bus, direct, log, queue, worker, flight, settled, got, run>>

GetChannel ==
    /\ disp.pc = "heads" /\ idle(h.ch) /\ ~Waits /\ ~RemoveOnly /\ ~h.old /\ ~NotDue
    /\ chan[h.ch] = "enabled"
    /\ disp' = [disp EXCEPT !.pc = "claim", !.heads = <<[h EXCEPT !.tries = Tries]>> \o Tail(@)]
    /\ UNCHANGED <<chan, emitted, bus, direct, log, rows, queue, worker, flight, settled, held, got, lost, run, faults>>

\* A row settled since the outbox was read is stale, and left alone.
claim ==
    /\ disp.pc = "claim" /\ Len(queue) < QueueSize
    /\ \/ /\ idle(h.ch)
          /\ flight' = flight \cup {h.ch}
          /\ queue' = Append(queue, [id |-> h.id, ch |-> h.ch, tries |-> h.tries])
       \/ ~idle(h.ch) /\ UNCHANGED <<flight, queue>>
    /\ DoneWithHead
    /\ UNCHANGED <<chan, emitted, bus, direct, log, rows, worker, settled, held, got, lost, run, faults>>

-----------------------------------------------------------------------------
(* The workers. *)

Process(w) ==
    /\ worker[w] = Resting /\ queue # <<>>
    /\ worker' = [worker EXCEPT ![w] = [pc |-> "send", d |-> Head(queue)]]
    /\ queue' = Tail(queue)
    /\ UNCHANGED <<chan, emitted, bus, direct, log, rows, flight, settled, held, disp, got, lost, run, faults>>

\* The channel accepts the message, or refuses it for now or for good.
send(w) ==
    /\ worker[w].pc = "send"
    /\ LET d == worker[w].d IN
       /\ \E r \in {"sent", "failed", "permanent"} :
            /\ worker' = [worker EXCEPT ![w] = IF d.id = 0 THEN Resting ELSE [@ EXCEPT !.pc = r]]
            /\ got' = IF r = "sent" /\ d.id # 0 THEN [got EXCEPT ![d.ch] = Append(@, [id |-> d.id, run |-> run])] ELSE got
    /\ UNCHANGED <<chan, emitted, bus, direct, log, rows, queue, flight, settled, held, disp, lost, run, faults>>

\* The outcome is written before the channel leaves flight.
settle(w) ==
    LET d == worker[w].d IN
    /\ \/ worker[w].pc = "sent" /\ remove(d.id) /\ UNCHANGED lost
       \/ /\ worker[w].pc = "permanent" \/ (worker[w].pc = "failed" /\ d.tries + 1 >= Rounds)
          /\ remove(d.id) /\ Report(d.id)
       \/ worker[w].pc = "failed" /\ d.tries + 1 < Rounds /\ reschedule(d.id, d.tries + 1) /\ UNCHANGED lost
    /\ worker' = [worker EXCEPT ![w].pc = "settled"]
    /\ UNCHANGED <<chan, emitted, bus, direct, log, queue, flight, settled, disp, got, run>>

unclaim(w) ==
    /\ worker[w].pc = "settled"
    /\ flight' = flight \ {worker[w].d.ch}
    /\ settled' = IF disp.pc = "wait" THEN {} ELSE settled \cup {worker[w].d.ch}
    /\ worker' = [worker EXCEPT ![w] = Resting]
    /\ UNCHANGED <<chan, emitted, bus, direct, log, rows, queue, held, disp, got, lost, run, faults>>

-----------------------------------------------------------------------------
(* The world. *)

\* The wait after a failed round, or after a failed write, is over.
WaitEnds ==
    /\ (\E r \in rows : ~r.due) \/ (\E x \in held : ~x.due)
    /\ rows' = {[r EXCEPT !.due = TRUE] : r \in rows}
    /\ held' = {[x EXCEPT !.due = TRUE] : x \in held}
    /\ UNCHANGED <<chan, emitted, bus, direct, log, queue, worker, flight, settled, disp, got, lost, run, faults>>

\* outboxMaxAge passes.
RowsExpire ==
    /\ Faults /\ \E r \in rows : ~r.old
    /\ rows' = {[r EXCEPT !.old = TRUE, !.due = TRUE] : r \in rows}
    /\ held' = {[x EXCEPT !.due = TRUE] : x \in held}
    /\ UNCHANGED <<chan, emitted, bus, direct, log, queue, worker, flight, settled, disp, got, lost, run>>

\* UpdateChannel and DeleteChannel; a channel whose secrets cannot be opened.
ChangeChannel(c) ==
    /\ Faults /\ chan[c] # "deleted"
    /\ \E s \in {"enabled", "disabled", "unreadable", "deleted"} \ {chan[c]} : chan' = [chan EXCEPT ![c] = s]
    /\ UNCHANGED <<emitted, bus, direct, log, rows, queue, worker, flight, settled, held, disp, got, lost, run>>

InitMemory ==
    /\ bus = <<>> /\ direct = {} /\ queue = <<>> /\ flight = {} /\ held = {}
    /\ worker = [w \in Workers |-> Resting] /\ settled = {} /\ disp = Asleep

\* The process is killed, or its drain timed out, and starts again.  An alert that was
\* stored is then not published.
Crash ==
    /\ Faults
    /\ bus' = <<>> /\ direct' = {} /\ queue' = <<>> /\ flight' = {} /\ held' = {}
    /\ worker' = [w \in Workers |-> Resting] /\ settled' = {} /\ disp' = Asleep
    /\ emitted' = [e \in 1..MaxEvents |-> IF emitted[e] = "stored" THEN "published" ELSE emitted[e]]
    /\ run' = run + 1
    /\ UNCHANGED <<chan, log, rows, got, lost>>

-----------------------------------------------------------------------------

Init ==
    /\ chan = [c \in Channels |-> "enabled"] /\ emitted = [e \in 1..MaxEvents |-> "new"]
    /\ log = <<>> /\ rows = {} /\ got = [c \in Channels |-> <<>>] /\ lost = {} /\ run = 1 /\ faults = 0
    /\ InitMemory

Dispatch == TakeSnapshot \/ OutboxHeads \/ SkipHead \/ RemoveHead \/ unreadableChannel \/ GetChannel \/ claim
Work(w) == Process(w) \/ send(w) \/ settle(w) \/ unclaim(w)
Next ==
    \/ \E e \in 1..MaxEvents : Emit(e) \/ DeliverNow(e) \/ PublishAlert(e)
    \/ HandleEvent \/ Dispatch \/ (\E w \in Workers : Work(w))
    \/ WaitEnds \/ RowsExpire \/ (\E c \in Channels : ChangeChannel(c)) \/ Crash

\* The bus, the dispatcher and the workers are goroutines that never end, a send has a
\* timeout and a wait is finite.
Fairness ==
    /\ WF_vars(HandleEvent) /\ WF_vars(Dispatch) /\ WF_vars(WaitEnds)
    /\ \A w \in Workers : WF_vars(Work(w))

Spec == Init /\ [][Next]_vars /\ Fairness

-----------------------------------------------------------------------------
(* Properties. *)

TypeOK ==
    /\ \A r \in rows : r.id \in DOMAIN log /\ r.ch = log[r.id].ch /\ r.tries \in 0..Rounds - 1
    /\ \A r, q \in rows : r.id = q.id => r = q
    /\ Cardinality(rows) <= Limit /\ Len(queue) <= QueueSize /\ Len(bus) <= BusSize
    /\ \A x \in held : x.id \in DOMAIN log /\ \A y \in held : x.id = y.id => x = y

Accepted == {g.id : g \in UNION {Range(got[c]) : c \in Channels}}

\* A notification that its channel accepted is never sent again by the same process,
\* however its removal went and whatever the dispatcher had read before.
NotSentAgain ==
    \A c \in Channels : \A i, j \in DOMAIN got[c] : got[c][i] = got[c][j] => i = j

\* The deliveries of a channel that come from the outbox arrive in the order they were
\* stored, also after a crash.
InOrder ==
    \A c \in Channels : \A i, j \in DOMAIN got[c] : i < j => got[c][i].id <= got[c][j].id

\* Nothing is lost silently or doubled: an event is stored once for each channel, also
\* when it goes both straight to the outbox and over the bus, and what was stored waits
\* in the outbox, was accepted, or was reported as dropped, expired, discarded or given
\* up.
Accounted ==
    /\ TypeOK
    /\ \A i, j \in DOMAIN log : log[i] = log[j] => i = j
    /\ \A id \in DOMAIN log : id \in Accepted \cup lost \/ \E r \in rows : r.id = id

\* The outbox drains: no row, channel or failed write holds up the rows behind it for
\* ever.
Drains == <>[](rows = {})

=============================================================================

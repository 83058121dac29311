----------------------- MODULE NotificationOutboxProofs -----------------------
(***************************************************************************)
(* Proofs about NotificationOutbox: no channel is sent what it accepted    *)
(* from the same process (NotSentAgain), deliveries of a channel arrive in *)
(* the order they were stored (InOrder), and nothing stored is lost        *)
(* silently or doubled (Accounted), for any channels, workers, events,     *)
(* routes, sizes of the queues, limit of the outbox and number of faults.  *)
(* The inductive invariant says what makes the dispatcher's stale reads    *)
(* harmless: a channel has at most one outbox delivery under way; a head   *)
(* read before, whose channel has not moved since, is still the oldest row *)
(* of its channel and none was accepted after it; and a row that was       *)
(* accepted is being settled, or is held as one to remove.                 *)
(***************************************************************************)
EXTENDS NotificationOutbox, FiniteSetTheorems, SequenceTheorems, TLAPS

Events == 1..MaxEvents
LogRows == [ch : Channels, ev : Events]
StoredRows == [id : Nat \ {0}, ch : Channels, tries : 0..Rounds - 1, due : BOOLEAN, old : BOOLEAN]
HeldRows == [id : Nat \ {0}, removeOnly : BOOLEAN, tries : 0..Rounds - 1, due : BOOLEAN]
Deliveries == [id : Nat, ch : Channels \cup {0}, tries : 0..Rounds - 1]
Working == [pc : {"idle", "send", "sent", "failed", "permanent", "settled"}, d : Deliveries]
Receipts == [id : Nat \ {0}, run : Nat]

Types ==
    /\ emitted \in [Events -> {"new", "stored", "published"}]
    /\ bus \in Seq(Events) /\ Len(bus) <= BusSize
    /\ direct \in SUBSET Events
    /\ log \in Seq(LogRows)
    /\ rows \in SUBSET StoredRows
    /\ queue \in Seq(Deliveries) /\ Len(queue) <= QueueSize
    /\ worker \in [Workers -> Working]
    /\ flight \in SUBSET Channels /\ settled \in SUBSET Channels
    /\ held \in SUBSET HeldRows
    /\ disp \in [pc : {"wait", "read", "heads", "claim"}, heads : Seq(StoredRows)]
    /\ got \in [Channels -> Seq(Receipts)]
    /\ run \in Nat

-----------------------------------------------------------------------------
(* Events: the copy on the bus of an event that is in the outbox is one to skip. *)

Logged(l, e) == \E i \in 1..Len(l) : l[i].ev = e
EventInv ==
    /\ \A e \in Events : emitted[e] = "new" => e \notin direct /\ ~Logged(log, e)
    /\ \A e \in Events : emitted[e] = "stored" => e \in direct
    /\ \A i \in 1..Len(bus) : emitted[bus[i]] = "published" /\ (Logged(log, bus[i]) => bus[i] \in direct)
    /\ \A i, j \in 1..Len(bus) : bus[i] = bus[j] => i = j
LogInv == \A i, j \in 1..Len(log) : log[i] = log[j] => i = j

-----------------------------------------------------------------------------
(* Rows, and what the channels accepted. *)

\* d is about a row that was stored.
Known(d) == d.id \in 1..Len(log) /\ d.ch = log[d.id].ch

\* What the channel of d accepted is no newer than d; no row of the channel is older.
After(d) == \A i \in 1..Len(got[d.ch]) : got[d.ch][i].id <= d.id
Before(d) == \A r \in rows : r.ch = d.ch => d.id <= r.id
\* The channel of d has not accepted d from this process.
NotYet(d) == \A i \in 1..Len(got[d.ch]) : got[d.ch][i] # [id |-> d.id, run |-> run]

ToRemove(id) == \E x \in held : x.id = id /\ x.removeOnly
Sent(id) == \E w \in Workers : worker[w].pc = "sent" /\ worker[w].d.id = id

RowInv ==
    /\ \A r \in rows : Known(r) /\ After(r) /\ (NotYet(r) \/ ToRemove(r.id) \/ Sent(r.id))
    /\ \A r, q \in rows : r.id = q.id => r = q
BoundInv == IsFiniteSet(rows) /\ Cardinality(rows) <= Limit
GotInv ==
    /\ \A c \in Channels : \A i \in 1..Len(got[c]) : got[c][i].id \in 1..Len(log) /\ got[c][i].run <= run
    /\ NotSentAgain /\ InOrder
HeldInv ==
    \A x \in held :
      /\ x.id \in 1..Len(log)
      /\ \A y \in held : x.id = y.id => x = y
      /\ x.removeOnly => x.id \in Accepted \cup lost
AccountInv == \A id \in 1..Len(log) : id \in Accepted \cup lost \/ \E r \in rows : r.id = id

-----------------------------------------------------------------------------
(* Deliveries under way, and the heads the dispatcher has read. *)

Carried(d) == Known(d) /\ d.ch \in flight
QueueInv ==
    \A i \in 1..Len(queue) : queue[i].id # 0 =>
      Carried(queue[i]) /\ After(queue[i]) /\ Before(queue[i]) /\ NotYet(queue[i])
WorkerOK(w) ==
    LET d == worker[w].d IN
    /\ worker[w].pc = "idle" => d.id = 0
    /\ worker[w].pc \notin {"idle", "send"} => d.id # 0
    /\ d.id # 0 => Carried(d)
    /\ d.id # 0 /\ worker[w].pc = "send" => After(d) /\ Before(d)
    /\ d.id # 0 /\ worker[w].pc \in {"send", "failed", "permanent"} => NotYet(d)
    /\ worker[w].pc = "sent" => d.id \in Accepted
WorkerInv == \A w \in Workers : WorkerOK(w)
AloneInv ==
    /\ \A i, j \in 1..Len(queue) : queue[i].id # 0 /\ queue[j].id # 0 /\ queue[i].ch = queue[j].ch => i = j
    /\ \A i \in 1..Len(queue), w \in Workers : queue[i].id # 0 /\ worker[w].d.id # 0 => queue[i].ch # worker[w].d.ch
    /\ \A v, w \in Workers : worker[v].d.id # 0 /\ worker[w].d.id # 0 /\ worker[v].d.ch = worker[w].d.ch => v = w
Current(r) == After(r) /\ Before(r) /\ (NotYet(r) \/ ToRemove(r.id))
HeadInv ==
    /\ disp.pc \in {"wait", "read"} <=> disp.heads = <<>>
    /\ \A i, j \in 1..Len(disp.heads) : i < j => disp.heads[i].id < disp.heads[j].id
    /\ \A i \in 1..Len(disp.heads) : Known(disp.heads[i]) /\ (idle(disp.heads[i].ch) => Current(disp.heads[i]))
    /\ disp.pc = "claim" /\ idle(disp.heads[1].ch) => NotYet(disp.heads[1])

StoreInv == LogInv /\ RowInv /\ BoundInv /\ GotInv /\ HeldInv /\ AccountInv
FlowInv == QueueInv /\ WorkerInv /\ AloneInv /\ HeadInv
IInv == Types /\ EventInv /\ StoreInv /\ FlowInv

-----------------------------------------------------------------------------
(* Sequences, finite sets and the operators of the model. *)

\* A function on 1..n is a sequence of length n.
LEMMA FunctionSeq ==
  ASSUME NEW n \in Nat, NEW S, NEW f \in [1..n -> S]
  PROVE  f \in Seq(S) /\ Len(f) = n
<1>1. f \in Seq(S)
  BY SeqDef
<1>2. Len(f) \in Nat /\ 1..Len(f) = 1..n
  BY <1>1, LenProperties
<1>3. Len(f) = n
  <2>1. ~(Len(f) < n)
    <3>1. SUFFICES ASSUME Len(f) < n PROVE FALSE
      OBVIOUS
    <3>2. n \in 1..n /\ n \notin 1..Len(f)
      BY <1>2, <3>1
    <3> QED
      BY <1>2, <3>2
  <2>2. ~(n < Len(f))
    <3>1. SUFFICES ASSUME n < Len(f) PROVE FALSE
      OBVIOUS
    <3>2. Len(f) \in 1..Len(f) /\ Len(f) \notin 1..n
      BY <1>2, <3>1
    <3> QED
      BY <1>2, <3>2
  <2> QED
    BY <1>2, <2>1, <2>2
<1> QED
  BY <1>1, <1>3

\* The channels in C in order, none twice.
LEMMA AscendingSeq ==
  ASSUME NEW C \in SUBSET Channels, NEW cs \in Ascending(C)
  PROVE  /\ cs \in Seq(Channels) /\ DOMAIN cs = 1..Len(cs) /\ Len(cs) \in Nat
         /\ \A i, j \in 1..Len(cs) : cs[i] = cs[j] => i = j
<1>1. Cardinality(C) \in Nat
  BY OutboxAssumption, FS_Subset, FS_CardinalityType
<1>2. cs \in [1..Cardinality(C) -> Channels] /\ \A i, j \in DOMAIN cs : i < j => cs[i] < cs[j]
  BY DEF Ascending
<1>3. cs \in Seq(Channels) /\ Len(cs) = Cardinality(C)
  BY <1>1, <1>2, FunctionSeq
<1>4. DOMAIN cs = 1..Len(cs)
  BY <1>2, <1>3
<1>5. ASSUME NEW i \in 1..Len(cs), NEW j \in 1..Len(cs), cs[i] = cs[j] PROVE i = j
  <2>1. cs[i] \in Nat /\ cs[j] \in Nat
    BY <1>2, <1>4, OutboxAssumption
  <2>2. i < j => cs[i] < cs[j]
    BY <1>2, <1>4
  <2>3. j < i => cs[j] < cs[i]
    BY <1>2, <1>4
  <2> QED
    BY <1>1, <1>3, <1>5, <2>1, <2>2, <2>3
<1> QED
  BY <1>1, <1>3, <1>4, <1>5

\* Without the rows that have too few older ones, at most Limit rows are left: no two rows
\* have the same number of older ones.
LEMMA DropOldest ==
  ASSUME NEW all \in SUBSET StoredRows, IsFiniteSet(all), \A r, q \in all : r.id = q.id => r = q,
         NEW kept, kept = all \ {r \in all : Cardinality({q \in all : q.id < r.id}) < Cardinality(all) - Limit}
  PROVE  IsFiniteSet(kept) /\ Cardinality(kept) <= Limit
<1> DEFINE n == Cardinality(all)
           Older(r) == {q \in all : q.id < r.id}
           f == [r \in kept |-> Cardinality(Older(r))]
<1>1. n \in Nat /\ Limit \in Nat \ {0}
  BY FS_CardinalityType, OutboxAssumption
<1>2. IsFiniteSet(kept) /\ Cardinality(kept) <= n /\ Cardinality(kept) \in Nat
  BY FS_Subset, FS_CardinalityType
<1>3. CASE n <= Limit
  BY <1>1, <1>2, <1>3
<1>4. CASE Limit < n
  <2>1. ASSUME NEW r \in kept PROVE Cardinality(Older(r)) \in (n - Limit)..(n - 1)
    <3>1. r \in all /\ ~(Cardinality(Older(r)) < n - Limit)
      OBVIOUS
    <3>2. Older(r) \in SUBSET all /\ r.id \in Nat
      BY <3>1 DEF StoredRows
    <3>3. r \notin Older(r)
      BY <3>2
    <3>4. Cardinality(Older(r)) \in Nat /\ Cardinality(Older(r)) <= n /\ Cardinality(Older(r)) # n
      <4>1. IsFiniteSet(Older(r)) /\ Cardinality(Older(r)) <= n /\ (n = Cardinality(Older(r)) => all = Older(r))
        BY <3>2, FS_Subset
      <4> QED
        BY <3>1, <3>3, <4>1, FS_CardinalityType
    <3> QED
      BY <1>1, <3>1, <3>4
  <2>2. ASSUME NEW r \in kept, NEW q \in kept, r.id < q.id PROVE Cardinality(Older(r)) # Cardinality(Older(q))
    <3>1. r \in all /\ q \in all /\ \A x \in all : x.id \in Nat
      BY DEF StoredRows
    <3>2. Older(r) \in SUBSET Older(q) /\ r \in Older(q) /\ r \notin Older(r)
      BY <2>2, <3>1
    <3>3. IsFiniteSet(Older(q))
      <4>1. Older(q) \in SUBSET all
        OBVIOUS
      <4> QED
        BY <4>1, FS_Subset
    <3> QED
      BY <3>2, <3>3, FS_Subset
  <2>3. \A r, q \in kept : Cardinality(Older(r)) = Cardinality(Older(q)) => r = q
    <3>1. \A r \in kept : r \in all /\ r.id \in Nat
      BY DEF StoredRows
    <3> QED
      BY <2>2, <3>1
  <2>4. f \in Injection(kept, (n - Limit)..(n - 1))
    <3>1. f \in [kept -> (n - Limit)..(n - 1)]
      BY <2>1
    <3> HIDE DEF n
    <3> QED
      BY <2>3, <3>1 DEF Injection, IsInjective
  <2>5. IsFiniteSet((n - Limit)..(n - 1)) /\ Cardinality((n - Limit)..(n - 1)) = Limit
    <3>1. Cardinality((n - Limit)..(n - 1)) = IF n - Limit > n - 1 THEN 0 ELSE (n - 1) - (n - Limit) + 1
      BY <1>1, FS_Interval
    <3> HIDE DEF n
    <3> QED
      BY <1>1, <3>1, FS_Interval
  <2> HIDE DEF f, n
  <2> QED
    BY <1>2, <2>4, <2>5, FS_Injection
<1> QED
  BY <1>1, <1>3, <1>4

\* The log grows, and what it had stays where it was.
Grows == Len(log) <= Len(log)' /\ \A i \in 1..Len(log) : log'[i] = log[i]

\* What Enqueue does to the log and the rows.
Stores(e) ==
    /\ log' \in Seq(LogRows) /\ Grows /\ LogInv'
    /\ \A i \in 1..Len(log') : Len(log) < i => log'[i].ev = e
    /\ rows' \in SUBSET StoredRows /\ BoundInv'
    /\ \A r \in rows' : r \in rows \/ (Len(log) < r.id /\ r.id <= Len(log') /\ r.ch = log'[r.id].ch)
    /\ \A r, q \in rows' : r.id = q.id => r = q
    /\ lost \subseteq lost' /\ \A r \in rows : r \in rows' \/ r.id \in lost'
    /\ \A id \in 1..Len(log') : Len(log) < id => id \in lost' \/ \E r \in rows' : r.id = id

\* A row for each channel is stored after all others, and what is beyond the limit is reported.
LEMMA EnqueueStores ==
  ASSUME IInv, NEW e \in Events, ~Logged(log, e), NEW C \in SUBSET Channels, Enqueue(e, C)
  PROVE  Stores(e)
<1> PICK cs \in Ascending(C) :
      LET new == {RowOf([id |-> Len(log) + i, ch |-> cs[i]]) : i \in DOMAIN cs}
          all == rows \cup new
          over == Cardinality(all) - Limit
          dropped == {r \in all : Cardinality({q \in all : q.id < r.id}) < over}
      IN  /\ log' = log \o [i \in DOMAIN cs |-> [ch |-> cs[i], ev |-> e]]
          /\ rows' = all \ dropped
          /\ lost' = lost \cup {r.id : r \in dropped}
  BY DEF Enqueue
<1> DEFINE L == Len(log)
           n == Len(cs)
           t == [i \in 1..n |-> [ch |-> cs[i], ev |-> e]]
           new == {RowOf([id |-> L + i, ch |-> cs[i]]) : i \in 1..n}
           all == rows \cup new
           dropped == {r \in all : Cardinality({q \in all : q.id < r.id}) < Cardinality(all) - Limit}
<1>1. /\ cs \in Seq(Channels) /\ DOMAIN cs = 1..n /\ n \in Nat
      /\ \A i, j \in 1..n : cs[i] = cs[j] => i = j
  BY AscendingSeq
<1>2. log' = log \o t /\ rows' = all \ dropped /\ lost' = lost \cup {r.id : r \in dropped}
  BY <1>1
<1>3. log \in Seq(LogRows) /\ L \in Nat /\ \A i \in 1..L : log[i] \in LogRows
  BY LenProperties, ElementOfSeq DEF IInv, Types
<1>4. t \in Seq(LogRows) /\ Len(t) = n
  <2>1. \A i \in 1..n : cs[i] \in Channels
    BY <1>1
  <2>2. t \in [1..n -> LogRows]
    BY <2>1 DEF LogRows
  <2> HIDE DEF t
  <2> QED
    BY <1>1, <2>2, FunctionSeq
<1>5. /\ log' \in Seq(LogRows) /\ Len(log') = L + n
      /\ \A i \in 1..L : log'[i] = log[i]
      /\ \A i \in 1..n : log'[L + i] = [ch |-> cs[i], ev |-> e]
  <2>1. /\ log' \in Seq(LogRows) /\ Len(log') = L + n
        /\ \A i \in 1..(L + n) : log'[i] = IF i <= L THEN log[i] ELSE t[i - L]
    <3> HIDE DEF t
    <3>1. /\ log \o t \in Seq(LogRows) /\ Len(log \o t) = Len(log) + Len(t)
          /\ \A i \in 1..Len(log) + Len(t) : (log \o t)[i] = IF i <= Len(log) THEN log[i] ELSE t[i - Len(log)]
      BY <1>3, <1>4, ConcatProperties
    <3> QED
      BY <1>2, <1>4, <3>1
  <2>2. \A i \in 1..n : L + i \in 1..(L + n) /\ ~(L + i <= L) /\ (L + i) - L = i
    BY <1>1, <1>3
  <2> QED
    BY <1>1, <1>3, <2>1, <2>2
<1>6. \A i \in 1..Len(log') : L < i => \E k \in 1..n : i = L + k
  <2>1. ASSUME NEW i \in 1..(L + n), L < i PROVE i - L \in 1..n /\ i = L + (i - L)
    BY <1>1, <1>3, <2>1
  <2> QED
    BY <1>5, <2>1
<1>7. \A r \in new : \E i \in 1..n : r = [id |-> L + i, ch |-> cs[i], tries |-> 0, due |-> TRUE, old |-> FALSE]
  BY DEF RowOf
<1>8. ASSUME NEW i \in 1..n PROVE \E r \in new : r.id = L + i /\ r.ch = cs[i]
  <2>1. RowOf([id |-> L + i, ch |-> cs[i]]) \in new
    OBVIOUS
  <2>2. RowOf([id |-> L + i, ch |-> cs[i]]).id = L + i /\ RowOf([id |-> L + i, ch |-> cs[i]]).ch = cs[i]
    BY DEF RowOf
  <2> QED
    BY <2>1, <2>2
<1>9. new \in SUBSET StoredRows
  <2>1. \A i \in 1..n : L + i \in Nat \ {0} /\ cs[i] \in Channels
    BY <1>1, <1>3
  <2>2. 0 \in 0..Rounds - 1
    BY OutboxAssumption
  <2>3. ASSUME NEW r \in new PROVE r \in StoredRows
    <3> HIDE DEF new, L
    <3>1. PICK i \in 1..n : r = [id |-> L + i, ch |-> cs[i], tries |-> 0, due |-> TRUE, old |-> FALSE]
      BY <1>7
    <3> QED
      BY <2>1, <2>2, <3>1 DEF StoredRows
  <2> QED
    BY <2>3
<1>10. \A r \in rows : r.id \in 1..L /\ r \in StoredRows
  BY DEF IInv, StoreInv, RowInv, Known, Types
<1>11. all \in SUBSET StoredRows /\ \A r, q \in all : r.id = q.id => r = q
  <2> HIDE DEF new, L
  <2>1. \A r \in new : \A q \in rows : r.id # q.id
    BY <1>1, <1>3, <1>7, <1>10
  <2>2. ASSUME NEW r \in new, NEW q \in new, r.id = q.id PROVE r = q
    <3>1. PICK i \in 1..n : r = [id |-> L + i, ch |-> cs[i], tries |-> 0, due |-> TRUE, old |-> FALSE]
      BY <1>7
    <3>2. PICK j \in 1..n : q = [id |-> L + j, ch |-> cs[j], tries |-> 0, due |-> TRUE, old |-> FALSE]
      BY <1>7
    <3>3. L + i = L + j
      BY <2>2, <3>1, <3>2
    <3>4. i = j
      BY <1>1, <1>3, <3>3
    <3> QED
      BY <3>1, <3>2, <3>4
  <2>3. \A r, q \in rows : r.id = q.id => r = q
    BY DEF IInv, StoreInv, RowInv
  <2> QED
    BY <1>9, <1>10, <2>1, <2>2, <2>3
<1>12. IsFiniteSet(all)
  <2>1. IsFiniteSet(new)
    <3> DEFINE f == [i \in 1..n |-> RowOf([id |-> L + i, ch |-> cs[i]])]
    <3>1. f \in Surjection(1..n, new)
      BY DEF Surjection
    <3> HIDE DEF f, new
    <3> QED
      BY <1>1, <3>1, FS_Surjection, FS_Interval
  <2> QED
    BY <2>1, FS_Union DEF IInv, StoreInv, BoundInv
<1> HIDE DEF new
<1>13. BoundInv'
  <2>1. IsFiniteSet(rows') /\ Cardinality(rows') <= Limit
    BY <1>2, <1>11, <1>12, DropOldest
  <2> QED
    BY <2>1 DEF BoundInv
<1>14. LogInv'
  <2>1. \A i \in 1..L : log'[i].ev # e
    BY <1>5 DEF Logged
  <2>2. ASSUME NEW i \in 1..Len(log'), NEW j \in 1..Len(log'), log'[i] = log'[j] PROVE i = j
    <3>1. CASE i <= L /\ j <= L
      BY <1>3, <1>5, <2>2, <3>1 DEF IInv, StoreInv, LogInv
    <3>2. ASSUME NEW k \in 1..Len(log'), NEW m \in 1..Len(log'), log'[k] = log'[m], k <= L, L < m PROVE FALSE
      <4>1. PICK q \in 1..n : m = L + q
        BY <1>6, <3>2
      <4>2. log'[m].ev = e
        BY <1>5, <4>1
      <4>3. k \in 1..L
        BY <1>3, <3>2
      <4> QED
        BY <2>1, <3>2, <4>2, <4>3
    <3>3. CASE L < i /\ L < j
      <4>1. PICK p \in 1..n : i = L + p
        BY <1>6, <3>3
      <4>2. PICK q \in 1..n : j = L + q
        BY <1>6, <3>3
      <4>3. cs[p] = cs[q]
        BY <1>5, <2>2, <4>1, <4>2
      <4> QED
        BY <1>1, <4>1, <4>2, <4>3
    <3>4. (i <= L \/ L < i) /\ (j <= L \/ L < j)
      BY <1>3
    <3>5. ~(i <= L /\ L < j) /\ ~(j <= L /\ L < i)
      BY <2>2, <3>2
    <3> QED
      BY <3>1, <3>3, <3>4, <3>5
  <2> QED
    BY <2>2 DEF LogInv
<1>15. \A i \in 1..Len(log') : L < i => log'[i].ev = e
  BY <1>5, <1>6
<1>16. \A r \in new : L < r.id /\ r.id <= Len(log') /\ r.ch = log'[r.id].ch
  BY <1>1, <1>3, <1>5, <1>7
<1>17. ASSUME NEW id \in 1..Len(log'), L < id PROVE id \in lost' \/ \E r \in rows' : r.id = id
  <2>1. PICK r \in new : r.id = id
    BY <1>6, <1>8, <1>17
  <2> QED
    BY <1>2, <2>1
<1>18. rows' \in SUBSET StoredRows /\ \A r \in rows' : r \in all
  BY <1>2, <1>11
<1>19. lost \subseteq lost' /\ \A r \in rows : r \in rows' \/ r.id \in lost'
  BY <1>2
<1>20. \A r \in rows' : r \in rows \/ (L < r.id /\ r.id <= Len(log') /\ r.ch = log'[r.id].ch)
  BY <1>16, <1>18
<1>21. \A r, q \in rows' : r.id = q.id => r = q
  BY <1>11, <1>18
<1>22. Grows
  BY <1>1, <1>3, <1>5 DEF Grows
<1> QED
  BY <1>5, <1>13, <1>14, <1>15, <1>17, <1>18, <1>19, <1>20, <1>21, <1>22 DEF Stores

-----------------------------------------------------------------------------
(* What stays true of a delivery while rows come and go. *)

RowsFrom ==
    /\ rows' \in SUBSET StoredRows
    /\ \A r \in rows' : (\E q \in rows : q.id = r.id /\ q.ch = r.ch) \/ Len(log) < r.id

\* A row that is stored comes after all others, and no row comes back.
LEMMA OrderKept ==
  ASSUME Types, Grows, RowsFrom, run' = run, NEW d, Known(d), got'[d.ch] = got[d.ch]
  PROVE  /\ Known(d)' /\ (Before(d) => Before(d)')
         /\ After(d)' <=> After(d)
         /\ NotYet(d)' <=> NotYet(d)
<1>1. Len(log) \in Nat /\ Len(log') >= Len(log) /\ d.id \in 1..Len(log) /\ d.ch = log[d.id].ch
  BY LenProperties DEF Types, Grows, Known
<1>2. Known(d)'
  BY <1>1 DEF Known, Grows
<1>3. Before(d) => Before(d)'
  <2>1. \A r \in rows' : r.id \in Nat
    BY DEF RowsFrom, StoredRows
  <2> QED
    BY <1>1, <2>1 DEF Before, RowsFrom
<1> QED
  BY <1>2, <1>3 DEF After, NotYet

\* What some channel accepted, now and after a step.
LEMMA AcceptedIff ==
  ASSUME NEW id
  PROVE  /\ id \in Accepted <=> \E c \in Channels : \E i \in DOMAIN got[c] : got[c][i].id = id
         /\ id \in Accepted' <=> \E c \in Channels : \E i \in DOMAIN got'[c] : got'[c][i].id = id
<1>1. id \in Accepted <=> \E c \in Channels : \E i \in DOMAIN got[c] : got[c][i].id = id
  BY DEF Accepted, Range
<1>2. id \in Accepted' <=> \E c \in Channels : \E i \in DOMAIN got'[c] : got'[c][i].id = id
  BY DEF Accepted, Range
<1> QED
  BY <1>1, <1>2

LEMMA SameAccepted ==
  ASSUME got' = got
  PROVE  /\ \A id : id \in Accepted' <=> id \in Accepted
         /\ NotSentAgain => NotSentAgain'
         /\ InOrder => InOrder'
<1>1. \A id : id \in Accepted' <=> id \in Accepted
  BY AcceptedIff
<1>2. NotSentAgain => NotSentAgain'
  BY DEF NotSentAgain
<1>3. InOrder => InOrder'
  BY DEF InOrder
<1> QED
  BY <1>1, <1>2, <1>3

LEMMA SameStore == Types /\ UNCHANGED <<log, rows>> => Grows /\ RowsFrom
  BY LenProperties DEF Types, Grows, RowsFrom

\* A worker that is left alone stays as it is.
LEMMA WorkerKept ==
  ASSUME IInv, Grows, RowsFrom, run' = run, \A id \in Accepted : id \in Accepted',
         NEW w \in Workers, worker'[w] = worker[w],
         worker[w].d.id # 0 => worker[w].d.ch \in flight' /\ got'[worker[w].d.ch] = got[worker[w].d.ch]
  PROVE  WorkerOK(w)'
<1>1. Types /\ WorkerOK(w)
  BY DEF IInv, FlowInv, WorkerInv
<1> DEFINE d == worker[w].d
<1>2. ASSUME d.id # 0
      PROVE  /\ Carried(d)'
             /\ Before(d) => Before(d)'
             /\ After(d) => After(d)'
             /\ NotYet(d) => NotYet(d)'
  <2>1. Known(d) /\ d.ch \in flight'
    BY <1>1, <1>2 DEF WorkerOK, Carried
  <2>2. d' = d /\ got'[d.ch] = got[d.ch]
    BY <1>2
  <2> HIDE DEF d
  <2> QED
    BY <1>1, <2>1, <2>2, OrderKept DEF Carried, Known, After, Before, NotYet
<1>3. d' = d
  OBVIOUS
<1> QED
  BY <1>1, <1>2, <1>3 DEF WorkerOK

\* So does a delivery in the queue.
LEMMA QueueKept ==
  ASSUME IInv, Grows, RowsFrom, UNCHANGED <<run, queue>>,
         \A i \in 1..Len(queue) : queue[i].id # 0 => queue[i].ch \in flight' /\ got'[queue[i].ch] = got[queue[i].ch]
  PROVE  QueueInv'
<1>1. ASSUME NEW i \in 1..Len(queue), queue[i].id # 0
      PROVE  (Carried(queue[i]) /\ After(queue[i]) /\ Before(queue[i]) /\ NotYet(queue[i]))'
  <2> DEFINE d == queue[i]
  <2>1. Types /\ Known(d) /\ d.ch \in flight' /\ After(d) /\ Before(d) /\ NotYet(d) /\ got'[d.ch] = got[d.ch]
    BY <1>1 DEF IInv, FlowInv, QueueInv, Carried
  <2>2. d' = d
    OBVIOUS
  <2> HIDE DEF d
  <2>3. Known(d)' /\ d'.ch \in flight' /\ After(d)' /\ Before(d)' /\ NotYet(d)'
    BY <2>1, <2>2, OrderKept DEF Known, After, Before, NotYet
  <2> QED
    BY <2>3 DEF d, Carried
<1> QED
  BY <1>1 DEF QueueInv

\* Deliveries that are left alone stay as they are.
LEMMA UnderwayKept ==
  ASSUME IInv, Grows, RowsFrom, UNCHANGED <<got, run, queue, worker, flight>>
  PROVE  QueueInv' /\ WorkerInv' /\ AloneInv'
<1>1. QueueInv'
  BY QueueKept DEF IInv, FlowInv, QueueInv, Carried
<1>2. ASSUME NEW w \in Workers PROVE WorkerOK(w)'
  BY WorkerKept, SameAccepted DEF IInv, FlowInv, WorkerInv, WorkerOK, Carried
<1>3. AloneInv'
  BY DEF IInv, FlowInv, AloneInv
<1> QED
  BY <1>1, <1>2, <1>3 DEF WorkerInv

\* A head the dispatcher has read stays current while its channel does not move and no write of it
\* is forgotten.
LEMMA HeadKept ==
  ASSUME IInv, Grows, RowsFrom, run' = run, NEW d, Known(d), idle(d.ch) => Current(d),
         idle(d.ch)' => idle(d.ch) /\ got'[d.ch] = got[d.ch] /\ (ToRemove(d.id) => ToRemove(d.id)')
  PROVE  /\ Known(d)' /\ (idle(d.ch)' => Current(d)')
         /\ idle(d.ch)' => (NotYet(d) <=> NotYet(d)')
<1>1. Known(d)'
  <2>1. Len(log) \in Nat
    BY LenProperties DEF IInv, Types
  <2> QED
    BY <2>1 DEF Known, Grows
<1>2. ASSUME idle(d.ch)' PROVE Current(d)' /\ (NotYet(d) <=> NotYet(d)')
  BY <1>2, OrderKept DEF IInv, Current
<1> QED
  BY <1>1, <1>2

LEMMA HeadsKept ==
  ASSUME IInv, Grows, RowsFrom, UNCHANGED <<run, disp>>,
         \A id \in 1..Len(log) : log[id].ch \notin flight' /\ ToRemove(id) => ToRemove(id)',
         \A c \in Channels : c \notin flight' \cup settled' => c \notin flight \cup settled /\ got'[c] = got[c]
  PROVE  HeadInv'
<1>1. ASSUME NEW i \in 1..Len(disp.heads)
      PROVE  /\ (Known(disp.heads[i]) /\ (idle(disp.heads[i].ch) => Current(disp.heads[i])))'
             /\ idle(disp.heads[i].ch)' => idle(disp.heads[i].ch) /\ (NotYet(disp.heads[i]) => NotYet(disp.heads[i])')
  <2> DEFINE d == disp.heads[i]
  <2>1. Known(d) /\ (idle(d.ch) => Current(d)) /\ d.ch \in Channels
    <3>1. d \in StoredRows
      BY ElementOfSeq DEF IInv, Types
    <3> QED
      BY <3>1 DEF IInv, FlowInv, HeadInv, StoredRows
  <2>2. d' = d /\ (idle(d.ch)' => idle(d.ch) /\ got'[d.ch] = got[d.ch])
    BY <2>1 DEF idle
  <2> HIDE DEF d
  <2>3. ASSUME idle(d.ch)', ToRemove(d.id) PROVE ToRemove(d.id)'
    <3>1. d.id \in 1..Len(log) /\ log[d.id].ch \notin flight'
      BY <2>1, <2>2, <2>3 DEF Known, idle
    <3>2. PICK id : id = d.id
      OBVIOUS
    <3>3. ToRemove(id)'
      BY <2>3, <3>1, <3>2
    <3> QED
      BY <2>2, <3>2, <3>3 DEF ToRemove
  <2>4. /\ Known(d)' /\ (idle(d.ch)' => Current(d)')
        /\ idle(d.ch)' => idle(d.ch) /\ (NotYet(d) => NotYet(d)')
    BY ZenonT(60), <2>1, <2>2, <2>3, HeadKept DEF Known, After, Before, NotYet, Current, idle, ToRemove
  <2> QED
    BY <2>4 DEF d
<1>2. disp.pc = "claim" /\ idle(disp.heads[1].ch)' => NotYet(disp.heads[1])'
  <2>1. disp.pc = "claim" => 1 \in 1..Len(disp.heads)
    <3>1. disp.pc = "claim" => disp.heads # <<>>
      BY DEF IInv, FlowInv, HeadInv
    <3>2. disp.heads \in Seq(StoredRows)
      BY DEF IInv, Types
    <3> QED
      BY <3>1, <3>2, EmptySeq
  <2> QED
    BY <1>1, <2>1 DEF IInv, FlowInv, HeadInv
<1> QED
  BY <1>1, <1>2 DEF IInv, FlowInv, HeadInv

-----------------------------------------------------------------------------
(* Events. *)

\* What is stored for an event leaves all that is under way as it was.
LEMMA StoresKeeps ==
  ASSUME IInv, NEW e \in Events, Stores(e), UNCHANGED <<queue, worker, flight, settled, held, disp, got, run>>
  PROVE  StoreInv' /\ FlowInv'
<1>0. Types /\ Len(log) \in Nat /\ Len(log') \in Nat /\ Grows /\ LogInv' /\ BoundInv' /\ rows' \in SUBSET StoredRows
  BY LenProperties DEF IInv, Types, Stores
<1>1. RowsFrom
  BY DEF Stores, RowsFrom
<1>2. QueueInv' /\ WorkerInv' /\ AloneInv'
  BY <1>0, <1>1, UnderwayKept
<1>3. \A id : ToRemove(id)' <=> ToRemove(id)
  BY DEF ToRemove
<1>4. HeadInv'
  BY <1>0, <1>1, <1>3, HeadsKept
<1>5. \A id : id \in Accepted' <=> id \in Accepted
  BY SameAccepted
<1>6. \A c \in Channels : \A i \in 1..Len(got[c]) : got[c][i].id \in 1..Len(log)
  BY DEF IInv, StoreInv, GotInv
<1>7. GotInv'
  <2>1. NotSentAgain' /\ InOrder'
    BY SameAccepted DEF IInv, StoreInv, GotInv
  <2>2. \A c \in Channels : \A i \in 1..Len(got[c]) : got[c][i].id \in 1..Len(log') /\ got[c][i].run <= run
    BY <1>0, <1>6 DEF IInv, StoreInv, GotInv, Grows
  <2> QED
    BY <2>1, <2>2 DEF GotInv
<1>8. HeldInv'
  BY <1>0, <1>5 DEF IInv, StoreInv, HeldInv, Grows, Stores
<1>9. AccountInv'
  <2>1. ASSUME NEW id \in 1..Len(log') PROVE id \in Accepted' \cup lost' \/ \E r \in rows' : r.id = id
    <3>1. CASE Len(log) < id
      BY <3>1 DEF Stores
    <3>2. CASE id \in 1..Len(log)
      BY <1>5, <3>2 DEF IInv, StoreInv, AccountInv, Stores
    <3> QED
      BY <1>0, <3>1, <3>2
  <2> QED
    BY <2>1 DEF AccountInv
<1>10. RowInv'
  <2>1. ASSUME NEW r \in rows, r \in rows' PROVE (Known(r) /\ After(r) /\ (NotYet(r) \/ ToRemove(r.id) \/ Sent(r.id)))'
    <3>1. Known(r) /\ After(r) /\ (NotYet(r) \/ ToRemove(r.id) \/ Sent(r.id))
      BY DEF IInv, StoreInv, RowInv
    <3>2. Sent(r.id)' <=> Sent(r.id)
      BY DEF Sent
    <3> QED
      BY <1>0, <1>1, <1>3, <3>1, <3>2, OrderKept
  <2>2. ASSUME NEW r \in rows', Len(log) < r.id, r.id <= Len(log'), r.ch = log'[r.id].ch
        PROVE (Known(r) /\ After(r) /\ NotYet(r))'
    <3>1. r.id \in Nat /\ r.ch \in Channels
      BY <1>0 DEF StoredRows
    <3>2. \A i \in 1..Len(got[r.ch]) : got[r.ch][i].id \in Nat /\ got[r.ch][i].id < r.id
      BY <1>0, <1>6, <2>2, <3>1
    <3>3. After(r)'
      BY <3>1, <3>2 DEF After
    <3>4. NotYet(r)'
      BY <3>1, <3>2 DEF NotYet
    <3>5. Known(r)'
      BY <1>0, <2>2, <3>1 DEF Known
    <3> QED
      BY <3>3, <3>4, <3>5
  <2>3. \A r \in rows' : r \in rows \/ (Len(log) < r.id /\ r.id <= Len(log') /\ r.ch = log'[r.id].ch)
    BY DEF Stores
  <2>4. \A r, q \in rows' : r.id = q.id => r = q
    BY DEF Stores
  <2> QED
    BY <2>1, <2>2, <2>3, <2>4 DEF RowInv
<1> QED
  BY <1>0, <1>2, <1>4, <1>7, <1>8, <1>9, <1>10 DEF StoreInv, FlowInv

\* What is delivered from memory fits in the queue, behind what was there.
LEMMA MemoryQueue ==
  ASSUME IInv, NEW C \in SUBSET Channels, EnqueueInMemory(C)
  PROVE  /\ queue' \in Seq(Deliveries) /\ Len(queue') <= QueueSize /\ Len(queue) <= Len(queue')
         /\ \A i \in 1..Len(queue) : queue'[i] = queue[i]
         /\ \A i \in 1..Len(queue') : Len(queue) < i => queue'[i].id = 0
<1>1. PICK cs \in Ascending(C) : queue' = queue \o [i \in 1..Room(Len(cs)) |-> [NoDelivery EXCEPT !.ch = cs[i]]]
  BY DEF EnqueueInMemory
<1> DEFINE n == Room(Len(cs))
           t == [i \in 1..n |-> [NoDelivery EXCEPT !.ch = cs[i]]]
<1>2. cs \in Seq(Channels) /\ Len(cs) \in Nat /\ \A i \in 1..Len(cs) : cs[i] \in Channels
  BY AscendingSeq, ElementOfSeq
<1>3. queue \in Seq(Deliveries) /\ Len(queue) \in Nat /\ Len(queue) <= QueueSize /\ QueueSize \in Nat
  BY LenProperties, OutboxAssumption DEF IInv, Types
<1>4. n \in Nat /\ n <= Len(cs) /\ Len(queue) + n <= QueueSize
  BY <1>2, <1>3 DEF Room
<1>5. \A i \in 1..n : [NoDelivery EXCEPT !.ch = cs[i]] \in Deliveries /\ [NoDelivery EXCEPT !.ch = cs[i]].id = 0
  <2>1. 0 \in 0..Rounds - 1
    BY OutboxAssumption
  <2>2. \A i \in 1..n : cs[i] \in Channels
    BY <1>2, <1>4
  <2> QED
    BY <2>1, <2>2 DEF NoDelivery, Deliveries
<1>6. t \in Seq(Deliveries) /\ Len(t) = n
  <2>1. t \in [1..n -> Deliveries]
    BY <1>5
  <2> HIDE DEF t, n
  <2> QED
    BY <1>4, <2>1, FunctionSeq
<1>7. \A i \in 1..n : t[i].id = 0
  BY <1>5
<1>8. queue' = queue \o t
  BY <1>1
<1> HIDE DEF t, n
<1>9. /\ queue' \in Seq(Deliveries) /\ Len(queue') = Len(queue) + n
      /\ \A i \in 1..Len(queue) + n : queue'[i] = IF i <= Len(queue) THEN queue[i] ELSE t[i - Len(queue)]
  <2>1. /\ queue \o t \in Seq(Deliveries) /\ Len(queue \o t) = Len(queue) + Len(t)
        /\ \A i \in 1..Len(queue) + Len(t) : (queue \o t)[i] = IF i <= Len(queue) THEN queue[i] ELSE t[i - Len(queue)]
    BY <1>3, <1>6, ConcatProperties
  <2> QED
    BY <1>6, <1>8, <2>1
<1>10. ASSUME NEW i \in 1..Len(queue'), Len(queue) < i PROVE queue'[i].id = 0
  <2>1. i - Len(queue) \in 1..n /\ ~(i <= Len(queue))
    BY <1>3, <1>4, <1>9, <1>10
  <2> QED
    BY <1>7, <1>9, <2>1
<1> QED
  BY <1>3, <1>4, <1>9, <1>10

LEMMA MemoryKeeps ==
  ASSUME IInv, NEW C \in SUBSET Channels, EnqueueInMemory(C),
         UNCHANGED <<log, rows, lost, worker, flight, settled, held, disp, got, run>>
  PROVE  StoreInv' /\ FlowInv'
<1>1. /\ Len(queue) \in Nat /\ Len(queue') \in Nat
      /\ \A i \in 1..Len(queue) : queue'[i] = queue[i]
      /\ \A i \in 1..Len(queue') : Len(queue) < i => queue'[i].id = 0
  BY MemoryQueue, LenProperties DEF IInv, Types
<1>2. \A i \in 1..Len(queue') : queue'[i].id # 0 => i \in 1..Len(queue) /\ queue'[i] = queue[i]
  BY <1>1
<1>3. \A id : (id \in Accepted' <=> id \in Accepted) /\ (ToRemove(id)' <=> ToRemove(id)) /\ (Sent(id)' <=> Sent(id))
  BY SameAccepted DEF ToRemove, Sent
<1>4. \A d : /\ Known(d)' <=> Known(d)
             /\ After(d)' <=> After(d)
             /\ Before(d)' <=> Before(d)
             /\ NotYet(d)' <=> NotYet(d)
             /\ idle(d)' <=> idle(d)
  BY DEF Known, After, Before, NotYet, idle
<1>5. StoreInv'
  <2>1. LogInv' /\ BoundInv' /\ GotInv'
    BY SameAccepted DEF IInv, StoreInv, LogInv, BoundInv, GotInv
  <2>2. RowInv'
    BY <1>3, <1>4 DEF IInv, StoreInv, RowInv
  <2>3. HeldInv' /\ AccountInv'
    BY <1>3 DEF IInv, StoreInv, HeldInv, AccountInv
  <2> QED
    BY <2>1, <2>2, <2>3 DEF StoreInv
<1>6. FlowInv'
  <2>1. QueueInv'
    <3>1. ASSUME NEW i \in 1..Len(queue'), queue'[i].id # 0
          PROVE  (Carried(queue[i]) /\ After(queue[i]) /\ Before(queue[i]) /\ NotYet(queue[i]))'
      <4>1. queue'[i] = queue[i] /\ Carried(queue[i]) /\ After(queue[i]) /\ Before(queue[i]) /\ NotYet(queue[i])
        BY <1>2, <3>1 DEF IInv, FlowInv, QueueInv
      <4>2. Carried(queue[i])' /\ After(queue[i])'
        BY <4>1 DEF Carried, Known, After
      <4>3. Before(queue[i])' /\ NotYet(queue[i])'
        BY <4>1 DEF Before, NotYet
      <4> QED
        BY <4>2, <4>3
    <3> QED
      BY <3>1 DEF QueueInv
  <2>2. AloneInv'
    BY <1>2 DEF IInv, FlowInv, AloneInv
  <2>3. Grows /\ RowsFrom
    BY SameStore DEF IInv
  <2>4. ASSUME NEW w \in Workers PROVE WorkerOK(w)'
    BY <1>3, <2>3, WorkerKept DEF IInv, FlowInv, WorkerInv, WorkerOK, Carried
  <2>5. HeadInv'
    BY <1>3, <2>3, HeadsKept
  <2> QED
    BY <2>1, <2>2, <2>4, <2>5 DEF FlowInv, WorkerInv
<1> QED
  BY <1>5, <1>6

\* A step that touches neither the outbox nor what is under way.
LEMMA SameRest ==
  ASSUME IInv, UNCHANGED <<log, rows, queue, worker, flight, settled, held, disp, got, lost, run>>
  PROVE  StoreInv' /\ FlowInv'
<1>1. \A id : (id \in Accepted' <=> id \in Accepted) /\ (ToRemove(id)' <=> ToRemove(id)) /\ (Sent(id)' <=> Sent(id))
  BY SameAccepted DEF ToRemove, Sent
<1>2. Grows /\ RowsFrom
  BY SameStore DEF IInv
<1>3. FlowInv'
  BY <1>1, <1>2, UnderwayKept, HeadsKept DEF FlowInv
<1>4. LogInv' /\ BoundInv' /\ GotInv'
  BY SameAccepted DEF IInv, StoreInv, LogInv, BoundInv, GotInv
<1>5. RowInv'
  BY <1>1 DEF IInv, StoreInv, RowInv, Known, After, NotYet
<1>6. HeldInv' /\ AccountInv'
  BY <1>1 DEF IInv, StoreInv, HeldInv, AccountInv
<1> QED
  BY <1>3, <1>4, <1>5, <1>6 DEF StoreInv

\* An event that is not in the outbox yet is stored, or delivered from memory.
LEMMA HandleKeeps ==
  ASSUME IInv, NEW e \in Events, ~Logged(log, e), handle(e), UNCHANGED <<worker, flight, settled, held, disp, got, run>>
  PROVE  /\ StoreInv' /\ FlowInv'
         /\ log' \in Seq(LogRows) /\ rows' \in SUBSET StoredRows /\ queue' \in Seq(Deliveries) /\ Len(queue') <= QueueSize
         /\ \A f : Logged(log', f) => Logged(log, f) \/ f = e
<1> DEFINE C == {c \in Routes[e] : chan[c] = "enabled"}
<1>1. C \in SUBSET Channels
  BY OutboxAssumption DEF Events
<1>2. \/ Enqueue(e, C) /\ UNCHANGED <<queue, faults>>
      \/ Faults /\ EnqueueInMemory(C) /\ UNCHANGED <<log, rows, lost>>
  BY DEF handle
<1> HIDE DEF C
<1>3. CASE Enqueue(e, C) /\ UNCHANGED <<queue, faults>>
  <2>1. Stores(e)
    BY <1>1, <1>3, EnqueueStores
  <2>2. StoreInv' /\ FlowInv'
    BY <1>3, <2>1, StoresKeeps
  <2>3. ASSUME NEW f, Logged(log', f) PROVE Logged(log, f) \/ f = e
    <3>1. PICK i \in 1..Len(log') : log'[i].ev = f
      BY <2>3 DEF Logged
    <3>2. Len(log) \in Nat
      BY LenProperties DEF IInv, Types
    <3>3. CASE Len(log) < i
      BY <2>1, <3>1, <3>3 DEF Stores
    <3>4. CASE i \in 1..Len(log)
      BY <2>1, <3>1, <3>4 DEF Stores, Grows, Logged
    <3> QED
      BY <3>2, <3>3, <3>4
  <2> QED
    BY <1>3, <2>1, <2>2, <2>3 DEF Stores, IInv, Types
<1>4. CASE Faults /\ EnqueueInMemory(C) /\ UNCHANGED <<log, rows, lost>>
  <2>1. StoreInv' /\ FlowInv'
    BY <1>1, <1>4, MemoryKeeps
  <2>2. queue' \in Seq(Deliveries) /\ Len(queue') <= QueueSize
    BY <1>1, <1>4, MemoryQueue
  <2>3. \A f : Logged(log', f) => Logged(log, f)
    BY <1>4 DEF Logged
  <2> QED
    BY <1>4, <2>1, <2>2, <2>3 DEF IInv, Types
<1> QED
  BY <1>2, <1>3, <1>4

\* An event is published once; the copy of a stored one is still to be skipped.
LEMMA PublishKeeps ==
  ASSUME IInv, NEW e \in Events, emitted[e] # "published", Logged(log, e) => e \in direct,
         emitted' = [emitted EXCEPT ![e] = "published"], Publish(e),
         UNCHANGED <<direct, log>>
  PROVE  EventInv' /\ bus' \in Seq(Events) /\ Len(bus') <= BusSize /\ emitted' \in [Events -> {"new", "stored", "published"}]
<1>1. bus \in Seq(Events) /\ Len(bus) \in Nat /\ Len(bus) <= BusSize /\ BusSize \in Nat /\ \A i \in 1..Len(bus) : bus[i] \in Events
  BY LenProperties, ElementOfSeq, OutboxAssumption DEF IInv, Types
<1>2. \A f \in Events : emitted'[f] = IF f = e THEN "published" ELSE emitted[f]
  BY DEF IInv, Types
<1>3. \A f : Logged(log', f) <=> Logged(log, f)
  BY DEF Logged
<1>4. \A i \in 1..Len(bus) : bus[i] # e
  BY DEF IInv, EventInv
<1>5. emitted' \in [Events -> {"new", "stored", "published"}]
  BY DEF IInv, Types
<1>6. /\ bus' \in Seq(Events) /\ Len(bus') <= BusSize
      /\ \A i \in 1..Len(bus') : (i \in 1..Len(bus) /\ bus'[i] = bus[i]) \/ (i = Len(bus) + 1 /\ bus'[i] = e)
  <2>1. CASE bus' = bus
    BY <1>1, <2>1
  <2>2. CASE Len(bus) < BusSize /\ bus' = Append(bus, e)
    <3>1. /\ bus' \in Seq(Events) /\ Len(bus') = Len(bus) + 1
          /\ \A i \in 1..Len(bus) : bus'[i] = bus[i]
          /\ bus'[Len(bus) + 1] = e
      BY <1>1, <2>2, AppendProperties
    <3> QED
      BY <1>1, <2>2, <3>1
  <2> QED
    BY <2>1, <2>2 DEF Publish
<1>7. \A i \in 1..Len(bus') : emitted'[bus'[i]] = "published" /\ (Logged(log', bus'[i]) => bus'[i] \in direct)
  BY <1>1, <1>2, <1>3, <1>6 DEF IInv, EventInv
<1>8. \A i, j \in 1..Len(bus') : bus'[i] = bus'[j] => i = j
  BY <1>4, <1>6 DEF IInv, EventInv
<1>9. /\ \A f \in Events : emitted'[f] = "new" => f \notin direct /\ ~Logged(log', f)
      /\ \A f \in Events : emitted'[f] = "stored" => f \in direct
  BY <1>2, <1>3 DEF IInv, EventInv
<1>10. EventInv'
  BY <1>3, <1>7, <1>8, <1>9 DEF EventInv, Logged
<1> QED
  BY <1>5, <1>6, <1>10

LEMMA EmitKeeps == ASSUME IInv, NEW e \in Events, Emit(e) \/ PublishAlert(e) PROVE IInv'
<1>1. emitted[e] # "published" /\ (Logged(log, e) => e \in direct) /\ emitted' = [emitted EXCEPT ![e] = "published"] /\ Publish(e)
  BY DEF Emit, PublishAlert, IInv, EventInv
<1>2. UNCHANGED <<direct, log, rows, queue, worker, flight, settled, held, disp, got, lost, run>>
  BY DEF Emit, PublishAlert
<1>3. StoreInv' /\ FlowInv'
  BY <1>2, SameRest
<1>4. EventInv' /\ bus' \in Seq(Events) /\ Len(bus') <= BusSize /\ emitted' \in [Events -> {"new", "stored", "published"}]
  BY <1>1, <1>2, PublishKeeps
<1>5. Types'
  BY <1>2, <1>4 DEF IInv, Types
<1> QED
  BY <1>3, <1>4, <1>5 DEF IInv

LEMMA DeliverKeeps == ASSUME IInv, NEW e \in Events, DeliverNow(e) PROVE IInv'
<1>1. /\ emitted[e] = "new" /\ ~Logged(log, e) /\ handle(e)
      /\ emitted' = [emitted EXCEPT ![e] = "stored"] /\ direct' = direct \cup {e}
      /\ UNCHANGED <<bus, worker, flight, settled, held, disp, got, run>>
  BY DEF DeliverNow, IInv, EventInv
<1>2. /\ StoreInv' /\ FlowInv'
      /\ log' \in Seq(LogRows) /\ rows' \in SUBSET StoredRows /\ queue' \in Seq(Deliveries) /\ Len(queue') <= QueueSize
      /\ \A f : Logged(log', f) => Logged(log, f) \/ f = e
  BY <1>1, HandleKeeps
<1>3. Types'
  BY <1>1, <1>2 DEF IInv, Types
<1>4. \A f \in Events : emitted'[f] = IF f = e THEN "stored" ELSE emitted[f]
  BY <1>1 DEF IInv, Types
<1>5. \A i \in 1..Len(bus) : bus[i] \in Events
  BY ElementOfSeq DEF IInv, Types
<1>6. EventInv'
  <2>1. \A i \in 1..Len(bus) : emitted'[bus[i]] = "published" /\ (Logged(log', bus[i]) => bus[i] \in direct')
    BY <1>1, <1>2, <1>4, <1>5 DEF IInv, EventInv
  <2>2. /\ \A f \in Events : emitted'[f] = "new" => f \notin direct' /\ ~Logged(log', f)
        /\ \A f \in Events : emitted'[f] = "stored" => f \in direct'
    BY <1>1, <1>2, <1>4 DEF IInv, EventInv
  <2>3. \A i, j \in 1..Len(bus) : bus[i] = bus[j] => i = j
    BY DEF IInv, EventInv
  <2> QED
    BY <1>1, <2>1, <2>2, <2>3 DEF EventInv, Logged
<1> QED
  BY <1>2, <1>3, <1>6 DEF IInv

LEMMA HandleEventKeeps == ASSUME IInv, HandleEvent PROVE IInv'
<1> DEFINE e == Head(bus)
<1>1. /\ bus \in Seq(Events) /\ bus # <<>> /\ bus' = Tail(bus)
      /\ UNCHANGED <<emitted, worker, flight, settled, held, disp, got, run>>
  BY DEF HandleEvent, IInv, Types
<1>2. Len(bus) \in Nat \ {0} /\ e = bus[1] /\ e \in Events
  BY <1>1, EmptySeq, ElementOfSeq
<1>3. bus' \in Seq(Events) /\ Len(bus') = Len(bus) - 1 /\ \A i \in 1..Len(bus') : bus'[i] = bus[i + 1] /\ i + 1 \in 1..Len(bus)
  <2>1. bus' \in Seq(Events) /\ Len(bus') = Len(bus) - 1 /\ \A i \in 1..Len(bus') : bus'[i] = bus[i + 1]
    BY <1>1, HeadTailProperties
  <2> QED
    BY <1>2, <2>1
<1>4. \A i \in 1..Len(bus') : bus'[i] # e /\ bus'[i] \in Events
  <2>1. \A i \in 1..Len(bus) : i # 1 => bus[i] # e /\ bus[i] \in Events
    BY <1>1, <1>2, ElementOfSeq DEF IInv, EventInv
  <2> QED
    BY <1>2, <1>3, <2>1
<1>5. emitted[e] = "published" /\ (Logged(log, e) => e \in direct)
  BY <1>2 DEF IInv, EventInv
<1>6. \A i, j \in 1..Len(bus') : bus'[i] = bus'[j] => i = j
  <2>1. ASSUME NEW i \in 1..Len(bus'), NEW j \in 1..Len(bus'), bus'[i] = bus'[j] PROVE i = j
    <3>1. i + 1 = j + 1
      BY <1>3, <2>1 DEF IInv, EventInv
    <3> QED
      BY <3>1
  <2> QED
    BY <2>1
<1>7. /\ StoreInv' /\ FlowInv'
      /\ log' \in Seq(LogRows) /\ rows' \in SUBSET StoredRows /\ queue' \in Seq(Deliveries) /\ Len(queue') <= QueueSize
      /\ \A f : Logged(log', f) => Logged(log, f) \/ f = e
      /\ direct' \in SUBSET Events /\ \A f : f # e => (f \in direct' <=> f \in direct)
      /\ direct' \subseteq direct
  <2>1. CASE e \in direct /\ direct' = direct \ {e} /\ UNCHANGED <<log, rows, queue, lost, faults>>
    <3>1. StoreInv' /\ FlowInv'
      BY <1>1, <2>1, SameRest
    <3>2. \A f : Logged(log', f) => Logged(log, f)
      BY <2>1 DEF Logged
    <3> QED
      BY <2>1, <3>1, <3>2 DEF IInv, Types
  <2>2. CASE e \notin direct /\ handle(e) /\ UNCHANGED direct
    <3>1. ~Logged(log, e)
      BY <1>5, <2>2
    <3> HIDE DEF e
    <3> QED
      BY <1>1, <1>2, <2>2, <3>1, HandleKeeps DEF IInv, Types
  <2> QED
    BY <2>1, <2>2 DEF HandleEvent
<1> HIDE DEF e
<1>8. Types'
  BY SMTT(30), <1>1, <1>2, <1>3, <1>7, OutboxAssumption DEF IInv, Types
<1>9. EventInv'
  <2>1. \A i \in 1..Len(bus') : emitted[bus'[i]] = "published" /\ (Logged(log', bus'[i]) => bus'[i] \in direct')
    BY <1>3, <1>4, <1>7 DEF IInv, EventInv
  <2>2. \A f \in Events : emitted[f] # "published" => f # e
    BY <1>5
  <2>3. /\ \A f \in Events : emitted[f] = "new" => f \notin direct' /\ ~Logged(log', f)
        /\ \A f \in Events : emitted[f] = "stored" => f \in direct'
    BY <1>7, <2>2 DEF IInv, EventInv
  <2> QED
    BY <1>1, <1>6, <2>1, <2>3 DEF EventInv, Logged
<1> QED
  BY <1>7, <1>8, <1>9 DEF IInv

-----------------------------------------------------------------------------
(* Writes of the outbox. *)

\* What a write for the row id may change.
Writes(id) ==
    /\ rows' \in SUBSET StoredRows /\ BoundInv'
    /\ \A r \in rows' : \E q \in rows : q.id = r.id /\ q.ch = r.ch
    /\ \A r, q \in rows' : r.id = q.id => r = q
    /\ \A q \in rows : q.id # id => \E r \in rows' : r.id = q.id
    /\ held' \in SUBSET HeldRows
    /\ \A x \in held' : x.id # id => x \in held
    /\ \A x \in held : x.id # id => x \in held'
    /\ \A x, y \in held' : x.id = y.id => x = y

LEMMA HeldReplaced ==
  ASSUME IInv, NEW id, NEW S, S = {} \/ \E x \in HeldRows : S = {x} /\ x.id = id, held' = Release(id) \cup S
  PROVE  /\ held' \in SUBSET HeldRows
         /\ \A x \in held' : x.id # id => x \in held
         /\ \A x \in held : x.id # id => x \in held'
         /\ \A x, y \in held' : x.id = y.id => x = y
         /\ \A x \in held' : x.id = id => x \in S
<1>1. \A x : x \in Release(id) <=> x \in held /\ x.id # id
  BY DEF Release, Held
<1>2. held \in SUBSET HeldRows /\ \A x, y \in held : x.id = y.id => x = y
  BY DEF IInv, Types, StoreInv, HeldInv
<1> QED
  BY <1>1, <1>2

\* A row is removed, or held as one to remove.
LEMMA RemoveWrites ==
  ASSUME IInv, NEW id \in 1..Len(log), remove(id)
  PROVE  Writes(id) /\ ((\A r \in rows' : r.id # id) \/ ToRemove(id)')
<1>0. id \in Nat \ {0} /\ 0 \in 0..Rounds - 1
  <2>1. Len(log) \in Nat
    BY LenProperties DEF IInv, Types
  <2> QED
    BY <2>1, OutboxAssumption
<1>1. rows \in SUBSET StoredRows /\ IsFiniteSet(rows) /\ Cardinality(rows) <= Limit /\ \A r, q \in rows : r.id = q.id => r = q
  BY DEF IInv, Types, StoreInv, BoundInv, RowInv
<1>2. CASE rows' = {r \in rows : r.id # id} /\ held' = Release(id)
  <2>1. rows' \in SUBSET rows /\ \A q \in rows : q.id # id => q \in rows'
    BY <1>2
  <2>2. BoundInv'
    <3>1. IsFiniteSet(rows') /\ Cardinality(rows') <= Cardinality(rows)
      BY <1>1, <2>1, FS_Subset
    <3>2. Cardinality(rows') \in Nat /\ Cardinality(rows) \in Nat /\ Limit \in Nat
      BY <1>1, <3>1, FS_CardinalityType, OutboxAssumption
    <3> QED
      BY <1>1, <3>1, <3>2 DEF BoundInv
  <2>3. held' = Release(id) \cup {}
    BY <1>2
  <2> QED
    BY <1>1, <1>2, <2>1, <2>2, <2>3, HeldReplaced DEF Writes
<1>3. CASE rows' = rows /\ held' = Release(id) \cup {[id |-> id, removeOnly |-> TRUE, tries |-> 0, due |-> FALSE]}
  <2> DEFINE x == [id |-> id, removeOnly |-> TRUE, tries |-> 0, due |-> FALSE]
  <2>1. x \in HeldRows /\ x.id = id /\ x.removeOnly
    BY <1>0 DEF HeldRows
  <2>2. held' = Release(id) \cup {x}
    BY <1>3
  <2> HIDE DEF x
  <2>3. ToRemove(id)'
    BY <2>1, <2>2 DEF ToRemove
  <2>4. BoundInv'
    BY <1>1, <1>3 DEF BoundInv
  <2> QED
    BY <1>1, <1>3, <2>1, <2>2, <2>3, <2>4, HeldReplaced DEF Writes
<1> QED
  BY <1>2, <1>3 DEF remove

\* A row is kept and, when it could not be written, held as one to send again.
LEMMA RescheduleWrites ==
  ASSUME IInv, NEW id \in 1..Len(log), NEW tries \in 0..Rounds - 1, reschedule(id, tries)
  PROVE  /\ Writes(id) /\ \A q \in rows : \E r \in rows' : r.id = q.id
         /\ \A x \in held' : x.id = id => ~x.removeOnly
<1>0. id \in Nat \ {0}
  <2>1. Len(log) \in Nat
    BY LenProperties DEF IInv, Types
  <2> QED
    BY <2>1
<1>1. rows \in SUBSET StoredRows /\ IsFiniteSet(rows) /\ Cardinality(rows) <= Limit /\ \A r, q \in rows : r.id = q.id => r = q
  BY DEF IInv, Types, StoreInv, BoundInv, RowInv
<1>2. CASE rows' = {IF r.id = id THEN [r EXCEPT !.tries = tries, !.due = FALSE] ELSE r : r \in rows} /\ held' = Release(id)
  <2> DEFINE f == [r \in rows |-> IF r.id = id THEN [r EXCEPT !.tries = tries, !.due = FALSE] ELSE r]
  <2>1. ASSUME NEW r \in rows PROVE f[r] \in StoredRows /\ f[r].id = r.id /\ f[r].ch = r.ch
    <3>1. r \in StoredRows
      BY <1>1
    <3> QED
      BY <3>1 DEF StoredRows
  <2>2. rows' = {f[r] : r \in rows}
    BY <1>2
  <2>3. f \in Surjection(rows, rows')
    BY <2>2 DEF Surjection
  <2> HIDE DEF f
  <2>4. BoundInv'
    <3>1. IsFiniteSet(rows') /\ Cardinality(rows') <= Cardinality(rows)
      BY <1>1, <2>3, FS_Surjection
    <3>2. Cardinality(rows') \in Nat /\ Cardinality(rows) \in Nat /\ Limit \in Nat
      BY <1>1, <3>1, FS_CardinalityType, OutboxAssumption
    <3> QED
      BY <1>1, <3>1, <3>2 DEF BoundInv
  <2>5. held' = Release(id) \cup {}
    BY <1>2
  <2>6. \A r, q \in rows' : r.id = q.id => r = q
    BY <1>1, <2>1, <2>2
  <2> QED
    <3>1. /\ rows' \in SUBSET StoredRows
          /\ \A r \in rows' : \E q \in rows : q.id = r.id /\ q.ch = r.ch
          /\ \A q \in rows : \E r \in rows' : r.id = q.id
      BY <2>1, <2>2
    <3>2. /\ held' \in SUBSET HeldRows
          /\ \A x \in held' : x.id # id => x \in held
          /\ \A x \in held : x.id # id => x \in held'
          /\ \A x, y \in held' : x.id = y.id => x = y
          /\ \A x \in held' : x.id # id
      <4>1. PICK S : S = {} /\ held' = Release(id) \cup S
        BY <2>5
      <4>2. \A x \in held' : x.id = id => x \in S
        BY <4>1, HeldReplaced
      <4> QED
        BY <4>1, <4>2, HeldReplaced
    <3> QED
      BY <2>4, <2>6, <3>1, <3>2 DEF Writes
<1>3. CASE rows' = rows /\ held' = Release(id) \cup {[id |-> id, removeOnly |-> FALSE, tries |-> tries, due |-> FALSE]}
  <2> DEFINE x == [id |-> id, removeOnly |-> FALSE, tries |-> tries, due |-> FALSE]
  <2>1. x \in HeldRows /\ x.id = id /\ ~x.removeOnly
    BY <1>0 DEF HeldRows
  <2>2. held' = Release(id) \cup {x}
    BY <1>3
  <2> HIDE DEF x
  <2>3. BoundInv'
    BY <1>1, <1>3 DEF BoundInv
  <2> QED
    BY <1>1, <1>3, <2>1, <2>2, <2>3, HeldReplaced DEF Writes
<1> QED
  BY <1>2, <1>3 DEF reschedule

\* A write keeps the outbox in order when the row it leaves behind, or the removal that is held,
\* says what became of it.
LEMMA WritesKeep ==
  ASSUME IInv, NEW id \in 1..Len(log), Writes(id), UNCHANGED <<log, got, run>>, lost \subseteq lost',
         id \in Accepted \cup lost' \/ \A q \in rows : \E r \in rows' : r.id = q.id,
         \A x \in held' : x.id = id /\ x.removeOnly => id \in Accepted \cup lost',
         \A r \in rows : r.id = id => NotYet(r) \/ ToRemove(id)' \/ \A q \in rows' : q.id # id,
         \A k : k # id /\ Sent(k) => Sent(k)'
  PROVE  StoreInv' /\ Grows /\ RowsFrom
<1>0. Len(log) \in Nat /\ \A k : k \in Accepted' <=> k \in Accepted
  BY LenProperties, SameAccepted DEF IInv, Types
<1>1. Grows /\ RowsFrom
  BY <1>0 DEF Writes, Grows, RowsFrom
<1>2. LogInv' /\ BoundInv'
  BY DEF IInv, StoreInv, LogInv, Writes
<1>3. GotInv'
  BY SameAccepted DEF IInv, StoreInv, GotInv
<1>4. HeldInv'
  <2>1. ASSUME NEW x \in held' PROVE x.id \in 1..Len(log) /\ (x.removeOnly => x.id \in Accepted \cup lost')
    <3>1. CASE x.id = id
      BY <3>1
    <3>2. CASE x.id # id
      BY <3>2 DEF Writes, IInv, StoreInv, HeldInv
    <3> QED
      BY <3>1, <3>2
  <2> QED
    BY <1>0, <2>1 DEF HeldInv, Writes
<1>5. AccountInv'
  BY <1>0 DEF IInv, StoreInv, AccountInv, Writes
<1>6. RowInv'
  <2>1. ASSUME NEW r \in rows' PROVE (Known(r) /\ After(r) /\ (NotYet(r) \/ ToRemove(r.id) \/ Sent(r.id)))'
    <3>1. PICK q \in rows : q.id = r.id /\ q.ch = r.ch
      BY DEF Writes
    <3>2. Known(q) /\ After(q) /\ (NotYet(q) \/ ToRemove(q.id) \/ Sent(q.id))
      BY DEF IInv, StoreInv, RowInv
    <3>3. Known(r)' /\ After(r)' /\ (NotYet(q) => NotYet(r)')
      BY <3>1, <3>2 DEF Known, After, NotYet
    <3>4. CASE r.id = id
      BY <3>1, <3>3, <3>4
    <3>5. CASE r.id # id
      <4>1. ToRemove(q.id) => ToRemove(r.id)'
        BY <3>1, <3>5 DEF ToRemove, Writes
      <4> QED
        BY <3>1, <3>2, <3>3, <3>5, <4>1
    <3> QED
      BY <3>4, <3>5
  <2> QED
    BY <2>1 DEF RowInv, Writes
<1> QED
  BY <1>1, <1>2, <1>3, <1>4, <1>5, <1>6 DEF StoreInv

-----------------------------------------------------------------------------
(* The dispatcher. *)

\* The outbox is as it was, whatever moved around it.
LEMMA SameStoreInv ==
  ASSUME IInv, UNCHANGED <<log, rows, held, got, lost, run>>, \A k : Sent(k) => Sent(k)'
  PROVE  StoreInv' /\ Grows /\ RowsFrom
<1>1. \A id : (id \in Accepted' <=> id \in Accepted) /\ (ToRemove(id)' <=> ToRemove(id))
  BY SameAccepted DEF ToRemove
<1>2. LogInv' /\ BoundInv' /\ GotInv'
  BY SameAccepted DEF IInv, StoreInv, LogInv, BoundInv, GotInv
<1>3. RowInv'
  BY <1>1 DEF IInv, StoreInv, RowInv, Known, After, NotYet
<1>4. HeldInv' /\ AccountInv'
  BY <1>1 DEF IInv, StoreInv, HeldInv, AccountInv
<1> QED
  BY <1>2, <1>3, <1>4, SameStore DEF StoreInv, IInv

\* The head the dispatcher looks at.
LEMMA HeadFacts ==
  ASSUME IInv, disp.pc \in {"heads", "claim"}
  PROVE  /\ disp.heads \in Seq(StoredRows) /\ Len(disp.heads) \in Nat \ {0}
         /\ h = disp.heads[1] /\ h \in StoredRows /\ h.id \in 1..Len(log) /\ h.ch \in Channels
         /\ Known(h) /\ (idle(h.ch) => Current(h))
<1>1. disp.heads \in Seq(StoredRows) /\ disp.heads # <<>>
  BY DEF IInv, Types, FlowInv, HeadInv
<1>2. Len(disp.heads) \in Nat \ {0} /\ h = disp.heads[1]
  BY <1>1, EmptySeq DEF h
<1>3. 1 \in 1..Len(disp.heads)
  BY <1>2
<1>4. h \in StoredRows
  BY <1>1, <1>2, <1>3, ElementOfSeq
<1>5. Known(disp.heads[1]) /\ (idle(disp.heads[1].ch) => Current(disp.heads[1]))
  BY <1>3 DEF IInv, FlowInv, HeadInv
<1>6. h.id \in 1..Len(log) /\ h.ch \in Channels
  BY <1>2, <1>4, <1>5 DEF Known, StoredRows
<1> QED
  BY <1>1, <1>2, <1>4, <1>5, <1>6

\* The heads that are left are those behind it.
LEMMA DoneHeads ==
  ASSUME IInv, disp.pc \in {"heads", "claim"}, DoneWithHead
  PROVE  /\ disp' \in [pc : {"wait", "read", "heads", "claim"}, heads : Seq(StoredRows)]
         /\ disp'.pc \in {"wait", "read"} <=> disp'.heads = <<>>
         /\ disp'.pc # "claim"
         /\ \A i \in 1..Len(disp'.heads) : i \in Nat /\ i + 1 \in 1..Len(disp.heads) /\ disp'.heads[i] = disp.heads[i + 1]
         /\ \A i \in 1..Len(disp'.heads) : disp'.heads[i].id # h.id
<1>1. /\ disp.heads \in Seq(StoredRows) /\ Len(disp.heads) \in Nat \ {0} /\ h = disp.heads[1]
      /\ disp \in [pc : {"wait", "read", "heads", "claim"}, heads : Seq(StoredRows)]
  BY HeadFacts DEF IInv, Types
<1>2. disp.heads # <<>>
  BY DEF IInv, FlowInv, HeadInv
<1> DEFINE t == Tail(disp.heads)
<1>3. t \in Seq(StoredRows) /\ Len(t) = Len(disp.heads) - 1 /\ \A i \in 1..Len(t) : t[i] = disp.heads[i + 1]
  BY <1>1, <1>2, HeadTailProperties
<1>4. ASSUME NEW i \in 2..Len(disp.heads) PROVE disp.heads[i].id # h.id
  <2>1. 1 \in 1..Len(disp.heads) /\ i \in 1..Len(disp.heads) /\ 1 < i
    BY <1>1
  <2>2. disp.heads[1].id < disp.heads[i].id
    BY <2>1 DEF IInv, FlowInv, HeadInv
  <2>3. disp.heads[1].id \in Nat
    <3>1. disp.heads[1] \in StoredRows
      BY <1>1, <2>1, ElementOfSeq
    <3> QED
      BY <3>1 DEF StoredRows
  <2>4. ~(disp.heads[1].id < disp.heads[1].id)
    BY <2>3
  <2> QED
    BY <1>1, <2>2, <2>4
<1>5. CASE Len(disp.heads) = 1 /\ disp' = Asleep
  <2>1. disp'.pc = "wait" /\ disp'.heads = <<>> /\ Len(disp'.heads) = 0 /\ disp' = [pc |-> "wait", heads |-> <<>>]
    BY <1>5 DEF Asleep
  <2>2. <<>> \in Seq(StoredRows)
    BY EmptySeq
  <2> QED
    BY <2>1, <2>2
<1>6. CASE Len(disp.heads) # 1 /\ disp' = [disp EXCEPT !.pc = "heads", !.heads = t]
  <2>1. disp'.pc = "heads" /\ disp'.heads = t /\ disp' \in [pc : {"wait", "read", "heads", "claim"}, heads : Seq(StoredRows)]
    <3> HIDE DEF t
    <3> QED
      BY <1>1, <1>3, <1>6
  <2> HIDE DEF t
  <2>2. t # <<>>
    <3>1. Len(t) # 0
      BY <1>1, <1>3, <1>6
    <3> QED
      BY <3>1, EmptySeq
  <2>3. \A i \in 1..Len(t) : i \in Nat /\ i + 1 \in 2..Len(disp.heads) /\ i + 1 \in 1..Len(disp.heads)
    BY <1>1, <1>3
  <2>4. \A i \in 1..Len(t) : t[i] = disp.heads[i + 1] /\ t[i].id # h.id
    BY <1>3, <1>4, <2>3
  <2> QED
    BY <2>1, <2>2, <2>3, <2>4
<1> QED
  BY <1>5, <1>6 DEF DoneWithHead

LEMMA DoneKeeps ==
  ASSUME IInv, disp.pc \in {"heads", "claim"}, DoneWithHead, Grows, RowsFrom, run' = run,
         \A id : id # h.id /\ ToRemove(id) => ToRemove(id)',
         \A c \in Channels : c \notin flight' \cup settled' => c \notin flight \cup settled /\ got'[c] = got[c]
  PROVE  HeadInv' /\ disp' \in [pc : {"wait", "read", "heads", "claim"}, heads : Seq(StoredRows)]
<1>1. /\ disp' \in [pc : {"wait", "read", "heads", "claim"}, heads : Seq(StoredRows)]
      /\ disp'.pc \in {"wait", "read"} <=> disp'.heads = <<>>
      /\ disp'.pc # "claim"
      /\ \A i \in 1..Len(disp'.heads) : i \in Nat /\ i + 1 \in 1..Len(disp.heads) /\ disp'.heads[i] = disp.heads[i + 1]
      /\ \A i \in 1..Len(disp'.heads) : disp'.heads[i].id # h.id
  BY DoneHeads
<1>2. ASSUME NEW i \in 1..Len(disp'.heads)
      PROVE  (Known(disp.heads[i]) /\ (idle(disp.heads[i].ch) => Current(disp.heads[i])))'
  <2>1. PICK d : d = disp'.heads[i]
    OBVIOUS
  <2>2. d = disp.heads[i + 1] /\ d.id # h.id /\ i + 1 \in 1..Len(disp.heads)
    BY <1>1, <2>1
  <2>3. d \in StoredRows
    BY <2>2, ElementOfSeq DEF IInv, Types
  <2>4. Known(d) /\ (idle(d.ch) => Current(d)) /\ d.ch \in Channels
    BY <2>2, <2>3 DEF IInv, FlowInv, HeadInv, StoredRows
  <2>5. idle(d.ch)' => idle(d.ch) /\ got'[d.ch] = got[d.ch]
    BY <2>4 DEF idle
  <2>6. Known(d)' /\ (idle(d.ch)' => Current(d)')
    BY <2>2, <2>4, <2>5, HeadKept
  <2> QED
    BY <2>1, <2>6 DEF Known, idle, Current, After, Before, NotYet, ToRemove
<1>3. ASSUME NEW i \in 1..Len(disp'.heads), NEW j \in 1..Len(disp'.heads), i < j PROVE disp'.heads[i].id < disp'.heads[j].id
  <2>1. i + 1 < j + 1 /\ i + 1 \in 1..Len(disp.heads) /\ j + 1 \in 1..Len(disp.heads)
    BY <1>1, <1>3
  <2>2. disp.heads[i + 1].id < disp.heads[j + 1].id
    BY <2>1 DEF IInv, FlowInv, HeadInv
  <2> QED
    BY <1>1, <2>2
<1> QED
  BY <1>1, <1>2, <1>3 DEF HeadInv

\* A step of the dispatcher that only drops a head it looked at.
LEMMA SkipKeeps == ASSUME IInv, SkipHead PROVE IInv'
<1>1. /\ disp.pc \in {"heads", "claim"} /\ DoneWithHead
      /\ UNCHANGED <<emitted, bus, direct, log, rows, queue, worker, flight, settled, held, got, lost, run>>
  BY DEF SkipHead
<1>2. \A k : (Sent(k)' <=> Sent(k)) /\ (ToRemove(k)' <=> ToRemove(k))
  BY <1>1 DEF Sent, ToRemove
<1>3. StoreInv' /\ Grows /\ RowsFrom
  BY <1>1, <1>2, SameStoreInv
<1>4. QueueInv' /\ WorkerInv' /\ AloneInv'
  BY <1>1, <1>3, UnderwayKept
<1>5. HeadInv' /\ disp' \in [pc : {"wait", "read", "heads", "claim"}, heads : Seq(StoredRows)]
  BY <1>1, <1>2, <1>3, DoneKeeps
<1>6. EventInv'
  BY <1>1 DEF IInv, EventInv, Logged
<1>7. Types'
  BY <1>1, <1>5 DEF IInv, Types
<1> QED
  BY <1>3, <1>4, <1>5, <1>6, <1>7 DEF IInv, FlowInv

LEMMA RemoveOnlyIff == RemoveOnly <=> ToRemove(h.id)
  BY DEF RemoveOnly, ToRemove, Held

\* A head is written and dropped.
LEMMA WriteHeadKeeps ==
  ASSUME IInv, disp.pc = "heads", NEW id, id = h.id, DoneWithHead, Writes(id), lost \subseteq lost',
         UNCHANGED <<emitted, bus, direct, log, queue, worker, flight, settled, got, run>>,
         id \in Accepted \cup lost' \/ \A q \in rows : \E r \in rows' : r.id = q.id,
         \A x \in held' : x.id = id /\ x.removeOnly => id \in Accepted \cup lost',
         \A r \in rows : r.id = id => NotYet(r) \/ ToRemove(id)' \/ \A q \in rows' : q.id # id
  PROVE  IInv'
<1>1. id \in 1..Len(log)
  BY HeadFacts
<1>2. \A k : Sent(k)' <=> Sent(k)
  BY DEF Sent
<1>3. StoreInv' /\ Grows /\ RowsFrom
  BY <1>1, <1>2, WritesKeep
<1>4. QueueInv' /\ WorkerInv' /\ AloneInv'
  BY <1>3, UnderwayKept
<1>5. \A k : k # h.id /\ ToRemove(k) => ToRemove(k)'
  BY DEF ToRemove, Writes
<1>6. HeadInv' /\ disp' \in [pc : {"wait", "read", "heads", "claim"}, heads : Seq(StoredRows)]
  BY <1>3, <1>5, DoneKeeps
<1>7. EventInv'
  BY DEF IInv, EventInv, Logged
<1>8. Types'
  BY <1>6 DEF IInv, Types, Writes
<1> QED
  BY <1>3, <1>4, <1>6, <1>7, <1>8 DEF IInv, FlowInv

LEMMA RemoveHeadKeeps == ASSUME IInv, RemoveHead PROVE IInv'
<1>1. PICK id : id = h.id
  OBVIOUS
<1>2. /\ disp.pc = "heads" /\ remove(id) /\ DoneWithHead /\ ((RemoveOnly /\ UNCHANGED lost) \/ lost' = lost \cup {id})
      /\ UNCHANGED <<emitted, bus, direct, log, queue, worker, flight, settled, got, run>>
  BY <1>1 DEF RemoveHead, Report
<1>3. id \in 1..Len(log)
  BY <1>1, <1>2, HeadFacts
<1>4. Writes(id) /\ ((\A r \in rows' : r.id # id) \/ ToRemove(id)')
  BY <1>2, <1>3, RemoveWrites
<1>5. id \in Accepted \cup lost'
  BY <1>1, <1>2, RemoveOnlyIff DEF IInv, StoreInv, HeldInv, ToRemove
<1> QED
  BY <1>1, <1>2, <1>4, <1>5, WriteHeadKeeps

\* A head that is not held as one to remove was not accepted from this process.
LEMMA HeadNotYet ==
  ASSUME IInv, disp.pc = "heads", idle(h.ch), ~RemoveOnly
  PROVE  NotYet(h) /\ \A r \in rows : r.id = h.id => NotYet(r)
<1>1. Known(h) /\ NotYet(h)
  BY HeadFacts, RemoveOnlyIff DEF Current
<1>2. ASSUME NEW r \in rows, r.id = h.id PROVE NotYet(r)
  <2>1. r.ch = h.ch
    BY <1>1, <1>2 DEF IInv, StoreInv, RowInv, Known
  <2> QED
    BY <1>1, <1>2, <2>1 DEF NotYet
<1> QED
  BY <1>1, <1>2

LEMMA TriesType == ASSUME IInv, disp.pc \in {"heads", "claim"} PROVE Tries \in 0..Rounds - 1
<1>1. h \in StoredRows /\ held \in SUBSET HeldRows
  BY HeadFacts DEF IInv, Types
<1>2. CASE Held(h.id) = {}
  BY <1>1, <1>2 DEF Tries, StoredRows
<1>3. CASE Held(h.id) # {}
  <2> DEFINE x == CHOOSE x \in Held(h.id) : TRUE
  <2>1. x \in Held(h.id)
    BY <1>3
  <2>2. x \in HeldRows
    BY <1>1, <2>1 DEF Held
  <2>3. Tries = x.tries
    BY <1>3 DEF Tries
  <2> HIDE DEF x
  <2> QED
    BY <2>2, <2>3 DEF HeldRows
<1> QED
  BY <1>2, <1>3

LEMMA UnreadableKeeps == ASSUME IInv, unreadableChannel PROVE IInv'
<1>1. PICK id : id = h.id
  OBVIOUS
<1>2. /\ disp.pc = "heads" /\ idle(h.ch) /\ ~RemoveOnly /\ DoneWithHead
      /\ UNCHANGED <<emitted, bus, direct, log, queue, worker, flight, settled, got, run>>
  BY DEF unreadableChannel
<1>3. id \in 1..Len(log)
  BY <1>1, <1>2, HeadFacts
<1>4. CASE remove(id) /\ lost' = lost \cup {id}
  <2>1. Writes(id) /\ ((\A r \in rows' : r.id # id) \/ ToRemove(id)')
    BY <1>3, <1>4, RemoveWrites
  <2> QED
    BY <1>1, <1>2, <1>4, <2>1, WriteHeadKeeps
<1>5. CASE Tries + 1 < Rounds /\ reschedule(id, Tries + 1) /\ UNCHANGED lost
  <2>1. Tries + 1 \in 0..Rounds - 1
    BY <1>2, <1>5, TriesType, OutboxAssumption
  <2>2. /\ Writes(id) /\ \A q \in rows : \E r \in rows' : r.id = q.id
        /\ \A x \in held' : x.id = id => ~x.removeOnly
    <3>1. PICK n : n = Tries + 1
      OBVIOUS
    <3> QED
      BY <1>3, <1>5, <2>1, <3>1, RescheduleWrites
  <2>3. \A r \in rows : r.id = id => NotYet(r)
    BY <1>1, <1>2, HeadNotYet
  <2>4. \A x \in held' : x.id = id /\ x.removeOnly => id \in Accepted \cup lost'
    BY <2>2
  <2> QED
    BY <1>1, <1>2, <1>5, <2>2, <2>3, <2>4, WriteHeadKeeps
<1> QED
  BY <1>1, <1>4, <1>5 DEF unreadableChannel, Report

LEMMA SnapshotKeeps == ASSUME IInv, TakeSnapshot PROVE IInv'
<1>1. /\ disp.pc = "wait" /\ disp' = [disp EXCEPT !.pc = "read"] /\ settled' = {}
      /\ UNCHANGED <<emitted, bus, direct, log, rows, queue, worker, flight, held, got, lost, run>>
  BY DEF TakeSnapshot
<1>2. \A k : Sent(k)' <=> Sent(k)
  BY <1>1 DEF Sent
<1>3. StoreInv' /\ Grows /\ RowsFrom
  BY <1>1, <1>2, SameStoreInv
<1>4. QueueInv' /\ WorkerInv' /\ AloneInv'
  BY <1>1, <1>3, UnderwayKept
<1>5. /\ disp' \in [pc : {"wait", "read", "heads", "claim"}, heads : Seq(StoredRows)]
      /\ disp'.pc = "read" /\ disp'.heads = <<>>
  BY <1>1 DEF IInv, Types, FlowInv, HeadInv
<1>6. HeadInv'
  BY <1>5 DEF HeadInv
<1>7. EventInv'
  BY <1>1 DEF IInv, EventInv, Logged
<1>8. Types'
  BY <1>1, <1>5 DEF IInv, Types
<1> QED
  BY <1>3, <1>4, <1>6, <1>7, <1>8 DEF IInv, FlowInv

\* The oldest rows of the channels are read: one whose channel has nothing under way is current.
LEMMA OutboxHeadsKeeps == ASSUME IInv, OutboxHeads PROVE IInv'
<1>1. /\ disp.pc = "read"
      /\ UNCHANGED <<emitted, bus, direct, log, rows, queue, worker, flight, settled, held, got, lost, run>>
  BY DEF OutboxHeads
<1>2. PICK s \in ByID(Heads) : disp' = IF Heads = {} THEN Asleep ELSE [disp EXCEPT !.pc = "heads", !.heads = s]
  BY DEF OutboxHeads
<1>3. \A k : (Sent(k)' <=> Sent(k)) /\ (ToRemove(k)' <=> ToRemove(k))
  BY <1>1 DEF Sent, ToRemove
<1>4. StoreInv' /\ Grows /\ RowsFrom
  BY <1>1, <1>3, SameStoreInv
<1>5. QueueInv' /\ WorkerInv' /\ AloneInv'
  BY <1>1, <1>4, UnderwayKept
<1>6. EventInv'
  BY <1>1 DEF IInv, EventInv, Logged
<1>7. HeadInv' /\ disp' \in [pc : {"wait", "read", "heads", "claim"}, heads : Seq(StoredRows)]
  <2>1. CASE Heads = {}
    <3>1. disp' = [pc |-> "wait", heads |-> <<>>] /\ <<>> \in Seq(StoredRows)
      BY <1>2, <2>1, EmptySeq DEF Asleep
    <3>2. disp'.pc = "wait" /\ disp'.heads = <<>> /\ Len(disp'.heads) = 0
      BY <3>1
    <3> QED
      BY <3>1, <3>2 DEF HeadInv
  <2>2. CASE Heads # {}
    <3>1. Heads \in SUBSET rows /\ rows \in SUBSET StoredRows
      BY DEF Heads, IInv, Types
    <3>2. IsFiniteSet(Heads) /\ Cardinality(Heads) \in Nat \ {0}
      <4>1. IsFiniteSet(Heads)
        BY <3>1, FS_Subset DEF IInv, StoreInv, BoundInv
      <4> QED
        BY <2>2, <4>1, FS_CardinalityType, FS_EmptySet
    <3>3. s \in [1..Cardinality(Heads) -> Heads] /\ \A i, j \in DOMAIN s : i < j => s[i].id < s[j].id
      BY DEF ByID
    <3>4. s \in Seq(StoredRows) /\ Len(s) = Cardinality(Heads)
      <4>1. s \in [1..Cardinality(Heads) -> StoredRows]
        BY <3>1, <3>3
      <4> QED
        BY <3>2, <4>1, FunctionSeq
    <3>5. /\ disp' \in [pc : {"wait", "read", "heads", "claim"}, heads : Seq(StoredRows)]
          /\ disp'.pc = "heads" /\ disp'.heads = s /\ s # <<>>
      <4>1. disp' = [disp EXCEPT !.pc = "heads", !.heads = s]
        BY <1>2, <2>2
      <4>2. s # <<>>
        <5>1. Len(s) # 0
          BY <3>2, <3>4
        <5> QED
          BY <5>1, EmptySeq
      <4> QED
        BY <3>4, <4>1, <4>2 DEF IInv, Types
    <3>6. ASSUME NEW r \in Heads PROVE Known(r) /\ (idle(r.ch) => Current(r))
      <4>1. Known(r) /\ After(r) /\ (NotYet(r) \/ ToRemove(r.id) \/ Sent(r.id))
        BY <3>1 DEF IInv, StoreInv, RowInv
      <4>2. Before(r)
        BY DEF Heads, Before
      <4>3. Sent(r.id) => r.ch \in flight
        BY <4>1 DEF Sent, IInv, FlowInv, WorkerInv, WorkerOK, Carried, Known
      <4> QED
        BY <4>1, <4>2, <4>3 DEF Current, idle
    <3>7. ASSUME NEW i \in 1..Len(s) PROVE (Known(disp.heads[i]) /\ (idle(disp.heads[i].ch) => Current(disp.heads[i])))'
      <4>1. PICK r \in Heads : r = s[i]
        BY <3>3, <3>4
      <4>2. Known(r) /\ (idle(r.ch) => Current(r))
        BY <3>6
      <4>3. r = disp'.heads[i]
        BY <3>5, <4>1
      <4> QED
        BY <1>1, <4>2, <4>3 DEF Known, idle, Current, After, Before, NotYet, ToRemove
    <3>8. \A i, j \in 1..Len(s) : i < j => s[i].id < s[j].id
      BY <3>3, <3>4
    <3> QED
      BY <3>5, <3>7, <3>8 DEF HeadInv
  <2> QED
    BY <2>1, <2>2
<1>8. Types'
  BY <1>1, <1>7 DEF IInv, Types
<1> QED
  BY <1>4, <1>5, <1>6, <1>7, <1>8 DEF IInv, FlowInv

LEMMA GetChannelKeeps == ASSUME IInv, GetChannel PROVE IInv'
<1>1. /\ disp.pc = "heads" /\ idle(h.ch) /\ ~RemoveOnly
      /\ disp' = [disp EXCEPT !.pc = "claim", !.heads = <<[h EXCEPT !.tries = Tries]>> \o Tail(@)]
      /\ UNCHANGED <<emitted, bus, direct, log, rows, queue, worker, flight, settled, held, got, lost, run>>
  BY DEF GetChannel
<1>2. \A k : (Sent(k)' <=> Sent(k)) /\ (ToRemove(k)' <=> ToRemove(k))
  BY <1>1 DEF Sent, ToRemove
<1>3. StoreInv' /\ Grows /\ RowsFrom
  BY <1>1, <1>2, SameStoreInv
<1>4. QueueInv' /\ WorkerInv' /\ AloneInv'
  BY <1>1, <1>3, UnderwayKept
<1>5. EventInv'
  BY <1>1 DEF IInv, EventInv, Logged
<1> DEFINE g == [h EXCEPT !.tries = Tries]
           s == <<g>> \o Tail(disp.heads)
<1>6. disp.heads \in Seq(StoredRows) /\ Len(disp.heads) \in Nat \ {0} /\ h = disp.heads[1] /\ h \in StoredRows
  BY <1>1, HeadFacts
<1>7. g \in StoredRows /\ g.id = h.id /\ g.ch = h.ch
  BY <1>1, <1>6, TriesType DEF StoredRows
<1> HIDE DEF g
<1>8. s \in Seq(StoredRows) /\ Len(s) = Len(disp.heads) /\ s[1] = g /\ \A i \in 2..Len(s) : s[i] = disp.heads[i]
  <2>1. disp.heads # <<>>
    BY <1>6
  <2>2. /\ Tail(disp.heads) \in Seq(StoredRows) /\ Len(Tail(disp.heads)) = Len(disp.heads) - 1
        /\ \A i \in 1..Len(Tail(disp.heads)) : Tail(disp.heads)[i] = disp.heads[i + 1]
    BY <1>6, <2>1, HeadTailProperties
  <2>3. <<g>> \in Seq(StoredRows) /\ Len(<<g>>) = 1 /\ <<g>>[1] = g
    BY <1>7
  <2> DEFINE t == Tail(disp.heads)
             u == <<g>>
  <2>4. s = u \o t
    OBVIOUS
  <2> HIDE DEF t, u, s
  <2>5. /\ s \in Seq(StoredRows) /\ Len(s) = Len(u) + Len(t)
        /\ \A i \in 1..Len(u) + Len(t) : s[i] = IF i <= Len(u) THEN u[i] ELSE t[i - Len(u)]
    BY <2>2, <2>3, <2>4, ConcatProperties DEF t, u
  <2>6. Len(u) = 1 /\ u[1] = g /\ Len(t) = Len(disp.heads) - 1 /\ \A i \in 1..Len(t) : t[i] = disp.heads[i + 1]
    BY <2>2, <2>3 DEF t, u
  <2>7. Len(s) = Len(disp.heads)
    BY <1>6, <2>5, <2>6
  <2>8. s[1] = g
    BY <1>6, <2>5, <2>6
  <2>9. ASSUME NEW i \in 2..Len(s) PROVE s[i] = disp.heads[i]
    <3>1. i \in 1..Len(u) + Len(t) /\ ~(i <= Len(u)) /\ i - 1 \in 1..Len(t) /\ (i - 1) + 1 = i
      BY <1>6, <2>6, <2>7
    <3> QED
      BY <2>5, <2>6, <3>1
  <2> QED
    BY <2>5, <2>7, <2>8, <2>9
<1>9. disp' = [disp EXCEPT !.pc = "claim", !.heads = s]
  BY <1>1 DEF g
<1> HIDE DEF s
<1>10. /\ disp' \in [pc : {"wait", "read", "heads", "claim"}, heads : Seq(StoredRows)]
       /\ disp'.pc = "claim" /\ disp'.heads = s /\ s # <<>>
  <2>1. s # <<>>
    <3>1. Len(s) # 0
      BY <1>6, <1>8
    <3> QED
      BY <3>1, EmptySeq
  <2> QED
    BY <1>8, <1>9, <2>1 DEF IInv, Types
<1>11. \A i \in 1..Len(s) : i \in 1..Len(disp.heads) /\ s[i].id = disp.heads[i].id /\ s[i].ch = disp.heads[i].ch
  <2>1. ASSUME NEW i \in 1..Len(s) PROVE i \in 1..Len(disp.heads) /\ s[i].id = disp.heads[i].id /\ s[i].ch = disp.heads[i].ch
    <3>1. CASE i = 1
      BY <1>6, <1>7, <1>8, <3>1
    <3>2. CASE i \in 2..Len(s)
      BY <1>6, <1>8, <3>2
    <3> QED
      BY <1>6, <1>8, <3>1, <3>2
  <2> QED
    BY <2>1
<1>12. HeadInv'
  <2>1. ASSUME NEW i \in 1..Len(s)
        PROVE  /\ (Known(disp.heads[i]) /\ (idle(disp.heads[i].ch) => Current(disp.heads[i])))'
               /\ NotYet(disp.heads[i]) => NotYet(disp.heads[i])'
    <3>1. PICK d : d = disp.heads[i]
      OBVIOUS
    <3>2. PICK e : e = disp'.heads[i]
      OBVIOUS
    <3>3. e.id = d.id /\ e.ch = d.ch
      BY <1>10, <1>11, <3>1, <3>2
    <3>4. Known(d) /\ (idle(d.ch) => Current(d))
      BY <1>11, <3>1 DEF IInv, FlowInv, HeadInv
    <3>5. Known(e)' /\ (idle(e.ch)' => Current(e)') /\ (NotYet(d) => NotYet(e)')
      BY <1>1, <3>3, <3>4 DEF Known, idle, Current, After, Before, NotYet, ToRemove
    <3> QED
      BY <3>1, <3>2, <3>5 DEF Known, idle, Current, After, Before, NotYet, ToRemove
  <2>2. ASSUME NEW i \in 1..Len(s), NEW j \in 1..Len(s), i < j PROVE s[i].id < s[j].id
    <3>1. disp.heads[i].id < disp.heads[j].id
      BY <1>11, <2>2 DEF IInv, FlowInv, HeadInv
    <3> QED
      BY <1>11, <3>1
  <2>3. NotYet(disp.heads[1])'
    <3>1. NotYet(disp.heads[1])
      BY <1>1, <1>6, HeadNotYet
    <3>2. 1 \in 1..Len(s)
      BY <1>6, <1>8
    <3> QED
      BY <2>1, <3>1, <3>2
  <2> QED
    BY <1>10, <2>1, <2>2, <2>3 DEF HeadInv
<1>13. Types'
  BY <1>1, <1>10 DEF IInv, Types
<1> QED
  BY <1>3, <1>4, <1>5, <1>12, <1>13 DEF IInv, FlowInv

\* A head is handed to the workers only while its channel has not moved since the outbox was read.
LEMMA ClaimKeeps == ASSUME IInv, claim PROVE IInv'
<1>1. /\ disp.pc = "claim" /\ Len(queue) < QueueSize /\ DoneWithHead
      /\ UNCHANGED <<emitted, bus, direct, log, rows, worker, settled, held, got, lost, run>>
  BY DEF claim
<1>2. \A k : (Sent(k)' <=> Sent(k)) /\ (ToRemove(k)' <=> ToRemove(k))
  BY <1>1 DEF Sent, ToRemove
<1>3. StoreInv' /\ Grows /\ RowsFrom
  BY <1>1, <1>2, SameStoreInv
<1>4. EventInv'
  BY <1>1 DEF IInv, EventInv, Logged
<1>5. /\ h = disp.heads[1] /\ h \in StoredRows /\ h.id \in 1..Len(log) /\ h.ch \in Channels
      /\ Known(h) /\ (idle(h.ch) => Current(h))
  BY <1>1, HeadFacts
<1>6. CASE ~idle(h.ch) /\ UNCHANGED <<flight, queue>>
  <2>1. QueueInv' /\ WorkerInv' /\ AloneInv'
    BY <1>1, <1>3, <1>6, UnderwayKept
  <2>2. HeadInv' /\ disp' \in [pc : {"wait", "read", "heads", "claim"}, heads : Seq(StoredRows)]
    BY <1>1, <1>2, <1>3, <1>6, DoneKeeps
  <2>3. Types'
    BY <1>1, <1>6, <2>2 DEF IInv, Types
  <2> QED
    BY <1>3, <1>4, <2>1, <2>2, <2>3 DEF IInv, FlowInv
<1>7. CASE /\ idle(h.ch) /\ flight' = flight \cup {h.ch}
           /\ queue' = Append(queue, [id |-> h.id, ch |-> h.ch, tries |-> h.tries])
  <2>1. PICK d : d = [id |-> h.id, ch |-> h.ch, tries |-> h.tries]
    OBVIOUS
  <2>2. d \in Deliveries /\ d.id = h.id /\ d.ch = h.ch /\ d.id # 0
    <3>1. h.id \in Nat \ {0} /\ h.tries \in 0..Rounds - 1
      BY <1>5 DEF StoredRows
    <3> QED
      BY <1>5, <2>1, <3>1 DEF Deliveries
  <2>3. queue \in Seq(Deliveries) /\ Len(queue) \in Nat /\ QueueSize \in Nat
    BY LenProperties, OutboxAssumption DEF IInv, Types
  <2>4. /\ queue' \in Seq(Deliveries) /\ Len(queue') = Len(queue) + 1
        /\ \A i \in 1..Len(queue) : queue'[i] = queue[i]
        /\ queue'[Len(queue) + 1] = d
    BY <1>7, <2>1, <2>2, <2>3, AppendProperties
  <2>5. \A i \in 1..Len(queue') : (i \in 1..Len(queue) /\ queue'[i] = queue[i]) \/ (i = Len(queue) + 1 /\ queue'[i] = d)
    BY <2>3, <2>4
  <2>6. After(d) /\ Before(d) /\ NotYet(d) /\ Known(d)
    <3>1. After(h) /\ Before(h) /\ NotYet(h) /\ Known(h)
      BY <1>1, <1>5, <1>7 DEF Current, IInv, FlowInv, HeadInv
    <3> QED
      BY <2>2, <3>1 DEF After, Before, NotYet, Known
  <2>7. QueueInv'
    <3>1. ASSUME NEW i \in 1..Len(queue'), queue'[i].id # 0
          PROVE  (Carried(queue[i]) /\ After(queue[i]) /\ Before(queue[i]) /\ NotYet(queue[i]))'
      <4>1. PICK e : e = queue'[i]
        OBVIOUS
      <4>2. Known(e) /\ e.ch \in flight' /\ After(e) /\ Before(e) /\ NotYet(e)
        <5>1. CASE i \in 1..Len(queue) /\ queue'[i] = queue[i]
          BY <1>7, <3>1, <4>1, <5>1 DEF IInv, FlowInv, QueueInv, Carried
        <5>2. CASE queue'[i] = d
          BY <1>7, <2>2, <2>6, <4>1, <5>2
        <5> QED
          BY <2>5, <5>1, <5>2
      <4>3. Known(e)' /\ After(e)' /\ Before(e)' /\ NotYet(e)'
        BY <1>1, <4>2 DEF Known, After, Before, NotYet
      <4> QED
        BY <4>1, <4>2, <4>3 DEF Carried, Known, After, Before, NotYet
    <3> QED
      BY <3>1 DEF QueueInv
  <2>8. ASSUME NEW w \in Workers PROVE WorkerOK(w)'
    BY <1>1, <1>3, <1>7, SameAccepted, WorkerKept DEF IInv, FlowInv, WorkerInv, WorkerOK, Carried
  <2>9. AloneInv'
    <3>1. d.ch \notin flight
      BY <1>7, <2>2 DEF idle
    <3>2. \A i \in 1..Len(queue) : queue[i].id # 0 => queue[i].ch # d.ch
      BY <3>1 DEF IInv, FlowInv, QueueInv, Carried
    <3>3. \A w \in Workers : worker[w].d.id # 0 => worker[w].d.ch # d.ch
      BY <3>1 DEF IInv, FlowInv, WorkerInv, WorkerOK, Carried
    <3>4. \A i, j \in 1..Len(queue') : queue'[i].id # 0 /\ queue'[j].id # 0 /\ queue'[i].ch = queue'[j].ch => i = j
      BY <2>5, <3>2 DEF IInv, FlowInv, AloneInv
    <3>5. \A i \in 1..Len(queue'), w \in Workers : queue'[i].id # 0 /\ worker[w].d.id # 0 => queue'[i].ch # worker[w].d.ch
      BY <2>5, <3>3 DEF IInv, FlowInv, AloneInv
    <3> QED
      BY <1>1, <3>4, <3>5 DEF IInv, FlowInv, AloneInv
  <2>10. HeadInv' /\ disp' \in [pc : {"wait", "read", "heads", "claim"}, heads : Seq(StoredRows)]
    BY <1>1, <1>2, <1>3, <1>7, DoneKeeps
  <2>11. Types'
    BY <1>1, <1>5, <1>7, <2>3, <2>4, <2>10 DEF IInv, Types
  <2> QED
    BY <1>3, <1>4, <2>7, <2>8, <2>9, <2>10, <2>11 DEF IInv, FlowInv, WorkerInv
<1> QED
  BY <1>6, <1>7 DEF claim

-----------------------------------------------------------------------------
(* The workers. *)

LEMMA RestingType == Resting \in Working /\ Resting.pc = "idle" /\ Resting.d.id = 0
<1>1. 0 \in 0..Rounds - 1
  BY OutboxAssumption
<1> QED
  BY <1>1 DEF Resting, NoDelivery, Working, Deliveries

\* A worker takes the first delivery of the queue.
LEMMA ProcessKeeps == ASSUME IInv, NEW w \in Workers, Process(w) PROVE IInv'
<1>1. /\ worker[w] = Resting /\ queue # <<>>
      /\ worker' = [worker EXCEPT ![w] = [pc |-> "send", d |-> Head(queue)]] /\ queue' = Tail(queue)
      /\ UNCHANGED <<emitted, bus, direct, log, rows, flight, settled, held, disp, got, lost, run>>
  BY DEF Process
<1>2. queue \in Seq(Deliveries) /\ Len(queue) \in Nat \ {0} /\ Head(queue) = queue[1] /\ queue[1] \in Deliveries
  <2>1. queue \in Seq(Deliveries) /\ Len(queue) \in Nat \ {0}
    BY <1>1, EmptySeq DEF IInv, Types
  <2>2. 1 \in 1..Len(queue)
    BY <2>1
  <2> QED
    BY <1>1, <2>1, <2>2, ElementOfSeq
<1>3. /\ queue' \in Seq(Deliveries) /\ Len(queue') = Len(queue) - 1
      /\ \A i \in 1..Len(queue') : queue'[i] = queue[i + 1] /\ i + 1 \in 1..Len(queue) /\ i + 1 # 1
  <2>1. queue' \in Seq(Deliveries) /\ Len(queue') = Len(queue) - 1 /\ \A i \in 1..Len(queue') : queue'[i] = queue[i + 1]
    BY <1>1, <1>2, HeadTailProperties
  <2> QED
    BY <1>2, <2>1
<1>4. /\ worker' \in [Workers -> Working]
      /\ worker'[w] = [pc |-> "send", d |-> queue[1]]
      /\ \A v \in Workers : v # w => worker'[v] = worker[v]
  BY <1>1, <1>2 DEF IInv, Types, Working
<1>5. \A k : Sent(k) => Sent(k)'
  <2>1. worker[w].pc # "sent"
    BY <1>1, RestingType
  <2> QED
    BY <1>4, <2>1 DEF Sent
<1>6. StoreInv' /\ Grows /\ RowsFrom
  BY <1>1, <1>5, SameStoreInv
<1>7. EventInv'
  BY <1>1 DEF IInv, EventInv, Logged
<1>8. \A k : ToRemove(k)' <=> ToRemove(k)
  BY <1>1 DEF ToRemove
<1>9. HeadInv'
  BY <1>1, <1>6, <1>8, HeadsKept
<1>10. QueueInv'
  <2>1. ASSUME NEW i \in 1..Len(queue'), queue'[i].id # 0
        PROVE  (Carried(queue[i]) /\ After(queue[i]) /\ Before(queue[i]) /\ NotYet(queue[i]))'
    <3>1. PICK e : e = queue'[i]
      OBVIOUS
    <3>2. Carried(e) /\ After(e) /\ Before(e) /\ NotYet(e)
      BY <1>3, <2>1, <3>1 DEF IInv, FlowInv, QueueInv
    <3> QED
      BY <1>1, <3>1, <3>2 DEF Carried, Known, After, Before, NotYet
  <2> QED
    BY <2>1 DEF QueueInv
<1>11. ASSUME NEW v \in Workers PROVE WorkerOK(v)'
  <2>1. CASE v # w
    BY <1>1, <1>4, <1>6, <2>1, SameAccepted, WorkerKept DEF IInv, FlowInv, WorkerInv, WorkerOK, Carried
  <2>2. CASE v = w
    <3>1. PICK e : e = queue[1]
      OBVIOUS
    <3>2. worker'[v].pc = "send" /\ worker'[v].d = e
      BY <1>4, <2>2, <3>1
    <3>3. ASSUME e.id # 0 PROVE Carried(e)' /\ After(e)' /\ Before(e)' /\ NotYet(e)'
      <4>1. Carried(e) /\ After(e) /\ Before(e) /\ NotYet(e)
        BY <1>2, <3>1, <3>3 DEF IInv, FlowInv, QueueInv
      <4> QED
        BY <1>1, <4>1 DEF Carried, Known, After, Before, NotYet
    <3> QED
      BY <3>2, <3>3 DEF WorkerOK, Carried, Known, After, Before, NotYet
  <2> QED
    BY <2>1, <2>2
<1>12. AloneInv'
  <2>1. 1 \in 1..Len(queue)
    BY <1>2
  <2>2. \A i, j \in 1..Len(queue') : queue'[i].id # 0 /\ queue'[j].id # 0 /\ queue'[i].ch = queue'[j].ch => i = j
    <3>1. ASSUME NEW i \in 1..Len(queue'), NEW j \in 1..Len(queue'), queue'[i].id # 0, queue'[j].id # 0, queue'[i].ch = queue'[j].ch
          PROVE  i = j
      <4>1. i + 1 = j + 1
        BY SMTT(30), <1>3, <3>1 DEF IInv, FlowInv, AloneInv
      <4> QED
        BY <4>1
    <3> QED
      BY <3>1
  <2>3. \A i \in 1..Len(queue'), v \in Workers : queue'[i].id # 0 /\ worker'[v].d.id # 0 => queue'[i].ch # worker'[v].d.ch
    <3>1. ASSUME NEW i \in 1..Len(queue'), NEW v \in Workers, queue'[i].id # 0, worker'[v].d.id # 0
          PROVE  queue'[i].ch # worker'[v].d.ch
      <4>1. CASE v # w
        BY <1>3, <1>4, <3>1, <4>1 DEF IInv, FlowInv, AloneInv
      <4>2. CASE v = w
        <5>1. worker'[v].d = queue[1]
          BY <1>4, <4>2
        <5> QED
          BY <1>3, <2>1, <3>1, <5>1 DEF IInv, FlowInv, AloneInv
      <4> QED
        BY <4>1, <4>2
    <3> QED
      BY <3>1
  <2>4. \A v \in Workers : v # w /\ queue[1].id # 0 /\ worker'[v].d.id # 0 => worker'[v].d.ch # queue[1].ch
    BY <1>4, <2>1 DEF IInv, FlowInv, AloneInv
  <2>5. \A u, v \in Workers : worker'[u].d.id # 0 /\ worker'[v].d.id # 0 /\ worker'[u].d.ch = worker'[v].d.ch => u = v
    BY <1>4, <2>4 DEF IInv, FlowInv, AloneInv
  <2> QED
    BY <2>2, <2>3, <2>5 DEF AloneInv
<1>13. Types'
  BY SMTT(30), <1>1, <1>2, <1>3, <1>4, OutboxAssumption DEF IInv, Types
<1> QED
  BY <1>6, <1>7, <1>9, <1>10, <1>11, <1>12, <1>13 DEF IInv, FlowInv, WorkerInv

\* What a worker carries from the outbox is about a stored row of a channel in flight.
LEMMA CarryFacts ==
  ASSUME IInv, NEW w \in Workers, worker[w].d.id # 0
  PROVE  /\ worker[w] \in Working /\ worker[w].d \in Deliveries
         /\ Known(worker[w].d) /\ worker[w].d.id \in 1..Len(log) /\ worker[w].d.ch \in Channels /\ worker[w].d.ch \in flight
         /\ \A v \in Workers : v # w /\ worker[v].d.id # 0 => worker[v].d.ch # worker[w].d.ch
         /\ \A i \in 1..Len(queue) : queue[i].id # 0 => queue[i].ch # worker[w].d.ch
<1>1. worker[w] \in Working /\ worker[w].d \in Deliveries
  BY DEF IInv, Types, Working
<1>2. Known(worker[w].d) /\ worker[w].d.ch \in flight
  BY DEF IInv, FlowInv, WorkerInv, WorkerOK, Carried
<1>3. worker[w].d.id \in 1..Len(log) /\ worker[w].d.ch \in Channels
  BY <1>2 DEF Known, IInv, Types
<1> QED
  BY <1>1, <1>2, <1>3 DEF IInv, FlowInv, AloneInv

\* The channel does not accept what is sent, or what is sent does not come from the outbox.
LEMMA SendFailsKeeps ==
  ASSUME IInv, NEW w \in Workers, worker[w].pc = "send",
         worker' \in [Workers -> Working], \A v \in Workers : v # w => worker'[v] = worker[v],
         \/ worker[w].d.id = 0 /\ worker'[w] = Resting
         \/ worker[w].d.id # 0 /\ worker'[w].d = worker[w].d /\ worker'[w].pc \in {"failed", "permanent"},
         UNCHANGED <<emitted, bus, direct, log, rows, queue, flight, settled, held, disp, got, lost, run>>
  PROVE  IInv'
<1>1. \A k : Sent(k) => Sent(k)'
  BY DEF Sent
<1>2. StoreInv' /\ Grows /\ RowsFrom
  BY <1>1, SameStoreInv
<1>3. EventInv'
  BY DEF IInv, EventInv, Logged
<1>4. \A k : ToRemove(k)' <=> ToRemove(k)
  BY DEF ToRemove
<1>5. HeadInv'
  BY <1>2, <1>4, HeadsKept
<1>6. QueueInv'
  BY <1>2, QueueKept DEF IInv, FlowInv, QueueInv, Carried
<1>7. ASSUME NEW v \in Workers PROVE WorkerOK(v)'
  <2>1. CASE v # w
    BY <1>2, <2>1, SameAccepted, WorkerKept DEF IInv, FlowInv, WorkerInv, WorkerOK, Carried
  <2>2. CASE v = w /\ worker'[w] = Resting
    BY <2>2, RestingType DEF WorkerOK
  <2>3. CASE v = w /\ worker[w].d.id # 0 /\ worker'[w].d = worker[w].d /\ worker'[w].pc \in {"failed", "permanent"}
    <3>1. PICK d : d = worker[w].d
      OBVIOUS
    <3>2. Carried(d) /\ NotYet(d)
      BY <2>3, <3>1 DEF IInv, FlowInv, WorkerInv, WorkerOK
    <3>3. worker'[v].d = d /\ d.id # 0
      BY <2>3, <3>1
    <3>4. Carried(d)' /\ NotYet(d)'
      BY <3>2 DEF Carried, Known, NotYet
    <3> QED
      BY <2>3, <3>3, <3>4 DEF WorkerOK, Carried, Known, NotYet
  <2> QED
    BY <2>1, <2>2, <2>3
<1>8. AloneInv'
  <2>1. \A v \in Workers : worker'[v].d.id # 0 => worker[v].d.id # 0 /\ worker'[v].d = worker[v].d
    BY RestingType
  <2> QED
    BY <2>1 DEF IInv, FlowInv, AloneInv
<1>9. Types'
  BY DEF IInv, Types
<1> QED
  BY <1>2, <1>3, <1>5, <1>6, <1>7, <1>8, <1>9 DEF IInv, FlowInv, WorkerInv

\* The channel accepts a row: none it accepted before is newer, and it has not accepted this one.
LEMMA SentKeeps ==
  ASSUME IInv, NEW w \in Workers, worker[w].pc = "send", worker[w].d.id # 0,
         worker' \in [Workers -> Working], \A v \in Workers : v # w => worker'[v] = worker[v],
         worker'[w].d = worker[w].d, worker'[w].pc = "sent",
         got' = [got EXCEPT ![worker[w].d.ch] = Append(@, [id |-> worker[w].d.id, run |-> run])],
         UNCHANGED <<emitted, bus, direct, log, rows, queue, flight, settled, held, disp, lost, run>>
  PROVE  IInv'
<1>1. PICK d : d = worker[w].d
  OBVIOUS
<1>2. /\ d \in Deliveries /\ d.id # 0 /\ d.id \in 1..Len(log) /\ d.ch \in Channels /\ d.ch \in flight /\ Known(d)
      /\ \A v \in Workers : v # w /\ worker[v].d.id # 0 => worker[v].d.ch # d.ch
      /\ \A i \in 1..Len(queue) : queue[i].id # 0 => queue[i].ch # d.ch
  BY <1>1, CarryFacts
<1>3. After(d) /\ Before(d) /\ NotYet(d)
  BY <1>1, <1>2 DEF IInv, FlowInv, WorkerInv, WorkerOK
<1> DEFINE g == [id |-> d.id, run |-> run]
           s == got[d.ch]
           n == Len(s)
<1>4. g \in Receipts /\ g.id = d.id /\ g.run = run /\ run \in Nat
  <2>1. d.id \in Nat /\ run \in Nat
    BY <1>2 DEF Deliveries, IInv, Types
  <2> QED
    BY <1>2, <2>1 DEF Receipts
<1>5. s \in Seq(Receipts) /\ n \in Nat
  BY <1>2, LenProperties DEF IInv, Types
<1>6. got' \in [Channels -> Seq(Receipts)] /\ got'[d.ch] = Append(s, g) /\ \A c \in Channels : c # d.ch => got'[c] = got[c]
  <2>1. got \in [Channels -> Seq(Receipts)] /\ got' = [got EXCEPT ![d.ch] = Append(@, g)]
    BY <1>1 DEF IInv, Types
  <2>2. Append(s, g) \in Seq(Receipts)
    BY <1>4, <1>5, AppendProperties
  <2> HIDE DEF g
  <2> QED
    BY <1>2, <2>1, <2>2
<1>7. Len(got'[d.ch]) = n + 1 /\ (\A i \in 1..n : got'[d.ch][i] = s[i]) /\ got'[d.ch][n + 1] = g /\ DOMAIN got'[d.ch] = 1..(n + 1)
  <2> HIDE DEF g
  <2>1. /\ Len(Append(s, g)) = n + 1 /\ (\A i \in 1..n : Append(s, g)[i] = s[i]) /\ Append(s, g)[n + 1] = g
        /\ Append(s, g) \in Seq(Receipts)
    BY <1>4, <1>5, AppendProperties
  <2>2. DOMAIN Append(s, g) = 1..(n + 1)
    BY <2>1, LenProperties
  <2> QED
    BY <1>6, <2>1, <2>2
<1>8. \A i \in 1..(n + 1) : (i \in 1..n /\ got'[d.ch][i] = s[i]) \/ (i = n + 1 /\ got'[d.ch][i] = g)
  BY <1>5, <1>7
<1>9. \A i \in 1..n : s[i] \in Receipts /\ s[i].id \in Nat /\ s[i].id <= d.id /\ s[i] # g /\ s[i].id \in 1..Len(log) /\ s[i].run <= run
  <2>0. \A i \in 1..n : s[i] \in Receipts
    BY <1>5, ElementOfSeq
  <2>1. \A i \in 1..n : s[i] \in Receipts /\ s[i].id \in Nat
    BY <2>0 DEF Receipts
  <2> QED
    BY <1>2, <1>3, <2>1 DEF After, NotYet, IInv, StoreInv, GotInv
<1> HIDE DEF g
<1>10. \A k \in Accepted : k \in Accepted'
  <2>1. ASSUME NEW k \in Accepted PROVE k \in Accepted'
    <3>1. PICK c \in Channels : \E i \in DOMAIN got[c] : got[c][i].id = k
      BY AcceptedIff
    <3>2. PICK i \in DOMAIN got[c] : got[c][i].id = k
      BY <3>1
    <3>3. CASE c # d.ch
      BY <1>6, <3>2, <3>3, AcceptedIff
    <3>4. CASE c = d.ch
      <4>1. i \in 1..n
        BY <1>5, <3>4, LenProperties
      <4>2. i \in DOMAIN got'[c] /\ got'[c][i].id = k
        BY <1>5, <1>7, <3>2, <3>4, <4>1
      <4> QED
        BY <4>2, AcceptedIff
    <3> QED
      BY <3>3, <3>4
  <2> QED
    BY <2>1
<1>11. d.id \in Accepted'
  <2>1. n + 1 \in DOMAIN got'[d.ch] /\ got'[d.ch][n + 1].id = d.id
    BY <1>4, <1>5, <1>7
  <2> QED
    BY <1>2, <2>1, AcceptedIff
<1>12. \A k : (ToRemove(k)' <=> ToRemove(k)) /\ (Sent(k) => Sent(k)')
  BY DEF ToRemove, Sent
<1>13. Sent(d.id)'
  <2>1. worker'[w].pc = "sent" /\ worker'[w].d.id = d.id
    BY <1>1
  <2> QED
    BY <2>1 DEF Sent
<1>14. Grows /\ RowsFrom
  BY SameStore DEF IInv
<1>15. GotInv'
  <2>1. ASSUME NEW c \in Channels, NEW i \in 1..Len(got'[c]) PROVE got'[c][i].id \in 1..Len(log) /\ got'[c][i].run <= run
    <3>1. CASE c # d.ch
      BY <1>6, <2>1, <3>1 DEF IInv, StoreInv, GotInv
    <3>2. CASE c = d.ch
      <4>1. i \in 1..(n + 1) /\ ((i \in 1..n /\ got'[c][i] = s[i]) \/ got'[c][i] = g)
        BY <1>7, <1>8, <2>1, <3>2
      <4>2. g.id \in 1..Len(log) /\ g.run <= run
        BY <1>2, <1>4
      <4> HIDE DEF s, n
      <4> QED
        BY <1>9, <4>1, <4>2
    <3> QED
      BY <3>1, <3>2
  <2>2. ASSUME NEW c \in Channels, NEW i \in DOMAIN got'[c], NEW j \in DOMAIN got'[c], got'[c][i] = got'[c][j] PROVE i = j
    <3>1. CASE c # d.ch
      BY SMTT(30), <1>6, <2>2, <3>1 DEF IInv, StoreInv, GotInv, NotSentAgain
    <3>2. CASE c = d.ch
      <4>1. \A k, m \in 1..n : s[k] = s[m] => k = m
        BY <1>2, <1>5, LenProperties DEF IInv, StoreInv, GotInv, NotSentAgain
      <4>2. i \in 1..(n + 1) /\ j \in 1..(n + 1)
        BY <1>7, <3>2
      <4>3. (i \in 1..n /\ got'[c][i] = s[i]) \/ (i = n + 1 /\ got'[c][i] = g)
        BY <1>8, <3>2, <4>2
      <4>4. (j \in 1..n /\ got'[c][j] = s[j]) \/ (j = n + 1 /\ got'[c][j] = g)
        BY <1>8, <3>2, <4>2
      <4> HIDE DEF s, n
      <4> QED
        BY <1>9, <2>2, <4>1, <4>3, <4>4
    <3> QED
      BY <3>1, <3>2
  <2>3. ASSUME NEW c \in Channels, NEW i \in DOMAIN got'[c], NEW j \in DOMAIN got'[c], i < j PROVE got'[c][i].id <= got'[c][j].id
    <3>1. CASE c # d.ch
      BY <1>6, <2>3, <3>1 DEF IInv, StoreInv, GotInv, InOrder
    <3>2. CASE c = d.ch
      <4>1. \A k, m \in 1..n : k < m => s[k].id <= s[m].id
        BY <1>2, <1>5, LenProperties DEF IInv, StoreInv, GotInv, InOrder
      <4>2. i \in 1..(n + 1) /\ j \in 1..(n + 1)
        BY <1>7, <3>2
      <4>3. i \in 1..n /\ got'[c][i] = s[i]
        BY <1>5, <1>8, <2>3, <3>2, <4>2
      <4> QED
        BY <1>4, <1>8, <1>9, <2>3, <3>2, <4>1, <4>2, <4>3
    <3> QED
      BY <3>1, <3>2
  <2>4. NotSentAgain'
    BY <2>2 DEF NotSentAgain
  <2>5. InOrder'
    BY <2>3 DEF InOrder
  <2> QED
    BY <2>1, <2>4, <2>5 DEF GotInv
<1>16. RowInv'
  <2>1. ASSUME NEW r \in rows PROVE (Known(r) /\ After(r) /\ (NotYet(r) \/ ToRemove(r.id) \/ Sent(r.id)))'
    <3>1. Known(r) /\ After(r) /\ (NotYet(r) \/ ToRemove(r.id) \/ Sent(r.id)) /\ r \in StoredRows
      BY DEF IInv, StoreInv, RowInv, Types
    <3>2. Known(r)' /\ r.ch \in Channels /\ r.id \in Nat
      BY <3>1 DEF Known, StoredRows
    <3>3. CASE r.ch # d.ch
      <4>1. got'[r.ch] = got[r.ch]
        BY <1>6, <3>2, <3>3
      <4>2. After(r)' /\ (NotYet(r) => NotYet(r)')
        BY <3>1, <4>1 DEF After, NotYet
      <4> QED
        BY <1>12, <3>1, <3>2, <4>2
    <3>4. CASE r.ch = d.ch
      <4>1. d.id <= r.id
        BY <1>3, <3>4 DEF Before
      <4>2. After(r)'
        <5>1. \A i \in 1..n : s[i].id <= r.id
          BY <3>1, <3>4 DEF After
        <5>2. \A i \in 1..(n + 1) : got'[d.ch][i].id <= r.id
          BY <1>4, <1>8, <4>1, <5>1
        <5> QED
          BY <1>7, <3>4, <5>2 DEF After
      <4>3. CASE r.id = d.id
        BY <1>13, <3>2, <4>2, <4>3
      <4>4. CASE r.id # d.id
        <5>1. ASSUME NotYet(r) PROVE NotYet(r)'
          <6>1. \A i \in 1..n : s[i] # [id |-> r.id, run |-> run]
            BY <3>4, <5>1 DEF NotYet
          <6>2. g # [id |-> r.id, run |-> run]
            BY <1>4, <4>4
          <6>3. \A i \in 1..(n + 1) : got'[d.ch][i] # [id |-> r.id, run |-> run]
            BY <1>8, <6>1, <6>2
          <6> QED
            BY <1>7, <3>4, <6>3 DEF NotYet
        <5> QED
          BY <1>12, <3>1, <3>2, <4>2, <5>1
      <4> QED
        BY <4>3, <4>4
    <3> QED
      BY <3>3, <3>4
  <2> QED
    BY <2>1 DEF RowInv, IInv, StoreInv
<1>17. LogInv' /\ BoundInv' /\ HeldInv' /\ AccountInv'
  BY <1>10 DEF IInv, StoreInv, LogInv, BoundInv, HeldInv, AccountInv
<1>18. EventInv'
  BY DEF IInv, EventInv, Logged
<1>19. HeadInv'
  BY <1>2, <1>6, <1>12, <1>14, HeadsKept
<1>20. QueueInv'
  <2>1. \A i \in 1..Len(queue) : queue[i].id # 0 => queue[i].ch \in flight' /\ got'[queue[i].ch] = got[queue[i].ch]
    BY <1>2, <1>6 DEF IInv, Types, FlowInv, QueueInv, Carried
  <2> QED
    BY <1>14, <2>1, QueueKept
<1>21. ASSUME NEW v \in Workers PROVE WorkerOK(v)'
  <2>1. CASE v # w
    <3>1. worker[v].d.id # 0 => worker[v].d.ch \in flight' /\ got'[worker[v].d.ch] = got[worker[v].d.ch]
      BY <1>2, <1>6, <2>1, CarryFacts
    <3> QED
      BY <1>10, <1>14, <2>1, <3>1, WorkerKept
  <2>2. CASE v = w
    <3>1. worker'[v].d = d /\ worker'[v].pc = "sent" /\ d.id # 0 /\ d.id \in Accepted'
      BY <1>1, <1>2, <1>11, <2>2
    <3>2. Carried(d)'
      BY <1>2 DEF Carried, Known
    <3> QED
      BY <3>1, <3>2 DEF WorkerOK, Carried, Known
  <2> QED
    BY <2>1, <2>2
<1>22. AloneInv'
  <2>1. \A v \in Workers : worker'[v].d = worker[v].d
    OBVIOUS
  <2> QED
    BY <2>1 DEF IInv, FlowInv, AloneInv
<1>23. Types'
  BY <1>6 DEF IInv, Types
<1> QED
  BY <1>15, <1>16, <1>17, <1>18, <1>19, <1>20, <1>21, <1>22, <1>23 DEF IInv, StoreInv, FlowInv, WorkerInv

LEMMA SendKeeps == ASSUME IInv, NEW w \in Workers, send(w) PROVE IInv'
<1> DEFINE d == worker[w].d
<1>1. PICK r \in {"sent", "failed", "permanent"} :
        /\ worker' = [worker EXCEPT ![w] = IF d.id = 0 THEN Resting ELSE [@ EXCEPT !.pc = r]]
        /\ got' = IF r = "sent" /\ d.id # 0 THEN [got EXCEPT ![d.ch] = Append(@, [id |-> d.id, run |-> run])] ELSE got
  BY DEF send
<1>2. /\ worker[w].pc = "send"
      /\ UNCHANGED <<emitted, bus, direct, log, rows, queue, flight, settled, held, disp, lost, run>>
  BY DEF send
<1>3. worker \in [Workers -> Working] /\ worker[w] \in Working
  BY DEF IInv, Types
<1>4. /\ worker' \in [Workers -> Working] /\ \A v \in Workers : v # w => worker'[v] = worker[v]
      /\ d.id = 0 => worker'[w] = Resting
      /\ d.id # 0 => worker'[w].d = d /\ worker'[w].pc = r
  BY <1>1, <1>3, RestingType DEF Working
<1>5. CASE r = "sent" /\ d.id # 0
  BY <1>1, <1>2, <1>4, <1>5, SentKeeps
<1>6. CASE ~(r = "sent" /\ d.id # 0)
  BY <1>1, <1>2, <1>4, <1>6, SendFailsKeeps
<1> QED
  BY <1>5, <1>6

\* The outcome of a send is written while the channel is in flight, where no head is current.
LEMMA SettleKeeps == ASSUME IInv, NEW w \in Workers, settle(w) PROVE IInv'
<1>1. PICK d : d = worker[w].d
  OBVIOUS
<1>2. /\ worker[w].pc \in {"sent", "permanent", "failed"}
      /\ worker' = [worker EXCEPT ![w].pc = "settled"]
      /\ UNCHANGED <<emitted, bus, direct, log, queue, flight, settled, disp, got, run>>
  BY DEF settle
<1>3. \/ worker[w].pc = "sent" /\ remove(d.id) /\ UNCHANGED lost
      \/ remove(d.id) /\ lost' = lost \cup {d.id}
      \/ worker[w].pc = "failed" /\ d.tries + 1 < Rounds /\ reschedule(d.id, d.tries + 1) /\ UNCHANGED lost
  BY <1>1 DEF settle, Report
<1>4. d.id # 0
  BY <1>1, <1>2 DEF IInv, FlowInv, WorkerInv, WorkerOK
<1>5. /\ d \in Deliveries /\ d.id \in 1..Len(log) /\ d.ch \in Channels /\ d.ch \in flight /\ Known(d)
      /\ worker[w] \in Working
      /\ \A v \in Workers : v # w /\ worker[v].d.id # 0 => worker[v].d.ch # d.ch
  BY <1>1, <1>4, CarryFacts
<1>6. /\ worker' \in [Workers -> Working] /\ \A v \in Workers : v # w => worker'[v] = worker[v]
      /\ worker'[w].d = d /\ worker'[w].pc = "settled"
  BY <1>1, <1>2, <1>5 DEF IInv, Types, Working
<1>7. PICK id : id = d.id
  OBVIOUS
<1>8. \A k : k # id /\ Sent(k) => Sent(k)'
  <2>1. ASSUME NEW k, k # id, NEW v \in Workers, worker[v].pc = "sent", worker[v].d.id = k PROVE v # w
    BY <1>1, <1>7, <2>1
  <2> QED
    BY <1>6, <2>1 DEF Sent
<1>9. /\ Writes(id) /\ lost \subseteq lost'
      /\ id \in Accepted \cup lost' \/ \A q \in rows : \E r \in rows' : r.id = q.id
      /\ \A x \in held' : x.id = id /\ x.removeOnly => id \in Accepted \cup lost'
      /\ \A r \in rows : r.id = id => NotYet(r) \/ ToRemove(id)' \/ \A q \in rows' : q.id # id
  <2>1. CASE remove(id) /\ ((worker[w].pc = "sent" /\ UNCHANGED lost) \/ lost' = lost \cup {id})
    <3>1. Writes(id) /\ ((\A r \in rows' : r.id # id) \/ ToRemove(id)')
      BY <1>5, <1>7, <2>1, RemoveWrites
    <3>2. id \in Accepted \cup lost'
      BY <1>1, <1>7, <2>1 DEF IInv, FlowInv, WorkerInv, WorkerOK
    <3> QED
      BY <2>1, <3>1, <3>2
  <2>2. CASE worker[w].pc = "failed" /\ d.tries + 1 < Rounds /\ reschedule(id, d.tries + 1) /\ UNCHANGED lost
    <3>1. d.tries + 1 \in 0..Rounds - 1
      BY <1>5, <2>2, OutboxAssumption DEF Deliveries
    <3>2. /\ Writes(id) /\ \A q \in rows : \E r \in rows' : r.id = q.id
          /\ \A x \in held' : x.id = id => ~x.removeOnly
      BY <1>5, <1>7, <2>2, <3>1, RescheduleWrites
    <3>3. NotYet(d)
      BY <1>1, <1>4, <2>2 DEF IInv, FlowInv, WorkerInv, WorkerOK
    <3>4. ASSUME NEW r \in rows, r.id = id PROVE NotYet(r)
      <4>1. r.ch = d.ch /\ r.id = d.id
        BY <1>5, <1>7, <3>4 DEF IInv, StoreInv, RowInv, Known
      <4> QED
        BY <3>3, <4>1 DEF NotYet
    <3> QED
      BY <2>2, <3>2, <3>4
  <2> QED
    BY <1>3, <1>7, <2>1, <2>2
<1>10. id \in 1..Len(log)
  BY <1>5, <1>7
<1>11. StoreInv' /\ Grows /\ RowsFrom
  BY <1>2, <1>8, <1>9, <1>10, WritesKeep
<1>12. EventInv'
  BY <1>2 DEF IInv, EventInv, Logged
<1>13. HeadInv'
  <2>1. ASSUME NEW k \in 1..Len(log), log[k].ch \notin flight', ToRemove(k) PROVE ToRemove(k)'
    <3>1. k # id
      BY <1>2, <1>5, <1>7, <2>1 DEF Known
    <3> QED
      BY <1>9, <2>1, <3>1 DEF ToRemove, Writes
  <2> QED
    BY <1>2, <1>11, <2>1, HeadsKept
<1>14. QueueInv'
  BY <1>2, <1>11, QueueKept DEF IInv, FlowInv, QueueInv, Carried
<1>15. ASSUME NEW v \in Workers PROVE WorkerOK(v)'
  <2>1. CASE v # w
    BY <1>2, <1>6, <1>11, <2>1, SameAccepted, WorkerKept DEF IInv, FlowInv, WorkerInv, WorkerOK, Carried
  <2>2. CASE v = w
    BY <1>2, <1>4, <1>5, <1>6, <2>2 DEF WorkerOK, Carried, Known
  <2> QED
    BY <2>1, <2>2
<1>16. AloneInv'
  <2>1. \A v \in Workers : worker'[v].d = worker[v].d
    BY <1>1, <1>6
  <2> QED
    BY <1>2, <2>1 DEF IInv, FlowInv, AloneInv
<1>17. Types'
  BY <1>2, <1>6, <1>9 DEF IInv, Types, Writes
<1> QED
  BY <1>11, <1>12, <1>13, <1>14, <1>15, <1>16, <1>17 DEF IInv, FlowInv, WorkerInv

\* A channel that leaves flight has moved, for whoever read the outbox before.
LEMMA UnclaimKeeps == ASSUME IInv, NEW w \in Workers, unclaim(w) PROVE IInv'
<1>1. PICK d : d = worker[w].d
  OBVIOUS
<1>2. /\ worker[w].pc = "settled" /\ flight' = flight \ {d.ch}
      /\ settled' = IF disp.pc = "wait" THEN {} ELSE settled \cup {d.ch}
      /\ worker' = [worker EXCEPT ![w] = Resting]
      /\ UNCHANGED <<emitted, bus, direct, log, rows, queue, held, disp, got, lost, run>>
  BY <1>1 DEF unclaim
<1>3. d.id # 0
  BY <1>1, <1>2 DEF IInv, FlowInv, WorkerInv, WorkerOK
<1>4. /\ d.ch \in Channels
      /\ \A v \in Workers : v # w /\ worker[v].d.id # 0 => worker[v].d.ch # d.ch
      /\ \A i \in 1..Len(queue) : queue[i].id # 0 => queue[i].ch # d.ch
  BY <1>1, <1>3, CarryFacts
<1>5. /\ worker' \in [Workers -> Working] /\ worker'[w] = Resting
      /\ \A v \in Workers : v # w => worker'[v] = worker[v]
  BY <1>2, RestingType DEF IInv, Types
<1>6. \A k : (Sent(k) => Sent(k)') /\ (ToRemove(k)' <=> ToRemove(k))
  BY <1>2, <1>5 DEF Sent, ToRemove
<1>7. StoreInv' /\ Grows /\ RowsFrom
  BY <1>2, <1>6, SameStoreInv
<1>8. EventInv'
  BY <1>2 DEF IInv, EventInv, Logged
<1>9. HeadInv'
  <2>1. CASE disp.pc = "wait"
    <3>1. disp'.pc = "wait" /\ disp'.heads = <<>> /\ Len(disp'.heads) = 0
      BY <1>2, <2>1 DEF IInv, FlowInv, HeadInv
    <3> QED
      BY <3>1 DEF HeadInv
  <2>2. CASE disp.pc # "wait"
    BY <1>2, <1>6, <1>7, <2>2, HeadsKept
  <2> QED
    BY <2>1, <2>2
<1>10. QueueInv'
  <2>1. \A i \in 1..Len(queue) : queue[i].id # 0 => queue[i].ch \in flight'
    BY <1>2, <1>4 DEF IInv, FlowInv, QueueInv, Carried
  <2> QED
    BY <1>2, <1>7, <2>1, QueueKept
<1>11. ASSUME NEW v \in Workers PROVE WorkerOK(v)'
  <2>1. CASE v # w
    <3>1. worker[v].d.id # 0 => worker[v].d.ch \in flight'
      BY <1>2, <1>4, <2>1, CarryFacts
    <3> QED
      BY <1>2, <1>5, <1>7, <2>1, <3>1, SameAccepted, WorkerKept
  <2>2. CASE v = w
    BY <1>5, <2>2, RestingType DEF WorkerOK
  <2> QED
    BY <2>1, <2>2
<1>12. AloneInv'
  <2>1. \A v \in Workers : worker'[v].d.id # 0 => worker'[v] = worker[v]
    BY <1>5, RestingType
  <2> QED
    BY <1>2, <2>1 DEF IInv, FlowInv, AloneInv
<1>13. Types'
  BY <1>2, <1>4, <1>5 DEF IInv, Types
<1> QED
  BY <1>7, <1>8, <1>9, <1>10, <1>11, <1>12, <1>13 DEF IInv, FlowInv, WorkerInv

-----------------------------------------------------------------------------
(* The world. *)

\* What is held stays held, as what it was.
SameHeld ==
    /\ \A x \in held' : \E y \in held : x.id = y.id /\ x.removeOnly = y.removeOnly
    /\ \A y \in held : \E x \in held' : x.id = y.id /\ x.removeOnly = y.removeOnly
LEMMA HeldKept ==
  ASSUME IInv, SameHeld, \A x, y \in held' : x.id = y.id => x = y, UNCHANGED <<log, got, lost>>
  PROVE  HeldInv' /\ \A k : (ToRemove(k)' <=> ToRemove(k)) /\ (k \in Accepted' <=> k \in Accepted)
<1>1. \A k : k \in Accepted' <=> k \in Accepted
  BY SameAccepted
<1>2. ASSUME NEW k PROVE ToRemove(k)' <=> ToRemove(k)
  <2>1. ASSUME ToRemove(k) PROVE ToRemove(k)'
    <3>1. PICK y \in held : y.id = k /\ y.removeOnly
      BY <2>1 DEF ToRemove
    <3>2. PICK x \in held' : x.id = k /\ x.removeOnly
      BY <3>1 DEF SameHeld
    <3> QED
      BY <3>2 DEF ToRemove
  <2>2. ASSUME ToRemove(k)' PROVE ToRemove(k)
    <3>1. PICK x \in held' : x.id = k /\ x.removeOnly
      BY <2>2 DEF ToRemove
    <3>2. PICK y \in held : y.id = k /\ y.removeOnly
      BY <3>1 DEF SameHeld
    <3> QED
      BY <3>2 DEF ToRemove
  <2> QED
    BY <2>1, <2>2
<1>3. ASSUME NEW x \in held' PROVE x.id \in 1..Len(log') /\ (x.removeOnly => x.id \in Accepted' \cup lost')
  <2>1. PICK y \in held : x.id = y.id /\ x.removeOnly = y.removeOnly
    BY DEF SameHeld
  <2>2. y.id \in 1..Len(log) /\ (y.removeOnly => y.id \in Accepted \cup lost)
    BY DEF IInv, StoreInv, HeldInv
  <2> QED
    BY <1>1, <2>1, <2>2
<1> QED
  BY <1>1, <1>2, <1>3 DEF HeldInv

\* Time passes: rows and what is held change only in when they are due and whether they are old.
LEMMA TimeKeeps ==
  ASSUME IInv, NEW f \in [rows -> StoredRows], \A r \in rows : f[r].id = r.id /\ f[r].ch = r.ch,
         rows' = {f[r] : r \in rows}, held' = {[x EXCEPT !.due = TRUE] : x \in held},
         UNCHANGED <<emitted, bus, direct, log, queue, worker, flight, settled, disp, got, lost, run>>
  PROVE  IInv'
<1>1. /\ rows' \in SUBSET StoredRows
      /\ \A r \in rows' : \E q \in rows : r = f[q] /\ q.id = r.id /\ q.ch = r.ch
      /\ \A q \in rows : \E r \in rows' : r.id = q.id
  <2>1. ASSUME NEW r \in rows'
        PROVE  r \in StoredRows /\ \E q \in rows : r = f[q] /\ q.id = r.id /\ q.ch = r.ch
    <3>1. PICK q \in rows : r = f[q]
      OBVIOUS
    <3>2. f[q] \in StoredRows /\ f[q].id = q.id /\ f[q].ch = q.ch
      OBVIOUS
    <3> QED
      BY <3>1, <3>2
  <2>2. ASSUME NEW q \in rows PROVE \E r \in rows' : r.id = q.id
    <3>1. f[q] \in rows' /\ f[q].id = q.id
      OBVIOUS
    <3> QED
      BY <3>1
  <2> QED
    BY <2>1, <2>2
<1>2. ASSUME NEW r \in rows', NEW q \in rows', r.id = q.id PROVE r = q
  <2>1. PICK s \in rows : r = f[s] /\ s.id = r.id
    BY <1>1
  <2>2. PICK t \in rows : q = f[t] /\ t.id = q.id
    BY <1>1
  <2>3. s = t
    BY <1>2, <2>1, <2>2 DEF IInv, StoreInv, RowInv
  <2> QED
    BY <2>1, <2>2, <2>3
<1>3. BoundInv'
  <2>1. f \in Surjection(rows, rows')
    BY DEF Surjection
  <2>2. IsFiniteSet(rows) /\ Cardinality(rows) <= Limit
    BY DEF IInv, StoreInv, BoundInv
  <2>3. IsFiniteSet(rows') /\ Cardinality(rows') <= Cardinality(rows)
    BY <2>1, <2>2, FS_Surjection
  <2>4. Cardinality(rows') \in Nat /\ Cardinality(rows) \in Nat /\ Limit \in Nat
    BY <2>2, <2>3, FS_CardinalityType, OutboxAssumption
  <2> QED
    BY <2>2, <2>3, <2>4 DEF BoundInv
<1>4. /\ held' \in SUBSET HeldRows
      /\ \A x \in held' : \E y \in held : x = [y EXCEPT !.due = TRUE] /\ x.id = y.id /\ x.removeOnly = y.removeOnly
      /\ \A y \in held : \E x \in held' : x.id = y.id /\ x.removeOnly = y.removeOnly
  <2>1. ASSUME NEW y \in held
        PROVE  /\ [y EXCEPT !.due = TRUE] \in HeldRows
               /\ [y EXCEPT !.due = TRUE].id = y.id /\ [y EXCEPT !.due = TRUE].removeOnly = y.removeOnly
    <3>1. y \in HeldRows
      BY DEF IInv, Types
    <3> QED
      BY <3>1 DEF HeldRows
  <2>2. ASSUME NEW x \in held'
        PROVE  /\ x \in HeldRows
               /\ \E y \in held : x = [y EXCEPT !.due = TRUE] /\ x.id = y.id /\ x.removeOnly = y.removeOnly
    <3>1. PICK y \in held : x = [y EXCEPT !.due = TRUE]
      OBVIOUS
    <3> QED
      BY <2>1, <3>1
  <2>3. ASSUME NEW y \in held PROVE \E x \in held' : x.id = y.id /\ x.removeOnly = y.removeOnly
    <3>1. PICK x : x = [y EXCEPT !.due = TRUE]
      OBVIOUS
    <3>2. x \in held' /\ x.id = y.id /\ x.removeOnly = y.removeOnly
      BY <2>1, <3>1
    <3> QED
      BY <3>2
  <2> QED
    BY <2>2, <2>3
<1>5. ASSUME NEW x \in held', NEW y \in held', x.id = y.id PROVE x = y
  <2>1. PICK s \in held : x = [s EXCEPT !.due = TRUE] /\ x.id = s.id
    BY <1>4
  <2>2. PICK t \in held : y = [t EXCEPT !.due = TRUE] /\ y.id = t.id
    BY <1>4
  <2>3. s = t
    BY <1>5, <2>1, <2>2 DEF IInv, StoreInv, HeldInv
  <2> QED
    BY <2>1, <2>2, <2>3
<1>6. /\ HeldInv'
      /\ \A k : (ToRemove(k)' <=> ToRemove(k)) /\ (Sent(k)' <=> Sent(k)) /\ (k \in Accepted' <=> k \in Accepted)
  <2>1. SameHeld /\ \A x, y \in held' : x.id = y.id => x = y
    BY <1>4, <1>5 DEF SameHeld
  <2>2. \A k : Sent(k)' <=> Sent(k)
    BY DEF Sent
  <2>3. HeldInv' /\ \A k : (ToRemove(k)' <=> ToRemove(k)) /\ (k \in Accepted' <=> k \in Accepted)
    BY <2>1, HeldKept
  <2> QED
    BY <2>2, <2>3
<1>7. Grows /\ RowsFrom
  <2>1. Len(log) \in Nat
    BY LenProperties DEF IInv, Types
  <2> QED
    BY <1>1, <2>1 DEF Grows, RowsFrom
<1>8. RowInv'
  <2>1. ASSUME NEW r \in rows' PROVE (Known(r) /\ After(r) /\ (NotYet(r) \/ ToRemove(r.id) \/ Sent(r.id)))'
    <3>1. PICK q \in rows : q.id = r.id /\ q.ch = r.ch
      BY <1>1
    <3>2. Known(q) /\ After(q) /\ (NotYet(q) \/ ToRemove(q.id) \/ Sent(q.id))
      BY DEF IInv, StoreInv, RowInv
    <3>3. Known(r)' /\ After(r)' /\ (NotYet(q) => NotYet(r)')
      BY <3>1, <3>2 DEF Known, After, NotYet
    <3> QED
      BY <1>6, <3>1, <3>2, <3>3
  <2> QED
    BY <1>2, <2>1 DEF RowInv
<1>9. LogInv' /\ GotInv'
  BY SameAccepted DEF IInv, StoreInv, LogInv, GotInv
<1>10. AccountInv'
  BY SMTT(30), <1>1, <1>6 DEF IInv, StoreInv, AccountInv
<1>11. QueueInv' /\ WorkerInv' /\ AloneInv' /\ HeadInv'
  BY <1>6, <1>7, UnderwayKept, HeadsKept
<1>12. EventInv'
  BY DEF IInv, EventInv, Logged
<1>13. Types'
  BY <1>1, <1>4 DEF IInv, Types
<1> QED
  BY <1>3, <1>6, <1>8, <1>9, <1>10, <1>11, <1>12, <1>13 DEF IInv, StoreInv, FlowInv

LEMMA WaitKeeps == ASSUME IInv, WaitEnds \/ RowsExpire PROVE IInv'
<1>1. rows \in SUBSET StoredRows
  BY DEF IInv, Types
<1>2. CASE WaitEnds
  <2> DEFINE f == [r \in rows |-> [r EXCEPT !.due = TRUE]]
  <2>1. f \in [rows -> StoredRows] /\ \A r \in rows : f[r].id = r.id /\ f[r].ch = r.ch
    BY <1>1 DEF StoredRows
  <2>2. rows' = {f[r] : r \in rows} /\ held' = {[x EXCEPT !.due = TRUE] : x \in held}
    BY <1>2 DEF WaitEnds
  <2> HIDE DEF f
  <2> QED
    BY <1>2, <2>1, <2>2, TimeKeeps DEF WaitEnds
<1>3. CASE RowsExpire
  <2> DEFINE f == [r \in rows |-> [r EXCEPT !.old = TRUE, !.due = TRUE]]
  <2>1. f \in [rows -> StoredRows] /\ \A r \in rows : f[r].id = r.id /\ f[r].ch = r.ch
    BY <1>1 DEF StoredRows
  <2>2. rows' = {f[r] : r \in rows} /\ held' = {[x EXCEPT !.due = TRUE] : x \in held}
    BY <1>3 DEF RowsExpire
  <2> HIDE DEF f
  <2> QED
    BY <1>3, <2>1, <2>2, TimeKeeps DEF RowsExpire
<1> QED
  BY <1>2, <1>3

\* A channel that changes, is deleted or can no longer be read leaves the outbox as it is.
LEMMA ChangeKeeps == ASSUME IInv, NEW c \in Channels, ChangeChannel(c) PROVE IInv'
<1>1. UNCHANGED <<emitted, bus, direct, log, rows, queue, worker, flight, settled, held, disp, got, lost, run>>
  BY DEF ChangeChannel
<1>2. StoreInv' /\ FlowInv'
  BY <1>1, SameRest
<1>3. EventInv' /\ Types'
  BY <1>1 DEF IInv, EventInv, Logged, Types
<1> QED
  BY <1>2, <1>3 DEF IInv

\* A process that starts: nothing under way, nothing held, no head read.
Started ==
    /\ bus = <<>> /\ direct = {} /\ queue = <<>> /\ flight = {} /\ held = {}
    /\ worker = [w \in Workers |-> Resting] /\ settled = {} /\ disp = Asleep

LEMMA StartedFlow == Started => FlowInv
<1>1. SUFFICES ASSUME Started PROVE FlowInv
  OBVIOUS
<1>2. Len(queue) = 0 /\ Len(disp.heads) = 0 /\ disp.pc = "wait" /\ disp.heads = <<>>
  BY <1>1 DEF Started, Asleep
<1>3. \A w \in Workers : worker[w].pc = "idle" /\ worker[w].d.id = 0
  BY <1>1, RestingType DEF Started
<1>4. QueueInv
  BY <1>2 DEF QueueInv
<1>5. WorkerInv
  BY <1>3 DEF WorkerInv, WorkerOK
<1>6. AloneInv
  BY <1>2, <1>3 DEF AloneInv
<1>7. HeadInv
  BY <1>2 DEF HeadInv
<1> QED
  BY <1>4, <1>5, <1>6, <1>7 DEF FlowInv

LEMMA StartedTypes ==
  Started => /\ bus \in Seq(Events) /\ Len(bus) <= BusSize /\ direct \in SUBSET Events
             /\ queue \in Seq(Deliveries) /\ Len(queue) <= QueueSize
             /\ worker \in [Workers -> Working]
             /\ flight \in SUBSET Channels /\ settled \in SUBSET Channels /\ held \in SUBSET HeldRows
             /\ disp \in [pc : {"wait", "read", "heads", "claim"}, heads : Seq(StoredRows)]
<1>1. SUFFICES ASSUME Started
               PROVE  /\ bus \in Seq(Events) /\ Len(bus) <= BusSize /\ direct \in SUBSET Events
                      /\ queue \in Seq(Deliveries) /\ Len(queue) <= QueueSize
                      /\ worker \in [Workers -> Working]
                      /\ flight \in SUBSET Channels /\ settled \in SUBSET Channels /\ held \in SUBSET HeldRows
                      /\ disp \in [pc : {"wait", "read", "heads", "claim"}, heads : Seq(StoredRows)]
  OBVIOUS
<1>2. bus = <<>> /\ queue = <<>> /\ BusSize \in Nat /\ QueueSize \in Nat
  BY <1>1, OutboxAssumption DEF Started
<1>3. worker \in [Workers -> Working]
  BY <1>1, RestingType DEF Started
<1>4. disp \in [pc : {"wait", "read", "heads", "claim"}, heads : Seq(StoredRows)]
  BY <1>1 DEF Started, Asleep
<1> QED
  BY <1>1, <1>2, <1>3, <1>4 DEF Started

\* After a crash no row was accepted from the new process, so every row may be sent.
LEMMA CrashKeeps == ASSUME IInv, Crash PROVE IInv'
<1>1. /\ Started' /\ run' = run + 1 /\ run \in Nat /\ UNCHANGED <<log, rows, got, lost>>
      /\ emitted' = [e \in Events |-> IF emitted[e] = "stored" THEN "published" ELSE emitted[e]]
  BY DEF Crash, Started, Events, IInv, Types
<1>2. FlowInv'
  BY <1>1, StartedFlow, PTL
<1>3. Types'
  <2>1. /\ (bus \in Seq(Events) /\ Len(bus) <= BusSize /\ direct \in SUBSET Events)'
        /\ (queue \in Seq(Deliveries) /\ Len(queue) <= QueueSize)'
        /\ (worker \in [Workers -> Working])'
        /\ (flight \in SUBSET Channels /\ settled \in SUBSET Channels /\ held \in SUBSET HeldRows)'
        /\ (disp \in [pc : {"wait", "read", "heads", "claim"}, heads : Seq(StoredRows)])'
    BY <1>1, StartedTypes, PTL
  <2>2. emitted' \in [Events -> {"new", "stored", "published"}]
    BY <1>1 DEF IInv, Types
  <2>3. log' \in Seq(LogRows) /\ rows' \in SUBSET StoredRows /\ got' \in [Channels -> Seq(Receipts)] /\ run' \in Nat
    BY <1>1 DEF IInv, Types
  <2> QED
    BY <2>1, <2>2, <2>3 DEF Types
<1>4. EventInv'
  <2>1. ASSUME NEW e \in Events, emitted'[e] = "new" PROVE e \notin direct' /\ ~Logged(log', e)
    BY <1>1, <2>1 DEF IInv, EventInv, Started, Logged
  <2>2. \A e \in Events : emitted'[e] # "stored"
    BY <1>1 DEF IInv, Types
  <2>3. bus' = <<>> /\ Len(bus') = 0
    BY <1>1 DEF Started
  <2> QED
    BY <2>1, <2>2, <2>3 DEF EventInv, Logged
<1>5. LogInv' /\ BoundInv' /\ HeldInv'
  BY <1>1 DEF IInv, StoreInv, LogInv, BoundInv, HeldInv, Started
<1>6. AccountInv'
  BY <1>1, SameAccepted DEF IInv, StoreInv, AccountInv
<1>7. ASSUME NEW c \in Channels, NEW i \in 1..Len(got[c]) PROVE got[c][i].run \in Nat /\ got[c][i].run <= run
  <2>1. got[c] \in Seq(Receipts)
    BY DEF IInv, Types
  <2>2. got[c][i] \in Receipts
    BY <2>1, ElementOfSeq
  <2> QED
    BY <2>2 DEF IInv, StoreInv, GotInv, Receipts
<1>8. GotInv'
  BY <1>1, <1>7, SameAccepted DEF IInv, StoreInv, GotInv
<1>9. ASSUME NEW r \in rows PROVE Known(r)' /\ After(r)' /\ NotYet(r)'
  <2>1. Known(r) /\ After(r) /\ r.ch \in Channels
    BY DEF IInv, StoreInv, RowInv, Types, StoredRows
  <2>2. Known(r)' /\ After(r)'
    BY <1>1, <2>1 DEF Known, After
  <2>3. ASSUME NEW i \in 1..Len(got'[r.ch]) PROVE got'[r.ch][i] # [id |-> r.id, run |-> run']
    <3>1. got'[r.ch][i].run # run'
      BY <1>1, <1>7, <2>1
    <3> QED
      BY <3>1
  <2> QED
    BY <2>2, <2>3 DEF NotYet
<1>10. RowInv'
  BY <1>1, <1>9 DEF IInv, StoreInv, RowInv
<1> QED
  BY <1>2, <1>3, <1>4, <1>5, <1>6, <1>8, <1>10 DEF IInv, StoreInv

-----------------------------------------------------------------------------
(* The invariant. *)

LEMMA InitIInv == ASSUME Init PROVE IInv
<1>1. /\ Started /\ emitted = [e \in Events |-> "new"] /\ log = <<>> /\ rows = {}
      /\ got = [c \in Channels |-> <<>>] /\ run = 1
  BY DEF Init, InitMemory, Started, Events
<1>2. FlowInv
  BY <1>1, StartedFlow
<1>3. Types
  <2>1. emitted \in [Events -> {"new", "stored", "published"}] /\ log \in Seq(LogRows) /\ rows \in SUBSET StoredRows
    BY <1>1
  <2>2. got \in [Channels -> Seq(Receipts)] /\ run \in Nat
    BY <1>1
  <2> QED
    BY <1>1, <2>1, <2>2, StartedTypes DEF Types
<1>4. Len(log) = 0 /\ \A c \in Channels : got[c] = <<>> /\ Len(got[c]) = 0 /\ DOMAIN got[c] = {}
  BY <1>1
<1>5. EventInv
  <2>1. Len(bus) = 0 /\ direct = {}
    BY <1>1 DEF Started
  <2> QED
    BY <1>1, <1>4, <2>1 DEF EventInv, Logged
<1>6. LogInv /\ AccountInv
  BY <1>4 DEF LogInv, AccountInv
<1>7. GotInv
  BY <1>4 DEF GotInv, NotSentAgain, InOrder
<1>8. RowInv /\ HeldInv
  BY <1>1 DEF RowInv, HeldInv, Started
<1>9. BoundInv
  BY <1>1, FS_EmptySet, OutboxAssumption DEF BoundInv
<1> QED
  BY <1>2, <1>3, <1>5, <1>6, <1>7, <1>8, <1>9 DEF IInv, StoreInv

LEMMA NextIInv == ASSUME IInv, [Next]_vars PROVE IInv'
<1>1. CASE UNCHANGED vars
  <2>1. UNCHANGED <<emitted, bus, direct, log, rows, queue, worker, flight, settled, held, disp, got, lost, run>>
    BY <1>1 DEF vars, memory
  <2>2. StoreInv' /\ FlowInv'
    BY <2>1, SameRest
  <2>3. EventInv' /\ Types'
    BY <2>1 DEF IInv, EventInv, Logged, Types
  <2> QED
    BY <2>2, <2>3 DEF IInv
<1>2. ASSUME NEW e \in 1..MaxEvents, Emit(e) \/ DeliverNow(e) \/ PublishAlert(e) PROVE IInv'
  BY <1>2, EmitKeeps, DeliverKeeps DEF Events
<1>3. CASE HandleEvent
  BY <1>3, HandleEventKeeps
<1>4. CASE Dispatch
  BY <1>4, SnapshotKeeps, OutboxHeadsKeeps, SkipKeeps, RemoveHeadKeeps, UnreadableKeeps, GetChannelKeeps, ClaimKeeps
     DEF Dispatch
<1>5. ASSUME NEW w \in Workers, Work(w) PROVE IInv'
  BY <1>5, ProcessKeeps, SendKeeps, SettleKeeps, UnclaimKeeps DEF Work
<1>6. CASE WaitEnds \/ RowsExpire
  BY <1>6, WaitKeeps
<1>7. ASSUME NEW c \in Channels, ChangeChannel(c) PROVE IInv'
  BY <1>7, ChangeKeeps
<1>8. CASE Crash
  BY <1>8, CrashKeeps
<1> QED
  BY <1>1, <1>2, <1>3, <1>4, <1>5, <1>6, <1>7, <1>8 DEF Next

LEMMA IInvAccounted == IInv => Accounted
<1>1. SUFFICES ASSUME IInv PROVE Accounted
  OBVIOUS
<1>2. DOMAIN log = 1..Len(log)
  BY <1>1, LenProperties DEF IInv, Types
<1>3. ASSUME NEW r \in rows PROVE r.id \in DOMAIN log /\ r.ch = log[r.id].ch /\ r.tries \in 0..Rounds - 1
  BY <1>1, <1>2 DEF IInv, StoreInv, RowInv, Known, Types, StoredRows
<1>4. TypeOK
  <2>1. \A r, q \in rows : r.id = q.id => r = q
    BY <1>1 DEF IInv, StoreInv, RowInv
  <2>2. Cardinality(rows) <= Limit /\ Len(queue) <= QueueSize /\ Len(bus) <= BusSize
    BY <1>1 DEF IInv, StoreInv, BoundInv, Types
  <2>3. \A x \in held : x.id \in DOMAIN log /\ \A y \in held : x.id = y.id => x = y
    BY <1>1, <1>2 DEF IInv, StoreInv, HeldInv
  <2> QED
    BY <1>3, <2>1, <2>2, <2>3 DEF TypeOK
<1>5. \A i, j \in DOMAIN log : log[i] = log[j] => i = j
  BY <1>1, <1>2 DEF IInv, StoreInv, LogInv
<1>6. \A id \in DOMAIN log : id \in Accepted \cup lost \/ \E r \in rows : r.id = id
  BY <1>1, <1>2 DEF IInv, StoreInv, AccountInv
<1> QED
  BY <1>4, <1>5, <1>6 DEF Accounted

\* The inductive invariant of the outbox holds in every reachable state.
THEOREM OutboxInvariant == Spec => []IInv
<1>1. Init => IInv
  BY InitIInv
<1>2. IInv /\ [Next]_vars => IInv'
  BY NextIInv
<1> QED
  BY <1>1, <1>2, PTL DEF Spec

\* A channel is never sent, by the same process, what it accepted before: not when the row could
\* not be deleted after the send, and not when the dispatcher had read the row before it was settled.
THEOREM SentOnce == Spec => []NotSentAgain
<1>1. IInv => NotSentAgain
  BY DEF IInv, StoreInv, GotInv
<1> QED
  BY <1>1, OutboxInvariant, PTL

\* What a channel accepts from the outbox comes in the order it was stored, across failed rounds,
\* rows held in memory, several workers and crashes.
THEOREM Ordered == Spec => []InOrder
<1>1. IInv => InOrder
  BY DEF IInv, StoreInv, GotInv
<1> QED
  BY <1>1, OutboxInvariant, PTL

\* An event is stored once for each channel, and every row ever stored waits in the outbox, was
\* accepted, or was reported as dropped, expired, discarded or given up; the outbox, the bus and
\* the queue stay within their limits.
THEOREM NothingLost == Spec => []Accounted
  BY OutboxInvariant, IInvAccounted, PTL

=============================================================================

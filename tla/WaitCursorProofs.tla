-------------------------- MODULE WaitCursorProofs --------------------------
(***************************************************************************)
(* Proofs about the message stream and the waiting client, for any number  *)
(* of senders and messages and any queue, page and channel sizes.          *)
(***************************************************************************)
EXTENDS WaitCursor, FiniteSetTheorems, SequenceTheorems, WellFoundedInduction, TLAPS

(* What the greatest number is, from the well-foundedness of < on Nat. *)

(* A non-empty set of natural numbers has a least element. *)
LEMMA LeastNat ==
    ASSUME NEW T, T \subseteq Nat, T # {}
    PROVE  \E x \in T : \A y \in T : x <= y
<1> DEFINE R == OpToRel(<, Nat)
<1>1. \E x \in T : \A y \in T : ~ (<<y, x>> \in R)
  BY WFMin, NatLessThanWellFounded
<1>2. PICK x \in T : \A y \in T : ~ (<<y, x>> \in R)
  BY <1>1
<1>3. ASSUME NEW y \in T PROVE x <= y
  <2>1. ~ (<<y, x>> \in {ss \in Nat \X Nat : ss[1] < ss[2]})
    BY <1>2 DEF OpToRel
  <2> QED BY <2>1
<1> QED BY <1>3

(* The greatest of some numbers up to n is one of them. *)
LEMMA MaxOfGreatest ==
    ASSUME NEW n \in Nat, NEW S, S \subseteq 0..n, S # {}
    PROVE  MaxOf(S) \in S /\ \A y \in S : y <= MaxOf(S)
<1> DEFINE T == {n - x : x \in S}
<1>1. T \subseteq Nat /\ T # {}
  <2>1. \A x \in S : n - x \in Nat
    OBVIOUS
  <2> QED BY <2>1
<1>2. PICK t \in T : \A y \in T : t <= y
  BY <1>1, LeastNat
<1>3. PICK m \in S : t = n - m
  BY <1>2
<1>4. \A y \in S : n - y \in T
  OBVIOUS
<1>5. \A y \in S : y <= m
  BY <1>2, <1>3, <1>4
<1> QED BY <1>5 DEF MaxOf

(* Empty or not, it lies in the range. *)
LEMMA MaxOfBound ==
    ASSUME NEW n \in Nat, NEW S, S \subseteq 0..n
    PROVE  MaxOf(S) \in 0..n /\ \A y \in S : y <= MaxOf(S)
<1>1. CASE S = {}
  BY <1>1 DEF MaxOf
<1>2. CASE S # {}
  <2>1. MaxOf(S) \in S /\ \A y \in S : y <= MaxOf(S)
    BY <1>2, MaxOfGreatest
  <2>2. \A x \in S : x \in 0..n
    OBVIOUS
  <2> QED BY <2>1, <2>2
<1> QED BY <1>1, <1>2

-----------------------------------------------------------------------------

(* The numbers handed out are exactly those up to the high water mark, and *)
(* only they can be retained, be on their way or be in a queue.            *)
LogInv ==
    /\ kind \in [Seqs -> AllKinds \cup {"free"}]
    /\ highWater \in 0..MaxSeq
    /\ retained \subseteq 1..highWater
    /\ \A q \in Seqs : kind[q] # "free" <=> q <= highWater

-----------------------------------------------------------------------------
(* Every step of the server and of the client keeps the log in order and   *)
(* leaves the rows it has already written alone.                           *)
LEMMA LogStep ==
    ASSUME LogInv, [Next]_vars
    PROVE  /\ LogInv'
           /\ \A q \in Seqs : kind[q] # "free" => kind'[q] = kind[q]
<1> DEFINE Goal == /\ LogInv'
                   /\ \A q \in Seqs : kind[q] # "free" => kind'[q] = kind[q]
           Quiet == /\ kind' = kind /\ highWater' = highWater
                    /\ retained' \subseteq retained
<1> USE StreamAssumption
<1>0. MaxOf(retained) \in 0..highWater
  <2>1. highWater \in Nat /\ retained \subseteq 0..highWater
    BY DEF LogInv
  <2> QED BY <2>1, MaxOfBound
<1>1. ASSUME Quiet PROVE Goal
  BY <1>1 DEF LogInv
<1>2. ASSUME NEW s \in Senders, NEW k \in Kinds, Insert(s, k) PROVE Goal
  BY <1>2 DEF LogInv, Insert, Seqs, AllKinds
<1>3. ASSUME NEW s \in Senders, Broadcast(s) PROVE Goal
  BY <1>1, <1>3 DEF Broadcast
<1>4. ASSUME NEW k \in Kinds, LegacyInsert(k) PROVE Goal
  <2>1. MaxOf(retained) + 1 = highWater + 1
    BY <1>0, <1>4 DEF LogInv, LegacyInsert
  <2>2. /\ highWater + 1 <= MaxSeq
        /\ kind' = [kind EXCEPT ![highWater + 1] = k]
        /\ retained' = retained \cup {highWater + 1}
        /\ highWater' = highWater + 1
    BY <2>1, <1>4 DEF LogInv, LegacyInsert, Larger
  <2> QED BY <2>2 DEF LogInv, Seqs, AllKinds
<1>5. ASSUME NEW q \in Seqs, Purge(q) PROVE Goal
  BY <1>1, <1>5 DEF Purge
<1>6. CASE LinkLost
  BY <1>1, <1>6 DEF LinkLost
<1>7. CASE ServerRestart
  <2>1. highWater' = highWater
    BY <1>0, <1>7 DEF LogInv, ServerRestart, Larger
  <2> QED BY <1>1, <1>7, <2>1 DEF ServerRestart
<1>8. CASE Deliver \/ WaiterStep \/ IdleExpire \/ Crash
  <2>1. Quiet
    BY <1>8 DEF Deliver, WaiterStep, IdleExpire, Crash, Connect, ResolveTip,
       Join, Pull, Subscribe, BacklogTip, Page, Live, LiveTimeout, Reconnect,
       FollowEmit, FollowSave, Drain, LoopEmit, LoopSave, StoreSame, stream
  <2> QED BY <1>1, <2>1
<1>9. CASE UNCHANGED vars
  BY <1>1, <1>9 DEF vars, stream
<1> QED
  BY <1>2, <1>3, <1>4, <1>5, <1>6, <1>7, <1>8, <1>9 DEF Next, StreamNext

(* The log invariant holds at every moment of every run. *)
THEOREM LogCorrect == Spec => []LogInv
<1>1. Init => LogInv
  BY StreamAssumption DEF Init, StreamInit, LogInv, Seqs
<1>2. LogInv /\ [Next]_vars => LogInv'
  BY LogStep
<1> QED BY <1>1, <1>2, PTL DEF Spec

(* A number handed out once is never handed out again: retention, restart  *)
(* and an old binary included, whatever the client does.                   *)
THEOREM NumbersNotReused == Spec => SeqNeverReused
<1>1. LogInv /\ [Next]_vars =>
          [\A q \in Seqs : kind[q] # "free" => kind'[q] = kind[q]]_stream
  BY LogStep
<1> QED BY <1>1, LogCorrect, PTL DEF Spec, SeqNeverReused

-----------------------------------------------------------------------------
(* Lemmas about pages of the history and about queues.                     *)

(* MinOf is the least element. *)
LEMMA MinOfLeast ==
    ASSUME NEW T, T \subseteq Nat, T # {}
    PROVE  MinOf(T) \in T /\ \A y \in T : MinOf(T) <= y
BY LeastNat DEF MinOf

(* The rows there are, up to some number, are finitely many. *)
LEMMA FiniteRows ==
    ASSUME LogInv, NEW T, T \subseteq retained
    PROVE  IsFiniteSet(T)
<1>1. highWater \in Int /\ retained \subseteq 1..highWater
  BY StreamAssumption DEF LogInv
<1>2. IsFiniteSet(1..highWater)
  BY <1>1, FS_Interval
<1> QED BY <1>1, <1>2, FS_Subset

(* A page has every row up to its last one. *)
LEMMA PagePrefix ==
    ASSUME LogInv, NEW q \in Int, NEW n \in Nat, NEW b \in HistoryAfter(q, n),
           NEW r \in retained, q < r, r < b
    PROVE  r \in HistoryAfter(q, n)
<1> DEFINE C == {y \in retained : q < y /\ y <= r}
           D == {y \in retained : q < y /\ y <= b}
<1>1. retained \subseteq Int /\ b \in retained
  BY StreamAssumption DEF LogInv, HistoryAfter
<1>2. C \in SUBSET D
  <2>1. ASSUME NEW y \in C PROVE y \in D
    <3>1. y \in Int /\ r \in Int /\ b \in Int /\ y <= r
      BY <1>1
    <3> QED BY <3>1
  <2> QED BY <2>1
<1>3. IsFiniteSet(D)
  <2>1. D \subseteq retained
    OBVIOUS
  <2> QED BY <2>1, FiniteRows
<1>4. Cardinality(C) <= Cardinality(D) /\ IsFiniteSet(C)
  BY <1>2, <1>3, FS_Subset
<1>5. Cardinality(C) \in Nat /\ Cardinality(D) \in Nat
  BY <1>3, <1>4, FS_CardinalityType
<1>6. Cardinality(D) <= n
  BY DEF HistoryAfter
<1>7. Cardinality(C) <= n
  BY <1>4, <1>5, <1>6
<1> QED BY <1>7 DEF HistoryAfter

(* A page begins with the first row there is. *)
LEMMA PageBegins ==
    ASSUME LogInv, NEW q \in Int, NEW n \in Nat \ {0}, NEW r \in retained, q < r
    PROVE  \E b \in HistoryAfter(q, n) : b <= r
<1> DEFINE S == {y \in retained : q < y}
<1>1. S \subseteq Nat /\ S # {} /\ r \in S
  <2>1. retained \subseteq Nat
    BY StreamAssumption DEF LogInv
  <2> QED BY <2>1
<1>2. PICK b \in S : \A y \in S : b <= y
  BY <1>1, LeastNat
<1>3. {y \in retained : q < y /\ y <= b} = {b}
  BY <1>1, <1>2
<1>4. Cardinality({y \in retained : q < y /\ y <= b}) <= n
  <2>1. Cardinality({b}) = 1
    BY FS_Singleton
  <2> QED BY <1>3, <2>1
<1> QED BY <1>1, <1>2, <1>4 DEF HistoryAfter

(* What a page consists of. *)
LEMMA PageRows ==
    ASSUME NEW q, NEW n
    PROVE  HistoryAfter(q, n) \subseteq {x \in retained : x > q}
BY DEF HistoryAfter

(* The queue of the connection and the channel of the client hold what a   *)
(* sequence may hold, whatever is taken in.                                *)
LEMMA TakeInSeq ==
    ASSUME NEW S, events \in Seq(S), NEW es \in Seq(S), TakeIn(es)
    PROVE  events' \in Seq(S) /\ dropped \subseteq dropped'
<1> DEFINE all == events \o es
           cut == IF Len(all) > EventCap THEN Len(all) - EventCap ELSE 0
<1>1. all \in Seq(S) /\ Len(all) \in Nat
  BY ConcatProperties
<1>2. cut \in 0..Len(all)
  BY <1>1, WaitAssumption
<1>3. /\ events' = IF subscribed THEN SubSeq(all, cut + 1, Len(all)) ELSE events
      /\ dropped \subseteq dropped'
  BY DEF TakeIn
<1> HIDE DEF all, cut
<1>4. \A i \in (cut + 1)..Len(all) : all[i] \in S
  BY <1>1, <1>2, ElementOfSeq
<1>5. SubSeq(all, cut + 1, Len(all)) \in Seq(S)
  BY <1>1, <1>2, <1>4, SubSeqProperties
<1> QED BY <1>3, <1>5

(* Everything on its way to the waiting process, first to last. *)
Coming == events \o outbox

(* Taking in the front of the queue loses nothing that is not counted as   *)
(* dropped, and keeps the order.                                           *)
LEMMA TakeInShifts ==
    ASSUME NEW S, events \in Seq(S), NEW es \in Seq(S), NEW rest \in Seq(S),
           outbox = es \o rest, subscribed, TakeIn(es), outbox' = rest
    PROVE  \E cut \in 0..Len(Coming) :
              /\ Len(Coming') = Len(Coming) - cut
              /\ \A i \in 1..Len(Coming') : Coming'[i] = Coming[i + cut]
              /\ \A i \in 1..cut : Coming[i] \in dropped'
<1> DEFINE all == events \o es
           cut == IF Len(all) > EventCap THEN Len(all) - EventCap ELSE 0
<1>1. /\ all \in Seq(S) /\ Len(all) \in Nat /\ Len(all) = Len(events) + Len(es)
      /\ \A i \in 1..Len(all) :
            all[i] = IF i <= Len(events) THEN events[i] ELSE es[i - Len(events)]
  BY ConcatProperties
<1>2. cut \in 0..Len(all)
  BY <1>1, WaitAssumption
<1>3. /\ events' = SubSeq(all, cut + 1, Len(all))
      /\ \A i \in 1..cut : all[i] \in dropped'
  BY DEF TakeIn
<1>4. /\ outbox \in Seq(S) /\ Len(outbox) = Len(es) + Len(rest)
      /\ \A i \in 1..Len(outbox) :
            outbox[i] = IF i <= Len(es) THEN es[i] ELSE rest[i - Len(es)]
  BY ConcatProperties
<1> HIDE DEF all, cut
<1>5. \A i \in (cut + 1)..Len(all) : all[i] \in S
  BY <1>1, <1>2, ElementOfSeq
<1>6. /\ events' \in Seq(S) /\ Len(events') = Len(all) - cut
      /\ \A i \in 1..(Len(all) - cut) : events'[i] = all[i + cut]
  <2>1. /\ SubSeq(all, cut + 1, Len(all)) \in Seq(S)
        /\ Len(SubSeq(all, cut + 1, Len(all))) =
              IF cut + 1 <= Len(all) THEN Len(all) - (cut + 1) + 1 ELSE 0
        /\ \A i \in 1..(Len(all) - (cut + 1) + 1) :
              SubSeq(all, cut + 1, Len(all))[i] = all[cut + 1 + i - 1]
    BY <1>1, <1>2, <1>5, SubSeqProperties
  <2>2. \A i \in Int : cut + 1 + i - 1 = i + cut
    BY <1>2
  <2> QED BY <1>1, <1>2, <1>3, <2>1, <2>2
<1>7. /\ Len(Coming) = Len(events) + Len(outbox)
      /\ \A i \in 1..Len(Coming) :
            Coming[i] = IF i <= Len(events) THEN events[i] ELSE outbox[i - Len(events)]
  BY <1>4, ConcatProperties DEF Coming
<1>8. /\ Len(Coming') = Len(events') + Len(rest)
      /\ \A i \in 1..Len(Coming') :
            Coming'[i] = IF i <= Len(events') THEN events'[i] ELSE rest[i - Len(events')]
  BY <1>6, ConcatProperties DEF Coming
<1>9. /\ Len(events) \in Nat /\ Len(es) \in Nat /\ Len(rest) \in Nat /\ cut \in Nat
      /\ cut <= Len(all)
  BY <1>1, <1>2
<1>10. ASSUME NEW i \in 1..Len(all) PROVE Coming[i] = all[i]
  <2>1. CASE i <= Len(events)
    <3>1. i \in 1..Len(Coming)
      BY <1>1, <1>4, <1>7, <1>9
    <3>2. Coming[i] = events[i]
      BY <1>7, <2>1, <3>1
    <3> QED BY <1>1, <2>1, <3>2
  <2>2. CASE ~(i <= Len(events))
    <3>1. i - Len(events) \in 1..Len(es)
      BY <1>1, <1>9, <2>2
    <3>2. Coming[i] = outbox[i - Len(events)]
      BY <1>1, <1>4, <1>7, <1>9, <2>2
    <3>3. outbox[i - Len(events)] = es[i - Len(events)]
      BY <1>4, <1>9, <3>1
    <3> QED BY <1>1, <2>2, <3>2, <3>3
  <2> QED BY <2>1, <2>2
<1>11. Len(Coming') = Len(Coming) - cut
  BY <1>1, <1>4, <1>6, <1>7, <1>8, <1>9
<1>12. ASSUME NEW i \in 1..Len(Coming') PROVE Coming'[i] = Coming[i + cut]
  <2>1. CASE i <= Len(events')
    <3>1. i + cut \in 1..Len(all) /\ i \in 1..(Len(all) - cut)
      BY <1>6, <1>9, <2>1
    <3> QED BY <1>6, <1>8, <1>10, <2>1, <3>1
  <2>2. CASE ~(i <= Len(events'))
    <3>1. /\ Coming'[i] = rest[i - Len(events')]
          /\ i - Len(events') = (i + cut) - Len(all)
          /\ i + cut > Len(all) /\ i + cut <= Len(Coming)
      BY <1>6, <1>8, <1>9, <1>11, <2>2
    <3>2. Coming[i + cut] = outbox[(i + cut) - Len(events)]
      <4>1. i \in Nat \ {0} /\ Len(Coming) \in Nat
        BY <1>4, <1>6, <1>7, <1>8, <1>9
      <4>2. i + cut \in 1..Len(Coming) /\ ~(i + cut <= Len(events))
        BY <1>1, <1>9, <3>1, <4>1
      <4> QED BY <1>7, <4>2
    <3>3. /\ (i + cut) - Len(events) > Len(es)
          /\ (i + cut) - Len(events) \in 1..Len(outbox)
          /\ ((i + cut) - Len(events)) - Len(es) = (i + cut) - Len(all)
      BY <1>1, <1>4, <1>7, <1>9, <3>1
    <3>4. outbox[(i + cut) - Len(events)] = rest[(i + cut) - Len(all)]
      <4>1. ~((i + cut) - Len(events) <= Len(es))
        BY <1>9, <3>3
      <4>2. outbox[(i + cut) - Len(events)] = rest[((i + cut) - Len(events)) - Len(es)]
        BY <1>4, <3>3, <4>1
      <4> QED BY <3>3, <4>2
    <3> QED BY <3>1, <3>2, <3>4
  <2> QED BY <2>1, <2>2
<1>13. \A i \in 1..cut : Coming[i] \in dropped'
  <2>1. \A i \in 1..cut : i \in 1..Len(all)
    BY <1>9
  <2> QED BY <1>3, <1>10, <2>1
<1>14. cut \in 0..Len(Coming)
  BY <1>1, <1>4, <1>7, <1>9
<1> QED BY <1>11, <1>12, <1>13, <1>14

-----------------------------------------------------------------------------
(* Numbers a waiting process knows are numbers that were handed out.       *)

Handed == {NoCursor} \cup 0..highWater

NumbersKnown == {cursor, since, file, scanned, tip, floor} \subseteq Handed

QueuesKnown == /\ events \in Seq(1..highWater) /\ outbox \in Seq(1..highWater)
               /\ sending \in [Senders -> 0..highWater]

BatchKnown == /\ batch \subseteq 1..highWater
              /\ pc \in {"drain", "emit", "save"} => batch # {}

Bounds == NumbersKnown /\ QueuesKnown /\ BatchKnown

(* A connection that has not joined is about to; a process that looks at   *)
(* the backlog or waits has a receiver.                                    *)
Linked ==
    /\ link \in {"down", "up", "in", "kicked"}
    /\ link = "up" => pc = "join" \/ (pc = "resolve" /\ mode = "follow")
    /\ pc \in {"tip", "page", "live"} => subscribed

(* --follow writes the file when it moves the cursor up.                   *)
Followed ==
    mode = "follow" => /\ file <= cursor
                       /\ pc = "save" => MinOf(batch) > cursor

(* No step forgets what was printed, overtaken or dropped, or changes a    *)
(* row; and no row comes back.                                             *)
Grows ==
    /\ highWater <= highWater'
    /\ \A r \in 1..highWater : kind'[r] = kind[r] /\ (r \in retained' => r \in retained)
    /\ shown \subseteq shown' /\ overtaken \subseteq overtaken'
    /\ dropped \subseteq dropped'

(* Steps of the server, of the waiting process and of its client's reader. *)
ClientStep == Deliver \/ WaiterStep \/ IdleExpire \/ Crash

(* The client's own steps leave the server's rows and queue alone. *)
LEMMA ClientKeepsStore ==
    ClientStep => UNCHANGED <<kind, retained, highWater, sending, overtaken, losses>>
BY DEF ClientStep, Deliver, WaiterStep, IdleExpire, Crash, Connect, ResolveTip,
       Join, Pull, Subscribe, BacklogTip, Page, Live, LiveTimeout, Reconnect,
       FollowEmit, FollowSave, Drain, LoopEmit, LoopSave, StoreSame, stream

(* Rows are only added, the mark only goes up, losses stay on record. *)
LEMMA StepGrows ==
    ASSUME LogInv, [Next]_vars
    PROVE  Grows
<1>1. /\ LogInv' /\ highWater \in 0..MaxSeq /\ retained \subseteq 1..highWater
      /\ \A q \in Seqs : kind[q] # "free" => kind'[q] = kind[q]
      /\ \A q \in Seqs : kind[q] # "free" <=> q <= highWater
  BY LogStep DEF LogInv
<1>2. \A r \in 1..highWater : kind'[r] = kind[r]
  BY <1>1, StreamAssumption DEF Seqs
<1>3. CASE UNCHANGED vars
  BY <1>1, <1>2, <1>3, StreamAssumption DEF vars, stream, waiter, Grows
<1>4. CASE ClientStep
  <2>1. highWater' = highWater /\ retained' = retained /\ overtaken' = overtaken
    BY <1>4, ClientKeepsStore
  <2>2. shown \subseteq shown'
    BY <1>4 DEF ClientStep, Deliver, WaiterStep, IdleExpire, Crash, Connect, ResolveTip,
       Join, Pull, Subscribe, BacklogTip, Page, Live, LiveTimeout, Reconnect,
       FollowEmit, FollowSave, Drain, LoopEmit, LoopSave
  <2>3. \A es : TakeIn(es) => dropped \subseteq dropped'
    BY DEF TakeIn
  <2>4. dropped \subseteq dropped'
    BY <1>4, <2>3 DEF ClientStep, Deliver, WaiterStep, IdleExpire, Crash, Connect,
       ResolveTip, Join, Pull, Subscribe, BacklogTip, Page, Live, LiveTimeout, Reconnect,
       FollowEmit, FollowSave, Drain, LoopEmit, LoopSave, Request, stream
  <2> QED BY <1>1, <1>2, <2>1, <2>2, <2>4, StreamAssumption DEF Grows
<1>5. CASE StreamNext /\ UNCHANGED waiter
  <2>1. shown' = shown
    BY <1>5 DEF waiter
  <2>2. overtaken \subseteq overtaken' /\ dropped \subseteq dropped'
    BY <1>5 DEF StreamNext, Insert, Broadcast, LegacyInsert, Purge, LinkLost, ServerRestart
  <2>3. MaxOf(retained) \in 0..highWater
    <3>1. highWater \in Nat /\ retained \subseteq 0..highWater
      BY <1>1, StreamAssumption
    <3> QED BY <3>1, MaxOfBound
  <2>4. highWater <= highWater'
        /\ \A r \in 1..highWater : r \in retained' => r \in retained
    <3>1. CASE \E s \in Senders, k \in Kinds : Insert(s, k)
      BY <1>1, <3>1, StreamAssumption DEF Insert
    <3>2. CASE \E k \in Kinds : LegacyInsert(k)
      BY <1>1, <2>3, <3>2, StreamAssumption DEF LegacyInsert, Larger
    <3>3. CASE \E s \in Senders : Broadcast(s)
      BY <1>1, <3>3, StreamAssumption DEF Broadcast
    <3>4. CASE LinkLost \/ \E q \in Seqs : Purge(q)
      BY <1>1, <3>4, StreamAssumption DEF LinkLost, Purge
    <3>5. CASE ServerRestart
      BY <1>1, <2>3, <3>5, StreamAssumption DEF ServerRestart, Larger
    <3> QED BY <1>5, <3>1, <3>2, <3>3, <3>4, <3>5 DEF StreamNext
  <2> QED BY <1>2, <2>1, <2>2, <2>4 DEF Grows
<1> QED BY <1>3, <1>4, <1>5 DEF Next, ClientStep

(* A number that was handed out stays one.                                 *)
LEMMA HandedStays ==
    ASSUME LogInv, LogInv', Grows
    PROVE  /\ Handed \subseteq Handed' /\ 1..highWater \subseteq 1..highWater'
           /\ \A s : s \in Seq(1..highWater) => s \in Seq(1..highWater')
<1>1. highWater \in Int /\ highWater' \in Int /\ highWater <= highWater'
  BY StreamAssumption DEF LogInv, Grows
<1>2. 1..highWater \subseteq 1..highWater' /\ 0..highWater \subseteq 0..highWater'
  BY <1>1
<1>3. ASSUME NEW s, s \in Seq(1..highWater) PROVE s \in Seq(1..highWater')
  BY <1>2, <1>3, SeqMonotonic
<1> QED BY <1>2, <1>3 DEF Handed

(* What a page of history can hold. *)
LEMMA PageNumbers ==
    ASSUME LogInv, NEW q, NEW n
    PROVE  /\ HistoryAfter(q, n) \subseteq 1..highWater
           /\ highWater \in Handed /\ 1..highWater \subseteq Handed
           /\ 1..highWater \subseteq Nat /\ highWater \in Nat
<1>1. HistoryAfter(q, n) \subseteq 1..highWater
  BY DEF LogInv, HistoryAfter
<1>2. highWater \in Nat
  BY StreamAssumption DEF LogInv
<1> QED BY <1>1, <1>2 DEF Handed

(* The greatest number of a set that is not empty is one of its numbers. *)
LEMMA MaxKnown ==
    ASSUME LogInv, NEW S, S \subseteq 1..highWater, S # {}
    PROVE  /\ MaxOf(S) \in S /\ \A y \in S : y <= MaxOf(S)
           /\ MinOf(S) \in S /\ \A y \in S : MinOf(S) <= y
           /\ MaxOf(S) \in 1..highWater /\ MinOf(S) \in 1..highWater
<1>1. highWater \in Nat /\ S \subseteq 0..highWater /\ S \subseteq Nat
  BY StreamAssumption DEF LogInv
<1> QED BY <1>1, MaxOfGreatest, MinOfLeast

(* No step takes a number outside those handed out. *)
LEMMA NumbersStep ==
    ASSUME LogInv, Bounds, [Next]_vars
    PROVE  NumbersKnown'
<1>1. LogInv' /\ Grows
  BY LogStep, StepGrows
<1>2. Handed \subseteq Handed'
  BY <1>1, HandedStays
<1>3. /\ {cursor, since, file, scanned, tip, floor} \subseteq Handed
      /\ highWater \in Handed /\ NoCursor \in Handed
      /\ \A q \in 1..highWater : q \in Handed
  BY PageNumbers DEF Bounds, NumbersKnown, Handed
<1>4. batch # {} => MinOf(batch) \in Handed /\ MaxOf(batch) \in Handed
  BY <1>3, MaxKnown DEF Bounds, BatchKnown
<1>5. \A n : LET rows == {x \in HistoryAfter(scanned, n) : x <= tip}
                 peers == {x \in rows : kind[x] \in {"chat", "filtered"}}
             IN  /\ peers # {} => MinOf(peers) \in Handed
                 /\ rows # {} => MaxOf(rows) \in Handed
  BY <1>3, MaxKnown, PageNumbers
<1>6. events # <<>> => Head(events) \in Handed
  BY <1>3, HeadTailProperties DEF Bounds, QueuesKnown
<1>7. CASE UNCHANGED waiter
  BY <1>2, <1>3, <1>7 DEF waiter, NumbersKnown
<1>8. CASE ClientStep
  <2>1. Handed' = Handed
    BY <1>8, ClientKeepsStore DEF Handed
  <2>2. CASE Page
    <3> DEFINE rows == {x \in HistoryAfter(scanned, PageLimit) : x <= tip}
               peers == {x \in rows : kind[x] \in {"chat", "filtered"}}
    <3>1. /\ peers # {} => MinOf(peers) \in Handed
          /\ rows # {} => MaxOf(rows) \in Handed
      BY <1>5
    <3>2. UNCHANGED <<since, file, tip, floor>> /\ PageResult(rows)
      BY <2>2 DEF Page
    <3>3. cursor' \in {cursor, MinOf(peers)} /\ (peers = {} => cursor' = cursor)
      BY <3>2 DEF PageResult, Return
    <3>4. scanned' \in {scanned, MaxOf(rows)} /\ (rows = {} => scanned' = scanned)
      BY <3>2 DEF PageResult, Return
    <3> HIDE DEF rows, peers
    <3>5. cursor' \in Handed /\ scanned' \in Handed
      BY <1>3, <3>1, <3>3, <3>4
    <3> QED BY <1>3, <2>1, <3>2, <3>5 DEF NumbersKnown
  <2>3. CASE Live
    <3>1. UNCHANGED <<since, file, tip, scanned, floor>> /\ cursor' \in {cursor, Head(events)}
          /\ events # <<>>
      BY <2>3 DEF Live, Return
    <3> QED BY <1>3, <1>6, <2>1, <3>1 DEF NumbersKnown
  <2>4. CASE FollowEmit \/ FollowSave \/ LoopSave
    <3>1. /\ tip' \in {tip, NoCursor} /\ floor' = floor
          /\ scanned' \in {scanned, NoCursor}
          /\ batch # {}
          /\ since' \in {since, MaxOf(batch)}
          /\ cursor' \in {cursor, MinOf(batch), MaxOf(batch)}
          /\ file' \in {file, MinOf(batch), MaxOf(batch)}
      BY <2>4 DEF FollowEmit, FollowSave, LoopSave, Rerun, Bounds, BatchKnown
    <3> QED BY <1>3, <1>4, <2>1, <3>1 DEF NumbersKnown
  <2>5. CASE ResolveTip \/ BacklogTip \/ IdleExpire \/ Crash
    <3>1. /\ cursor' \in {cursor, highWater, file} /\ since' \in {since, highWater, file}
          /\ floor' \in {floor, highWater} /\ file' = file
          /\ tip' \in {tip, highWater, NoCursor}
          /\ scanned' \in {scanned, cursor, NoCursor}
      BY <2>5 DEF ResolveTip, BacklogTip, IdleExpire, Crash, Rerun
    <3> QED BY <1>3, <2>1, <3>1 DEF NumbersKnown
  <2>6. CASE \/ Deliver \/ Connect \/ Join \/ Pull \/ Subscribe \/ LiveTimeout \/ Reconnect
             \/ Drain \/ LoopEmit
    <3>1. UNCHANGED <<cursor, since, file, scanned, tip, floor>>
      BY <2>6 DEF Deliver, Connect, Join, Pull, Subscribe, LiveTimeout, Reconnect,
         Drain, LoopEmit
    <3> QED BY <1>3, <2>1, <3>1 DEF NumbersKnown
  <2> QED BY <1>8, <2>2, <2>3, <2>4, <2>5, <2>6 DEF ClientStep, WaiterStep
<1> QED BY <1>7, <1>8 DEF Next, ClientStep, vars

(* No step puts a row into the batch that was not handed out. *)
LEMMA BatchStep ==
    ASSUME LogInv, Bounds, [Next]_vars
    PROVE  BatchKnown'
<1>1. LogInv' /\ Grows
  BY LogStep, StepGrows
<1>2. 1..highWater \subseteq 1..highWater' /\ batch \subseteq 1..highWater
  BY <1>1, HandedStays DEF Bounds, BatchKnown
<1>3. CASE UNCHANGED waiter
  BY <1>2, <1>3 DEF waiter, Bounds, BatchKnown
<1>4. CASE ClientStep
  <2>1. 1..highWater' = 1..highWater
    BY <1>4, ClientKeepsStore
  <2>2. \A q, n : HistoryAfter(q, n) \subseteq 1..highWater
    BY PageNumbers
  <2>3. CASE Page
    <3> DEFINE rows == {x \in HistoryAfter(scanned, PageLimit) : x <= tip}
               peers == {x \in rows : kind[x] \in {"chat", "filtered"}}
    <3>1. peers # {} => MinOf(peers) \in 1..highWater
      BY <2>2, MaxKnown
    <3>2. pc = "page" /\ PageResult(rows)
      BY <2>3 DEF Page
    <3>3. \/ batch' = batch /\ pc' \in {"subscribe", "page", "live"}
          \/ peers # {} /\ batch' = {MinOf(peers)}
      BY <3>2 DEF PageResult, Return
    <3> HIDE DEF rows, peers
    <3> QED BY <1>2, <2>1, <3>1, <3>3 DEF BatchKnown
  <2>4. CASE Live
    <3>1. events # <<>> => Head(events) \in 1..highWater
      BY HeadTailProperties DEF Bounds, QueuesKnown
    <3>2. /\ events # <<>>
          /\ \/ batch' = batch /\ pc' \in {"subscribe", "live"}
             \/ batch' = {Head(events)}
      BY <2>4 DEF Live, Return
    <3> QED BY <1>2, <2>1, <3>1, <3>2 DEF BatchKnown
  <2>5. CASE FollowEmit
    <3>1. \/ batch' = batch /\ batch # {}
          \/ /\ batch' = batch \ {MinOf(batch)}
             /\ pc' = IF batch' = {} THEN "pull" ELSE "emit"
      BY <2>5 DEF FollowEmit, Bounds, BatchKnown
    <3> QED BY <1>2, <2>1, <3>1 DEF BatchKnown
  <2>6. CASE FollowSave
    <3>1. /\ batch' = batch \ {MinOf(batch)}
          /\ pc' = IF batch' = {} THEN "pull" ELSE "emit"
      BY <2>6 DEF FollowSave
    <3> QED BY <1>2, <2>1, <3>1 DEF BatchKnown
  <2>7. CASE Pull
    <3>1. /\ batch' = HistoryAfter(cursor, PullLimit)
          /\ pc' = IF batch' = {} THEN "subscribe" ELSE "emit"
      BY <2>7 DEF Pull
    <3> QED BY <2>1, <2>2, <3>1 DEF BatchKnown
  <2>8. CASE Drain
    <3> DEFINE rows == {x \in HistoryAfter(since, PullLimit) :
                            kind[x] \in {"chat", "filtered"}}
    <3>1. batch' \in {batch, batch \cup rows} /\ pc = "drain"
      BY <2>8 DEF Drain
    <3>2. rows \subseteq 1..highWater
      BY <2>2
    <3> HIDE DEF rows
    <3> QED BY <1>2, <2>1, <3>1, <3>2 DEF Bounds, BatchKnown
  <2>9. CASE LoopEmit
    BY <1>2, <2>1, <2>9 DEF LoopEmit, Bounds, BatchKnown
  <2>10. CASE LoopSave \/ IdleExpire \/ Crash
    BY <2>10 DEF LoopSave, IdleExpire, Crash, Rerun, BatchKnown
  <2>11. CASE \/ ResolveTip \/ BacklogTip \/ Connect \/ Join \/ Subscribe \/ LiveTimeout
              \/ Reconnect
    <3>1. batch' = batch /\ pc' \notin {"drain", "emit", "save"}
      BY <2>11 DEF ResolveTip, BacklogTip, Connect, Join, Subscribe, LiveTimeout, Reconnect
    <3> QED BY <1>2, <2>1, <3>1 DEF BatchKnown
  <2>12. CASE Deliver
    BY <1>2, <2>1, <2>12 DEF Deliver, Bounds, BatchKnown
  <2> QED BY <1>4, <2>3, <2>4, <2>5, <2>6, <2>7, <2>8, <2>9, <2>10, <2>11, <2>12
          DEF ClientStep, WaiterStep
<1> QED BY <1>3, <1>4 DEF Next, ClientStep, vars

(* No step puts a row into outbox or events that was not handed out. *)
LEMMA QueuesStep ==
    ASSUME LogInv, Bounds, [Next]_vars
    PROVE  QueuesKnown'
<1> DEFINE S == 1..highWater
<1>1. LogInv' /\ Grows
  BY LogStep, StepGrows
<1>2. /\ S \subseteq S' /\ \A s : s \in Seq(S) => s \in Seq(S')
      /\ highWater \in Nat /\ highWater' \in Nat /\ highWater <= highWater'
  BY <1>1, HandedStays, StreamAssumption DEF LogInv, Grows
<1>3. events \in Seq(S) /\ outbox \in Seq(S) /\ sending \in [Senders -> 0..highWater]
  BY DEF Bounds, QueuesKnown
<1>4. <<>> \in Seq(S) /\ <<>> \in Seq(S')
  OBVIOUS
<1>5. CASE ClientStep
  <2>1. sending' = sending /\ highWater' = highWater
    BY <1>5, ClientKeepsStore
  <2>2. events' \in Seq(S) /\ outbox' \in Seq(S)
    <3>1. \A es \in Seq(S) : TakeIn(es) => events' \in Seq(S)
      BY <1>3, TakeInSeq
    <3>2. CASE Request
      BY <1>3, <1>4, <3>1, <3>2 DEF Request
    <3>3. CASE Deliver
      <4>1. /\ outbox # <<>> /\ TakeIn(<<Head(outbox)>>)
            /\ outbox' = Tail(outbox)
        BY <3>3 DEF Deliver
      <4>2. Head(outbox) \in S /\ Tail(outbox) \in Seq(S)
        BY <1>3, <4>1, HeadTailProperties
      <4>3. \A x \in S : <<x>> \in Seq(S)
        OBVIOUS
      <4>4. <<Head(outbox)>> \in Seq(S)
        BY <4>2, <4>3
      <4> QED BY <3>1, <4>1, <4>2, <4>4
    <3>4. CASE Page
      <4>1. outbox' = <<>> /\ (events' = <<>> \/ TakeIn(outbox))
        BY <3>4 DEF Page
      <4> QED BY <1>3, <1>4, <3>1, <4>1
    <3>5. CASE Live
      <4>1. events # <<>> /\ events' \in {<<>>, Tail(events)} /\ outbox' = outbox
        BY <3>5 DEF Live, stream
      <4> QED BY <1>3, <1>4, <4>1, HeadTailProperties
    <3>6. CASE Crash \/ IdleExpire \/ LoopSave
      BY <1>4, <3>6 DEF Crash, IdleExpire, LoopSave, Rerun, Unsubscribe
    <3>7. CASE Drain /\ ~Request
      BY <1>3, <3>7 DEF Drain
    <3>8. CASE \/ Connect \/ Join \/ Subscribe \/ LiveTimeout \/ Reconnect
               \/ FollowEmit \/ FollowSave \/ LoopEmit
      <4>1. outbox' = outbox /\ (events' = events \/ events' = <<>>)
        BY <3>8 DEF Connect, Join, Subscribe, LiveTimeout, Reconnect, FollowEmit,
           FollowSave, LoopEmit, Unsubscribe, stream
      <4> QED BY <1>3, <1>4, <4>1
    <3>9. ResolveTip \/ Pull \/ BacklogTip => Request
      BY DEF ResolveTip, Pull, BacklogTip
    <3> QED BY <1>5, <3>2, <3>3, <3>4, <3>5, <3>6, <3>7, <3>8, <3>9
            DEF ClientStep, WaiterStep
  <2> QED BY <1>3, <2>1, <2>2 DEF QueuesKnown
<1>6. CASE UNCHANGED vars
  BY <1>3, <1>6 DEF vars, stream, waiter, QueuesKnown
<1>7. CASE StreamNext /\ UNCHANGED waiter
  <2>1. events' \in Seq(S')
    BY <1>2, <1>3, <1>7 DEF waiter
  <2>2. outbox' \in Seq(S')
    <3>1. ASSUME NEW s \in Senders, Broadcast(s) PROVE outbox' \in Seq(S)
      <4>1. sending[s] \in S
        BY <1>2, <1>3, <3>1 DEF Broadcast
      <4>2. outbox' = outbox \/ outbox' = Append(outbox, sending[s])
        BY <3>1 DEF Broadcast
      <4>3. Append(outbox, sending[s]) \in Seq(S)
        BY <1>3, <4>1, AppendProperties
      <4> QED BY <1>3, <4>2, <4>3
    <3>2. CASE ~(\E s \in Senders : Broadcast(s))
      <4>1. outbox' = outbox \/ outbox' = <<>>
        BY <1>7, <3>2 DEF StreamNext, Insert, LegacyInsert, Purge, LinkLost, ServerRestart
      <4> QED BY <1>2, <1>3, <1>4, <4>1
    <3> QED BY <1>2, <3>1, <3>2
  <2>3. sending' \in [Senders -> 0..highWater']
    <3>1. CASE \E s \in Senders, k \in Kinds : Insert(s, k)
      BY <1>2, <1>3, <3>1 DEF Insert
    <3>2. CASE \E s \in Senders : Broadcast(s)
      BY <1>2, <1>3, <3>2 DEF Broadcast
    <3>3. CASE ServerRestart
      BY <1>2, <3>3 DEF ServerRestart
    <3>4. CASE sending' = sending
      BY <1>2, <1>3, <3>4
    <3>5. LinkLost \/ (\E k \in Kinds : LegacyInsert(k)) \/ (\E q \in Seqs : Purge(q))
             => sending' = sending
      BY DEF LinkLost, LegacyInsert, Purge
    <3> QED BY <1>7, <3>1, <3>2, <3>3, <3>4, <3>5 DEF StreamNext
  <2> QED BY <2>1, <2>2, <2>3 DEF QueuesKnown
<1> QED BY <1>5, <1>6, <1>7 DEF Next, ClientStep

(* The bounds of all numbers, by the three lemmas above. *)
LEMMA BoundsStep ==
    ASSUME LogInv, Bounds, [Next]_vars
    PROVE  Bounds'
BY NumbersStep, BatchStep, QueuesStep DEF Bounds

(* The connection and the step of the process stay in keeping. *)
LEMMA LinkedStep ==
    ASSUME Linked, [Next]_vars
    PROVE  Linked'
<1>1. CASE UNCHANGED vars
  BY <1>1 DEF vars, stream, waiter, Linked
<1>2. CASE StreamNext /\ UNCHANGED waiter
  <2>1. pc' = pc /\ mode' = mode /\ subscribed' = subscribed
    BY <1>2 DEF waiter
  <2>2. link' = link \/ link' \in {"kicked", "down"}
    BY <1>2 DEF StreamNext, Insert, Broadcast, LegacyInsert, Purge, LinkLost, ServerRestart
  <2> QED BY <2>1, <2>2 DEF Linked
<1>3. CASE Deliver
  BY <1>3 DEF Deliver, Linked
<1>4. CASE IdleExpire \/ Crash
  BY <1>4 DEF IdleExpire, Crash, Rerun, Linked
<1>5. CASE WaiterStep
  <2>1. mode' = mode
    BY <1>5 DEF WaiterStep
  <2>2. CASE Connect \/ ResolveTip \/ Join
    BY <2>1, <2>2 DEF Connect, ResolveTip, Join, Linked, Request, Connected
  <2>3. CASE Pull \/ Subscribe \/ BacklogTip
    BY <2>1, <2>3 DEF Pull, Subscribe, BacklogTip, Linked, stream
  <2>4. CASE Page
    <3>1. /\ link' = link /\ pc = "page"
          /\ \/ pc' \in {"subscribe", "drain", "emit"}
             \/ pc' \in {"page", "live"} /\ subscribed' = subscribed
      BY <2>4 DEF Page, PageResult, Return
    <3> QED BY <2>1, <3>1 DEF Linked
  <2>5. CASE Live
    <3>1. /\ link' = link /\ pc = "live"
          /\ \/ pc' \in {"subscribe", "drain", "emit"}
             \/ pc' = pc /\ subscribed' = subscribed
      BY <2>5 DEF Live, Return, stream
    <3> QED BY <2>1, <3>1 DEF Linked
  <2>6. CASE LiveTimeout \/ Reconnect
    BY <2>1, <2>6 DEF LiveTimeout, Reconnect, Connected, Linked, stream
  <2>7. CASE FollowEmit \/ FollowSave
    BY <2>1, <2>7 DEF FollowEmit, FollowSave, Linked, stream
  <2>8. CASE Drain \/ LoopEmit \/ LoopSave
    BY <2>1, <2>8 DEF Drain, LoopEmit, LoopSave, Rerun, Linked, stream
  <2> QED BY <1>5, <2>2, <2>3, <2>4, <2>5, <2>6, <2>7, <2>8 DEF WaiterStep
<1> QED BY <1>1, <1>2, <1>3, <1>4, <1>5 DEF Next

(* The file of --follow is never ahead of its cursor, and moves up.        *)
LEMMA FollowedStep ==
    ASSUME LogInv, Bounds, Followed, [Next]_vars
    PROVE  Followed' /\ (mode = "follow" => file' >= file)
<1> DEFINE Goal == Followed' /\ (mode = "follow" => file' >= file)
<1>0. file \in Int /\ cursor \in Int /\ highWater \in Int /\ file <= highWater
  BY StreamAssumption DEF LogInv, Bounds, NumbersKnown, Handed, NoCursor
<1>4. pc \in {"emit", "save"} => MinOf(batch) \in Int
  <2>1. pc \in {"emit", "save"} => MinOf(batch) \in 1..highWater
    BY MaxKnown DEF Bounds, BatchKnown
  <2>2. 1..highWater \subseteq Int
    BY <1>0
  <2> QED BY <2>1, <2>2
<1>1. CASE UNCHANGED waiter
  BY <1>0, <1>1 DEF waiter, Followed
<1>2. CASE ~(mode = "follow")
  <2>1. mode' = mode \/ UNCHANGED vars
    BY DEF Next, Deliver, WaiterStep, IdleExpire, Crash, waiter
  <2>2. mode' = mode
    BY <2>1 DEF vars, waiter
  <2> QED BY <1>2, <2>2 DEF Followed
<1>3. CASE mode = "follow" /\ ClientStep
  <2>1. mode' = mode
    BY <1>3 DEF ClientStep, Deliver, WaiterStep, IdleExpire, Crash
  <2>2. CASE FollowEmit
    <3> DEFINE q == MinOf(batch)
    <3>1. q \in Int
      BY <1>4, <2>2 DEF FollowEmit
    <3>2. \/ pc' # "save" /\ cursor' = cursor /\ file' = file
          \/ pc' # "save" /\ q > cursor /\ cursor' = q /\ file' = q
          \/ q > cursor /\ cursor' = cursor /\ file' = file /\ batch' = batch
      BY <2>2 DEF FollowEmit
    <3> QED BY <1>0, <2>1, <3>1, <3>2 DEF Followed
  <2>3. CASE FollowSave
    <3> DEFINE q == MinOf(batch)
    <3>1. q \in Int /\ q > cursor
      BY <1>3, <1>4, <2>3 DEF FollowSave, Followed
    <3>2. pc' # "save" /\ cursor' = q /\ file' = q
      BY <2>3 DEF FollowSave
    <3> QED BY <1>0, <1>3, <2>1, <3>1, <3>2 DEF Followed
  <2>4. CASE ResolveTip
    BY <1>0, <1>3, <2>1, <2>4 DEF ResolveTip, Followed
  <2>5. CASE Page \/ Live
    <3>1. pc' # "save" /\ cursor' = cursor /\ file' = file
      BY <1>3, <2>5 DEF Page, PageResult, Live, Return
    <3> QED BY <1>0, <1>3, <2>1, <3>1 DEF Followed
  <2>6. CASE IdleExpire \/ Crash
    BY <1>0, <2>6 DEF IdleExpire, Crash, Rerun, Followed
  <2>7. CASE Deliver
    BY <1>0, <2>7 DEF Deliver, Followed
  <2>8. CASE \/ Connect \/ Join \/ Pull \/ Subscribe \/ BacklogTip \/ LiveTimeout
             \/ Reconnect \/ Drain
    <3>1. pc' # "save" /\ cursor' = cursor /\ file' = file
      BY <2>8 DEF Connect, Join, Pull, Subscribe, BacklogTip, LiveTimeout, Reconnect,
         Drain
    <3> QED BY <1>0, <1>3, <2>1, <3>1 DEF Followed
  <2>9. ~LoopEmit /\ ~LoopSave
    BY <1>3 DEF LoopEmit, LoopSave
  <2> QED BY <1>3, <2>2, <2>3, <2>4, <2>5, <2>6, <2>7, <2>8, <2>9
          DEF ClientStep, WaiterStep
<1> QED BY <1>1, <1>2, <1>3 DEF Next, ClientStep, vars

-----------------------------------------------------------------------------
(* What the cursor may pass.                                               *)

(* A peer's message after the point where the reading started.             *)
Due(r) == floor # NoCursor /\ floor < r /\ kind[r] = "chat"

(* Its event came after a later one, or did not come.                      *)
Lost(r) == r \in overtaken \cup dropped

(* Printed, lost, or deleted before it could be read.                      *)
Seen(r) == r \in shown \/ Lost(r) \/ r \notin retained

(* The numbers a cursor may stand at.                                      *)
Clear == {x \in Handed : \A r \in Seqs : Due(r) /\ r <= x => Seen(r)}

(* The cursor stands there in memory and on disk, and so do the rows       *)
(* already looked through and, once the process waits, the whole backlog.  *)
Read ==
    /\ {cursor, since, file} \subseteq Clear
    /\ pc = "page" => scanned \in Clear
    /\ pc = "live" => tip \in Clear

(* Everything below a row of the batch is in the batch or dealt with.      *)
Batched ==
    /\ pc \in {"drain", "emit", "save"} =>
          \A b \in batch, r \in Seqs : Due(r) /\ r < b => r \in batch \/ Seen(r)
    /\ pc = "save" => IF mode = "follow" THEN MinOf(batch) \in shown
                                         ELSE batch \subseteq shown

(* A message before one on its way came, or is coming, ahead of it.        *)
InOrder ==
    \A i \in 1..Len(Coming), r \in Seqs :
        tip < r /\ r < Coming[i] /\ kind[r] = "chat" =>
            Lost(r) \/ \E j \in 1..(i - 1) : Coming[j] = r

(* A message since the backlog was fixed is on its way or will be sent.    *)
AllComing ==
    \A r \in Seqs :
        tip < r /\ r <= highWater /\ kind[r] = "chat" =>
            \/ Lost(r)
            \/ \E s \in Senders : sending[s] = r
            \/ \E j \in 1..Len(Coming) : Coming[j] = r

Heard == pc \in {"page", "live"} => InOrder /\ (link # "down" => AllComing)

(* What the cursor may pass, it may pass after any later step. *)
LEMMA SeenStays ==
    ASSUME LogInv, Grows, NEW r \in 1..highWater, floor' \in Int
    PROVE  /\ Seen(r) => Seen(r)'
           /\ Lost(r) => Lost(r)'
           /\ floor' = floor => (Due(r)' <=> Due(r))
           /\ highWater <= floor' => ~Due(r)'
<1>1. highWater \in Int /\ r \in Int /\ r <= highWater
  BY StreamAssumption DEF LogInv
<1>2. Seen(r) => Seen(r)'
  BY DEF Grows, Seen, Lost
<1>3. Lost(r) => Lost(r)'
  BY DEF Grows, Lost
<1>4. floor' = floor => (Due(r)' <=> Due(r))
  BY DEF Grows, Due
<1>5. highWater <= floor' => ~Due(r)'
  <2>1. Due(r)' => floor' < r
    BY DEF Due
  <2> QED BY <1>1, <2>1
<1> QED BY <1>2, <1>3, <1>4, <1>5

(* The starting point is fixed once, at the high water mark of the moment. *)
LEMMA FloorMoves ==
    ASSUME LogInv, Bounds, [Next]_vars
    PROVE  /\ floor' \in Int
           /\ floor' # floor => ResolveTip /\ floor' = highWater
<1>1. LogInv' /\ Bounds'
  BY LogStep, BoundsStep
<1>2. floor' \in Int
  <2>1. highWater' \in Int /\ floor' \in Handed'
    BY <1>1, StreamAssumption DEF LogInv, Bounds, NumbersKnown
  <2> QED BY <2>1 DEF Handed, NoCursor
<1>3. CASE UNCHANGED waiter
  BY <1>2, <1>3 DEF waiter
<1>4. CASE ResolveTip
  BY <1>2, <1>4 DEF ResolveTip
<1>5. CASE ClientStep /\ ~ResolveTip
  <2>1. floor' = floor
    BY <1>5 DEF ClientStep, Deliver, WaiterStep, IdleExpire, Crash, Connect,
       Join, Pull, Subscribe, BacklogTip, Page, Live, LiveTimeout, Reconnect,
       FollowEmit, FollowSave, Drain, LoopEmit, LoopSave
  <2> QED BY <1>2, <2>1
<1> QED BY <1>3, <1>4, <1>5 DEF Next, ClientStep, vars

(* Where a cursor may stand it may go on standing; and when the starting   *)
(* point is fixed, it may stand anywhere up to there.                      *)
LEMMA ClearStays ==
    ASSUME LogInv, Bounds, [Next]_vars
    PROVE  /\ Clear \subseteq Clear'
           /\ floor' # floor => Handed \subseteq Clear'
<1>1. LogInv' /\ Grows /\ floor' \in Int /\ Handed \subseteq Handed'
  BY LogStep, StepGrows, FloorMoves, HandedStays
<1>2. highWater \in Int /\ Handed \subseteq Int /\ \A x \in Handed : x <= highWater
  BY StreamAssumption DEF LogInv, Handed, NoCursor
<1>3. ASSUME NEW x \in Handed, NEW r \in Seqs, r <= x PROVE r \in 1..highWater
  BY <1>2, <1>3 DEF Seqs
<1>4. ASSUME NEW x \in Clear PROVE x \in Clear'
  <2>1. x \in Handed
    BY DEF Clear
  <2>2. ASSUME NEW r \in Seqs, Due(r)', r <= x PROVE Seen(r)'
    <3>1. r \in 1..highWater
      BY <1>3, <2>1, <2>2
    <3>2. floor' = floor
      BY <1>1, <2>2, <3>1, SeenStays, FloorMoves, <1>2
    <3>3. Due(r)
      BY <1>1, <2>2, <3>1, <3>2, SeenStays
    <3>4. Seen(r)
      BY <2>2, <3>3 DEF Clear
    <3> QED BY <1>1, <3>1, <3>4, SeenStays
  <2> HIDE DEF Due, Seen
  <2> QED BY <1>1, <2>1, <2>2 DEF Clear
<1>5. ASSUME floor' # floor, NEW x \in Handed PROVE x \in Clear'
  <2>1. highWater <= floor'
    BY <1>2, <1>5, FloorMoves
  <2>2. ASSUME NEW r \in Seqs, r <= x PROVE ~Due(r)'
    <3>1. r \in 1..highWater
      BY <1>3, <2>2
    <3> QED BY <1>1, <2>1, <3>1, SeenStays
  <2> HIDE DEF Due, Seen
  <2> QED BY <1>1, <2>2 DEF Clear
<1> QED BY <1>4, <1>5

(* A cursor may stand at a row when everything below it is dealt with and  *)
(* the row itself is no message that is due, or has been printed.          *)
LEMMA ClearAt ==
    ASSUME LogInv, NEW q \in 1..highWater,
           \A r \in Seqs : Due(r) /\ r < q => Seen(r),
           ~Due(q) \/ Seen(q)
    PROVE  q \in Clear
<1>1. q \in Handed /\ q \in Int
  BY StreamAssumption DEF LogInv, Handed
<1>2. ASSUME NEW r \in Seqs, Due(r), r <= q PROVE Seen(r)
  <2>1. r < q \/ r = q
    BY <1>1, <1>2 DEF Seqs
  <2> HIDE DEF Due, Seen
  <2> QED BY <1>2, <2>1
<1> HIDE DEF Due, Seen
<1> QED BY <1>1, <1>2 DEF Clear

(* What lies below a row of a page that starts at a good place is in the   *)
(* page or dealt with.                                                     *)
LEMMA PageSeen ==
    ASSUME LogInv, NEW a \in Clear, NEW n \in Nat, NEW b \in HistoryAfter(a, n),
           NEW r \in Seqs, Due(r), r < b
    PROVE  r \in HistoryAfter(a, n) \/ Seen(r)
<1>1. a \in Int /\ r \in Int
  BY StreamAssumption DEF LogInv, Clear, Handed, NoCursor, Seqs
<1>2. CASE r <= a
  BY <1>2 DEF Clear
<1>3. CASE r \notin retained
  BY <1>3 DEF Seen
<1>4. CASE a < r /\ r \in retained
  BY <1>1, <1>4, PagePrefix
<1> QED BY <1>1, <1>2, <1>3, <1>4

(* The first message of somebody else in the page: nothing due is skipped. *)
LEMMA PageFound ==
    ASSUME LogInv, NEW a \in Clear, NEW n \in Nat, NEW t,
           NEW peers, peers # {},
           peers = {x \in {y \in HistoryAfter(a, n) : y <= t} :
                       kind[x] \in {"chat", "filtered"}},
           t \in Int
    PROVE  /\ MinOf(peers) \in peers /\ MinOf(peers) \in 1..highWater
           /\ \A r \in Seqs : Due(r) /\ r < MinOf(peers) => Seen(r)
<1>1. peers \subseteq 1..highWater /\ highWater \in Int
  BY PageNumbers
<1>2. MinOf(peers) \in peers /\ \A y \in peers : MinOf(peers) <= y
  BY <1>1, MaxKnown
<1>3. ASSUME NEW r \in Seqs, Due(r), r < MinOf(peers) PROVE Seen(r)
  <2>1. MinOf(peers) \in HistoryAfter(a, n) /\ MinOf(peers) <= t /\ MinOf(peers) \in Int
    BY <1>1, <1>2
  <2>2. r \in HistoryAfter(a, n) \/ Seen(r)
    BY <1>3, <2>1, PageSeen
  <2>3. r \in HistoryAfter(a, n) => r \in peers
    BY <1>3, <2>1 DEF Due, Seqs
  <2>4. r \notin peers
    BY <1>2, <1>3, <2>1 DEF Seqs
  <2> QED BY <2>2, <2>3, <2>4
<1> QED BY <1>1, <1>2, <1>3

(* Nobody else's message in the page: it may be gone through, and where it *)
(* ends the backlog, so has the backlog.                                   *)
LEMMA PageDone ==
    ASSUME LogInv, NEW a \in Clear, NEW n \in Nat \ {0}, NEW t \in Handed,
           NEW rows, rows = {x \in HistoryAfter(a, n) : x <= t},
           {x \in rows : kind[x] \in {"chat", "filtered"}} = {}
    PROVE  /\ rows # {} => MaxOf(rows) \in Clear
           /\ rows = {} \/ ~(MaxOf(rows) < t) => t \in Clear
<1>1. rows \subseteq 1..highWater /\ highWater \in Int /\ t \in Int
  BY PageNumbers DEF Handed, NoCursor
<1>2. \A r \in rows : ~Due(r)
  BY DEF Due
<1>3. ASSUME rows # {} PROVE MaxOf(rows) \in Clear /\ MaxOf(rows) <= t
  <2>1. MaxOf(rows) \in rows /\ MaxOf(rows) \in 1..highWater
    BY <1>1, <1>3, MaxKnown
  <2>2. MaxOf(rows) \in HistoryAfter(a, n) /\ MaxOf(rows) <= t /\ MaxOf(rows) \in Int
    BY <1>1, <2>1
  <2>3. ASSUME NEW r \in Seqs, Due(r), r < MaxOf(rows) PROVE Seen(r)
    <3>1. r \in HistoryAfter(a, n) \/ Seen(r)
      BY <2>2, <2>3, PageSeen
    <3>2. r <= t
      BY <1>1, <2>2, <2>3 DEF Seqs
    <3> HIDE DEF Due, Seen
    <3> QED BY <1>2, <2>3, <3>1, <3>2
  <2> HIDE DEF Due, Seen
  <2> QED BY <1>2, <2>1, <2>2, <2>3, ClearAt
<1>4. ASSUME rows = {} PROVE t \in Clear
  <2>1. a \in Int
    BY <1>1 DEF Clear, Handed, NoCursor
  <2>2. ASSUME NEW r \in Seqs, Due(r), r <= t PROVE Seen(r)
    <3>1. CASE r <= a
      BY <2>2, <3>1 DEF Clear
    <3>2. CASE r \notin retained
      BY <3>2 DEF Seen
    <3>3. CASE a < r /\ r \in retained
      <4>1. PICK b \in HistoryAfter(a, n) : b <= r
        BY <2>1, <3>3, PageBegins
      <4>2. b \in Int /\ r \in Int
        BY <1>1, PageNumbers DEF Seqs
      <4>3. b <= t
        BY <1>1, <2>2, <4>1, <4>2
      <4> QED BY <1>4, <4>1, <4>3
    <3>4. r \in Int
      BY DEF Seqs
    <3> QED BY <2>1, <3>1, <3>2, <3>3, <3>4
  <2> HIDE DEF Due, Seen
  <2> QED BY <2>2 DEF Clear
<1>5. ASSUME rows # {}, ~(MaxOf(rows) < t) PROVE t \in Clear
  <2>1. MaxOf(rows) \in Int
    <3>1. MaxOf(rows) \in 1..highWater
      BY <1>1, <1>5, MaxKnown
    <3> QED BY <1>1, <3>1
  <2>2. MaxOf(rows) = t
    BY <1>1, <1>3, <1>5, <2>1
  <2> QED BY <1>3, <1>5, <2>2
<1> QED BY <1>3, <1>4, <1>5

(* The next live event: nothing due lies below it.                         *)
LEMMA LiveFound ==
    ASSUME LogInv, Bounds, Read, Heard, pc = "live", events # <<>>
    PROVE  /\ Head(events) \in 1..highWater
           /\ \A r \in Seqs : Due(r) /\ r < Head(events) => Seen(r)
<1>1. events \in Seq(1..highWater) /\ outbox \in Seq(1..highWater)
  BY DEF Bounds, QueuesKnown
<1>2. Head(events) \in 1..highWater /\ Head(events) = events[1] /\ Len(events) \in Nat \ {0}
  <2>1. Head(events) \in 1..highWater
    BY <1>1, HeadTailProperties
  <2>2. Head(events) = events[1] /\ Len(events) \in Nat
    BY <1>1
  <2>3. Len(events) # 0
    BY <1>1, EmptySeq
  <2> QED BY <2>1, <2>2, <2>3
<1>3. Coming[1] = Head(events) /\ 1 \in 1..Len(Coming)
  BY <1>1, <1>2, ConcatProperties DEF Coming
<1>4. tip \in Int /\ tip \in Clear
  <2>1. highWater \in Int /\ tip \in Clear
    BY StreamAssumption DEF LogInv, Read
  <2> QED BY <2>1 DEF Clear, Handed, NoCursor
<1>5. ASSUME NEW r \in Seqs, Due(r), r < Head(events) PROVE Seen(r)
  <2>1. CASE r <= tip
    BY <1>4, <1>5, <2>1 DEF Clear
  <2>2. CASE tip < r
    <3>1. InOrder /\ kind[r] = "chat"
      BY <1>5 DEF Heard, Due
    <3>2. Lost(r) \/ \E j \in 1..(1 - 1) : Coming[j] = r
      BY <1>3, <1>5, <2>2, <3>1 DEF InOrder
    <3> QED BY <3>2 DEF Seen
  <2>3. r \in Int
    BY DEF Seqs
  <2> QED BY <1>4, <2>1, <2>2, <2>3
<1> QED BY <1>2, <1>5

(* Every step of reading takes a cursor only to where one may stand. *)
LEMMA ReadStep ==
    ASSUME LogInv, Bounds, Read, Batched, Heard, [Next]_vars
    PROVE  Read'
<1> USE WaitAssumption
<1>1. Clear \subseteq Clear'
  BY ClearStays
<1>2. {cursor, since, file} \subseteq Clear
  BY DEF Read
<1>3. CASE UNCHANGED waiter
  BY <1>1, <1>3 DEF waiter, Read
<1>4. CASE ClientStep
  <2>1. CASE Connect \/ Join \/ Pull \/ Subscribe \/ LiveTimeout \/ Reconnect \/ Drain \/ LoopEmit
    <3>1. UNCHANGED <<cursor, since, file>> /\ pc' \notin {"page", "live"}
      BY <2>1 DEF Connect, Join, Pull, Subscribe, LiveTimeout, Reconnect, Drain, LoopEmit
    <3> QED BY <1>1, <1>2, <3>1 DEF Read
  <2>2. CASE Deliver
    <3>1. UNCHANGED <<cursor, since, file, scanned, tip, pc>>
      BY <2>2 DEF Deliver
    <3> QED BY <1>1, <1>2, <3>1 DEF Read
  <2>3. CASE ResolveTip
    <3>1. /\ cursor' = highWater /\ since' = highWater /\ floor' = highWater
          /\ file' = file /\ pc' \notin {"page", "live"}
      BY <2>3 DEF ResolveTip
    <3>2. highWater \in Clear'
      <4>1. highWater \in Handed
        BY PageNumbers
      <4>2. CASE floor' # floor
        BY <4>1, <4>2, ClearStays
      <4>3. CASE floor' = floor
        <5>1. \A r \in Seqs : Due(r) => ~(r <= highWater)
          BY <3>1, <4>3, PageNumbers DEF Due, Seqs
        <5>2. highWater \in Clear
          BY <4>1, <5>1 DEF Clear
        <5> QED BY <1>1, <5>2
      <4> QED BY <4>2, <4>3
    <3> QED BY <1>1, <1>2, <3>1, <3>2 DEF Read
  <2>4. CASE BacklogTip
    <3>1. /\ UNCHANGED <<cursor, since, file>> /\ scanned' = cursor /\ tip' = highWater
          /\ pc' = IF cursor < highWater THEN "page" ELSE "live"
      BY <2>4 DEF BacklogTip
    <3>2. ~(cursor < highWater) => cursor = highWater
      BY PageNumbers DEF Bounds, NumbersKnown, Handed, NoCursor
    <3> QED BY <1>1, <1>2, <3>1, <3>2 DEF Read
  <2>5. CASE Page
    <3> DEFINE rows == {x \in HistoryAfter(scanned, PageLimit) : x <= tip}
               peers == {x \in rows : kind[x] \in {"chat", "filtered"}}
    <3>1. scanned \in Clear /\ tip \in Handed /\ tip \in Int
      BY <2>5, PageNumbers DEF Page, Read, Bounds, NumbersKnown, Handed, NoCursor
    <3>2. UNCHANGED <<since, file, tip>> /\ PageResult(rows)
      BY <2>5 DEF Page
    <3>3. CASE peers # {}
      <4>1. /\ pc' \notin {"page", "live"}
            /\ cursor' = cursor \/ (cursor' = MinOf(peers) /\ kind[MinOf(peers)] = "filtered")
        BY <3>2, <3>3 DEF PageResult, Return
      <4>2. /\ MinOf(peers) \in 1..highWater
            /\ \A r \in Seqs : Due(r) /\ r < MinOf(peers) => Seen(r)
        <5>1. PageLimit \in Nat
          OBVIOUS
        <5>2. peers = {x \in {y \in HistoryAfter(scanned, PageLimit) : y <= tip} :
                          kind[x] \in {"chat", "filtered"}}
          OBVIOUS
        <5> HIDE DEF rows, peers, Due, Seen
        <5> QED BY <3>1, <3>3, <5>1, <5>2, PageFound
      <4>3. kind[MinOf(peers)] = "filtered" => MinOf(peers) \in Clear
        <5>1. kind[MinOf(peers)] = "filtered" => ~Due(MinOf(peers))
          BY DEF Due
        <5> QED BY <4>2, <5>1, ClearAt
      <4> QED BY <1>1, <1>2, <3>2, <4>1, <4>3 DEF Read
    <3>4. CASE peers = {}
      <4>1. /\ cursor' = cursor
            /\ scanned' = IF rows = {} THEN scanned ELSE MaxOf(rows)
            /\ pc' = IF rows # {} /\ MaxOf(rows) < tip THEN "page" ELSE "live"
        BY <3>2, <3>4 DEF PageResult
      <4>2. /\ rows # {} => MaxOf(rows) \in Clear
            /\ rows = {} \/ ~(MaxOf(rows) < tip) => tip \in Clear
        BY <3>1, <3>4, PageDone
      <4> HIDE DEF rows
      <4> QED BY <1>1, <1>2, <3>1, <3>2, <4>1, <4>2 DEF Read
    <3> QED BY <3>3, <3>4
  <2>6. CASE Live
    <3>1. UNCHANGED <<since, file, tip>> /\ pc = "live" /\ events # <<>>
      BY <2>6 DEF Live
    <3>2. \/ cursor' = cursor /\ pc' \notin {"page", "live"}
          \/ cursor' = cursor /\ pc' = pc
          \/ /\ cursor' = Head(events) /\ kind[Head(events)] = "filtered"
             /\ pc' \notin {"page", "live"}
      BY <2>6 DEF Live, Return
    <3>3. kind[Head(events)] = "filtered" => Head(events) \in Clear
      <4>1. kind[Head(events)] = "filtered" => ~Due(Head(events))
        BY DEF Due
      <4> QED BY <3>1, <4>1, LiveFound, ClearAt
    <3> QED BY <1>1, <1>2, <3>1, <3>2, <3>3 DEF Read
  <2>7. CASE FollowEmit \/ FollowSave
    <3> DEFINE q == MinOf(batch)
    <3>1. pc \in {"emit", "save"} /\ mode = "follow" /\ (FollowSave => pc = "save")
      BY <2>7 DEF FollowEmit, FollowSave
    <3>2. q \in 1..highWater /\ q \in batch /\ \A r \in batch : ~(r < q)
      <4>1. batch \subseteq 1..highWater /\ batch # {}
        BY <3>1 DEF Bounds, BatchKnown
      <4>2. q \in 1..highWater /\ q \in batch /\ \A r \in batch : q <= r
        BY <4>1, MaxKnown
      <4>3. \A r \in batch : r \in Int
        BY <4>1, PageNumbers
      <4> QED BY <4>2, <4>3
    <3>3. \A r \in Seqs : Due(r) /\ r < q => Seen(r)
      BY <3>1, <3>2 DEF Batched
    <3>4. /\ since' = since /\ pc' \notin {"page", "live"}
          /\ \/ cursor' = cursor /\ file' = file
             \/ /\ cursor' = q /\ file' = q
                /\ kind[q] # "chat" \/ pc = "save"
      BY <2>7 DEF FollowEmit, FollowSave
    <3>5. kind[q] # "chat" \/ pc = "save" => ~Due(q) \/ Seen(q)
      BY <3>1 DEF Due, Batched, Seen
    <3>6. kind[q] # "chat" \/ pc = "save" => q \in Clear
      BY <3>2, <3>3, <3>5, ClearAt
    <3> HIDE DEF q
    <3> QED BY <1>1, <1>2, <3>4, <3>6 DEF Read
  <2>8. CASE LoopSave
    <3>1. /\ pc = "save" /\ mode # "follow" /\ pc' = "connect"
          /\ cursor' = MaxOf(batch) /\ since' = MaxOf(batch) /\ file' = MaxOf(batch)
      BY <2>8 DEF LoopSave, Rerun
    <3>2. MaxOf(batch) \in batch /\ MaxOf(batch) \in 1..highWater
      BY <3>1, MaxKnown DEF Bounds, BatchKnown
    <3>3. \A r \in batch : Seen(r)
      BY <3>1 DEF Batched, Seen
    <3>4. \A r \in Seqs : Due(r) /\ r < MaxOf(batch) => r \in batch \/ Seen(r)
      BY <3>1, <3>2 DEF Batched
    <3>5. MaxOf(batch) \in Clear
      BY <3>2, <3>3, <3>4, ClearAt
    <3> QED BY <1>1, <3>1, <3>5 DEF Read
  <2>9. CASE IdleExpire \/ Crash
    <3>1. cursor' = file /\ since' = file /\ file' = file /\ pc' = "connect"
      BY <2>9 DEF IdleExpire, Crash, Rerun
    <3> QED BY <1>1, <1>2, <3>1 DEF Read
  <2> QED BY <1>4, <2>1, <2>2, <2>3, <2>4, <2>5, <2>6, <2>7, <2>8, <2>9
          DEF ClientStep, WaiterStep
<1> QED BY <1>3, <1>4 DEF Next, ClientStep, vars

(* The batch stays what it has to be. *)
LEMMA BatchedStep ==
    ASSUME LogInv, Bounds, Read, Batched, Heard, [Next]_vars
    PROVE  Batched'
<1> USE WaitAssumption
<1> DEFINE Filled == \A b \in batch', r \in Seqs : Due(r) /\ r < b => r \in batch' \/ Seen(r)
           Printed == pc' = "save" => IF mode = "follow" THEN MinOf(batch') \in shown'
                                                         ELSE batch' \subseteq shown'
           Holding == pc \in {"drain", "emit", "save"}
           Goal == pc' \in {"drain", "emit", "save"} => Filled /\ Printed
<1>1. batch \subseteq 1..highWater /\ Grows /\ Bounds'
  BY StepGrows, BoundsStep DEF Bounds, BatchKnown
<1>2. Holding => \A b \in batch, r \in Seqs : Due(r) /\ r < b => r \in batch \/ Seen(r)
  BY DEF Batched
<1>3. CASE UNCHANGED waiter
  <2>1. UNCHANGED <<pc, mode, batch, shown, floor>>
    BY <1>3 DEF waiter
  <2>2. ASSUME Holding, NEW b \in batch, NEW r \in Seqs, Due(r)', r < b
        PROVE  r \in batch \/ Seen(r)'
    <3>1. r \in 1..highWater
      BY <1>1, <2>2, PageNumbers DEF Seqs
    <3>2. r \in batch \/ Seen(r)
      BY <1>1, <1>2, <2>1, <2>2, <3>1, FloorMoves, SeenStays
    <3> QED BY <1>1, <3>1, <3>2, FloorMoves, SeenStays
  <2> HIDE DEF Due, Seen
  <2>3. Holding => \A b \in batch', r \in Seqs : Due(r)' /\ r < b => r \in batch' \/ Seen(r)'
    BY <2>1, <2>2
  <2>4. pc' = "save" => IF mode' = "follow" THEN MinOf(batch') \in shown'
                                            ELSE batch' \subseteq shown'
    BY <2>1 DEF Batched
  <2> QED BY <2>1, <2>3, <2>4 DEF Batched
<1>4. CASE ClientStep
  <2>1. Goal
    <3>1. CASE \/ ResolveTip \/ Connect \/ Join \/ Subscribe \/ BacklogTip \/ LiveTimeout
               \/ Reconnect \/ LoopSave \/ IdleExpire \/ Crash
      BY <3>1 DEF ResolveTip, Connect, Join, Subscribe, BacklogTip, LiveTimeout,
         Reconnect, LoopSave, IdleExpire, Crash, Rerun
    <3>2. CASE Deliver
      <4>1. UNCHANGED <<pc, batch, shown>>
        BY <3>2 DEF Deliver
      <4> QED BY <1>2, <4>1 DEF Batched
    <3>3. CASE Pull
      <4>1. batch' = HistoryAfter(cursor, PullLimit) /\ pc' \notin {"drain", "save"}
        BY <3>3 DEF Pull
      <4>2. cursor \in Clear
        BY DEF Read
      <4>3. Filled
        BY <4>1, <4>2, PageSeen
      <4> QED BY <4>1, <4>3
    <3>4. CASE Page
      <4> DEFINE rows == {x \in HistoryAfter(scanned, PageLimit) : x <= tip}
                 peers == {x \in rows : kind[x] \in {"chat", "filtered"}}
      <4>1. scanned \in Clear /\ tip \in Int
        BY <3>4, PageNumbers DEF Page, Read, Bounds, NumbersKnown, Handed, NoCursor
      <4>2. \/ pc' \in {"page", "live", "subscribe"}
            \/ peers # {} /\ batch' = {MinOf(peers)} /\ pc' \in {"drain", "emit"}
        BY <3>4 DEF Page, PageResult, Return
      <4>3. peers # {} => \A r \in Seqs : Due(r) /\ r < MinOf(peers) => Seen(r)
        BY <4>1, PageFound
      <4> HIDE DEF rows, peers, Due, Seen
      <4> QED BY <4>2, <4>3
    <3>5. CASE Live
      <4>1. /\ pc = "live" /\ events # <<>>
            /\ \/ pc' \in {"live", "subscribe"}
               \/ batch' = {Head(events)} /\ pc' \in {"drain", "emit"}
        BY <3>5 DEF Live, Return
      <4>2. \A r \in Seqs : Due(r) /\ r < Head(events) => Seen(r)
        BY <4>1, LiveFound
      <4> HIDE DEF Due, Seen
      <4> QED BY <4>1, <4>2
    <3>6. CASE FollowEmit \/ FollowSave
      <4> DEFINE q == MinOf(batch)
      <4>1. Holding /\ mode = "follow"
        BY <3>6 DEF FollowEmit, FollowSave
      <4>2. \/ batch' = batch /\ pc' = "save" /\ shown' = shown \cup {q}
            \/ /\ batch' = batch \ {q} /\ pc' # "save"
               /\ q <= cursor \/ kind[q] # "chat" \/ pc = "save"
        BY <3>6 DEF FollowEmit, FollowSave
      <4>3. q \in Seqs
        <5>1. q \in 1..highWater
          BY <1>1, <4>1, MaxKnown DEF Bounds, BatchKnown
        <5> QED BY <5>1, StreamAssumption DEF LogInv, Seqs
      <4>4. q <= cursor \/ kind[q] # "chat" \/ pc = "save" => ~Due(q) \/ Seen(q)
        BY <4>1, <4>3 DEF Due, Batched, Seen, Read, Clear
      <4> HIDE DEF Due, Seen
      <4>5. Filled
        BY <1>2, <4>1, <4>2, <4>4
      <4> QED BY <4>1, <4>2, <4>5
    <3>7. CASE Drain
      <4> DEFINE rows == {x \in HistoryAfter(since, PullLimit) :
                              kind[x] \in {"chat", "filtered"}}
      <4>1. Holding /\ batch' \in {batch, batch \cup rows} /\ pc' = "emit"
        BY <3>7 DEF Drain
      <4>2. since \in Clear
        BY DEF Read
      <4>3. \A b \in rows, r \in Seqs : Due(r) /\ r < b => r \in HistoryAfter(since, PullLimit) \/ Seen(r)
        BY <4>2, PageSeen
      <4>4. \A r \in HistoryAfter(since, PullLimit) : Due(r) => r \in rows
        BY DEF Due
      <4> HIDE DEF rows, Due, Seen
      <4> QED BY <1>2, <4>1, <4>3, <4>4
    <3>8. CASE LoopEmit
      <4>1. Holding /\ mode # "follow" /\ batch' = batch /\ shown' = shown \cup batch
        BY <3>8 DEF LoopEmit
      <4> QED BY <1>2, <4>1
    <3> QED BY <1>4, <3>1, <3>2, <3>3, <3>4, <3>5, <3>6, <3>7, <3>8
            DEF ClientStep, WaiterStep
  <2>2. mode' = mode \/ pc' = "connect"
    BY <1>4 DEF ClientStep, Deliver, WaiterStep, IdleExpire, Crash
  <2>3. ASSUME pc' \in {"drain", "emit", "save"}, NEW b \in batch', NEW r \in Seqs,
               Due(r)', r < b
        PROVE  r \in batch' \/ Seen(r)'
    <3>1. highWater' = highWater /\ batch' \subseteq 1..highWater
      BY <1>1, <1>4, ClientKeepsStore DEF Bounds, BatchKnown
    <3>2. r \in 1..highWater
      BY <2>3, <3>1, PageNumbers DEF Seqs
    <3>3. floor' = floor
      BY <2>3, FloorMoves DEF ResolveTip
    <3>4. Due(r)
      BY <1>1, <2>3, <3>2, <3>3, FloorMoves, SeenStays
    <3>5. r \in batch' \/ Seen(r)
      BY <2>1, <2>3, <3>4
    <3> QED BY <1>1, <3>2, <3>5, FloorMoves, SeenStays
  <2> HIDE DEF Due, Seen
  <2>4. pc' = "save" => IF mode' = "follow" THEN MinOf(batch') \in shown'
                                            ELSE batch' \subseteq shown'
    BY <2>1, <2>2
  <2> QED BY <2>3, <2>4 DEF Batched
<1> QED BY <1>3, <1>4 DEF Next, ClientStep, vars

(* The front of the queue is taken or falls away: what is gone is counted  *)
(* as dropped or was no message, and the rest keeps its order.             *)
LEMMA ComingShifts ==
    ASSUME LogInv, Bounds, Bounds', Grows, tip' = tip,
           UNCHANGED <<kind, highWater, sending>>,
           \E cut \in 0..Len(Coming) :
              /\ Len(Coming') = Len(Coming) - cut
              /\ \A i \in 1..Len(Coming') : Coming'[i] = Coming[i + cut]
              /\ \A i \in 1..cut : Coming[i] \in dropped' \/ kind[Coming[i]] # "chat"
    PROVE  /\ InOrder => InOrder'
           /\ AllComing => AllComing'
<1>1. PICK cut \in 0..Len(Coming) :
         /\ Len(Coming') = Len(Coming) - cut
         /\ \A i \in 1..Len(Coming') : Coming'[i] = Coming[i + cut]
         /\ \A i \in 1..cut : Coming[i] \in dropped' \/ kind[Coming[i]] # "chat"
  OBVIOUS
<1>2. Len(Coming) \in Nat /\ Len(Coming') \in Nat /\ cut \in Nat /\ cut <= Len(Coming)
  <2>1. Coming \in Seq(1..highWater)
    BY ConcatProperties DEF Coming, Bounds, QueuesKnown
  <2>2. Len(Coming) \in Nat
    BY <2>1
  <2> QED BY <1>1, <2>2
<1>3. \A r : Lost(r) => Lost(r)'
  BY DEF Grows, Lost
<1>4. ASSUME NEW r, kind[r] = "chat", NEW j \in 1..Len(Coming), Coming[j] = r
      PROVE  Lost(r)' \/ (j - cut \in 1..Len(Coming') /\ Coming'[j - cut] = r)
  <2>1. CASE j <= cut
    <3>1. j \in 1..cut
      BY <1>2, <2>1
    <3>2. r \in dropped'
      BY <1>1, <1>4, <3>1
    <3> QED BY <3>2 DEF Lost
  <2>2. CASE ~(j <= cut)
    <3>1. j - cut \in 1..Len(Coming') /\ (j - cut) + cut = j
      BY <1>1, <1>2, <2>2
    <3>2. Coming'[j - cut] = Coming[(j - cut) + cut]
      BY <1>1, <3>1
    <3> QED BY <1>4, <3>1, <3>2
  <2> QED BY <2>1, <2>2
<1>5. ASSUME InOrder PROVE InOrder'
  <2>1. ASSUME NEW i \in 1..Len(Coming'), NEW r \in Seqs,
               tip < r, r < Coming'[i], kind[r] = "chat"
        PROVE  Lost(r)' \/ \E j \in 1..(i - 1) : Coming'[j] = r
    <3>1. i + cut \in 1..Len(Coming) /\ Coming'[i] = Coming[i + cut]
      BY <1>1, <1>2
    <3>2. Lost(r) \/ \E j \in 1..((i + cut) - 1) : Coming[j] = r
      BY <1>5, <2>1, <3>1 DEF InOrder
    <3>3. CASE Lost(r)
      BY <1>3, <3>3
    <3>4. ASSUME NEW j \in 1..((i + cut) - 1), Coming[j] = r
          PROVE  Lost(r)' \/ \E l \in 1..(i - 1) : Coming'[l] = r
      <4>1. j \in 1..Len(Coming)
        BY <1>2, <3>1
      <4>2. Lost(r)' \/ (j - cut \in 1..Len(Coming') /\ Coming'[j - cut] = r)
        BY <1>4, <2>1, <3>4, <4>1
      <4>3. j - cut \in 1..Len(Coming') => j - cut \in 1..(i - 1)
        BY <1>2
      <4> QED BY <4>2, <4>3
    <3> QED BY <3>2, <3>3, <3>4
  <2> HIDE DEF Lost, Coming
  <2> QED BY <2>1 DEF InOrder
<1>6. ASSUME AllComing PROVE AllComing'
  <2>1. ASSUME NEW r \in Seqs, tip < r, r <= highWater, kind[r] = "chat"
        PROVE  \/ Lost(r)' \/ \E s \in Senders : sending[s] = r
               \/ \E j \in 1..Len(Coming') : Coming'[j] = r
    <3>1. \/ Lost(r) \/ \E s \in Senders : sending[s] = r
          \/ \E j \in 1..Len(Coming) : Coming[j] = r
      BY <1>6, <2>1 DEF AllComing
    <3> QED BY <1>3, <1>4, <2>1, <3>1
  <2> HIDE DEF Lost, Coming
  <2> QED BY <2>1 DEF AllComing
<1> QED BY <1>5, <1>6

(* Nothing that matters here changes but the queue loses its end.          *)
LEMMA ComingCutOff ==
    ASSUME LogInv, Bounds, Grows, tip' = tip, events' = events,
           outbox' \in {outbox, <<>>}, InOrder
    PROVE  InOrder'
<1>1. Len(events) \in Nat /\ Len(outbox) \in Nat
  BY DEF Bounds, QueuesKnown
<1>2. Coming \in Seq(1..highWater) /\ Len(Coming) \in Nat
  BY ConcatProperties DEF Coming, Bounds, QueuesKnown
<1>3. /\ Len(Coming') <= Len(Coming) /\ Len(Coming') \in Nat
      /\ \A i \in 1..Len(Coming') : Coming'[i] = Coming[i]
  <2>1. CASE outbox' = outbox
    <3>1. Coming' = Coming
      BY <2>1 DEF Coming
    <3> QED BY <1>2, <3>1
  <2>2. CASE outbox' = <<>>
    <3>1. Coming' = events
      BY <2>2 DEF Coming, Bounds, QueuesKnown
    <3>2. /\ Len(Coming) = Len(events) + Len(outbox)
          /\ \A i \in 1..Len(Coming) : i <= Len(events) => Coming[i] = events[i]
      BY ConcatProperties DEF Coming, Bounds, QueuesKnown
    <3>3. \A i \in 1..Len(events) : i \in 1..Len(Coming) /\ i <= Len(events)
      BY <1>1, <3>2
    <3> QED BY <1>1, <3>1, <3>2, <3>3
  <2> QED BY <2>1, <2>2
<1>4. ASSUME NEW i \in 1..Len(Coming'), NEW r \in Seqs,
             tip < r, r < Coming'[i], kind'[r] = "chat"
      PROVE  Lost(r)' \/ \E j \in 1..(i - 1) : Coming'[j] = r
  <2>1. i \in 1..Len(Coming) /\ Coming'[i] = Coming[i] /\ Coming[i] \in 1..highWater
    <3>1. i \in 1..Len(Coming) /\ Coming'[i] = Coming[i]
      BY <1>2, <1>3
    <3> QED BY <1>2, <3>1, ElementOfSeq
  <2>2. kind[r] = "chat"
    <3>1. r \in 1..highWater
      BY <1>4, <2>1, PageNumbers DEF Seqs
    <3> QED BY <1>4, <3>1 DEF Grows
  <2>3. Lost(r) \/ \E j \in 1..(i - 1) : Coming[j] = r
    BY <1>4, <2>1, <2>2 DEF InOrder
  <2>4. Lost(r) => Lost(r)'
    BY DEF Lost, Grows
  <2>5. \A j \in 1..(i - 1) : j \in 1..Len(Coming') /\ Coming'[j] = Coming[j]
    BY <1>3
  <2> HIDE DEF Lost
  <2> QED BY <2>3, <2>4, <2>5
<1> HIDE DEF Lost, Coming
<1> QED BY <1>4 DEF InOrder

(* An event that goes out comes after all the messages before it that can  *)
(* still come: those not broadcast yet are overtaken.                      *)
LEMMA BroadcastHeard ==
    ASSUME LogInv, Bounds, Linked, Heard, Grows, NEW s \in Senders, Broadcast(s),
           UNCHANGED waiter, pc \in {"page", "live"}
    PROVE  Heard'
<1>0. PICK q \in 1..highWater : q = sending[s]
  <2>1. sending[s] \in 0..highWater /\ sending[s] # 0
    BY DEF Bounds, QueuesKnown, Broadcast
  <2>2. highWater \in Nat
    BY PageNumbers
  <2> QED BY <2>1, <2>2
<1> DEFINE heard == link \in {"in", "kicked"} /\ kind[q] # "thinking"
<1>1. /\ sending' = [sending EXCEPT ![s] = 0]
      /\ overtaken' = overtaken \cup Overtaking(q)
      /\ UNCHANGED <<kind, highWater>>
      /\ pc' = pc /\ tip' = tip /\ events' = events
      /\ link = "down" => link' = "down"
  BY <1>0 DEF Broadcast, waiter
<1>2. \/ outbox' = Append(outbox, q) /\ heard
      \/ outbox' = outbox /\ ~heard
      \/ outbox' = outbox /\ heard /\ q \in dropped'
  BY <1>0 DEF Broadcast
<1>3. sending \in [Senders -> 0..highWater] /\ highWater \in Nat /\ q \in Nat
  BY PageNumbers DEF Bounds, QueuesKnown
<1>4. InOrder /\ (link # "down" => AllComing) /\ link \in {"down", "in", "kicked"}
  BY DEF Heard, Linked
<1>5. \A r : Lost(r) => Lost(r)'
  BY DEF Lost, Grows
<1>6. ASSUME outbox' = outbox PROVE InOrder'
  BY <1>1, <1>4, <1>6, ComingCutOff
<1>7. CASE link = "down"
  BY <1>1, <1>2, <1>6, <1>7 DEF Heard
<1>8. CASE link # "down"
  <2>1. AllComing /\ (heard <=> kind[q] # "thinking")
    <3>1. link \in {"in", "kicked"} => (heard <=> kind[q] # "thinking")
      OBVIOUS
    <3> QED BY <1>4, <1>8, <3>1
  <2>2. ASSUME NEW r \in Seqs, tip < r, r <= highWater, kind[r] = "chat"
        PROVE  \/ Lost(r)' \/ r = q
               \/ \E t \in Senders : sending'[t] = r
               \/ \E j \in 1..Len(Coming) : Coming[j] = r
    <3>1. \/ Lost(r) \/ \E t \in Senders : sending[t] = r
          \/ \E j \in 1..Len(Coming) : Coming[j] = r
      BY <2>1, <2>2 DEF AllComing
    <3>2. \A t \in Senders : t # s => sending'[t] = sending[t]
      BY <1>1, <1>3
    <3> QED BY <1>0, <1>5, <3>1, <3>2
  <2>3. CASE outbox' = outbox
    <3>1. Coming' = Coming
      BY <1>1, <2>3 DEF Coming
    <3>2. kind[q] = "chat" => Lost(q)'
      BY <1>2, <2>1, <2>3 DEF Lost
    <3> HIDE DEF Lost, Coming
    <3>3. AllComing'
      BY <1>1, <2>2, <3>1, <3>2 DEF AllComing
    <3> QED BY <1>6, <2>3, <3>3 DEF Heard
  <2>4. CASE outbox' = Append(outbox, q)
    <3>1. Coming \in Seq(1..highWater) /\ Len(Coming) \in Nat
      BY ConcatProperties DEF Coming, Bounds, QueuesKnown
    <3>2. Coming' = Append(Coming, q)
      <4>1. Coming' = events \o Append(outbox, q)
        BY <1>1, <2>4 DEF Coming
      <4>2. events \in Seq(1..highWater) /\ outbox \in Seq(1..highWater)
        BY DEF Bounds, QueuesKnown
      <4>3. events \o Append(outbox, q) = Append(events \o outbox, q)
        BY <4>2
      <4> QED BY <4>1, <4>3 DEF Coming
    <3>3. /\ Len(Coming') = Len(Coming) + 1 /\ Coming'[Len(Coming) + 1] = q
          /\ \A i \in 1..Len(Coming) : Coming'[i] = Coming[i]
      BY <1>3, <3>1, <3>2, AppendProperties
    <3>4. AllComing'
      <4>1. ASSUME NEW j \in 1..Len(Coming) PROVE j \in 1..Len(Coming') /\ Coming'[j] = Coming[j]
        BY <3>1, <3>3
      <4>2. Len(Coming) + 1 \in 1..Len(Coming')
        BY <3>1, <3>3
      <4>3. ASSUME NEW r \in Seqs, tip < r, r <= highWater, kind[r] = "chat"
            PROVE  \/ Lost(r)' \/ \E t \in Senders : sending'[t] = r
                   \/ \E j \in 1..Len(Coming') : Coming'[j] = r
        BY <2>2, <3>3, <4>1, <4>2, <4>3
      <4> HIDE DEF Lost, Coming
      <4> QED BY <1>1, <4>3 DEF AllComing
    <3>5. ASSUME NEW i \in 1..Len(Coming'), NEW r \in Seqs,
                 tip < r, r < Coming'[i], kind[r] = "chat"
          PROVE  Lost(r)' \/ \E j \in 1..(i - 1) : Coming'[j] = r
      <4>1. CASE i \in 1..Len(Coming)
        <5>1. Lost(r) \/ \E j \in 1..(i - 1) : Coming[j] = r
          BY <1>4, <3>3, <3>5, <4>1 DEF InOrder
        <5>2. \A j \in 1..(i - 1) : j \in 1..Len(Coming)
          BY <3>1, <4>1
        <5> QED BY <1>5, <3>3, <5>1, <5>2
      <4>2. CASE i \notin 1..Len(Coming)
        <5>1. i = Len(Coming) + 1 /\ Coming'[i] = q
          BY <3>1, <3>3, <4>2
        <5>2. r \in 1..(q - 1) /\ r <= highWater /\ r < q
          BY <1>3, <3>5, <5>1 DEF Seqs
        <5>3. \/ Lost(r) \/ \E t \in Senders : sending[t] = r
              \/ \E j \in 1..Len(Coming) : Coming[j] = r
          BY <2>1, <3>5, <5>2 DEF AllComing
        <5>4. (\E t \in Senders : sending[t] = r) => Lost(r)'
          BY <1>1, <5>2 DEF Overtaking, Lost
        <5>5. \A j \in 1..Len(Coming) : j \in 1..(i - 1) /\ Coming'[j] = Coming[j]
          BY <3>1, <3>3, <5>1
        <5> QED BY <1>5, <5>3, <5>4, <5>5
      <4> QED BY <4>1, <4>2
    <3> HIDE DEF Lost, Coming
    <3>6. InOrder'
      BY <1>1, <3>5 DEF InOrder
    <3> QED BY <3>4, <3>6 DEF Heard
  <2> QED BY <1>2, <2>3, <2>4
<1> QED BY <1>7, <1>8

(* Whatever is still to come stays on its way, or its loss is on record. *)
LEMMA HeardStep ==
    ASSUME LogInv, Bounds, Linked, Heard, [Next]_vars
    PROVE  Heard'
<1>1. Grows /\ Bounds' /\ LogInv'
  BY LogStep, StepGrows, BoundsStep
<1>2. /\ events \in Seq(1..highWater) /\ outbox \in Seq(1..highWater)
      /\ highWater \in Nat /\ <<>> \in Seq(1..highWater)
  BY PageNumbers DEF Bounds, QueuesKnown
<1>3. CASE UNCHANGED vars
  BY <1>3 DEF vars, stream, waiter, Heard, InOrder, AllComing, Coming, Lost
<1>4. CASE StreamNext /\ UNCHANGED waiter
  <2>1. pc' = pc /\ tip' = tip /\ events' = events
    BY <1>4 DEF waiter
  <2>2. ASSUME pc \in {"page", "live"}, outbox' \in {outbox, <<>>} PROVE InOrder'
    BY <1>1, <2>1, <2>2, ComingCutOff DEF Heard
  <2>3. ASSUME NEW s \in Senders, NEW k \in Kinds, Insert(s, k) PROVE Heard'
    <3>1. /\ link' = link /\ outbox' = outbox /\ highWater' = highWater + 1
          /\ sending[s] = 0 /\ sending' = [sending EXCEPT ![s] = highWater + 1]
          /\ sending \in [Senders -> 0..highWater]
      BY <2>3 DEF Insert, Bounds, QueuesKnown
    <3>2. Coming' = Coming
      BY <2>1, <3>1 DEF Coming
    <3>3. ASSUME AllComing, NEW r \in Seqs, tip < r, r <= highWater', kind'[r] = "chat"
          PROVE  \/ Lost(r)' \/ \E t \in Senders : sending'[t] = r
                 \/ \E j \in 1..Len(Coming) : Coming[j] = r
      <4>1. CASE r = highWater + 1
        BY <3>1, <4>1
      <4>2. CASE r <= highWater
        <5>1. r \in 1..highWater /\ r # 0
          BY <1>2, <4>2 DEF Seqs
        <5>2. kind[r] = "chat"
          BY <1>1, <3>3, <5>1 DEF Grows
        <5>3. \/ Lost(r) \/ \E t \in Senders : sending[t] = r
              \/ \E j \in 1..Len(Coming) : Coming[j] = r
          BY <3>3, <4>2, <5>2 DEF AllComing
        <5>4. \A t \in Senders : sending[t] = r => sending'[t] = r
          BY <3>1, <5>1
        <5>5. Lost(r) => Lost(r)'
          BY <1>1 DEF Grows, Lost
        <5> QED BY <5>3, <5>4, <5>5
      <4>3. r \in Int
        BY DEF Seqs
      <4> QED BY <1>2, <3>1, <3>3, <4>1, <4>2, <4>3
    <3> HIDE DEF Lost, Coming
    <3>4. AllComing => AllComing'
      BY <2>1, <3>2, <3>3 DEF AllComing
    <3> QED BY <2>1, <2>2, <3>1, <3>4 DEF Heard
  <2>4. ASSUME NEW s \in Senders, Broadcast(s) PROVE Heard'
    <3>1. CASE pc \in {"page", "live"}
      BY <1>1, <1>4, <2>4, <3>1, BroadcastHeard
    <3>2. CASE pc \notin {"page", "live"}
      BY <2>1, <3>2 DEF Heard
    <3> QED BY <3>1, <3>2
  <2>5. CASE \E k \in Kinds : LegacyInsert(k)
    <3>1. link' = "down" /\ outbox' = outbox
      BY <2>5 DEF LegacyInsert
    <3> QED BY <2>1, <2>2, <3>1 DEF Heard
  <2>6. CASE \E q \in Seqs : Purge(q)
    <3>1. UNCHANGED <<kind, highWater, sending, link, outbox, dropped, overtaken>>
      BY <2>6 DEF Purge
    <3> QED BY <2>1, <3>1 DEF Heard, InOrder, AllComing, Coming, Lost
  <2>7. CASE LinkLost \/ ServerRestart
    <3>1. link' = "down" /\ outbox' = <<>>
      BY <2>7 DEF LinkLost, ServerRestart
    <3> QED BY <2>1, <2>2, <3>1 DEF Heard
  <2> QED BY <1>4, <2>3, <2>4, <2>5, <2>6, <2>7 DEF StreamNext
<1>5. CASE ClientStep
  <2>1. UNCHANGED <<kind, highWater, sending>>
    BY <1>5, ClientKeepsStore
  <2>2. ASSUME pc \in {"page", "live"}, tip' = tip, link' = link,
               \E cut \in 0..Len(Coming) :
                  /\ Len(Coming') = Len(Coming) - cut
                  /\ \A i \in 1..Len(Coming') : Coming'[i] = Coming[i + cut]
                  /\ \A i \in 1..cut : Coming[i] \in dropped' \/ kind[Coming[i]] # "chat"
        PROVE  Heard'
    <3>1. (InOrder => InOrder') /\ (AllComing => AllComing')
      BY <1>1, <2>1, <2>2, ComingShifts
    <3> QED BY <2>2, <3>1 DEF Heard
  <2>3. ASSUME NEW es \in Seq(1..highWater), NEW rest \in Seq(1..highWater),
               outbox = es \o rest, TakeIn(es), outbox' = rest,
               tip' = tip, link' = link, pc \in {"page", "live"}
        PROVE  Heard'
    <3>1. subscribed
      BY <2>3 DEF Linked
    <3>2. \E cut \in 0..Len(Coming) :
             /\ Len(Coming') = Len(Coming) - cut
             /\ \A i \in 1..Len(Coming') : Coming'[i] = Coming[i + cut]
             /\ \A i \in 1..cut : Coming[i] \in dropped'
      BY <1>2, <2>3, <3>1, TakeInShifts
    <3> HIDE DEF Coming
    <3> QED BY <2>2, <2>3, <3>2
  <2>4. CASE Deliver
    <3>1. CASE pc \in {"page", "live"}
      <4>1. /\ outbox # <<>> /\ TakeIn(<<Head(outbox)>>) /\ outbox' = Tail(outbox)
            /\ tip' = tip /\ link' = link
        BY <2>4 DEF Deliver
      <4>2. Head(outbox) \in 1..highWater /\ Tail(outbox) \in Seq(1..highWater)
        BY <1>2, <4>1, HeadTailProperties
      <4>3. \A x \in 1..highWater : <<x>> \in Seq(1..highWater)
        OBVIOUS
      <4>4. outbox = <<Head(outbox)>> \o Tail(outbox)
        BY <1>2, <4>1
      <4> QED BY <2>3, <3>1, <4>1, <4>2, <4>3, <4>4
    <3>2. CASE pc \notin {"page", "live"}
      BY <2>4, <3>2 DEF Deliver, Heard
    <3> QED BY <3>1, <3>2
  <2>5. CASE BacklogTip
    <3>1. tip' = highWater /\ highWater' = highWater /\ QueuesKnown'
      BY <1>1, <2>1, <2>5 DEF BacklogTip, Bounds
    <3>2. Coming' \in Seq(1..highWater)
      BY <3>1, ConcatProperties DEF QueuesKnown, Coming
    <3>3. \A i \in 1..Len(Coming') : Coming'[i] \in 1..highWater
      BY <3>2, ElementOfSeq
    <3> HIDE DEF Coming, Lost
    <3>4. InOrder'
      <4>1. \A i \in 1..Len(Coming'), r \in Seqs : ~(tip' < r /\ r < Coming'[i])
        BY <1>2, <3>1, <3>3 DEF Seqs
      <4> QED BY <4>1 DEF InOrder
    <3>5. AllComing'
      <4>1. \A r \in Seqs : ~(tip' < r /\ r <= highWater')
        BY <1>2, <3>1 DEF Seqs
      <4> QED BY <4>1 DEF AllComing
    <3> QED BY <3>4, <3>5 DEF Heard
  <2>6. CASE Page
    <3>1. /\ pc = "page" /\ tip' = tip /\ link' = link /\ outbox' = <<>>
          /\ \/ pc' \in {"subscribe", "drain", "emit"}
             \/ subscribed' = subscribed
          /\ subscribed' => TakeIn(outbox)
      BY <2>6 DEF Page, PageResult, Return
    <3>2. CASE pc' \in {"page", "live"}
      <4>1. TakeIn(outbox)
        <5>1. subscribed' = subscribed
          BY <3>1, <3>2
        <5>2. subscribed
          BY <3>1 DEF Linked
        <5>3. subscribed'
          BY <5>1, <5>2
        <5> QED BY <3>1, <5>3
      <4>2. outbox = outbox \o <<>>
        BY <1>2
      <4> QED BY <1>2, <2>3, <3>1, <4>1, <4>2
    <3> QED BY <3>2 DEF Heard
  <2>7. CASE Live
    <3>1. /\ pc = "live" /\ events # <<>> /\ UNCHANGED <<tip, link, outbox>>
          /\ \/ pc' \in {"subscribe", "drain", "emit"}
             \/ kind[Head(events)] = "self" /\ events' = Tail(events)
      BY <2>7 DEF Live, Return, stream
    <3>2. CASE kind[Head(events)] = "self" /\ events' = Tail(events)
      <4>1. /\ Tail(events) \in Seq(1..highWater) /\ Len(Tail(events)) = Len(events) - 1
            /\ \A i \in 1..Len(Tail(events)) : Tail(events)[i] = events[i + 1]
            /\ Head(events) = events[1] /\ Len(events) \in Nat \ {0}
            /\ Len(outbox) \in Nat
        BY <1>2, <3>1, HeadTailProperties, EmptySeq
      <4>2. /\ Len(Coming) = Len(events) + Len(outbox)
            /\ \A i \in 1..Len(Coming) :
                  Coming[i] = IF i <= Len(events) THEN events[i] ELSE outbox[i - Len(events)]
        BY <1>2, ConcatProperties DEF Coming
      <4>3. /\ Len(Coming') = Len(events') + Len(outbox)
            /\ \A i \in 1..Len(Coming') :
                  Coming'[i] = IF i <= Len(events') THEN events'[i]
                                                    ELSE outbox[i - Len(events')]
        BY <1>2, <3>1, <3>2, <4>1, ConcatProperties DEF Coming
      <4>4. Len(Coming') = Len(Coming) - 1 /\ 1 \in 0..Len(Coming) /\ Len(Coming) \in Nat
        BY <3>2, <4>1, <4>2, <4>3
      <4>5. ASSUME NEW i \in 1..Len(Coming') PROVE Coming'[i] = Coming[i + 1]
        <5>1. i + 1 \in 1..Len(Coming) /\ i \in Nat
          BY <4>4
        <5>2. CASE i <= Len(events')
          BY <3>2, <4>1, <4>2, <4>3, <5>1, <5>2
        <5>3. CASE ~(i <= Len(events'))
          <6>1. i - Len(events') = (i + 1) - Len(events) /\ ~(i + 1 <= Len(events))
            BY <3>2, <4>1, <5>1, <5>3
          <6> QED BY <4>2, <4>3, <5>1, <5>3, <6>1
        <5> QED BY <5>2, <5>3
      <4>6. \A i \in 1..1 : Coming[i] \in dropped' \/ kind[Coming[i]] # "chat"
        <5>1. Coming[1] = Head(events)
          BY <4>1, <4>2, <4>4
        <5> QED BY <3>2, <5>1
      <4> HIDE DEF Coming
      <4> QED BY <2>2, <3>1, <4>4, <4>5, <4>6
    <3>3. CASE pc' \in {"subscribe", "drain", "emit"}
      BY <3>3 DEF Heard
    <3> QED BY <3>1, <3>2, <3>3
  <2>8. CASE \/ Connect \/ ResolveTip \/ Join \/ Pull \/ Subscribe \/ LiveTimeout
             \/ Reconnect \/ FollowEmit \/ FollowSave \/ Drain \/ LoopEmit \/ LoopSave
             \/ IdleExpire \/ Crash
    <3>1. pc' \notin {"page", "live"}
      BY <2>8 DEF Connect, ResolveTip, Join, Pull, Subscribe, LiveTimeout, Reconnect,
         FollowEmit, FollowSave, Drain, LoopEmit, LoopSave, IdleExpire, Crash, Rerun
    <3> QED BY <3>1 DEF Heard
  <2> QED BY <1>5, <2>4, <2>5, <2>6, <2>7, <2>8 DEF ClientStep, WaiterStep
<1> QED BY <1>3, <1>4, <1>5 DEF Next, ClientStep

-----------------------------------------------------------------------------
(* The log, the numbers in circulation, the process and its connection,    *)
(* what the cursor may pass and what is still on its way: each part is     *)
(* needed for the next, and together they are kept by every step.          *)
ReadingInv ==
    LogInv /\ Bounds /\ Linked /\ Followed /\ Read /\ Batched /\ Heard

(* The inductive invariant: it holds at first, ... *)
LEMMA ReadingStarts == Init => ReadingInv
<1> SUFFICES ASSUME Init PROVE ReadingInv
  OBVIOUS
<1>1. LogInv
  BY StreamAssumption DEF Init, StreamInit, LogInv, Seqs
<1>2. Bounds
  <2>1. highWater = 0 /\ events = <<>> /\ outbox = <<>>
    BY DEF Init, StreamInit
  <2>2. <<>> \in Seq(1..highWater)
    OBVIOUS
  <2> QED BY <2>1, <2>2 DEF Init, StreamInit, Bounds, NumbersKnown, QueuesKnown,
         BatchKnown, Handed
<1>3. Linked /\ Followed /\ Batched /\ Heard
  BY DEF Init, StreamInit, Linked, Followed, Batched, Heard, NoCursor
<1>4. Read
  <2>1. NoCursor \in Clear
    BY DEF Init, Clear, Handed, Due
  <2> QED BY <2>1 DEF Init, Read
<1> QED BY <1>1, <1>2, <1>3, <1>4 DEF ReadingInv

(* ... and no step breaks it. *)
LEMMA ReadingStep == ReadingInv /\ [Next]_vars => ReadingInv'
BY LogStep, BoundsStep, LinkedStep, FollowedStep, ReadStep, BatchedStep, HeardStep
   DEF ReadingInv

(* What the file has passed without printing it, the process could not     *)
(* have printed.                                                           *)
LEMMA FilePassesOnlyTheLost == ReadingInv => MissedOnlyIfOvertakenOrDropped
<1> SUFFICES ASSUME ReadingInv, NEW q \in Missed
             PROVE  q \in overtaken \cup dropped \cup (Seqs \ retained)
  BY DEF MissedOnlyIfOvertakenOrDropped
<1>1. q \in Seqs /\ Due(q) /\ q <= file /\ q \notin shown
  BY DEF Missed, Due
<1>2. Seen(q)
  BY <1>1 DEF ReadingInv, Read, Clear
<1> QED BY <1>1, <1>2 DEF Seen, Lost

(* Whatever fails in between, the wait skips no message on its own         *)
(* account: one that the cursor file passed unprinted was broadcast after  *)
(* a later one, dropped by a full queue, or deleted by retention.          *)
THEOREM NothingSkipped == Spec => []MissedOnlyIfOvertakenOrDropped
<1>1. Init => ReadingInv
  BY ReadingStarts
<1>2. ReadingInv /\ [Next]_vars => ReadingInv'
  BY ReadingStep
<1>3. ReadingInv => MissedOnlyIfOvertakenOrDropped
  BY FilePassesOnlyTheLost
<1> QED BY <1>1, <1>2, <1>3, PTL DEF Spec

(* The cursor file of --follow only moves up, in whatever order events and *)
(* history rows reach the process and wherever it is killed.               *)
THEOREM FileOnlyMovesUp == Spec => CursorFileMonotonic
<1>1. Init => ReadingInv
  BY ReadingStarts
<1>2. ReadingInv /\ [Next]_vars => ReadingInv'
  BY ReadingStep
<1>3. ReadingInv /\ [Next]_vars => [mode = "follow" => file' >= file]_vars
  BY FollowedStep DEF ReadingInv
<1> QED BY <1>1, <1>2, <1>3, PTL DEF Spec, CursorFileMonotonic
=============================================================================

------------------------- MODULE NotificationProofs -------------------------
(***************************************************************************)
(* Proofs about WakeBridge and WebhookDelivery, the two ways a message is  *)
(* carried to an agent that is not connected, for any number of calls,     *)
(* events, subscriptions and messages, any lease and any cursors.          *)
(***************************************************************************)
EXTENDS WakeBridge, WebhookDelivery, FiniteSetTheorems, WellFoundedInduction, TLAPS

(* What the extremes are, from the well-foundedness of < on Nat. *)

(* A non-empty set of natural numbers has a least element. *)
LEMMA LeastNat ==
    ASSUME NEW T, T \subseteq Nat, T # {}
    PROVE  \E x \in T : \A y \in T : x <= y
<1> DEFINE R == OpToRel(<, Nat)
<1>1. \E x \in T : \A y \in T : ~ (<<y, x>> \in R)
  BY WFMin, NatLessThanWellFounded
<1>2. PICK x \in T : \A y \in T : ~ (<<y, x>> \in R)
  BY <1>1
<1>3. ASSUME NEW y \in T PROVE x <= y
  <2>1. ~ (<<y, x>> \in {ss \in Nat \X Nat : ss[1] < ss[2]})
    BY <1>2 DEF OpToRel
  <2> QED BY <2>1
<1> QED BY <1>3

(* MinOf is that element. *)
LEMMA MinOfLeast ==
    ASSUME NEW T, T \subseteq Nat, T # {}
    PROVE  MinOf(T) \in T /\ \A y \in T : MinOf(T) <= y
BY LeastNat DEF MinOf

(* The greatest of some numbers up to n is one of them. *)
LEMMA MaxOfGreatest ==
    ASSUME NEW n \in Nat, NEW S, S \subseteq 0..n, S # {}
    PROVE  MaxOf(S) \in S /\ \A y \in S : y <= MaxOf(S)
<1> DEFINE T == {n - x : x \in S}
<1>1. T \subseteq Nat /\ T # {}
  <2>1. \A x \in S : n - x \in Nat
    OBVIOUS
  <2> QED BY <2>1
<1>2. PICK t \in T : \A y \in T : t <= y
  BY <1>1, LeastNat
<1>3. PICK m \in S : t = n - m
  BY <1>2
<1>4. \A y \in S : n - y \in T
  OBVIOUS
<1>5. \A y \in S : y <= m
  BY <1>2, <1>3, <1>4
<1> QED BY <1>5 DEF MaxOf

(* Empty or not, it lies in the range. *)
LEMMA MaxOfBound ==
    ASSUME NEW n \in Nat, NEW S, S \subseteq 0..n
    PROVE  MaxOf(S) \in 0..n /\ \A y \in S : y <= MaxOf(S)
<1>1. CASE S = {}
  BY <1>1 DEF MaxOf
<1>2. CASE S # {}
  <2>1. MaxOf(S) \in S /\ \A y \in S : y <= MaxOf(S)
    BY <1>2, MaxOfGreatest
  <2>2. \A x \in S : x \in 0..n
    OBVIOUS
  <2> QED BY <2>1, <2>2
<1> QED BY <1>1, <1>2

-----------------------------------------------------------------------------

(* A call about to record a seq has the seq of a message of its event. *)
MarkInv ==
    \A c \in Calls : pc[c] = "mark" =>
        seq[c] \in 1..Len(room) /\ room[seq[c]] = ev[c]

(* A set lease stands for a wake that is under way, that has reached the   *)
(* agent, or whose failure was reported.                                   *)
LeaseInv ==
    claimed => awake \/ owed \/ \E c \in Calls : pc[c] = "wake"

IInv == TypeOK /\ MarkInv /\ RowsNameTheirMessage /\ LeaseInv /\ PendingIsCovered

(* A step of any call or of the reader keeps the types. *)
LEMMA TypeStep ==
    ASSUME TypeOK, MarkInv, RowsNameTheirMessage, [Next]_vars
    PROVE  TypeOK'
<1> USE BridgeAssumption DEF TypeOK, PCs, Goto, Done, rows, target
<1>1. ASSUME NEW c \in Calls, NEW e \in Events,
             Reserve(c, e) \/ ReserveAgain(c, e) \/ ReserveConflict(c, e)
      PROVE  TypeOK'
  <2>1. CASE Reserve(c, e)
    BY <2>1 DEF Reserve, Start
  <2>2. CASE ReserveAgain(c, e)
    <3>1. /\ UNCHANGED <<room, rows, target, now, awake, owed>>
          /\ overlapped' \subseteq Events /\ e \in reserved
      BY <2>2 DEF ReserveAgain, Start
    <3>2. \/ /\ pc' = [pc EXCEPT ![c] = "claim"]
             /\ seq' = [seq EXCEPT ![c] = roomSeq[e]]
             /\ ev' = [ev EXCEPT ![c] = e]
          \/ UNCHANGED <<pc, ev, seq>>
          \/ /\ pc' = [pc EXCEPT ![c] = "find"] /\ seq' = seq
             /\ ev' = [ev EXCEPT ![c] = e]
      BY <2>2 DEF ReserveAgain
    <3> QED BY <3>1, <3>2
  <2>3. CASE ReserveConflict(c, e)
    BY <2>3 DEF ReserveConflict, vars, Start
  <2> QED BY <1>1, <2>1, <2>2, <2>3
<1>2. ASSUME NEW c \in Calls, Find(c) PROVE TypeOK'
  <2> DEFINE found == {q \in 1..Len(room) : room[q] = ev[c]}
  <2>0. found \subseteq Nat
    OBVIOUS
  <2>1. found # {} => MinOf(found) \in found
    BY <2>0, MinOfLeast
  <2>2. found # {} => MinOf(found) \in Nat
    BY <2>1
  <2>3. /\ UNCHANGED <<room, rows, target, now, ev, awake, owed, overlapped>>
        /\ pc[c] = "find"
        /\ \/ pc' = [pc EXCEPT ![c] = "send"] /\ seq' = seq
           \/ /\ pc' = [pc EXCEPT ![c] = "mark"]
              /\ seq' = [seq EXCEPT ![c] = MinOf(found)] /\ found # {}
    BY <1>2 DEF Find
  <2> HIDE DEF found
  <2>4. pc' \in [Calls -> PCs] /\ seq' \in [Calls -> Nat]
    BY <2>2, <2>3
  <2>5. \A d \in Calls : pc'[d] \in {"find", "send", "mark"} => ev'[d] \in reserved
    BY <2>3
  <2> QED BY <2>3, <2>4, <2>5
<1>3. ASSUME NEW c \in Calls, Send(c) PROVE TypeOK'
  BY <1>3 DEF Send
<1>4. ASSUME NEW c \in Calls, Mark(c) PROVE TypeOK'
  <2>1. ev[c] \in Events /\ seq[c] \in Nat
    BY <1>4 DEF Mark
  <2>2. CASE ev[c] \in Eligible
    <3>1. /\ pc' = [pc EXCEPT ![c] = "claim"] /\ ev' = ev
          /\ seq' = [seq EXCEPT ![c] = seq[c]]
      BY <1>4, <2>2 DEF Mark, AfterDelivery
    <3>2. /\ pc' \in [Calls -> PCs] /\ seq' \in [Calls -> Nat]
          /\ roomSeq' \in [Events -> Nat]
      BY <1>4, <2>1, <3>1 DEF Mark
    <3>3. \A d \in Calls : pc'[d] \in {"find", "send", "mark"} => ev'[d] \in reserved
      BY <3>1
    <3> QED BY <1>4, <3>1, <3>2, <3>3 DEF Mark
  <2>3. CASE ev[c] \notin Eligible
    <3>1. Done(c)
      BY <1>4, <2>3 DEF Mark, AfterDelivery
    <3>2. /\ pc' \in [Calls -> PCs] /\ seq' \in [Calls -> Nat]
          /\ ev' \in [Calls -> Events \cup {"none"}]
          /\ roomSeq' \in [Events -> Nat]
      BY <1>4, <2>1, <3>1 DEF Mark
    <3>3. \A d \in Calls : pc'[d] \in {"find", "send", "mark"} => ev'[d] \in reserved
      BY <3>1
    <3> QED BY <1>4, <3>1, <3>2, <3>3 DEF Mark
  <2> QED BY <2>2, <2>3
<1>5. ASSUME NEW c \in Calls, MarkRefused(c) PROVE TypeOK'
  BY <1>5 DEF MarkRefused
<1>6. ASSUME NEW c \in Calls, Claim(c) PROVE TypeOK'
  <2> DEFINE wins == acked < seq[c] /\ (~claimed \/ claimedAt + Lease <= now)
  <2>1. CASE wins
    <3>1. /\ claimed' = TRUE /\ claimedAt' = now /\ owed' = FALSE
          /\ pc' = [pc EXCEPT ![c] = "wake"] /\ ev' = ev /\ seq' = seq
      BY <1>6, <2>1 DEF Claim
    <3> QED BY <1>6, <3>1 DEF Claim
  <2>2. CASE ~wins
    <3>1. /\ Done(c)
          /\ claimed' = claimed /\ claimedAt' = claimedAt /\ owed' = owed
      BY <1>6, <2>2 DEF Claim
    <3> QED BY <1>6, <3>1 DEF Claim
  <2> QED BY <2>1, <2>2
<1>7. ASSUME NEW c \in Calls, WakeStarts(c) \/ WakeReturns(c) \/ WakeFails(c)
      PROVE  TypeOK'
  <2>1. CASE WakeStarts(c)
    BY <2>1 DEF WakeStarts
  <2>2. CASE WakeReturns(c)
    BY <2>2 DEF WakeReturns
  <2>3. CASE WakeFails(c)
    BY <2>3 DEF WakeFails
  <2> QED BY <1>7, <2>1, <2>2, <2>3
<1>8. ASSUME NEW c \in Calls, NEW k \in 0..maxRead, Ack(c, k) PROVE TypeOK'
  <2>1. Larger(acked, k) \in Nat
    BY DEF Larger
  <2> QED BY <1>8, <2>1 DEF Ack
<1>9. ASSUME NEW c \in Calls, AckCheck(c) PROVE TypeOK'
  <2> DEFINE S == {roomSeq[e] : e \in Pending}
  <2>1. S \subseteq 0..Len(room)
    BY DEF RowsNameTheirMessage, Pending
  <2>2. MaxOf(S) \in Nat
    <3>1. Len(room) \in Nat
      OBVIOUS
    <3> HIDE DEF S, TypeOK
    <3>2. MaxOf(S) \in 0..Len(room)
      BY <2>1, <3>1, MaxOfBound
    <3> QED BY <3>1, <3>2
  <2>3. CASE Pending = {} /\ Done(c)
    BY <1>9, <2>3 DEF AckCheck
  <2>4. CASE /\ pc' = [pc EXCEPT ![c] = "claim"]
             /\ seq' = [seq EXCEPT ![c] = MaxOf(S)]
             /\ ev' = ev
    BY <1>9, <2>2, <2>4 DEF AckCheck
  <2> QED BY <1>9, <2>3, <2>4 DEF AckCheck
<1>10. ASSUME NEW c \in Calls, CallLost(c) PROVE TypeOK'
  BY <1>10 DEF CallLost
<1>11. ASSUME NEW after \in {acked} \cup Cursors,
              NEW last \in {acked} \cup Cursors \cup 1..Len(room), Read(after, last)
       PROVE  TypeOK'
  BY <1>11 DEF Read, Larger
<1>12. CASE Tick
  BY <1>12 DEF Tick
<1>13. CASE UNCHANGED vars
  BY <1>13 DEF vars
<1> QED
  BY <1>1, <1>2, <1>3, <1>4, <1>5, <1>6, <1>7, <1>8, <1>9, <1>10, <1>11,
     <1>12, <1>13 DEF Next, CallStep

-----------------------------------------------------------------------------
(* A step keeps the rows and the calls about to write one pointing at      *)
(* messages of their event, and no row that has a seq changes it.          *)
LEMMA RowStep ==
    ASSUME TypeOK, MarkInv, RowsNameTheirMessage, [Next]_vars
    PROVE  /\ MarkInv' /\ RowsNameTheirMessage'
           /\ \A e \in Events : roomSeq[e] # 0 => roomSeq'[e] = roomSeq[e]
<1> DEFINE Stands == \A e \in Events : roomSeq[e] # 0 => roomSeq'[e] = roomSeq[e]
           Goal == MarkInv' /\ RowsNameTheirMessage' /\ Stands
<1> USE BridgeAssumption DEF TypeOK, PCs, Goto, Done, rows, target
<1>1. ASSUME room' = room, roomSeq' = roomSeq,
             \A c \in Calls : pc'[c] = "mark" =>
                 pc[c] = "mark" /\ seq'[c] = seq[c] /\ ev'[c] = ev[c]
      PROVE  Goal
  BY <1>1 DEF MarkInv, RowsNameTheirMessage
<1>2. ASSUME NEW c \in Calls, NEW e \in Events,
             Reserve(c, e) \/ ReserveAgain(c, e) \/ ReserveConflict(c, e)
      PROVE  Goal
  <2>1. room' = room /\ roomSeq' = roomSeq
    BY <1>2 DEF Reserve, ReserveAgain, ReserveConflict, vars
  <2>2. \A d \in Calls : pc'[d] = "mark" =>
                 pc[d] = "mark" /\ seq'[d] = seq[d] /\ ev'[d] = ev[d]
    BY <1>2 DEF Reserve, ReserveAgain, ReserveConflict, vars, Start
  <2> QED BY <1>1, <2>1, <2>2
<1>3. ASSUME NEW c \in Calls, Find(c) PROVE Goal
  <2> DEFINE found == {q \in 1..Len(room) : room[q] = ev[c]}
  <2>1. found \subseteq Nat
    OBVIOUS
  <2>2. found # {} => MinOf(found) \in found
    BY <2>1, MinOfLeast
  <2>3. room' = room /\ roomSeq' = roomSeq /\ ev' = ev
    BY <1>3 DEF Find
  <2>4. CASE found = {}
    BY <1>1, <1>3, <2>3, <2>4 DEF Find
  <2>5. CASE found # {}
    <3>1. /\ pc' = [pc EXCEPT ![c] = "mark"]
          /\ seq' = [seq EXCEPT ![c] = MinOf(found)]
      BY <1>3, <2>5 DEF Find
    <3>2. MarkInv'
      BY <2>2, <2>3, <2>5, <3>1 DEF MarkInv
    <3> QED BY <2>3, <3>2 DEF RowsNameTheirMessage
  <2> QED BY <2>4, <2>5
<1>4. ASSUME NEW c \in Calls, Send(c) PROVE Goal
  <2>1. /\ ev[c] \in Events /\ room' = Append(room, ev[c]) /\ roomSeq' = roomSeq
        /\ pc' = [pc EXCEPT ![c] = "mark"] /\ ev' = ev
        /\ seq' = [seq EXCEPT ![c] = Len(room) + 1]
    BY <1>4 DEF Send
  <2>2. /\ Len(room') = Len(room) + 1
        /\ \A q \in 1..Len(room) : room'[q] = room[q]
        /\ room'[Len(room) + 1] = ev[c]
    BY <2>1
  <2>3. MarkInv'
    BY <2>1, <2>2 DEF MarkInv
  <2>4. RowsNameTheirMessage'
    BY <2>1, <2>2 DEF RowsNameTheirMessage
  <2> QED BY <2>1, <2>3, <2>4
<1>5. ASSUME NEW c \in Calls, Mark(c) PROVE Goal
  <2>1. /\ ev[c] \in Events /\ room' = room
        /\ roomSeq[ev[c]] \in {0, seq[c]}
        /\ roomSeq' = [roomSeq EXCEPT ![ev[c]] = seq[c]]
        /\ seq[c] \in 1..Len(room) /\ room[seq[c]] = ev[c]
    BY <1>5 DEF Mark, MarkInv
  <2>2. \A d \in Calls : pc'[d] = "mark" =>
                 pc[d] = "mark" /\ seq'[d] = seq[d] /\ ev'[d] = ev[d]
    BY <1>5 DEF Mark, AfterDelivery
  <2>3. MarkInv'
    BY <2>1, <2>2 DEF MarkInv
  <2>4. RowsNameTheirMessage' /\ Stands
    BY <2>1 DEF RowsNameTheirMessage
  <2> QED BY <2>3, <2>4
<1>6. ASSUME NEW c \in Calls,
             \/ MarkRefused(c) \/ Claim(c) \/ WakeStarts(c) \/ WakeReturns(c)
             \/ WakeFails(c) \/ AckCheck(c) \/ CallLost(c)
             \/ \E k \in 0..maxRead : Ack(c, k)
      PROVE  Goal
  <2>1. room' = room /\ roomSeq' = roomSeq
    BY <1>6 DEF MarkRefused, Claim, WakeStarts, WakeReturns, WakeFails, AckCheck,
                CallLost, Ack
  <2>2. \A d \in Calls : pc'[d] = "mark" =>
                 pc[d] = "mark" /\ seq'[d] = seq[d] /\ ev'[d] = ev[d]
    BY <1>6 DEF MarkRefused, Claim, WakeStarts, WakeReturns, WakeFails, AckCheck,
                CallLost, Ack
  <2> QED BY <1>1, <2>1, <2>2
<1>7. ASSUME NEW after, NEW last, Read(after, last) PROVE Goal
  BY <1>1, <1>7 DEF Read
<1>8. CASE Tick
  BY <1>1, <1>8 DEF Tick
<1>9. CASE UNCHANGED vars
  BY <1>1, <1>9 DEF vars
<1> QED
  BY <1>2, <1>3, <1>4, <1>5, <1>6, <1>7, <1>8, <1>9 DEF Next, CallStep

-----------------------------------------------------------------------------
(* A set lease keeps standing for something. *)
LEMMA LeaseStep ==
    ASSUME TypeOK, LeaseInv, [Next]_vars
    PROVE  LeaseInv'
<1> USE DEF TypeOK, PCs, Goto, Done, rows, target, LeaseInv
<1>1. ASSUME claimed' = claimed, awake' = awake, owed' = owed,
             \A c \in Calls : pc[c] = "wake" => pc'[c] = "wake"
      PROVE  LeaseInv'
  BY <1>1
<1>2. ASSUME NEW c \in Calls,
             \/ \E e \in Events : \/ Reserve(c, e) \/ ReserveAgain(c, e)
                                  \/ ReserveConflict(c, e)
             \/ Find(c) \/ Send(c) \/ Mark(c) \/ WakeReturns(c) \/ AckCheck(c)
      PROVE  LeaseInv'
  <2>1. claimed' = claimed /\ awake' = awake /\ owed' = owed
    BY <1>2 DEF Reserve, ReserveAgain, ReserveConflict, vars, Find, Send, Mark,
                WakeReturns, AckCheck
  <2>2. \A d \in Calls : pc[d] = "wake" => pc'[d] = "wake"
    BY <1>2 DEF Reserve, ReserveAgain, ReserveConflict, vars, Start, Find, Send,
                Mark, AfterDelivery, WakeReturns, AckCheck
  <2> QED BY <1>1, <2>1, <2>2
<1>3. ASSUME NEW c \in Calls, Claim(c) PROVE LeaseInv'
  <2> DEFINE wins == acked < seq[c] /\ (~claimed \/ claimedAt + Lease <= now)
  <2>1. CASE wins
    <3>1. pc'[c] = "wake"
      BY <1>3, <2>1 DEF Claim
    <3> QED BY <3>1
  <2>2. CASE ~wins
    <3>1. claimed' = claimed /\ awake' = awake /\ owed' = owed
      BY <1>3, <2>2 DEF Claim
    <3>2. \A d \in Calls : pc[d] = "wake" => pc'[d] = "wake"
      BY <1>3, <2>2 DEF Claim
    <3> QED BY <1>1, <3>1, <3>2
  <2> QED BY <2>1, <2>2
<1>4. ASSUME NEW c \in Calls, WakeStarts(c) PROVE LeaseInv'
  BY <1>4 DEF WakeStarts
<1>5. ASSUME NEW c \in Calls, MarkRefused(c) \/ WakeFails(c) \/ CallLost(c)
      PROVE  LeaseInv'
  BY <1>5 DEF MarkRefused, WakeFails, CallLost
<1>6. ASSUME NEW c \in Calls, NEW k, Ack(c, k) PROVE LeaseInv'
  BY <1>6 DEF Ack
<1>7. ASSUME NEW after, NEW last, Read(after, last) PROVE LeaseInv'
  BY <1>1, <1>7 DEF Read
<1>8. CASE Tick
  BY <1>1, <1>8 DEF Tick
<1>9. CASE UNCHANGED vars
  BY <1>1, <1>9 DEF vars
<1> QED
  BY <1>2, <1>3, <1>4, <1>5, <1>6, <1>7, <1>8, <1>9 DEF Next, CallStep

(* Nothing uncovers a pending event. *)
LEMMA CoverStep ==
    ASSUME TypeOK, RowsNameTheirMessage, LeaseInv, PendingIsCovered, [Next]_vars
    PROVE  PendingIsCovered'
<1> DEFINE Covers(c) == pc[c] \in {"wake", "check"} \/ (pc[c] = "claim" /\ seq[c] > acked)
<1> USE DEF TypeOK, PCs, Goto, Done, rows, target
<1>0. ASSUME NEW c \in Calls, Covers(c)' PROVE PendingIsCovered'
  BY <1>0 DEF PendingIsCovered
<1>1. ASSUME awake' = awake, owed' = owed, Pending' \subseteq Pending,
             \A c \in Calls : Covers(c) => Covers(c)'
      PROVE  PendingIsCovered'
  BY <1>1 DEF PendingIsCovered
<1>2. ASSUME NEW c \in Calls,
             \/ \E e \in Events : \/ Reserve(c, e) \/ ReserveAgain(c, e)
                                  \/ ReserveConflict(c, e)
             \/ Find(c) \/ Send(c) \/ WakeReturns(c)
      PROVE  PendingIsCovered'
  <2>1. /\ awake' = awake /\ owed' = owed
        /\ roomSeq' = roomSeq /\ acked' = acked
    BY <1>2 DEF Reserve, ReserveAgain, ReserveConflict, vars, Find, Send, WakeReturns
  <2>2. \A d \in Calls : Covers(d) => pc'[d] = pc[d] /\ seq'[d] = seq[d]
    BY <1>2 DEF Reserve, ReserveAgain, ReserveConflict, vars, Start, Find, Send,
                WakeReturns
  <2>3. \A d \in Calls : Covers(d) => Covers(d)'
    BY <2>1, <2>2
  <2>4. Pending' = Pending
    BY <2>1 DEF Pending
  <2> QED BY <1>1, <2>1, <2>3, <2>4
<1>3. ASSUME NEW c \in Calls, Mark(c) PROVE PendingIsCovered'
  <2>1. /\ awake' = awake /\ owed' = owed /\ acked' = acked
        /\ roomSeq' = [roomSeq EXCEPT ![ev[c]] = seq[c]]
        /\ ev[c] \in Events /\ seq[c] \in Nat
    BY <1>3 DEF Mark
  <2>2. CASE ev[c] \in Eligible /\ seq[c] > acked
    <3>1. pc'[c] = "claim" /\ seq'[c] = seq[c]
      BY <1>3, <2>2 DEF Mark, AfterDelivery
    <3> QED BY <1>0, <2>1, <2>2, <3>1
  <2>3. CASE ~(ev[c] \in Eligible /\ seq[c] > acked)
    <3>1. Pending' \subseteq Pending
      BY <2>1, <2>3, BridgeAssumption DEF Pending
    <3>2. \A d \in Calls : Covers(d) => Covers(d)'
      BY <1>3, <2>1 DEF Mark, AfterDelivery
    <3> QED BY <1>1, <2>1, <3>1, <3>2
  <2> QED BY <2>2, <2>3
<1>4. ASSUME NEW c \in Calls, Claim(c) PROVE PendingIsCovered'
  <2> DEFINE free == ~claimed \/ claimedAt + Lease <= now
  <2>1. CASE acked < seq[c] /\ free
    <3>1. pc'[c] = "wake"
      BY <1>4, <2>1 DEF Claim
    <3> QED BY <1>0, <3>1
  <2>2. CASE ~(acked < seq[c] /\ free)
    <3>1. /\ awake' = awake /\ owed' = owed
          /\ roomSeq' = roomSeq /\ acked' = acked
          /\ pc[c] = "claim" /\ Done(c)
      BY <1>4, <2>2 DEF Claim
    <3>2. Pending' = Pending
      BY <3>1 DEF Pending
    <3>3. \A d \in Calls \ {c} : Covers(d) => Covers(d)'
      BY <3>1
    <3>4. CASE seq[c] > acked
      <4>1. claimed
        BY <2>2, <3>4
      <4>2. awake \/ owed \/ \E d \in Calls \ {c} : pc[d] = "wake"
        BY <3>1, <4>1 DEF LeaseInv
      <4> QED BY <3>1, <3>3, <4>2 DEF PendingIsCovered
    <3>5. CASE ~(seq[c] > acked)
      BY <1>1, <3>1, <3>2, <3>3, <3>5
    <3> QED BY <3>4, <3>5
  <2> QED BY <2>1, <2>2
<1>5. ASSUME NEW c \in Calls, WakeStarts(c) PROVE PendingIsCovered'
  BY <1>5 DEF WakeStarts, PendingIsCovered
<1>6. ASSUME NEW c \in Calls, MarkRefused(c) \/ WakeFails(c) \/ CallLost(c)
      PROVE  PendingIsCovered'
  BY <1>6 DEF MarkRefused, WakeFails, CallLost, PendingIsCovered
<1>7. ASSUME NEW c \in Calls, NEW k, Ack(c, k) PROVE PendingIsCovered'
  <2>1. pc'[c] = "check"
    BY <1>7 DEF Ack
  <2> QED BY <1>0, <2>1
<1>8. ASSUME NEW c \in Calls, AckCheck(c) PROVE PendingIsCovered'
  <2> DEFINE S == {roomSeq[e] : e \in Pending}
  <2>1. roomSeq' = roomSeq /\ acked' = acked
    BY <1>8 DEF AckCheck
  <2>2. CASE Pending = {}
    BY <2>1, <2>2 DEF PendingIsCovered, Pending
  <2>3. CASE Pending # {}
    <3>1. pc'[c] = "claim" /\ seq'[c] = MaxOf(S)
      BY <1>8, <2>3 DEF AckCheck
    <3>2. S \subseteq 0..Len(room) /\ S # {}
      <4>1. ASSUME NEW e \in Pending PROVE roomSeq[e] \in 0..Len(room)
        BY BridgeAssumption DEF RowsNameTheirMessage, Pending
      <4> QED BY <2>3, <4>1
    <3>3. Len(room) \in Nat
      OBVIOUS
    <3>4. ASSUME NEW q \in S PROVE q > acked
      <4>1. PICK e \in Pending : q = roomSeq[e]
        OBVIOUS
      <4> QED BY <4>1 DEF Pending
    <3> HIDE DEF S
    <3>5. MaxOf(S) \in S
      BY <3>2, <3>3, MaxOfGreatest
    <3>6. MaxOf(S) > acked
      BY <3>4, <3>5
    <3> QED BY <1>0, <2>1, <3>1, <3>6
  <2> QED BY <2>2, <2>3
<1>9. ASSUME NEW after, NEW last, Read(after, last) PROVE PendingIsCovered'
  BY <1>1, <1>9 DEF Read, Pending
<1>10. CASE Tick
  BY <1>1, <1>10 DEF Tick, Pending
<1>11. CASE UNCHANGED vars
  BY <1>1, <1>11 DEF vars, Pending
<1> QED
  BY <1>2, <1>3, <1>4, <1>5, <1>6, <1>7, <1>8, <1>9, <1>10, <1>11
     DEF Next, CallStep

-----------------------------------------------------------------------------
(* The inductive invariant holds. *)
THEOREM Inductive == Spec => []IInv
<1>1. Init => IInv
  <2> SUFFICES ASSUME Init PROVE IInv
    OBVIOUS
  <2> USE DEF Init
  <2>1. TypeOK
    <3>1. \A c \in Calls : pc[c] = "idle"
      OBVIOUS
    <3>2. /\ room \in Seq(Events) /\ roomSeq \in [Events -> Nat]
          /\ pc \in [Calls -> PCs] /\ seq \in [Calls -> Nat]
          /\ ev \in [Calls -> Events \cup {"none"}]
      BY DEF PCs
    <3>3. /\ reserved \subseteq Events
          /\ acked \in Nat /\ maxRead \in Nat /\ claimedAt \in Nat
          /\ now \in Nat /\ overlapped \subseteq Events
      OBVIOUS
    <3>4. claimed \in BOOLEAN /\ awake \in BOOLEAN /\ owed \in BOOLEAN
      OBVIOUS
    <3> QED BY <3>1, <3>2, <3>3, <3>4 DEF TypeOK
  <2>2. MarkInv
    BY DEF MarkInv
  <2>3. RowsNameTheirMessage
    BY DEF RowsNameTheirMessage
  <2>4. LeaseInv
    BY DEF LeaseInv
  <2>5. PendingIsCovered
    BY BridgeAssumption DEF PendingIsCovered, Pending
  <2> QED BY <2>1, <2>2, <2>3, <2>4, <2>5 DEF IInv
<1>2. IInv /\ [Next]_vars => IInv'
  BY TypeStep, RowStep, LeaseStep, CoverStep DEF IInv
<1> QED BY <1>1, <1>2, PTL DEF Spec

(* The state of the bridge keeps its types. *)
THEOREM TypeCorrect == Spec => []TypeOK
<1>1. IInv => TypeOK
  BY DEF IInv
<1> QED BY <1>1, Inductive, PTL

(* No eligible event is forgotten, whatever calls overlap, fail or die. *)
THEOREM NoForgottenEvent == Spec => []PendingIsCovered
<1>1. IInv => PendingIsCovered
  BY DEF IInv
<1> QED BY <1>1, Inductive, PTL

(* A delivered row names a message of its event. *)
THEOREM RowsCorrect == Spec => []RowsNameTheirMessage
<1>1. IInv => RowsNameTheirMessage
  BY DEF IInv
<1> QED BY <1>1, Inductive, PTL

(* The first recorded seq of an event is never replaced. *)
THEOREM FirstSeqStands == Spec => RecordedSeqStands
<1>1. IInv /\ [Next]_vars =>
          [\A e \in Events : roomSeq[e] # 0 => roomSeq'[e] = roomSeq[e]]_vars
  BY RowStep DEF IInv
<1> QED BY <1>1, Inductive, PTL DEF Spec, RecordedSeqStands

-----------------------------------------------------------------------------
(* An event whose deliveries never overlapped.                             *)

Delivering(c, e) == ev[c] = e /\ pc[c] \in {"find", "send", "mark"}

(* One call delivers it at a time, and about to send it that call knows    *)
(* that it is not in the room.                                             *)
AloneInv ==
    \A e \in Events \ overlapped :
        /\ \A c, d \in Calls : Delivering(c, e) /\ Delivering(d, e) => c = d
        /\ \A c \in Calls : pc[c] = "send" /\ ev[c] = e =>
               \A q \in 1..Len(room) : room[q] # e

(* Nothing is sent, and no call begins to deliver or to send.              *)
LEMMA AloneKeeps ==
    ASSUME AloneInv, RetryDoesNotDuplicate,
           room' = room, overlapped \subseteq overlapped',
           \A d \in Calls : pc'[d] \in {"find", "send", "mark"} =>
               /\ pc[d] \in {"find", "send", "mark"} /\ ev'[d] = ev[d]
               /\ pc'[d] = "send" => pc[d] = "send"
    PROVE  AloneInv' /\ RetryDoesNotDuplicate'
<1>1. RetryDoesNotDuplicate'
  BY DEF RetryDoesNotDuplicate
<1>2. \A d \in Calls, e \in Events : Delivering(d, e)' => Delivering(d, e)
  BY DEF Delivering
<1>3. AloneInv'
  BY <1>2 DEF AloneInv
<1> QED BY <1>1, <1>3

(* A second call for an event that is being delivered is written down.     *)
LEMMA StartAlone ==
    ASSUME TypeOK, AloneInv, RetryDoesNotDuplicate, NEW c \in Calls, NEW e \in Events,
           Reserve(c, e) \/ ReserveAgain(c, e) \/ ReserveConflict(c, e)
    PROVE  AloneInv' /\ RetryDoesNotDuplicate'
<1>1. CASE ReserveConflict(c, e)
  BY <1>1, AloneKeeps DEF ReserveConflict, vars
<1>2. CASE Reserve(c, e) \/ ReserveAgain(c, e)
  <2>1. /\ room' = room /\ pc[c] = "idle"
        /\ overlapped' = IF \E d \in Calls : Delivering(d, e)
                         THEN overlapped \cup {e} ELSE overlapped
    BY <1>2 DEF Reserve, ReserveAgain, Start, Delivering
  <2>2. /\ \A d \in Calls \ {c} : pc'[d] = pc[d] /\ ev'[d] = ev[d]
        /\ pc'[c] \in {"idle", "find", "claim"}
        /\ pc'[c] = "find" => ev'[c] = e
    BY <1>2, <2>1 DEF Reserve, ReserveAgain, Goto, TypeOK
  <2>3. overlapped \subseteq overlapped' /\ RetryDoesNotDuplicate'
    BY <2>1 DEF RetryDoesNotDuplicate
  <2>4. ASSUME NEW x \in Events \ overlapped', NEW a \in Calls, NEW b \in Calls,
               Delivering(a, x)', Delivering(b, x)'
        PROVE  a = b
    <3>1. CASE a # c /\ b # c
      BY <2>2, <2>3, <2>4, <3>1 DEF AloneInv, Delivering
    <3>2. CASE a = c \/ b = c
      <4>1. x = e
        BY <2>2, <2>4, <3>2 DEF Delivering
      <4>2. \A d \in Calls : ~Delivering(d, e)
        BY <2>1, <2>4, <4>1
      <4>3. \A d \in Calls \ {c} : ~Delivering(d, e)'
        BY <2>2, <4>2 DEF Delivering
      <4> QED BY <2>4, <3>2, <4>1, <4>3
    <3> QED BY <3>1, <3>2
  <2>5. \A d \in Calls : pc'[d] = "send" => pc[d] = "send" /\ ev'[d] = ev[d]
    BY <2>2
  <2>6. AloneInv'
    BY <2>1, <2>3, <2>4, <2>5 DEF AloneInv
  <2> QED BY <2>3, <2>6
<1> QED BY <1>1, <1>2

(* find_event looks at the whole room. *)
LEMMA FindAlone ==
    ASSUME TypeOK, AloneInv, RetryDoesNotDuplicate, NEW c \in Calls, Find(c)
    PROVE  AloneInv' /\ RetryDoesNotDuplicate'
<1>1. /\ UNCHANGED <<room, ev, overlapped>> /\ pc[c] = "find"
      /\ \A d \in Calls \ {c} : pc'[d] = pc[d]
      /\ pc'[c] \in {"send", "mark"}
      /\ pc'[c] = "send" => \A q \in 1..Len(room) : room[q] # ev[c]
  BY DEF Find, Goto, TypeOK
<1>2. \A d \in Calls, e \in Events : Delivering(d, e)' => Delivering(d, e)
  BY <1>1 DEF Delivering
<1>3. AloneInv'
  BY <1>1, <1>2 DEF AloneInv
<1>4. RetryDoesNotDuplicate'
  BY <1>1 DEF RetryDoesNotDuplicate
<1> QED BY <1>3, <1>4

(* The message that is sent is the first of its event, unless deliveries   *)
(* of it overlapped.                                                       *)
LEMMA SendAlone ==
    ASSUME TypeOK, AloneInv, RetryDoesNotDuplicate, NEW c \in Calls, Send(c)
    PROVE  AloneInv' /\ RetryDoesNotDuplicate'
<1> DEFINE x == ev[c]
<1>1. /\ UNCHANGED <<ev, overlapped>> /\ pc[c] = "send" /\ x \in Events
      /\ room \in Seq(Events) /\ room' = Append(room, x)
      /\ \A d \in Calls \ {c} : pc'[d] = pc[d]
      /\ pc'[c] = "mark"
  BY BridgeAssumption DEF Send, Goto, TypeOK
<1> HIDE DEF x
<1>2. /\ Len(room') = Len(room) + 1 /\ Len(room) \in Nat
      /\ \A q \in 1..Len(room) : room'[q] = room[q]
      /\ room'[Len(room) + 1] = x
  BY <1>1
<1>3. x \notin overlapped =>
         /\ \A q \in 1..Len(room) : room[q] # x
         /\ \A d \in Calls \ {c} : ~Delivering(d, x)
  BY <1>1 DEF AloneInv, Delivering, x
<1>4. RetryDoesNotDuplicate'
  <2> SUFFICES ASSUME NEW p \in 1..Len(room'), NEW q \in 1..Len(room'), p < q,
                      room'[p] = room'[q], room'[p] \notin overlapped
               PROVE  FALSE
    BY <1>1, <1>2 DEF RetryDoesNotDuplicate
  <2>1. p \in 1..Len(room) /\ room'[p] = room[p]
    BY <1>2
  <2>2. CASE q = Len(room) + 1
    BY <1>2, <1>3, <2>1, <2>2
  <2>3. CASE q # Len(room) + 1
    <3>1. q \in 1..Len(room) /\ room'[q] = room[q]
      BY <1>2, <2>3
    <3>2. room[p] = room[q] /\ room[p] \notin overlapped
      BY <2>1, <3>1
    <3>3. p # q
      BY <1>2
    <3> QED BY <2>1, <3>1, <3>2, <3>3 DEF RetryDoesNotDuplicate
  <2> QED BY <2>2, <2>3
<1>5. \A d \in Calls, e \in Events : Delivering(d, e)' => Delivering(d, e)
  BY <1>1 DEF Delivering
<1>6. ASSUME NEW d \in Calls, NEW e \in Events \ overlapped, pc'[d] = "send", ev'[d] = e,
             NEW q \in 1..Len(room')
      PROVE  room'[q] # e
  <2>1. d # c /\ pc[d] = "send" /\ ev[d] = e /\ Delivering(d, e)
    BY <1>1, <1>6 DEF Delivering
  <2>2. x # e
    BY <1>3, <2>1
  <2>3. \A p \in 1..Len(room) : room[p] # e
    BY <2>1 DEF AloneInv
  <2> QED BY <1>2, <2>2, <2>3
<1>7. AloneInv'
  BY <1>1, <1>5, <1>6 DEF AloneInv
<1> QED BY <1>4, <1>7

(* No step of a call breaks it, nor puts a second message in the room. *)
LEMMA AloneStep ==
    ASSUME TypeOK, AloneInv, RetryDoesNotDuplicate, [Next]_vars
    PROVE  AloneInv' /\ RetryDoesNotDuplicate'
<1>1. ASSUME NEW c \in Calls,
             \/ Mark(c) \/ MarkRefused(c) \/ Claim(c) \/ WakeStarts(c) \/ WakeReturns(c)
             \/ WakeFails(c) \/ AckCheck(c) \/ CallLost(c)
             \/ \E k \in 0..maxRead : Ack(c, k)
      PROVE  AloneInv' /\ RetryDoesNotDuplicate'
  <2>1. room' = room /\ overlapped' = overlapped
    BY <1>1 DEF Mark, MarkRefused, Claim, WakeStarts, WakeReturns, WakeFails, AckCheck,
                CallLost, Ack
  <2>2. /\ \A d \in Calls \ {c} : pc'[d] = pc[d] /\ ev'[d] = ev[d]
        /\ pc'[c] \notin {"find", "send", "mark"}
    BY <1>1 DEF Mark, MarkRefused, Claim, WakeStarts, WakeReturns, WakeFails, AckCheck,
                CallLost, Ack, AfterDelivery, Done, Goto, TypeOK
  <2> QED BY <2>1, <2>2, AloneKeeps
<1>2. CASE Tick \/ UNCHANGED vars \/ \E after, last : Read(after, last)
  BY <1>2, AloneKeeps DEF Tick, vars, Read
<1> QED BY <1>1, <1>2, StartAlone, FindAlone, SendAlone DEF Next, CallStep

(* The room has each event once, unless two calls for it overlapped while  *)
(* neither had recorded it: a retry after a call that died finds what that *)
(* call sent (find_event, service.rs).                                     *)
THEOREM RetriesFindTheirMessage == Spec => []RetryDoesNotDuplicate
<1>1. Init => AloneInv /\ RetryDoesNotDuplicate
  BY DEF Init, AloneInv, RetryDoesNotDuplicate, Delivering
<1>2. TypeOK /\ AloneInv /\ RetryDoesNotDuplicate /\ [Next]_vars
         => AloneInv' /\ RetryDoesNotDuplicate'
  BY AloneStep
<1> QED BY <1>1, <1>2, TypeCorrect, PTL DEF Spec

-----------------------------------------------------------------------------

(* An enqueue task exists from the insertion of its message on, and comes  *)
(* to the row of matching messages only.                                   *)
TaskInv ==
    \A q \in Seqs : /\ task[q] = "none" <=> q > tip
                    /\ task[q] = "row" => q \in Matching

(* The worker posts for a subscription that it saw active and that only it *)
(* can fail; it deletes and advances for a message that was taken.         *)
WorkerInv ==
    /\ wpc = "load" <=> job = 0
    /\ wpc # "load" => job \in Matching
    /\ wpc \in {"post", "delete", "advance", "failed", "giveup"} =>
           status \in {"active", "gone"}
    /\ wpc \in {"delete", "advance"} => job \in accepted

(* Nothing is queued before there is a subscription; a replay starts no    *)
(* later than the cursor.                                                  *)
HandlerInv ==
    /\ hpc = "create" => status = "none"
    /\ status = "none" => queue = {} /\ hpc \in {"idle", "create"} /\ wpc = "load"
    /\ hpc = "activate" => snap <= cursor
    /\ backlog \subseteq Matching /\ (hpc = "rows" => backlog # {})

(* A row that was not added after a later one is not passed by the worker  *)
(* before it is taken: neither by its job, nor by the cursor, nor by what  *)
(* the receiver has.                                                       *)
InOrder(q) ==
    /\ q \in queue => job <= q /\ (q <= cursor => q \in accepted)
    /\ q \in queue \cup {job} /\ q \notin accepted =>
           \A p \in (q + 1)..MaxMessages : p \notin accepted

OrderInv == \A q \in Seqs : <<q, "overtaken">> \in mishaps \/ InOrder(q)

(* Somebody has still to do with the message: the worker, its task, or the *)
(* handler that replays.                                                   *)
Chased(q) ==
    \/ q \in queue \/ task[q] # "done"
    \/ hpc = "pull" /\ q > snap
    \/ hpc = "rows" /\ (q \in backlog \/ (paging /\ q > snap))

Troubles == {"overtaken", "outrun", "orphaned", "cut", "dropped"}

(* An owed message that nobody chases, though nothing befell it, is ahead  *)
(* of the cursor, and its subscription is failed or about to be: the       *)
(* replay that enables it again starts before the message.                 *)
Adrift(q) ==
    /\ q \in Matching \cap retained
    /\ status \in {"active", "failed"}
    /\ since < q /\ q \notin accepted
    /\ ~Befell(q, Troubles) /\ ~Chased(q)

AdriftInv ==
    \A q \in Seqs : Adrift(q) =>
        /\ q > cursor
        /\ status = "active" => wpc = "giveup" /\ job = q

WebhookInv ==
    WebhookTypeOK /\ TaskInv /\ WorkerInv /\ HandlerInv /\ OrderInv /\ AdriftInv

(* A row is added where there is none and a subscription; one that comes   *)
(* after a later one is on record.                                         *)
LEMMA AddRowAdds ==
    ASSUME WebhookTypeOK, NEW q \in Matching, AddRow(q)
    PROVE  /\ queue' \in SUBSET Matching /\ waiting' \in SUBSET queue'
           /\ attempts' \in [Seqs -> 0..Slots]
           /\ mishaps' \subseteq Seqs \X Troubles
           /\ mishaps \subseteq mishaps'
           /\ queue \subseteq queue' /\ queue' \subseteq queue \cup {q}
           /\ status \in {"active", "failed"} => q \in queue'
           /\ status \notin {"active", "failed"} => queue' = queue
           /\ q \notin queue /\ q \in queue' /\ Overtaken(q) =>
                  <<q, "overtaken">> \in mishaps'
<1> USE WebhookAssumption DEF WebhookTypeOK, table, Seqs, Troubles
<1>1. CASE status \in {"active", "failed"} /\ q \notin queue
  <2> DEFINE late == IF Overtaken(q) THEN {q} ELSE {}
  <2>1. /\ queue' = queue \cup {q} /\ waiting' = waiting
        /\ attempts' = [attempts EXCEPT ![q] = 0]
        /\ mishaps' = mishaps \cup (late \X {"overtaken"})
    BY <1>1 DEF AddRow, Mishap
  <2>2. late \subseteq {q} /\ (Overtaken(q) => q \in late)
    OBVIOUS
  <2> HIDE DEF late
  <2>3. attempts' \in [Seqs -> 0..Slots]
    BY <2>1
  <2>4. mishaps' \subseteq Seqs \X Troubles
    BY <2>1, <2>2
  <2> QED BY <1>1, <2>1, <2>2, <2>3, <2>4
<1>2. CASE ~(status \in {"active", "failed"} /\ q \notin queue)
  <2>1. UNCHANGED <<queue, waiting, attempts, mishaps>>
    BY <1>2 DEF AddRow
  <2> QED BY <1>2, <2>1
<1> QED BY <1>1, <1>2

(* The page and the least row are messages. *)
LEMMA PageIsRetained ==
    ASSUME WebhookTypeOK
    PROVE  /\ HistoryAfter(snap, Page) \subseteq retained
           /\ retained \subseteq 0..MaxMessages
           /\ MaxOf(HistoryAfter(snap, Page)) \in 0..MaxMessages
<1>1. HistoryAfter(snap, Page) \subseteq retained
  BY DEF HistoryAfter
<1>2. retained \subseteq 0..MaxMessages
  BY WebhookAssumption DEF WebhookTypeOK
<1> QED BY <1>1, <1>2, MaxOfBound, WebhookAssumption

LEMMA LeastRow ==
    ASSUME WebhookTypeOK, NEW R, R \subseteq Matching, R # {}
    PROVE  MinOf(R) \in R /\ \A q \in R : MinOf(R) <= q
<1>1. R \subseteq Nat
  BY WebhookAssumption DEF Seqs
<1> QED BY <1>1, MinOfLeast

(* A step of anybody keeps the types. *)
LEMMA WebhookTypeStep ==
    ASSUME WebhookTypeOK, TaskInv, WorkerInv, HandlerInv, [WebhookNext]_wvars
    PROVE  WebhookTypeOK'
<1> USE WebhookAssumption DEF WebhookTypeOK, log, sub, handler, table, worker, Seqs
<1>1. CASE Insert
  <2>1. /\ tip' = tip + 1 /\ tip < MaxMessages
        /\ retained' = retained \cup {tip'}
        /\ task' = [task EXCEPT ![tip'] = "list"]
        /\ UNCHANGED <<status, since, cursor, hpc, snap, backlog, paging, queue, waiting,
                       attempts, wpc, job, accepted, mishaps, enables, restarts>>
    BY <1>1 DEF Insert
  <2>2. tip' \in 0..MaxMessages /\ tip' \in Seqs
    BY <2>1
  <2>3. task' \in [Seqs -> {"none", "list", "row", "done"}]
    BY <2>1, <2>2
  <2>5. retained' \subseteq 1..tip'
    <3>1. tip \in Nat /\ retained \subseteq 1..tip
      OBVIOUS
    <3> HIDE WebhookAssumption DEF WebhookTypeOK, Seqs
    <3> QED BY <2>1, <3>1
  <2>4. /\ hpc' \in {"idle", "create", "activate", "pull", "rows"}
        /\ wpc' \in {"load", "lookup", "drop", "post", "delete", "advance",
                     "failed", "giveup"}
    BY <2>1
  <2> HIDE WebhookAssumption
  <2> QED BY <2>1, <2>2, <2>3, <2>4, <2>5
<1>2. ASSUME NEW q \in Seqs, Purge(q) PROVE WebhookTypeOK'
  BY <1>2 DEF Purge
<1>3. ASSUME NEW q \in Seqs, Due(q) PROVE WebhookTypeOK'
  BY <1>3 DEF Due
<1>4. ASSUME NEW q \in Seqs, TaskList(q) PROVE WebhookTypeOK'
  <2>1. task' \in [Seqs -> {"none", "list", "row", "done"}]
    BY <1>4 DEF TaskList
  <2> QED BY <1>4, <2>1 DEF TaskList, Mishap
<1>5. ASSUME NEW q \in Seqs, TaskRow(q) PROVE WebhookTypeOK'
  <2>1. q \in Matching
    BY <1>5 DEF TaskRow, TaskInv
  <2>2. AddRow(q) /\ task' \in [Seqs -> {"none", "list", "row", "done"}]
        /\ UNCHANGED <<tip, retained, status, since, cursor, hpc, snap, backlog, paging,
                       wpc, job, accepted, enables, restarts>>
    BY <1>5 DEF TaskRow
  <2> QED BY <2>1, <2>2, AddRowAdds DEF Troubles
<1>6. ASSUME NEW n \in {0, tip}, SubscribeSince(n) PROVE WebhookTypeOK'
  BY <1>6 DEF SubscribeSince
<1>7. CASE SubscribeCreate
  BY <1>7 DEF SubscribeCreate
<1>8. CASE EnableRead
  BY <1>8 DEF EnableRead
<1>9. CASE EnableActivate
  BY <1>9 DEF EnableActivate, SetStatus
<1>10. CASE BacklogPull
  <2> DEFINE page == HistoryAfter(snap, Page)
  <2>2. MaxOf(page) \in 0..MaxMessages
    BY PageIsRetained
  <2>3. /\ UNCHANGED <<log, task, sub, enables, table, worker, accepted, restarts>>
        /\ backlog' = page \cap Matching
        /\ snap' \in {snap, MaxOf(page)}
        /\ paging' \in BOOLEAN
        /\ hpc' \in {"rows", "pull", "idle"}
    BY <1>10 DEF BacklogPull
  <2>4. mishaps' \subseteq Seqs \X Troubles
    BY <1>10 DEF BacklogPull, Mishap, Troubles
  <2> HIDE DEF page
  <2> QED BY <2>2, <2>3, <2>4 DEF Troubles
<1>11. CASE BacklogRow
  <2> DEFINE q == MinOf(backlog)
  <2>1. q \in backlog
    BY <1>11, LeastRow DEF BacklogRow, HandlerInv
  <2>2. q \in Matching /\ q \in Seqs
    BY <2>1 DEF HandlerInv
  <2>3. /\ UNCHANGED <<log, task, sub, snap, paging, enables, worker, accepted, restarts>>
        /\ backlog' \subseteq backlog
        /\ hpc' \in {"rows", "pull", "idle"}
        /\ AddRow(q)
    BY <1>11 DEF BacklogRow
  <2> HIDE DEF q
  <2> QED BY <2>2, <2>3, AddRowAdds DEF Troubles
<1>12. CASE Unsubscribe
  BY <1>12 DEF Unsubscribe
<1>13. CASE WorkerLoad
  <2>1. job' \in queue
    BY <1>13, LeastRow DEF WorkerLoad
  <2> QED BY <1>13, <2>1 DEF WorkerLoad
<1>14. CASE WorkerLookup
  BY <1>14 DEF WorkerLookup
<1>15. CASE WorkerDrop
  BY <1>15 DEF WorkerDrop, DropRow, WorkerNext, Mishap, WorkerInv
<1>16. CASE PostBlocked \/ PostRefused
  <2>1. /\ UNCHANGED <<log, task, since, cursor, handler, table, accepted, mishaps,
                       restarts>>
        /\ status' \in {status, "failed"} /\ wpc' \in {"load", "failed"}
        /\ job' \in {0, job}
    BY <1>16 DEF PostBlocked, PostRefused, SetStatus, WorkerNext
  <2> QED BY <2>1
<1>17. ASSUME NEW heard \in BOOLEAN, PostAccepted(heard) PROVE WebhookTypeOK'
  BY <1>17 DEF PostAccepted, WorkerInv
<1>18. CASE DeliveredDelete \/ GiveUpDelete
  BY <1>18 DEF DeliveredDelete, GiveUpDelete, DropRow
<1>19. CASE DeliveredAdvance
  BY <1>19 DEF DeliveredAdvance, WorkerNext, Larger
<1>20. CASE Retry
  <2>1. attempts' \in [Seqs -> 0..Slots]
    BY <1>20 DEF Retry, WorkerInv
  <2>2. UNCHANGED <<log, task, sub, handler, queue, accepted, mishaps, restarts>>
    BY <1>20 DEF Retry
  <2>3. waiting' \subseteq queue
    BY <1>20 DEF Retry
  <2>4. wpc' = "load" /\ job' = 0 /\ job' \in 0..MaxMessages
    BY <1>20 DEF Retry, WorkerNext
  <2> HIDE WebhookAssumption
  <2> QED BY <2>1, <2>2, <2>3, <2>4
<1>21. CASE GiveUpStatus
  BY <1>21 DEF GiveUpStatus, SetStatus, WorkerNext
<1>22. CASE Restart
  <2>1. task' \in [Seqs -> {"none", "list", "row", "done"}]
    BY <1>22 DEF Restart
  <2>2. PICK S \in SUBSET Seqs : mishaps' = mishaps \cup (S \X {"orphaned"})
    <3>1. wpc = "giveup" => job \in Seqs
      BY DEF WorkerInv
    <3>2. PICK S : S \subseteq Matching \cup (IF wpc = "giveup" THEN {job} ELSE {})
                   /\ mishaps' = mishaps \cup (S \X {"orphaned"})
      BY <1>22 DEF Restart, Mishap
    <3> QED BY <3>1, <3>2
  <2>3. mishaps' \subseteq Seqs \X {"overtaken", "outrun", "orphaned", "cut", "dropped"}
    BY <2>2
  <2>4. /\ UNCHANGED <<tip, retained, status, since, cursor, snap, enables, queue, waiting,
                       attempts, accepted>>
        /\ hpc' = "idle" /\ backlog' = {} /\ paging' = FALSE
        /\ wpc' = "load" /\ job' = 0
    BY <1>22 DEF Restart, WorkerNext
  <2>5. restarts' \in 0..MaxRestarts
    BY <1>22 DEF Restart
  <2>6. 0 \in 0..MaxMessages
    OBVIOUS
  <2> HIDE WebhookAssumption
  <2> QED BY <2>1, <2>3, <2>4, <2>5, <2>6
<1>23. CASE WorkerIdle \/ UNCHANGED wvars
  <2>1. /\ UNCHANGED <<log, task, sub>> /\ UNCHANGED <<handler, table, worker>>
        /\ UNCHANGED <<accepted, mishaps, restarts>>
    BY <1>23 DEF WorkerIdle, wvars
  <2> HIDE WebhookAssumption
  <2> QED BY <2>1
<1> QED
  BY <1>1, <1>2, <1>3, <1>4, <1>5, <1>6, <1>7, <1>8, <1>9, <1>10, <1>11, <1>12, <1>13,
     <1>14, <1>15, <1>16, <1>17, <1>18, <1>19, <1>20, <1>21, <1>22, <1>23
  DEF WebhookNext, TaskStep, HandlerStep, WorkerStep

(* A step of anybody keeps the tasks, the worker and the handler in step.  *)
LEMMA TaskInvStep ==
    ASSUME WebhookTypeOK, TaskInv, [WebhookNext]_wvars
    PROVE  TaskInv'
<1> USE WebhookAssumption DEF WebhookTypeOK, TaskInv, Seqs
<1>1. CASE task' = task /\ tip' = tip
  BY <1>1
<1>2. CASE Insert
  <2>1. task' = [task EXCEPT ![tip + 1] = "list"] /\ tip' = tip + 1
    BY <1>2 DEF Insert
  <2> QED BY <2>1
<1>3. ASSUME NEW q \in Seqs, TaskList(q) PROVE TaskInv'
  <2>1. /\ tip' = tip /\ task[q] = "list"
        /\ task' = [task EXCEPT ![q] = "done"] \/
           (task' = [task EXCEPT ![q] = "row"] /\ q \in Matching)
    BY <1>3 DEF TaskList, log
  <2> QED BY <2>1
<1>4. ASSUME NEW q \in Seqs, TaskRow(q) PROVE TaskInv'
  <2>1. tip' = tip /\ task[q] = "row" /\ task' = [task EXCEPT ![q] = "done"]
    BY <1>4 DEF TaskRow, log
  <2> QED BY <2>1
<1>5. CASE Restart
  BY <1>5 DEF Restart, log
<1>6. CASE ~(task' = task /\ tip' = tip)
  <2>1. Insert \/ (\E q \in Seqs : TaskList(q) \/ TaskRow(q)) \/ Restart
    BY <1>6 DEF WebhookNext, wvars, TaskStep, HandlerStep, WorkerStep, log, Purge, Due,
       SubscribeSince, SubscribeCreate, EnableRead, EnableActivate, BacklogPull, BacklogRow,
       Unsubscribe, WorkerLoad, WorkerIdle, WorkerLookup, WorkerDrop, PostBlocked,
       PostAccepted, PostRefused, DeliveredDelete, DeliveredAdvance, Retry, GiveUpDelete,
       GiveUpStatus
  <2> QED BY <1>2, <1>3, <1>4, <1>5, <2>1
<1> QED BY <1>1, <1>6

LEMMA WorkerInvStep ==
    ASSUME WebhookTypeOK, WorkerInv, HandlerInv, [WebhookNext]_wvars
    PROVE  WorkerInv'
<1> USE WebhookAssumption DEF WebhookTypeOK, WorkerInv, Seqs
<1>1. CASE WorkerStep
  <2>1. CASE WorkerLoad
    <3>1. job' = MinOf(queue) /\ queue # {} /\ wpc' = "lookup"
      BY <2>1 DEF WorkerLoad
    <3>2. job' \in Matching
      BY <3>1, LeastRow
    <3> QED BY <3>1, <3>2
  <2>2. CASE WorkerLookup
    BY <2>2 DEF WorkerLookup, sub
  <2>3. ASSUME NEW heard \in BOOLEAN, PostAccepted(heard) PROVE WorkerInv'
    BY <2>3 DEF PostAccepted, sub
  <2>4. CASE PostRefused \/ DeliveredDelete \/ GiveUpDelete
    BY <2>4 DEF PostRefused, DeliveredDelete, GiveUpDelete, sub
  <2>5. CASE WorkerDrop \/ PostBlocked \/ DeliveredAdvance \/ Retry \/ GiveUpStatus
    BY <2>5 DEF WorkerDrop, PostBlocked, DeliveredAdvance, Retry, GiveUpStatus, WorkerNext
  <2> QED BY <1>1, <2>1, <2>2, <2>3, <2>4, <2>5 DEF WorkerStep
<1>2. CASE Restart
  BY <1>2 DEF Restart, WorkerNext
<1>3. CASE SubscribeCreate
  BY <1>3 DEF SubscribeCreate, HandlerInv, worker
<1>4. CASE EnableActivate \/ Unsubscribe
  BY <1>4 DEF EnableActivate, Unsubscribe, SetStatus, worker
<1>5. CASE UNCHANGED <<wpc, job, status, accepted>>
  BY <1>5
<1>6. CASE ~UNCHANGED <<wpc, job, status, accepted>>
  <2>1. WorkerStep \/ Restart \/ SubscribeCreate \/ EnableActivate \/ Unsubscribe
    BY <1>6 DEF WebhookNext, wvars, TaskStep, HandlerStep, worker, sub, Insert, Purge, Due,
       TaskList, TaskRow, SubscribeSince, EnableRead, BacklogPull, BacklogRow, WorkerIdle
  <2> QED BY <1>1, <1>2, <1>3, <1>4, <2>1
<1> QED BY <1>5, <1>6

LEMMA HandlerInvStep ==
    ASSUME WebhookTypeOK, TaskInv, WorkerInv, HandlerInv, [WebhookNext]_wvars
    PROVE  HandlerInv'
<1> USE WebhookAssumption DEF WebhookTypeOK, HandlerInv, Seqs
<1>1. ASSUME NEW n \in {0, tip}, SubscribeSince(n) PROVE HandlerInv'
  BY <1>1 DEF SubscribeSince, sub, table, worker
<1>2. CASE SubscribeCreate
  BY <1>2 DEF SubscribeCreate
<1>3. CASE EnableRead
  BY <1>3 DEF EnableRead, sub
<1>4. CASE EnableActivate
  BY <1>4 DEF EnableActivate, SetStatus
<1>5. CASE BacklogPull
  <2> DEFINE page == HistoryAfter(snap, Page)
  <2>1. /\ UNCHANGED <<status, cursor, queue, wpc>> /\ hpc = "pull"
        /\ backlog' = page \cap Matching
        /\ hpc' \in {"rows", "pull", "idle"} /\ (hpc' = "rows" => page \cap Matching # {})
    BY <1>5 DEF BacklogPull, sub, table, worker
  <2> HIDE DEF page
  <2> QED BY <2>1
<1>6. CASE BacklogRow
  <2>1. MinOf(backlog) \in Matching
    BY <1>6, LeastRow DEF BacklogRow
  <2>2. /\ UNCHANGED <<status, cursor, wpc>> /\ hpc = "rows"
        /\ backlog' \subseteq backlog /\ AddRow(MinOf(backlog))
        /\ hpc' \in {"rows", "pull", "idle"} /\ (hpc' = "rows" => backlog' # {})
    BY <1>6 DEF BacklogRow, sub, worker
  <2> QED BY <2>1, <2>2
<1>7. ASSUME NEW q \in Seqs, TaskRow(q) PROVE HandlerInv'
  <2>1. q \in Matching /\ AddRow(q) /\ UNCHANGED <<sub, handler, worker>>
    BY <1>7 DEF TaskRow, TaskInv
  <2>2. status \notin {"active", "failed"} => queue' = queue
    BY <2>1, AddRowAdds
  <2> QED BY <2>1, <2>2 DEF sub, handler, worker
<1>8. CASE Unsubscribe
  BY <1>8 DEF Unsubscribe, handler
<1>9. CASE WorkerLoad
  BY <1>9 DEF WorkerLoad, sub, handler, table
<1>10. CASE WorkerStep /\ ~WorkerLoad
  <2>1. UNCHANGED handler /\ status # "none"
    BY <1>10 DEF WorkerStep, WorkerLookup, WorkerDrop, PostBlocked, PostAccepted,
       PostRefused, DeliveredDelete, DeliveredAdvance, Retry, GiveUpDelete, GiveUpStatus
  <2>2. status' # "none"
    BY <1>10, <2>1 DEF WorkerStep, WorkerLookup, WorkerDrop, PostBlocked, PostAccepted,
       PostRefused, DeliveredDelete, DeliveredAdvance, Retry, GiveUpDelete, GiveUpStatus,
       sub, SetStatus
  <2>3. cursor' \in Nat /\ cursor <= cursor'
    BY <1>10 DEF WorkerStep, WorkerLookup, WorkerDrop, PostBlocked, PostAccepted,
       PostRefused, DeliveredDelete, DeliveredAdvance, Retry, GiveUpDelete, GiveUpStatus,
       sub, Larger
  <2> QED BY <2>1, <2>2, <2>3 DEF handler
<1>11. CASE Restart
  BY <1>11 DEF Restart, WorkerNext, sub, table
<1>12. CASE UNCHANGED <<sub, handler, queue, worker>>
  BY <1>12 DEF sub, handler, worker
<1>13. CASE \/ Insert \/ (\E q \in Seqs : Purge(q) \/ Due(q) \/ TaskList(q))
            \/ WorkerIdle \/ UNCHANGED wvars
  <2>1. UNCHANGED <<sub, handler, queue, worker>>
    BY <1>13 DEF Insert, Purge, Due, TaskList, WorkerIdle, wvars, table
  <2> QED BY <1>12, <2>1
<1> QED
  BY <1>1, <1>2, <1>3, <1>4, <1>5, <1>6, <1>7, <1>8, <1>9, <1>10, <1>11, <1>13
  DEF WebhookNext, TaskStep, HandlerStep

(* Nothing on record is forgotten, nothing taken is taken back. *)
LEMMA HistoryGrows ==
    ASSUME WebhookTypeOK, TaskInv, HandlerInv, [WebhookNext]_wvars
    PROVE  mishaps \subseteq mishaps' /\ accepted \subseteq accepted'
<1>1. ASSUME NEW q \in Seqs, TaskRow(q) PROVE mishaps \subseteq mishaps'
  <2>1. q \in Matching /\ AddRow(q)
    BY <1>1 DEF TaskRow, TaskInv
  <2> QED BY <2>1, AddRowAdds
<1>2. CASE BacklogRow
  <2>1. MinOf(backlog) \in Matching
    BY <1>2, LeastRow DEF BacklogRow, HandlerInv
  <2>2. AddRow(MinOf(backlog))
    BY <1>2 DEF BacklogRow
  <2>3. accepted' = accepted
    BY <1>2 DEF BacklogRow
  <2> QED BY <2>1, <2>2, <2>3, AddRowAdds
<1>3. CASE BacklogPull
  BY <1>3 DEF BacklogPull, Mishap
<1>4. CASE WorkerDrop
  BY <1>4 DEF WorkerDrop, Mishap
<1>5. CASE Restart
  BY <1>5 DEF Restart, Mishap
<1>6. mishaps \subseteq mishaps'
  BY <1>1, <1>2, <1>3, <1>4, <1>5 DEF WebhookNext, wvars, TaskStep, HandlerStep, WorkerStep,
     Insert, Purge, Due, TaskList, Mishap, SubscribeSince, SubscribeCreate, EnableRead,
     EnableActivate, Unsubscribe, WorkerLoad, WorkerIdle, WorkerLookup, PostBlocked,
     PostAccepted, PostRefused, DeliveredDelete, DeliveredAdvance, Retry, GiveUpDelete,
     GiveUpStatus
<1>7. accepted \subseteq accepted'
  BY DEF WebhookNext, wvars, TaskStep, HandlerStep, WorkerStep, Insert, Purge, Due, TaskList,
     TaskRow, SubscribeSince, SubscribeCreate, EnableRead, EnableActivate, BacklogPull,
     BacklogRow, Unsubscribe, WorkerLoad, WorkerIdle, WorkerLookup, WorkerDrop, PostBlocked,
     PostAccepted, PostRefused, DeliveredDelete, DeliveredAdvance, Retry, GiveUpDelete,
     GiveUpStatus, Restart
<1> QED BY <1>6, <1>7

(* Adding the row of one message keeps the order, unless it is on record.  *)
LEMMA AddRowInOrder ==
    ASSUME WebhookTypeOK, OrderInv, NEW x \in Matching, AddRow(x),
           UNCHANGED <<job, cursor, accepted>>
    PROVE  OrderInv'
<1> USE WebhookAssumption DEF WebhookTypeOK, Seqs
<1>1. SUFFICES ASSUME NEW q \in Seqs, <<q, "overtaken">> \notin mishaps'
               PROVE  InOrder(q)'
  BY DEF OrderInv
<1>2. InOrder(q)
  BY <1>1, AddRowAdds DEF OrderInv
<1>3. CASE q \in queue \/ q \notin queue'
  BY <1>2, <1>3 DEF InOrder
<1>4. CASE q \notin queue /\ q \in queue'
  <2>1. q = x /\ ~Overtaken(q)
    BY <1>1, <1>4, AddRowAdds
  <2>2. q > cursor /\ \A p \in (q + 1)..MaxMessages : p # job /\ p \notin accepted
    BY <2>1 DEF Overtaken
  <2>3. job <= q
    BY <2>2
  <2> QED BY <2>2, <2>3 DEF InOrder
<1> QED BY <1>3, <1>4

(* A step of anybody keeps the rows in order. *)
LEMMA OrderInvStep ==
    ASSUME WebhookTypeOK, TaskInv, WorkerInv, HandlerInv, OrderInv, [WebhookNext]_wvars
    PROVE  OrderInv'
<1> USE WebhookAssumption DEF WebhookTypeOK, Seqs
<1>1. ASSUME NEW x \in Seqs, TaskRow(x) PROVE OrderInv'
  <2>1. x \in Matching /\ AddRow(x) /\ UNCHANGED <<job, cursor, accepted>>
    BY <1>1 DEF TaskRow, TaskInv, worker, sub
  <2> QED BY <2>1, AddRowInOrder
<1>2. CASE BacklogRow
  <2>1. MinOf(backlog) \in Matching /\ AddRow(MinOf(backlog))
        /\ UNCHANGED <<job, cursor, accepted>>
    BY <1>2, LeastRow DEF BacklogRow, HandlerInv, worker, sub
  <2> QED BY <2>1, AddRowInOrder
<1>3. ASSUME NEW q \in Seqs, <<q, "overtaken">> \notin mishaps',
             ~(\E x \in Seqs : TaskRow(x)), ~BacklogRow
      PROVE  InOrder(q)'
  <2>1. InOrder(q)
    BY <1>3, HistoryGrows DEF OrderInv
  <2>2. CASE SubscribeCreate
    BY <2>2 DEF SubscribeCreate, HandlerInv, WorkerInv, table, worker, InOrder
  <2>3. CASE Unsubscribe
    BY <2>1, <2>3 DEF Unsubscribe, worker, InOrder
  <2>4. CASE WorkerLoad
    <3>1. /\ job' = MinOf(queue) /\ queue # {} /\ queue' = queue
          /\ cursor' = cursor /\ accepted' = accepted
      BY <2>4 DEF WorkerLoad, sub, table
    <3>2. job' \in queue /\ (q \in queue => job' <= q)
      BY <3>1, LeastRow
    <3> QED BY <2>1, <3>1, <3>2 DEF InOrder
  <2>5. ASSUME NEW heard \in BOOLEAN, PostAccepted(heard) PROVE InOrder(q)'
    <3>1. /\ accepted' = accepted \cup {job}
          /\ UNCHANGED <<queue, job, cursor>>
      BY <2>5 DEF PostAccepted, sub, table
    <3> QED BY <2>1, <3>1 DEF InOrder
  <2>6. CASE DeliveredAdvance
    <3>1. /\ job \in accepted /\ job' = 0 /\ UNCHANGED <<queue, accepted>>
          /\ cursor' \in {cursor, job}
      BY <2>6 DEF DeliveredAdvance, WorkerNext, WorkerInv, Larger, table
    <3>2. q \in queue /\ q <= cursor' => q \in accepted
      BY <2>1, <3>1 DEF InOrder
    <3> QED BY <2>1, <3>1, <3>2 DEF InOrder
  <2>7. CASE queue' \subseteq queue /\ job' \in {0, job} /\ UNCHANGED <<cursor, accepted>>
    BY <2>1, <2>7 DEF InOrder
  <2>8. \/ SubscribeCreate \/ Unsubscribe \/ WorkerLoad
        \/ (\E heard \in BOOLEAN : PostAccepted(heard)) \/ DeliveredAdvance
        \/ queue' \subseteq queue /\ job' \in {0, job} /\ UNCHANGED <<cursor, accepted>>
    <3>1. WebhookNext \/ UNCHANGED wvars
      OBVIOUS
    <3> QED BY <1>3, <3>1 DEF WebhookNext, wvars, TaskStep, HandlerStep, WorkerStep, Insert,
       Purge, Due, TaskList, SubscribeSince, EnableRead, EnableActivate, BacklogPull,
       WorkerIdle, WorkerLookup, WorkerDrop, PostBlocked, PostRefused, DeliveredDelete,
       Retry, GiveUpDelete, GiveUpStatus, Restart, WorkerNext, DropRow, sub, table, worker
  <2> QED BY <2>2, <2>3, <2>4, <2>5, <2>6, <2>7, <2>8
<1> QED BY <1>1, <1>2, <1>3 DEF OrderInv

(* A history page leaves a message out only if it is full of earlier ones. *)
LEMMA PageLeavesOutLater ==
    ASSUME WebhookTypeOK, NEW q \in retained, q > snap,
           q \notin HistoryAfter(snap, Page)
    PROVE  /\ q > MaxOf(HistoryAfter(snap, Page))
           /\ HistoryAfter(snap, Page) # {}
           /\ Cardinality(HistoryAfter(snap, Page)) = Page
<1> DEFINE upto(x) == {y \in retained : snap < y /\ y <= x}
           page == HistoryAfter(snap, Page)
           out == {y \in retained : snap < y /\ y \notin page}
<1>1. retained \subseteq Nat /\ snap \in Nat /\ Page \in Nat /\ Page >= 1
  BY WebhookAssumption DEF WebhookTypeOK
<1>2. IsFiniteSet(retained)
  <2>1. retained \subseteq 1..tip /\ tip \in Int
    BY WebhookAssumption DEF WebhookTypeOK
  <2>2. IsFiniteSet(1..tip)
    BY <2>1, 1 \in Int, FS_Interval
  <2> QED BY <2>1, <2>2, FS_Subset
<1>3. \A x : IsFiniteSet(upto(x)) /\ Cardinality(upto(x)) \in Nat
  <2> TAKE x
  <2>1. upto(x) \subseteq retained
    OBVIOUS
  <2> QED BY <1>2, <2>1, FS_Subset, FS_CardinalityType
<1>4. page = {x \in retained : x > snap /\ Cardinality(upto(x)) <= Page}
  BY DEF HistoryAfter
<1>5. \A x \in retained, y \in retained : x <= y => Cardinality(upto(x)) <= Cardinality(upto(y))
  <2>1. ASSUME NEW x \in retained, NEW y \in retained, x <= y
        PROVE  upto(x) \subseteq upto(y)
    <3>1. ASSUME NEW u \in retained, snap < u, u <= x PROVE u <= y
      <4>1. u \in Nat /\ x \in Nat /\ y \in Nat
        BY <1>1, <2>1
      <4> QED BY <2>1, <3>1, <4>1
    <3> QED BY <3>1
  <2> QED BY <1>3, <2>1, FS_Subset
<1>6. PICK z \in out : \A y \in out : z <= y
  <2>1. out \subseteq Nat /\ q \in out
    BY <1>1
  <2> QED BY <2>1, LeastNat
<1>7. z \in retained /\ z > snap /\ Cardinality(upto(z)) > Page
  BY <1>1, <1>3, <1>4, <1>6
<1>8. \A y \in page : y \in retained /\ y > snap /\ y < z
  <2>1. ASSUME NEW y \in page, y >= z PROVE FALSE
    <3>1. y \in retained /\ Cardinality(upto(y)) <= Page
      BY <1>4
    <3>2. Cardinality(upto(z)) <= Cardinality(upto(y))
      BY <1>1, <1>5, <1>7, <2>1, <3>1
    <3>3. Cardinality(upto(y)) \in Nat /\ Cardinality(upto(z)) \in Nat
      BY <1>3
    <3> HIDE DEF upto
    <3> QED BY <1>1, <1>7, <3>1, <3>2, <3>3
  <2>2. ASSUME NEW y \in page PROVE y \in retained /\ y > snap
    BY <1>4
  <2>3. ASSUME NEW y \in page PROVE y < z
    <3>1. y \in Nat /\ z \in Nat
      BY <1>1, <1>7, <2>2
    <3>2. ~(y >= z)
      BY <2>1
    <3> HIDE DEF page
    <3> QED BY <3>1, <3>2
  <2> QED BY <2>2, <2>3
<1>9. upto(z) = page \cup {z} /\ z \notin page
  <2>1. ASSUME NEW y \in retained, snap < y, y < z PROVE y \in page
    <3>1. y \in Nat /\ z \in Nat
      BY <1>1, <1>7
    <3>2. y \in out => z <= y
      BY <1>6
    <3>3. y \notin out
      BY <2>1, <3>1, <3>2
    <3> QED BY <2>1, <3>3
  <2>2. ASSUME NEW y \in page
        PROVE  y \in retained /\ snap < y /\ y <= z /\ y # z
    <3>1. y \in retained /\ y > snap /\ y < z
      BY <1>8
    <3>2. y \in Nat /\ z \in Nat
      BY <1>1, <1>7, <3>1
    <3> HIDE DEF page
    <3> QED BY <1>1, <3>1, <3>2
  <2>3. z \in upto(z)
    BY <1>1, <1>7
  <2>4. ASSUME NEW y \in upto(z), y # z PROVE y \in page
    <3>1. y \in retained /\ snap < y /\ y < z
      BY <1>1, <1>7, <2>4
    <3> QED BY <2>1, <3>1
  <2>5. page \subseteq upto(z)
    BY <2>2
  <2> HIDE DEF upto, page
  <2> QED BY <2>2, <2>3, <2>4, <2>5
<1>10. IsFiniteSet(page) /\ Cardinality(page) \in Nat
  <2>1. page \subseteq retained
    BY <1>4
  <2> QED BY <1>2, <2>1, FS_Subset, FS_CardinalityType
<1>11. Cardinality(page) >= Page
  <2>1. Cardinality(page \cup {z}) = Cardinality(page) + 1
    BY <1>9, <1>10, FS_AddElement
  <2> HIDE DEF page, upto
  <2> QED BY <1>1, <1>7, <1>9, <1>10, <2>1
<1>12. page # {}
  BY <1>1, <1>11, FS_EmptySet
<1>13. page \subseteq 0..MaxMessages /\ MaxMessages \in Nat
  BY PageIsRetained, WebhookAssumption
<1>14. MaxOf(page) \in page /\ \A y \in page : y <= MaxOf(page)
  BY <1>12, <1>13, MaxOfGreatest
<1>15. Cardinality(page) <= Page
  <2> DEFINE m == MaxOf(page)
  <2>1. m \in page /\ Cardinality(upto(m)) <= Page
    BY <1>4, <1>14
  <2>2. page \subseteq upto(m)
    BY <1>8, <1>14
  <2>3. Cardinality(page) <= Cardinality(upto(m))
    BY <1>3, <2>2, FS_Subset
  <2> HIDE DEF page, upto, m
  <2> QED BY <1>1, <1>3, <1>10, <2>1, <2>3
<1>16. q >= z /\ MaxOf(page) < z
  BY <1>1, <1>6, <1>8, <1>14
<1>17. Cardinality(page) = Page
  <2> HIDE DEF page
  <2> QED BY <1>1, <1>10, <1>11, <1>15
<1>18. q > MaxOf(page)
  <2>1. MaxOf(page) \in Nat /\ z \in Nat /\ q \in Nat
    BY <1>1, <1>7, <1>8, <1>14
  <2> HIDE DEF page
  <2> QED BY <1>16, <2>1
<1> QED BY <1>12, <1>17, <1>18

(* While the worker is posting, the subscription is not failed, so that    *)
(* nothing is adrift.                                                      *)
LEMMA NothingAdriftWhilePosting ==
    ASSUME WorkerInv, AdriftInv, NEW q \in Seqs, Adrift(q),
           wpc \in {"post", "delete", "advance", "failed"}
    PROVE  FALSE
BY DEF WorkerInv, AdriftInv, Adrift

(* What the worker and the handlers of the subscription do to a message    *)
(* that is adrift afterwards.                                              *)
LEMMA HandlerLeavesNothingAdrift ==
    ASSUME WebhookTypeOK, HandlerInv, AdriftInv, NEW q \in Seqs, Adrift(q)',
           mishaps \subseteq mishaps',
           HandlerStep
    PROVE  /\ q > cursor'
           /\ status' = "active" => wpc' = "giveup" /\ job' = q
<1> USE DEF Seqs
<1>1. /\ q \in Matching /\ q \in retained' /\ status' \in {"active", "failed"}
      /\ since' < q /\ q \notin accepted' /\ ~Befell(q, Troubles)'
      /\ ~Befell(q, Troubles)
      /\ q \notin queue' /\ task'[q] = "done"
      /\ ~(hpc' = "pull" /\ q > snap')
      /\ ~(hpc' = "rows" /\ (q \in backlog' \/ (paging' /\ q > snap')))
  BY DEF Adrift, Befell, Chased
<1>2. ~SubscribeCreate
  BY <1>1 DEF SubscribeCreate
<1>3. CASE EnableActivate
  <2>1. /\ hpc = "activate" /\ hpc' = "pull" /\ snap' = snap
        /\ UNCHANGED <<retained, since, accepted, queue, task, cursor>>
        /\ status \in {"active", "failed"}
    BY <1>1, <1>3 DEF EnableActivate, SetStatus, log, table
  <2>2. Adrift(q)
    BY <1>1, <2>1 DEF Adrift, Chased
  <2>3. q > cursor /\ snap <= cursor
    BY <2>1, <2>2 DEF AdriftInv, HandlerInv
  <2>4. q > snap
    BY <2>3, WebhookAssumption DEF WebhookTypeOK
  <2> QED BY <1>1, <2>1, <2>4
<1>4. CASE BacklogPull
  <2> DEFINE page == HistoryAfter(snap, Page)
             more == Cardinality(page) = Page
             cut == {x \in Matching \cap retained :
                        x > MaxOf(page) /\ x \notin queue /\ task[x] = "done"}
  <2>1. /\ UNCHANGED <<retained, task, status, since, cursor, queue, wpc, job, accepted>>
        /\ hpc = "pull" /\ backlog' = page \cap Matching
        /\ snap' = (IF page = {} THEN snap ELSE MaxOf(page))
        /\ paging' = (paging /\ more)
        /\ hpc' = IF page \cap Matching # {} THEN "rows"
                  ELSE IF paging' THEN "pull" ELSE "idle"
        /\ mishaps' = mishaps \cup ((IF ~paging /\ more THEN cut ELSE {}) \X {"cut"})
    BY <1>4 DEF BacklogPull, Mishap, log, sub, table, worker
  <2>2. CASE Adrift(q)
    BY <2>1, <2>2 DEF AdriftInv
  <2>3. CASE ~Adrift(q)
    <3>1. q > snap /\ q \in retained
      BY <1>1, <2>1, <2>3 DEF Adrift, Chased
    <3>2. q \notin page
      <4> HIDE DEF page
      <4> QED BY <1>1, <2>1
    <3>3. q > MaxOf(page) /\ page # {} /\ more
      BY <3>1, <3>2, PageLeavesOutLater
    <3>4. ~paging
      <4> HIDE DEF page
      <4> QED BY <1>1, <2>1, <3>3
    <3>5. q \in cut
      BY <1>1, <2>1, <3>1, <3>3
    <3>6. <<q, "cut">> \in mishaps'
      <4> HIDE DEF cut, more
      <4> QED BY <2>1, <3>3, <3>4, <3>5
    <3> QED BY <1>1, <3>6 DEF Befell, Troubles
  <2> QED BY <2>2, <2>3
<1>5. CASE BacklogRow
  <2> DEFINE x == MinOf(backlog)
  <2>1. x \in Matching /\ x \in backlog
    BY <1>5, LeastRow DEF BacklogRow, HandlerInv
  <2>2. /\ UNCHANGED <<retained, task, status, since, cursor, snap, paging, wpc, job,
                       accepted>>
        /\ hpc = "rows" /\ backlog' = backlog \ {x} /\ AddRow(x)
        /\ hpc' = IF backlog' # {} THEN "rows" ELSE IF paging THEN "pull" ELSE "idle"
    BY <1>5 DEF BacklogRow, log, sub, worker
  <2> HIDE DEF x
  <2>3. queue \subseteq queue' /\ x \in queue'
    BY <1>1, <2>1, <2>2, AddRowAdds
  <2>4. q \notin backlog /\ ~(paging /\ q > snap)
    BY <1>1, <2>2, <2>3
  <2>5. Adrift(q)
    BY <1>1, <2>2, <2>3, <2>4 DEF Adrift, Chased
  <2> QED BY <2>2, <2>5 DEF AdriftInv
<1> QED BY <1>2, <1>3, <1>4, <1>5 DEF HandlerStep

LEMMA WorkerLeavesNothingAdrift ==
    ASSUME WebhookTypeOK, WorkerInv, OrderInv, AdriftInv, NEW q \in Seqs, Adrift(q)',
           mishaps \subseteq mishaps',
           WorkerStep
    PROVE  /\ q > cursor'
           /\ status' = "active" => wpc' = "giveup" /\ job' = q
<1> USE DEF Seqs
<1>1. /\ q \in Matching /\ q \in retained' /\ status' \in {"active", "failed"}
      /\ since' < q /\ q \notin accepted' /\ ~Befell(q, Troubles)'
      /\ ~Befell(q, Troubles) /\ ~Chased(q)'
  BY DEF Adrift, Befell
<1>2. <<q, "overtaken">> \notin mishaps
  BY <1>1 DEF Befell, Troubles
<1>3. /\ UNCHANGED <<retained, task, handler, since>>
      /\ status' \in {"active", "failed"} => status \in {"active", "failed"}
      /\ accepted \subseteq accepted'
  BY DEF WorkerStep, WorkerLoad, WorkerLookup, WorkerDrop, PostBlocked, PostAccepted,
     PostRefused, DeliveredDelete, DeliveredAdvance, Retry, GiveUpDelete, GiveUpStatus,
     SetStatus, log, sub
<1>4. Adrift(q) \/ (q \in queue /\ q \notin queue')
  BY <1>1, <1>3 DEF Adrift, Chased, handler
<1>5. CASE Adrift(q)
  <2>1. q > cursor /\ (status = "active" => wpc = "giveup" /\ job = q)
    BY <1>5 DEF AdriftInv
  <2>2. wpc \notin {"post", "delete", "advance", "failed"}
    BY <1>5, NothingAdriftWhilePosting
  <2>3. CASE WorkerLoad \/ WorkerLookup \/ WorkerDrop
    BY <1>1, <2>1, <2>3 DEF WorkerLoad, WorkerLookup, WorkerDrop, sub
  <2>4. CASE GiveUpStatus
    BY <1>1, <2>1, <2>4 DEF GiveUpStatus, SetStatus
  <2> QED BY <2>2, <2>3, <2>4 DEF WorkerStep, PostBlocked, PostAccepted, PostRefused,
        DeliveredDelete, DeliveredAdvance, Retry, GiveUpDelete
<1>6. CASE q \in queue /\ q \notin queue'
  <2>1. q \notin accepted
    BY <1>1, <1>3
  <2>2. q > cursor
    BY <1>2, <1>6, <2>1, WebhookAssumption DEF OrderInv, InOrder, WebhookTypeOK
  <2>3. CASE WorkerDrop
    <3>1. /\ UNCHANGED <<status, cursor>> /\ q = job
          /\ Mishap(IF status = "active" THEN {job} \cap queue ELSE {}, "dropped")
      BY <1>6, <2>3 DEF WorkerDrop, DropRow, sub
    <3>2. status # "active"
      BY <1>1, <1>6, <3>1 DEF Mishap, Befell, Troubles
    <3> QED BY <2>2, <3>1, <3>2
  <2>4. CASE GiveUpDelete
    BY <1>6, <2>2, <2>4 DEF GiveUpDelete, DropRow, sub
  <2>5. CASE DeliveredDelete
    BY <1>6, <2>1, <2>5 DEF DeliveredDelete, DropRow, WorkerInv
  <2> QED BY <1>6, <2>3, <2>4, <2>5 DEF WorkerStep, WorkerLoad, WorkerLookup, PostBlocked,
        PostAccepted, PostRefused, DeliveredAdvance, Retry, GiveUpStatus, table
<1> QED BY <1>4, <1>5, <1>6

(* A step of anybody keeps every message chased or ahead of the cursor.    *)
LEMMA AdriftInvStep ==
    ASSUME WebhookTypeOK, TaskInv, WorkerInv, HandlerInv, OrderInv, AdriftInv,
           [WebhookNext]_wvars
    PROVE  AdriftInv'
<1> USE DEF Seqs
<1> SUFFICES ASSUME NEW q \in Seqs, Adrift(q)'
               PROVE  /\ q > cursor'
                      /\ status' = "active" => wpc' = "giveup" /\ job' = q
  BY DEF AdriftInv
<1>1. mishaps \subseteq mishaps' /\ accepted \subseteq accepted'
  BY HistoryGrows
<1>2. /\ q \in Matching /\ q \in retained' /\ status' \in {"active", "failed"}
      /\ since' < q /\ q \notin accepted' /\ q \notin accepted
      /\ ~Befell(q, Troubles)' /\ ~Befell(q, Troubles)
      /\ q \notin queue' /\ task'[q] = "done" /\ ~Chased(q)'
  BY <1>1 DEF Adrift, Befell, Chased
<1>3. ASSUME Adrift(q), UNCHANGED <<status, cursor, wpc, job>>
      PROVE  /\ q > cursor'
             /\ status' = "active" => wpc' = "giveup" /\ job' = q
  BY <1>3 DEF AdriftInv
<1>4. CASE HandlerStep
  BY <1>1, <1>4, HandlerLeavesNothingAdrift
<1>5. CASE WorkerStep
  BY <1>1, <1>5, WorkerLeavesNothingAdrift
<1>6. CASE Insert
  <2>1. /\ retained' = retained \cup {tip + 1} /\ task' = [task EXCEPT ![tip + 1] = "list"]
        /\ UNCHANGED <<sub, handler, table, worker>>
    BY <1>6 DEF Insert
  <2>2. q # tip + 1 /\ task[q] = "done"
    BY <1>2, <2>1 DEF WebhookTypeOK
  <2> QED BY <1>2, <1>3, <2>1, <2>2 DEF Adrift, Chased, sub, handler, table, worker
<1>7. ASSUME NEW x \in Seqs, Purge(x) \/ Due(x)
      PROVE  /\ q > cursor'
             /\ status' = "active" => wpc' = "giveup" /\ job' = q
  <2>1. /\ retained' \subseteq retained
        /\ UNCHANGED <<task, status, since, cursor, handler, queue, wpc, job>>
    BY <1>7 DEF Purge, Due, log, sub, table, worker
  <2> QED BY <1>2, <1>3, <2>1 DEF Adrift, Chased, handler
<1>8. ASSUME NEW x \in Seqs, TaskList(x)
      PROVE  /\ q > cursor'
             /\ status' = "active" => wpc' = "giveup" /\ job' = q
  <2>1. /\ UNCHANGED <<retained, status, since, cursor, handler, queue, wpc, job>>
        /\ task' = [task EXCEPT ![x] =
                       IF (status = "active" /\ x \in Matching) /\ x > cursor
                       THEN "row" ELSE "done"]
        /\ Mishap(IF x <= cursor THEN {x} ELSE {}, "outrun")
    BY <1>8 DEF TaskList, log, sub, table, worker
  <2>2. CASE x = q
    <3>1. ~(q <= cursor)
      BY <1>2, <2>1, <2>2 DEF Mishap, Befell, Troubles
    <3>2. q > cursor
      BY <3>1, WebhookAssumption DEF WebhookTypeOK
    <3>3. ~(status = "active")
      BY <1>2, <2>1, <2>2, <3>2 DEF WebhookTypeOK
    <3> QED BY <2>1, <3>2, <3>3
  <2>3. CASE x # q
    <3>1. task[q] = "done"
      BY <1>2, <2>1, <2>3 DEF WebhookTypeOK
    <3> QED BY <1>2, <1>3, <2>1, <3>1 DEF Adrift, Chased, handler
  <2> QED BY <2>2, <2>3
<1>9. ASSUME NEW x \in Seqs, TaskRow(x)
      PROVE  /\ q > cursor'
             /\ status' = "active" => wpc' = "giveup" /\ job' = q
  <2>1. /\ UNCHANGED <<retained, status, since, cursor, handler, wpc, job>>
        /\ task' = [task EXCEPT ![x] = "done"] /\ AddRow(x) /\ x \in Matching
    BY <1>9 DEF TaskRow, TaskInv, log, sub, worker
  <2>2. queue \subseteq queue' /\ x \in queue'
    BY <1>2, <2>1, AddRowAdds
  <2>3. x # q /\ task[q] = "done"
    BY <1>2, <2>1, <2>2 DEF WebhookTypeOK
  <2> QED BY <1>2, <1>3, <2>1, <2>2, <2>3 DEF Adrift, Chased, handler
<1>10. ASSUME NEW n \in {0, tip}, SubscribeSince(n) PROVE FALSE
  BY <1>2, <1>10 DEF SubscribeSince, sub
<1>11. CASE EnableRead
  <2>1. /\ UNCHANGED <<retained, task, status, since, cursor, queue, wpc, job>>
        /\ hpc = "idle" /\ hpc' = "activate"
    BY <1>11 DEF EnableRead, log, sub, table, worker
  <2> QED BY <1>2, <1>3, <2>1 DEF Adrift, Chased
<1>12. ~Unsubscribe
  BY <1>2 DEF Unsubscribe
<1>13. CASE Restart
  <2>1. /\ UNCHANGED <<tip, retained, status, since, cursor, queue>>
        /\ Mishap((IF hpc \in {"pull", "rows"}
                   THEN {x \in Matching \cap 1..tip : x > since /\ x \notin queue}
                   ELSE {})
                  \cup {x \in Matching : task[x] \in {"list", "row"}}
                  \cup (IF wpc = "giveup" THEN {job} ELSE {}), "orphaned")
    BY <1>13 DEF Restart, log, sub, table
  <2>2. /\ ~(hpc \in {"pull", "rows"} /\ q \in 1..tip /\ q > since /\ q \notin queue)
        /\ task[q] \notin {"list", "row"} /\ ~(wpc = "giveup" /\ job = q)
    BY <1>2, <2>1 DEF Mishap, Befell, Troubles
  <2>3. q \in 1..tip /\ q <= tip /\ q > since
    BY <1>2, <2>1, WebhookAssumption DEF WebhookTypeOK
  <2>4. task[q] = "done"
    <3>1. task[q] \in {"none", "list", "row", "done"}
      BY DEF WebhookTypeOK
    <3>2. task[q] # "none"
      BY <2>3, WebhookAssumption DEF TaskInv, WebhookTypeOK
    <3> QED BY <2>2, <3>1, <3>2
  <2>5. Adrift(q)
    BY <1>2, <2>1, <2>2, <2>3, <2>4 DEF Adrift, Chased
  <2> QED BY <2>1, <2>2, <2>5 DEF AdriftInv
<1>14. CASE WorkerIdle \/ UNCHANGED wvars
  <2>1. UNCHANGED <<retained, task, status, since, cursor, hpc, snap, backlog, paging,
                    queue, wpc, job>>
    BY <1>14 DEF WorkerIdle, wvars, log, sub, handler, table, worker
  <2> QED BY <1>2, <1>3, <2>1 DEF Adrift, Chased
<1> QED
  BY <1>4, <1>5, <1>6, <1>7, <1>8, <1>9, <1>10, <1>11, <1>12, <1>13, <1>14
  DEF WebhookNext, TaskStep

(* The invariant holds from the start, and every step keeps it. *)
LEMMA WebhookInvInductive == WebhookSpec => []WebhookInv
<1>1. WebhookInit => WebhookInv
  <2> SUFFICES ASSUME WebhookInit PROVE WebhookInv
    OBVIOUS
  <2> USE WebhookAssumption DEF WebhookInit, Seqs
  <2>1. WebhookTypeOK
    <3>1. 0 \in 0..MaxMessages /\ 0 \in 0..Slots /\ 0 \in 0..MaxEnables
          /\ 0 \in 0..MaxRestarts
      OBVIOUS
    <3>2. /\ task \in [Seqs -> {"none", "list", "row", "done"}]
          /\ attempts \in [Seqs -> 0..Slots]
      BY <3>1
    <3> QED BY <3>1, <3>2 DEF WebhookTypeOK
  <2>2. TaskInv /\ WorkerInv /\ HandlerInv
    BY DEF TaskInv, WorkerInv, HandlerInv
  <2>3. OrderInv /\ AdriftInv
    BY DEF OrderInv, InOrder, AdriftInv, Adrift
  <2> QED BY <2>1, <2>2, <2>3 DEF WebhookInv
<1>2. WebhookInv /\ [WebhookNext]_wvars => WebhookInv'
  BY WebhookTypeStep, TaskInvStep, WorkerInvStep, HandlerInvStep, OrderInvStep, AdriftInvStep
  DEF WebhookInv
<1> QED BY <1>1, <1>2, PTL DEF WebhookSpec

(* The tables and the tasks' locals keep their types, and no row has more  *)
(* attempts than the retry schedule has slots (reschedule_delivery).       *)
THEOREM WebhookTypes == WebhookSpec => []WebhookTypeOK
<1>1. WebhookInv => WebhookTypeOK
  BY DEF WebhookInv
<1> QED BY <1>1, WebhookInvInductive, PTL

(* A message that the cursor passed before the receiver had it is still    *)
(* chased, or one of five things is on record for it; and a message is     *)
(* taken after a later one only if its row came after that one's.          *)
THEOREM DeliveredAtLeastOnceInOrder == WebhookSpec => AtLeastOnceInOrder
<1>1. WebhookInv => LostOnlyByMishap
  <2> SUFFICES ASSUME WebhookInv, NEW q \in Lost, ~Befell(q, Troubles)
               PROVE  FALSE
    BY DEF LostOnlyByMishap, Troubles
  <2>1. q \in Seqs /\ q <= cursor
    BY WebhookAssumption DEF Lost
  <2>2. Adrift(q)
    BY DEF Lost, Adrift, Chased
  <2>3. q > cursor
    BY <2>1, <2>2 DEF WebhookInv, AdriftInv
  <2> QED BY <2>1, <2>3, WebhookAssumption DEF WebhookInv, WebhookTypeOK, Seqs
<1>2. ASSUME WebhookInv, [WebhookNext]_wvars,
             NEW q \in Seqs, q \notin accepted, q \in accepted'
      PROVE  \/ \A p \in (q + 1)..MaxMessages : p \notin accepted
             \/ Befell(q, {"overtaken"})
  <2>0. accepted' = accepted \/ accepted' = accepted \cup {job}
    BY <1>2 DEF WebhookNext, wvars, TaskStep, HandlerStep, WorkerStep, Insert, Purge, Due,
       TaskList, TaskRow, SubscribeSince, SubscribeCreate, EnableRead, EnableActivate,
       BacklogPull, BacklogRow, Unsubscribe, WorkerLoad, WorkerIdle, WorkerLookup,
       WorkerDrop, PostBlocked, PostAccepted, PostRefused, DeliveredDelete,
       DeliveredAdvance, Retry, GiveUpDelete, GiveUpStatus, Restart
  <2>1. q = job
    BY <1>2, <2>0
  <2>2. <<q, "overtaken">> \in mishaps \/ InOrder(q)
    BY <1>2 DEF WebhookInv, OrderInv
  <2> QED BY <1>2, <2>1, <2>2 DEF InOrder, Befell
<1>3. WebhookInv /\ [WebhookNext]_wvars =>
          [\A q \in Seqs : q \notin accepted /\ q \in accepted' =>
              \/ \A p \in (q + 1)..MaxMessages : p \notin accepted
              \/ Befell(q, {"overtaken"})]_wvars
  BY <1>2
<1> QED BY <1>1, <1>3, WebhookInvInductive, PTL DEF WebhookSpec, AtLeastOnceInOrder,
        InOrderUnlessMishap
=============================================================================

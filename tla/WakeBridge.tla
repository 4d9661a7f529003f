----------------------------- MODULE WakeBridge -----------------------------
(***************************************************************************)
(* The Codex wake bridge (cowchat-codex): WakeService's three tools over   *)
(* WakeStore, for one target.  The room is the durable inbox, the Codex    *)
(* app-server the actuator.                                                *)
(*                                                                         *)
(* Tool calls run concurrently, in one bridge process or in several that   *)
(* share the state database: a call is a process here, and each store      *)
(* transaction, room request and app-server request is a step of its own.  *)
(* A call may stop at any step: the bridge dies, or a request fails.       *)
(***************************************************************************)
EXTENDS Naturals, Sequences, Numbers

CONSTANTS
    Calls,       \* tool calls that may be open at a time
    Events,      \* idempotency keys (source, event_id)
    Eligible,    \* events whose wake_hint reaches the target's min_wake_hint
    Timed,       \* events whose caller gives `time`; others get the clock's
    Cursors,     \* after_cursor values readers pass explicitly
    Lease,       \* wake_lease_seconds
    MaxSeq,      \* bound: messages in the room
    MaxNow       \* bound: the clock

ASSUME BridgeAssumption ==
    /\ Eligible \subseteq Events /\ Timed \subseteq Events
    /\ Cursors \subseteq Nat
    /\ Lease \in Nat \ {0} /\ MaxSeq \in Nat /\ MaxNow \in Nat
    /\ "none" \notin Events

VARIABLES
    room,        \* the target's wake messages, seq by seq
    reserved,    \* keys with a row in wake_events
    roomSeq,     \* wake_events.room_seq; 0 for NULL
    acked,       \* wake_target_state.last_acked_seq
    maxRead,     \* wake_target_state.max_read_seq
    claimed,     \* whether wake_claimed_at is set
    claimedAt,   \* and to what
    now,         \* the clock, in seconds
    pc, ev, seq, \* per call: where it is, its event, its observed_seq
    awake,       \* a turn was started and nothing was acknowledged since
    owed,        \* a call failed and no wake was claimed since
    overlapped   \* history: events that two calls were delivering at once

vars == <<room, reserved, roomSeq, acked, maxRead, claimed, claimedAt, now,
          pc, ev, seq, awake, owed, overlapped>>

rows == <<reserved, roomSeq>>
target == <<acked, maxRead, claimed, claimedAt>>

PCs == {"idle", "find", "send", "mark", "claim", "wake", "woken", "check"}

(* Type invariant: the bridge's rows and target state (store.rs) and each
   call's program point and locals keep their types. *)
TypeOK ==
    /\ room \in Seq(Events)
    /\ reserved \subseteq Events
    /\ roomSeq \in [Events -> Nat]
    /\ acked \in Nat /\ maxRead \in Nat
    /\ claimed \in BOOLEAN /\ claimedAt \in Nat
    /\ now \in Nat
    /\ pc \in [Calls -> PCs]
    /\ ev \in [Calls -> Events \cup {"none"}]
    /\ \A c \in Calls : pc[c] \in {"find", "send", "mark"} => ev[c] \in reserved
    /\ seq \in [Calls -> Nat]
    /\ awake \in BOOLEAN /\ owed \in BOOLEAN
    /\ overlapped \subseteq Events

Init ==
    /\ room = <<>>
    /\ reserved = {} /\ roomSeq = [e \in Events |-> 0]
    /\ acked = 0 /\ maxRead = 0
    /\ claimed = FALSE /\ claimedAt = 0
    /\ now = 0
    /\ pc = [c \in Calls |-> "idle"]
    /\ ev = [c \in Calls |-> "none"]
    /\ seq = [c \in Calls |-> 0]
    /\ awake = FALSE /\ owed = FALSE
    /\ overlapped = {}

Goto(c, p) == pc' = [pc EXCEPT ![c] = p]

(* The call returns. *)
Done(c) ==
    /\ Goto(c, "idle")
    /\ ev' = [ev EXCEPT ![c] = "none"]
    /\ seq' = [seq EXCEPT ![c] = 0]

(* Where wake_agent goes once the event has a seq: recipient policy. *)
AfterDelivery(c, e, q) ==
    IF e \in Eligible
    THEN Goto(c, "claim") /\ seq' = [seq EXCEPT ![c] = q] /\ UNCHANGED ev
    ELSE Done(c)

-----------------------------------------------------------------------------
(* wake_agent. *)

(* A call for e starts; the history notes one that is still delivering e. *)
Start(c, e) ==
    /\ pc[c] = "idle"
    /\ overlapped' =
           IF \E d \in Calls : ev[d] = e /\ pc[d] \in {"find", "send", "mark"}
           THEN overlapped \cup {e} ELSE overlapped

(* Mutant: the reservation is not written. *)
ReserveUnrecorded(c, e) ==
    /\ Start(c, e)
    /\ e \notin reserved
    /\ ev' = [ev EXCEPT ![c] = e]
    /\ Goto(c, "find")
    /\ UNCHANGED <<room, rows, target, now, seq, awake, owed>>

(* reserve_event: a new key. *)
Reserve(c, e) ==
    /\ Start(c, e)
    /\ e \notin reserved
    /\ reserved' = reserved \cup {e}
    /\ ev' = [ev EXCEPT ![c] = e]
    /\ Goto(c, "find")
    /\ UNCHANGED <<room, roomSeq, target, now, seq, awake, owed>>

(* reserve_event: the key exists and event_json is the same, which it is   *)
(* only if the caller gave the time.                                       *)
ReserveAgain(c, e) ==
    /\ Start(c, e)
    /\ e \in reserved /\ e \in Timed
    /\ IF roomSeq[e] # 0
       THEN IF e \in Eligible
            THEN /\ Goto(c, "claim")
                 /\ ev' = [ev EXCEPT ![c] = e]
                 /\ seq' = [seq EXCEPT ![c] = roomSeq[e]]
            ELSE UNCHANGED <<pc, ev, seq>>
       ELSE /\ Goto(c, "find")
            /\ ev' = [ev EXCEPT ![c] = e]
            /\ UNCHANGED seq
    /\ UNCHANGED <<room, rows, target, now, awake, owed>>

(* reserve_event: the key exists with another event_json, which a call     *)
(* without a time always has; IdempotencyConflict is the answer.           *)
ReserveConflict(c, e) ==
    /\ pc[c] = "idle"
    /\ e \in reserved /\ e \notin Timed
    /\ UNCHANGED vars

(* Mutant: the last wake message is taken, whatever its event id. *)
FindLast(c) ==
    /\ pc[c] = "find"
    /\ IF room = <<>> THEN Goto(c, "send") /\ UNCHANGED seq
       ELSE Goto(c, "mark") /\ seq' = [seq EXCEPT ![c] = Len(room)]
    /\ UNCHANGED <<room, rows, target, now, ev, awake, owed, overlapped>>

(* Mutant: no recovery, the event is sent again. *)
FindNothing(c) ==
    /\ pc[c] = "find"
    /\ Goto(c, "send")
    /\ UNCHANGED <<room, rows, target, now, ev, seq, awake, owed, overlapped>>

(* find_event: a message that an earlier call sent and did not record. *)
Find(c) ==
    LET found == {q \in 1..Len(room) : room[q] = ev[c]}
    IN  /\ pc[c] = "find"
        /\ IF found = {} THEN Goto(c, "send") /\ UNCHANGED seq
           ELSE /\ Goto(c, "mark")
                /\ seq' = [seq EXCEPT ![c] = MinOf(found)]
        /\ UNCHANGED <<room, rows, target, now, ev, awake, owed, overlapped>>

(* send_event: the event is a message of the room. *)
Send(c) ==
    /\ pc[c] = "send"
    /\ Len(room) < MaxSeq
    /\ room' = Append(room, ev[c])
    /\ seq' = [seq EXCEPT ![c] = Len(room) + 1]
    /\ Goto(c, "mark")
    /\ UNCHANGED <<rows, target, now, ev, awake, owed, overlapped>>

(* Mutant: the last call to finish overwrites the recorded seq. *)
MarkOverwrites(c) ==
    /\ pc[c] = "mark"
    /\ roomSeq' = [roomSeq EXCEPT ![ev[c]] = seq[c]]
    /\ AfterDelivery(c, ev[c], seq[c])
    /\ UNCHANGED <<room, reserved, target, now, awake, owed, overlapped>>

(* mark_delivered, unless another call recorded another seq first. *)
Mark(c) ==
    LET e == ev[c]
    IN  /\ pc[c] = "mark"
        /\ roomSeq[e] \in {0, seq[c]}
        /\ roomSeq' = [roomSeq EXCEPT ![e] = seq[c]]
        /\ AfterDelivery(c, e, seq[c])
        /\ UNCHANGED <<room, reserved, target, now, awake, owed, overlapped>>

(* MissingReservation: the call fails. *)
MarkRefused(c) ==
    /\ pc[c] = "mark"
    /\ roomSeq[ev[c]] \notin {0, seq[c]}
    /\ Done(c)
    /\ owed' = TRUE
    /\ UNCHANGED <<room, rows, target, now, awake, overlapped>>

-----------------------------------------------------------------------------
(* maybe_wake, for a new event and after an acknowledgement. *)

(* claim_wake: one wake at a time, and only for what is not acknowledged. *)
Claim(c) ==
    LET free == ~claimed \/ claimedAt + Lease <= now
    IN  /\ pc[c] = "claim"
        /\ IF acked < seq[c] /\ free
           THEN /\ claimed' = TRUE /\ claimedAt' = now
                /\ owed' = FALSE
                /\ Goto(c, "wake")
                /\ UNCHANGED <<ev, seq>>
           ELSE Done(c) /\ UNCHANGED <<claimed, claimedAt, owed>>
        /\ UNCHANGED <<room, rows, acked, maxRead, now, awake, overlapped>>

(* codex.wake: the app-server starts or steers a turn ... *)
WakeStarts(c) ==
    /\ pc[c] = "wake"
    /\ awake' = TRUE
    /\ Goto(c, "woken")
    /\ UNCHANGED <<room, rows, target, now, ev, seq, owed, overlapped>>

(* ... and answers. *)
WakeReturns(c) ==
    /\ pc[c] = "woken"
    /\ Done(c)
    /\ UNCHANGED <<room, rows, target, now, awake, owed, overlapped>>

(* codex.wake reports an error: release_wake, whoever holds the lease now. *)
WakeFails(c) ==
    /\ pc[c] \in {"wake", "woken"}
    /\ claimed' = FALSE
    /\ owed' = TRUE
    /\ Done(c)
    /\ UNCHANGED <<room, rows, acked, maxRead, claimedAt, now, awake, overlapped>>

-----------------------------------------------------------------------------
(* The awakened agent. *)

(* wake_inbox_read from the acknowledged cursor or an explicit one, up to  *)
(* some limit: record_read gets the last seq returned, or the cursor.      *)
Read(after, last) ==
    /\ after \in {acked} \cup Cursors
    /\ \/ last \in (after + 1)..Len(room)
       \/ last = after /\ after >= Len(room)
    /\ maxRead' = Larger(maxRead, last)
    /\ UNCHANGED <<room, rows, acked, claimed, claimedAt, now, pc, ev, seq,
                   awake, owed, overlapped>>

(* wake_inbox_ack: acknowledge moves the cursor and drops the lease. *)
Ack(c, k) ==
    /\ pc[c] = "idle"
    /\ k <= maxRead
    /\ acked' = Larger(acked, k)
    /\ claimed' = FALSE
    /\ awake' = FALSE
    /\ Goto(c, "check")
    /\ UNCHANGED <<room, rows, maxRead, claimedAt, now, ev, seq, owed,
                   overlapped>>

(* Eligible events delivered and not acknowledged. *)
Pending == {e \in Eligible : roomSeq[e] > acked}

(* Mutant: an acknowledgement ends the wake without looking further. *)
AckCheckNothing(c) ==
    /\ pc[c] = "check"
    /\ Done(c)
    /\ UNCHANGED <<room, rows, target, now, awake, owed, overlapped>>

(* wake_inbox_ack, next: max_pending_eligible_seq. *)
AckCheck(c) ==
    /\ pc[c] = "check"
    /\ \/ /\ Pending = {}
          /\ Done(c)
       \/ /\ Pending # {}
          /\ Goto(c, "claim")
          /\ seq' = [seq EXCEPT ![c] = MaxOf({roomSeq[e] : e \in Pending})]
          /\ UNCHANGED ev
    /\ UNCHANGED <<room, rows, target, now, awake, owed, overlapped>>

-----------------------------------------------------------------------------
(* A request fails, or the bridge process dies under the call. *)
CallLost(c) ==
    /\ pc[c] # "idle"
    /\ Done(c)
    /\ owed' = TRUE
    /\ UNCHANGED <<room, rows, target, now, awake, overlapped>>

Tick ==
    /\ now < MaxNow
    /\ now' = now + 1
    /\ UNCHANGED <<room, rows, target, pc, ev, seq, awake, owed, overlapped>>

CallStep(c) ==
    \/ \E e \in Events : Reserve(c, e) \/ ReserveAgain(c, e) \/ ReserveConflict(c, e)
    \/ Find(c) \/ Send(c) \/ Mark(c) \/ MarkRefused(c)
    \/ Claim(c) \/ WakeStarts(c) \/ WakeReturns(c) \/ WakeFails(c)
    \/ \E k \in 0..maxRead : Ack(c, k)
    \/ AckCheck(c)
    \/ CallLost(c)

Next ==
    \/ \E c \in Calls : CallStep(c)
    \/ \E after \in {acked} \cup Cursors, last \in {acked} \cup Cursors \cup 1..Len(room) :
           Read(after, last)
    \/ Tick

Spec == Init /\ [][Next]_vars

-----------------------------------------------------------------------------
(* No eligible event is forgotten.  While one is delivered and not         *)
(* acknowledged, the agent is awake, or some call is about to claim or is  *)
(* carrying out a wake, or the last call to fail has told its caller so    *)
(* and nobody has claimed since.  Coalescing relies on this: a call that   *)
(* finds a live lease returns "coalesced" and does nothing more.           *)
PendingIsCovered ==
    Pending # {} =>
        \/ awake
        \/ owed
        \/ \E c \in Calls : pc[c] \in {"wake", "check"}
        \/ \E c \in Calls : pc[c] = "claim" /\ seq[c] > acked

(* A row of wake_events names the message that carries its event           *)
(* (mark_delivered), whichever call sent it.                               *)
RowsNameTheirMessage ==
    \A e \in Events : roomSeq[e] # 0 =>
        roomSeq[e] \in 1..Len(room) /\ room[roomSeq[e]] = e

(* However many calls for one key sent it, the first recorded seq stands:  *)
(* mark_delivered refuses another one.                                     *)
RecordedSeqStands ==
    [][\A e \in Events : roomSeq[e] # 0 => roomSeq'[e] = roomSeq[e]]_vars

(* An event is in the room once unless two calls were between reserving    *)
(* and recording it at the same time: a call that comes after one that     *)
(* died there finds its message (find_event).                              *)
RetryDoesNotDuplicate ==
    \A p, q \in 1..Len(room) : p # q /\ room[p] = room[q] => room[p] \in overlapped

=============================================================================

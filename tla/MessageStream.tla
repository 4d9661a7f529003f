---------------------------- MODULE MessageStream ----------------------------
(***************************************************************************)
(* The message log of one room and the live events a subscriber gets from  *)
(* it: Store's sequence allocation and retention (store.rs), the send and  *)
(* thinking handlers (handler.rs) and the bounded queue of the             *)
(* subscriber's connection (broker.rs, send_to_agent).                     *)
(*                                                                         *)
(* insert_message is one SQLite transaction; the broadcast is a later step *)
(* of the handler, so two senders may broadcast in either order.           *)
(***************************************************************************)
EXTENDS Naturals, Sequences, FiniteSets, Numbers

CONSTANTS
    Senders,     \* connections whose handlers post to the room
    Kinds,       \* what a row is to the subscriber, a subset of AllKinds
    MaxSeq,      \* bound: rows ever inserted
    QueueCap,    \* outbound queue of a connection (256 in server.rs)
    MaxLosses    \* bound: connections that fail by themselves, restarts

(* "chat": a peer's message; "filtered": a peer's message the waiter's     *)
(* --only-from/--not-from/--only-kind rejects; "self": the waiter's own or *)
(* a system message; "thinking": a pulse, which has its own frame type.    *)
AllKinds == {"chat", "filtered", "self", "thinking"}

ASSUME StreamAssumption ==
    /\ Kinds \subseteq AllKinds
    /\ MaxSeq \in Nat /\ QueueCap \in Nat /\ MaxLosses \in Nat

Seqs == 1..MaxSeq

VARIABLES
    kind,        \* what was inserted under each seq; "free" before that
    retained,    \* rows still in the messages table
    highWater,   \* room_sequences.high_water
    sending,     \* seq a handler has inserted and not broadcast; 0 for none
    link,        \* the subscriber: "down", "up", "in" the room, or "kicked"
    outbox,      \* its outbound queue
    dropped,     \* history: seqs whose event was dropped for lack of space
    overtaken,   \* history: seqs broadcast after a later one was
    losses       \* bound counter

stream == <<kind, retained, highWater, sending, link, outbox, dropped,
            overtaken, losses>>

(* Type invariant of the message log, the senders and the outbound queue. *)
StreamTypeOK ==
    /\ kind \in [Seqs -> AllKinds \cup {"free"}]
    /\ retained \subseteq Seqs
    /\ highWater \in 0..MaxSeq
    /\ sending \in [Senders -> 0..MaxSeq]
    /\ link \in {"down", "up", "in", "kicked"}
    /\ outbox \in Seq(Seqs)
    /\ dropped \subseteq Seqs
    /\ overtaken \subseteq Seqs
    /\ losses \in 0..MaxLosses

StreamInit ==
    /\ kind = [q \in Seqs |-> "free"]
    /\ retained = {}
    /\ highWater = 0
    /\ sending = [s \in Senders |-> 0]
    /\ link = "down"
    /\ outbox = <<>>
    /\ dropped = {}
    /\ overtaken = {}
    /\ losses = 0

(* get_history_filtered with since_seq: ORDER BY seq ASC LIMIT n. *)
HistoryAfter(q, n) ==
    {x \in retained : /\ x > q
                      /\ Cardinality({y \in retained : q < y /\ y <= x}) <= n}

-----------------------------------------------------------------------------
(* Mutant: the number is derived from the rows that are left. *)
InsertAfterRetained(s, k) ==
    LET q == MaxOf(retained) + 1
    IN  /\ sending[s] = 0
        /\ q <= MaxSeq
        /\ kind' = [kind EXCEPT ![q] = k]
        /\ retained' = retained \cup {q}
        /\ highWater' = q
        /\ sending' = [sending EXCEPT ![s] = q]
        /\ UNCHANGED <<link, outbox, dropped, overtaken, losses>>

(* insert_message: number and row in one transaction. *)
Insert(s, k) ==
    LET q == highWater + 1
    IN  /\ sending[s] = 0
        /\ q <= MaxSeq
        /\ kind' = [kind EXCEPT ![q] = k]
        /\ retained' = retained \cup {q}
        /\ highWater' = q
        /\ sending' = [sending EXCEPT ![s] = q]
        /\ UNCHANGED <<link, outbox, dropped, overtaken, losses>>

(* An older binary, run on the same database while this server is stopped, *)
(* takes the number from the rows that are left.  The two triggers refuse  *)
(* it unless it is above the high water mark, and raise the mark if it is. *)
LegacyInsert(k) ==
    LET q == MaxOf(retained) + 1
    IN  /\ link = "down" /\ \A s \in Senders : sending[s] = 0
        /\ q <= MaxSeq
        /\ q > highWater
        /\ kind' = [kind EXCEPT ![q] = k]
        /\ retained' = retained \cup {q}
        /\ highWater' = Larger(highWater, q)
        /\ UNCHANGED <<sending, link, outbox, dropped, overtaken, losses>>

(* The rows inserted before q that are not broadcast yet. *)
Overtaking(q) == {sending[t] : t \in Senders} \cap 1..(q - 1)

(* broadcast_to_room: try_send to the subscriber if it is a member; a full *)
(* queue loses the event and tells the connection to go away, but until it *)
(* does it stays a member.  Pulses go out as another type of frame.        *)
Broadcast(s) ==
    LET q == sending[s]
        heard == link \in {"in", "kicked"} /\ kind[q] # "thinking"
        room == Len(outbox) < QueueCap
    IN  /\ q # 0
        /\ sending' = [sending EXCEPT ![s] = 0]
        /\ outbox' = IF heard /\ room THEN Append(outbox, q) ELSE outbox
        /\ dropped' = IF heard /\ ~room THEN dropped \cup {q} ELSE dropped
        /\ link' = IF heard /\ ~room THEN "kicked" ELSE link
        /\ overtaken' = overtaken \cup Overtaking(q)
        /\ UNCHANGED <<kind, retained, highWater, losses>>

(* purge_messages_by_tier: the rows up to some age are deleted. *)
Purge(q) ==
    /\ q \in retained
    /\ retained' = {x \in retained : x > q}
    /\ UNCHANGED <<kind, highWater, sending, link, outbox, dropped, overtaken, losses>>

(* The connection ends: told to by send_to_agent, or by itself. *)
LinkLost ==
    /\ link # "down"
    /\ \/ link = "kicked" /\ UNCHANGED losses
       \/ losses < MaxLosses /\ losses' = losses + 1
    /\ link' = "down"
    /\ outbox' = <<>>
    /\ UNCHANGED <<kind, retained, highWater, sending, dropped, overtaken>>

(* The server stops and starts again: handlers and connections are gone,   *)
(* initialize() seeds the high water mark from the rows that are left.     *)
ServerRestart ==
    /\ losses < MaxLosses /\ losses' = losses + 1
    /\ sending' = [s \in Senders |-> 0]
    /\ link' = "down" /\ outbox' = <<>>
    /\ highWater' = Larger(highWater, MaxOf(retained))
    /\ UNCHANGED <<kind, retained, dropped, overtaken>>

StreamNext ==
    \/ \E s \in Senders : \/ \E k \in Kinds : Insert(s, k)
                          \/ Broadcast(s)
    \/ \E k \in Kinds : LegacyInsert(k)
    \/ \E q \in Seqs : Purge(q)
    \/ LinkLost
    \/ ServerRestart

-----------------------------------------------------------------------------
(* A number that was handed out once names that row for good: not a purge  *)
(* of every row, not a restart after it, not an old binary on the same     *)
(* database makes insert_message use it again (store.rs, the comments on   *)
(* room_sequences and on the triggers).                                    *)
SeqNeverReused ==
    [][\A q \in Seqs : kind[q] # "free" => kind'[q] = kind[q]]_stream
=============================================================================

----------------------------- MODULE RoomBroker -----------------------------
(***************************************************************************)
(* Room admission, membership and the turn token of the Cowchat server:    *)
(* Broker (broker.rs) with the handlers that drive it (handler.rs).        *)
(*                                                                         *)
(* Handlers run in parallel on the tokio pool, one at a time per           *)
(* connection.  Every DashMap access and every SQLite transaction is one   *)
(* step here.  join_room, leave_room and destroy_room_with hold the        *)
(* room_lifecycle mutex over several of them; advance_turn_from, which     *)
(* every send_message runs, does not take it at all.                       *)
(*                                                                         *)
(* Access control, names and quotas decide only WHETHER a handler starts;  *)
(* a rejected request changes nothing here.                                *)
(***************************************************************************)
EXTENDS Naturals, Sequences, FiniteSets

CONSTANTS
    Agents,      \* stable agent ids
    Conns,       \* connection tasks; a taken-over session may still run one
    AgentOf,     \* the agent id a connection registered with
    RoomIds,     \* room UUIDs, never reused
    Lobby,       \* the system room: always exists, no creator
    NoAgent,     \* no turn holder / no creator
    NoConn       \* the lifecycle mutex is free

ASSUME ConnsAssumption ==
    /\ AgentOf \in [Conns -> Agents]
    /\ NoConn \notin Conns
    /\ NoAgent \notin Agents
    /\ Lobby \in RoomIds

VARIABLES
    rooms,       \* rows of the rooms table
    creator,     \* rooms.created_by
    used,        \* every UUID ever handed out
    tombstones,  \* RoomLifecycleState.tombstones
    members,     \* room_members: join order; <<>> stands for no entry too
    holder,      \* turn_holders
    lifecycle,   \* the connection inside the room_lifecycle mutex
    pc,          \* where each connection's handler is
    room,        \* the room of the request being handled
    wasHolder,   \* leave_room: was_holder, read at its start
    snapshot     \* advance_turn_from: the member list it read

vars == <<rooms, creator, used, tombstones, members, holder,
          lifecycle, pc, room, wasHolder, snapshot>>

Idle == "idle"
PCs == {Idle, "join", "join_turn", "leave", "leave_retain", "leave_turn",
        "send", "advance", "advance_write", "destroy_members", "destroy_turn"}

(* The program points inside the room_lifecycle mutex. *)
Locked == {"join_turn", "leave_retain", "leave_turn",
           "destroy_members", "destroy_turn"}

(* Type invariant: the broker's maps (broker.rs 69-97) and each handler's
   program point and locals keep their types. *)
TypeOK ==
    /\ rooms \subseteq used
    /\ used \subseteq RoomIds
    /\ creator \in [RoomIds -> Agents \cup {NoAgent}]
    /\ tombstones \subseteq RoomIds
    /\ members \in [RoomIds -> Seq(Agents)]
    /\ holder \in [RoomIds -> Agents \cup {NoAgent}]
    /\ lifecycle \in Conns \cup {NoConn}
    /\ pc \in [Conns -> PCs]
    /\ room \in [Conns -> RoomIds]
    /\ wasHolder \in [Conns -> BOOLEAN]
    /\ snapshot \in [Conns -> Seq(Agents)]

Elems(s) == {s[i] : i \in 1..Len(s)}

InRoom(a, r) == a \in Elems(members[r])      \* is_agent_in_room

(* Vec::retain(|m| m != a) on a list where a occurs at most once. *)
Retain(s, a) ==
    IF a \notin Elems(s) THEN s
    ELSE LET p == CHOOSE i \in 1..Len(s) : s[i] = a
         IN  [i \in 1..(Len(s) - 1) |-> IF i < p THEN s[i] ELSE s[i + 1]]

(* advance_turn_from: the member after the sender in join order, wrapping  *)
(* around; the first member when the sender is not in the list.            *)
NextAfter(s, a) ==
    IF a \in Elems(s)
    THEN LET p == CHOOSE i \in 1..Len(s) : s[i] = a
         IN  s[(p % Len(s)) + 1]
    ELSE s[1]

Init ==
    /\ rooms = {Lobby}
    /\ used = {Lobby}
    /\ creator = [r \in RoomIds |-> NoAgent]
    /\ tombstones = {}
    /\ members = [r \in RoomIds |-> <<>>]
    /\ holder = [r \in RoomIds |-> NoAgent]
    /\ lifecycle = NoConn
    /\ pc = [c \in Conns |-> Idle]
    /\ room = [c \in Conns |-> Lobby]
    /\ wasHolder = [c \in Conns |-> FALSE]
    /\ snapshot = [c \in Conns |-> <<>>]

Goto(c, to) == pc' = [pc EXCEPT ![c] = to]

(* The handler starts on room r. *)
Enter(c, r, to) ==
    /\ pc[c] = Idle
    /\ room' = [room EXCEPT ![c] = r]
    /\ Goto(c, to)

(* The handler returns: its locals are gone. *)
Finish(c) ==
    /\ Goto(c, Idle)
    /\ room' = [room EXCEPT ![c] = Lobby]
    /\ wasHolder' = [wasHolder EXCEPT ![c] = FALSE]
    /\ snapshot' = [snapshot EXCEPT ![c] = <<>>]

Acquire(c) == lifecycle = NoConn /\ lifecycle' = c
Release(c) == lifecycle = c /\ lifecycle' = NoConn

-----------------------------------------------------------------------------
(* Mutant: the room id is not recorded as handed out. *)
CreateRoomUnrecorded(c, r) ==
    /\ pc[c] = Idle
    /\ r \in RoomIds \ used
    /\ rooms' = rooms \cup {r}
    /\ creator' = [creator EXCEPT ![r] = AgentOf[c]]
    /\ UNCHANGED <<used, tombstones, members, holder, lifecycle, pc, room,
                   wasHolder, snapshot>>

(* create_room: a fresh UUID becomes a row. *)
CreateRoom(c, r) ==
    /\ pc[c] = Idle
    /\ r \in RoomIds \ used
    /\ rooms' = rooms \cup {r}
    /\ used' = used \cup {r}
    /\ creator' = [creator EXCEPT ![r] = AgentOf[c]]
    /\ UNCHANGED <<tombstones, members, holder, lifecycle, pc, room,
                   wasHolder, snapshot>>

(* handle_join_room up to broker.join_room: the room was found in the      *)
(* store and the agent is not in it yet (a member gets an idempotent ok).  *)
JoinCheck(c, r) ==
    /\ r \in rooms
    /\ ~InRoom(AgentOf[c], r)
    /\ Enter(c, r, "join")
    /\ UNCHANGED <<rooms, creator, used, tombstones, members, holder,
                   lifecycle, wasHolder, snapshot>>

(* join_room, refused: tombstoned, or gone from the store. *)
JoinRefused(c) ==
    /\ pc[c] = "join" /\ lifecycle = NoConn
    /\ room[c] \in tombstones \/ room[c] \notin rooms
    /\ Finish(c)
    /\ UNCHANGED <<rooms, creator, used, tombstones, members, holder, lifecycle>>

(* Mutant: the tombstone is trusted alone, the store is not asked again. *)
JoinAdmitUnchecked(c) ==
    LET r == room[c]
        a == AgentOf[c]
    IN  /\ pc[c] = "join"
        /\ Acquire(c)
        /\ r \notin tombstones
        /\ members' = IF InRoom(a, r) THEN members
                      ELSE [members EXCEPT ![r] = Append(@, a)]
        /\ Goto(c, "join_turn")
        /\ UNCHANGED <<rooms, creator, used, tombstones, holder, room,
                       wasHolder, snapshot>>

(* Mutant: the list is not searched again under the mutex. *)
JoinAdmitTwice(c) ==
    /\ pc[c] = "join"
    /\ Acquire(c)
    /\ room[c] \notin tombstones /\ room[c] \in rooms
    /\ members' = [members EXCEPT ![room[c]] = Append(@, AgentOf[c])]
    /\ Goto(c, "join_turn")
    /\ UNCHANGED <<rooms, creator, used, tombstones, holder, room,
                   wasHolder, snapshot>>

(* join_room, admitted: existence is re-checked under the mutex, then the  *)
(* agent is appended once.                                                 *)
JoinAdmit(c) ==
    LET r == room[c]
        a == AgentOf[c]
    IN  /\ pc[c] = "join"
        /\ Acquire(c)
        /\ r \notin tombstones /\ r \in rooms
        /\ members' = IF InRoom(a, r) THEN members
                      ELSE [members EXCEPT ![r] = Append(@, a)]
        /\ Goto(c, "join_turn")
        /\ UNCHANGED <<rooms, creator, used, tombstones, holder, room,
                       wasHolder, snapshot>>

(* join_room: whoever joins a room with no holder gets the token. *)
JoinTurn(c) ==
    LET r == room[c]
    IN  /\ pc[c] = "join_turn"
        /\ Release(c)
        /\ holder' = IF holder[r] = NoAgent
                     THEN [holder EXCEPT ![r] = AgentOf[c]] ELSE holder
        /\ Finish(c)
        /\ UNCHANGED <<rooms, creator, used, tombstones, members>>

(* handle_leave_room up to broker.leave_room.  Disconnect cleanup runs the *)
(* same leave_room once for every room the agent is in.                    *)
LeaveCheck(c, r) ==
    /\ InRoom(AgentOf[c], r)
    /\ Enter(c, r, "leave")
    /\ UNCHANGED <<rooms, creator, used, tombstones, members, holder,
                   lifecycle, wasHolder, snapshot>>

(* leave_room reads was_holder before it touches the list ... *)
LeaveBegin(c) ==
    /\ pc[c] = "leave"
    /\ Acquire(c)
    /\ wasHolder' = [wasHolder EXCEPT ![c] = holder[room[c]] = AgentOf[c]]
    /\ Goto(c, "leave_retain")
    /\ UNCHANGED <<rooms, creator, used, tombstones, members, holder, room,
                   snapshot>>

(* ... removes the agent ... *)
LeaveRetain(c) ==
    /\ pc[c] = "leave_retain"
    /\ members' = [members EXCEPT ![room[c]] = Retain(@, AgentOf[c])]
    /\ Goto(c, "leave_turn")
    /\ UNCHANGED <<rooms, creator, used, tombstones, holder, lifecycle, room,
                   wasHolder, snapshot>>

(* Mutant: a leaving holder keeps the token. *)
LeaveTurnKeepsToken(c) ==
    /\ pc[c] = "leave_turn"
    /\ Release(c)
    /\ Finish(c)
    /\ UNCHANGED <<rooms, creator, used, tombstones, members, holder>>

(* ... and passes the token on, if it had it, to the first one left. *)
LeaveTurn(c) ==
    LET r == room[c]
        first == IF members[r] = <<>> THEN NoAgent ELSE members[r][1]
    IN  /\ pc[c] = "leave_turn"
        /\ Release(c)
        /\ holder' = IF wasHolder[c] THEN [holder EXCEPT ![r] = first]
                     ELSE holder
        /\ Finish(c)
        /\ UNCHANGED <<rooms, creator, used, tombstones, members>>

(* handle_send_message: membership is checked once, at the start. *)
SendCheck(c, r) ==
    /\ InRoom(AgentOf[c], r)
    /\ Enter(c, r, "send")
    /\ UNCHANGED <<rooms, creator, used, tombstones, members, holder,
                   lifecycle, wasHolder, snapshot>>

(* insert_message succeeds.  The rows are the subject of MessageStream. *)
SendInsert(c) ==
    /\ pc[c] = "send"
    /\ room[c] \in rooms
    /\ Goto(c, "advance")
    /\ UNCHANGED <<rooms, creator, used, tombstones, members, holder,
                   lifecycle, room, wasHolder, snapshot>>

(* insert_message: the foreign key refuses a room that is gone. *)
SendRefused(c) ==
    /\ pc[c] = "send"
    /\ room[c] \notin rooms
    /\ Finish(c)
    /\ UNCHANGED <<rooms, creator, used, tombstones, members, holder,
                   lifecycle>>

(* advance_turn_from, first half: clone the member list, no mutex. *)
AdvanceRead(c) ==
    /\ pc[c] = "advance"
    /\ snapshot' = [snapshot EXCEPT ![c] = members[room[c]]]
    /\ Goto(c, "advance_write")
    /\ UNCHANGED <<rooms, creator, used, tombstones, members, holder,
                   lifecycle, room, wasHolder>>

(* advance_turn_from, second half: write what the list says, no mutex. *)
AdvanceWrite(c) ==
    LET s == snapshot[c]
        next == IF s = <<>> THEN NoAgent ELSE NextAfter(s, AgentOf[c])
    IN  /\ pc[c] = "advance_write"
        /\ holder' = [holder EXCEPT ![room[c]] = next]
        /\ Finish(c)
        /\ UNCHANGED <<rooms, creator, used, tombstones, members, lifecycle>>

(* destroy_room_with: the authorized delete commits under the mutex. Only  *)
(* the creator may destroy; the lobby has none.                            *)
DestroyDelete(c, r) ==
    /\ r \in rooms
    /\ creator[r] = AgentOf[c]
    /\ Enter(c, r, "destroy_members")
    /\ Acquire(c)
    /\ rooms' = rooms \ {r}
    /\ UNCHANGED <<creator, used, tombstones, members, holder, wasHolder,
                   snapshot>>

DestroyMembers(c) ==
    /\ pc[c] = "destroy_members"
    /\ tombstones' = tombstones \cup {room[c]}
    /\ members' = [members EXCEPT ![room[c]] = <<>>]
    /\ Goto(c, "destroy_turn")
    /\ UNCHANGED <<rooms, creator, used, holder, lifecycle, room, wasHolder,
                   snapshot>>

DestroyTurn(c) ==
    /\ pc[c] = "destroy_turn"
    /\ Release(c)
    /\ holder' = [holder EXCEPT ![room[c]] = NoAgent]
    /\ Finish(c)
    /\ UNCHANGED <<rooms, creator, used, tombstones, members>>

(* prune: a tombstone outlives its TTL or the 4096-entry cap.  It runs     *)
(* inside the mutex at the start of every operation, so never during one.  *)
PruneTombstone(r) ==
    /\ lifecycle = NoConn
    /\ r \in tombstones
    /\ tombstones' = tombstones \ {r}
    /\ UNCHANGED <<rooms, creator, used, members, holder, lifecycle, pc,
                   room, wasHolder, snapshot>>

ConnStep(c) ==
    \/ \E r \in RoomIds : \/ CreateRoom(c, r)
                          \/ JoinCheck(c, r)
                          \/ LeaveCheck(c, r)
                          \/ SendCheck(c, r)
                          \/ DestroyDelete(c, r)
    \/ JoinRefused(c) \/ JoinAdmit(c) \/ JoinTurn(c)
    \/ LeaveBegin(c) \/ LeaveRetain(c) \/ LeaveTurn(c)
    \/ SendInsert(c) \/ SendRefused(c) \/ AdvanceRead(c) \/ AdvanceWrite(c)
    \/ DestroyMembers(c) \/ DestroyTurn(c)

Next ==
    \/ \E c \in Conns : ConnStep(c)
    \/ \E r \in RoomIds : PruneTombstone(r)

Spec == Init /\ [][Next]_vars

-----------------------------------------------------------------------------
(* Safety. *)

(* No phantom membership: whenever the lifecycle mutex is free, an agent   *)
(* is listed only in a room that exists, however a join that saw the room  *)
(* raced its destruction and whether or not the tombstone has expired      *)
(* since (broker.rs, the comment on room_lifecycle).                       *)
NoPhantomMembership ==
    lifecycle = NoConn => \A r \in RoomIds : members[r] # <<>> => r \in rooms

(* Join order lists every member once: two sessions of one agent id may    *)
(* both pass handle_join_room's idempotency check before either joins.     *)
JoinOrderDistinct ==
    \A r \in RoomIds : \A i, j \in 1..Len(members[r]) :
        members[r][i] = members[r][j] => i = j

(* The token of room r is in order: it is held by a member, and by nobody  *)
(* only when the room is empty, as soon as the operation that is inside    *)
(* the mutex on r, if any, has finished.                                   *)
Inside(r, p) == {c \in Conns : lifecycle = c /\ room[c] = r /\ pc[c] = p}

TokenSound(r) ==
    \/ Inside(r, "destroy_members") \cup Inside(r, "destroy_turn") # {}
    \/ \E c \in Inside(r, "join_turn") : holder[r] = NoAgent
    \/ \E c \in Inside(r, "leave_turn") : wasHolder[c]
    \/ /\ holder[r] \in Elems(members[r]) \/ (holder[r] = NoAgent /\ members[r] = <<>>)
       /\ \A c \in Inside(r, "leave_retain") :
              holder[r] = AgentOf[c] => wasHolder[c]

(* An advance of the token that another operation overlaps: the list it    *)
(* read has changed since, or a membership change is inside the mutex.     *)
RacedAdvance(r) ==
    \E c \in Conns : /\ pc[c] = "advance_write" /\ room[c] = r
                     /\ pc'[c] # pc[c]
                     /\ \/ snapshot[c] # members[r]
                        \/ \E d \in Conns : lifecycle = d /\ room[d] = r

(* Joins, leaves, destruction and undisturbed sends all keep the token in  *)
(* order; the only step that can strand it is the unlocked second half of  *)
(* advance_turn_from when a membership change overlapped it.               *)
OnlyRacedAdvanceStrandsToken ==
    [][\A r \in RoomIds : TokenSound(r) => TokenSound(r)' \/ RacedAdvance(r)]_vars
=============================================================================

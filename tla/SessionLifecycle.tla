-------------------------- MODULE SessionLifecycle --------------------------
(***************************************************************************)
(* The sessions of one agent id (server.rs, handle_connection), its        *)
(* reconnect stash (reconnect.rs) and the room metadata events published   *)
(* meanwhile (handler.rs).                                                 *)
(*                                                                         *)
(* Every connection is a tokio task.  Registration up to the installation  *)
(* of the session and cleanup run under the agent_lifecycle mutex;         *)
(* requests, publication, room destruction and stash expiry do not.        *)
(* Whatever is queued for a session that acknowledged its registration     *)
(* counts as received.                                                     *)
(***************************************************************************)
EXTENDS Naturals, Sequences, Functions

CONSTANTS
    Conns,       \* connections that register this agent id
    Rooms,       \* rooms of its API key
    None,        \* no connection
    MaxBuffered, \* MAX_BUFFERED_MESSAGES (200)
    MaxVersion   \* bound: renames of a room

ASSUME SessionAssumption ==
    /\ None \notin Conns
    /\ MaxBuffered \in Nat /\ MaxVersion \in Nat

VARIABLES
    exists,      \* rooms in the store
    destroyed,   \* DestroyedRoomCache
    version,     \* renames of each room so far
    pub,         \* the publisher, which holds room_mutation: step, frame
    members,     \* rooms the agent id is a member of (broker.room_members)
    live,        \* broker.agents: the connection the id is installed with
    lock,        \* holder of agent_lifecycle
    stash,       \* the stash of the id, its lease included
    pc,          \* per connection: where its task is
    way,         \* how it registered: "fresh", "reclaim", "takeover"
    todo,        \* rooms it has yet to restore or to leave
    saving,      \* rooms the cleanup is about to stash
    frames,      \* frames it has yet to replay
    out,         \* frames queued for its client, in order
    held,        \* history: rooms restored or joined, and not left, by it
    tailed,      \* history: frames it got from its tail
    early,       \* history: frames queued for it before its acknowledgement
    owned,       \* history: rooms the agent joined and did not leave
    late,        \* history: rooms a replaced session joined or left
    excused,     \* history: the stash is not what the agent had (see below)
    buffered,    \* history: frames the stash accepted
    reached,     \* history: frames replayed to some session
    lost         \* history: frames discarded with a stash or a tail

registry == <<members, live, lock>>
rooms == <<exists, destroyed, version, pub>>
local == <<way, todo, saving, frames>>
history == <<held, tailed, early, owned, late, excused, buffered, reached,
             lost>>
vars == <<rooms, registry, stash, pc, local, out, history>>

(* The version that stands for RoomDestroyed, after every RoomUpdated. *)
Gone == MaxVersion + 1
Frame == Rooms \X (1..Gone)

NoStash == [present |-> FALSE, rooms |-> {}, missed |-> <<>>, lease |-> None]

(* The frames of s that are in T, in their order. *)
Only(s, T) ==
    LET sel[i \in 0..Len(s)] ==
            IF i = 0 THEN <<>>
            ELSE IF s[i] \in T THEN Append(sel[i - 1], s[i]) ELSE sel[i - 1]
    IN  sel[Len(s)]
About(s, R) == Only(s, R \X (1..Gone))

PCs == {"new", "snapshot", "install", "restore", "refresh", "write", "commit",
        "tail", "send", "ready", "joining", "leaving", "cleanup", "filter",
        "insert", "recheck", "leave", "remove", "failed", "unwind", "release",
        "done", "panicked"}

(* Inside agent_lifecycle (poisoned for good by a panic), and while a      *)
(* claimed lease is alive.                                                 *)
Locked == {"snapshot", "install", "restore", "filter", "insert", "recheck",
           "leave", "remove", "unwind", "panicked"}
Claiming == {"snapshot", "install", "restore", "refresh", "write", "commit",
             "failed", "unwind", "release"}

(* Type invariant: the registry, the stash with its bounded buffer, the    *)
(* publisher and the locals of each connection keep their types, the mutex *)
(* is held where the code holds it, and a lease ends with its holder.      *)
TypeOK ==
    /\ exists \subseteq Rooms /\ destroyed \subseteq Rooms
    /\ version \in [Rooms -> 0..MaxVersion]
    /\ pub \in [step : {"idle", "buffer", "live", "members", "tombstone",
                        "sweep"}, frame : Frame \cup {<<>>}]
    /\ members \subseteq Rooms
    /\ live \in Conns \cup {None} /\ lock \in Conns \cup {None}
    /\ stash \in [present : BOOLEAN, rooms : SUBSET Rooms, missed : Seq(Frame),
                   lease : Conns \cup {None}]
    /\ Len(stash.missed) <= MaxBuffered
    /\ stash.lease # None => pc[stash.lease] \in Claiming
    /\ \A c \in Conns : lock = c <=> pc[c] \in Locked
    /\ pc \in [Conns -> PCs]
    /\ way \in [Conns -> {"fresh", "reclaim", "takeover"}]
    /\ todo \in [Conns -> SUBSET Rooms] /\ saving \subseteq Rooms
    /\ frames \in [Conns -> Seq(Frame)] /\ out \in [Conns -> Seq(Frame)]
    /\ held \in [Conns -> SUBSET Rooms]
    /\ tailed \in [Conns -> SUBSET Frame] /\ early \in [Conns -> SUBSET Frame]
    /\ owned \subseteq Rooms /\ late \subseteq Rooms
    /\ excused \in BOOLEAN
    /\ buffered \subseteq Frame /\ reached \subseteq Frame /\ lost \subseteq Frame

Init ==
    /\ exists = Rooms /\ destroyed = {}
    /\ version = [r \in Rooms |-> 0]
    /\ pub = [step |-> "idle", frame |-> <<>>]
    /\ members = {} /\ live = None /\ lock = None
    /\ stash = NoStash
    /\ pc = [c \in Conns |-> "new"]
    /\ way = [c \in Conns |-> "fresh"]
    /\ todo = [c \in Conns |-> {}] /\ saving = {}
    /\ frames = [c \in Conns |-> <<>>] /\ out = [c \in Conns |-> <<>>]
    /\ held = [c \in Conns |-> {}] /\ tailed = [c \in Conns |-> {}]
    /\ early = [c \in Conns |-> {}]
    /\ owned = {} /\ late = {} /\ excused = FALSE
    /\ buffered = {} /\ reached = {} /\ lost = {}

Goto(c, p) == pc' = [pc EXCEPT ![c] = p]
Set(f, c, v) == [f EXCEPT ![c] = v]

(* Frames c has been acknowledged for, or that follow the acknowledgement. *)
Acked == {"commit", "tail", "send", "ready", "joining", "leaving"}

(* send_to_agent: the frame is queued for the installed connection. *)
SendLive(f) ==
    IF live = None THEN UNCHANGED <<out, early>>
    ELSE /\ out' = Set(out, live, Append(out[live], f))
         /\ early' = IF pc[live] \in Acked THEN early
                     ELSE Set(early, live, early[live] \cup {f})

(* join_room and leave_room wait while destroy_room_with holds             *)
(* room_lifecycle.                                                         *)
LifecycleFree == pub.step # "members"

-----------------------------------------------------------------------------
(* Registration (server.rs, phases 1 and 2). *)

(* A reconnect with a stash nobody has claimed: begin_reclaim. *)
BeginReclaim(c) ==
    /\ pc[c] = "new" /\ lock = None
    /\ stash.present /\ stash.lease = None
    /\ lock' = c
    /\ stash' = [stash EXCEPT !.lease = c]
    /\ way' = Set(way, c, "reclaim")
    /\ Goto(c, "snapshot")
    /\ UNCHANGED <<rooms, members, live, todo, saving, frames, out, history>>

(* lease.snapshot(), of the rooms and frames the agent may still see. *)
Snapshot(c) ==
    /\ pc[c] = "snapshot"
    /\ stash.present /\ stash.lease = c
    /\ todo' = Set(todo, c, stash.rooms \cap exists)
    /\ frames' = Set(frames, c, About(stash.missed, exists))
    /\ Goto(c, "install")
    /\ UNCHANGED <<rooms, registry, stash, way, saving, out, history>>

(* expect("a newly acquired reconnect lease has a stash") fails: the task  *)
(* ends with the mutex poisoned, and nobody gets it any more.              *)
SnapshotPanics(c) ==
    /\ pc[c] = "snapshot"
    /\ ~(stash.present /\ stash.lease = c)
    /\ Goto(c, "panicked")
    /\ UNCHANGED <<rooms, registry, stash, local, out, history>>

(* A reconnect while a session of the id is installed. *)
TakeOver(c) ==
    /\ pc[c] = "new" /\ lock = None
    /\ ~stash.present /\ live # None
    /\ lock' = c
    /\ way' = Set(way, c, "takeover")
    /\ todo' = Set(todo, c, members \cap exists)
    /\ Goto(c, "install")
    /\ UNCHANGED <<rooms, members, live, stash, saving, frames, out, history>>

(* A first registration, a reconnect after the window, or one that does    *)
(* not ask for the old state and leaves a stash where it is.               *)
RegisterFresh(c) ==
    /\ pc[c] = "new" /\ lock = None
    /\ live = None
    /\ lock' = c
    /\ Goto(c, "install")
    /\ owned' = {}
    /\ excused' = stash.present
    /\ UNCHANGED <<rooms, members, live, stash, local, out, held, tailed,
                   early, late, buffered, reached, lost>>

(* broker.agents.insert: a replaced connection is dropped, which ends its  *)
(* send task and tells its reader to stop.                                 *)
Install(c) ==
    /\ pc[c] = "install"
    /\ live' = c
    /\ Goto(c, "restore")
    /\ UNCHANGED <<rooms, members, lock, stash, local, out, history>>

(* join_room for each of its rooms, unless the room is gone. *)
Restore(c, r) ==
    /\ pc[c] = "restore" /\ r \in todo[c]
    /\ LifecycleFree
    /\ todo' = Set(todo, c, todo[c] \ {r})
    /\ IF r \in exists
       THEN members' = members \cup {r} /\ held' = Set(held, c, held[c] \cup {r})
       ELSE UNCHANGED <<members, held>>
    /\ UNCHANGED <<rooms, live, lock, stash, pc, way, saving, frames, out,
                   tailed, early, owned, late, excused, buffered, reached,
                   lost>>

Restored(c) ==
    /\ pc[c] = "restore" /\ todo[c] = {}
    /\ lock' = None
    /\ Goto(c, "refresh")
    /\ UNCHANGED <<rooms, members, live, stash, local, out, history>>

(* The snapshot is taken again just before the acknowledgement is written. *)
Refresh(c) ==
    /\ pc[c] = "refresh"
    /\ frames' = Set(frames, c,
           About(IF stash.lease = c THEN stash.missed ELSE frames[c], exists))
    /\ Goto(c, "write")
    /\ UNCHANGED <<rooms, registry, stash, way, todo, saving, out, history>>

(* The acknowledgement and the replay are written before what is queued. *)
Written(c) ==
    /\ pc[c] = "write"
    /\ out' = Set(out, c, frames[c] \o out[c])
    /\ reached' = reached \cup Range(frames[c])
    /\ Goto(c, "commit")
    /\ UNCHANGED <<rooms, registry, stash, local, held, tailed, early, owned,
                   late, excused, buffered, lost>>

(* The write fails or takes too long, or the session was replaced. *)
WriteFails(c) ==
    /\ pc[c] = "write"
    /\ Goto(c, "failed")
    /\ UNCHANGED <<rooms, registry, stash, local, out, history>>

(* Mutant: what the stash took in since the snapshot is not looked at. *)
CommitNoTail(c) ==
    /\ pc[c] = "commit"
    /\ stash' = IF stash.lease = c THEN NoStash ELSE stash
    /\ frames' = Set(frames, c, <<>>)
    /\ Goto(c, "ready")
    /\ UNCHANGED <<rooms, registry, way, todo, saving, out, history>>

(* The stash is removed, and what it took in since the snapshot is sent:   *)
(* the tail.                                                               *)
Commit(c) ==
    /\ pc[c] = "commit"
    /\ IF stash.lease = c
       THEN /\ stash' = NoStash
            /\ frames' = Set(frames, c, Only(stash.missed, Frame \ Range(frames[c])))
            /\ Goto(c, "tail")
            /\ owned' = IF excused THEN members ELSE owned
            /\ excused' = FALSE
       ELSE /\ frames' = Set(frames, c, <<>>)
            /\ Goto(c, "ready")
            /\ UNCHANGED <<stash, owned, excused>>
    /\ UNCHANGED <<rooms, registry, way, todo, saving, out, held, tailed,
                   early, late, buffered, reached, lost>>

(* A frame of the tail is sent if its room can still be seen ... *)
TailCheck(c) ==
    /\ pc[c] = "tail"
    /\ \/ frames[c] = <<>> /\ Goto(c, "ready") /\ UNCHANGED frames
       \/ /\ frames[c] # <<>>
          /\ IF Head(frames[c])[1] \in exists
             THEN Goto(c, "send") /\ UNCHANGED frames
             ELSE /\ frames' = Set(frames, c, Tail(frames[c]))
                  /\ UNCHANGED pc
    /\ UNCHANGED <<rooms, registry, stash, way, todo, saving, out, history>>

(* ... behind what is queued by then; the rest is dropped if the session   *)
(* was replaced.                                                           *)
TailSend(c) ==
    LET f == Head(frames[c])
    IN  /\ pc[c] = "send"
        /\ \/ /\ live = c
              /\ out' = Set(out, c, Append(out[c], f))
              /\ reached' = reached \cup {f}
              /\ tailed' = Set(tailed, c, tailed[c] \cup {f})
              /\ frames' = Set(frames, c, Tail(frames[c]))
              /\ Goto(c, "tail")
              /\ UNCHANGED lost
           \/ /\ live # c
              /\ lost' = lost \cup Range(frames[c])
              /\ frames' = Set(frames, c, <<>>)
              /\ Goto(c, "ready")
              /\ UNCHANGED <<out, reached, tailed>>
        /\ UNCHANGED <<rooms, registry, stash, way, todo, saving, held, early,
                       owned, late, excused, buffered>>

-----------------------------------------------------------------------------
(* Requests (handler.rs); each looks first and acts later. *)

(* Whether c's request is that of the agent's only session. *)
Alone(c) == live = c /\ lock = None

JoinCheck(c, r) ==
    /\ pc[c] = "ready" /\ live = c
    /\ r \in exists /\ r \notin members
    /\ todo' = Set(todo, c, {r})
    /\ Goto(c, "joining")
    /\ UNCHANGED <<rooms, registry, stash, way, saving, frames, out, history>>

JoinApply(c) ==
    /\ pc[c] = "joining" /\ LifecycleFree
    /\ IF todo[c] \subseteq exists
       THEN /\ members' = members \cup todo[c]
            /\ held' = Set(held, c, held[c] \cup todo[c])
            /\ IF Alone(c) THEN owned' = owned \cup todo[c] /\ UNCHANGED late
               ELSE late' = late \cup todo[c] /\ UNCHANGED owned
       ELSE UNCHANGED <<members, held, owned, late>>
    /\ todo' = Set(todo, c, {})
    /\ Goto(c, "ready")
    /\ UNCHANGED <<rooms, live, lock, stash, way, saving, frames, out, tailed,
                   early, excused, buffered, reached, lost>>

LeaveCheck(c, r) ==
    /\ pc[c] = "ready" /\ live = c
    /\ r \in members
    /\ todo' = Set(todo, c, {r})
    /\ Goto(c, "leaving")
    /\ UNCHANGED <<rooms, registry, stash, way, saving, frames, out, history>>

LeaveApply(c) ==
    /\ pc[c] = "leaving" /\ LifecycleFree
    /\ members' = members \ todo[c]
    /\ held' = Set(held, c, held[c] \ todo[c])
    /\ IF Alone(c) THEN owned' = owned \ todo[c] /\ UNCHANGED late
       ELSE late' = late \cup todo[c] /\ UNCHANGED owned
    /\ todo' = Set(todo, c, {})
    /\ Goto(c, "ready")
    /\ UNCHANGED <<rooms, live, lock, stash, way, saving, frames, out, tailed,
                   early, excused, buffered, reached, lost>>

-----------------------------------------------------------------------------
(* The end of a session (server.rs, phase 4, and a failed registration). *)

(* The connection closed, stalled, or was replaced. *)
Disconnect(c) ==
    /\ pc[c] = "ready"
    /\ Goto(c, "cleanup")
    /\ UNCHANGED <<rooms, registry, stash, local, out, history>>

(* The task is over; its queue, and what is noted of it, go with it. *)
Finish(c) ==
    /\ Goto(c, "done")
    /\ out' = Set(out, c, <<>>) /\ frames' = Set(frames, c, <<>>)
    /\ way' = Set(way, c, "fresh")
    /\ held' = Set(held, c, {})
    /\ tailed' = Set(tailed, c, {}) /\ early' = Set(early, c, {})
    /\ UNCHANGED <<todo, saving, owned, late, excused, buffered, reached,
                   lost>>

(* Mutant: nobody asks whose entry it is. *)
CleanupUnchecked(c) ==
    /\ pc[c] = "cleanup" /\ lock = None
    /\ lock' = c
    /\ todo' = Set(todo, c, members)
    /\ Goto(c, IF members = {} THEN "remove" ELSE "filter")
    /\ UNCHANGED <<rooms, members, live, stash, way, saving, frames, out,
                   history>>

(* A session that was replaced leaves everything to its successor. *)
Cleanup(c) ==
    /\ pc[c] = "cleanup" /\ lock = None
    /\ \/ /\ live = c
          /\ lock' = c
          /\ todo' = Set(todo, c, members)
          /\ Goto(c, IF members = {} THEN "remove" ELSE "filter")
          /\ UNCHANGED <<way, saving, frames, out, history>>
       \/ /\ live # c
          /\ Finish(c)
          /\ UNCHANGED lock
    /\ UNCHANGED <<rooms, members, live, stash>>

(* ReconnectManager::stash: leave out destroyed rooms, insert, and look    *)
(* again for rooms destroyed in between.                                   *)
StashFilter(c) ==
    /\ pc[c] = "filter"
    /\ saving' = todo[c] \ destroyed
    /\ Goto(c, "insert")
    /\ UNCHANGED <<rooms, registry, stash, way, todo, frames, out, history>>

StashInsert(c) ==
    /\ pc[c] = "insert"
    /\ stash' = [present |-> TRUE, rooms |-> saving, missed |-> <<>>, lease |-> None]
    /\ lost' = lost \cup Range(stash.missed)
    /\ owned' = IF excused THEN saving ELSE owned
    /\ excused' = FALSE
    /\ saving' = {}
    /\ Goto(c, "recheck")
    /\ UNCHANGED <<rooms, registry, way, todo, frames, out, held, tailed,
                   early, late, buffered, reached>>

(* Mutant: no second look. *)
StashRecheckNothing(c) ==
    /\ pc[c] = "recheck"
    /\ Goto(c, "leave")
    /\ UNCHANGED <<rooms, registry, stash, local, out, history>>

StashRecheck(c) ==
    /\ pc[c] = "recheck"
    /\ stash' = [stash EXCEPT !.rooms = @ \ destroyed]
    /\ Goto(c, "leave")
    /\ UNCHANGED <<rooms, registry, local, out, history>>

(* leave_room for each of its rooms. *)
Leave(c, r) ==
    /\ pc[c] \in {"leave", "unwind"} /\ r \in todo[c]
    /\ LifecycleFree
    /\ members' = members \ {r}
    /\ todo' = Set(todo, c, todo[c] \ {r})
    /\ UNCHANGED <<rooms, live, lock, stash, pc, way, saving, frames, out,
                   history>>

(* agents.remove_if, if the entry is still of this session. *)
Remove(c) ==
    /\ pc[c] \in {"leave", "remove"}
    /\ pc[c] = "leave" => todo[c] = {}
    /\ live' = IF live = c THEN None ELSE live
    /\ lock' = None
    /\ Finish(c)
    /\ UNCHANGED <<rooms, members, stash>>

(* Mutant: the memberships stay. *)
FailedRemoveKeepsRooms(c) ==
    /\ pc[c] = "failed" /\ lock = None
    /\ live' = IF live = c THEN None ELSE live
    /\ Goto(c, "release")
    /\ UNCHANGED <<rooms, members, lock, stash, local, out, history>>

(* A registration that could not be acknowledged is undone. *)
FailedRemove(c) ==
    /\ pc[c] = "failed" /\ lock = None
    /\ IF live = c
       THEN /\ live' = None /\ lock' = c
            /\ todo' = Set(todo, c, members)
            /\ excused' = (excused \/ way[c] = "takeover")
            /\ Goto(c, "unwind")
       ELSE Goto(c, "release") /\ UNCHANGED <<live, lock, todo, excused>>
    /\ UNCHANGED <<rooms, members, stash, way, saving, frames, out, held,
                   tailed, early, owned, late, buffered, reached, lost>>

Unwound(c) ==
    /\ pc[c] = "unwind" /\ todo[c] = {}
    /\ lock' = None
    /\ Goto(c, "release")
    /\ UNCHANGED <<rooms, members, live, stash, local, out, history>>

(* Mutant: a lease that is not committed stays claimed. *)
ReleaseKeepsLease(c) ==
    /\ pc[c] = "release"
    /\ Finish(c)
    /\ UNCHANGED <<rooms, registry, stash>>

(* Mutant: it takes the stash with it. *)
ReleaseDiscards(c) ==
    /\ pc[c] = "release"
    /\ stash' = IF stash.lease = c THEN NoStash ELSE stash
    /\ Finish(c)
    /\ UNCHANGED <<rooms, registry>>

(* The lease is dropped: the stash can be claimed again. *)
Release(c) ==
    /\ pc[c] = "release"
    /\ stash' = IF stash.lease = c THEN [stash EXCEPT !.lease = None] ELSE stash
    /\ Finish(c)
    /\ UNCHANGED <<rooms, registry>>

(* The 30 s task discards a stash after 120 s, a claimed one included. *)
StashExpires ==
    /\ stash.present
    /\ stash' = NoStash
    /\ lost' = lost \cup Range(stash.missed)
    /\ excused' = TRUE
    /\ UNCHANGED <<rooms, registry, pc, local, out, held, tailed, early,
                   owned, late, buffered, reached>>

-----------------------------------------------------------------------------
(* Publication, one room mutation at a time (handler.rs). *)

PubStep(step) == pub' = [pub EXCEPT !.step = step]

(* handle_rename_room: the store has the new name. *)
Rename(r) ==
    /\ pub.step = "idle"
    /\ r \in exists /\ version[r] < MaxVersion
    /\ version' = [version EXCEPT ![r] = @ + 1]
    /\ pub' = [step |-> "buffer", frame |-> <<r, version[r] + 1>>]
    /\ UNCHANGED <<exists, destroyed, registry, stash, pc, local, out,
                   history>>

(* Mutant: a frame that was buffered is sent live as well. *)
BufferAndSend ==
    /\ pub.step = "buffer"
    /\ IF /\ stash.present /\ Len(stash.missed) < MaxBuffered
          /\ pub.frame[1] \notin destroyed
       THEN /\ stash' = [stash EXCEPT !.missed = Append(@, pub.frame)]
            /\ buffered' = buffered \cup {pub.frame}
       ELSE UNCHANGED <<stash, buffered>>
    /\ PubStep("live")
    /\ UNCHANGED <<exists, destroyed, version, registry, pc, local, out, held,
                   tailed, early, owned, late, excused, reached, lost>>

(* buffer_visible_room_event: a stash that takes the frame is the only one *)
(* to get it.                                                              *)
Buffer ==
    /\ pub.step = "buffer"
    /\ IF /\ stash.present /\ Len(stash.missed) < MaxBuffered
          /\ pub.frame[1] \notin destroyed
       THEN /\ stash' = [stash EXCEPT !.missed = Append(@, pub.frame)]
            /\ buffered' = buffered \cup {pub.frame}
            /\ pub' = [step |-> "idle", frame |-> <<>>]
       ELSE PubStep("live") /\ UNCHANGED <<stash, buffered>>
    /\ UNCHANGED <<exists, destroyed, version, registry, pc, local, out, held,
                   tailed, early, owned, late, excused, reached, lost>>

(* The rest goes to the installed connections, RoomDestroyed always. *)
Publish ==
    /\ pub.step = "live"
    /\ SendLive(pub.frame)
    /\ pub' = [step |-> "idle", frame |-> <<>>]
    /\ UNCHANGED <<exists, destroyed, version, registry, stash, pc, local,
                   held, tailed, owned, late, excused, buffered, reached,
                   lost>>

(* handle_destroy_room: the store's rows, then, still under room_lifecycle, *)
(* the members; then the stash forgets the room, tombstone first.          *)
Destroy(r) ==
    /\ pub.step = "idle" /\ r \in exists
    /\ exists' = exists \ {r}
    /\ pub' = [step |-> "members", frame |-> <<r, Gone>>]
    /\ UNCHANGED <<destroyed, version, registry, stash, pc, local, out,
                   history>>

DestroyMembers ==
    /\ pub.step = "members"
    /\ members' = members \ {pub.frame[1]}
    /\ PubStep("tombstone")
    /\ UNCHANGED <<exists, destroyed, version, live, lock, stash, pc, local,
                   out, history>>

ForgetTombstone ==
    /\ pub.step = "tombstone"
    /\ destroyed' = destroyed \cup {pub.frame[1]}
    /\ PubStep("sweep")
    /\ UNCHANGED <<exists, version, registry, stash, pc, local, out, history>>

ForgetSweep ==
    /\ pub.step = "sweep"
    /\ stash' = [stash EXCEPT !.rooms = @ \ {pub.frame[1]},
                              !.missed = About(@, Rooms \ {pub.frame[1]})]
    /\ PubStep("live")
    /\ UNCHANGED <<exists, destroyed, version, registry, pc, local, out,
                   history>>

-----------------------------------------------------------------------------
Next ==
    \/ \E c \in Conns :
        \/ BeginReclaim(c) \/ Snapshot(c) \/ SnapshotPanics(c) \/ TakeOver(c)
        \/ RegisterFresh(c) \/ Install(c) \/ Restored(c) \/ Refresh(c)
        \/ Written(c) \/ WriteFails(c) \/ Commit(c) \/ TailCheck(c) \/ TailSend(c)
        \/ JoinApply(c) \/ LeaveApply(c) \/ Disconnect(c) \/ Cleanup(c)
        \/ StashFilter(c) \/ StashInsert(c) \/ StashRecheck(c) \/ Remove(c)
        \/ FailedRemove(c) \/ Unwound(c) \/ Release(c)
        \/ \E r \in Rooms : Restore(c, r) \/ JoinCheck(c, r) \/ LeaveCheck(c, r)
                           \/ Leave(c, r)
    \/ StashExpires
    \/ \E r \in Rooms : Rename(r) \/ Destroy(r)
    \/ Buffer \/ Publish
    \/ DestroyMembers \/ ForgetTombstone \/ ForgetSweep

Spec == Init /\ [][Next]_vars

-----------------------------------------------------------------------------
(* No session is installed, and none is registering or cleaning up. *)
Settled == live = None /\ lock = None

(* When the last session is gone the agent is in no room, so that no       *)
(* message is addressed to a member that cannot read it: except for rooms  *)
(* a replaced session's request joined too late (Broker::rooms_for_agent   *)
(* at cleanup sees only what was joined by then).                          *)
GoneMeansOut == Settled => members \subseteq late

(* The rooms an acknowledged session restored or joined stay its own until *)
(* it leaves them or they are destroyed: the cleanup of an older session   *)
(* (server.rs:885-888) does not take them away, whatever the order.        *)
SessionKeepsRooms ==
    \A c \in Conns : live = c /\ pc[c] \in Acked =>
        (held[c] \cap exists) \ late \subseteq members

(* The agent is in the rooms of its session, no others and no fewer, in    *)
(* the two senses above.                                                   *)
MembersAreTheSessions == GoneMeansOut /\ SessionKeepsRooms

(* With nobody connected the stash holds the rooms the agent was in, no    *)
(* fewer and no more, through takeovers, failed registrations and retries; *)
(* unless it expired, a takeover could not be acknowledged, or the agent   *)
(* registered without asking for it.                                       *)
StashIsWhatTheAgentHad ==
    Settled /\ ~excused =>
        (stash.rooms \cap exists) \ late = (owned \cap exists) \ late

(* reconnect.rs:303-305: a stash never names a destroyed room, nor holds   *)
(* an event of one, once its destruction is through; StashRecheck and the  *)
(* order of the steps of forget_room see to the races.                     *)
StashForgetsRooms ==
    (\A c \in Conns : pc[c] # "recheck") =>
        LET going == IF pub.frame = <<>> THEN {} ELSE {pub.frame[1]}
        IN  /\ stash.rooms \subseteq exists \cup going
            /\ \A f \in Range(stash.missed) : f[1] \in exists \cup going

(* A session gets every room event at most once and in the order of the    *)
(* changes, over snapshot, queue and tail (handler.rs:45-47); only a frame *)
(* of the tail, or one queued before the acknowledgement, can come late.   *)
(* Of these only one of the tail can come after RoomDestroyed (619-621).   *)
EventsOnceInOrder ==
    \A c \in Conns : \A i, j \in 1..Len(out[c]) :
        LET e == out[c][i]
            f == out[c][j]
        IN  i < j /\ e[1] = f[1] =>
                /\ e # f
                /\ \/ e[2] < f[2]
                   \/ f \in tailed[c]
                   \/ f \in early[c] /\ e[2] # Gone

(* What the stash accepted is not forgotten: it reaches a session or is    *)
(* still in the stash or a tail, unless it was discarded with them, or its *)
(* room is gone.                                                           *)
BufferedUntilReached ==
    \A f \in buffered : f[1] \in exists =>
        f \in reached \cup lost \cup Range(stash.missed)
             \cup UNION {Range(frames[c]) : c \in {d \in Conns : pc[d] \in {"tail", "send"}}}

(* server.rs: expect("a newly acquired reconnect lease has a stash"). *)
LeaseHasStash ==
    \A c \in Conns : pc[c] = "snapshot" => stash.present /\ stash.lease = c
=============================================================================

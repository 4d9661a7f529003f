------------------------------ MODULE TaskBoard ------------------------------
(***************************************************************************)
(* The task boards of rooms: the table room_tasks (store.rs), its copy in  *)
(* memory (tasks.rs), the requests that create, update and list tasks and  *)
(* the events that announce them (handler.rs), against the destruction of  *)
(* the room and a server that crashes.                                     *)
(*                                                                         *)
(* The connections of agents are tasks that run in parallel.  Each SQLite  *)
(* call, each access to a concurrent map and each event queued to an agent *)
(* is a step; an entry of the map that update_task has locked and the      *)
(* members of a room that a broadcast is reading are guards of the others. *)
(***************************************************************************)
EXTENDS Naturals, Sequences, SequencesExt

CONSTANTS
    Agents,   \* connected agents
    Rooms,    \* room UUIDs, never reused
    Lobby,    \* the room that cannot be destroyed
    Tasks,    \* task UUIDs, never reused
    Fields,   \* what an update may change: status, assignee, note
    Values,   \* values an update may give them
    None,     \* no agent, no room; the value of a field at first
    MaxRev,   \* bound: versions of a task
    MaxCrash  \* bound: server crashes

ASSUME BoardAssumption ==
    /\ Lobby \in Rooms
    /\ None \notin Agents \cup Rooms \cup Values
    /\ MaxRev \in Nat \ {0} /\ MaxCrash \in Nat

VARIABLES
    rooms,      \* rows of the rooms table
    row,        \* rows of room_tasks
    mem,        \* TaskManager.tasks
    held,       \* the agent whose request has locked an entry of mem
    members,    \* Broker.room_members, in join order
    lifecycle,  \* the agent whose request holds room_lifecycle
    req,        \* the request each agent's connection handles
    home,       \* history: the room of each task UUID handed out
    wrote,      \* history: per task and field, what the last update that
                \* was saved and named the field gave it
    known,      \* history: the newest version an agent has been sent
    listed,     \* history: the members that listed the tasks since they joined
    crashes

server == <<mem, held, members, lifecycle, req>>
table == <<rooms, row>>
history == <<home, wrote, known, listed>>
vars == <<server, table, history, crashes>>

(* TaskInfo; rev stands for updated_at, which is read under the entry's    *)
(* lock.                                                                   *)
NoTask == [room |-> None, rev |-> 0, val |-> [f \in Fields |-> None]]
TaskInfos == [room : Rooms, rev : Nat \ {0}, val : [Fields -> Values \cup {None}]]

(* A request: its step, its task and room, the fields an update names, the *)
(* task as it saves it, and the members that are still to be told.         *)
Idle == [at |-> "idle", task |-> None, room |-> None, sets |-> [f \in {} |-> None],
         info |-> NoTask, todo |-> <<>>]
PCs == {"idle", "save", "insert", "enter", "write", "set", "tell", "send",
        "members", "forget"}
Updates == UNION {[S -> Values] : S \in SUBSET Fields}
Requests == [at : PCs, task : Tasks \cup {None}, room : Rooms \cup {None},
             sets : Updates, info : TaskInfos \cup {NoTask}, todo : Seq(Agents)]

(* Type invariant: an entry is locked by the update that writes it, the    *)
(* lifecycle by the destruction under way, and whoever is told is a member.*)
TypeOK ==
    /\ rooms \subseteq Rooms
    /\ row \in [Tasks -> TaskInfos \cup {NoTask}]
    /\ mem \in [Tasks -> TaskInfos \cup {NoTask}]
    /\ home \in [Tasks -> Rooms \cup {None}]
    /\ \A t \in Tasks : row[t] # NoTask => row[t].room = home[t] /\ home[t] \in rooms
    /\ held \in [Tasks -> Agents \cup {None}]
    /\ \A t \in Tasks, a \in Agents :
           held[t] = a <=> req[a].at \in {"write", "set"} /\ req[a].task = t
    /\ members \in [Rooms -> Seq(Agents)]
    /\ lifecycle \in Agents \cup {None}
    /\ \A a \in Agents : lifecycle = a <=> req[a].at = "members"
    /\ req \in [Agents -> Requests]
    /\ \A a \in Agents : req[a].at = "send" =>
           /\ req[a].todo # <<>>
           /\ ToSet(req[a].todo) \subseteq ToSet(members[req[a].room])
    /\ wrote \in [Tasks -> [Fields -> Values \cup {None}]]
    /\ known \in [Agents -> [Tasks -> Nat]]
    /\ listed \in [Rooms -> SUBSET Agents]
    /\ crashes \in 0..MaxCrash

Init ==
    /\ rooms = Rooms
    /\ row = [t \in Tasks |-> NoTask] /\ mem = [t \in Tasks |-> NoTask]
    /\ held = [t \in Tasks |-> None]
    /\ members = [r \in Rooms |-> <<>>] /\ lifecycle = None
    /\ req = [a \in Agents |-> Idle]
    /\ home = [t \in Tasks |-> None] /\ wrote = [t \in Tasks |-> NoTask.val]
    /\ known = [a \in Agents |-> [t \in Tasks |-> 0]]
    /\ listed = [r \in Rooms |-> {}]
    /\ crashes = 0

IsMember(a, r) == \E i \in DOMAIN members[r] : members[r][i] = a
Goto(a, p) == req' = [req EXCEPT ![a].at = p]
Finish(a) == req' = [req EXCEPT ![a] = Idle]
Start(a, q) == req[a] = Idle /\ req' = [req EXCEPT ![a] = q]

(* A broadcast that has begun keeps a room's members from changing. *)
MembersFree(r) == \A a \in Agents : req[a].at = "send" => req[a].room # r

-----------------------------------------------------------------------------
(* Membership, as far as boards depend on it. *)

Join(a, r) ==
    /\ req[a] = Idle /\ lifecycle = None /\ MembersFree(r)
    /\ r \in rooms /\ ~IsMember(a, r)
    /\ members' = [members EXCEPT ![r] = Append(@, a)]
    /\ UNCHANGED <<mem, held, lifecycle, req, table, history, crashes>>

Leave(a, r) ==
    /\ req[a] = Idle /\ lifecycle = None /\ MembersFree(r)
    /\ \E i \in DOMAIN members[r] :
           /\ members[r][i] = a
           /\ members' = [members EXCEPT ![r] = RemoveAt(@, i)]
    /\ listed' = [listed EXCEPT ![r] = @ \ {a}]
    /\ UNCHANGED <<mem, held, lifecycle, req, table, home, wrote, known, crashes>>

-----------------------------------------------------------------------------
(* Creation. *)

(* handle_assign_task *)
Assign(a, r) ==
    /\ IsMember(a, r)
    /\ Start(a, [Idle EXCEPT !.at = "save", !.room = r])
    /\ UNCHANGED <<mem, held, members, lifecycle, table, history, crashes>>

(* create_task: the row, which a room that is gone or another error of the *)
(* database refuses; ...                                                   *)
CreateSave(a) ==
    LET q == req[a] IN
    /\ q.at = "save"
    /\ \/ \E t \in {s \in Tasks : home[s] = None} :
            LET info == [NoTask EXCEPT !.room = q.room, !.rev = 1] IN
            /\ q.room \in rooms
            /\ row' = [row EXCEPT ![t] = info]
            /\ home' = [home EXCEPT ![t] = q.room]
            /\ req' = [req EXCEPT ![a].at = "insert", ![a].task = t, ![a].info = info]
       \/ Finish(a) /\ UNCHANGED <<row, home>>
    /\ UNCHANGED <<mem, held, members, lifecycle, rooms, wrote, known, listed,
                   crashes>>

(* ... its copy. *)
CreateInsert(a) ==
    LET q == req[a] IN
    /\ q.at = "insert"
    /\ mem' = [mem EXCEPT ![q.task] = q.info]
    /\ Goto(a, "tell")
    /\ UNCHANGED <<held, members, lifecycle, table, history, crashes>>

-----------------------------------------------------------------------------
(* Updates. *)

(* handle_update_task reads the task to find its room. *)
Update(a, t, u) ==
    /\ mem[t] # NoTask /\ held[t] = None
    /\ IsMember(a, mem[t].room)
    /\ Start(a, [Idle EXCEPT !.at = "enter", !.task = t, !.room = mem[t].room,
                             !.sets = u])
    /\ UNCHANGED <<mem, held, members, lifecycle, table, history, crashes>>

Merged(info, u) ==
    [info EXCEPT !.val = [f \in Fields |-> IF f \in DOMAIN u THEN u[f] ELSE @[f]],
                 !.rev = @ + 1]

(* Mutant: the copy is changed without the lock of its entry. *)
UpdateEnterUnlocked(a) ==
    LET q == req[a] IN
    /\ q.at = "enter"
    /\ IF mem[q.task] = NoTask THEN Finish(a)
       ELSE req' = [req EXCEPT ![a].at = "write",
                               ![a].info = Merged(mem[q.task], q.sets)]
    /\ UNCHANGED <<mem, held, members, lifecycle, table, history, crashes>>

(* update_task: the entry is locked and its task changed in a copy; ... *)
UpdateEnter(a) ==
    LET q == req[a] IN
    /\ q.at = "enter" /\ held[q.task] = None
    /\ IF mem[q.task] = NoTask THEN Finish(a) /\ UNCHANGED held
       ELSE /\ held' = [held EXCEPT ![q.task] = a]
            /\ req' = [req EXCEPT ![a].at = "write",
                                  ![a].info = Merged(mem[q.task], q.sets)]
    /\ UNCHANGED <<mem, members, lifecycle, table, history, crashes>>

(* Mutant: an error of the database is not looked at. *)
UpdateWriteAnyway(a) ==
    LET q == req[a] IN
    /\ q.at = "write"
    /\ \/ /\ q.room \in rooms /\ q.info.rev <= MaxRev
          /\ row' = [row EXCEPT ![q.task] = q.info]
       \/ UNCHANGED row
    /\ wrote' = [wrote EXCEPT ![q.task] =
           [f \in Fields |-> IF f \in DOMAIN q.sets THEN q.sets[f] ELSE @[f]]]
    /\ Goto(a, "set")
    /\ UNCHANGED <<mem, held, members, lifecycle, rooms, home, known, listed, crashes>>

(* ... the copy is saved, or refused by the database, as it is once the    *)
(* room is gone; ...                                                       *)
UpdateWrite(a) ==
    LET q == req[a] IN
    /\ q.at = "write"
    /\ \/ /\ q.room \in rooms /\ q.info.rev <= MaxRev
          /\ row' = [row EXCEPT ![q.task] = q.info]
          /\ wrote' = [wrote EXCEPT ![q.task] =
                 [f \in Fields |-> IF f \in DOMAIN q.sets THEN q.sets[f] ELSE @[f]]]
          /\ Goto(a, "set") /\ UNCHANGED held
       \/ /\ Finish(a)
          /\ held' = [held EXCEPT ![q.task] = None] /\ UNCHANGED <<row, wrote>>
    /\ UNCHANGED <<mem, members, lifecycle, rooms, home, known, listed, crashes>>

(* ... and replaces the entry, which is unlocked. *)
UpdateSet(a) ==
    LET q == req[a] IN
    /\ q.at = "set"
    /\ mem' = [mem EXCEPT ![q.task] = q.info]
    /\ held' = [held EXCEPT ![q.task] = None]
    /\ Goto(a, "tell")
    /\ UNCHANGED <<members, lifecycle, table, history, crashes>>

-----------------------------------------------------------------------------
(* Events and lists. *)

(* broadcast_to_room_all: TaskAssigned or TaskUpdated to the members ... *)
Tell(a) ==
    LET q == req[a] IN
    /\ q.at = "tell"
    /\ IF members[q.room] = <<>> THEN Finish(a)
       ELSE req' = [req EXCEPT ![a].at = "send", ![a].todo = members[q.room]]
    /\ UNCHANGED <<mem, held, members, lifecycle, table, history, crashes>>

(* Of two versions a client keeps the one with the later updated_at. *)
Newest(rev, new) == IF new > rev THEN new ELSE rev

(* Mutant: the agent that made the change is not told. *)
SendToOthers(a) ==
    LET q == req[a] IN
    /\ q.at = "send"
    /\ known' = IF Head(q.todo) = a THEN known
                ELSE [known EXCEPT ![Head(q.todo)][q.task] = Newest(@, q.info.rev)]
    /\ IF Tail(q.todo) = <<>> THEN Finish(a)
       ELSE req' = [req EXCEPT ![a].todo = Tail(@)]
    /\ UNCHANGED <<mem, held, members, lifecycle, table, home, wrote, listed, crashes>>

(* ... one after the other. *)
Send(a) ==
    LET q == req[a] IN
    /\ q.at = "send"
    /\ known' = [known EXCEPT ![Head(q.todo)][q.task] = Newest(@, q.info.rev)]
    /\ IF Tail(q.todo) = <<>> THEN Finish(a)
       ELSE req' = [req EXCEPT ![a].todo = Tail(@)]
    /\ UNCHANGED <<mem, held, members, lifecycle, table, home, wrote, listed, crashes>>

(* handle_list_tasks; entries that are locked are waited for. *)
List(a, r) ==
    /\ req[a] = Idle /\ r \in rooms
    /\ \A t \in Tasks : held[t] = None
    /\ known' = [known EXCEPT ![a] = [t \in Tasks |->
           IF mem[t].room = r THEN Newest(@[t], mem[t].rev) ELSE @[t]]]
    /\ listed' = IF IsMember(a, r) THEN [listed EXCEPT ![r] = @ \cup {a}] ELSE listed
    /\ UNCHANGED <<server, table, home, wrote, crashes>>

-----------------------------------------------------------------------------
(* Destruction and crashes. *)

(* Mutant: room_tasks is not among the tables that are cleared. *)
DestroyKeepsTasks(a, r) ==
    /\ r \in rooms \ {Lobby} /\ lifecycle = None
    /\ Start(a, [Idle EXCEPT !.at = "members", !.room = r])
    /\ lifecycle' = a
    /\ rooms' = rooms \ {r}
    /\ UNCHANGED <<row, mem, held, members, history, crashes>>

(* destroy_room_with: the room and its rows in one transaction, ... *)
Destroy(a, r) ==
    /\ r \in rooms \ {Lobby} /\ lifecycle = None
    /\ Start(a, [Idle EXCEPT !.at = "members", !.room = r])
    /\ lifecycle' = a
    /\ rooms' = rooms \ {r}
    /\ row' = [t \in Tasks |-> IF row[t].room = r THEN NoTask ELSE row[t]]
    /\ UNCHANGED <<mem, held, members, history, crashes>>

(* ... its members, ... *)
DestroyMembers(a) ==
    /\ req[a].at = "members" /\ MembersFree(req[a].room)
    /\ members' = [members EXCEPT ![req[a].room] = <<>>]
    /\ listed' = [listed EXCEPT ![req[a].room] = {}]
    /\ lifecycle' = None
    /\ Goto(a, "forget")
    /\ UNCHANGED <<mem, held, table, home, wrote, known, crashes>>

(* ... and forget_room, which waits for locked entries. *)
DestroyForget(a) ==
    /\ req[a].at = "forget"
    /\ \A t \in Tasks : held[t] = None
    /\ mem' = [t \in Tasks |-> IF mem[t].room = req[a].room THEN NoTask ELSE mem[t]]
    /\ Finish(a)
    /\ UNCHANGED <<held, members, lifecycle, table, history, crashes>>

(* Mutant: the tasks are not loaded. *)
LoadNothing == [t \in Tasks |-> NoTask]

(* load_tasks *)
Load == row

Crash ==
    /\ crashes < MaxCrash
    /\ crashes' = crashes + 1
    /\ mem' = Load
    /\ held' = [t \in Tasks |-> None]
    /\ members' = [r \in Rooms |-> <<>>] /\ lifecycle' = None
    /\ req' = [a \in Agents |-> Idle]
    /\ listed' = [r \in Rooms |-> {}]
    /\ UNCHANGED <<table, home, wrote, known>>

Next ==
    \/ \E a \in Agents :
        \/ \E r \in Rooms :
            Join(a, r) \/ Leave(a, r) \/ Assign(a, r) \/ List(a, r) \/ Destroy(a, r)
        \/ \E t \in Tasks, u \in Updates : Update(a, t, u)
        \/ CreateSave(a) \/ CreateInsert(a)
        \/ UpdateEnter(a) \/ UpdateWrite(a) \/ UpdateSet(a)
        \/ Tell(a) \/ Send(a)
        \/ DestroyMembers(a) \/ DestroyForget(a)
    \/ Crash

Spec == Init /\ [][Next]_vars

-----------------------------------------------------------------------------
(* Updates of different fields are merged: a field has the value that the  *)
(* last saved update which named it gave it, whatever ran at the same time *)
(* (tasks.rs:64, the entry is locked before it is copied).                 *)
NoUpdateLost == \A t \in Tasks : row[t] # NoTask => row[t].val = wrote[t]

(* What anybody was sent of a task is in the table, through crashes, or    *)
(* its room is gone (tasks.rs:51 and 82: saved before it is shown).        *)
SentIsSaved ==
    \A a \in Agents, t \in Tasks :
        known[a][t] > 0 => row[t].rev >= known[a][t] \/ home[t] \notin rooms

(* A request that changes t is under way, or about to tell. *)
Pending(t) == \E a \in Agents : req[a].at # "idle" /\ req[a].task = t

(* A member that listed the tasks of its room since it joined, and keeps   *)
(* of what it is sent the version with the later updated_at, has the board *)
(* as the server has it once no change is under way: events overtake each  *)
(* other (handler.rs:2204, the lock is dropped before the broadcast), but  *)
(* none is missed.                                                         *)
ListenersHaveTheBoard ==
    \A r \in rooms : \A a \in listed[r] : \A t \in Tasks :
        home[t] = r /\ ~Pending(t) =>
            known[a][t] = mem[t].rev /\ mem[t] = row[t]

(* The refinement mapping to SharedBoard: the board is the table.          *)
Board == INSTANCE SharedBoard WITH
    open <- rooms, seen <- known,
    version <- [t \in Tasks |-> row[t].rev], value <- [t \in Tasks |-> row[t].val]

(* The table, its copy, the locks of entries and the events together are   *)
(* one board: every step of the server is one change of it or none, and a  *)
(* restart that loads the copy (tasks.rs:19) is none.                      *)
BoardSpec == Board!Spec
=============================================================================

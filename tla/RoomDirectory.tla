---------------------------- MODULE RoomDirectory ----------------------------
(***************************************************************************)
(* The rooms of a server with authentication: their names, owners and      *)
(* parents, invites to private rooms and the API keys they are redeemed    *)
(* for, and who sees a room (handler.rs, connection.rs, store.rs, web.rs). *)
(*                                                                         *)
(* Requests are tasks that run in parallel.  Each SQLite call, each access *)
(* to the cache of grants and each wait for a mutex is a step.  create,    *)
(* rename and destroy hold the room_mutation mutex; invites do not.        *)
(***************************************************************************)
EXTENDS Naturals, FiniteSets

CONSTANTS
    Tasks,      \* requests handled at one time
    Rooms,      \* room UUIDs, never reused, but for the lobby
    Lobby,      \* the system room, without creator and owner
    Tokens,     \* invite tokens, never reused
    Keys,       \* API keys
    Members,    \* keys there are from the start, connected
    Ids,        \* agent ids of clients
    Names,      \* names as a client may spell them
    Trimmed,    \* normalize_room_name: a spelling -> its name, None if refused
    LobbyName,  \* a name no client uses
    None        \* nothing

ASSUME DirectoryAssumption ==
    /\ Lobby \in Rooms
    /\ Members \subseteq Keys
    /\ Trimmed \in [Names -> Names \cup {None}]
    /\ LobbyName \notin Names
    /\ None \notin Rooms \cup Tokens \cup Keys \cup Ids \cup Names \cup Tasks
                      \cup {LobbyName}

VARIABLES
    rooms,      \* the rooms table
    used,       \* room UUIDs ever handed out
    invites,    \* room_invites, by token
    made,       \* tokens ever generated
    apiKeys,    \* api_keys
    table,      \* room_grants: <<key, room>>
    cache,      \* Store.grants: the same, in memory
    mutation,   \* the task that holds room_mutation
    lifecycle,  \* the task that holds room_lifecycle
    tombstones, \* rooms destroyed since the server started
    task,       \* the request each task handles
    handed,     \* history: <<key, room>> that redemptions have answered
    view        \* history: what the client of a key last heard of a room

tables == <<rooms, used, invites, made, apiKeys, table>>
locks == <<mutation, lifecycle>>
vars == <<tables, cache, locks, tombstones, task, handed, view>>

NoRow == [name |-> None, parent |-> None, creator |-> None, owner |-> None,
          public |-> FALSE]
LobbyRow == [name |-> LobbyName, parent |-> None, creator |-> None,
             owner |-> None, public |-> TRUE]
Rows == [name : Names \cup {LobbyName}, parent : Rooms \cup {None},
         creator : Ids \cup {None}, owner : Keys \cup {None}, public : BOOLEAN]

(* An invite; told: its creator was answered the token (history). *)
NoInvite == [room |-> None, by |-> None, single |-> FALSE, revoked |-> TRUE,
             told |-> FALSE]
Invites == [room : Rooms, by : Keys, single : BOOLEAN, revoked : BOOLEAN,
            told : BOOLEAN]

(* A request: its step, caller, room, name or token, key being minted, and *)
(* the clients to be told (destroy's snapshot of granted keys, then the    *)
(* row it deleted).                                                        *)
Idle == [at |-> "idle", key |-> None, id |-> None, room |-> None,
         name |-> None, parent |-> None, flag |-> FALSE, token |-> None,
         snap |-> {}, row |-> NoRow]

PCs == {"idle", "create", "rename", "publish", "delete", "purge", "farewell",
        "invite", "check", "sweep", "revoke", "redeem", "mint", "grant", "cached"}
Guarded == {"publish", "delete", "purge", "farewell"}
Requests == [at : PCs, key : Keys \cup {None}, id : Ids \cup {None},
             room : Rooms \cup {None}, name : Names \cup Tokens \cup {None},
             parent : Rooms \cup {None}, flag : BOOLEAN,
             token : Tokens \cup {None}, snap : SUBSET Keys,
             row : Rows \cup {NoRow}]

Exists(r) == rooms[r] # NoRow
Gone == "gone"

(* Type invariant: rows, grants, and each mutex held where the code holds  *)
(* it.                                                                     *)
TypeOK ==
    /\ rooms \in [Rooms -> Rows \cup {NoRow}]
    /\ used \subseteq Rooms /\ made \subseteq Tokens
    /\ \A r \in Rooms : Exists(r) => r \in used
    /\ invites \in [Tokens -> Invites \cup {NoInvite}]
    /\ \A t \in Tokens : invites[t] # NoInvite => t \in made
    /\ apiKeys \subseteq Keys /\ handed \subseteq apiKeys \X Rooms
    /\ table \subseteq apiKeys \X Rooms /\ cache \subseteq apiKeys \X Rooms
    /\ mutation \in Tasks \cup {None} /\ lifecycle \in Tasks \cup {None}
    /\ task \in [Tasks -> Requests]
    /\ \A c \in Tasks : mutation = c <=> task[c].at \in Guarded
    /\ \A c \in Tasks : lifecycle = c <=> task[c].at = "purge"
    /\ tombstones \subseteq used
    /\ view \in [Keys \X Rooms -> Names \cup {LobbyName, None, Gone}]

Init ==
    /\ rooms = [r \in Rooms |-> IF r = Lobby THEN LobbyRow ELSE NoRow]
    /\ used = {Lobby}
    /\ invites = [t \in Tokens |-> NoInvite] /\ made = {}
    /\ apiKeys = Members
    /\ table = {} /\ cache = {}
    /\ mutation = None /\ lifecycle = None /\ tombstones = {}
    /\ task = [c \in Tasks |-> Idle]
    /\ handed = {}
    /\ view = [kr \in Keys \X Rooms |-> None]

(* normalize_room_name *)
Normalize(n) == Trimmed[n]

(* can_access_room_parts, matches_room_owner: a system room has no owner. *)
AccessByRow(row, k) == row.public \/ (row.owner # None /\ row.owner = k)
MatchesOwner(row, k) == row.owner # None /\ row.owner = k

CanAccess(row, r, k) == AccessByRow(row, k) \/ <<k, r>> \in cache

(* authorize_room *)
Authorized(r, k) == Exists(r) /\ CanAccess(rooms[r], r, k)

(* rename and destroy: the owning key and the recorded creator. *)
MayMutate(r, k, a) ==
    /\ Exists(r) /\ r # Lobby /\ rooms[r].creator # None
    /\ rooms[r].creator = a /\ MatchesOwner(rooms[r], k)

(* room_name_conflicts *)
Conflicts(n, r) == \E q \in Rooms \ {r} : Exists(q) /\ rooms[q].name = n

(* Clients: those of the first keys, and of keys their invites were        *)
(* redeemed for.                                                           *)
Clients == Members \cup {h[1] : h \in handed}

Enter(c, req) == task[c] = Idle /\ task' = [task EXCEPT ![c] = req]
Step(c, p) == task' = [task EXCEPT ![c].at = p]
Finish(c) == task' = [task EXCEPT ![c] = Idle]
SameLocks == UNCHANGED locks
SameRest == UNCHANGED <<tombstones, handed, view>>

-----------------------------------------------------------------------------
(* Rooms. *)

(* handle_create_room, before the guard; a name it refuses changes nothing. *)
Create(c, k, a, n, p, public) ==
    /\ Normalize(n) # None
    /\ Enter(c, [Idle EXCEPT !.at = "create", !.key = k, !.id = a,
                             !.name = Normalize(n), !.parent = p, !.flag = public])
    /\ UNCHANGED <<tables, cache, locks>> /\ SameRest

(* Under the guard: the parent, the name, the row. *)
CreateRow(c) ==
    LET q == task[c] IN
    /\ q.at = "create" /\ mutation = None
    /\ IF (q.parent # None => Authorized(q.parent, q.key))
          /\ ~Conflicts(q.name, None)
       THEN \E r \in Rooms \ used :
              /\ rooms' = [rooms EXCEPT ![r] =
                     [name |-> q.name, parent |-> q.parent, creator |-> q.id,
                      owner |-> q.key, public |-> q.flag]]
              /\ used' = used \cup {r}
              /\ mutation' = c
              /\ task' = [task EXCEPT ![c].at = "publish", ![c].room = r]
       ELSE Finish(c) /\ UNCHANGED <<rooms, used, mutation>>
    /\ UNCHANGED <<invites, made, apiKeys, table, cache, lifecycle>> /\ SameRest

(* handle_rename_room, before the guard. *)
Rename(c, k, a, r, n) ==
    /\ Normalize(n) # None /\ MayMutate(r, k, a)
    /\ Enter(c, [Idle EXCEPT !.at = "rename", !.key = k, !.id = a, !.room = r,
                             !.name = Normalize(n)])
    /\ UNCHANGED <<tables, cache, locks>> /\ SameRest

(* Mutant: the guard is dropped before the room is published. *)
RenameRowUnguarded(c) ==
    LET q == task[c] IN
    /\ q.at = "rename" /\ mutation = None
    /\ IF ~Conflicts(q.name, q.room) /\ MayMutate(q.room, q.key, q.id)
       THEN /\ rooms' = [rooms EXCEPT ![q.room].name = q.name]
            /\ task' = [task EXCEPT ![c].at = "publish", ![c].row =
                            [rooms[q.room] EXCEPT !.name = q.name]]
       ELSE Finish(c) /\ UNCHANGED rooms
    /\ UNCHANGED <<used, invites, made, apiKeys, table, cache, locks>>
    /\ SameRest

(* Under the guard: the name, and the row with its checks once more. *)
RenameRow(c) ==
    LET q == task[c] IN
    /\ q.at = "rename" /\ mutation = None
    /\ IF ~Conflicts(q.name, q.room) /\ MayMutate(q.room, q.key, q.id)
       THEN /\ rooms' = [rooms EXCEPT ![q.room].name = q.name]
            /\ mutation' = c
            /\ Step(c, "publish")
       ELSE Finish(c) /\ UNCHANGED <<rooms, mutation>>
    /\ UNCHANGED <<used, invites, made, apiKeys, table, cache, lifecycle>>
    /\ SameRest

(* broadcast_visible_room_event: RoomCreated or RoomUpdated with the row   *)
(* that was written, to whoever may see the room; the guard is dropped.    *)
Publish(c) ==
    LET q == task[c]
        row == IF q.row = NoRow THEN rooms[q.room] ELSE q.row
    IN
    /\ q.at = "publish"
    /\ view' = [kr \in Keys \X Rooms |->
           IF kr[2] = q.room /\ kr[1] \in Clients /\ CanAccess(row, q.room, kr[1])
           THEN row.name ELSE view[kr]]
    /\ mutation' = IF mutation = c THEN None ELSE mutation
    /\ Finish(c)
    /\ UNCHANGED <<tables, cache, lifecycle, tombstones, handed>>

(* Mutant: no snapshot. *)
DestroyUntold(c, k, a, r) ==
    /\ mutation = None
    /\ mutation' = c
    /\ Enter(c, [Idle EXCEPT !.at = "delete", !.key = k, !.id = a, !.room = r])
    /\ UNCHANGED <<tables, cache, lifecycle>> /\ SameRest

(* handle_destroy_room takes the guard and a snapshot of the granted keys. *)
Destroy(c, k, a, r) ==
    /\ mutation = None
    /\ mutation' = c
    /\ Enter(c, [Idle EXCEPT !.at = "delete", !.key = k, !.id = a, !.room = r,
                             !.snap = {g \in Keys : <<g, r>> \in cache}])
    /\ UNCHANGED <<tables, cache, lifecycle>> /\ SameRest

(* destroy_room_authorized within destroy_room_with: the row, the parent   *)
(* of its children, its invites and grants, in one transaction.            *)
DestroyRow(c) ==
    LET q == task[c] IN
    /\ q.at = "delete" /\ lifecycle = None
    /\ IF MayMutate(q.room, q.key, q.id)
       THEN /\ rooms' = [r \in Rooms |->
                   IF r = q.room THEN NoRow
                   ELSE IF rooms[r].parent = q.room
                        THEN [rooms[r] EXCEPT !.parent = None] ELSE rooms[r]]
            /\ invites' = [t \in Tokens |->
                   IF invites[t].room = q.room THEN NoInvite ELSE invites[t]]
            /\ table' = {g \in table : g[2] # q.room}
            /\ lifecycle' = c
            /\ task' = [task EXCEPT ![c].at = "purge", ![c].row = rooms[q.room]]
            /\ UNCHANGED mutation
       ELSE /\ Finish(c) /\ mutation' = None
            /\ UNCHANGED <<rooms, invites, table, lifecycle>>
    /\ UNCHANGED <<used, made, apiKeys, cache>> /\ SameRest

(* ... and, the database connection given back, the cache; the tombstone. *)
DestroyPurge(c) ==
    LET q == task[c] IN
    /\ q.at = "purge"
    /\ cache' = {g \in cache : g[2] # q.room}
    /\ tombstones' = tombstones \cup {q.room}
    /\ lifecycle' = None
    /\ Step(c, "farewell")
    /\ UNCHANGED <<tables, mutation, handed, view>>

(* broadcast_room_destroyed *)
Farewell(c) ==
    LET q == task[c] IN
    /\ q.at = "farewell"
    /\ view' = [kr \in Keys \X Rooms |->
           IF /\ kr[2] = q.room /\ kr[1] \in Clients
              /\ AccessByRow(q.row, kr[1]) \/ kr[1] \in q.snap
           THEN Gone ELSE view[kr]]
    /\ mutation' = None
    /\ Finish(c)
    /\ UNCHANGED <<tables, cache, lifecycle, tombstones, handed>>

-----------------------------------------------------------------------------
(* Invites. *)

(* handle_create_invite: the room is authorized ... *)
Invite(c, k, r, single) ==
    /\ Authorized(r, k)
    /\ Enter(c, [Idle EXCEPT !.at = "invite", !.key = k, !.room = r,
                             !.flag = single])
    /\ UNCHANGED <<tables, cache, locks>> /\ SameRest

(* ... the invite is stored ... *)
InviteRow(c) ==
    LET q == task[c] IN
    /\ q.at = "invite"
    /\ \E t \in Tokens \ made :
        /\ invites' = [invites EXCEPT ![t] = [room |-> q.room, by |-> q.key,
                           single |-> q.flag, revoked |-> FALSE,
                           told |-> FALSE]]
        /\ made' = made \cup {t}
        /\ task' = [task EXCEPT ![c].at = "check", ![c].token = t]
    /\ UNCHANGED <<rooms, used, apiKeys, table, cache, locks>> /\ SameRest

(* Mutant: the token is answered without a second look at the room. *)
InviteCheckNot(c) ==
    /\ task[c].at = "check"
    /\ invites' = [invites EXCEPT ![task[c].token].told = TRUE]
    /\ Finish(c)
    /\ UNCHANGED <<rooms, used, made, apiKeys, table, cache, locks>> /\ SameRest

(* ... and unless the room was destroyed meanwhile, its token is answered. *)
InviteCheck(c) ==
    LET q == task[c] IN
    /\ q.at = "check" /\ lifecycle = None
    /\ IF q.room \in tombstones
       THEN /\ invites' = [t \in Tokens |->
                   IF invites[t].room = q.room THEN NoInvite ELSE invites[t]]
            /\ table' = {g \in table : g[2] # q.room}
            /\ Step(c, "sweep")
       ELSE /\ invites' = IF invites[q.token] = NoInvite THEN invites
                          ELSE [invites EXCEPT ![q.token].told = TRUE]
            /\ Finish(c) /\ UNCHANGED table
    /\ UNCHANGED <<rooms, used, made, apiKeys, cache, locks>> /\ SameRest

(* delete_room_artifacts purges the cache as well. *)
Sweep(c) ==
    /\ task[c].at = "sweep"
    /\ cache' = {g \in cache : g[2] # task[c].room}
    /\ Finish(c)
    /\ UNCHANGED <<tables, locks>> /\ SameRest

(* A token somebody holds: one that its creator was answered. *)
Held(t) == invites[t].told

(* handle_revoke_invite: by the invite's creator or the room's owner. *)
Revoke(c, k, t) ==
    /\ Held(t)
    /\ \/ invites[t].by = k
       \/ Exists(invites[t].room) /\ MatchesOwner(rooms[invites[t].room], k)
    /\ Enter(c, [Idle EXCEPT !.at = "revoke", !.key = k, !.room = invites[t].room,
                             !.name = t])
    /\ UNCHANGED <<tables, cache, locks>> /\ SameRest

RevokeRow(c) ==
    LET t == task[c].name IN
    /\ task[c].at = "revoke"
    /\ invites' = IF invites[t] = NoInvite THEN invites
                  ELSE [invites EXCEPT ![t].revoked = TRUE]
    /\ Finish(c)
    /\ UNCHANGED <<rooms, used, made, apiKeys, table, cache, locks>> /\ SameRest

(* Mutant: the invite is read first and spent by the step that follows. *)
RedeemUnspent(c, t) ==
    /\ Held(t) /\ ~invites[t].revoked
    /\ Enter(c, [Idle EXCEPT !.at = "redeem", !.room = invites[t].room])
    /\ UNCHANGED <<tables, cache, locks>> /\ SameRest

(* Store::redeem_invite: one transaction, which a single use revokes. *)
Redeem(c, t) ==
    /\ Held(t) /\ ~invites[t].revoked
    /\ invites' = [invites EXCEPT ![t].revoked = invites[t].single]
    /\ Enter(c, [Idle EXCEPT !.at = "redeem", !.room = invites[t].room])
    /\ UNCHANGED <<rooms, used, made, apiKeys, table, cache, locks>> /\ SameRest

(* web.rs, redeem_invite, goes on: the room, ... *)
RedeemRoom(c) ==
    /\ task[c].at = "redeem"
    /\ IF Exists(task[c].room) THEN Step(c, "mint") ELSE Finish(c)
    /\ UNCHANGED <<tables, cache, locks>> /\ SameRest

(* ... a new key, or a database error, ... *)
RedeemKey(c) ==
    /\ task[c].at = "mint"
    /\ \/ \E k \in Keys \ apiKeys :
            /\ apiKeys' = apiKeys \cup {k}
            /\ task' = [task EXCEPT ![c].at = "grant", ![c].key = k]
       \/ Finish(c) /\ UNCHANGED apiKeys
    /\ UNCHANGED <<rooms, used, invites, made, table, cache, locks>> /\ SameRest

(* Mutant: the grant is not written to the table. *)
GrantRowNot(c) ==
    /\ task[c].at = "grant"
    /\ Step(c, "cached")
    /\ UNCHANGED <<tables, cache, locks>> /\ SameRest

(* ... its grant in the table, or a database error, ... *)
GrantRow(c) ==
    LET q == task[c] IN
    /\ q.at = "grant"
    /\ \/ table' = table \cup {<<q.key, q.room>>} /\ Step(c, "cached")
       \/ Finish(c) /\ UNCHANGED table
    /\ UNCHANGED <<rooms, used, invites, made, apiKeys, cache, locks>> /\ SameRest

(* ... and in the cache; the key is answered. *)
GrantCache(c) ==
    LET q == task[c] IN
    /\ q.at = "cached"
    /\ cache' = cache \cup {<<q.key, q.room>>}
    /\ handed' = handed \cup {<<q.key, q.room>>}
    /\ Finish(c)
    /\ UNCHANGED <<tables, locks, tombstones, view>>

(* create_api_key over HTTP: a key without any grant. *)
Signup(k) ==
    /\ k \notin apiKeys
    /\ apiKeys' = apiKeys \cup {k}
    /\ UNCHANGED <<rooms, used, invites, made, table, cache, locks, task>>
    /\ SameRest

(* The tables stay; the cache is read from them; clients list anew. *)
Restart ==
    /\ task' = [c \in Tasks |-> Idle]
    /\ cache' = table
    /\ mutation' = None /\ lifecycle' = None /\ tombstones' = {}
    /\ view' = [kr \in Keys \X Rooms |-> None]
    /\ UNCHANGED <<tables, handed>>

Next ==
    \/ \E c \in Tasks :
        \/ \E k \in Clients :
            \/ \E a \in Ids :
                \/ \E n \in Names, p \in Rooms \cup {None}, b \in BOOLEAN :
                        Create(c, k, a, n, p, b)
                \/ \E r \in Rooms, n \in Names : Rename(c, k, a, r, n)
                \/ \E r \in Rooms : Destroy(c, k, a, r)
            \/ \E r \in Rooms, b \in BOOLEAN : Invite(c, k, r, b)
            \/ \E t \in Tokens : Revoke(c, k, t)
        \/ \E t \in Tokens : Redeem(c, t)
        \/ CreateRow(c) \/ RenameRow(c) \/ Publish(c)
        \/ DestroyRow(c) \/ DestroyPurge(c) \/ Farewell(c)
        \/ InviteRow(c) \/ InviteCheck(c) \/ Sweep(c) \/ RevokeRow(c)
        \/ RedeemRoom(c) \/ RedeemKey(c) \/ GrantRow(c) \/ GrantCache(c)
    \/ \E k \in Keys : Signup(k)
    \/ Restart

Spec == Init /\ [][Next]_vars

-----------------------------------------------------------------------------
(* list_rooms_for_key of the web API, from the table, and ListRooms of an  *)
(* agent, from the cache.                                                  *)
WebListing(k) ==
    {r \in Rooms : Exists(r) /\ (AccessByRow(rooms[r], k) \/ <<k, r>> \in table)}
AgentListing(k) == {r \in Rooms : Authorized(r, k)}

(* The web API and the agents' protocol show a client the same rooms at    *)
(* any moment after its key was answered, and the room it was invited to   *)
(* for as long as there is one, across restarts: the cache of grants       *)
(* follows the table although every change of them is two steps, and "the  *)
(* grant must be durable before the key is handed out" (web.rs:420).       *)
HandedKeysOpen ==
    /\ \A k \in Clients : WebListing(k) = AgentListing(k)
    /\ \A h \in handed : Exists(h[2]) => h[2] \in AgentListing(h[1])

(* A token that was answered to somebody never belongs to a room that is   *)
(* gone, although handle_create_invite stores it without a lock            *)
(* (handler.rs:2530).                                                      *)
NoInviteToTheDead == \A t \in Tokens : Held(t) => Exists(invites[t].room)

(* What a client last heard of a room is what the room is, as soon as no   *)
(* change is being published: a stale update never overtakes a later one   *)
(* or the end of the room (handler.rs:618), and invited clients are told.  *)
HeardLast ==
    mutation = None =>
        \A k \in Clients, r \in Rooms :
            \/ view[<<k, r>>] = None
            \/ view[<<k, r>>] = IF Exists(r) THEN rooms[r].name ELSE Gone

-----------------------------------------------------------------------------
(* The refinement mapping to RoomAccess. *)
OnTheWay == {"redeem", "mint", "grant", "cached"}

SeatOf(t) ==
    IF t \notin made THEN [kind |-> "unmade", room |-> None]
    ELSE IF invites[t].revoked \/ ~Exists(invites[t].room)
         THEN [kind |-> "spent", room |-> None]
         ELSE [kind |-> IF invites[t].single THEN "once" ELSE "many",
               room |-> invites[t].room]

OpenRooms == {r \in Rooms : Exists(r)}
Guests == {g \in cache : Exists(g[2])}
Seats == [t \in Tokens |-> SeatOf(t)]
ArrivingAt(q) ==
    IF q.at \in OnTheWay /\ Exists(q.room) THEN q.room ELSE None
Arriving == [c \in Tasks |-> ArrivingAt(task[c])]

Access == INSTANCE RoomAccess WITH
    open <- OpenRooms, guests <- Guests, seat <- Seats, arriving <- Arriving

(* The server implements RoomAccess. *)
AccessSpec == Access!Spec
=============================================================================

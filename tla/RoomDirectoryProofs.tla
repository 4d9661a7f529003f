------------------------ MODULE RoomDirectoryProofs ------------------------
(***************************************************************************)
(* Proofs about the rooms, invites and grants of a server, for any number  *)
(* of requests, rooms, tokens, keys and names, and that the server         *)
(* implements RoomAccess.                                                  *)
(***************************************************************************)
EXTENDS RoomDirectory, TLAPS

-----------------------------------------------------------------------------
(* First layer: types, and what a request knows by the step it is at.      *)

(* What a request is about exists, or has existed. *)
Settled(q, u, m, a) ==
    /\ q.at = "create" => q.name \in Names /\ q.key \in Keys
    /\ q.at = "rename" => q.name \in Names
    /\ q.at = "revoke" => q.name \in Tokens
    /\ q.at = "delete" => q.room \in Rooms
    /\ q.at \in {"rename", "publish", "purge", "farewell", "invite", "check",
                 "sweep", "redeem", "mint", "grant", "cached"} => q.room \in u
    /\ q.at = "check" => q.token \in m
    /\ q.at = "invite" => q.key \in Keys
    /\ q.at \in {"grant", "cached"} => q.key \in a

(* Grants and invites are for rooms that were created. *)
RoomsUsed ==
    /\ \A t \in Tokens : invites[t] # NoInvite => invites[t].room \in used
    /\ \A g \in table \cup cache \cup handed : g[2] \in used

Shape ==
    /\ TypeOK
    /\ \A c \in Tasks : Settled(task[c], used, made, apiKeys)
    /\ RoomsUsed

(* A request that moves on, and leaves the others where they are. *)
Moves(c, q) ==
    /\ task'[c] = q
    /\ \A d \in Tasks \ {c} : task'[d] = task[d]
    /\ task' \in [Tasks -> Requests]

LEMMA Constants ==
    /\ None \notin Rooms /\ None \notin Tokens /\ None \notin Keys /\ None \notin Names
    /\ None \notin Tasks /\ None \notin Ids /\ LobbyName # None
    /\ Lobby \in Rooms /\ Members \subseteq Keys
BY DirectoryAssumption

LEMMA IdleType == Idle \in Requests /\ Idle.at = "idle"
BY DEF Idle, Requests, PCs

LEMMA EnterMoves ==
    ASSUME Shape, NEW c \in Tasks, NEW q \in Requests, Enter(c, q)
    PROVE  Moves(c, q) /\ task[c] = Idle
BY DEF Enter, Moves, Shape, TypeOK

LEMMA FinishMoves ==
    ASSUME Shape, NEW c \in Tasks, Finish(c)
    PROVE  Moves(c, Idle)
BY IdleType DEF Finish, Moves, Shape, TypeOK

LEMMA StepMoves ==
    ASSUME Shape, NEW c \in Tasks, NEW p \in PCs, Step(c, p)
    PROVE  \E q \in Requests :
             /\ Moves(c, q) /\ q.at = p
             /\ q.key = task[c].key /\ q.room = task[c].room
             /\ q.name = task[c].name /\ q.token = task[c].token
             /\ q.snap = task[c].snap /\ q.row = task[c].row
<1> DEFINE q == [task[c] EXCEPT !.at = p]
<1>1. task \in [Tasks -> Requests] /\ task[c] \in Requests
  BY DEF Shape, TypeOK
<1>2. /\ q \in Requests /\ q.at = p /\ q.key = task[c].key /\ q.room = task[c].room
      /\ q.name = task[c].name /\ q.token = task[c].token
      /\ q.snap = task[c].snap /\ q.row = task[c].row
  BY <1>1 DEF Requests
<1>3. task' = [task EXCEPT ![c] = q]
  BY DEF Step
<1> HIDE DEF q
<1>4. Moves(c, q)
  BY <1>1, <1>2, <1>3 DEF Moves
<1> QED BY <1>2, <1>4

(* What a step of one request has to leave true for the types to stay. *)
LEMMA ShapeMoves ==
    ASSUME Shape, NEW c \in Tasks, NEW q \in Requests, Moves(c, q),
           rooms' \in [Rooms -> Rows \cup {NoRow}],
           used \subseteq used', used' \subseteq Rooms,
           made \subseteq made', made' \subseteq Tokens,
           apiKeys \subseteq apiKeys', apiKeys' \subseteq Keys,
           \A r \in Rooms : Exists(r)' => r \in used',
           invites' \in [Tokens -> Invites \cup {NoInvite}],
           \A t \in Tokens : invites'[t] # NoInvite =>
                                 t \in made' /\ invites'[t].room \in used',
           table' \subseteq apiKeys' \X Rooms, cache' \subseteq apiKeys' \X Rooms,
           handed' \subseteq apiKeys' \X Rooms,
           \A g \in table' \cup cache' \cup handed' : g[2] \in used',
           mutation' \in Tasks \cup {None}, lifecycle' \in Tasks \cup {None},
           \A d \in Tasks \ {c} : (mutation' = d <=> mutation = d)
                                  /\ (lifecycle' = d <=> lifecycle = d),
           mutation' = c <=> q.at \in Guarded, lifecycle' = c <=> q.at = "purge",
           tombstones' \subseteq used',
           view' \in [Keys \X Rooms -> Names \cup {LobbyName, None, Gone}],
           Settled(q, used', made', apiKeys')
    PROVE  Shape'
<1>1. ASSUME NEW d \in Tasks
      PROVE  /\ Settled(task'[d], used', made', apiKeys')
             /\ mutation' = d <=> task'[d].at \in Guarded
             /\ lifecycle' = d <=> task'[d].at = "purge"
  <2>1. CASE d = c
    BY <2>1 DEF Moves
  <2>2. CASE d # c
    <3>1. task'[d] = task[d]
      BY <2>2 DEF Moves
    <3>2. /\ Settled(task[d], used, made, apiKeys)
          /\ mutation = d <=> task[d].at \in Guarded
          /\ lifecycle = d <=> task[d].at = "purge"
      BY DEF Shape, TypeOK
    <3>3. Settled(task[d], used', made', apiKeys')
      BY <3>2 DEF Settled
    <3> QED BY <2>2, <3>1, <3>2, <3>3
  <2> QED BY <2>1, <2>2
<1>2. RoomsUsed'
  BY DEF RoomsUsed
<1>3. TypeOK'
  BY <1>1 DEF TypeOK, Moves
<1> QED BY <1>1, <1>2, <1>3 DEF Shape

LEMMA InitShape == Init => Shape
<1> SUFFICES ASSUME Init PROVE Shape
  OBVIOUS
<1> USE DirectoryAssumption DEF Init
<1>1. rooms \in [Rooms -> Rows \cup {NoRow}]
  BY DEF Rows, LobbyRow
<1>2. \A r \in Rooms : Exists(r) => r \in used
  BY DEF Exists
<1>3. \A c \in Tasks : task[c] = Idle
  OBVIOUS
<1>4. task \in [Tasks -> Requests]
  BY IdleType
<1>5. \A c \in Tasks : /\ mutation # c /\ lifecycle # c
                       /\ task[c].at \notin Guarded /\ task[c].at # "purge"
                       /\ Settled(task[c], used, made, apiKeys)
  BY <1>3, IdleType DEF Guarded, Settled
<1>6. TypeOK
  BY <1>1, <1>2, <1>4, <1>5 DEF TypeOK
<1>7. RoomsUsed
  BY DEF RoomsUsed
<1> QED BY <1>5, <1>6, <1>7 DEF Shape

(* Steps that only take up or move a request. *)
LEMMA ShapeKeeps ==
    ASSUME Shape, NEW c \in Tasks, NEW q \in Requests, Moves(c, q),
           UNCHANGED <<tables, cache, tombstones, handed, view>>,
           mutation' \in Tasks \cup {None}, lifecycle' \in Tasks \cup {None},
           \A d \in Tasks \ {c} : (mutation' = d <=> mutation = d)
                                  /\ (lifecycle' = d <=> lifecycle = d),
           mutation' = c <=> q.at \in Guarded, lifecycle' = c <=> q.at = "purge",
           Settled(q, used, made, apiKeys)
    PROVE  Shape'
<1>1. /\ UNCHANGED <<rooms, used, invites, made, apiKeys, table, cache, tombstones,
                     handed, view>>
      /\ Exists(Lobby)' \in BOOLEAN /\ \A r \in Rooms : Exists(r)' <=> Exists(r)
  BY DEF tables, Exists
<1> QED BY <1>1, ShapeMoves DEF Shape, TypeOK, RoomsUsed

(* Where a request that is not under a mutex may go. *)
LEMMA Unguarded ==
    ASSUME Shape, NEW c \in Tasks, task[c].at \notin Guarded
    PROVE  mutation # c /\ lifecycle # c
BY DEF Shape, TypeOK, Guarded

LEMMA ClientKeys == Shape => Clients \subseteq Keys /\ Clients \subseteq apiKeys \cup Members
<1> QED BY Constants DEF Shape, TypeOK, Clients

(* A request that is taken up without a mutex, and nothing else. *)
LEMMA EnterShape ==
    ASSUME Shape, NEW c \in Tasks, NEW q \in Requests, Enter(c, q),
           q.at \notin Guarded, Settled(q, used, made, apiKeys),
           UNCHANGED <<tables, cache, locks, tombstones, handed, view>>
    PROVE  Shape'
<1>1. Moves(c, q) /\ task[c] = Idle
  BY EnterMoves
<1>2. mutation # c /\ lifecycle # c
  BY <1>1, IdleType, Unguarded DEF Guarded
<1>3. UNCHANGED <<mutation, lifecycle>> /\ q.at # "purge"
  BY DEF locks, Guarded
<1> QED BY <1>1, <1>2, <1>3, ShapeKeeps DEF Shape, TypeOK

(* What each request starts with. *)
LEMMA CreateEnters ==
    ASSUME Shape, NEW c \in Tasks, NEW k \in Clients, NEW a \in Ids, NEW n \in Names,
           NEW p \in Rooms \cup {None}, NEW b \in BOOLEAN, Create(c, k, a, n, p, b)
    PROVE  \E q \in Requests : /\ Enter(c, q) /\ q.at = "create"
                               /\ q.name \in Names /\ q.key = k /\ k \in Keys
                               /\ q.row = NoRow
<1> DEFINE q == [Idle EXCEPT !.at = "create", !.key = k, !.id = a,
                             !.name = Normalize(n), !.parent = p, !.flag = b]
<1>1. Normalize(n) \in Names /\ k \in Keys
  BY ClientKeys, DirectoryAssumption DEF Create, Normalize
<1>2. /\ q \in Requests /\ q.at = "create" /\ q.name \in Names /\ q.key = k
      /\ q.row = NoRow
  BY <1>1 DEF Idle, Requests, PCs
<1> QED BY <1>1, <1>2 DEF Create

LEMMA RenameEnters ==
    ASSUME Shape, NEW c \in Tasks, NEW k \in Clients, NEW a \in Ids, NEW r \in Rooms,
           NEW n \in Names, Rename(c, k, a, r, n)
    PROVE  \E q \in Requests : /\ Enter(c, q) /\ q.at = "rename"
                               /\ q.room = r /\ Exists(r) /\ q.name \in Names
                               /\ q.row = NoRow
<1> DEFINE q == [Idle EXCEPT !.at = "rename", !.key = k, !.id = a, !.room = r,
                             !.name = Normalize(n)]
<1>1. Normalize(n) \in Names /\ k \in Keys /\ Exists(r)
  BY ClientKeys, DirectoryAssumption DEF Rename, Normalize, MayMutate
<1>2. /\ q \in Requests /\ q.at = "rename" /\ q.name \in Names /\ q.room = r
      /\ q.row = NoRow
  BY <1>1 DEF Idle, Requests, PCs
<1> QED BY <1>1, <1>2 DEF Rename

LEMMA DestroyEnters ==
    ASSUME Shape, NEW c \in Tasks, NEW k \in Clients, NEW a \in Ids, NEW r \in Rooms,
           Destroy(c, k, a, r)
    PROVE  \E q \in Requests : /\ Enter(c, q) /\ q.at = "delete" /\ q.room = r
                               /\ q.snap = {g \in Keys : <<g, r>> \in cache}
<1> DEFINE q == [Idle EXCEPT !.at = "delete", !.key = k, !.id = a, !.room = r,
                             !.snap = {g \in Keys : <<g, r>> \in cache}]
<1>1. k \in Keys
  BY ClientKeys
<1>2. /\ q \in Requests /\ q.at = "delete" /\ q.room = r
      /\ q.snap = {g \in Keys : <<g, r>> \in cache}
  BY <1>1 DEF Idle, Requests, PCs
<1> QED BY <1>1, <1>2 DEF Destroy

LEMMA InviteEnters ==
    ASSUME Shape, NEW c \in Tasks, NEW k \in Clients, NEW r \in Rooms, NEW b \in BOOLEAN,
           Invite(c, k, r, b)
    PROVE  \E q \in Requests : /\ Enter(c, q) /\ q.at = "invite" /\ q.room = r
                               /\ Exists(r) /\ q.key \in Keys
<1> DEFINE q == [Idle EXCEPT !.at = "invite", !.key = k, !.room = r, !.flag = b]
<1>1. k \in Keys /\ Exists(r)
  BY ClientKeys DEF Invite, Authorized
<1>2. q \in Requests /\ q.at = "invite" /\ q.room = r /\ q.key = k
  BY <1>1 DEF Idle, Requests, PCs
<1> QED BY <1>1, <1>2 DEF Invite

LEMMA RevokeEnters ==
    ASSUME Shape, NEW c \in Tasks, NEW k \in Clients, NEW t \in Tokens, Revoke(c, k, t)
    PROVE  \E q \in Requests : Enter(c, q) /\ q.at = "revoke" /\ q.name = t
<1> DEFINE q == [Idle EXCEPT !.at = "revoke", !.key = k, !.room = invites[t].room,
                             !.name = t]
<1>1. k \in Keys /\ invites[t].room \in Rooms \cup {None}
  BY ClientKeys DEF Shape, TypeOK, Invites, NoInvite
<1>2. q \in Requests /\ q.at = "revoke" /\ q.name = t
  BY <1>1 DEF Idle, Requests, PCs
<1> QED BY <1>1, <1>2 DEF Revoke

LEMMA RedeemEnters ==
    ASSUME Shape, NEW c \in Tasks, NEW t \in Tokens, Redeem(c, t)
    PROVE  /\ invites[t] \in Invites /\ invites[t].room \in used
           /\ \E q \in Requests : /\ Enter(c, q) /\ q.at = "redeem"
                                   /\ q.room = invites[t].room
<1> DEFINE q == [Idle EXCEPT !.at = "redeem", !.room = invites[t].room]
<1>1. invites[t] # NoInvite
  BY DEF Redeem, Held, NoInvite
<1>2. invites[t] \in Invites /\ invites[t].room \in used /\ invites[t].room \in Rooms
  BY <1>1 DEF Shape, TypeOK, RoomsUsed
<1>3. q \in Requests /\ q.at = "redeem" /\ q.room = invites[t].room
  BY <1>2 DEF Idle, Requests, PCs
<1> QED BY <1>2, <1>3 DEF Redeem

LEMMA TakeUpShape ==
    ASSUME Shape, NEW c \in Tasks, NEW k \in Clients,
           \/ \E a \in Ids :
                \/ \E n \in Names, p \in Rooms \cup {None}, b \in BOOLEAN :
                       Create(c, k, a, n, p, b)
                \/ \E r \in Rooms, n \in Names : Rename(c, k, a, r, n)
           \/ \E r \in Rooms, b \in BOOLEAN : Invite(c, k, r, b)
           \/ \E t \in Tokens : Revoke(c, k, t)
    PROVE  Shape'
<1>1. PICK q \in Requests :
        /\ Enter(c, q) /\ q.at \in {"create", "rename", "invite", "revoke"}
        /\ q.at = "create" => q.name \in Names /\ q.key \in Keys
        /\ q.at = "rename" => q.name \in Names /\ q.room \in Rooms /\ Exists(q.room)
        /\ q.at = "invite" => q.key \in Keys /\ q.room \in Rooms /\ Exists(q.room)
        /\ q.at = "revoke" => q.name \in Tokens
  <2>1. CASE \E a \in Ids, n \in Names, p \in Rooms \cup {None}, b \in BOOLEAN :
               Create(c, k, a, n, p, b)
    BY <2>1, CreateEnters
  <2>2. CASE \E a \in Ids, r \in Rooms, n \in Names : Rename(c, k, a, r, n)
    BY <2>2, RenameEnters
  <2>3. CASE \E r \in Rooms, b \in BOOLEAN : Invite(c, k, r, b)
    BY <2>3, InviteEnters
  <2>4. CASE \E t \in Tokens : Revoke(c, k, t)
    BY <2>4, RevokeEnters
  <2> QED BY <2>1, <2>2, <2>3, <2>4
<1>2. UNCHANGED <<tables, cache, locks, tombstones, handed, view>>
  BY DEF Create, Rename, Invite, Revoke, SameRest
<1>3. Settled(q, used, made, apiKeys) /\ q.at \notin Guarded
  BY <1>1 DEF Settled, Guarded, Shape, TypeOK
<1> QED BY <1>1, <1>2, <1>3, EnterShape

LEMMA DestroyShape ==
    ASSUME Shape, NEW c \in Tasks, NEW k \in Clients, NEW a \in Ids, NEW r \in Rooms,
           Destroy(c, k, a, r)
    PROVE  Shape'
<1>1. PICK q \in Requests : Enter(c, q) /\ q.at = "delete" /\ q.room = r
  BY DestroyEnters
<1>2. /\ UNCHANGED <<tables, cache, lifecycle, tombstones, handed, view>>
      /\ mutation = None /\ mutation' = c
  BY DEF Destroy, SameRest
<1>3. Moves(c, q) /\ task[c] = Idle
  BY <1>1, EnterMoves
<1>4. lifecycle # c /\ \A d \in Tasks \ {c} : mutation # d /\ mutation' # d
  BY <1>2, <1>3, IdleType, Unguarded, Constants DEF Guarded
<1>5. Settled(q, used, made, apiKeys) /\ q.at \in Guarded /\ q.at # "purge"
  BY <1>1 DEF Settled, Guarded
<1> QED BY <1>2, <1>3, <1>4, <1>5, ShapeKeeps DEF Shape, TypeOK

LEMMA CreateRowShape ==
    ASSUME Shape, NEW c \in Tasks, CreateRow(c)
    PROVE  Shape'
<1> USE DirectoryAssumption
<1> DEFINE q == task[c]
           fits == /\ q.parent # None => Authorized(q.parent, q.key)
                   /\ ~Conflicts(q.name, None)
<1>1. /\ q \in Requests /\ q.at = "create" /\ mutation = None
      /\ q.name \in Names /\ q.key \in Keys
      /\ UNCHANGED <<invites, made, apiKeys, table, cache, lifecycle, tombstones,
                     handed, view>>
  BY DEF CreateRow, Shape, TypeOK, Settled, SameRest
<1>2. mutation # c /\ lifecycle # c
  BY <1>1, Unguarded DEF Guarded
<1>3. CASE fits
  <2>1. PICK r \in Rooms \ used :
          /\ rooms' = [rooms EXCEPT ![r] =
                 [name |-> q.name, parent |-> q.parent, creator |-> q.id,
                  owner |-> q.key, public |-> q.flag]]
          /\ used' = used \cup {r}
          /\ mutation' = c
          /\ task' = [task EXCEPT ![c].at = "publish", ![c].room = r]
    BY <1>3 DEF CreateRow
  <2> DEFINE s == [q EXCEPT !.at = "publish", !.room = r]
  <2>2. s \in Requests /\ s.at = "publish" /\ s.room = r
    BY <1>1 DEF Requests, PCs
  <2>3. task' = [task EXCEPT ![c] = s]
    BY <2>1
  <2> HIDE DEF s
  <2>4. Moves(c, s)
    BY <2>2, <2>3 DEF Moves, Shape, TypeOK
  <2>5. [name |-> q.name, parent |-> q.parent, creator |-> q.id,
         owner |-> q.key, public |-> q.flag] \in Rows
    BY <1>1 DEF Requests, Rows
  <2>6. /\ rooms' \in [Rooms -> Rows \cup {NoRow}]
        /\ \A x \in Rooms : Exists(x)' => x \in used'
    BY <2>1, <2>5 DEF Shape, TypeOK, Exists
  <2>7. Settled(s, used', made', apiKeys') /\ s.at \in Guarded /\ s.at # "purge"
    BY <2>1, <2>2 DEF Settled, Guarded
  <2>8. used \subseteq used' /\ used' \subseteq Rooms /\ mutation' = c
    BY <2>1 DEF Shape, TypeOK
  <2> HIDE DEF q, fits
  <2> QED BY <1>1, <1>2, <2>2, <2>4, <2>6, <2>7, <2>8, ShapeMoves
          DEF Shape, TypeOK, RoomsUsed
<1>4. CASE ~fits
  <2>1. Finish(c) /\ UNCHANGED <<rooms, used, mutation>>
    BY <1>4 DEF CreateRow
  <2> HIDE DEF fits
  <2>2. Moves(c, Idle)
    BY <2>1, FinishMoves
  <2>3. Settled(Idle, used, made, apiKeys) /\ Idle.at \notin Guarded /\ Idle.at # "purge"
    BY IdleType DEF Settled, Guarded
  <2>4. UNCHANGED <<tables, cache, tombstones, handed, view>>
    BY <1>1, <2>1 DEF tables
  <2> QED BY <1>1, <1>2, <2>1, <2>2, <2>3, <2>4, IdleType, ShapeKeeps DEF Shape, TypeOK
<1> QED BY <1>3, <1>4

(* A request that ends, and gives back the mutex it has. *)
LEMMA FinishShape ==
    ASSUME Shape, NEW c \in Tasks, Finish(c),
           UNCHANGED <<tables, cache, lifecycle, tombstones, handed, view>>,
           mutation' = IF mutation = c THEN None ELSE mutation,
           task[c].at # "purge"
    PROVE  Shape'
<1>1. Moves(c, Idle)
  BY FinishMoves
<1>2. Settled(Idle, used, made, apiKeys) /\ Idle.at \notin Guarded /\ Idle.at # "purge"
  BY IdleType DEF Settled, Guarded
<1>3. lifecycle # c /\ mutation' # c /\ mutation' \in Tasks \cup {None}
  BY Constants DEF Shape, TypeOK
<1>4. \A d \in Tasks \ {c} : mutation' = d <=> mutation = d
  BY Constants
<1> QED BY <1>1, <1>2, <1>3, <1>4, IdleType, ShapeKeeps DEF Shape, TypeOK

LEMMA RenameRowShape ==
    ASSUME Shape, NEW c \in Tasks, RenameRow(c)
    PROVE  Shape'
<1> USE DirectoryAssumption
<1> DEFINE q == task[c]
           fits == ~Conflicts(q.name, q.room) /\ MayMutate(q.room, q.key, q.id)
<1>1. /\ q \in Requests /\ q.at = "rename" /\ mutation = None /\ q.room \in used
      /\ UNCHANGED <<used, invites, made, apiKeys, table, cache, lifecycle,
                     tombstones, handed, view>>
  BY DEF RenameRow, Shape, TypeOK, Settled, SameRest
<1>2. mutation # c /\ lifecycle # c
  BY <1>1, Unguarded DEF Guarded
<1>3. CASE fits
  <2>1. rooms' = [rooms EXCEPT ![q.room].name = q.name] /\ mutation' = c
        /\ Step(c, "publish")
    BY <1>3 DEF RenameRow
  <2>2. "publish" \in PCs
    BY DEF PCs
  <2>3. PICK s \in Requests : Moves(c, s) /\ s.at = "publish" /\ s.room = q.room
    BY <2>1, <2>2, StepMoves
  <2>4. rooms[q.room] \in Rows /\ q.room \in Rooms
    BY <1>1, <1>3 DEF MayMutate, Exists, Shape, TypeOK
  <2>5. q.name \in Names
    BY <1>1 DEF Shape, Settled
  <2>6. /\ rooms' \in [Rooms -> Rows \cup {NoRow}]
        /\ \A x \in Rooms : Exists(x)' => x \in used
    <3>1. [rooms[q.room] EXCEPT !.name = q.name] \in Rows
      BY <2>4, <2>5 DEF Rows
    <3>2. rooms' = [rooms EXCEPT ![q.room] = [rooms[q.room] EXCEPT !.name = q.name]]
      BY <2>1
    <3> QED BY <1>1, <3>1, <3>2 DEF Shape, TypeOK, Exists
  <2>7. Settled(s, used', made', apiKeys') /\ s.at \in Guarded /\ s.at # "purge"
    BY <1>1, <2>3 DEF Settled, Guarded
  <2> HIDE DEF q, fits
  <2>8. /\ mutation' \in Tasks \cup {None} /\ lifecycle' \in Tasks \cup {None}
        /\ mutation' = c <=> s.at \in Guarded
        /\ lifecycle' = c <=> s.at = "purge"
        /\ \A d \in Tasks \ {c} : /\ mutation' = d <=> mutation = d
                                 /\ lifecycle' = d <=> lifecycle = d
    BY <1>1, <1>2, <2>1, <2>7, Constants DEF Shape, TypeOK
  <2>9. /\ \A t \in Tokens : invites'[t] # NoInvite =>
                                  t \in made' /\ invites'[t].room \in used'
        /\ \A g \in table' \cup cache' \cup handed' : g[2] \in used'
    BY <1>1 DEF Shape, TypeOK, RoomsUsed
  <2> QED BY <1>1, <2>3, <2>6, <2>7, <2>8, <2>9, ShapeMoves DEF Shape, TypeOK
<1>4. CASE ~fits
  <2>1. Finish(c) /\ UNCHANGED <<rooms, mutation>>
    BY <1>4 DEF RenameRow
  <2> QED BY <1>1, <1>2, <2>1, FinishShape DEF tables
<1> QED BY <1>3, <1>4

LEMMA PublishShape ==
    ASSUME Shape, NEW c \in Tasks, Publish(c)
    PROVE  Shape'
<1> USE DirectoryAssumption
<1> DEFINE q == task[c]
           row == IF q.row = NoRow THEN rooms[q.room] ELSE q.row
<1>1. /\ q \in Requests /\ q.at = "publish" /\ q.room \in used
      /\ UNCHANGED <<rooms, used, invites, made, apiKeys, table, cache, lifecycle,
                     tombstones, handed>>
  BY DEF Publish, Shape, TypeOK, Settled, tables
<1>2. mutation = c /\ lifecycle # c
  BY <1>1 DEF Guarded, Shape, TypeOK
<1>3. row.name \in Names \cup {LobbyName, None}
  <2>1. row \in Rows \cup {NoRow}
    BY <1>1 DEF Shape, TypeOK, Requests
  <2> QED BY <2>1 DEF Rows, NoRow
<1> HIDE DEF row
<1>4. view' \in [Keys \X Rooms -> Names \cup {LobbyName, None, Gone}]
  <2>1. view' = [kr \in Keys \X Rooms |->
           IF kr[2] = q.room /\ kr[1] \in Clients /\ CanAccess(row, q.room, kr[1])
           THEN row.name ELSE view[kr]]
    BY DEF Publish, row
  <2> QED BY <1>3, <2>1 DEF Shape, TypeOK
<1>5. Finish(c) /\ mutation' = None
  BY <1>2 DEF Publish
<1>6. Moves(c, Idle)
  BY <1>5, FinishMoves
<1>7. Settled(Idle, used', made', apiKeys') /\ Idle.at \notin Guarded /\ Idle.at # "purge"
  BY IdleType DEF Settled, Guarded
<1>8. \A r \in Rooms : Exists(r)' <=> Exists(r)
  BY <1>1 DEF Exists
<1> HIDE DEF q
<1> QED BY <1>1, <1>2, <1>4, <1>5, <1>6, <1>7, <1>8, IdleType, ShapeMoves
        DEF Shape, TypeOK, RoomsUsed

LEMMA DestroyRowShape ==
    ASSUME Shape, NEW c \in Tasks, DestroyRow(c)
    PROVE  Shape'
<1> USE DirectoryAssumption
<1> DEFINE q == task[c]
<1>1. /\ q \in Requests /\ q.at = "delete" /\ lifecycle = None /\ q.room \in Rooms
      /\ UNCHANGED <<used, made, apiKeys, cache, tombstones, handed, view>>
  BY DEF DestroyRow, Shape, TypeOK, Settled, SameRest
<1>2. mutation = c
  BY <1>1 DEF Guarded, Shape, TypeOK
<1>3. CASE MayMutate(q.room, q.key, q.id)
  <2>1. /\ rooms' = [r \in Rooms |->
                   IF r = q.room THEN NoRow
                   ELSE IF rooms[r].parent = q.room
                        THEN [rooms[r] EXCEPT !.parent = None] ELSE rooms[r]]
        /\ invites' = [t \in Tokens |->
                   IF invites[t].room = q.room THEN NoInvite ELSE invites[t]]
        /\ table' = {g \in table : g[2] # q.room}
        /\ lifecycle' = c
        /\ task' = [task EXCEPT ![c].at = "purge", ![c].row = rooms[q.room]]
        /\ UNCHANGED mutation
    BY <1>3 DEF DestroyRow
  <2>2. rooms[q.room] \in Rows /\ q.room \in used
    BY <1>1, <1>3 DEF MayMutate, Exists, Shape, TypeOK
  <2> DEFINE s == [q EXCEPT !.at = "purge", !.row = rooms[q.room]]
  <2>3. s \in Requests /\ s.at = "purge" /\ s.room = q.room
    BY <1>1, <2>2 DEF Requests, PCs
  <2>4. task' = [task EXCEPT ![c] = s]
    BY <2>1
  <2> HIDE DEF s
  <2>5. Moves(c, s)
    BY <2>3, <2>4 DEF Moves, Shape, TypeOK
  <2>6. ASSUME NEW r \in Rooms
        PROVE  rooms'[r] \in Rows \cup {NoRow} /\ (Exists(r)' => r \in used)
    <3>1. rooms[r] \in Rows \cup {NoRow} /\ (Exists(r) => r \in used)
      BY DEF Shape, TypeOK
    <3>2. CASE rooms[r] \in Rows
      <4>1. [rooms[r] EXCEPT !.parent = None] \in Rows /\ Exists(r)
        BY <3>2, Constants DEF Rows, Exists, NoRow
      <4> QED BY <2>1, <3>1, <3>2, <4>1 DEF Exists
    <3>3. CASE rooms[r] = NoRow
      <4>1. rooms[r].parent # q.room
        BY <3>3, <2>2 DEF NoRow, Shape, TypeOK
      <4> QED BY <2>1, <3>3, <4>1 DEF Exists
    <3> QED BY <3>1, <3>2, <3>3
  <2>7. rooms' \in [Rooms -> Rows \cup {NoRow}]
    BY <2>1, <2>6
  <2>8. /\ invites' \in [Tokens -> Invites \cup {NoInvite}]
        /\ \A t \in Tokens : invites'[t] # NoInvite => invites'[t] = invites[t]
    BY <2>1 DEF Shape, TypeOK
  <2>9. Settled(s, used', made', apiKeys') /\ s.at \in Guarded
    BY <1>1, <2>2, <2>3 DEF Settled, Guarded
  <2>10. table' \subseteq table /\ lifecycle' = c /\ mutation' = c
    BY <1>2, <2>1
  <2>11. /\ \A r \in Rooms : Exists(r)' => r \in used'
         /\ \A d \in Tasks \ {c} : (mutation' = d <=> mutation = d)
                                  /\ (lifecycle' = d <=> lifecycle = d)
         /\ \A t \in Tokens : invites'[t] # NoInvite =>
                                 t \in made' /\ invites'[t].room \in used'
    BY <1>1, <1>2, <2>6, <2>8, <2>10 DEF Shape, TypeOK, RoomsUsed
  <2>12. /\ table' \subseteq apiKeys' \X Rooms /\ cache' \subseteq apiKeys' \X Rooms
         /\ handed' \subseteq apiKeys' \X Rooms
         /\ \A g \in table' \cup cache' \cup handed' : g[2] \in used'
    BY <1>1, <2>10 DEF Shape, TypeOK, RoomsUsed
  <2>13. /\ used \subseteq used' /\ used' \subseteq Rooms
         /\ made \subseteq made' /\ made' \subseteq Tokens
         /\ apiKeys \subseteq apiKeys' /\ apiKeys' \subseteq Keys
         /\ tombstones' \subseteq used'
         /\ view' \in [Keys \X Rooms -> Names \cup {LobbyName, None, Gone}]
    BY <1>1 DEF Shape, TypeOK
  <2>14. /\ mutation' \in Tasks \cup {None} /\ lifecycle' \in Tasks \cup {None}
         /\ (mutation' = c <=> s.at \in Guarded) /\ (lifecycle' = c <=> s.at = "purge")
    BY <2>3, <2>9, <2>10
  <2> HIDE DEF q
  <2> QED BY <2>3, <2>5, <2>7, <2>8, <2>9, <2>11, <2>12, <2>13, <2>14, ShapeMoves
<1>4. CASE ~MayMutate(q.room, q.key, q.id)
  <2>1. /\ Finish(c) /\ mutation' = None
        /\ UNCHANGED <<rooms, invites, table, lifecycle>>
    BY <1>4 DEF DestroyRow
  <2> QED BY <1>1, <1>2, <2>1, FinishShape DEF tables
<1> QED BY <1>3, <1>4

LEMMA DestroyPurgeShape ==
    ASSUME Shape, NEW c \in Tasks, DestroyPurge(c)
    PROVE  Shape'
<1> USE DirectoryAssumption
<1> DEFINE q == task[c]
<1>1. /\ q.at = "purge" /\ q.room \in used
      /\ UNCHANGED <<rooms, used, invites, made, apiKeys, table, mutation, handed, view>>
      /\ cache' \subseteq cache /\ tombstones' = tombstones \cup {q.room}
      /\ lifecycle' = None /\ Step(c, "farewell")
  BY DEF DestroyPurge, Shape, Settled, tables
<1>2. mutation = c /\ lifecycle = c
  BY <1>1 DEF Guarded, Shape, TypeOK
<1>3. "farewell" \in PCs
  BY DEF PCs
<1>4. PICK s \in Requests : Moves(c, s) /\ s.at = "farewell" /\ s.room = q.room
  BY <1>1, <1>3, StepMoves
<1>5. Settled(s, used', made', apiKeys') /\ s.at \in Guarded /\ s.at # "purge"
  BY <1>1, <1>4 DEF Settled, Guarded
<1>6. \A r \in Rooms : Exists(r)' <=> Exists(r)
  BY <1>1 DEF Exists
<1> HIDE DEF q
<1> QED BY <1>1, <1>2, <1>4, <1>5, <1>6, ShapeMoves DEF Shape, TypeOK, RoomsUsed

LEMMA FarewellShape ==
    ASSUME Shape, NEW c \in Tasks, Farewell(c)
    PROVE  Shape'
<1> USE DirectoryAssumption
<1> DEFINE q == task[c]
<1>1. /\ q.at = "farewell"
      /\ UNCHANGED <<rooms, used, invites, made, apiKeys, table, cache, lifecycle,
                     tombstones, handed>>
      /\ mutation' = None /\ Finish(c)
  BY DEF Farewell, tables
<1>2. mutation = c /\ lifecycle # c
  BY <1>1 DEF Guarded, Shape, TypeOK
<1>3. view' \in [Keys \X Rooms -> Names \cup {LobbyName, None, Gone}]
  BY DEF Farewell, Shape, TypeOK
<1>4. Moves(c, Idle)
  BY <1>1, FinishMoves
<1>5. Settled(Idle, used', made', apiKeys') /\ Idle.at \notin Guarded /\ Idle.at # "purge"
  BY IdleType DEF Settled, Guarded
<1>6. \A r \in Rooms : Exists(r)' <=> Exists(r)
  BY <1>1 DEF Exists
<1> QED BY <1>1, <1>2, <1>3, <1>4, <1>5, <1>6, IdleType, ShapeMoves
        DEF Shape, TypeOK, RoomsUsed

(* Steps of a request that holds no mutex, and leaves the rooms alone. *)
LEMMA ShapeFree ==
    ASSUME Shape, NEW c \in Tasks, NEW q \in Requests, Moves(c, q),
           task[c].at \notin Guarded, q.at \notin Guarded,
           UNCHANGED <<rooms, used, mutation, lifecycle, tombstones, view>>,
           made \subseteq made', made' \subseteq Tokens,
           apiKeys \subseteq apiKeys', apiKeys' \subseteq Keys,
           invites' \in [Tokens -> Invites \cup {NoInvite}],
           \A t \in Tokens : invites'[t] # NoInvite =>
                                 t \in made' /\ invites'[t].room \in used,
           table' \subseteq apiKeys' \X Rooms, cache' \subseteq apiKeys' \X Rooms,
           handed' \subseteq apiKeys' \X Rooms,
           \A g \in table' \cup cache' \cup handed' : g[2] \in used,
           Settled(q, used, made', apiKeys')
    PROVE  Shape'
<1>1. /\ mutation' # c /\ lifecycle' # c /\ q.at # "purge"
      /\ mutation' \in Tasks \cup {None} /\ lifecycle' \in Tasks \cup {None}
      /\ used' = used /\ used \subseteq Rooms /\ tombstones' \subseteq used
      /\ \A r \in Rooms : Exists(r)' => r \in used
      /\ rooms' \in [Rooms -> Rows \cup {NoRow}]
      /\ view' \in [Keys \X Rooms -> Names \cup {LobbyName, None, Gone}]
  BY Unguarded DEF Guarded, Shape, TypeOK, Exists
<1> QED BY <1>1, ShapeMoves

LEMMA InviteRowShape ==
    ASSUME Shape, NEW c \in Tasks, InviteRow(c)
    PROVE  Shape'
<1> USE DirectoryAssumption
<1> DEFINE q == task[c]
<1>1. /\ q \in Requests /\ q.at = "invite" /\ q.room \in used /\ q.key \in Keys
      /\ UNCHANGED <<rooms, used, apiKeys, table, cache, mutation, lifecycle,
                     tombstones, handed, view>>
  BY DEF InviteRow, Shape, TypeOK, Settled, SameRest, locks
<1>2. PICK t \in Tokens \ made :
        /\ invites' = [invites EXCEPT ![t] = [room |-> q.room, by |-> q.key,
                           single |-> q.flag, revoked |-> FALSE,
                           told |-> FALSE]]
        /\ made' = made \cup {t}
        /\ task' = [task EXCEPT ![c].at = "check", ![c].token = t]
  BY DEF InviteRow
<1> DEFINE s == [q EXCEPT !.at = "check", !.token = t]
<1>3. s \in Requests /\ s.at = "check" /\ s.room = q.room /\ s.token = t
  BY <1>1 DEF Requests, PCs
<1>4. task' = [task EXCEPT ![c] = s]
  BY <1>2
<1> HIDE DEF s
<1>5. Moves(c, s)
  BY <1>3, <1>4 DEF Moves, Shape, TypeOK
<1>6. [room |-> q.room, by |-> q.key, single |-> q.flag, revoked |-> FALSE,
       told |-> FALSE] \in Invites
  BY <1>1 DEF Requests, Invites, Shape, TypeOK
<1>7. /\ invites' \in [Tokens -> Invites \cup {NoInvite}]
      /\ \A x \in Tokens : invites'[x] # NoInvite =>
                               x \in made' /\ invites'[x].room \in used
  BY <1>1, <1>2, <1>6 DEF Shape, TypeOK, RoomsUsed
<1>8. Settled(s, used, made', apiKeys') /\ s.at \notin Guarded /\ q.at \notin Guarded
  BY <1>1, <1>2, <1>3 DEF Settled, Guarded
<1>9. made \subseteq made' /\ made' \subseteq Tokens
  BY <1>2 DEF Shape, TypeOK
<1> HIDE DEF q
<1> QED BY <1>1, <1>3, <1>5, <1>7, <1>8, <1>9, ShapeFree DEF q, Shape, TypeOK, RoomsUsed

LEMMA InviteCheckShape ==
    ASSUME Shape, NEW c \in Tasks, InviteCheck(c)
    PROVE  Shape'
<1> USE DirectoryAssumption
<1> DEFINE q == task[c]
<1>1. /\ q.at = "check" /\ q.room \in used /\ q.token \in made /\ q.token \in Tokens
      /\ UNCHANGED <<rooms, used, made, apiKeys, cache, mutation, lifecycle,
                     tombstones, handed, view>>
      /\ q.at \notin Guarded
  BY DEF InviteCheck, Shape, TypeOK, Settled, SameRest, locks, Guarded
<1>2. CASE q.room \in tombstones
  <2>1. /\ invites' = [t \in Tokens |->
                   IF invites[t].room = q.room THEN NoInvite ELSE invites[t]]
        /\ table' \subseteq table /\ Step(c, "sweep")
    BY <1>2 DEF InviteCheck
  <2>2. "sweep" \in PCs
    BY DEF PCs
  <2>3. PICK s \in Requests : Moves(c, s) /\ s.at = "sweep" /\ s.room = q.room
    BY <2>1, <2>2, StepMoves
  <2>4. Settled(s, used, made', apiKeys') /\ s.at \notin Guarded
    BY <1>1, <2>3 DEF Settled, Guarded
  <2>5. /\ invites' \in [Tokens -> Invites \cup {NoInvite}]
        /\ \A x \in Tokens : invites'[x] # NoInvite => invites'[x] = invites[x]
    BY <2>1 DEF Shape, TypeOK
  <2> HIDE DEF q
  <2> QED BY <1>1, <2>1, <2>3, <2>4, <2>5, ShapeFree DEF q, Shape, TypeOK, RoomsUsed
<1>3. CASE q.room \notin tombstones
  <2>1. /\ invites' = IF invites[q.token] = NoInvite THEN invites
                      ELSE [invites EXCEPT ![q.token].told = TRUE]
        /\ Finish(c) /\ UNCHANGED table
    BY <1>3 DEF InviteCheck
  <2>2. Moves(c, Idle)
    BY <2>1, FinishMoves
  <2>3. Settled(Idle, used, made', apiKeys') /\ Idle.at \notin Guarded
    BY IdleType DEF Settled, Guarded
  <2>4. /\ invites' \in [Tokens -> Invites \cup {NoInvite}]
        /\ \A x \in Tokens : invites'[x] # NoInvite =>
               invites[x] # NoInvite /\ invites'[x].room = invites[x].room
    <3>1. CASE invites[q.token] = NoInvite
      BY <2>1, <3>1 DEF Shape, TypeOK
    <3>2. CASE invites[q.token] # NoInvite
      <4>1. invites[q.token] \in Invites
        BY <1>1, <3>2 DEF Shape, TypeOK
      <4>2. /\ [invites[q.token] EXCEPT !.told = TRUE] \in Invites
            /\ [invites[q.token] EXCEPT !.told = TRUE].room = invites[q.token].room
        BY <4>1 DEF Invites
      <4>3. invites' = [invites EXCEPT ![q.token] =
                            [invites[q.token] EXCEPT !.told = TRUE]]
        BY <2>1, <3>2
      <4> QED BY <1>1, <3>2, <4>2, <4>3 DEF Shape, TypeOK
    <3> QED BY <3>1, <3>2
  <2> HIDE DEF q
  <2> QED BY <1>1, <2>1, <2>2, <2>3, <2>4, IdleType, ShapeFree
          DEF q, Shape, TypeOK, RoomsUsed
<1> QED BY <1>2, <1>3

(* What a step that marks one invite does to the table of invites. *)
LEMMA MarkInvite ==
    ASSUME Shape, NEW t \in Tokens, NEW b \in BOOLEAN, invites[t] # NoInvite,
           invites' = [invites EXCEPT ![t].revoked = b]
    PROVE  /\ invites' \in [Tokens -> Invites \cup {NoInvite}]
           /\ invites'[t].room = invites[t].room /\ invites'[t].single = invites[t].single
           /\ invites'[t].told = invites[t].told /\ invites'[t].revoked = b
           /\ \A x \in Tokens \ {t} : invites'[x] = invites[x]
<1> DEFINE i == [invites[t] EXCEPT !.revoked = b]
<1>1. invites[t] \in Invites /\ invites \in [Tokens -> Invites \cup {NoInvite}]
  BY DEF Shape, TypeOK
<1>2. /\ i \in Invites /\ i.room = invites[t].room /\ i.single = invites[t].single
      /\ i.told = invites[t].told /\ i.revoked = b
  BY <1>1 DEF Invites
<1>3. invites' = [invites EXCEPT ![t] = i]
  OBVIOUS
<1> HIDE DEF i
<1>4. /\ invites' \in [Tokens -> Invites \cup {NoInvite}] /\ invites'[t] = i
      /\ \A x \in Tokens \ {t} : invites'[x] = invites[x]
  BY <1>1, <1>2, <1>3
<1> QED BY <1>2, <1>4

LEMMA RevokeRowShape ==
    ASSUME Shape, NEW c \in Tasks, RevokeRow(c)
    PROVE  Shape'
<1> DEFINE t == task[c].name
<1>1. /\ task[c].at = "revoke" /\ t \in Tokens /\ Finish(c) /\ task[c].at \notin Guarded
      /\ UNCHANGED <<rooms, used, made, apiKeys, table, cache, mutation, lifecycle,
                     tombstones, handed, view>>
      /\ invites' = IF invites[t] = NoInvite THEN invites
                    ELSE [invites EXCEPT ![t].revoked = TRUE]
  BY DEF RevokeRow, Shape, Settled, SameRest, locks, Guarded
<1> HIDE DEF t
<1>2. Moves(c, Idle)
  BY <1>1, FinishMoves
<1>3. Settled(Idle, used, made', apiKeys') /\ Idle.at \notin Guarded
  BY IdleType DEF Settled, Guarded
<1>4. /\ invites' \in [Tokens -> Invites \cup {NoInvite}]
      /\ \A x \in Tokens : invites'[x] # NoInvite =>
             invites[x] # NoInvite /\ invites'[x].room = invites[x].room
  <2>1. CASE invites[t] = NoInvite
    BY <1>1, <2>1 DEF Shape, TypeOK
  <2>2. CASE invites[t] # NoInvite
    <3>1. invites' = [invites EXCEPT ![t].revoked = TRUE] /\ t \in Tokens
      BY <1>1, <2>2
    <3>2. /\ invites' \in [Tokens -> Invites \cup {NoInvite}]
          /\ invites'[t].room = invites[t].room
          /\ \A x \in Tokens \ {t} : invites'[x] = invites[x]
      BY <2>2, <3>1, MarkInvite, TRUE \in BOOLEAN
    <3> QED BY <2>2, <3>2
  <2> QED BY <2>1, <2>2
<1> QED BY <1>1, <1>2, <1>3, <1>4, IdleType, ShapeFree DEF Shape, TypeOK, RoomsUsed

LEMMA SweepShape ==
    ASSUME Shape, NEW c \in Tasks, Sweep(c)
    PROVE  Shape'
<1>1. /\ task[c].at = "sweep" /\ Finish(c) /\ task[c].at \notin Guarded
      /\ UNCHANGED <<rooms, used, invites, made, apiKeys, table, mutation, lifecycle,
                     tombstones, handed, view>>
      /\ cache' \subseteq cache
  BY DEF Sweep, SameRest, locks, tables, Guarded
<1>2. Moves(c, Idle)
  BY <1>1, FinishMoves
<1>3. Settled(Idle, used, made', apiKeys') /\ Idle.at \notin Guarded
  BY IdleType DEF Settled, Guarded
<1> QED BY <1>1, <1>2, <1>3, IdleType, ShapeFree DEF Shape, TypeOK, RoomsUsed

LEMMA RedeemShape ==
    ASSUME Shape, NEW c \in Tasks, NEW t \in Tokens, Redeem(c, t)
    PROVE  Shape'
<1>1. /\ invites[t] # NoInvite
      /\ UNCHANGED <<rooms, used, made, apiKeys, table, cache, mutation, lifecycle,
                     tombstones, handed, view>>
      /\ invites' = [invites EXCEPT ![t].revoked = invites[t].single]
  BY DEF Redeem, Held, NoInvite, SameRest, locks
<1>2. /\ invites[t].room \in used /\ invites[t].single \in BOOLEAN
      /\ \E q \in Requests : Enter(c, q) /\ q.at = "redeem" /\ q.room = invites[t].room
  BY RedeemEnters DEF Invites
<1>3. PICK q \in Requests : Enter(c, q) /\ q.at = "redeem" /\ q.room = invites[t].room
  BY <1>2
<1>4. Moves(c, q) /\ task[c] = Idle
  BY <1>3, EnterMoves
<1>5. Settled(q, used, made', apiKeys') /\ q.at \notin Guarded /\ task[c].at \notin Guarded
  BY <1>2, <1>3, <1>4, IdleType DEF Settled, Guarded
<1>6. /\ invites' \in [Tokens -> Invites \cup {NoInvite}]
      /\ \A x \in Tokens : invites'[x] # NoInvite =>
             invites[x] # NoInvite /\ invites'[x].room = invites[x].room
  <2>1. /\ invites' \in [Tokens -> Invites \cup {NoInvite}]
        /\ invites'[t].room = invites[t].room
        /\ \A x \in Tokens \ {t} : invites'[x] = invites[x]
    BY <1>1, <1>2, MarkInvite
  <2> QED BY <1>1, <2>1
<1> QED BY <1>1, <1>4, <1>5, <1>6, ShapeFree DEF Shape, TypeOK, RoomsUsed

LEMMA RedeemRoomShape ==
    ASSUME Shape, NEW c \in Tasks, RedeemRoom(c)
    PROVE  Shape'
<1>1. /\ task[c].at = "redeem" /\ task[c].at \notin Guarded /\ task[c].room \in used
      /\ UNCHANGED <<rooms, used, invites, made, apiKeys, table, cache, mutation,
                     lifecycle, tombstones, handed, view>>
  BY DEF RedeemRoom, SameRest, locks, tables, Guarded, Shape, Settled
<1>2. PICK q \in Requests : /\ Moves(c, q) /\ q.at \notin Guarded
                            /\ Settled(q, used, made', apiKeys')
  <2>1. CASE Exists(task[c].room)
    <3>1. Step(c, "mint") /\ "mint" \in PCs
      BY <2>1 DEF RedeemRoom, PCs
    <3>2. PICK q \in Requests : Moves(c, q) /\ q.at = "mint" /\ q.room = task[c].room
      BY <3>1, StepMoves
    <3>3. Settled(q, used, made', apiKeys') /\ q.at \notin Guarded
      BY <1>1, <3>2 DEF Settled, Guarded
    <3> QED BY <3>2, <3>3
  <2>2. CASE ~Exists(task[c].room)
    BY <2>2, FinishMoves, IdleType DEF RedeemRoom, Settled, Guarded
  <2> QED BY <2>1, <2>2
<1> QED BY <1>1, <1>2, ShapeFree DEF Shape, TypeOK, RoomsUsed

LEMMA RedeemKeyShape ==
    ASSUME Shape, NEW c \in Tasks, RedeemKey(c)
    PROVE  Shape'
<1>1. /\ task[c] \in Requests
      /\ task[c].at = "mint" /\ task[c].at \notin Guarded /\ task[c].room \in used
      /\ UNCHANGED <<rooms, used, invites, made, table, cache, mutation,
                     lifecycle, tombstones, handed, view>>
  BY DEF RedeemKey, SameRest, locks, Guarded, Shape, TypeOK, Settled
<1>2. PICK q \in Requests : /\ Moves(c, q) /\ q.at \notin Guarded
                            /\ Settled(q, used, made', apiKeys')
                            /\ apiKeys \subseteq apiKeys' /\ apiKeys' \subseteq Keys
  <2>1. CASE \E k \in Keys \ apiKeys :
               /\ apiKeys' = apiKeys \cup {k}
               /\ task' = [task EXCEPT ![c].at = "grant", ![c].key = k]
    <3>1. PICK k \in Keys \ apiKeys :
               /\ apiKeys' = apiKeys \cup {k}
               /\ task' = [task EXCEPT ![c].at = "grant", ![c].key = k]
      BY <2>1
    <3> DEFINE q == [task[c] EXCEPT !.at = "grant", !.key = k]
    <3>2. q \in Requests /\ q.at = "grant" /\ q.key = k /\ q.room = task[c].room
      BY <1>1 DEF Requests, PCs
    <3>3. task' = [task EXCEPT ![c] = q]
      BY <3>1
    <3> HIDE DEF q
    <3>4. Moves(c, q)
      BY <3>2, <3>3 DEF Moves, Shape, TypeOK
    <3>5. Settled(q, used, made', apiKeys') /\ q.at \notin Guarded
      BY <1>1, <3>1, <3>2 DEF Settled, Guarded
    <3> QED BY <3>1, <3>2, <3>4, <3>5 DEF Shape, TypeOK
  <2>2. CASE Finish(c) /\ UNCHANGED apiKeys
    <3>1. Moves(c, Idle)
      BY <2>2, FinishMoves
    <3> QED BY <2>2, <3>1, IdleType DEF Settled, Guarded, Shape, TypeOK
  <2> QED BY <2>1, <2>2 DEF RedeemKey
<1> QED BY <1>1, <1>2, ShapeFree DEF Shape, TypeOK, RoomsUsed

LEMMA GrantRowShape ==
    ASSUME Shape, NEW c \in Tasks, GrantRow(c)
    PROVE  Shape'
<1>1. /\ task[c].at = "grant" /\ task[c].at \notin Guarded
      /\ task[c].room \in used /\ task[c].room \in Rooms /\ task[c].key \in apiKeys
      /\ UNCHANGED <<rooms, used, invites, made, apiKeys, cache, mutation,
                     lifecycle, tombstones, handed, view>>
  BY DEF GrantRow, SameRest, locks, Guarded, Shape, TypeOK, Settled
<1>2. PICK q \in Requests : /\ Moves(c, q) /\ q.at \notin Guarded
                            /\ Settled(q, used, made', apiKeys')
                            /\ table' \subseteq table \cup {<<task[c].key, task[c].room>>}
  <2>1. CASE table' = table \cup {<<task[c].key, task[c].room>>} /\ Step(c, "cached")
    <3>1. "cached" \in PCs
      BY DEF PCs
    <3>2. PICK q \in Requests : /\ Moves(c, q) /\ q.at = "cached"
                                /\ q.room = task[c].room /\ q.key = task[c].key
      BY <2>1, <3>1, StepMoves
    <3>3. Settled(q, used, made', apiKeys') /\ q.at \notin Guarded
      BY <1>1, <3>2 DEF Settled, Guarded
    <3> QED BY <2>1, <3>2, <3>3
  <2>2. CASE Finish(c) /\ UNCHANGED table
    <3>1. Moves(c, Idle)
      BY <2>2, FinishMoves
    <3> QED BY <2>2, <3>1, IdleType DEF Settled, Guarded
  <2> QED BY <2>1, <2>2 DEF GrantRow
<1>3. table' \subseteq apiKeys' \X Rooms /\ \A g \in table' : g[2] \in used
  BY <1>1, <1>2 DEF Shape, TypeOK, RoomsUsed
<1> QED BY <1>1, <1>2, <1>3, ShapeFree DEF Shape, TypeOK, RoomsUsed

LEMMA GrantCacheShape ==
    ASSUME Shape, NEW c \in Tasks, GrantCache(c)
    PROVE  Shape'
<1> DEFINE g == <<task[c].key, task[c].room>>
<1>1. /\ task[c].at = "cached" /\ task[c].at \notin Guarded
      /\ task[c].room \in used /\ task[c].room \in Rooms /\ task[c].key \in apiKeys
      /\ UNCHANGED <<rooms, used, invites, made, apiKeys, table, mutation,
                     lifecycle, tombstones, view>>
      /\ Finish(c) /\ cache' = cache \cup {g} /\ handed' = handed \cup {g}
  BY DEF GrantCache, locks, tables, Guarded, Shape, TypeOK, Settled
<1>2. Moves(c, Idle) /\ Settled(Idle, used, made', apiKeys') /\ Idle.at \notin Guarded
  BY <1>1, FinishMoves, IdleType DEF Settled, Guarded
<1>3. g \in apiKeys \X Rooms /\ g[2] \in used
  BY <1>1
<1> HIDE DEF g
<1>4. /\ cache' \subseteq apiKeys' \X Rooms /\ handed' \subseteq apiKeys' \X Rooms
      /\ \A x \in table' \cup cache' \cup handed' : x[2] \in used
  BY <1>1, <1>3 DEF Shape, TypeOK, RoomsUsed
<1> QED BY <1>1, <1>2, <1>4, IdleType, ShapeFree DEF Shape, TypeOK, RoomsUsed

LEMMA SignupShape ==
    ASSUME Shape, NEW k \in Keys, Signup(k)
    PROVE  Shape'
<1>1. /\ UNCHANGED <<rooms, used, invites, made, table, cache, mutation, lifecycle,
                     task, tombstones, handed, view>>
      /\ apiKeys' = apiKeys \cup {k}
  BY DEF Signup, SameRest, locks
<1>2. \A c \in Tasks : Settled(task'[c], used', made', apiKeys')
  BY <1>1 DEF Shape, Settled
<1>3. TypeOK'
  BY <1>1 DEF Shape, TypeOK, Exists
<1>4. RoomsUsed'
  BY <1>1 DEF Shape, RoomsUsed
<1> QED BY <1>2, <1>3, <1>4 DEF Shape

LEMMA RestartShape ==
    ASSUME Shape, Restart
    PROVE  Shape'
<1> USE DirectoryAssumption
<1>1. /\ UNCHANGED <<rooms, used, invites, made, apiKeys, table, handed>>
      /\ cache' = table /\ mutation' = None /\ lifecycle' = None /\ tombstones' = {}
      /\ task' = [c \in Tasks |-> Idle] /\ view' = [kr \in Keys \X Rooms |-> None]
  BY DEF Restart, tables
<1>2. \A c \in Tasks : /\ Settled(task'[c], used', made', apiKeys')
                       /\ task'[c].at \notin Guarded /\ task'[c].at # "purge"
                       /\ mutation' # c /\ lifecycle' # c
  BY <1>1, IdleType DEF Settled, Guarded
<1>3. task' \in [Tasks -> Requests]
  BY <1>1, IdleType
<1>4. TypeOK'
  BY <1>1, <1>2, <1>3 DEF Shape, TypeOK, Exists
<1>5. RoomsUsed'
  BY <1>1 DEF Shape, RoomsUsed
<1> QED BY <1>2, <1>4, <1>5 DEF Shape

LEMMA StepShape == Shape /\ [Next]_vars => Shape'
<1> SUFFICES ASSUME Shape, [Next]_vars PROVE Shape'
  OBVIOUS
<1>1. CASE UNCHANGED vars
  BY <1>1 DEF vars, tables, locks, Shape, TypeOK, RoomsUsed, Settled, Exists
<1>2. CASE Next
  BY <1>2, TakeUpShape, DestroyShape, CreateRowShape, RenameRowShape, PublishShape,
     DestroyRowShape, DestroyPurgeShape, FarewellShape, InviteRowShape,
     InviteCheckShape, SweepShape, RevokeRowShape, RedeemShape, RedeemRoomShape,
     RedeemKeyShape, GrantRowShape, GrantCacheShape, SignupShape, RestartShape
  DEF Next
<1> QED BY <1>1, <1>2

(* Rows, grants and mutexes are where the handlers put them, through any   *)
(* interleaving of requests, failures and restarts (handler.rs).           *)
THEOREM TypeCorrect == Spec => []TypeOK
<1>1. Shape => TypeOK
  BY DEF Shape
<1> QED BY <1>1, InitShape, StepShape, PTL DEF Spec

-----------------------------------------------------------------------------
(* Second layer: rooms that are gone stay gone, and whoever is about to    *)
(* invite to one will find that out.                                       *)

Fated(r) ==
    \/ Exists(r) \/ r \in tombstones
    \/ \E d \in Tasks : task[d].at = "purge" /\ task[d].room = r

Fate ==
    /\ \A r \in tombstones : ~Exists(r)
    /\ \A c \in Tasks :
        /\ task[c].at \in {"purge", "farewell", "sweep"} => ~Exists(task[c].room)
        /\ task[c].at = "check" =>
               \/ invites[task[c].token] = NoInvite
               \/ invites[task[c].token].room = task[c].room
        /\ task[c].at \in {"invite", "check"} => Fated(task[c].room)
    /\ NoInviteToTheDead

LEMMA InitFate == Init => Fate
BY IdleType DEF Init, Fate, NoInviteToTheDead, Held, NoInvite

(* Steps that touch neither rooms nor invites. *)
TakeUp(c) ==
    \E k \in Clients :
        \/ \E a \in Ids :
            \/ \E n \in Names, p \in Rooms \cup {None}, b \in BOOLEAN :
                    Create(c, k, a, n, p, b)
            \/ \E r \in Rooms, n \in Names : Rename(c, k, a, r, n)
            \/ \E r \in Rooms : Destroy(c, k, a, r)
        \/ \E r \in Rooms, b \in BOOLEAN : Invite(c, k, r, b)
        \/ \E t \in Tokens : Revoke(c, k, t)

Quiet(c) ==
    \/ TakeUp(c) \/ Publish(c) \/ Farewell(c) \/ Sweep(c)
    \/ RedeemRoom(c) \/ RedeemKey(c) \/ GrantRow(c) \/ GrantCache(c)

LEMMA QuietKeeps ==
    ASSUME NEW c \in Tasks, Quiet(c)
    PROVE  UNCHANGED <<rooms, used, invites, made, tombstones>>
BY DEF Quiet, TakeUp, Create, Rename, Destroy, Invite, Revoke, Publish, Farewell, Sweep,
       RedeemRoom, RedeemKey, GrantRow, GrantCache, tables, SameRest

LEMMA TakeUpEnters ==
    ASSUME Shape, NEW c \in Tasks, TakeUp(c)
    PROVE  /\ UNCHANGED <<tables, cache, lifecycle, tombstones, handed, view>>
           /\ mutation' # mutation => mutation = None /\ mutation' = c
           /\ \E q \in Requests :
               /\ Enter(c, q)
               /\ q.at \in {"create", "rename", "delete", "invite", "revoke"}
               /\ q.at = "invite" => Exists(q.room)
               /\ q.at \in {"create", "rename"} => q.row = NoRow
               /\ q.at = "delete" => q.snap = {g \in Keys : <<g, q.room>> \in cache}
               /\ q.at = "delete" <=> mutation' # mutation
<1> USE DEF SameRest, locks
<1>1. CASE \E k \in Clients, a \in Ids, n \in Names, p \in Rooms \cup {None}, b \in BOOLEAN :
             Create(c, k, a, n, p, b)
  <2>1. PICK k \in Clients, a \in Ids, n \in Names, p \in Rooms \cup {None}, b \in BOOLEAN :
             Create(c, k, a, n, p, b)
    BY <1>1
  <2>2. UNCHANGED <<tables, cache, mutation, lifecycle, tombstones, handed, view>>
    BY <2>1 DEF Create
  <2>3. \E q \in Requests : Enter(c, q) /\ q.at = "create" /\ q.row = NoRow
    BY <2>1, CreateEnters
  <2> QED BY <2>2, <2>3
<1>2. CASE \E k \in Clients, a \in Ids, r \in Rooms, n \in Names : Rename(c, k, a, r, n)
  BY <1>2, RenameEnters DEF Rename
<1>3. CASE \E k \in Clients, r \in Rooms, b \in BOOLEAN : Invite(c, k, r, b)
  BY <1>3, InviteEnters DEF Invite
<1>4. CASE \E k \in Clients, t \in Tokens : Revoke(c, k, t)
  BY <1>4, RevokeEnters DEF Revoke
<1>5. CASE \E k \in Clients, a \in Ids, r \in Rooms : Destroy(c, k, a, r)
  <2>1. PICK k \in Clients, a \in Ids, r \in Rooms : Destroy(c, k, a, r)
    BY <1>5
  <2>2. PICK q \in Requests : /\ Enter(c, q) /\ q.at = "delete" /\ q.room = r
                             /\ q.snap = {g \in Keys : <<g, r>> \in cache}
    BY <2>1, DestroyEnters
  <2>3. /\ UNCHANGED <<tables, cache, lifecycle, tombstones, handed, view>>
        /\ mutation = None /\ mutation' = c
    BY <2>1 DEF Destroy
  <2>4. q.snap = {g \in Keys : <<g, q.room>> \in cache}
    BY <2>2
  <2>5. mutation' # mutation
    BY <2>3, Constants
  <2> QED BY <2>2, <2>3, <2>4, <2>5
<1> QED BY <1>1, <1>2, <1>3, <1>4, <1>5 DEF TakeUp

LEMMA QuietMoves ==
    ASSUME Shape, NEW c \in Tasks, Quiet(c)
    PROVE  /\ task[c].at # "purge"
           /\ \E q \in Requests :
               /\ Moves(c, q)
               /\ q.at \notin {"purge", "farewell", "sweep", "check"}
               /\ q.at = "invite" => Exists(q.room)
<1>2. CASE TakeUp(c)
  BY <1>2, TakeUpEnters, EnterMoves, IdleType
<1>3. CASE Finish(c) /\ task[c].at # "purge"
  BY <1>3, FinishMoves, IdleType
<1>4. CASE RedeemRoom(c) /\ Exists(task[c].room)
  <2>1. task[c].at = "redeem" /\ Step(c, "mint") /\ "mint" \in PCs
    BY <1>4 DEF RedeemRoom, PCs
  <2> QED BY <2>1, StepMoves
<1>5. CASE RedeemKey(c) /\ ~Finish(c)
  <2>1. PICK k \in Keys : task' = [task EXCEPT ![c].at = "grant", ![c].key = k]
    BY <1>5 DEF RedeemKey
  <2> DEFINE q == [task[c] EXCEPT !.at = "grant", !.key = k]
  <2>2. task[c] \in Requests /\ task \in [Tasks -> Requests]
    BY DEF Shape, TypeOK
  <2>3. q \in Requests /\ q.at = "grant"
    BY <2>2 DEF Requests, PCs
  <2>4. task' = [task EXCEPT ![c] = q]
    BY <2>1
  <2>5. task[c].at = "mint"
    BY <1>5 DEF RedeemKey
  <2> HIDE DEF q
  <2> QED BY <2>2, <2>3, <2>4, <2>5 DEF Moves
<1>6. CASE GrantRow(c) /\ ~Finish(c)
  <2>1. task[c].at = "grant" /\ Step(c, "cached") /\ "cached" \in PCs
    BY <1>6 DEF GrantRow, PCs
  <2> QED BY <2>1, StepMoves
<1>7. CASE Publish(c) \/ Farewell(c) \/ Sweep(c) \/ GrantCache(c)
  BY <1>3, <1>7 DEF Publish, Farewell, Sweep, GrantCache
<1>8. CASE RedeemRoom(c) \/ RedeemKey(c) \/ GrantRow(c)
  <2>1. task[c].at # "purge"
    BY <1>8 DEF RedeemRoom, RedeemKey, GrantRow
  <2>2. RedeemRoom(c) /\ ~Exists(task[c].room) => Finish(c)
    BY DEF RedeemRoom
  <2> QED BY <1>3, <1>4, <1>5, <1>6, <1>8, <2>1, <2>2
<1> QED BY <1>2, <1>7, <1>8 DEF Quiet

LEMMA FateMoves ==
    ASSUME Shape, Fate, NEW c \in Tasks, NEW q \in Requests, Moves(c, q),
           \A r \in used : /\ Exists(r)' => Exists(r)
                           /\ Exists(r) => Exists(r)' \/ (q.at = "purge" /\ q.room = r),
           \A r \in tombstones : r \in tombstones',
           \A r \in tombstones' : ~Exists(r)',
           task[c].at = "purge" => task[c].room \in tombstones',
           q.at \in {"purge", "farewell", "sweep"} => ~Exists(q.room)',
           q.at = "check" => \/ invites'[q.token] = NoInvite
                             \/ invites'[q.token].room = q.room,
           q.at \in {"invite", "check"} =>
               Exists(q.room)' \/ (task[c].at = "invite" /\ task[c].room = q.room),
           \A t \in made : \/ invites'[t] = NoInvite
                          \/ /\ invites[t] # NoInvite
                             /\ invites'[t].room = invites[t].room,
           NoInviteToTheDead'
    PROVE  Fate'
<1>1. ASSUME NEW r \in used, Fated(r) PROVE Fated(r)'
  <2>1. CASE Exists(r)
    BY <2>1 DEF Fated, Moves
  <2>2. CASE r \in tombstones
    BY <2>2 DEF Fated
  <2>3. CASE \E d \in Tasks : task[d].at = "purge" /\ task[d].room = r
    <3>1. PICK d \in Tasks : task[d].at = "purge" /\ task[d].room = r
      BY <2>3
    <3>2. CASE d = c
      BY <3>1, <3>2 DEF Fated
    <3>3. CASE d # c
      BY <3>1, <3>3 DEF Fated, Moves
    <3> QED BY <3>2, <3>3
  <2> QED BY <1>1, <2>1, <2>2, <2>3 DEF Fated
<1>2. ASSUME NEW d \in Tasks, NEW e \in Requests, e = task'[d]
      PROVE  /\ e.at \in {"purge", "farewell", "sweep"} => ~Exists(e.room)'
             /\ e.at = "check" => \/ invites'[e.token] = NoInvite
                                  \/ invites'[e.token].room = e.room
             /\ e.at \in {"invite", "check"} => Fated(e.room)'
  <2>1. CASE d = c
    <3>1. e = q
      BY <1>2, <2>1 DEF Moves
    <3>2. task[c].at = "invite" => task[c].room \in used /\ Fated(task[c].room)
      BY DEF Shape, Settled, Fate
    <3>3. Exists(q.room)' => Fated(q.room)'
      BY DEF Fated
    <3>4. q.at \in {"invite", "check"} => Fated(q.room)'
      BY <1>1, <3>2, <3>3
    <3> QED BY <3>1, <3>4
  <2>2. CASE d # c
    <3>1. e = task[d] /\ Settled(e, used, made, apiKeys)
      BY <1>2, <2>2 DEF Moves, Shape
    <3>2. /\ e.at \in {"purge", "farewell", "sweep"} => ~Exists(e.room)
          /\ e.at = "check" => \/ invites[e.token] = NoInvite
                               \/ invites[e.token].room = e.room
          /\ e.at \in {"invite", "check"} => Fated(e.room)
      BY <3>1 DEF Fate
    <3>3. e.at \in {"purge", "farewell", "sweep"} => ~Exists(e.room)'
      BY <3>1, <3>2 DEF Settled
    <3>4. e.at = "check" => \/ invites'[e.token] = NoInvite
                            \/ invites'[e.token].room = e.room
      BY <3>1, <3>2 DEF Settled
    <3>5. e.at \in {"invite", "check"} => Fated(e.room)'
      BY <1>1, <3>1, <3>2 DEF Settled
    <3> QED BY <3>3, <3>4, <3>5
  <2> QED BY <2>1, <2>2
<1>3. \A d \in Tasks : task'[d] \in Requests
  BY DEF Moves
<1>4. \A r \in tombstones' : ~Exists(r)'
  OBVIOUS
<1> QED BY <1>2, <1>3, <1>4 DEF Fate, Fated, Exists

(* Rooms are not created or destroyed. *)
LEMMA FateKeeps ==
    ASSUME Shape, Fate, NEW c \in Tasks, NEW q \in Requests, Moves(c, q),
           UNCHANGED <<rooms, used, invites, made, tombstones>>,
           task[c].at # "purge",
           q.at \notin {"purge", "farewell", "sweep", "check"},
           q.at = "invite" => Exists(q.room)
    PROVE  Fate'
<1>1. /\ \A r : Exists(r)' <=> Exists(r)
      /\ \A t : Held(t)' <=> Held(t)
  BY DEF Exists, Held
<1>2. NoInviteToTheDead'
  BY DEF Fate, NoInviteToTheDead, Held, Exists
<1>3. \A r \in tombstones' : ~Exists(r)'
  BY <1>1 DEF Fate
<1> QED BY <1>1, <1>2, <1>3, FateMoves

LEMMA QuietFate ==
    ASSUME Shape, Fate, NEW c \in Tasks, Quiet(c)
    PROVE  Fate'
BY QuietKeeps, QuietMoves, FateKeeps

(* What the three steps that write the table of rooms do to it. *)
LEMMA CreateRooms ==
    ASSUME Shape, NEW c \in Tasks, CreateRow(c), ~Finish(c)
    PROVE  \E r \in Rooms \ used, s \in Requests :
             /\ Moves(c, s) /\ s.at = "publish" /\ s.room = r /\ s.row = task[c].row
             /\ used' = used \cup {r} /\ mutation' = c
             /\ \A x \in Rooms : Exists(x)' <=> Exists(x) \/ x = r
             /\ \A x \in Rooms \ {r} : rooms'[x] = rooms[x]
<1>1. PICK r \in Rooms \ used :
        /\ rooms' = [rooms EXCEPT ![r] =
               [name |-> task[c].name, parent |-> task[c].parent,
                creator |-> task[c].id, owner |-> task[c].key,
                public |-> task[c].flag]]
        /\ used' = used \cup {r} /\ mutation' = c
        /\ task' = [task EXCEPT ![c].at = "publish", ![c].room = r]
  BY DEF CreateRow
<1> DEFINE s == [task[c] EXCEPT !.at = "publish", !.room = r]
           row == [name |-> task[c].name, parent |-> task[c].parent,
                   creator |-> task[c].id, owner |-> task[c].key,
                   public |-> task[c].flag]
<1>2. task[c] \in Requests /\ task \in [Tasks -> Requests]
  BY DEF Shape, TypeOK
<1>3. s \in Requests /\ s.at = "publish" /\ s.room = r /\ s.row = task[c].row
  BY <1>2 DEF Requests, PCs
<1>4. task' = [task EXCEPT ![c] = s]
  BY <1>1
<1>5. row # NoRow
  <2>1. row.name = task[c].name /\ task[c].name \in Names
    BY DEF CreateRow, Shape, Settled
  <2> QED BY <2>1, Constants DEF NoRow
<1> HIDE DEF s
<1>6. Moves(c, s)
  BY <1>2, <1>3, <1>4 DEF Moves
<1>7. rooms' = [rooms EXCEPT ![r] = row] /\ rooms \in [Rooms -> Rows \cup {NoRow}]
  BY <1>1 DEF Shape, TypeOK
<1> HIDE DEF row
<1>8. /\ \A x \in Rooms : Exists(x)' <=> Exists(x) \/ x = r
      /\ \A x \in Rooms \ {r} : rooms'[x] = rooms[x]
  BY <1>5, <1>7 DEF Exists
<1> QED BY <1>1, <1>3, <1>6, <1>8

LEMMA RenameRooms ==
    ASSUME Shape, NEW c \in Tasks, RenameRow(c)
    PROVE  /\ \A x \in Rooms : Exists(x)' <=> Exists(x)
           /\ \A x \in Rooms : /\ rooms'[x].public = rooms[x].public
                              /\ rooms'[x].owner = rooms[x].owner
           /\ \A x \in Rooms \ {task[c].room} : rooms'[x] = rooms[x]
           /\ Finish(c) => UNCHANGED rooms
<1> DEFINE r == task[c].room
           row == [rooms[r] EXCEPT !.name = task[c].name]
<1>0. rooms \in [Rooms -> Rows \cup {NoRow}]
  BY DEF Shape, TypeOK
<1>1. CASE UNCHANGED rooms
  BY <1>1 DEF Exists
<1>2. CASE rooms' = [rooms EXCEPT ![r].name = task[c].name] /\ Exists(r) /\ Step(c, "publish")
  <2>1. rooms[r] \in Rows /\ r \in Rooms /\ task[c].name \in Names
    BY <1>2 DEF Exists, RenameRow, Shape, TypeOK, Settled
  <2>2. /\ row.name = task[c].name /\ row.public = rooms[r].public
        /\ row.owner = rooms[r].owner
    BY <2>1 DEF Rows
  <2>3. rooms' = [rooms EXCEPT ![r] = row]
    BY <1>2
  <2>4. row # NoRow
    BY <2>1, <2>2, Constants DEF NoRow
  <2>5. ~Finish(c)
    <3>1. task \in [Tasks -> Requests]
      BY DEF Shape, TypeOK
    <3>2. task'[c].at = "publish"
      BY <1>2, <3>1 DEF Step, Requests
    <3> QED BY <3>1, <3>2, IdleType DEF Finish
  <2> HIDE DEF row
  <2> QED BY <1>0, <1>2, <2>1, <2>2, <2>3, <2>4, <2>5 DEF Exists
<1> QED BY <1>1, <1>2 DEF RenameRow, MayMutate

LEMMA DestroyRooms ==
    ASSUME Shape, NEW c \in Tasks, DestroyRow(c), ~Finish(c)
    PROVE  LET r == task[c].room IN
           /\ r \in Rooms /\ Exists(r) /\ r \in used
           /\ \E s \in Requests : /\ Moves(c, s) /\ s.at = "purge" /\ s.room = r
                                   /\ s.row = rooms[r] /\ s.snap = task[c].snap
           /\ \A x \in Rooms : Exists(x)' <=> Exists(x) /\ x # r
           /\ \A x \in Rooms \ {r} : /\ rooms'[x].name = rooms[x].name
                                     /\ rooms'[x].public = rooms[x].public
                                     /\ rooms'[x].owner = rooms[x].owner
           /\ invites' = [t \in Tokens |->
                   IF invites[t].room = r THEN NoInvite ELSE invites[t]]
           /\ table' = {g \in table : g[2] # r}
           /\ UNCHANGED <<used, made, apiKeys, cache, mutation, tombstones, handed, view>>
<1> DEFINE q == task[c]
           r == q.room
<1>1. /\ rooms' = [x \in Rooms |->
                   IF x = r THEN NoRow
                   ELSE IF rooms[x].parent = r
                        THEN [rooms[x] EXCEPT !.parent = None] ELSE rooms[x]]
      /\ task' = [task EXCEPT ![c].at = "purge", ![c].row = rooms[r]]
      /\ invites' = [t \in Tokens |->
                   IF invites[t].room = r THEN NoInvite ELSE invites[t]]
      /\ table' = {g \in table : g[2] # r}
      /\ UNCHANGED <<used, made, apiKeys, cache, mutation, tombstones, handed, view>>
      /\ Exists(r)
  BY DEF DestroyRow, MayMutate, SameRest
<1>2. r \in Rooms /\ r \in used /\ rooms[r] \in Rows /\ task \in [Tasks -> Requests]
  BY <1>1 DEF Exists, DestroyRow, Shape, TypeOK, Settled
<1> DEFINE s == [q EXCEPT !.at = "purge", !.row = rooms[r]]
<1>3. /\ s \in Requests /\ s.at = "purge" /\ s.room = r /\ s.row = rooms[r]
      /\ s.snap = q.snap
  <2>1. q \in Requests
    BY <1>2 DEF Shape, TypeOK
  <2>2. s \in Requests
    BY <1>2, <2>1 DEF Requests, PCs
  <2>3. s.at = "purge" /\ s.room = r /\ s.row = rooms[r] /\ s.snap = q.snap
    BY <2>1 DEF Requests
  <2> QED BY <2>2, <2>3
<1>4. task' = [task EXCEPT ![c] = s]
  BY <1>1
<1> HIDE DEF s
<1>5. Moves(c, s)
  BY <1>2, <1>3, <1>4 DEF Moves
<1>6. ASSUME NEW x \in Rooms
      PROVE  /\ Exists(x)' <=> Exists(x) /\ x # r
             /\ x # r => /\ rooms'[x].name = rooms[x].name
                        /\ rooms'[x].public = rooms[x].public
                        /\ rooms'[x].owner = rooms[x].owner
  <2>1. rooms[x] \in Rows \cup {NoRow}
    BY DEF Shape, TypeOK
  <2>2. CASE x = r
    BY <1>1, <2>2 DEF Exists
  <2>3. CASE x # r /\ rooms[x] \in Rows
    <3> DEFINE row == [rooms[x] EXCEPT !.parent = None]
    <3>1. /\ row.name = rooms[x].name /\ row.public = rooms[x].public
          /\ row.owner = rooms[x].owner /\ rooms[x].name # None
      BY <2>3, Constants DEF Rows
    <3>2. row # NoRow /\ rooms[x] # NoRow
      BY <3>1 DEF NoRow
    <3>3. rooms'[x] = IF rooms[x].parent = r THEN row ELSE rooms[x]
      BY <1>1, <2>3
    <3> HIDE DEF row
    <3> QED BY <2>3, <3>1, <3>2, <3>3 DEF Exists
  <2>4. CASE x # r /\ rooms[x] = NoRow
    <3>1. rooms[x].parent # r
      BY <1>2, <2>4, Constants DEF NoRow
    <3> QED BY <1>1, <2>4, <3>1 DEF Exists
  <2> QED BY <2>1, <2>2, <2>3, <2>4
<1> QED BY <1>1, <1>2, <1>3, <1>5, <1>6

LEMMA CreateRowFate ==
    ASSUME Shape, Fate, NEW c \in Tasks, CreateRow(c)
    PROVE  Fate'
<1>0. UNCHANGED <<invites, made, tombstones>> /\ task[c].at # "purge"
  BY DEF CreateRow, SameRest
<1>1. CASE Finish(c)
  <2>1. UNCHANGED <<rooms, used>>
    <3>1. task \in [Tasks -> Requests]
      BY DEF Shape, TypeOK
    <3>2. task'[c].at # "publish"
      BY <1>1, <3>1, IdleType DEF Finish
    <3> QED BY <3>1, <3>2 DEF CreateRow, Requests
  <2> QED BY <1>0, <1>1, <2>1, FinishMoves, IdleType, FateKeeps
<1>2. CASE ~Finish(c)
  <2>1. PICK r \in Rooms \ used, s \in Requests :
          /\ Moves(c, s) /\ s.at = "publish"
          /\ \A x \in Rooms : Exists(x)' <=> Exists(x) \/ x = r
          /\ \A x \in Rooms \ {r} : rooms'[x] = rooms[x]
    BY <1>2, CreateRooms
  <2>2. \A x \in used : Exists(x)' <=> Exists(x)
    BY <2>1 DEF Shape, TypeOK
  <2>3. \A x \in tombstones' : ~Exists(x)'
    BY <1>0, <2>2 DEF Fate, Shape, TypeOK
  <2>4. NoInviteToTheDead'
    <3>1. \A t \in Tokens : Held(t) => invites[t].room \in used
      BY DEF Held, NoInvite, Shape, RoomsUsed
    <3> QED BY <1>0, <2>2, <3>1 DEF Held, Fate, NoInviteToTheDead, Exists
  <2> QED BY <1>0, <2>1, <2>2, <2>3, <2>4, FateMoves
<1> QED BY <1>1, <1>2

LEMMA RenameRowFate ==
    ASSUME Shape, Fate, NEW c \in Tasks, RenameRow(c)
    PROVE  Fate'
<1>1. UNCHANGED <<used, invites, made, tombstones>> /\ task[c].at = "rename"
  BY DEF RenameRow, SameRest
<1>2. PICK q \in Requests :
        Moves(c, q) /\ q.at \notin {"purge", "farewell", "sweep", "check", "invite"}
  <2>1. "publish" \in PCs
    BY DEF PCs
  <2> QED BY <2>1, FinishMoves, StepMoves, IdleType DEF RenameRow
<1>3. \A r \in Rooms : Exists(r)' <=> Exists(r)
  BY RenameRooms
<1>4. NoInviteToTheDead'
  <2>1. \A t \in Tokens : Held(t) => invites[t].room \in Rooms
    BY DEF Held, NoInvite, Shape, RoomsUsed, TypeOK
  <2> QED BY <1>1, <1>3, <2>1 DEF Held, Fate, NoInviteToTheDead, Exists
<1>5. \A r \in tombstones' : ~Exists(r)'
  BY <1>1, <1>3 DEF Fate, Shape, TypeOK
<1>6. \A r \in used : Exists(r)' <=> Exists(r)
  BY <1>3 DEF Shape, TypeOK
<1> QED BY <1>1, <1>2, <1>4, <1>5, <1>6, FateMoves

LEMMA DestroyRowFate ==
    ASSUME Shape, Fate, NEW c \in Tasks, DestroyRow(c)
    PROVE  Fate'
<1>0. task[c].at = "delete"
  BY DEF DestroyRow
<1>1. CASE Finish(c)
  <2>1. task \in [Tasks -> Requests] /\ task[c].at = "delete"
    BY DEF Shape, TypeOK, DestroyRow
  <2>2. task'[c].at # "purge"
    BY <1>1, <2>1, IdleType DEF Finish
  <2>3. UNCHANGED <<rooms, used, invites, made, tombstones>>
    BY <2>1, <2>2 DEF DestroyRow, Requests, SameRest
  <2> QED BY <1>1, <2>1, <2>3, FinishMoves, IdleType, FateKeeps
<1>2. CASE ~Finish(c)
  <2> DEFINE r == task[c].room
  <2>1. PICK s \in Requests : Moves(c, s) /\ s.at = "purge" /\ s.room = r
    BY <1>2, DestroyRooms
  <2>2. /\ r \in Rooms
        /\ \A x \in Rooms : Exists(x)' <=> Exists(x) /\ x # r
        /\ invites' = [t \in Tokens |->
                   IF invites[t].room = r THEN NoInvite ELSE invites[t]]
        /\ UNCHANGED <<used, made, tombstones>>
    BY <1>2, DestroyRooms
  <2> HIDE DEF r
  <2>3. NoInviteToTheDead'
    <3>1. \A t \in Tokens : Held(t) => invites[t].room \in Rooms
      BY DEF Held, NoInvite, Shape, RoomsUsed, TypeOK
    <3>2. ASSUME NEW t \in Tokens, Held(t)'
          PROVE  invites'[t] = invites[t] /\ invites[t].room # r /\ Held(t)
      BY <2>2, <3>2 DEF Held, NoInvite
    <3> QED BY <2>2, <3>1, <3>2 DEF Fate, NoInviteToTheDead, Exists
  <2>4. \A x \in tombstones' : ~Exists(x)'
    BY <2>2 DEF Fate, Shape, TypeOK
  <2>5. \A x \in used : Exists(x)' <=> Exists(x) /\ x # r
    BY <2>2 DEF Shape, TypeOK
  <2>6. \A t \in made : \/ invites'[t] = NoInvite
                        \/ /\ invites[t] # NoInvite
                           /\ invites'[t].room = invites[t].room
    BY <2>2 DEF Shape, TypeOK
  <2>7. ~Exists(s.room)' /\ tombstones' = tombstones
    BY <2>1, <2>2
  <2> QED BY <1>0, <2>1, <2>3, <2>4, <2>5, <2>6, <2>7, FateMoves
<1> QED BY <1>1, <1>2

LEMMA DestroyPurgeFate ==
    ASSUME Shape, Fate, NEW c \in Tasks, DestroyPurge(c)
    PROVE  Fate'
<1>1. /\ task[c].at = "purge" /\ ~Exists(task[c].room)
      /\ UNCHANGED <<rooms, used, invites, made>>
      /\ tombstones' = tombstones \cup {task[c].room} /\ Step(c, "farewell")
  BY DEF DestroyPurge, tables, Fate
<1>2. "farewell" \in PCs
  BY DEF PCs
<1>3. PICK s \in Requests : Moves(c, s) /\ s.at = "farewell" /\ s.room = task[c].room
  BY <1>1, <1>2, StepMoves
<1>4. \A r : Exists(r)' <=> Exists(r)
  BY <1>1 DEF Exists
<1>5. NoInviteToTheDead'
  BY <1>1 DEF Fate, NoInviteToTheDead, Held, Exists
<1>6. \A r \in tombstones' : ~Exists(r)'
  BY <1>1, <1>4 DEF Fate
<1> QED BY <1>1, <1>3, <1>4, <1>5, <1>6, FateMoves

LEMMA InviteRowMoves ==
    ASSUME Shape, NEW c \in Tasks, InviteRow(c)
    PROVE  \E t \in Tokens \ made, s \in Requests :
             /\ Moves(c, s) /\ s.at = "check" /\ s.room = task[c].room /\ s.token = t
             /\ made' = made \cup {t}
             /\ invites'[t].room = task[c].room /\ invites'[t].single = task[c].flag
             /\ ~invites'[t].revoked /\ ~Held(t)'
             /\ \A x \in Tokens \ {t} : invites'[x] = invites[x]
<1>1. PICK t \in Tokens \ made :
        /\ invites' = [invites EXCEPT ![t] = [room |-> task[c].room, by |-> task[c].key,
                           single |-> task[c].flag, revoked |-> FALSE,
                           told |-> FALSE]]
        /\ made' = made \cup {t}
        /\ task' = [task EXCEPT ![c].at = "check", ![c].token = t]
  BY DEF InviteRow
<1> DEFINE s == [task[c] EXCEPT !.at = "check", !.token = t]
<1>2. /\ task[c] \in Requests /\ task \in [Tasks -> Requests]
      /\ invites \in [Tokens -> Invites \cup {NoInvite}]
  BY DEF Shape, TypeOK
<1>3. s \in Requests /\ s.at = "check" /\ s.room = task[c].room /\ s.token = t
  <2>1. s \in Requests
    BY <1>2 DEF Requests, PCs
  <2>2. s.at = "check" /\ s.room = task[c].room /\ s.token = t
    BY <1>2 DEF Requests
  <2> QED BY <2>1, <2>2
<1>4. task' = [task EXCEPT ![c] = s]
  BY <1>1
<1> HIDE DEF s
<1>5. Moves(c, s)
  BY <1>2, <1>3, <1>4 DEF Moves
<1>6. /\ invites'[t].room = task[c].room /\ invites'[t].single = task[c].flag
      /\ ~invites'[t].revoked /\ ~Held(t)'
      /\ \A x \in Tokens \ {t} : invites'[x] = invites[x]
  BY <1>1, <1>2 DEF Held
<1> QED BY <1>1, <1>3, <1>5, <1>6

LEMMA InviteRowFate ==
    ASSUME Shape, Fate, NEW c \in Tasks, InviteRow(c)
    PROVE  Fate'
<1>1. PICK t \in Tokens \ made, s \in Requests :
        /\ Moves(c, s) /\ s.at = "check" /\ s.room = task[c].room /\ s.token = t
        /\ invites'[t].room = task[c].room /\ ~Held(t)'
        /\ \A x \in Tokens \ {t} : invites'[x] = invites[x]
  BY InviteRowMoves
<1>2. UNCHANGED <<rooms, used, tombstones>> /\ task[c].at = "invite"
  BY DEF InviteRow, SameRest
<1>3. \A r : Exists(r)' <=> Exists(r)
  BY <1>2 DEF Exists
<1>4. NoInviteToTheDead'
  BY <1>1, <1>2 DEF Fate, NoInviteToTheDead, Held, Exists
<1>5. \A r \in tombstones' : ~Exists(r)'
  BY <1>2, <1>3 DEF Fate
<1>6. \A x \in made : invites'[x] = invites[x]
  BY <1>1 DEF Shape, TypeOK
<1>7. s.at = "check" => invites'[s.token].room = s.room
  BY <1>1
<1> QED BY <1>1, <1>2, <1>3, <1>4, <1>5, <1>6, <1>7, FateMoves

LEMMA InviteCheckFate ==
    ASSUME Shape, Fate, NEW c \in Tasks, InviteCheck(c)
    PROVE  Fate'
<1> DEFINE q == task[c]
<1>1. /\ q.at = "check" /\ lifecycle = None /\ q.token \in made /\ q.token \in Tokens
      /\ q.room \in used /\ Fated(q.room)
      /\ \/ invites[q.token] = NoInvite \/ invites[q.token].room = q.room
      /\ UNCHANGED <<rooms, used, made, tombstones>>
  BY DEF InviteCheck, SameRest, Shape, TypeOK, Settled, Fate
<1>2. \A r : Exists(r)' <=> Exists(r)
  BY <1>1 DEF Exists
<1>3. \A r \in tombstones' : ~Exists(r)'
  BY <1>1, <1>2 DEF Fate
<1>4. CASE q.room \in tombstones
  <2>1. /\ invites' = [t \in Tokens |->
                   IF invites[t].room = q.room THEN NoInvite ELSE invites[t]]
        /\ Step(c, "sweep")
    BY <1>4 DEF InviteCheck
  <2>2. "sweep" \in PCs
    BY DEF PCs
  <2>3. PICK s \in Requests : Moves(c, s) /\ s.at = "sweep" /\ s.room = q.room
    BY <2>1, <2>2, StepMoves
  <2>4. ~Exists(s.room)'
    BY <1>1, <1>2, <1>4, <2>3 DEF Fate
  <2>5. NoInviteToTheDead'
    <3>1. ASSUME NEW t \in Tokens, Held(t)'
          PROVE  invites'[t] = invites[t] /\ Held(t)
      BY <2>1, <3>1 DEF Held, NoInvite
    <3> QED BY <1>1, <3>1 DEF Fate, NoInviteToTheDead, Exists
  <2>6. \A t \in made : \/ invites'[t] = NoInvite
                        \/ /\ invites[t] # NoInvite
                           /\ invites'[t].room = invites[t].room
    BY <2>1 DEF Shape, TypeOK
  <2> HIDE DEF q
  <2> QED BY <1>1, <1>2, <1>3, <2>3, <2>4, <2>5, <2>6, FateMoves DEF q
<1>5. CASE q.room \notin tombstones
  <2>1. /\ invites' = IF invites[q.token] = NoInvite THEN invites
                      ELSE [invites EXCEPT ![q.token].told = TRUE]
        /\ Finish(c)
    BY <1>5 DEF InviteCheck
  <2>2. Exists(q.room)
    <3>1. \A d \in Tasks : task[d].at # "purge"
      BY <1>1, Constants DEF Shape, TypeOK
    <3> QED BY <1>1, <1>5, <3>1 DEF Fated
  <2>3. /\ \A t \in Tokens : invites'[t].room = invites[t].room
        /\ \A t \in Tokens : invites'[t] # NoInvite => invites[t] # NoInvite
        /\ \A t \in Tokens : Held(t)' =>
               Held(t) \/ (t = q.token /\ invites[t] # NoInvite)
    <3>1. invites \in [Tokens -> Invites \cup {NoInvite}]
      BY DEF Shape, TypeOK
    <3>2. CASE invites[q.token] = NoInvite
      BY <2>1, <3>2 DEF Held
    <3>3. CASE invites[q.token] # NoInvite
      <4> DEFINE i == [invites[q.token] EXCEPT !.told = TRUE]
      <4>1. invites[q.token] \in Invites
        BY <1>1, <3>1, <3>3
      <4>2. i.room = invites[q.token].room
        BY <4>1 DEF Invites
      <4>3. invites' = [invites EXCEPT ![q.token] = i]
        BY <2>1, <3>3
      <4> HIDE DEF i
      <4> QED BY <1>1, <3>1, <3>3, <4>2, <4>3 DEF Held
    <3> QED BY <3>2, <3>3
  <2>4. NoInviteToTheDead'
    BY <1>1, <2>2, <2>3 DEF Fate, NoInviteToTheDead, Exists
  <2>5. \A t \in made : \/ invites'[t] = NoInvite
                        \/ /\ invites[t] # NoInvite
                           /\ invites'[t].room = invites[t].room
    BY <2>3 DEF Shape, TypeOK
  <2>6. Moves(c, Idle)
    BY <2>1, FinishMoves
  <2> HIDE DEF q
  <2> QED BY <1>1, <1>2, <1>3, <2>4, <2>5, <2>6, IdleType, FateMoves DEF q
<1> QED BY <1>4, <1>5

(* An invite is marked as revoked, or as used up. *)
LEMMA RevokeRowFate ==
    ASSUME Shape, Fate, NEW c \in Tasks, RevokeRow(c) \/ \E t \in Tokens : Redeem(c, t)
    PROVE  Fate'
<1>1. UNCHANGED <<rooms, used, made, tombstones>> /\ task[c].at # "purge"
  BY IdleType DEF RevokeRow, Redeem, SameRest, Enter
<1>2. PICK q \in Requests : Moves(c, q) /\ q.at \in {"idle", "redeem"}
  BY FinishMoves, EnterMoves, RedeemEnters, IdleType DEF RevokeRow
<1>3. \A x \in Tokens : /\ invites'[x].room = invites[x].room
                        /\ invites'[x].told = invites[x].told
                        /\ invites[x] = NoInvite => invites'[x] = NoInvite
  <2>1. CASE UNCHANGED invites
    BY <2>1
  <2>2. CASE \E t \in Tokens, b \in BOOLEAN :
               invites[t] # NoInvite /\ invites' = [invites EXCEPT ![t].revoked = b]
    <3>1. PICK t \in Tokens, b \in BOOLEAN :
            invites[t] # NoInvite /\ invites' = [invites EXCEPT ![t].revoked = b]
      BY <2>2
    <3>2. /\ invites'[t].room = invites[t].room /\ invites'[t].told = invites[t].told
          /\ \A x \in Tokens \ {t} : invites'[x] = invites[x]
      BY <3>1, MarkInvite
    <3> QED BY <3>1, <3>2
  <2>3. CASE RevokeRow(c)
    <3>1. task[c].name \in Tokens /\ TRUE \in BOOLEAN
      BY <2>3 DEF RevokeRow, Shape, Settled
    <3> QED BY <2>1, <2>2, <2>3, <3>1 DEF RevokeRow
  <2>4. CASE \E t \in Tokens : Redeem(c, t)
    <3>1. PICK t \in Tokens : Redeem(c, t)
      BY <2>4
    <3>2. invites[t].single \in BOOLEAN
      <4>1. invites[t] \in Invites
        BY <3>1, RedeemEnters
      <4> QED BY <4>1 DEF Invites
    <3>3. invites[t] # NoInvite
      <4>1. Held(t)
        BY <3>1 DEF Redeem
      <4> QED BY <4>1 DEF Held, NoInvite
    <3> QED BY <2>2, <3>1, <3>2, <3>3 DEF Redeem
  <2> QED BY <2>3, <2>4
<1>4. NoInviteToTheDead'
  BY <1>1, <1>3 DEF Fate, NoInviteToTheDead, Held, Exists
<1>5. \A r \in tombstones' : ~Exists(r)'
  BY <1>1 DEF Fate, Exists
<1>6. \A t \in made : \/ invites'[t] = NoInvite
                      \/ /\ invites[t] # NoInvite
                         /\ invites'[t].room = invites[t].room
  BY <1>3 DEF Shape, TypeOK
<1>7. \A r : Exists(r)' <=> Exists(r)
  BY <1>1 DEF Exists
<1> QED BY <1>1, <1>2, <1>4, <1>5, <1>6, <1>7, FateMoves

LEMMA StepFate == Shape /\ Fate /\ [Next]_vars => Fate'
<1> SUFFICES ASSUME Shape, Fate, [Next]_vars PROVE Fate'
  OBVIOUS
<1>1. CASE UNCHANGED vars \/ \E k \in Keys : Signup(k)
  <2>1. UNCHANGED <<rooms, used, invites, made, tombstones, task>>
    BY <1>1 DEF vars, tables, Signup, SameRest
  <2> QED BY <2>1 DEF Fate, Fated, NoInviteToTheDead, Held, Exists
<1>2. CASE Restart
  <2>1. /\ UNCHANGED <<rooms, invites>> /\ tombstones' = {}
        /\ task' = [c \in Tasks |-> Idle]
    BY <1>2 DEF Restart, tables
  <2>2. \A c \in Tasks : task'[c].at = "idle"
    BY <2>1, IdleType
  <2> QED BY <2>1, <2>2 DEF Fate, NoInviteToTheDead, Held, Exists
<1>3. ASSUME NEW c \in Tasks,
             \/ Quiet(c) \/ CreateRow(c) \/ RenameRow(c) \/ DestroyRow(c)
             \/ DestroyPurge(c) \/ InviteRow(c) \/ InviteCheck(c) \/ RevokeRow(c)
             \/ \E t \in Tokens : Redeem(c, t)
      PROVE  Fate'
  BY <1>3, QuietFate, CreateRowFate, RenameRowFate, DestroyRowFate, DestroyPurgeFate,
     InviteRowFate, InviteCheckFate, RevokeRowFate
<1> QED BY <1>1, <1>2, <1>3 DEF Next, Quiet, TakeUp

(* The second look of handle_create_invite at the tombstones, under        *)
(* room_lifecycle, keeps every token that was answered from belonging to a *)
(* room that is gone, for any interleaving with handle_destroy_room.       *)
THEOREM InvitesLive == Spec => []NoInviteToTheDead
<1>1. Shape /\ Fate /\ [Next]_vars => Shape' /\ Fate'
  BY StepShape, StepFate
<1>2. Fate => NoInviteToTheDead
  BY DEF Fate
<1> QED BY <1>1, <1>2, InitShape, InitFate, PTL DEF Spec

-----------------------------------------------------------------------------
(* Third layer: the cache of grants follows the table.  A grant that is    *)
(* only in the table is that of a redemption which has not answered yet,   *)
(* whose key nobody has and no other redemption is for.                    *)

Granting(q) == q.at \in {"grant", "cached"}
CachedFor(k, r) ==
    \E c \in Tasks : task[c].at = "cached" /\ task[c].key = k /\ task[c].room = r

(* What the tables have for the key of a redemption at this step. *)
FreshKey(q) ==
    /\ q.key \notin Members
    /\ \A r \in Rooms : <<q.key, r>> \notin cache /\ <<q.key, r>> \notin handed
    /\ \A r \in Rooms : <<q.key, r>> \in table => q.at = "cached" /\ r = q.room

Grants ==
    /\ Members \subseteq apiKeys
    /\ \A k \in Keys, r \in Rooms : Exists(r) =>
           (<<k, r>> \in table <=> <<k, r>> \in cache \/ CachedFor(k, r))
    /\ \A c \in Tasks : Granting(task[c]) => FreshKey(task[c])
    /\ \A c, d \in Tasks :
           c # d /\ Granting(task[c]) /\ Granting(task[d]) => task[c].key # task[d].key
    /\ \A k \in Keys, r \in Rooms :
           <<k, r>> \in handed /\ Exists(r) => <<k, r>> \in cache

LEMMA InitGrants == Init => Grants
BY IdleType, Constants DEF Init, Grants, Granting, CachedFor

(* Steps that grant nothing. *)
LEMMA GrantsMoves ==
    ASSUME Shape, Grants, NEW c \in Tasks, NEW q \in Requests, Moves(c, q),
           \A r \in used : Exists(r)' => Exists(r),
           handed' = handed, apiKeys \subseteq apiKeys',
           table' \subseteq table, cache' \subseteq cache,
           \A k \in Keys, r \in used : Exists(r)' =>
               /\ <<k, r>> \in table' <=> <<k, r>> \in table
               /\ <<k, r>> \in cache' <=> <<k, r>> \in cache,
           ~Granting(q), task[c].at # "cached"
    PROVE  Grants'
<1>1. \A k \in Keys, r \in Rooms :
         <<k, r>> \in table \cup cache \cup handed \/ CachedFor(k, r) => r \in used
  BY DEF Shape, RoomsUsed, CachedFor, Settled
<1>2. \A k \in Keys, r \in Rooms : CachedFor(k, r)' <=> CachedFor(k, r)
  BY DEF CachedFor, Moves, Granting
<1>3. ASSUME NEW k \in Keys, NEW r \in Rooms, Exists(r)'
      PROVE  <<k, r>> \in table' <=> <<k, r>> \in cache' \/ CachedFor(k, r)'
  <2>1. CASE r \in used
    BY <1>2, <1>3, <2>1 DEF Grants
  <2>2. CASE r \notin used
    BY <1>1, <1>2, <2>2
  <2> QED BY <2>1, <2>2
<1>4. ASSUME NEW d \in Tasks, Granting(task'[d])
      PROVE  d # c /\ task'[d] = task[d] /\ FreshKey(task[d])
  <2>1. d # c
    BY <1>4 DEF Moves
  <2>2. task'[d] = task[d]
    BY <2>1 DEF Moves
  <2> QED BY <1>4, <2>1, <2>2 DEF Grants
<1>5. ASSUME NEW k \in Keys, NEW r \in Rooms, <<k, r>> \in handed', Exists(r)'
      PROVE  <<k, r>> \in cache'
  BY <1>1, <1>5 DEF Grants
<1>6. ASSUME NEW e \in Requests, FreshKey(e)
      PROVE  FreshKey(e)'
  BY <1>6 DEF FreshKey
<1>7. \A d \in Tasks : task'[d] \in Requests
  BY DEF Moves
<1>8. ASSUME NEW d \in Tasks, NEW e \in Requests, e = task'[d], Granting(e)
      PROVE  FreshKey(e)'
  BY <1>4, <1>6, <1>8
<1>9. Members \subseteq apiKeys'
  BY DEF Grants
<1>10. \A d, e \in Tasks :
          d # e /\ Granting(task'[d]) /\ Granting(task'[e]) => task'[d].key # task'[e].key
  BY <1>4 DEF Grants
<1> QED BY <1>3, <1>5, <1>7, <1>8, <1>9, <1>10 DEF Grants, Granting, FreshKey

LEMMA IdleGrants == ~Granting(Idle)
BY IdleType DEF Granting

(* Steps of requests that have nothing to do with grants. *)
LEMMA OtherGrants ==
    ASSUME Shape, Grants, NEW c \in Tasks,
           \/ TakeUp(c) \/ Publish(c) \/ Farewell(c) \/ RedeemRoom(c) \/ RenameRow(c)
           \/ InviteRow(c) \/ RevokeRow(c) \/ \E t \in Tokens : Redeem(c, t)
    PROVE  Grants'
<1>1. UNCHANGED <<used, apiKeys, table, cache, handed>>
  <2>1. CASE TakeUp(c)
    BY <2>1, TakeUpEnters DEF tables
  <2>2. CASE ~TakeUp(c)
    BY <2>2 DEF Publish, Farewell, RedeemRoom, RenameRow, InviteRow, RevokeRow, Redeem,
       tables, SameRest
  <2> QED BY <2>1, <2>2
<1>2. \A r \in used : Exists(r)' => Exists(r)
  <2>1. CASE RenameRow(c)
    BY <2>1, RenameRooms DEF Shape, TypeOK
  <2>2. CASE TakeUp(c)
    BY <2>2, TakeUpEnters DEF tables, Exists
  <2>3. CASE ~RenameRow(c) /\ ~TakeUp(c)
    BY <2>3 DEF Publish, Farewell, RedeemRoom, InviteRow, RevokeRow, Redeem,
       tables, SameRest, Exists
  <2> QED BY <2>1, <2>2, <2>3
<1>3. \E q \in Requests : Moves(c, q) /\ ~Granting(q) /\ task[c].at # "cached"
  <2>1. CASE TakeUp(c)
    BY <2>1, TakeUpEnters, EnterMoves, IdleType DEF Granting
  <2>2. CASE \E t \in Tokens : Redeem(c, t)
    BY <2>2, RedeemEnters, EnterMoves, IdleType DEF Granting
  <2>3. CASE InviteRow(c)
    BY <2>3, InviteRowMoves DEF Granting, InviteRow
  <2>4. CASE Finish(c) /\ task[c].at # "cached"
    BY <2>4, FinishMoves, IdleType, IdleGrants
  <2>5. CASE RedeemRoom(c) /\ ~Finish(c)
    <3>1. task[c].at = "redeem" /\ Step(c, "mint") /\ "mint" \in PCs
      BY <2>5 DEF RedeemRoom, PCs
    <3> QED BY <3>1, StepMoves DEF Granting
  <2>6. CASE RenameRow(c) /\ ~Finish(c)
    <3>1. task[c].at = "rename" /\ Step(c, "publish") /\ "publish" \in PCs
      BY <2>6 DEF RenameRow, PCs
    <3> QED BY <3>1, StepMoves DEF Granting
  <2>7. CASE Publish(c) \/ Farewell(c) \/ RevokeRow(c)
    BY <2>4, <2>7 DEF Publish, Farewell, RevokeRow
  <2>8. RedeemRoom(c) \/ RenameRow(c) => task[c].at # "cached"
    BY DEF RedeemRoom, RenameRow
  <2> QED BY <2>1, <2>2, <2>3, <2>4, <2>5, <2>6, <2>7, <2>8
<1>4. PICK q \in Requests : Moves(c, q) /\ ~Granting(q) /\ task[c].at # "cached"
  BY <1>3
<1> QED BY <1>1, <1>2, <1>4, GrantsMoves

LEMMA CreateRowGrants ==
    ASSUME Shape, Grants, NEW c \in Tasks, CreateRow(c)
    PROVE  Grants'
<1>1. UNCHANGED <<apiKeys, table, cache, handed>> /\ task[c].at = "create"
  BY DEF CreateRow, SameRest
<1>2. CASE Finish(c)
  <2>1. UNCHANGED rooms
    <3>1. task \in [Tasks -> Requests]
      BY DEF Shape, TypeOK
    <3>2. task'[c].at # "publish"
      BY <1>2, <3>1, IdleType DEF Finish
    <3> QED BY <3>1, <3>2 DEF CreateRow, Requests
  <2>2. \A r \in used : Exists(r)' => Exists(r)
    BY <2>1 DEF Exists
  <2> QED BY <1>1, <1>2, <2>2, FinishMoves, IdleType, IdleGrants, GrantsMoves
<1>3. CASE ~Finish(c)
  <2>1. PICK r \in Rooms \ used, s \in Requests :
          /\ Moves(c, s) /\ s.at = "publish"
          /\ \A x \in Rooms : Exists(x)' <=> Exists(x) \/ x = r
    BY <1>3, CreateRooms
  <2>2. \A x \in used : Exists(x)' => Exists(x)
    BY <2>1 DEF Shape, TypeOK
  <2>3. ~Granting(s)
    BY <2>1 DEF Granting
  <2> QED BY <1>1, <2>1, <2>2, <2>3, GrantsMoves
<1> QED BY <1>2, <1>3

LEMMA DestroyGrants ==
    ASSUME Shape, Fate, Grants, NEW c \in Tasks,
           DestroyRow(c) \/ DestroyPurge(c) \/ InviteCheck(c) \/ Sweep(c)
    PROVE  Grants'
<1>1. CASE DestroyRow(c) /\ ~Finish(c)
  <2>1. PICK s \in Requests : Moves(c, s) /\ s.at = "purge"
    BY <1>1, DestroyRooms
  <2>2. /\ \A x \in Rooms : Exists(x)' <=> Exists(x) /\ x # task[c].room
        /\ table' = {g \in table : g[2] # task[c].room}
        /\ UNCHANGED <<apiKeys, cache, handed>>
    BY <1>1, DestroyRooms
  <2>3. \A x \in used : Exists(x)' => Exists(x) /\ x # task[c].room
    BY <2>2 DEF Shape, TypeOK
  <2>4. ~Granting(s) /\ task[c].at # "cached"
    BY <1>1, <2>1 DEF Granting, DestroyRow
  <2> QED BY <2>1, <2>2, <2>3, <2>4, GrantsMoves
<1>2. CASE DestroyRow(c) /\ Finish(c)
  <2>1. task \in [Tasks -> Requests] /\ task[c].at = "delete"
    BY <1>2 DEF Shape, TypeOK, DestroyRow
  <2>2. task'[c].at # "purge"
    BY <1>2, <2>1, IdleType DEF Finish
  <2>3. UNCHANGED <<rooms, apiKeys, table, cache, handed>>
    BY <1>2, <2>1, <2>2 DEF DestroyRow, Requests, SameRest
  <2>4. \A r \in used : Exists(r)' => Exists(r)
    BY <2>3 DEF Exists
  <2> QED BY <1>2, <2>1, <2>3, <2>4, FinishMoves, IdleType, IdleGrants, GrantsMoves
<1>3. CASE DestroyPurge(c) \/ InviteCheck(c) \/ Sweep(c)
  <2> DEFINE r == task[c].room
  <2>1. UNCHANGED <<rooms, used, apiKeys, handed>> /\ task[c].at # "cached"
    BY <1>3 DEF DestroyPurge, InviteCheck, Sweep, tables, SameRest
  <2>2. /\ table' = table \/ (table' = {g \in table : g[2] # r} /\ ~Exists(r))
        /\ cache' = cache \/ (cache' = {g \in cache : g[2] # r} /\ ~Exists(r))
    <3>1. DestroyPurge(c) \/ Sweep(c) => ~Exists(r)
      BY DEF DestroyPurge, Sweep, Fate
    <3>2. InviteCheck(c) /\ r \in tombstones => ~Exists(r)
      BY DEF Fate
    <3> QED BY <1>3, <3>1, <3>2 DEF DestroyPurge, InviteCheck, Sweep, tables
  <2>3. PICK q \in Requests : Moves(c, q) /\ ~Granting(q)
    <3>1. "farewell" \in PCs /\ "sweep" \in PCs
      BY DEF PCs
    <3> QED BY <1>3, <3>1, StepMoves, FinishMoves, IdleType, IdleGrants
            DEF DestroyPurge, InviteCheck, Sweep, Granting
  <2>4. \A x \in used : Exists(x)' <=> Exists(x)
    BY <2>1 DEF Exists
  <2>5. /\ table' \subseteq table /\ cache' \subseteq cache
        /\ \A k \in Keys, x \in used : Exists(x)' =>
               /\ <<k, x>> \in table' <=> <<k, x>> \in table
               /\ <<k, x>> \in cache' <=> <<k, x>> \in cache
    <3>1. table' \subseteq table /\ cache' \subseteq cache
      BY <2>2
    <3>2. ASSUME NEW k \in Keys, NEW x \in used, Exists(x)'
          PROVE  /\ <<k, x>> \in table' <=> <<k, x>> \in table
                 /\ <<k, x>> \in cache' <=> <<k, x>> \in cache
      <4>1. Exists(x)
        BY <2>4, <3>2
      <4> QED BY <2>2, <4>1
    <3> QED BY <3>1, <3>2
  <2> QED BY <2>1, <2>3, <2>4, <2>5, GrantsMoves
<1> QED BY <1>1, <1>2, <1>3

(* The steps of a redemption, and what each does to its request. *)
LEMMA RedeemKeyMoves ==
    ASSUME Shape, NEW c \in Tasks, RedeemKey(c)
    PROVE  \/ Finish(c) /\ UNCHANGED apiKeys
           \/ \E k \in Keys \ apiKeys, q \in Requests :
                /\ apiKeys' = apiKeys \cup {k} /\ Moves(c, q)
                /\ q.at = "grant" /\ q.key = k /\ q.room = task[c].room
<1>1. SUFFICES ASSUME NEW k \in Keys \ apiKeys, apiKeys' = apiKeys \cup {k},
                      task' = [task EXCEPT ![c].at = "grant", ![c].key = k]
               PROVE  \E q \in Requests :
                        /\ Moves(c, q) /\ q.at = "grant" /\ q.key = k
                        /\ q.room = task[c].room
  BY DEF RedeemKey
<1> DEFINE q == [task[c] EXCEPT !.at = "grant", !.key = k]
<1>2. task \in [Tasks -> Requests] /\ task[c] \in Requests
  BY DEF Shape, TypeOK
<1>3. q \in Requests /\ q.at = "grant" /\ q.key = k /\ q.room = task[c].room
  BY <1>2 DEF Requests, PCs
<1>4. task' = [task EXCEPT ![c] = q]
  BY <1>1
<1> HIDE DEF q
<1> QED BY <1>2, <1>3, <1>4 DEF Moves

LEMMA RedeemKeyGrants ==
    ASSUME Shape, Grants, NEW c \in Tasks, RedeemKey(c)
    PROVE  Grants'
<1>1. /\ UNCHANGED <<rooms, used, table, cache, handed>> /\ task[c].at = "mint"
      /\ \A r : Exists(r)' <=> Exists(r)
  BY DEF RedeemKey, SameRest, Exists
<1>2. CASE Finish(c) /\ UNCHANGED apiKeys
  BY <1>1, <1>2, FinishMoves, IdleType, IdleGrants, GrantsMoves
<1>3. CASE ~(Finish(c) /\ UNCHANGED apiKeys)
  <2>1. PICK k \in Keys \ apiKeys, q \in Requests :
          /\ apiKeys' = apiKeys \cup {k} /\ Moves(c, q)
          /\ q.at = "grant" /\ q.key = k
    BY <1>3, RedeemKeyMoves
  <2>2. /\ \A r \in Rooms : <<k, r>> \notin table /\ <<k, r>> \notin cache
                            /\ <<k, r>> \notin handed
        /\ k \notin Members
        /\ \A d \in Tasks : Granting(task[d]) => task[d].key # k
    BY <2>1 DEF Shape, TypeOK, Settled, Granting, Grants
  <2>3. FreshKey(q)
    BY <2>1, <2>2 DEF FreshKey
  <2>4. \A x \in Keys, r \in Rooms : CachedFor(x, r)' <=> CachedFor(x, r)
    BY <1>1, <2>1 DEF CachedFor, Moves
  <2>5. \A d \in Tasks : Granting(task'[d]) => d = c \/ (task'[d] = task[d] /\ Granting(task[d]))
    BY <2>1 DEF Moves
  <2>6. task'[c] = q
    BY <2>1 DEF Moves
  <2>7. \A d \in Tasks : Granting(task'[d]) => FreshKey(task'[d])
    BY <2>3, <2>5, <2>6 DEF Grants
  <2>8. \A d, e \in Tasks :
          d # e /\ Granting(task'[d]) /\ Granting(task'[e]) => task'[d].key # task'[e].key
    BY <2>1, <2>2, <2>5, <2>6 DEF Grants
  <2>9. Members \subseteq apiKeys'
    BY <2>1 DEF Grants
  <2>10. \A x \in Keys, r \in Rooms : Exists(r)' =>
           (<<x, r>> \in table' <=> <<x, r>> \in cache' \/ CachedFor(x, r)')
    BY <1>1, <2>4 DEF Grants
  <2>11. \A x \in Keys, r \in Rooms :
           <<x, r>> \in handed' /\ Exists(r)' => <<x, r>> \in cache'
    BY <1>1 DEF Grants
  <2> QED BY <1>1, <2>7, <2>8, <2>9, <2>10, <2>11 DEF Grants, Granting, FreshKey
<1> QED BY <1>2, <1>3

LEMMA GrantRowGrants ==
    ASSUME Shape, Grants, NEW c \in Tasks, GrantRow(c)
    PROVE  Grants'
<1> DEFINE k == task[c].key
           g == <<k, task[c].room>>
<1>1. /\ UNCHANGED <<rooms, used, apiKeys, cache, handed>> /\ task[c].at = "grant"
      /\ \A r : Exists(r)' <=> Exists(r)
      /\ k \in Keys /\ task[c].room \in Rooms /\ FreshKey(task[c])
  BY DEF GrantRow, SameRest, Exists, Shape, TypeOK, Settled, Grants, Granting
<1>2. CASE Finish(c) /\ UNCHANGED table
  BY <1>1, <1>2, FinishMoves, IdleType, IdleGrants, GrantsMoves
<1>3. CASE table' = table \cup {g} /\ Step(c, "cached")
  <2>1. PICK q \in Requests : /\ Moves(c, q) /\ q.at = "cached"
                              /\ q.key = k /\ q.room = task[c].room
    <3>1. "cached" \in PCs
      BY DEF PCs
    <3> QED BY <1>3, <3>1, StepMoves
  <2>2. \A d \in Tasks : Granting(task'[d]) =>
           d = c \/ (d # c /\ task'[d] = task[d] /\ Granting(task[d]) /\ task[d].key # k)
    BY <1>1, <2>1 DEF Moves, Grants, Granting
  <2>3. task'[c] = q
    BY <2>1 DEF Moves
  <2>4. \A x \in Keys, r \in Rooms :
           CachedFor(x, r)' <=> CachedFor(x, r) \/ (x = k /\ r = task[c].room)
    BY <1>1, <2>1 DEF CachedFor, Moves
  <2>5. \A x \in Keys, r \in Rooms :
           <<x, r>> \in table' <=> <<x, r>> \in table \/ (x = k /\ r = task[c].room)
    BY <1>3
  <2>6. \A x \in Keys, r \in Rooms : Exists(r)' =>
           (<<x, r>> \in table' <=> <<x, r>> \in cache' \/ CachedFor(x, r)')
    BY <1>1, <2>4, <2>5 DEF Grants
  <2>7. q.key \notin Members /\ \A r \in Rooms :
           /\ <<q.key, r>> \notin cache' /\ <<q.key, r>> \notin handed'
           /\ <<q.key, r>> \in table' => r = q.room
    BY <1>1, <2>1, <2>5 DEF FreshKey
  <2>8. ASSUME NEW d \in Tasks, NEW e \in Requests, e = task'[d], Granting(e)
        PROVE  FreshKey(e)'
    <3>1. CASE d = c
      BY <2>1, <2>3, <2>7, <2>8, <3>1 DEF FreshKey
    <3>2. CASE d # c
      <4>1. e = task[d] /\ e.key # k /\ FreshKey(e)
        BY <2>2, <2>8, <3>2 DEF Grants
      <4>2. e.key \in Keys
        BY <2>8, <4>1 DEF Shape, TypeOK, Settled, Granting
      <4> QED BY <1>1, <2>5, <4>1, <4>2 DEF FreshKey
    <3> QED BY <3>1, <3>2
  <2>9. \A d \in Tasks : task'[d] \in Requests
    BY <2>1 DEF Moves
  <2>10. \A d, e \in Tasks :
          d # e /\ Granting(task'[d]) /\ Granting(task'[e]) => task'[d].key # task'[e].key
    BY <2>1, <2>2, <2>3 DEF Grants
  <2>11. /\ Members \subseteq apiKeys'
         /\ \A x \in Keys, r \in Rooms :
              <<x, r>> \in handed' /\ Exists(r)' => <<x, r>> \in cache'
    BY <1>1 DEF Grants
  <2> QED BY <2>6, <2>8, <2>9, <2>10, <2>11 DEF Grants, Granting, FreshKey
<1> QED BY <1>2, <1>3 DEF GrantRow

LEMMA GrantCacheGrants ==
    ASSUME Shape, Grants, NEW c \in Tasks, GrantCache(c)
    PROVE  Grants'
<1> DEFINE k == task[c].key
           g == <<k, task[c].room>>
<1>1. /\ UNCHANGED <<rooms, used, apiKeys, table>> /\ task[c].at = "cached" /\ Finish(c)
      /\ \A r : Exists(r)' <=> Exists(r)
      /\ k \in Keys /\ task[c].room \in Rooms
      /\ cache' = cache \cup {g} /\ handed' = handed \cup {g}
  BY DEF GrantCache, tables, Exists, Shape, TypeOK, Settled
<1>2. Moves(c, Idle)
  BY <1>1, FinishMoves
<1>3. \A d \in Tasks : Granting(task'[d]) =>
         d # c /\ task'[d] = task[d] /\ Granting(task[d]) /\ task[d].key # k
  BY <1>1, <1>2, IdleGrants DEF Moves, Grants, Granting
<1>4. \A x \in Keys, r \in Rooms :
         CachedFor(x, r) <=> CachedFor(x, r)' \/ (x = k /\ r = task[c].room)
  BY <1>1, <1>2, IdleType DEF CachedFor, Moves
<1>5. \A x \in Keys, r \in Rooms :
         /\ <<x, r>> \in cache' <=> <<x, r>> \in cache \/ (x = k /\ r = task[c].room)
         /\ <<x, r>> \in handed' <=> <<x, r>> \in handed \/ (x = k /\ r = task[c].room)
  BY <1>1
<1>6. \A x \in Keys, r \in Rooms : Exists(r)' =>
         (<<x, r>> \in table' <=> <<x, r>> \in cache' \/ CachedFor(x, r)')
  BY <1>1, <1>4, <1>5 DEF Grants
<1>7. ASSUME NEW d \in Tasks, NEW e \in Requests, e = task'[d], Granting(e)
      PROVE  FreshKey(e)'
  <2>1. e = task[d] /\ e.key # k /\ FreshKey(e)
    BY <1>3, <1>7 DEF Grants
  <2>2. e.key \in Keys
    BY <1>7, <2>1 DEF Shape, TypeOK, Settled, Granting
  <2> QED BY <1>1, <1>5, <2>1, <2>2 DEF FreshKey
<1>8. \A d \in Tasks : task'[d] \in Requests
  BY <1>2 DEF Moves
<1>9. \A d, e \in Tasks :
        d # e /\ Granting(task'[d]) /\ Granting(task'[e]) => task'[d].key # task'[e].key
  BY <1>3 DEF Grants
<1>10. Members \subseteq apiKeys'
  BY <1>1 DEF Grants
<1>11. \A x \in Keys, r \in Rooms :
         <<x, r>> \in handed' /\ Exists(r)' => <<x, r>> \in cache'
  BY <1>1, <1>5 DEF Grants
<1> QED BY <1>6, <1>7, <1>8, <1>9, <1>10, <1>11 DEF Grants, Granting, FreshKey

LEMMA RestartGrants ==
    ASSUME Shape, Grants, Restart
    PROVE  Grants'
<1>1. /\ UNCHANGED <<rooms, apiKeys, table, handed>> /\ cache' = table
      /\ task' = [c \in Tasks |-> Idle]
  BY DEF Restart, tables
<1>2. \A c \in Tasks : task'[c].at = "idle"
  BY <1>1, IdleType
<1>3. \A k \in Keys, r \in Rooms : <<k, r>> \in handed /\ Exists(r) => <<k, r>> \in table
  BY DEF Grants
<1> QED BY <1>1, <1>2, <1>3 DEF Grants, Granting, CachedFor, Exists

LEMMA StepGrants == Shape /\ Fate /\ Grants /\ [Next]_vars => Grants'
<1> SUFFICES ASSUME Shape, Fate, Grants, [Next]_vars PROVE Grants'
  OBVIOUS
<1>1. CASE UNCHANGED vars \/ \E k \in Keys : Signup(k)
  <2>1. /\ UNCHANGED <<rooms, table, cache, task, handed>> /\ apiKeys \subseteq apiKeys'
    BY <1>1 DEF vars, tables, Signup, SameRest
  <2> QED BY <2>1 DEF Grants, Granting, FreshKey, CachedFor, Exists
<1>2. ASSUME NEW c \in Tasks,
             \/ TakeUp(c) \/ \E t \in Tokens : Redeem(c, t)
             \/ CreateRow(c) \/ RenameRow(c) \/ Publish(c)
             \/ DestroyRow(c) \/ DestroyPurge(c) \/ Farewell(c)
             \/ InviteRow(c) \/ InviteCheck(c) \/ Sweep(c) \/ RevokeRow(c)
             \/ RedeemRoom(c) \/ RedeemKey(c) \/ GrantRow(c) \/ GrantCache(c)
      PROVE  Grants'
  BY <1>2, OtherGrants, CreateRowGrants, DestroyGrants, RedeemKeyGrants,
     GrantRowGrants, GrantCacheGrants
<1> QED BY <1>1, <1>2, RestartGrants DEF Next, TakeUp

(* A key that web.rs has answered opens the room of its invite as long as  *)
(* there is one, across restarts, and the web API lists for every client   *)
(* the rooms that agents see: set_grant writes the table before the cache, *)
(* and only rooms that are gone are purged from either.                    *)
THEOREM HandedKeys == Spec => []HandedKeysOpen
<1> DEFINE IInv == Shape /\ Fate /\ Grants
<1>1. Init => IInv
  BY InitShape, InitFate, InitGrants
<1>2. IInv /\ [Next]_vars => IInv'
  BY StepShape, StepFate, StepGrants
<1>3. IInv => HandedKeysOpen
  <2> SUFFICES ASSUME Shape, Grants PROVE HandedKeysOpen
    OBVIOUS
  <2>1. Clients \subseteq Keys
    BY ClientKeys
  <2>2. ASSUME NEW k \in Clients, NEW r \in Rooms, Exists(r)
        PROVE  <<k, r>> \in table <=> <<k, r>> \in cache
    <3>1. ~CachedFor(k, r)
      <4>1. SUFFICES ASSUME CachedFor(k, r) PROVE FALSE
        OBVIOUS
      <4>2. PICK c \in Tasks : task[c].at = "cached" /\ task[c].key = k
        BY <4>1 DEF CachedFor
      <4>3. k \notin Members /\ \A x \in Rooms : <<k, x>> \notin handed
        BY <4>2 DEF Grants, Granting, FreshKey
      <4>4. \A h \in handed : h = <<h[1], h[2]>> /\ h[2] \in Rooms
        BY DEF Shape, TypeOK
      <4> QED BY <4>3, <4>4 DEF Clients
    <3> QED BY <2>1, <2>2, <3>1 DEF Grants
  <2>3. \A k \in Clients : WebListing(k) = AgentListing(k)
    BY <2>2 DEF WebListing, AgentListing, Authorized, CanAccess
  <2>4. ASSUME NEW h \in handed, Exists(h[2])
        PROVE  h[2] \in AgentListing(h[1])
    <3>1. h = <<h[1], h[2]>> /\ h[1] \in Keys /\ h[2] \in Rooms
      BY DEF Shape, TypeOK
    <3>2. <<h[1], h[2]>> \in cache
      BY <2>4, <3>1 DEF Grants
    <3> QED BY <2>4, <3>1, <3>2 DEF AgentListing, Authorized, CanAccess
  <2> QED BY <2>3, <2>4 DEF HandedKeysOpen
<1> QED BY <1>1, <1>2, <1>3, PTL DEF Spec

-----------------------------------------------------------------------------
(* The server implements RoomAccess: every step is one of its steps, or    *)
(* changes nothing that it has.                                            *)

LEMMA InitAccess == Init => Access!Init
<1> SUFFICES ASSUME Init PROVE Access!Init
  OBVIOUS
<1>1. OpenRooms \subseteq Rooms
  BY DEF OpenRooms
<1>2. Guests = {}
  BY DEF Init, Guests
<1>3. Seats = [t \in Tokens |-> Access!Unmade]
  BY DEF Init, Seats, SeatOf, Access!Unmade
<1>4. Arriving = [c \in Tasks |-> None]
  BY IdleType DEF Init, Arriving, ArrivingAt, OnTheWay
<1> QED BY <1>1, <1>2, <1>3, <1>4 DEF Access!Init

(* A step of a request changes where that request is on its way to. *)
LEMMA ArrivingMoves ==
    ASSUME Shape, NEW c \in Tasks, NEW q \in Requests, Moves(c, q),
           \A r \in used : Exists(r)' <=> Exists(r)
    PROVE  Arriving' = [Arriving EXCEPT ![c] =
               IF q.at \in OnTheWay /\ Exists(q.room)' THEN q.room ELSE None]
<1>1. ASSUME NEW d \in Tasks \ {c}
      PROVE  ArrivingAt(task[d])' = ArrivingAt(task[d])
  <2>1. task'[d] = task[d]
    BY DEF Moves
  <2>2. task[d].at \in OnTheWay => task[d].room \in used
    BY DEF Shape, Settled, OnTheWay
  <2> QED BY <2>1, <2>2 DEF ArrivingAt, Exists
<1>2. ArrivingAt(task[c])' =
          IF q.at \in OnTheWay /\ Exists(q.room)' THEN q.room ELSE None
  BY DEF Moves, ArrivingAt, Exists
<1> QED BY <1>1, <1>2 DEF Arriving

LEMMA ArrivingSame ==
    ASSUME Shape, NEW c \in Tasks, NEW q \in Requests, Moves(c, q),
           \A r \in used : Exists(r)' <=> Exists(r),
           q.at \in OnTheWay <=> task[c].at \in OnTheWay,
           q.at \in OnTheWay => q.room = task[c].room
    PROVE  Arriving' = Arriving
<1>1. task[c].at \in OnTheWay => task[c].room \in used
  BY DEF Shape, Settled, OnTheWay
<1>2. (IF q.at \in OnTheWay /\ Exists(q.room)' THEN q.room ELSE None) = ArrivingAt(task[c])
  BY <1>1 DEF ArrivingAt
<1>3. Arriving' = [Arriving EXCEPT ![c] = ArrivingAt(task[c])]
  BY <1>2, ArrivingMoves
<1>4. Arriving[c] = ArrivingAt(task[c])
  BY DEF Arriving
<1> QED BY <1>3, <1>4 DEF Arriving

(* Marks on invites that leave the seat alone. *)
LEMMA SeatsSame ==
    ASSUME Shape, \A r \in used : Exists(r)' <=> Exists(r), made' = made,
           \A t \in Tokens : \/ invites'[t] = invites[t]
                             \/ /\ invites'[t].room = invites[t].room
                                /\ invites'[t].single = invites[t].single
                                /\ invites'[t].revoked = invites[t].revoked
                             \/ /\ invites'[t].revoked
                                /\ invites[t].revoked \/ ~Exists(invites[t].room)
    PROVE  Seats' = Seats
<1>1. ASSUME NEW t \in Tokens PROVE SeatOf(t)' = SeatOf(t)
  <2>1. invites[t] = NoInvite \/ invites[t].room \in used
    BY DEF Shape, RoomsUsed
  <2>2. invites[t] = NoInvite => invites[t].revoked
    BY DEF NoInvite
  <2> QED BY <2>1, <2>2 DEF SeatOf, Exists
<1> QED BY <1>1 DEF Seats

LEMMA GuestsSame ==
    ASSUME Shape, \A r \in used : Exists(r)' <=> Exists(r),
           \/ cache' = cache
           \/ \E r \in Rooms : ~Exists(r) /\ cache' = {g \in cache : g[2] # r}
    PROVE  Guests' = Guests
<1>1. \A g \in cache : g[2] \in used /\ (Exists(g[2])' <=> Exists(g[2]))
  BY DEF Shape, RoomsUsed
<1> QED BY <1>1 DEF Guests, Exists

LEMMA OpenSame ==
    ASSUME \A r \in Rooms : Exists(r)' <=> Exists(r)
    PROVE  OpenRooms' = OpenRooms
BY DEF OpenRooms

LEMMA IdleArrives == Idle.at \notin OnTheWay
BY IdleType DEF OnTheWay

(* Steps that RoomAccess does not see. *)
LEMMA HiddenSteps ==
    ASSUME Shape, Fate, NEW c \in Tasks,
           \/ TakeUp(c) \/ Publish(c) \/ Farewell(c) \/ Sweep(c) \/ RenameRow(c)
           \/ RedeemRoom(c)
    PROVE  UNCHANGED Access!vars
<1>1. UNCHANGED <<used, invites, made>>
  <2>1. CASE TakeUp(c)
    BY <2>1, TakeUpEnters DEF tables
  <2>2. CASE ~TakeUp(c)
    BY <2>2 DEF Publish, Farewell, Sweep, RenameRow, RedeemRoom, tables, SameRest
  <2> QED BY <2>1, <2>2
<1>2. \A r \in Rooms : Exists(r)' <=> Exists(r)
  <2>1. CASE RenameRow(c)
    BY <2>1, RenameRooms
  <2>2. CASE TakeUp(c)
    BY <2>2, TakeUpEnters DEF tables, Exists
  <2>3. CASE ~RenameRow(c) /\ ~TakeUp(c)
    BY <2>3 DEF Publish, Farewell, Sweep, RedeemRoom, tables, SameRest, Exists
  <2> QED BY <2>1, <2>2, <2>3
<1>3. \A r \in used : Exists(r)' <=> Exists(r)
  BY <1>2 DEF Shape, TypeOK
<1>4. \/ cache' = cache
      \/ \E r \in Rooms : ~Exists(r) /\ cache' = {g \in cache : g[2] # r}
  <2>1. CASE Sweep(c)
    BY <2>1 DEF Sweep, Fate, Shape, TypeOK, Settled
  <2>2. CASE TakeUp(c)
    BY <2>2, TakeUpEnters
  <2>3. CASE ~Sweep(c) /\ ~TakeUp(c)
    BY <2>3 DEF Publish, Farewell, RenameRow, RedeemRoom, tables, SameRest
  <2> QED BY <2>1, <2>2, <2>3
<1>5. Arriving' = Arriving
  <2>1. CASE RedeemRoom(c)
    <3>1. task[c].at = "redeem" /\ task[c].room \in used /\ rooms' = rooms
      BY <2>1 DEF RedeemRoom, tables, Shape, Settled
    <3>2. CASE Exists(task[c].room)
      <4>1. Step(c, "mint") /\ "mint" \in PCs
        BY <2>1, <3>2 DEF RedeemRoom, PCs
      <4>2. PICK q \in Requests : Moves(c, q) /\ q.at = "mint" /\ q.room = task[c].room
        BY <4>1, StepMoves
      <4> QED BY <1>3, <3>1, <4>2, ArrivingSame DEF OnTheWay
    <3>3. CASE ~Exists(task[c].room)
      <4>1. Moves(c, Idle)
        BY <2>1, <3>3, FinishMoves DEF RedeemRoom
      <4>2. Arriving' = [Arriving EXCEPT ![c] = None]
        BY <1>3, <4>1, IdleType, IdleArrives, ArrivingMoves
      <4>3. Arriving[c] = None
        BY <3>3 DEF Arriving, ArrivingAt
      <4> QED BY <4>2, <4>3 DEF Arriving
    <3> QED BY <3>2, <3>3
  <2>2. CASE ~RedeemRoom(c)
    <3>1. PICK q \in Requests :
            Moves(c, q) /\ q.at \notin OnTheWay /\ task[c].at \notin OnTheWay
      <4>1. CASE TakeUp(c)
        BY <4>1, TakeUpEnters, EnterMoves, IdleArrives DEF OnTheWay
      <4>2. CASE Publish(c) \/ Farewell(c) \/ Sweep(c)
        BY <4>2, FinishMoves, IdleType, IdleArrives DEF Publish, Farewell, Sweep, OnTheWay
      <4>3. CASE RenameRow(c)
        <5>1. task[c].at = "rename" /\ "publish" \in PCs
          BY <4>3 DEF RenameRow, PCs
        <5> QED BY <4>3, <5>1, FinishMoves, StepMoves, IdleType, IdleArrives
                DEF RenameRow, OnTheWay
      <4> QED BY <2>2, <4>1, <4>2, <4>3
    <3> QED BY <1>3, <3>1, ArrivingSame
  <2> QED BY <2>1, <2>2
<1>6. OpenRooms' = OpenRooms /\ Guests' = Guests /\ Seats' = Seats
  BY <1>1, <1>2, <1>3, <1>4, OpenSame, GuestsSame, SeatsSame
<1> QED BY <1>5, <1>6 DEF Access!vars

LEMMA HiddenPurge ==
    ASSUME Shape, Fate, NEW c \in Tasks, DestroyPurge(c) \/ InviteCheck(c)
    PROVE  UNCHANGED Access!vars
<1> DEFINE r == task[c].room
<1>1. /\ UNCHANGED <<rooms, used, made>> /\ r \in used /\ r \in Rooms
      /\ task[c].at \notin OnTheWay
  BY DEF DestroyPurge, InviteCheck, tables, SameRest, Shape, TypeOK, Settled, OnTheWay
<1>2. \A x : Exists(x)' <=> Exists(x)
  BY <1>1 DEF Exists
<1>3. /\ DestroyPurge(c) => ~Exists(r)
      /\ InviteCheck(c) /\ r \in tombstones => ~Exists(r)
  BY DEF DestroyPurge, Fate
<1>4. cache' = cache \/ (cache' = {g \in cache : g[2] # r} /\ ~Exists(r))
  BY <1>3 DEF DestroyPurge, InviteCheck
<1>5. PICK q \in Requests : Moves(c, q) /\ q.at \notin OnTheWay
  <2>1. "farewell" \in PCs /\ "sweep" \in PCs
    BY DEF PCs
  <2> QED BY <2>1, StepMoves, FinishMoves, IdleType, IdleArrives
          DEF DestroyPurge, InviteCheck, OnTheWay
<1>6. \A t \in Tokens : \/ invites'[t] = invites[t]
                        \/ /\ invites'[t].room = invites[t].room
                           /\ invites'[t].single = invites[t].single
                           /\ invites'[t].revoked = invites[t].revoked
                        \/ /\ invites'[t].revoked
                           /\ invites[t].revoked \/ ~Exists(invites[t].room)
  <2>1. CASE DestroyPurge(c)
    BY <2>1 DEF DestroyPurge, tables
  <2>2. CASE InviteCheck(c) /\ r \in tombstones
    <3>1. invites' = [t \in Tokens |->
                IF invites[t].room = r THEN NoInvite ELSE invites[t]]
      BY <2>2 DEF InviteCheck
    <3> QED BY <1>3, <2>2, <3>1 DEF NoInvite
  <2>3. CASE InviteCheck(c) /\ r \notin tombstones
    <3> DEFINE x == task[c].token
    <3>1. invites' = IF invites[x] = NoInvite THEN invites
                     ELSE [invites EXCEPT ![x].told = TRUE]
      BY <2>3 DEF InviteCheck
    <3>2. x \in Tokens /\ invites \in [Tokens -> Invites \cup {NoInvite}]
      BY <2>3 DEF InviteCheck, Shape, TypeOK, Settled
    <3>3. CASE invites[x] # NoInvite
      <4> DEFINE i == [invites[x] EXCEPT !.told = TRUE]
      <4>1. /\ i.room = invites[x].room /\ i.single = invites[x].single
            /\ i.revoked = invites[x].revoked
        BY <3>2, <3>3 DEF Invites
      <4>2. invites' = [invites EXCEPT ![x] = i]
        BY <3>1, <3>3
      <4> HIDE DEF i, x
      <4> QED BY <3>2, <4>1, <4>2
    <3> QED BY <3>1, <3>3
  <2> QED BY <2>1, <2>2, <2>3
<1> HIDE DEF r
<1> QED BY <1>1, <1>2, <1>4, <1>5, <1>6, OpenSame, GuestsSame, SeatsSame, ArrivingSame
        DEF Access!vars

LEMMA CreateOpens ==
    ASSUME Shape, NEW c \in Tasks, CreateRow(c)
    PROVE  [Access!Next]_(Access!vars)
<1>0. UNCHANGED <<invites, made, cache>> /\ task[c].at \notin OnTheWay
  BY DEF CreateRow, SameRest, OnTheWay
<1>1. CASE Finish(c)
  <2>1. UNCHANGED rooms
    <3>1. task \in [Tasks -> Requests]
      BY DEF Shape, TypeOK
    <3>2. task'[c].at # "publish"
      BY <1>1, <3>1, IdleType DEF Finish
    <3> QED BY <3>1, <3>2 DEF CreateRow, Requests
  <2>2. \A r : Exists(r)' <=> Exists(r)
    BY <2>1 DEF Exists
  <2>3. Moves(c, Idle)
    BY <1>1, FinishMoves
  <2> QED BY <1>0, <2>2, <2>3, IdleType, IdleArrives, OpenSame, GuestsSame, SeatsSame,
          ArrivingSame DEF Access!vars
<1>2. CASE ~Finish(c)
  <2>1. PICK r \in Rooms \ used, s \in Requests :
          /\ Moves(c, s) /\ s.at = "publish"
          /\ \A x \in Rooms : Exists(x)' <=> Exists(x) \/ x = r
    BY <1>2, CreateRooms
  <2>2. \A x \in used : Exists(x)' <=> Exists(x)
    BY <2>1 DEF Shape, TypeOK
  <2>3. ~Exists(r)
    BY DEF Shape, TypeOK
  <2>4. r \notin OpenRooms /\ OpenRooms' = OpenRooms \cup {r}
    BY <2>1, <2>3 DEF OpenRooms
  <2>5. Arriving' = Arriving
    BY <1>0, <2>1, <2>2, ArrivingSame DEF OnTheWay
  <2>6. Guests' = Guests /\ Seats' = Seats
    BY <1>0, <2>2, GuestsSame, SeatsSame
  <2>7. Access!Open(r)
    BY <2>4, <2>5, <2>6 DEF Access!Open
  <2> QED BY <2>7 DEF Access!Next
<1> QED BY <1>1, <1>2

LEMMA DestroyEnds ==
    ASSUME Shape, NEW c \in Tasks, DestroyRow(c)
    PROVE  [Access!Next]_(Access!vars)
<1>0. task[c].at \notin OnTheWay
  BY DEF DestroyRow, OnTheWay
<1>1. CASE Finish(c)
  <2>1. task \in [Tasks -> Requests] /\ task[c].at = "delete"
    BY DEF Shape, TypeOK, DestroyRow
  <2>2. task'[c].at # "purge"
    BY <1>1, <2>1, IdleType DEF Finish
  <2>3. UNCHANGED <<rooms, used, invites, made, cache>>
    BY <2>1, <2>2 DEF DestroyRow, Requests, SameRest
  <2>4. \A r : Exists(r)' <=> Exists(r)
    BY <2>3 DEF Exists
  <2>5. Moves(c, Idle)
    BY <1>1, FinishMoves
  <2> QED BY <1>0, <2>3, <2>4, <2>5, IdleType, IdleArrives, OpenSame, GuestsSame, SeatsSame,
          ArrivingSame DEF Access!vars
<1>2. CASE ~Finish(c)
  <2> DEFINE r == task[c].room
  <2>1. PICK s \in Requests : Moves(c, s) /\ s.at = "purge"
    BY <1>2, DestroyRooms
  <2>2. /\ r \in Rooms /\ Exists(r)
        /\ \A x \in Rooms : Exists(x)' <=> Exists(x) /\ x # r
        /\ invites' = [t \in Tokens |->
                   IF invites[t].room = r THEN NoInvite ELSE invites[t]]
        /\ UNCHANGED <<used, made, cache>>
    BY <1>2, DestroyRooms
  <2> HIDE DEF r
  <2>3. r \in OpenRooms /\ OpenRooms' = OpenRooms \ {r}
    BY <2>2 DEF OpenRooms
  <2>4. Guests' = {g \in Guests : g[2] # r}
    <3>1. \A g \in cache : g[2] \in Rooms
      BY DEF Shape, TypeOK
    <3>2. \A g \in cache : Exists(g[2])' <=> Exists(g[2]) /\ g[2] # r
      BY <2>2, <3>1
    <3> QED BY <2>2, <3>2 DEF Guests
  <2>5. Seats' = [t \in Tokens |-> IF Seats[t].room = r THEN Access!Spent ELSE Seats[t]]
    <3>1. ASSUME NEW t \in Tokens
          PROVE  SeatOf(t)' = IF SeatOf(t).room = r THEN Access!Spent ELSE SeatOf(t)
      <4>1. /\ invites[t] = NoInvite \/ (invites[t].room \in Rooms /\ t \in made)
            /\ r # None
        BY <2>2, Constants DEF Shape, TypeOK, RoomsUsed
      <4>2. CASE t \notin made
        BY <2>2, <4>1, <4>2 DEF SeatOf, Access!Spent
      <4>3. CASE t \in made /\ invites[t].room = r
        <5>1. SeatOf(t)' = Access!Spent
          BY <2>2, <4>3 DEF SeatOf, Access!Spent, NoInvite
        <5>2. SeatOf(t).room = r \/ SeatOf(t) = Access!Spent
          BY <4>3 DEF SeatOf, Access!Spent
        <5> QED BY <5>1, <5>2
      <4>4. CASE t \in made /\ invites[t].room # r
        <5>1. invites'[t] = invites[t]
          BY <2>2, <4>4
        <5>2. invites[t].revoked \/ (Exists(invites[t].room)' <=> Exists(invites[t].room))
          BY <2>2, <4>1, <4>4 DEF NoInvite
        <5>3. SeatOf(t)' = SeatOf(t)
          BY <2>2, <5>1, <5>2 DEF SeatOf, Exists
        <5>4. SeatOf(t).room # r
          BY <4>1, <4>4 DEF SeatOf
        <5> QED BY <5>3, <5>4
      <4> QED BY <4>2, <4>3, <4>4
    <3> QED BY <3>1 DEF Seats
  <2>6. Arriving' = [d \in Tasks |-> IF Arriving[d] = r THEN None ELSE Arriving[d]]
    <3>1. ASSUME NEW d \in Tasks
          PROVE  ArrivingAt(task[d])' = IF ArrivingAt(task[d]) = r THEN None
                                        ELSE ArrivingAt(task[d])
      <4>1. r # None
        BY <2>2, Constants
      <4>2. CASE d = c
        BY <1>0, <2>1, <4>2 DEF ArrivingAt, Moves, OnTheWay
      <4>3. CASE d # c
        <5>1. task'[d] = task[d]
          BY <2>1, <4>3 DEF Moves
        <5>2. task[d].at \in OnTheWay => task[d].room \in Rooms
          BY DEF Shape, TypeOK, Settled, OnTheWay
        <5> QED BY <2>2, <4>1, <5>1, <5>2 DEF ArrivingAt, Exists
      <4> QED BY <4>2, <4>3
    <3> QED BY <3>1 DEF Arriving
  <2>7. Access!End(r)
    BY <2>3, <2>4, <2>5, <2>6 DEF Access!End
  <2> QED BY <2>2, <2>7 DEF Access!Next
<1> QED BY <1>1, <1>2

(* A step that changes what one token is good for. *)
LEMMA SeatMoves ==
    ASSUME Shape, NEW t \in Tokens, \A r \in used : Exists(r)' <=> Exists(r),
           \A x \in Tokens \ {t} : /\ invites'[x] = invites[x]
                                   /\ x \in made' <=> x \in made
    PROVE  Seats' = [Seats EXCEPT ![t] = SeatOf(t)']
<1>1. ASSUME NEW x \in Tokens \ {t} PROVE SeatOf(x)' = SeatOf(x)
  <2>1. invites[x] = NoInvite \/ invites[x].room \in used
    BY DEF Shape, RoomsUsed
  <2>2. invites[x] = NoInvite => invites[x].revoked
    BY DEF NoInvite
  <2> QED BY <2>1, <2>2 DEF SeatOf, Exists
<1> QED BY <1>1 DEF Seats

LEMMA InviteInvites ==
    ASSUME Shape, NEW c \in Tasks, InviteRow(c)
    PROVE  Access!Next
<1> DEFINE r == task[c].room
           k == IF task[c].flag THEN "once" ELSE "many"
<1>1. PICK t \in Tokens \ made, s \in Requests :
             /\ Moves(c, s) /\ s.at = "check"
             /\ made' = made \cup {t}
             /\ invites'[t].room = r /\ invites'[t].single = task[c].flag
             /\ ~invites'[t].revoked
             /\ \A x \in Tokens \ {t} : invites'[x] = invites[x]
  BY InviteRowMoves
<1>2. /\ UNCHANGED <<rooms, used, cache>> /\ task[c].at = "invite" /\ r \in Rooms
      /\ k \in Access!Kinds
  BY DEF InviteRow, SameRest, Shape, TypeOK, Settled, Access!Kinds
<1>3. \A x : Exists(x)' <=> Exists(x)
  BY <1>2 DEF Exists
<1>4. Arriving' = Arriving
  BY <1>1, <1>2, <1>3, ArrivingSame DEF OnTheWay
<1>5. Guests' = Guests /\ OpenRooms' = OpenRooms
  BY <1>2, <1>3, GuestsSame, OpenSame
<1>6. SeatOf(t)' = IF r \in OpenRooms THEN [kind |-> k, room |-> r] ELSE Access!Spent
  BY <1>1, <1>2, <1>3 DEF SeatOf, OpenRooms, Access!Spent
<1>7. Seats' = [Seats EXCEPT ![t] = SeatOf(t)']
  BY <1>1, <1>3, SeatMoves
<1>8. Seats[t] = Access!Unmade
  BY <1>1 DEF Seats, SeatOf, Access!Unmade
<1> HIDE DEF r, k
<1>9. Access!Invite(t, r, k)
  BY <1>4, <1>5, <1>6, <1>7, <1>8 DEF Access!Invite
<1> QED BY <1>2, <1>9 DEF Access!Next

(* What an invite that may be taken is for RoomAccess. *)
LEMMA GoodSeat ==
    ASSUME Shape, NEW t \in Tokens, ~invites[t].revoked, Exists(invites[t].room)
    PROVE  /\ t \in made /\ invites[t] \in Invites
           /\ Seats[t].room = invites[t].room
           /\ Seats[t].kind = IF invites[t].single THEN "once" ELSE "many"
           /\ Seats[t] \in Access!Good
<1>1. invites[t] # NoInvite
  BY DEF NoInvite
<1>2. t \in made /\ invites[t] \in Invites
  BY <1>1 DEF Shape, TypeOK
<1> QED BY <1>2 DEF Seats, SeatOf, Invites, Access!Good, Access!Kinds

LEMMA RevokeRevokes ==
    ASSUME Shape, NEW c \in Tasks, RevokeRow(c)
    PROVE  [Access!Next]_(Access!vars)
<1>0. PICK t \in Tokens : t = task[c].name
  BY DEF RevokeRow, Shape, Settled
<1>1. /\ UNCHANGED <<rooms, used, made, cache>> /\ task[c].at = "revoke"
      /\ invites' = IF invites[t] = NoInvite THEN invites
                    ELSE [invites EXCEPT ![t].revoked = TRUE]
      /\ Moves(c, Idle)
  BY <1>0, FinishMoves DEF RevokeRow, SameRest
<1>2. \A x : Exists(x)' <=> Exists(x)
  BY <1>1 DEF Exists
<1>3. /\ Arriving' = Arriving /\ Guests' = Guests /\ OpenRooms' = OpenRooms
      /\ task[c].at \notin OnTheWay
  BY <1>1, <1>2, ArrivingSame, GuestsSame, OpenSame, IdleType, IdleArrives DEF OnTheWay
<1>4. CASE invites[t] = NoInvite
  <2>1. Seats' = Seats
    BY <1>1, <1>2, <1>4, SeatsSame
  <2> QED BY <1>3, <2>1 DEF Access!vars
<1>5. CASE invites[t] # NoInvite
  <2>1. invites' = [invites EXCEPT ![t].revoked = TRUE] /\ TRUE \in BOOLEAN
    BY <1>1, <1>5
  <2>2. invites'[t].revoked /\ \A x \in Tokens \ {t} : invites'[x] = invites[x]
    BY <1>1, <1>5, <2>1, MarkInvite
  <2>3. CASE invites[t].revoked \/ ~Exists(invites[t].room)
    <3>1. Seats' = Seats
      BY <1>1, <1>2, <2>2, <2>3, SeatsSame
    <3> QED BY <1>3, <3>1 DEF Access!vars
  <2>4. CASE ~(invites[t].revoked \/ ~Exists(invites[t].room))
    <3>1. Seats[t] \in Access!Good /\ t \in made
      BY <1>1, <2>4, GoodSeat
    <3>2. SeatOf(t)' = Access!Spent
      BY <1>1, <2>2, <3>1 DEF SeatOf, Access!Spent
    <3>3. Seats' = [Seats EXCEPT ![t] = SeatOf(t)']
      BY <1>1, <1>2, <2>2, SeatMoves
    <3>4. Access!Revoke(t)
      BY <1>3, <3>1, <3>2, <3>3 DEF Access!Revoke
    <3> QED BY <1>1, <3>4 DEF Access!Next
  <2> QED BY <2>3, <2>4
<1> QED BY <1>4, <1>5

LEMMA RedeemTakes ==
    ASSUME Shape, NEW c \in Tasks, NEW t \in Tokens, Redeem(c, t)
    PROVE  [Access!Next]_(Access!vars)
<1> DEFINE r == invites[t].room
<1>1. /\ UNCHANGED <<rooms, used, made, cache>> /\ ~invites[t].revoked
      /\ invites' = [invites EXCEPT ![t].revoked = invites[t].single]
      /\ invites[t] # NoInvite
  BY DEF Redeem, SameRest, Held, NoInvite
<1>2. /\ invites[t] \in Invites /\ r \in used /\ r \in Rooms
      /\ invites[t].single \in BOOLEAN /\ invites[t].revoked \in BOOLEAN
  BY RedeemEnters DEF Invites
<1>3. PICK q \in Requests : Enter(c, q) /\ q.at = "redeem" /\ q.room = r
  BY RedeemEnters
<1>4. Moves(c, q) /\ task[c] = Idle
  BY <1>3, EnterMoves
<1>5. /\ invites'[t].room = r /\ invites'[t].single = invites[t].single
      /\ invites'[t].revoked = invites[t].single
      /\ \A x \in Tokens \ {t} : invites'[x] = invites[x]
  BY <1>1, <1>2, MarkInvite
<1> HIDE DEF r
<1>6. \A x : Exists(x)' <=> Exists(x)
  BY <1>1 DEF Exists
<1>7. /\ Guests' = Guests /\ OpenRooms' = OpenRooms
      /\ Arriving[c] = None
      /\ Arriving' = [Arriving EXCEPT ![c] = IF Exists(r) THEN r ELSE None]
  BY <1>1, <1>3, <1>4, <1>6, GuestsSame, OpenSame, ArrivingMoves, IdleArrives
  DEF Arriving, ArrivingAt, OnTheWay
<1>8. CASE ~Exists(r)
  <2>1. Seats' = Seats
    BY <1>1, <1>2, <1>5, <1>6, <1>8, SeatsSame DEF r
  <2>2. Arriving' = Arriving
    BY <1>7, <1>8 DEF Arriving
  <2> QED BY <1>7, <2>1, <2>2 DEF Access!vars
<1>9. CASE Exists(r)
  <2>1. /\ Seats[t] \in Access!Good /\ Seats[t].room = r /\ t \in made
        /\ Seats[t].kind = IF invites[t].single THEN "once" ELSE "many"
    BY <1>1, <1>9, GoodSeat DEF r
  <2>2. Seats' = IF Seats[t].kind = "once" THEN [Seats EXCEPT ![t] = Access!Spent]
                 ELSE Seats
    <3>1. CASE invites[t].single
      <4>1. SeatOf(t)' = Access!Spent
        BY <1>1, <1>5, <2>1, <3>1 DEF SeatOf, Access!Spent
      <4>2. Seats' = [Seats EXCEPT ![t] = SeatOf(t)']
        BY <1>1, <1>5, <1>6, SeatMoves
      <4> QED BY <2>1, <3>1, <4>1, <4>2
    <3>2. CASE ~invites[t].single
      <4>1. Seats' = Seats
        BY <1>1, <1>2, <1>5, <1>6, <3>2, SeatsSame DEF r
      <4> QED BY <2>1, <3>2, <4>1
    <3> QED BY <3>1, <3>2
  <2>3. Access!Take(c, t)
    BY <1>7, <1>9, <2>1, <2>2 DEF Access!Take
  <2> QED BY <2>3 DEF Access!Next
<1> QED BY <1>8, <1>9

(* A redemption that fails, or whose room is gone, gives its seat up. *)
LEMMA FinishGivesUp ==
    ASSUME Shape, NEW c \in Tasks, task[c].at \in OnTheWay, Finish(c),
           UNCHANGED <<rooms, used, invites, made, cache>>
    PROVE  [Access!Next]_(Access!vars)
<1>1. \A x : Exists(x)' <=> Exists(x)
  BY DEF Exists
<1>2. OpenRooms' = OpenRooms /\ Guests' = Guests /\ Seats' = Seats
  BY <1>1, OpenSame, GuestsSame, SeatsSame
<1>3. Arriving' = [Arriving EXCEPT ![c] = None]
  BY <1>1, FinishMoves, IdleType, IdleArrives, ArrivingMoves
<1>4. CASE Arriving[c] = None
  <2>1. Arriving' = Arriving
    BY <1>3, <1>4 DEF Arriving
  <2> QED BY <1>2, <2>1 DEF Access!vars
<1>5. CASE Arriving[c] # None
  <2>1. Access!GiveUp(c)
    BY <1>2, <1>3, <1>5 DEF Access!GiveUp
  <2> QED BY <2>1 DEF Access!Next
<1> QED BY <1>4, <1>5

LEMMA KeySteps ==
    ASSUME Shape, NEW c \in Tasks, RedeemKey(c) \/ GrantRow(c)
    PROVE  [Access!Next]_(Access!vars)
<1>1. UNCHANGED <<rooms, used, invites, made, cache>> /\ task[c].at \in OnTheWay
  BY DEF RedeemKey, GrantRow, SameRest, OnTheWay
<1>2. CASE Finish(c)
  BY <1>1, <1>2, FinishGivesUp
<1>3. CASE ~Finish(c)
  <2>1. \E q \in Requests : Moves(c, q) /\ q.at \in OnTheWay /\ q.room = task[c].room
    <3>1. CASE RedeemKey(c)
      BY <1>3, <3>1, RedeemKeyMoves DEF OnTheWay
    <3>2. CASE GrantRow(c)
      <4>1. Step(c, "cached") /\ "cached" \in PCs
        BY <1>3, <3>2 DEF GrantRow, PCs
      <4> QED BY <4>1, StepMoves DEF OnTheWay
    <3> QED BY <3>1, <3>2
  <2>2. \A x : Exists(x)' <=> Exists(x)
    BY <1>1 DEF Exists
  <2>3. Arriving' = Arriving
    BY <1>1, <2>1, <2>2, ArrivingSame
  <2> QED BY <1>1, <2>2, <2>3, OpenSame, GuestsSame, SeatsSame DEF Access!vars
<1> QED BY <1>2, <1>3

(* A key that is being granted was let in nowhere. *)
LEMMA NewGuest ==
    ASSUME Shape, Grants, NEW c \in Tasks, Granting(task[c])
    PROVE  task[c].key \in Keys /\ \A g \in Guests : g[1] # task[c].key
<1>1. FreshKey(task[c]) /\ task[c].key \in Keys
  BY DEF Grants, Shape, TypeOK, Settled, Granting
<1>2. \A g \in cache : g = <<g[1], g[2]>> /\ g[2] \in Rooms
  BY DEF Shape, TypeOK
<1> QED BY <1>1, <1>2 DEF FreshKey, Guests

LEMMA CacheAdmits ==
    ASSUME Shape, Grants, NEW c \in Tasks, GrantCache(c)
    PROVE  [Access!Next]_(Access!vars)
<1> DEFINE k == task[c].key
           r == task[c].room
<1>1. /\ UNCHANGED <<rooms, used, invites, made>> /\ cache' = cache \cup {<<k, r>>}
      /\ task[c].at = "cached" /\ Finish(c) /\ r \in used /\ r \in Rooms
  BY DEF GrantCache, tables, Shape, TypeOK, Settled
<1>2. k \in Keys /\ \A g \in Guests : g[1] # k
  BY <1>1, NewGuest DEF Granting
<1>3. \A x : Exists(x)' <=> Exists(x)
  BY <1>1 DEF Exists
<1>4. Guests' = {g \in cache \cup {<<k, r>>} : Exists(g[2])}
  BY <1>1, <1>3 DEF Guests
<1>5. OpenRooms' = OpenRooms /\ Seats' = Seats
  BY <1>1, <1>3, OpenSame, SeatsSame
<1>6. Arriving' = [Arriving EXCEPT ![c] = None]
  BY <1>1, <1>3, FinishMoves, IdleType, IdleArrives, ArrivingMoves
<1>7. Arriving[c] = IF Exists(r) THEN r ELSE None
  BY <1>1 DEF Arriving, ArrivingAt, OnTheWay
<1> HIDE DEF k, r
<1>8. CASE Exists(r)
  <2>1. Guests' = Guests \cup {<<k, r>>}
    BY <1>4, <1>8 DEF Guests
  <2>2. Arriving[c] = r /\ r # None
    BY <1>1, <1>7, <1>8, Constants
  <2>3. Access!Admit(c, k)
    BY <1>2, <1>5, <1>6, <2>1, <2>2 DEF Access!Admit
  <2> QED BY <1>2, <2>3 DEF Access!Next
<1>9. CASE ~Exists(r)
  <2>1. Guests' = Guests
    BY <1>4, <1>9 DEF Guests
  <2>2. Arriving' = Arriving
    BY <1>6, <1>7, <1>9 DEF Arriving
  <2> QED BY <1>5, <2>1, <2>2 DEF Access!vars
<1> QED BY <1>8, <1>9

(* A crash lets in those whose grant is already in the table. *)
LEMMA RestartCrashes ==
    ASSUME Shape, Grants, Restart
    PROVE  Access!Next
<1> DEFINE lucky == [c \in Tasks |->
                IF task[c].at = "cached" /\ Exists(task[c].room) THEN task[c].key
                ELSE None]
           In == {<<lucky[c], Arriving[c]>> : c \in {d \in Tasks : lucky[d] # None}}
<1>1. /\ UNCHANGED <<rooms, used, invites, made, table>> /\ cache' = table
      /\ task' = [c \in Tasks |-> Idle]
  BY DEF Restart, tables
<1>2. \A x : Exists(x)' <=> Exists(x)
  BY <1>1 DEF Exists
<1>3. OpenRooms' = OpenRooms /\ Seats' = Seats
  BY <1>1, <1>2, OpenSame, SeatsSame
<1>4. Arriving' = [c \in Tasks |-> None]
  BY <1>1, IdleArrives DEF Arriving, ArrivingAt
<1>5. \A c \in Tasks : task[c].at = "cached" =>
         /\ Granting(task[c]) /\ task[c].key \in Keys /\ task[c].room \in Rooms
         /\ \A g \in Guests : g[1] # task[c].key
  BY NewGuest DEF Granting, Shape, TypeOK, Settled
<1>6. lucky \in [Tasks -> Keys \cup {None}]
  BY <1>5
<1>7. \A c \in Tasks :
         /\ lucky[c] # None <=> task[c].at = "cached" /\ Exists(task[c].room)
         /\ lucky[c] # None => lucky[c] = task[c].key /\ Arriving[c] = task[c].room
  BY <1>5, Constants DEF Arriving, ArrivingAt, OnTheWay
<1> HIDE DEF lucky
<1>8. ASSUME NEW c \in Tasks, lucky[c] # None
      PROVE  /\ Arriving[c] # None
             /\ \A g \in Guests : g[1] # lucky[c]
             /\ \A d \in Tasks \ {c} : lucky[d] # lucky[c]
  <2>1. Arriving[c] # None /\ \A g \in Guests : g[1] # lucky[c]
    BY <1>5, <1>7, <1>8, Constants
  <2>2. ASSUME NEW d \in Tasks \ {c}, lucky[d] = lucky[c] PROVE FALSE
    <3>1. lucky[d] = task[d].key /\ task[d].at = "cached" /\ task[c].at = "cached"
      BY <1>7, <1>8, <2>2
    <3>2. task[d].key # task[c].key
      BY <1>5, <3>1 DEF Grants
    <3> QED BY <1>7, <1>8, <2>2, <3>1, <3>2
  <2> QED BY <2>1, <2>2
<1>9. Guests' = Guests \cup In
  <2>1. Guests' = {g \in table : Exists(g[2])}
    BY <1>1, <1>2 DEF Guests
  <2>2. \A g \in table \cup cache : /\ g = <<g[1], g[2]>> /\ g[1] \in Keys
                                    /\ g[2] \in Rooms
    BY DEF Shape, TypeOK
  <2>3. ASSUME NEW k \in Keys, NEW r \in Rooms, Exists(r)
        PROVE  CachedFor(k, r) <=> <<k, r>> \in In
    <3>1. ASSUME CachedFor(k, r) PROVE <<k, r>> \in In
      <4>1. PICK c \in Tasks : task[c].at = "cached" /\ task[c].key = k /\ task[c].room = r
        BY <3>1 DEF CachedFor
      <4>2. lucky[c] # None /\ lucky[c] = k /\ Arriving[c] = r
        BY <1>7, <2>3, <4>1
      <4> QED BY <4>2
    <3>2. ASSUME <<k, r>> \in In PROVE CachedFor(k, r)
      <4>1. PICK c \in Tasks : lucky[c] # None /\ <<k, r>> = <<lucky[c], Arriving[c]>>
        BY <3>2
      <4> QED BY <1>7, <4>1 DEF CachedFor
    <3> QED BY <3>1, <3>2
  <2>4. \A g \in In : /\ g = <<g[1], g[2]>> /\ g[1] \in Keys
                      /\ g[2] \in Rooms /\ Exists(g[2])
    BY <1>5, <1>7
  <2> HIDE DEF In
  <2>5. \A k \in Keys, r \in Rooms : Exists(r) =>
           (<<k, r>> \in table <=> <<k, r>> \in cache \/ <<k, r>> \in In)
    BY <2>3 DEF Grants
  <2>6. Guests = {g \in cache : Exists(g[2])}
    BY DEF Guests
  <2>7. ASSUME NEW g \in Guests' PROVE g \in Guests \cup In
    BY <2>1, <2>2, <2>5, <2>6, <2>7
  <2>8. ASSUME NEW g \in Guests \cup In PROVE g \in Guests'
    BY <2>1, <2>2, <2>4, <2>5, <2>6, <2>8
  <2> QED BY <2>7, <2>8
<1>10. Access!Crash
  BY <1>3, <1>4, <1>6, <1>8, <1>9 DEF Access!Crash
<1> QED BY <1>10 DEF Access!Next

LEMMA StepAccess ==
    ASSUME Shape, Fate, Grants, [Next]_vars
    PROVE  [Access!Next]_(Access!vars)
<1>1. CASE UNCHANGED vars \/ \E k \in Keys : Signup(k)
  <2>1. UNCHANGED <<rooms, used, invites, made, cache, task>>
    BY <1>1 DEF vars, tables, Signup, SameRest
  <2> QED BY <2>1 DEF Access!vars, OpenRooms, Guests, Seats, SeatOf, Arriving, ArrivingAt,
          Exists
<1>2. ASSUME NEW c \in Tasks,
             \/ TakeUp(c) \/ Publish(c) \/ Farewell(c) \/ Sweep(c) \/ RenameRow(c)
             \/ RedeemRoom(c) \/ DestroyPurge(c) \/ InviteCheck(c)
      PROVE  [Access!Next]_(Access!vars)
  BY <1>2, HiddenSteps, HiddenPurge
<1>3. ASSUME NEW c \in Tasks,
             \/ CreateRow(c) \/ DestroyRow(c) \/ InviteRow(c) \/ RevokeRow(c)
             \/ RedeemKey(c) \/ GrantRow(c) \/ GrantCache(c)
             \/ \E t \in Tokens : Redeem(c, t)
      PROVE  [Access!Next]_(Access!vars)
  BY <1>3, CreateOpens, DestroyEnds, InviteInvites, RevokeRevokes, RedeemTakes, KeySteps,
     CacheAdmits
<1> QED BY <1>1, <1>2, <1>3, RestartCrashes DEF Next, TakeUp

(* The server lets into its rooms exactly those RoomAccess lets in: a      *)
(* single use admits one key, a crash between redeem_invite and the answer *)
(* of the key admits nobody else, and nobody enters by an invite that was  *)
(* revoked or whose room is gone (handler.rs, store.rs, web.rs).           *)
THEOREM Implements == Spec => AccessSpec
<1> DEFINE IInv == Shape /\ Fate /\ Grants
<1>1. Init => IInv /\ Access!Init
  BY InitShape, InitFate, InitGrants, InitAccess
<1>2. IInv /\ [Next]_vars => IInv'
  BY StepShape, StepFate, StepGrants
<1>3. IInv /\ [Next]_vars => [Access!Next]_(Access!vars)
  BY StepAccess
<1> QED BY <1>1, <1>2, <1>3, PTL DEF Spec, AccessSpec, Access!Spec

-----------------------------------------------------------------------------
(* Fourth layer: what clients have heard of a room.  Until the change that *)
(* is being made is published, an earlier name is still what a client      *)
(* knows, and only clients that will be told know anything of the room.    *)

Publishing(r) == \E c \in Tasks : task[c].at = "publish" /\ task[c].room = r
Ending(r) ==
    \E c \in Tasks : task[c].at \in {"purge", "farewell"} /\ task[c].room = r

(* What client k was told of r is right, or is about to be put right. *)
KnownRight(k, r) ==
    /\ r \in used
    /\ Exists(r) => /\ k \in Clients /\ CanAccess(rooms[r], r, k)
                    /\ view[<<k, r>>] = rooms[r].name \/ Publishing(r)
    /\ ~Exists(r) => view[<<k, r>>] = Gone \/ Ending(r)

(* The end of the room reaches client k. *)
WillHear(q, k) ==
    /\ q.at = "delete" /\ Exists(q.room) =>
           AccessByRow(rooms[q.room], k) \/ k \in q.snap
    /\ q.at \in {"purge", "farewell"} =>
           k \in Clients /\ (AccessByRow(q.row, k) \/ k \in q.snap)

Knows(k, r) == view[<<k, r>>] # None

(* A request that publishes takes the row from the table, and has one. *)
Announces(q) ==
    /\ q.at \in {"create", "rename", "publish"} => q.row = NoRow
    /\ q.at = "publish" => Exists(q.room)

Heard ==
    /\ \A k \in Keys, r \in Rooms : Knows(k, r) => KnownRight(k, r)
    /\ \A c \in Tasks :
        /\ Announces(task[c])
        /\ \A k \in Keys : Knows(k, task[c].room) /\ task[c].room \in Rooms
                               => WillHear(task[c], k)

(* No client has heard of anything yet. *)
LEMMA InitHeard == Init => Heard
<1> SUFFICES ASSUME Init PROVE Heard
  OBVIOUS
<1>1. \A k \in Keys, r \in Rooms : ~Knows(k, r)
  BY DEF Init, Knows
<1>2. \A c \in Tasks : task[c].at = "idle"
  BY IdleType DEF Init
<1> QED BY <1>1, <1>2 DEF Heard, Announces

(* Who may see a room keeps seeing it while its row is the same but for    *)
(* the name and no grant for it is purged.                                 *)
LEMMA StillSees ==
    ASSUME NEW k, NEW r \in Rooms,
           handed \subseteq handed',
           rooms'[r].public = rooms[r].public, rooms'[r].owner = rooms[r].owner,
           <<k, r>> \in cache => <<k, r>> \in cache'
    PROVE  /\ k \in Clients => k \in Clients'
           /\ AccessByRow(rooms[r], k) <=> AccessByRow(rooms'[r], k)
           /\ CanAccess(rooms[r], r, k) => CanAccess(rooms[r], r, k)'
<1>1. k \in Clients => k \in Clients'
  BY DEF Clients
<1>2. AccessByRow(rooms[r], k) <=> AccessByRow(rooms'[r], k)
  BY DEF AccessByRow
<1> QED BY <1>1, <1>2 DEF CanAccess

(* Steps that tell nobody anything. *)
LEMMA HeardMoves ==
    ASSUME Shape, Heard, NEW c \in Tasks, NEW q \in Requests, Moves(c, q),
           view' = view, used \subseteq used', handed \subseteq handed',
           \A r \in used : Exists(r)' =>
               /\ Exists(r)
               /\ rooms'[r].public = rooms[r].public /\ rooms'[r].owner = rooms[r].owner
               /\ rooms'[r].name = rooms[r].name \/ (q.at = "publish" /\ q.room = r)
               /\ \A k \in Keys : <<k, r>> \in cache => <<k, r>> \in cache',
           \A r \in used : Exists(r) /\ ~Exists(r)' =>
               q.at = "purge" /\ q.room = r /\ mutation = c,
           task[c].at \notin {"publish", "farewell"},
           task[c].at = "purge" => q.at = "farewell" /\ q.room = task[c].room,
           Announces(q)',
           \A k \in Keys : Knows(k, q.room) /\ q.room \in used => WillHear(q, k)'
    PROVE  Heard'
<1>1. ASSUME NEW r \in used, Publishing(r) PROVE Publishing(r)'
  BY <1>1 DEF Publishing, Moves
<1>2. ASSUME NEW r \in used, Ending(r) PROVE Ending(r)'
  <2>1. PICK d \in Tasks : task[d].at \in {"purge", "farewell"} /\ task[d].room = r
    BY <1>2 DEF Ending
  <2>2. task'[d].at \in {"purge", "farewell"} /\ task'[d].room = r
    BY <2>1 DEF Moves
  <2> QED BY <2>2 DEF Ending
<1>3. \A k \in Keys, r \in Rooms : Knows(k, r)' <=> Knows(k, r)
  BY DEF Knows
<1>4. \A k \in Keys, r \in Rooms : Knows(k, r) => KnownRight(k, r) /\ r \in used
  BY DEF Heard, KnownRight
<1>5. ASSUME NEW k \in Keys, NEW r \in Rooms, Knows(k, r) PROVE KnownRight(k, r)'
  <2>1. KnownRight(k, r) /\ r \in used
    BY <1>4, <1>5
  <2>2. CASE Exists(r)'
    <3>1. Exists(r) /\ k \in Clients /\ CanAccess(rooms[r], r, k)
      BY <2>1, <2>2 DEF KnownRight
    <3>2. k \in Clients' /\ CanAccess(rooms[r], r, k)'
      BY <2>1, <2>2, <3>1, StillSees
    <3>3. view'[<<k, r>>] = rooms'[r].name \/ Publishing(r)'
      <4>1. CASE q.at = "publish" /\ q.room = r
        BY <4>1 DEF Publishing, Moves
      <4>2. CASE rooms'[r].name = rooms[r].name
        BY <1>1, <2>1, <3>1, <4>2 DEF KnownRight
      <4> QED BY <2>1, <2>2, <4>1, <4>2
    <3> QED BY <2>1, <2>2, <3>2, <3>3 DEF KnownRight
  <2>3. CASE ~Exists(r)'
    <3>1. CASE Exists(r)
      BY <2>1, <2>3, <3>1 DEF KnownRight, Ending, Moves
    <3>2. CASE ~Exists(r)
      BY <1>2, <2>1, <2>3, <3>2 DEF KnownRight
    <3> QED BY <3>1, <3>2
  <2> QED BY <2>2, <2>3
<1>6. ASSUME NEW d \in Tasks \ {c}
      PROVE  /\ Announces(task[d])'
             /\ \A k \in Keys : Knows(k, task[d].room) /\ task[d].room \in Rooms
                                    => WillHear(task[d], k)'
  <2> DEFINE e == task[d]
  <2>1. /\ task'[d] = e /\ Announces(e)
        /\ e.at \in {"publish", "purge", "farewell"} => e.room \in used
    BY DEF Heard, Shape, Settled, Moves
  <2>2. e.at = "publish" => mutation = d
    BY DEF Shape, TypeOK, Guarded
  <2>3. e.at = "publish" => Exists(e.room)'
    BY <2>1, <2>2 DEF Announces
  <2>4. ASSUME NEW k \in Keys, Knows(k, e.room), e.room \in Rooms PROVE WillHear(e, k)'
    <3>1. WillHear(e, k) /\ e.room \in used
      BY <1>4, <2>4 DEF Heard
    <3>2. ASSUME NEW r \in used, Exists(r)'
          PROVE  Exists(r) /\ (AccessByRow(rooms[r], k) <=> AccessByRow(rooms'[r], k))
      BY <3>2 DEF AccessByRow
    <3>3. k \in Clients => k \in Clients'
      BY DEF Clients
    <3>4. ASSUME e.at = "delete", Exists(e.room)'
          PROVE  AccessByRow(rooms'[e.room], k) \/ k \in e.snap
      <4>1. PICK r \in used : r = e.room
        BY <3>1
      <4>2. Exists(r) /\ (AccessByRow(rooms[r], k) <=> AccessByRow(rooms'[r], k))
        BY <2>1, <3>2, <3>4, <4>1 DEF Exists
      <4> QED BY <3>1, <3>4, <4>1, <4>2 DEF WillHear
    <3>5. e.at \in {"purge", "farewell"} =>
             k \in Clients' /\ (AccessByRow(e.row, k) \/ k \in e.snap)
      BY <3>1, <3>3 DEF WillHear
    <3> QED BY <2>1, <3>4, <3>5 DEF WillHear, Exists
  <2> QED BY <2>1, <2>3, <2>4 DEF Announces
<1>7. \A k \in Keys : Knows(k, q.room) /\ q.room \in Rooms => WillHear(q, k)'
  BY <1>4
<1>8. ASSUME NEW d \in Tasks
      PROVE  /\ Announces(task[d])'
             /\ \A k \in Keys : Knows(k, task'[d].room) /\ task'[d].room \in Rooms
                                    => WillHear(task[d], k)'
  <2>1. CASE d = c
    BY <1>7, <2>1 DEF Moves, Announces, WillHear
  <2>2. CASE d # c
    BY <1>6, <2>2 DEF Moves
  <2> QED BY <2>1, <2>2
<1> QED BY <1>3, <1>5, <1>8 DEF Heard

(* Steps that touch no room, keep every grant of one there is, and take a  *)
(* request neither up nor to an end that clients are told of.              *)
Steady(c) ==
    \/ InviteRow(c) \/ InviteCheck(c) \/ RevokeRow(c) \/ Sweep(c)
    \/ RedeemRoom(c) \/ RedeemKey(c) \/ GrantRow(c) \/ GrantCache(c)
    \/ \E t \in Tokens : Redeem(c, t)

LEMMA SteadyKeeps ==
    ASSUME Fate, NEW c \in Tasks, Steady(c)
    PROVE  /\ UNCHANGED <<rooms, used, view>> /\ handed \subseteq handed'
           /\ \A k, r : Exists(r) /\ <<k, r>> \in cache => <<k, r>> \in cache'
           /\ task[c].at \notin {"publish", "purge", "farewell"} \/ task[c] = Idle
<1>1. /\ UNCHANGED <<rooms, used, view>> /\ handed \subseteq handed'
      /\ task[c].at \notin {"publish", "purge", "farewell"} \/ task[c] = Idle
  BY DEF Steady, InviteRow, InviteCheck, RevokeRow, Sweep, RedeemRoom, RedeemKey, GrantRow,
     GrantCache, Redeem, Enter, tables, SameRest
<1>2. cache \subseteq cache' \/ Sweep(c)
  BY DEF Steady, InviteRow, InviteCheck, RevokeRow, RedeemRoom, RedeemKey, GrantRow,
     GrantCache, Redeem
<1>3. Sweep(c) =>
         /\ cache' = {g \in cache : g[2] # task[c].room}
         /\ ~Exists(task[c].room)
  BY DEF Sweep, Fate
<1> QED BY <1>1, <1>2, <1>3

LEMMA SteadyMoves ==
    ASSUME Shape, NEW c \in Tasks, Steady(c)
    PROVE  \E q \in Requests :
             /\ Moves(c, q)
             /\ q.at \in {"idle", "check", "sweep", "redeem", "mint", "grant", "cached"}
<1>1. CASE Finish(c)
  BY <1>1, FinishMoves, IdleType
<1>2. CASE InviteRow(c)
  BY <1>2, InviteRowMoves
<1>3. CASE \E p \in {"sweep", "mint", "cached"} : Step(c, p)
  BY <1>3, StepMoves DEF PCs
<1>4. CASE \E t \in Tokens : Redeem(c, t)
  BY <1>4, RedeemEnters, EnterMoves
<1>5. CASE RedeemKey(c) /\ ~Finish(c)
  BY <1>5, RedeemKeyMoves
<1>6. \/ Finish(c) \/ InviteRow(c) \/ RedeemKey(c) \/ \E t \in Tokens : Redeem(c, t)
      \/ \E p \in {"sweep", "mint", "cached"} : Step(c, p)
  BY DEF Steady, InviteCheck, RevokeRow, Sweep, RedeemRoom, GrantRow, GrantCache
<1> QED BY <1>1, <1>2, <1>3, <1>4, <1>5, <1>6

LEMMA SteadyHeard ==
    ASSUME Shape, Fate, Heard, NEW c \in Tasks, Steady(c)
    PROVE  Heard'
<1>1. PICK q \in Requests :
        /\ Moves(c, q)
        /\ q.at \in {"idle", "check", "sweep", "redeem", "mint", "grant", "cached"}
  BY SteadyMoves
<1>2. Announces(q)' /\ \A k : WillHear(q, k)'
  BY <1>1 DEF Announces, WillHear
<1>3. task[c].at \notin {"publish", "purge", "farewell"}
  BY SteadyKeeps, IdleType
<1>4. /\ view' = view /\ used \subseteq used' /\ handed \subseteq handed'
      /\ \A r : Exists(r)' <=> Exists(r)
      /\ UNCHANGED rooms
      /\ \A k, r : Exists(r) /\ <<k, r>> \in cache => <<k, r>> \in cache'
  BY SteadyKeeps DEF Exists
<1> QED BY <1>1, <1>2, <1>3, <1>4, HeardMoves

(* A request is taken up; destroy writes down who has been granted the     *)
(* room.                                                                   *)
LEMMA TakeUpHeard ==
    ASSUME Shape, Heard, NEW c \in Tasks, TakeUp(c)
    PROVE  Heard'
<1>1. UNCHANGED <<rooms, used, cache, handed, view>>
  BY TakeUpEnters DEF tables
<1>2. PICK q \in Requests :
        /\ Enter(c, q)
        /\ q.at \in {"create", "rename", "delete", "invite", "revoke"}
        /\ q.at \in {"create", "rename"} => q.row = NoRow
        /\ q.at = "delete" => q.snap = {g \in Keys : <<g, q.room>> \in cache}
  BY TakeUpEnters
<1>3. Moves(c, q) /\ task[c].at = "idle"
  BY <1>2, EnterMoves, IdleType
<1>4. Announces(q)'
  BY <1>2 DEF Announces
<1>5. ASSUME NEW k \in Keys, Knows(k, q.room), q.room \in used PROVE WillHear(q, k)'
  <2>1. q.room \in Rooms
    BY <1>5 DEF Shape, TypeOK
  <2>2. Exists(q.room) => CanAccess(rooms[q.room], q.room, k)
    BY <1>5, <2>1 DEF Heard, KnownRight
  <2>3. q.at = "delete" /\ Exists(q.room) => AccessByRow(rooms[q.room], k) \/ k \in q.snap
    BY <1>2, <2>2 DEF CanAccess
  <2> QED BY <1>1, <1>2, <2>3 DEF WillHear, Exists
<1>6. /\ view' = view /\ used \subseteq used' /\ handed \subseteq handed' /\ UNCHANGED rooms
      /\ \A r : Exists(r)' <=> Exists(r)
      /\ cache' = cache
  BY <1>1 DEF Exists
<1> QED BY <1>3, <1>4, <1>5, <1>6, HeardMoves

LEMMA CreateRowHeard ==
    ASSUME Shape, Heard, NEW c \in Tasks, CreateRow(c)
    PROVE  Heard'
<1>1. /\ UNCHANGED <<cache, handed, view>> /\ task[c].at = "create"
      /\ task[c].row = NoRow
  BY DEF CreateRow, SameRest, Heard, Announces
<1>2. CASE Finish(c)
  <2>1. UNCHANGED <<rooms, used>>
    <3>1. task \in [Tasks -> Requests]
      BY DEF Shape, TypeOK
    <3>2. task'[c].at # "publish"
      BY <1>2, <3>1, IdleType DEF Finish
    <3> QED BY <3>1, <3>2 DEF CreateRow, Requests
  <2>2. Moves(c, Idle) /\ Idle \in Requests /\ Idle.at = "idle"
    BY <1>2, FinishMoves, IdleType
  <2>3. Announces(Idle)' /\ \A k : WillHear(Idle, k)'
    BY <2>2 DEF Announces, WillHear
  <2>4. \A r : Exists(r)' <=> Exists(r)
    BY <2>1 DEF Exists
  <2> QED BY <1>1, <2>1, <2>2, <2>3, <2>4, HeardMoves
<1>3. CASE ~Finish(c)
  <2>1. PICK r \in Rooms \ used, s \in Requests :
             /\ Moves(c, s) /\ s.at = "publish" /\ s.room = r /\ s.row = task[c].row
             /\ used' = used \cup {r} /\ mutation' = c
             /\ \A x \in Rooms : Exists(x)' <=> Exists(x) \/ x = r
             /\ \A x \in Rooms \ {r} : rooms'[x] = rooms[x]
    BY <1>3, CreateRooms
  <2>2. Announces(s)' /\ \A k : WillHear(s, k)'
    BY <1>1, <2>1 DEF Announces, WillHear
  <2>3. used \subseteq Rooms
    BY DEF Shape, TypeOK
  <2> QED BY <1>1, <2>1, <2>2, <2>3, HeardMoves
<1> QED BY <1>2, <1>3

LEMMA RenameRowHeard ==
    ASSUME Shape, Heard, NEW c \in Tasks, RenameRow(c)
    PROVE  Heard'
<1>1. /\ UNCHANGED <<used, cache, handed, view>> /\ task[c].at = "rename"
      /\ task[c].row = NoRow /\ used \subseteq Rooms
  BY DEF RenameRow, SameRest, Heard, Announces, Shape, TypeOK
<1>2. /\ \A x \in Rooms : Exists(x)' <=> Exists(x)
      /\ \A x \in Rooms : /\ rooms'[x].public = rooms[x].public
                         /\ rooms'[x].owner = rooms[x].owner
      /\ \A x \in Rooms \ {task[c].room} : rooms'[x] = rooms[x]
      /\ Finish(c) => UNCHANGED rooms
  BY RenameRooms
<1>3. PICK q \in Requests :
        /\ Moves(c, q) /\ q.at \in {"idle", "publish"}
        /\ q.at = "publish" => q.room = task[c].room /\ q.row = NoRow /\ Exists(q.room)'
        /\ q.at = "idle" => Finish(c)
  <2>1. CASE Finish(c)
    BY <2>1, FinishMoves, IdleType
  <2>2. CASE ~Finish(c)
    <3>1. Step(c, "publish") /\ Exists(task[c].room) /\ "publish" \in PCs
      BY <2>2 DEF RenameRow, MayMutate, PCs
    <3>2. task[c].room \in Rooms
      BY <1>1 DEF Shape, Settled, TypeOK
    <3> QED BY <1>1, <1>2, <3>1, <3>2, StepMoves
  <2> QED BY <2>1, <2>2
<1>4. Announces(q)' /\ \A k : WillHear(q, k)'
  BY <1>3 DEF Announces, WillHear
<1>5. \A r \in used : rooms'[r].name = rooms[r].name \/ (q.at = "publish" /\ q.room = r)
  BY <1>1, <1>2, <1>3
<1> QED BY <1>1, <1>2, <1>3, <1>4, <1>5, HeardMoves

(* The row of a room that is destroyed says who owned it and whether it    *)
(* was public, and no request publishes a room meanwhile.                  *)
LEMMA DestroyRowHeard ==
    ASSUME Shape, Heard, NEW c \in Tasks, DestroyRow(c)
    PROVE  Heard'
<1>1. /\ UNCHANGED <<used, cache, handed, view>> /\ task[c].at = "delete"
      /\ used \subseteq Rooms
  BY DEF DestroyRow, SameRest, Shape, TypeOK
<1>2. CASE Finish(c)
  <2>1. UNCHANGED rooms
    <3>1. task \in [Tasks -> Requests]
      BY DEF Shape, TypeOK
    <3>2. task'[c].at # "purge"
      BY <1>2, <3>1, IdleType DEF Finish
    <3> QED BY <3>1, <3>2 DEF DestroyRow, Requests
  <2>2. Moves(c, Idle) /\ Idle \in Requests /\ Idle.at = "idle"
    BY <1>2, FinishMoves, IdleType
  <2>3. Announces(Idle)' /\ \A k : WillHear(Idle, k)'
    BY <2>2 DEF Announces, WillHear
  <2>4. \A r : Exists(r)' <=> Exists(r)
    BY <2>1 DEF Exists
  <2> QED BY <1>1, <2>1, <2>2, <2>3, <2>4, HeardMoves
<1>3. CASE ~Finish(c)
  <2> DEFINE r == task[c].room
  <2>1. /\ r \in Rooms /\ Exists(r) /\ r \in used
        /\ \A x \in Rooms : Exists(x)' <=> Exists(x) /\ x # r
        /\ \A x \in Rooms \ {r} : /\ rooms'[x].name = rooms[x].name
                                  /\ rooms'[x].public = rooms[x].public
                                  /\ rooms'[x].owner = rooms[x].owner
    BY <1>3, DestroyRooms
  <2>2. PICK s \in Requests : /\ Moves(c, s) /\ s.at = "purge" /\ s.room = r
                             /\ s.row = rooms[r] /\ s.snap = task[c].snap
    BY <1>3, DestroyRooms
  <2>3. mutation = c
    BY <1>1 DEF Shape, TypeOK, Guarded
  <2>4. Announces(s)'
    BY <2>2 DEF Announces
  <2>5. ASSUME NEW k \in Keys, Knows(k, s.room) PROVE WillHear(s, k)'
    <3>1. KnownRight(k, r) /\ WillHear(task[c], k)
      BY <2>1, <2>2, <2>5 DEF Heard
    <3>2. k \in Clients' /\ (AccessByRow(s.row, k) \/ k \in s.snap)
      BY <1>1, <2>1, <2>2, <3>1 DEF KnownRight, WillHear, Clients
    <3> QED BY <2>2, <3>2 DEF WillHear
  <2> HIDE DEF r
  <2>6. \A x \in used : Exists(x)' =>
           /\ Exists(x)
           /\ rooms'[x].public = rooms[x].public /\ rooms'[x].owner = rooms[x].owner
           /\ rooms'[x].name = rooms[x].name
    BY <1>1, <2>1
  <2>7. \A x \in used : Exists(x) /\ ~Exists(x)' =>
           s.at = "purge" /\ s.room = x /\ mutation = c
    BY <1>1, <2>1, <2>2, <2>3
  <2> QED BY <1>1, <2>2, <2>4, <2>5, <2>6, <2>7, HeardMoves
<1> QED BY <1>2, <1>3

LEMMA DestroyPurgeHeard ==
    ASSUME Shape, Fate, Heard, NEW c \in Tasks, DestroyPurge(c)
    PROVE  Heard'
<1>1. /\ UNCHANGED <<rooms, used, handed, view>> /\ task[c].at = "purge"
      /\ cache' = {g \in cache : g[2] # task[c].room} /\ used \subseteq Rooms
      /\ Step(c, "farewell") /\ "farewell" \in PCs /\ ~Exists(task[c].room)
  BY DEF DestroyPurge, tables, Shape, TypeOK, PCs, Fate
<1>2. PICK q \in Requests :
             /\ Moves(c, q) /\ q.at = "farewell" /\ q.room = task[c].room
             /\ q.snap = task[c].snap /\ q.row = task[c].row
  BY <1>1, StepMoves
<1>3. Announces(q)'
  BY <1>2 DEF Announces
<1>4. ASSUME NEW k \in Keys, Knows(k, q.room), q.room \in used PROVE WillHear(q, k)'
  <2>1. WillHear(task[c], k)
    BY <1>1, <1>2, <1>4 DEF Heard
  <2> QED BY <1>1, <1>2, <2>1 DEF WillHear, Clients
<1>5. \A r : Exists(r)' <=> Exists(r)
  BY <1>1 DEF Exists
<1>6. \A r : Exists(r) => \A k \in Keys : <<k, r>> \in cache => <<k, r>> \in cache'
  BY <1>1
<1> QED BY <1>1, <1>2, <1>3, <1>4, <1>5, <1>6, HeardMoves

(* A request that tells clients of a room, as the only one that holds the  *)
(* mutex.                                                                  *)
LEMMA TellingHeard ==
    ASSUME Shape, Heard, NEW c \in Tasks, task[c].at \in {"publish", "farewell"}, Finish(c),
           NEW q \in Rooms, q = task[c].room,
           UNCHANGED <<rooms, used, cache, handed>>,
           \A k \in Keys, r \in Rooms : r # q => view'[<<k, r>>] = view[<<k, r>>],
           \A k \in Keys : Knows(k, q)' => KnownRight(k, q)'
    PROVE  Heard'
<1>1. Moves(c, Idle) /\ Idle.at = "idle"
  BY FinishMoves, IdleType
<1>2. mutation = c /\ \A d \in Tasks \ {c} : task[d].at \notin Guarded
  BY DEF Shape, TypeOK, Guarded
<1>3. \A r : Exists(r)' <=> Exists(r)
  BY DEF Exists
<1>4. ASSUME NEW d \in Tasks
      PROVE  /\ Announces(task[d])'
             /\ \A k : WillHear(task[d], k)'
  <2>1. task'[d].at \notin Guarded
    BY <1>1, <1>2 DEF Moves, Guarded
  <2>2. task'[d].at \in {"create", "rename"} => task'[d].row = NoRow
    BY <1>1 DEF Moves, Heard, Announces
  <2> QED BY <2>1, <2>2 DEF Guarded, Announces, WillHear
<1>5. ASSUME NEW k \in Keys, NEW r \in Rooms, Knows(k, r)' PROVE KnownRight(k, r)'
  <2>1. CASE r = q
    BY <1>5, <2>1
  <2>2. CASE r # q
    <3>1. Knows(k, r) /\ KnownRight(k, r) /\ view'[<<k, r>>] = view[<<k, r>>]
      BY <1>5, <2>2 DEF Knows, Heard
    <3>2. ~Publishing(r) /\ ~Ending(r)
      BY <1>2, <2>2 DEF Publishing, Ending, Guarded
    <3>3. CanAccess(rooms[r], r, k) => CanAccess(rooms[r], r, k)'
      BY DEF CanAccess, AccessByRow
    <3> QED BY <1>3, <3>1, <3>2, <3>3 DEF KnownRight, Clients
  <2> QED BY <2>1, <2>2
<1> QED BY <1>4, <1>5 DEF Heard

(* A client that hears of a room's row may see the room, and one that      *)
(* knew of the room is among those who hear.                               *)
LEMMA PublishHeard ==
    ASSUME Shape, Heard, NEW c \in Tasks, Publish(c)
    PROVE  Heard'
<1>0. PICK r \in Rooms : r = task[c].room
  BY DEF Publish, Shape, TypeOK, Settled
<1> DEFINE sees(k) == k \in Clients /\ CanAccess(rooms[r], r, k)
<1>1. /\ UNCHANGED <<rooms, used, cache, handed>> /\ Finish(c) /\ task[c].at = "publish"
      /\ r \in used /\ r \in Rooms /\ Exists(r) /\ task[c].row = NoRow
  BY <1>0 DEF Publish, tables, Heard, Announces, Shape, TypeOK, Settled
<1>2. view' = [kr \in Keys \X Rooms |->
           IF kr[2] = r /\ kr[1] \in Clients /\ CanAccess(rooms[r], r, kr[1])
           THEN rooms[r].name ELSE view[kr]]
  BY <1>0, <1>1 DEF Publish
<1>3. \A k \in Keys, x \in Rooms : x # r => view'[<<k, x>>] = view[<<k, x>>]
  BY <1>2
<1>4. \A k \in Keys : view'[<<k, r>>] = IF sees(k) THEN rooms[r].name ELSE view[<<k, r>>]
  BY <1>1, <1>2
<1>5. ASSUME NEW k \in Keys, Knows(k, r)' PROVE KnownRight(k, r)'
  <2>1. sees(k)
    <3>1. ~sees(k) => Knows(k, r)
      BY <1>4, <1>5 DEF Knows
    <3>2. Knows(k, r) => sees(k)
      BY <1>1 DEF Heard, KnownRight
    <3> QED BY <3>1, <3>2
  <2>2. view'[<<k, r>>] = rooms[r].name
    BY <1>4, <2>1
  <2>3. Exists(r)' /\ k \in Clients' /\ CanAccess(rooms[r], r, k)'
    BY <1>1, <2>1 DEF Exists, Clients, CanAccess, AccessByRow
  <2> QED BY <1>1, <2>2, <2>3 DEF KnownRight
<1> QED BY <1>0, <1>1, <1>3, <1>5, TellingHeard

LEMMA FarewellHeard ==
    ASSUME Shape, Fate, Heard, NEW c \in Tasks, Farewell(c)
    PROVE  Heard'
<1>0. PICK r \in Rooms : r = task[c].room
  BY DEF Farewell, Shape, TypeOK, Settled
<1> DEFINE hears(k) == k \in Clients /\ (AccessByRow(task[c].row, k) \/ k \in task[c].snap)
<1>1. /\ UNCHANGED <<rooms, used, cache, handed>> /\ Finish(c)
      /\ task[c].at = "farewell" /\ r \in used /\ r \in Rooms /\ ~Exists(r)
  BY <1>0 DEF Farewell, tables, Fate, Shape, TypeOK, Settled
<1>2. view' = [kr \in Keys \X Rooms |->
           IF /\ kr[2] = r /\ kr[1] \in Clients
              /\ AccessByRow(task[c].row, kr[1]) \/ kr[1] \in task[c].snap
           THEN Gone ELSE view[kr]]
  BY <1>0 DEF Farewell
<1>3. \A k \in Keys, x \in Rooms : x # r => view'[<<k, x>>] = view[<<k, x>>]
  BY <1>2
<1>4. \A k \in Keys : view'[<<k, r>>] = IF hears(k) THEN Gone ELSE view[<<k, r>>]
  BY <1>1, <1>2
<1>5. ASSUME NEW k \in Keys, Knows(k, r)' PROVE KnownRight(k, r)'
  <2>1. hears(k)
    <3>1. ~hears(k) => Knows(k, r)
      BY <1>4, <1>5 DEF Knows
    <3>2. Knows(k, r) => hears(k)
      BY <1>0, <1>1 DEF Heard, WillHear
    <3> QED BY <3>1, <3>2
  <2>2. view'[<<k, r>>] = Gone
    BY <1>4, <2>1
  <2> QED BY <1>1, <2>2 DEF KnownRight, Exists
<1> QED BY <1>0, <1>1, <1>3, <1>5, TellingHeard

LEMMA StepHeard == Shape /\ Fate /\ Heard /\ [Next]_vars => Heard'
<1> SUFFICES ASSUME Shape, Fate, Heard, [Next]_vars PROVE Heard'
  OBVIOUS
<1>1. CASE UNCHANGED vars \/ \E k \in Keys : Signup(k)
  <2>1. UNCHANGED <<rooms, used, cache, task, handed, view>>
    BY <1>1 DEF vars, tables, Signup, SameRest
  <2>2. /\ \A k, r : KnownRight(k, r)' <=> KnownRight(k, r)
        /\ \A k, r : Knows(k, r)' <=> Knows(k, r)
        /\ \A d \in Tasks : Announces(task[d])' <=> Announces(task[d])
        /\ \A d \in Tasks, k \in Keys : WillHear(task[d], k)' <=> WillHear(task[d], k)
    BY <2>1 DEF KnownRight, Knows, Announces, WillHear, Exists, Clients, CanAccess,
       AccessByRow, Publishing, Ending
  <2> QED BY <2>1, <2>2 DEF Heard
<1>2. CASE Restart
  <2>1. \A k \in Keys, r \in Rooms : ~Knows(k, r)'
    BY <1>2 DEF Restart, Knows
  <2>2. \A c \in Tasks : task'[c].at = "idle"
    BY <1>2, IdleType DEF Restart
  <2> QED BY <2>1, <2>2 DEF Heard, Announces
<1>3. ASSUME NEW c \in Tasks,
             \/ TakeUp(c) \/ Steady(c) \/ CreateRow(c) \/ RenameRow(c) \/ Publish(c)
             \/ DestroyRow(c) \/ DestroyPurge(c) \/ Farewell(c)
      PROVE  Heard'
  BY <1>3, TakeUpHeard, SteadyHeard, CreateRowHeard, RenameRowHeard, PublishHeard,
     DestroyRowHeard, DestroyPurgeHeard, FarewellHeard
<1> QED BY <1>1, <1>2, <1>3 DEF Next, TakeUp, Steady

(* Once no change of a room is being published, every client that heard of *)
(* the room knows what it is called, or that it is gone: updates are sent  *)
(* in the order of the writes because room_mutation is held until they     *)
(* are, and the end of a room is told to those its snapshot names.         *)
THEOREM LastWordIsTrue == Spec => []HeardLast
<1>1. Shape /\ Heard => HeardLast
  <2> SUFFICES ASSUME Shape, Heard, mutation = None, NEW k \in Keys, NEW r \in Rooms,
                      Knows(k, r)
               PROVE  view[<<k, r>>] = IF Exists(r) THEN rooms[r].name ELSE Gone
    BY ClientKeys DEF HeardLast, Knows
  <2>1. \A d \in Tasks : task[d].at \notin Guarded
    BY Constants DEF Shape, TypeOK
  <2>2. ~Publishing(r) /\ ~Ending(r)
    BY <2>1 DEF Publishing, Ending, Guarded
  <2> QED BY <2>2 DEF Heard, KnownRight
<1>2. Shape /\ Fate /\ Heard /\ [Next]_vars => Shape' /\ Fate' /\ Heard'
  BY StepShape, StepFate, StepHeard
<1> QED BY <1>1, <1>2, InitShape, InitFate, InitHeard, PTL DEF Spec
=============================================================================

--------------------------- MODULE TaskBoardProofs ---------------------------
(***************************************************************************)
(* Proofs about the task boards, for any agents, rooms, tasks, fields and  *)
(* values.                                                                 *)
(***************************************************************************)
EXTENDS TaskBoard, SequenceTheorems, TLAPS

-----------------------------------------------------------------------------
(* First layer: types, and what a request knows by the step it is at.      *)

(* A request is about a task of its room, or a room that it has destroyed. *)
Knows(q, h, rs) ==
    /\ q.at = "save" => q.room \in Rooms
    /\ q.at \in {"insert", "enter", "write", "set", "tell", "send"} =>
           q.task \in Tasks /\ q.room \in Rooms /\ h[q.task] = q.room
    /\ q.at \in {"insert", "write", "set", "tell", "send"} =>
           q.info \in TaskInfos /\ q.info.room = q.room
    /\ q.at \in {"members", "forget"} => q.room \in Rooms \ rs

Shape ==
    /\ TypeOK
    /\ \A a \in Agents : Knows(req[a], home, rooms)
    /\ \A t \in Tasks : mem[t] # NoTask => home[t] # None /\ mem[t].room = home[t]

(* A request that moves on, and leaves the others where they are. *)
Moves(a, q) ==
    /\ req'[a] = q
    /\ \A b \in Agents \ {a} : req'[b] = req[b]
    /\ req' \in [Agents -> Requests]

LEMMA NoTaskType ==
    /\ NoTask \notin TaskInfos /\ NoTask.rev = 0 /\ NoTask.room = None
    /\ NoTask.val \in [Fields -> Values \cup {None}]
    /\ \A i \in TaskInfos : i # NoTask /\ i.room \in Rooms /\ i.rev \in Nat \ {0}
                            /\ i.val \in [Fields -> Values \cup {None}]
BY BoardAssumption DEF NoTask, TaskInfos

LEMMA IdleType == Idle \in Requests /\ Idle.at = "idle"
<1>1. [f \in {} |-> None] \in Updates
  <2>1. {} \in SUBSET Fields /\ [f \in {} |-> None] \in [{} -> Values]
    OBVIOUS
  <2> QED BY <2>1 DEF Updates
<1>2. <<>> \in Seq(Agents)
  OBVIOUS
<1> QED BY <1>1, <1>2 DEF Idle, Requests, PCs

LEMMA StartMoves ==
    ASSUME Shape, NEW a \in Agents, NEW q \in Requests, Start(a, q)
    PROVE  Moves(a, q) /\ req[a] = Idle
BY DEF Start, Moves, Shape, TypeOK

LEMMA FinishMoves ==
    ASSUME Shape, NEW a \in Agents, Finish(a)
    PROVE  Moves(a, Idle)
BY IdleType DEF Finish, Moves, Shape, TypeOK

LEMMA GotoMoves ==
    ASSUME Shape, NEW a \in Agents, NEW p \in PCs, Goto(a, p)
    PROVE  \E q \in Requests :
             /\ Moves(a, q) /\ q.at = p
             /\ q.task = req[a].task /\ q.room = req[a].room
             /\ q.sets = req[a].sets /\ q.info = req[a].info /\ q.todo = req[a].todo
<1> DEFINE q == [req[a] EXCEPT !.at = p]
<1>1. req \in [Agents -> Requests] /\ req[a] \in Requests
  BY DEF Shape, TypeOK
<1>2. /\ q \in Requests /\ q.at = p /\ q.task = req[a].task /\ q.room = req[a].room
      /\ q.sets = req[a].sets /\ q.info = req[a].info /\ q.todo = req[a].todo
  BY <1>1 DEF Requests
<1>3. req' = [req EXCEPT ![a] = q]
  BY DEF Goto
<1> HIDE DEF q
<1>4. Moves(a, q)
  BY <1>1, <1>2, <1>3 DEF Moves
<1> QED BY <1>2, <1>4

(* What a step of one request has to leave true for the types to stay. *)
MoveKeepsShape(a, q) ==
    /\ rooms' \subseteq rooms
    /\ row' \in [Tasks -> TaskInfos \cup {NoTask}]
    /\ mem' \in [Tasks -> TaskInfos \cup {NoTask}]
    /\ home' \in [Tasks -> Rooms \cup {None}]
    /\ \A t \in Tasks :
        /\ home[t] # None => home'[t] = home[t]
        /\ row'[t] # NoTask => row'[t].room = home'[t] /\ home'[t] \in rooms'
        /\ mem'[t] # NoTask => home'[t] # None /\ mem'[t].room = home'[t]
        /\ held'[t] = a <=> q.at \in {"write", "set"} /\ q.task = t
        /\ \A b \in Agents \ {a} : held'[t] = b <=> held[t] = b
    /\ held' \in [Tasks -> Agents \cup {None}]
    /\ members' \in [Rooms -> Seq(Agents)]
    /\ lifecycle' \in Agents \cup {None}
    /\ lifecycle' = a <=> q.at = "members"
    /\ \A b \in Agents \ {a} :
        /\ lifecycle' = b <=> lifecycle = b
        /\ req[b].at = "send" => members'[req[b].room] = members[req[b].room]
    /\ q.at = "send" => /\ q.todo # <<>>
                       /\ ToSet(q.todo) \subseteq ToSet(members'[q.room])
    /\ wrote' \in [Tasks -> [Fields -> Values \cup {None}]]
    /\ known' \in [Agents -> [Tasks -> Nat]]
    /\ listed' \in [Rooms -> SUBSET Agents]
    /\ crashes' = crashes
    /\ Knows(q, home', rooms')

LEMMA ShapeMoves ==
    ASSUME Shape, NEW a \in Agents, NEW q \in Requests, Moves(a, q),
           MoveKeepsShape(a, q)
    PROVE  Shape'
<1> USE DEF MoveKeepsShape
<1>1. ASSUME NEW b \in Agents
      PROVE  /\ Knows(req'[b], home', rooms')
             /\ lifecycle' = b <=> req'[b].at = "members"
             /\ \A t \in Tasks :
                  held'[t] = b <=> req'[b].at \in {"write", "set"} /\ req'[b].task = t
             /\ req'[b].at = "send" =>
                  /\ req'[b].todo # <<>>
                  /\ ToSet(req'[b].todo) \subseteq ToSet(members'[req'[b].room])
  <2>1. CASE b = a
    BY <2>1 DEF Moves
  <2>2. CASE b # a
    <3>1. req'[b] = req[b]
      BY <2>2 DEF Moves
    <3>2. /\ Knows(req[b], home, rooms)
          /\ lifecycle = b <=> req[b].at = "members"
          /\ \A t \in Tasks :
               held[t] = b <=> req[b].at \in {"write", "set"} /\ req[b].task = t
          /\ req[b].at = "send" =>
               /\ req[b].todo # <<>>
               /\ ToSet(req[b].todo) \subseteq ToSet(members[req[b].room])
      <4>1. Knows(req[b], home, rooms)
        BY DEF Shape
      <4>2. /\ lifecycle = b <=> req[b].at = "members"
            /\ \A t \in Tasks :
                 held[t] = b <=> req[b].at \in {"write", "set"} /\ req[b].task = t
        BY DEF Shape, TypeOK
      <4>3. req[b].at = "send" =>
               /\ req[b].todo # <<>>
               /\ ToSet(req[b].todo) \subseteq ToSet(members[req[b].room])
        BY DEF Shape, TypeOK
      <4> QED BY <4>1, <4>2, <4>3
    <3>3. Knows(req[b], home', rooms')
      BY <3>2, BoardAssumption DEF Knows
    <3> QED BY <2>2, <3>1, <3>2, <3>3
  <2> QED BY <2>1, <2>2
<1>2. TypeOK'
  <2>1. rooms' \subseteq Rooms /\ crashes' \in 0..MaxCrash
    BY DEF Shape, TypeOK
  <2>2. \A t \in Tasks : row'[t] # NoTask => row'[t].room = home'[t] /\ home'[t] \in rooms'
    OBVIOUS
  <2>3. /\ rooms' \subseteq Rooms
        /\ row' \in [Tasks -> TaskInfos \cup {NoTask}]
        /\ mem' \in [Tasks -> TaskInfos \cup {NoTask}]
        /\ home' \in [Tasks -> Rooms \cup {None}]
        /\ held' \in [Tasks -> Agents \cup {None}]
        /\ members' \in [Rooms -> Seq(Agents)]
        /\ lifecycle' \in Agents \cup {None}
        /\ req' \in [Agents -> Requests]
        /\ wrote' \in [Tasks -> [Fields -> Values \cup {None}]]
        /\ known' \in [Agents -> [Tasks -> Nat]]
        /\ listed' \in [Rooms -> SUBSET Agents]
    BY <2>1 DEF Moves
  <2>4. /\ \A t \in Tasks : row'[t] # NoTask => row'[t].room = home'[t] /\ home'[t] \in rooms'
        /\ \A t \in Tasks, c \in Agents :
             held'[t] = c <=> req'[c].at \in {"write", "set"} /\ req'[c].task = t
        /\ \A c \in Agents : lifecycle' = c <=> req'[c].at = "members"
        /\ \A c \in Agents : req'[c].at = "send" =>
             /\ req'[c].todo # <<>>
             /\ ToSet(req'[c].todo) \subseteq ToSet(members'[req'[c].room])
    BY <1>1, <2>2
  <2> QED BY <2>1, <2>3, <2>4 DEF TypeOK
<1>3. \A t \in Tasks : mem'[t] # NoTask => home'[t] # None /\ mem'[t].room = home'[t]
  OBVIOUS
<1> QED BY <1>1, <1>2, <1>3 DEF Shape

LEMMA InitShape == Init => Shape
<1> SUFFICES ASSUME Init PROVE Shape
  OBVIOUS
<1> USE BoardAssumption DEF Init
<1>1. \A a \in Agents : req[a] = Idle
  OBVIOUS
<1>2. \A a \in Agents : /\ Knows(req[a], home, rooms) /\ lifecycle # a
                        /\ req[a].at = "idle" /\ \A t \in Tasks : held[t] # a
  BY <1>1, IdleType DEF Knows
<1>3. TypeOK
  BY <1>1, <1>2, IdleType, NoTaskType DEF TypeOK
<1>4. \A t \in Tasks : mem[t] = NoTask
  OBVIOUS
<1> QED BY <1>2, <1>3, <1>4 DEF Shape

LEMMA RequestFacts ==
    ASSUME Shape, NEW a \in Agents
    PROVE  /\ req[a] \in Requests /\ Knows(req[a], home, rooms)
           /\ lifecycle = a <=> req[a].at = "members"
           /\ \A t \in Tasks :
                held[t] = a <=> req[a].at \in {"write", "set"} /\ req[a].task = t
<1>1. req[a] \in Requests /\ Knows(req[a], home, rooms)
  BY DEF Shape, TypeOK
<1>2. /\ lifecycle = a <=> req[a].at = "members"
      /\ \A t \in Tasks :
           held[t] = a <=> req[a].at \in {"write", "set"} /\ req[a].task = t
  BY DEF Shape, TypeOK
<1> QED BY <1>1, <1>2

LEMMA SendFacts ==
    ASSUME Shape, NEW a \in Agents, req[a].at = "send"
    PROVE  /\ req[a].todo # <<>> /\ req[a].todo \in Seq(Agents)
           /\ ToSet(req[a].todo) \subseteq ToSet(members[req[a].room])
<1>1. req[a].todo \in Seq(Agents)
  BY RequestFacts DEF Requests
<1> QED BY <1>1 DEF Shape, TypeOK

LEMMA TableTypes ==
    ASSUME Shape
    PROVE  /\ rooms \subseteq Rooms
           /\ row \in [Tasks -> TaskInfos \cup {NoTask}]
           /\ mem \in [Tasks -> TaskInfos \cup {NoTask}]
           /\ home \in [Tasks -> Rooms \cup {None}]
           /\ held \in [Tasks -> Agents \cup {None}]
           /\ members \in [Rooms -> Seq(Agents)]
           /\ lifecycle \in Agents \cup {None}
           /\ req \in [Agents -> Requests]
           /\ wrote \in [Tasks -> [Fields -> Values \cup {None}]]
           /\ known \in [Agents -> [Tasks -> Nat]]
           /\ listed \in [Rooms -> SUBSET Agents]
           /\ \A t \in Tasks :
                /\ row[t] # NoTask => row[t].room = home[t] /\ home[t] \in rooms
                /\ mem[t] # NoTask => home[t] # None /\ mem[t].room = home[t]
BY DEF Shape, TypeOK

(* Steps that take no lock of an entry and no mutex, and free none. *)
LEMMA ShapeKeeps ==
    ASSUME Shape, NEW a \in Agents, NEW q \in Requests, Moves(a, q),
           UNCHANGED <<rooms, row, home, wrote, crashes, held, members, lifecycle>>,
           mem' \in [Tasks -> TaskInfos \cup {NoTask}],
           \A t \in Tasks :
               mem'[t] # NoTask => home[t] # None /\ mem'[t].room = home[t],
           known' \in [Agents -> [Tasks -> Nat]],
           listed' \in [Rooms -> SUBSET Agents],
           req[a].at \notin {"write", "set", "members"},
           q.at \notin {"write", "set", "members"},
           q.at = "send" => /\ q.todo # <<>>
                            /\ ToSet(q.todo) \subseteq ToSet(members[q.room]),
           Knows(q, home, rooms)
    PROVE  Shape'
<1>1. lifecycle # a /\ \A t \in Tasks : held[t] # a
  BY RequestFacts
<1>2. lifecycle' = a <=> q.at = "members"
  BY <1>1
<1>3. /\ rooms' \subseteq rooms /\ Knows(q, home', rooms')
      /\ \A t \in Tasks :
           /\ home[t] # None => home'[t] = home[t]
           /\ row'[t] # NoTask => row'[t].room = home'[t] /\ home'[t] \in rooms'
           /\ mem'[t] # NoTask => home'[t] # None /\ mem'[t].room = home'[t]
           /\ held'[t] = a <=> q.at \in {"write", "set"} /\ q.task = t
           /\ \A b \in Agents \ {a} : held'[t] = b <=> held[t] = b
      /\ \A b \in Agents \ {a} :
           /\ lifecycle' = b <=> lifecycle = b
           /\ req[b].at = "send" => members'[req[b].room] = members[req[b].room]
      /\ q.at = "send" => /\ q.todo # <<>>
                          /\ ToSet(q.todo) \subseteq ToSet(members'[q.room])
  BY <1>1, TableTypes
<1>4. /\ row' \in [Tasks -> TaskInfos \cup {NoTask}] /\ home' \in [Tasks -> Rooms \cup {None}]
      /\ held' \in [Tasks -> Agents \cup {None}] /\ members' \in [Rooms -> Seq(Agents)]
      /\ lifecycle' \in Agents \cup {None}
      /\ wrote' \in [Tasks -> [Fields -> Values \cup {None}]]
  BY TableTypes
<1>5. MoveKeepsShape(a, q)
  BY <1>2, <1>3, <1>4 DEF MoveKeepsShape
<1> QED BY <1>5, ShapeMoves

LEMMA Stays ==
    ASSUME Shape, NEW a \in Agents, req' = req
    PROVE  Moves(a, req[a])
BY DEF Moves, Shape, TypeOK

(* Only who joins, leaves or destroys changes the members of a room. *)
LEMMA MembersShape ==
    ASSUME Shape, NEW a \in Agents, NEW r \in Rooms, NEW s \in Seq(Agents),
           req[a] = Idle, MembersFree(r), members' = [members EXCEPT ![r] = s],
           listed' \in [Rooms -> SUBSET Agents],
           UNCHANGED <<mem, held, lifecycle, req, rooms, row, home, wrote, known, crashes>>
    PROVE  Shape'
<1>1. Moves(a, Idle) /\ Idle \in Requests /\ Idle.at = "idle"
  BY Stays, IdleType
<1>2. members' \in [Rooms -> Seq(Agents)]
  BY TableTypes
<1>3. \A b \in Agents \ {a} :
        /\ lifecycle' = b <=> lifecycle = b
        /\ req[b].at = "send" => members'[req[b].room] = members[req[b].room]
  BY TableTypes DEF MembersFree
<1>4. Knows(Idle, home', rooms') /\ lifecycle # a /\ \A t \in Tasks : held[t] # a
  BY <1>1, RequestFacts DEF Knows
<1>5. /\ \A t \in Tasks :
           /\ home[t] # None => home'[t] = home[t]
           /\ row'[t] # NoTask => row'[t].room = home'[t] /\ home'[t] \in rooms'
           /\ mem'[t] # NoTask => home'[t] # None /\ mem'[t].room = home'[t]
           /\ held'[t] = a <=> Idle.at \in {"write", "set"} /\ Idle.task = t
           /\ \A b \in Agents \ {a} : held'[t] = b <=> held[t] = b
      /\ lifecycle' = a <=> Idle.at = "members"
      /\ Idle.at # "send"
  BY <1>1, <1>4, TableTypes
<1>6. /\ rooms' \subseteq rooms /\ row' \in [Tasks -> TaskInfos \cup {NoTask}]
      /\ mem' \in [Tasks -> TaskInfos \cup {NoTask}]
      /\ home' \in [Tasks -> Rooms \cup {None}] /\ held' \in [Tasks -> Agents \cup {None}]
      /\ lifecycle' \in Agents \cup {None}
      /\ wrote' \in [Tasks -> [Fields -> Values \cup {None}]]
      /\ known' \in [Agents -> [Tasks -> Nat]]
  BY TableTypes
<1>7. MoveKeepsShape(a, Idle)
  BY <1>1, <1>2, <1>3, <1>4, <1>5, <1>6 DEF MoveKeepsShape
<1> QED BY <1>1, <1>7, ShapeMoves

(* Whoever is taken out of a list is the only one who may be missing. *)
LEMMA RemoveAtType ==
    ASSUME NEW S, NEW s \in Seq(S), NEW i \in DOMAIN s
    PROVE  /\ RemoveAt(s, i) \in Seq(S)
           /\ \A x \in ToSet(s) : x # s[i] => x \in ToSet(RemoveAt(s, i))
<1>1. i \in 1..Len(s) /\ Len(s) \in Nat
  OBVIOUS
<1> DEFINE u == SubSeq(s, 1, i - 1)
           v == SubSeq(s, i + 1, Len(s))
<1>2. /\ u \in Seq(S) /\ Len(u) = i - 1 /\ \A j \in 1..(i - 1) : u[j] = s[j]
      /\ v \in Seq(S) /\ Len(v) = Len(s) - i
      /\ \A j \in 1..(Len(s) - i) : v[j] = s[i + j]
  BY <1>1
<1>3. RemoveAt(s, i) = u \o v
  BY DEF RemoveAt
<1> HIDE DEF u, v
<1>4. /\ u \o v \in Seq(S) /\ Len(u \o v) = Len(s) - 1
      /\ \A j \in 1..(i - 1) : (u \o v)[j] = s[j]
      /\ \A j \in i..(Len(s) - 1) : (u \o v)[j] = s[j + 1]
  <2>1. /\ u \o v \in Seq(S) /\ Len(u \o v) = Len(u) + Len(v)
        /\ \A j \in 1..(Len(u) + Len(v)) :
             (u \o v)[j] = IF j <= Len(u) THEN u[j] ELSE v[j - Len(u)]
    BY <1>2, ConcatProperties
  <2>2. ASSUME NEW j \in i..(Len(s) - 1) PROVE (u \o v)[j] = s[j + 1]
    <3>1. /\ j \in 1..(Len(u) + Len(v)) /\ ~(j <= Len(u))
          /\ j - Len(u) \in 1..(Len(s) - i) /\ i + (j - Len(u)) = j + 1
      BY <1>1, <1>2
    <3> QED BY <1>2, <2>1, <3>1
  <2>3. ASSUME NEW j \in 1..(i - 1) PROVE (u \o v)[j] = s[j]
    <3>1. j \in 1..(Len(u) + Len(v)) /\ j <= Len(u)
      BY <1>1, <1>2
    <3> QED BY <1>2, <2>1, <3>1
  <2>4. Len(u) + Len(v) = Len(s) - 1
    BY <1>1, <1>2
  <2> QED BY <2>1, <2>2, <2>3, <2>4
<1>5. ASSUME NEW k \in DOMAIN s, s[k] # s[i]
      PROVE  s[k] \in ToSet(u \o v)
  <2>1. k \in 1..Len(s) /\ k # i
    BY <1>5
  <2>2. DOMAIN (u \o v) = 1..(Len(s) - 1)
    BY <1>4
  <2>3. CASE k < i
    <3>1. k \in DOMAIN (u \o v) /\ (u \o v)[k] = s[k]
      BY <1>1, <1>4, <2>1, <2>2, <2>3
    <3> QED BY <3>1 DEF ToSet
  <2>4. CASE k > i
    <3>1. k - 1 \in i..(Len(s) - 1) /\ (k - 1) + 1 = k /\ k - 1 \in DOMAIN (u \o v)
      BY <1>1, <2>1, <2>2, <2>4
    <3>2. (u \o v)[k - 1] = s[k]
      BY <1>4, <3>1
    <3> QED BY <3>1, <3>2 DEF ToSet
  <2> QED BY <1>1, <2>1, <2>3, <2>4
<1>6. ASSUME NEW x \in ToSet(s), x # s[i] PROVE x \in ToSet(RemoveAt(s, i))
  <2>1. PICK k \in DOMAIN s : s[k] = x
    BY <1>6 DEF ToSet
  <2> QED BY <1>3, <1>5, <1>6, <2>1
<1> QED BY <1>3, <1>4, <1>6

-----------------------------------------------------------------------------
(* One lemma per action. *)

LEMMA JoinShape ==
    ASSUME Shape, NEW a \in Agents, NEW r \in Rooms, Join(a, r)
    PROVE  Shape'
<1>1. members[r] \in Seq(Agents) /\ Append(members[r], a) \in Seq(Agents)
  BY TableTypes
<1>2. members' = [members EXCEPT ![r] = Append(members[r], a)]
  BY DEF Join
<1>3. listed' \in [Rooms -> SUBSET Agents]
  BY TableTypes DEF Join, history
<1>4. /\ req[a] = Idle /\ MembersFree(r)
      /\ UNCHANGED <<mem, held, lifecycle, req, rooms, row, home, wrote, known, crashes>>
  BY DEF Join, table, history
<1> QED BY <1>1, <1>2, <1>3, <1>4, MembersShape

LEMMA LeaveShape ==
    ASSUME Shape, NEW a \in Agents, NEW r \in Rooms, Leave(a, r)
    PROVE  Shape'
<1>1. PICK i \in DOMAIN members[r] :
          members' = [members EXCEPT ![r] = RemoveAt(members[r], i)]
  BY DEF Leave
<1>2. RemoveAt(members[r], i) \in Seq(Agents)
  <2>1. members[r] \in Seq(Agents)
    BY TableTypes
  <2> QED BY <2>1, RemoveAtType
<1>3. listed' \in [Rooms -> SUBSET Agents]
  BY TableTypes DEF Leave
<1>4. /\ req[a] = Idle /\ MembersFree(r)
      /\ UNCHANGED <<mem, held, lifecycle, req, rooms, row, home, wrote, known, crashes>>
  BY DEF Leave, table
<1> QED BY <1>1, <1>2, <1>3, <1>4, MembersShape

LEMMA AssignShape ==
    ASSUME Shape, NEW a \in Agents, NEW r \in Rooms, Assign(a, r)
    PROVE  Shape'
<1> DEFINE q == [Idle EXCEPT !.at = "save", !.room = r]
<1>1. q \in Requests /\ q.at = "save" /\ q.room = r
  BY IdleType DEF Requests, PCs
<1>2. Start(a, q)
  BY DEF Assign
<1> HIDE DEF q
<1>3. Moves(a, q) /\ req[a].at = "idle"
  BY <1>1, <1>2, StartMoves, IdleType
<1>4. Knows(q, home, rooms)
  BY <1>1 DEF Knows
<1>5. /\ UNCHANGED <<rooms, row, home, wrote, crashes, held, members, lifecycle>>
      /\ UNCHANGED <<mem, known, listed>>
  BY DEF Assign, table, history
<1> QED BY <1>1, <1>3, <1>4, <1>5, TableTypes, ShapeKeeps

LEMMA CreateSaveShape ==
    ASSUME Shape, NEW a \in Agents, CreateSave(a)
    PROVE  Shape'
<1> DEFINE p == req[a]
<1>1. p \in Requests /\ p.at = "save" /\ p.room \in Rooms
      /\ lifecycle # a /\ \A t \in Tasks : held[t] # a
  BY RequestFacts DEF CreateSave, Knows
<1>2. UNCHANGED <<mem, held, members, lifecycle, rooms, wrote, known, listed, crashes>>
  BY DEF CreateSave
<1>3. ASSUME NEW t \in Tasks, home[t] = None, p.room \in rooms,
             NEW info, info = [NoTask EXCEPT !.room = p.room, !.rev = 1],
             row' = [row EXCEPT ![t] = info], home' = [home EXCEPT ![t] = p.room],
             req' = [req EXCEPT ![a].at = "insert", ![a].task = t, ![a].info = info]
      PROVE  Shape'
  <2> DEFINE q == [p EXCEPT !.at = "insert", !.task = t, !.info = info]
  <2>1. info \in TaskInfos /\ info.room = p.room
    <3>1. info = [room |-> p.room, rev |-> 1, val |-> NoTask.val]
      BY <1>3 DEF NoTask
    <3> QED BY <1>1, <3>1, NoTaskType DEF TaskInfos
  <2>2. q \in Requests /\ q.at = "insert" /\ q.task = t /\ q.info = info /\ q.room = p.room
    BY <1>1, <2>1 DEF Requests, PCs
  <2>3. req' = [req EXCEPT ![a] = q]
    BY <1>3
  <2> HIDE DEF q, p
  <2>4. Moves(a, q)
    BY <2>2, <2>3, TableTypes DEF Moves
  <2>5. home'[t] = p.room /\ Knows(q, home', rooms')
    BY <1>1, <1>3, <2>1, <2>2, TableTypes DEF Knows
  <2>6. /\ row' \in [Tasks -> TaskInfos \cup {NoTask}]
        /\ home' \in [Tasks -> Rooms \cup {None}]
    BY <1>1, <1>3, <2>1, TableTypes
  <2>7. ASSUME NEW s \in Tasks
        PROVE  /\ home[s] # None => home'[s] = home[s]
               /\ row'[s] # NoTask => row'[s].room = home'[s] /\ home'[s] \in rooms'
               /\ mem'[s] # NoTask => home'[s] # None /\ mem'[s].room = home'[s]
    BY <1>2, <1>3, <2>1, <2>5, TableTypes
  <2>8. MoveKeepsShape(a, q)
    BY <1>1, <1>2, <2>2, <2>5, <2>6, <2>7, TableTypes DEF MoveKeepsShape
  <2> QED BY <2>2, <2>4, <2>8, ShapeMoves
<1>4. ASSUME Finish(a), UNCHANGED <<row, home>>
      PROVE  Shape'
  <2>1. Moves(a, Idle) /\ Knows(Idle, home, rooms)
    BY <1>4, FinishMoves, IdleType DEF Knows
  <2>2. UNCHANGED <<rooms, row, home, wrote, crashes, held, members, lifecycle>>
    BY <1>2, <1>4
  <2> QED BY <1>1, <1>2, <2>1, <2>2, IdleType, TableTypes, ShapeKeeps
<1> QED BY <1>3, <1>4 DEF CreateSave

LEMMA CreateInsertShape ==
    ASSUME Shape, NEW a \in Agents, CreateInsert(a)
    PROVE  Shape'
<1>1. /\ req[a] \in Requests /\ req[a].at = "insert" /\ Knows(req[a], home, rooms)
      /\ Goto(a, "tell") /\ "tell" \in PCs
  BY RequestFacts DEF CreateInsert, PCs
<1>2. PICK q \in Requests :
          /\ Moves(a, q) /\ q.at = "tell"
          /\ q.task = req[a].task /\ q.room = req[a].room /\ q.info = req[a].info
  BY <1>1, GotoMoves
<1>3. Knows(q, home, rooms)
  BY <1>1, <1>2 DEF Knows
<1>4. /\ UNCHANGED <<rooms, row, home, wrote, crashes, held, members, lifecycle>>
      /\ UNCHANGED <<known, listed>>
      /\ mem' = [mem EXCEPT ![req[a].task] = req[a].info]
  BY DEF CreateInsert, table, history
<1>5. /\ mem' \in [Tasks -> TaskInfos \cup {NoTask}]
      /\ \A t \in Tasks : mem'[t] # NoTask => home[t] # None /\ mem'[t].room = home[t]
  BY <1>1, <1>4, TableTypes, BoardAssumption DEF Knows
<1> QED BY <1>1, <1>2, <1>3, <1>4, <1>5, TableTypes, ShapeKeeps

LEMMA UpdateShape ==
    ASSUME Shape, NEW a \in Agents, NEW t \in Tasks, NEW u \in Updates, Update(a, t, u)
    PROVE  Shape'
<1> DEFINE q == [Idle EXCEPT !.at = "enter", !.task = t, !.room = mem[t].room, !.sets = u]
<1>1. mem[t] # NoTask /\ mem[t].room = home[t] /\ mem[t].room \in Rooms
  BY TableTypes, BoardAssumption DEF Update
<1>2. /\ q \in Requests /\ q.at = "enter" /\ q.task = t /\ q.room = mem[t].room
  BY <1>1, IdleType DEF Requests, PCs
<1>3. Start(a, q)
  BY DEF Update
<1> HIDE DEF q
<1>4. Moves(a, q) /\ req[a].at = "idle"
  BY <1>2, <1>3, StartMoves, IdleType
<1>5. Knows(q, home, rooms)
  BY <1>1, <1>2 DEF Knows
<1>6. /\ UNCHANGED <<rooms, row, home, wrote, crashes, held, members, lifecycle>>
      /\ UNCHANGED <<mem, known, listed>>
  BY DEF Update, table, history
<1> QED BY <1>2, <1>4, <1>5, <1>6, TableTypes, ShapeKeeps

LEMMA MergedType ==
    ASSUME NEW info \in TaskInfos, NEW u \in Updates
    PROVE  /\ Merged(info, u) \in TaskInfos
           /\ Merged(info, u).room = info.room /\ Merged(info, u).rev = info.rev + 1
           /\ \A f \in Fields :
                Merged(info, u).val[f] = IF f \in DOMAIN u THEN u[f] ELSE info.val[f]
<1> DEFINE v == [f \in Fields |-> IF f \in DOMAIN u THEN u[f] ELSE info.val[f]]
<1>1. info.val \in [Fields -> Values \cup {None}] /\ info.rev \in Nat \ {0} /\ info.room \in Rooms
  BY DEF TaskInfos
<1>2. \A f \in DOMAIN u : u[f] \in Values
  BY DEF Updates
<1>3. v \in [Fields -> Values \cup {None}]
  BY <1>1, <1>2
<1>4. Merged(info, u) = [info EXCEPT !.val = v, !.rev = info.rev + 1]
  BY DEF Merged
<1> HIDE DEF v
<1>5. /\ Merged(info, u) \in TaskInfos /\ Merged(info, u).val = v
      /\ Merged(info, u).room = info.room /\ Merged(info, u).rev = info.rev + 1
  <2>1. info = [room |-> info.room, rev |-> info.rev, val |-> info.val]
    BY DEF TaskInfos
  <2>2. Merged(info, u) = [room |-> info.room, rev |-> info.rev + 1, val |-> v]
    BY <1>4, <2>1
  <2>3. info.rev + 1 \in Nat \ {0}
    BY <1>1
  <2> QED BY <1>1, <1>3, <2>2, <2>3 DEF TaskInfos
<1> QED BY <1>5 DEF v

LEMMA UpdateEnterShape ==
    ASSUME Shape, NEW a \in Agents, UpdateEnter(a)
    PROVE  Shape'
<1> DEFINE p == req[a]
           t == p.task
<1>1. p \in Requests /\ p.at = "enter" /\ t \in Tasks /\ p.room \in Rooms /\ home[t] = p.room
      /\ lifecycle # a /\ (\A s \in Tasks : held[s] # a) /\ held[t] = None
      /\ p.sets \in Updates
  <2>1. p \in Requests /\ p.at = "enter" /\ held[t] = None /\ Knows(p, home, rooms)
        /\ lifecycle # a /\ \A s \in Tasks : held[s] # a
    BY RequestFacts DEF UpdateEnter
  <2> QED BY <2>1 DEF Knows, Requests
<1>2. UNCHANGED <<mem, members, lifecycle, rooms, row, home, wrote, known, listed, crashes>>
  BY DEF UpdateEnter, table, history
<1>3. CASE mem[t] = NoTask
  <2>1. Finish(a) /\ held' = held
    BY <1>3 DEF UpdateEnter
  <2>2. Moves(a, Idle) /\ Knows(Idle, home, rooms)
    BY <2>1, FinishMoves, IdleType DEF Knows
  <2>3. UNCHANGED <<rooms, row, home, wrote, crashes, held, members, lifecycle>>
    BY <1>2, <2>1
  <2> QED BY <1>1, <1>2, <2>2, <2>3, IdleType, TableTypes, ShapeKeeps
<1>4. CASE mem[t] # NoTask
  <2> DEFINE info == Merged(mem[t], p.sets)
             q == [p EXCEPT !.at = "write", !.info = info]
  <2>1. info \in TaskInfos /\ info.room = p.room
    <3>1. mem[t] \in TaskInfos /\ mem[t].room = p.room
      BY <1>1, <1>4, TableTypes
    <3> HIDE DEF p
    <3> QED BY <1>1, <3>1, MergedType
  <2>2. q \in Requests /\ q.at = "write" /\ q.task = t /\ q.info = info /\ q.room = p.room
    BY <1>1, <2>1 DEF Requests, PCs
  <2>3. req' = [req EXCEPT ![a] = q] /\ held' = [held EXCEPT ![t] = a]
    BY <1>4 DEF UpdateEnter
  <2> HIDE DEF q, info, p
  <2>4. Moves(a, q)
    BY <2>2, <2>3, TableTypes DEF Moves
  <2>5. Knows(q, home', rooms')
    BY <1>1, <1>2, <2>1, <2>2 DEF Knows
  <2>6. ASSUME NEW s \in Tasks
        PROVE  /\ held'[s] = a <=> q.at \in {"write", "set"} /\ q.task = s
               /\ \A b \in Agents \ {a} : held'[s] = b <=> held[s] = b
    BY <1>1, <2>2, <2>3, TableTypes, BoardAssumption
  <2>7. held' \in [Tasks -> Agents \cup {None}]
    BY <1>1, <2>3, TableTypes
  <2>8. MoveKeepsShape(a, q)
    BY <1>1, <1>2, <2>2, <2>5, <2>6, <2>7, TableTypes DEF MoveKeepsShape
  <2> QED BY <2>2, <2>4, <2>8, ShapeMoves
<1> QED BY <1>3, <1>4

(* The end of an update, saved or refused, ... *)
LEMMA UpdateWriteShape ==
    ASSUME Shape, NEW a \in Agents, UpdateWrite(a)
    PROVE  Shape'
<1> DEFINE p == req[a]
           t == p.task
<1>1. /\ p \in Requests /\ p.at = "write" /\ t \in Tasks /\ p.room \in Rooms
      /\ home[t] = p.room /\ p.info \in TaskInfos /\ p.info.room = p.room
      /\ lifecycle # a /\ held[t] = a /\ \A s \in Tasks : held[s] = a <=> s = t
      /\ p.sets \in Updates
  <2>1. p \in Requests /\ p.at = "write" /\ Knows(p, home, rooms)
        /\ lifecycle # a /\ \A s \in Tasks : held[s] = a <=> p.task = s
    BY RequestFacts DEF UpdateWrite
  <2> QED BY <2>1 DEF Knows, Requests
<1>2. UNCHANGED <<mem, members, lifecycle, rooms, home, known, listed, crashes>>
  BY DEF UpdateWrite
<1>3. ASSUME p.room \in rooms, row' = [row EXCEPT ![t] = p.info],
             wrote' = [wrote EXCEPT ![t] =
                 [f \in Fields |-> IF f \in DOMAIN p.sets THEN p.sets[f] ELSE wrote[t][f]]],
             Goto(a, "set"), held' = held
      PROVE  Shape'
  <2>1. PICK q \in Requests : Moves(a, q) /\ q.at = "set" /\ q.task = t
                              /\ q.room = p.room /\ q.info = p.info
    BY <1>3, GotoMoves DEF PCs
  <2>2. Knows(q, home', rooms')
    BY <1>1, <1>2, <2>1 DEF Knows
  <2>3. wrote' \in [Tasks -> [Fields -> Values \cup {None}]]
    <3>1. [f \in Fields |-> IF f \in DOMAIN p.sets THEN p.sets[f] ELSE wrote[t][f]]
              \in [Fields -> Values \cup {None}]
      <4>1. \A f \in DOMAIN p.sets : p.sets[f] \in Values
        BY <1>1 DEF Updates
      <4>2. wrote[t] \in [Fields -> Values \cup {None}]
        BY <1>1, TableTypes
      <4> QED BY <4>1, <4>2
    <3> QED BY <1>3, <3>1, TableTypes
  <2> HIDE DEF p
  <2>4. /\ row' \in [Tasks -> TaskInfos \cup {NoTask}]
        /\ \A s \in Tasks : row'[s] # NoTask => row'[s].room = home'[s] /\ home'[s] \in rooms'
    BY <1>1, <1>2, <1>3, TableTypes
  <2>5. \A s \in Tasks : held'[s] = a <=> q.at \in {"write", "set"} /\ q.task = s
    BY <1>1, <1>3, <2>1
  <2>6. MoveKeepsShape(a, q)
    BY <1>1, <1>2, <1>3, <2>1, <2>2, <2>3, <2>4, <2>5, TableTypes DEF MoveKeepsShape
  <2> QED BY <2>1, <2>6, ShapeMoves
<1>4. ASSUME Finish(a), held' = [held EXCEPT ![t] = None], UNCHANGED <<row, wrote>>
      PROVE  Shape'
  <2>1. Moves(a, Idle) /\ Knows(Idle, home', rooms')
    BY <1>4, FinishMoves, IdleType DEF Knows
  <2>2. /\ held' \in [Tasks -> Agents \cup {None}]
        /\ \A s \in Tasks : /\ held'[s] # a
                            /\ \A b \in Agents \ {a} : held'[s] = b <=> held[s] = b
    BY <1>1, <1>4, TableTypes, BoardAssumption
  <2>3. MoveKeepsShape(a, Idle)
    BY <1>1, <1>2, <1>4, <2>1, <2>2, IdleType, TableTypes DEF MoveKeepsShape
  <2> QED BY <2>1, <2>3, IdleType, ShapeMoves
<1> QED BY <1>3, <1>4 DEF UpdateWrite

(* ... which frees the entry. *)
LEMMA UpdateSetShape ==
    ASSUME Shape, NEW a \in Agents, UpdateSet(a)
    PROVE  Shape'
<1> DEFINE p == req[a]
           t == p.task
<1>1. /\ p.at = "set" /\ t \in Tasks /\ p.room \in Rooms
      /\ home[t] = p.room /\ p.info \in TaskInfos /\ p.info.room = p.room
      /\ lifecycle # a /\ held[t] = a /\ \A s \in Tasks : held[s] = a <=> s = t
  <2>1. p.at = "set" /\ Knows(p, home, rooms)
        /\ lifecycle # a /\ \A s \in Tasks : held[s] = a <=> p.task = s
    BY RequestFacts DEF UpdateSet
  <2> QED BY <2>1 DEF Knows
<1>2. /\ UNCHANGED <<members, lifecycle, rooms, row, home, wrote, known, listed, crashes>>
      /\ mem' = [mem EXCEPT ![t] = p.info] /\ held' = [held EXCEPT ![t] = None]
      /\ Goto(a, "tell") /\ "tell" \in PCs
  BY DEF UpdateSet, table, history, PCs
<1>3. PICK q \in Requests : Moves(a, q) /\ q.at = "tell" /\ q.task = t
                            /\ q.room = p.room /\ q.info = p.info
  BY <1>2, GotoMoves
<1> HIDE DEF p
<1>4. Knows(q, home', rooms')
  BY <1>1, <1>2, <1>3 DEF Knows
<1>5. /\ mem' \in [Tasks -> TaskInfos \cup {NoTask}]
      /\ \A s \in Tasks : mem'[s] # NoTask => home'[s] # None /\ mem'[s].room = home'[s]
  BY <1>1, <1>2, TableTypes, BoardAssumption
<1>6. /\ held' \in [Tasks -> Agents \cup {None}]
      /\ \A s \in Tasks : /\ held'[s] # a
                          /\ \A b \in Agents \ {a} : held'[s] = b <=> held[s] = b
  BY <1>1, <1>2, TableTypes, BoardAssumption
<1>7. MoveKeepsShape(a, q)
  BY <1>1, <1>2, <1>3, <1>4, <1>5, <1>6, TableTypes DEF MoveKeepsShape
<1> QED BY <1>3, <1>7, ShapeMoves

LEMMA TellShape ==
    ASSUME Shape, NEW a \in Agents, Tell(a)
    PROVE  Shape'
<1> DEFINE p == req[a]
<1>1. p \in Requests /\ p.at = "tell" /\ Knows(p, home, rooms) /\ p.room \in Rooms
  BY RequestFacts DEF Tell, Knows
<1>2. /\ UNCHANGED <<rooms, row, home, wrote, crashes, held, members, lifecycle>>
      /\ UNCHANGED <<mem, known, listed>>
  BY DEF Tell, table, history
<1>3. CASE members[p.room] = <<>>
  <2>1. Moves(a, Idle) /\ Knows(Idle, home, rooms)
    BY <1>3, FinishMoves, IdleType DEF Tell, Knows
  <2> QED BY <1>1, <1>2, <2>1, IdleType, TableTypes, ShapeKeeps
<1>4. CASE members[p.room] # <<>>
  <2> DEFINE q == [p EXCEPT !.at = "send", !.todo = members[p.room]]
  <2>1. members[p.room] \in Seq(Agents)
    BY <1>1, TableTypes
  <2>2. /\ q \in Requests /\ q.at = "send" /\ q.task = p.task /\ q.info = p.info
        /\ q.room = p.room /\ q.todo = members[p.room]
    BY <1>1, <2>1 DEF Requests, PCs
  <2>3. req' = [req EXCEPT ![a] = q]
    BY <1>4 DEF Tell
  <2> HIDE DEF q
  <2>4. Moves(a, q)
    BY <2>2, <2>3, TableTypes DEF Moves
  <2>5. Knows(q, home, rooms)
    BY <1>1, <2>2 DEF Knows
  <2>6. q.todo # <<>> /\ ToSet(q.todo) \subseteq ToSet(members[q.room])
    BY <1>4, <2>2
  <2> QED BY <1>1, <1>2, <2>2, <2>4, <2>5, <2>6, TableTypes, ShapeKeeps
<1> QED BY <1>3, <1>4

(* Sending: the first of those still to be told is told. *)
LEMMA SendMoves ==
    ASSUME Shape, NEW a \in Agents, Send(a)
    PROVE  /\ Head(req[a].todo) \in Agents
           /\ req[a].task \in Tasks /\ req[a].info \in TaskInfos
           /\ known' = [known EXCEPT ![Head(req[a].todo)][req[a].task] =
                                         Newest(@, req[a].info.rev)]
           /\ known' \in [Agents -> [Tasks -> Nat]]
           /\ \/ Tail(req[a].todo) = <<>> /\ Moves(a, Idle)
              \/ \E q \in Requests :
                    /\ Moves(a, q) /\ q.at = "send" /\ q.todo = Tail(req[a].todo)
                    /\ q.todo # <<>>
                    /\ q.task = req[a].task /\ q.room = req[a].room /\ q.info = req[a].info
<1> DEFINE p == req[a]
           h == Head(p.todo)
<1>1. /\ p \in Requests /\ p.at = "send" /\ p.task \in Tasks /\ p.info \in TaskInfos
      /\ p.todo # <<>> /\ p.todo \in Seq(Agents)
  <2>1. p \in Requests /\ p.at = "send" /\ Knows(p, home, rooms)
    BY RequestFacts DEF Send
  <2> QED BY <2>1, SendFacts DEF Knows
<1>2. h \in Agents /\ Tail(p.todo) \in Seq(Agents)
  BY <1>1
<1>3. known' = [known EXCEPT ![h][p.task] = Newest(@, p.info.rev)]
  BY DEF Send
<1>4. p.info.rev \in Nat /\ known[h] \in [Tasks -> Nat]
  BY <1>1, <1>2, NoTaskType, TableTypes
<1>5. Newest(known[h][p.task], p.info.rev) \in Nat
  BY <1>1, <1>4 DEF Newest
<1>6. known' \in [Agents -> [Tasks -> Nat]]
  BY <1>1, <1>2, <1>3, <1>4, <1>5, TableTypes
<1>7. CASE Tail(p.todo) = <<>>
  <2>1. Moves(a, Idle)
    BY <1>7, FinishMoves DEF Send
  <2> QED BY <1>1, <1>2, <1>3, <1>6, <1>7, <2>1
<1>8. CASE Tail(p.todo) # <<>>
  <2> DEFINE q == [p EXCEPT !.todo = Tail(p.todo)]
  <2>1. /\ q \in Requests /\ q.at = "send" /\ q.todo = Tail(p.todo)
        /\ q.task = p.task /\ q.room = p.room /\ q.info = p.info
    BY <1>1, <1>2 DEF Requests
  <2>2. req' = [req EXCEPT ![a] = q]
    BY <1>8 DEF Send
  <2> HIDE DEF q
  <2>3. Moves(a, q)
    BY <2>1, <2>2, TableTypes DEF Moves
  <2> QED BY <1>1, <1>2, <1>3, <1>6, <1>8, <2>1, <2>3
<1> QED BY <1>7, <1>8

LEMMA SendChanges ==
    ASSUME Shape, NEW a \in Agents, Send(a), NEW b \in Agents, NEW t \in Tasks
    PROVE  IF b = Head(req[a].todo) /\ t = req[a].task
           THEN known'[b][t] = Newest(known[b][t], req[a].info.rev)
           ELSE known'[b][t] = known[b][t]
<1> DEFINE h == Head(req[a].todo)
           s == req[a].task
           n == req[a].info.rev
<1>1. /\ h \in Agents /\ s \in Tasks
      /\ known' = [known EXCEPT ![h][s] = Newest(known[h][s], n)]
  BY SendMoves
<1>2. known \in [Agents -> [Tasks -> Nat]]
  BY TableTypes
<1> HIDE DEF h, s, n
<1>3. IF b = h /\ t = s THEN known'[b][t] = Newest(known[b][t], n)
                       ELSE known'[b][t] = known[b][t]
  BY <1>1, <1>2
<1> QED BY <1>3 DEF h, s, n

LEMMA TailInside ==
    ASSUME NEW S, NEW s \in Seq(S), s # <<>>
    PROVE  /\ ToSet(Tail(s)) \subseteq ToSet(s)
           /\ ToSet(s) \subseteq ToSet(Tail(s)) \cup {Head(s)}
<1>1. /\ Tail(s) \in Seq(S) /\ Len(Tail(s)) = Len(s) - 1 /\ Len(s) \in Nat \ {0}
      /\ Head(s) = s[1] /\ \A i \in 1..(Len(s) - 1) : Tail(s)[i] = s[i + 1]
  BY HeadTailProperties, LenProperties, EmptySeq
<1>2. ASSUME NEW x \in ToSet(Tail(s)) PROVE x \in ToSet(s)
  <2>1. PICK i \in DOMAIN Tail(s) : Tail(s)[i] = x
    BY DEF ToSet
  <2>2. i \in 1..(Len(s) - 1) /\ i + 1 \in DOMAIN s /\ s[i + 1] = x
    BY <1>1, <2>1
  <2> QED BY <2>2 DEF ToSet
<1>3. ASSUME NEW x \in ToSet(s), x # Head(s) PROVE x \in ToSet(Tail(s))
  <2>1. PICK i \in DOMAIN s : s[i] = x
    BY DEF ToSet
  <2>2. i # 1 /\ i \in 1..Len(s)
    BY <1>1, <1>3, <2>1
  <2>3. i - 1 \in 1..(Len(s) - 1) /\ (i - 1) + 1 = i /\ DOMAIN Tail(s) = 1..(Len(s) - 1)
    BY <1>1, <2>2
  <2>4. Tail(s)[i - 1] = x
    BY <1>1, <2>1, <2>3
  <2> QED BY <2>3, <2>4 DEF ToSet
<1> QED BY <1>2, <1>3

LEMMA SendShape ==
    ASSUME Shape, NEW a \in Agents, Send(a)
    PROVE  Shape'
<1>1. req[a].at = "send" /\ Knows(req[a], home, rooms)
  BY RequestFacts DEF Send
<1>2. /\ UNCHANGED <<rooms, row, home, wrote, crashes, held, members, lifecycle>>
      /\ UNCHANGED <<mem, listed>>
  BY DEF Send, table
<1>3. known' \in [Agents -> [Tasks -> Nat]]
  BY SendMoves
<1>4. ASSUME Moves(a, Idle) PROVE Shape'
  <2>1. Knows(Idle, home, rooms)
    BY IdleType DEF Knows
  <2> QED BY <1>1, <1>2, <1>3, <1>4, <2>1, IdleType, TableTypes, ShapeKeeps
<1>5. ASSUME NEW q \in Requests, Moves(a, q), q.at = "send", q.todo = Tail(req[a].todo),
             q.todo # <<>>,
             q.task = req[a].task, q.room = req[a].room, q.info = req[a].info
      PROVE  Shape'
  <2>1. Knows(q, home, rooms)
    BY <1>1, <1>5 DEF Knows
  <2>2. ToSet(q.todo) \subseteq ToSet(members[q.room])
    BY <1>1, <1>5, SendFacts, TailInside
  <2> QED BY <1>1, <1>2, <1>3, <1>5, <2>1, <2>2, TableTypes, ShapeKeeps
<1> QED BY <1>4, <1>5, SendMoves

LEMMA ListTypes ==
    ASSUME Shape, NEW a \in Agents, NEW r \in Rooms, List(a, r)
    PROVE  /\ known' \in [Agents -> [Tasks -> Nat]]
           /\ listed' \in [Rooms -> SUBSET Agents]
<1>1. \A t \in Tasks : mem[t].rev \in Nat /\ known[a][t] \in Nat
  BY TableTypes, NoTaskType
<1>2. [t \in Tasks |-> IF mem[t].room = r THEN Newest(known[a][t], mem[t].rev)
                       ELSE known[a][t]] \in [Tasks -> Nat]
  BY <1>1 DEF Newest
<1>3. known' = [known EXCEPT ![a] =
          [t \in Tasks |-> IF mem[t].room = r THEN Newest(known[a][t], mem[t].rev)
                           ELSE known[a][t]]]
  BY TableTypes DEF List
<1>4. known' \in [Agents -> [Tasks -> Nat]]
  BY <1>2, <1>3, TableTypes
<1>5. listed' \in [Rooms -> SUBSET Agents]
  BY TableTypes DEF List
<1> QED BY <1>4, <1>5

LEMMA ListShape ==
    ASSUME Shape, NEW a \in Agents, NEW r \in Rooms, List(a, r)
    PROVE  Shape'
<1>1. /\ UNCHANGED <<rooms, row, home, wrote, crashes, held, members, lifecycle>>
      /\ UNCHANGED <<mem, req>> /\ req[a] = Idle
  BY DEF List, server, table
<1>2. Moves(a, Idle) /\ Knows(Idle, home, rooms) /\ Idle.at = "idle" /\ Idle \in Requests
  BY <1>1, Stays, IdleType DEF Knows
<1> QED BY <1>1, <1>2, ListTypes, TableTypes, ShapeKeeps

LEMMA DestroyShape ==
    ASSUME Shape, NEW a \in Agents, NEW r \in Rooms, Destroy(a, r)
    PROVE  Shape'
<1> DEFINE q == [Idle EXCEPT !.at = "members", !.room = r]
<1>1. q \in Requests /\ q.at = "members" /\ q.room = r
  BY IdleType DEF Requests, PCs
<1>2. Start(a, q)
  BY DEF Destroy
<1> HIDE DEF q
<1>3. Moves(a, q) /\ req[a].at = "idle"
  BY <1>1, <1>2, StartMoves, IdleType
<1>4. /\ UNCHANGED <<mem, held, members, home, wrote, known, listed, crashes>>
      /\ rooms' = rooms \ {r} /\ lifecycle = None /\ lifecycle' = a
      /\ row' = [t \in Tasks |-> IF row[t].room = r THEN NoTask ELSE row[t]]
  BY DEF Destroy, history
<1>5. Knows(q, home', rooms')
  BY <1>1, <1>4 DEF Knows
<1>6. /\ row' \in [Tasks -> TaskInfos \cup {NoTask}]
      /\ \A t \in Tasks : row'[t] # NoTask => row'[t].room = home'[t] /\ home'[t] \in rooms'
  BY <1>4, TableTypes
<1>7. \A t \in Tasks : held[t] # a
  BY <1>3, RequestFacts
<1>8. \A b \in Agents \ {a} : lifecycle' = b <=> lifecycle = b
  BY <1>4, BoardAssumption
<1>9. MoveKeepsShape(a, q)
  BY <1>1, <1>4, <1>5, <1>6, <1>7, <1>8, TableTypes DEF MoveKeepsShape
<1> QED BY <1>1, <1>3, <1>9, ShapeMoves

LEMMA DestroyMembersShape ==
    ASSUME Shape, NEW a \in Agents, DestroyMembers(a)
    PROVE  Shape'
<1> DEFINE r == req[a].room
<1>1. /\ req[a].at = "members" /\ r \in Rooms \ rooms /\ lifecycle = a
      /\ \A t \in Tasks : held[t] # a
  BY RequestFacts DEF DestroyMembers, Knows
<1>2. /\ UNCHANGED <<mem, held, rooms, row, home, wrote, known, crashes>>
      /\ members' = [members EXCEPT ![r] = <<>>] /\ listed' = [listed EXCEPT ![r] = {}]
      /\ lifecycle' = None /\ MembersFree(r) /\ Goto(a, "forget") /\ "forget" \in PCs
  BY DEF DestroyMembers, table, PCs
<1>3. PICK q \in Requests : Moves(a, q) /\ q.at = "forget" /\ q.room = r
  BY <1>2, GotoMoves
<1> HIDE DEF r
<1>4. Knows(q, home', rooms')
  BY <1>1, <1>2, <1>3 DEF Knows
<1>5. /\ members' \in [Rooms -> Seq(Agents)] /\ listed' \in [Rooms -> SUBSET Agents]
  BY <1>1, <1>2, TableTypes
<1>6. \A b \in Agents \ {a} :
        /\ lifecycle' = b <=> lifecycle = b
        /\ req[b].at = "send" => members'[req[b].room] = members[req[b].room]
  BY <1>1, <1>2, TableTypes, BoardAssumption DEF MembersFree
<1>7. lifecycle' \in Agents \cup {None} /\ lifecycle' # a
  BY <1>2, BoardAssumption
<1>8. MoveKeepsShape(a, q)
  BY <1>1, <1>2, <1>3, <1>4, <1>5, <1>6, <1>7, TableTypes DEF MoveKeepsShape
<1> QED BY <1>3, <1>8, ShapeMoves

LEMMA DestroyForgetShape ==
    ASSUME Shape, NEW a \in Agents, DestroyForget(a)
    PROVE  Shape'
<1>1. req[a].at = "forget" /\ Finish(a)
  BY DEF DestroyForget
<1>2. Moves(a, Idle) /\ Knows(Idle, home, rooms)
  BY <1>1, FinishMoves, IdleType DEF Knows
<1>3. /\ UNCHANGED <<rooms, row, home, wrote, crashes, held, members, lifecycle>>
      /\ UNCHANGED <<known, listed>>
      /\ mem' = [t \in Tasks |-> IF mem[t].room = req[a].room THEN NoTask ELSE mem[t]]
  BY DEF DestroyForget, table, history
<1>4. /\ mem' \in [Tasks -> TaskInfos \cup {NoTask}]
      /\ \A t \in Tasks : mem'[t] # NoTask => home[t] # None /\ mem'[t].room = home[t]
  BY <1>3, TableTypes
<1> QED BY <1>1, <1>2, <1>3, <1>4, IdleType, TableTypes, ShapeKeeps

LEMMA CrashShape ==
    ASSUME Shape, Crash
    PROVE  Shape'
<1>1. /\ UNCHANGED <<rooms, row, home, wrote, known>>
      /\ mem' = row /\ held' = [t \in Tasks |-> None]
      /\ members' = [r \in Rooms |-> <<>>] /\ lifecycle' = None
      /\ req' = [a \in Agents |-> Idle] /\ listed' = [r \in Rooms |-> {}]
      /\ crashes < MaxCrash /\ crashes' = crashes + 1
  BY DEF Crash, Load, table
<1>2. /\ req' \in [Agents -> Requests]
      /\ \A a \in Agents : /\ req'[a].at = "idle" /\ Knows(req'[a], home', rooms')
                           /\ lifecycle' # a /\ \A t \in Tasks : held'[t] # a
  BY <1>1, IdleType, BoardAssumption DEF Knows
<1>3. crashes' \in 0..MaxCrash
  BY <1>1, BoardAssumption DEF Shape, TypeOK
<1>4. /\ members' \in [Rooms -> Seq(Agents)] /\ listed' \in [Rooms -> SUBSET Agents]
      /\ held' \in [Tasks -> Agents \cup {None}] /\ lifecycle' \in Agents \cup {None}
  BY <1>1
<1>5. TypeOK'
  BY <1>1, <1>2, <1>3, <1>4, TableTypes DEF TypeOK
<1>6. \A t \in Tasks : mem'[t] # NoTask => home'[t] # None /\ mem'[t].room = home'[t]
  BY <1>1, TableTypes, BoardAssumption
<1> QED BY <1>2, <1>5, <1>6 DEF Shape

LEMMA StutterShape ==
    ASSUME Shape, UNCHANGED vars
    PROVE  Shape'
<1>1. UNCHANGED <<rooms, row, mem, held, members, lifecycle, req, home, wrote, known,
                  listed, crashes>>
  BY DEF vars, server, table, history
<1>2. TypeOK'
  <2>1. crashes' \in 0..MaxCrash
    BY <1>1 DEF Shape, TypeOK
  <2>2. \A a \in Agents :
          /\ lifecycle' = a <=> req'[a].at = "members"
          /\ \A t \in Tasks :
               held'[t] = a <=> req'[a].at \in {"write", "set"} /\ req'[a].task = t
          /\ req'[a].at = "send" =>
               /\ req'[a].todo # <<>>
               /\ ToSet(req'[a].todo) \subseteq ToSet(members'[req'[a].room])
    BY <1>1, RequestFacts, SendFacts
  <2>3. /\ rooms' \subseteq Rooms
        /\ row' \in [Tasks -> TaskInfos \cup {NoTask}]
        /\ mem' \in [Tasks -> TaskInfos \cup {NoTask}]
        /\ home' \in [Tasks -> Rooms \cup {None}]
        /\ held' \in [Tasks -> Agents \cup {None}]
        /\ members' \in [Rooms -> Seq(Agents)]
        /\ lifecycle' \in Agents \cup {None}
        /\ req' \in [Agents -> Requests]
        /\ wrote' \in [Tasks -> [Fields -> Values \cup {None}]]
        /\ known' \in [Agents -> [Tasks -> Nat]]
        /\ listed' \in [Rooms -> SUBSET Agents]
    BY <1>1, TableTypes
  <2>4. /\ \A t \in Tasks : row'[t] # NoTask => row'[t].room = home'[t] /\ home'[t] \in rooms'
        /\ \A t \in Tasks, c \in Agents :
             held'[t] = c <=> req'[c].at \in {"write", "set"} /\ req'[c].task = t
        /\ \A c \in Agents : lifecycle' = c <=> req'[c].at = "members"
        /\ \A c \in Agents : req'[c].at = "send" =>
             /\ req'[c].todo # <<>>
             /\ ToSet(req'[c].todo) \subseteq ToSet(members'[req'[c].room])
    BY <1>1, <2>2, TableTypes, ZenonT(60)
  <2> QED BY <2>1, <2>3, <2>4, ZenonT(60) DEF TypeOK
<1>3. \A a \in Agents : Knows(req'[a], home', rooms')
  BY <1>1 DEF Shape
<1> QED BY <1>1, <1>2, <1>3 DEF Shape

LEMMA NextShape == Shape /\ [Next]_vars => Shape'
<1> SUFFICES ASSUME Shape, [Next]_vars PROVE Shape'
  OBVIOUS
<1>1. ASSUME NEW a \in Agents, NEW r \in Rooms,
             Join(a, r) \/ Leave(a, r) \/ Assign(a, r) \/ List(a, r) \/ Destroy(a, r)
      PROVE  Shape'
  BY <1>1, JoinShape, LeaveShape, AssignShape, ListShape, DestroyShape
<1>2. ASSUME NEW a \in Agents, NEW t \in Tasks, NEW u \in Updates, Update(a, t, u)
      PROVE  Shape'
  BY <1>2, UpdateShape
<1>3. ASSUME NEW a \in Agents, CreateSave(a) \/ CreateInsert(a) \/ UpdateEnter(a)
             \/ UpdateWrite(a) \/ UpdateSet(a)
      PROVE  Shape'
  BY <1>3, CreateSaveShape, CreateInsertShape, UpdateEnterShape, UpdateWriteShape,
     UpdateSetShape
<1>4. ASSUME NEW a \in Agents, Tell(a) \/ Send(a) \/ DestroyMembers(a) \/ DestroyForget(a)
      PROVE  Shape'
  BY <1>4, TellShape, SendShape, DestroyMembersShape, DestroyForgetShape
<1> QED BY <1>1, <1>2, <1>3, <1>4, CrashShape, StutterShape DEF Next

LEMMA ShapeHolds == Spec => []Shape
BY InitShape, NextShape, PTL DEF Spec

(* The variables of a board have their types, an entry is locked by the    *)
(* update that writes it and by no other, and a broadcast reaches members  *)
(* of the room it began with (handler.rs, tasks.rs).                       *)
THEOREM TypeCorrect == Spec => []TypeOK
<1>1. Shape => TypeOK
  BY DEF Shape
<1> QED BY <1>1, ShapeHolds, PTL

-----------------------------------------------------------------------------
(* Second layer: the table, its copy, what requests carry between them,    *)
(* and what agents were sent.                                              *)

(* What a request carries, compared with the copy m, the table rw, the     *)
(* rooms h of tasks and the rooms rs that exist.                           *)
Backed(q, m, rw, h, rs) ==
    /\ q.at = "insert" =>
           m[q.task] = NoTask /\ (h[q.task] \in rs => rw[q.task] = q.info)
    /\ q.at \in {"write", "set"} =>
           m[q.task] # NoTask /\ q.info.rev = m[q.task].rev + 1
    /\ q.at = "write" => q.info = Merged(m[q.task], q.sets)
    /\ q.at = "set" /\ h[q.task] \in rs => rw[q.task] = q.info
    /\ q.at \in {"tell", "send"} /\ h[q.task] \in rs => q.info.rev <= m[q.task].rev

(* A request that has task t at step p *)
Has(a, p, t) == req[a].at = p /\ req[a].task = t

(* A task of a room that exists is saved; its copy is what is saved, but   *)
(* for the request that has saved a newer version.                         *)
Kept(t) ==
    /\ home[t] = None => wrote[t] = NoTask.val /\ \A a \in Agents : known[a][t] = 0
    /\ row[t] # NoTask => row[t].val = wrote[t]
    /\ home[t] \in rooms =>
           /\ row[t] # NoTask
           /\ mem[t] = NoTask => \E a \in Agents : Has(a, "insert", t)
           /\ mem[t] # NoTask => row[t] = mem[t] \/ \E a \in Agents : Has(a, "set", t)
           /\ \A a \in Agents : known[a][t] <= mem[t].rev

Saved ==
    /\ \A a \in Agents : Backed(req[a], mem, row, home, rooms)
    /\ \A a, b \in Agents : \A t \in Tasks :
           Has(a, "insert", t) /\ Has(b, "insert", t) => a = b
    /\ \A t \in Tasks : Kept(t)

LEMMA SavedMoves ==
    ASSUME Shape, Saved, NEW a \in Agents, NEW q \in Requests, Moves(a, q),
           Backed(q, mem', row', home', rooms'),
           \A b \in Agents \ {a} : Backed(req[b], mem', row', home', rooms'),
           q.at = "insert" => \A b \in Agents \ {a} : ~Has(b, "insert", q.task),
           \A t \in Tasks : Kept(t)'
    PROVE  Saved'
<1>1. \A b \in Agents : Backed(req'[b], mem', row', home', rooms')
  BY DEF Moves
<1>2. ASSUME NEW b \in Agents, NEW c \in Agents, NEW t \in Tasks,
             Has(b, "insert", t)', Has(c, "insert", t)'
      PROVE  b = c
  <2>1. CASE b = a /\ c # a
    BY <1>2, <2>1 DEF Has, Moves
  <2>2. CASE c = a /\ b # a
    BY <1>2, <2>2 DEF Has, Moves
  <2>3. CASE b # a /\ c # a
    BY <1>2, <2>3 DEF Has, Moves, Saved
  <2> QED BY <2>1, <2>2, <2>3
<1> QED BY <1>1, <1>2 DEF Saved

(* Steps that leave the table, its copy and the rooms alone. *)
LEMMA SavedQuiet ==
    ASSUME Shape, Saved, NEW a \in Agents, NEW q \in Requests, Moves(a, q),
           UNCHANGED <<rooms, row, mem, home, wrote>>,
           req[a].at \notin {"insert", "set"}, q.at # "insert",
           Backed(q, mem, row, home, rooms),
           \A t \in Tasks, b \in Agents :
               /\ home[t] = None => known'[b][t] = 0
               /\ home[t] \in rooms => known'[b][t] <= mem[t].rev
    PROVE  Saved'
<1>1. ASSUME NEW t \in Tasks PROVE Kept(t)'
  <2>1. \A b \in Agents : /\ Has(b, "insert", t) => Has(b, "insert", t)'
                          /\ Has(b, "set", t) => Has(b, "set", t)'
    BY DEF Has, Moves
  <2>2. Kept(t)
    BY DEF Saved
  <2> QED BY <2>1, <2>2 DEF Kept
<1>2. \A b \in Agents \ {a} : Backed(req[b], mem', row', home', rooms')
  BY DEF Saved
<1>3. Backed(q, mem', row', home', rooms')
  OBVIOUS
<1> QED BY <1>1, <1>2, <1>3, SavedMoves

LEMMA InitSaved == Init => Saved
<1> SUFFICES ASSUME Init PROVE Saved
  OBVIOUS
<1>1. \A a \in Agents : req[a] = Idle /\ req[a].at = "idle"
  BY IdleType DEF Init
<1>2. ASSUME NEW t \in Tasks PROVE Kept(t)
  <2>1. home[t] = None /\ wrote[t] = NoTask.val /\ row[t] = NoTask
        /\ (\A a \in Agents : known[a][t] = 0) /\ rooms = Rooms
    BY DEF Init
  <2> QED BY <2>1, BoardAssumption DEF Kept
<1> QED BY <1>1, <1>2 DEF Saved, Backed, Has

(* Steps that send nothing either. *)
LEMMA SavedSilent ==
    ASSUME Shape, Saved, NEW a \in Agents, NEW q \in Requests, Moves(a, q),
           UNCHANGED <<rooms, row, mem, home, wrote, known>>,
           req[a].at \notin {"insert", "set"}, q.at # "insert",
           Backed(q, mem, row, home, rooms)
    PROVE  Saved'
<1>1. \A t \in Tasks, b \in Agents :
          /\ home[t] = None => known'[b][t] = 0
          /\ home[t] \in rooms => known'[b][t] <= mem[t].rev
  BY DEF Saved, Kept
<1> QED BY <1>1, SavedQuiet

LEMMA IdleBacked ==
    \A m, rw, h, rs : Backed(Idle, m, rw, h, rs)
BY IdleType DEF Backed

LEMMA RoomStepsSaved ==
    ASSUME Shape, Saved, NEW a \in Agents, NEW r \in Rooms,
           Join(a, r) \/ Leave(a, r) \/ Assign(a, r)
    PROVE  Saved'
<1>1. UNCHANGED <<rooms, row, mem, home, wrote, known>> /\ req[a] = Idle
      /\ req[a].at = "idle"
  BY IdleType DEF Join, Leave, Assign, Start, table, history
<1>2. CASE Join(a, r) \/ Leave(a, r)
  <2>1. Moves(a, Idle) /\ Idle \in Requests /\ Idle.at = "idle"
    BY <1>1, <1>2, Stays, IdleType DEF Join, Leave
  <2> QED BY <1>1, <2>1, IdleBacked, SavedSilent
<1>3. CASE Assign(a, r)
  <2> DEFINE q == [Idle EXCEPT !.at = "save", !.room = r]
  <2>1. q \in Requests /\ q.at = "save"
    BY IdleType DEF Requests, PCs
  <2>2. Start(a, q)
    BY <1>3 DEF Assign
  <2> HIDE DEF q
  <2>3. Moves(a, q)
    BY <2>1, <2>2, StartMoves
  <2>4. Backed(q, mem, row, home, rooms)
    BY <2>1 DEF Backed
  <2> QED BY <1>1, <2>1, <2>3, <2>4, SavedSilent
<1> QED BY <1>2, <1>3

LEMMA ListSaved ==
    ASSUME Shape, Saved, NEW a \in Agents, NEW r \in Rooms, List(a, r)
    PROVE  Saved'
<1>1. UNCHANGED <<rooms, row, mem, home, wrote, req>> /\ req[a] = Idle
  BY DEF List, server, table
<1>2. Moves(a, Idle) /\ Idle \in Requests /\ Idle.at = "idle"
  BY <1>1, Stays, IdleType
<1>3. ASSUME NEW t \in Tasks, NEW b \in Agents
      PROVE  /\ home[t] = None => known'[b][t] = 0
             /\ home[t] \in rooms => known'[b][t] <= mem[t].rev
  <2>1. /\ home[t] = None => known[b][t] = 0 /\ mem[t] = NoTask
        /\ home[t] \in rooms => known[b][t] <= mem[t].rev
    BY TableTypes DEF Saved, Kept
  <2>2. mem[t].rev \in Nat /\ known[b][t] \in Nat
    BY TableTypes, NoTaskType
  <2>3. \/ known'[b][t] = known[b][t]
        \/ mem[t].room = r /\ known'[b][t] = Newest(known[b][t], mem[t].rev)
    BY TableTypes DEF List
  <2>4. mem[t] = NoTask => mem[t].room # r
    BY NoTaskType, BoardAssumption
  <2> QED BY <2>1, <2>2, <2>3, <2>4 DEF Newest
<1> QED BY <1>1, <1>2, <1>3, IdleBacked, SavedQuiet

LEMMA SendSaved ==
    ASSUME Shape, Saved, NEW a \in Agents, Send(a)
    PROVE  Saved'
<1>1. req[a].at = "send" /\ UNCHANGED <<rooms, row, mem, home, wrote>>
  BY DEF Send, table
<1>2. /\ req[a].task \in Tasks /\ home[req[a].task] = req[a].room /\ req[a].room \in Rooms
      /\ home[req[a].task] \in rooms => req[a].info.rev <= mem[req[a].task].rev
      /\ req[a].info.rev \in Nat
  BY <1>1, RequestFacts, NoTaskType DEF Knows, Saved, Backed
<1>3. ASSUME NEW t \in Tasks, NEW b \in Agents
      PROVE  /\ home[t] = None => known'[b][t] = 0
             /\ home[t] \in rooms => known'[b][t] <= mem[t].rev
  <2>1. /\ home[t] = None => known[b][t] = 0
        /\ home[t] \in rooms => known[b][t] <= mem[t].rev
    BY DEF Saved, Kept
  <2>2. \/ known'[b][t] = known[b][t]
        \/ t = req[a].task /\ known'[b][t] = Newest(known[b][t], req[a].info.rev)
    BY SendChanges
  <2>3. CASE t = req[a].task
    <3>1. home[t] # None
      BY <1>2, <2>3, BoardAssumption
    <3>2. home[t] \in rooms => Newest(known[b][t], req[a].info.rev) <= mem[t].rev
      BY <1>2, <2>1, <2>3 DEF Newest
    <3> QED BY <2>1, <2>2, <3>1, <3>2
  <2>4. CASE t # req[a].task
    BY <2>1, <2>2, <2>4
  <2> QED BY <2>3, <2>4
<1>4. ASSUME Moves(a, Idle) PROVE Saved'
  BY <1>1, <1>3, <1>4, IdleType, IdleBacked, SavedQuiet
<1>5. ASSUME NEW q \in Requests, Moves(a, q), q.at = "send",
             q.task = req[a].task, q.info = req[a].info
      PROVE  Saved'
  <2>1. Backed(q, mem, row, home, rooms)
    BY <1>2, <1>5 DEF Backed
  <2> QED BY <1>1, <1>3, <1>5, <2>1, SavedQuiet
<1> QED BY <1>4, <1>5, SendMoves

LEMMA TellSaved ==
    ASSUME Shape, Saved, NEW a \in Agents, Tell(a)
    PROVE  Saved'
<1> DEFINE p == req[a]
<1>1. p \in Requests /\ p.at = "tell" /\ p.room \in Rooms
  BY RequestFacts DEF Tell, Knows
<1>2. UNCHANGED <<rooms, row, mem, home, wrote, known>>
  BY DEF Tell, table, history
<1>3. CASE members[p.room] = <<>>
  <2>1. Moves(a, Idle)
    BY <1>3, FinishMoves DEF Tell
  <2> QED BY <1>1, <1>2, <2>1, IdleType, IdleBacked, SavedSilent
<1>4. CASE members[p.room] # <<>>
  <2> DEFINE q == [p EXCEPT !.at = "send", !.todo = members[p.room]]
  <2>1. members[p.room] \in Seq(Agents)
    BY <1>1, TableTypes
  <2>2. q \in Requests /\ q.at = "send" /\ q.task = p.task /\ q.info = p.info
    BY <1>1, <2>1 DEF Requests, PCs
  <2>3. req' = [req EXCEPT ![a] = q]
    BY <1>4 DEF Tell
  <2> HIDE DEF q
  <2>4. Moves(a, q)
    BY <2>2, <2>3, TableTypes DEF Moves
  <2>5. Backed(q, mem, row, home, rooms)
    BY <1>1, <2>2 DEF Backed, Saved
  <2> QED BY <1>1, <1>2, <2>2, <2>4, <2>5, SavedSilent
<1> QED BY <1>3, <1>4

LEMMA CreateSaveSaved ==
    ASSUME Shape, Saved, NEW a \in Agents, CreateSave(a)
    PROVE  Saved'
<1> DEFINE p == req[a]
<1>1. p \in Requests /\ p.at = "save" /\ p.room \in Rooms
  BY RequestFacts DEF CreateSave, Knows
<1>2. UNCHANGED <<mem, rooms, wrote, known>>
  BY DEF CreateSave
<1>3. ASSUME NEW t \in Tasks, home[t] = None, p.room \in rooms,
             NEW info, info = [NoTask EXCEPT !.room = p.room, !.rev = 1],
             row' = [row EXCEPT ![t] = info], home' = [home EXCEPT ![t] = p.room],
             req' = [req EXCEPT ![a].at = "insert", ![a].task = t, ![a].info = info]
      PROVE  Saved'
  <2> DEFINE q == [p EXCEPT !.at = "insert", !.task = t, !.info = info]
  <2>1. info \in TaskInfos /\ info.room = p.room /\ info.val = NoTask.val
    <3>1. info = [room |-> p.room, rev |-> 1, val |-> NoTask.val]
      BY <1>3 DEF NoTask
    <3> QED BY <1>1, <3>1, NoTaskType DEF TaskInfos
  <2>2. q \in Requests /\ q.at = "insert" /\ q.task = t /\ q.info = info
    BY <1>1, <2>1 DEF Requests, PCs
  <2>3. req' = [req EXCEPT ![a] = q]
    BY <1>3
  <2> HIDE DEF q, p
  <2>4. Moves(a, q)
    BY <2>2, <2>3, TableTypes DEF Moves
  <2>5. /\ mem[t] = NoTask /\ home'[t] = p.room /\ row'[t] = info
        /\ \A s \in Tasks \ {t} : home'[s] = home[s] /\ row'[s] = row[s]
    BY <1>3, TableTypes
  <2>6. Backed(q, mem', row', home', rooms')
    BY <1>2, <2>2, <2>5 DEF Backed
  <2>7. ASSUME NEW b \in Agents \ {a}
        PROVE  Backed(req[b], mem', row', home', rooms') /\ ~Has(b, "insert", t)
    <3>1. Knows(req[b], home, rooms) /\ Backed(req[b], mem, row, home, rooms)
      BY RequestFacts DEF Saved
    <3>2. req[b].at \in {"insert", "enter", "write", "set", "tell", "send"} =>
              req[b].task \in Tasks \ {t}
      BY <1>3, <3>1, BoardAssumption DEF Knows
    <3> QED BY <1>2, <2>5, <3>1, <3>2 DEF Backed, Has
  <2>8. ASSUME NEW s \in Tasks PROVE Kept(s)'
    <3>1. Kept(s)
      BY DEF Saved
    <3>2. CASE s = t
      <4>1. Has(a, "insert", t)'
        BY <2>2, <2>4 DEF Has, Moves
      <4>2. /\ wrote'[t] = NoTask.val /\ mem'[t] = NoTask /\ home'[t] # None
            /\ \A b \in Agents : known'[b][t] = 0
        BY <1>1, <1>2, <1>3, <2>5, <3>1, <3>2, BoardAssumption DEF Kept
      <4> QED BY <2>1, <2>5, <3>2, <4>1, <4>2, NoTaskType DEF Kept
    <3>3. CASE s # t
      <4>1. \A b \in Agents : /\ Has(b, "insert", s) => Has(b, "insert", s)'
                              /\ Has(b, "set", s) => Has(b, "set", s)'
        BY <1>1, <2>4 DEF Has, Moves, p
      <4> QED BY <1>2, <2>5, <3>1, <3>3, <4>1 DEF Kept
    <3> QED BY <3>2, <3>3
  <2> QED BY <2>2, <2>4, <2>6, <2>7, <2>8, SavedMoves
<1>4. ASSUME Finish(a), UNCHANGED <<row, home>>
      PROVE  Saved'
  <2>1. Moves(a, Idle)
    BY <1>4, FinishMoves
  <2> QED BY <1>1, <1>2, <1>4, <2>1, IdleType, IdleBacked, SavedSilent
<1> QED BY <1>3, <1>4 DEF CreateSave

LEMMA CreateInsertSaved ==
    ASSUME Shape, Saved, NEW a \in Agents, CreateInsert(a)
    PROVE  Saved'
<1> DEFINE p == req[a]
           t == p.task
<1>1. /\ p.at = "insert" /\ t \in Tasks /\ p.info \in TaskInfos /\ p.info.room = p.room
      /\ home[t] = p.room /\ p.room \in Rooms
      /\ mem[t] = NoTask /\ (home[t] \in rooms => row[t] = p.info)
  BY RequestFacts DEF CreateInsert, Knows, Saved, Backed
<1>2. /\ UNCHANGED <<rooms, row, home, wrote, known>>
      /\ mem' = [mem EXCEPT ![t] = p.info] /\ Goto(a, "tell") /\ "tell" \in PCs
  BY DEF CreateInsert, table, history, PCs
<1>3. PICK q \in Requests : Moves(a, q) /\ q.at = "tell" /\ q.task = t /\ q.info = p.info
  BY <1>2, GotoMoves
<1>4. \A b \in Agents \ {a} : ~Has(b, "insert", t)
  BY <1>1 DEF Saved, Has
<1> HIDE DEF p
<1>5. mem'[t] = p.info /\ p.info # NoTask /\ \A s \in Tasks \ {t} : mem'[s] = mem[s]
  BY <1>1, <1>2, TableTypes, NoTaskType
<1>6. Backed(q, mem', row', home', rooms')
  BY <1>1, <1>3, <1>5, NoTaskType DEF Backed
<1>7. ASSUME NEW b \in Agents \ {a}
      PROVE  Backed(req[b], mem', row', home', rooms')
  <2>1. Knows(req[b], home, rooms) /\ Backed(req[b], mem, row, home, rooms)
    BY RequestFacts DEF Saved
  <2>2. CASE req[b].task = t
    <3>1. req[b].at \notin {"insert", "write", "set"}
      BY <1>1, <1>4, <2>1, <2>2 DEF Has, Backed
    <3>2. req[b].at \in {"tell", "send"} /\ home[t] \in rooms =>
              req[b].info.rev <= p.info.rev
      <4>1. req[b].at \in {"tell", "send"} => req[b].info.rev \in Nat
        BY <2>1, NoTaskType DEF Knows
      <4> QED BY <1>1, <2>1, <2>2, <4>1, NoTaskType DEF Backed
    <3> QED BY <1>2, <1>5, <2>2, <3>1, <3>2 DEF Backed
  <2>3. CASE req[b].task # t
    <3>1. req[b].at \in {"insert", "enter", "write", "set", "tell", "send"} =>
              req[b].task \in Tasks \ {t}
      BY <2>1, <2>3 DEF Knows
    <3> QED BY <1>2, <1>5, <2>1, <3>1 DEF Backed
  <2> QED BY <2>2, <2>3
<1>8. ASSUME NEW s \in Tasks PROVE Kept(s)'
  <2>1. Kept(s)
    BY DEF Saved
  <2>2. CASE s = t
    <3>1. \A b \in Agents : home[t] \in rooms => known[b][t] <= p.info.rev
      <4>1. \A b \in Agents : known[b][t] \in Nat
        BY <1>1, TableTypes
      <4> QED BY <1>1, <2>1, <2>2, <4>1, NoTaskType DEF Kept
    <3> QED BY <1>1, <1>2, <1>5, <2>1, <2>2, <3>1 DEF Kept
  <2>3. CASE s # t
    <3>1. \A b \in Agents : /\ Has(b, "insert", s) => Has(b, "insert", s)'
                            /\ Has(b, "set", s) => Has(b, "set", s)'
      BY <1>1, <1>3, <2>3 DEF Has, Moves, p
    <3> QED BY <1>2, <1>5, <2>1, <2>3, <3>1 DEF Kept
  <2> QED BY <2>2, <2>3
<1> QED BY <1>3, <1>6, <1>7, <1>8, SavedMoves

LEMMA UpdateSaved ==
    ASSUME Shape, Saved, NEW a \in Agents, NEW t \in Tasks, NEW u \in Updates, Update(a, t, u)
    PROVE  Saved'
<1> DEFINE q == [Idle EXCEPT !.at = "enter", !.task = t, !.room = mem[t].room, !.sets = u]
<1>1. mem[t].room \in Rooms
  BY TableTypes, NoTaskType DEF Update
<1>2. q \in Requests /\ q.at = "enter"
  BY <1>1, IdleType DEF Requests, PCs
<1>3. Start(a, q)
  BY DEF Update
<1> HIDE DEF q
<1>4. Moves(a, q) /\ req[a].at = "idle"
  BY <1>2, <1>3, StartMoves, IdleType
<1>5. Backed(q, mem, row, home, rooms)
  BY <1>2 DEF Backed
<1>6. UNCHANGED <<rooms, row, mem, home, wrote, known>>
  BY DEF Update, table, history
<1> QED BY <1>2, <1>4, <1>5, <1>6, SavedSilent

LEMMA UpdateEnterSaved ==
    ASSUME Shape, Saved, NEW a \in Agents, UpdateEnter(a)
    PROVE  Saved'
<1> DEFINE p == req[a]
           t == p.task
<1>1. p \in Requests /\ p.at = "enter" /\ t \in Tasks /\ p.sets \in Updates
  <2>1. p \in Requests /\ p.at = "enter" /\ Knows(p, home, rooms)
    BY RequestFacts DEF UpdateEnter
  <2> QED BY <2>1 DEF Knows, Requests
<1>2. UNCHANGED <<rooms, row, mem, home, wrote, known>>
  BY DEF UpdateEnter, table, history
<1>3. CASE mem[t] = NoTask
  <2>1. Moves(a, Idle)
    BY <1>3, FinishMoves DEF UpdateEnter
  <2> QED BY <1>1, <1>2, <2>1, IdleType, IdleBacked, SavedSilent
<1>4. CASE mem[t] # NoTask
  <2> DEFINE info == Merged(mem[t], p.sets)
             q == [p EXCEPT !.at = "write", !.info = info]
  <2>1. info \in TaskInfos /\ info.rev = mem[t].rev + 1
    <3>1. mem[t] \in TaskInfos
      BY <1>1, <1>4, TableTypes
    <3> HIDE DEF p
    <3> QED BY <1>1, <3>1, MergedType
  <2>2. q \in Requests /\ q.at = "write" /\ q.task = t /\ q.info = info /\ q.sets = p.sets
    BY <1>1, <2>1 DEF Requests, PCs
  <2>3. req' = [req EXCEPT ![a] = q]
    BY <1>4 DEF UpdateEnter
  <2> HIDE DEF q, p
  <2>4. Moves(a, q)
    BY <2>2, <2>3, TableTypes DEF Moves
  <2>5. Backed(q, mem, row, home, rooms)
    BY <1>4, <2>1, <2>2 DEF Backed
  <2> QED BY <1>1, <1>2, <2>2, <2>4, <2>5, SavedSilent DEF p
<1> QED BY <1>3, <1>4

LEMMA UpdateWriteSaved ==
    ASSUME Shape, Saved, NEW a \in Agents, UpdateWrite(a)
    PROVE  Saved'
<1> DEFINE p == req[a]
           t == p.task
<1>1. /\ p.at = "write" /\ t \in Tasks /\ p.info \in TaskInfos /\ p.sets \in Updates
      /\ home[t] = p.room /\ held[t] = a
      /\ mem[t] \in TaskInfos /\ mem[t] # NoTask
      /\ p.info = Merged(mem[t], p.sets) /\ p.info.rev = mem[t].rev + 1
  <2>1. p \in Requests /\ p.at = "write" /\ Knows(p, home, rooms)
        /\ Backed(p, mem, row, home, rooms)
    BY RequestFacts DEF UpdateWrite, Saved
  <2>2. t \in Tasks /\ mem[t] # NoTask
    BY <2>1 DEF Knows, Backed
  <2>3. held[t] = a /\ mem[t] \in TaskInfos
    BY <2>1, <2>2, RequestFacts, TableTypes
  <2> QED BY <2>1, <2>2, <2>3 DEF Knows, Backed, Requests
<1>2. UNCHANGED <<mem, rooms, home, known>>
  BY DEF UpdateWrite
<1>3. ASSUME p.room \in rooms, row' = [row EXCEPT ![t] = p.info],
             wrote' = [wrote EXCEPT ![t] =
                 [f \in Fields |-> IF f \in DOMAIN p.sets THEN p.sets[f] ELSE wrote[t][f]]],
             Goto(a, "set")
      PROVE  Saved'
  <2>1. PICK q \in Requests : Moves(a, q) /\ q.at = "set" /\ q.task = t /\ q.info = p.info
    BY <1>3, GotoMoves DEF PCs
  <2>2. Kept(t)
    BY <1>1 DEF Saved
  <2>3. \A b \in Agents : ~Has(b, "set", t)
    BY <1>1, RequestFacts DEF Has
  <2>4. row[t] = mem[t] /\ mem[t].val = wrote[t] /\ row[t] # NoTask
    BY <1>1, <1>3, <2>2, <2>3 DEF Kept
  <2> HIDE DEF p
  <2>5. /\ row'[t] = p.info /\ \A s \in Tasks \ {t} : row'[s] = row[s]
        /\ wrote'[t] =
               [f \in Fields |-> IF f \in DOMAIN p.sets THEN p.sets[f] ELSE wrote[t][f]]
        /\ \A s \in Tasks \ {t} : wrote'[s] = wrote[s]
    BY <1>1, <1>3, TableTypes
  <2>6. p.info.val = wrote'[t]
    <3>1. /\ p.info.val \in [Fields -> Values \cup {None}]
          /\ \A f \in Fields :
               p.info.val[f] = IF f \in DOMAIN p.sets THEN p.sets[f] ELSE mem[t].val[f]
      BY <1>1, MergedType, NoTaskType
    <3> QED BY <2>4, <2>5, <3>1
  <2>7. Backed(q, mem', row', home', rooms')
    BY <1>1, <1>2, <2>1, <2>5 DEF Backed
  <2>8. ASSUME NEW b \in Agents \ {a}
        PROVE  Backed(req[b], mem', row', home', rooms')
    <3>1. Knows(req[b], home, rooms) /\ Backed(req[b], mem, row, home, rooms)
      BY RequestFacts DEF Saved
    <3>2. req[b].at \in {"insert", "set"} => req[b].task \in Tasks \ {t}
      <4>1. req[b].at = "insert" => req[b].task # t
        BY <1>1, <3>1 DEF Backed
      <4>2. req[b].at = "set" => req[b].task # t
        BY <1>1, RequestFacts
      <4> QED BY <3>1, <4>1, <4>2 DEF Knows
    <3> QED BY <1>2, <2>5, <3>1, <3>2 DEF Backed
  <2>9. ASSUME NEW s \in Tasks PROVE Kept(s)'
    <3>1. Kept(s)
      BY DEF Saved
    <3>2. CASE s = t
      <4>1. Has(a, "set", s)'
        BY <2>1, <3>2 DEF Has, Moves
      <4>2. home'[t] # None
        BY <1>1, <1>2, <1>3, TableTypes, BoardAssumption
      <4>3. /\ row'[s] # NoTask /\ row'[s].val = wrote'[s] /\ mem'[s] # NoTask
            /\ \A b \in Agents : home[s] \in rooms => known'[b][s] <= mem'[s].rev
        BY <1>1, <1>2, <2>5, <2>6, <3>1, <3>2, NoTaskType DEF Kept
      <4> QED BY <1>2, <3>2, <4>1, <4>2, <4>3 DEF Kept
    <3>3. CASE s # t
      <4>1. \A b \in Agents : /\ Has(b, "insert", s) => Has(b, "insert", s)'
                              /\ Has(b, "set", s) => Has(b, "set", s)'
        BY <1>1, <2>1 DEF Has, Moves, p
      <4> QED BY <1>2, <2>5, <3>1, <3>3, <4>1 DEF Kept
    <3> QED BY <3>2, <3>3
  <2> QED BY <2>1, <2>7, <2>8, <2>9, SavedMoves
<1>4. ASSUME Finish(a), UNCHANGED <<row, wrote>>
      PROVE  Saved'
  <2>1. Moves(a, Idle)
    BY <1>4, FinishMoves
  <2> QED BY <1>1, <1>2, <1>4, <2>1, IdleType, IdleBacked, SavedSilent
<1> QED BY <1>3, <1>4 DEF UpdateWrite

LEMMA UpdateSetSaved ==
    ASSUME Shape, Saved, NEW a \in Agents, UpdateSet(a)
    PROVE  Saved'
<1> DEFINE p == req[a]
           t == p.task
<1>1. /\ p.at = "set" /\ t \in Tasks /\ p.info \in TaskInfos /\ held[t] = a
      /\ mem[t] \in TaskInfos /\ mem[t] # NoTask
      /\ p.info.rev = mem[t].rev + 1 /\ (home[t] \in rooms => row[t] = p.info)
  <2>1. p.at = "set" /\ Knows(p, home, rooms) /\ Backed(p, mem, row, home, rooms)
    BY RequestFacts DEF UpdateSet, Saved
  <2>2. t \in Tasks /\ mem[t] # NoTask
    BY <2>1 DEF Knows, Backed
  <2>3. held[t] = a /\ mem[t] \in TaskInfos
    BY <2>1, <2>2, RequestFacts, TableTypes
  <2> QED BY <2>1, <2>2, <2>3 DEF Knows, Backed
<1>2. /\ UNCHANGED <<rooms, row, home, wrote, known>>
      /\ mem' = [mem EXCEPT ![t] = p.info] /\ Goto(a, "tell") /\ "tell" \in PCs
  BY DEF UpdateSet, table, history, PCs
<1>3. PICK q \in Requests : Moves(a, q) /\ q.at = "tell" /\ q.task = t /\ q.info = p.info
  BY <1>2, GotoMoves
<1> HIDE DEF p
<1>4. mem'[t] = p.info /\ p.info # NoTask /\ \A s \in Tasks \ {t} : mem'[s] = mem[s]
  BY <1>1, <1>2, TableTypes, NoTaskType
<1>5. p.info.rev \in Nat /\ mem[t].rev \in Nat
  BY <1>1, NoTaskType
<1>6. Backed(q, mem', row', home', rooms')
  BY <1>3, <1>4, <1>5 DEF Backed
<1>7. ASSUME NEW b \in Agents \ {a}
      PROVE  Backed(req[b], mem', row', home', rooms')
  <2>1. Knows(req[b], home, rooms) /\ Backed(req[b], mem, row, home, rooms)
    BY RequestFacts DEF Saved
  <2>2. CASE req[b].task = t
    <3>1. req[b].at \notin {"insert", "write", "set"}
      BY <1>1, <2>1, <2>2, RequestFacts DEF Backed
    <3>2. req[b].at \in {"tell", "send"} /\ home[t] \in rooms =>
              req[b].info.rev <= p.info.rev
      <4>1. req[b].at \in {"tell", "send"} => req[b].info.rev \in Nat
        BY <2>1, NoTaskType DEF Knows
      <4> QED BY <1>1, <1>5, <2>1, <2>2, <4>1 DEF Backed
    <3> QED BY <1>2, <1>4, <2>2, <3>1, <3>2 DEF Backed
  <2>3. CASE req[b].task # t
    <3>1. req[b].at \in {"insert", "enter", "write", "set", "tell", "send"} =>
              req[b].task \in Tasks \ {t}
      BY <2>1, <2>3 DEF Knows
    <3> QED BY <1>2, <1>4, <2>1, <3>1 DEF Backed
  <2> QED BY <2>2, <2>3
<1>8. ASSUME NEW s \in Tasks PROVE Kept(s)'
  <2>1. Kept(s)
    BY DEF Saved
  <2>2. CASE s = t
    <3>1. \A b \in Agents : home[t] \in rooms => known[b][t] <= p.info.rev
      <4>1. \A b \in Agents : known[b][t] \in Nat
        BY <1>1, TableTypes
      <4> QED BY <1>1, <1>5, <2>1, <2>2, <4>1 DEF Kept
    <3> QED BY <1>1, <1>2, <1>4, <2>1, <2>2, <3>1 DEF Kept
  <2>3. CASE s # t
    <3>1. \A b \in Agents : /\ Has(b, "insert", s) => Has(b, "insert", s)'
                            /\ Has(b, "set", s) => Has(b, "set", s)'
      BY <1>1, <1>3, <2>3 DEF Has, Moves, p
    <3> QED BY <1>2, <1>4, <2>1, <2>3, <3>1 DEF Kept
  <2> QED BY <2>2, <2>3
<1> QED BY <1>3, <1>6, <1>7, <1>8, SavedMoves

LEMMA DestroySaved ==
    ASSUME Shape, Saved, NEW a \in Agents, NEW r \in Rooms, Destroy(a, r)
    PROVE  Saved'
<1> DEFINE q == [Idle EXCEPT !.at = "members", !.room = r]
<1>1. q \in Requests /\ q.at = "members"
  BY IdleType DEF Requests, PCs
<1>2. Start(a, q)
  BY DEF Destroy
<1> HIDE DEF q
<1>3. Moves(a, q) /\ req[a].at = "idle"
  BY <1>1, <1>2, StartMoves, IdleType
<1>4. /\ UNCHANGED <<mem, home, wrote, known>> /\ rooms' = rooms \ {r}
      /\ row' = [t \in Tasks |-> IF row[t].room = r THEN NoTask ELSE row[t]]
  BY DEF Destroy, history
<1>5. \A t \in Tasks : home[t] \in rooms' =>
          home[t] \in rooms /\ (row[t] # NoTask => row'[t] = row[t])
  BY <1>4, TableTypes
<1>6. ASSUME NEW t \in Tasks PROVE Kept(t)'
  <2>1. Kept(t)
    BY DEF Saved
  <2>2. \A b \in Agents : /\ Has(b, "insert", t) => Has(b, "insert", t)'
                          /\ Has(b, "set", t) => Has(b, "set", t)'
    BY <1>3 DEF Has, Moves
  <2>3. row'[t] # NoTask => row'[t] = row[t]
    BY <1>4
  <2> QED BY <1>4, <1>5, <2>1, <2>2, <2>3 DEF Kept
<1>7. Backed(q, mem', row', home', rooms')
  BY <1>1 DEF Backed
<1>8. ASSUME NEW b \in Agents \ {a}
      PROVE  Backed(req[b], mem', row', home', rooms')
  <2>1. Knows(req[b], home, rooms) /\ Backed(req[b], mem, row, home, rooms)
    BY RequestFacts DEF Saved
  <2>2. req[b].at \in {"insert", "set"} => req[b].task \in Tasks /\ req[b].info # NoTask
    BY <2>1, NoTaskType DEF Knows
  <2>3. req[b].at \in {"insert", "set"} /\ home'[req[b].task] \in rooms' =>
            row'[req[b].task] = req[b].info
    BY <1>4, <1>5, <2>1, <2>2 DEF Backed
  <2>4. home'[req[b].task] \in rooms' => home[req[b].task] \in rooms
    BY <1>4
  <2> QED BY <1>4, <2>1, <2>3, <2>4 DEF Backed
<1> QED BY <1>1, <1>3, <1>6, <1>7, <1>8, SavedMoves

LEMMA DestroyMembersSaved ==
    ASSUME Shape, Saved, NEW a \in Agents, DestroyMembers(a)
    PROVE  Saved'
<1>1. /\ UNCHANGED <<mem, rooms, row, home, wrote, known>> /\ req[a].at = "members"
      /\ Goto(a, "forget") /\ "forget" \in PCs
  BY DEF DestroyMembers, table, PCs
<1>2. PICK q \in Requests : Moves(a, q) /\ q.at = "forget"
  BY <1>1, GotoMoves
<1>3. Backed(q, mem, row, home, rooms)
  BY <1>2 DEF Backed
<1> QED BY <1>1, <1>2, <1>3, SavedSilent

LEMMA DestroyForgetSaved ==
    ASSUME Shape, Saved, NEW a \in Agents, DestroyForget(a)
    PROVE  Saved'
<1> DEFINE r == req[a].room
<1>1. /\ req[a].at = "forget" /\ Finish(a) /\ r \in Rooms \ rooms
      /\ \A t \in Tasks : held[t] = None
  BY RequestFacts DEF DestroyForget, Knows
<1>2. Moves(a, Idle)
  BY <1>1, FinishMoves
<1>3. /\ UNCHANGED <<rooms, row, home, wrote, known>>
      /\ mem' = [t \in Tasks |-> IF mem[t].room = r THEN NoTask ELSE mem[t]]
  BY DEF DestroyForget, table, history
<1> HIDE DEF r
<1>4. \A t \in Tasks : /\ mem[t] = NoTask => mem'[t] = NoTask
                       /\ home[t] \in rooms => mem'[t] = mem[t]
  BY <1>1, <1>3, TableTypes
<1>5. ASSUME NEW t \in Tasks PROVE Kept(t)'
  <2>1. Kept(t)
    BY DEF Saved
  <2>2. \A b \in Agents : /\ Has(b, "insert", t) => Has(b, "insert", t)'
                          /\ Has(b, "set", t) => Has(b, "set", t)'
    BY <1>1, <1>2 DEF Has, Moves
  <2> QED BY <1>3, <1>4, <2>1, <2>2 DEF Kept
<1>6. ASSUME NEW b \in Agents \ {a}
      PROVE  Backed(req[b], mem', row', home', rooms')
  <2>1. Knows(req[b], home, rooms) /\ Backed(req[b], mem, row, home, rooms)
    BY RequestFacts DEF Saved
  <2>2. req[b].at \in {"insert", "enter", "write", "set", "tell", "send"} =>
            req[b].task \in Tasks
    BY <2>1 DEF Knows
  <2>3. req[b].at \notin {"write", "set"}
    BY <1>1, <2>2, RequestFacts, BoardAssumption
  <2> QED BY <1>3, <1>4, <2>1, <2>2, <2>3 DEF Backed
<1>7. Backed(Idle, mem', row', home', rooms') /\ Idle.at # "insert"
  BY IdleBacked, IdleType
<1> QED BY <1>2, <1>5, <1>6, <1>7, IdleType, SavedMoves

LEMMA CrashSaved ==
    ASSUME Shape, Saved, Crash
    PROVE  Saved'
<1>1. /\ UNCHANGED <<rooms, row, home, wrote, known>> /\ mem' = row
      /\ \A a \in Agents : req'[a] = Idle
  BY DEF Crash, Load, table
<1>2. ASSUME NEW t \in Tasks PROVE Kept(t)'
  <2>1. Kept(t)
    BY DEF Saved
  <2>2. ASSUME home[t] \in rooms, NEW a \in Agents
        PROVE  known[a][t] <= row[t].rev
    <3>1. known[a][t] <= mem[t].rev /\ known[a][t] \in Nat /\ row[t] # NoTask
      BY <2>1, <2>2, TableTypes DEF Kept
    <3>2. row[t].rev \in Nat
      BY TableTypes, NoTaskType
    <3>3. CASE mem[t] = NoTask
      BY <3>1, <3>2, <3>3, NoTaskType
    <3>4. CASE mem[t] # NoTask /\ row[t] = mem[t]
      BY <3>1, <3>4
    <3>5. CASE mem[t] # NoTask /\ \E b \in Agents : Has(b, "set", t)
      <4>1. PICK b \in Agents : Has(b, "set", t)
        BY <3>5
      <4>2. row[t].rev = mem[t].rev + 1
        BY <2>2, <4>1 DEF Has, Saved, Backed
      <4>3. mem[t].rev \in Nat
        BY TableTypes, NoTaskType
      <4> QED BY <3>1, <3>2, <4>2, <4>3
    <3> QED BY <2>1, <2>2, <3>3, <3>4, <3>5 DEF Kept
  <2> QED BY <1>1, <2>1, <2>2 DEF Kept
<1>3. \A a \in Agents : req'[a].at = "idle" /\ Backed(req'[a], mem', row', home', rooms')
  BY <1>1, IdleBacked, IdleType
<1> QED BY <1>2, <1>3 DEF Saved, Has

LEMMA StutterSaved ==
    ASSUME Shape, Saved, UNCHANGED vars
    PROVE  Saved'
<1>1. UNCHANGED <<rooms, row, mem, req, home, wrote, known>>
  BY DEF vars, server, table, history
<1>2. \A t \in Tasks : Kept(t)'
  BY <1>1 DEF Saved, Kept, Has
<1> QED BY <1>1, <1>2 DEF Saved, Has

LEMMA NextSaved == Shape /\ Saved /\ [Next]_vars => Saved'
<1> SUFFICES ASSUME Shape, Saved, [Next]_vars PROVE Saved'
  OBVIOUS
<1>1. ASSUME NEW a \in Agents, NEW r \in Rooms,
             Join(a, r) \/ Leave(a, r) \/ Assign(a, r) \/ List(a, r) \/ Destroy(a, r)
      PROVE  Saved'
  BY <1>1, RoomStepsSaved, ListSaved, DestroySaved
<1>2. ASSUME NEW a \in Agents, NEW t \in Tasks, NEW u \in Updates, Update(a, t, u)
      PROVE  Saved'
  BY <1>2, UpdateSaved
<1>3. ASSUME NEW a \in Agents, CreateSave(a) \/ CreateInsert(a) \/ UpdateEnter(a)
             \/ UpdateWrite(a) \/ UpdateSet(a)
      PROVE  Saved'
  BY <1>3, CreateSaveSaved, CreateInsertSaved, UpdateEnterSaved, UpdateWriteSaved,
     UpdateSetSaved
<1>4. ASSUME NEW a \in Agents, Tell(a) \/ Send(a) \/ DestroyMembers(a) \/ DestroyForget(a)
      PROVE  Saved'
  BY <1>4, TellSaved, SendSaved, DestroyMembersSaved, DestroyForgetSaved
<1> QED BY <1>1, <1>2, <1>3, <1>4, CrashSaved, StutterSaved DEF Next

LEMMA SavedHolds == Spec => [](Shape /\ Saved)
<1>1. Init => Shape /\ Saved
  BY InitShape, InitSaved
<1>2. Shape /\ Saved /\ [Next]_vars => (Shape /\ Saved)'
  BY NextShape, NextSaved
<1> QED BY <1>1, <1>2, PTL DEF Spec

(* Updates of different fields are merged: a field has the value that the  *)
(* last saved update which named it gave it, whatever ran at the same time *)
(* (tasks.rs:64, the entry is locked before it is copied).                 *)
THEOREM UpdatesMerge == Spec => []NoUpdateLost
<1>1. Saved => NoUpdateLost
  BY DEF Saved, Kept, NoUpdateLost
<1> QED BY <1>1, SavedHolds, PTL

(* The copy is never ahead of the table, and nobody was sent more than the *)
(* copy has.                                                               *)
LEMMA SeenIsSaved ==
    ASSUME Shape, Saved, NEW a \in Agents, NEW t \in Tasks, home[t] \in rooms
    PROVE  known[a][t] <= row[t].rev
<1>1. Kept(t) /\ known[a][t] \in Nat
  BY TableTypes DEF Saved
<1>2. row[t].rev \in Nat /\ mem[t].rev \in Nat
  BY TableTypes, NoTaskType
<1>3. CASE mem[t] = NoTask
  BY <1>1, <1>2, <1>3, NoTaskType DEF Kept
<1>4. CASE row[t] = mem[t]
  BY <1>1, <1>2, <1>4 DEF Kept
<1>5. CASE \E b \in Agents : Has(b, "set", t)
  <2>1. PICK b \in Agents : Has(b, "set", t)
    BY <1>5
  <2>2. row[t].rev = mem[t].rev + 1
    BY <2>1 DEF Has, Saved, Backed
  <2> QED BY <1>1, <1>2, <2>2 DEF Kept
<1> QED BY <1>1, <1>3, <1>4, <1>5 DEF Kept

(* What anybody was sent of a task is in the table, or its room is gone,   *)
(* through any number of crashes (tasks.rs:51 and 82: saved before shown). *)
THEOREM SavedBeforeSent == Spec => []SentIsSaved
<1>1. Shape /\ Saved => SentIsSaved
  BY SeenIsSaved, TableTypes, NoTaskType DEF SentIsSaved
<1> QED BY <1>1, SavedHolds, PTL

-----------------------------------------------------------------------------
(* Third layer: a member that listed the tasks is up to date or about to   *)
(* be told.                                                                *)
WillHear(a, t) ==
    \/ known[a][t] = mem[t].rev
    \/ \E b \in Agents :
           /\ req[b].task = t /\ req[b].info.rev = mem[t].rev
           /\ \/ req[b].at = "tell"
              \/ req[b].at = "send" /\ a \in ToSet(req[b].todo)

Heard ==
    /\ \A r \in Rooms : listed[r] \subseteq ToSet(members[r])
    /\ \A t \in Tasks : home[t] \in rooms =>
           \A a \in listed[home[t]] : WillHear(a, t)

LEMMA InitHeard == Init => Heard
BY DEF Init, Heard

(* What a member waits for outlasts a step that is not about it. *)
LEMMA HearStays ==
    ASSUME Shape, NEW x \in Agents, NEW q \in Requests, Moves(x, q),
           NEW a \in Agents, NEW t \in Tasks, WillHear(a, t),
           mem'[t] = mem[t], known'[a][t] = known[a][t],
           req[x].at \notin {"tell", "send"} \/ req[x].task # t
    PROVE  WillHear(a, t)'
<1>1. CASE known[a][t] = mem[t].rev
  BY <1>1 DEF WillHear
<1>2. ASSUME NEW b \in Agents, req[b].task = t, req[b].info.rev = mem[t].rev,
             req[b].at = "tell" \/ (req[b].at = "send" /\ a \in ToSet(req[b].todo))
      PROVE  WillHear(a, t)'
  <2>1. req'[b] = req[b]
    BY <1>2 DEF Moves
  <2> QED BY <1>2, <2>1 DEF WillHear
<1> QED BY <1>1, <1>2 DEF WillHear

LEMMA HeardQuiet ==
    ASSUME Shape, Heard, NEW x \in Agents, NEW q \in Requests, Moves(x, q),
           UNCHANGED <<mem, home, known>>, rooms' \subseteq rooms,
           \A r \in Rooms : /\ listed'[r] \subseteq listed[r]
                            /\ listed'[r] \subseteq ToSet(members'[r]),
           req[x].at \notin {"tell", "send"}
    PROVE  Heard'
<1>1. ASSUME NEW t \in Tasks, home'[t] \in rooms', NEW a \in listed'[home'[t]]
      PROVE  WillHear(a, t)'
  <2>1. home[t] \in rooms /\ home[t] \in Rooms /\ a \in listed[home[t]] /\ a \in Agents
    BY <1>1, TableTypes
  <2>2. WillHear(a, t)
    BY <2>1 DEF Heard
  <2> QED BY <2>1, <2>2, HearStays
<1> QED BY <1>1 DEF Heard

LEMMA StepsHeard ==
    ASSUME Shape, Heard, NEW x \in Agents, NEW q \in Requests, Moves(x, q),
           UNCHANGED <<mem, home, known, members, listed>>, rooms' \subseteq rooms,
           req[x].at \notin {"tell", "send"}
    PROVE  Heard'
<1>1. \A r \in Rooms : /\ listed'[r] \subseteq listed[r]
                       /\ listed'[r] \subseteq ToSet(members'[r])
  BY DEF Heard
<1> QED BY <1>1, HeardQuiet

LEMMA JoinHeard ==
    ASSUME Shape, Heard, NEW a \in Agents, NEW r \in Rooms, Join(a, r)
    PROVE  Heard'
<1>1. UNCHANGED <<mem, home, known, listed, rooms, req>> /\ req[a] = Idle
      /\ members' = [members EXCEPT ![r] = Append(members[r], a)]
  BY DEF Join, table, history
<1>2. Moves(a, Idle) /\ Idle \in Requests /\ req[a].at = "idle"
  BY <1>1, Stays, IdleType
<1>3. ToSet(members[r]) \subseteq ToSet(Append(members[r], a))
  <2>1. members[r] \in Seq(Agents)
    BY TableTypes
  <2>2. /\ DOMAIN members[r] \subseteq DOMAIN Append(members[r], a)
        /\ \A i \in DOMAIN members[r] : Append(members[r], a)[i] = members[r][i]
    BY <2>1
  <2> QED BY <2>2 DEF ToSet
<1>4. ASSUME NEW s \in Rooms
      PROVE  listed'[s] \subseteq listed[s] /\ listed'[s] \subseteq ToSet(members'[s])
  <2>1. listed[s] \subseteq ToSet(members[s])
    BY DEF Heard
  <2>2. members'[s] = IF s = r THEN Append(members[r], a) ELSE members[s]
    BY <1>1, TableTypes
  <2> QED BY <1>1, <1>3, <2>1, <2>2
<1> QED BY <1>1, <1>2, <1>4, HeardQuiet

LEMMA LeaveHeard ==
    ASSUME Shape, Heard, NEW a \in Agents, NEW r \in Rooms, Leave(a, r)
    PROVE  Heard'
<1>1. UNCHANGED <<mem, home, known, rooms, req>> /\ req[a] = Idle
      /\ listed' = [listed EXCEPT ![r] = listed[r] \ {a}]
  BY DEF Leave, table
<1>2. Moves(a, Idle) /\ Idle \in Requests /\ req[a].at = "idle"
  BY <1>1, Stays, IdleType
<1>3. PICK i \in DOMAIN members[r] :
          members[r][i] = a /\ members' = [members EXCEPT ![r] = RemoveAt(members[r], i)]
  BY DEF Leave
<1>4. \A x \in ToSet(members[r]) : x # a => x \in ToSet(RemoveAt(members[r], i))
  <2>1. members[r] \in Seq(Agents)
    BY TableTypes
  <2> QED BY <1>3, <2>1, RemoveAtType
<1>5. ASSUME NEW s \in Rooms
      PROVE  listed'[s] \subseteq listed[s] /\ listed'[s] \subseteq ToSet(members'[s])
  <2>1. listed[s] \subseteq ToSet(members[s])
    BY DEF Heard
  <2>2. /\ members'[s] = IF s = r THEN RemoveAt(members[r], i) ELSE members[s]
        /\ listed'[s] = IF s = r THEN listed[r] \ {a} ELSE listed[s]
    BY <1>1, <1>3, TableTypes
  <2> QED BY <1>4, <2>1, <2>2
<1> QED BY <1>1, <1>2, <1>5, HeardQuiet

LEMMA RequestStepsHeard ==
    ASSUME Shape, Heard, NEW a \in Agents,
           \/ \E r \in Rooms : Assign(a, r) \/ Destroy(a, r)
           \/ \E t \in Tasks, u \in Updates : Update(a, t, u)
           \/ UpdateEnter(a) \/ UpdateWrite(a)
    PROVE  Heard'
<1>1. /\ UNCHANGED <<mem, home, known, members, listed>> /\ rooms' \subseteq rooms
      /\ req[a].at \notin {"tell", "send"}
  BY IdleType DEF Assign, Destroy, Update, UpdateEnter, UpdateWrite, Start, table, history
<1>2. /\ req' \in [Agents -> Requests]
      /\ \A b \in Agents \ {a} : req'[b] = req[b]
  <2>1. Shape'
    BY AssignShape, DestroyShape, UpdateShape, UpdateEnterShape, UpdateWriteShape
  <2>2. req' \in [Agents -> Requests]
    BY <2>1 DEF Shape, TypeOK
  <2>3. \A b \in Agents \ {a} : req'[b] = req[b]
    BY TableTypes DEF Assign, Destroy, Update, UpdateEnter, UpdateWrite, Start, Finish, Goto
  <2> QED BY <2>2, <2>3
<1>3. PICK q \in Requests : Moves(a, q)
  BY <1>2 DEF Moves
<1> QED BY <1>1, <1>3, StepsHeard

LEMMA CreateSaveHeard ==
    ASSUME Shape, Saved, Heard, NEW a \in Agents, CreateSave(a)
    PROVE  Heard'
<1>1. /\ UNCHANGED <<mem, known, members, listed, rooms>> /\ req[a].at = "save"
      /\ \A t \in Tasks : home'[t] # home[t] => home[t] = None
  BY TableTypes DEF CreateSave
<1>2. PICK q \in Requests : Moves(a, q)
  <2>1. Shape'
    BY CreateSaveShape
  <2>2. req' \in [Agents -> Requests]
    BY <2>1 DEF Shape, TypeOK
  <2>3. \A b \in Agents \ {a} : req'[b] = req[b]
    BY TableTypes DEF CreateSave, Finish
  <2> QED BY <2>2, <2>3 DEF Moves
<1>3. ASSUME NEW t \in Tasks, home'[t] \in rooms', NEW b \in listed'[home'[t]]
      PROVE  WillHear(b, t)'
  <2>1. b \in Agents
    <3>1. home'[t] \in Rooms
      BY <1>1, <1>3, TableTypes
    <3> QED BY <1>1, <1>3, <3>1, TableTypes
  <2>2. CASE home'[t] = home[t]
    <3>1. WillHear(b, t)
      BY <1>1, <1>3, <2>2 DEF Heard
    <3> QED BY <1>1, <1>2, <2>1, <3>1, HearStays
  <2>3. CASE home'[t] # home[t]
    <3>1. known[b][t] = 0 /\ mem[t] = NoTask
      BY <1>1, <2>1, <2>3, TableTypes DEF Saved, Kept
    <3> QED BY <1>1, <3>1, NoTaskType DEF WillHear
  <2> QED BY <2>2, <2>3
<1>4. \A r \in Rooms : listed'[r] \subseteq ToSet(members'[r])
  BY <1>1 DEF Heard
<1> QED BY <1>3, <1>4 DEF Heard

(* A new version is about to be told. *)
LEMMA NewVersionHeard ==
    ASSUME Shape, Heard, NEW a \in Agents, CreateInsert(a) \/ UpdateSet(a)
    PROVE  Heard'
<1> DEFINE p == req[a]
<1>1. /\ UNCHANGED <<home, known, members, listed, rooms>>
      /\ mem' = [mem EXCEPT ![p.task] = p.info] /\ Goto(a, "tell") /\ "tell" \in PCs
      /\ p.at \in {"insert", "set"}
  BY DEF CreateInsert, UpdateSet, table, history, PCs
<1>2. PICK q \in Requests : Moves(a, q) /\ q.at = "tell" /\ q.task = p.task /\ q.info = p.info
  BY <1>1, GotoMoves
<1>3. ASSUME NEW t \in Tasks, home'[t] \in rooms', NEW b \in listed'[home'[t]]
      PROVE  WillHear(b, t)'
  <2>1. WillHear(b, t) /\ b \in Agents
    <3>1. home[t] \in Rooms
      BY <1>1, <1>3, TableTypes
    <3> QED BY <1>1, <1>3, <3>1, TableTypes DEF Heard
  <2>2. CASE p.task = t
    <3>1. mem'[t] = p.info
      BY <1>1, <2>2, TableTypes
    <3>2. /\ req'[a].task = t /\ req'[a].at = "tell" /\ req'[a].info = p.info
      BY <1>2, <2>2 DEF Moves
    <3> QED BY <3>1, <3>2 DEF WillHear
  <2>3. CASE p.task # t
    <3>1. mem'[t] = mem[t]
      BY <1>1, <2>3, TableTypes
    <3> QED BY <1>1, <1>2, <2>1, <2>3, <3>1, HearStays
  <2> QED BY <2>2, <2>3
<1>4. \A r \in Rooms : listed'[r] \subseteq ToSet(members'[r])
  BY <1>1 DEF Heard
<1> QED BY <1>3, <1>4 DEF Heard

(* A broadcast begins with all the members. *)
LEMMA TellHeard ==
    ASSUME Shape, Heard, NEW a \in Agents, Tell(a)
    PROVE  Heard'
<1> DEFINE p == req[a]
<1>1. /\ UNCHANGED <<mem, home, known, members, listed, rooms>> /\ p.at = "tell"
      /\ p \in Requests /\ p.task \in Tasks /\ home[p.task] = p.room /\ p.room \in Rooms
  BY RequestFacts DEF Tell, Knows, table, history
<1>2. \A b \in Agents \ {a} : req'[b] = req[b]
  BY TableTypes DEF Tell, Finish
<1>3. members[p.room] # <<>> =>
          /\ req'[a].at = "send" /\ req'[a].todo = members[p.room]
          /\ req'[a].task = p.task /\ req'[a].info = p.info
  <2>1. ASSUME members[p.room] # <<>>
        PROVE  req'[a] = [p EXCEPT !.at = "send", !.todo = members[p.room]]
    BY <2>1, TableTypes DEF Tell
  <2> QED BY <1>1, <2>1 DEF Requests
<1> HIDE DEF p
<1>4. ASSUME NEW t \in Tasks, home'[t] \in rooms', NEW b \in listed'[home'[t]]
      PROVE  WillHear(b, t)'
  <2>1. WillHear(b, t) /\ home[t] \in Rooms /\ b \in ToSet(members[home[t]])
    BY <1>1, <1>4, TableTypes DEF Heard
  <2>2. CASE known[b][t] = mem[t].rev
    BY <1>1, <2>2 DEF WillHear
  <2>3. ASSUME NEW c \in Agents, req[c].task = t, req[c].info.rev = mem[t].rev,
               req[c].at = "tell" \/ (req[c].at = "send" /\ b \in ToSet(req[c].todo))
        PROVE  WillHear(b, t)'
    <3>1. CASE c # a
      BY <1>1, <1>2, <2>3, <3>1 DEF WillHear
    <3>2. CASE c = a
      <4>1. home[t] = p.room /\ p.task = t /\ p.info.rev = mem[t].rev
        BY <1>1, <2>3, <3>2 DEF p
      <4>2. members[p.room] # <<>>
        BY <2>1, <4>1 DEF ToSet
      <4> QED BY <1>1, <1>3, <2>1, <4>1, <4>2 DEF WillHear
    <3> QED BY <3>1, <3>2
  <2> QED BY <2>1, <2>2, <2>3 DEF WillHear
<1>5. \A r \in Rooms : listed'[r] \subseteq ToSet(members'[r])
  BY <1>1 DEF Heard
<1> QED BY <1>4, <1>5 DEF Heard

(* Whoever is told has the version, or had a later one. *)
LEMMA SendHeard ==
    ASSUME Shape, Saved, Heard, NEW a \in Agents, Send(a)
    PROVE  Heard'
<1> DEFINE p == req[a]
<1>1. /\ UNCHANGED <<mem, home, members, listed, rooms>> /\ p.at = "send"
      /\ p.task \in Tasks /\ home[p.task] = p.room /\ p.info.rev \in Nat
      /\ p.todo # <<>> /\ p.todo \in Seq(Agents)
      /\ home[p.task] \in rooms => p.info.rev <= mem[p.task].rev
  <2>1. p.at = "send" /\ Knows(p, home, rooms) /\ Backed(p, mem, row, home, rooms)
    BY RequestFacts DEF Send, Saved
  <2>2. p.todo # <<>> /\ p.todo \in Seq(Agents)
    BY <2>1, SendFacts
  <2>3. UNCHANGED <<mem, home, members, listed, rooms>>
    BY DEF Send, table
  <2> QED BY <2>1, <2>2, <2>3, NoTaskType DEF Knows, Backed
<1>2. \A b \in Agents \ {a} : req'[b] = req[b]
  BY SendMoves DEF Moves
<1>3. ASSUME NEW t \in Tasks, home'[t] \in rooms', NEW b \in listed'[home'[t]]
      PROVE  WillHear(b, t)'
  <2>1. WillHear(b, t) /\ home[t] \in rooms /\ b \in Agents
    <3>1. home[t] \in Rooms
      BY <1>1, <1>3, TableTypes
    <3> QED BY <1>1, <1>3, <3>1, TableTypes DEF Heard
  <2>2. mem[t].rev \in Nat /\ known[b][t] \in Nat /\ known[b][t] <= mem[t].rev
    BY <2>1, TableTypes, NoTaskType DEF Saved, Kept
  <2>3. IF b = Head(p.todo) /\ t = p.task
        THEN known'[b][t] = Newest(known[b][t], p.info.rev)
        ELSE known'[b][t] = known[b][t]
    BY <2>1, SendChanges
  <2>4. CASE known[b][t] = mem[t].rev
    <3>1. known'[b][t] = mem[t].rev
      BY <1>1, <2>1, <2>2, <2>3, <2>4 DEF Newest
    <3> QED BY <1>1, <3>1 DEF WillHear
  <2>5. ASSUME NEW c \in Agents, req[c].task = t, req[c].info.rev = mem[t].rev,
               req[c].at = "tell" \/ (req[c].at = "send" /\ b \in ToSet(req[c].todo))
        PROVE  WillHear(b, t)'
    <3>1. CASE c # a
      BY <1>1, <1>2, <2>5, <3>1 DEF WillHear
    <3>2. CASE c = a /\ b = Head(p.todo)
      <4>1. known'[b][t] = mem[t].rev
        BY <2>2, <2>3, <2>5, <3>2 DEF Newest
      <4> QED BY <1>1, <4>1 DEF WillHear
    <3>3. CASE c = a /\ b # Head(p.todo)
      <4>1. b \in ToSet(Tail(p.todo))
        BY <1>1, <2>5, <3>3, TailInside
      <4>2. Tail(p.todo) # <<>>
        BY <4>1 DEF ToSet
      <4>3. PICK q \in Requests : /\ Moves(a, q) /\ q.at = "send" /\ q.todo = Tail(p.todo)
                                  /\ q.task = p.task /\ q.info = p.info
        BY <4>2, SendMoves
      <4>4. /\ req'[a].at = "send" /\ req'[a].task = t /\ b \in ToSet(req'[a].todo)
            /\ req'[a].info.rev = mem'[t].rev
        BY <1>1, <2>5, <3>3, <4>1, <4>3 DEF Moves
      <4> QED BY <4>4 DEF WillHear
    <3> QED BY <3>1, <3>2, <3>3
  <2> QED BY <2>1, <2>4, <2>5 DEF WillHear
<1>4. \A r \in Rooms : listed'[r] \subseteq ToSet(members'[r])
  BY <1>1 DEF Heard
<1> QED BY <1>3, <1>4 DEF Heard

LEMMA ListHeard ==
    ASSUME Shape, Saved, Heard, NEW a \in Agents, NEW r \in Rooms, List(a, r)
    PROVE  Heard'
<1>1. /\ UNCHANGED <<mem, home, members, rooms, req>> /\ req[a] = Idle
      /\ known' = [known EXCEPT ![a] = [t \in Tasks |->
             IF mem[t].room = r THEN Newest(known[a][t], mem[t].rev) ELSE known[a][t]]]
      /\ listed' = IF IsMember(a, r) THEN [listed EXCEPT ![r] = @ \cup {a}] ELSE listed
  BY TableTypes DEF List, server, table
<1>2. Moves(a, Idle) /\ Idle \in Requests /\ req[a].at = "idle"
  BY <1>1, Stays, IdleType
<1>3. \A s \in Rooms, b \in Agents :
          b \in listed'[s] => b \in listed[s] \/ (b = a /\ s = r /\ IsMember(a, r))
  BY <1>1, TableTypes
<1>4. ASSUME NEW t \in Tasks, home'[t] \in rooms', NEW b \in listed'[home'[t]]
      PROVE  WillHear(b, t)'
  <2>1. home[t] \in rooms /\ home[t] \in Rooms /\ b \in Agents
        /\ (b \in listed[home[t]] \/ (b = a /\ home[t] = r))
    <3>1. home[t] \in rooms /\ home[t] \in Rooms
      BY <1>1, <1>4, TableTypes
    <3>2. listed' \in [Rooms -> SUBSET Agents]
      BY ListTypes
    <3> QED BY <1>1, <1>3, <1>4, <3>1, <3>2
  <2>2. CASE b = a /\ home[t] = r
    <3>1. /\ known[a][t] \in Nat /\ known[a][t] <= mem[t].rev
          /\ known'[a][t] = IF mem[t].room = r THEN Newest(known[a][t], mem[t].rev)
                            ELSE known[a][t]
      BY <1>1, <2>1, TableTypes DEF Saved, Kept
    <3>2. CASE mem[t] = NoTask
      <4>1. mem[t].rev = 0 /\ mem[t].room # r
        BY <3>2, NoTaskType, BoardAssumption
      <4>2. known'[a][t] = mem[t].rev
        BY <3>1, <4>1
      <4> QED BY <1>1, <2>2, <4>2 DEF WillHear
    <3>3. CASE mem[t] # NoTask
      <4>1. mem[t].room = r /\ mem[t].rev \in Nat
        BY <2>2, <3>3, TableTypes, NoTaskType
      <4>2. known'[a][t] = mem[t].rev
        BY <3>1, <4>1 DEF Newest
      <4> QED BY <1>1, <2>2, <4>2 DEF WillHear
    <3> QED BY <3>2, <3>3
  <2>3. CASE b \in listed[home[t]] /\ ~(b = a /\ home[t] = r)
    <3>1. WillHear(b, t)
      BY <2>1, <2>3 DEF Heard
    <3>2. known'[b][t] = known[b][t]
      <4>1. b = a => mem[t].room # r
        BY <2>1, <2>3, TableTypes, NoTaskType, BoardAssumption
      <4> QED BY <1>1, <2>1, <4>1, TableTypes
    <3>3. req[a].at \notin {"tell", "send"}
      BY <1>2
    <3> QED BY <1>1, <1>2, <2>1, <3>1, <3>2, <3>3, HearStays
  <2> QED BY <2>1, <2>2, <2>3
<1>5. \A s \in Rooms : listed'[s] \subseteq ToSet(members'[s])
  <2>1. IsMember(a, r) => a \in ToSet(members[r])
    BY DEF IsMember, ToSet
  <2>2. listed' \in [Rooms -> SUBSET Agents]
    BY ListTypes
  <2> QED BY <1>1, <1>3, <2>1, <2>2 DEF Heard
<1> QED BY <1>4, <1>5 DEF Heard

LEMMA DestroyMembersHeard ==
    ASSUME Shape, Heard, NEW a \in Agents, DestroyMembers(a)
    PROVE  Heard'
<1> DEFINE r == req[a].room
<1>1. /\ UNCHANGED <<mem, home, known, rooms>> /\ req[a].at = "members"
      /\ members' = [members EXCEPT ![r] = <<>>] /\ listed' = [listed EXCEPT ![r] = {}]
      /\ Goto(a, "forget") /\ "forget" \in PCs
  BY DEF DestroyMembers, table, PCs
<1>2. PICK q \in Requests : Moves(a, q)
  BY <1>1, GotoMoves
<1> HIDE DEF r
<1>3. ASSUME NEW s \in Rooms
      PROVE  listed'[s] \subseteq listed[s] /\ listed'[s] \subseteq ToSet(members'[s])
  <2>1. listed[s] \subseteq ToSet(members[s])
    BY DEF Heard
  <2>2. listed'[s] = {} \/ (listed'[s] = listed[s] /\ members'[s] = members[s])
    BY <1>1, TableTypes
  <2> QED BY <2>1, <2>2
<1> QED BY <1>1, <1>2, <1>3, HeardQuiet

LEMMA DestroyForgetHeard ==
    ASSUME Shape, Heard, NEW a \in Agents, DestroyForget(a)
    PROVE  Heard'
<1> DEFINE r == req[a].room
<1>1. /\ UNCHANGED <<home, known, members, listed, rooms>> /\ req[a].at = "forget"
      /\ mem' = [t \in Tasks |-> IF mem[t].room = r THEN NoTask ELSE mem[t]]
      /\ Finish(a) /\ r \in Rooms \ rooms
  BY RequestFacts DEF DestroyForget, Knows, table, history
<1>2. Moves(a, Idle) /\ Idle \in Requests
  BY <1>1, FinishMoves, IdleType
<1> HIDE DEF r
<1>3. ASSUME NEW t \in Tasks, home'[t] \in rooms', NEW b \in listed'[home'[t]]
      PROVE  WillHear(b, t)'
  <2>1. home[t] \in rooms /\ home[t] \in Rooms /\ b \in Agents /\ WillHear(b, t)
    BY <1>1, <1>3, TableTypes DEF Heard
  <2>2. mem'[t] = mem[t] /\ known'[b][t] = known[b][t]
    BY <1>1, <2>1, TableTypes
  <2> QED BY <1>1, <1>2, <2>1, <2>2, HearStays
<1>4. \A s \in Rooms : listed'[s] \subseteq ToSet(members'[s])
  BY <1>1 DEF Heard
<1> QED BY <1>3, <1>4 DEF Heard

LEMMA CrashHeard ==
    ASSUME Shape, Heard, Crash
    PROVE  Heard'
<1>1. \A r \in Rooms : listed'[r] = {}
  BY DEF Crash
<1>2. \A t \in Tasks : home'[t] \in rooms' => home'[t] \in Rooms
  BY TableTypes DEF Crash, table
<1> QED BY <1>1, <1>2 DEF Heard

LEMMA StutterHeard ==
    ASSUME Heard, UNCHANGED vars
    PROVE  Heard'
<1>1. UNCHANGED <<rooms, mem, members, req, home, known, listed>>
  BY DEF vars, server, table, history
<1>2. \A a, t : WillHear(a, t) => WillHear(a, t)'
  BY <1>1 DEF WillHear
<1> QED BY <1>1, <1>2 DEF Heard

LEMMA NextHeard == Shape /\ Saved /\ Heard /\ [Next]_vars => Heard'
<1> SUFFICES ASSUME Shape, Saved, Heard, [Next]_vars PROVE Heard'
  OBVIOUS
<1>1. ASSUME NEW a \in Agents, NEW r \in Rooms,
             Join(a, r) \/ Leave(a, r) \/ Assign(a, r) \/ List(a, r) \/ Destroy(a, r)
      PROVE  Heard'
  BY <1>1, JoinHeard, LeaveHeard, ListHeard, RequestStepsHeard
<1>2. ASSUME NEW a \in Agents, NEW t \in Tasks, NEW u \in Updates, Update(a, t, u)
      PROVE  Heard'
  BY <1>2, RequestStepsHeard
<1>3. ASSUME NEW a \in Agents, CreateSave(a) \/ CreateInsert(a) \/ UpdateEnter(a)
             \/ UpdateWrite(a) \/ UpdateSet(a)
      PROVE  Heard'
  BY <1>3, CreateSaveHeard, NewVersionHeard, RequestStepsHeard
<1>4. ASSUME NEW a \in Agents, Tell(a) \/ Send(a) \/ DestroyMembers(a) \/ DestroyForget(a)
      PROVE  Heard'
  BY <1>4, TellHeard, SendHeard, DestroyMembersHeard, DestroyForgetHeard
<1> QED BY <1>1, <1>2, <1>3, <1>4, CrashHeard, StutterHeard DEF Next

(* A member that listed the tasks since it joined, and keeps the latest    *)
(* version it is sent, has the board as the server has it once no change   *)
(* is under way, although events overtake each other (handler.rs:2204).    *)
THEOREM ListenersUpToDate == Spec => []ListenersHaveTheBoard
<1>1. ASSUME Shape, Saved, Heard, NEW r \in rooms, NEW a \in listed[r], NEW t \in Tasks,
             home[t] = r, ~Pending(t)
      PROVE  known[a][t] = mem[t].rev /\ mem[t] = row[t]
  <2>1. WillHear(a, t)
    BY <1>1 DEF Heard
  <2>2. \A b \in Agents, p \in PCs \ {"idle"} : ~Has(b, p, t)
    BY <1>1 DEF Pending, Has
  <2>3. known[a][t] = mem[t].rev
    BY <1>1, <2>1 DEF WillHear, Pending
  <2>4. mem[t] = row[t]
    BY <1>1, <2>2 DEF Saved, Kept, PCs
  <2> QED BY <2>3, <2>4
<1>2. Shape /\ Saved /\ Heard => ListenersHaveTheBoard
  BY <1>1 DEF ListenersHaveTheBoard
<1>3. Spec => []Heard
  BY InitHeard, NextHeard, SavedHolds, PTL DEF Spec
<1> QED BY <1>2, <1>3, SavedHolds, PTL

-----------------------------------------------------------------------------
(* The board as one object: every step maps to a step of SharedBoard or to *)
(* a stutter.                                                              *)

LEMMA InitBoard == Init => Board!Init
BY NoTaskType DEF Init, Board!Init, Board!Blank, NoTask

(* Steps that change no row and tell nobody. *)
LEMMA HiddenStep ==
    ASSUME UNCHANGED <<rooms, row, home, known>>
    PROVE  UNCHANGED Board!vars
BY DEF Board!vars

LEMMA HiddenSteps ==
    ASSUME NEW a \in Agents,
           \/ \E r \in Rooms : Join(a, r) \/ Leave(a, r) \/ Assign(a, r)
           \/ \E t \in Tasks, u \in Updates : Update(a, t, u)
           \/ CreateInsert(a) \/ UpdateEnter(a) \/ UpdateSet(a) \/ Tell(a)
           \/ DestroyMembers(a) \/ DestroyForget(a)
    PROVE  UNCHANGED Board!vars
<1>1. UNCHANGED <<rooms, row, home, known>>
  BY DEF Join, Leave, Assign, Update, CreateInsert, UpdateEnter, UpdateSet, Tell,
     DestroyMembers, DestroyForget, table, history
<1> QED BY <1>1, HiddenStep

(* create_task: a row for a task that had none. *)
LEMMA CreateSaveCreates ==
    ASSUME Shape, NEW a \in Agents, CreateSave(a)
    PROVE  [Board!Next]_(Board!vars)
<1> DEFINE q == req[a]
<1>1. UNCHANGED <<rooms, known>>
  BY DEF CreateSave
<1>2. CASE UNCHANGED <<row, home>>
  BY <1>1, <1>2, HiddenStep
<1>3. ASSUME NEW t \in Tasks, home[t] = None, q.room \in rooms,
             row' = [row EXCEPT ![t] = [NoTask EXCEPT !.room = q.room, !.rev = 1]],
             home' = [home EXCEPT ![t] = q.room]
      PROVE  Board!Next
  <2>1. row[t] = NoTask
    BY <1>3, TableTypes, BoardAssumption
  <2>2. [s \in Tasks |-> row'[s].rev] = [[s \in Tasks |-> row[s].rev] EXCEPT ![t] = 1]
    BY <1>3, <2>1, TableTypes DEF NoTask
  <2>3. [s \in Tasks |-> row'[s].val] = [s \in Tasks |-> row[s].val]
    BY <1>3, <2>1, TableTypes DEF NoTask
  <2>4. PICK r \in Rooms : r = q.room
    BY <1>3, TableTypes
  <2>5. Board!Create(t, r)
    BY <1>1, <1>3, <2>2, <2>3, <2>4 DEF Board!Create
  <2> QED BY <2>5 DEF Board!Next
<1> QED BY <1>2, <1>3 DEF CreateSave

(* update_task: the fields that are named, of the version that is saved. *)
LEMMA UpdateWriteChanges ==
    ASSUME Shape, Saved, NEW a \in Agents, UpdateWrite(a)
    PROVE  [Board!Next]_(Board!vars)
<1> DEFINE p == req[a]
           t == p.task
<1>1. UNCHANGED <<rooms, home, known>> /\ p.at = "write"
  BY DEF UpdateWrite
<1>2. CASE UNCHANGED row
  BY <1>1, <1>2, HiddenStep
<1>3. ASSUME p.room \in rooms, row' = [row EXCEPT ![t] = p.info]
      PROVE  Board!Next
  <2>1. /\ t \in Tasks /\ p.sets \in Updates /\ home[t] = p.room /\ held[t] = a
        /\ p.info = Merged(mem[t], p.sets) /\ p.info.rev = mem[t].rev + 1
        /\ mem[t] # NoTask
    BY <1>1, RequestFacts DEF Knows, Saved, Backed, Requests
  <2>2. \A b \in Agents : ~Has(b, "set", t)
    BY <1>1, <2>1, RequestFacts DEF Has
  <2>3. row[t] = mem[t] /\ row[t] \in TaskInfos
    BY <1>3, <2>1, <2>2, TableTypes DEF Saved, Kept
  <2>4. /\ p.info.rev = row[t].rev + 1 /\ row[t].rev > 0
        /\ p.info.val = [f \in Fields |-> IF f \in DOMAIN p.sets THEN p.sets[f]
                                            ELSE row[t].val[f]]
    BY <2>1, <2>3 DEF Merged, TaskInfos
  <2> DEFINE new == [f \in Fields |-> IF f \in DOMAIN p.sets THEN p.sets[f]
                                       ELSE [s \in Tasks |-> row[s].val][t][f]]
  <2>5. new = p.info.val /\ row'[t] = p.info /\ \A s \in Tasks \ {t} : row'[s] = row[s]
    BY <1>3, <2>1, <2>4, TableTypes
  <2>6. [s \in Tasks |-> row'[s].rev] =
            [[s \in Tasks |-> row[s].rev] EXCEPT ![t] = @ + 1]
    <3> HIDE DEF p
    <3>1. t \in Tasks
      BY <2>1
    <3> HIDE DEF t
    <3> QED BY <2>4, <2>5, <3>1
  <2>7. [s \in Tasks |-> row'[s].val] = [[s \in Tasks |-> row[s].val] EXCEPT ![t] = new]
    <3> HIDE DEF new, p
    <3> QED BY <2>1, <2>5
  <2>8. PICK u \in Board!Updates : u = p.sets
    BY <2>1 DEF Updates, Board!Updates
  <2>9. Board!Change(t, u)
    BY <1>1, <2>1, <2>4, <2>6, <2>7, <2>8 DEF Board!Change
  <2> QED BY <2>1, <2>9 DEF Board!Next
<1> QED BY <1>2, <1>3 DEF UpdateWrite

(* destroy_room_with: the room and its rows in one transaction. *)
LEMMA DestroyEnds ==
    ASSUME Shape, NEW a \in Agents, NEW r \in Rooms, Destroy(a, r)
    PROVE  Board!Next
<1>1. /\ r \in rooms \ {Lobby} /\ rooms' = rooms \ {r} /\ UNCHANGED <<home, known>>
      /\ row' = [t \in Tasks |-> IF row[t].room = r THEN NoTask ELSE row[t]]
  BY DEF Destroy, history
<1>2. ASSUME NEW t \in Tasks
      PROVE  row'[t] = IF home[t] = r THEN NoTask ELSE row[t]
  BY <1>1, TableTypes, NoTaskType, BoardAssumption
<1>3. [t \in Tasks |-> row'[t].rev] =
          [t \in Tasks |-> IF home[t] = r THEN 0 ELSE [s \in Tasks |-> row[s].rev][t]]
  BY <1>2, NoTaskType
<1>4. [t \in Tasks |-> row'[t].val] =
          [t \in Tasks |-> IF home[t] = r THEN Board!Blank
                           ELSE [s \in Tasks |-> row[s].val][t]]
  BY <1>2 DEF NoTask, Board!Blank
<1>5. Board!End(r)
  BY <1>1, <1>3, <1>4 DEF Board!End
<1> QED BY <1>5 DEF Board!Next

(* Whoever is sent something hears of it. *)
LEMMA Hears ==
    ASSUME Shape', Saved', SentIsSaved', NEW a \in Agents, UNCHANGED <<rooms, row, home>>,
           known[a] \in [Tasks -> Nat],
           \A b \in Agents \ {a} : known'[b] = known[b],
           \A t \in Tasks : known'[a][t] >= known[a][t]
    PROVE  Board!Next
<1>1. known' \in [Agents -> [Tasks -> Nat]]
  BY DEF Shape, TypeOK
<1>2. ASSUME NEW t \in Tasks, known'[a][t] > known[a][t]
      PROVE  home[t] # None /\ (home[t] \in rooms => known'[a][t] <= row[t].rev)
  <2>1. known[a][t] \in Nat /\ known'[a][t] \in Nat /\ known'[a][t] > 0
    BY <1>1, <1>2
  <2>2. home'[t] # None
    BY <2>1 DEF Saved, Kept
  <2>3. home'[t] \in rooms' => row'[t].rev >= known'[a][t]
    BY <2>1 DEF SentIsSaved
  <2>4. row'[t].rev \in Nat
    BY NoTaskType DEF Shape, TypeOK
  <2> QED BY <2>1, <2>2, <2>3, <2>4
<1>3. Board!Hear(a)
  BY <1>1, <1>2 DEF Board!Hear
<1> QED BY <1>3 DEF Board!Next

(* Of two versions the newer one is kept. *)
LEMMA NewestGrows ==
    \A m, n \in Nat : Newest(m, n) \in Nat /\ Newest(m, n) >= m
BY DEF Newest

LEMMA ListHears ==
    ASSUME Shape, Shape', Saved', SentIsSaved', NEW a \in Agents, NEW r \in Rooms, List(a, r)
    PROVE  Board!Next
<1>1. UNCHANGED <<rooms, row, home>> /\ known \in [Agents -> [Tasks -> Nat]]
  BY TableTypes DEF List, table
<1>2. /\ \A b \in Agents \ {a} : known'[b] = known[b]
      /\ \A t \in Tasks : known'[a][t] = IF mem[t].room = r
                             THEN Newest(known[a][t], mem[t].rev) ELSE known[a][t]
  BY <1>1 DEF List
<1>3. ASSUME NEW t \in Tasks PROVE known'[a][t] >= known[a][t]
  <2>1. mem[t].rev \in Nat /\ known[a][t] \in Nat
    BY <1>1, TableTypes, NoTaskType
  <2> QED BY <1>2, <2>1, NewestGrows
<1> QED BY <1>1, <1>2, <1>3, Hears

LEMMA SendHears ==
    ASSUME Shape, Shape', Saved', SentIsSaved', NEW a \in Agents, Send(a)
    PROVE  Board!Next
<1> DEFINE p == req[a]
           b == Head(p.todo)
<1>1. UNCHANGED <<rooms, row, home>> /\ known \in [Agents -> [Tasks -> Nat]]
  BY TableTypes DEF Send, table
<1>2. b \in Agents /\ p.task \in Tasks /\ p.info.rev \in Nat
  <2>1. p.at = "send" /\ p.todo # <<>> /\ p.todo \in Seq(Agents)
    BY SendFacts DEF Send
  <2>2. p.task \in Tasks /\ p.info \in TaskInfos
    BY <2>1, RequestFacts DEF Knows
  <2> QED BY <2>1, <2>2, HeadTailProperties, NoTaskType
<1>3. known' = [known EXCEPT ![b][p.task] = Newest(@, p.info.rev)]
  BY DEF Send
<1> HIDE DEF p, b
<1>4. /\ \A c \in Agents \ {b} : known'[c] = known[c]
      /\ \A t \in Tasks : known'[b][t] = IF t = p.task
                             THEN Newest(known[b][t], p.info.rev) ELSE known[b][t]
  BY <1>1, <1>2, <1>3
<1>5. ASSUME NEW t \in Tasks PROVE known'[b][t] >= known[b][t]
  <2>1. known[b][t] \in Nat
    BY <1>1, <1>2
  <2>2. Newest(known[b][t], p.info.rev) >= known[b][t]
    BY <1>2, <2>1, NewestGrows
  <2> QED BY <1>4, <2>1, <2>2
<1> QED BY <1>1, <1>2, <1>4, <1>5, Hears

LEMMA StepBoard ==
    Shape /\ Saved /\ Shape' /\ Saved' /\ SentIsSaved' /\ [Next]_vars
        => [Board!Next]_(Board!vars)
<1> SUFFICES ASSUME Shape, Saved, Shape', Saved', SentIsSaved', [Next]_vars
             PROVE  [Board!Next]_(Board!vars)
  OBVIOUS
<1>1. ASSUME NEW a \in Agents, NEW r \in Rooms,
             Join(a, r) \/ Leave(a, r) \/ Assign(a, r) \/ List(a, r) \/ Destroy(a, r)
      PROVE  [Board!Next]_(Board!vars)
  BY <1>1, HiddenSteps, ListHears, DestroyEnds
<1>2. ASSUME NEW a \in Agents,
             \/ \E t \in Tasks, u \in Updates : Update(a, t, u)
             \/ CreateInsert(a) \/ UpdateEnter(a) \/ UpdateSet(a) \/ Tell(a)
             \/ DestroyMembers(a) \/ DestroyForget(a)
      PROVE  [Board!Next]_(Board!vars)
  BY <1>2, HiddenSteps
<1>3. ASSUME NEW a \in Agents, CreateSave(a) \/ UpdateWrite(a) \/ Send(a)
      PROVE  [Board!Next]_(Board!vars)
  BY <1>3, CreateSaveCreates, UpdateWriteChanges, SendHears
<1>4. CASE Crash \/ UNCHANGED vars
  <2>1. UNCHANGED <<rooms, row, home, known>>
    BY <1>4 DEF Crash, vars, table, history
  <2> QED BY <2>1, HiddenStep
<1> QED BY <1>1, <1>2, <1>3, <1>4 DEF Next

(* The boards of the server are SharedBoard: the table, its copy in        *)
(* memory, the locks of entries and the separate write, replacement and    *)
(* broadcast of an update look like one change at once, nobody hears of a  *)
(* version before it is made or after a later one, and a restart takes     *)
(* nothing back (tasks.rs).                                                *)
THEOREM Implements == Spec => BoardSpec
<1>1. Spec => [](Shape /\ Saved) /\ []SentIsSaved
  BY SavedHolds, SavedBeforeSent, PTL
<1> QED BY <1>1, InitBoard, StepBoard, PTL DEF Spec, BoardSpec, Board!Spec
=============================================================================

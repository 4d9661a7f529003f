--------------------------- MODULE RegistryProofs ---------------------------
(***************************************************************************)
(* Proofs about RoomBroker and Registration, for any agents, connections,  *)
(* rooms, keys and limits: who is in a room, who may register, and what a  *)
(* key is counted to use.                                                  *)
(***************************************************************************)
EXTENDS RoomBroker, Registration, FiniteSetTheorems, TLAPS

-----------------------------------------------------------------------------
(* RoomBroker. *)

(* The mutex: a connection is at a locked program point exactly while it   *)
(* owns room_lifecycle.                                                    *)
MutexInv == \A c \in Conns : pc[c] \in Locked <=> lifecycle = c

(* Members of a room that is gone exist only while its destroyer is still  *)
(* between the durable delete and the in-memory cleanup.                   *)
PhantomInv ==
    \A r \in RoomIds : members[r] # <<>> =>
        r \in rooms \/ \E c \in Conns : pc[c] = "destroy_members" /\ room[c] = r

(* Inside the mutex nobody else changes the list: a joiner about to look   *)
(* at the token is listed, a room about to lose its token has no members.  *)
LocalInv ==
    \A c \in Conns :
        /\ pc[c] = "join_turn" => AgentOf[c] \in Elems(members[room[c]])
        /\ pc[c] = "destroy_turn" => members[room[c]] = <<>>

IInv == TypeOK /\ MutexInv /\ PhantomInv /\ LocalInv /\ JoinOrderDistinct

(* Appending adds one element to the list. *)
LEMMA AppendElems ==
    ASSUME NEW s \in Seq(Agents), NEW a \in Agents
    PROVE  Elems(Append(s, a)) = Elems(s) \cup {a}
<1>1. ASSUME NEW x \in Elems(Append(s, a)) PROVE x \in Elems(s) \cup {a}
  BY DEF Elems
<1>2. ASSUME NEW x \in Elems(s) PROVE x \in Elems(Append(s, a))
  <2>1. PICK i \in 1..Len(s) : x = s[i]
    BY DEF Elems
  <2>2. i \in 1..Len(Append(s, a)) /\ Append(s, a)[i] = x
    BY <2>1
  <2> QED BY <2>2 DEF Elems
<1>3. a \in Elems(Append(s, a))
  <2>1. Len(s) + 1 \in 1..Len(Append(s, a)) /\ Append(s, a)[Len(s) + 1] = a
    OBVIOUS
  <2> QED BY <2>1 DEF Elems
<1> QED BY <1>1, <1>2, <1>3

(* Retain drops one occurrence: the result is a list of the others. *)
LEMMA RetainType ==
    ASSUME NEW s \in Seq(Agents), NEW a \in Agents
    PROVE  /\ Retain(s, a) \in Seq(Agents)
           /\ s = <<>> => Retain(s, a) = <<>>
<1>1. CASE a \notin Elems(s)
  BY <1>1 DEF Retain
<1>2. CASE a \in Elems(s)
  <2> DEFINE p == CHOOSE i \in 1..Len(s) : s[i] = a
             t == [i \in 1..(Len(s) - 1) |-> IF i < p THEN s[i] ELSE s[i + 1]]
  <2>1. p \in 1..Len(s) /\ s[p] = a
    BY <1>2 DEF Elems
  <2>2. Retain(s, a) = t
    BY <1>2 DEF Retain
  <2>3. Len(s) \in Nat /\ Len(s) >= 1
    BY <2>1
  <2>4. \A i \in 1..(Len(s) - 1) : t[i] \in Agents
    BY <2>1, <2>3
  <2>5. t \in Seq(Agents)
    BY <2>3, <2>4
  <2> QED BY <2>2, <2>3, <2>5
<1> QED BY <1>1, <1>2

(* On a list without repetitions, Retain keeps the others without          *)
(* repetitions and drops a.                                                *)
LEMMA RetainDistinct ==
    ASSUME NEW s \in Seq(Agents), NEW a \in Agents,
           \A i, j \in 1..Len(s) : s[i] = s[j] => i = j
    PROVE  /\ \A i, j \in 1..Len(Retain(s, a)) :
                  Retain(s, a)[i] = Retain(s, a)[j] => i = j
           /\ Elems(Retain(s, a)) = Elems(s) \ {a}
<1>1. CASE a \notin Elems(s)
  BY <1>1 DEF Retain, Elems
<1>2. CASE a \in Elems(s)
  <2> DEFINE p == CHOOSE i \in 1..Len(s) : s[i] = a
             t == [i \in 1..(Len(s) - 1) |-> IF i < p THEN s[i] ELSE s[i + 1]]
  <2>1. p \in 1..Len(s) /\ s[p] = a
    BY <1>2 DEF Elems
  <2>2. Retain(s, a) = t
    BY <1>2 DEF Retain
  <2>3. Len(s) \in Nat /\ Len(s) >= 1
    BY <2>1
  <2>4. t \in Seq(Agents) /\ Len(t) = Len(s) - 1
    <3>1. \A i \in 1..(Len(s) - 1) : t[i] \in Agents
      BY <2>1, <2>3
    <3> QED BY <2>3, <3>1
  <2> HIDE DEF p
  <2>5. \A i, j \in 1..Len(t) : t[i] = t[j] => i = j
    BY <2>1, <2>3, <2>4
  <2>6. ASSUME NEW x \in Elems(t) PROVE x \in Elems(s) \ {a}
    <3>1. PICK i \in 1..Len(t) : x = t[i]
      BY DEF Elems
    <3> DEFINE k == IF i < p THEN i ELSE i + 1
    <3>2. k \in 1..Len(s) /\ x = s[k] /\ k # p
      BY <2>1, <2>3, <2>4, <3>1
    <3>3. s[k] # a
      BY <2>1, <3>2
    <3> QED BY <3>2, <3>3 DEF Elems
  <2>7. ASSUME NEW x \in Elems(s) \ {a} PROVE x \in Elems(t)
    <3>1. PICK i \in 1..Len(s) : x = s[i]
      BY DEF Elems
    <3>2. i # p
      BY <2>1, <3>1
    <3> DEFINE k == IF i < p THEN i ELSE i - 1
    <3>3. k \in 1..Len(t) /\ x = t[k]
      BY <2>1, <2>3, <2>4, <3>1, <3>2
    <3> QED BY <3>3 DEF Elems
  <2> QED BY <2>2, <2>5, <2>6, <2>7
<1> QED BY <1>1, <1>2

(* The member after the sender is a member. *)
LEMMA NextAfterMember ==
    ASSUME NEW s \in Seq(Agents), s # <<>>, NEW a
    PROVE  NextAfter(s, a) \in Elems(s) /\ NextAfter(s, a) \in Agents
<1>0. Len(s) \in Nat /\ Len(s) >= 1
  OBVIOUS
<1>1. CASE a \in Elems(s)
  <2> DEFINE p == CHOOSE i \in 1..Len(s) : s[i] = a
  <2>1. p \in 1..Len(s)
    BY <1>1 DEF Elems
  <2>2. p % Len(s) \in 0..(Len(s) - 1)
    BY <1>0, <2>1
  <2>3. (p % Len(s)) + 1 \in 1..Len(s)
    BY <1>0, <2>2
  <2>4. NextAfter(s, a) = s[(p % Len(s)) + 1]
    BY <1>1 DEF NextAfter
  <2>5. PICK q \in 1..Len(s) : NextAfter(s, a) = s[q]
    BY <2>3, <2>4
  <2> QED BY <2>5 DEF Elems
<1>2. CASE a \notin Elems(s)
  BY <1>0, <1>2 DEF NextAfter, Elems
<1> QED BY <1>1, <1>2

-----------------------------------------------------------------------------
(* The type invariant: what every handler stores stays within its type,    *)
(* and rooms are rows whose UUID was handed out.                           *)
THEOREM TypeCorrect == Spec => []TypeOK
<1> USE ConnsAssumption
<1>1. Init => TypeOK
  BY DEF Init, TypeOK, PCs, Idle
<1>2. TypeOK /\ [Next]_vars => TypeOK'
  <2> SUFFICES ASSUME TypeOK, [Next]_vars PROVE TypeOK'
    OBVIOUS
  <2> USE DEF TypeOK, PCs, Idle, Goto, Finish, Enter, Acquire, Release
  <2>1. ASSUME NEW c \in Conns, NEW r \in RoomIds, CreateRoom(c, r)
        PROVE TypeOK'
    BY <2>1 DEF CreateRoom
  <2>2. ASSUME NEW c \in Conns, NEW r \in RoomIds, JoinCheck(c, r)
        PROVE TypeOK'
    BY <2>2 DEF JoinCheck
  <2>3. ASSUME NEW c \in Conns, NEW r \in RoomIds, LeaveCheck(c, r)
        PROVE TypeOK'
    BY <2>3 DEF LeaveCheck
  <2>4. ASSUME NEW c \in Conns, NEW r \in RoomIds, SendCheck(c, r)
        PROVE TypeOK'
    BY <2>4 DEF SendCheck
  <2>5. ASSUME NEW c \in Conns, NEW r \in RoomIds, DestroyDelete(c, r)
        PROVE TypeOK'
    BY <2>5 DEF DestroyDelete
  <2>6. ASSUME NEW c \in Conns, JoinRefused(c) PROVE TypeOK'
    BY <2>6 DEF JoinRefused
  <2>7. ASSUME NEW c \in Conns, JoinAdmit(c) PROVE TypeOK'
    BY <2>7 DEF JoinAdmit
  <2>8. ASSUME NEW c \in Conns, JoinTurn(c) PROVE TypeOK'
    BY <2>8 DEF JoinTurn
  <2>9. ASSUME NEW c \in Conns, LeaveBegin(c) PROVE TypeOK'
    BY <2>9 DEF LeaveBegin
  <2>10. ASSUME NEW c \in Conns, LeaveRetain(c) PROVE TypeOK'
    <3>1. Retain(members[room[c]], AgentOf[c]) \in Seq(Agents)
      BY RetainType
    <3> QED BY <2>10, <3>1 DEF LeaveRetain
  <2>11. ASSUME NEW c \in Conns, LeaveTurn(c) PROVE TypeOK'
    BY <2>11 DEF LeaveTurn
  <2>12. ASSUME NEW c \in Conns, SendInsert(c) PROVE TypeOK'
    BY <2>12 DEF SendInsert
  <2>12a. ASSUME NEW c \in Conns, SendRefused(c) PROVE TypeOK'
    BY <2>12a DEF SendRefused
  <2>13. ASSUME NEW c \in Conns, AdvanceRead(c) PROVE TypeOK'
    BY <2>13 DEF AdvanceRead
  <2>14. ASSUME NEW c \in Conns, AdvanceWrite(c) PROVE TypeOK'
    <3>1. snapshot[c] # <<>> => NextAfter(snapshot[c], AgentOf[c]) \in Agents
      BY NextAfterMember
    <3> QED BY <2>14, <3>1 DEF AdvanceWrite
  <2>15. ASSUME NEW c \in Conns, DestroyMembers(c) PROVE TypeOK'
    BY <2>15 DEF DestroyMembers
  <2>16. ASSUME NEW c \in Conns, DestroyTurn(c) PROVE TypeOK'
    BY <2>16 DEF DestroyTurn
  <2>17. ASSUME NEW r \in RoomIds, PruneTombstone(r) PROVE TypeOK'
    BY <2>17 DEF PruneTombstone
  <2>18. CASE UNCHANGED vars
    BY <2>18 DEF vars
  <2> QED
    BY <2>1, <2>2, <2>3, <2>4, <2>5, <2>6, <2>7, <2>8, <2>9, <2>10, <2>11,
       <2>12, <2>12a, <2>13, <2>14, <2>15, <2>16, <2>17, <2>18 DEF Next, ConnStep
<1> QED BY <1>1, <1>2, PTL DEF Spec

-----------------------------------------------------------------------------
(* The lifecycle mutex is owned exactly by the connection at a locked      *)
(* program point, so at most one is inside join_room, leave_room or        *)
(* destroy_room_with.                                                      *)
LEMMA MutexStep == TypeOK /\ MutexInv /\ [Next]_vars => MutexInv'
<1> USE ConnsAssumption
<1> SUFFICES ASSUME TypeOK, MutexInv, [Next]_vars PROVE MutexInv'
  OBVIOUS
<1>1. MutexInv'
  <2> USE DEF TypeOK, MutexInv, Locked, PCs, Idle, Goto, Finish, Enter, Acquire, Release
  <2>1. ASSUME NEW c \in Conns, NEW r \in RoomIds, CreateRoom(c, r)
        PROVE MutexInv'
    BY <2>1 DEF CreateRoom
  <2>2. ASSUME NEW c \in Conns, NEW r \in RoomIds, JoinCheck(c, r)
        PROVE MutexInv'
    BY <2>2 DEF JoinCheck
  <2>3. ASSUME NEW c \in Conns, NEW r \in RoomIds, LeaveCheck(c, r)
        PROVE MutexInv'
    BY <2>3 DEF LeaveCheck
  <2>4. ASSUME NEW c \in Conns, NEW r \in RoomIds, SendCheck(c, r)
        PROVE MutexInv'
    BY <2>4 DEF SendCheck
  <2>5. ASSUME NEW c \in Conns, NEW r \in RoomIds, DestroyDelete(c, r)
        PROVE MutexInv'
    BY <2>5 DEF DestroyDelete
  <2>6. ASSUME NEW c \in Conns, JoinRefused(c) PROVE MutexInv'
    BY <2>6 DEF JoinRefused
  <2>7. ASSUME NEW c \in Conns, JoinAdmit(c) PROVE MutexInv'
    BY <2>7 DEF JoinAdmit
  <2>8. ASSUME NEW c \in Conns, JoinTurn(c) PROVE MutexInv'
    BY <2>8 DEF JoinTurn
  <2>9. ASSUME NEW c \in Conns, LeaveBegin(c) PROVE MutexInv'
    BY <2>9 DEF LeaveBegin
  <2>10. ASSUME NEW c \in Conns, LeaveRetain(c) PROVE MutexInv'
    BY <2>10 DEF LeaveRetain
  <2>11. ASSUME NEW c \in Conns, LeaveTurn(c) PROVE MutexInv'
    BY <2>11 DEF LeaveTurn
  <2>12. ASSUME NEW c \in Conns, SendInsert(c) PROVE MutexInv'
    BY <2>12 DEF SendInsert
  <2>13. ASSUME NEW c \in Conns, SendRefused(c) PROVE MutexInv'
    BY <2>13 DEF SendRefused
  <2>14. ASSUME NEW c \in Conns, AdvanceRead(c) PROVE MutexInv'
    BY <2>14 DEF AdvanceRead
  <2>15. ASSUME NEW c \in Conns, AdvanceWrite(c) PROVE MutexInv'
    BY <2>15 DEF AdvanceWrite
  <2>16. ASSUME NEW c \in Conns, DestroyMembers(c) PROVE MutexInv'
    BY <2>16 DEF DestroyMembers
  <2>17. ASSUME NEW c \in Conns, DestroyTurn(c) PROVE MutexInv'
    BY <2>17 DEF DestroyTurn
  <2>18. ASSUME NEW r \in RoomIds, PruneTombstone(r) PROVE MutexInv'
    BY <2>18 DEF PruneTombstone
  <2>19. CASE UNCHANGED vars
    BY <2>19 DEF vars
  <2> QED
    BY <2>1, <2>2, <2>3, <2>4, <2>5, <2>6, <2>7, <2>8, <2>9, <2>10,
       <2>11, <2>12, <2>13, <2>14, <2>15, <2>16, <2>17, <2>18, <2>19
       DEF Next, ConnStep
<1> QED BY <1>1

(* Every step keeps what an operation inside the mutex knows of its list. *)
LEMMA LocalStep == TypeOK /\ MutexInv /\ LocalInv /\ [Next]_vars => LocalInv'
<1> USE ConnsAssumption
<1> SUFFICES ASSUME TypeOK, MutexInv, LocalInv, [Next]_vars PROVE LocalInv'
  OBVIOUS
<1>1. LocalInv'
  <2> USE DEF TypeOK, MutexInv, LocalInv, Locked, PCs, Idle, Goto, Finish, Enter, Acquire, Release
  <2>1. ASSUME NEW c \in Conns, NEW r \in RoomIds, CreateRoom(c, r)
        PROVE LocalInv'
    BY <2>1 DEF CreateRoom
  <2>2. ASSUME NEW c \in Conns, NEW r \in RoomIds, JoinCheck(c, r)
        PROVE LocalInv'
    BY <2>2 DEF JoinCheck
  <2>3. ASSUME NEW c \in Conns, NEW r \in RoomIds, LeaveCheck(c, r)
        PROVE LocalInv'
    BY <2>3 DEF LeaveCheck
  <2>4. ASSUME NEW c \in Conns, NEW r \in RoomIds, SendCheck(c, r)
        PROVE LocalInv'
    BY <2>4 DEF SendCheck
  <2>5. ASSUME NEW c \in Conns, NEW r \in RoomIds, DestroyDelete(c, r)
        PROVE LocalInv'
    BY <2>5 DEF DestroyDelete
  <2>6. ASSUME NEW c \in Conns, JoinRefused(c) PROVE LocalInv'
    BY <2>6 DEF JoinRefused
  <2>7. ASSUME NEW c \in Conns, JoinAdmit(c) PROVE LocalInv'
    <3> DEFINE s == members[room[c]]
    <3>1. Elems(Append(s, AgentOf[c])) = Elems(s) \cup {AgentOf[c]}
      BY AppendElems
    <3> QED BY <2>7, <3>1 DEF JoinAdmit, InRoom
  <2>8. ASSUME NEW c \in Conns, JoinTurn(c) PROVE LocalInv'
    BY <2>8 DEF JoinTurn
  <2>9. ASSUME NEW c \in Conns, LeaveBegin(c) PROVE LocalInv'
    BY <2>9 DEF LeaveBegin
  <2>10. ASSUME NEW c \in Conns, LeaveRetain(c) PROVE LocalInv'
    BY <2>10 DEF LeaveRetain
  <2>11. ASSUME NEW c \in Conns, LeaveTurn(c) PROVE LocalInv'
    BY <2>11 DEF LeaveTurn
  <2>12. ASSUME NEW c \in Conns, SendInsert(c) PROVE LocalInv'
    BY <2>12 DEF SendInsert
  <2>13. ASSUME NEW c \in Conns, SendRefused(c) PROVE LocalInv'
    BY <2>13 DEF SendRefused
  <2>14. ASSUME NEW c \in Conns, AdvanceRead(c) PROVE LocalInv'
    BY <2>14 DEF AdvanceRead
  <2>15. ASSUME NEW c \in Conns, AdvanceWrite(c) PROVE LocalInv'
    BY <2>15 DEF AdvanceWrite
  <2>16. ASSUME NEW c \in Conns, DestroyMembers(c) PROVE LocalInv'
    BY <2>16 DEF DestroyMembers
  <2>17. ASSUME NEW c \in Conns, DestroyTurn(c) PROVE LocalInv'
    BY <2>17 DEF DestroyTurn
  <2>18. ASSUME NEW r \in RoomIds, PruneTombstone(r) PROVE LocalInv'
    BY <2>18 DEF PruneTombstone
  <2>19. CASE UNCHANGED vars
    BY <2>19 DEF vars
  <2> QED
    BY <2>1, <2>2, <2>3, <2>4, <2>5, <2>6, <2>7, <2>8, <2>9, <2>10,
       <2>11, <2>12, <2>13, <2>14, <2>15, <2>16, <2>17, <2>18, <2>19
       DEF Next, ConnStep
<1> QED BY <1>1

(* Every step keeps members out of rooms that are gone. *)
LEMMA PhantomStep == TypeOK /\ PhantomInv /\ [Next]_vars => PhantomInv'
<1> USE ConnsAssumption
<1> SUFFICES ASSUME TypeOK, PhantomInv, [Next]_vars PROVE PhantomInv'
  OBVIOUS
<1>1. PhantomInv'
  <2> USE DEF TypeOK, PhantomInv, PCs, Idle, Goto, Finish, Enter, Acquire, Release
  <2>1. ASSUME NEW c \in Conns, NEW r \in RoomIds, CreateRoom(c, r)
        PROVE PhantomInv'
    BY <2>1 DEF CreateRoom
  <2>2. ASSUME NEW c \in Conns, NEW r \in RoomIds, JoinCheck(c, r)
        PROVE PhantomInv'
    BY <2>2 DEF JoinCheck
  <2>3. ASSUME NEW c \in Conns, NEW r \in RoomIds, LeaveCheck(c, r)
        PROVE PhantomInv'
    BY <2>3 DEF LeaveCheck
  <2>4. ASSUME NEW c \in Conns, NEW r \in RoomIds, SendCheck(c, r)
        PROVE PhantomInv'
    BY <2>4 DEF SendCheck
  <2>5. ASSUME NEW c \in Conns, NEW r \in RoomIds, DestroyDelete(c, r)
        PROVE PhantomInv'
    BY <2>5 DEF DestroyDelete
  <2>6. ASSUME NEW c \in Conns, JoinRefused(c) PROVE PhantomInv'
    BY <2>6 DEF JoinRefused
  <2>7. ASSUME NEW c \in Conns, JoinAdmit(c) PROVE PhantomInv'
    BY <2>7 DEF JoinAdmit
  <2>8. ASSUME NEW c \in Conns, JoinTurn(c) PROVE PhantomInv'
    BY <2>8 DEF JoinTurn
  <2>9. ASSUME NEW c \in Conns, LeaveBegin(c) PROVE PhantomInv'
    BY <2>9 DEF LeaveBegin
  <2>10. ASSUME NEW c \in Conns, LeaveRetain(c) PROVE PhantomInv'
    <3>1. members[room[c]] = <<>> =>
              Retain(members[room[c]], AgentOf[c]) = <<>>
      BY RetainType
    <3> QED BY <2>10, <3>1 DEF LeaveRetain
  <2>11. ASSUME NEW c \in Conns, LeaveTurn(c) PROVE PhantomInv'
    BY <2>11 DEF LeaveTurn
  <2>12. ASSUME NEW c \in Conns, SendInsert(c) PROVE PhantomInv'
    BY <2>12 DEF SendInsert
  <2>13. ASSUME NEW c \in Conns, SendRefused(c) PROVE PhantomInv'
    BY <2>13 DEF SendRefused
  <2>14. ASSUME NEW c \in Conns, AdvanceRead(c) PROVE PhantomInv'
    BY <2>14 DEF AdvanceRead
  <2>15. ASSUME NEW c \in Conns, AdvanceWrite(c) PROVE PhantomInv'
    BY <2>15 DEF AdvanceWrite
  <2>16. ASSUME NEW c \in Conns, DestroyMembers(c) PROVE PhantomInv'
    BY <2>16 DEF DestroyMembers
  <2>17. ASSUME NEW c \in Conns, DestroyTurn(c) PROVE PhantomInv'
    BY <2>17 DEF DestroyTurn
  <2>18. ASSUME NEW r \in RoomIds, PruneTombstone(r) PROVE PhantomInv'
    BY <2>18 DEF PruneTombstone
  <2>19. CASE UNCHANGED vars
    BY <2>19 DEF vars
  <2> QED
    BY <2>1, <2>2, <2>3, <2>4, <2>5, <2>6, <2>7, <2>8, <2>9, <2>10,
       <2>11, <2>12, <2>13, <2>14, <2>15, <2>16, <2>17, <2>18, <2>19
       DEF Next, ConnStep
<1> QED BY <1>1

(* What joins at the end, and was not in yet, repeats nothing. *)
LEMMA AppendDistinct ==
    ASSUME NEW S, NEW s \in Seq(S), NEW a \in S, a \notin Elems(s),
           \A i, j \in 1..Len(s) : s[i] = s[j] => i = j
    PROVE  \A i, j \in 1..Len(Append(s, a)) :
               Append(s, a)[i] = Append(s, a)[j] => i = j
<1>1. /\ Len(s) \in Nat /\ Len(Append(s, a)) = Len(s) + 1
      /\ Append(s, a)[Len(s) + 1] = a
      /\ \A i \in 1..Len(s) : Append(s, a)[i] = s[i]
  OBVIOUS
<1>2. \A i \in 1..Len(s) : s[i] # a
  BY DEF Elems
<1> DEFINE n == Len(s)
           t == Append(s, a)
<1>3. /\ n \in Nat /\ Len(t) = n + 1 /\ t[n + 1] = a /\ \A i \in 1..n : t[i] = s[i]
  BY <1>1
<1> HIDE DEF n, t
<1>4. \A i \in 1..(n + 1) : i \in 1..n \/ i = n + 1
  BY <1>3
<1>5. \A i, j \in 1..Len(t) : t[i] = t[j] => i = j
  BY <1>2, <1>3, <1>4, Zenon DEF n
<1> QED BY <1>5 DEF t

(* Every step keeps the join order free of repetitions. *)
LEMMA DistinctStep ==
    TypeOK /\ JoinOrderDistinct /\ [Next]_vars => JoinOrderDistinct'
<1> USE ConnsAssumption
<1> SUFFICES ASSUME TypeOK, JoinOrderDistinct, [Next]_vars
             PROVE JoinOrderDistinct'
  OBVIOUS
<1>1. JoinOrderDistinct'
  <2> USE DEF TypeOK, JoinOrderDistinct
  <2>1. ASSUME NEW c \in Conns, NEW r \in RoomIds, CreateRoom(c, r)
        PROVE JoinOrderDistinct'
    BY <2>1 DEF CreateRoom
  <2>2. ASSUME NEW c \in Conns, NEW r \in RoomIds, JoinCheck(c, r)
        PROVE JoinOrderDistinct'
    BY <2>2 DEF JoinCheck
  <2>3. ASSUME NEW c \in Conns, NEW r \in RoomIds, LeaveCheck(c, r)
        PROVE JoinOrderDistinct'
    BY <2>3 DEF LeaveCheck
  <2>4. ASSUME NEW c \in Conns, NEW r \in RoomIds, SendCheck(c, r)
        PROVE JoinOrderDistinct'
    BY <2>4 DEF SendCheck
  <2>5. ASSUME NEW c \in Conns, NEW r \in RoomIds, DestroyDelete(c, r)
        PROVE JoinOrderDistinct'
    BY <2>5 DEF DestroyDelete
  <2>6. ASSUME NEW c \in Conns, JoinRefused(c) PROVE JoinOrderDistinct'
    BY <2>6 DEF JoinRefused
  <2>7. ASSUME NEW c \in Conns, JoinAdmit(c) PROVE JoinOrderDistinct'
    <3> DEFINE s == members[room[c]]
               a == AgentOf[c]
    <3>1. s \in Seq(Agents) /\ a \in Agents /\ room[c] \in RoomIds
      OBVIOUS
    <3>2. a \notin Elems(s) =>
              \A i, j \in 1..Len(Append(s, a)) :
                  Append(s, a)[i] = Append(s, a)[j] => i = j
      <4>1. \A i, j \in 1..Len(s) : s[i] = s[j] => i = j
        BY <3>1
      <4> HIDE DEF s, a, TypeOK, JoinOrderDistinct
      <4> QED BY <3>1, <4>1, AppendDistinct
    <3> QED BY <2>7, <3>1, <3>2 DEF JoinAdmit, InRoom
  <2>8. ASSUME NEW c \in Conns, JoinTurn(c) PROVE JoinOrderDistinct'
    BY <2>8 DEF JoinTurn
  <2>9. ASSUME NEW c \in Conns, LeaveBegin(c) PROVE JoinOrderDistinct'
    BY <2>9 DEF LeaveBegin
  <2>10. ASSUME NEW c \in Conns, LeaveRetain(c) PROVE JoinOrderDistinct'
    <3> DEFINE s == members[room[c]]
               t == Retain(s, AgentOf[c])
    <3>1. s \in Seq(Agents) /\ AgentOf[c] \in Agents /\ room[c] \in RoomIds
      OBVIOUS
    <3>2. \A i, j \in 1..Len(s) : s[i] = s[j] => i = j
      BY <3>1
    <3>3. \A i, j \in 1..Len(t) : t[i] = t[j] => i = j
      BY <3>1, <3>2, RetainDistinct
    <3> QED BY <2>10, <3>1, <3>3 DEF LeaveRetain
  <2>11. ASSUME NEW c \in Conns, LeaveTurn(c) PROVE JoinOrderDistinct'
    BY <2>11 DEF LeaveTurn
  <2>12. ASSUME NEW c \in Conns, SendInsert(c) PROVE JoinOrderDistinct'
    BY <2>12 DEF SendInsert
  <2>13. ASSUME NEW c \in Conns, SendRefused(c) PROVE JoinOrderDistinct'
    BY <2>13 DEF SendRefused
  <2>14. ASSUME NEW c \in Conns, AdvanceRead(c) PROVE JoinOrderDistinct'
    BY <2>14 DEF AdvanceRead
  <2>15. ASSUME NEW c \in Conns, AdvanceWrite(c) PROVE JoinOrderDistinct'
    BY <2>15 DEF AdvanceWrite
  <2>16. ASSUME NEW c \in Conns, DestroyMembers(c) PROVE JoinOrderDistinct'
    BY <2>16 DEF DestroyMembers
  <2>17. ASSUME NEW c \in Conns, DestroyTurn(c) PROVE JoinOrderDistinct'
    BY <2>17 DEF DestroyTurn
  <2>18. ASSUME NEW r \in RoomIds, PruneTombstone(r) PROVE JoinOrderDistinct'
    BY <2>18 DEF PruneTombstone
  <2>19. CASE UNCHANGED vars
    BY <2>19 DEF vars
  <2> QED
    BY <2>1, <2>2, <2>3, <2>4, <2>5, <2>6, <2>7, <2>8, <2>9, <2>10,
       <2>11, <2>12, <2>13, <2>14, <2>15, <2>16, <2>17, <2>18, <2>19
       DEF Next, ConnStep
<1> QED BY <1>1

(* The inductive invariant holds. *)
THEOREM Inductive == Spec => []IInv
<1>1. Init => TypeOK /\ MutexInv /\ PhantomInv /\ LocalInv /\ JoinOrderDistinct
  BY ConnsAssumption
  DEF Init, TypeOK, MutexInv, PhantomInv, LocalInv, JoinOrderDistinct, PCs, Idle,
      Locked
<1>2. Spec => []TypeOK
  BY TypeCorrect
<1> QED
  BY <1>1, <1>2, MutexStep, PhantomStep, LocalStep, DistinctStep, PTL DEF Spec, IInv

(* An agent is listed only in rooms that exist, whatever a join raced. *)
THEOREM NoPhantoms == Spec => []NoPhantomMembership
<1>1. IInv => NoPhantomMembership
  BY ConnsAssumption
  DEF IInv, TypeOK, MutexInv, PhantomInv, NoPhantomMembership, Locked
<1> QED BY <1>1, Inductive, PTL

(* The join order lists every member once. *)
THEOREM Distinct == Spec => []JoinOrderDistinct
<1>1. IInv => JoinOrderDistinct
  BY DEF IInv
<1> QED BY <1>1, Inductive, PTL

-----------------------------------------------------------------------------
(* Joins, leaves, destruction and undisturbed sends keep the token with a  *)
(* member; only the unlocked write of an advance that a membership change  *)
(* overlapped can strand it.                                               *)
THEOREM TokenStep == Spec => OnlyRacedAdvanceStrandsToken
<1> USE ConnsAssumption
<1>1. ASSUME IInv, Next, NEW r \in RoomIds, TokenSound(r)
      PROVE  TokenSound(r)' \/ RacedAdvance(r)
  <2> DEFINE Keeps == TokenSound(r)' \/ RacedAdvance(r)
  <2> USE <1>1 DEF IInv, TypeOK, MutexInv, LocalInv, JoinOrderDistinct, PCs, Idle, Locked,
          Goto, Finish, Enter, Acquire, Release, TokenSound, Inside, InRoom
  <2>1. ASSUME NEW c \in Conns, NEW q \in RoomIds, CreateRoom(c, q)
        PROVE Keeps
    BY <2>1 DEF CreateRoom
  <2>2. ASSUME NEW c \in Conns, NEW q \in RoomIds, JoinCheck(c, q)
        PROVE Keeps
    BY <2>2 DEF JoinCheck
  <2>3. ASSUME NEW c \in Conns, NEW q \in RoomIds, LeaveCheck(c, q)
        PROVE Keeps
    BY <2>3 DEF LeaveCheck
  <2>4. ASSUME NEW c \in Conns, NEW q \in RoomIds, SendCheck(c, q)
        PROVE Keeps
    BY <2>4 DEF SendCheck
  <2>5. ASSUME NEW c \in Conns, NEW q \in RoomIds, DestroyDelete(c, q)
        PROVE Keeps
    BY <2>5 DEF DestroyDelete
  <2>6. ASSUME NEW c \in Conns, JoinRefused(c) PROVE Keeps
    BY <2>6 DEF JoinRefused
  <2>7. ASSUME NEW c \in Conns, JoinAdmit(c) PROVE Keeps
    <3> DEFINE s == members[room[c]]
    <3>1. Elems(Append(s, AgentOf[c])) = Elems(s) \cup {AgentOf[c]}
      BY AppendElems
    <3>2. /\ \A p \in PCs : Inside(r, p) = {}
          /\ holder' = holder /\ lifecycle' = c /\ room' = room
          /\ pc'[c] = "join_turn"
      BY <2>7 DEF JoinAdmit
    <3>3. /\ holder[r] \in Elems(members[r]) \/ holder[r] = NoAgent
          /\ holder[r] = NoAgent => members[r] = <<>> \/ holder[r] \in Elems(members[r])
      BY <3>2
    <3>4. CASE r # room[c]
      <4>1. members'[r] = members[r]
        BY <2>7, <3>4 DEF JoinAdmit
      <4>2. Inside(r, "leave_retain")' = {}
        BY <3>2, <3>4
      <4> QED BY <3>2, <3>3, <4>1, <4>2
    <3>5. CASE r = room[c]
      <4>1. Elems(members[r]) \subseteq Elems(members'[r])
        BY <2>7, <3>1, <3>5 DEF JoinAdmit
      <4>2. c \in Inside(r, "join_turn")' /\ Inside(r, "leave_retain")' = {}
        BY <3>2, <3>5
      <4> QED BY <3>2, <3>3, <4>1, <4>2
    <3> QED BY <3>4, <3>5
  <2>8. ASSUME NEW c \in Conns, JoinTurn(c) PROVE Keeps
    BY <2>8 DEF JoinTurn
  <2>9. ASSUME NEW c \in Conns, LeaveBegin(c) PROVE Keeps
    <3>1. /\ \A p \in PCs : Inside(r, p) = {}
          /\ holder' = holder /\ members' = members
          /\ lifecycle' = c /\ room' = room
      BY <2>9 DEF LeaveBegin
    <3>2. \/ holder[r] \in Elems(members[r])
          \/ holder[r] = NoAgent /\ members[r] = <<>>
      BY <3>1
    <3>3. wasHolder'[c] <=> holder[room[c]] = AgentOf[c]
      BY <2>9, Zenon DEF LeaveBegin
    <3>4. \A d \in Inside(r, "leave_retain")' : d = c /\ r = room[c]
      BY <3>1
    <3>5. \A d \in Inside(r, "leave_retain")' :
              holder'[r] = AgentOf[d] => wasHolder'[d]
      BY <3>1, <3>3, <3>4
    <3> QED BY <3>1, <3>2, <3>5
  <2>10. ASSUME NEW c \in Conns, LeaveRetain(c) PROVE Keeps
    <3> DEFINE s == members[room[c]]
    <3>1. /\ Elems(Retain(s, AgentOf[c])) = Elems(s) \ {AgentOf[c]}
          /\ s = <<>> => Retain(s, AgentOf[c]) = <<>>
      BY RetainDistinct, RetainType
    <3> QED BY <2>10, <3>1 DEF LeaveRetain
  <2>11. ASSUME NEW c \in Conns, LeaveTurn(c) PROVE Keeps
    <3>1. /\ Inside(r, "leave_retain")' = {}
          /\ members' = members
          /\ lifecycle = c /\ pc[c] = "leave_turn"
      BY <2>11 DEF LeaveTurn
    <3>2. members[r] # <<>> => members[r][1] \in Elems(members[r])
      BY DEF Elems
    <3>3. CASE r = room[c] /\ wasHolder[c]
      <4>1. holder'[r] = IF members[r] = <<>> THEN NoAgent ELSE members[r][1]
        BY <2>11, <3>3 DEF LeaveTurn
      <4> QED BY <3>1, <3>2, <4>1
    <3>4. CASE ~(r = room[c] /\ wasHolder[c])
      <4>1. holder'[r] = holder[r]
        BY <2>11, <3>4 DEF LeaveTurn
      <4>2. \/ holder[r] \in Elems(members[r])
            \/ holder[r] = NoAgent /\ members[r] = <<>>
        BY <3>1, <3>4
      <4> QED BY <3>1, <4>1, <4>2
    <3> QED BY <3>3, <3>4
  <2>12. ASSUME NEW c \in Conns, SendInsert(c) PROVE Keeps
    BY <2>12 DEF SendInsert
  <2>13. ASSUME NEW c \in Conns, SendRefused(c) PROVE Keeps
    BY <2>13 DEF SendRefused
  <2>14. ASSUME NEW c \in Conns, AdvanceRead(c) PROVE Keeps
    BY <2>14 DEF AdvanceRead
  <2>15. ASSUME NEW c \in Conns, AdvanceWrite(c) PROVE Keeps
    <3>1. snapshot[c] # <<>> => NextAfter(snapshot[c], AgentOf[c]) \in Elems(snapshot[c])
      BY NextAfterMember
    <3> QED BY <2>15, <3>1 DEF AdvanceWrite, RacedAdvance
  <2>16. ASSUME NEW c \in Conns, DestroyMembers(c) PROVE Keeps
    BY <2>16 DEF DestroyMembers
  <2>17. ASSUME NEW c \in Conns, DestroyTurn(c) PROVE Keeps
    BY <2>17 DEF DestroyTurn
  <2>18. ASSUME NEW q \in RoomIds, PruneTombstone(q) PROVE Keeps
    BY <2>18 DEF PruneTombstone
  <2> QED
    BY <2>1, <2>2, <2>3, <2>4, <2>5, <2>6, <2>7, <2>8, <2>9, <2>10,
       <2>11, <2>12, <2>13, <2>14, <2>15, <2>16, <2>17, <2>18
       DEF Next, ConnStep
<1>2. IInv /\ [Next]_vars =>
          [\A r \in RoomIds : TokenSound(r) => TokenSound(r)' \/ RacedAdvance(r)]_vars
  BY <1>1
<1> QED BY <1>2, Inductive, PTL DEF Spec, OnlyRacedAdvanceStrandsToken

-----------------------------------------------------------------------------
(* Registration. *)

(* Connections whose session is installed. *)
Installed == Points \ {"new", "limit", "claim", "decide", "add", "install"}

(* The variables, one by one. *)
FieldTypes ==
    /\ usage \in [Keys -> [agents : Counters, rooms : Counters] \cup {NoUsage}]
    /\ owner \in [Ids -> Keys \cup {None}]
    /\ owned \in [Keys -> 0..MaxOwned]
    /\ live \in [AllIds -> Sockets \cup {None}]
    /\ stash \in [AllIds -> Stashes \cup {NoStash}]
    /\ lock \in Sockets \cup {None} /\ mutation \in Sockets \cup {None}
    /\ at \in [Sockets -> Points]
    /\ key \in [Sockets -> Keys \cup {NoKey}] /\ id \in [Sockets -> AllIds]
    /\ again \in [Sockets -> BOOLEAN] /\ failed \in [Sockets -> BOOLEAN]
    /\ missed \in [Sockets -> BOOLEAN]
    /\ replaced \subseteq Keys /\ passed \subseteq Sockets
    /\ restarts \in 0..MaxRestarts

(* What a connection's program point says about its own locals. *)
Frame(c) ==
    /\ id[c] \in Ids \cup {c}
    /\ missed[c] => at[c] \in Look /\ key[c] \in Keys
    /\ at[c] \in Look \cup Mutating \cup {"insert"} => key[c] \in Keys \/ at[c] = "add"
    /\ at[c] = "claim" => key[c] \in Keys /\ id[c] \in Ids
    /\ at[c] \in {"remove", "sub"} => key[c] \in Keys
    /\ failed[c] => at[c] \in {"unregister", "remove", "sub"}
    /\ at[c] = "unregister" => failed[c]

FrameInv == \A c \in Sockets : Frame(c)

(* The two mutexes are held exactly where the code holds them. *)
LocksInv ==
    \A c \in Sockets : /\ lock = c <=> at[c] \in {"add", "install"}
                       /\ mutation = c <=> at[c] \in Mutating

(* A claimed stash is that of the claimer's id and key, until the claimer  *)
(* has its acknowledgement out or has given the claim up.                  *)
ClaimInv ==
    \A i \in AllIds : \A c \in Sockets : stash[i].by = c =>
        /\ id[c] = i /\ key[c] = stash[i].key
        /\ at[c] \in {"add", "install", "write", "unregister", "remove", "sub"}
        /\ at[c] \in {"remove", "sub"} => failed[c]

(* From its check on, a connection's key has counters. *)
HasUsage ==
    \A c \in Sockets :
        key[c] \in Keys /\ at[c] \notin {"new", "limit"} => usage[key[c]] # NoUsage

LEMMA TypeOKParts ==
    FieldTypes /\ FrameInv /\ LocksInv /\ ClaimInv => RegistrationTypeOK
BY DEF FieldTypes, FrameInv, Frame, LocksInv, ClaimInv, RegistrationTypeOK

(* Setting one counter of a key that has counters. *)
LEMMA SetAgents ==
    ASSUME FieldTypes, NEW k \in Keys, NEW n \in Counters, usage[k] # NoUsage,
           usage' = [usage EXCEPT ![k].agents = n]
    PROVE  /\ usage' \in [Keys -> [agents : Counters, rooms : Counters] \cup {NoUsage}]
           /\ usage'[k].agents = n /\ usage'[k].rooms = usage[k].rooms
           /\ usage'[k] # NoUsage
           /\ \A j \in Keys \ {k} : usage'[j] = usage[j]
<1>1. usage[k] \in [agents : Counters, rooms : Counters]
  BY DEF FieldTypes
<1>2. usage'[k] = [usage[k] EXCEPT !.agents = n] /\ \A j \in Keys \ {k} : usage'[j] = usage[j]
  BY DEF FieldTypes
<1>3. /\ usage'[k] \in [agents : Counters, rooms : Counters]
      /\ usage'[k].agents = n /\ usage'[k].rooms = usage[k].rooms
  BY <1>1, <1>2
<1>4. n # -1
  BY RegistrationAssumption DEF Counters
<1>5. usage'[k] # NoUsage
  BY <1>3, <1>4 DEF NoUsage
<1>6. DOMAIN usage' = Keys
  BY DEF FieldTypes
<1>7. usage' \in [Keys -> [agents : Counters, rooms : Counters] \cup {NoUsage}]
  <2>1. \A j \in Keys : usage'[j] \in [agents : Counters, rooms : Counters] \cup {NoUsage}
    BY <1>2, <1>3 DEF FieldTypes
  <2>2. usage' = [j \in Keys |-> usage'[j]]
    BY DEF FieldTypes
  <2> QED BY <2>1, <2>2
<1> QED BY <1>2, <1>3, <1>5, <1>7

LEMMA SetRooms ==
    ASSUME FieldTypes, NEW k \in Keys, NEW n \in Counters, usage[k] # NoUsage,
           usage' = [usage EXCEPT ![k].rooms = n]
    PROVE  /\ usage' \in [Keys -> [agents : Counters, rooms : Counters] \cup {NoUsage}]
           /\ usage'[k].agents = usage[k].agents /\ usage'[k].rooms = n
           /\ usage'[k] # NoUsage
           /\ \A j \in Keys \ {k} : usage'[j] = usage[j]
<1>1. usage[k] \in [agents : Counters, rooms : Counters]
  BY DEF FieldTypes
<1>2. usage'[k] = [usage[k] EXCEPT !.rooms = n] /\ \A j \in Keys \ {k} : usage'[j] = usage[j]
  BY DEF FieldTypes
<1>3. /\ usage'[k] \in [agents : Counters, rooms : Counters]
      /\ usage'[k].agents = usage[k].agents /\ usage'[k].rooms = n
  BY <1>1, <1>2
<1>4. n # -1
  BY RegistrationAssumption DEF Counters
<1>5. usage'[k] # NoUsage
  BY <1>3, <1>4 DEF NoUsage
<1>7. usage' \in [Keys -> [agents : Counters, rooms : Counters] \cup {NoUsage}]
  <2>1. \A j \in Keys : usage'[j] \in [agents : Counters, rooms : Counters] \cup {NoUsage}
    BY <1>2, <1>3 DEF FieldTypes
  <2>2. usage' = [j \in Keys |-> usage'[j]]
    BY DEF FieldTypes
  <2> QED BY <2>1, <2>2
<1> QED BY <1>2, <1>3, <1>5, <1>7

(* An unsigned counter stays in its width, and its arithmetic is exact     *)
(* unless it wraps.                                                        *)
LEMMA Unsigned ==
    ASSUME NEW n \in Int
    PROVE  /\ n % Wide \in Counters /\ 0 \in Counters
           /\ n \in 0..(Wide - 1) => n % Wide = n
<1>1. Wide \in Nat /\ Wide > 0
  <2>1. Cardinality(Sockets) \in Nat
    BY FS_CardinalityType, RegistrationAssumption
  <2> QED BY <2>1, RegistrationAssumption
<1> QED BY <1>1 DEF Counters

(* What the end of a registration does to the connection. *)
LEMMA CloseTypes ==
    ASSUME FieldTypes, NEW c \in Sockets, Close(c)
    PROVE  /\ at' \in [Sockets -> Points]
           /\ key' \in [Sockets -> Keys \cup {NoKey}] /\ id' \in [Sockets -> AllIds]
           /\ again' \in [Sockets -> BOOLEAN] /\ failed' \in [Sockets -> BOOLEAN]
           /\ missed' \in [Sockets -> BOOLEAN]
BY DEF FieldTypes, Close, Proceed, Points, AllIds

LEMMA ProceedTypes ==
    ASSUME FieldTypes, NEW c \in Sockets, NEW p \in Points, Proceed(c, p)
    PROVE  at' \in [Sockets -> Points]
BY DEF FieldTypes, Proceed

(* Giving a claim up leaves the stash to others. *)
LEMMA UnclaimTypes ==
    ASSUME FieldTypes, NEW c \in Sockets, Unclaim(c)
    PROVE  stash' \in [AllIds -> Stashes \cup {NoStash}]
<1>1. id[c] \in AllIds /\ c # None
  BY RegistrationAssumption DEF FieldTypes
<1>2. CASE stash[id[c]].by = c
  <2>1. stash[id[c]] \in Stashes
    BY <1>1, <1>2 DEF FieldTypes, NoStash
  <2>2. [stash[id[c]] EXCEPT !.by = None] \in Stashes
    BY <2>1 DEF Stashes
  <2>3. stash' = [stash EXCEPT ![id[c]] = [stash[id[c]] EXCEPT !.by = None]]
    BY <1>2 DEF Unclaim
  <2> QED BY <1>1, <2>2, <2>3 DEF FieldTypes
<1>3. CASE stash[id[c]].by # c
  BY <1>3 DEF Unclaim, FieldTypes
<1> QED BY <1>2, <1>3

LEMMA FieldTypesStep ==
    ASSUME FieldTypes, FrameInv, HasUsage, [RegistrationNext]_rvars
    PROVE  FieldTypes'
<1> USE DEF locks, conn, SameTask, SameStore
<1>0. /\ \A p \in {"new", "limit", "add", "roomlimit", "addroom", "claim", "decide", "install",
                   "write", "ready", "insert", "unroom", "subroom", "unregister", "remove",
                   "sub", "cleanup"} : p \in Points
      /\ NoUsage \in [agents : Counters, rooms : Counters] \cup {NoUsage}
  BY DEF Points, Look
<1>1. ASSUME NEW c \in Sockets, NEW k \in Keys \cup {NoKey}, NEW i \in Ids \cup {c},
             Register(c, k, i)
      PROVE  FieldTypes'
  <2>1. at' \in [Sockets -> Points]
    BY <1>0, <1>1, ProceedTypes DEF Register
  <2>2. /\ key' \in [Sockets -> Keys \cup {NoKey}] /\ id' \in [Sockets -> AllIds]
        /\ again' \in [Sockets -> BOOLEAN]
    BY <1>1 DEF Register, FieldTypes, AllIds
  <2> QED BY <1>1, <2>1, <2>2 DEF Register, FieldTypes
<1>2. ASSUME NEW c \in Sockets, LookUp(c) PROVE FieldTypes'
  BY <1>2 DEF LookUp, FieldTypes
<1>3. ASSUME NEW c \in Sockets, InsertNew(c) PROVE FieldTypes'
  <2>1. Fresh \in [agents : Counters, rooms : Counters]
    <3>1. 0 \in Counters
      BY Unsigned, 0 \in Int
    <3> QED BY <3>1 DEF Fresh
  <2>2. usage' \in [Keys -> [agents : Counters, rooms : Counters] \cup {NoUsage}]
    BY <1>3, <2>1 DEF InsertNew, FieldTypes
  <2>3. replaced' \subseteq Keys
    <3>1. missed[c] => key[c] \in Keys
      BY DEF FrameInv, Frame
    <3> QED BY <1>3, <3>1 DEF InsertNew, FieldTypes
  <2> QED BY <1>3, <2>2, <2>3 DEF InsertNew, FieldTypes
<1>4. ASSUME NEW c \in Sockets, LimitRefused(c) PROVE FieldTypes'
  BY <1>4, CloseTypes DEF LimitRefused, FieldTypes
<1>5. ASSUME NEW c \in Sockets,
             \/ LimitPassed(c) \/ AddKeyless(c) \/ RequestRoom(c) \/ RoomLimit(c)
             \/ Disconnect(c)
      PROVE  FieldTypes'
  <2>1. at' \in [Sockets -> Points]
    BY <1>0, <1>5, ProceedTypes DEF LimitPassed, AddKeyless, RequestRoom, RoomLimit, Disconnect
  <2>2. UNCHANGED <<usage, owner, owned, live, stash, locks, key, id, again, failed, missed,
                    replaced, passed, restarts>>
    BY <1>5 DEF LimitPassed, AddKeyless, RequestRoom, RoomLimit, Disconnect
  <2> QED BY <2>1, <2>2 DEF FieldTypes
<1>6. ASSUME NEW c \in Sockets, Claim(c) PROVE FieldTypes'
  <2>1. key[c] \in Keys /\ id[c] \in Ids
    BY <1>6 DEF Claim, FrameInv, Frame
  <2>2. owner' \in [Ids -> Keys \cup {None}]
    BY <1>6, <2>1 DEF Claim, FieldTypes
  <2>3. /\ at' \in [Sockets -> Points]
        /\ key' \in [Sockets -> Keys \cup {NoKey}] /\ id' \in [Sockets -> AllIds]
        /\ again' \in [Sockets -> BOOLEAN] /\ failed' \in [Sockets -> BOOLEAN]
        /\ missed' \in [Sockets -> BOOLEAN]
    <3>1. CASE Close(c)
      BY <3>1, CloseTypes
    <3>2. CASE Proceed(c, "decide") /\ SameTask
      BY <1>0, <3>2, ProceedTypes DEF FieldTypes
    <3> QED BY <1>6, <3>1, <3>2 DEF Claim
  <2>4. passed' \subseteq passed
    BY <1>6 DEF Claim
  <2> QED BY <1>6, <2>2, <2>3, <2>4 DEF Claim, FieldTypes
<1>7. ASSUME NEW c \in Sockets, Decide(c) PROVE FieldTypes'
  <2>1. /\ at' \in [Sockets -> Points]
        /\ key' \in [Sockets -> Keys \cup {NoKey}] /\ id' \in [Sockets -> AllIds]
        /\ again' \in [Sockets -> BOOLEAN] /\ failed' \in [Sockets -> BOOLEAN]
        /\ missed' \in [Sockets -> BOOLEAN]
    <3>1. CASE Close(c)
      BY <3>1, CloseTypes
    <3>2. CASE Proceed(c, "add") /\ SameTask
      BY <1>0, <3>2, ProceedTypes DEF FieldTypes
    <3> QED BY <1>7, <3>1, <3>2 DEF Decide
  <2>2. /\ UNCHANGED <<usage, owner, owned, live, mutation, replaced, restarts>>
        /\ passed' \subseteq passed /\ lock' \in {lock, c}
        /\ \/ stash' = stash
           \/ stash' = [stash EXCEPT ![id[c]].by = c] /\ stash[id[c]] # NoStash
    BY <1>7 DEF Decide
  <2>3. stash' \in [AllIds -> Stashes \cup {NoStash}]
    <3>1. CASE stash' = stash
      BY <3>1 DEF FieldTypes
    <3>2. CASE stash' = [stash EXCEPT ![id[c]].by = c] /\ stash[id[c]] # NoStash
      <4>1. id[c] \in AllIds /\ stash[id[c]] \in Stashes
        BY <3>2 DEF FieldTypes
      <4>2. [stash[id[c]] EXCEPT !.by = c] \in Stashes
        BY <4>1 DEF Stashes
      <4>3. stash' = [stash EXCEPT ![id[c]] = [stash[id[c]] EXCEPT !.by = c]]
        BY <3>2
      <4> QED BY <4>1, <4>2, <4>3 DEF FieldTypes
    <3> QED BY <2>2, <3>1, <3>2
  <2> QED BY <2>1, <2>2, <2>3 DEF FieldTypes
<1>8. ASSUME NEW c \in Sockets, AddAgent(c) PROVE FieldTypes'
  <2>1. (usage[key[c]].agents + 1) % Wide \in Counters
    <3>1. key[c] \in Keys /\ usage[key[c]] # NoUsage
      BY <1>8 DEF AddAgent, Found
    <3>2. usage[key[c]].agents \in Int
      BY <3>1, RegistrationAssumption DEF FieldTypes, Counters
    <3> QED BY <3>2, Unsigned
  <2>2. usage' \in [Keys -> [agents : Counters, rooms : Counters] \cup {NoUsage}]
    BY <1>8, <2>1, SetAgents DEF AddAgent, Found
  <2>3. at' \in [Sockets -> Points] /\ passed' \subseteq Sockets
    BY <1>0, <1>8, ProceedTypes DEF AddAgent, Overtakes, FieldTypes
  <2> QED BY <1>8, <2>2, <2>3 DEF AddAgent, FieldTypes
<1>9. ASSUME NEW c \in Sockets, Install(c) PROVE FieldTypes'
  <2>1. at' \in [Sockets -> Points]
    BY <1>0, <1>9, ProceedTypes DEF Install
  <2> QED BY <1>9, <2>1 DEF Install, FieldTypes
<1>10. ASSUME NEW c \in Sockets, Written(c) PROVE FieldTypes'
  <2>1. at' \in [Sockets -> Points]
    BY <1>0, <1>10, ProceedTypes DEF Written
  <2>2. failed' \in [Sockets -> BOOLEAN] /\ stash' \in [AllIds -> Stashes \cup {NoStash}]
    BY <1>10 DEF Written, FieldTypes
  <2> QED BY <1>10, <2>1, <2>2 DEF Written, FieldTypes
<1>11. ASSUME NEW i \in Ids, Expire(i) PROVE FieldTypes'
  BY <1>11 DEF Expire, FieldTypes
<1>12. ASSUME NEW c \in Sockets, InsertRoom(c) PROVE FieldTypes'
  <2>1. at' \in [Sockets -> Points]
    BY <1>0, <1>12, ProceedTypes DEF InsertRoom
  <2>2. owned' \in [Keys -> 0..MaxOwned]
    BY <1>12, RegistrationAssumption DEF InsertRoom, FieldTypes
  <2> QED BY <1>12, <2>1, <2>2 DEF InsertRoom, FieldTypes
<1>13. ASSUME NEW c \in Sockets, AddRoom(c) PROVE FieldTypes'
  <2>0. key[c] \in Keys /\ usage[key[c]] # NoUsage
    BY <1>13 DEF AddRoom, Found, FrameInv, Frame, Look
  <2>1. (usage[key[c]].rooms + 1) % Wide \in Counters
    <3>1. usage[key[c]].rooms \in Int
      BY <2>0, RegistrationAssumption DEF FieldTypes, Counters
    <3> QED BY <3>1, Unsigned
  <2>2. usage' \in [Keys -> [agents : Counters, rooms : Counters] \cup {NoUsage}]
    BY <1>13, <2>0, <2>1, SetRooms DEF AddRoom
  <2>3. at' \in [Sockets -> Points] /\ passed' \subseteq Sockets
    BY <1>0, <1>13, ProceedTypes DEF AddRoom, Overtakes, FieldTypes
  <2> QED BY <1>13, <2>2, <2>3 DEF AddRoom, FieldTypes
<1>14. ASSUME NEW c \in Sockets, DestroyRoom(c) PROVE FieldTypes'
  <2>1. at' \in [Sockets -> Points]
    BY <1>0, <1>14, ProceedTypes DEF DestroyRoom
  <2>2. owned' \in [Keys -> 0..MaxOwned]
    BY <1>14, RegistrationAssumption DEF DestroyRoom, FieldTypes
  <2> QED BY <1>14, <2>1, <2>2 DEF DestroyRoom, FieldTypes
<1>15. ASSUME NEW c \in Sockets, RemoveRoom(c) PROVE FieldTypes'
  <2>1. at' \in [Sockets -> Points]
    BY <1>0, <1>15, ProceedTypes DEF RemoveRoom
  <2> QED BY <1>15, <2>1 DEF RemoveRoom, FieldTypes
<1>16. ASSUME NEW c \in Sockets, SubRoom(c) PROVE FieldTypes'
  <2>0. key[c] \in Keys /\ usage[key[c]] # NoUsage
    BY <1>16 DEF SubRoom, FrameInv, Frame, HasUsage, Mutating
  <2>1. (usage[key[c]].rooms - 1) % Wide \in Counters
    <3>1. usage[key[c]].rooms - 1 \in Int
      BY <2>0, RegistrationAssumption DEF FieldTypes, Counters
    <3> QED BY <3>1, Unsigned
  <2>2. usage' \in [Keys -> [agents : Counters, rooms : Counters] \cup {NoUsage}]
    BY <1>16, <2>0, <2>1, SetRooms DEF SubRoom
  <2>3. at' \in [Sockets -> Points]
    BY <1>0, <1>16, ProceedTypes DEF SubRoom
  <2> QED BY <1>16, <2>2, <2>3 DEF SubRoom, FieldTypes
<1>17. ASSUME NEW c \in Sockets, Leave(c) PROVE live' \in [AllIds -> Sockets \cup {None}]
  BY <1>17 DEF Leave, FieldTypes
<1>18. ASSUME NEW c \in Sockets, Unregister(c) PROVE FieldTypes'
  <2>1. /\ UNCHANGED <<usage, owner, owned, locks, replaced, passed, restarts>> /\ Leave(c)
        /\ \/ Proceed(c, "remove") /\ SameTask /\ UNCHANGED stash
           \/ Close(c) /\ Unclaim(c)
    BY <1>18 DEF Unregister
  <2>2. CASE Proceed(c, "remove") /\ SameTask /\ UNCHANGED stash
    BY <1>0, <1>17, <2>1, <2>2, ProceedTypes DEF FieldTypes
  <2>3. CASE Close(c) /\ Unclaim(c)
    BY <1>17, <2>1, <2>3, CloseTypes, UnclaimTypes DEF FieldTypes
  <2> QED BY <2>1, <2>2, <2>3
<1>19. ASSUME NEW c \in Sockets,
              usage' \in [Keys -> [agents : Counters, rooms : Counters] \cup {NoUsage}],
              UNCHANGED <<owner, owned, live, locks, replaced, passed, restarts>>,
              \/ Proceed(c, "sub") /\ SameTask /\ UNCHANGED stash
              \/ AfterRemove(c)
       PROVE  FieldTypes'
  <2>1. CASE SameTask /\ UNCHANGED stash /\ (Proceed(c, "sub") \/ Proceed(c, "cleanup"))
    <3>1. at' \in [Sockets -> Points]
      BY <1>0, <2>1, ProceedTypes
    <3> QED BY <1>19, <2>1, <3>1 DEF FieldTypes
  <2>2. CASE Close(c) /\ Unclaim(c)
    BY <1>19, <2>2, CloseTypes, UnclaimTypes DEF FieldTypes
  <2> QED BY <1>19, <2>1, <2>2 DEF AfterRemove
<1>20. ASSUME NEW c \in Sockets, RemoveAgent(c) PROVE FieldTypes'
  BY <1>19, <1>20 DEF RemoveAgent, FieldTypes
<1>21. ASSUME NEW c \in Sockets, SubAgent(c) PROVE FieldTypes'
  <2>0. key[c] \in Keys /\ usage[key[c]] # NoUsage
    BY <1>21 DEF SubAgent, FrameInv, Frame, HasUsage
  <2>1. (usage[key[c]].agents - 1) % Wide \in Counters
    <3>1. usage[key[c]].agents - 1 \in Int
      BY <2>0, RegistrationAssumption DEF FieldTypes, Counters
    <3> QED BY <3>1, Unsigned
  <2>2. usage' \in [Keys -> [agents : Counters, rooms : Counters] \cup {NoUsage}]
    BY <1>21, <2>0, <2>1, SetAgents DEF SubAgent
  <2> QED BY <1>19, <1>21, <2>2 DEF SubAgent
<1>22. ASSUME NEW c \in Sockets, Cleanup(c) PROVE FieldTypes'
  <2>1. stash' \in [AllIds -> Stashes \cup {NoStash}]
    <3>1. [key |-> key[c], by |-> None] \in Stashes
      BY DEF Stashes, FieldTypes
    <3> QED BY <1>22, <3>1 DEF Cleanup, FieldTypes
  <2> QED BY <1>17, <1>22, <2>1, CloseTypes DEF Cleanup, FieldTypes
<1>23. CASE Restart
  <2>1. at' \in [Sockets -> Points]
    BY <1>0, <1>23 DEF Restart
  <2>2. /\ usage' \in [Keys -> [agents : Counters, rooms : Counters] \cup {NoUsage}]
        /\ live' \in [AllIds -> Sockets \cup {None}]
        /\ stash' \in [AllIds -> Stashes \cup {NoStash}]
        /\ lock' \in Sockets \cup {None} /\ mutation' \in Sockets \cup {None}
    BY <1>23 DEF Restart
  <2>3. /\ key' \in [Sockets -> Keys \cup {NoKey}] /\ id' \in [Sockets -> AllIds]
        /\ again' \in [Sockets -> BOOLEAN] /\ failed' \in [Sockets -> BOOLEAN]
        /\ missed' \in [Sockets -> BOOLEAN]
        /\ replaced' \subseteq Keys /\ passed' \subseteq Sockets
    BY <1>23 DEF Restart, AllIds
  <2>4. restarts' \in 0..MaxRestarts /\ owner' = owner /\ owned' = owned
    BY <1>23, RegistrationAssumption DEF Restart, FieldTypes
  <2> QED BY <2>1, <2>2, <2>3, <2>4 DEF FieldTypes
<1>24. CASE UNCHANGED rvars
  BY <1>24 DEF rvars, FieldTypes
<1> QED
  BY <1>1, <1>2, <1>3, <1>4, <1>5, <1>6, <1>7, <1>8, <1>9, <1>10, <1>11, <1>12, <1>13, <1>14,
     <1>15, <1>16, <1>18, <1>20, <1>21, <1>22, <1>23, <1>24
  DEF RegistrationNext

(* The steps of one connection. *)
SocketStep(c) ==
    \/ \E k \in Keys \cup {NoKey}, i \in Ids \cup {c} : Register(c, k, i)
    \/ LookUp(c) \/ InsertNew(c)
    \/ LimitRefused(c) \/ LimitPassed(c) \/ Claim(c) \/ Decide(c)
    \/ AddAgent(c) \/ AddKeyless(c) \/ Install(c) \/ Written(c)
    \/ RequestRoom(c) \/ RoomLimit(c) \/ InsertRoom(c) \/ AddRoom(c)
    \/ DestroyRoom(c) \/ RemoveRoom(c) \/ SubRoom(c)
    \/ Disconnect(c) \/ Unregister(c) \/ RemoveAgent(c) \/ SubAgent(c)
    \/ Cleanup(c)

LEMMA WhoSteps ==
    ASSUME [RegistrationNext]_rvars
    PROVE  \/ \E c \in Sockets : SocketStep(c)
           \/ \E i \in Ids : Expire(i)
           \/ Restart \/ UNCHANGED rvars
BY DEF RegistrationNext, SocketStep

SameFrame(d) ==
    /\ at'[d] = at[d] /\ key'[d] = key[d] /\ id'[d] = id[d]
    /\ failed'[d] = failed[d] /\ missed'[d] = missed[d]

(* A connection's locals are its own. *)
LEMMA OthersKeepTheirFrame ==
    ASSUME FieldTypes, NEW c \in Sockets, SocketStep(c), NEW d \in Sockets \ {c}
    PROVE  SameFrame(d)
<1> USE DEF FieldTypes, SameFrame, Proceed, SameTask, locks
<1>1. ASSUME NEW k, NEW i, Register(c, k, i) PROVE SameFrame(d)
  BY <1>1 DEF Register
<1>2. ASSUME LookUp(c) \/ InsertNew(c) PROVE SameFrame(d)
  BY <1>2 DEF LookUp, InsertNew
<1>3. ASSUME Close(c) PROVE SameFrame(d)
  BY <1>3 DEF Close
<1>4. ASSUME NEW p, Proceed(c, p), SameTask PROVE SameFrame(d)
  BY <1>4
<1>5. ASSUME Written(c) PROVE SameFrame(d)
  BY <1>5 DEF Written
<1>6. ASSUME \/ LimitRefused(c) \/ LimitPassed(c) \/ Claim(c) \/ Decide(c)
             \/ AddAgent(c) \/ AddKeyless(c) \/ Install(c)
      PROVE  SameFrame(d)
  BY <1>3, <1>4, <1>6 DEF LimitRefused, LimitPassed, Claim, Decide, AddAgent, AddKeyless, Install
<1>7. ASSUME \/ RequestRoom(c) \/ RoomLimit(c) \/ InsertRoom(c) \/ AddRoom(c)
             \/ DestroyRoom(c) \/ RemoveRoom(c) \/ SubRoom(c)
      PROVE  SameFrame(d)
  BY <1>4, <1>7 DEF RequestRoom, RoomLimit, InsertRoom, AddRoom, DestroyRoom, RemoveRoom,
     SubRoom
<1>8. ASSUME \/ Disconnect(c) \/ Unregister(c) \/ RemoveAgent(c) \/ SubAgent(c)
             \/ Cleanup(c)
      PROVE  SameFrame(d)
  BY <1>3, <1>4, <1>8 DEF Disconnect, Unregister, RemoveAgent, SubAgent, Cleanup, AfterRemove
<1> QED BY <1>1, <1>2, <1>5, <1>6, <1>7, <1>8 DEF SocketStep

(* Where a step takes its own connection. *)
LEMMA OwnFrame ==
    ASSUME FieldTypes, NEW c \in Sockets, SocketStep(c), Frame(c)
    PROVE  Frame(c)'
<1> USE DEF FieldTypes, Frame, Proceed, SameTask, Look, Mutating
<1>1. ASSUME NEW k \in Keys \cup {NoKey}, NEW i \in Ids \cup {c}, Register(c, k, i)
      PROVE  Frame(c)'
  BY <1>1 DEF Register
<1>2. ASSUME LookUp(c) \/ InsertNew(c) PROVE Frame(c)'
  BY <1>2 DEF LookUp, InsertNew
<1>3. ASSUME Close(c), ~missed[c] PROVE Frame(c)'
  BY <1>3 DEF Close
<1>4. ASSUME LimitRefused(c) \/ LimitPassed(c) PROVE Frame(c)'
  BY <1>3, <1>4 DEF LimitRefused, LimitPassed, Found
<1>5. ASSUME Claim(c) \/ Decide(c) PROVE Frame(c)'
  BY <1>3, <1>5 DEF Claim, Decide
<1>6. ASSUME \/ AddAgent(c) \/ AddKeyless(c) \/ Install(c) PROVE Frame(c)'
  BY <1>6, RegistrationAssumption DEF AddAgent, AddKeyless, Install, Found
<1>7. ASSUME Written(c) PROVE Frame(c)'
  BY <1>7 DEF Written
<1>8. ASSUME \/ RequestRoom(c) \/ RoomLimit(c) \/ InsertRoom(c) \/ AddRoom(c)
             \/ DestroyRoom(c) \/ RemoveRoom(c) \/ SubRoom(c)
      PROVE  Frame(c)'
  BY <1>8 DEF RequestRoom, RoomLimit, InsertRoom, AddRoom, DestroyRoom, RemoveRoom, SubRoom,
     Found
<1>9. ASSUME Disconnect(c) PROVE Frame(c)'
  BY <1>9 DEF Disconnect
<1>10. ASSUME Unregister(c) \/ Cleanup(c) PROVE Frame(c)'
  BY <1>3, <1>10 DEF Unregister, Cleanup
<1>11. ASSUME RemoveAgent(c) \/ SubAgent(c) PROVE Frame(c)'
  <2>1. at[c] \in {"remove", "sub"} /\ key[c] \in Keys /\ ~missed[c]
    BY <1>11 DEF RemoveAgent, SubAgent
  <2>2. CASE Close(c)
    BY <1>3, <2>1, <2>2
  <2>3. CASE Proceed(c, "sub") /\ SameTask
    BY <2>1, <2>3
  <2>4. CASE Proceed(c, "cleanup") /\ SameTask /\ ~failed[c]
    BY <2>1, <2>4
  <2> QED BY <1>11, <2>2, <2>3, <2>4 DEF RemoveAgent, SubAgent, AfterRemove
<1> QED BY <1>1, <1>2, <1>4, <1>5, <1>6, <1>7, <1>8, <1>9, <1>10, <1>11 DEF SocketStep

LEMMA FrameInvStep ==
    ASSUME FieldTypes, FrameInv, [RegistrationNext]_rvars
    PROVE  FrameInv'
<1>1. ASSUME NEW c \in Sockets, SocketStep(c) PROVE FrameInv'
  <2>1. ASSUME NEW d \in Sockets \ {c} PROVE Frame(d)'
    <3>1. SameFrame(d)
      BY <1>1, OthersKeepTheirFrame
    <3> QED BY <3>1 DEF SameFrame, FrameInv, Frame
  <2>2. Frame(c)'
    BY <1>1, OwnFrame DEF FrameInv
  <2> QED BY <2>1, <2>2 DEF FrameInv
<1>2. CASE Restart
  BY <1>2 DEF Restart, FrameInv, Frame, Look, Mutating
<1>3. CASE UNCHANGED conn
  BY <1>3 DEF conn, FrameInv, Frame
<1> QED BY <1>1, <1>2, <1>3, WhoSteps DEF Expire, rvars

LEMMA LocksInvStep ==
    ASSUME FieldTypes, LocksInv, [RegistrationNext]_rvars
    PROVE  LocksInv'
<1> USE DEF Mutating
<1>0. None \notin Sockets
  BY RegistrationAssumption
<1>1. ASSUME NEW c \in Sockets, SocketStep(c) PROVE LocksInv'
  <2>1. /\ lock' = lock \/ (lock = None /\ lock' = c) \/ (lock = c /\ lock' = None)
        /\ lock' = c <=> at'[c] \in {"add", "install"}
    <3> USE DEF FieldTypes, Proceed, locks, LocksInv
    <3>1. CASE \E k \in Keys \cup {NoKey}, i \in Ids \cup {c} : Register(c, k, i)
      BY <3>1 DEF Register
    <3>2. CASE LookUp(c) \/ InsertNew(c) \/ LimitRefused(c) \/ LimitPassed(c) \/ Claim(c)
      BY <3>2 DEF LookUp, InsertNew, LimitRefused, LimitPassed, Claim, Close
    <3>3. CASE Decide(c)
      BY <1>0, <3>3 DEF Decide, Close
    <3>4. CASE AddAgent(c) \/ AddKeyless(c) \/ Written(c)
      BY <3>4 DEF AddAgent, AddKeyless, Written
    <3>5. CASE Install(c)
      BY <1>0, <3>5 DEF Install
    <3>6. CASE \/ RequestRoom(c) \/ RoomLimit(c) \/ InsertRoom(c) \/ AddRoom(c)
               \/ DestroyRoom(c) \/ RemoveRoom(c) \/ SubRoom(c)
      BY <3>6 DEF RequestRoom, RoomLimit, InsertRoom, AddRoom, DestroyRoom, RemoveRoom,
         SubRoom
    <3>7. CASE Disconnect(c) \/ Unregister(c) \/ Cleanup(c)
      BY <3>7 DEF Disconnect, Unregister, Cleanup, Close
    <3>8. CASE RemoveAgent(c) \/ SubAgent(c)
      BY <3>8 DEF RemoveAgent, SubAgent, AfterRemove, Close
    <3> QED BY <1>1, <3>1, <3>2, <3>3, <3>4, <3>5, <3>6, <3>7, <3>8 DEF SocketStep
  <2>2. /\ \/ mutation' = mutation \/ (mutation = None /\ mutation' = c)
           \/ (mutation = c /\ mutation' = None)
        /\ mutation' = c <=> at'[c] \in Mutating
    <3> USE DEF FieldTypes, Proceed, locks, LocksInv
    <3>1. CASE \E k \in Keys \cup {NoKey}, i \in Ids \cup {c} : Register(c, k, i)
      BY <3>1 DEF Register
    <3>2. CASE LookUp(c) \/ InsertNew(c) \/ LimitRefused(c) \/ LimitPassed(c) \/ Claim(c)
      BY <3>2 DEF LookUp, InsertNew, LimitRefused, LimitPassed, Claim, Close
    <3>3. CASE Decide(c)
      BY <3>3 DEF Decide, Close
    <3>4. CASE AddAgent(c) \/ AddKeyless(c) \/ Written(c) \/ Install(c)
      BY <3>4 DEF AddAgent, AddKeyless, Written, Install
    <3>5. CASE RequestRoom(c) \/ RoomLimit(c)
      BY <3>5 DEF RequestRoom, RoomLimit
    <3>6. CASE InsertRoom(c) \/ AddRoom(c) \/ DestroyRoom(c) \/ RemoveRoom(c) \/ SubRoom(c)
      BY <1>0, <3>6 DEF InsertRoom, AddRoom, DestroyRoom, RemoveRoom, SubRoom
    <3>7. CASE Disconnect(c) \/ Unregister(c) \/ Cleanup(c)
      BY <3>7 DEF Disconnect, Unregister, Cleanup, Close
    <3>8. CASE RemoveAgent(c) \/ SubAgent(c)
      BY <3>8 DEF RemoveAgent, SubAgent, AfterRemove, Close
    <3> QED BY <1>1, <3>1, <3>2, <3>3, <3>4, <3>5, <3>6, <3>7, <3>8 DEF SocketStep
  <2>3. ASSUME NEW d \in Sockets \ {c}
        PROVE  /\ lock' = d <=> at'[d] \in {"add", "install"}
               /\ mutation' = d <=> at'[d] \in Mutating
    <3>1. at'[d] = at[d]
      BY <1>1, OthersKeepTheirFrame DEF SameFrame
    <3>2. lock' = d <=> lock = d
      BY <1>0, <2>1
    <3>3. mutation' = d <=> mutation = d
      BY <1>0, <2>2
    <3> QED BY <3>1, <3>2, <3>3 DEF LocksInv
  <2> QED BY <2>1, <2>2, <2>3 DEF LocksInv
<1>2. CASE Restart
  BY <1>0, <1>2 DEF Restart, LocksInv
<1>3. CASE UNCHANGED <<locks, conn>>
  BY <1>3 DEF locks, conn, LocksInv
<1> QED BY <1>1, <1>2, <1>3, WhoSteps DEF Expire, rvars

(* Counters, once there, stay until the server restarts. *)
LEMMA HasUsageStep ==
    ASSUME FieldTypes, FrameInv, HasUsage, [RegistrationNext]_rvars
    PROVE  HasUsage'
<1>1. ASSUME NEW c \in Sockets, SocketStep(c) PROVE HasUsage'
  <2>0. Fresh # NoUsage
    BY DEF Fresh, NoUsage
  <2>1. \A k \in Keys : usage[k] # NoUsage => usage'[k] # NoUsage
    <3>1. CASE AddAgent(c) \/ SubAgent(c)
      <4>1. PICK n \in Counters : usage' = [usage EXCEPT ![key[c]].agents = n]
        <5>1. usage[key[c]].agents \in Int
          BY <3>1, RegistrationAssumption DEF AddAgent, SubAgent, Found, FieldTypes, FrameInv,
             Frame, HasUsage, Counters
        <5>2. /\ (usage[key[c]].agents + 1) % Wide \in Counters
              /\ (usage[key[c]].agents - 1) % Wide \in Counters
          BY <5>1, Unsigned
        <5> QED BY <3>1, <5>2 DEF AddAgent, SubAgent
      <4>2. key[c] \in Keys /\ usage[key[c]] # NoUsage
        BY <3>1 DEF AddAgent, SubAgent, Found, FrameInv, Frame, HasUsage
      <4> QED BY <4>1, <4>2, SetAgents
    <3>2. CASE AddRoom(c) \/ SubRoom(c)
      <4>0. key[c] \in Keys /\ usage[key[c]] # NoUsage
        BY <3>2 DEF AddRoom, SubRoom, Found, FrameInv, Frame, HasUsage, Look, Mutating
      <4>1. PICK n \in Counters : usage' = [usage EXCEPT ![key[c]].rooms = n]
        <5>1. usage[key[c]].rooms \in Int
          BY <4>0, RegistrationAssumption DEF FieldTypes, Counters
        <5>2. /\ (usage[key[c]].rooms + 1) % Wide \in Counters
              /\ (usage[key[c]].rooms - 1) % Wide \in Counters
          BY <5>1, Unsigned
        <5> QED BY <3>2, <5>2 DEF AddRoom, SubRoom
      <4> QED BY <4>0, <4>1, SetRooms
    <3>3. CASE InsertNew(c)
      BY <2>0, <3>3 DEF InsertNew, FieldTypes
    <3>4. CASE ~(AddAgent(c) \/ SubAgent(c) \/ AddRoom(c) \/ SubRoom(c) \/ InsertNew(c))
      <4>1. UNCHANGED usage
        BY <1>1, <3>4 DEF SocketStep, Register, LookUp, LimitRefused, LimitPassed, Claim,
           Decide, AddKeyless, Install, Written, RequestRoom, RoomLimit, InsertRoom,
           DestroyRoom, RemoveRoom, Disconnect, Unregister, RemoveAgent, Cleanup
      <4> QED BY <4>1
    <3> QED BY <3>1, <3>2, <3>3, <3>4
  <2>2. ASSUME NEW d \in Sockets, key'[d] \in Keys, at'[d] \notin {"new", "limit"},
               ~(key[d] = key'[d] /\ at[d] \notin {"new", "limit"})
        PROVE  usage'[key'[d]] # NoUsage
    <3>1. d = c
      BY <1>1, <2>2, OthersKeepTheirFrame DEF SameFrame
    <3> USE DEF FieldTypes, Proceed, SameTask
    <3>2. CASE LimitPassed(c)
      BY <2>1, <2>2, <3>1, <3>2 DEF LimitPassed, Found
    <3>3. ASSUME NEW k \in Keys \cup {NoKey}, NEW i, Register(c, k, i) PROVE FALSE
      BY <2>2, <3>1, <3>3, RegistrationAssumption DEF Register
    <3>4. ASSUME Close(c) PROVE FALSE
      BY <2>2, <3>1, <3>4 DEF Close
    <3>5. CASE LookUp(c) \/ InsertNew(c)
      BY <2>2, <3>1, <3>5 DEF LookUp, InsertNew
    <3>6. CASE ~LimitPassed(c) /\ ~LookUp(c) /\ ~InsertNew(c)
      <4>1. key'[c] = key[c] /\ at[c] \notin {"new", "limit"}
        BY <1>1, <3>3, <3>4, <3>6 DEF SocketStep, LimitRefused, Claim, Decide, AddAgent,
           AddKeyless, Install, Written, RequestRoom, RoomLimit, InsertRoom, AddRoom,
           DestroyRoom, RemoveRoom, SubRoom, Disconnect, Unregister, RemoveAgent, SubAgent,
           Cleanup, AfterRemove
      <4> QED BY <2>2, <3>1, <4>1
    <3> QED BY <3>2, <3>5, <3>6
  <2> QED BY <2>1, <2>2 DEF HasUsage, FieldTypes
<1>2. CASE Restart
  BY <1>2 DEF Restart, HasUsage
<1>3. CASE UNCHANGED <<usage, conn>>
  BY <1>3 DEF conn, HasUsage
<1> QED BY <1>1, <1>2, <1>3, WhoSteps DEF Expire, rvars

(* The record of a stash, one field at a time. *)
LEMMA StashFields ==
    ASSUME FieldTypes, NEW i \in AllIds, NEW v \in Sockets \cup {None},
           stash[i] # NoStash, stash' = [stash EXCEPT ![i].by = v]
    PROVE  /\ stash'[i].by = v /\ stash'[i].key = stash[i].key
           /\ \A j \in AllIds \ {i} : stash'[j] = stash[j]
<1>1. stash[i] \in Stashes
  BY DEF FieldTypes
<1>2. stash'[i] = [stash[i] EXCEPT !.by = v] /\ \A j \in AllIds \ {i} : stash'[j] = stash[j]
  BY DEF FieldTypes
<1> QED BY <1>1, <1>2 DEF Stashes

(* A claim dropped is nobody's, and no other changes. *)
LEMMA UnclaimFields ==
    ASSUME FieldTypes, ClaimInv, NEW c \in Sockets, Unclaim(c)
    PROVE  \A j \in AllIds : (stash'[j] = stash[j] /\ stash[j].by # c) \/ stash'[j].by = None
<1>1. id[c] \in AllIds /\ c # None
  BY RegistrationAssumption DEF FieldTypes
<1>2. \A j \in AllIds : stash[j].by = c => j = id[c]
  BY DEF ClaimInv
<1>3. CASE stash[id[c]].by = c
  <2>1. stash[id[c]] # NoStash
    BY <1>1, <1>3 DEF NoStash
  <2>2. stash' = [stash EXCEPT ![id[c]].by = None]
    BY <1>3 DEF Unclaim
  <2>3. stash'[id[c]].by = None /\ \A j \in AllIds \ {id[c]} : stash'[j] = stash[j]
    BY <1>1, <2>1, <2>2, StashFields
  <2> QED BY <1>2, <2>3
<1>4. CASE stash[id[c]].by # c
  BY <1>2, <1>4 DEF Unclaim
<1> QED BY <1>3, <1>4

(* What a step of c makes of the claims. *)
LEMMA ClaimsOfStep ==
    ASSUME FieldTypes, FrameInv, ClaimInv, NEW c \in Sockets, SocketStep(c),
           NEW j \in AllIds
    PROVE  /\ stash'[j] = stash[j] \/ stash'[j].by \in {c, None}
           /\ stash'[j].by = c =>
                  /\ id'[c] = j /\ key'[c] = stash'[j].key
                  /\ at'[c] \in {"add", "install", "write", "unregister", "remove", "sub"}
                  /\ at'[c] \in {"remove", "sub"} => failed'[c]
<1> USE DEF FieldTypes, Proceed, SameTask
<1>0. None \notin Sockets /\ id[c] \in AllIds /\ NoStash.by = None
  BY RegistrationAssumption DEF NoStash
<1>1. stash[j].by = c =>
          /\ id[c] = j /\ key[c] = stash[j].key
          /\ at[c] \in {"add", "install", "write", "unregister", "remove", "sub"}
          /\ at[c] \in {"remove", "sub"} => failed[c]
  BY DEF ClaimInv
<1>2. CASE \E k \in Keys \cup {NoKey}, i \in Ids \cup {c} : Register(c, k, i)
  BY <1>1, <1>2 DEF Register
<1>3. CASE \/ LookUp(c) \/ InsertNew(c) \/ LimitRefused(c) \/ LimitPassed(c) \/ Claim(c)
  <2>1. stash' = stash
    BY <1>3 DEF LookUp, InsertNew, LimitRefused, LimitPassed, Claim
  <2>2. CASE LookUp(c) \/ InsertNew(c)
    BY <1>1, <2>1, <2>2 DEF LookUp, InsertNew
  <2>3. CASE LimitRefused(c) \/ LimitPassed(c) \/ Claim(c)
    <3>1. stash[j].by # c
      BY <1>1, <2>3 DEF LimitRefused, LimitPassed, Claim
    <3> QED BY <2>1, <3>1
  <2> QED BY <1>3, <2>2, <2>3
<1>4. CASE Decide(c)
  <2>1. stash[j].by # c
    BY <1>1, <1>4 DEF Decide
  <2>2. \/ stash' = stash
        \/ /\ stash' = [stash EXCEPT ![id[c]].by = c] /\ stash[id[c]] # NoStash
           /\ stash[id[c]].key = key[c]
           /\ UNCHANGED <<id, key, failed>> /\ at'[c] = "add"
    BY <1>4 DEF Decide
  <2>3. CASE stash' = stash
    BY <2>1, <2>3
  <2>4. CASE /\ stash' = [stash EXCEPT ![id[c]].by = c] /\ stash[id[c]] # NoStash
             /\ stash[id[c]].key = key[c]
             /\ UNCHANGED <<id, key, failed>> /\ at'[c] = "add"
    <3>1. /\ stash'[id[c]].by = c /\ stash'[id[c]].key = stash[id[c]].key
          /\ \A x \in AllIds \ {id[c]} : stash'[x] = stash[x]
      BY <1>0, <2>4, StashFields
    <3> QED BY <2>1, <2>4, <3>1
  <2> QED BY <2>2, <2>3, <2>4
<1>5. CASE AddAgent(c) \/ AddKeyless(c) \/ Install(c)
  BY <1>1, <1>5 DEF AddAgent, AddKeyless, Install
<1>6. CASE Written(c)
  <2>1. CASE at'[c] = "ready"
    <3>1. stash' = IF stash[id[c]].by = c THEN [stash EXCEPT ![id[c]] = NoStash] ELSE stash
      BY <1>6, <2>1 DEF Written
    <3>2. stash'[j].by # c
      BY <1>0, <1>1, <3>1
    <3> QED BY <1>0, <3>1, <3>2
  <2>2. CASE at'[c] = "unregister"
    BY <1>1, <1>6, <2>2 DEF Written
  <2> QED BY <1>6, <2>1, <2>2 DEF Written
<1>7. CASE \/ RequestRoom(c) \/ RoomLimit(c) \/ InsertRoom(c) \/ AddRoom(c)
           \/ DestroyRoom(c) \/ RemoveRoom(c) \/ SubRoom(c) \/ Disconnect(c)
  <2>1. stash' = stash
    BY <1>7 DEF RequestRoom, RoomLimit, InsertRoom, AddRoom, DestroyRoom, RemoveRoom, SubRoom,
       Disconnect
  <2>2. stash[j].by # c
    BY <1>1, <1>7 DEF RequestRoom, RoomLimit, InsertRoom, AddRoom, DestroyRoom, RemoveRoom,
       SubRoom, Disconnect
  <2> QED BY <2>1, <2>2
<1>8. ASSUME Unclaim(c)
      PROVE  (stash'[j] = stash[j] \/ stash'[j].by \in {c, None}) /\ stash'[j].by # c
  BY <1>0, <1>8, UnclaimFields
<1>9. CASE Unregister(c)
  <2>1. CASE Unclaim(c)
    BY <1>8, <2>1
  <2>2. CASE Proceed(c, "remove") /\ SameTask /\ UNCHANGED stash
    BY <1>1, <1>9, <2>2 DEF Unregister, FrameInv, Frame
  <2> QED BY <1>9, <2>1, <2>2 DEF Unregister
<1>10. CASE RemoveAgent(c) \/ SubAgent(c)
  <2>1. CASE Unclaim(c)
    BY <1>8, <2>1
  <2>2. CASE Proceed(c, "sub") /\ SameTask /\ UNCHANGED stash
    BY <1>1, <1>10, <2>2 DEF RemoveAgent, SubAgent
  <2>3. CASE Proceed(c, "cleanup") /\ SameTask /\ UNCHANGED stash /\ ~failed[c]
    BY <1>1, <1>10, <2>3 DEF RemoveAgent, SubAgent
  <2> QED BY <1>10, <2>1, <2>2, <2>3 DEF RemoveAgent, SubAgent, AfterRemove
<1>11. CASE Cleanup(c)
  <2>1. stash[j].by # c
    BY <1>1, <1>11 DEF Cleanup
  <2> QED BY <1>0, <1>11, <2>1 DEF Cleanup
<1> QED BY <1>2, <1>3, <1>4, <1>5, <1>6, <1>7, <1>9, <1>10, <1>11 DEF SocketStep

LEMMA ClaimInvStep ==
    ASSUME FieldTypes, FrameInv, ClaimInv, [RegistrationNext]_rvars
    PROVE  ClaimInv'
<1>0. None \notin Sockets /\ NoStash.by = None
  BY RegistrationAssumption DEF NoStash
<1>1. ASSUME NEW c \in Sockets, SocketStep(c) PROVE ClaimInv'
  <2>0. AllIds' = AllIds /\ Sockets' = Sockets
    BY DEF AllIds
  <2>1. ASSUME NEW j \in AllIds, NEW d \in Sockets, stash'[j].by = d
        PROVE  /\ id'[d] = j /\ key'[d] = stash'[j].key
               /\ at'[d] \in {"add", "install", "write", "unregister", "remove", "sub"}
               /\ at'[d] \in {"remove", "sub"} => failed'[d]
    <3>1. CASE d = c
      BY <1>1, <2>1, <3>1, ClaimsOfStep
    <3>2. CASE d # c
      <4>1. SameFrame(d)
        BY <1>1, <3>2, OthersKeepTheirFrame
      <4>2. stash'[j] = stash[j]
        BY <1>0, <1>1, <2>1, <3>2, ClaimsOfStep
      <4> QED BY <2>1, <4>1, <4>2 DEF SameFrame, ClaimInv
    <3> QED BY <3>1, <3>2
  <2> QED BY <2>0, <2>1 DEF ClaimInv
<1>2. ASSUME NEW i \in Ids, Expire(i) PROVE ClaimInv'
  BY <1>0, <1>2 DEF Expire, ClaimInv, conn, FieldTypes
<1>3. CASE Restart
  BY <1>0, <1>3 DEF Restart, ClaimInv
<1>4. CASE UNCHANGED rvars
  BY <1>4 DEF rvars, conn, ClaimInv
<1> QED BY <1>1, <1>2, <1>3, <1>4, WhoSteps

-----------------------------------------------------------------------------
(* Identities. *)

(* A connection past its claim has its id bound to its key. *)
BoundInv ==
    \A c \in Sockets :
        key[c] \in Keys /\ id[c] \in Ids /\ at[c] \notin {"new", "limit", "claim"} =>
            owner[id[c]] = key[c]

(* The registry names installed connections, under their own id. *)
LiveInv ==
    \A i \in AllIds : \A c \in Sockets : live[i] = c =>
        /\ id[c] = i /\ at[c] \in Installed
        /\ failed[c] => at[c] = "unregister"

LEMMA BoundInvStep ==
    ASSUME FieldTypes, FrameInv, BoundInv, [RegistrationNext]_rvars
    PROVE  BoundInv'
<1>0. None \notin Keys /\ NoKey \notin Keys /\ Ids \cap Sockets = {}
  BY RegistrationAssumption
<1>1. ASSUME NEW c \in Sockets, SocketStep(c) PROVE BoundInv'
  <2> USE DEF FieldTypes, Proceed, SameTask, SameStore
  <2>1. CASE Claim(c)
    <3>1. key[c] \in Keys /\ id[c] \in Ids /\ at[c] = "claim"
      BY <2>1 DEF Claim, FrameInv, Frame
    <3>2. ASSUME NEW d \in Sockets \ {c}, key'[d] \in Keys, id'[d] \in Ids,
                 at'[d] \notin {"new", "limit", "claim"}
          PROVE  owner'[id'[d]] = key'[d]
      <4>1. SameFrame(d)
        BY <1>1, OthersKeepTheirFrame
      <4>2. owner[id[d]] = key[d] /\ owner[id[d]] # None
        BY <1>0, <3>2, <4>1 DEF SameFrame, BoundInv
      <4>3. owner' = owner \/ (owner' = [owner EXCEPT ![id[c]] = key[c]] /\ owner[id[c]] = None)
        BY <2>1 DEF Claim
      <4> QED BY <3>2, <4>1, <4>2, <4>3 DEF SameFrame
    <3>3. CASE Close(c)
      BY <1>0, <3>2, <3>3 DEF Close, BoundInv
    <3>4. CASE Proceed(c, "decide") /\ SameTask /\ owner[id[c]] \in {None, key[c]}
      <4>1. owner'[id[c]] = key[c]
        BY <2>1, <3>1, <3>4 DEF Claim
      <4> QED BY <3>2, <3>4, <4>1 DEF BoundInv
    <3> QED BY <2>1, <3>3, <3>4 DEF Claim
  <2>2. CASE ~Claim(c)
    <3>1. owner' = owner
      BY <1>1, <2>2 DEF SocketStep, Register, LookUp, InsertNew, LimitRefused, LimitPassed,
         Decide, AddAgent, AddKeyless, Install, Written, RequestRoom, RoomLimit, InsertRoom,
         AddRoom, DestroyRoom, RemoveRoom, SubRoom, Disconnect, Unregister, RemoveAgent,
         SubAgent, Cleanup
    <3>2. ASSUME NEW d \in Sockets \ {c} PROVE SameFrame(d)
      BY <1>1, OthersKeepTheirFrame
    <3>3. ASSUME key'[c] \in Keys, id'[c] \in Ids, at'[c] \notin {"new", "limit", "claim"}
          PROVE  /\ key'[c] = key[c] /\ id'[c] = id[c]
                 /\ at[c] \notin {"new", "limit", "claim"}
      <4>1. ~Close(c)
        BY <1>0, <3>3 DEF Close
      <4>2. ASSUME NEW k \in Keys \cup {NoKey}, NEW i, Register(c, k, i) PROVE FALSE
        BY <1>0, <3>3, <4>2 DEF Register
      <4>3. ~LimitPassed(c)
        BY <3>3 DEF LimitPassed
      <4>4. CASE LookUp(c) \/ InsertNew(c) \/ Written(c)
        BY <3>3, <4>4 DEF LookUp, InsertNew, Written
      <4>5. CASE ~(LookUp(c) \/ InsertNew(c) \/ Written(c))
        BY <1>1, <2>2, <4>1, <4>2, <4>3, <4>5 DEF SocketStep, LimitRefused, Decide, AddAgent,
           AddKeyless, Install, RequestRoom, RoomLimit, InsertRoom, AddRoom, DestroyRoom,
           RemoveRoom, SubRoom, Disconnect, Unregister, RemoveAgent, SubAgent, Cleanup,
           AfterRemove
      <4> QED BY <4>4, <4>5
    <3> QED BY <3>1, <3>2, <3>3 DEF BoundInv, SameFrame
  <2> QED BY <2>1, <2>2
<1>2. CASE Restart
  BY <1>0, <1>2 DEF Restart, BoundInv
<1>3. CASE UNCHANGED <<owner, conn>>
  BY <1>3 DEF conn, BoundInv
<1> QED BY <1>1, <1>2, <1>3, WhoSteps DEF Expire, rvars

LEMMA LiveInvStep ==
    ASSUME FieldTypes, FrameInv, LiveInv, [RegistrationNext]_rvars
    PROVE  LiveInv'
<1>0. None \notin Sockets
  BY RegistrationAssumption
<1>1. ASSUME NEW c \in Sockets, SocketStep(c) PROVE LiveInv'
  <2> USE DEF FieldTypes, Proceed, SameTask, SameStore
  <2>1. CASE Install(c)
    <3>1. /\ id[c] \in AllIds /\ live' = [live EXCEPT ![id[c]] = c] /\ at[c] = "install"
          /\ at' = [at EXCEPT ![c] = "write"] /\ UNCHANGED <<id, failed>>
      BY <2>1 DEF Install
    <3>2. ~failed[c] /\ "write" \in Installed
      BY <3>1 DEF FrameInv, Frame, Installed, Points
    <3> QED BY <3>1, <3>2 DEF LiveInv, AllIds, Installed
  <2>2. CASE ~Install(c)
    <3>1. \A i \in AllIds : live'[i] = live[i] \/ live'[i] = None
      BY <1>1, <2>2 DEF SocketStep, Register, LookUp, InsertNew, LimitRefused, LimitPassed,
         Claim, Decide, AddAgent, AddKeyless, Written, RequestRoom, RoomLimit, InsertRoom,
         AddRoom, DestroyRoom, RemoveRoom, SubRoom, Disconnect, Unregister, RemoveAgent,
         SubAgent, Cleanup, Leave
    <3>2. ASSUME NEW i \in AllIds, NEW d \in Sockets \ {c}, live'[i] = d
          PROVE  /\ id'[d] = i /\ at'[d] \in Installed
                 /\ failed'[d] => at'[d] = "unregister"
      <4>1. SameFrame(d)
        BY <1>1, OthersKeepTheirFrame
      <4>2. live[i] = d
        BY <1>0, <3>1, <3>2
      <4> QED BY <4>1, <4>2 DEF SameFrame, LiveInv
    <3>3. ASSUME NEW i \in AllIds, live'[i] = c
          PROVE  /\ id'[c] = i /\ at'[c] \in Installed
                 /\ failed'[c] => at'[c] = "unregister"
      <4>0. live[i] = c
        BY <1>0, <3>1, <3>3
      <4>1. id[c] = i /\ at[c] \in Installed /\ (failed[c] => at[c] = "unregister")
        BY <4>0 DEF LiveInv
      <4>2. ~Leave(c)
        BY <1>0, <3>3, <4>0, <4>1 DEF Leave
      <4>3. {"write", "ready", "roomlimit", "insert", "addroom", "unroom", "subroom",
             "unregister", "remove", "sub", "cleanup"} \subseteq Installed
        BY DEF Installed, Points, Look
      <4>4. at[c] \notin {"new", "limit", "claim", "decide", "add", "install"}
        BY <4>1 DEF Installed
      <4>5. CASE \/ LookUp(c) \/ InsertNew(c)
        BY <4>1, <4>5 DEF LookUp, InsertNew
      <4>6. CASE Written(c)
        BY <4>1, <4>3, <4>6 DEF Written, FrameInv, Frame
      <4>7. CASE \/ RequestRoom(c) \/ RoomLimit(c) \/ InsertRoom(c) \/ AddRoom(c)
                 \/ DestroyRoom(c) \/ RemoveRoom(c) \/ SubRoom(c) \/ Disconnect(c)
        BY <4>1, <4>3, <4>7 DEF RequestRoom, RoomLimit, InsertRoom, AddRoom, DestroyRoom,
           RemoveRoom, SubRoom, Disconnect
      <4>8. CASE RemoveAgent(c) \/ SubAgent(c)
        BY <4>1, <4>3, <4>8 DEF RemoveAgent, SubAgent, AfterRemove
      <4>9. ~Unregister(c) /\ ~Cleanup(c)
        BY <4>2 DEF Unregister, Cleanup
      <4>10. /\ ~\E k \in Keys \cup {NoKey}, j \in Ids \cup {c} : Register(c, k, j)
             /\ ~LimitRefused(c) /\ ~LimitPassed(c) /\ ~Claim(c) /\ ~Decide(c)
             /\ ~AddAgent(c) /\ ~AddKeyless(c)
        BY <4>4 DEF Register, LimitRefused, LimitPassed, Claim, Decide, AddAgent, AddKeyless
      <4> QED BY <1>1, <2>2, <4>5, <4>6, <4>7, <4>8, <4>9, <4>10 DEF SocketStep
    <3>4. AllIds' = AllIds /\ Installed' = Installed
      BY DEF AllIds, Installed, Points, Look
    <3> QED BY <3>2, <3>3, <3>4 DEF LiveInv
  <2> QED BY <2>1, <2>2
<1>2. CASE Restart
  BY <1>0, <1>2 DEF Restart, LiveInv
<1>3. CASE UNCHANGED <<live, conn>>
  BY <1>3 DEF conn, LiveInv, AllIds, Installed
<1> QED BY <1>1, <1>2, <1>3, WhoSteps DEF Expire, rvars
-----------------------------------------------------------------------------
(* The counters. *)

(* Where a connection is not counted. *)
Uncounted == {"new", "limit", "claim", "decide", "add", "cleanup"}

LEMMA CountedIs ==
    ASSUME FieldTypes, NEW k
    PROVE  Counted(k) = {c \in Sockets : key[c] = k /\ at[c] \notin Uncounted}
BY DEF FieldTypes, Counted, Uncounted

(* There are no more of them than sockets, and the counter can hold them. *)
LEMMA CountedFinite ==
    ASSUME NEW k
    PROVE  /\ IsFiniteSet(Counted(k)) /\ Cardinality(Counted(k)) \in Nat
           /\ Cardinality(Counted(k)) < Wide
<1>1. Counted(k) \subseteq Sockets
  BY DEF Counted
<1>2. /\ IsFiniteSet(Counted(k)) /\ Cardinality(Counted(k)) <= Cardinality(Sockets)
      /\ Cardinality(Counted(k)) \in Nat /\ Cardinality(Sockets) \in Nat
  BY <1>1, FS_Subset, FS_CardinalityType, RegistrationAssumption
<1> QED BY <1>2, RegistrationAssumption

(* The counter's end of a connection: remove_agent's last step. *)
Uncount(c) == SubAgent(c) \/ (RemoveAgent(c) /\ ~(usage[key[c]].agents > 0))

(* A step counts its own connection, or leaves off counting it, for the key *)
(* it registered with, or changes no count.                                *)
LEMMA CountedStep ==
    ASSUME FieldTypes, FieldTypes', FrameInv, NEW c \in Sockets, SocketStep(c), NEW k \in Keys
    PROVE  /\ AddAgent(c) /\ key[c] = k =>
                  c \notin Counted(k) /\ Counted(k)' = Counted(k) \cup {c}
           /\ Uncount(c) /\ key[c] = k =>
                  c \in Counted(k) /\ Counted(k)' = Counted(k) \ {c}
           /\ ~(AddAgent(c) /\ key[c] = k) /\ ~(Uncount(c) /\ key[c] = k) =>
                  Counted(k)' = Counted(k)
<1> DEFINE on == key[c] = k /\ at[c] \notin Uncounted
           onNext == key'[c] = k /\ at'[c] \notin Uncounted
<1>0. NoKey # k
  BY RegistrationAssumption
<1>1. \A d \in Sockets \ {c} : d \in Counted(k)' <=> d \in Counted(k)
  <2>1. ASSUME NEW d \in Sockets \ {c} PROVE key'[d] = key[d] /\ at'[d] = at[d]
    BY OthersKeepTheirFrame DEF SameFrame
  <2> QED BY <2>1 DEF Counted
<1>2. /\ c \in Counted(k) <=> on
      /\ c \in Counted(k)' <=> onNext
      /\ Counted(k) \subseteq Sockets /\ Counted(k)' \subseteq Sockets
  BY DEF FieldTypes, Counted, Uncounted
<1>3. /\ AddAgent(c) /\ key[c] = k => ~on /\ onNext
      /\ Uncount(c) /\ key[c] = k => on /\ ~onNext
      /\ ~(AddAgent(c) /\ key[c] = k) /\ ~(Uncount(c) /\ key[c] = k) => (onNext <=> on)
  <2> USE DEF FieldTypes, Proceed, SameTask, Uncounted, Uncount
  <2>1. CASE \E j \in Keys \cup {NoKey}, i \in Ids \cup {c} : Register(c, j, i)
    BY <2>1 DEF Register, SubAgent, RemoveAgent, AddAgent
  <2>2. CASE LookUp(c) \/ InsertNew(c)
    <3>1. onNext <=> on
      BY <2>2 DEF LookUp, InsertNew
    <3>2. ~AddAgent(c) /\ ~Uncount(c)
      BY <2>2 DEF LookUp, InsertNew, AddAgent, SubAgent, RemoveAgent, Found, Frame, FrameInv, Look
    <3> QED BY <3>1, <3>2
  <2>3. CASE LimitRefused(c) \/ LimitPassed(c) \/ Claim(c) \/ Decide(c)
    <3>1. at[c] \in Uncounted /\ at'[c] \in Uncounted /\ ~AddAgent(c) /\ ~Uncount(c)
      BY <2>3 DEF LimitRefused, LimitPassed, Claim, Decide, AddAgent, SubAgent, RemoveAgent, Close
    <3> QED BY <3>1
  <2>4. CASE AddAgent(c)
    BY <2>4 DEF AddAgent, SubAgent, RemoveAgent
  <2>5. CASE AddKeyless(c)
    BY <1>0, <2>5 DEF AddKeyless, AddAgent, SubAgent, RemoveAgent
  <2>6. CASE Install(c) \/ Written(c)
    BY <2>6 DEF Install, Written, AddAgent, SubAgent, RemoveAgent
  <2>7. CASE \/ RequestRoom(c) \/ RoomLimit(c) \/ InsertRoom(c) \/ AddRoom(c)
             \/ DestroyRoom(c) \/ RemoveRoom(c) \/ SubRoom(c)
    <3>1. /\ key'[c] = key[c] /\ at[c] \notin Uncounted /\ at'[c] \notin Uncounted
          /\ ~AddAgent(c) /\ ~Uncount(c)
      BY <2>7 DEF RequestRoom, RoomLimit, InsertRoom, AddRoom, DestroyRoom, RemoveRoom, SubRoom,
         AddAgent, SubAgent, RemoveAgent
    <3> QED BY <3>1
  <2>8. CASE Disconnect(c)
    BY <2>8 DEF Disconnect, AddAgent, SubAgent, RemoveAgent
  <2>9. CASE Unregister(c)
    BY <1>0, <2>9 DEF Unregister, Close, AddAgent, SubAgent, RemoveAgent
  <2>10. CASE SubAgent(c)
    <3>1. at[c] = "sub" /\ at'[c] \in Uncounted
      BY <2>10 DEF SubAgent, AfterRemove, Close
    <3> QED BY <2>10, <3>1 DEF AddAgent
  <2>11. CASE RemoveAgent(c)
    <3>1. CASE usage[key[c]].agents > 0
      BY <2>11, <3>1 DEF RemoveAgent, AddAgent, SubAgent
    <3>2. CASE ~(usage[key[c]].agents > 0)
      <4>1. at[c] = "remove" /\ at'[c] \in Uncounted
        BY <2>11, <3>2 DEF RemoveAgent, AfterRemove, Close
      <4> QED BY <2>11, <3>2, <4>1 DEF AddAgent
    <3> QED BY <3>1, <3>2
  <2>12. CASE Cleanup(c)
    BY <2>12 DEF Cleanup, Close, AddAgent, SubAgent, RemoveAgent
  <2> QED
    BY <2>1, <2>2, <2>3, <2>4, <2>5, <2>6, <2>7, <2>8, <2>9, <2>10, <2>11, <2>12
    DEF SocketStep
<1> HIDE DEF on, onNext
<1> QED BY <1>1, <1>2, <1>3

(* What a step makes of the counters of a key. *)
LEMMA CountersOfStep ==
    ASSUME FieldTypes, FrameInv, HasUsage, NEW c \in Sockets, SocketStep(c), NEW k \in Keys
    PROVE  LET set(a, r) == /\ usage[k] # NoUsage /\ usage'[k] # NoUsage
                            /\ usage'[k].agents = a % Wide /\ usage'[k].rooms = r % Wide
           IN
           /\ AddAgent(c) /\ key[c] = k => set(usage[k].agents + 1, usage[k].rooms)
           /\ SubAgent(c) /\ key[c] = k => set(usage[k].agents - 1, usage[k].rooms)
           /\ AddRoom(c) /\ key[c] = k => set(usage[k].agents, usage[k].rooms + 1)
           /\ SubRoom(c) /\ key[c] = k => set(usage[k].agents, usage[k].rooms - 1)
           /\ InsertNew(c) /\ key[c] = k =>
                  usage'[k] = Fresh /\ (k \notin replaced' => usage[k] = NoUsage)
           /\ ~(AddAgent(c) \/ SubAgent(c) \/ AddRoom(c) \/ SubRoom(c) \/ InsertNew(c))
              \/ key[c] # k => usage'[k] = usage[k]
<1>0. ASSUME usage[k] # NoUsage
      PROVE  /\ usage[k].agents \in Int /\ usage[k].rooms \in Int
             /\ usage[k].agents % Wide = usage[k].agents /\ usage[k].rooms % Wide = usage[k].rooms
  <2>1. usage[k].agents \in Counters /\ usage[k].rooms \in Counters
    BY <1>0 DEF FieldTypes
  <2>2. \A n \in Counters : n \in Int
    BY RegistrationAssumption DEF Counters
  <2> QED BY <2>1, <2>2, Unsigned DEF Counters
<1>1. CASE AddAgent(c)
  <2>0. /\ key[c] \in Keys /\ usage[key[c]] # NoUsage
        /\ usage' = [usage EXCEPT ![key[c]].agents = (usage[key[c]].agents + 1) % Wide]
        /\ at[c] = "add" /\ ~missed[c]
    BY <1>1 DEF AddAgent, Found
  <2>1. ~SubAgent(c) /\ ~AddRoom(c) /\ ~SubRoom(c) /\ ~InsertNew(c)
    BY <2>0 DEF SubAgent, AddRoom, SubRoom, InsertNew
  <2>2. CASE key[c] = k
    <3>1. PICK n \in Counters : n = (usage[k].agents + 1) % Wide
      BY <1>0, <2>0, <2>2, Unsigned
    <3>2. usage[k] # NoUsage /\ usage' = [usage EXCEPT ![k].agents = n]
      BY <2>0, <2>2, <3>1
    <3>3. /\ usage'[k].agents = n /\ usage'[k].rooms = usage[k].rooms
          /\ usage'[k] # NoUsage
      BY <3>2, SetAgents
    <3>4. usage[k].rooms % Wide = usage[k].rooms
      BY <1>0, <3>2
    <3> QED BY <1>1, <2>1, <2>2, <3>1, <3>2, <3>3, <3>4
  <2>3. CASE key[c] # k
    BY <2>0, <2>3 DEF FieldTypes
  <2> QED BY <2>2, <2>3
<1>2. CASE SubAgent(c)
  <2>0. /\ key[c] \in Keys /\ usage[key[c]] # NoUsage
        /\ usage' = [usage EXCEPT ![key[c]].agents = (usage[key[c]].agents - 1) % Wide]
        /\ at[c] = "sub" /\ ~missed[c]
    BY <1>2 DEF SubAgent, Frame, FrameInv, HasUsage, Look
  <2>1. ~AddAgent(c) /\ ~AddRoom(c) /\ ~SubRoom(c) /\ ~InsertNew(c)
    BY <2>0 DEF AddAgent, AddRoom, SubRoom, InsertNew
  <2>2. CASE key[c] = k
    <3>1. PICK n \in Counters : n = (usage[k].agents - 1) % Wide
      BY <1>0, <2>0, <2>2, Unsigned
    <3>2. usage[k] # NoUsage /\ usage' = [usage EXCEPT ![k].agents = n]
      BY <2>0, <2>2, <3>1
    <3>3. /\ usage'[k].agents = n /\ usage'[k].rooms = usage[k].rooms
          /\ usage'[k] # NoUsage
      BY <3>2, SetAgents
    <3>4. usage[k].rooms % Wide = usage[k].rooms
      BY <1>0, <3>2
    <3> QED BY <1>2, <2>1, <2>2, <3>1, <3>2, <3>3, <3>4
  <2>3. CASE key[c] # k
    BY <2>0, <2>3 DEF FieldTypes
  <2> QED BY <2>2, <2>3
<1>3. CASE AddRoom(c)
  <2>0. /\ key[c] \in Keys /\ usage[key[c]] # NoUsage
        /\ usage' = [usage EXCEPT ![key[c]].rooms = (usage[key[c]].rooms + 1) % Wide]
        /\ at[c] = "addroom" /\ ~missed[c]
    BY <1>3 DEF AddRoom, Found, Frame, FrameInv, Look
  <2>1. ~AddAgent(c) /\ ~SubAgent(c) /\ ~SubRoom(c) /\ ~InsertNew(c)
    BY <2>0 DEF AddAgent, SubAgent, SubRoom, InsertNew
  <2>2. CASE key[c] = k
    <3>1. PICK n \in Counters : n = (usage[k].rooms + 1) % Wide
      BY <1>0, <2>0, <2>2, Unsigned
    <3>2. usage[k] # NoUsage /\ usage' = [usage EXCEPT ![k].rooms = n]
      BY <2>0, <2>2, <3>1
    <3>3. /\ usage'[k].rooms = n /\ usage'[k].agents = usage[k].agents
          /\ usage'[k] # NoUsage
      BY <3>2, SetRooms
    <3>4. usage[k].agents % Wide = usage[k].agents
      BY <1>0, <3>2
    <3> QED BY <1>3, <2>1, <2>2, <3>1, <3>2, <3>3, <3>4
  <2>3. CASE key[c] # k
    BY <2>0, <2>3 DEF FieldTypes
  <2> QED BY <2>2, <2>3
<1>4. CASE SubRoom(c)
  <2>0. /\ key[c] \in Keys /\ usage[key[c]] # NoUsage
        /\ usage' = [usage EXCEPT ![key[c]].rooms = (usage[key[c]].rooms - 1) % Wide]
        /\ at[c] = "subroom" /\ ~missed[c]
    BY <1>4 DEF SubRoom, Frame, FrameInv, HasUsage, Look, Mutating
  <2>1. ~AddAgent(c) /\ ~SubAgent(c) /\ ~AddRoom(c) /\ ~InsertNew(c)
    BY <2>0 DEF AddAgent, SubAgent, AddRoom, InsertNew
  <2>2. CASE key[c] = k
    <3>1. PICK n \in Counters : n = (usage[k].rooms - 1) % Wide
      BY <1>0, <2>0, <2>2, Unsigned
    <3>2. usage[k] # NoUsage /\ usage' = [usage EXCEPT ![k].rooms = n]
      BY <2>0, <2>2, <3>1
    <3>3. /\ usage'[k].rooms = n /\ usage'[k].agents = usage[k].agents
          /\ usage'[k] # NoUsage
      BY <3>2, SetRooms
    <3>4. usage[k].agents % Wide = usage[k].agents
      BY <1>0, <3>2
    <3> QED BY <1>4, <2>1, <2>2, <3>1, <3>2, <3>3, <3>4
  <2>3. CASE key[c] # k
    BY <2>0, <2>3 DEF FieldTypes
  <2> QED BY <2>2, <2>3
<1>5. CASE InsertNew(c)
  <2>0. /\ missed[c] /\ usage' = [usage EXCEPT ![key[c]] = Fresh]
        /\ usage[key[c]] # NoUsage => key[c] \in replaced'
        /\ at[c] \in Look /\ at[c] \notin {"sub", "subroom"}
    BY <1>5 DEF InsertNew, Frame, FrameInv, Look
  <2>1. ~AddAgent(c) /\ ~SubAgent(c) /\ ~AddRoom(c) /\ ~SubRoom(c)
    BY <2>0 DEF AddAgent, SubAgent, AddRoom, SubRoom, Found
  <2>2. key[c] = k => usage'[k] = Fresh
    BY <2>0 DEF FieldTypes
  <2>3. key[c] # k => usage'[k] = usage[k]
    BY <2>0 DEF FieldTypes
  <2> QED BY <1>5, <2>0, <2>1, <2>2, <2>3
<1>6. CASE ~(AddAgent(c) \/ SubAgent(c) \/ AddRoom(c) \/ SubRoom(c) \/ InsertNew(c))
  <2>1. usage' = usage
    BY <1>6 DEF SocketStep, Register, LookUp, LimitRefused, LimitPassed, Claim,
       Decide, AddKeyless, Install, Written, RequestRoom, RoomLimit, InsertRoom,
       DestroyRoom, RemoveRoom, Disconnect, Unregister, RemoveAgent, Cleanup
  <2> QED BY <1>6, <2>1
<1> QED BY <1>1, <1>2, <1>3, <1>4, <1>5, <1>6

(* No key is taken out of the history of replacements but by a restart. *)
LEMMA ReplacedGrows ==
    ASSUME NEW c \in Sockets, SocketStep(c)
    PROVE  replaced \subseteq replaced' /\ restarts' = restarts
BY DEF SocketStep, Register, LookUp, InsertNew, LimitRefused, LimitPassed, Claim, Decide, AddAgent,
   AddKeyless, Install, Written, RequestRoom, RoomLimit, InsertRoom, AddRoom, DestroyRoom,
   RemoveRoom, SubRoom, Disconnect, Unregister, RemoveAgent, SubAgent, Cleanup

LEMMA AgentCountStep ==
    ASSUME FieldTypes, FieldTypes', FrameInv, HasUsage, AgentCountExact,
           [RegistrationNext]_rvars
    PROVE  AgentCountExact'
<1>1. ASSUME NEW c \in Sockets, SocketStep(c), NEW k \in Keys \ replaced'
      PROVE  IF usage'[k] = NoUsage THEN Counted(k)' = {}
             ELSE usage'[k].agents = Cardinality(Counted(k)')
  <2>0. IF usage[k] = NoUsage THEN Counted(k) = {}
        ELSE usage[k].agents = Cardinality(Counted(k))
    BY <1>1, ReplacedGrows DEF AgentCountExact
  <2>1. /\ IsFiniteSet(Counted(k)) /\ Cardinality(Counted(k)) \in Nat
        /\ Cardinality(Counted(k)) < Wide
    BY CountedFinite
  <2>2. IsFiniteSet(Counted(k)') /\ Cardinality(Counted(k)') \in Nat /\ Cardinality(Counted(k)') < Wide
    <3>1. Counted(k)' \subseteq Sockets
      BY DEF Counted
    <3>2. /\ IsFiniteSet(Counted(k)') /\ Cardinality(Counted(k)') <= Cardinality(Sockets)
          /\ Cardinality(Counted(k)') \in Nat /\ Cardinality(Sockets) \in Nat
      BY <3>1, FS_Subset, FS_CardinalityType, RegistrationAssumption
    <3> QED BY <3>2, RegistrationAssumption
  <2>3. \A n \in Nat : n < Wide => n % Wide = n
    BY Unsigned, RegistrationAssumption
  <2>4. CASE AddAgent(c) /\ key[c] = k
    <3>1. c \notin Counted(k) /\ Counted(k)' = Counted(k) \cup {c}
      BY <1>1, <2>4, CountedStep
    <3>2. Cardinality(Counted(k)') = Cardinality(Counted(k)) + 1
      BY <2>1, <3>1, FS_AddElement
    <3>3. /\ usage[k] # NoUsage /\ usage'[k] # NoUsage
          /\ usage'[k].agents = (usage[k].agents + 1) % Wide
      BY <1>1, <2>4, CountersOfStep
    <3> QED BY <2>0, <2>2, <2>3, <3>2, <3>3
  <2>5. CASE Uncount(c) /\ key[c] = k
    <3>1. c \in Counted(k) /\ Counted(k)' = Counted(k) \ {c}
      BY <1>1, <2>5, CountedStep
    <3>2. Cardinality(Counted(k)') = Cardinality(Counted(k)) - 1
      BY <2>1, <3>1, FS_RemoveElement
    <3>3. usage[k].agents > 0
      BY <2>0, <2>1, <2>2, <3>1, <3>2
    <3>4. SubAgent(c)
      BY <2>5, <3>3 DEF Uncount
    <3>5. /\ usage[k] # NoUsage /\ usage'[k] # NoUsage
          /\ usage'[k].agents = (usage[k].agents - 1) % Wide
      BY <1>1, <2>5, <3>4, CountersOfStep
    <3> QED BY <2>0, <2>2, <2>3, <3>2, <3>5
  <2>6. CASE ~(AddAgent(c) /\ key[c] = k) /\ ~(Uncount(c) /\ key[c] = k)
    <3>1. Counted(k)' = Counted(k)
      BY <1>1, <2>6, CountedStep
    <3>2. CASE InsertNew(c) /\ key[c] = k
      <4>1. usage'[k] = Fresh /\ Counted(k) = {}
        BY <1>1, <2>0, <3>2, CountersOfStep
      <4>2. Cardinality({}) = 0
        BY FS_EmptySet
      <4> QED BY <3>1, <4>1, <4>2 DEF Fresh, NoUsage
    <3>3. CASE (AddRoom(c) \/ SubRoom(c)) /\ key[c] = k
      <4>1. /\ usage[k] # NoUsage /\ usage'[k] # NoUsage
            /\ usage'[k].agents = usage[k].agents % Wide
        BY <1>1, <3>3, CountersOfStep
      <4> QED BY <2>0, <2>1, <2>3, <3>1, <4>1
    <3>4. CASE ~((AddRoom(c) \/ SubRoom(c) \/ InsertNew(c)) /\ key[c] = k)
      <4>1. usage'[k] = usage[k]
        BY <1>1, <2>6, <3>4, CountersOfStep DEF Uncount
      <4> QED BY <2>0, <3>1, <4>1
    <3> QED BY <3>2, <3>3, <3>4
  <2> QED BY <2>4, <2>5, <2>6
<1>2. CASE Restart
  BY <1>2 DEF Restart, AgentCountExact, Counted
<1>3. CASE UNCHANGED <<usage, conn, replaced>>
  BY <1>3 DEF conn, AgentCountExact, Counted
<1>4. ASSUME NEW c \in Sockets, SocketStep(c) PROVE AgentCountExact'
  BY <1>1, <1>4 DEF AgentCountExact
<1> QED BY <1>2, <1>3, <1>4, WhoSteps DEF Expire, rvars

(* The room of k being created or destroyed, if one is. *)
Pending(k, steps) ==
    IF mutation # None /\ key[mutation] = k /\ at[mutation] \in steps THEN 1 ELSE 0

(* The rooms counted for k. *)
RoomCount(k) == IF usage[k] = NoUsage THEN 0 ELSE usage[k].rooms

RoomsRight(k) == RoomCount(k) + Pending(k, {"addroom"}) = owned[k] + Pending(k, {"unroom", "subroom"})

LEMMA RoomCountIs ==
    RoomCountExact <=> (restarts = 0 => \A k \in Keys \ replaced : RoomsRight(k))
BY DEF RoomCountExact, RoomsRight, RoomCount, Pending

(* Every step keeps the rooms of a key counted. *)
LEMMA RoomsRightStep ==
    ASSUME FieldTypes, FieldTypes', FrameInv, LocksInv, HasUsage, NEW c \in Sockets,
           SocketStep(c), NEW k \in Keys \ replaced', RoomsRight(k)
    PROVE  RoomsRight(k)'
<1>0. /\ None \notin Sockets /\ owned[k] \in Nat /\ owned[k] < Wide
      /\ owned'[k] \in Nat /\ owned'[k] < Wide
      /\ \A n \in Nat : n < Wide => n % Wide = n
  <2>1. owned[k] \in 0..MaxOwned /\ owned'[k] \in 0..MaxOwned
    BY DEF FieldTypes
  <2>2. \A n \in Nat : n < Wide => n % Wide = n
    BY Unsigned, RegistrationAssumption
  <2> QED BY <2>1, <2>2, RegistrationAssumption
<1>1. usage[k] # NoUsage => usage[k].rooms \in Nat /\ usage[k].rooms < Wide
  <2>1. usage[k] # NoUsage => usage[k].rooms \in Counters
    BY DEF FieldTypes
  <2> QED BY <2>1, RegistrationAssumption DEF Counters
<1>2. RoomCount(k) \in Nat
  BY <1>1 DEF RoomCount
<1>3. /\ mutation = c <=> at[c] \in Mutating
      /\ key[c] = k /\ at[c] \in Mutating \cup {"insert"} => usage[k] # NoUsage
  BY DEF LocksInv, HasUsage, Mutating
<1> USE DEF Proceed, SameTask, SameStore, Mutating
<1>4. CASE InsertRoom(c)
  <2>1. CASE at'[c] = "ready"
    <3>1. /\ UNCHANGED <<usage, owned, mutation, key>> /\ mutation = None
      BY <1>4, <2>1 DEF InsertRoom, FieldTypes
    <3> QED BY <3>1 DEF RoomsRight, RoomCount, Pending
  <2>2. CASE at'[c] = "addroom"
    <3>1. /\ mutation = None /\ mutation' = c /\ key' = key /\ usage' = usage
          /\ owned'[k] = IF key[c] = k THEN owned[k] + 1 ELSE owned[k]
      BY <1>4, <2>2 DEF InsertRoom, FieldTypes
    <3> QED BY <1>0, <1>2, <2>2, <3>1 DEF RoomsRight, RoomCount, Pending
  <2> QED BY <1>4, <2>1, <2>2 DEF InsertRoom, FieldTypes
<1>5. CASE AddRoom(c)
  <2>1. /\ mutation = c /\ mutation' = None /\ owned' = owned /\ at[c] = "addroom"
    BY <1>3, <1>5 DEF AddRoom
  <2>2. CASE key[c] = k
    <3>1. /\ usage[k] # NoUsage /\ usage'[k] # NoUsage
          /\ usage'[k].rooms = (usage[k].rooms + 1) % Wide
      BY <1>5, <2>2, CountersOfStep
    <3>2. usage[k].rooms + 1 = owned[k]
      BY <1>0, <1>1, <2>1, <2>2, <3>1 DEF RoomsRight, RoomCount, Pending
    <3>3. usage'[k].rooms = owned[k]
      BY <1>0, <3>1, <3>2
    <3> QED BY <1>0, <2>1, <3>1, <3>3 DEF RoomsRight, RoomCount, Pending
  <2>3. CASE key[c] # k
    <3>1. usage'[k] = usage[k]
      BY <2>3, CountersOfStep
    <3> QED BY <1>0, <2>1, <2>3, <3>1 DEF RoomsRight, RoomCount, Pending
  <2> QED BY <2>2, <2>3
<1>6. CASE DestroyRoom(c)
  <2>1. /\ mutation = None /\ mutation' = c /\ key' = key /\ usage' = usage
        /\ at'[c] = "unroom"
        /\ owned'[k] = IF key[c] = k THEN owned[k] - 1 ELSE owned[k]
    BY <1>6 DEF DestroyRoom, FieldTypes
  <2> QED BY <1>0, <1>2, <2>1 DEF RoomsRight, RoomCount, Pending
<1>7. CASE RemoveRoom(c)
  <2>1. /\ mutation = c /\ at[c] = "unroom" /\ UNCHANGED <<usage, owned, key>>
        /\ IF usage[key[c]].rooms > 0 THEN at'[c] = "subroom" /\ mutation' = mutation
           ELSE mutation' = None
    BY <1>3, <1>7 DEF RemoveRoom, FieldTypes
  <2>2. CASE key[c] = k
    <3>1. usage[k] # NoUsage /\ usage[k].rooms = owned[k] + 1
      BY <1>0, <1>1, <1>3, <2>1, <2>2 DEF RoomsRight, RoomCount, Pending
    <3>2. usage[k].rooms > 0
      BY <1>0, <3>1
    <3> QED BY <1>0, <2>1, <2>2, <3>1, <3>2 DEF RoomsRight, RoomCount, Pending
  <2>3. CASE key[c] # k
    BY <1>0, <2>1, <2>3 DEF RoomsRight, RoomCount, Pending
  <2> QED BY <2>2, <2>3
<1>8. CASE SubRoom(c)
  <2>1. /\ mutation = c /\ mutation' = None /\ owned' = owned /\ at[c] = "subroom"
    BY <1>3, <1>8 DEF SubRoom
  <2>2. CASE key[c] = k
    <3>1. /\ usage[k] # NoUsage /\ usage'[k] # NoUsage
          /\ usage'[k].rooms = (usage[k].rooms - 1) % Wide
      BY <1>8, <2>2, CountersOfStep
    <3>2. usage[k].rooms - 1 = owned[k]
      BY <1>0, <1>1, <2>1, <2>2, <3>1 DEF RoomsRight, RoomCount, Pending
    <3>3. usage'[k].rooms = owned[k]
      BY <1>0, <3>1, <3>2
    <3> QED BY <1>0, <2>1, <3>1, <3>3 DEF RoomsRight, RoomCount, Pending
  <2>3. CASE key[c] # k
    <3>1. usage'[k] = usage[k]
      BY <2>3, CountersOfStep
    <3> QED BY <1>0, <2>1, <2>3, <3>1 DEF RoomsRight, RoomCount, Pending
  <2> QED BY <2>2, <2>3
<1>9. CASE ~(InsertRoom(c) \/ AddRoom(c) \/ DestroyRoom(c) \/ RemoveRoom(c) \/ SubRoom(c))
  <2>1. owned' = owned /\ mutation' = mutation
    BY <1>1, <1>9 DEF SocketStep, Register, LookUp, InsertNew, LimitRefused, LimitPassed,
       Claim, Decide, AddAgent, AddKeyless, Install, Written, RequestRoom, RoomLimit,
       Disconnect, Unregister, RemoveAgent, SubAgent, Cleanup, locks
  <2>2. RoomCount(k)' = RoomCount(k)
    <3>1. CASE (AddAgent(c) \/ SubAgent(c)) /\ key[c] = k
      <4>1. /\ usage[k] # NoUsage /\ usage'[k] # NoUsage
            /\ usage'[k].rooms = usage[k].rooms % Wide
        BY <3>1, CountersOfStep
      <4> QED BY <1>0, <1>1, <4>1 DEF RoomCount
    <3>2. CASE InsertNew(c) /\ key[c] = k
      <4>1. usage'[k] = Fresh /\ usage[k] = NoUsage
        BY <3>2, CountersOfStep
      <4> QED BY <4>1 DEF RoomCount, Fresh, NoUsage
    <3>3. CASE ~((AddAgent(c) \/ SubAgent(c) \/ InsertNew(c)) /\ key[c] = k)
      <4>1. usage'[k] = usage[k]
        BY <1>9, <3>3, CountersOfStep
      <4> QED BY <4>1 DEF RoomCount
    <3> QED BY <3>1, <3>2, <3>3
  <2>3. mutation # None => key'[mutation] = key[mutation] /\ at'[mutation] = at[mutation]
    <3>1. CASE mutation \in Sockets \ {c}
      BY <3>1, OthersKeepTheirFrame DEF SameFrame
    <3>2. CASE mutation = c
      <4>1. CASE LookUp(c) \/ InsertNew(c)
        BY <3>2, <4>1 DEF LookUp, InsertNew
      <4>2. CASE ~(LookUp(c) \/ InsertNew(c))
        <5>1. at[c] \in Mutating
          BY <1>3, <3>2
        <5> QED
          BY <1>9, <4>2, <5>1 DEF SocketStep, Register, LimitRefused, LimitPassed, Claim, Decide,
             AddAgent, AddKeyless, Install, Written, RequestRoom, RoomLimit, Disconnect,
             Unregister, RemoveAgent, SubAgent, Cleanup
      <4> QED BY <4>1, <4>2
    <3> QED BY <3>1, <3>2 DEF FieldTypes
  <2> QED BY <2>1, <2>2, <2>3 DEF RoomsRight, Pending
<1> QED BY <1>4, <1>5, <1>6, <1>7, <1>8, <1>9

LEMMA RoomCountStep ==
    ASSUME FieldTypes, FieldTypes', FrameInv, LocksInv, HasUsage, RoomCountExact,
           [RegistrationNext]_rvars
    PROVE  RoomCountExact'
<1>1. ASSUME NEW c \in Sockets, SocketStep(c) PROVE RoomCountExact'
  <2>1. (restarts = 0 => \A k \in Keys \ replaced : RoomsRight(k))
    BY RoomCountIs
  <2>2. (restarts' = 0 => \A k \in Keys \ replaced' : RoomsRight(k)')
    BY <1>1, <2>1, ReplacedGrows, RoomsRightStep
  <2>3. RoomCountExact' <=> (restarts' = 0 => \A k \in Keys \ replaced' : RoomsRight(k)')
    BY DEF RoomCountExact, RoomsRight, RoomCount, Pending
  <2> QED BY <2>2, <2>3
<1>2. CASE Restart
  <2>1. restarts' # 0
    BY <1>2, RegistrationAssumption DEF Restart, FieldTypes
  <2> QED BY <2>1 DEF RoomCountExact
<1>3. CASE UNCHANGED <<usage, owned, mutation, conn, replaced, restarts>>
  BY <1>3 DEF conn, RoomCountExact
<1> QED BY <1>1, <1>2, <1>3, WhoSteps DEF Expire, rvars, locks

-----------------------------------------------------------------------------
(* The check and the count. *)

(* Between its check and its count, a connection that nobody of its key was *)
(* counted past is below the limit.                                        *)
RaceInv ==
    \A c \in Sockets \ passed : key[c] \in Keys \ replaced =>
        /\ at[c] \in {"claim", "decide", "add"} => Cardinality(Counted(key[c])) < MaxAgents
        /\ at[c] = "insert" /\ restarts = 0 => usage[key[c]].rooms < MaxRooms

(* Only a count of the key takes its other connections past. *)
LEMMA PassedOfStep ==
    ASSUME FieldTypes, NEW c \in Sockets, SocketStep(c), NEW d \in Sockets \ {c}
    PROVE  /\ d \in passed => d \in passed'
           /\ AddAgent(c) /\ key[d] = key[c] /\ at[d] \in {"claim", "decide", "add"} =>
                  d \in passed'
           /\ AddRoom(c) /\ key[d] = key[c] /\ at[d] = "insert" => d \in passed'
<1>1. AddAgent(c) /\ key[d] = key[c] /\ at[d] \in {"claim", "decide", "add"} => d \in passed'
  BY DEF AddAgent, Overtakes
<1>2. AddRoom(c) /\ key[d] = key[c] /\ at[d] = "insert" => d \in passed'
  BY DEF AddRoom, Overtakes
<1>3. d \in passed => d \in passed'
  BY DEF SocketStep, Register, LookUp, InsertNew, LimitRefused, LimitPassed, Claim, Decide,
     AddAgent, AddKeyless, Install, Written, RequestRoom, RoomLimit, InsertRoom, AddRoom,
     DestroyRoom, RemoveRoom, SubRoom, Disconnect, Unregister, RemoveAgent, SubAgent, Cleanup,
     Overtakes
<1> QED BY <1>1, <1>2, <1>3

LEMMA RaceInvStep ==
    ASSUME FieldTypes, FieldTypes', FrameInv, LocksInv, HasUsage, CountersExact, RaceInv,
           [RegistrationNext]_rvars
    PROVE  RaceInv'
<1>1. ASSUME NEW c \in Sockets, SocketStep(c), NEW d \in Sockets \ passed',
             NEW k \in Keys \ replaced', key'[d] = k
      PROVE  /\ at'[d] \in {"claim", "decide", "add"} => Cardinality(Counted(k)') < MaxAgents
             /\ at'[d] = "insert" /\ restarts' = 0 => usage'[k].rooms < MaxRooms
  <2>1. k \in Keys \ replaced /\ k \in Keys \ replaced' /\ restarts' = restarts
    BY <1>1, ReplacedGrows
  <2>2. /\ IsFiniteSet(Counted(k)) /\ Cardinality(Counted(k)) \in Nat
        /\ MaxAgents \in Nat /\ MaxRooms \in Nat
    BY CountedFinite, RegistrationAssumption
  <2>3. ASSUME ~(AddAgent(c) /\ key[c] = k)
        PROVE  Cardinality(Counted(k)') \in Nat /\ Cardinality(Counted(k)') <= Cardinality(Counted(k))
    <3>1. Counted(k)' \subseteq Counted(k)
      BY <1>1, <2>1, <2>3, CountedStep
    <3>2. IsFiniteSet(Counted(k)') /\ Cardinality(Counted(k)') <= Cardinality(Counted(k))
      BY <2>2, <3>1, FS_Subset
    <3> QED BY <3>2, FS_CardinalityType
  <2>4. ASSUME usage[k] # NoUsage, ~(AddRoom(c) /\ key[c] = k), restarts = 0
        PROVE  usage'[k].rooms <= usage[k].rooms /\ usage[k].rooms \in Nat /\ usage'[k].rooms \in Nat
    <3>1. usage[k].rooms \in Counters /\ Wide \in Nat
      BY <2>1, <2>4, RegistrationAssumption DEF FieldTypes
    <3>2. usage[k].rooms \in Nat /\ usage[k].rooms < Wide
      BY <3>1 DEF Counters
    <3>3. \A n \in Nat : n < Wide => n % Wide = n
      BY Unsigned, RegistrationAssumption
    <3>4. CASE SubRoom(c) /\ key[c] = k
      <4>1. usage'[k].rooms = (usage[k].rooms - 1) % Wide
        BY <1>1, <2>1, <3>4, CountersOfStep
      <4>2. mutation = c /\ at[c] = "subroom" /\ None \notin Sockets
        BY <3>4, RegistrationAssumption DEF SubRoom, LocksInv, Mutating
      <4>3. owned[k] \in Nat /\ RoomsRight(k)
        BY <2>1, <2>4, RoomCountIs, RegistrationAssumption DEF CountersExact, FieldTypes
      <4>4. usage[k].rooms = owned[k] + 1
        BY <2>4, <3>2, <3>4, <4>2, <4>3 DEF RoomsRight, RoomCount, Pending
      <4>5. usage[k].rooms - 1 = owned[k] /\ owned[k] < Wide
        BY <3>1, <3>2, <4>3, <4>4
      <4>6. usage'[k].rooms = owned[k]
        BY <3>3, <4>1, <4>3, <4>5
      <4> QED BY <3>2, <4>3, <4>4, <4>6
    <3>5. CASE (AddAgent(c) \/ SubAgent(c)) /\ key[c] = k
      <4>1. usage'[k].rooms = usage[k].rooms % Wide
        BY <1>1, <2>1, <3>5, CountersOfStep
      <4> QED BY <3>2, <3>3, <4>1
    <3>6. ~(InsertNew(c) /\ key[c] = k)
      BY <1>1, <2>1, <2>4, CountersOfStep
    <3>7. CASE ~((SubRoom(c) \/ AddAgent(c) \/ SubAgent(c)) /\ key[c] = k)
      <4>1. usage'[k] = usage[k]
        BY <1>1, <2>1, <2>4, <3>6, <3>7, CountersOfStep
      <4> QED BY <3>2, <4>1
    <3> QED BY <3>4, <3>5, <3>7
  <2>5. CASE d # c
    <3>1. /\ key[d] = k /\ at'[d] = at[d] /\ d \notin passed
          /\ AddAgent(c) /\ key[c] = k => at[d] \notin {"claim", "decide", "add"}
          /\ AddRoom(c) /\ key[c] = k => at[d] # "insert"
      BY <1>1, <2>5, OthersKeepTheirFrame, PassedOfStep DEF SameFrame
    <3>2. ASSUME at'[d] \in {"claim", "decide", "add"}
          PROVE  Cardinality(Counted(k)') < MaxAgents
      <4>1. Cardinality(Counted(k)) < MaxAgents
        BY <1>1, <2>1, <3>1, <3>2 DEF RaceInv
      <4> QED BY <2>2, <2>3, <3>1, <3>2, <4>1
    <3>3. ASSUME at'[d] = "insert", restarts' = 0
          PROVE  usage'[k].rooms < MaxRooms
      <4>1. usage[k].rooms < MaxRooms /\ usage[k] # NoUsage
        BY <1>1, <2>1, <3>1, <3>3 DEF RaceInv, HasUsage
      <4> QED BY <2>1, <2>2, <2>4, <3>1, <3>3, <4>1
    <3> QED BY <3>2, <3>3
  <2>6. CASE d = c
    <3> USE DEF FieldTypes, Proceed, SameTask
    <3>0. /\ key[c] = k \/ \E i \in Ids \cup {c} : Register(c, k, i)
          /\ at'[c] \in {"claim", "decide", "add", "insert"} => key[c] = k
      <4>1. NoKey # k
        BY <2>1, RegistrationAssumption
      <4>2. ~Close(c)
        BY <1>1, <2>6, <4>1 DEF Close
      <4>3. ASSUME NEW j \in Keys \cup {NoKey}, NEW i \in Ids \cup {c}, Register(c, j, i)
            PROVE  j = k /\ at'[c] = "limit"
        BY <1>1, <2>1, <2>6, <4>3 DEF Register
      <4>4. ASSUME ~\E j \in Keys \cup {NoKey}, i \in Ids \cup {c} : Register(c, j, i)
            PROVE  key'[c] = key[c]
        BY <1>1, <4>2, <4>4 DEF SocketStep, LookUp, InsertNew, LimitRefused, LimitPassed, Claim,
           Decide, AddAgent, AddKeyless, Install, Written, RequestRoom, RoomLimit, InsertRoom,
           AddRoom, DestroyRoom, RemoveRoom, SubRoom, Disconnect, Unregister, RemoveAgent,
           SubAgent, Cleanup, AfterRemove
      <4> QED BY <1>1, <2>6, <4>3, <4>4
    <3>1. ASSUME at'[c] \in {"claim", "decide", "add"}, ~LimitPassed(c)
          PROVE  /\ at[c] \in {"claim", "decide", "add"} /\ c \notin passed /\ ~AddAgent(c)
      <4>1. ~Close(c) /\ ~AddAgent(c)
        BY <3>1 DEF Close, AddAgent
      <4>2. CASE Claim(c) \/ Decide(c)
        BY <1>1, <2>6, <4>1, <4>2 DEF Claim, Decide
      <4>3. CASE LookUp(c) \/ InsertNew(c)
        BY <1>1, <2>6, <3>1, <4>1, <4>3 DEF LookUp, InsertNew
      <4>4. CASE ~(Claim(c) \/ Decide(c) \/ LookUp(c) \/ InsertNew(c))
        <5>1. ~\E j \in Keys \cup {NoKey}, i \in Ids \cup {c} : Register(c, j, i)
          <6>1. ASSUME NEW j \in Keys \cup {NoKey}, NEW i \in Ids \cup {c}, Register(c, j, i)
                PROVE  j = k
            BY <1>1, <2>6, <6>1 DEF Register
          <6> QED BY <2>1, <3>1, <6>1 DEF Register
        <5>2. ~LimitRefused(c) /\ ~AddKeyless(c) /\ ~Install(c) /\ ~Written(c)
          BY <3>1, <4>1 DEF LimitRefused, AddKeyless, Install, Written
        <5>3. /\ ~RequestRoom(c) /\ ~RoomLimit(c) /\ ~InsertRoom(c) /\ ~AddRoom(c)
              /\ ~DestroyRoom(c) /\ ~RemoveRoom(c) /\ ~SubRoom(c)
          BY <3>1 DEF RequestRoom, RoomLimit, InsertRoom, AddRoom, DestroyRoom, RemoveRoom,
             SubRoom
        <5>4. /\ ~Disconnect(c) /\ ~Unregister(c) /\ ~RemoveAgent(c) /\ ~SubAgent(c)
              /\ ~Cleanup(c)
          BY <3>1, <4>1 DEF Disconnect, Unregister, RemoveAgent, SubAgent, Cleanup, AfterRemove
        <5> QED BY <1>1, <3>1, <4>1, <4>4, <5>1, <5>2, <5>3, <5>4 DEF SocketStep
      <4> QED BY <4>2, <4>3, <4>4
    <3>2. ASSUME at'[c] \in {"claim", "decide", "add"}
          PROVE  Cardinality(Counted(k)') < MaxAgents
      <4>1. key[c] = k /\ ~AddAgent(c)
        BY <3>0, <3>1, <3>2 DEF LimitPassed, AddAgent
      <4>2. CASE LimitPassed(c)
        <5>1. usage[k] # NoUsage /\ usage[k].agents < MaxAgents
          BY <4>1, <4>2 DEF LimitPassed, Found, AgentsAllowed
        <5>2. usage[k].agents = Cardinality(Counted(k))
          BY <2>1, <5>1 DEF CountersExact, AgentCountExact
        <5> QED BY <2>2, <2>3, <4>1, <5>1, <5>2
      <4>3. CASE ~LimitPassed(c)
        <5>1. Cardinality(Counted(k)) < MaxAgents
          BY <2>1, <3>1, <3>2, <4>1, <4>3 DEF RaceInv
        <5> QED BY <2>2, <2>3, <4>1, <5>1
      <4> QED BY <4>2, <4>3
    <3>3. ASSUME at'[c] = "insert", restarts' = 0
          PROVE  usage'[k].rooms < MaxRooms
      <4>1. RoomLimit(c)
        <5>1. ~\E j \in Keys \cup {NoKey}, i \in Ids \cup {c} : Register(c, j, i)
          BY <3>3 DEF Register
        <5>2. ~LookUp(c) /\ ~InsertNew(c)
          BY <3>3 DEF LookUp, InsertNew, FrameInv, Frame, Look
        <5>3. ~LimitRefused(c) /\ ~LimitPassed(c) /\ ~Claim(c) /\ ~Decide(c)
          BY <3>3 DEF LimitRefused, LimitPassed, Claim, Decide, Close
        <5>4. ~AddAgent(c) /\ ~AddKeyless(c) /\ ~Install(c) /\ ~Written(c) /\ ~RequestRoom(c)
          BY <3>3 DEF AddAgent, AddKeyless, Install, Written, RequestRoom
        <5>5. /\ ~InsertRoom(c) /\ ~AddRoom(c) /\ ~DestroyRoom(c) /\ ~RemoveRoom(c)
              /\ ~SubRoom(c)
          BY <3>3 DEF InsertRoom, AddRoom, DestroyRoom, RemoveRoom, SubRoom
        <5>6. /\ ~Disconnect(c) /\ ~Unregister(c) /\ ~RemoveAgent(c) /\ ~SubAgent(c)
              /\ ~Cleanup(c)
          BY <3>3 DEF Disconnect, Unregister, RemoveAgent, SubAgent, Cleanup, AfterRemove, Close
        <5> QED BY <1>1, <5>1, <5>2, <5>3, <5>4, <5>5, <5>6 DEF SocketStep
      <4>2. key[c] = k
        BY <3>0, <3>3
      <4> QED BY <3>3, <4>1, <4>2 DEF RoomLimit
    <3> QED BY <2>6, <3>2, <3>3
  <2> QED BY <2>5, <2>6
<1>2. ASSUME NEW c \in Sockets, SocketStep(c) PROVE RaceInv'
  <2>1. SUFFICES ASSUME NEW d \in Sockets \ passed', NEW k \in Keys \ replaced', key'[d] = k
                 PROVE  /\ at'[d] \in {"claim", "decide", "add"} =>
                               Cardinality(Counted(key[d])') < MaxAgents
                        /\ at'[d] = "insert" /\ restarts' = 0 => usage'[k].rooms < MaxRooms
    BY DEF RaceInv
  <2>2. Counted(key[d])' = Counted(k)'
    BY <2>1 DEF Counted
  <2> QED BY <1>1, <1>2, <2>1, <2>2
<1>3. CASE Restart
  BY <1>3, RegistrationAssumption DEF Restart, RaceInv
<1>4. CASE UNCHANGED <<usage, conn, replaced, passed, restarts>>
  BY <1>4 DEF conn, RaceInv, Counted
<1> QED BY <1>2, <1>3, <1>4, WhoSteps DEF Expire, rvars

-----------------------------------------------------------------------------
RegistrationInv ==
    /\ FieldTypes /\ FrameInv /\ LocksInv /\ ClaimInv /\ HasUsage
    /\ BoundInv /\ LiveInv
    /\ CountersExact /\ RaceInv

LEMMA RegistrationInvInit ==
    RegistrationInit => RegistrationInv
<1> SUFFICES ASSUME RegistrationInit PROVE RegistrationInv
  OBVIOUS
<1> USE DEF RegistrationInit
<1>0. None \notin Sockets /\ NoKey \notin Keys
  BY RegistrationAssumption
<1>1. FieldTypes
  <2>1. /\ at \in [Sockets -> Points] /\ restarts \in 0..MaxRestarts
        /\ owned \in [Keys -> 0..MaxOwned]
    BY RegistrationAssumption DEF Points
  <2>2. id \in [Sockets -> AllIds]
    BY DEF AllIds
  <2> QED BY <2>1, <2>2 DEF FieldTypes
<1>2. FrameInv /\ LocksInv /\ HasUsage
  BY <1>0 DEF FrameInv, Frame, LocksInv, HasUsage, Look, Mutating
<1>3. ClaimInv /\ BoundInv /\ LiveInv
  BY <1>0 DEF ClaimInv, BoundInv, LiveInv, NoStash
<1>4. AgentCountExact
  BY DEF AgentCountExact, Counted
<1>5. RoomCountExact
  BY DEF RoomCountExact
<1>6. RaceInv
  BY DEF RaceInv
<1> QED BY <1>1, <1>2, <1>3, <1>4, <1>5, <1>6 DEF RegistrationInv, CountersExact

LEMMA RegistrationInvNext ==
    RegistrationInv /\ [RegistrationNext]_rvars => RegistrationInv'
<1> SUFFICES ASSUME RegistrationInv, [RegistrationNext]_rvars PROVE RegistrationInv'
  OBVIOUS
<1> USE DEF RegistrationInv, CountersExact
<1>1. FieldTypes'
  BY FieldTypesStep
<1>2. FrameInv' /\ LocksInv' /\ ClaimInv' /\ HasUsage'
  BY FrameInvStep, LocksInvStep, ClaimInvStep, HasUsageStep
<1>3. BoundInv' /\ LiveInv'
  BY BoundInvStep, LiveInvStep
<1>4. AgentCountExact' /\ RoomCountExact'
  BY <1>1, AgentCountStep, RoomCountStep
<1>5. RaceInv'
  BY <1>1, RaceInvStep
<1> QED BY <1>1, <1>2, <1>3, <1>4, <1>5

LEMMA RegistrationInvAlways ==
    RegistrationSpec => []RegistrationInv
BY RegistrationInvInit, RegistrationInvNext, PTL DEF RegistrationSpec

(* Every counter stays in its width, each mutex is held exactly where the  *)
(* code holds it, and a claimed stash is that of its claimer.              *)
THEOREM RegistrationTypes ==
    RegistrationSpec => []RegistrationTypeOK
<1>1. RegistrationInv => RegistrationTypeOK
  BY TypeOKParts DEF RegistrationInv
<1> QED BY <1>1, RegistrationInvAlways, PTL

(* An agent connected with an API key under an id it asked for has that id *)
(* bound to its key (Store::claim_agent_identity), whoever tries to take   *)
(* it, through takeovers, failed acknowledgements and restarts.            *)
THEOREM IdentitiesAreBound ==
    RegistrationSpec => []IdentityHolds
<1>1. ASSUME RegistrationInv, NEW i \in Ids, live[i] # None, key[live[i]] \in Keys
      PROVE  owner[i] = key[live[i]]
  <2>1. i \in AllIds /\ live[i] \in Sockets
    BY <1>1 DEF RegistrationInv, FieldTypes, AllIds
  <2>2. id[live[i]] = i /\ at[live[i]] \in Installed
    BY <1>1, <2>1 DEF RegistrationInv, LiveInv
  <2> QED BY <1>1, <2>1, <2>2 DEF RegistrationInv, BoundInv, Installed
<1>2. RegistrationInv => IdentityHolds
  BY <1>1 DEF IdentityHolds
<1> QED BY <1>2, RegistrationInvAlways, PTL

(* add_agent and remove_agent, load and subtraction apart, keep the agents *)
(* and the rooms of a key counted, and no unsigned counter wraps, unless   *)
(* get_or_create inserted over counters that another task had made.        *)
THEOREM CountersAreExact ==
    RegistrationSpec => []CountersExact
BY RegistrationInvAlways, PTL DEF RegistrationInv

(* A step that takes a key beyond its agents.                              *)
LEMMA AgentsExceededByRace ==
    ASSUME RegistrationInv, FieldTypes', NEW c \in Sockets, SocketStep(c), NEW k \in Keys,
           Cardinality(Counted(k)') > MaxAgents, ~(Counted(k)' \subseteq Counted(k))
    PROVE  k \in replaced \/ (c \in passed /\ at[c] = "add" /\ at'[c] = "install")
<1>0. FieldTypes /\ FrameInv
  BY DEF RegistrationInv
<1>1. AddAgent(c) /\ key[c] = k
  <2>1. ASSUME Uncount(c), key[c] = k PROVE FALSE
    BY <1>0, <2>1, CountedStep
  <2> QED BY <1>0, <2>1, CountedStep
<1>2. at[c] = "add" /\ at'[c] = "install"
  BY <1>0, <1>1 DEF AddAgent, Proceed, FieldTypes
<1>3. c \notin Counted(k) /\ Counted(k)' = Counted(k) \cup {c}
  BY <1>0, <1>1, CountedStep
<1>4. IsFiniteSet(Counted(k)) /\ Cardinality(Counted(k)) \in Nat
  BY CountedFinite
<1>5. Cardinality(Counted(k)') = Cardinality(Counted(k)) + 1
  BY <1>3, <1>4, FS_AddElement
<1>6. ~(Cardinality(Counted(k)) < MaxAgents)
  BY <1>4, <1>5, RegistrationAssumption
<1> QED BY <1>1, <1>2, <1>6 DEF RegistrationInv, RaceInv

(* A step that takes a key beyond its rooms.                               *)
LEMMA RoomsExceededByRace ==
    ASSUME RegistrationInv, FieldTypes', NEW c \in Sockets, SocketStep(c), NEW k \in Keys,
           owned'[k] > MaxRooms, owned'[k] > owned[k]
    PROVE  \/ k \in replaced \/ restarts > 0
           \/ c \in passed /\ at[c] = "insert" /\ at'[c] = "addroom"
<1>0. /\ FieldTypes /\ FrameInv /\ MaxRooms \in Nat
      /\ owned \in [Keys -> Nat] /\ restarts \in Nat
  <2>1. FieldTypes /\ FrameInv
    BY DEF RegistrationInv
  <2> QED BY <2>1, RegistrationAssumption DEF FieldTypes
<1>1. CASE InsertRoom(c)
  <2>1. /\ at[c] = "insert" /\ at'[c] = "addroom" /\ mutation = None /\ key[c] = k
        /\ owned'[k] = owned[k] + 1
    BY <1>0, <1>1 DEF InsertRoom, Proceed, FieldTypes
  <2>2. SUFFICES ASSUME k \notin replaced, restarts = 0, c \notin passed
                 PROVE  FALSE
    BY <1>0, <2>1
  <2>3. usage[k].rooms < MaxRooms /\ usage[k] # NoUsage
    BY <2>1, <2>2 DEF RegistrationInv, RaceInv, HasUsage
  <2>4. usage[k].rooms = owned[k]
    <3>1. usage[k].rooms \in Counters
      BY <1>0, <2>3 DEF FieldTypes
    <3>2. usage[k].rooms \in Int
      BY <3>1, RegistrationAssumption DEF Counters
    <3>3. RoomsRight(k)
      BY <2>2, RoomCountIs DEF RegistrationInv, CountersExact
    <3> QED BY <1>0, <2>1, <2>3, <3>2, <3>3 DEF RoomsRight, RoomCount, Pending
  <2> QED BY <1>0, <2>1, <2>3, <2>4
<1>2. CASE DestroyRoom(c)
  <2>1. owned'[k] = owned[k] \/ owned'[k] = owned[k] - 1
    BY <1>0, <1>2 DEF DestroyRoom
  <2> QED BY <1>0, <2>1
<1>3. CASE ~InsertRoom(c) /\ ~DestroyRoom(c)
  <2>1. owned' = owned
    BY <1>3 DEF SocketStep, Register, LookUp, InsertNew, LimitRefused, LimitPassed, Claim,
       Decide, AddAgent, AddKeyless, Install, Written, RequestRoom, RoomLimit, AddRoom,
       RemoveRoom, SubRoom, Disconnect, Unregister, RemoveAgent, SubAgent, Cleanup, SameStore
  <2> QED BY <1>0, <2>1
<1> QED BY <1>1, <1>2, <1>3

(* The limits of a key's tier hold but for the races that the code's       *)
(* separate check and count leave open, and those are the only way beyond  *)
(* them: check_agent_limit before add_agent, check_room_limit before the   *)
(* insert.                                                                 *)
THEOREM OnlyRacesExceedLimits ==
    RegistrationSpec => LimitsExceededOnlyByRace
<1> DEFINE beyond(k) ==
        /\ (/\ Cardinality(Counted(k)') > MaxAgents
            /\ ~(Counted(k)' \subseteq Counted(k))) =>
               \/ k \in replaced
               \/ \E c \in passed : at[c] = "add" /\ at'[c] = "install"
        /\ (owned'[k] > MaxRooms /\ owned'[k] > owned[k]) =>
               \/ k \in replaced \/ restarts > 0
               \/ \E c \in passed : at[c] = "insert" /\ at'[c] = "addroom"
<1>1. ASSUME RegistrationInv, [RegistrationNext]_rvars, NEW k \in Keys
      PROVE  beyond(k)
  <2>1. FieldTypes'
    BY <1>1, RegistrationInvNext DEF RegistrationInv
  <2>2. ASSUME NEW c \in Sockets, SocketStep(c) PROVE beyond(k)
    BY <1>1, <2>1, <2>2, AgentsExceededByRace, RoomsExceededByRace
  <2>3. owned[k] \in Nat
    BY <1>1, RegistrationAssumption DEF RegistrationInv, FieldTypes
  <2>4. CASE UNCHANGED <<conn, owned>>
    BY <2>3, <2>4 DEF conn, Counted
  <2>5. CASE Restart
    BY <2>3, <2>5 DEF Restart, Counted
  <2> QED BY <1>1, <2>2, <2>4, <2>5, WhoSteps DEF Expire, rvars
<1>2. RegistrationInv /\ [RegistrationNext]_rvars => [\A k \in Keys : beyond(k)]_rvars
  BY <1>1
<1> QED BY <1>2, RegistrationInvAlways, PTL DEF LimitsExceededOnlyByRace, RegistrationSpec
=============================================================================

---------------------------- MODULE VotingProofs ----------------------------
(***************************************************************************)
(* Proofs about Voting, for any agents, votes, timers and restarts.        *)
(***************************************************************************)
EXTENDS Voting, FiniteSetTheorems, TLAPS

(* A vote whose row is not written is known to its creator alone; a vote   *)
(* whose result is out, or about to be, is not open in the store.          *)
LifeInv ==
    /\ \A v \in Votes : rows[v] = "fresh" =>
           /\ v \notin active /\ closing[v] = "no" /\ told[v] = 0
           /\ stored[v] = {} /\ counted[v] = {}
           /\ \A a \in Agents : on[a] = v => pc[a] = "store"
    /\ \A a \in Agents : pc[a] = "store" =>
           /\ rows[on[a]] = "fresh"
           /\ \A b \in Agents : on[b] = on[a] => b = a
    /\ \A v \in Votes :
           told[v] > 0 \/ closing[v] = "tell" => rows[v] \in {"closed", "gone"}

(* A vote is activated once, taken out once, told once; whoever found it   *)
(* complete is right.                                                      *)
SealInv ==
    /\ \A a \in Agents : pc[a] \in {"store", "activate"} =>
           /\ on[a] \notin active /\ closing[on[a]] = "no" /\ told[on[a]] = 0
           /\ counted[on[a]] = {}
           /\ \A b \in Agents :
                  on[b] = on[a] /\ pc[b] \in {"store", "activate", "full"} => b = a
    /\ \A v \in Votes :
           /\ v \in active => closing[v] = "no" /\ told[v] = 0
           /\ closing[v] # "no" => told[v] = 0
           /\ told[v] <= 1
           /\ closing[v] # "no" \/ told[v] > 0 =>
                  v \in expired \/ eligible[v] \subseteq counted[v]
    /\ \A a \in Agents : pc[a] = "full" => eligible[on[a]] \subseteq counted[on[a]]

IInv == TypeOK /\ LifeInv /\ SealInv /\ UncountedUnacknowledged


LEMMA VoteTypeStep ==
    ASSUME VoteType, LeadType, RequestType, [Next]_vars
    PROVE  VoteType'
<1> USE NoneAssumption DEF room, store, memory, leading, request, votehist, leadhist, VoteType, LeadType, RequestType, Goto, Answer
<1>1. ASSUME NEW a \in Agents, NEW v \in Votes, CreateCheck(a, v) PROVE VoteType'
  BY <1>1 DEF CreateCheck
<1>2. ASSUME NEW a \in Agents, NEW v \in Votes, CastCheck(a, v) PROVE VoteType'
  BY <1>2 DEF CastCheck
<1>3. ASSUME NEW a \in Agents, CreateStore(a) PROVE VoteType'
  BY <1>3 DEF CreateStore
<1>4. ASSUME NEW a \in Agents, CreateActivate(a) PROVE VoteType'
  BY <1>4 DEF CreateActivate
<1>5. ASSUME NEW a \in Agents, CreateConfirm(a) PROVE VoteType'
  BY <1>5 DEF CreateConfirm, ForgetRoom
<1>6. ASSUME NEW a \in Agents, CreateUndo(a) PROVE VoteType'
  BY <1>6 DEF CreateUndo, DeleteArtifacts
<1>7. ASSUME NEW a \in Agents, CastStore(a) PROVE VoteType'
  BY <1>7 DEF CastStore
<1>8. ASSUME NEW a \in Agents, CastRefused(a) PROVE VoteType'
  BY <1>8 DEF CastRefused
<1>9. ASSUME NEW a \in Agents, CastCount(a) PROVE VoteType'
  BY <1>9 DEF CastCount
<1>10. ASSUME NEW a \in Agents, CastUncounted(a) PROVE VoteType'
  BY <1>10 DEF CastUncounted
<1>11. ASSUME NEW a \in Agents, CastClose(a) PROVE VoteType'
  BY <1>11 DEF CastClose
<1>12. ASSUME NEW a \in Agents, StartCheck(a) PROVE VoteType'
  BY <1>12 DEF StartCheck
<1>13. ASSUME NEW a \in Agents, StartConfirm(a) PROVE VoteType'
  BY <1>13 DEF StartConfirm, ForgetRoom
<1>14. ASSUME NEW a \in Agents, Decline(a) PROVE VoteType'
  BY <1>14 DEF Decline
<1>15. ASSUME NEW a \in Agents, Join(a) PROVE VoteType'
  BY <1>15 DEF Join
<1>16. ASSUME NEW a \in Agents, Leave(a) PROVE VoteType'
  BY <1>16 DEF Leave
<1>17. ASSUME NEW a \in Agents, Disconnect(a) PROVE VoteType'
  BY <1>17 DEF Disconnect
<1>18. ASSUME NEW a \in Agents, ClearLook(a) PROVE VoteType'
  BY <1>18 DEF ClearLook
<1>19. ASSUME NEW a \in Agents, ClearLeader(a) PROVE VoteType'
  BY <1>19 DEF ClearLeader
<1>20. ASSUME NEW a \in Agents, NEW t \in Timers, StartInsert(a, t) PROVE VoteType'
  BY <1>20 DEF StartInsert
<1>21. ASSUME NEW v \in Votes, DeadlineFires(v) PROVE VoteType'
  BY <1>21 DEF DeadlineFires
<1>22. ASSUME NEW v \in Votes, CloseStore(v) PROVE VoteType'
  BY <1>22 DEF CloseStore
<1>23. ASSUME NEW v \in Votes, CloseTell(v) PROVE VoteType'
  BY <1>23 DEF CloseTell
<1>24. ASSUME NEW t \in Timers, TimerWakes(t) PROVE VoteType'
  BY <1>24 DEF TimerWakes, Sleep
<1>25. ASSUME NEW t \in Timers, TimerPicks(t) PROVE VoteType'
  BY <1>25 DEF TimerPicks, Sleep
<1>26. ASSUME NEW t \in Timers, TimerConfirms(t) PROVE VoteType'
  BY <1>26 DEF TimerConfirms, Sleep
<1>27. ASSUME NEW t \in Timers, TimerCrowns(t) PROVE VoteType'
  BY <1>27 DEF TimerCrowns, Sleep
<1>28. CASE DestroyStore
  BY <1>28 DEF DestroyStore, DeleteArtifacts
<1>29. CASE DestroyMembers
  BY <1>29 DEF DestroyMembers
<1>30. CASE DestroyForget
  BY <1>30 DEF DestroyForget, ForgetRoom
<1>31. CASE Restart
  BY <1>31 DEF Restart, LoadedBallots
<1>32. CASE UNCHANGED vars
  BY <1>32 DEF vars
<1>33. ASSUME NEW a \in Agents, FailedRegistration(a) PROVE VoteType'
  BY <1>33 DEF FailedRegistration
<1> QED
  BY <1>1, <1>2, <1>3, <1>4, <1>5, <1>6, <1>7, <1>8, <1>9, <1>10, <1>11, <1>12, <1>13, <1>14, <1>15, <1>16, <1>17, <1>18, <1>19, <1>20, <1>21, <1>22, <1>23, <1>24, <1>25, <1>26, <1>27, <1>28, <1>29, <1>30, <1>31, <1>32, <1>33 DEF Next

LEMMA LeadTypeStep ==
    ASSUME VoteType, LeadType, RequestType, [Next]_vars
    PROVE  LeadType'
<1> USE NoneAssumption DEF room, store, memory, leading, request, votehist, leadhist, LeadType, RequestType, Goto, Answer, Starting, Elections
<1>1. ASSUME NEW a \in Agents, NEW v \in Votes, CreateCheck(a, v) PROVE LeadType'
  BY <1>1 DEF CreateCheck
<1>2. ASSUME NEW a \in Agents, NEW v \in Votes, CastCheck(a, v) PROVE LeadType'
  BY <1>2 DEF CastCheck
<1>3. ASSUME NEW a \in Agents, CreateStore(a) PROVE LeadType'
  BY <1>3 DEF CreateStore
<1>4. ASSUME NEW a \in Agents, CreateActivate(a) PROVE LeadType'
  BY <1>4 DEF CreateActivate
<1>5. ASSUME NEW a \in Agents, CreateConfirm(a) PROVE LeadType'
  BY <1>5 DEF CreateConfirm, ForgetRoom
<1>6. ASSUME NEW a \in Agents, CreateUndo(a) PROVE LeadType'
  BY <1>6 DEF CreateUndo, DeleteArtifacts
<1>7. ASSUME NEW a \in Agents, CastStore(a) PROVE LeadType'
  BY <1>7 DEF CastStore
<1>8. ASSUME NEW a \in Agents, CastRefused(a) PROVE LeadType'
  BY <1>8 DEF CastRefused
<1>9. ASSUME NEW a \in Agents, CastCount(a) PROVE LeadType'
  BY <1>9 DEF CastCount
<1>10. ASSUME NEW a \in Agents, CastUncounted(a) PROVE LeadType'
  BY <1>10 DEF CastUncounted
<1>11. ASSUME NEW a \in Agents, CastClose(a) PROVE LeadType'
  BY <1>11 DEF CastClose
<1>12. ASSUME NEW a \in Agents, StartCheck(a) PROVE LeadType'
  BY <1>12 DEF StartCheck
<1>13. ASSUME NEW a \in Agents, StartConfirm(a) PROVE LeadType'
  BY <1>13 DEF StartConfirm, ForgetRoom
<1>14. ASSUME NEW a \in Agents, Decline(a) PROVE LeadType'
  BY <1>14 DEF Decline
<1>15. ASSUME NEW a \in Agents, Join(a) PROVE LeadType'
  BY <1>15 DEF Join
<1>16. ASSUME NEW a \in Agents, Leave(a) PROVE LeadType'
  BY <1>16 DEF Leave
<1>17. ASSUME NEW a \in Agents, Disconnect(a) PROVE LeadType'
  BY <1>17 DEF Disconnect
<1>18. ASSUME NEW a \in Agents, ClearLook(a) PROVE LeadType'
  BY <1>18 DEF ClearLook
<1>19. ASSUME NEW a \in Agents, ClearLeader(a) PROVE LeadType'
  BY <1>19 DEF ClearLeader
<1>20. ASSUME NEW a \in Agents, NEW t \in Timers, StartInsert(a, t) PROVE LeadType'
  BY <1>20 DEF StartInsert
<1>21. ASSUME NEW v \in Votes, DeadlineFires(v) PROVE LeadType'
  BY <1>21 DEF DeadlineFires
<1>22. ASSUME NEW v \in Votes, CloseStore(v) PROVE LeadType'
  BY <1>22 DEF CloseStore
<1>23. ASSUME NEW v \in Votes, CloseTell(v) PROVE LeadType'
  BY <1>23 DEF CloseTell
<1>24. ASSUME NEW t \in Timers, TimerWakes(t) PROVE LeadType'
  BY <1>24 DEF TimerWakes, Sleep
<1>25. ASSUME NEW t \in Timers, TimerPicks(t) PROVE LeadType'
  BY <1>25 DEF TimerPicks, Sleep
<1>26. ASSUME NEW t \in Timers, TimerConfirms(t) PROVE LeadType'
  BY <1>26 DEF TimerConfirms, Sleep
<1>27. ASSUME NEW t \in Timers, TimerCrowns(t) PROVE LeadType'
  BY <1>27 DEF TimerCrowns, Sleep
<1>28. CASE DestroyStore
  BY <1>28 DEF DestroyStore, DeleteArtifacts
<1>29. CASE DestroyMembers
  BY <1>29 DEF DestroyMembers
<1>30. CASE DestroyForget
  BY <1>30 DEF DestroyForget, ForgetRoom
<1>31. CASE Restart
  <2>1. restarts' \in 0 .. MaxRestarts
    BY <1>31, MaxRestartsAssumption DEF Restart
  <2>2. /\ members' = {} /\ destroy' \in {"no", "done"}
        /\ election' = None /\ leader' = None
        /\ racing' = {} /\ raced' = FALSE /\ walked' = {}
        /\ dropped' = {} /\ absent' = {}
    BY <1>31 DEF Restart
  <2>3. /\ tpc' = [t \in Timers |-> "free"]
        /\ winner' = [t \in Timers |-> None]
    BY <1>31 DEF Restart
  <2> QED BY <2>1, <2>2, <2>3
<1>32. CASE UNCHANGED vars
  BY <1>32 DEF vars
<1>33. ASSUME NEW a \in Agents, FailedRegistration(a) PROVE LeadType'
  BY <1>33 DEF FailedRegistration
<1> QED
  BY <1>1, <1>2, <1>3, <1>4, <1>5, <1>6, <1>7, <1>8, <1>9, <1>10, <1>11, <1>12, <1>13, <1>14, <1>15, <1>16, <1>17, <1>18, <1>19, <1>20, <1>21, <1>22, <1>23, <1>24, <1>25, <1>26, <1>27, <1>28, <1>29, <1>30, <1>31, <1>32, <1>33 DEF Next

LEMMA RequestTypeStep ==
    ASSUME VoteType, LeadType, RequestType, [Next]_vars
    PROVE  RequestType'
<1> USE NoneAssumption DEF room, store, memory, leading, request, votehist, leadhist, RequestType, LeadType, PCs, Goto, Answer
<1>1. ASSUME NEW a \in Agents, NEW v \in Votes, CreateCheck(a, v) PROVE RequestType'
  BY <1>1 DEF CreateCheck
<1>2. ASSUME NEW a \in Agents, NEW v \in Votes, CastCheck(a, v) PROVE RequestType'
  BY <1>2 DEF CastCheck
<1>3. ASSUME NEW a \in Agents, CreateStore(a) PROVE RequestType'
  BY <1>3 DEF CreateStore
<1>4. ASSUME NEW a \in Agents, CreateActivate(a) PROVE RequestType'
  BY <1>4 DEF CreateActivate
<1>5. ASSUME NEW a \in Agents, CreateConfirm(a) PROVE RequestType'
  BY <1>5 DEF CreateConfirm, ForgetRoom
<1>6. ASSUME NEW a \in Agents, CreateUndo(a) PROVE RequestType'
  BY <1>6 DEF CreateUndo, DeleteArtifacts
<1>7. ASSUME NEW a \in Agents, CastStore(a) PROVE RequestType'
  BY <1>7 DEF CastStore
<1>8. ASSUME NEW a \in Agents, CastRefused(a) PROVE RequestType'
  BY <1>8 DEF CastRefused
<1>9. ASSUME NEW a \in Agents, CastCount(a) PROVE RequestType'
  BY <1>9 DEF CastCount
<1>10. ASSUME NEW a \in Agents, CastUncounted(a) PROVE RequestType'
  BY <1>10 DEF CastUncounted
<1>11. ASSUME NEW a \in Agents, CastClose(a) PROVE RequestType'
  BY <1>11 DEF CastClose
<1>12. ASSUME NEW a \in Agents, StartCheck(a) PROVE RequestType'
  BY <1>12 DEF StartCheck
<1>13. ASSUME NEW a \in Agents, StartConfirm(a) PROVE RequestType'
  BY <1>13 DEF StartConfirm, ForgetRoom
<1>14. ASSUME NEW a \in Agents, Decline(a) PROVE RequestType'
  BY <1>14 DEF Decline
<1>15. ASSUME NEW a \in Agents, Join(a) PROVE RequestType'
  BY <1>15 DEF Join
<1>16. ASSUME NEW a \in Agents, Leave(a) PROVE RequestType'
  BY <1>16 DEF Leave
<1>17. ASSUME NEW a \in Agents, Disconnect(a) PROVE RequestType'
  BY <1>17 DEF Disconnect
<1>18. ASSUME NEW a \in Agents, ClearLook(a) PROVE RequestType'
  BY <1>18 DEF ClearLook
<1>19. ASSUME NEW a \in Agents, ClearLeader(a) PROVE RequestType'
  BY <1>19 DEF ClearLeader
<1>20. ASSUME NEW a \in Agents, NEW t \in Timers, StartInsert(a, t) PROVE RequestType'
  BY <1>20 DEF StartInsert
<1>21. ASSUME NEW v \in Votes, DeadlineFires(v) PROVE RequestType'
  BY <1>21 DEF DeadlineFires
<1>22. ASSUME NEW v \in Votes, CloseStore(v) PROVE RequestType'
  BY <1>22 DEF CloseStore
<1>23. ASSUME NEW v \in Votes, CloseTell(v) PROVE RequestType'
  BY <1>23 DEF CloseTell
<1>24. ASSUME NEW t \in Timers, TimerWakes(t) PROVE RequestType'
  BY <1>24 DEF TimerWakes, Sleep
<1>25. ASSUME NEW t \in Timers, TimerPicks(t) PROVE RequestType'
  BY <1>25 DEF TimerPicks, Sleep
<1>26. ASSUME NEW t \in Timers, TimerConfirms(t) PROVE RequestType'
  BY <1>26 DEF TimerConfirms, Sleep
<1>27. ASSUME NEW t \in Timers, TimerCrowns(t) PROVE RequestType'
  BY <1>27 DEF TimerCrowns, Sleep
<1>28. CASE DestroyStore
  BY <1>28 DEF DestroyStore, DeleteArtifacts
<1>29. CASE DestroyMembers
  BY <1>29 DEF DestroyMembers
<1>30. CASE DestroyForget
  BY <1>30 DEF DestroyForget, ForgetRoom
<1>31. CASE Restart
  BY <1>31 DEF Restart, LoadedBallots
<1>32. CASE UNCHANGED vars
  BY <1>32 DEF vars
<1>33. ASSUME NEW a \in Agents, FailedRegistration(a) PROVE RequestType'
  BY <1>33 DEF FailedRegistration
<1> QED
  BY <1>1, <1>2, <1>3, <1>4, <1>5, <1>6, <1>7, <1>8, <1>9, <1>10, <1>11, <1>12, <1>13, <1>14, <1>15, <1>16, <1>17, <1>18, <1>19, <1>20, <1>21, <1>22, <1>23, <1>24, <1>25, <1>26, <1>27, <1>28, <1>29, <1>30, <1>31, <1>32, <1>33 DEF Next

(* As many ballots as eligible agents are the ballots of them all. *)
LEMMA CompleteIsAll ==
    ASSUME NEW E \in SUBSET Agents, NEW C \in SUBSET E,
           Cardinality(C) >= Cardinality(E)
    PROVE  E \subseteq C
<1>1. IsFiniteSet(E)
  BY AgentsAssumption, FS_Subset
<1>2. /\ IsFiniteSet(C) /\ Cardinality(C) <= Cardinality(E)
      /\ Cardinality(E) = Cardinality(C) => E = C
  BY <1>1, FS_Subset
<1>3. Cardinality(C) \in Nat /\ Cardinality(E) \in Nat
  BY <1>1, <1>2, FS_CardinalityType
<1> QED BY <1>2, <1>3

(* Each step keeps the life of a vote. *)
LEMMA LifeStep ==
    ASSUME TypeOK, LifeInv, [Next]_vars
    PROVE  LifeInv'
<1> USE NoneAssumption DEF room, store, memory, leading, request, votehist, leadhist,
        VoteType, RequestType, LifeInv, TypeOK, Goto, Answer
<1>1. ASSUME NEW a \in Agents, NEW v \in Votes, CreateCheck(a, v) PROVE LifeInv'
  BY <1>1 DEF CreateCheck
<1>2. ASSUME NEW a \in Agents, NEW v \in Votes, CastCheck(a, v) PROVE LifeInv'
  BY <1>2 DEF CastCheck
<1>3. ASSUME NEW a \in Agents, CreateStore(a) PROVE LifeInv'
  BY <1>3 DEF CreateStore
<1>4. ASSUME NEW a \in Agents, CreateActivate(a) PROVE LifeInv'
  BY <1>4 DEF CreateActivate
<1>5. ASSUME NEW a \in Agents, CreateConfirm(a) PROVE LifeInv'
  BY <1>5 DEF CreateConfirm, ForgetRoom
<1>6. ASSUME NEW a \in Agents, CreateUndo(a) PROVE LifeInv'
  BY <1>6 DEF CreateUndo, DeleteArtifacts
<1>7. ASSUME NEW a \in Agents, CastStore(a) PROVE LifeInv'
  BY <1>7 DEF CastStore
<1>8. ASSUME NEW a \in Agents, CastRefused(a) PROVE LifeInv'
  BY <1>8 DEF CastRefused
<1>9. ASSUME NEW a \in Agents, CastCount(a) PROVE LifeInv'
  BY <1>9 DEF CastCount
<1>10. ASSUME NEW a \in Agents, CastUncounted(a) PROVE LifeInv'
  BY <1>10 DEF CastUncounted
<1>11. ASSUME NEW a \in Agents, CastClose(a) PROVE LifeInv'
  BY <1>11 DEF CastClose
<1>12. ASSUME NEW a \in Agents, StartCheck(a) PROVE LifeInv'
  BY <1>12 DEF StartCheck
<1>13. ASSUME NEW a \in Agents, StartConfirm(a) PROVE LifeInv'
  BY <1>13 DEF StartConfirm, ForgetRoom
<1>14. ASSUME NEW a \in Agents, Decline(a) PROVE LifeInv'
  BY <1>14 DEF Decline
<1>15. ASSUME NEW a \in Agents, Join(a) PROVE LifeInv'
  BY <1>15 DEF Join
<1>16. ASSUME NEW a \in Agents, Leave(a) PROVE LifeInv'
  BY <1>16 DEF Leave
<1>17. ASSUME NEW a \in Agents, Disconnect(a) PROVE LifeInv'
  BY <1>17 DEF Disconnect
<1>18. ASSUME NEW a \in Agents, ClearLook(a) PROVE LifeInv'
  BY <1>18 DEF ClearLook
<1>19. ASSUME NEW a \in Agents, ClearLeader(a) PROVE LifeInv'
  BY <1>19 DEF ClearLeader
<1>20. ASSUME NEW a \in Agents, NEW t \in Timers, StartInsert(a, t) PROVE LifeInv'
  BY <1>20 DEF StartInsert
<1>21. ASSUME NEW v \in Votes, DeadlineFires(v) PROVE LifeInv'
  BY <1>21 DEF DeadlineFires
<1>22. ASSUME NEW v \in Votes, CloseStore(v) PROVE LifeInv'
  BY <1>22 DEF CloseStore
<1>23. ASSUME NEW v \in Votes, CloseTell(v) PROVE LifeInv'
  BY <1>23 DEF CloseTell
<1>24. ASSUME NEW t \in Timers, TimerWakes(t) PROVE LifeInv'
  BY <1>24 DEF TimerWakes, Sleep
<1>25. ASSUME NEW t \in Timers, TimerPicks(t) PROVE LifeInv'
  BY <1>25 DEF TimerPicks, Sleep
<1>26. ASSUME NEW t \in Timers, TimerConfirms(t) PROVE LifeInv'
  BY <1>26 DEF TimerConfirms, Sleep
<1>27. ASSUME NEW t \in Timers, TimerCrowns(t) PROVE LifeInv'
  BY <1>27 DEF TimerCrowns, Sleep
<1>28. CASE DestroyStore
  BY <1>28 DEF DestroyStore, DeleteArtifacts
<1>29. CASE DestroyMembers
  BY <1>29 DEF DestroyMembers
<1>30. CASE DestroyForget
  BY <1>30 DEF DestroyForget, ForgetRoom
<1>31. CASE Restart
  BY <1>31 DEF Restart, LoadedBallots
<1>32. CASE UNCHANGED vars
  BY <1>32 DEF vars
<1>33. ASSUME NEW a \in Agents, FailedRegistration(a) PROVE LifeInv'
  BY <1>33 DEF FailedRegistration
<1> QED
  BY <1>1, <1>2, <1>3, <1>4, <1>5, <1>6, <1>7, <1>8, <1>9, <1>10, <1>11,
     <1>12, <1>13, <1>14, <1>15, <1>16, <1>17, <1>18, <1>19, <1>20, <1>21, <1>22,
     <1>23, <1>24, <1>25, <1>26, <1>27, <1>28, <1>29, <1>30, <1>31, <1>32, <1>33
     DEF Next

(* Each step keeps ballots to the eligible. *)
LEMMA BallotsStep ==
    ASSUME TypeOK, LifeInv, [Next]_vars
    PROVE  BallotsEligible'
<1> USE NoneAssumption DEF room, store, memory, leading, request, votehist, leadhist,
        VoteType, RequestType, BallotsEligible, LifeInv, TypeOK, Goto, Answer
<1>1. ASSUME NEW a \in Agents, NEW v \in Votes, CreateCheck(a, v) PROVE BallotsEligible'
  BY <1>1 DEF CreateCheck
<1>2. ASSUME NEW a \in Agents, NEW v \in Votes, CastCheck(a, v) PROVE BallotsEligible'
  BY <1>2 DEF CastCheck
<1>3. ASSUME NEW a \in Agents, CreateStore(a) PROVE BallotsEligible'
  BY <1>3 DEF CreateStore
<1>4. ASSUME NEW a \in Agents, CreateActivate(a) PROVE BallotsEligible'
  BY <1>4 DEF CreateActivate
<1>5. ASSUME NEW a \in Agents, CreateConfirm(a) PROVE BallotsEligible'
  BY <1>5 DEF CreateConfirm, ForgetRoom
<1>6. ASSUME NEW a \in Agents, CreateUndo(a) PROVE BallotsEligible'
  BY <1>6 DEF CreateUndo, DeleteArtifacts
<1>7. ASSUME NEW a \in Agents, CastStore(a) PROVE BallotsEligible'
  BY <1>7 DEF CastStore
<1>8. ASSUME NEW a \in Agents, CastRefused(a) PROVE BallotsEligible'
  BY <1>8 DEF CastRefused
<1>9. ASSUME NEW a \in Agents, CastCount(a) PROVE BallotsEligible'
  BY <1>9 DEF CastCount
<1>10. ASSUME NEW a \in Agents, CastUncounted(a) PROVE BallotsEligible'
  BY <1>10 DEF CastUncounted
<1>11. ASSUME NEW a \in Agents, CastClose(a) PROVE BallotsEligible'
  BY <1>11 DEF CastClose
<1>12. ASSUME NEW a \in Agents, StartCheck(a) PROVE BallotsEligible'
  BY <1>12 DEF StartCheck
<1>13. ASSUME NEW a \in Agents, StartConfirm(a) PROVE BallotsEligible'
  BY <1>13 DEF StartConfirm, ForgetRoom
<1>14. ASSUME NEW a \in Agents, Decline(a) PROVE BallotsEligible'
  BY <1>14 DEF Decline
<1>15. ASSUME NEW a \in Agents, Join(a) PROVE BallotsEligible'
  BY <1>15 DEF Join
<1>16. ASSUME NEW a \in Agents, Leave(a) PROVE BallotsEligible'
  BY <1>16 DEF Leave
<1>17. ASSUME NEW a \in Agents, Disconnect(a) PROVE BallotsEligible'
  BY <1>17 DEF Disconnect
<1>18. ASSUME NEW a \in Agents, ClearLook(a) PROVE BallotsEligible'
  BY <1>18 DEF ClearLook
<1>19. ASSUME NEW a \in Agents, ClearLeader(a) PROVE BallotsEligible'
  BY <1>19 DEF ClearLeader
<1>20. ASSUME NEW a \in Agents, NEW t \in Timers, StartInsert(a, t) PROVE BallotsEligible'
  BY <1>20 DEF StartInsert
<1>21. ASSUME NEW v \in Votes, DeadlineFires(v) PROVE BallotsEligible'
  BY <1>21 DEF DeadlineFires
<1>22. ASSUME NEW v \in Votes, CloseStore(v) PROVE BallotsEligible'
  BY <1>22 DEF CloseStore
<1>23. ASSUME NEW v \in Votes, CloseTell(v) PROVE BallotsEligible'
  BY <1>23 DEF CloseTell
<1>24. ASSUME NEW t \in Timers, TimerWakes(t) PROVE BallotsEligible'
  BY <1>24 DEF TimerWakes, Sleep
<1>25. ASSUME NEW t \in Timers, TimerPicks(t) PROVE BallotsEligible'
  BY <1>25 DEF TimerPicks, Sleep
<1>26. ASSUME NEW t \in Timers, TimerConfirms(t) PROVE BallotsEligible'
  BY <1>26 DEF TimerConfirms, Sleep
<1>27. ASSUME NEW t \in Timers, TimerCrowns(t) PROVE BallotsEligible'
  BY <1>27 DEF TimerCrowns, Sleep
<1>28. CASE DestroyStore
  BY <1>28 DEF DestroyStore, DeleteArtifacts
<1>29. CASE DestroyMembers
  BY <1>29 DEF DestroyMembers
<1>30. CASE DestroyForget
  BY <1>30 DEF DestroyForget, ForgetRoom
<1>31. CASE Restart
  BY <1>31 DEF Restart, LoadedBallots
<1>32. CASE UNCHANGED vars
  BY <1>32 DEF vars
<1>33. ASSUME NEW a \in Agents, FailedRegistration(a) PROVE BallotsEligible'
  BY <1>33 DEF FailedRegistration
<1> QED
  BY <1>1, <1>2, <1>3, <1>4, <1>5, <1>6, <1>7, <1>8, <1>9, <1>10, <1>11,
     <1>12, <1>13, <1>14, <1>15, <1>16, <1>17, <1>18, <1>19, <1>20, <1>21, <1>22,
     <1>23, <1>24, <1>25, <1>26, <1>27, <1>28, <1>29, <1>30, <1>31, <1>32, <1>33
     DEF Next

(* Each step keeps results sealed until the vote is complete. *)
LEMMA SealStep ==
    ASSUME TypeOK, LifeInv, SealInv, [Next]_vars
    PROVE  SealInv'
<1> USE NoneAssumption DEF room, store, memory, leading, request, votehist, leadhist,
        VoteType, RequestType, BallotsEligible, LifeInv, SealInv, TypeOK, Goto, Answer
<1>1. ASSUME NEW a \in Agents, NEW v \in Votes, CreateCheck(a, v) PROVE SealInv'
  BY <1>1 DEF CreateCheck
<1>2. ASSUME NEW a \in Agents, NEW v \in Votes, CastCheck(a, v) PROVE SealInv'
  BY <1>2 DEF CastCheck
<1>3. ASSUME NEW a \in Agents, CreateStore(a) PROVE SealInv'
  BY <1>3 DEF CreateStore
<1>4. ASSUME NEW a \in Agents, CreateActivate(a) PROVE SealInv'
  BY <1>4 DEF CreateActivate
<1>5. ASSUME NEW a \in Agents, CreateConfirm(a) PROVE SealInv'
  BY <1>5 DEF CreateConfirm, ForgetRoom
<1>6. ASSUME NEW a \in Agents, CreateUndo(a) PROVE SealInv'
  BY <1>6 DEF CreateUndo, DeleteArtifacts
<1>7. ASSUME NEW a \in Agents, CastStore(a) PROVE SealInv'
  BY <1>7 DEF CastStore
<1>8. ASSUME NEW a \in Agents, CastRefused(a) PROVE SealInv'
  BY <1>8 DEF CastRefused
<1>9. ASSUME NEW a \in Agents, CastCount(a) PROVE SealInv'
  <2> DEFINE v == on[a]
  <2>1. /\ pc[a] = "count" /\ v \in active /\ v \in Votes
        /\ closing[v] = "no" /\ told[v] = 0
    BY <1>9 DEF CastCount
  <2>2. counted' = [counted EXCEPT ![v] = @ \cup {a}]
    BY <1>9 DEF CastCount
  <2>3. /\ active' = active /\ closing' = closing /\ told' = told
        /\ expired' = expired /\ eligible' = eligible
    BY <1>9 DEF CastCount
  <2>4. pc'[a] = "full" => eligible[v] \subseteq counted'[v]
    <3>1. /\ eligible[v] \in SUBSET Agents /\ counted'[v] \in SUBSET eligible[v]
      BY <2>1, <2>2
    <3>2. pc'[a] = "full" => Cardinality(counted'[v]) >= Cardinality(eligible[v])
      BY <1>9 DEF CastCount
    <3> QED BY <3>1, <3>2, CompleteIsAll
  <2>5. /\ pc'[a] \in {"full", "idle"}
        /\ \A b \in Agents \ {a} : pc'[b] = pc[b] /\ on'[b] = on[b]
        /\ pc'[a] = "full" => on'[a] = v
    BY <1>9 DEF CastCount
  <2>6. \A b \in Agents : pc[b] \in {"store", "activate"} => on[b] # v
    BY <2>1
  <2>7. \A u \in Votes : counted[u] \subseteq counted'[u]
    BY <2>2
  <2>8. \A u \in Votes \ {v} : counted'[u] = counted[u]
    BY <2>2
  <2>9. \A b \in Agents : pc'[b] \in {"store", "activate"} =>
            counted'[on'[b]] = {}
    BY <2>5, <2>6, <2>8
  <2> QED BY <2>1, <2>3, <2>4, <2>5, <2>6, <2>7, <2>9
<1>10. ASSUME NEW a \in Agents, CastUncounted(a) PROVE SealInv'
  BY <1>10 DEF CastUncounted
<1>11. ASSUME NEW a \in Agents, CastClose(a) PROVE SealInv'
  BY <1>11 DEF CastClose
<1>12. ASSUME NEW a \in Agents, StartCheck(a) PROVE SealInv'
  BY <1>12 DEF StartCheck
<1>13. ASSUME NEW a \in Agents, StartConfirm(a) PROVE SealInv'
  BY <1>13 DEF StartConfirm, ForgetRoom
<1>14. ASSUME NEW a \in Agents, Decline(a) PROVE SealInv'
  BY <1>14 DEF Decline
<1>15. ASSUME NEW a \in Agents, Join(a) PROVE SealInv'
  BY <1>15 DEF Join
<1>16. ASSUME NEW a \in Agents, Leave(a) PROVE SealInv'
  BY <1>16 DEF Leave
<1>17. ASSUME NEW a \in Agents, Disconnect(a) PROVE SealInv'
  BY <1>17 DEF Disconnect
<1>18. ASSUME NEW a \in Agents, ClearLook(a) PROVE SealInv'
  BY <1>18 DEF ClearLook
<1>19. ASSUME NEW a \in Agents, ClearLeader(a) PROVE SealInv'
  BY <1>19 DEF ClearLeader
<1>20. ASSUME NEW a \in Agents, NEW t \in Timers, StartInsert(a, t) PROVE SealInv'
  BY <1>20 DEF StartInsert
<1>21. ASSUME NEW v \in Votes, DeadlineFires(v) PROVE SealInv'
  BY <1>21 DEF DeadlineFires
<1>22. ASSUME NEW v \in Votes, CloseStore(v) PROVE SealInv'
  BY <1>22 DEF CloseStore
<1>23. ASSUME NEW v \in Votes, CloseTell(v) PROVE SealInv'
  BY <1>23 DEF CloseTell
<1>24. ASSUME NEW t \in Timers, TimerWakes(t) PROVE SealInv'
  BY <1>24 DEF TimerWakes, Sleep
<1>25. ASSUME NEW t \in Timers, TimerPicks(t) PROVE SealInv'
  BY <1>25 DEF TimerPicks, Sleep
<1>26. ASSUME NEW t \in Timers, TimerConfirms(t) PROVE SealInv'
  BY <1>26 DEF TimerConfirms, Sleep
<1>27. ASSUME NEW t \in Timers, TimerCrowns(t) PROVE SealInv'
  BY <1>27 DEF TimerCrowns, Sleep
<1>28. CASE DestroyStore
  BY <1>28 DEF DestroyStore, DeleteArtifacts
<1>29. CASE DestroyMembers
  BY <1>29 DEF DestroyMembers
<1>30. CASE DestroyForget
  BY <1>30 DEF DestroyForget, ForgetRoom
<1>31. CASE Restart
  <2>1. \A a \in Agents : pc'[a] = "idle"
    BY <1>31 DEF Restart
  <2>2. /\ told' = told /\ expired' = expired /\ eligible' = eligible
        /\ \A v \in Votes : closing'[v] = "no"
        /\ \A v \in active' : rows[v] = "open"
        /\ \A v \in Votes : rows[v] # "open" => counted'[v] = counted[v]
    BY <1>31 DEF Restart
  <2>3. \A v \in Votes : told[v] > 0 => rows[v] \in {"closed", "gone"}
    OBVIOUS
  <2>4. \A v \in Votes : v \in active' => told'[v] = 0
    <3>1. \A v \in Votes : told[v] \in Nat
      OBVIOUS
    <3> QED BY <2>2, <2>3, <3>1
  <2>5. \A v \in Votes : told'[v] > 0 => v \in expired' \/ eligible'[v] \subseteq counted'[v]
    <3>1. \A v \in Votes : told[v] > 0 => rows[v] # "open"
      BY <2>3
    <3> QED BY <2>2, <3>1
  <2>6. \A v \in Votes : told'[v] <= 1
    BY <2>2
  <2> QED BY <2>1, <2>2, <2>4, <2>5, <2>6
<1>32. CASE UNCHANGED vars
  BY <1>32 DEF vars
<1>33. ASSUME NEW a \in Agents, FailedRegistration(a) PROVE SealInv'
  BY <1>33 DEF FailedRegistration
<1> QED
  BY <1>1, <1>2, <1>3, <1>4, <1>5, <1>6, <1>7, <1>8, <1>9, <1>10, <1>11,
     <1>12, <1>13, <1>14, <1>15, <1>16, <1>17, <1>18, <1>19, <1>20, <1>21, <1>22,
     <1>23, <1>24, <1>25, <1>26, <1>27, <1>28, <1>29, <1>30, <1>31, <1>32, <1>33
     DEF Next

(* Each step keeps uncounted ballots unacknowledged. *)
LEMMA UncountedStep ==
    ASSUME TypeOK, LifeInv, SealInv, UncountedUnacknowledged, [Next]_vars
    PROVE  UncountedUnacknowledged'
<1> USE NoneAssumption DEF room, store, memory, leading, request, votehist, leadhist,
        VoteType, RequestType, LifeInv, SealInv, UncountedUnacknowledged, TypeOK, Goto, Answer
<1>1. ASSUME NEW a \in Agents, NEW v \in Votes, CreateCheck(a, v) PROVE UncountedUnacknowledged'
  BY <1>1 DEF CreateCheck
<1>2. ASSUME NEW a \in Agents, NEW v \in Votes, CastCheck(a, v) PROVE UncountedUnacknowledged'
  BY <1>2 DEF CastCheck
<1>3. ASSUME NEW a \in Agents, CreateStore(a) PROVE UncountedUnacknowledged'
  BY <1>3 DEF CreateStore
<1>4. ASSUME NEW a \in Agents, CreateActivate(a) PROVE UncountedUnacknowledged'
  BY <1>4 DEF CreateActivate
<1>5. ASSUME NEW a \in Agents, CreateConfirm(a) PROVE UncountedUnacknowledged'
  BY <1>5 DEF CreateConfirm, ForgetRoom
<1>6. ASSUME NEW a \in Agents, CreateUndo(a) PROVE UncountedUnacknowledged'
  BY <1>6 DEF CreateUndo, DeleteArtifacts
<1>7. ASSUME NEW a \in Agents, CastStore(a) PROVE UncountedUnacknowledged'
  BY <1>7 DEF CastStore
<1>8. ASSUME NEW a \in Agents, CastRefused(a) PROVE UncountedUnacknowledged'
  BY <1>8 DEF CastRefused
<1>9. ASSUME NEW a \in Agents, CastCount(a) PROVE UncountedUnacknowledged'
  BY <1>9 DEF CastCount
<1>10. ASSUME NEW a \in Agents, CastUncounted(a) PROVE UncountedUnacknowledged'
  BY <1>10 DEF CastUncounted
<1>11. ASSUME NEW a \in Agents, CastClose(a) PROVE UncountedUnacknowledged'
  BY <1>11 DEF CastClose
<1>12. ASSUME NEW a \in Agents, StartCheck(a) PROVE UncountedUnacknowledged'
  BY <1>12 DEF StartCheck
<1>13. ASSUME NEW a \in Agents, StartConfirm(a) PROVE UncountedUnacknowledged'
  BY <1>13 DEF StartConfirm, ForgetRoom
<1>14. ASSUME NEW a \in Agents, Decline(a) PROVE UncountedUnacknowledged'
  BY <1>14 DEF Decline
<1>15. ASSUME NEW a \in Agents, Join(a) PROVE UncountedUnacknowledged'
  BY <1>15 DEF Join
<1>16. ASSUME NEW a \in Agents, Leave(a) PROVE UncountedUnacknowledged'
  BY <1>16 DEF Leave
<1>17. ASSUME NEW a \in Agents, Disconnect(a) PROVE UncountedUnacknowledged'
  BY <1>17 DEF Disconnect
<1>18. ASSUME NEW a \in Agents, ClearLook(a) PROVE UncountedUnacknowledged'
  BY <1>18 DEF ClearLook
<1>19. ASSUME NEW a \in Agents, ClearLeader(a) PROVE UncountedUnacknowledged'
  BY <1>19 DEF ClearLeader
<1>20. ASSUME NEW a \in Agents, NEW t \in Timers, StartInsert(a, t) PROVE UncountedUnacknowledged'
  BY <1>20 DEF StartInsert
<1>21. ASSUME NEW v \in Votes, DeadlineFires(v) PROVE UncountedUnacknowledged'
  BY <1>21 DEF DeadlineFires
<1>22. ASSUME NEW v \in Votes, CloseStore(v) PROVE UncountedUnacknowledged'
  BY <1>22 DEF CloseStore
<1>23. ASSUME NEW v \in Votes, CloseTell(v) PROVE UncountedUnacknowledged'
  BY <1>23 DEF CloseTell
<1>24. ASSUME NEW t \in Timers, TimerWakes(t) PROVE UncountedUnacknowledged'
  BY <1>24 DEF TimerWakes, Sleep
<1>25. ASSUME NEW t \in Timers, TimerPicks(t) PROVE UncountedUnacknowledged'
  BY <1>25 DEF TimerPicks, Sleep
<1>26. ASSUME NEW t \in Timers, TimerConfirms(t) PROVE UncountedUnacknowledged'
  BY <1>26 DEF TimerConfirms, Sleep
<1>27. ASSUME NEW t \in Timers, TimerCrowns(t) PROVE UncountedUnacknowledged'
  BY <1>27 DEF TimerCrowns, Sleep
<1>28. CASE DestroyStore
  BY <1>28 DEF DestroyStore, DeleteArtifacts
<1>29. CASE DestroyMembers
  BY <1>29 DEF DestroyMembers
<1>30. CASE DestroyForget
  BY <1>30 DEF DestroyForget, ForgetRoom
<1>31. CASE Restart
  BY <1>31 DEF Restart, LoadedBallots
<1>32. CASE UNCHANGED vars
  BY <1>32 DEF vars
<1>33. ASSUME NEW a \in Agents, FailedRegistration(a) PROVE UncountedUnacknowledged'
  BY <1>33 DEF FailedRegistration
<1> QED
  BY <1>1, <1>2, <1>3, <1>4, <1>5, <1>6, <1>7, <1>8, <1>9, <1>10, <1>11,
     <1>12, <1>13, <1>14, <1>15, <1>16, <1>17, <1>18, <1>19, <1>20, <1>21, <1>22,
     <1>23, <1>24, <1>25, <1>26, <1>27, <1>28, <1>29, <1>30, <1>31, <1>32, <1>33
     DEF Next

-----------------------------------------------------------------------------
(* The inductive invariant holds. *)
THEOREM Inductive == Spec => []IInv
<1>1. Init => IInv
  <2> SUFFICES ASSUME Init PROVE IInv
    OBVIOUS
  <2> USE NoneAssumption DEF Init
  <2>1. VoteType
    BY DEF VoteType
  <2>2. LeadType
    <3>1. restarts \in 0 .. MaxRestarts
      BY MaxRestartsAssumption
    <3>2. tpc = [t \in Timers |-> "free"] /\ winner = [t \in Timers |-> None]
      OBVIOUS
    <3> QED BY <3>1, <3>2 DEF LeadType
  <2>3. RequestType
    BY DEF RequestType, PCs
  <2>4. BallotsEligible
    BY DEF BallotsEligible
  <2>5. LifeInv
    BY DEF LifeInv
  <2>6. SealInv
    BY DEF SealInv
  <2>7. UncountedUnacknowledged
    BY DEF UncountedUnacknowledged
  <2> QED BY <2>1, <2>2, <2>3, <2>4, <2>5, <2>6, <2>7 DEF IInv, TypeOK
<1>2. IInv /\ [Next]_vars => IInv'
  BY VoteTypeStep, LeadTypeStep, RequestTypeStep, BallotsStep, LifeStep, SealStep,
     UncountedStep
     DEF IInv, TypeOK
<1> QED BY <1>1, <1>2, PTL DEF Spec

(* The state keeps its types, and only agents that were members when the  *)
(* vote opened ever have a ballot in it.                                   *)
THEOREM TypeCorrect == Spec => []TypeOK
<1>1. IInv => TypeOK
  BY DEF IInv
<1> QED BY <1>1, Inductive, PTL

(* The result of a vote is broadcast at most once, and never before its    *)
(* deadline or its last ballot.                                            *)
THEOREM Sealed == Spec => []SealedUntilComplete
<1>1. IInv => SealedUntilComplete
  BY DEF IInv, SealInv, SealedUntilComplete, TypeOK, VoteType
<1> QED BY <1>1, Inductive, PTL

(* An agent told that it voted is counted in the result. *)
THEOREM Acknowledged == Spec => []UncountedUnacknowledged
<1>1. IInv => UncountedUnacknowledged
  BY DEF IInv
<1> QED BY <1>1, Inductive, PTL

(* Nobody votes once a result is out. *)
THEOREM NoLateBallot == Spec => NoBallotAfterResult
<1> DEFINE Keeps == \A v \in Votes : told[v] > 0 => stored'[v] \subseteq stored[v]
<1>1. ASSUME IInv, [Next]_vars PROVE Keeps
  <2> USE DEF room, store, memory, leading, request, votehist, leadhist
  <2>1. ASSUME NEW a \in Agents, CastStore(a) PROVE Keeps
    <3>1. on[a] \in Votes /\ rows[on[a]] = "open" /\ stored \in [Votes -> SUBSET Agents]
      BY <1>1, <2>1 DEF CastStore, IInv, TypeOK, RequestType, VoteType
    <3>2. ~(told[on[a]] > 0)
      BY <1>1, <3>1 DEF IInv, LifeInv
    <3> QED BY <2>1, <3>1, <3>2 DEF CastStore
  <2>2. ASSUME DestroyStore \/ \E a \in Agents : CreateUndo(a) PROVE Keeps
    BY <2>2 DEF DestroyStore, CreateUndo, DeleteArtifacts
  <2>3. CASE UNCHANGED stored
    BY <2>3
  <2>4. \/ UNCHANGED stored \/ DestroyStore
        \/ \E a \in Agents : CastStore(a) \/ CreateUndo(a)
    BY <1>1 DEF Next, vars, CreateCheck, CreateStore, CreateActivate, CreateConfirm,
        CastCheck, CastRefused, CastCount, CastUncounted, CastClose, StartCheck,
        StartInsert, StartConfirm, Decline, Join, Leave, FailedRegistration, Disconnect, ClearLook,
        ClearLeader, DeadlineFires, CloseStore, CloseTell, TimerWakes, TimerPicks,
        TimerConfirms, TimerCrowns, DestroyMembers, DestroyForget, Restart
  <2> QED BY <2>1, <2>2, <2>3, <2>4
<1>2. IInv /\ [Next]_vars => [Keeps]_vars
  BY <1>1
<1> QED BY <1>2, Inductive, PTL DEF Spec, NoBallotAfterResult

-----------------------------------------------------------------------------
(* The steps, by what they are part of. *)
Opening(a) ==
    \/ \E v \in Votes : CreateCheck(a, v)
    \/ CreateStore(a) \/ CreateActivate(a) \/ CreateConfirm(a) \/ CreateUndo(a)

Casting(a) ==
    \/ \E v \in Votes : CastCheck(a, v)
    \/ CastStore(a) \/ CastRefused(a) \/ CastCount(a) \/ CastUncounted(a) \/ CastClose(a)

Electing(a) ==
    \/ StartCheck(a) \/ StartConfirm(a) \/ Decline(a)
    \/ \E t \in Timers : StartInsert(a, t)

Moving(a) ==
    \/ Join(a) \/ Leave(a) \/ FailedRegistration(a)
    \/ Disconnect(a) \/ ClearLook(a) \/ ClearLeader(a)

Ending(v) == DeadlineFires(v) \/ CloseStore(v) \/ CloseTell(v)

Timing(t) == TimerWakes(t) \/ TimerPicks(t) \/ TimerConfirms(t) \/ TimerCrowns(t)

Destroying == DestroyStore \/ DestroyMembers \/ DestroyForget

(* Every step is of one of these kinds. *)
LEMMA NextIs ==
    [Next]_vars <=>
        \/ \E a \in Agents : Opening(a) \/ Casting(a) \/ Electing(a) \/ Moving(a)
        \/ \E v \in Votes : Ending(v)
        \/ \E t \in Timers : Timing(t)
        \/ Destroying \/ Restart \/ UNCHANGED vars
BY Zenon DEF Next, Opening, Casting, Electing, Moving, Ending, Timing, Destroying

-----------------------------------------------------------------------------
(* Leaders. *)

(* A step keeps every absent leader noticed or excused. *)
LEMMA LeaderStep ==
    ASSUME TypeOK, LeaderGoneOnlyUnnoticed, [Next]_vars
    PROVE  LeaderGoneOnlyUnnoticed'
<1> USE NoneAssumption DEF room, store, memory, leading, request, votehist, leadhist,
        LeadType, RequestType, TypeOK, Goto, Answer, LeaderGoneOnlyUnnoticed
<1>1. ASSUME NEW a \in Agents, Opening(a) PROVE LeaderGoneOnlyUnnoticed'
  BY <1>1 DEF Opening, CreateCheck, CreateStore, CreateActivate, CreateConfirm, CreateUndo,
     ForgetRoom
<1>2. ASSUME NEW a \in Agents, Casting(a) PROVE LeaderGoneOnlyUnnoticed'
  BY <1>2 DEF Casting, CastCheck, CastStore, CastRefused, CastCount, CastUncounted,
     CastClose
<1>3. ASSUME NEW a \in Agents, Electing(a) PROVE LeaderGoneOnlyUnnoticed'
  BY <1>3 DEF Electing, StartCheck, StartConfirm, Decline, StartInsert, ForgetRoom
<1>4. ASSUME NEW a \in Agents, Moving(a) PROVE LeaderGoneOnlyUnnoticed'
  BY <1>4 DEF Moving, Join, Leave, FailedRegistration, Disconnect, ClearLook, ClearLeader
<1>5. ASSUME NEW v \in Votes, Ending(v) PROVE LeaderGoneOnlyUnnoticed'
  BY <1>5 DEF Ending, DeadlineFires, CloseStore, CloseTell
<1>6. ASSUME NEW t \in Timers, Timing(t) PROVE LeaderGoneOnlyUnnoticed'
  BY <1>6 DEF Timing, TimerWakes, TimerPicks, TimerConfirms, TimerCrowns, Sleep
<1>7. CASE Destroying
  BY <1>7 DEF Destroying, DestroyStore, DestroyMembers, DestroyForget, ForgetRoom
<1>8. CASE Restart
  BY <1>8 DEF Restart
<1>9. CASE UNCHANGED vars
  BY <1>9 DEF vars
<1> QED BY <1>1, <1>2, <1>3, <1>4, <1>5, <1>6, <1>7, <1>8, <1>9, NextIs

(* A leader that is no member is being cleaned up after, left by           *)
(* leave_room, was taken out with a registration that could not be         *)
(* acknowledged, or was crowned when it had gone.                          *)
THEOREM LeadersGoUnnoticedThreeWays == Spec => []LeaderGoneOnlyUnnoticed
<1>1. Init => LeaderGoneOnlyUnnoticed
  BY DEF Init, LeaderGoneOnlyUnnoticed
<1>2. IInv /\ LeaderGoneOnlyUnnoticed /\ [Next]_vars => LeaderGoneOnlyUnnoticed'
  BY LeaderStep DEF IInv
<1> QED BY <1>1, <1>2, Inductive, PTL DEF Spec

-----------------------------------------------------------------------------
(* Elections. *)

(* A starter whose look is not out of date will find no election; unless   *)
(* one was, the timer that runs is that of the election, or the room was   *)
(* forgotten meanwhile, and whoever looked before is known to be late.     *)
TimerInv ==
    /\ Destroyed => members = {}
    /\ \A a \in Starting \ racing : election = None
    /\ ~ raced => \A t \in Timers : tpc[t] \in {"wait", "woke"} =>
           \/ election # None /\ election.timer = t
           \/ election = None /\ Destroyed /\ Starting \subseteq racing

(* A step keeps timers with their elections. *)
LEMMA TimerStep ==
    ASSUME TypeOK, TimerInv, [Next]_vars
    PROVE  TimerInv'
<1> USE NoneAssumption DEF room, store, memory, leading, request, votehist, leadhist,
        LeadType, RequestType, TypeOK, Goto, Answer, TimerInv, Starting, Destroyed, Elections
<1>1. ASSUME NEW a \in Agents, Opening(a) PROVE TimerInv'
  BY <1>1 DEF Opening, CreateCheck, CreateStore, CreateActivate, CreateConfirm, CreateUndo,
     ForgetRoom
<1>2. ASSUME NEW a \in Agents, Casting(a) PROVE TimerInv'
  BY <1>2 DEF Casting, CastCheck, CastStore, CastRefused, CastCount, CastUncounted,
     CastClose
<1>3. ASSUME NEW a \in Agents, Electing(a) PROVE TimerInv'
  <2>1. CASE StartCheck(a)
    BY <2>1 DEF StartCheck
  <2>2. CASE StartConfirm(a)
    BY <2>2 DEF StartConfirm, ForgetRoom
  <2>3. CASE Decline(a)
    <3>1. /\ election # None /\ election' = [election EXCEPT !.declined = @ \cup {a}]
          /\ UNCHANGED <<members, destroy, pc, tpc, racing, raced>>
      BY <2>3 DEF Decline
    <3>2. election \in Elections
      BY <3>1
    <3>3. election'.timer = election.timer
      BY <3>1, <3>2
    <3>4. \A b \in Starting : b \in racing
      BY <3>1
    <3> QED BY <3>1, <3>3, <3>4
  <2>4. ASSUME NEW t \in Timers, StartInsert(a, t) PROVE TimerInv'
    <3>1. /\ pc[a] = "insert" /\ tpc[t] = "free" /\ pc' = [pc EXCEPT ![a] = "started"]
          /\ election' = [candidates |-> held[a], declined |-> {}, timer |-> t]
          /\ tpc' = [tpc EXCEPT ![t] = "wait"]
          /\ racing' = (racing \cup Starting) \ {a}
          /\ raced' = (raced \/ a \in racing)
          /\ UNCHANGED <<members, destroy>>
      BY <2>4 DEF StartInsert
    <3>2. election' \in Elections /\ election'.timer = t
      BY <3>1
    <3>3. election' # None
      BY <3>2
    <3>4. \A b \in Agents : b \in Starting' => b \in racing'
      BY <3>1
    <3>5. ~ raced' => \A u \in Timers : tpc'[u] \in {"wait", "woke"} => u = t
      BY <3>1
    <3> QED BY <3>1, <3>2, <3>3, <3>4, <3>5
  <2> QED BY <1>3, <2>1, <2>2, <2>3, <2>4 DEF Electing
<1>4. ASSUME NEW a \in Agents, Moving(a) PROVE TimerInv'
  BY <1>4 DEF Moving, Join, Leave, FailedRegistration, Disconnect, ClearLook, ClearLeader
<1>5. ASSUME NEW v \in Votes, Ending(v) PROVE TimerInv'
  BY <1>5 DEF Ending, DeadlineFires, CloseStore, CloseTell
<1>6. ASSUME NEW t \in Timers, Timing(t) PROVE TimerInv'
  BY <1>6 DEF Timing, TimerWakes, TimerPicks, TimerConfirms, TimerCrowns, Sleep
<1>7. CASE Destroying
  BY <1>7 DEF Destroying, DestroyStore, DestroyMembers, DestroyForget, ForgetRoom
<1>8. CASE Restart
  BY <1>8 DEF Restart
<1>9. CASE UNCHANGED vars
  BY <1>9 DEF vars
<1> QED BY <1>1, <1>2, <1>3, <1>4, <1>5, <1>6, <1>7, <1>8, <1>9, NextIs

(* An election is decided by the timer its own start spawned, unless a     *)
(* start raced another or the destruction of the room.                     *)
THEOREM ElectionsRunTheirTime == Spec => OwnTimerDecides
<1> DEFINE Own == \A t \in Timers :
               (tpc[t] = "woke" /\ tpc'[t] # "woke" /\ election # None) =>
                   election.timer = t \/ raced \/ restarts' # restarts
<1>1. Init => TimerInv
  BY DEF Init, TimerInv, Starting, Destroyed
<1>2. IInv /\ TimerInv /\ [Next]_vars => TimerInv'
  BY TimerStep DEF IInv
<1>3. TimerInv => [Own]_vars
  BY DEF TimerInv
<1> QED BY <1>1, <1>2, <1>3, Inductive, PTL DEF Spec, OwnTimerDecides

-----------------------------------------------------------------------------
(* The destruction of the room, and what is created meanwhile. *)

(* Its creator is at work on v, and has yet to look whether the room is    *)
(* there.                                                                  *)
Creating(v) == \E a \in Agents : on[a] = v /\ pc[a] \in {"activate", "confirm", "undo"}

(* A vote has one creator, and one that is undone is not in memory. *)
CreatorInv ==
    /\ \A a, b \in Agents :
           /\ on[a] = on[b]
           /\ pc[a] \in {"store", "activate", "confirm", "undo"}
           /\ pc[b] \in {"store", "activate", "confirm", "undo"}
           => a = b
    /\ \A a \in Agents : pc[a] = "undo" => on[a] \notin active

(* Nobody is at work in the room, or will be. *)
Quiet ==
    /\ destroy = "done" /\ members = {} /\ leader = None
    /\ \A a \in Agents : pc[a] = "idle"
    /\ \A t \in Timers : tpc[t] = "free"

(* From its destruction on, a vote of the room is on its way to be         *)
(* deleted, or a crash cut its creation short and nothing happens any      *)
(* more; what is created afterwards in memory is yet to be confirmed.      *)
GoneInv ==
    /\ destroy # "no" => \A v \in Votes : rows[v] \in {"open", "closed"} =>
           Creating(v) \/ (Quiet /\ v \in orphaned)
    /\ destroy = "done" =>
           /\ \A v \in active :
                  v \in orphaned \/ \E a \in Agents : on[a] = v /\ pc[a] = "confirm"
           /\ election # None => \E a \in Agents : pc[a] = "started"
           /\ leader # None => leader \in absent

(* A step keeps votes with their creators. *)
LEMMA CreatorStep ==
    ASSUME TypeOK, SealInv, CreatorInv, [Next]_vars
    PROVE  CreatorInv'
<1> USE NoneAssumption DEF room, store, memory, leading, request, votehist, leadhist,
        VoteType, RequestType, TypeOK, Goto, Answer, CreatorInv
<1>1. ASSUME NEW a \in Agents, Opening(a) PROVE CreatorInv'
  <2>1. ASSUME NEW v \in Votes, CreateCheck(a, v) PROVE CreatorInv'
    BY <2>1 DEF CreateCheck
  <2>2. CASE CreateStore(a)
    BY <2>2 DEF CreateStore
  <2>3. CASE CreateActivate(a)
    BY <2>3 DEF CreateActivate
  <2>4. CASE CreateConfirm(a)
    <3>1. /\ pc[a] = "confirm" /\ UNCHANGED rows
          /\ \A b \in Agents \ {a} : pc'[b] = pc[b] /\ on'[b] = on[b]
      BY <2>4 DEF CreateConfirm
    <3>2. CASE Destroyed
      <4>1. pc'[a] = "undo" /\ on'[a] = on[a] /\ active' = {}
        BY <2>4, <3>2 DEF CreateConfirm, ForgetRoom
      <4> QED BY <3>1, <4>1
    <3>3. CASE ~ Destroyed
      <4>1. pc'[a] = "idle" /\ active' = active
        BY <2>4, <3>3 DEF CreateConfirm
      <4> QED BY <3>1, <4>1
    <3> QED BY <3>2, <3>3
  <2>5. CASE CreateUndo(a)
    BY <2>5 DEF CreateUndo
  <2> QED BY <1>1, <2>1, <2>2, <2>3, <2>4, <2>5 DEF Opening
<1>2. ASSUME NEW a \in Agents, Casting(a) PROVE CreatorInv'
  <2>1. /\ pc[a] \in {"idle", "ballot", "count", "full"}
        /\ pc'[a] \in {"idle", "ballot", "count", "full", "closing"}
        /\ \A b \in Agents \ {a} : pc'[b] = pc[b] /\ on'[b] = on[b]
    BY <1>2 DEF Casting, CastCheck, CastStore, CastRefused, CastCount, CastUncounted,
       CastClose
  <2>2. /\ active' \subseteq active
        /\ UNCHANGED <<rows>>
    BY <1>2 DEF Casting, CastCheck, CastStore, CastRefused, CastCount, CastUncounted,
       CastClose
  <2> QED BY <2>1, <2>2
<1>3. ASSUME NEW a \in Agents, Electing(a) PROVE CreatorInv'
  BY <1>3 DEF Electing, StartCheck, StartConfirm, Decline, StartInsert, ForgetRoom
<1>4. ASSUME NEW a \in Agents, Moving(a) PROVE CreatorInv'
  BY <1>4 DEF Moving, Join, Leave, FailedRegistration, Disconnect, ClearLook, ClearLeader
<1>5. ASSUME NEW v \in Votes, Ending(v) PROVE CreatorInv'
  BY <1>5 DEF Ending, DeadlineFires, CloseStore, CloseTell
<1>6. ASSUME NEW t \in Timers, Timing(t) PROVE CreatorInv'
  BY <1>6 DEF Timing, TimerWakes, TimerPicks, TimerConfirms, TimerCrowns, Sleep
<1>7. CASE Destroying
  BY <1>7 DEF Destroying, DestroyStore, DestroyMembers, DestroyForget, ForgetRoom
<1>8. CASE Restart
  BY <1>8 DEF Restart
<1>9. CASE UNCHANGED vars
  BY <1>9 DEF vars
<1> QED BY <1>1, <1>2, <1>3, <1>4, <1>5, <1>6, <1>7, <1>8, <1>9, NextIs

(* A step leaves nothing of a destroyed room that will not be undone. *)
LEMMA GoneStep ==
    ASSUME TypeOK, TimerInv, CreatorInv, GoneInv, [Next]_vars
    PROVE  GoneInv'
<1> USE NoneAssumption DEF room, store, memory, leading, request, votehist, leadhist,
        VoteType, LeadType, RequestType, TypeOK, Goto, Answer, GoneInv, Creating, Quiet,
        Destroyed, Unlocked
<1>1. ASSUME NEW a \in Agents, Opening(a) PROVE GoneInv'
  <2>1. ASSUME NEW v \in Votes, CreateCheck(a, v) PROVE GoneInv'
    BY <2>1 DEF CreateCheck
  <2>2. CASE CreateStore(a)
    BY <2>2 DEF CreateStore
  <2>3. CASE CreateActivate(a)
    BY <2>3 DEF CreateActivate
  <2>4. CASE CreateConfirm(a)
    BY <2>4 DEF CreateConfirm, ForgetRoom
  <2>5. CASE CreateUndo(a)
    BY <2>5 DEF CreateUndo, DeleteArtifacts
  <2> QED BY <1>1, <2>1, <2>2, <2>3, <2>4, <2>5 DEF Opening
<1>2. ASSUME NEW a \in Agents, Casting(a) PROVE GoneInv'
  <2>1. /\ pc[a] \in {"idle", "ballot", "count", "full"}
        /\ pc'[a] \in {"idle", "ballot", "count", "full", "closing"}
        /\ \A b \in Agents \ {a} : pc'[b] = pc[b] /\ on'[b] = on[b]
    BY <1>2 DEF Casting, CastCheck, CastStore, CastRefused, CastCount, CastUncounted,
       CastClose
  <2>2. /\ active' \subseteq active
        /\ UNCHANGED <<rows, destroy, election, leader, orphaned, absent, members, tpc>>
    BY <1>2 DEF Casting, CastCheck, CastStore, CastRefused, CastCount, CastUncounted,
       CastClose
  <2>3. \A v \in Votes : Creating(v) => Creating(v)'
    BY <2>1
  <2>4. Quiet => Quiet'
    BY <1>2, <2>2 DEF Casting, CastCheck, CastStore, CastRefused, CastCount, CastUncounted,
       CastClose
  <2>5. \A p \in {"confirm", "started"} : \A b \in Agents :
            pc[b] = p => pc'[b] = p /\ on'[b] = on[b]
    BY <2>1
  <2> HIDE DEF Creating, Quiet
  <2> QED BY <2>2, <2>3, <2>4, <2>5
<1>3. ASSUME NEW a \in Agents, Electing(a) PROVE GoneInv'
  <2>1. CASE StartCheck(a)
    BY <2>1 DEF StartCheck
  <2>2. CASE StartConfirm(a)
    BY <2>2 DEF StartConfirm, ForgetRoom
  <2>3. CASE Decline(a)
    BY <2>3 DEF Decline
  <2>4. ASSUME NEW t \in Timers, StartInsert(a, t) PROVE GoneInv'
    BY <2>4 DEF StartInsert
  <2> QED BY <1>3, <2>1, <2>2, <2>3, <2>4 DEF Electing
<1>4. ASSUME NEW a \in Agents, Moving(a) PROVE GoneInv'
  <2>1. /\ \A b \in Agents : pc[b] \notin {"idle", "look", "clear"} =>
               pc'[b] = pc[b] /\ on'[b] = on[b]
        /\ \A b \in Agents : pc'[b] \notin {"idle", "look", "clear"} =>
               pc'[b] = pc[b] /\ on'[b] = on[b]
    BY <1>4 DEF Moving, Join, Leave, FailedRegistration, Disconnect, ClearLook, ClearLeader
  <2>2. /\ UNCHANGED <<rows, active, destroy, election, orphaned, tpc>>
        /\ leader' \in {leader, None} /\ absent' \in {absent, absent \ {a}}
        /\ absent' # absent => destroy = "no"
    BY <1>4 DEF Moving, Join, Leave, FailedRegistration, Disconnect, ClearLook, ClearLeader
  <2>3. \A v \in Votes : Creating(v) => Creating(v)'
    BY <2>1
  <2>4. Quiet => Quiet'
    <3>1. destroy = "no" \/ a \in members \cup {leader} \/ pc[a] # "idle"
      BY <1>4 DEF Moving, Join, Leave, FailedRegistration, Disconnect, ClearLook, ClearLeader
    <3>2. a # None
      OBVIOUS
    <3> QED BY <3>1, <3>2
  <2>5. \A p \in {"confirm", "started"} : \A b \in Agents :
            pc[b] = p => pc'[b] = p /\ on'[b] = on[b]
    BY <2>1
  <2>6. destroy = "done" /\ leader' # None => leader' \in absent'
    BY <2>2
  <2> HIDE DEF Creating, Quiet
  <2> QED BY <2>2, <2>3, <2>4, <2>5, <2>6
<1>5. ASSUME NEW v \in Votes, Ending(v) PROVE GoneInv'
  BY <1>5 DEF Ending, DeadlineFires, CloseStore, CloseTell
<1>6. ASSUME NEW t \in Timers, Timing(t) PROVE GoneInv'
  BY <1>6 DEF Timing, TimerWakes, TimerPicks, TimerConfirms, TimerCrowns, Sleep, TimerInv
<1>7. CASE Destroying
  BY <1>7 DEF Destroying, DestroyStore, DestroyMembers, DestroyForget, ForgetRoom,
     DeleteArtifacts
<1>8. CASE Restart
  <2>1. /\ destroy' = IF destroy = "no" THEN "no" ELSE "done"
        /\ members' = {} /\ leader' = None /\ election' = None
        /\ \A a \in Agents : pc'[a] = "idle"
        /\ \A t \in Timers : tpc'[t] = "free"
    BY <1>8 DEF Restart
  <2>2. \A v \in Votes : rows'[v] \in {"open", "closed"} => rows[v] \in {"open", "closed"}
    BY <1>8 DEF Restart, FoundComplete
  <2>3. orphaned \subseteq orphaned' /\ \A v \in Votes : Creating(v) => v \in orphaned'
    BY <1>8 DEF Restart
  <2>4. \A v \in active' : v \in Votes /\ rows'[v] = "open"
    BY <1>8 DEF Restart
  <2> HIDE DEF Creating
  <2>5. destroy # "no" => \A v \in Votes : rows'[v] \in {"open", "closed"} => v \in orphaned'
    BY <2>2, <2>3
  <2> QED BY <2>1, <2>4, <2>5
<1>9. CASE UNCHANGED vars
  BY <1>9 DEF vars
<1> QED BY <1>1, <1>2, <1>3, <1>4, <1>5, <1>6, <1>7, <1>8, <1>9, NextIs

(* When the destruction of the room and all that raced it are over,        *)
(* nothing of the room is left, in memory or in the store, but for votes a *)
(* crash cut short and a leader crowned after the members were removed.    *)
THEOREM DestroyedRoomsAreEmptied == Spec => []GoneRoomLeavesNothing
<1>1. Init => TimerInv /\ CreatorInv /\ GoneInv
  BY DEF Init, TimerInv, Starting, Destroyed, CreatorInv, GoneInv
<1>2. IInv /\ TimerInv /\ CreatorInv /\ GoneInv /\ [Next]_vars
          => TimerInv' /\ CreatorInv' /\ GoneInv'
  BY TimerStep, CreatorStep, GoneStep DEF IInv
<1>3. IInv /\ GoneInv => GoneRoomLeavesNothing
  BY DEF IInv, TypeOK, VoteType, GoneInv, Creating, GoneRoomLeavesNothing
<1> QED BY <1>1, <1>2, <1>3, Inductive, PTL DEF Spec

-----------------------------------------------------------------------------
(* Complete votes. *)

(* Somebody is eligible for every vote. *)
EligibleInv ==
    /\ \A v \in Votes : rows[v] # "fresh" => eligible[v] # {}
    /\ \A a \in Agents : pc[a] = "store" => held[a] # {}

(* An open vote is in memory, about to be or about to be closed, unless    *)
(* the room was destroyed under its creator; whoever counts its last       *)
(* ballot is going to close it.                                            *)
OpenInv ==
    /\ \A v \in Votes : rows[v] = "open" =>
           \/ v \in active \/ closing[v] = "store"
           \/ \E a \in Agents : on[a] = v /\ pc[a] = "activate"
           \/ destroy # "no" /\ Creating(v)
    /\ \A v \in active : eligible[v] \subseteq counted[v] =>
           \E a \in Agents : pc[a] = "full" /\ on[a] = v
    /\ \A v \in Votes : rows[v] = "closed" /\ told[v] = 0 =>
           closing[v] = "tell" \/ v \in hushed

(* A step leaves no vote without an eligible agent. *)
LEMMA EligibleStep ==
    ASSUME TypeOK, EligibleInv, [Next]_vars
    PROVE  EligibleInv'
<1> USE NoneAssumption DEF room, store, memory, leading, request, votehist, leadhist,
        VoteType, RequestType, TypeOK, Goto, Answer, EligibleInv
<1>1. ASSUME NEW a \in Agents, Opening(a) PROVE EligibleInv'
  BY <1>1 DEF Opening, CreateCheck, CreateStore, CreateActivate, CreateConfirm, CreateUndo,
     ForgetRoom, DeleteArtifacts
<1>2. ASSUME NEW a \in Agents, Casting(a) PROVE EligibleInv'
  BY <1>2 DEF Casting, CastCheck, CastStore, CastRefused, CastCount, CastUncounted,
     CastClose
<1>3. ASSUME NEW a \in Agents, Electing(a) PROVE EligibleInv'
  BY <1>3 DEF Electing, StartCheck, StartConfirm, Decline, StartInsert, ForgetRoom
<1>4. ASSUME NEW a \in Agents, Moving(a) PROVE EligibleInv'
  BY <1>4 DEF Moving, Join, Leave, FailedRegistration, Disconnect, ClearLook, ClearLeader
<1>5. ASSUME NEW v \in Votes, Ending(v) PROVE EligibleInv'
  BY <1>5 DEF Ending, DeadlineFires, CloseStore, CloseTell
<1>6. ASSUME NEW t \in Timers, Timing(t) PROVE EligibleInv'
  BY <1>6 DEF Timing, TimerWakes, TimerPicks, TimerConfirms, TimerCrowns, Sleep
<1>7. CASE Destroying
  BY <1>7 DEF Destroying, DestroyStore, DestroyMembers, DestroyForget, ForgetRoom,
     DeleteArtifacts
<1>8. CASE Restart
  BY <1>8 DEF Restart, FoundComplete
<1>9. CASE UNCHANGED vars
  BY <1>9 DEF vars
<1> QED BY <1>1, <1>2, <1>3, <1>4, <1>5, <1>6, <1>7, <1>8, <1>9, NextIs

(* If all ballots are in, as many are counted as agents are eligible. *)
LEMMA AllIsComplete ==
    ASSUME NEW E \in SUBSET Agents, NEW C \in SUBSET Agents, E \subseteq C
    PROVE  Cardinality(C) >= Cardinality(E)
<1>1. IsFiniteSet(C) /\ IsFiniteSet(E)
  BY AgentsAssumption, FS_Subset
<1>2. Cardinality(E) <= Cardinality(C) /\ Cardinality(E) \in Nat /\ Cardinality(C) \in Nat
  BY <1>1, FS_Subset, FS_CardinalityType
<1> QED BY <1>2

(* A step leaves every open vote to somebody. *)
LEMMA OpenStep ==
    ASSUME TypeOK, LifeInv, SealInv, GoneInv, EligibleInv, OpenInv, [Next]_vars
    PROVE  OpenInv'
<1> USE NoneAssumption DEF room, store, memory, leading, request, votehist, leadhist,
        VoteType, RequestType, TypeOK, Goto, Answer, OpenInv, Creating, Destroyed, Unlocked
(* What follows if whoever is at work on a vote goes on. *)
<1> DEFINE AtWork == {a \in Agents : pc[a] \in {"activate", "confirm", "undo", "full"}}
<1>1. ASSUME UNCHANGED <<rows, active, closing, eligible, counted, told, hushed>>,
             destroy # "no" => destroy' # "no",
             \A a \in AtWork : pc'[a] = pc[a] /\ on'[a] = on[a]
      PROVE  OpenInv'
  BY <1>1
<1>2. ASSUME NEW a \in Agents, Opening(a) PROVE OpenInv'
  <2>1. ASSUME NEW v \in Votes, CreateCheck(a, v) PROVE OpenInv'
    BY <1>1, <2>1 DEF CreateCheck
  <2>2. CASE CreateStore(a)
    BY <2>2 DEF CreateStore, LifeInv
  <2>3. CASE CreateActivate(a)
    BY <2>3 DEF CreateActivate, LifeInv, EligibleInv
  <2>4. CASE CreateConfirm(a)
    <3>1. /\ pc[a] = "confirm" /\ destroy # "members"
          /\ \A b \in Agents \ {a} : pc'[b] = pc[b] /\ on'[b] = on[b]
          /\ UNCHANGED <<rows, closing, eligible, counted, told, hushed, destroy>>
      BY <2>4 DEF CreateConfirm, ForgetRoom
    <3>2. CASE destroy = "no"
      <4>1. active' = active
        BY <2>4, <3>2 DEF CreateConfirm
      <4> QED BY <3>1, <3>2, <4>1
    <3>3. CASE destroy # "no"
      <4>1. active' = {} /\ pc'[a] = "undo" /\ on'[a] = on[a]
        BY <2>4, <3>1, <3>3 DEF CreateConfirm, ForgetRoom, LeadType
      <4>2. \A v \in Votes : rows[v] = "open" => Creating(v)
        BY <3>1, <3>3 DEF GoneInv, Quiet
      <4>3. \A v \in Votes : Creating(v) => Creating(v)'
        BY <3>1, <4>1
      <4> QED BY <3>1, <3>3, <4>1, <4>2, <4>3
    <3> QED BY <3>2, <3>3
  <2>5. CASE CreateUndo(a)
    BY <2>5 DEF CreateUndo, DeleteArtifacts
  <2> QED BY <1>2, <2>1, <2>2, <2>3, <2>4, <2>5 DEF Opening
<1>3. ASSUME NEW a \in Agents, Casting(a) PROVE OpenInv'
  <2>1. CASE CastCount(a)
    <3> DEFINE v == on[a]
    <3>1. /\ pc[a] = "count" /\ v \in active /\ v \in Votes
          /\ counted' = [counted EXCEPT ![v] = @ \cup {a}]
          /\ UNCHANGED <<rows, active, closing, eligible, told, hushed, destroy>>
      BY <2>1 DEF CastCount
    <3>2. /\ Cardinality(counted'[v]) >= Cardinality(eligible[v]) =>
                 pc' = [pc EXCEPT ![a] = "full"] /\ on' = on
          /\ \A b \in Agents \ {a} : pc'[b] = pc[b] /\ on'[b] = on[b]
      BY <2>1 DEF CastCount
    <3>3. eligible[v] \subseteq counted'[v] => pc'[a] = "full" /\ on'[a] = v
      <4>1. eligible[v] \in SUBSET Agents /\ counted'[v] \in SUBSET Agents
        BY <3>1
      <4> QED BY <3>2, <4>1, AllIsComplete
    <3>4. \A u \in Votes \ {v} : counted'[u] = counted[u]
      BY <3>1
    <3>5. \A u \in Votes : Creating(u) => Creating(u)'
      BY <3>1, <3>2
    <3>6. \A u \in Votes : (\E b \in Agents : on[b] = u /\ pc[b] = "activate")
              => \E b \in Agents : on'[b] = u /\ pc'[b] = "activate"
      BY <3>1, <3>2
    <3>7. ASSUME NEW u \in active', eligible[u] \subseteq counted'[u]
          PROVE  \E b \in Agents : pc'[b] = "full" /\ on'[b] = u
      <4>1. CASE u = v
        BY <3>3, <3>7, <4>1
      <4>2. CASE u # v
        <5>1. PICK b \in Agents : pc[b] = "full" /\ on[b] = u
          BY <3>1, <3>4, <3>7, <4>2
        <5> QED BY <3>1, <3>2, <5>1
      <4> QED BY <4>1, <4>2
    <3> HIDE DEF v, Creating
    <3> QED BY <3>1, <3>5, <3>6, <3>7
  <2>2. CASE CastClose(a)
    <3>1. /\ pc[a] = "full" /\ on[a] \in Votes
          /\ \A b \in Agents \ {a} : pc'[b] = pc[b] /\ on'[b] = on[b]
          /\ UNCHANGED <<rows, counted, eligible, told, hushed, destroy>>
          /\ active' = active \ {on[a]}
          /\ closing' = closing \/ closing' = [closing EXCEPT ![on[a]] = "store"]
          /\ on[a] \in active => closing'[on[a]] = "store"
      BY <2>2 DEF CastClose
    <3>2. \A v \in Votes : closing[v] = "store" => closing'[v] = "store"
      BY <3>1
    <3>3. on[a] \in active => rows[on[a]] # "closed" \/ told[on[a]] # 0 \/ on[a] \in hushed
      BY DEF SealInv
    <3>4. \A v \in Votes : closing[v] = "tell" /\ (v # on[a] \/ v \notin active)
              => closing'[v] = "tell"
      BY <2>2 DEF CastClose
    <3>5. ASSUME NEW v \in Votes, rows[v] = "open"
          PROVE  \/ v \in active' \/ closing'[v] = "store"
                 \/ \E b \in Agents : on'[b] = v /\ pc'[b] = "activate"
                 \/ destroy # "no" /\ Creating(v)'
      <4>1. v \in active => v \in active' \/ closing'[v] = "store"
        BY <3>1
      <4>2. Creating(v) => Creating(v)'
        BY <3>1
      <4>3. (\E b \in Agents : on[b] = v /\ pc[b] = "activate")
                => \E b \in Agents : on'[b] = v /\ pc'[b] = "activate"
        BY <3>1
      <4> HIDE DEF Creating
      <4> QED BY <3>2, <3>5, <4>1, <4>2, <4>3
    <3>6. ASSUME NEW v \in active', eligible[v] \subseteq counted[v]
          PROVE  \E b \in Agents : pc'[b] = "full" /\ on'[b] = v
      BY <3>1, <3>6
    <3>7. \A v \in Votes : rows[v] = "closed" /\ told[v] = 0 =>
              closing'[v] = "tell" \/ v \in hushed
      BY <3>3, <3>4
    <3> QED BY <3>1, <3>5, <3>6, <3>7
  <2>3. CASE CastStore(a) \/ CastRefused(a) \/ CastUncounted(a)
    BY <1>1, <2>3 DEF CastStore, CastRefused, CastUncounted
  <2>4. ASSUME NEW v \in Votes, CastCheck(a, v) PROVE OpenInv'
    BY <1>1, <2>4 DEF CastCheck
  <2> QED BY <1>3, <2>1, <2>2, <2>3, <2>4 DEF Casting
<1>4. ASSUME NEW a \in Agents, Electing(a) PROVE OpenInv'
  <2>1. CASE StartConfirm(a) /\ Destroyed
    <3>1. /\ pc[a] = "started" /\ \A b \in Agents \ {a} : pc'[b] = pc[b] /\ on'[b] = on[b]
          /\ active' = {}
          /\ UNCHANGED <<rows, closing, eligible, counted, told, hushed, destroy>>
      BY <2>1 DEF StartConfirm, ForgetRoom
    <3>2. \A v \in Votes : rows[v] = "open" => Creating(v)
      BY <2>1, <3>1 DEF GoneInv, Quiet
    <3>3. \A v \in Votes : Creating(v) => Creating(v)'
      BY <3>1
    <3> QED BY <2>1, <3>1, <3>2, <3>3
  <2>2. CASE StartConfirm(a) /\ ~ Destroyed
    BY <1>1, <2>2 DEF StartConfirm
  <2>3. CASE StartCheck(a) \/ Decline(a)
    BY <1>1, <2>3 DEF StartCheck, Decline
  <2>4. ASSUME NEW t \in Timers, StartInsert(a, t) PROVE OpenInv'
    BY <1>1, <2>4 DEF StartInsert
  <2> QED BY <1>4, <2>1, <2>2, <2>3, <2>4 DEF Electing
<1>5. ASSUME NEW a \in Agents, Moving(a) PROVE OpenInv'
  BY <1>1, <1>5 DEF Moving, Join, Leave, FailedRegistration, Disconnect, ClearLook, ClearLeader
<1>6. ASSUME NEW v \in Votes, Ending(v) PROVE OpenInv'
  <2>1. CASE DeadlineFires(v)
    BY <2>1 DEF DeadlineFires, SealInv
  <2>2. CASE CloseStore(v)
    BY <2>2 DEF CloseStore
  <2>3. CASE CloseTell(v)
    <3>1. /\ closing[v] = "tell" /\ closing' = [closing EXCEPT ![v] = "no"]
          /\ told' = [told EXCEPT ![v] = @ + 1]
          /\ UNCHANGED <<rows, active, counted, eligible, hushed, destroy>>
      BY <2>3 DEF CloseTell
    <3>2. \A a \in AtWork : pc'[a] = pc[a] /\ on'[a] = on[a]
      BY <2>3 DEF CloseTell
    <3>3. rows[v] # "open"
      BY <3>1 DEF LifeInv
    <3>4. told'[v] # 0 /\ \A u \in Votes \ {v} : told'[u] = told[u] /\ closing'[u] = closing[u]
      BY <3>1
    <3>5. \A u \in Votes : Creating(u) => Creating(u)'
      BY <3>2
    <3>6. \A u \in Votes : (\E a \in Agents : on[a] = u /\ pc[a] = "activate")
              => \E a \in Agents : on'[a] = u /\ pc'[a] = "activate"
      BY <3>2
    <3>7. \A u \in Votes : (\E a \in Agents : pc[a] = "full" /\ on[a] = u)
              => \E a \in Agents : pc'[a] = "full" /\ on'[a] = u
      BY <3>2
    <3> HIDE DEF Creating
    <3> QED BY <3>1, <3>3, <3>4, <3>5, <3>6, <3>7
  <2> QED BY <1>6, <2>1, <2>2, <2>3 DEF Ending
<1>7. ASSUME NEW t \in Timers, Timing(t) PROVE OpenInv'
  BY <1>7 DEF Timing, TimerWakes, TimerPicks, TimerConfirms, TimerCrowns, Sleep
<1>8. CASE Destroying
  BY <1>8 DEF Destroying, DestroyStore, DestroyMembers, DestroyForget, ForgetRoom,
     DeleteArtifacts, GoneInv, Quiet
<1>9. CASE Restart
  BY <1>9 DEF Restart, FoundComplete, LoadedBallots, EligibleInv
<1>10. CASE UNCHANGED vars
  BY <1>10 DEF vars
<1> QED BY <1>2, <1>3, <1>4, <1>5, <1>6, <1>7, <1>8, <1>9, <1>10, NextIs

(* A vote with all its ballots stored does not stay open with nobody at    *)
(* work on it, unless a ballot came when the memory did not have the vote; *)
(* and a closed vote's result is sent, or went down with the server.       *)
THEOREM CompleteVotesClose == Spec => []CompleteVoteCloses
<1> DEFINE Inv == TimerInv /\ CreatorInv /\ GoneInv /\ EligibleInv /\ OpenInv
<1>1. Init => Inv
  BY DEF Init, TimerInv, Starting, Destroyed, CreatorInv, GoneInv, EligibleInv, OpenInv
<1>2. IInv /\ Inv /\ [Next]_vars => Inv'
  BY TimerStep, CreatorStep, GoneStep, EligibleStep, OpenStep DEF IInv
<1>3. IInv /\ Inv => CompleteVoteCloses
  <2> SUFFICES ASSUME IInv, Inv PROVE CompleteVoteCloses
    OBVIOUS
  <2>1. ASSUME NEW v \in Votes, rows[v] = "open", eligible[v] \subseteq stored[v],
               \A a \in Agents : on[a] # v, closing[v] = "no", unheard[v] = {}
        PROVE  FALSE
    <3>1. v \in active
      BY <2>1 DEF OpenInv, Creating
    <3>2. eligible[v] \subseteq counted[v]
      BY <2>1 DEF IInv, UncountedUnacknowledged
    <3> QED BY <2>1, <3>1, <3>2 DEF OpenInv
  <2> QED BY <2>1 DEF CompleteVoteCloses, Busy, OpenInv
<1> QED BY <1>1, <1>2, <1>3, Inductive, PTL DEF Spec
=============================================================================

------------------------------- MODULE Voting -------------------------------
(***************************************************************************)
(* The votes and the leader elections of one room: VoteManager (voting.rs) *)
(* with the handlers that call it and the store's vote tables.             *)
(*                                                                         *)
(* A vote lives twice.  The store holds its row, the agents eligible when  *)
(* it opened and the ballots; active_votes holds the copy whose ballots    *)
(* are counted and broadcast.  Nothing holds both, so every handler is cut *)
(* at each call to one or the other.  Elections, leaders and the room's    *)
(* members are three more maps with locks of their own.                    *)
(*                                                                         *)
(* A ballot's option is left out: what matters is whose ballots count.     *)
(* forget_room is one step: the three maps it clears are never touched by  *)
(* one call of another task.  Tombstones do not expire here.               *)
(***************************************************************************)
EXTENDS Naturals, FiniteSets

CONSTANTS
    Agents,       \* agents that may join the room
    Votes,        \* vote ids, each given out once
    Timers,       \* slots for election timers running at one time
    None,         \* no agent, no vote, no election
    MaxRestarts   \* bound on server crashes

ASSUME AgentsAssumption == IsFiniteSet(Agents)
ASSUME MaxRestartsAssumption == MaxRestarts \in Nat

Elections ==
    [candidates : SUBSET Agents, declined : SUBSET Agents, timer : Timers]

ASSUME NoneAssumption == None \notin Agents \cup Votes \cup Timers \cup Elections

VARIABLES
    members,      \* broker.room_members of the room
    destroy,      \* how far handle_destroy_room has come
    rows,         \* votes.status, "fresh" before the INSERT, "gone" deleted
    eligible,     \* vote_eligible_agents, and ActiveVote.eligible_agents
    stored,       \* vote_ballots
    timed,        \* votes.closes_at is set
    active,       \* active_votes
    counted,      \* ActiveVote.ballots, kept after the vote is taken out
    timer,        \* the vote's deadline task sleeps
    closing,      \* close_and_broadcast_vote for the vote
    election,     \* active_elections, with the timer its start spawned
    leader,       \* room_leaders
    tpc, winner,  \* the timer tasks of elections
    pc, on, held, \* each agent's request: step, its vote, its member list
    told,         \* history: VoteResult events of the vote
    unheard,      \* history: stored ballots whose agent got no success
    expired,      \* history: votes closed by their deadline
    hushed,       \* history: votes whose result a crash took
    orphaned,     \* history: votes whose creation a crash cut short
    racing,       \* history: starters whose election check is out of date
    raced,        \* history: an election was started on such a check
    walked,       \* history: leaders that left by leave_room
    dropped,      \* history: leaders that left with a failed registration
    absent,       \* history: agents crowned when not a member
    restarts

room == <<members, destroy>>
store == <<rows, eligible, stored, timed>>
memory == <<active, counted, timer, closing>>
leading == <<election, leader, tpc, winner>>
request == <<pc, on, held>>
votehist == <<told, unheard, expired, hushed, orphaned>>
leadhist == <<racing, raced, walked, dropped, absent>>
vars == <<room, store, memory, leading, request, votehist, leadhist, restarts>>

PCs == {"idle", "store", "activate", "confirm", "undo", "ballot", "count",
        "full", "closing", "insert", "started", "look", "clear"}

VoteType ==
    /\ rows \in [Votes -> {"fresh", "open", "closed", "gone"}]
    /\ eligible \in [Votes -> SUBSET Agents]
    /\ stored \in [Votes -> SUBSET Agents]
    /\ timed \in [Votes -> BOOLEAN]
    /\ active \subseteq Votes
    /\ counted \in [Votes -> SUBSET Agents]
    /\ timer \in [Votes -> BOOLEAN]
    /\ closing \in [Votes -> {"no", "store", "tell"}]
    /\ told \in [Votes -> Nat]
    /\ unheard \in [Votes -> SUBSET Agents]
    /\ expired \subseteq Votes /\ hushed \subseteq Votes
    /\ orphaned \subseteq Votes

LeadType ==
    /\ members \subseteq Agents
    /\ destroy \in {"no", "members", "forget", "done"}
    /\ election \in Elections \cup {None}
    /\ leader \in Agents \cup {None}
    /\ tpc \in [Timers -> {"free", "wait", "woke", "confirm", "crown"}]
    /\ winner \in [Timers -> Agents \cup {None}]
    /\ \A t \in Timers : tpc[t] \in {"confirm", "crown"} => winner[t] \in Agents
    /\ racing \subseteq Agents /\ raced \in BOOLEAN
    /\ walked \subseteq Agents /\ dropped \subseteq Agents /\ absent \subseteq Agents
    /\ restarts \in 0 .. MaxRestarts

RequestType ==
    /\ pc \in [Agents -> PCs]
    /\ on \in [Agents -> Votes \cup {None}]
    /\ held \in [Agents -> SUBSET Agents]
    /\ \A a \in Agents :
           pc[a] \in {"store", "activate", "confirm", "undo", "ballot", "count",
                      "full", "closing"} => on[a] \in Votes

(* Only agents that were members when the vote opened have a ballot,       *)
(* durable or counted (the eligibility check of handle_cast_vote).         *)
BallotsEligible ==
    /\ \A v \in Votes :
           stored[v] \subseteq eligible[v] /\ counted[v] \subseteq eligible[v]
    /\ \A a \in Agents : pc[a] \in {"ballot", "count"} => a \in eligible[on[a]]

TypeOK == VoteType /\ LeadType /\ RequestType /\ BallotsEligible

Init ==
    /\ members = {} /\ destroy = "no"
    /\ rows = [v \in Votes |-> "fresh"]
    /\ eligible = [v \in Votes |-> {}] /\ stored = [v \in Votes |-> {}]
    /\ timed = [v \in Votes |-> FALSE]
    /\ active = {} /\ counted = [v \in Votes |-> {}]
    /\ timer = [v \in Votes |-> FALSE] /\ closing = [v \in Votes |-> "no"]
    /\ election = None /\ leader = None
    /\ tpc = [t \in Timers |-> "free"] /\ winner = [t \in Timers |-> None]
    /\ pc = [a \in Agents |-> "idle"] /\ on = [a \in Agents |-> None]
    /\ held = [a \in Agents |-> {}]
    /\ told = [v \in Votes |-> 0] /\ unheard = [v \in Votes |-> {}]
    /\ expired = {} /\ hushed = {} /\ orphaned = {}
    /\ racing = {} /\ raced = FALSE
    /\ walked = {} /\ dropped = {} /\ absent = {}
    /\ restarts = 0

(* is_room_destroyed, join_room and leave_room take the lifecycle lock,    *)
(* which a destruction holds from the store's delete to the tombstone.     *)
Unlocked == destroy # "members"
Destroyed == destroy \in {"forget", "done"}

Goto(a, p) == pc' = [pc EXCEPT ![a] = p] /\ UNCHANGED <<on, held>>

(* The handler returns. *)
Answer(a) ==
    /\ pc' = [pc EXCEPT ![a] = "idle"]
    /\ on' = [on EXCEPT ![a] = None]
    /\ held' = [held EXCEPT ![a] = {}]

(* Starters that have checked for an election and not yet inserted theirs. *)
Starting == {a \in Agents : pc[a] = "insert"}

(* VoteManager::forget_room. *)
ForgetRoom ==
    /\ active' = {}
    /\ election' = None /\ leader' = None
    /\ racing' = racing \cup Starting
    /\ UNCHANGED <<counted, timer, closing, tpc, winner, raced, walked, dropped, absent>>

(* delete_room_artifacts_in_transaction, the vote tables. *)
DeleteArtifacts ==
    /\ rows' = [v \in Votes |-> IF rows[v] = "fresh" THEN "fresh" ELSE "gone"]
    /\ stored' = [v \in Votes |-> {}]
    /\ UNCHANGED <<eligible, timed>>

-----------------------------------------------------------------------------
(* handle_create_vote. *)

(* The caller is a member; get_room_members is the list of the eligible.   *)
CreateCheck(a, v) ==
    /\ pc[a] = "idle" /\ a \in members
    /\ rows[v] = "fresh" /\ \A b \in Agents : on[b] # v
    /\ pc' = [pc EXCEPT ![a] = "store"]
    /\ on' = [on EXCEPT ![a] = v]
    /\ held' = [held EXCEPT ![a] = members]
    /\ UNCHANGED <<room, store, memory, leading, votehist, leadhist, restarts>>

(* Store::create_vote; no foreign key ties the row to the room. *)
CreateStore(a) ==
    /\ pc[a] = "store"
    /\ rows' = [rows EXCEPT ![on[a]] = "open"]
    /\ eligible' = [eligible EXCEPT ![on[a]] = held[a]]
    /\ \E limit \in BOOLEAN : timed' = [timed EXCEPT ![on[a]] = limit]
    /\ Goto(a, "activate")
    /\ UNCHANGED <<room, stored, memory, leading, votehist, leadhist, restarts>>

(* VoteManager::create_vote: no ballots yet, the deadline task spawned. *)
CreateActivate(a) ==
    /\ pc[a] = "activate"
    /\ active' = active \cup {on[a]}
    /\ counted' = [counted EXCEPT ![on[a]] = {}]
    /\ timer' = [timer EXCEPT ![on[a]] = timed[on[a]]]
    /\ Goto(a, "confirm")
    /\ UNCHANGED <<room, store, closing, leading, votehist, leadhist, restarts>>

(* Mutant: the destruction that raced the creation goes unnoticed. *)
CreateConfirmUnchecked(a) ==
    /\ pc[a] = "confirm" /\ Unlocked
    /\ Answer(a)
    /\ UNCHANGED <<room, store, memory, leading, votehist, leadhist, restarts>>

(* The room is looked up once more; VoteCreated, or all is forgotten. *)
CreateConfirm(a) ==
    /\ pc[a] = "confirm" /\ Unlocked
    /\ IF Destroyed
       THEN ForgetRoom /\ Goto(a, "undo")
       ELSE Answer(a) /\ UNCHANGED <<memory, leading, leadhist>>
    /\ UNCHANGED <<room, store, votehist, restarts>>

CreateUndo(a) ==
    /\ pc[a] = "undo"
    /\ DeleteArtifacts
    /\ Answer(a)
    /\ UNCHANGED <<room, memory, leading, votehist, leadhist, restarts>>

-----------------------------------------------------------------------------
(* handle_cast_vote. *)

(* Mutant: who was a member when the vote opened is not asked. *)
CastCheckAnyone(a, v) ==
    /\ pc[a] = "idle" /\ a \in members
    /\ v \in active \/ rows[v] \in {"open", "closed"}
    /\ pc' = [pc EXCEPT ![a] = "ballot"]
    /\ on' = [on EXCEPT ![a] = v]
    /\ UNCHANGED <<room, store, memory, leading, held, votehist, leadhist, restarts>>

(* The vote is known to the memory or to the store, the caller a member    *)
(* and eligible.                                                           *)
CastCheck(a, v) ==
    /\ pc[a] = "idle" /\ a \in members /\ a \in eligible[v]
    /\ v \in active \/ rows[v] \in {"open", "closed"}
    /\ pc' = [pc EXCEPT ![a] = "ballot"]
    /\ on' = [on EXCEPT ![a] = v]
    /\ UNCHANGED <<room, store, memory, leading, held, votehist, leadhist, restarts>>

(* Store::cast_vote under the connection's lock: open, and no ballot yet. *)
CastStore(a) ==
    /\ pc[a] = "ballot"
    /\ rows[on[a]] = "open" /\ a \notin stored[on[a]]
    /\ stored' = [stored EXCEPT ![on[a]] = @ \cup {a}]
    /\ Goto(a, "count")
    /\ UNCHANGED <<room, rows, eligible, timed, memory, leading, votehist, leadhist, restarts>>

(* VoteNotFound, VoteClosed or AlreadyVoted. *)
CastRefused(a) ==
    /\ pc[a] = "ballot"
    /\ rows[on[a]] # "open" \/ a \in stored[on[a]]
    /\ Answer(a)
    /\ UNCHANGED <<room, store, memory, leading, votehist, leadhist, restarts>>

(* Mutant: a vote one ballot short counts as complete. *)
CastCountEarly(a) ==
    /\ pc[a] = "count" /\ on[a] \in active
    /\ counted' = [counted EXCEPT ![on[a]] = @ \cup {a}]
    /\ IF Cardinality(counted'[on[a]]) + 1 >= Cardinality(eligible[on[a]])
       THEN Goto(a, "full") ELSE Answer(a)
    /\ UNCHANGED <<room, store, active, timer, closing, leading, votehist, leadhist, restarts>>

(* VoteManager::cast_vote under the vote's entry: the ballot is pushed and *)
(* the vote found complete or not.                                         *)
CastCount(a) ==
    /\ pc[a] = "count" /\ on[a] \in active
    /\ counted' = [counted EXCEPT ![on[a]] = @ \cup {a}]
    /\ IF Cardinality(counted'[on[a]]) >= Cardinality(eligible[on[a]])
       THEN Goto(a, "full") ELSE Answer(a)
    /\ UNCHANGED <<room, store, active, timer, closing, leading, votehist, leadhist, restarts>>

(* The vote is not in memory: VoteNotFound, though the ballot is stored. *)
CastUncounted(a) ==
    /\ pc[a] = "count" /\ on[a] \notin active
    /\ unheard' = [unheard EXCEPT ![on[a]] = @ \cup {a}]
    /\ Answer(a)
    /\ UNCHANGED <<room, store, memory, leading, told, expired, hushed,
                   orphaned, leadhist, restarts>>

(* Mutant: the last ballot does not close the vote. *)
CastCloseNever(a) ==
    /\ pc[a] = "full"
    /\ Answer(a)
    /\ UNCHANGED <<room, store, memory, leading, votehist, leadhist, restarts>>

(* The entry was let go: the vote closes if it is still there. *)
CastClose(a) ==
    /\ pc[a] = "full"
    /\ IF on[a] \in active
       THEN /\ active' = active \ {on[a]}
            /\ closing' = [closing EXCEPT ![on[a]] = "store"]
            /\ Goto(a, "closing")
       ELSE Answer(a) /\ UNCHANGED <<active, closing>>
    /\ UNCHANGED <<room, store, counted, timer, leading, votehist, leadhist, restarts>>

-----------------------------------------------------------------------------
(* The deadline task and close_and_broadcast_vote. *)

DeadlineFires(v) ==
    /\ timer[v]
    /\ timer' = [timer EXCEPT ![v] = FALSE]
    /\ IF v \in active
       THEN /\ active' = active \ {v}
            /\ closing' = [closing EXCEPT ![v] = "store"]
            /\ expired' = expired \cup {v}
       ELSE UNCHANGED <<active, closing, expired>>
    /\ UNCHANGED <<room, store, counted, leading, request, told, unheard,
                   hushed, orphaned, leadhist, restarts>>

(* Mutant: the result is out before the store closes the vote. *)
CloseStoreOpen(v) ==
    /\ closing[v] = "store"
    /\ closing' = [closing EXCEPT ![v] = "tell"]
    /\ UNCHANGED <<room, store, active, counted, timer, leading, request, votehist,
                   leadhist, restarts>>

(* Store::close_vote, an UPDATE that a deleted row does not notice. *)
CloseStore(v) ==
    /\ closing[v] = "store"
    /\ closing' = [closing EXCEPT ![v] = "tell"]
    /\ rows' = [rows EXCEPT ![v] = IF @ = "open" THEN "closed" ELSE @]
    /\ UNCHANGED <<room, eligible, stored, timed, active, counted, timer, leading,
                   request, votehist, leadhist, restarts>>

(* VoteResult with the counted ballots; a caster that closed it returns. *)
CloseTell(v) ==
    /\ closing[v] = "tell"
    /\ closing' = [closing EXCEPT ![v] = "no"]
    /\ told' = [told EXCEPT ![v] = @ + 1]
    /\ LET Back == {a \in Agents : pc[a] = "closing" /\ on[a] = v}
       IN  /\ pc' = [a \in Agents |-> IF a \in Back THEN "idle" ELSE pc[a]]
           /\ on' = [a \in Agents |-> IF a \in Back THEN None ELSE on[a]]
    /\ UNCHANGED <<room, store, active, counted, timer, leading, held, unheard,
                   expired, hushed, orphaned, leadhist, restarts>>

-----------------------------------------------------------------------------
(* handle_elect_leader, handle_decline_election, the election's timer. *)

(* Mutant: a running election does not refuse another. *)
StartCheckNothing(a) ==
    /\ pc[a] = "idle" /\ a \in members
    /\ pc' = [pc EXCEPT ![a] = "insert"]
    /\ held' = [held EXCEPT ![a] = members]
    /\ racing' = racing \ {a}
    /\ UNCHANGED <<room, store, memory, leading, on, votehist, raced, walked, dropped, absent,
                   restarts>>

(* The caller and the candidates are members; start_election finds none on. *)
StartCheck(a) ==
    /\ pc[a] = "idle" /\ a \in members
    /\ election = None
    /\ pc' = [pc EXCEPT ![a] = "insert"]
    /\ held' = [held EXCEPT ![a] = members]
    /\ racing' = racing \ {a}
    /\ UNCHANGED <<room, store, memory, leading, on, votehist, raced, walked, dropped, absent,
                   restarts>>

(* The insert, over an election another start put there meanwhile, and the *)
(* timer task of two seconds.                                              *)
StartInsert(a, t) ==
    /\ pc[a] = "insert" /\ tpc[t] = "free"
    /\ election' = [candidates |-> held[a], declined |-> {}, timer |-> t]
    /\ tpc' = [tpc EXCEPT ![t] = "wait"]
    /\ Goto(a, "started")
    /\ racing' = (racing \cup Starting) \ {a}
    /\ raced' = (raced \/ a \in racing)
    /\ UNCHANGED <<room, store, memory, leader, winner, votehist, walked, dropped, absent,
                   restarts>>

StartConfirm(a) ==
    /\ pc[a] = "started" /\ Unlocked
    /\ IF Destroyed THEN ForgetRoom ELSE UNCHANGED <<memory, leading, leadhist>>
    /\ Answer(a)
    /\ UNCHANGED <<room, store, votehist, restarts>>

Decline(a) ==
    /\ pc[a] = "idle" /\ a \in members
    /\ election # None
    /\ election' = [election EXCEPT !.declined = @ \cup {a}]
    /\ UNCHANGED <<room, store, memory, leader, tpc, winner, request, votehist,
                   leadhist, restarts>>

(* The timer task ends. *)
Sleep(t) ==
    /\ tpc' = [tpc EXCEPT ![t] = "free"]
    /\ winner' = [winner EXCEPT ![t] = None]

(* Two seconds later: in a destroyed room all that is left is removed. *)
TimerWakes(t) ==
    /\ tpc[t] = "wait" /\ Unlocked
    /\ IF Destroyed
       THEN Sleep(t) /\ election' = None /\ leader' = None
       ELSE tpc' = [tpc EXCEPT ![t] = "woke"] /\ UNCHANGED <<election, leader, winner>>
    /\ UNCHANGED <<room, store, memory, request, votehist, leadhist, restarts>>

(* Whatever election the room has is taken and decided among those that    *)
(* did not decline; if all did, LeaderCleared is sent and no leader is.    *)
TimerPicks(t) ==
    /\ tpc[t] = "woke"
    /\ election' = None
    /\ LET Remaining == IF election = None THEN {}
                        ELSE election.candidates \ election.declined
       IN  \/ Remaining = {} /\ Sleep(t)
           \/ \E w \in Remaining :
                  /\ winner' = [winner EXCEPT ![t] = w]
                  /\ tpc' = [tpc EXCEPT ![t] = "confirm"]
    /\ UNCHANGED <<room, store, memory, leader, request, votehist, leadhist, restarts>>

TimerConfirms(t) ==
    /\ tpc[t] = "confirm" /\ Unlocked
    /\ IF Destroyed
       THEN Sleep(t) /\ leader' = None
       ELSE tpc' = [tpc EXCEPT ![t] = "crown"] /\ UNCHANGED <<leader, winner>>
    /\ UNCHANGED <<room, store, memory, election, request, votehist, leadhist, restarts>>

(* The insert into room_leaders; nobody asks whether the winner is there.  *)
TimerCrowns(t) ==
    /\ tpc[t] = "crown"
    /\ leader' = winner[t]
    /\ absent' = IF winner[t] \in members THEN absent \ {winner[t]}
                 ELSE absent \cup {winner[t]}
    /\ Sleep(t)
    /\ UNCHANGED <<room, store, memory, election, request, votehist, racing, raced, walked,
                   dropped, restarts>>

-----------------------------------------------------------------------------
(* Members, destruction, restart. *)

Join(a) ==
    /\ pc[a] = "idle" /\ a \notin members /\ destroy = "no"
    /\ members' = members \cup {a}
    /\ walked' = walked \ {a} /\ dropped' = dropped \ {a} /\ absent' = absent \ {a}
    /\ UNCHANGED <<destroy, store, memory, leading, request, votehist, racing, raced, restarts>>

(* handle_leave_room, which does not know the VoteManager. *)
Leave(a) ==
    /\ pc[a] = "idle" /\ a \in members /\ Unlocked
    /\ members' = members \ {a}
    /\ walked' = IF leader = a THEN walked \cup {a} ELSE walked
    /\ UNCHANGED <<destroy, store, memory, leading, request, votehist, racing, raced,
                   dropped, absent, restarts>>

(* agent_lifecycle: a cleanup holds it from leaving the rooms to clearing  *)
(* the leader.                                                             *)
AgentsUnlocked == \A a \in Agents : pc[a] \notin {"look", "clear"}

(* A registration cannot be acknowledged, and its connection, which had    *)
(* taken an older session over or its rooms from the stash, gives up the   *)
(* rooms; it does not know the VoteManager.  The older session may still   *)
(* handle its request; its own cleanup finds that it was replaced.         *)
FailedRegistration(a) ==
    /\ a \in members /\ Unlocked /\ AgentsUnlocked
    /\ members' = members \ {a}
    /\ dropped' = IF leader = a THEN dropped \cup {a} ELSE dropped
    /\ UNCHANGED <<destroy, store, memory, leading, request, votehist, racing, raced,
                   walked, absent, restarts>>

(* The connection ends: the agent leaves the rooms it is in, then          *)
(* clear_leader_if_agent; nothing changes for another's non-member.        *)
Disconnect(a) ==
    /\ pc[a] = "idle" /\ a \in members \cup {leader} /\ Unlocked /\ AgentsUnlocked
    /\ members' = members \ {a}
    /\ Goto(a, "look")
    /\ UNCHANGED <<destroy, store, memory, leading, votehist, leadhist, restarts>>

(* Mutant: the cleanup of a connection does not ask who leads. *)
ClearLookAway(a) ==
    /\ pc[a] = "look"
    /\ Answer(a)
    /\ UNCHANGED <<room, store, memory, leading, votehist, leadhist, restarts>>

ClearLook(a) ==
    /\ pc[a] = "look"
    /\ IF leader = a THEN Goto(a, "clear") ELSE Answer(a)
    /\ UNCHANGED <<room, store, memory, leading, votehist, leadhist, restarts>>

(* clear_leader removes whoever leads by now. *)
ClearLeader(a) ==
    /\ pc[a] = "clear"
    /\ leader' = None
    /\ Answer(a)
    /\ UNCHANGED <<room, store, memory, election, tpc, winner, votehist, leadhist, restarts>>

(* handle_destroy_room: the rows go first, with the lifecycle lock held, *)
DestroyStore ==
    /\ destroy = "no"
    /\ destroy' = "members"
    /\ DeleteArtifacts
    /\ UNCHANGED <<members, memory, leading, request, votehist, leadhist, restarts>>

(* then the tombstone is set and the members removed, *)
DestroyMembers ==
    /\ destroy = "members"
    /\ destroy' = "forget"
    /\ members' = {}
    /\ UNCHANGED <<store, memory, leading, request, votehist, leadhist, restarts>>

(* and the VoteManager forgets the room. *)
DestroyForget ==
    /\ destroy = "forget"
    /\ destroy' = "done"
    /\ ForgetRoom
    /\ UNCHANGED <<members, store, request, votehist, restarts>>

(* Mutant: the ballots are not loaded. *)
NoBallots(v) == {}

(* Store::get_vote_ballots, for a vote loaded at startup. *)
LoadedBallots(v) == stored[v]

(* Mutant: the store is taken as it is. *)
FoundNothing == {}

(* Store::initialize closes open votes that have all their ballots. *)
FoundComplete ==
    {v \in Votes : rows[v] = "open" /\ eligible[v] # {} /\ eligible[v] \subseteq stored[v]}

(* A crash, and a start: complete votes are closed without a VoteResult,   *)
(* and VoteManager::new loads the open ones with their stored ballots and  *)
(* the rest of their time; elections and leaders were only in memory.      *)
Restart ==
    /\ restarts < MaxRestarts
    /\ restarts' = restarts + 1
    /\ members' = {}
    /\ destroy' = IF destroy = "no" THEN "no" ELSE "done"
    /\ rows' = [v \in Votes |-> IF v \in FoundComplete THEN "closed" ELSE rows[v]]
    /\ active' = {v \in Votes : rows'[v] = "open"}
    /\ counted' = [v \in Votes |-> IF rows'[v] = "open" THEN LoadedBallots(v)
                                ELSE counted[v]]
    /\ timer' = [v \in Votes |-> rows'[v] = "open" /\ timed[v]]
    /\ closing' = [v \in Votes |-> "no"]
    /\ election' = None /\ leader' = None
    /\ tpc' = [t \in Timers |-> "free"] /\ winner' = [t \in Timers |-> None]
    /\ pc' = [a \in Agents |-> "idle"] /\ on' = [a \in Agents |-> None]
    /\ held' = [a \in Agents |-> {}]
    /\ unheard' = [v \in Votes |-> unheard[v] \cup
                      {a \in Agents : pc[a] = "count" /\ on[a] = v}]
    /\ hushed' = hushed \cup {v \in Votes : rows'[v] = "closed" /\ told[v] = 0}
    /\ orphaned' = orphaned \cup
           {on[a] : a \in {b \in Agents : pc[b] \in {"activate", "confirm", "undo"}}}
    /\ racing' = {} /\ raced' = FALSE
    /\ walked' = {} /\ dropped' = {} /\ absent' = {}
    /\ UNCHANGED <<eligible, stored, timed, told, expired>>

Next ==
    \/ \E a \in Agents, v \in Votes : CreateCheck(a, v) \/ CastCheck(a, v)
    \/ \E a \in Agents :
           \/ CreateStore(a) \/ CreateActivate(a) \/ CreateConfirm(a) \/ CreateUndo(a)
           \/ CastStore(a) \/ CastRefused(a)
           \/ CastCount(a) \/ CastUncounted(a) \/ CastClose(a)
           \/ StartCheck(a) \/ StartConfirm(a) \/ Decline(a)
           \/ Join(a) \/ Leave(a) \/ FailedRegistration(a)
           \/ Disconnect(a) \/ ClearLook(a) \/ ClearLeader(a)
    \/ \E a \in Agents, t \in Timers : StartInsert(a, t)
    \/ \E v \in Votes : DeadlineFires(v) \/ CloseStore(v) \/ CloseTell(v)
    \/ \E t \in Timers :
           TimerWakes(t) \/ TimerPicks(t) \/ TimerConfirms(t) \/ TimerCrowns(t)
    \/ DestroyStore \/ DestroyMembers \/ DestroyForget
    \/ Restart

Spec == Init /\ [][Next]_vars

-----------------------------------------------------------------------------
(* Properties. *)

(* Requests and tasks at work on v. *)
Busy(v) == closing[v] # "no" \/ \E a \in Agents : on[a] = v

(***************************************************************************)
(* A stored ballot that does not count in the result belongs to an agent   *)
(* that was not told it voted: it was answered VoteNotFound, or the answer *)
(* is still to come, or a crash took it.  (handle_cast_vote stores the     *)
(* ballot before the VoteManager counts it, and an activation, a deadline  *)
(* or a crash may fall between.)                                           *)
(***************************************************************************)
UncountedUnacknowledged ==
    \A v \in Votes :
        stored[v] \ counted[v] \subseteq
            unheard[v] \cup {a \in Agents : pc[a] = "count" /\ on[a] = v}

(***************************************************************************)
(* No ballot is stored once a result of the vote is out: nobody votes      *)
(* knowing the others' choices (close_vote comes before the broadcast, and *)
(* Store::cast_vote reads the status under the same lock).                 *)
(***************************************************************************)
NoBallotAfterResult ==
    [][\A v \in Votes : told[v] > 0 => stored'[v] \subseteq stored[v]]_vars

(***************************************************************************)
(* A result is broadcast at most once, and only after the deadline or with *)
(* every eligible agent's ballot (votes are sealed), whatever crashes and  *)
(* races of the last ballot with the deadline there were.                  *)
(***************************************************************************)
SealedUntilComplete ==
    \A v \in Votes :
        /\ told[v] <= 1
        /\ told[v] = 1 => v \in expired \/ eligible[v] \subseteq counted[v]

(***************************************************************************)
(* A vote in which every eligible agent's ballot is stored does not stay   *)
(* open with no request or task at work on it, unless a ballot came when   *)
(* the memory did not have the vote (the next start closes it); and a      *)
(* vote that is closed has had its result sent, or a task sends it, or a   *)
(* crash took the result: Store::initialize closes, and tells nobody.      *)
(***************************************************************************)
CompleteVoteCloses ==
    \A v \in Votes :
        /\ (rows[v] = "open" /\ eligible[v] \subseteq stored[v]) =>
               Busy(v) \/ unheard[v] # {}
        /\ (rows[v] = "closed" /\ told[v] = 0) =>
               closing[v] = "tell" \/ v \in hushed

(***************************************************************************)
(* An election is decided by the timer its own start spawned, two seconds  *)
(* after it began, unless its start read "no election" before another      *)
(* start's insert or before the room was forgotten.                        *)
(***************************************************************************)
OwnTimerDecides ==
    [][\A t \in Timers :
           (tpc[t] = "woke" /\ tpc'[t] # "woke" /\ election # None) =>
               election.timer = t \/ raced \/ restarts' # restarts]_vars

(***************************************************************************)
(* A leader that is no member of the room is still being cleaned up after  *)
(* its connection, left by leave_room, was taken out with a registration   *)
(* that could not be acknowledged, or was crowned when it had gone.        *)
(***************************************************************************)
LeaderGoneOnlyUnnoticed ==
    (destroy = "no" /\ leader # None /\ leader \notin members) =>
        pc[leader] \in {"look", "clear"} \/ leader \in walked \cup dropped \cup absent

(***************************************************************************)
(* When the destruction of the room and all that raced it are over, no     *)
(* vote, election or leader of the room is left, in memory or in the       *)
(* store, but for the votes a crash cut short and a leader crowned after   *)
(* the members were removed.                                               *)
(***************************************************************************)
GoneRoomLeavesNothing ==
    (/\ destroy = "done" /\ \A a \in Agents : pc[a] = "idle"
     /\ \A t \in Timers : tpc[t] = "free" /\ \A v \in Votes : closing[v] = "no")
    => /\ active \subseteq orphaned /\ election = None
       /\ \A v \in Votes : rows[v] \in {"open", "closed"} => v \in orphaned
       /\ leader # None => leader \in absent
=============================================================================

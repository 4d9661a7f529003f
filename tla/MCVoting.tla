------------------------------ MODULE MCVoting ------------------------------
(* Instances of Voting.  Agents, and timers, are exchangeable.             *)
EXTENDS Voting, TLC

CONSTANTS a1, a2, t1, t2

MCAgents == {a1, a2}
MCTimers == {t1, t2}
Symmetric == Permutations(MCAgents) \cup Permutations(MCTimers)

(***************************************************************************)
(* Votes and elections touch no common state but the members and what      *)
(* forget_room clears, so the runs take one or the other, not every        *)
(* product of their states: while a vote is or was there, no election.     *)
(***************************************************************************)
NoVote == \A v \in Votes : rows[v] = "fresh" /\ \A a \in Agents : on[a] # v
NoElection ==
    /\ election = None /\ leader = None
    /\ \A t \in Timers : tpc[t] = "free"
    /\ \A a \in Agents : pc[a] \notin {"insert", "started", "look", "clear"}
OneKind == NoVote \/ NoElection

=============================================================================

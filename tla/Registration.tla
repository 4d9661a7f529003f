---------------------------- MODULE Registration ----------------------------
(***************************************************************************)
(* Who may register, and how much an API key may use: the registration of  *)
(* a connection and its end (server.rs, handle_connection), the identities *)
(* of agents (store.rs) and the usage counters (rate_limit.rs), which room *)
(* creation and destruction change as well (handler.rs).                   *)
(*                                                                         *)
(* A connection is a tokio task.  The counters live in a concurrent map    *)
(* and are atomics: each map access and each atomic operation is a step.   *)
(* Connections of a server with authentication are modelled, keyless local *)
(* ones (NoKey) included.  A slot of Sockets is used by one connection     *)
(* after another.                                                          *)
(***************************************************************************)
EXTENDS Integers, FiniteSets

CONSTANTS
    Sockets,     \* connections open at one time
    Keys,        \* valid API keys
    NoKey,       \* the empty key of a local connection
    Ids,         \* agent ids that clients ask for
    None,        \* no key, no connection
    MaxAgents,   \* TierLimits::max_agents
    MaxRooms,    \* TierLimits::max_rooms
    Wide,        \* counters are unsigned, modulo Wide (2^64)
    MaxOwned,    \* bound: rooms of a key
    MaxRestarts  \* bound: server crashes

ASSUME RegistrationAssumption ==
    /\ IsFiniteSet(Sockets) /\ Ids \cap Sockets = {}
    /\ NoKey \notin Keys /\ None \notin Keys \cup {NoKey} \cup Sockets
    /\ MaxAgents \in Nat /\ MaxRooms \in Nat /\ MaxOwned \in Nat
    /\ MaxRestarts \in Nat
    /\ Wide \in Nat /\ Cardinality(Sockets) < Wide /\ MaxOwned < Wide

VARIABLES
    usage,       \* RateLimiter.usage: the counters of each key, if it has any
    owner,       \* agent_identities: the key an id is bound to
    owned,       \* rows of `rooms` by owner_key
    live,        \* broker.agents: id -> connection
    stash,       \* ReconnectManager.stashed: id -> key and claim
    lock,        \* holder of agent_lifecycle
    mutation,    \* holder of room_mutation
    at,          \* per connection: where its task is
    key, id,     \* what it registered with
    again,       \* whether it asked to reconnect
    missed,      \* get_or_create found no counters and is about to insert them
    failed,      \* its registration could not be acknowledged
    replaced,    \* history: keys whose counters were inserted over others
    passed,      \* history: connections another one has counted past since
                 \* their check
    restarts

conn == <<at, key, id, again, missed, failed>>
locks == <<lock, mutation>>
rvars == <<usage, owner, owned, live, stash, locks, conn, replaced, passed, restarts>>

NoUsage == [agents |-> -1, rooms |-> -1]
Fresh == [agents |-> 0, rooms |-> 0]
Counters == 0..(Wide - 1)
NoStash == [key |-> None, by |-> None]
Stashes == [key : Keys \cup {NoKey}, by : Sockets \cup {None}]

(* An id nobody asked for is a new UUID: the connection stands for it. *)
AllIds == Ids \cup Sockets

Look == {"limit", "add", "roomlimit", "addroom"}
Points == Look \cup {"new", "claim", "decide", "install", "write", "ready",
                  "insert", "unroom", "subroom", "unregister", "remove",
                  "sub", "cleanup"}
Mutating == {"addroom", "unroom", "subroom"}

(* Type invariant: counters in their width, each mutex held where the code *)
(* holds it, every task with the key and the id it registered with.        *)
RegistrationTypeOK ==
    /\ usage \in [Keys -> [agents : Counters, rooms : Counters] \cup {NoUsage}]
    /\ owner \in [Ids -> Keys \cup {None}]
    /\ owned \in [Keys -> 0..MaxOwned]
    /\ live \in [AllIds -> Sockets \cup {None}]
    /\ stash \in [AllIds -> Stashes \cup {NoStash}]
    /\ lock \in Sockets \cup {None} /\ mutation \in Sockets \cup {None}
    /\ \A c \in Sockets : lock = c <=> at[c] \in {"add", "install"}
    /\ \A c \in Sockets : mutation = c <=> at[c] \in Mutating
    /\ at \in [Sockets -> Points]
    /\ key \in [Sockets -> Keys \cup {NoKey}] /\ id \in [Sockets -> AllIds]
    /\ \A c \in Sockets : id[c] \in Ids \cup {c}
    /\ again \in [Sockets -> BOOLEAN] /\ failed \in [Sockets -> BOOLEAN]
    /\ missed \in [Sockets -> BOOLEAN]
    /\ \A c \in Sockets : missed[c] => at[c] \in Look
    /\ \A c \in Sockets : at[c] \in Look \cup Mutating \cup {"insert"} =>
           key[c] \in Keys \/ at[c] = "add"
    /\ \A i \in AllIds : \A c \in Sockets : stash[i].by = c =>
           /\ id[c] = i /\ key[c] = stash[i].key
           /\ at[c] \in {"add", "install", "write", "unregister", "remove", "sub"}
    /\ replaced \subseteq Keys /\ passed \subseteq Sockets
    /\ restarts \in 0..MaxRestarts

RegistrationInit ==
    /\ usage = [k \in Keys |-> NoUsage]
    /\ owner = [i \in Ids |-> None]
    /\ owned = [k \in Keys |-> 0]
    /\ live = [i \in AllIds |-> None]
    /\ stash = [i \in AllIds |-> NoStash]
    /\ lock = None /\ mutation = None
    /\ at = [c \in Sockets |-> "new"]
    /\ key = [c \in Sockets |-> NoKey] /\ id = [c \in Sockets |-> c]
    /\ again = [c \in Sockets |-> FALSE] /\ failed = [c \in Sockets |-> FALSE]
    /\ missed = [c \in Sockets |-> FALSE]
    /\ replaced = {} /\ passed = {} /\ restarts = 0

Proceed(c, p) == at' = [at EXCEPT ![c] = p]
SameTask == UNCHANGED <<key, id, again, missed, failed>>
SameStore == UNCHANGED <<owner, owned>>

(* The task ends, or waits for another register frame; what it has read of *)
(* the last one is gone.                                                   *)
Close(c) ==
    /\ Proceed(c, "new")
    /\ key' = [key EXCEPT ![c] = NoKey] /\ id' = [id EXCEPT ![c] = c]
    /\ again' = [again EXCEPT ![c] = FALSE]
    /\ failed' = [failed EXCEPT ![c] = FALSE]
    /\ UNCHANGED missed

(* RateLimiter::get_or_create: contains_key, and if it is not there, an    *)
(* insert that replaces what another task has inserted by then.            *)
LookUp(c) ==
    /\ at[c] \in Look /\ key[c] \in Keys
    /\ usage[key[c]] = NoUsage /\ ~missed[c]
    /\ missed' = [missed EXCEPT ![c] = TRUE]
    /\ UNCHANGED <<usage, owner, owned, live, stash, locks, at, key, id, again, failed,
                   replaced, passed, restarts>>

InsertNew(c) ==
    /\ missed[c]
    /\ missed' = [missed EXCEPT ![c] = FALSE]
    /\ replaced' = IF usage[key[c]] = NoUsage THEN replaced
                   ELSE replaced \cup {key[c]}
    /\ usage' = [usage EXCEPT ![key[c]] = Fresh]
    /\ UNCHANGED <<owner, owned, live, stash, locks, at, key, id, again, failed, passed,
                   restarts>>

(* ... and a reference to the counters. *)
Found(c) == ~missed[c] /\ usage[key[c]] # NoUsage

(* History: others of c's key that have passed their check and not yet     *)
(* acted on it.                                                            *)
Overtakes(c, steps) ==
    passed' = (passed \ {c}) \cup
        {d \in Sockets \ {c} : key[d] = key[c] /\ at[d] \in steps}

-----------------------------------------------------------------------------
(* Registration. *)

(* A register frame with a supported protocol and a valid key, or none on  *)
(* a local transport; other frames are answered and change nothing.        *)
Register(c, k, i) ==
    /\ at[c] = "new"
    /\ key' = [key EXCEPT ![c] = k]
    /\ id' = [id EXCEPT ![c] = i]
    /\ \E r \in BOOLEAN : again' = [again EXCEPT ![c] = r]
    /\ Proceed(c, IF k \in Keys THEN "limit" ELSE "decide")
    /\ UNCHANGED <<usage, owner, owned, live, stash, locks, missed, failed, replaced,
                   passed, restarts>>

(* Mutant: one agent more than the tier allows. *)
AgentsBelow(n) == n <= MaxAgents

(* check_agent_limit's comparison. *)
AgentsAllowed(n) == n < MaxAgents

(* RateLimitAgents: the connection is closed. *)
LimitRefused(c) ==
    /\ at[c] = "limit" /\ Found(c)
    /\ ~AgentsAllowed(usage[key[c]].agents)
    /\ Close(c)
    /\ SameStore
    /\ UNCHANGED <<usage, live, stash, locks, replaced, passed, restarts>>

LimitPassed(c) ==
    /\ at[c] = "limit" /\ Found(c)
    /\ AgentsAllowed(usage[key[c]].agents)
    /\ Proceed(c, IF id[c] \in Ids THEN "claim" ELSE "decide")
    /\ SameTask /\ SameStore
    /\ UNCHANGED <<usage, live, stash, locks, replaced, passed, restarts>>

(* Mutant: an id that is bound already is bound anew. *)
ClaimAnew(c) ==
    /\ at[c] = "claim"
    /\ owner' = [owner EXCEPT ![id[c]] = key[c]]
    /\ Proceed(c, "decide")
    /\ SameTask
    /\ UNCHANGED <<usage, owned, live, stash, locks, replaced, passed, restarts>>

(* Store::claim_agent_identity: an unbound id is bound to this key for     *)
(* good; if it is bound to another, AgentIdTaken, and the client may try   *)
(* again.                                                                  *)
Claim(c) ==
    /\ at[c] = "claim"
    /\ owner' = IF owner[id[c]] = None THEN [owner EXCEPT ![id[c]] = key[c]]
                ELSE owner
    /\ IF owner[id[c]] \in {None, key[c]}
       THEN Proceed(c, "decide") /\ SameTask /\ UNCHANGED passed
       ELSE Close(c) /\ passed' = passed \ {c}
    /\ UNCHANGED <<usage, owned, live, stash, locks, replaced, restarts>>

(* Under agent_lifecycle.  A reconnect claims the stash of its id and      *)
(* takes over whoever is connected with it; without a stash it takes over  *)
(* its own key only.  Otherwise an id that is connected is refused.        *)
Decide(c) ==
    LET i == id[c]
        claims == again[c] /\ stash[i] # NoStash
        may == IF claims THEN stash[i].key = key[c] /\ stash[i].by = None
               ELSE live[i] = None \/ (again[c] /\ key[live[i]] = key[c])
    IN
    /\ at[c] = "decide" /\ lock = None
    /\ IF may
       THEN /\ Proceed(c, "add") /\ SameTask /\ lock' = c
            /\ stash' = IF claims THEN [stash EXCEPT ![i].by = c] ELSE stash
            /\ UNCHANGED passed
       ELSE Close(c) /\ passed' = passed \ {c} /\ UNCHANGED <<lock, stash>>
    /\ SameStore
    /\ UNCHANGED <<usage, live, mutation, replaced, restarts>>

(* Mutant: a session that takes another over is not counted. *)
AddAgentOnce(c) ==
    /\ at[c] = "add" /\ key[c] \in Keys /\ Found(c)
    /\ usage' = IF live[id[c]] # None THEN usage
                ELSE [usage EXCEPT ![key[c]].agents = (@ + 1) % Wide]
    /\ Overtakes(c, {"claim", "decide", "add"})
    /\ Proceed(c, "install")
    /\ SameTask /\ SameStore
    /\ UNCHANGED <<live, stash, locks, replaced, restarts>>

(* add_agent, whether it takes another session over or not. *)
AddAgent(c) ==
    /\ at[c] = "add" /\ key[c] \in Keys /\ Found(c)
    /\ usage' = [usage EXCEPT ![key[c]].agents = (@ + 1) % Wide]
    /\ Overtakes(c, {"claim", "decide", "add"})
    /\ Proceed(c, "install")
    /\ SameTask /\ SameStore
    /\ UNCHANGED <<live, stash, locks, replaced, restarts>>

AddKeyless(c) ==
    /\ at[c] = "add" /\ key[c] = NoKey
    /\ Proceed(c, "install")
    /\ SameTask /\ SameStore
    /\ UNCHANGED <<usage, live, stash, locks, replaced, passed, restarts>>

(* The connection is installed, and its old rooms are restored. *)
Install(c) ==
    /\ at[c] = "install"
    /\ live' = [live EXCEPT ![id[c]] = c]
    /\ lock' = None
    /\ Proceed(c, "write")
    /\ SameTask /\ SameStore
    /\ UNCHANGED <<usage, stash, mutation, replaced, passed, restarts>>

(* The acknowledgement is written, and the stash consumed if it is still   *)
(* the one that was claimed; or it is not written within 5 s.              *)
Written(c) ==
    /\ at[c] = "write"
    /\ \/ /\ Proceed(c, "ready") /\ UNCHANGED failed
          /\ stash' = IF stash[id[c]].by = c THEN [stash EXCEPT ![id[c]] = NoStash]
                      ELSE stash
       \/ /\ Proceed(c, "unregister") /\ failed' = [failed EXCEPT ![c] = TRUE]
          /\ UNCHANGED stash
    /\ SameStore
    /\ UNCHANGED <<usage, live, locks, key, id, again, missed, replaced, passed,
                   restarts>>

(* The stash of an id expires, claimed or not. *)
Expire(i) ==
    /\ stash[i] # NoStash
    /\ stash' = [stash EXCEPT ![i] = NoStash]
    /\ UNCHANGED <<usage, owner, owned, live, locks, conn, replaced, passed,
                   restarts>>

-----------------------------------------------------------------------------
(* Rooms of a key, as far as they are counted. *)

RequestRoom(c) ==
    /\ at[c] = "ready" /\ key[c] \in Keys
    /\ Proceed(c, "roomlimit")
    /\ SameTask /\ SameStore
    /\ UNCHANGED <<usage, live, stash, locks, replaced, passed, restarts>>

(* Before room_mutation is taken. *)
RoomLimit(c) ==
    /\ at[c] = "roomlimit" /\ Found(c)
    /\ IF usage[key[c]].rooms < MaxRooms
       THEN Proceed(c, "insert") ELSE Proceed(c, "ready")
    /\ SameTask /\ SameStore
    /\ UNCHANGED <<usage, live, stash, locks, replaced, passed, restarts>>

(* room_mutation and the row; a taken name or a parent that is gone ends   *)
(* the request.                                                            *)
InsertRoom(c) ==
    /\ at[c] = "insert" /\ mutation = None
    /\ \/ /\ owned[key[c]] < MaxOwned
          /\ owned' = [owned EXCEPT ![key[c]] = @ + 1]
          /\ mutation' = c
          /\ Proceed(c, "addroom")
       \/ Proceed(c, "ready") /\ UNCHANGED <<owned, mutation>>
    /\ passed' = passed \ {c}
    /\ SameTask
    /\ UNCHANGED <<usage, owner, live, stash, lock, replaced, restarts>>

AddRoom(c) ==
    /\ at[c] = "addroom" /\ Found(c)
    /\ usage' = [usage EXCEPT ![key[c]].rooms = (@ + 1) % Wide]
    /\ mutation' = None
    /\ Overtakes(c, {"insert"})
    /\ Proceed(c, "ready")
    /\ SameTask /\ SameStore
    /\ UNCHANGED <<live, stash, lock, replaced, restarts>>

(* The row of one of the key's rooms is deleted under room_mutation. *)
DestroyRoom(c) ==
    /\ at[c] = "ready" /\ key[c] \in Keys /\ mutation = None
    /\ owned[key[c]] > 0
    /\ owned' = [owned EXCEPT ![key[c]] = @ - 1]
    /\ mutation' = c
    /\ Proceed(c, "unroom")
    /\ SameTask
    /\ UNCHANGED <<usage, owner, live, stash, lock, replaced, passed, restarts>>

(* Mutant: the counter is left alone. *)
RemoveRoomNot(c) ==
    /\ at[c] = "unroom"
    /\ mutation' = None
    /\ Proceed(c, "ready")
    /\ SameTask /\ SameStore
    /\ UNCHANGED <<usage, live, stash, lock, replaced, passed, restarts>>

(* remove_room: nothing to do without counters, or at zero ... *)
RemoveRoom(c) ==
    /\ at[c] = "unroom"
    /\ IF usage[key[c]].rooms > 0
       THEN Proceed(c, "subroom") /\ UNCHANGED mutation
       ELSE Proceed(c, "ready") /\ mutation' = None
    /\ SameTask /\ SameStore
    /\ UNCHANGED <<usage, live, stash, lock, replaced, passed, restarts>>

(* ... and the subtraction. *)
SubRoom(c) ==
    /\ at[c] = "subroom"
    /\ usage' = [usage EXCEPT ![key[c]].rooms = (@ - 1) % Wide]
    /\ mutation' = None
    /\ Proceed(c, "ready")
    /\ SameTask /\ SameStore
    /\ UNCHANGED <<live, stash, lock, replaced, passed, restarts>>

-----------------------------------------------------------------------------
(* The end of a connection. *)

Disconnect(c) ==
    /\ at[c] = "ready"
    /\ Proceed(c, IF key[c] \in Keys THEN "remove" ELSE "cleanup")
    /\ SameTask /\ SameStore
    /\ UNCHANGED <<usage, live, stash, locks, replaced, passed, restarts>>

(* Leaving agents: only the entry that is still this connection's. *)
Leave(c) ==
    live' = IF live[id[c]] = c THEN [live EXCEPT ![id[c]] = None] ELSE live

(* A registration that could not be acknowledged drops its claim. *)
Unclaim(c) ==
    stash' = IF stash[id[c]].by = c THEN [stash EXCEPT ![id[c]].by = None]
             ELSE stash

(* After a failed acknowledgement the registry comes first ... *)
Unregister(c) ==
    /\ at[c] = "unregister" /\ lock = None
    /\ Leave(c)
    /\ IF key[c] \in Keys THEN Proceed(c, "remove") /\ SameTask /\ UNCHANGED stash
       ELSE Close(c) /\ Unclaim(c)
    /\ SameStore
    /\ UNCHANGED <<usage, locks, replaced, passed, restarts>>

AfterRemove(c) ==
    IF failed[c] THEN Close(c) /\ Unclaim(c)
    ELSE Proceed(c, "cleanup") /\ SameTask /\ UNCHANGED stash

(* remove_agent: nothing to do without counters, or at zero ... *)
RemoveAgent(c) ==
    /\ at[c] = "remove"
    /\ IF usage[key[c]].agents > 0 THEN Proceed(c, "sub") /\ SameTask /\ UNCHANGED stash
       ELSE AfterRemove(c)
    /\ SameStore
    /\ UNCHANGED <<usage, live, locks, replaced, passed, restarts>>

(* ... and the subtraction. *)
SubAgent(c) ==
    /\ at[c] = "sub"
    /\ usage' = [usage EXCEPT ![key[c]].agents = (@ - 1) % Wide]
    /\ AfterRemove(c)
    /\ SameStore
    /\ UNCHANGED <<live, locks, replaced, passed, restarts>>

(* ... otherwise last; an agent that was in a room leaves a stash (that of *)
(* a new UUID is left to expire).                                          *)
Cleanup(c) ==
    /\ at[c] = "cleanup" /\ lock = None
    /\ Leave(c)
    /\ \/ UNCHANGED stash
       \/ /\ live[id[c]] = c /\ id[c] \in Ids
          /\ stash' = [stash EXCEPT ![id[c]] = [key |-> key[c], by |-> None]]
    /\ Close(c)
    /\ SameStore
    /\ UNCHANGED <<usage, locks, replaced, passed, restarts>>

(* The counters and the registry are lost, the tables stay. *)
Restart ==
    /\ restarts < MaxRestarts
    /\ restarts' = restarts + 1
    /\ usage' = [k \in Keys |-> NoUsage]
    /\ live' = [i \in AllIds |-> None]
    /\ stash' = [i \in AllIds |-> NoStash]
    /\ lock' = None /\ mutation' = None
    /\ at' = [c \in Sockets |-> "new"]
    /\ missed' = [c \in Sockets |-> FALSE]
    /\ key' = [c \in Sockets |-> NoKey] /\ id' = [c \in Sockets |-> c]
    /\ again' = [c \in Sockets |-> FALSE] /\ failed' = [c \in Sockets |-> FALSE]
    /\ replaced' = {} /\ passed' = {}
    /\ UNCHANGED <<owner, owned>>

RegistrationNext ==
    \/ \E c \in Sockets :
        \/ \E k \in Keys \cup {NoKey}, i \in Ids \cup {c} : Register(c, k, i)
        \/ LookUp(c) \/ InsertNew(c)
        \/ LimitRefused(c) \/ LimitPassed(c) \/ Claim(c) \/ Decide(c)
        \/ AddAgent(c) \/ AddKeyless(c) \/ Install(c) \/ Written(c)
        \/ RequestRoom(c) \/ RoomLimit(c) \/ InsertRoom(c) \/ AddRoom(c)
        \/ DestroyRoom(c) \/ RemoveRoom(c) \/ SubRoom(c)
        \/ Disconnect(c) \/ Unregister(c) \/ RemoveAgent(c) \/ SubAgent(c)
        \/ Cleanup(c)
    \/ \E i \in Ids : Expire(i)
    \/ Restart

RegistrationSpec == RegistrationInit /\ [][RegistrationNext]_rvars

-----------------------------------------------------------------------------
(* Connections counted for k: from add_agent to the end of remove_agent. *)
Counted(k) ==
    {c \in Sockets :
        /\ key[c] = k
        /\ at[c] \in Points \ {"new", "limit", "claim", "decide", "add", "cleanup"}}

(* Unless its counters were inserted over others, the agents counted for a *)
(* key are those connected with it, through takeovers and failed           *)
(* acknowledgements, and the unsigned counter never wraps (rate_limit.rs,  *)
(* 151-163: the load and the subtraction are two steps).                   *)
AgentCountExact ==
    \A k \in Keys \ replaced :
        IF usage[k] = NoUsage THEN Counted(k) = {}
        ELSE usage[k].agents = Cardinality(Counted(k))

(* Unless its counters were inserted over others, or the server restarted  *)
(* (which forgets them), the rooms counted for a key are its rows in the   *)
(* store, but for the room being created or destroyed.                     *)
RoomCountExact ==
    \A k \in Keys \ replaced :
        restarts = 0 =>
            LET pending(steps) ==
                    IF mutation # None /\ key[mutation] = k /\ at[mutation] \in steps
                    THEN 1 ELSE 0
                count == IF usage[k] = NoUsage THEN 0 ELSE usage[k].rooms
            IN  count + pending({"addroom"})
                    = owned[k] + pending({"unroom", "subroom"})

(* Both counters of a key are right, in the two senses above. *)
CountersExact == AgentCountExact /\ RoomCountExact

(* A key gets beyond its limits only through a connection that another one *)
(* of the key was counted past since it checked, or through counters that  *)
(* were replaced or forgotten: the check (server.rs:842, handler.rs:473)   *)
(* and the count are separate steps.                                       *)
LimitsExceededOnlyByRace ==
    [][\A k \in Keys :
        /\ (/\ Cardinality(Counted(k)') > MaxAgents
            /\ ~(Counted(k)' \subseteq Counted(k))) =>
               \/ k \in replaced
               \/ \E c \in passed : at[c] = "add" /\ at'[c] = "install"
        /\ (owned'[k] > MaxRooms /\ owned'[k] > owned[k]) =>
               \/ k \in replaced \/ restarts > 0
               \/ \E c \in passed : at[c] = "insert" /\ at'[c] = "addroom"]_rvars

(* An agent that is connected with an API key under an id it asked for has *)
(* that id bound to its key, whoever tries to take it, also after a crash. *)
IdentityHolds ==
    \A i \in Ids :
        live[i] # None /\ key[live[i]] \in Keys => owner[i] = key[live[i]]
=============================================================================

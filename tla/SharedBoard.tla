---------------------------- MODULE SharedBoard ----------------------------
(***************************************************************************)
(* What task boards promise, without the table and its copy, the locks and *)
(* the requests under way: the tasks of a room as one object.  An update   *)
(* changes the fields it names at once and makes the next version; the end *)
(* of a room ends all of its tasks at once; a crash takes nothing back;    *)
(* whoever hears of a version hears of one there is, and of later ones     *)
(* after earlier ones.  TaskBoard implements this.                         *)
(***************************************************************************)
EXTENDS Naturals

CONSTANTS
    Agents,   \* who may hear of a task
    Rooms,    \* rooms, never reused
    Lobby,    \* the room that does not end
    Tasks,    \* tasks, never reused
    Fields,   \* what an update may change
    Values,   \* values an update may give a field
    None      \* no room; the value of a field at first

VARIABLES
    open,     \* rooms there are
    home,     \* the room each task was created in
    version,  \* versions of a task so far, none of one that there is not
    value,    \* the fields of a task
    seen      \* the newest version an agent has heard of

vars == <<open, home, version, value, seen>>

Blank == [f \in Fields |-> None]
Updates == UNION {[S -> Values] : S \in SUBSET Fields}

Init ==
    /\ open = Rooms
    /\ home = [t \in Tasks |-> None]
    /\ version = [t \in Tasks |-> 0] /\ value = [t \in Tasks |-> Blank]
    /\ seen = [a \in Agents |-> [t \in Tasks |-> 0]]

Create(t, r) ==
    /\ r \in open /\ home[t] = None
    /\ home' = [home EXCEPT ![t] = r]
    /\ version' = [version EXCEPT ![t] = 1]
    /\ UNCHANGED <<open, value, seen>>

Change(t, u) ==
    /\ version[t] > 0
    /\ version' = [version EXCEPT ![t] = @ + 1]
    /\ value' = [value EXCEPT ![t] =
           [f \in Fields |-> IF f \in DOMAIN u THEN u[f] ELSE value[t][f]]]
    /\ UNCHANGED <<open, home, seen>>

End(r) ==
    /\ r \in open \ {Lobby}
    /\ open' = open \ {r}
    /\ version' = [t \in Tasks |-> IF home[t] = r THEN 0 ELSE version[t]]
    /\ value' = [t \in Tasks |-> IF home[t] = r THEN Blank ELSE value[t]]
    /\ UNCHANGED <<home, seen>>

(* What is heard of a task whose room has ended is some old version. *)
Hear(a) ==
    /\ seen' \in [Agents -> [Tasks -> Nat]]
    /\ \A b \in Agents \ {a} : seen'[b] = seen[b]
    /\ \A t \in Tasks :
        /\ seen'[a][t] >= seen[a][t]
        /\ seen'[a][t] > seen[a][t] =>
               home[t] # None /\ (home[t] \in open => seen'[a][t] <= version[t])
    /\ UNCHANGED <<open, home, version, value>>

Next ==
    \/ \E t \in Tasks :
        \/ \E r \in Rooms : Create(t, r)
        \/ \E u \in Updates : Change(t, u)
    \/ \E r \in Rooms : End(r)
    \/ \E a \in Agents : Hear(a)

Spec == Init /\ [][Next]_vars
=============================================================================

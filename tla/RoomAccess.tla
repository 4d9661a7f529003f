----------------------------- MODULE RoomAccess -----------------------------
(***************************************************************************)
(* What invites to the rooms of the server promise, without its tables,    *)
(* caches and locks: whoever is let into a room came by an invite that was *)
(* good when it was taken, one that is for a single use lets one in, and   *)
(* a crash or the end of the room never lets in anybody else.              *)
(* RoomDirectory implements this.                                          *)
(***************************************************************************)
EXTENDS Naturals

CONSTANTS
    Rooms,    \* rooms, never reused
    Tokens,   \* invite tokens, never reused
    Keys,     \* API keys
    Tasks,    \* redemptions under way at one time
    None      \* no room

VARIABLES
    open,     \* rooms there are
    guests,   \* <<key, room>>: let in by an invite
    seat,     \* what a token is good for
    arriving  \* per task: the room whose invite it has taken

vars == <<open, guests, seat, arriving>>

Kinds == {"once", "many"}
Good == [kind : Kinds, room : Rooms]
Unmade == [kind |-> "unmade", room |-> None]
Spent == [kind |-> "spent", room |-> None]

Init ==
    /\ open \subseteq Rooms
    /\ guests = {}
    /\ seat = [t \in Tokens |-> Unmade]
    /\ arriving = [c \in Tasks |-> None]

Open(r) ==
    /\ r \notin open
    /\ open' = open \cup {r}
    /\ UNCHANGED <<guests, seat, arriving>>

(* The room ends, and with it every way into it. *)
End(r) ==
    /\ r \in open
    /\ open' = open \ {r}
    /\ guests' = {g \in guests : g[2] # r}
    /\ seat' = [t \in Tokens |-> IF seat[t].room = r THEN Spent ELSE seat[t]]
    /\ arriving' = [c \in Tasks |-> IF arriving[c] = r THEN None ELSE arriving[c]]

Invite(t, r, k) ==
    /\ seat[t] = Unmade
    /\ seat' = [seat EXCEPT ![t] = IF r \in open THEN [kind |-> k, room |-> r]
                                   ELSE Spent]
    /\ UNCHANGED <<open, guests, arriving>>

Revoke(t) ==
    /\ seat[t] \in Good
    /\ seat' = [seat EXCEPT ![t] = Spent]
    /\ UNCHANGED <<open, guests, arriving>>

Take(c, t) ==
    /\ arriving[c] = None /\ seat[t] \in Good
    /\ arriving' = [arriving EXCEPT ![c] = seat[t].room]
    /\ seat' = IF seat[t].kind = "once" THEN [seat EXCEPT ![t] = Spent] ELSE seat
    /\ UNCHANGED <<open, guests>>

(* A key that was let in nowhere yet. *)
Admit(c, k) ==
    /\ arriving[c] # None
    /\ \A g \in guests : g[1] # k
    /\ guests' = guests \cup {<<k, arriving[c]>>}
    /\ arriving' = [arriving EXCEPT ![c] = None]
    /\ UNCHANGED <<open, seat>>

GiveUp(c) ==
    /\ arriving[c] # None
    /\ arriving' = [arriving EXCEPT ![c] = None]
    /\ UNCHANGED <<open, guests, seat>>

(* Of those on their way in, some are in, the others have lost their seat. *)
Crash ==
    /\ \E lucky \in [Tasks -> Keys \cup {None}] :
        /\ \A c \in Tasks : lucky[c] # None =>
               /\ arriving[c] # None
               /\ \A g \in guests : g[1] # lucky[c]
               /\ \A d \in Tasks \ {c} : lucky[d] # lucky[c]
        /\ guests' = guests \cup
               {<<lucky[c], arriving[c]>> : c \in {d \in Tasks : lucky[d] # None}}
    /\ arriving' = [c \in Tasks |-> None]
    /\ UNCHANGED <<open, seat>>

Next ==
    \/ \E r \in Rooms : Open(r) \/ End(r)
    \/ \E t \in Tokens :
        \/ \E r \in Rooms, k \in Kinds : Invite(t, r, k)
        \/ Revoke(t)
    \/ \E c \in Tasks :
        \/ \E t \in Tokens : Take(c, t)
        \/ \E k \in Keys : Admit(c, k)
        \/ GiveUp(c)
    \/ Crash

Spec == Init /\ [][Next]_vars
=============================================================================

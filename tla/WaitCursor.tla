------------------------------ MODULE WaitCursor ------------------------------
(***************************************************************************)
(* `cowchat wait` with a cursor file, against the message stream of one    *)
(* room: wait_for_message (client connection.rs) and the three ways the    *)
(* CLI drives it (cli main.rs): --follow, --loop and --loop --drain.       *)
(*                                                                         *)
(* Events and responses share one ordered queue, so when a response is     *)
(* read the client has already seen every event broadcast before the       *)
(* server answered: a request here first takes in the outbox.              *)
(***************************************************************************)
EXTENDS MessageStream, Integers

CONSTANTS
    Modes,       \* the commands explored: among "follow", "loop", "drain"
    PageLimit,   \* rows per backlog page (32 in wait_for_message)
    PullLimit,   \* rows per history pull of the CLI (500)
    EventCap,    \* broadcast channel of the client (256)
    MaxCrashes   \* bound: the waiting process is killed

ASSUME WaitAssumption ==
    /\ Modes \subseteq {"follow", "loop", "drain"}
    /\ PageLimit \in Nat \ {0} /\ PullLimit \in Nat \ {0} /\ EventCap \in Nat \ {0}
    /\ MaxCrashes \in Nat

VARIABLES
    mode,        \* the flags of the command, the same on every re-run
    pc,          \* where the waiting process is
    cursor,      \* the read floor in memory; NoCursor before it is known
    since,       \* --loop: resolved_since_seq, the floor of this invocation
    file,        \* the cursor file
    subscribed,  \* a receiver of the client's event channel exists
    events,      \* what it has not read yet
    scanned,     \* wait_for_message: scanned_through
    tip,         \* wait_for_message: backlog_tip
    batch,       \* messages about to be printed, in seq order
    shown,       \* history: seqs printed
    floor,       \* history: the tip the reading started from
    crashes      \* bound counter

waiter == <<mode, pc, cursor, since, file, subscribed, events, scanned, tip,
            batch, shown, floor, crashes>>
vars == <<stream, waiter>>

(* Ordered below every seq, so that "above the cursor" needs no case. *)
NoCursor == -1

PCs == {"connect", "resolve", "join", "pull", "subscribe", "tip", "page",
        "live", "drain", "emit", "save"}

(* Type invariant of the waiting process: its program point, the batch, the
   cursor file; the local queue stays within its capacity. *)
WaitTypeOK ==
    /\ StreamTypeOK
    /\ mode \in Modes
    /\ pc \in PCs
    /\ {cursor, since, file, scanned, tip, floor} \subseteq {NoCursor} \cup 0..MaxSeq
    /\ subscribed \in BOOLEAN
    /\ events \in Seq(Seqs) /\ Len(events) <= EventCap
    /\ batch \subseteq Seqs
    /\ shown \subseteq Seqs
    /\ crashes \in 0..MaxCrashes

Init ==
    /\ StreamInit
    /\ mode \in Modes
    /\ pc = "connect"
    /\ cursor = NoCursor /\ since = NoCursor /\ file = NoCursor
    /\ subscribed = FALSE /\ events = <<>>
    /\ scanned = NoCursor /\ tip = NoCursor
    /\ batch = {} /\ shown = {} /\ floor = NoCursor
    /\ crashes = 0

-----------------------------------------------------------------------------
(* The client, seen as a whole. *)

Connected == link # "down"

(* Mutant: the channel has no limit. *)
TakeInUnbounded(es) ==
    /\ events' = IF subscribed THEN events \o es ELSE events
    /\ UNCHANGED dropped

(* Events reach the channel; a receiver that falls more than EventCap      *)
(* behind loses the oldest, and with no receiver there is nothing to keep. *)
TakeIn(es) ==
    LET all == events \o es
        cut == IF Len(all) > EventCap THEN Len(all) - EventCap ELSE 0
    IN  IF subscribed
        THEN /\ events' = SubSeq(all, cut + 1, Len(all))
             /\ dropped' = dropped \cup {all[i] : i \in 1..cut}
        ELSE UNCHANGED <<events, dropped>>

(* A request and its answer; the answer comes after what was queued. *)
Request == Connected /\ TakeIn(outbox) /\ outbox' = <<>>

Unsubscribe == subscribed' = FALSE /\ events' = <<>>

(* The process is gone and the next invocation starts from the file. *)
Rerun(saved) ==
    /\ pc' = "connect"
    /\ cursor' = saved /\ since' = saved /\ file' = saved
    /\ Unsubscribe
    /\ scanned' = NoCursor /\ tip' = NoCursor /\ batch' = {}
    /\ link' = "down" /\ outbox' = <<>>

StoreSame == UNCHANGED <<kind, retained, highWater, sending, overtaken, losses>>

(* The reader task hands the next event to the channel. *)
Deliver ==
    /\ outbox # <<>>
    /\ TakeIn(<<Head(outbox)>>)
    /\ outbox' = Tail(outbox)
    /\ StoreSame
    /\ UNCHANGED <<link, mode, pc, cursor, since, file, subscribed, scanned,
                   tip, batch, shown, floor, crashes>>

Connect ==
    /\ pc = "connect" /\ ~Connected
    /\ link' = "up"
    /\ pc' = IF mode = "follow" /\ cursor = NoCursor THEN "resolve" ELSE "join"
    /\ StoreSame
    /\ UNCHANGED <<outbox, dropped, cursor, since, file, subscribed, events,
                   scanned, tip, batch, shown, floor, crashes>>

(* No cursor file yet: --since-seq tip. *)
ResolveTip ==
    /\ pc = "resolve"
    /\ Request
    /\ cursor' = highWater /\ since' = highWater /\ floor' = highWater
    /\ pc' = IF mode = "follow" THEN "join" ELSE "subscribe"
    /\ StoreSame
    /\ UNCHANGED <<link, file, subscribed, scanned, tip, batch, shown, crashes>>

Join ==
    /\ pc = "join" /\ link = "up"
    /\ link' = "in"
    /\ pc' = CASE mode = "follow" -> "pull"
               [] mode # "follow" /\ cursor = NoCursor -> "resolve"
               [] OTHER -> "subscribe"
    /\ StoreSame
    /\ UNCHANGED <<outbox, dropped, cursor, since, file, subscribed, events,
                   scanned, tip, batch, shown, floor, crashes>>

(* run_wait_follow: pull the history past the cursor before waiting. *)
Pull ==
    LET rows == HistoryAfter(cursor, PullLimit)
    IN  /\ pc = "pull"
        /\ Request
        /\ batch' = rows
        /\ pc' = IF rows = {} THEN "subscribe" ELSE "emit"
        /\ StoreSame
        /\ UNCHANGED <<link, cursor, since, file, subscribed, scanned, tip,
                       shown, floor, crashes>>

-----------------------------------------------------------------------------
(* wait_for_message. *)

(* Subscribe first. *)
Subscribe ==
    /\ pc = "subscribe"
    /\ subscribed' = TRUE /\ events' = <<>>
    /\ pc' = "tip"
    /\ UNCHANGED <<stream, cursor, since, file, scanned, tip, batch, shown,
                   floor, crashes>>

(* Then fix the end of the backlog. *)
BacklogTip ==
    /\ pc = "tip"
    /\ Request
    /\ tip' = highWater /\ scanned' = cursor
    /\ pc' = IF cursor < highWater THEN "page" ELSE "live"
    /\ StoreSame
    /\ UNCHANGED <<link, cursor, since, file, subscribed, batch, shown, floor,
                   crashes>>

(* wait_for_message returns message q to its caller. *)
Return(q) ==
    /\ subscribed' = FALSE
    /\ IF mode # "follow" /\ kind[q] = "filtered"
       THEN cursor' = q /\ pc' = "subscribe" /\ UNCHANGED batch
       ELSE /\ batch' = {q}
            /\ pc' = IF mode = "drain" THEN "drain" ELSE "emit"
            /\ UNCHANGED cursor

(* One page of the backlog: the oldest message from somebody else, or the  *)
(* next page, or, when the rows end before the tip, the live events.       *)
PageResult(rows) ==
    LET peers == {x \in rows : kind[x] \in {"chat", "filtered"}}
    IN  \/ /\ peers # {}
           /\ Return(MinOf(peers))
           /\ UNCHANGED scanned
        \/ /\ peers = {}
           /\ scanned' = IF rows = {} THEN scanned ELSE MaxOf(rows)
           /\ pc' = IF rows # {} /\ MaxOf(rows) < tip THEN "page" ELSE "live"
           /\ UNCHANGED <<cursor, batch, subscribed>>

Page ==
    /\ pc = "page"
    /\ Connected /\ outbox' = <<>>
    /\ PageResult({x \in HistoryAfter(scanned, PageLimit) : x <= tip})
    /\ IF subscribed' THEN TakeIn(outbox) ELSE events' = <<>> /\ UNCHANGED dropped
    /\ StoreSame
    /\ UNCHANGED <<link, since, file, tip, shown, floor, crashes>>

(* A live event: no comparison with the cursor is made here. *)
Live ==
    /\ pc = "live" /\ events # <<>>
    /\ IF kind[Head(events)] = "self"
       THEN /\ events' = Tail(events)
            /\ UNCHANGED <<pc, cursor, batch, subscribed>>
       ELSE events' = <<>> /\ Return(Head(events))
    /\ UNCHANGED <<stream, since, file, scanned, tip, shown, floor, crashes>>

(* The timeout: the caller goes round its own loop. *)
LiveTimeout ==
    /\ pc = "live"
    /\ Unsubscribe
    /\ pc' = IF mode = "follow" THEN "pull" ELSE "subscribe"
    /\ UNCHANGED <<stream, cursor, since, file, scanned, tip, batch, shown,
                   floor, crashes>>

(* The transport failed: connect, join and go on from the cursor. *)
Reconnect ==
    /\ ~Connected
    /\ \/ pc \in {"resolve", "join", "pull", "tip", "page"}
       \/ pc = "live" /\ events = <<>>
    /\ pc' = "connect"
    /\ Unsubscribe
    /\ UNCHANGED <<stream, cursor, since, file, scanned, tip, batch, shown,
                   floor, crashes>>

-----------------------------------------------------------------------------
(* Printing and the cursor file. *)

(* Mutant: the file runs ahead of the output. *)
FollowEmitSavedFirst ==
    LET q == MinOf(batch)
        rest == batch \ {q}
    IN  /\ mode = "follow" /\ pc = "emit"
        /\ IF q > cursor
           THEN cursor' = q /\ file' = q
           ELSE UNCHANGED <<cursor, file>>
        /\ batch' = rest
        /\ pc' = IF rest = {} THEN "pull" ELSE "emit"
        /\ UNCHANGED <<stream, since, subscribed, events, scanned, tip, shown,
                       floor, crashes>>

(* Mutant: a row the cursor already covers is printed again. *)
FollowEmitUnchecked ==
    /\ mode = "follow" /\ pc = "emit"
    /\ shown' = shown \cup {MinOf(batch)}
    /\ pc' = "save"
    /\ UNCHANGED <<stream, cursor, since, file, batch, subscribed, events,
                   scanned, tip, floor, crashes>>

(* Mutant: only printed rows move the cursor. *)
FollowEmitPinned ==
    LET q == MinOf(batch)
        rest == batch \ {q}
    IN  /\ mode = "follow" /\ pc = "emit"
        /\ \/ /\ q <= cursor \/ kind[q] # "chat"
              /\ batch' = rest
              /\ pc' = IF rest = {} THEN "pull" ELSE "emit"
              /\ UNCHANGED shown
           \/ /\ q > cursor /\ kind[q] = "chat"
              /\ shown' = shown \cup {q}
              /\ pc' = "save"
              /\ UNCHANGED batch
        /\ UNCHANGED <<stream, cursor, since, file, subscribed, events,
                       scanned, tip, floor, crashes>>

(* --follow takes its batch one message at a time: rows the cursor already *)
(* covers are dropped, rows that are not shown move the cursor at once, a  *)
(* shown row moves it after the print.                                     *)
FollowEmit ==
    LET q == MinOf(batch)
        rest == batch \ {q}
        done == IF rest = {} THEN "pull" ELSE "emit"
    IN  /\ mode = "follow" /\ pc = "emit"
        /\ \/ /\ q <= cursor
              /\ batch' = rest /\ pc' = done
              /\ UNCHANGED <<cursor, file, shown>>
           \/ /\ q > cursor /\ kind[q] # "chat"
              /\ cursor' = q /\ file' = q
              /\ batch' = rest /\ pc' = done
              /\ UNCHANGED shown
           \/ /\ q > cursor /\ kind[q] = "chat"
              /\ shown' = shown \cup {q}
              /\ pc' = "save"
              /\ UNCHANGED <<cursor, file, batch>>
        /\ UNCHANGED <<stream, since, subscribed, events, scanned, tip, floor,
                       crashes>>

FollowSave ==
    LET q == MinOf(batch)
        rest == batch \ {q}
    IN  /\ mode = "follow" /\ pc = "save"
        /\ cursor' = q /\ file' = q
        /\ batch' = rest
        /\ pc' = IF rest = {} THEN "pull" ELSE "emit"
        /\ UNCHANGED <<stream, since, subscribed, events, scanned, tip, shown,
                       floor, crashes>>

(* --drain pulls everything since the start of the invocation and adds the *)
(* wake message; a failed pull counts as an empty one.                     *)
Drain ==
    LET rows == {x \in HistoryAfter(since, PullLimit) : kind[x] \in {"chat", "filtered"}}
    IN  /\ pc = "drain"
        /\ batch' = IF Connected THEN batch \cup rows ELSE batch
        /\ IF Connected THEN Request ELSE UNCHANGED <<events, dropped, outbox>>
        /\ pc' = "emit"
        /\ StoreSame
        /\ UNCHANGED <<link, cursor, since, file, subscribed, scanned, tip,
                       shown, floor, crashes>>

(* --loop prints the whole batch ... *)
LoopEmit ==
    /\ mode # "follow" /\ pc = "emit"
    /\ shown' = shown \cup batch
    /\ pc' = "save"
    /\ UNCHANGED <<stream, cursor, since, file, subscribed, events, scanned,
                   tip, batch, floor, crashes>>

(* Mutant: the file jumps to the tip of the room. *)
LoopSaveTip ==
    /\ mode # "follow" /\ pc = "save"
    /\ Rerun(highWater)
    /\ StoreSame
    /\ UNCHANGED <<dropped, shown, floor, crashes>>

(* ... then writes its last seq to the file and exits; the agent that runs *)
(* it re-arms with the same cursor file.                                   *)
LoopSave ==
    /\ mode # "follow" /\ pc = "save"
    /\ Rerun(MaxOf(batch))
    /\ StoreSame
    /\ UNCHANGED <<dropped, shown, floor, crashes>>

(* --idle-timeout: the invocation gives up without touching the file. *)
IdleExpire ==
    /\ mode # "follow"
    /\ pc \in {"subscribe", "tip", "page", "live"}
    /\ Rerun(file)
    /\ StoreSame
    /\ UNCHANGED <<mode, dropped, shown, floor, crashes>>

(* The process is killed and started again. *)
Crash ==
    /\ crashes < MaxCrashes /\ crashes' = crashes + 1
    /\ Rerun(file)
    /\ StoreSame
    /\ UNCHANGED <<mode, dropped, shown, floor>>

WaiterStep ==
    /\ \/ Connect \/ ResolveTip \/ Join \/ Pull
       \/ Subscribe \/ BacklogTip \/ Page \/ Live \/ LiveTimeout \/ Reconnect
       \/ FollowEmit \/ FollowSave \/ Drain \/ LoopEmit \/ LoopSave
    /\ UNCHANGED mode

Next ==
    \/ StreamNext /\ UNCHANGED waiter
    \/ Deliver
    \/ WaiterStep
    \/ IdleExpire
    \/ Crash

(* The tokio tasks of both processes run as long as they can; a connection *)
(* told to end does end.                                                   *)
Fairness ==
    /\ WF_vars(WaiterStep)
    /\ WF_vars(Deliver)
    /\ WF_vars(link = "kicked" /\ LinkLost /\ UNCHANGED waiter)
    /\ \A s \in Senders : WF_vars(Broadcast(s) /\ UNCHANGED waiter)

Spec == Init /\ [][Next]_vars /\ Fairness

-----------------------------------------------------------------------------
(* Peer messages after the starting point that the durable cursor has      *)
(* passed although they were never printed.                                *)
Missed == {q \in Seqs : /\ floor # NoCursor /\ floor < q /\ q <= file
                        /\ kind[q] = "chat" /\ q \notin shown}

(* The wait never skips a message on its own account: whatever connection, *)
(* process or server failed in between, a message that the cursor passed   *)
(* unprinted was broadcast after a later one, or its event was dropped by  *)
(* a full queue, or retention had deleted it.                              *)
MissedOnlyIfOvertakenOrDropped ==
    Missed \subseteq overtaken \cup dropped \cup (Seqs \ retained)

(* The cursor file of --follow only moves up, whatever order the events    *)
(* come in.  (--loop writes the last seq of its batch, which a late live   *)
(* event can make lower than what the file held.)                          *)
CursorFileMonotonic == [][mode = "follow" => file' >= file]_vars

(* SKILLS.md:856: "No reply is ever silently missed." *)
NoReplyMissed == Missed \cap retained = {}

(* The cursor of --follow passes every row sooner or later, those it does  *)
(* not print included: no row, lost connection or lagging channel pins it. *)
CursorCatchesUp ==
    \A q \in Seqs : mode = "follow" /\ q \in retained
                        ~> (q <= cursor \/ q \notin retained)
=============================================================================

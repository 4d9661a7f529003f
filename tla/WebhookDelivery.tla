--------------------------- MODULE WebhookDelivery ---------------------------
(***************************************************************************)
(* Webhook delivery for one subscription of one room: the enqueue tasks    *)
(* and the delivery worker (webhooks.rs), the subscription handlers        *)
(* (handler.rs) and their tables (store.rs).                               *)
(*                                                                         *)
(* Every send spawns an enqueue task of its own, so the tasks of two       *)
(* messages run in any order.  The worker takes one row of a subscription  *)
(* at a time.  Every SQL statement is a step, because another task may run *)
(* between two of them; the POST is a step of its own.                     *)
(***************************************************************************)
EXTENDS Naturals, FiniteSets, Numbers

CONSTANTS
    MaxMessages, \* bound: messages in the room
    Matching,    \* seqs of the messages the subscription's filter accepts
    Page,        \* rows per history page (1000)
    Slots,       \* length of RETRY_SCHEDULE_SECS (5)
    PurgeAt,     \* bound: seqs up to which retention may delete
    MaxEnables,  \* bound: sub enable
    MaxRestarts  \* bound: server restarts

Seqs == 1..MaxMessages

ASSUME WebhookAssumption ==
    /\ MaxMessages \in Nat /\ Matching \subseteq Seqs /\ PurgeAt \subseteq Seqs
    /\ Page \in Nat \ {0} /\ Slots \in Nat
    /\ MaxEnables \in Nat /\ MaxRestarts \in Nat

VARIABLES
    tip,         \* messages inserted so far
    retained,    \* those not purged
    task,        \* the enqueue task of each message
    status,      \* of the subscription; "none" before it, "gone" after it
    since,       \* since_seq
    cursor,      \* last_delivered_seq
    hpc,         \* the subscribe or enable handler
    snap,        \* last_delivered_seq as that handler read it
    backlog,     \* what it has still to enqueue
    paging,      \* whether it goes on to the next page
    queue,       \* messages with a row in subscription_deliveries
    waiting,     \* rows whose next_attempt_at is in the future
    attempts,    \* their attempts
    wpc,         \* the worker
    job,         \* the row it is processing; 0 for none
    accepted,    \* history: messages the receiver has taken
    mishaps,     \* history: <<seq, what befell its row>>
    enables, restarts

log == <<tip, retained>>
sub == <<status, since, cursor>>
handler == <<hpc, snap, backlog, paging, enables>>
table == <<queue, waiting, attempts>>
worker == <<wpc, job>>
wvars == <<log, task, sub, handler, table, worker, accepted, mishaps, restarts>>

(* Type invariant: the room's log, the subscription row, the delivery rows and
   the worker's locals; attempts stay within the retry schedule. *)
WebhookTypeOK ==
    /\ tip \in 0..MaxMessages /\ retained \subseteq 1..tip
    /\ task \in [Seqs -> {"none", "list", "row", "done"}]
    /\ status \in {"none", "active", "failed", "gone"}
    /\ since \in 0..MaxMessages /\ cursor \in 0..MaxMessages
    /\ hpc \in {"idle", "create", "activate", "pull", "rows"}
    /\ snap \in 0..MaxMessages /\ backlog \subseteq Seqs /\ paging \in BOOLEAN
    /\ queue \subseteq Matching /\ waiting \subseteq queue
    /\ attempts \in [Seqs -> 0..Slots]
    /\ wpc \in {"load", "lookup", "drop", "post", "delete", "advance",
                "failed", "giveup"}
    /\ job \in 0..MaxMessages
    /\ accepted \subseteq Seqs
    /\ mishaps \subseteq Seqs \X {"overtaken", "outrun", "orphaned", "cut",
                                  "dropped"}
    /\ enables \in 0..MaxEnables /\ restarts \in 0..MaxRestarts

WebhookInit ==
    /\ tip = 0 /\ retained = {}
    /\ task = [q \in Seqs |-> "none"]
    /\ status = "none" /\ since = 0 /\ cursor = 0
    /\ hpc = "idle" /\ snap = 0 /\ backlog = {} /\ paging = FALSE
    /\ queue = {} /\ waiting = {} /\ attempts = [q \in Seqs |-> 0]
    /\ wpc = "load" /\ job = 0
    /\ accepted = {}
    /\ mishaps = {}
    /\ enables = 0 /\ restarts = 0

Mishap(S, what) == mishaps' = mishaps \cup (S \X {what})

(* History: a row for q comes after one for a later message that is still  *)
(* queued, under way or delivered.                                         *)
Overtaken(q) ==
    \/ q <= cursor
    \/ \E p \in (q + 1)..MaxMessages : p \in queue \/ p = job \/ p \in accepted

(* enqueue_delivery: a row is unique, and needs its subscription. *)
AddRow(q) ==
    IF status \in {"active", "failed"} /\ q \notin queue
    THEN /\ queue' = queue \cup {q}
         /\ attempts' = [attempts EXCEPT ![q] = 0]
         /\ Mishap(IF Overtaken(q) THEN {q} ELSE {}, "overtaken")
         /\ UNCHANGED waiting
    ELSE UNCHANGED <<table, mishaps>>

(* delete_delivery. *)
DropRow(q) ==
    /\ queue' = queue \ {q}
    /\ waiting' = waiting \ {q}
    /\ UNCHANGED attempts

SetStatus(s) == status' = IF status \in {"active", "failed"} THEN s ELSE status

-----------------------------------------------------------------------------
(* The room. *)

(* A message is stored, and its handler spawns an enqueue task. *)
Insert ==
    /\ tip < MaxMessages
    /\ tip' = tip + 1 /\ retained' = retained \cup {tip + 1}
    /\ task' = [task EXCEPT ![tip + 1] = "list"]
    /\ UNCHANGED <<sub, handler, table, worker, accepted, mishaps, restarts>>

(* purge_messages_by_tier. *)
Purge(q) ==
    /\ q \in PurgeAt \cap retained
    /\ retained' = {x \in retained : x > q}
    /\ UNCHANGED <<tip, task, sub, handler, table, worker, accepted, mishaps,
                   restarts>>

(* enqueue_for_message: list the active subscriptions and apply            *)
(* matches_filter, which also looks at the cursor.                         *)
TaskList(q) ==
    LET wanted == status = "active" /\ q \in Matching
    IN  /\ task[q] = "list"
        /\ task' = [task EXCEPT ![q] = IF wanted /\ q > cursor THEN "row" ELSE "done"]
        /\ Mishap(IF q <= cursor THEN {q} ELSE {}, "outrun")
        /\ UNCHANGED <<log, sub, handler, table, worker, accepted, restarts>>

TaskRow(q) ==
    /\ task[q] = "row"
    /\ task' = [task EXCEPT ![q] = "done"]
    /\ AddRow(q)
    /\ UNCHANGED <<log, sub, handler, worker, accepted, restarts>>

-----------------------------------------------------------------------------
(* The owner. *)

(* handle_subscribe: since_seq is given, or the tip is read. *)
SubscribeSince(n) ==
    /\ hpc = "idle" /\ status = "none"
    /\ n \in {0, tip}
    /\ snap' = n
    /\ hpc' = "create"
    /\ UNCHANGED <<log, task, sub, backlog, paging, enables, table, worker,
                   accepted, mishaps, restarts>>

SubscribeCreate ==
    /\ hpc = "create"
    /\ status' = "active" /\ since' = snap /\ cursor' = snap
    /\ hpc' = "pull" /\ paging' = TRUE
    /\ UNCHANGED <<log, task, snap, backlog, enables, table, worker, accepted,
                   mishaps, restarts>>

(* Mutant: the replay starts at the tip. *)
EnableReadTip ==
    /\ hpc = "idle" /\ status \in {"active", "failed"}
    /\ enables < MaxEnables /\ enables' = enables + 1
    /\ snap' = tip
    /\ hpc' = "activate"
    /\ UNCHANGED <<log, task, sub, backlog, paging, table, worker, accepted,
                   mishaps, restarts>>

(* handle_enable_subscription, whatever the status is. *)
EnableRead ==
    /\ hpc = "idle" /\ status \in {"active", "failed"}
    /\ enables < MaxEnables /\ enables' = enables + 1
    /\ snap' = cursor
    /\ hpc' = "activate"
    /\ UNCHANGED <<log, task, sub, backlog, paging, table, worker, accepted,
                   mishaps, restarts>>

EnableActivate ==
    /\ hpc = "activate"
    /\ SetStatus("active")
    /\ hpc' = "pull" /\ paging' = FALSE
    /\ UNCHANGED <<log, task, since, cursor, snap, backlog, enables, table,
                   worker, accepted, mishaps, restarts>>

HistoryAfter(q, n) ==
    {x \in retained : /\ x > q
                      /\ Cardinality({y \in retained : q < y /\ y <= x}) <= n}

(* One page of the backlog.  Subscribing pages on, enabling does not.      *)
BacklogPull ==
    LET page == HistoryAfter(snap, Page)
        more == Cardinality(page) = Page
        cut == {q \in Matching \cap retained : /\ q > MaxOf(page) /\ q \notin queue
                                               /\ task[q] = "done"}
    IN  /\ hpc = "pull"
        /\ backlog' = page \cap Matching
        /\ snap' = IF page = {} THEN snap ELSE MaxOf(page)
        /\ paging' = (paging /\ more)
        /\ hpc' = IF page \cap Matching # {} THEN "rows"
                  ELSE IF paging' THEN "pull" ELSE "idle"
        /\ Mishap(IF ~paging /\ more THEN cut ELSE {}, "cut")
        /\ UNCHANGED <<log, task, sub, enables, table, worker, accepted, restarts>>

BacklogRow ==
    LET q == MinOf(backlog)
    IN  /\ hpc = "rows"
        /\ AddRow(q)
        /\ backlog' = backlog \ {q}
        /\ hpc' = IF backlog' # {} THEN "rows" ELSE IF paging THEN "pull" ELSE "idle"
        /\ UNCHANGED <<log, task, sub, snap, paging, enables, worker, accepted,
                       restarts>>

(* delete_subscription, or the room is destroyed: the rows go with it. *)
Unsubscribe ==
    /\ status \in {"active", "failed"}
    /\ status' = "gone"
    /\ queue' = {} /\ waiting' = {}
    /\ UNCHANGED <<log, task, since, cursor, handler, attempts, worker,
                   accepted, mishaps, restarts>>

-----------------------------------------------------------------------------
(* The worker. *)

(* Mutant: any due row, not only the first of the subscription. *)
WorkerLoadAnyDue ==
    /\ wpc = "load"
    /\ job' \in queue \ waiting
    /\ wpc' = "lookup"
    /\ UNCHANGED <<log, task, sub, handler, table, accepted, mishaps, restarts>>

(* load_due_deliveries: the first row of the subscription, once it is due. *)
WorkerLoad ==
    /\ wpc = "load"
    /\ queue # {} /\ MinOf(queue) \notin waiting
    /\ job' = MinOf(queue)
    /\ wpc' = "lookup"
    /\ UNCHANGED <<log, task, sub, handler, table, accepted, mishaps, restarts>>

(* Nothing is due: the worker sleeps and looks again. *)
WorkerIdle ==
    /\ wpc = "load"
    /\ queue # {} => MinOf(queue) \in waiting
    /\ UNCHANGED wvars

(* process_delivery: the subscription must be active, the message there. *)
WorkerLookup ==
    /\ wpc = "lookup"
    /\ wpc' = IF status = "active" /\ job \in retained THEN "post" ELSE "drop"
    /\ UNCHANGED <<log, task, sub, handler, table, job, accepted, mishaps,
                   restarts>>

WorkerNext == wpc' = "load" /\ job' = 0

(* Mutant: the row of an inactive subscription is left where it is. *)
WorkerDropKeepsRow ==
    /\ wpc = "drop"
    /\ WorkerNext
    /\ UNCHANGED <<log, task, sub, handler, table, accepted, mishaps, restarts>>

WorkerDrop ==
    /\ wpc = "drop"
    /\ DropRow(job)
    /\ Mishap(IF status = "active" THEN {job} \cap queue ELSE {}, "dropped")
    /\ WorkerNext
    /\ UNCHANGED <<log, task, sub, handler, accepted, restarts>>

(* The address is not allowed or does not resolve: the row stays. *)
PostBlocked ==
    /\ wpc = "post"
    /\ SetStatus("failed")
    /\ WorkerNext
    /\ UNCHANGED <<log, task, since, cursor, handler, table, accepted, mishaps,
                   restarts>>

(* The receiver takes the POST, under a webhook-id made for this attempt;  *)
(* its 2xx arrives, or is lost.                                            *)
PostAccepted(heard) ==
    /\ wpc = "post"
    /\ accepted' = accepted \cup {job}
    /\ wpc' = IF heard THEN "delete" ELSE "failed"
    /\ UNCHANGED <<log, task, sub, handler, table, job, mishaps, restarts>>

PostRefused ==
    /\ wpc = "post"
    /\ wpc' = "failed"
    /\ UNCHANGED <<log, task, sub, handler, table, job, accepted, mishaps,
                   restarts>>

DeliveredDelete ==
    /\ wpc = "delete"
    /\ DropRow(job)
    /\ wpc' = "advance"
    /\ UNCHANGED <<log, task, sub, handler, job, accepted, mishaps, restarts>>

(* Mutant: the cursor is set without a comparison. *)
DeliveredAdvanceSets ==
    /\ wpc = "advance"
    /\ cursor' = job
    /\ WorkerNext
    /\ UNCHANGED <<log, task, status, since, handler, table, accepted, mishaps,
                   restarts>>

(* advance_subscription_cursor. *)
DeliveredAdvance ==
    /\ wpc = "advance"
    /\ cursor' = Larger(cursor, job)
    /\ WorkerNext
    /\ UNCHANGED <<log, task, status, since, handler, table, accepted, mishaps,
                   restarts>>

(* reschedule_delivery. *)
Retry ==
    /\ wpc = "failed" /\ attempts[job] < Slots
    /\ IF job \in queue
       THEN /\ attempts' = [attempts EXCEPT ![job] = @ + 1]
            /\ waiting' = waiting \cup {job}
       ELSE UNCHANGED <<attempts, waiting>>
    /\ WorkerNext
    /\ UNCHANGED <<log, task, sub, handler, queue, accepted, mishaps, restarts>>

(* Out of slots: the row is deleted, the subscription failed. *)
GiveUpDelete ==
    /\ wpc = "failed" /\ attempts[job] >= Slots
    /\ DropRow(job)
    /\ wpc' = "giveup"
    /\ UNCHANGED <<log, task, sub, handler, job, accepted, mishaps, restarts>>

(* Mutant: a message that is given up counts as delivered. *)
GiveUpStatusSkips ==
    /\ wpc = "giveup"
    /\ SetStatus("failed")
    /\ cursor' = Larger(cursor, job)
    /\ WorkerNext
    /\ UNCHANGED <<log, task, since, handler, table, accepted, mishaps, restarts>>

GiveUpStatus ==
    /\ wpc = "giveup"
    /\ SetStatus("failed")
    /\ WorkerNext
    /\ UNCHANGED <<log, task, since, cursor, handler, table, accepted, mishaps,
                   restarts>>

(* next_attempt_at is reached. *)
Due(q) ==
    /\ q \in waiting
    /\ waiting' = waiting \ {q}
    /\ UNCHANGED <<log, task, sub, handler, queue, attempts, worker, accepted,
                   mishaps, restarts>>

(* The server stops and starts: tables stay, tasks and handlers are gone. *)
Restart ==
    LET replay == IF hpc \in {"pull", "rows"}
                  THEN {q \in Matching \cap 1..tip : q > since /\ q \notin queue}
                  ELSE {}
        tasks == {q \in Matching : task[q] \in {"list", "row"}}
        given == IF wpc = "giveup" THEN {job} ELSE {}
    IN  /\ restarts < MaxRestarts /\ restarts' = restarts + 1
        /\ task' = [q \in Seqs |-> IF q <= tip THEN "done" ELSE "none"]
        /\ hpc' = "idle" /\ backlog' = {} /\ paging' = FALSE
        /\ WorkerNext
        /\ Mishap(replay \cup tasks \cup given, "orphaned")
        /\ UNCHANGED <<log, sub, snap, enables, table, accepted>>

WorkerStep ==
    \/ WorkerLoad \/ WorkerLookup \/ WorkerDrop
    \/ PostBlocked \/ PostRefused
    \/ \E heard \in BOOLEAN : PostAccepted(heard)
    \/ DeliveredDelete \/ DeliveredAdvance
    \/ Retry \/ GiveUpDelete \/ GiveUpStatus

TaskStep == \E q \in Seqs : TaskList(q) \/ TaskRow(q)

HandlerStep == SubscribeCreate \/ EnableActivate \/ BacklogPull \/ BacklogRow

WebhookNext ==
    \/ Insert
    \/ \E q \in Seqs : Purge(q) \/ Due(q)
    \/ TaskStep
    \/ \E n \in {0, tip} : SubscribeSince(n)
    \/ HandlerStep
    \/ EnableRead
    \/ Unsubscribe
    \/ WorkerStep \/ WorkerIdle
    \/ Restart

(* tokio runs the worker, the tasks and the handlers; the clock goes on. *)
Fairness ==
    /\ WF_wvars(WorkerStep) /\ WF_wvars(TaskStep) /\ WF_wvars(HandlerStep)
    /\ \A q \in Seqs : WF_wvars(Due(q))

WebhookSpec == WebhookInit /\ [][WebhookNext]_wvars /\ Fairness

-----------------------------------------------------------------------------
(* Messages the subscription was owed, that its cursor has passed, that    *)
(* never reached the receiver and that nothing will send any more.         *)
Lost ==
    {q \in Matching \cap retained :
        /\ status \in {"active", "failed"}
        /\ since < q /\ q <= cursor
        /\ q \notin accepted
        /\ q \notin queue /\ task[q] = "done"
        /\ ~(hpc \in {"pull", "rows"} /\ (q > snap \/ q \in backlog))}

Befell(q, whats) == \E w \in whats : <<q, w>> \in mishaps

(* The queue itself loses nothing: retries, giving up, blocked addresses,  *)
(* dropped rows, replay and restarts never move the cursor past a message  *)
(* that was not delivered, unless one of five things befell its row: its   *)
(* row came after that of a later message, its task ran when the cursor    *)
(* had passed, its task or its replay died with the server, it was beyond  *)
(* the one page enabling replays, or the worker deleted its row on a       *)
(* status that was no longer current.                                      *)
LostOnlyByMishap ==
    \A q \in Lost : Befell(q, {"overtaken", "outrun", "orphaned", "cut", "dropped"})

(* A message is first delivered after a later one only if its row came     *)
(* after that one's: load_due_deliveries hands out the first row only, so  *)
(* neither a retry nor a restart nor a replay turns two rows round.        *)
InOrderUnlessMishap ==
    [][\A q \in Seqs : q \notin accepted /\ q \in accepted' =>
           \/ \A p \in (q + 1)..MaxMessages : p \notin accepted
           \/ Befell(q, {"overtaken"})]_wvars

(* SKILLS.md:1042, "At-least-once, ordered per subscription.", but for     *)
(* what the two definitions above name.                                    *)
AtLeastOnceInOrder == []LostOnlyByMishap /\ InOrderUnlessMishap

(* Every row leaves the queue: delivered, given up, or dropped with its    *)
(* subscription.  No subscription keeps the worker busy for ever.          *)
RowsSettle == \A q \in Seqs : q \in queue ~> q \notin queue
=============================================================================

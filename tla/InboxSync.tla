------------------------------ MODULE InboxSync ------------------------------
(***************************************************************************)
(* How the mail of one mailbox gets into inbox_messages: the poller reads    *)
(* each folder from a cursor, the delta sync walks Graph's change log from a  *)
(* stored link, and change notifications fetch single mails.  All three hand  *)
(* batches to ingestInboxMessageBatch and move the same cursor.               *)
(*                                                                           *)
(* A run is one execution of one of them: <<"poll", f>> is the poll job of    *)
(* folder f, <<"delta", k>> a delta tick (the timer starts a tick whether or   *)
(* not the last one has ended), <<"webhook", m>> the job of mail m's           *)
(* notification.  Runs are split at their awaits.                             *)
(***************************************************************************)
EXTENDS BullJob, FiniteSets

CONSTANTS
    Msgs,         \* the mails the mailbox receives
    Folders,      \* the folders that are watched (config.folders)
    Folder,       \* Folder[m]: the folder m is delivered to
    Received,     \* Received[m]: receivedDateTime of m
    Windows,      \* where the five minutes of a poll without a cursor may begin
    PageSize,     \* mails Graph returns to one poll
    Ticks,        \* delta ticks that can be under way at once
    Modes,        \* what is switched on: "poll", "delta", "webhook"; "edits" if an operator
                  \* disables the mailbox at times, and its user deletes or moves mails
    Attempts,     \* defaultJobOptions.attempts of the webhook-ingest queue
    NoLink,       \* the null of delta_link
    MaxFailures,  \* bound: calls that fail
    MaxCrashes,   \* bound: crashes of the worker process
    MaxExpiries,  \* bound: delta links that Graph forgets
    Faults        \* what may fail: "graph", "postgres", "redis"

ASSUME SyncAssumption ==
    /\ Folder \in [Msgs -> Folders]
    /\ Received \in [Msgs -> Nat \ {0}]
    /\ Windows \subseteq Nat
    /\ PageSize \in Nat \ {0}
    /\ Modes \subseteq {"poll", "delta", "webhook", "edits"}
    /\ Attempts \in Nat \ {0}
    /\ \A S \in SUBSET Msgs : S # NoLink
    /\ Ticks # {} => Folders # {}
    /\ MaxFailures \in Nat
    /\ MaxCrashes \in Nat
    /\ MaxExpiries \in Nat
    /\ Faults \subseteq {"graph", "postgres", "redis"}

VARIABLES
    arrived,    \* mails that Graph shows in their folder
    rows,       \* mails with a row in inbox_messages
    cursor,     \* cursor[f]: inbox_last_sync_at or junk_last_sync_at, 0 for null
    tracked,    \* folders with a row in webhook_subscriptions
    link,       \* link[f]: its delta_link, the set of mails the link has reported
    expired,    \* folders whose stored link Graph has forgotten
    held,       \* held[f]: the delta_link the subscription tick holds, and since when
    job,        \* job[r]: the BullMQ job of a poll or a webhook run
    pc,         \* pc[r]: where run r stands
    since,      \* since[f]: the cursor the poll of f has read
    at,         \* at[k]: the folder delta tick k is at
    left,       \* left[k]: folders that tick has still to visit
    seen,       \* seen[r]: mails reported to tick or notification r, by its first link too
    todo,       \* todo[r]: mails of r's batch that are not ingested yet
    fresh,      \* fresh[r]: the batch wrote a row (written > 0)
    newest,     \* newest[r]: maxReceivedAt of r, 0 for null
    failures,   \* calls that failed so far
    crashes,    \* crashes of the worker process so far
    expiries    \* links that expired so far

storeVars == <<rows, cursor>>
linkVars == <<tracked, link, expired, held>>
batchVars == <<seen, todo, fresh, newest>>
tickVars == <<since, at, left>>
boundVars == <<failures, crashes, expiries>>
vars == <<arrived, storeVars, linkVars, job, pc, tickVars, batchVars, boundVars>>

Polls == {"poll"} \X Folders
Deltas == {"delta"} \X Ticks
Webhooks == {"webhook"} \X Msgs
Jobs == Polls \cup Webhooks
Runs == Jobs \cup Deltas

In(f) == {m \in Msgs : m \in arrived /\ Folder[m] = f}

\* The latest of the received times of S and of t.
Latest(t, S) ==
    CHOOSE max \in {t} \cup {Received[m] : m \in S} :
        \A other \in {t} \cup {Received[m] : m \in S} : other <= max

Nothing == [state |-> "idle", link |-> NoLink]

\* "ingest" is a batch that more pages follow, "last" one that is the last.
Steps == {"idle", "read", "pull", "page", "ingest", "last", "save", "cursor", "throw", "return"}

TypeOK ==
    /\ arrived \subseteq Msgs
    /\ rows \subseteq Msgs
    /\ cursor \in [Folders -> Nat]
    /\ tracked \subseteq Folders
    /\ link \in [Folders -> {NoLink} \cup SUBSET Msgs]
    /\ expired \subseteq Folders
    /\ held \in [Folders -> [state: {"idle", "read", "found"}, link: {NoLink} \cup SUBSET Msgs]]
    /\ job \in [Jobs -> Job]
    /\ pc \in [Runs -> Steps]
    /\ since \in [Folders -> Nat]
    /\ at \in [Ticks -> Folders]
    /\ left \in [Ticks -> SUBSET Folders]
    /\ seen \in [Runs -> SUBSET Msgs]
    /\ todo \in [Runs -> SUBSET Msgs]
    /\ fresh \in [Runs -> BOOLEAN]
    /\ newest \in [Runs -> Nat]
    /\ failures \in Nat
    /\ crashes \in Nat
    /\ expiries \in Nat

Init ==
    /\ arrived = {}
    /\ rows = {}
    /\ cursor = [f \in Folders |-> 0]
    /\ tracked = {}
    /\ link = [f \in Folders |-> NoLink]
    /\ expired = {}
    /\ held = [f \in Folders |-> Nothing]
    /\ job = [r \in Jobs |-> NoJob]
    /\ pc = [r \in Runs |-> "idle"]
    /\ since = [f \in Folders |-> 0]
    /\ at = [k \in Ticks |-> CHOOSE f \in Folders : TRUE]
    /\ left = [k \in Ticks |-> {}]
    /\ seen = [r \in Runs |-> {}]
    /\ todo = [r \in Runs |-> {}]
    /\ fresh = [r \in Runs |-> FALSE]
    /\ newest = [r \in Runs |-> 0]
    /\ failures = 0
    /\ crashes = 0
    /\ expiries = 0

-----------------------------------------------------------------------------
(* Graph.                                                                    *)

\* Mail arrives in the order of its received times.
Arrive(m) ==
    /\ m \notin arrived
    /\ \A other \in Msgs : Received[other] < Received[m] => other \in arrived
    /\ arrived' = arrived \cup {m}
    /\ UNCHANGED <<storeVars, linkVars, job, pc, tickVars, batchVars, boundVars>>

\* Graph forgets the change log behind the stored link.
ExpireLink(f) ==
    /\ expiries < MaxExpiries
    /\ link[f] # NoLink
    /\ expired' = expired \cup {f}
    /\ expiries' = expiries + 1
    /\ UNCHANGED <<arrived, storeVars, tracked, link, held, job, pc, tickVars, batchVars,
                   failures, crashes>>

-----------------------------------------------------------------------------
(* Steps that all runs share.                                                *)

Goto(r, step) == pc' = [pc EXCEPT ![r] = step]

Fails(service) ==
    /\ service \in Faults
    /\ failures < MaxFailures
    /\ failures' = failures + 1

\* (mutant) The cursor of a batch is a mail, not its time.
TakeMail(r, batch, step) ==
    /\ todo' = [todo EXCEPT ![r] = batch]
    /\ fresh' = [fresh EXCEPT ![r] = FALSE]
    /\ newest' = [newest EXCEPT ![r] = IF batch = {} THEN @ ELSE CHOOSE m \in batch : TRUE]
    /\ Goto(r, step)

\* The batch r starts to ingest, and whether more pages follow it.
Take(r, batch, step) ==
    /\ todo' = [todo EXCEPT ![r] = batch]
    /\ fresh' = [fresh EXCEPT ![r] = FALSE]
    /\ newest' = [newest EXCEPT ![r] = Latest(@, batch)]
    /\ Goto(r, step)

\* (mutant) A mail that cannot be inserted is logged and left out.
IngestBestEffort(r, m) ==
    /\ pc[r] \in {"ingest", "last"}
    /\ m \in todo[r]
    /\ rows' \in {rows, rows \cup {m}}
    /\ todo' = [todo EXCEPT ![r] = @ \ {m}]
    /\ fresh' = [fresh EXCEPT ![r] = @ \/ rows' # rows]
    /\ UNCHANGED <<arrived, cursor, linkVars, job, pc, tickVars, seen, newest, boundVars>>

\* ingestInboxMessageBatch, one mail: the row is inserted unless it is there, and its
\* match job added.  A failure abandons the batch, after the insert if Redis failed.
Ingest(r, m) ==
    /\ pc[r] \in {"ingest", "last"}
    /\ m \in todo[r]
    /\ \/ /\ rows' = rows \cup {m}
          /\ todo' = [todo EXCEPT ![r] = @ \ {m}]
          /\ fresh' = [fresh EXCEPT ![r] = @ \/ m \notin rows]
          /\ UNCHANGED <<pc, failures>>
       \/ /\ \/ Fails("postgres") /\ UNCHANGED rows
             \/ Fails("redis") /\ m \notin rows /\ rows' = rows \cup {m}
          /\ Goto(r, "throw")
          /\ UNCHANGED <<todo, fresh>>
    /\ UNCHANGED <<arrived, cursor, linkVars, job, tickVars, seen, newest, crashes, expiries>>

\* The batch is ingested.  A poll or a webhook moves the cursor if it wrote a row; a
\* delta tick fetches the next page, or has a new link.
IngestEnd(r) ==
    /\ pc[r] \in {"ingest", "last"}
    /\ todo[r] = {}
    /\ Goto(r, IF pc[r] = "ingest" THEN "page"
               ELSE IF r \in Deltas THEN "save"
               ELSE IF fresh[r] THEN "cursor" ELSE "return")
    /\ UNCHANGED <<arrived, storeVars, linkVars, job, tickVars, batchVars, boundVars>>

FolderOf(r) ==
    CASE r \in Polls -> r[2]
      [] r \in Webhooks -> Folder[r[2]]
      [] r \in Deltas -> at[r[2]]

\* setFolderCursor, to the newest mail of the run, wherever the cursor was.
SetCursor(r) ==
    /\ pc[r] = "cursor"
    /\ \/ /\ cursor' = [cursor EXCEPT ![FolderOf(r)] = newest[r]]
          /\ Goto(r, "return")
          /\ UNCHANGED failures
       \/ /\ Fails("postgres")
          /\ Goto(r, "throw")
          /\ UNCHANGED cursor
    /\ UNCHANGED <<arrived, rows, linkVars, job, tickVars, batchVars, crashes, expiries>>

\* What a run had in memory is gone.
Forget(r) ==
    /\ Goto(r, "idle")
    /\ seen' = [seen EXCEPT ![r] = {}]
    /\ todo' = [todo EXCEPT ![r] = {}]
    /\ fresh' = [fresh EXCEPT ![r] = FALSE]
    /\ newest' = [newest EXCEPT ![r] = 0]

-----------------------------------------------------------------------------
(* The queues of the polls and of the notifications.                         *)

QueueOf(r) == IF r \in Polls THEN Polls ELSE Webhooks

\* inboxPollQueue keeps the default of one attempt that queues.ts gives it.
AttemptsOf(r) == IF r \in Polls THEN 1 ELSE Attempts

\* scheduleTick: one job for every folder, under the same jobId every time.
ScheduleTick ==
    /\ "poll" \in Modes
    /\ job' = [r \in Jobs |-> IF r \in Polls THEN Add(job[r]) ELSE job[r]]
    /\ UNCHANGED <<arrived, storeVars, linkVars, pc, tickVars, batchVars, boundVars>>

\* A change notification for m: the route queues it under the id of the mail.
Notify(m) ==
    /\ "webhook" \in Modes
    /\ m \in arrived
    /\ job' = [job EXCEPT ![<<"webhook", m>>] = Add(@)]
    /\ UNCHANGED <<arrived, storeVars, linkVars, pc, tickVars, batchVars, boundVars>>

TakeJob(r) ==
    /\ job[r].state = "waiting"
    /\ job' = [job EXCEPT ![r] = Start(@)]
    /\ Goto(r, IF r \in Polls THEN "read" ELSE "pull")
    /\ UNCHANGED <<arrived, storeVars, linkVars, tickVars, batchVars, boundVars>>

\* removeOnComplete and removeOnFail: as a job finishes, BullMQ drops those of its queue
\* that finished the same way and have aged.  Nothing else drops a job.
Finish(r, after) ==
    \E aged \in SUBSET {other \in QueueOf(r) \ {r} : job[other].state = after.state} :
        job' = [other \in Jobs |->
                  IF other = r THEN after
                  ELSE IF other \in aged THEN NoJob ELSE job[other]]

CompleteJob(r) ==
    /\ pc[r] = "return"
    /\ Finish(r, Complete(job[r]))
    /\ Forget(r)
    /\ UNCHANGED <<arrived, storeVars, linkVars, tickVars, boundVars>>

FailAttempt(r) ==
    /\ pc[r] = "throw"
    /\ LET after == AfterThrow(job[r], AttemptsOf(r)) IN
           IF IsFinished(after) THEN Finish(r, after) ELSE job' = [job EXCEPT ![r] = after]
    /\ Forget(r)
    /\ UNCHANGED <<arrived, storeVars, linkVars, tickVars, boundVars>>

StalledCheck(r) ==
    /\ job[r].state = "active"
    /\ pc[r] = "idle"
    /\ job' = [job EXCEPT ![r] = AfterStall(@)]
    /\ UNCHANGED <<arrived, storeVars, linkVars, pc, tickVars, batchVars, boundVars>>

-----------------------------------------------------------------------------
(* processPoll and the handler of a notification.                            *)

\* The mailbox is read for its cursor; without one the poll starts five minutes ago.  The
\* job of a mailbox that was disabled since ends here.
PollRead(f) ==
    LET r == <<"poll", f>> IN
    /\ pc[r] = "read"
    /\ \/ /\ \E start \in IF cursor[f] = 0 THEN Windows ELSE {cursor[f]} :
                since' = [since EXCEPT ![f] = start]
          /\ Goto(r, "pull")
          /\ UNCHANGED failures
       \/ /\ "edits" \in Modes
          /\ Goto(r, "return")
          /\ UNCHANGED <<since, failures>>
       \/ /\ Fails("postgres")
          /\ Goto(r, "throw")
          /\ UNCHANGED since
    /\ UNCHANGED <<arrived, storeVars, linkVars, job, at, left, batchVars, crashes, expiries>>

\* (mutant) The page is ordered by the newest mail first.
PagesNewestFirst(f, time) ==
    LET news == {m \in In(f) : Received[m] > time} IN
    {page \in SUBSET news :
        /\ Cardinality(page) <= PageSize
        /\ Cardinality(page) < PageSize => page = news
        /\ \A m \in page, other \in news \ page : Received[m] >= Received[other]}

\* The pages Graph may answer with: the earliest mails received after a time.
PagesAfter(f, time) ==
    LET news == {m \in In(f) : Received[m] > time} IN
    {page \in SUBSET news :
        /\ Cardinality(page) <= PageSize
        /\ Cardinality(page) < PageSize => page = news
        /\ \A m \in page, other \in news \ page : Received[m] <= Received[other]}

\* A poll that fails to fetch its page ends like one that finds nothing.
PollPull(f) ==
    LET r == <<"poll", f>> IN
    /\ pc[r] = "pull"
    /\ \/ /\ \E page \in PagesAfter(f, since[f]) :
                Take(r, page, IF page = {} THEN "return" ELSE "last")
          /\ UNCHANGED failures
       \/ /\ Fails("graph")
          /\ Goto(r, "return")
          /\ UNCHANGED <<todo, fresh, newest>>
    /\ since' = [since EXCEPT ![f] = 0]
    /\ UNCHANGED <<arrived, storeVars, linkVars, job, at, left, seen, crashes, expiries>>

\* The mailbox is looked up and the mail fetched.  The job of a mailbox that is unknown or
\* disabled by now, or of a mail that Graph has no more under its id, ends here.
WebhookFetch(m) ==
    LET r == <<"webhook", m>> IN
    /\ pc[r] = "pull"
    /\ \/ /\ seen' = [seen EXCEPT ![r] = {m}]
          /\ Take(r, {m}, "last")
          /\ UNCHANGED failures
       \/ /\ "edits" \in Modes
          /\ Goto(r, "return")
          /\ UNCHANGED <<seen, todo, fresh, newest, failures>>
       \/ /\ Fails("graph") \/ Fails("postgres")
          /\ Goto(r, "throw")
          /\ UNCHANGED <<seen, todo, fresh, newest>>
    /\ UNCHANGED <<arrived, storeVars, linkVars, job, tickVars, crashes, expiries>>

-----------------------------------------------------------------------------
(* The delta sync.                                                           *)

\* tickDeltaOnce goes through the folders; the timer starts it again when it is due.
DeltaTick(k) ==
    /\ "delta" \in Modes
    /\ left[k] = {}
    /\ pc[<<"delta", k>>] = "idle"
    /\ left' = [left EXCEPT ![k] = Folders]
    /\ UNCHANGED <<arrived, storeVars, linkVars, job, pc, since, at, batchVars, boundVars>>

\* (mutant) A folder without a row of webhook_subscriptions is skipped.
DeltaReadTracked(k, f) ==
    LET r == <<"delta", k>> IN
    /\ pc[r] = "idle"
    /\ f \in left[k]
    /\ at' = [at EXCEPT ![k] = f]
    /\ left' = [left EXCEPT ![k] = @ \ {f}]
    /\ seen' = [seen EXCEPT ![r] = IF link[f] = NoLink THEN {} ELSE link[f]]
    /\ Goto(r, IF f \notin tracked THEN "return" ELSE IF f \in expired THEN "throw" ELSE "page")
    /\ UNCHANGED <<arrived, storeVars, linkVars, job, since, todo, fresh, newest, boundVars>>

\* The walk of a folder starts from the stored link, or from nothing.
DeltaRead(k, f) ==
    LET r == <<"delta", k>> IN
    /\ pc[r] = "idle"
    /\ f \in left[k]
    /\ at' = [at EXCEPT ![k] = f]
    /\ left' = [left EXCEPT ![k] = @ \ {f}]
    /\ \/ /\ IF f \in expired THEN Goto(r, "throw") ELSE Goto(r, "page")
          /\ seen' = [seen EXCEPT ![r] = IF link[f] = NoLink THEN {} ELSE link[f]]
          /\ UNCHANGED failures
       \/ /\ Fails("postgres")
          /\ Goto(r, "throw")
          /\ UNCHANGED seen
    /\ UNCHANGED <<arrived, storeVars, linkVars, job, since, todo, fresh, newest,
                   crashes, expiries>>

\* A page reports some of the changes; the one that leaves nothing carries the new link.
DeltaPage(k) ==
    LET r == <<"delta", k>>
        news == In(at[k]) \ seen[r]
    IN
    /\ pc[r] = "page"
    /\ \/ /\ \E page \in SUBSET news :
                /\ page # {} \/ news = {}
                /\ seen' = [seen EXCEPT ![r] = @ \cup page]
                /\ Take(r, page, IF page = news THEN "last" ELSE "ingest")
          /\ UNCHANGED failures
       \/ /\ Fails("graph")
          /\ Goto(r, "throw")
          /\ UNCHANGED <<seen, todo, fresh, newest>>
    /\ UNCHANGED <<arrived, storeVars, linkVars, job, tickVars, crashes, expiries>>

\* updateDeltaLink, which does nothing without a row, then the cursor.
SaveLink(k) ==
    LET r == <<"delta", k>>
        f == at[k]
    IN
    /\ pc[r] = "save"
    /\ \/ /\ link' = IF f \in tracked THEN [link EXCEPT ![f] = seen[r]] ELSE link
          /\ expired' = IF f \in tracked THEN expired \ {f} ELSE expired
          /\ Goto(r, IF newest[r] = 0 THEN "return" ELSE "cursor")
          /\ UNCHANGED failures
       \/ /\ Fails("postgres")
          /\ Goto(r, "throw")
          /\ UNCHANGED <<link, expired>>
    /\ UNCHANGED <<arrived, storeVars, tracked, held, job, tickVars, batchVars, crashes,
                   expiries>>

\* The folder is done, or its error logged; the tick goes on to the next.
DeltaEnd(k) ==
    /\ pc[<<"delta", k>>] \in {"return", "throw"}
    /\ Forget(<<"delta", k>>)
    /\ UNCHANGED <<arrived, storeVars, linkVars, job, tickVars, boundVars>>

-----------------------------------------------------------------------------
(* The subscription tick, which writes the row that holds the link.          *)

\* ensureSubscriptionForMailboxFolder reads the row, then calls Graph ...
SubscriptionRead(f) ==
    /\ "delta" \in Modes
    /\ held[f].state = "idle"
    /\ held' = [held EXCEPT ![f] = [state |-> "read", link |-> link[f]]]
    /\ UNCHANGED <<arrived, storeVars, tracked, link, expired, job, pc, tickVars, batchVars,
                   boundVars>>

\* ... upsertWebhookRow reads it again, for the link the caller did not have ...
SubscriptionFind(f) ==
    /\ held[f].state = "read"
    /\ held' = [held EXCEPT ![f] =
                  [state |-> "found", link |-> IF @.link = NoLink THEN link[f] ELSE @.link]]
    /\ UNCHANGED <<arrived, storeVars, tracked, link, expired, job, pc, tickVars, batchVars,
                   boundVars>>

\* ... and writes the link it holds over the one that is there.
SubscriptionWrite(f) ==
    /\ held[f].state = "found"
    /\ link' = [link EXCEPT ![f] = held[f].link]
    /\ tracked' = tracked \cup {f}
    /\ held' = [held EXCEPT ![f] = Nothing]
    /\ UNCHANGED <<arrived, storeVars, expired, job, pc, tickVars, batchVars, boundVars>>

\* Graph refuses the subscription, and the tick logs it.
SubscriptionFails(f) ==
    /\ held[f].state # "idle"
    /\ Fails("graph")
    /\ held' = [held EXCEPT ![f] = Nothing]
    /\ UNCHANGED <<arrived, storeVars, tracked, link, expired, job, pc, tickVars, batchVars,
                   crashes, expiries>>

-----------------------------------------------------------------------------
\* The worker process dies and is started again; its timers start anew.
WorkerCrash ==
    /\ crashes < MaxCrashes
    /\ \/ \E r \in Runs : pc[r] # "idle"
       \/ \E k \in Ticks : left[k] # {}
       \/ \E f \in Folders : held[f] # Nothing
    /\ crashes' = crashes + 1
    /\ pc' = [r \in Runs |-> "idle"]
    /\ since' = [f \in Folders |-> 0]
    /\ left' = [k \in Ticks |-> {}]
    /\ seen' = [r \in Runs |-> {}]
    /\ todo' = [r \in Runs |-> {}]
    /\ fresh' = [r \in Runs |-> FALSE]
    /\ newest' = [r \in Runs |-> 0]
    /\ held' = [f \in Folders |-> Nothing]
    /\ UNCHANGED <<arrived, storeVars, tracked, link, expired, job, at, failures, expiries>>

IngestSteps(r) == IngestEnd(r) \/ SetCursor(r) \/ \E m \in Msgs : Ingest(r, m)

PollSteps(f) == PollRead(f) \/ PollPull(f) \/ IngestSteps(<<"poll", f>>)

WebhookSteps(m) == WebhookFetch(m) \/ IngestSteps(<<"webhook", m>>)

DeltaSteps(k) ==
    \/ DeltaTick(k) \/ DeltaPage(k) \/ SaveLink(k) \/ DeltaEnd(k)
    \/ \E f \in Folders : DeltaRead(k, f)
    \/ IngestSteps(<<"delta", k>>)

SubscriptionSteps(f) ==
    SubscriptionRead(f) \/ SubscriptionFind(f) \/ SubscriptionWrite(f) \/ SubscriptionFails(f)

Queue(r) == TakeJob(r) \/ CompleteJob(r) \/ FailAttempt(r) \/ StalledCheck(r)

Next ==
    \/ \E m \in Msgs : Arrive(m) \/ Notify(m) \/ WebhookSteps(m)
    \/ \E f \in Folders : ExpireLink(f) \/ PollSteps(f) \/ SubscriptionSteps(f)
    \/ \E k \in Ticks : DeltaSteps(k)
    \/ \E r \in Jobs : Queue(r)
    \/ ScheduleTick
    \/ WorkerCrash

Spec == Init /\ [][Next]_vars

\* The timers fire, Node runs every pending await to its end, and BullMQ serves its
\* queues.  Nothing makes Graph send a notification or accept a subscription.
Fairness ==
    /\ WF_vars(ScheduleTick)
    /\ \A r \in Jobs : WF_vars(Queue(r))
    /\ \A f \in Folders : WF_vars(PollSteps(f))
    /\ \A m \in Msgs : WF_vars(WebhookSteps(m))
    /\ \A k \in Ticks : WF_vars(DeltaSteps(k))

FairSpec == Spec /\ Fairness

-----------------------------------------------------------------------------
(* Properties.                                                               *)

\* A stored delta link never stands past a mail that is not ingested, however delta
\* ticks, subscription ticks, failures and crashes interleave: delta.service.ts returns
\* a link only after every page before it was ingested.
LinkIsIngested == \A f \in Folders : link[f] # NoLink => link[f] \subseteq rows

\* As long as no notification is served, every mail received after the first window and up
\* to the cursor is ingested: polls and delta ticks never move the cursor past one, whatever
\* fails (inbox.worker.ts, v2-maintenance.worker.ts).
CursorCovers ==
    \A m \in arrived :
        /\ Received[m] <= cursor[Folder[m]]
        /\ \A start \in Windows : start < Received[m]
        => m \in rows

\* Every mail that arrives is ingested at last: the delta ticks alone see to it, without any
\* notification and though ticks overlap and fail (v2-maintenance.worker.ts).
MailIsIngested == \A m \in Msgs : m \in arrived ~> m \in rows

=============================================================================

---------------------------- MODULE MatchPipeline ----------------------------
(***************************************************************************)
(* The way of one mail into the system.  Polling, delta sync and webhooks   *)
(* insert it into inbox_messages and add a job to the match queue; the match *)
(* worker finds the outbound mail it answers, updates the thread status of   *)
(* that mail, the inbox row and conversation_map, and writes a reply or a     *)
(* bounce to Notion.                                                         *)
(*                                                                           *)
(* The handler is split at its awaits and several jobs run at once.  A job    *)
(* has a slot: "ingest" is the job of the ingest path, another slot is a job  *)
(* that the reconcile script adds for the same row under an id of its own.    *)
(***************************************************************************)
EXTENDS BullJob, FiniteSets

CONSTANTS
    Msgs,         \* inbound mails, numbered in the order they were received
    Outbounds,    \* outbound mails, numbered in the order they were sent
    ByThread,     \* ByThread[m]: outbound mails in the Graph conversation of m
    ByContent,    \* ByContent[m]: those whose recipients and subject fit m
    Kind,         \* Kind[m]: what m is: "human", "auto" or "bounce"
    Conv,         \* Conv[m]: the Graph conversation of m
    Paged,        \* outbound mails with a Notion page
    Slots,        \* "ingest", and "requeue" when the reconcile script may run
    Attempts,     \* defaultJobOptions.attempts of the match queue
    MaxPosts,     \* bound: pages one create call can make, HTTP retries included
    MaxCrashes,   \* bound: crashes of the worker process
    MaxScans,     \* bound: rows the reconcile script resolves; 0 if no script runs at all
    Faults        \* what may fail: "notion", "graph", "postgres", "redis"

ASSUME MatchAssumption ==
    /\ Msgs \subseteq Nat \ {0}
    /\ Outbounds \subseteq Nat \ {0}
    /\ ByThread \in [Msgs -> SUBSET Outbounds]
    /\ ByContent \in [Msgs -> SUBSET Outbounds]
    /\ Kind \in [Msgs -> {"human", "auto", "bounce"}]
    /\ Paged \subseteq Outbounds
    /\ "ingest" \in Slots
    /\ Attempts \in Nat \ {0}
    /\ MaxPosts \in Nat \ {0}
    /\ MaxCrashes \in Nat
    /\ MaxScans \in Nat
    /\ Faults \subseteq {"notion", "graph", "postgres", "redis"}

VARIABLES
    inbox,      \* inbox[m]: match_status of m's row of inbox_messages
    link,       \* link[m]: its matched_outbound_id
    pending,    \* rows inserted by an ingest that has not queued them yet
    job,        \* job[r]: the match job of run r, a mail and a slot
    pc,         \* pc[r]: where the handler of run r stands
    verdict,    \* verdict[r]: what run r found the mail to be, and the answered mail
    thread,     \* thread[o]: thread_status of o's row of outbound_messages
    reset,      \* those that a backfill has set back to "sent" since a verdict was written
    map,        \* map[c]: the row of conversation_map for conversation c
    children,   \* children[m]: Notion rows created for the reply m
    bounced,    \* mails whose bounce is written to the Notion row they bounced from
    done,       \* outbound mails whose Notion row has Reply Status Done
    failedKP,   \* outbound mails whose key person is marked Send Email Failed
    scan,       \* pairs the reconcile script has resolved but not written yet
    linked,     \* rows the reconcile script has linked
    crashes,    \* crashes of the worker process so far
    scans       \* rows the reconcile script has resolved so far

inboxVars == <<inbox, link>>
queueVars == <<job, pending>>
runVars == <<pc, verdict>>
threadVars == <<thread, reset>>
notionVars == <<children, bounced, done, failedKP>>
scriptVars == <<scan, linked, scans>>
vars == <<inboxVars, queueVars, runVars, threadVars, map, notionVars, scriptVars, crashes>>

Runs == Msgs \X Slots
Convs == {Conv[m] : m \in Msgs}

None == 0
NoRow == [page |-> None, latest |-> None]
NoVerdict == [kind |-> "none", out |-> None]

\* The statuses at which the handler leaves a row alone.
Final == {"matched", "bounce", "auto_reply"}
InboxStatus == {"absent", "unmatched", "ignored"} \cup Final
ThreadStatus == {"absent", "sent", "reply_received", "bounce"}

\* match_status for each kind of mail.
StatusOf == [human |-> "matched", auto |-> "auto_reply", bounce |-> "bounce"]

\* What a run takes a final row for.
KindOf == [matched |-> "human", auto_reply |-> "auto", bounce |-> "bounce"]

\* The steps of the handler, named for what comes next.
Steps == {"idle", "read", "sync", "flip", "classify", "guess", "ignore", "status", "mark",
          "lookup", "update", "insert", "write", "stamp", "throw", "return"}

TypeOK ==
    /\ inbox \in [Msgs -> InboxStatus]
    /\ link \in [Msgs -> Outbounds \cup {None}]
    /\ pending \subseteq Msgs
    /\ job \in [Runs -> Job]
    /\ pc \in [Runs -> Steps]
    /\ verdict \in [Runs -> [kind: {"none", "human", "auto", "bounce"},
                             out: Outbounds \cup {None}]]
    /\ thread \in [Outbounds -> ThreadStatus]
    /\ reset \subseteq Outbounds
    /\ map \in [Convs -> [page: Outbounds \cup {None}, latest: Msgs \cup {None}]]
    /\ children \in [Msgs -> Nat]
    /\ bounced \subseteq Msgs
    /\ done \subseteq Outbounds
    /\ failedKP \subseteq Outbounds
    /\ scan \subseteq Msgs \X Outbounds
    /\ linked \subseteq Msgs
    /\ crashes \in Nat
    /\ scans \in Nat

Init ==
    /\ inbox = [m \in Msgs |-> "absent"]
    /\ link = [m \in Msgs |-> None]
    /\ pending = {}
    /\ job = [r \in Runs |-> NoJob]
    /\ pc = [r \in Runs |-> "idle"]
    /\ verdict = [r \in Runs |-> NoVerdict]
    /\ thread = [o \in Outbounds |-> "absent"]
    /\ reset = {}
    /\ map = [c \in Convs |-> NoRow]
    /\ children = [m \in Msgs |-> 0]
    /\ bounced = {}
    /\ done = {}
    /\ failedKP = {}
    /\ scan = {}
    /\ linked = {}
    /\ crashes = 0
    /\ scans = 0

-----------------------------------------------------------------------------
(* The send worker and the ingest path.                                      *)

\* The send worker records outbound mail o: some time after it went out.
RecordOutbound(o) ==
    /\ thread[o] = "absent"
    /\ thread' = [thread EXCEPT ![o] = "sent"]
    /\ UNCHANGED <<reset, inboxVars, queueVars, runVars, map, notionVars, scriptVars, crashes>>

\* insertInboxIfNew: a row that is there already is skipped, so this happens once
\* however often polling, delta and webhooks see the mail.
Insert(m) ==
    /\ inbox[m] = "absent"
    /\ inbox' = [inbox EXCEPT ![m] = "unmatched"]
    /\ pending' = pending \cup {m}
    /\ UNCHANGED <<link, job, runVars, threadVars, map, notionVars, scriptVars, crashes>>

\* The job is added after the insert; if Redis fails, the batch is abandoned.
Enqueue(m) ==
    /\ m \in pending
    /\ pending' = pending \ {m}
    /\ \/ job' = [job EXCEPT ![<<m, "ingest">>] = Add(@)]
       \/ "redis" \in Faults /\ UNCHANGED job
    /\ UNCHANGED <<inboxVars, runVars, threadVars, map, notionVars, scriptVars, crashes>>

-----------------------------------------------------------------------------
(* The handler of the match worker.                                          *)

Goto(r, step) == pc' = [pc EXCEPT ![r] = step]

\* An update of Postgres, or a request to Notion, that writes A and goes on, or
\* fails; a failed one may have been applied.
Try(A, nothing, service, r, next) ==
    \/ A /\ Goto(r, next)
    \/ service \in Faults /\ (A \/ nothing) /\ Goto(r, "throw")

TakeJob(r) ==
    /\ job[r].state = "waiting"
    /\ job' = [job EXCEPT ![r] = Start(@)]
    /\ Goto(r, "read")
    /\ UNCHANGED <<inboxVars, pending, verdict, threadVars, map, notionVars, scriptVars, crashes>>

\* (mutant) The idempotency guard is missing.
ReadRowUnguarded(r) ==
    /\ pc[r] = "read"
    /\ Goto(r, "classify")
    /\ UNCHANGED <<inboxVars, queueVars, verdict, threadVars, map, notionVars, scriptVars, crashes>>

\* The row is read once, and everything below relies on this reading: of a final row, on
\* its status and its link.
ReadRow(r) ==
    /\ pc[r] = "read"
    /\ \/ /\ inbox[r[1]] \in Final
          /\ verdict' = [verdict EXCEPT ![r] =
                            [kind |-> KindOf[inbox[r[1]]], out |-> link[r[1]]]]
          /\ Goto(r, "sync")
       \/ inbox[r[1]] \notin Final /\ Goto(r, "classify") /\ UNCHANGED verdict
       \/ "postgres" \in Faults /\ Goto(r, "throw") /\ UNCHANGED verdict
    /\ UNCHANGED <<inboxVars, queueVars, threadVars, map, notionVars, scriptVars, crashes>>

\* A row that is final: its outbound mail may still be at "sent" when the reconcile
\* script made it final.  The status is read, and written in a second call.
SyncThread(r) ==
    LET v == verdict[r]
        stale == v.out # None /\ v.kind # "auto" /\ thread[v.out] = "sent"
    IN  /\ pc[r] = "sync"
        /\ \/ stale /\ Goto(r, "flip")
           \/ ~stale /\ Goto(r, "return")
           \/ "postgres" \in Faults /\ Goto(r, "throw")
        /\ UNCHANGED <<inboxVars, queueVars, verdict, threadVars, map, notionVars, scriptVars,
                       crashes>>

\* markOutboundBounce or markOutboundReplyReceived, whatever the status was.
SetStatus(v) ==
    /\ thread' = [thread EXCEPT ![v.out] =
                     IF v.kind = "bounce" THEN "bounce" ELSE "reply_received"]
    /\ reset' = reset \ {v.out}

FlipThread(r) ==
    /\ pc[r] = "flip"
    /\ Try(SetStatus(verdict[r]), UNCHANGED threadVars, "postgres", r, "return")
    /\ UNCHANGED <<inboxVars, queueVars, verdict, map, notionVars, scriptVars, crashes>>

Recorded == {o \in Outbounds : thread[o] # "absent"}

IsNewest(o, S) == o \in S /\ \A other \in S : other <= o

\* One query of resolveInboundOutboundMatch: the newest outbound mail of S that is recorded
\* by now is the one that m answers.  The Graph headers were read before: a failure only
\* loses them, and with them what they told about the mail.
LookUp(r, S, otherwise) ==
    LET hits == S \cap Recorded
        kinds == {Kind[r[1]]} \cup IF "graph" \in Faults THEN {"human"} ELSE {}
    IN  /\ \/ hits = {} /\ Goto(r, otherwise) /\ UNCHANGED verdict
           \/ \E o \in Outbounds, k \in kinds :
                /\ IsNewest(o, hits)
                /\ verdict' = [verdict EXCEPT ![r] = [kind |-> k, out |-> o]]
                /\ Goto(r, IF k = "auto" THEN "mark" ELSE "status")
           \/ "postgres" \in Faults /\ Goto(r, "throw") /\ UNCHANGED verdict
        /\ UNCHANGED <<inboxVars, queueVars, threadVars, map, notionVars, scriptVars, crashes>>

\* The conversation decides ...
Classify(r) == pc[r] = "classify" /\ LookUp(r, ByThread[r[1]], "guess")

\* ... and if it knows no outbound mail, the recipients and the subject, in a later query.
Guess(r) == pc[r] = "guess" /\ LookUp(r, ByContent[r[1]], "ignore")

\* (mutant) A mail without a match is left as it is.
IgnoreUnmarked(r) ==
    /\ pc[r] = "ignore"
    /\ Goto(r, "return")
    /\ UNCHANGED <<inboxVars, queueVars, verdict, threadVars, map, notionVars, scriptVars, crashes>>

Ignore(r) ==
    /\ pc[r] = "ignore"
    /\ Try(inbox' = [inbox EXCEPT ![r[1]] = "ignored"], UNCHANGED inbox,
           "postgres", r, "return")
    /\ UNCHANGED <<link, queueVars, verdict, threadVars, map, notionVars, scriptVars, crashes>>

\* (mutant) A failed update of the thread status is logged and the run goes on.
SetThreadBestEffort(r) ==
    /\ pc[r] = "status"
    /\ SetStatus(verdict[r]) \/ UNCHANGED threadVars
    /\ Goto(r, "mark")
    /\ UNCHANGED <<inboxVars, queueVars, verdict, map, notionVars, scriptVars, crashes>>

\* The thread status; then the CRM columns of the inbox row, which can fail like the
\* update itself.
SetThread(r) ==
    /\ pc[r] = "status"
    /\ Try(SetStatus(verdict[r]), UNCHANGED threadVars, "postgres", r, "mark")
    /\ UNCHANGED <<inboxVars, queueVars, verdict, map, notionVars, scriptVars, crashes>>

\* (mutant) The kind of the mail is written for its status.
MarkMatchedRaw(r) ==
    LET m == r[1]
        v == verdict[r]
    IN  /\ pc[r] = "mark"
        /\ inbox' = [inbox EXCEPT ![m] = v.kind]
        /\ link' = [link EXCEPT ![m] = v.out]
        /\ Goto(r, "lookup")
        /\ UNCHANGED <<queueVars, verdict, threadVars, map, notionVars, scriptVars, crashes>>

\* (mutant) A failed update of the inbox row is logged and the run goes on.
MarkMatchedBestEffort(r) ==
    LET m == r[1]
        v == verdict[r]
    IN  /\ pc[r] = "mark"
        /\ inbox' \in {inbox, [inbox EXCEPT ![m] = StatusOf[v.kind]]}
        /\ link' = IF inbox' = inbox THEN link ELSE [link EXCEPT ![m] = v.out]
        /\ Goto(r, IF v.kind = "bounce" /\ v.out \notin Paged THEN "stamp" ELSE "lookup")
        /\ UNCHANGED <<queueVars, verdict, threadVars, map, notionVars, scriptVars, crashes>>

\* markInboxMatched.  A bounce of a mail without a Notion page skips conversation_map.
MarkMatched(r) ==
    LET m == r[1]
        v == verdict[r]
        next == IF v.kind = "bounce" /\ v.out \notin Paged THEN "stamp" ELSE "lookup"
    IN  /\ pc[r] = "mark"
        /\ Try(/\ inbox' = [inbox EXCEPT ![m] = StatusOf[v.kind]]
               /\ link' = [link EXCEPT ![m] = v.out],
               UNCHANGED inboxVars, "postgres", r, next)
        /\ UNCHANGED <<queueVars, verdict, threadVars, map, notionVars, scriptVars, crashes>>

\* upsertConversation: a select, then an update or an insert.
LookupConversation(r) ==
    /\ pc[r] = "lookup"
    /\ \/ Goto(r, IF map[Conv[r[1]]] = NoRow THEN "insert" ELSE "update")
       \/ "postgres" \in Faults /\ Goto(r, "throw")
    /\ UNCHANGED <<inboxVars, queueVars, verdict, threadVars, map, notionVars, scriptVars, crashes>>

\* What follows upsertConversation: Notion hears of a reply or a bounce of a mail that
\* has a page there.
AfterUpsert(v) ==
    IF v.kind # "auto" /\ v.out \in Paged THEN "write" ELSE "return"

UpdateConversation(r) ==
    /\ pc[r] = "update"
    /\ Try(map' = [map EXCEPT ![Conv[r[1]]] = [page |-> @.page, latest |-> r[1]]],
           UNCHANGED map,
           "postgres", r, AfterUpsert(verdict[r]))
    /\ UNCHANGED <<inboxVars, queueVars, verdict, threadVars, notionVars, scriptVars, crashes>>

\* conversation_id is unique: the insert throws if another run was faster.
InsertConversation(r) ==
    LET c == Conv[r[1]]
        v == verdict[r]
        row == [page |-> IF v.out \in Paged THEN v.out ELSE None, latest |-> r[1]]
    IN  /\ pc[r] = "insert"
        /\ \/ /\ map[c] = NoRow
              /\ Try(map' = [map EXCEPT ![c] = row], UNCHANGED map,
                     "postgres", r, AfterUpsert(v))
           \/ /\ map[c] # NoRow
              /\ Goto(r, "throw")
              /\ UNCHANGED map
        /\ UNCHANGED <<inboxVars, queueVars, verdict, threadVars, notionVars, scriptVars, crashes>>

\* The mailbox is read and createInboundReplyRow called: a POST that the Notion client
\* repeats after a 502, 503 or 504, so a flaky Notion can hold several rows, or rows
\* of a call that failed.
CreateChild(r) ==
    /\ pc[r] = "write"
    /\ verdict[r].kind = "human"
    /\ \/ /\ \E n \in IF "notion" \in Faults THEN 1..MaxPosts ELSE {1} :
                children' = [children EXCEPT ![r[1]] = @ + n]
          /\ Goto(r, "stamp")
       \/ /\ Faults \cap {"notion", "postgres"} # {}
          /\ \E n \in IF "notion" \in Faults THEN 0..MaxPosts ELSE {0} :
                children' = [children EXCEPT ![r[1]] = @ + n]
          /\ Goto(r, "throw")
    /\ UNCHANGED <<inboxVars, queueVars, verdict, threadVars, map, bounced, done, failedKP,
                   scriptVars, crashes>>

\* writeBounce
WriteBounce(r) ==
    /\ pc[r] = "write"
    /\ verdict[r].kind = "bounce"
    /\ Try(bounced' = bounced \cup {r[1]}, UNCHANGED bounced, "notion", r, "stamp")
    /\ UNCHANGED <<inboxVars, queueVars, verdict, threadVars, map, children, done, failedKP,
                   scriptVars, crashes>>

\* The last write, whose failure is only logged: Reply Status of the parent row, or
\* Email Verified Status of the key person, if one is found.
Stamp(r) ==
    LET v == verdict[r]
    IN  /\ pc[r] = "stamp"
        /\ \/ v.kind = "human" /\ done' = done \cup {v.out} /\ UNCHANGED failedKP
           \/ v.kind = "bounce" /\ failedKP' = failedKP \cup {v.out} /\ UNCHANGED done
           \/ (v.kind = "bounce" \/ "notion" \in Faults) /\ UNCHANGED <<done, failedKP>>
        /\ Goto(r, "return")
        /\ UNCHANGED <<inboxVars, queueVars, verdict, threadVars, map, children, bounced,
                       scriptVars, crashes>>

-----------------------------------------------------------------------------
(* The queue around the handler.                                             *)

CompleteJob(r) ==
    /\ pc[r] = "return"
    /\ job' = [job EXCEPT ![r] = Complete(@)]
    /\ Goto(r, "idle")
    /\ verdict' = [verdict EXCEPT ![r] = NoVerdict]
    /\ UNCHANGED <<inboxVars, pending, threadVars, map, notionVars, scriptVars, crashes>>

FailAttempt(r) ==
    /\ pc[r] = "throw"
    /\ job' = [job EXCEPT ![r] = AfterThrow(@, Attempts)]
    /\ Goto(r, "idle")
    /\ verdict' = [verdict EXCEPT ![r] = NoVerdict]
    /\ UNCHANGED <<inboxVars, pending, threadVars, map, notionVars, scriptVars, crashes>>

\* The worker process dies and is started again: every run and ingest is gone.
WorkerCrash ==
    /\ crashes < MaxCrashes
    /\ pending # {} \/ \E r \in Runs : pc[r] # "idle"
    /\ crashes' = crashes + 1
    /\ pc' = [r \in Runs |-> "idle"]
    /\ verdict' = [r \in Runs |-> NoVerdict]
    /\ pending' = {}
    /\ UNCHANGED <<inboxVars, job, threadVars, map, notionVars, scriptVars>>

StalledCheck(r) ==
    /\ job[r].state = "active"
    /\ pc[r] = "idle"
    /\ job' = [job EXCEPT ![r] = AfterStall(@)]
    /\ UNCHANGED <<inboxVars, pending, runVars, threadVars, map, notionVars, scriptVars, crashes>>

-----------------------------------------------------------------------------
(* The scripts an operator runs: the backfill of outbound_messages and what     *)
(* follows it.                                                                   *)

\* The backfill updates a row that it finds again: the columns of the mail, its thread
\* status "sent" included.  The other columns are constants here; MatchRules moves them.
BackfillResets(o) ==
    /\ MaxScans > 0
    /\ thread[o] \in {"reply_received", "bounce"}
    /\ thread' = [thread EXCEPT ![o] = "sent"]
    /\ reset' = reset \cup {o}
    /\ UNCHANGED <<inboxVars, queueVars, runVars, map, notionVars, scriptVars, crashes>>

\* The reconcile script reads a row that has no match and resolves it by its content,
\* with options of its own and among all outbound mails ...
ReconcileScan(m) ==
    /\ scans < MaxScans
    /\ inbox[m] \in {"unmatched", "ignored"}
    /\ link[m] = None
    /\ Kind[m] # "bounce"
    /\ \E o \in (ByThread[m] \cup ByContent[m]) \cap Recorded : scan' = scan \cup {<<m, o>>}
    /\ scans' = scans + 1
    /\ UNCHANGED <<inboxVars, queueVars, runVars, threadVars, map, notionVars, linked, crashes>>

\* ... and links it later, whatever has become of the row.
ReconcileLink(m) ==
    /\ \E o \in Outbounds :
        /\ <<m, o>> \in scan
        /\ scan' = scan \ {<<m, o>>}
        /\ link' = [link EXCEPT ![m] = o]
    /\ inbox' = [inbox EXCEPT ![m] = "matched"]
    /\ linked' = linked \cup {m}
    /\ UNCHANGED <<queueVars, runVars, threadVars, map, notionVars, scans, crashes>>

\* With REQUEUE_MATCH_*: another job for the row, under an id with a time stamp.
Requeue(m) ==
    /\ "requeue" \in Slots
    /\ inbox[m] \in {"unmatched", "ignored"}
    /\ job[<<m, "requeue">>].state = "none"
    /\ job' = [job EXCEPT ![<<m, "requeue">>] = Add(@)]
    /\ UNCHANGED <<inboxVars, pending, runVars, threadVars, map, notionVars, scriptVars, crashes>>

\* sync-thread-status-from-inbox: one UPDATE over the join of both tables.
SyncThreadScript ==
    LET owed(o) == {m \in Msgs : link[m] = o /\ inbox[m] \in {"matched", "bounce"}}
        status(m) == IF inbox[m] = "bounce" THEN "bounce" ELSE "reply_received"
        late == {o \in Outbounds : thread[o] = "sent" /\ owed(o) # {}}
    IN  /\ late # {}
        /\ MaxScans > 0
        /\ \E pick \in [late -> Msgs] :
            /\ \A o \in late : pick[o] \in owed(o)
            /\ thread' = [o \in Outbounds |->
                            IF o \in late THEN status(pick[o]) ELSE thread[o]]
        /\ reset' = reset \ late
        /\ UNCHANGED <<inboxVars, queueVars, runVars, map, notionVars, scriptVars, crashes>>

-----------------------------------------------------------------------------
Handler(r) ==
    \/ ReadRow(r) \/ SyncThread(r) \/ FlipThread(r) \/ Classify(r) \/ Guess(r) \/ Ignore(r)
    \/ SetThread(r) \/ MarkMatched(r) \/ LookupConversation(r)
    \/ UpdateConversation(r) \/ InsertConversation(r)
    \/ CreateChild(r) \/ WriteBounce(r) \/ Stamp(r)

Queue(r) == TakeJob(r) \/ CompleteJob(r) \/ FailAttempt(r) \/ StalledCheck(r)

Scripts ==
    \/ SyncThreadScript
    \/ \E o \in Outbounds : BackfillResets(o)
    \/ \E m \in Msgs : ReconcileScan(m) \/ ReconcileLink(m) \/ Requeue(m)

Next ==
    \/ \E o \in Outbounds : RecordOutbound(o)
    \/ \E m \in Msgs : Insert(m) \/ Enqueue(m)
    \/ \E r \in Runs : Queue(r) \/ Handler(r)
    \/ WorkerCrash
    \/ Scripts

Spec == Init /\ [][Next]_vars

\* An ingest that has begun goes on, Node runs every pending await to its end, and
\* BullMQ serves its queue.
Fairness ==
    /\ \A m \in Msgs : WF_vars(Enqueue(m))
    /\ \A r \in Runs : WF_vars(Queue(r)) /\ WF_vars(Handler(r))

FairSpec == Spec /\ Fairness

-----------------------------------------------------------------------------
(* Properties.                                                               *)

\* The worker alone is at work: each row has one job, and no script links rows.
Alone == Slots = {"ingest"} /\ MaxScans = 0

\* A row that the worker made matched or bounce has an outbound mail whose thread
\* status tells so much: the status is set before the row becomes final, because a
\* final row is skipped by the retries (processMatch).  Two scripts make exceptions,
\* for which syncOutboundThreadStatusFromFinalizedInbox is there: rows that the reconcile
\* script linked, and outbound mails that a backfill has set back to "sent" since.
FinalIsReflected ==
    \A m \in Msgs \ linked :
        inbox[m] \in {"matched", "bounce"} =>
            thread[link[m]] \in {"reply_received", "bounce"} \/ link[m] \in reset

\* conversation_map points to a mail of that conversation that is linked to an outbound
\* mail, also when runs race for the row or stop between their updates.
MapNamesMatched ==
    \A c \in Convs : map[c] # NoRow =>
        Conv[map[c].latest] = c /\ link[map[c].latest] # None

\* ReplyBook under the refinement mapping.
Book == INSTANCE ReplyBook WITH
    Mails <- Msgs,
    Copies <- MaxPosts,
    book <- [m \in Msgs |->
                IF inbox[m] \in {"absent", "unmatched", "ignored"} THEN "open" ELSE inbox[m]],
    shown <- children

\* Refinement, when the worker is alone: a verdict is given once and never revised, and
\* a reply is shown in Notion by one call only, under the verdict "matched", however
\* often its job runs.  This is what the idempotency guard of processMatch is for.
KeepsBook == Book!Spec

\* A row in the queue gets a verdict, although Notion and Graph fail and the worker may
\* die: what can fail before the verdict is only read or is Postgres.
QueuedRowsGetVerdict ==
    \A m \in Msgs : job[<<m, "ingest">>].state = "waiting" ~> inbox[m] # "unmatched"

(* A claim of a comment, checked in a run of its own.                        *)

Idle == pending = {} /\ \A r \in Runs : job[r].state \in {"none", "completed", "failed"}

\* match.worker.ts, header: a matched human reply has a Notion row of its own, and so
\* once all the work is done.
FinalReplyHasChild ==
    Idle => \A m \in Msgs :
        inbox[m] = "matched" /\ link[m] \in Paged => children[m] > 0

=============================================================================

---------------------------- MODULE SendPipeline ----------------------------
(***************************************************************************)
(* The way of one mail out of the system: the Notion poller of the API      *)
(* process turns a row whose status is Todo into a job of the send queue,    *)
(* the send worker of the worker process runs the job, Microsoft Graph       *)
(* delivers the mail, and the worker records it in outbound_messages and     *)
(* writes the outcome back to the row.  A bounce that the match worker traces *)
(* to a recorded mail writes Failure to the same row, whatever the send       *)
(* worker is doing with it.                                                  *)
(*                                                                           *)
(* The handler is split at its awaits: pc[p] is where the run for row p      *)
(* stands, and every other actor may step between two of its steps.  A       *)
(* handler that is at no step ("idle") while its job is active is a run that *)
(* died with the worker process.                                             *)
(***************************************************************************)
EXTENDS BullJob, FiniteSets

CONSTANTS
    Pages,        \* the rows of the Notion database (page ids)
    ReplyPages,   \* those whose Action is Reply with an anchor in Payload
    Key,          \* Key[p]: sender, subject and first recipient of row p
    Attempts,     \* defaultJobOptions.attempts of the send queue
    MaxPosts,     \* bound: mails one Graph send call can put out, HTTP retries included
    MaxCrashes,   \* bound: crashes of the worker process
    MaxReopens,   \* bound: times an operator sets a finished row to Todo again
    Bouncing,     \* the rows whose recorded mail may bounce
    MaxAdds,      \* bound: jobs the poller creates per row
    Faults        \* what may fail: "notion", "graph", "postgres", and "failure",
                  \* the request to Notion that writes Failure to a row

ASSUME SendAssumption ==
    /\ ReplyPages \subseteq Pages
    /\ Attempts \in Nat \ {0}
    /\ MaxPosts \in Nat \ {0}
    /\ MaxCrashes \in Nat
    /\ MaxReopens \in Nat
    /\ Bouncing \subseteq Pages
    /\ MaxAdds \in Nat
    /\ Faults \subseteq {"notion", "failure", "graph", "postgres"}

VARIABLES
    status,     \* status[p]: the column "OutReach Status" of row p
    expired,    \* expired[p]: the trigger window of row p has ended
    found,      \* rows of the poller's query result that are not enqueued yet
    job,        \* job[p]: the job with jobId send__<p>
    pc,         \* pc[p]: where the run of the send handler for row p stands
    hit,        \* hit[p]: the sent item that run took for its own mail
    calls,      \* calls[p]: Graph send calls made by the runs of the present job
    delivered,  \* delivered[p]: mails of row p that Graph has put out, ever
    rows,       \* outbound_messages: which row recorded which mail
    adds,       \* adds[p]: jobs created for row p
    reopens,    \* reopens[p]: times row p was set to Todo again
    crashes     \* crashes of the worker process so far

notionVars == <<status, expired>>
runVars == <<pc, hit>>
mailVars == <<calls, delivered, rows>>
boundVars == <<adds, reopens, crashes>>
vars == <<notionVars, found, job, runVars, mailVars, boundVars>>

Status == {"todo", "sending", "success", "failure"}

\* The steps of the handler, named for what has been done.
Steps == {"idle", "start", "built", "marked", "sent", "hit", "recorded",
          "verify", "verify2", "verify3", "catch", "throw", "return"}

\* A mail is named by the row it was sent for and its number among that row's
\* mails; this is the Graph message id of the sent item.
Mails == Pages \X (Nat \ {0})
NoHit == <<>>

\* The mails row p recorded.
Recorded(p) == {r.mail : r \in {s \in rows : s.page = p}}

TypeOK ==
    /\ status \in [Pages -> Status]
    /\ expired \in [Pages -> BOOLEAN]
    /\ found \subseteq Pages
    /\ job \in [Pages -> Job]
    /\ pc \in [Pages -> Steps]
    /\ hit \in [Pages -> Mails \cup {NoHit}]
    /\ calls \in [Pages -> Nat]
    /\ delivered \in [Pages -> Nat]
    /\ rows \subseteq [page: Pages, mail: Mails]
    /\ adds \in [Pages -> Nat]
    /\ reopens \in [Pages -> Nat]
    /\ crashes \in Nat

Init ==
    /\ status = [p \in Pages |-> "todo"]
    /\ expired = [p \in Pages |-> FALSE]
    /\ found = {}
    /\ job = [p \in Pages |-> NoJob]
    /\ pc = [p \in Pages |-> "idle"]
    /\ hit = [p \in Pages |-> NoHit]
    /\ calls = [p \in Pages |-> 0]
    /\ delivered = [p \in Pages |-> 0]
    /\ rows = {}
    /\ adds = [p \in Pages |-> 0]
    /\ reopens = [p \in Pages |-> 0]
    /\ crashes = 0

-----------------------------------------------------------------------------
(* The poller (API process) and the operator.                                *)

\* The tick's query returned row p: Todo, and now inside its trigger window.
PollFind(p) ==
    /\ p \notin found
    /\ status[p] = "todo"
    /\ ~expired[p]
    /\ found' = found \cup {p}
    /\ UNCHANGED <<notionVars, job, runVars, mailVars, boundVars>>

\* The tick enqueues row p, on what the query said of it.
PollAdd(p) ==
    /\ p \in found
    /\ found' = found \ {p}
    /\ job' = [job EXCEPT ![p] = Add(@)]
    /\ IF job[p].state = "none"
       THEN /\ adds[p] < MaxAdds
            /\ adds' = [adds EXCEPT ![p] = @ + 1]
            /\ calls' = [calls EXCEPT ![p] = 0]
       ELSE UNCHANGED <<adds, calls>>
    /\ UNCHANGED <<notionVars, runVars, delivered, rows, reopens, crashes>>

\* A query or an add threw: the rest of the tick is abandoned.
PollAbort ==
    /\ "notion" \in Faults
    /\ found # {}
    /\ found' = {}
    /\ UNCHANGED <<notionVars, job, runVars, mailVars, boundVars>>

\* The trigger window of row p ends.  Only a query for rows at Todo asks for it, and a row
\* that comes back to Todo comes with a new window.
WindowCloses(p) ==
    /\ status[p] = "todo"
    /\ ~expired[p]
    /\ expired' = [expired EXCEPT ![p] = TRUE]
    /\ UNCHANGED <<status, found, job, runVars, mailVars, boundVars>>

\* An operator wants a finished row sent again and sets it to Todo, with a new
\* trigger window.
Reopen(p) ==
    /\ status[p] \in {"success", "failure"}
    /\ reopens[p] < MaxReopens
    /\ reopens' = [reopens EXCEPT ![p] = @ + 1]
    /\ status' = [status EXCEPT ![p] = "todo"]
    /\ expired' = [expired EXCEPT ![p] = FALSE]
    /\ UNCHANGED <<found, job, runVars, mailVars, adds, crashes>>

\* The match worker traced a bounce to a mail that row p recorded, and writes Failure
\* to the row; it does not look at what the row says, nor at the run that may hold it.
WriteBounce(p) ==
    /\ p \in Bouncing
    /\ Recorded(p) # {}
    /\ status[p] # "failure"
    /\ status' = [status EXCEPT ![p] = "failure"]
    /\ UNCHANGED <<expired, found, job, runVars, mailVars, boundVars>>

-----------------------------------------------------------------------------
(* The handler of the send worker.                                           *)

Goto(p, step) == pc' = [pc EXCEPT ![p] = step]

\* One PATCH of the status column.  A request that fails may have been applied.
WriteStatus(p, s, next, onError) ==
    \/ /\ status' = [status EXCEPT ![p] = s]
       /\ Goto(p, next)
    \/ /\ (IF s = "failure" THEN s ELSE "notion") \in Faults
       /\ status' \in {status, [status EXCEPT ![p] = s]}
       /\ Goto(p, onError)

TakeJob(p) ==
    /\ job[p].state = "waiting"
    /\ job' = [job EXCEPT ![p] = Start(@)]
    /\ Goto(p, "start")
    /\ UNCHANGED <<notionVars, found, hit, mailVars, boundVars>>

\* The row and the mailbox are read, whatever the row's status is by now.  These
\* reads are outside the handler's try block.
Build(p) ==
    /\ pc[p] = "start"
    /\ \/ Goto(p, "built")
       \/ /\ Faults \cap {"notion", "postgres"} # {}
          /\ Goto(p, "throw")
    /\ UNCHANGED <<notionVars, found, job, hit, mailVars, boundVars>>

\* The row's data, the contact gate or the mailbox forbid the mail: the run
\* writes Failure if it can and ends without an error.
SoftFail(p) ==
    /\ pc[p] = "built"
    /\ WriteStatus(p, "failure", "return", "return")
    /\ UNCHANGED <<expired, found, job, hit, mailVars, boundVars>>

\* (mutant) A failed markSending is logged and the run goes on.
MarkSendingBestEffort(p) ==
    /\ pc[p] = "built"
    /\ WriteStatus(p, "sending", "marked", "marked")
    /\ UNCHANGED <<expired, found, job, hit, mailVars, boundVars>>

MarkSending(p) ==
    /\ pc[p] = "built"
    /\ WriteStatus(p, "sending", "marked", "catch")
    /\ UNCHANGED <<expired, found, job, hit, mailVars, boundVars>>

\* One Graph send call put out n mails of row p.
Deliver(p, n) ==
    /\ calls' = [calls EXCEPT ![p] = @ + 1]
    /\ delivered' = [delivered EXCEPT ![p] = @ + n]

\* sendMail answers 202 without an id.  The HTTP client posts again after a 503,
\* and an answer can be lost after Graph accepted the mail.
SendMail(p) ==
    /\ pc[p] = "marked"
    /\ p \notin ReplyPages
    /\ \/ /\ \E n \in IF "graph" \in Faults THEN 1..MaxPosts ELSE {1} : Deliver(p, n)
          /\ Goto(p, "sent")
       \/ /\ "graph" \in Faults
          /\ \E n \in 0..MaxPosts : Deliver(p, n)
          /\ Goto(p, "catch")
    /\ UNCHANGED <<notionVars, found, job, hit, rows, boundVars>>

\* createReply, PATCH, send, GET: the draft can be sent once, and its id is known.
SendReply(p) ==
    /\ pc[p] = "marked"
    /\ p \in ReplyPages
    /\ \/ /\ Deliver(p, 1)
          /\ hit' = [hit EXCEPT ![p] = <<p, delivered[p] + 1>>]
          /\ Goto(p, "hit")
       \/ /\ "graph" \in Faults
          /\ \E n \in {0, 1} : Deliver(p, n)
          /\ Goto(p, "catch")
          /\ UNCHANGED hit
    /\ UNCHANGED <<notionVars, found, job, rows, boundVars>>

\* (mutant) The check for an empty result of the lookup is missing.
LookupUnchecked(p) ==
    /\ pc[p] = "sent"
    /\ Goto(p, "hit")
    /\ \/ \E q \in Pages : \E n \in 1..delivered[q] :
            Key[q] = Key[p] /\ hit' = [hit EXCEPT ![p] = <<q, n>>]
       \/ "graph" \in Faults /\ UNCHANGED hit
    /\ UNCHANGED <<notionVars, found, job, mailVars, boundVars>>

\* Up to four looks into Sent Items for the newest mail with this subject and
\* recipient.  Mails show up there late, so the newest visible one may be any.
Lookup(p) ==
    /\ pc[p] = "sent"
    /\ \/ \E q \in Pages : \E n \in 1..delivered[q] :
            /\ Key[q] = Key[p]
            /\ hit' = [hit EXCEPT ![p] = <<q, n>>]
            /\ Goto(p, "hit")
       \/ /\ "graph" \in Faults
          /\ Goto(p, "catch")
          /\ UNCHANGED hit
    /\ UNCHANGED <<notionVars, found, job, mailVars, boundVars>>

\* (mutant) A failed insert is logged and the run goes on.
RecordBestEffort(p) ==
    /\ pc[p] = "hit"
    /\ hit' = [hit EXCEPT ![p] = NoHit]
    /\ rows' \in {rows, rows \cup {[page |-> p, mail |-> hit[p]]}}
    /\ Goto(p, "recorded")
    /\ UNCHANGED <<notionVars, found, job, calls, delivered, boundVars>>

\* (mutant) outbound_messages without its unique index.
RecordNotUnique(p) ==
    /\ pc[p] = "hit"
    /\ hit' = [hit EXCEPT ![p] = NoHit]
    /\ rows' = rows \cup {[page |-> p, mail |-> hit[p]]}
    /\ Goto(p, "recorded")
    /\ UNCHANGED <<notionVars, found, job, calls, delivered, boundVars>>

\* The insert into outbound_messages; (mailbox, graph id) is unique there.  A
\* failure can follow the insert: a lost answer, or the update of the body.
Record(p) ==
    LET row == [page |-> p, mail |-> hit[p]]
        free == \A r \in rows : r.mail # hit[p]
    IN  /\ pc[p] = "hit"
        /\ hit' = [hit EXCEPT ![p] = NoHit]
        /\ \/ /\ free
              /\ rows' = rows \cup {row}
              /\ Goto(p, "recorded")
           \/ /\ ~free \/ "postgres" \in Faults
              /\ Goto(p, "catch")
              /\ UNCHANGED rows
           \/ /\ free /\ "postgres" \in Faults
              /\ rows' = rows \cup {row}
              /\ Goto(p, "catch")
        /\ UNCHANGED <<notionVars, found, job, calls, delivered, boundVars>>

WriteSuccess(p) ==
    /\ pc[p] = "recorded"
    /\ WriteStatus(p, "success", "verify", "catch")
    /\ UNCHANGED <<expired, found, job, hit, mailVars, boundVars>>

\* Read the row back.  A status other than Success is written over, and read again; the
\* third read that does not say Success throws.  A read that lags behind the write stands
\* for one that comes later, and three of them for one that throws.
Verify(p) ==
    LET again == [verify |-> "verify2", verify2 |-> "verify3"]
    IN  /\ pc[p] \in {"verify", "verify2", "verify3"}
        /\ \/ /\ status[p] = "success"
              /\ Goto(p, "return")
              /\ UNCHANGED status
           \/ /\ pc[p] # "verify3"
              /\ status[p] # "success"
              /\ WriteStatus(p, "success", again[pc[p]], "catch")
           \/ /\ (pc[p] = "verify3" /\ status[p] # "success") \/ "notion" \in Faults
              /\ Goto(p, "catch")
              /\ UNCHANGED status
        /\ UNCHANGED <<expired, found, job, hit, mailVars, boundVars>>

\* (mutant) The catch block only logs.
CatchSilent(p) ==
    /\ pc[p] = "catch"
    /\ Goto(p, "throw")
    /\ UNCHANGED <<notionVars, found, job, hit, mailVars, boundVars>>

\* The catch block: a best-effort Failure, then the error goes on to BullMQ.
Catch(p) ==
    /\ pc[p] = "catch"
    /\ WriteStatus(p, "failure", "throw", "throw")
    /\ UNCHANGED <<expired, found, job, hit, mailVars, boundVars>>

-----------------------------------------------------------------------------
(* The queue around the handler.                                             *)

CompleteJob(p) ==
    /\ pc[p] = "return"
    /\ job' = [job EXCEPT ![p] = Complete(@)]
    /\ Goto(p, "idle")
    /\ UNCHANGED <<notionVars, found, hit, mailVars, boundVars>>

\* (mutant) The queue retries without counting.
FailAttemptUncounted(p) ==
    /\ pc[p] = "throw"
    /\ job' = [job EXCEPT ![p] = [@ EXCEPT !.state = "waiting"]]
    /\ Goto(p, "idle")
    /\ UNCHANGED <<notionVars, found, hit, mailVars, boundVars>>

FailAttempt(p) ==
    /\ pc[p] = "throw"
    /\ job' = [job EXCEPT ![p] = AfterThrow(@, Attempts)]
    /\ Goto(p, "idle")
    /\ UNCHANGED <<notionVars, found, hit, mailVars, boundVars>>

\* The worker process dies and is started again: every run is gone.
WorkerCrash ==
    /\ crashes < MaxCrashes
    /\ \E p \in Pages : pc[p] # "idle"
    /\ crashes' = crashes + 1
    /\ pc' = [p \in Pages |-> "idle"]
    /\ hit' = [p \in Pages |-> NoHit]
    /\ UNCHANGED <<notionVars, found, job, mailVars, adds, reopens>>

StalledCheck(p) ==
    /\ job[p].state = "active"
    /\ pc[p] = "idle"
    /\ job' = [job EXCEPT ![p] = AfterStall(@)]
    /\ UNCHANGED <<notionVars, found, runVars, mailVars, boundVars>>

\* A finished job leaves Redis.  BullMQ does this when another job of the queue
\* finishes, and only by age and count: nothing makes it happen for job p.
Evict(p) ==
    /\ IsFinished(job[p])
    /\ job' = [job EXCEPT ![p] = NoJob]
    /\ UNCHANGED <<notionVars, found, runVars, mailVars, boundVars>>

-----------------------------------------------------------------------------
Handler(p) ==
    \/ Build(p) \/ SoftFail(p) \/ MarkSending(p) \/ SendMail(p) \/ SendReply(p)
    \/ Lookup(p) \/ Record(p) \/ WriteSuccess(p) \/ Verify(p) \/ Catch(p)

Queue(p) == TakeJob(p) \/ CompleteJob(p) \/ FailAttempt(p) \/ StalledCheck(p)

Poller(p) == PollFind(p) \/ PollAdd(p)

Next ==
    \/ \E p \in Pages : \/ Poller(p) \/ Queue(p) \/ Handler(p)
                       \/ WindowCloses(p) \/ Reopen(p) \/ WriteBounce(p)
                       \/ Evict(p)
    \/ PollAbort
    \/ WorkerCrash

Spec == Init /\ [][Next]_vars

\* The interval timer keeps the poller going, Node runs every pending await to
\* its end, and BullMQ serves its queue and looks for stalled jobs.
Fairness == \A p \in Pages :
    /\ WF_vars(PollFind(p)) /\ WF_vars(PollAdd(p))
    /\ WF_vars(Queue(p))
    /\ WF_vars(Handler(p))

FairSpec == Spec /\ Fairness

-----------------------------------------------------------------------------
(* Properties.                                                               *)

\* A row reads Success only if a mail of it is in outbound_messages: whatever
\* fails, is retried or dies after the mail went out, the write of Success comes
\* after the insert (send.worker.ts, the order of recordOutbound and
\* writeSendSuccess).
SuccessIsRecorded ==
    \A p \in Pages : status[p] = "success" => Recorded(p) # {}

\* Every row of outbound_messages names a mail that Graph did put out, under the row's
\* own subject and to its own recipient, and no mail is recorded for two rows: replies are
\* matched through this table, so a second owner of a mail would be a second owner of the
\* answers.  findRecentSentMessage knows no id, and looks for sender, subject and recipient.
RowsNameMails ==
    /\ \A r \in rows : r.mail[2] <= delivered[r.mail[1]] /\ Key[r.mail[1]] = Key[r.page]
    /\ \A r, s \in rows : r.mail = s.mail => r = s

\* A job makes at most Attempts + MaxStalledCount Graph send calls: this is all
\* that stands between a row whose runs always fail late and an endless resend,
\* because the handler itself never asks whether the mail is out already.
ResendIsBounded ==
    \A p \in Pages : calls[p] <= Attempts + MaxStalledCount

\* Mail of a row leaves only after its run has marked the row: the first mail only while the
\* row reads Sending, and a further one, of a row that has a recorded mail, also after a
\* bounce of that mail has put Failure in the place of the mark (and an operator perhaps Todo
\* in the place of that), but never while the row reads Success.  So an operator who sees
\* Success, or a row that was never sent, sees no mail on its way (markSending fails the run
\* if it cannot write).
MailLeavesMarkedRows ==
    [][\A p \in Pages : delivered'[p] # delivered[p] =>
          \/ status[p] = "sending"
          \/ Recorded(p) # {} /\ status[p] \in {"failure", "todo"}]_vars

\* The pipeline keeps the promise of SendLedger.
Ledger == INSTANCE SendLedger WITH
    mails <- UNION {{p} \X (1..delivered[p]) : p \in Pages},
    ledger <- rows,
    announced <- {p \in Pages : status[p] = "success"}

\* Refinement: recordOutbound enters a mail that is out and not yet entered, and
\* writeSendSuccess announces a row that has an entry (send.worker.ts).
KeepsLedger == Ledger!Spec

\* Every job comes to an end, through crashes, stalls and retries.
JobsEnd ==
    \A p \in Pages : job[p].state \in {"waiting", "active"} ~> IsFinished(job[p])

\* As long as the worker does not die and Notion takes the write of Failure, no row reads
\* Sending for ever, whatever else fails: a run that fails after markSending has the catch
\* block write Failure (send.worker.ts).
SendingSettles ==
    \A p \in Pages : status[p] = "sending" ~> status[p] # "sending" \/ crashes > 0

=============================================================================

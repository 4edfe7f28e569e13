------------------------ MODULE SendPipeline_proofs ------------------------
(***************************************************************************)
(* Theorems about SendPipeline, for any set of rows and any bounds.          *)
(***************************************************************************)
EXTENDS SendPipeline, Integers, TLAPS

Spent(p) == job[p].tries + job[p].stalls

\* A run exists only for an active job, which has an attempt left.
RunOK(p) ==
    /\ pc[p] # "idle" => job[p].state = "active"
    /\ job[p].state \in {"waiting", "active"} => job[p].tries < Attempts
RunInv == \A p \in Pages : RunOK(p)

\* A run that has not sent yet, or is not started, adds no call of its own.
CallsOK(p) ==
    /\ calls[p] <= Attempts + MaxStalledCount
    /\ job[p].state \in {"waiting", "active"} => job[p].stalls <= MaxStalledCount
    /\ job[p].state = "active" => calls[p] <= Spent(p) + 1
    /\ job[p].state = "waiting" => calls[p] <= Spent(p)
    /\ pc[p] \in {"start", "built", "marked"} => calls[p] <= Spent(p)
CallsInv == \A p \in Pages : CallsOK(p)

\* What a run has found in Sent Items is a mail that is out.
HitInv ==
    \A p \in Pages :
        pc[p] = "hit" => /\ hit[p] \in Mails
                         /\ hit[p][2] <= delivered[hit[p][1]]
                         /\ Key[hit[p][1]] = Key[p]

RowsInv == RowsNameMails

SuccessInv ==
    /\ SuccessIsRecorded
    /\ \A p \in Pages : pc[p] \in {"recorded", "verify", "verify2", "verify3"} => Recorded(p) # {}

\* A marked row reads Sending, or what a bounce of its recorded mail has made of it.
Overwritten(p) == Recorded(p) # {} /\ status[p] \in {"failure", "todo"}
MarkedOK(p) == pc[p] = "marked" => status[p] = "sending" \/ Overwritten(p)
MarkedInv == \A p \in Pages : MarkedOK(p)

IInv ==
    /\ TypeOK
    /\ RunInv
    /\ CallsInv
    /\ HitInv
    /\ RowsInv
    /\ SuccessInv
    /\ MarkedInv

-----------------------------------------------------------------------------
(* What a transition of the queue makes of a job.                            *)

\* The transitions of a job in the queue stay among its states.
LEMMA JobTyped ==
  ASSUME NEW j \in Job
  PROVE  /\ NoJob \in Job /\ NoJob.state = "none"
         /\ Add(j) \in Job
         /\ j.state # "none" => Add(j) = j
         /\ j.state = "none" => Add(j) = [state |-> "waiting", tries |-> 0, stalls |-> 0]
         /\ Start(j) = [state |-> "active", tries |-> j.tries, stalls |-> j.stalls]
         /\ Complete(j) = [state |-> "completed", tries |-> j.tries, stalls |-> j.stalls]
         /\ Start(j) \in Job /\ Complete(j) \in Job
         /\ AfterThrow(j, Attempts) \in Job
         /\ AfterStall(j) \in Job
         /\ AfterStall(j).state \in {"waiting", "failed"}
         /\ AfterStall(j).tries = j.tries
         /\ AfterStall(j).state = "waiting" => AfterStall(j).stalls = j.stalls + 1
<1>1. NoJob \in Job /\ NoJob.state = "none"
  BY DEF NoJob, Job, JobStates
<1>2. /\ j.state # "none" => Add(j) = j
      /\ j.state = "none" => Add(j) = [state |-> "waiting", tries |-> 0, stalls |-> 0]
      /\ Add(j) \in Job
  BY DEF Add, NoJob, Job, JobStates
<1>3. /\ Start(j) = [state |-> "active", tries |-> j.tries, stalls |-> j.stalls]
      /\ Complete(j) = [state |-> "completed", tries |-> j.tries, stalls |-> j.stalls]
      /\ Start(j) \in Job /\ Complete(j) \in Job
  BY DEF Start, Complete, Job, JobStates
<1>4. AfterThrow(j, Attempts) \in Job
  BY DEF AfterThrow, Job, JobStates
<1>5. /\ AfterStall(j) \in Job
      /\ AfterStall(j).state \in {"waiting", "failed"}
      /\ AfterStall(j).tries = j.tries
      /\ AfterStall(j).state = "waiting" => AfterStall(j).stalls = j.stalls + 1
  BY DEF AfterStall, Job, JobStates, MaxStalledCount
<1>6. QED
  BY <1>1, <1>2, <1>3, <1>4, <1>5

-----------------------------------------------------------------------------
(* Each part of the invariant is preserved.                                  *)

\* IInv holds at the start.
LEMMA InitIInv == Init => IInv
<1> SUFFICES ASSUME Init PROVE IInv
  OBVIOUS
<1> USE SendAssumption DEF Init
<1>1. TypeOK
  BY DEF TypeOK, Status, Steps, NoJob, Job, JobStates
<1>2. RunInv /\ MarkedInv
  BY DEF RunInv, RunOK, NoJob, MarkedInv, MarkedOK
<1>3. CallsInv
  BY DEF CallsInv, CallsOK, NoJob, MaxStalledCount
<1>4. HitInv /\ RowsInv
  BY DEF HitInv, RowsInv, RowsNameMails
<1>5. SuccessInv
  BY DEF SuccessInv, SuccessIsRecorded
<1>6. QED
  BY <1>1, <1>2, <1>3, <1>4, <1>5 DEF IInv

\* Every step keeps the types; the insert needs a hit (HitInv).
LEMMA NextTyped == TypeOK /\ HitInv /\ [Next]_vars => TypeOK'
<1> SUFFICES ASSUME TypeOK /\ HitInv, [Next]_vars PROVE TypeOK'
  OBVIOUS
<1> USE SendAssumption DEF TypeOK, HitInv, Status, Steps, notionVars, runVars, mailVars,
            boundVars
<1>1. ASSUME NEW p \in Pages, PollFind(p) PROVE TypeOK'
  BY <1>1 DEF PollFind
<1>2. ASSUME NEW p \in Pages, PollAdd(p) PROVE TypeOK'
  <2>1. job' \in [Pages -> Job] /\ found' \subseteq Pages
    <3>1. job' = [job EXCEPT ![p] = Add(job[p])] /\ found' = found \ {p}
      BY <1>2 DEF PollAdd
    <3>2. Add(job[p]) \in Job
      BY JobTyped
    <3>3. QED
      BY <3>1, <3>2
  <2>2. CASE job[p].state = "none"
    BY <1>2, <2>1, <2>2 DEF PollAdd
  <2>3. CASE job[p].state # "none"
    BY <1>2, <2>1, <2>3 DEF PollAdd
  <2>4. QED
    BY <2>2, <2>3
<1>3. ASSUME NEW p \in Pages, WindowCloses(p) PROVE TypeOK'
  BY <1>3 DEF WindowCloses
<1>4. ASSUME NEW p \in Pages, Reopen(p) PROVE TypeOK'
  BY <1>4 DEF Reopen
<1>5. ASSUME NEW p \in Pages, Evict(p) PROVE TypeOK'
  BY <1>5, JobTyped DEF Evict
<1>6. ASSUME NEW p \in Pages, TakeJob(p) PROVE TypeOK'
  BY <1>6, JobTyped DEF TakeJob, Goto
<1>7. ASSUME NEW p \in Pages, CompleteJob(p) PROVE TypeOK'
  <2>1. job' \in [Pages -> Job]
    BY <1>7, JobTyped DEF CompleteJob
  <2>2. pc' \in [Pages -> Steps]
    BY <1>7 DEF CompleteJob, Goto
  <2>3. QED
    BY <1>7, <2>1, <2>2 DEF CompleteJob
<1>8. ASSUME NEW p \in Pages, FailAttempt(p) PROVE TypeOK'
  <2>1. job' \in [Pages -> Job]
    BY <1>8, JobTyped DEF FailAttempt
  <2>2. pc' \in [Pages -> Steps]
    BY <1>8 DEF FailAttempt, Goto
  <2>3. QED
    BY <1>8, <2>1, <2>2 DEF FailAttempt
<1>9. ASSUME NEW p \in Pages, StalledCheck(p) PROVE TypeOK'
  BY <1>9, JobTyped DEF StalledCheck
<1>10. ASSUME NEW p \in Pages, Build(p) PROVE TypeOK'
  BY <1>10 DEF Build, Goto
<1>11. ASSUME NEW p \in Pages, SoftFail(p) PROVE TypeOK'
  BY <1>11 DEF SoftFail, WriteStatus, Goto
<1>12. ASSUME NEW p \in Pages, MarkSending(p) PROVE TypeOK'
  BY <1>12 DEF MarkSending, WriteStatus, Goto
<1>13. ASSUME NEW p \in Pages, SendMail(p) PROVE TypeOK'
  BY <1>13 DEF SendMail, Goto, Deliver, Mails
<1>14. ASSUME NEW p \in Pages, SendReply(p) PROVE TypeOK'
  <2>1. pc' \in [Pages -> Steps]
    BY <1>14 DEF SendReply, Goto
  <2>2. calls' \in [Pages -> Nat] /\ delivered' \in [Pages -> Nat]
    BY <1>14 DEF SendReply, Deliver
  <2>3. hit' \in [Pages -> Mails \cup {NoHit}]
    BY <1>14 DEF SendReply, Mails
  <2>4. QED
    BY <1>14, <2>1, <2>2, <2>3 DEF SendReply
<1>15. ASSUME NEW p \in Pages, Lookup(p) PROVE TypeOK'
  BY <1>15 DEF Lookup, Goto, Mails
<1>16. ASSUME NEW p \in Pages, Record(p) PROVE TypeOK'
  BY <1>16 DEF Record, Goto, Mails
<1>17. ASSUME NEW p \in Pages, WriteSuccess(p) PROVE TypeOK'
  BY <1>17 DEF WriteSuccess, WriteStatus, Goto
<1>18. ASSUME NEW p \in Pages, Verify(p) PROVE TypeOK'
  BY <1>18 DEF Verify, WriteStatus, Goto
<1>19. ASSUME NEW p \in Pages, Catch(p) PROVE TypeOK'
  BY <1>19 DEF Catch, WriteStatus, Goto
<1>20. CASE PollAbort
  BY <1>20 DEF PollAbort
<1>21. CASE WorkerCrash
  BY <1>21 DEF WorkerCrash
<1>22. CASE UNCHANGED vars
  BY <1>22 DEF vars
<1>23. ASSUME NEW p \in Pages, WriteBounce(p) PROVE TypeOK'
  BY <1>23 DEF WriteBounce
<1>24. QED
  BY <1>1, <1>2, <1>3, <1>4, <1>5, <1>6, <1>7, <1>8, <1>9, <1>10, <1>11, <1>12, <1>13,
     <1>14, <1>15, <1>16, <1>17, <1>18, <1>19, <1>20, <1>21, <1>22, <1>23
     DEF Next, Handler, Queue, Poller

\* Every step keeps RunInv.
LEMMA NextRun == TypeOK /\ RunInv /\ [Next]_vars => RunInv'
<1> SUFFICES ASSUME TypeOK /\ RunInv, [Next]_vars PROVE RunInv'
  OBVIOUS
<1> USE SendAssumption DEF TypeOK, RunInv, RunOK, Steps, notionVars, runVars, mailVars,
            boundVars
<1>1. ASSUME NEW p \in Pages, PollFind(p) PROVE RunInv'
  BY <1>1 DEF PollFind
<1>2. ASSUME NEW p \in Pages, PollAdd(p) PROVE RunInv'
  <2>1. ASSUME NEW q \in Pages \ {p} PROVE job'[q] = job[q]
    BY <1>2, <2>1 DEF PollAdd
  <2>2. job[p].state = "none" => job'[p].tries = 0
    BY <1>2 DEF PollAdd, Add, NoJob
  <2>3. job[p].state # "none" => job'[p] = job[p]
    BY <1>2 DEF PollAdd, Add
  <2>4. pc' = pc /\ (pc[p] # "idle" => job[p].state # "none")
    BY <1>2 DEF PollAdd
  <2>5. QED
    BY <2>1, <2>2, <2>3, <2>4
<1>3. ASSUME NEW p \in Pages, WindowCloses(p) PROVE RunInv'
  BY <1>3 DEF WindowCloses
<1>4. ASSUME NEW p \in Pages, Reopen(p) PROVE RunInv'
  BY <1>4 DEF Reopen
<1>5. ASSUME NEW p \in Pages, Evict(p) PROVE RunInv'
  <2>1. ASSUME NEW q \in Pages \ {p} PROVE job'[q] = job[q]
    BY <1>5, <2>1 DEF Evict
  <2>2. job'[p].state = "none" /\ job[p].state # "active" /\ pc' = pc
    BY <1>5 DEF Evict, NoJob, IsFinished
  <2>3. QED
    BY <2>1, <2>2
<1>6. ASSUME NEW p \in Pages, TakeJob(p) PROVE RunInv'
  BY <1>6, JobTyped DEF TakeJob, Goto
<1>7. ASSUME NEW p \in Pages, CompleteJob(p) PROVE RunInv'
  BY <1>7, JobTyped DEF CompleteJob, Goto
<1>8. ASSUME NEW p \in Pages, FailAttempt(p) PROVE RunInv'
  BY <1>8, JobTyped DEF FailAttempt, Goto, AfterThrow, Job
<1>9. ASSUME NEW p \in Pages, StalledCheck(p) PROVE RunInv'
  BY <1>9, JobTyped DEF StalledCheck
<1>10. ASSUME NEW p \in Pages, Build(p) PROVE RunInv'
  BY <1>10 DEF Build, Goto
<1>11. ASSUME NEW p \in Pages, SoftFail(p) PROVE RunInv'
  BY <1>11 DEF SoftFail, WriteStatus, Goto
<1>12. ASSUME NEW p \in Pages, MarkSending(p) PROVE RunInv'
  BY <1>12 DEF MarkSending, WriteStatus, Goto
<1>13. ASSUME NEW p \in Pages, SendMail(p) PROVE RunInv'
  BY <1>13 DEF SendMail, Goto, Deliver
<1>14. ASSUME NEW p \in Pages, SendReply(p) PROVE RunInv'
  BY <1>14 DEF SendReply, Goto, Deliver
<1>15. ASSUME NEW p \in Pages, Lookup(p) PROVE RunInv'
  BY <1>15 DEF Lookup, Goto
<1>16. ASSUME NEW p \in Pages, Record(p) PROVE RunInv'
  BY <1>16 DEF Record, Goto
<1>17. ASSUME NEW p \in Pages, WriteSuccess(p) PROVE RunInv'
  BY <1>17 DEF WriteSuccess, WriteStatus, Goto
<1>18. ASSUME NEW p \in Pages, Verify(p) PROVE RunInv'
  BY <1>18 DEF Verify, WriteStatus, Goto
<1>19. ASSUME NEW p \in Pages, Catch(p) PROVE RunInv'
  BY <1>19 DEF Catch, WriteStatus, Goto
<1>20. CASE PollAbort
  BY <1>20 DEF PollAbort
<1>21. CASE WorkerCrash
  BY <1>21 DEF WorkerCrash
<1>22. CASE UNCHANGED vars
  BY <1>22 DEF vars
<1>23. ASSUME NEW p \in Pages, WriteBounce(p) PROVE RunInv'
  BY <1>23 DEF WriteBounce
<1>24. QED
  BY <1>1, <1>2, <1>3, <1>4, <1>5, <1>6, <1>7, <1>8, <1>9, <1>10, <1>11, <1>12, <1>13,
     <1>14, <1>15, <1>16, <1>17, <1>18, <1>19, <1>20, <1>21, <1>22, <1>23
     DEF Next, Handler, Queue, Poller

\* Every step keeps CallsInv: a send call is paid for by an attempt or a stall.
LEMMA NextCalls == TypeOK /\ RunInv /\ CallsInv /\ [Next]_vars => CallsInv'
<1> SUFFICES ASSUME TypeOK, RunInv, CallsInv, [Next]_vars PROVE CallsInv'
  OBVIOUS
<1> USE SendAssumption DEF notionVars, runVars, mailVars, boundVars
<1>a. ASSUME NEW q \in Pages, job'[q] = job[q], pc'[q] = pc[q], calls'[q] = calls[q]
      PROVE  CallsOK(q)'
  BY <1>a DEF CallsInv, CallsOK, Spent
<1>b. ASSUME NEW q \in Pages
      PROVE  /\ job[q] \in Job /\ calls[q] \in Nat /\ pc[q] \in Steps
             /\ CallsOK(q) /\ RunOK(q)
             /\ job[q].tries \in Nat /\ job[q].stalls \in Nat
  BY DEF TypeOK, CallsInv, RunInv, Job
<1>1. ASSUME NEW p \in Pages, PollFind(p) PROVE CallsInv'
  BY <1>1, <1>a DEF CallsInv, PollFind
<1>2. ASSUME NEW p \in Pages, PollAdd(p) PROVE CallsInv'
  <2>1. ASSUME NEW q \in Pages \ {p} PROVE CallsOK(q)'
    BY <1>2, <2>1, <1>a DEF TypeOK, PollAdd
  <2>2. CASE job[p].state # "none"
    <3>1. job'[p] = job[p] /\ pc'[p] = pc[p] /\ calls'[p] = calls[p]
      BY <1>2, <2>2 DEF TypeOK, PollAdd, Add
    <3>2. QED
      BY <3>1, <2>1, <1>a DEF CallsInv
  <2>3. CASE job[p].state = "none"
    <3>1. pc'[p] = "idle" /\ calls'[p] = 0
      BY <1>2, <2>3, <1>b DEF TypeOK, PollAdd, RunOK
    <3>2. job'[p].tries = 0 /\ job'[p].stalls = 0
      BY <1>2, <2>3 DEF TypeOK, PollAdd, Add, NoJob
    <3>3. CallsOK(p)'
      BY <3>1, <3>2 DEF CallsOK, Spent, MaxStalledCount
    <3>4. QED
      BY <2>1, <3>3 DEF CallsInv
  <2>4. QED
    BY <2>2, <2>3
<1>3. ASSUME NEW p \in Pages, WindowCloses(p) PROVE CallsInv'
  BY <1>3, <1>a DEF CallsInv, WindowCloses
<1>4. ASSUME NEW p \in Pages, Reopen(p) PROVE CallsInv'
  BY <1>4, <1>a DEF CallsInv, Reopen
<1>5. ASSUME NEW p \in Pages, Evict(p) PROVE CallsInv'
  <2>1. ASSUME NEW q \in Pages \ {p} PROVE CallsOK(q)'
    BY <1>5, <2>1, <1>a DEF TypeOK, Evict, IsFinished
  <2>2. /\ job'[p].state = "none" /\ calls'[p] = calls[p]
        /\ pc'[p] = pc[p] /\ job[p].state # "active"
    BY <1>5, <1>b, JobTyped DEF TypeOK, Evict, IsFinished
  <2>3. CallsOK(p)'
    BY <1>b, <2>2 DEF CallsOK, RunOK, Spent, MaxStalledCount
  <2>4. QED
    BY <2>1, <2>3 DEF CallsInv
<1>6. ASSUME NEW p \in Pages, TakeJob(p) PROVE CallsInv'
  <2>1. ASSUME NEW q \in Pages \ {p} PROVE CallsOK(q)'
    BY <1>6, <2>1, <1>a DEF TypeOK, TakeJob, Goto
  <2>2. /\ job[p].state = "waiting" /\ job'[p].state = "active"
        /\ job'[p].tries = job[p].tries /\ job'[p].stalls = job[p].stalls
        /\ calls'[p] = calls[p] /\ pc'[p] = "start"
    BY <1>6, <1>b DEF TypeOK, TakeJob, Start, Job, Goto
  <2>3. CallsOK(p)'
    BY <1>b, <2>2 DEF CallsOK, RunOK, Spent, MaxStalledCount
  <2>4. QED
    BY <2>1, <2>3 DEF CallsInv
<1>7. ASSUME NEW p \in Pages, CompleteJob(p) PROVE CallsInv'
  <2>1. ASSUME NEW q \in Pages \ {p} PROVE CallsOK(q)'
    BY <1>7, <2>1, <1>a DEF TypeOK, CompleteJob, Goto
  <2>2. /\ job'[p].state = "completed" /\ calls'[p] = calls[p]
        /\ pc'[p] = "idle"
    BY <1>7, <1>b, JobTyped DEF TypeOK, CompleteJob, Goto
  <2>3. CallsOK(p)'
    BY <1>b, <2>2 DEF CallsOK, RunOK, Spent, MaxStalledCount
  <2>4. QED
    BY <2>1, <2>3 DEF CallsInv
<1>8. ASSUME NEW p \in Pages, FailAttempt(p) PROVE CallsInv'
  <2>1. ASSUME NEW q \in Pages \ {p} PROVE CallsOK(q)'
    BY <1>8, <2>1, <1>a DEF TypeOK, FailAttempt, Goto, AfterThrow
  <2>2. /\ job[p].state = "active"
        /\ job'[p].state \in {"waiting", "failed"}
        /\ job'[p].tries = job[p].tries + 1 /\ job'[p].stalls = job[p].stalls
        /\ calls'[p] = calls[p] /\ pc'[p] = "idle"
    BY <1>8, <1>b DEF TypeOK, FailAttempt, Goto, AfterThrow, RunOK
  <2>3. CallsOK(p)'
    BY <1>b, <2>2 DEF CallsOK, RunOK, Spent, MaxStalledCount
  <2>4. QED
    BY <2>1, <2>3 DEF CallsInv
<1>9. ASSUME NEW p \in Pages, StalledCheck(p) PROVE CallsInv'
  <2>1. ASSUME NEW q \in Pages \ {p} PROVE CallsOK(q)'
    BY <1>9, <2>1, <1>a DEF TypeOK, StalledCheck
  <2>2. /\ job[p].state = "active" /\ pc[p] = "idle" /\ pc'[p] = "idle"
        /\ job'[p].state \in {"waiting", "failed"} /\ job'[p].tries = job[p].tries
        /\ job'[p].state = "waiting" => /\ job[p].stalls < MaxStalledCount
                                        /\ job'[p].stalls = job[p].stalls + 1
        /\ calls'[p] = calls[p]
    BY <1>9, <1>b DEF TypeOK, RunOK, StalledCheck, AfterStall, Job
  <2>3. CallsOK(p)'
    BY <1>b, <2>2 DEF CallsOK, RunOK, Spent, MaxStalledCount
  <2>4. QED
    BY <2>1, <2>3 DEF CallsInv
<1>10. ASSUME NEW p \in Pages, Build(p) PROVE CallsInv'
  <2>1. ASSUME NEW q \in Pages \ {p} PROVE CallsOK(q)'
    BY <1>10, <2>1, <1>a DEF TypeOK, Build, Goto
  <2>2. /\ pc[p] = "start" /\ job'[p] = job[p] /\ calls'[p] = calls[p]
    BY <1>10, <1>b DEF TypeOK, Build, Goto
  <2>3. CallsOK(p)'
    BY <1>b, <2>2 DEF CallsOK, RunOK, Spent, MaxStalledCount
  <2>4. QED
    BY <2>1, <2>3 DEF CallsInv
<1>11. ASSUME NEW p \in Pages, SoftFail(p) PROVE CallsInv'
  <2>1. ASSUME NEW q \in Pages \ {p} PROVE CallsOK(q)'
    BY <1>11, <2>1, <1>a DEF TypeOK, SoftFail, Goto, WriteStatus
  <2>2. /\ pc[p] = "built" /\ job'[p] = job[p] /\ calls'[p] = calls[p]
    BY <1>11, <1>b DEF TypeOK, SoftFail, Goto, WriteStatus
  <2>3. CallsOK(p)'
    BY <1>b, <2>2 DEF CallsOK, RunOK, Spent, MaxStalledCount
  <2>4. QED
    BY <2>1, <2>3 DEF CallsInv
<1>12. ASSUME NEW p \in Pages, MarkSending(p) PROVE CallsInv'
  <2>1. ASSUME NEW q \in Pages \ {p} PROVE CallsOK(q)'
    BY <1>12, <2>1, <1>a DEF TypeOK, MarkSending, Goto, WriteStatus
  <2>2. /\ pc[p] = "built" /\ job'[p] = job[p] /\ calls'[p] = calls[p]
    BY <1>12, <1>b DEF TypeOK, MarkSending, Goto, WriteStatus
  <2>3. CallsOK(p)'
    BY <1>b, <2>2 DEF CallsOK, RunOK, Spent, MaxStalledCount
  <2>4. QED
    BY <2>1, <2>3 DEF CallsInv
<1>13. ASSUME NEW p \in Pages, SendMail(p) PROVE CallsInv'
  <2>1. ASSUME NEW q \in Pages \ {p} PROVE CallsOK(q)'
    BY <1>13, <2>1, <1>a DEF TypeOK, SendMail, Goto, Deliver
  <2>2. /\ pc[p] = "marked" /\ pc'[p] \in {"sent", "hit", "catch"}
        /\ job'[p] = job[p] /\ calls'[p] = calls[p] + 1
    BY <1>13, <1>b DEF TypeOK, SendMail, Goto, Deliver
  <2>3. CallsOK(p)'
    BY <1>b, <2>2 DEF CallsOK, RunOK, Spent, MaxStalledCount
  <2>4. QED
    BY <2>1, <2>3 DEF CallsInv
<1>14. ASSUME NEW p \in Pages, SendReply(p) PROVE CallsInv'
  <2>1. ASSUME NEW q \in Pages \ {p} PROVE CallsOK(q)'
    BY <1>14, <2>1, <1>a DEF TypeOK, SendReply, Goto, Deliver
  <2>2. /\ pc[p] = "marked" /\ pc'[p] \in {"sent", "hit", "catch"}
        /\ job'[p] = job[p] /\ calls'[p] = calls[p] + 1
    BY <1>14, <1>b DEF TypeOK, SendReply, Goto, Deliver
  <2>3. CallsOK(p)'
    BY <1>b, <2>2 DEF CallsOK, RunOK, Spent, MaxStalledCount
  <2>4. QED
    BY <2>1, <2>3 DEF CallsInv
<1>15. ASSUME NEW p \in Pages, Lookup(p) PROVE CallsInv'
  <2>1. ASSUME NEW q \in Pages \ {p} PROVE CallsOK(q)'
    BY <1>15, <2>1, <1>a DEF TypeOK, Lookup, Goto
  <2>2. /\ pc[p] = "sent" /\ pc'[p] \in {"hit", "catch"}
        /\ job'[p] = job[p] /\ calls'[p] = calls[p]
    BY <1>15, <1>b DEF TypeOK, Lookup, Goto
  <2>3. CallsOK(p)'
    BY <1>b, <2>2 DEF CallsOK, RunOK, Spent, MaxStalledCount
  <2>4. QED
    BY <2>1, <2>3 DEF CallsInv
<1>16. ASSUME NEW p \in Pages, Record(p) PROVE CallsInv'
  <2>1. ASSUME NEW q \in Pages \ {p} PROVE CallsOK(q)'
    BY <1>16, <2>1, <1>a DEF TypeOK, Record, Goto
  <2>2. /\ pc[p] = "hit" /\ pc'[p] \in {"recorded", "catch"}
        /\ job'[p] = job[p] /\ calls'[p] = calls[p]
    BY <1>16, <1>b DEF TypeOK, Record, Goto
  <2>3. CallsOK(p)'
    BY <1>b, <2>2 DEF CallsOK, RunOK, Spent, MaxStalledCount
  <2>4. QED
    BY <2>1, <2>3 DEF CallsInv
<1>17. ASSUME NEW p \in Pages, WriteSuccess(p) PROVE CallsInv'
  <2>1. ASSUME NEW q \in Pages \ {p} PROVE CallsOK(q)'
    BY <1>17, <2>1, <1>a DEF TypeOK, WriteSuccess, Goto, WriteStatus
  <2>2. /\ pc[p] = "recorded" /\ pc'[p] \in {"verify", "catch"}
        /\ job'[p] = job[p] /\ calls'[p] = calls[p]
    BY <1>17, <1>b DEF TypeOK, WriteSuccess, Goto, WriteStatus
  <2>3. CallsOK(p)'
    BY <1>b, <2>2 DEF CallsOK, RunOK, Spent, MaxStalledCount
  <2>4. QED
    BY <2>1, <2>3 DEF CallsInv
<1>18. ASSUME NEW p \in Pages, Verify(p) PROVE CallsInv'
  <2>1. ASSUME NEW q \in Pages \ {p} PROVE CallsOK(q)'
    BY <1>18, <2>1, <1>a DEF TypeOK, Verify, WriteStatus, Goto
  <2>2. /\ pc[p] \in {"verify", "verify2", "verify3"}
        /\ pc'[p] \in {"return", "verify2", "verify3", "catch"}
        /\ job'[p] = job[p] /\ calls'[p] = calls[p]
    BY <1>18, <1>b DEF TypeOK, Verify, WriteStatus, Goto
  <2>3. CallsOK(p)'
    BY <1>b, <2>2 DEF CallsOK, RunOK, Spent, MaxStalledCount
  <2>4. QED
    BY <2>1, <2>3 DEF CallsInv
<1>19. ASSUME NEW p \in Pages, Catch(p) PROVE CallsInv'
  <2>1. ASSUME NEW q \in Pages \ {p} PROVE CallsOK(q)'
    BY <1>19, <2>1, <1>a DEF TypeOK, Catch, Goto, WriteStatus
  <2>2. /\ pc[p] = "catch" /\ pc'[p] \in {"throw"}
        /\ job'[p] = job[p] /\ calls'[p] = calls[p]
    BY <1>19, <1>b DEF TypeOK, Catch, Goto, WriteStatus
  <2>3. CallsOK(p)'
    BY <1>b, <2>2 DEF CallsOK, RunOK, Spent, MaxStalledCount
  <2>4. QED
    BY <2>1, <2>3 DEF CallsInv
<1>20. CASE PollAbort
  BY <1>20, <1>a DEF CallsInv, PollAbort
<1>21. CASE WorkerCrash
  <2> SUFFICES ASSUME NEW q \in Pages PROVE CallsOK(q)'
    BY DEF CallsInv
  <2>1. job'[q] = job[q] /\ calls'[q] = calls[q] /\ pc'[q] = "idle"
    BY <1>21 DEF WorkerCrash
  <2>2. QED
    BY <2>1, <1>b DEF CallsOK, Spent
<1>22. CASE UNCHANGED vars
  BY <1>22, <1>a DEF CallsInv, vars
<1>23. ASSUME NEW p \in Pages, WriteBounce(p) PROVE CallsInv'
  BY <1>23, <1>a DEF CallsInv, WriteBounce
<1>24. QED
  BY <1>1, <1>2, <1>3, <1>4, <1>5, <1>6, <1>7, <1>8, <1>9, <1>10, <1>11, <1>12, <1>13,
     <1>14, <1>15, <1>16, <1>17, <1>18, <1>19, <1>20, <1>21, <1>22, <1>23
     DEF Next, Handler, Queue, Poller

\* A hit of the lookup is a mail that is out.
LEMMA NextHit == TypeOK /\ HitInv /\ [Next]_vars => HitInv'
<1> SUFFICES ASSUME TypeOK /\ HitInv, [Next]_vars PROVE HitInv'
  OBVIOUS
<1> USE SendAssumption DEF TypeOK, HitInv, Mails, notionVars, runVars, mailVars, boundVars
<1>1. ASSUME NEW p \in Pages, PollFind(p) PROVE HitInv'
  BY <1>1 DEF PollFind
<1>2. ASSUME NEW p \in Pages, PollAdd(p) PROVE HitInv'
  BY <1>2, JobTyped DEF PollAdd
<1>3. ASSUME NEW p \in Pages, WindowCloses(p) PROVE HitInv'
  BY <1>3 DEF WindowCloses
<1>4. ASSUME NEW p \in Pages, Reopen(p) PROVE HitInv'
  BY <1>4 DEF Reopen
<1>5. ASSUME NEW p \in Pages, Evict(p) PROVE HitInv'
  BY <1>5, JobTyped DEF Evict
<1>6. ASSUME NEW p \in Pages, TakeJob(p) PROVE HitInv'
  BY <1>6, JobTyped DEF TakeJob, Goto
<1>7. ASSUME NEW p \in Pages, CompleteJob(p) PROVE HitInv'
  BY <1>7, JobTyped DEF CompleteJob, Goto
<1>8. ASSUME NEW p \in Pages, FailAttempt(p) PROVE HitInv'
  BY <1>8, JobTyped DEF FailAttempt, Goto
<1>9. ASSUME NEW p \in Pages, StalledCheck(p) PROVE HitInv'
  BY <1>9, JobTyped DEF StalledCheck
<1>10. ASSUME NEW p \in Pages, Build(p) PROVE HitInv'
  BY <1>10 DEF Build, Goto
<1>11. ASSUME NEW p \in Pages, SoftFail(p) PROVE HitInv'
  BY <1>11 DEF SoftFail, WriteStatus, Goto
<1>12. ASSUME NEW p \in Pages, MarkSending(p) PROVE HitInv'
  BY <1>12 DEF MarkSending, WriteStatus, Goto
<1>13. ASSUME NEW p \in Pages, SendMail(p) PROVE HitInv'
  BY <1>13 DEF SendMail, Goto, Deliver
<1>14. ASSUME NEW p \in Pages, SendReply(p) PROVE HitInv'
  BY <1>14 DEF SendReply, Goto, Deliver
<1>15. ASSUME NEW p \in Pages, Lookup(p) PROVE HitInv'
  BY <1>15 DEF Lookup, Goto
<1>16. ASSUME NEW p \in Pages, Record(p) PROVE HitInv'
  BY <1>16 DEF Record, Goto
<1>17. ASSUME NEW p \in Pages, WriteSuccess(p) PROVE HitInv'
  BY <1>17 DEF WriteSuccess, WriteStatus, Goto
<1>18. ASSUME NEW p \in Pages, Verify(p) PROVE HitInv'
  BY <1>18 DEF Verify, WriteStatus, Goto
<1>19. ASSUME NEW p \in Pages, Catch(p) PROVE HitInv'
  BY <1>19 DEF Catch, WriteStatus, Goto
<1>20. CASE PollAbort
  BY <1>20 DEF PollAbort
<1>21. CASE WorkerCrash
  BY <1>21 DEF WorkerCrash
<1>22. CASE UNCHANGED vars
  BY <1>22 DEF vars
<1>23. ASSUME NEW p \in Pages, WriteBounce(p) PROVE HitInv'
  BY <1>23 DEF WriteBounce
<1>24. QED
  BY <1>1, <1>2, <1>3, <1>4, <1>5, <1>6, <1>7, <1>8, <1>9, <1>10, <1>11, <1>12, <1>13,
     <1>14, <1>15, <1>16, <1>17, <1>18, <1>19, <1>20, <1>21, <1>22, <1>23
     DEF Next, Handler, Queue, Poller

\* Only a hit that is not recorded yet is recorded.
LEMMA NextRows == TypeOK /\ HitInv /\ RowsInv /\ [Next]_vars => RowsInv'
<1> SUFFICES ASSUME TypeOK /\ HitInv /\ RowsInv, [Next]_vars PROVE RowsInv'
  OBVIOUS
<1> USE SendAssumption DEF TypeOK, HitInv, RowsInv, RowsNameMails, Mails, notionVars,
            runVars, mailVars, boundVars
<1>1. ASSUME NEW p \in Pages, PollFind(p) PROVE RowsInv'
  BY <1>1 DEF PollFind
<1>2. ASSUME NEW p \in Pages, PollAdd(p) PROVE RowsInv'
  BY <1>2, JobTyped DEF PollAdd
<1>3. ASSUME NEW p \in Pages, WindowCloses(p) PROVE RowsInv'
  BY <1>3 DEF WindowCloses
<1>4. ASSUME NEW p \in Pages, Reopen(p) PROVE RowsInv'
  BY <1>4 DEF Reopen
<1>5. ASSUME NEW p \in Pages, Evict(p) PROVE RowsInv'
  BY <1>5, JobTyped DEF Evict
<1>6. ASSUME NEW p \in Pages, TakeJob(p) PROVE RowsInv'
  BY <1>6, JobTyped DEF TakeJob, Goto
<1>7. ASSUME NEW p \in Pages, CompleteJob(p) PROVE RowsInv'
  BY <1>7, JobTyped DEF CompleteJob, Goto
<1>8. ASSUME NEW p \in Pages, FailAttempt(p) PROVE RowsInv'
  BY <1>8, JobTyped DEF FailAttempt, Goto
<1>9. ASSUME NEW p \in Pages, StalledCheck(p) PROVE RowsInv'
  BY <1>9, JobTyped DEF StalledCheck
<1>10. ASSUME NEW p \in Pages, Build(p) PROVE RowsInv'
  BY <1>10 DEF Build, Goto
<1>11. ASSUME NEW p \in Pages, SoftFail(p) PROVE RowsInv'
  BY <1>11 DEF SoftFail, WriteStatus, Goto
<1>12. ASSUME NEW p \in Pages, MarkSending(p) PROVE RowsInv'
  BY <1>12 DEF MarkSending, WriteStatus, Goto
<1>13. ASSUME NEW p \in Pages, SendMail(p) PROVE RowsInv'
  BY <1>13 DEF SendMail, Goto, Deliver
<1>14. ASSUME NEW p \in Pages, SendReply(p) PROVE RowsInv'
  BY <1>14 DEF SendReply, Goto, Deliver
<1>15. ASSUME NEW p \in Pages, Lookup(p) PROVE RowsInv'
  BY <1>15 DEF Lookup, Goto
<1>16. ASSUME NEW p \in Pages, Record(p) PROVE RowsInv'
  BY <1>16 DEF Record, Goto
<1>17. ASSUME NEW p \in Pages, WriteSuccess(p) PROVE RowsInv'
  BY <1>17 DEF WriteSuccess, WriteStatus, Goto
<1>18. ASSUME NEW p \in Pages, Verify(p) PROVE RowsInv'
  BY <1>18 DEF Verify, WriteStatus, Goto
<1>19. ASSUME NEW p \in Pages, Catch(p) PROVE RowsInv'
  BY <1>19 DEF Catch, WriteStatus, Goto
<1>20. CASE PollAbort
  BY <1>20 DEF PollAbort
<1>21. CASE WorkerCrash
  BY <1>21 DEF WorkerCrash
<1>22. CASE UNCHANGED vars
  BY <1>22 DEF vars
<1>23. ASSUME NEW p \in Pages, WriteBounce(p) PROVE RowsInv'
  BY <1>23 DEF WriteBounce
<1>24. QED
  BY <1>1, <1>2, <1>3, <1>4, <1>5, <1>6, <1>7, <1>8, <1>9, <1>10, <1>11, <1>12, <1>13,
     <1>14, <1>15, <1>16, <1>17, <1>18, <1>19, <1>20, <1>21, <1>22, <1>23
     DEF Next, Handler, Queue, Poller

\* Success is written after the mail is recorded, and no row is ever deleted.
LEMMA NextSuccess == TypeOK /\ SuccessInv /\ [Next]_vars => SuccessInv'
<1> SUFFICES ASSUME TypeOK /\ SuccessInv, [Next]_vars PROVE SuccessInv'
  OBVIOUS
<1> USE SendAssumption DEF TypeOK, SuccessInv, SuccessIsRecorded, Recorded, notionVars,
            runVars, mailVars, boundVars
<1>1. ASSUME NEW p \in Pages, PollFind(p) PROVE SuccessInv'
  BY <1>1 DEF PollFind
<1>2. ASSUME NEW p \in Pages, PollAdd(p) PROVE SuccessInv'
  <2>1. UNCHANGED <<status, pc, rows>>
    BY <1>2 DEF PollAdd
  <2>2. QED
    BY <2>1
<1>3. ASSUME NEW p \in Pages, WindowCloses(p) PROVE SuccessInv'
  BY <1>3 DEF WindowCloses
<1>4. ASSUME NEW p \in Pages, Reopen(p) PROVE SuccessInv'
  BY <1>4 DEF Reopen
<1>5. ASSUME NEW p \in Pages, Evict(p) PROVE SuccessInv'
  BY <1>5, JobTyped DEF Evict
<1>6. ASSUME NEW p \in Pages, TakeJob(p) PROVE SuccessInv'
  BY <1>6, JobTyped DEF TakeJob, Goto
<1>7. ASSUME NEW p \in Pages, CompleteJob(p) PROVE SuccessInv'
  BY <1>7, JobTyped DEF CompleteJob, Goto
<1>8. ASSUME NEW p \in Pages, FailAttempt(p) PROVE SuccessInv'
  BY <1>8, JobTyped DEF FailAttempt, Goto
<1>9. ASSUME NEW p \in Pages, StalledCheck(p) PROVE SuccessInv'
  BY <1>9, JobTyped DEF StalledCheck
<1>10. ASSUME NEW p \in Pages, Build(p) PROVE SuccessInv'
  BY <1>10 DEF Build, Goto
<1>11. ASSUME NEW p \in Pages, SoftFail(p) PROVE SuccessInv'
  BY <1>11 DEF SoftFail, WriteStatus, Goto
<1>12. ASSUME NEW p \in Pages, MarkSending(p) PROVE SuccessInv'
  BY <1>12 DEF MarkSending, WriteStatus, Goto
<1>13. ASSUME NEW p \in Pages, SendMail(p) PROVE SuccessInv'
  BY <1>13 DEF SendMail, Goto, Deliver
<1>14. ASSUME NEW p \in Pages, SendReply(p) PROVE SuccessInv'
  BY <1>14 DEF SendReply, Goto, Deliver
<1>15. ASSUME NEW p \in Pages, Lookup(p) PROVE SuccessInv'
  BY <1>15 DEF Lookup, Goto
<1>16. ASSUME NEW p \in Pages, Record(p) PROVE SuccessInv'
  <2>1. rows \subseteq rows' /\ status' = status
    BY <1>16 DEF Record
  <2>2. ASSUME NEW q \in Pages, Recorded(q) # {} PROVE Recorded(q)' # {}
    BY <2>1, <2>2
  <2>3. ASSUME NEW q \in Pages \ {p} PROVE pc'[q] = pc[q]
    BY <1>16, <2>3 DEF Record, Goto
  <2>4. pc'[p] \in {"recorded", "catch"}
    BY <1>16 DEF Record, Goto
  <2>5. ASSUME pc'[p] = "recorded" PROVE Recorded(p)' # {}
    <3>1. [page |-> p, mail |-> hit[p]] \in rows'
      BY <1>16, <2>5 DEF Record, Goto
    <3>2. QED
      BY <3>1
  <2>6. QED
    BY <2>1, <2>2, <2>3, <2>4, <2>5
<1>17. ASSUME NEW p \in Pages, WriteSuccess(p) PROVE SuccessInv'
  BY <1>17 DEF WriteSuccess, WriteStatus, Goto
<1>18. ASSUME NEW p \in Pages, Verify(p) PROVE SuccessInv'
  BY <1>18 DEF Verify, WriteStatus, Goto
<1>19. ASSUME NEW p \in Pages, Catch(p) PROVE SuccessInv'
  BY <1>19 DEF Catch, WriteStatus, Goto
<1>20. CASE PollAbort
  BY <1>20 DEF PollAbort
<1>21. CASE WorkerCrash
  BY <1>21 DEF WorkerCrash
<1>22. CASE UNCHANGED vars
  BY <1>22 DEF vars
<1>23. ASSUME NEW p \in Pages, WriteBounce(p) PROVE SuccessInv'
  BY <1>23 DEF WriteBounce
<1>24. QED
  BY <1>1, <1>2, <1>3, <1>4, <1>5, <1>6, <1>7, <1>8, <1>9, <1>10, <1>11, <1>12, <1>13,
     <1>14, <1>15, <1>16, <1>17, <1>18, <1>19, <1>20, <1>21, <1>22, <1>23
     DEF Next, Handler, Queue, Poller

\* Every step keeps MarkedInv.
LEMMA NextMarked == TypeOK /\ MarkedInv /\ [Next]_vars => MarkedInv'
<1> SUFFICES ASSUME TypeOK, MarkedInv, [Next]_vars, NEW q \in Pages PROVE MarkedOK(q)'
  BY DEF MarkedInv
<1> USE SendAssumption DEF notionVars, runVars, mailVars, boundVars
<1>a. ASSUME pc'[q] \in {pc[q], "idle"}, status'[q] = status[q], rows \subseteq rows'
      PROVE  MarkedOK(q)'
  <2>1. Recorded(q) # {} => Recorded(q)' # {}
    BY <1>a DEF Recorded
  <2>2. QED
    BY <1>a, <2>1 DEF MarkedInv, MarkedOK, Overwritten
<1>b. ASSUME pc'[q] # "marked" PROVE MarkedOK(q)'
  BY <1>b DEF MarkedOK
<1>1. ASSUME NEW p \in Pages, Poller(p) \/ WindowCloses(p) \/ Evict(p) PROVE MarkedOK(q)'
  <2>1. pc' = pc /\ status' = status /\ rows' = rows
    BY <1>1 DEF Poller, PollFind, PollAdd, WindowCloses, Evict
  <2>2. QED
    BY <2>1, <1>a
<1>2. ASSUME NEW p \in Pages, Queue(p) PROVE MarkedOK(q)'
  <2>1. pc'[q] \in {pc[q], "start", "idle"} /\ status' = status /\ rows' = rows
    BY <1>2 DEF Queue, TakeJob, CompleteJob, FailAttempt, StalledCheck, Goto, TypeOK
  <2>2. QED
    BY <2>1, <1>a, <1>b
<1>3. ASSUME NEW p \in Pages, MarkSending(p) PROVE MarkedOK(q)'
  <2>1. CASE q = p
    <3>1. pc'[q] = "marked" => status'[q] = "sending"
      BY <1>3, <2>1 DEF MarkSending, WriteStatus, Goto, TypeOK
    <3>2. QED
      BY <3>1 DEF MarkedOK
  <2>2. CASE q # p
    BY <1>3, <2>2, <1>a DEF MarkSending, WriteStatus, Goto, TypeOK
  <2>3. QED
    BY <2>1, <2>2
<1>4. ASSUME NEW p \in Pages, Handler(p), ~MarkSending(p) PROVE MarkedOK(q)'
  <2>1. CASE q = p
    <3>1. pc'[q] # "marked"
      BY <1>4, <2>1 DEF Handler, Build, SoftFail, SendMail, SendReply, Lookup, Record,
         WriteSuccess, Verify, Catch, WriteStatus, Goto, TypeOK
    <3>2. QED
      BY <3>1, <1>b
  <2>2. CASE q # p
    <3>1. pc'[q] = pc[q]
      BY <1>4, <2>2 DEF Handler, Build, SoftFail, SendMail, SendReply, Lookup, Record,
         WriteSuccess, Verify, Catch, WriteStatus, Goto, TypeOK
    <3>2. status'[q] = status[q]
      BY <1>4, <2>2 DEF Handler, Build, SoftFail, SendMail, SendReply, Lookup, Record,
         WriteSuccess, Verify, Catch, WriteStatus, TypeOK
    <3>3. rows \subseteq rows'
      BY <1>4 DEF Handler, Build, SoftFail, SendMail, SendReply, Lookup, Record,
         WriteSuccess, Verify, Catch
    <3>4. QED
      BY <3>1, <3>2, <3>3, <1>a
  <2>3. QED
    BY <2>1, <2>2
<1>5. ASSUME NEW p \in Pages, Reopen(p) \/ WriteBounce(p) PROVE MarkedOK(q)'
  <2>1. pc' = pc /\ rows' = rows
    BY <1>5 DEF Reopen, WriteBounce
  <2>2. CASE q # p
    BY <1>5, <2>1, <2>2, <1>a DEF Reopen, WriteBounce, TypeOK
  <2>3. CASE q = p /\ Reopen(p)
    <3>1. status[q] # "sending" /\ status'[q] = "todo"
      BY <2>3 DEF Reopen, TypeOK
    <3>2. QED
      BY <2>1, <3>1 DEF MarkedInv, MarkedOK, Overwritten, Recorded
  <2>4. CASE q = p /\ WriteBounce(p)
    <3>1. Recorded(q) # {} /\ status'[q] = "failure"
      BY <2>4 DEF WriteBounce, TypeOK
    <3>2. QED
      BY <2>1, <3>1 DEF MarkedOK, Overwritten, Recorded
  <2>5. QED
    BY <1>5, <2>2, <2>3, <2>4
<1>6. CASE PollAbort \/ WorkerCrash \/ UNCHANGED vars
  <2>1. pc'[q] \in {pc[q], "idle"} /\ status' = status /\ rows' = rows
    BY <1>6 DEF PollAbort, WorkerCrash, vars
  <2>2. QED
    BY <2>1, <1>a
<1>7. QED
  BY <1>1, <1>2, <1>3, <1>4, <1>5, <1>6 DEF Next

-----------------------------------------------------------------------------
(* The theorems.                                                             *)

\* IInv is inductive.
THEOREM Invariance == Spec => []IInv
<1>1. IInv /\ [Next]_vars => IInv'
  BY NextTyped, NextRun, NextCalls, NextHit, NextRows, NextSuccess, NextMarked DEF IInv
<1>2. QED
  BY InitIInv, <1>1, PTL DEF Spec

\* Every variable keeps its type: in particular a row is recorded only with a mail
\* of a known row, never with the result of a lookup that found nothing.
THEOREM TypeCorrect == Spec => []TypeOK
  BY Invariance, PTL DEF IInv

\* A row reads Success only when a mail of it is recorded (send.worker.ts).
THEOREM SuccessRecorded == Spec => []SuccessIsRecorded
<1>1. IInv => SuccessIsRecorded
  BY DEF IInv, SuccessInv
<1>2. QED
  BY Invariance, <1>1, PTL

\* outbound_messages names mails that are out, each once, and under the sender, subject and
\* recipient of the row (findRecentSentMessage, recordOutbound).
THEOREM RowsCorrect == Spec => []RowsNameMails
<1>1. IInv => RowsNameMails
  BY DEF IInv, RowsInv
<1>2. QED
  BY Invariance, <1>1, PTL

\* One job makes at most Attempts + MaxStalledCount send calls (queues.ts).
THEOREM ResendBounded == Spec => []ResendIsBounded
<1>1. IInv => ResendIsBounded
  BY DEF IInv, CallsInv, CallsOK, ResendIsBounded
<1>2. QED
  BY Invariance, <1>1, PTL

\* Mail leaves only from a row that its run has marked, and whose mark nothing but a bounce
\* of an earlier mail has replaced since (markSending, writeBounce): from a row that has no
\* recorded mail only while it reads Sending, and never from a row that reads Success.
THEOREM MailLeavesMarked == Spec => MailLeavesMarkedRows
<1>1. IInv /\ [Next]_vars =>
        [\A p \in Pages : delivered'[p] # delivered[p] =>
              \/ status[p] = "sending"
              \/ Recorded(p) # {} /\ status[p] \in {"failure", "todo"}]_vars
  <2> SUFFICES ASSUME IInv, Next, NEW q \in Pages, delivered'[q] # delivered[q]
               PROVE  status[q] = "sending" \/ Overwritten(q)
    BY DEF Overwritten
  <2>1. CASE \E p \in Pages : SendMail(p) \/ SendReply(p)
    <3>1. PICK p \in Pages : SendMail(p) \/ SendReply(p)
      BY <2>1
    <3>2. pc[p] = "marked" /\ q = p
      BY <3>1 DEF SendMail, SendReply, Deliver, IInv, TypeOK
    <3>3. QED
      BY <3>2 DEF IInv, MarkedInv, MarkedOK
  <2>2. CASE ~ \E p \in Pages : SendMail(p) \/ SendReply(p)
    BY <2>2 DEF Next, Handler, Queue, Poller, PollFind, PollAdd, WindowCloses, Reopen,
        WriteBounce, Evict, TakeJob, CompleteJob, FailAttempt, StalledCheck, Build,
        SoftFail, MarkSending, Lookup, Record, WriteSuccess, Verify, Catch, PollAbort,
        WorkerCrash, mailVars
  <2>3. QED
    BY <2>1, <2>2
<1>2. QED
  BY Invariance, <1>1, PTL DEF Spec, MailLeavesMarkedRows

-----------------------------------------------------------------------------
(* Refinement of SendLedger.                                                 *)

Out == UNION {{p} \X (1..delivered[p]) : p \in Pages}
Announced == {p \in Pages : status[p] = "success"}
LedgerStep == Ledger!Next \/ UNCHANGED <<Out, rows, Announced>>

\* A write of the status column announces or withdraws the row, if it says anything.
LEMMA StatusStep ==
  ASSUME TypeOK, NEW p \in Pages, NEW s \in Status,
         status' = [status EXCEPT ![p] = s],
         UNCHANGED <<rows, delivered>>,
         s = "success" => Recorded(p) # {}
  PROVE  LedgerStep
<1>1. UNCHANGED <<Out, rows>>
  BY DEF Out
<1>2. CASE s = "success" /\ status[p] # "success"
  <2>1. Announced' = Announced \cup {p} /\ p \notin Announced
    BY <1>2 DEF Announced, TypeOK
  <2>2. \E e \in rows : e.page = p
    BY <1>2 DEF Recorded
  <2>3. Ledger!Announce(p)
    BY <1>1, <2>1, <2>2 DEF Ledger!Announce, Out, Announced
  <2>4. QED
    BY <2>1, <2>3 DEF LedgerStep, Ledger!Next, Announced
<1>3. CASE s # "success" /\ status[p] = "success"
  <2>1. Announced' = Announced \ {p} /\ p \in Announced
    BY <1>3 DEF Announced, TypeOK
  <2>2. Ledger!Withdraw(p)
    BY <1>1, <2>1 DEF Ledger!Withdraw, Out, Announced
  <2>3. QED
    BY <2>1, <2>2 DEF LedgerStep, Ledger!Next, Announced
<1>4. CASE s = "success" <=> status[p] = "success"
  <2>1. Announced' = Announced
    BY <1>4 DEF Announced, TypeOK
  <2>2. QED
    BY <1>1, <2>1 DEF LedgerStep
<1>5. QED
  BY <1>2, <1>3, <1>4

\* A send call delivers a mail in the ledger, or does nothing.
LEMMA DeliverStep ==
  ASSUME TypeOK, NEW p \in Pages, NEW n \in Nat, Deliver(p, n),
         UNCHANGED <<status, rows>>
  PROVE  LedgerStep
<1>1. \A q \in Pages : delivered[q] \in Nat /\ delivered'[q] \in Nat
                      /\ delivered[q] <= delivered'[q]
  BY DEF Deliver, TypeOK
<1>2. \A q \in Pages : 1..delivered[q] \subseteq 1..delivered'[q]
  BY <1>1
<1>3. Out \subseteq Out'
  BY <1>2 DEF Out
<1>4. UNCHANGED <<rows, Announced>>
  BY DEF Announced
<1>5. QED
  BY <1>3, <1>4 DEF LedgerStep, Ledger!Next, Ledger!Deliver, Out, Announced

\* The insert into outbound_messages records a delivered mail.
LEMMA RecordStep ==
  ASSUME TypeOK, HitInv, NEW p \in Pages, Record(p)
  PROVE  LedgerStep
<1> DEFINE e == [page |-> p, mail |-> hit[p]]
<1>1. UNCHANGED <<Out, Announced>>
  BY DEF Record, notionVars, Out, Announced
<1>2. CASE rows' = rows
  BY <1>1, <1>2 DEF LedgerStep
<1>3. CASE rows' # rows
  <2>1. rows' = rows \cup {e} /\ \A r \in rows : r.mail # hit[p]
    BY <1>3 DEF Record
  <2>2. e \in rows' \ rows
    BY <1>3, <2>1
  <2>3. hit[p] \in Mails /\ hit[p][2] <= delivered[hit[p][1]]
    BY DEF Record, HitInv
  <2>4. hit[p] \in Out
    <3>1. PICK q \in Pages, n \in Nat \ {0} : hit[p] = <<q, n>>
      BY <2>3 DEF Mails
    <3>2. n \in 1..delivered[q]
      BY <2>3, <3>1 DEF TypeOK
    <3>3. QED
      BY <3>1, <3>2 DEF Out
  <2>5. Ledger!Enter(e)
    BY <1>1, <2>1, <2>4 DEF Ledger!Enter, Out, Announced
  <2>6. QED
    BY <2>2, <2>5 DEF LedgerStep, Ledger!Next
<1>4. QED
  BY <1>2, <1>3

\* The send pipeline implements SendLedger.
THEOREM Refinement == Spec => KeepsLedger
<1>1. Init => Ledger!Init
  <2> SUFFICES ASSUME Init PROVE Ledger!Init
    OBVIOUS
  <2>1. Out = {}
    BY DEF Init, Out
  <2>2. Announced = {} /\ rows = {}
    BY DEF Init, Announced
  <2>3. QED
    BY <2>1, <2>2 DEF Ledger!Init, Out, Announced
<1>2. IInv /\ [Next]_vars => [Ledger!Next]_(Ledger!vars)
  <2> SUFFICES ASSUME IInv, [Next]_vars PROVE LedgerStep
    BY DEF LedgerStep, Ledger!vars, Out, Announced
  <2> USE DEF IInv
  <2>1. ASSUME NEW p \in Pages, NEW a, NEW b, NEW s \in Status, WriteStatus(p, s, a, b),
               UNCHANGED <<rows, delivered>>, s = "success" => Recorded(p) # {}
        PROVE  LedgerStep
    <3>1. CASE status' = status
      BY <2>1, <3>1 DEF LedgerStep, Out, Announced
    <3>2. CASE status' = [status EXCEPT ![p] = s]
      BY <2>1, <3>2, StatusStep
    <3>3. QED
      BY <2>1, <3>1, <3>2 DEF WriteStatus
  <2>2. ASSUME NEW p \in Pages, SoftFail(p) \/ MarkSending(p) \/ Catch(p)
        PROVE  LedgerStep
    BY <2>1, <2>2 DEF SoftFail, MarkSending, Catch, Status, mailVars
  <2>3. ASSUME NEW p \in Pages, WriteSuccess(p) PROVE LedgerStep
    BY <2>1, <2>3 DEF WriteSuccess, Status, mailVars, SuccessInv
  <2>4. ASSUME NEW p \in Pages, Verify(p) PROVE LedgerStep
    <3>1. CASE status' = status
      BY <2>4, <3>1 DEF LedgerStep, Verify, mailVars, Out, Announced
    <3>2. CASE status' = [status EXCEPT ![p] = "success"]
      BY <2>4, <3>2, StatusStep DEF Verify, mailVars, SuccessInv, Status
    <3>3. QED
      BY <2>4, <3>1, <3>2 DEF Verify, WriteStatus
  <2>5. ASSUME NEW p \in Pages, Reopen(p) \/ WriteBounce(p) PROVE LedgerStep
    BY <2>5, StatusStep DEF Reopen, WriteBounce, mailVars, Status
  <2>6. ASSUME NEW p \in Pages, SendMail(p) \/ SendReply(p) PROVE LedgerStep
    <3>1. PICK n \in Nat : Deliver(p, n)
      BY <2>6, SendAssumption DEF SendMail, SendReply
    <3>2. UNCHANGED <<status, rows>>
      BY <2>6 DEF SendMail, SendReply, notionVars
    <3>3. QED
      BY <3>1, <3>2, DeliverStep
  <2>7. ASSUME NEW p \in Pages, Record(p) PROVE LedgerStep
    BY <2>7, RecordStep
  <2>8. CASE UNCHANGED <<status, rows, delivered>>
    BY <2>8 DEF LedgerStep, Out, Announced
  <2>9. ASSUME NEW p \in Pages,
               \/ PollFind(p) \/ PollAdd(p) \/ WindowCloses(p) \/ Evict(p)
               \/ Queue(p) \/ Build(p) \/ Lookup(p)
        PROVE  UNCHANGED <<status, rows, delivered>>
    BY <2>9 DEF PollFind, PollAdd, WindowCloses, Evict, Queue, TakeJob, CompleteJob,
        FailAttempt, StalledCheck, Build, Lookup, notionVars, mailVars
  <2>10. ASSUME PollAbort \/ WorkerCrash \/ UNCHANGED vars
         PROVE  UNCHANGED <<status, rows, delivered>>
    BY <2>10 DEF PollAbort, WorkerCrash, vars, notionVars, mailVars
  <2>11. QED
    BY <2>2, <2>3, <2>4, <2>5, <2>6, <2>7, <2>8, <2>9, <2>10 DEF Next, Handler, Poller
<1>3. QED
  BY Invariance, <1>1, <1>2, PTL DEF Spec, KeepsLedger, Ledger!Spec

-----------------------------------------------------------------------------
(* What JobsEnd and SendingSettles rest on: a job does not go round in circles, and a   *)
(* row that reads Sending has a run that will write over it.                           *)

\* How far the handler is from its end.
Height == [start |-> 11, built |-> 10, marked |-> 9, sent |-> 8, hit |-> 7,
           recorded |-> 6, verify |-> 5, verify2 |-> 4, verify3 |-> 3,
           catch |-> 2, throw |-> 1, return |-> 1, idle |-> 0]
Way(p) == Height[pc[p]]

\* A job in the queue and its handler, weighed by the attempts and the stalls it has left.
Chances(p) == (Attempts - job[p].tries) + (MaxStalledCount - job[p].stalls)
InWork(p) == job[p].state \in {"waiting", "active"}
Rank(p) ==
    IF InWork(p)
    THEN 13 * Chances(p) + IF job[p].state = "waiting" THEN 12 ELSE Way(p)
    ELSE 0

\* Nothing happens to the job of row p, or it has less before it than it had.
Advances(p) == UNCHANGED <<job[p], pc[p]>> \/ Rank(p)' < Rank(p)

\* A row reads Sending only under a run that will write its end, or after a crash.
SendingInv ==
    \A p \in Pages : status[p] = "sending" =>
        crashes > 0 \/ pc[p] \in {"marked", "sent", "hit", "recorded", "catch"}

\* The heights of the steps, and the ranks of the jobs.
LEMMA RankTyped ==
  ASSUME TypeOK, RunInv, CallsInv, NEW p \in Pages
  PROVE  /\ Height \in [Steps -> 0..11] /\ Way(p) \in 0..11
         /\ Chances(p) \in Int
         /\ InWork(p) => Chances(p) \in Nat \ {0}
         /\ Rank(p) \in Nat
<1> USE SendAssumption
<1>1. job[p] \in Job /\ pc[p] \in Steps
  BY DEF TypeOK
<1>2. Height \in [Steps -> 0..11]
  BY DEF Height, Steps
<1>3. Way(p) \in 0..11
  BY <1>1, <1>2 DEF Way
<1>4. Chances(p) \in Int
  BY <1>1 DEF Chances, MaxStalledCount, Job
<1>5. InWork(p) => Chances(p) \in Nat \ {0}
  BY <1>1 DEF RunInv, RunOK, CallsInv, CallsOK, InWork, Chances, MaxStalledCount, Job
<1>6. QED
  BY <1>2, <1>3, <1>4, <1>5 DEF Rank

\* A step of the handler brings it nearer to its end, and leaves its job to the queue.
LEMMA HandlerDescends ==
  ASSUME TypeOK, NEW p \in Pages, Handler(p)
  PROVE  /\ pc[p] # "idle" /\ pc'[p] # "idle" /\ job' = job
         /\ Way(p)' < Way(p)
         /\ \A q \in Pages \ {p} : pc'[q] = pc[q]
<1> USE DEF TypeOK, Goto, WriteStatus, Height, Way, Steps, notionVars
<1>1. CASE Build(p)
  BY <1>1 DEF Build
<1>2. CASE SoftFail(p)
  BY <1>2 DEF SoftFail
<1>3. CASE MarkSending(p)
  BY <1>3 DEF MarkSending
<1>4. CASE SendMail(p)
  BY <1>4 DEF SendMail
<1>5. CASE SendReply(p)
  BY <1>5 DEF SendReply
<1>6. CASE Lookup(p)
  BY <1>6 DEF Lookup
<1>7. CASE Record(p)
  BY <1>7 DEF Record
<1>8. CASE WriteSuccess(p)
  BY <1>8 DEF WriteSuccess
<1>9. CASE Verify(p)
  BY <1>9 DEF Verify
<1>10. CASE Catch(p)
  BY <1>10 DEF Catch
<1>11. QED
  BY <1>1, <1>2, <1>3, <1>4, <1>5, <1>6, <1>7, <1>8, <1>9, <1>10 DEF Handler

\* A step of the handler lowers the rank.
LEMMA HandlerAdvances ==
  ASSUME TypeOK, RunInv, CallsInv, NEW p \in Pages, Handler(p)
  PROVE  Advances(p)
<1>1. job' = job /\ job[p].state = "active" /\ Way(p)' < Way(p)
  BY HandlerDescends DEF RunInv, RunOK
<1>2. Rank(p) = 13 * Chances(p) + Way(p)
  BY <1>1 DEF Rank, InWork
<1>3. Rank(p)' = 13 * Chances(p) + Way(p)'
  BY <1>1 DEF Rank, Chances, InWork
<1>4. Chances(p) \in Int /\ Way(p) \in Int /\ Way(p)' \in Int
  <2>1. pc'[p] \in Steps
    BY HandlerDescends DEF Handler, Build, SoftFail, MarkSending, SendMail, SendReply, Lookup,
       Record, WriteSuccess, Verify, Catch, WriteStatus, Goto, TypeOK, Steps
  <2>2. Height[pc'[p]] \in 0..11
    BY <2>1, RankTyped
  <2>3. Way(p)' \in Int
    BY <2>2 DEF Way
  <2>4. QED
    BY <2>3, RankTyped
<1>5. QED
  BY <1>1, <1>2, <1>3, <1>4 DEF Advances

\* A step of the queue lowers the rank.
LEMMA QueueAdvances ==
  ASSUME TypeOK, RunInv, CallsInv, NEW p \in Pages, Queue(p)
  PROVE  Advances(p)
<1> USE SendAssumption DEF Goto, InWork
<1>1. job[p] \in Job /\ Chances(p) \in Int /\ Way(p) \in 0..11
  BY RankTyped DEF TypeOK
<1>2. CASE TakeJob(p)
  <2>1. /\ job[p].state = "waiting" /\ job'[p] = [job[p] EXCEPT !.state = "active"]
        /\ pc'[p] = "start"
    BY <1>2 DEF TakeJob, Start, TypeOK
  <2>2. Rank(p) = 13 * Chances(p) + 12
    BY <2>1 DEF Rank
  <2>3. Way(p)' = 11
    BY <2>1 DEF Way, Height
  <2>4. Rank(p)' = 13 * Chances(p) + 11
    BY <1>1, <2>1, <2>3 DEF Rank, Chances, Job
  <2>5. QED
    BY <1>1, <2>2, <2>4 DEF Advances
<1>3. CASE CompleteJob(p)
  <2>1. pc[p] = "return" /\ job'[p].state = "completed" /\ job[p].state = "active"
    BY <1>1, <1>3 DEF CompleteJob, Complete, TypeOK, RunInv, RunOK, Job
  <2>2. Rank(p)' = 0
    BY <2>1 DEF Rank
  <2>3. Rank(p) = 13 * Chances(p) + Way(p) /\ Chances(p) > 0
    BY <2>1, RankTyped DEF Rank
  <2>4. QED
    BY <1>1, <2>2, <2>3 DEF Advances
<1>4. CASE FailAttempt(p)
  <2>1. pc[p] = "throw" /\ job'[p] = AfterThrow(job[p], Attempts) /\ job[p].state = "active"
    BY <1>4 DEF FailAttempt, TypeOK, RunInv, RunOK
  <2>2. Rank(p) = 13 * Chances(p) + 1 /\ Chances(p) > 0
    BY <2>1, RankTyped DEF Rank, Way, Height
  <2>3. Rank(p)' \in {0, 13 * (Chances(p) - 1) + 12}
    BY <1>1, <2>1 DEF Rank, Chances, AfterThrow, Job, MaxStalledCount
  <2>4. QED
    BY <1>1, <2>2, <2>3 DEF Advances
<1>5. CASE StalledCheck(p)
  <2>1. pc[p] = "idle" /\ job'[p] = AfterStall(job[p]) /\ job[p].state = "active"
    BY <1>5 DEF StalledCheck, TypeOK
  <2>2. Rank(p) = 13 * Chances(p) /\ Chances(p) > 0
    BY <1>1, <2>1, RankTyped DEF Rank, Way, Height
  <2>3. Rank(p)' \in {0, 13 * (Chances(p) - 1) + 12}
    BY <1>1, <2>1 DEF Rank, Chances, AfterStall, Job, MaxStalledCount
  <2>4. QED
    BY <1>1, <2>2, <2>3 DEF Advances
<1>6. QED
  BY <1>2, <1>3, <1>4, <1>5 DEF Queue

\* Of the other steps, a crash ends the run, and the rest leave the job and its run alone.
LEMMA NextAdvances ==
  TypeOK /\ RunInv /\ CallsInv /\ [Next]_vars =>
    \A p \in Pages : InWork(p) => Advances(p)
<1> SUFFICES ASSUME TypeOK, RunInv, CallsInv, [Next]_vars, NEW p \in Pages, InWork(p)
             PROVE  Advances(p)
  OBVIOUS
<1> USE DEF TypeOK, Advances, notionVars, runVars, InWork
<1>1. ASSUME NEW q \in Pages, Queue(q) PROVE Advances(p)
  <2>1. CASE q = p
    BY <1>1, <2>1, QueueAdvances
  <2>2. CASE q # p
    <3>1. job'[p] = job[p]
      BY <1>1, <2>2 DEF Queue, TakeJob, CompleteJob, FailAttempt, StalledCheck
    <3>2. pc'[p] = pc[p]
      BY <1>1, <2>2 DEF Queue, TakeJob, CompleteJob, FailAttempt, StalledCheck, Goto
    <3>3. QED
      BY <3>1, <3>2
  <2>3. QED
    BY <2>1, <2>2
<1>2. ASSUME NEW q \in Pages, Handler(q) PROVE Advances(p)
  <2>1. CASE q = p
    BY <1>2, <2>1, HandlerAdvances
  <2>2. CASE q # p
    BY <1>2, <2>2, HandlerDescends
  <2>3. QED
    BY <2>1, <2>2
<1>3. ASSUME NEW q \in Pages, Poller(q) PROVE Advances(p)
  <2>1. job[p] \in Job /\ Add(job[p]) = job[p]
    <3>1. job[p] \in Job
      OBVIOUS
    <3>2. job[p].state # "none"
      OBVIOUS
    <3>3. QED
      BY <3>1, <3>2, JobTyped
  <2>2. CASE PollFind(q)
    BY <2>2 DEF PollFind
  <2>3. CASE PollAdd(q)
    <3>1. job' = [job EXCEPT ![q] = Add(job[q])] /\ pc' = pc
      BY <2>3 DEF PollAdd
    <3>2. job'[p] = job[p]
      BY <2>1, <3>1
    <3>3. QED
      BY <3>1, <3>2
  <2>4. QED
    BY <1>3, <2>2, <2>3 DEF Poller
<1>4. ASSUME NEW q \in Pages, WindowCloses(q) PROVE Advances(p)
  BY <1>4 DEF WindowCloses
<1>5. ASSUME NEW q \in Pages, Reopen(q) \/ WriteBounce(q) PROVE Advances(p)
  BY <1>5 DEF Reopen, WriteBounce
<1>6. ASSUME NEW q \in Pages, Evict(q) PROVE Advances(p)
  BY <1>6 DEF Evict, IsFinished
<1>7. CASE PollAbort
  BY <1>7 DEF PollAbort
<1>8. CASE WorkerCrash
  <2>1. CASE pc[p] = "idle"
    BY <1>8, <2>1 DEF WorkerCrash
  <2>2. CASE pc[p] # "idle"
    <3>1. job' = job /\ job[p].state = "active" /\ pc'[p] = "idle"
      BY <1>8, <2>2 DEF WorkerCrash, RunInv, RunOK
    <3>2. Rank(p) = 13 * Chances(p) + Way(p) /\ Rank(p)' = 13 * Chances(p) + Way(p)'
      BY <3>1 DEF Rank, Chances
    <3>3. Way(p)' = 0 /\ Way(p) > 0
      BY <2>2, <3>1 DEF Way, Height, Steps
    <3>4. Chances(p) \in Int /\ Way(p) \in Int
      BY RankTyped
    <3>5. QED
      BY <3>2, <3>3, <3>4
  <2>3. QED
    BY <2>1, <2>2
<1>9. CASE UNCHANGED vars
  BY <1>9 DEF vars
<1>10. QED
  BY <1>1, <1>2, <1>3, <1>4, <1>5, <1>6, <1>7, <1>8, <1>9 DEF Next

\* A job of the send queue never comes back to where it was: each step of its handler and
\* of the queue, crashes and stalls included, lowers a natural number until the job is
\* finished.  With the fairness of the queue and of Node, which TLC adds, every job ends.
THEOREM JobsAdvance ==
  Spec => /\ [](\A p \in Pages : Rank(p) \in Nat)
          /\ [][\A p \in Pages : InWork(p) => Advances(p)]_vars
<1>1. IInv => \A p \in Pages : Rank(p) \in Nat
  BY RankTyped DEF IInv
<1>2. IInv /\ [Next]_vars => [\A p \in Pages : InWork(p) => Advances(p)]_vars
  BY NextAdvances DEF IInv
<1>3. QED
  BY <1>1, <1>2, Invariance, PTL DEF Spec

\* No row reads Sending without a run that is going to write over it, as long as Notion
\* takes the write of Failure and the worker does not die: whatever else fails after
\* markSending, the run goes through the catch block.  SendingSettles says the same of the
\* time to come.
THEOREM SendingIsAtWork ==
  ASSUME "failure" \notin Faults
  PROVE  Spec => []SendingInv
<1>1. Init => SendingInv
  BY DEF Init, SendingInv
<1>2. TypeOK /\ RunInv /\ SendingInv /\ [Next]_vars => SendingInv'
  <2> SUFFICES ASSUME TypeOK, RunInv, SendingInv, [Next]_vars PROVE SendingInv'
    OBVIOUS
  <2> USE SendAssumption
          DEF TypeOK, SendingInv, Goto, WriteStatus, notionVars, runVars, boundVars
  <2>1. ASSUME NEW p \in Pages, Queue(p) PROVE SendingInv'
    <3>1. status' = status /\ crashes' = crashes
      BY <2>1 DEF Queue, TakeJob, CompleteJob, FailAttempt, StalledCheck
    <3>2. \A q \in Pages : pc[q] \in {"marked", "sent", "hit", "recorded", "catch"} =>
             pc'[q] = pc[q]
      BY <2>1
         DEF Queue, TakeJob, CompleteJob, FailAttempt, StalledCheck, RunInv, RunOK
    <3>3. QED
      BY <3>1, <3>2
  <2>2. ASSUME NEW p \in Pages, Build(p) \/ SoftFail(p) \/ MarkSending(p)
        PROVE  SendingInv'
    BY <2>2 DEF Build, SoftFail, MarkSending
  <2>3. ASSUME NEW p \in Pages, SendMail(p) \/ SendReply(p) \/ Lookup(p) \/ Record(p)
        PROVE  SendingInv'
    BY <2>3 DEF SendMail, SendReply, Lookup, Record
  <2>4. ASSUME NEW p \in Pages, WriteSuccess(p) \/ Verify(p) \/ Catch(p)
        PROVE  SendingInv'
    BY <2>4 DEF WriteSuccess, Verify, Catch
  <2>5. ASSUME NEW p \in Pages, Poller(p) \/ WindowCloses(p) \/ Evict(p) \/ Reopen(p)
                                 \/ WriteBounce(p)
        PROVE  SendingInv'
    BY <2>5 DEF Poller, PollFind, PollAdd, WindowCloses, Evict, Reopen, WriteBounce
  <2>6. CASE PollAbort
    BY <2>6 DEF PollAbort
  <2>7. CASE WorkerCrash
    BY <2>7 DEF WorkerCrash
  <2>8. CASE UNCHANGED vars
    BY <2>8 DEF vars
  <2>9. QED
    BY <2>1, <2>2, <2>3, <2>4, <2>5, <2>6, <2>7, <2>8 DEF Next, Handler
<1>3. QED
  BY <1>1, <1>2, Invariance, PTL DEF Spec, IInv

=============================================================================

------------------------ MODULE MatchPipeline_proofs ------------------------
(***************************************************************************)
(* Theorems about MatchPipeline, for any mails, any matching and any bounds. *)
(***************************************************************************)
EXTENDS MatchPipeline, Integers, TLAPS

\* The steps of a run that has a verdict, and those after markInboxMatched.
Decided == {"status", "mark", "lookup", "update", "insert", "write", "stamp"}
Marked == {"lookup", "update", "insert", "write", "stamp"}

\* A run with a verdict, and one that mends the thread status of a final row, has found
\* a recorded outbound mail.
VerdictInv ==
    \A r \in Runs :
        /\ pc[r] \in Decided => verdict[r].kind \in {"human", "auto", "bounce"}
        /\ pc[r] \in Decided \cup {"flip"} =>
            verdict[r].out \in Outbounds /\ thread[verdict[r].out] # "absent"

\* A row that is linked stays linked, and a run relies on the link it made.
LinkInv ==
    /\ \A m \in Msgs : inbox[m] \in Final => link[m] # None
    /\ \A r \in Runs : pc[r] \in Marked => link[r[1]] # None

\* The thread status of o tells of a reply or a bounce, or a backfill has set it back.
Told(o) == thread[o] \in {"reply_received", "bounce"} \/ o \in reset

\* A reply or a bounce is marked after its thread status is set.
ReflectInv ==
    /\ FinalIsReflected
    /\ \A r \in Runs : pc[r] = "mark" /\ verdict[r].kind # "auto" => Told(verdict[r].out)

\* The latest reply of a conversation that has a row is a mail.
MapInv ==
    /\ MapNamesMatched
    /\ \A c \in Convs : map[c] # NoRow => map[c].latest \in Msgs

IInv == TypeOK /\ VerdictInv /\ LinkInv /\ ReflectInv /\ MapInv

-----------------------------------------------------------------------------
\* The transitions of a job in the queue stay among its states.
LEMMA JobTyped ==
  ASSUME NEW j \in Job
  PROVE  /\ NoJob \in Job /\ Add(j) \in Job /\ Start(j) \in Job /\ Complete(j) \in Job
         /\ AfterThrow(j, Attempts) \in Job /\ AfterStall(j) \in Job
<1>1. NoJob \in Job /\ Add(j) \in Job
  BY DEF NoJob, Add, Job, JobStates
<1>2. Start(j) \in Job /\ Complete(j) \in Job
  BY DEF Start, Complete, Job, JobStates
<1>3. AfterThrow(j, Attempts) \in Job /\ AfterStall(j) \in Job
  BY DEF AfterThrow, AfterStall, Job, JobStates
<1>4. QED
  BY <1>1, <1>2, <1>3

\* A run is a mail and a slot.
LEMMA RunTyped ==
  ASSUME NEW r \in Runs
  PROVE  r[1] \in Msgs /\ r[2] \in Slots /\ r = <<r[1], r[2]>> /\ Conv[r[1]] \in Convs
BY DEF Runs, Convs

\* An update of the thread status of outbound mail x by the worker, if it is made.
Updates(x) ==
    \/ UNCHANGED threadVars
    \/ /\ \E s \in {"reply_received", "bounce"} : thread' = [thread EXCEPT ![x] = s]
       /\ reset' = reset \ {x}

\* markOutboundBounce and markOutboundReplyReceived write a status that tells of the mail,
\* and touch no other row.
LEMMA UpdateTells ==
  ASSUME TypeOK, NEW x \in Outbounds, Updates(x)
  PROVE  /\ thread' \in [Outbounds -> ThreadStatus]
         /\ reset' \subseteq Outbounds
         /\ UNCHANGED threadVars \/ thread'[x] \in {"reply_received", "bounce"}
         /\ \A o \in Outbounds : thread[o] # "absent" => thread'[o] # "absent"
         /\ \A o \in Outbounds : Told(o) => Told(o)'
<1>1. CASE UNCHANGED threadVars
  BY <1>1 DEF TypeOK, threadVars, Told
<1>2. ASSUME NEW s \in {"reply_received", "bounce"},
             thread' = [thread EXCEPT ![x] = s], reset' = reset \ {x}
      PROVE  /\ thread' \in [Outbounds -> ThreadStatus] /\ reset' \subseteq Outbounds
             /\ \A o \in Outbounds : thread'[o] = IF o = x THEN s ELSE thread[o]
  BY <1>2 DEF TypeOK, ThreadStatus
<1>3. QED
  BY <1>1, <1>2 DEF Updates, Told

\* So does sync-thread-status-from-inbox.
LEMMA ScriptTells ==
  ASSUME TypeOK, SyncThreadScript
  PROVE  /\ thread' \in [Outbounds -> ThreadStatus]
         /\ reset' \subseteq Outbounds
         /\ \A o \in Outbounds : /\ thread[o] # "absent" => thread'[o] # "absent"
                                /\ Told(o) => Told(o)'
<1>1. PICK late \in SUBSET Outbounds :
        /\ reset' = reset \ late
        /\ \E told \in [late -> {"reply_received", "bounce"}] :
             thread' = [o \in Outbounds |-> IF o \in late THEN told[o] ELSE thread[o]]
  <2> DEFINE owed(o) == {m \in Msgs : link[m] = o /\ inbox[m] \in {"matched", "bounce"}}
             status(m) == IF inbox[m] = "bounce" THEN "bounce" ELSE "reply_received"
             late == {o \in Outbounds : thread[o] = "sent" /\ owed(o) # {}}
  <2>1. PICK pick \in [late -> Msgs] :
          thread' = [o \in Outbounds |-> IF o \in late THEN status(pick[o]) ELSE thread[o]]
    BY DEF SyncThreadScript
  <2>2. [o \in late |-> status(pick[o])] \in [late -> {"reply_received", "bounce"}]
    OBVIOUS
  <2>3. thread' = [o \in Outbounds |-> IF o \in late THEN [x \in late |-> status(pick[x])][o]
                                                    ELSE thread[o]]
    BY <2>1
  <2>4. reset' = reset \ late /\ late \in SUBSET Outbounds
    BY DEF SyncThreadScript
  <2> HIDE DEF late
  <2>5. QED
    BY <2>2, <2>3, <2>4
<1>2. PICK told \in [late -> {"reply_received", "bounce"}] :
        thread' = [o \in Outbounds |-> IF o \in late THEN told[o] ELSE thread[o]]
  BY <1>1
<1>3. thread' \in [Outbounds -> ThreadStatus] /\ reset' \subseteq Outbounds
  BY <1>1, <1>2 DEF TypeOK, ThreadStatus
<1>4. \A o \in Outbounds : Told(o) => Told(o)'
  BY <1>1, <1>2 DEF Told
<1>5. QED
  BY <1>2, <1>3, <1>4

\* IInv holds at the start.
LEMMA InitIInv == Init => IInv
<1> SUFFICES ASSUME Init PROVE IInv
  OBVIOUS
<1> USE MatchAssumption DEF Init
<1>1. TypeOK
  BY DEF TypeOK, InboxStatus, Final, Steps, ThreadStatus, NoRow, NoVerdict, None,
     NoJob, Job, JobStates
<1>2. VerdictInv /\ LinkInv
  BY DEF VerdictInv, LinkInv, Decided, Marked, Final
<1>3. ReflectInv
  BY DEF ReflectInv, FinalIsReflected
<1>4. MapInv
  BY DEF MapInv, MapNamesMatched
<1>5. QED
  BY <1>1, <1>2, <1>3, <1>4 DEF IInv

\* Every step keeps the types; writing a link needs VerdictInv and LinkInv.
LEMMA NextTyped == TypeOK /\ VerdictInv /\ LinkInv /\ [Next]_vars => TypeOK'
<1> SUFFICES ASSUME TypeOK /\ VerdictInv /\ LinkInv, [Next]_vars PROVE TypeOK'
  OBVIOUS
<1> USE MatchAssumption DEF TypeOK, VerdictInv, LinkInv, Decided, Marked, InboxStatus,
            Final, ThreadStatus, Steps, None, inboxVars, queueVars, runVars, notionVars,
            scriptVars, threadVars
<1>1. ASSUME NEW o \in Outbounds, RecordOutbound(o) \/ BackfillResets(o)
      PROVE  TypeOK'
  <2>1. thread' = [thread EXCEPT ![o] = "sent"] /\ reset' \in {reset, reset \cup {o}}
    BY <1>1 DEF RecordOutbound, BackfillResets
  <2>2. thread' \in [Outbounds -> ThreadStatus] /\ reset' \subseteq Outbounds
    BY <2>1
  <2>3. UNCHANGED <<inboxVars, queueVars, runVars, map, notionVars, scriptVars, crashes>>
    BY <1>1 DEF RecordOutbound, BackfillResets
  <2>4. QED
    BY <2>2, <2>3
<1>2. ASSUME NEW m \in Msgs, Insert(m) PROVE TypeOK'
  BY <1>2 DEF Insert
<1>3. ASSUME NEW m \in Msgs, Enqueue(m) PROVE TypeOK'
  <2>1. <<m, "ingest">> \in Runs
    BY DEF Runs
  <2>2. \E q \in Runs : job' \in {job, [job EXCEPT ![q] = Add(job[q])]}
    BY <1>3, <2>1 DEF Enqueue
  <2>3. \A q \in Runs : Add(job[q]) \in Job
    BY JobTyped
  <2>4. job' \in [Runs -> Job]
    BY <2>2, <2>3
  <2>5. QED
    BY <1>3, <2>4 DEF Enqueue
<1>4. ASSUME NEW m \in Msgs, ReconcileScan(m) PROVE TypeOK'
  BY <1>4 DEF ReconcileScan, Recorded
<1>5. ASSUME NEW m \in Msgs, ReconcileLink(m) PROVE TypeOK'
  BY <1>5 DEF ReconcileLink
<1>6. ASSUME NEW m \in Msgs, Requeue(m) PROVE TypeOK'
  BY <1>6, JobTyped DEF Requeue, Runs
<1>7. ASSUME NEW r \in Runs, TakeJob(r) PROVE TypeOK'
  BY <1>7, JobTyped DEF TakeJob, Goto
<1>8. ASSUME NEW r \in Runs, CompleteJob(r) PROVE TypeOK'
  BY <1>8, JobTyped DEF CompleteJob, Goto, NoVerdict
<1>9. ASSUME NEW r \in Runs, FailAttempt(r) PROVE TypeOK'
  BY <1>9, JobTyped DEF FailAttempt, Goto, NoVerdict
<1>10. ASSUME NEW r \in Runs, StalledCheck(r) PROVE TypeOK'
  BY <1>10, JobTyped DEF StalledCheck
<1>11. ASSUME NEW r \in Runs, ReadRow(r) PROVE TypeOK'
  <2>1. r[1] \in Msgs /\ link[r[1]] \in Outbounds \cup {None}
    BY RunTyped
  <2>2. \A status \in Final : KindOf[status] \in {"human", "auto", "bounce"}
    BY DEF KindOf
  <2>3. \/ verdict' = verdict
        \/ \E k \in {"human", "auto", "bounce"} :
             verdict' = [verdict EXCEPT ![r] = [kind |-> k, out |-> link[r[1]]]]
    BY <1>11, <2>2 DEF ReadRow
  <2>4. verdict' \in [Runs -> [kind: {"none", "human", "auto", "bounce"},
                              out: Outbounds \cup {None}]]
    <3>1. ASSUME NEW v \in [kind: {"none", "human", "auto", "bounce"},
                            out: Outbounds \cup {None}],
                 verdict' = [verdict EXCEPT ![r] = v]
          PROVE  verdict' \in [Runs -> [kind: {"none", "human", "auto", "bounce"},
                                       out: Outbounds \cup {None}]]
      BY <3>1
    <3>2. QED
      BY <2>1, <2>3, <3>1
  <2>5. pc' \in [Runs -> Steps]
    BY <1>11 DEF ReadRow, Goto
  <2>6. UNCHANGED <<inboxVars, queueVars, threadVars, map, notionVars, scriptVars, crashes>>
    BY <1>11 DEF ReadRow
  <2>7. QED
    BY <2>4, <2>5, <2>6
<1>12. ASSUME NEW r \in Runs, SyncThread(r) PROVE TypeOK'
  BY <1>12, RunTyped DEF SyncThread, Goto
<1>13. ASSUME NEW r \in Runs, FlipThread(r) PROVE TypeOK'
  <2>1. pc' \in [Runs -> Steps]
    BY <1>13 DEF FlipThread, Goto, Try
  <2>2. PICK x \in Outbounds : x = verdict[r].out
    BY <1>13 DEF FlipThread
  <2>3. Updates(x)
    BY <1>13, <2>2 DEF FlipThread, Try, SetStatus, Updates
  <2>4. thread' \in [Outbounds -> ThreadStatus] /\ reset' \subseteq Outbounds
    BY <2>3, UpdateTells
  <2>5. UNCHANGED <<inboxVars, queueVars, verdict, map, notionVars, scriptVars, crashes>>
    BY <1>13 DEF FlipThread
  <2>6. QED
    BY <2>1, <2>4, <2>5
<1>14. ASSUME NEW r \in Runs, Classify(r) \/ Guess(r) PROVE TypeOK'
  <2>1. verdict' \in [Runs -> [kind: {"none", "human", "auto", "bounce"},
                              out: Outbounds \cup {None}]]
    <3>1. Kind[r[1]] \in {"human", "auto", "bounce"}
      BY RunTyped
    <3>2. verdict' = verdict \/ \E o \in Outbounds, k \in {"human", "auto", "bounce"} :
             verdict' = [verdict EXCEPT ![r] = [kind |-> k, out |-> o]]
      BY <1>14, <3>1 DEF Classify, Guess, LookUp
    <3>3. CASE verdict' = verdict
      BY <3>3
    <3>4. ASSUME NEW v \in [kind: {"none", "human", "auto", "bounce"}, out: Outbounds \cup {None}],
                 verdict' = [verdict EXCEPT ![r] = v]
          PROVE  verdict' \in [Runs -> [kind: {"none", "human", "auto", "bounce"},
                                       out: Outbounds \cup {None}]]
      BY <3>4
    <3>5. QED
      BY <3>2, <3>3, <3>4
  <2>2. \E s \in Steps : pc' = [pc EXCEPT ![r] = s]
    BY <1>14 DEF Classify, Guess, LookUp, Goto
  <2>3. UNCHANGED <<inboxVars, queueVars, threadVars, map, notionVars, scriptVars, crashes>>
    BY <1>14 DEF Classify, Guess, LookUp
  <2>4. pc' \in [Runs -> Steps]
    BY <2>2
  <2>5. QED
    BY <2>1, <2>3, <2>4
<1>15. ASSUME NEW r \in Runs, Ignore(r) PROVE TypeOK'
  <2>1. r[1] \in Msgs
    BY RunTyped
  <2>2. inbox' \in [Msgs -> InboxStatus] /\ pc' \in [Runs -> Steps]
    BY <1>15, <2>1 DEF Ignore, Goto, Try
  <2>3. QED
    BY <1>15, <2>2 DEF Ignore
<1>16. ASSUME NEW r \in Runs, SetThread(r) PROVE TypeOK'
  <2>1. pc' \in [Runs -> Steps]
    BY <1>16 DEF SetThread, Goto, Try
  <2>2. PICK x \in Outbounds : x = verdict[r].out
    BY <1>16 DEF SetThread
  <2>3. Updates(x)
    BY <1>16, <2>2 DEF SetThread, Try, SetStatus, Updates
  <2>4. thread' \in [Outbounds -> ThreadStatus] /\ reset' \subseteq Outbounds
    BY <2>3, UpdateTells
  <2>5. UNCHANGED <<inboxVars, queueVars, verdict, map, notionVars, scriptVars, crashes>>
    BY <1>16 DEF SetThread
  <2>6. QED
    BY <2>1, <2>4, <2>5
<1>17. ASSUME NEW r \in Runs, MarkMatched(r) PROVE TypeOK'
  <2>1. r[1] \in Msgs
    BY RunTyped
  <2>2. verdict[r].out \in Outbounds /\ StatusOf[verdict[r].kind] \in InboxStatus
    BY <1>17 DEF MarkMatched, StatusOf
  <2>3. inbox' \in [Msgs -> InboxStatus] /\ link' \in [Msgs -> Outbounds \cup {None}]
    <3>1. /\ inbox' \in {inbox, [inbox EXCEPT ![r[1]] = StatusOf[verdict[r].kind]]}
          /\ link' \in {link, [link EXCEPT ![r[1]] = verdict[r].out]}
      BY <1>17 DEF MarkMatched, Try
    <3>2. inbox' \in [Msgs -> InboxStatus]
      BY <2>1, <2>2, <3>1
    <3>3. link' \in [Msgs -> Outbounds \cup {None}]
      BY <2>1, <2>2, <3>1
    <3>4. QED
      BY <3>2, <3>3
  <2>4. pc' \in [Runs -> Steps]
    BY <1>17 DEF MarkMatched, Goto, Try
  <2>5. QED
    BY <1>17, <2>3, <2>4 DEF MarkMatched
<1>18. ASSUME NEW r \in Runs, LookupConversation(r) PROVE TypeOK'
  BY <1>18, RunTyped DEF LookupConversation, Goto
<1>19. ASSUME NEW r \in Runs, UpdateConversation(r) PROVE TypeOK'
  <2>1. r[1] \in Msgs /\ Conv[r[1]] \in Convs /\ verdict[r].out \in Outbounds
    BY <1>19, RunTyped DEF UpdateConversation
  <2>2. map[Conv[r[1]]].page \in Outbounds \cup {None}
    BY <2>1
  <2>3. map' \in [Convs -> [page: Outbounds \cup {None}, latest: Msgs \cup {None}]]
    BY <1>19, <2>1, <2>2 DEF UpdateConversation, Try
  <2>4. \E s \in Steps : pc' = [pc EXCEPT ![r] = s]
    <3>1. AfterUpsert(verdict[r]) \in {"write", "return"}
      BY DEF AfterUpsert
    <3>2. QED
      BY <1>19, <3>1 DEF UpdateConversation, Goto, Try
  <2>5. pc' \in [Runs -> Steps]
    BY <2>4
  <2>6. QED
    BY <1>19, <2>3, <2>5 DEF UpdateConversation
<1>20. ASSUME NEW r \in Runs, InsertConversation(r) PROVE TypeOK'
  <2>1. r[1] \in Msgs /\ Conv[r[1]] \in Convs /\ verdict[r].out \in Outbounds
    BY <1>20, RunTyped DEF InsertConversation
  <2>2. map[Conv[r[1]]].page \in Outbounds \cup {None}
    BY <2>1
  <2>3. map' \in [Convs -> [page: Outbounds \cup {None}, latest: Msgs \cup {None}]]
    BY <1>20, <2>1, <2>2 DEF InsertConversation, Try
  <2>4. \E s \in Steps : pc' = [pc EXCEPT ![r] = s]
    <3>1. AfterUpsert(verdict[r]) \in {"write", "return"}
      BY DEF AfterUpsert
    <3>2. QED
      BY <1>20, <3>1 DEF InsertConversation, Goto, Try
  <2>5. pc' \in [Runs -> Steps]
    BY <2>4
  <2>6. QED
    BY <1>20, <2>3, <2>5 DEF InsertConversation
<1>21. ASSUME NEW r \in Runs, CreateChild(r) PROVE TypeOK'
  <2>1. r[1] \in Msgs /\ children[r[1]] \in Nat
    BY RunTyped
  <2>2. \A n \in 0..MaxPosts : n \in Nat /\ children[r[1]] + n \in Nat
    BY <2>1
  <2>3. PICK n \in 0..MaxPosts : children' = [children EXCEPT ![r[1]] = children[r[1]] + n]
    <3>1. CASE "notion" \in Faults
      BY <1>21, <3>1 DEF CreateChild
    <3>2. CASE "notion" \notin Faults
      BY <1>21, <3>2 DEF CreateChild
    <3>3. QED
      BY <3>1, <3>2
  <2>4. children' \in [Msgs -> Nat]
    BY <2>1, <2>2, <2>3
  <2>5. pc' \in [Runs -> Steps]
    BY <1>21 DEF CreateChild, Goto
  <2>6. QED
    BY <1>21, <2>4, <2>5 DEF CreateChild
<1>22. ASSUME NEW r \in Runs, WriteBounce(r) PROVE TypeOK'
  <2>1. r[1] \in Msgs
    BY RunTyped
  <2>2. bounced' \subseteq Msgs /\ pc' \in [Runs -> Steps]
    BY <1>22, <2>1 DEF WriteBounce, Goto, Try
  <2>3. QED
    BY <1>22, <2>2 DEF WriteBounce
<1>23. ASSUME NEW r \in Runs, Stamp(r) PROVE TypeOK'
  BY <1>23, RunTyped DEF Stamp, Goto
<1>24. CASE WorkerCrash
  BY <1>24 DEF WorkerCrash, NoVerdict
<1>25. CASE SyncThreadScript
  BY <1>25, ScriptTells DEF SyncThreadScript
<1>26. CASE UNCHANGED vars
  BY <1>26 DEF vars
<1>27. QED
  BY <1>1, <1>2, <1>3, <1>4, <1>5, <1>6, <1>7, <1>8, <1>9, <1>10, <1>11, <1>12, <1>13,
     <1>14, <1>15, <1>16, <1>17, <1>18, <1>19, <1>20, <1>21, <1>22, <1>23, <1>24, <1>25,
     <1>26
     DEF Next, Handler, Queue, Scripts

\* The two updates of a thread status by the worker forget no outbound mail.
LEMMA UpdateKeepsVerdicts ==
  ASSUME TypeOK, VerdictInv, NEW r \in Runs, FlipThread(r) \/ SetThread(r)
  PROVE  VerdictInv'
<1>1. /\ pc[r] \in {"flip", "status"}
      /\ \E s \in {"return", "throw", "mark"} :
            (s = "mark" => pc[r] = "status") /\ pc' = [pc EXCEPT ![r] = s]
  <2>1. CASE FlipThread(r)
    BY <2>1 DEF FlipThread, Goto, Try
  <2>2. CASE SetThread(r)
    BY <2>2 DEF SetThread, Goto, Try
  <2>3. QED
    BY <2>1, <2>2
<1>2. verdict' = verdict
  BY DEF FlipThread, SetThread
<1>3. verdict[r].out \in Outbounds
  BY <1>1 DEF VerdictInv, Decided
<1>4. PICK x \in Outbounds : x = verdict[r].out
  BY <1>3
<1>5. Updates(x)
  BY <1>4 DEF FlipThread, SetThread, Try, SetStatus, Updates
<1>6. \A o \in Outbounds : thread[o] # "absent" => thread'[o] # "absent"
  BY <1>5, UpdateTells
<1>7. /\ \A q \in Runs : pc'[q] \in Decided => pc[q] \in Decided
      /\ \A q \in Runs : pc'[q] \in Decided \cup {"flip"} => pc[q] \in Decided \cup {"flip"}
  <2>1. PICK s \in {"return", "throw", "mark"} :
            (s = "mark" => pc[r] = "status") /\ pc' = [pc EXCEPT ![r] = s]
    BY <1>1
  <2>2. \A q \in Runs : pc'[q] = IF q = r THEN s ELSE pc[q]
    BY <2>1 DEF TypeOK
  <2>3. pc'[r] = s /\ \A q \in Runs \ {r} : pc'[q] = pc[q]
    BY <2>2
  <2>4. pc'[r] \in Decided \cup {"flip"} => pc[r] \in Decided
    BY <2>1, <2>3 DEF Decided
  <2>5. QED
    BY <2>3, <2>4
<1>8. \A q \in Runs : pc'[q] \in Decided => verdict'[q].kind \in {"human", "auto", "bounce"}
  BY <1>2, <1>7 DEF VerdictInv
<1>9. \A q \in Runs : pc'[q] \in Decided \cup {"flip"} =>
          verdict'[q].out \in Outbounds /\ thread'[verdict'[q].out] # "absent"
  BY <1>2, <1>6, <1>7 DEF VerdictInv
<1>10. QED
  BY <1>8, <1>9 DEF VerdictInv

\* A verdict is written together with the step that uses it, and no step forgets a thread.
LEMMA NextVerdict == TypeOK /\ VerdictInv /\ [Next]_vars => VerdictInv'
<1> SUFFICES ASSUME TypeOK /\ VerdictInv, [Next]_vars PROVE VerdictInv'
  OBVIOUS
<1> USE MatchAssumption DEF TypeOK, VerdictInv, Decided, ThreadStatus, inboxVars,
            queueVars, runVars, notionVars, scriptVars, threadVars
<1>1. ASSUME NEW o \in Outbounds, RecordOutbound(o) \/ BackfillResets(o)
      PROVE  VerdictInv'
  <2>1. thread' = [thread EXCEPT ![o] = "sent"]
    BY <1>1 DEF RecordOutbound, BackfillResets
  <2>2. \A x \in Outbounds : thread[x] # "absent" => thread'[x] # "absent"
    BY <2>1
  <2>3. UNCHANGED <<pc, verdict>>
    BY <1>1 DEF RecordOutbound, BackfillResets
  <2>4. QED
    BY <2>2, <2>3
<1>2. ASSUME NEW m \in Msgs, Insert(m) PROVE VerdictInv'
  BY <1>2 DEF Insert
<1>3. ASSUME NEW m \in Msgs, Enqueue(m) PROVE VerdictInv'
  BY <1>3 DEF Enqueue, Runs
<1>4. ASSUME NEW m \in Msgs, ReconcileScan(m) PROVE VerdictInv'
  BY <1>4 DEF ReconcileScan, Recorded
<1>5. ASSUME NEW m \in Msgs, ReconcileLink(m) PROVE VerdictInv'
  BY <1>5 DEF ReconcileLink
<1>6. ASSUME NEW m \in Msgs, Requeue(m) PROVE VerdictInv'
  BY <1>6 DEF Requeue, Runs
<1>7. ASSUME NEW r \in Runs, TakeJob(r) PROVE VerdictInv'
  BY <1>7 DEF TakeJob, Goto
<1>8. ASSUME NEW r \in Runs, CompleteJob(r) PROVE VerdictInv'
  BY <1>8 DEF CompleteJob, Goto, NoVerdict
<1>9. ASSUME NEW r \in Runs, FailAttempt(r) PROVE VerdictInv'
  BY <1>9 DEF FailAttempt, Goto, NoVerdict
<1>10. ASSUME NEW r \in Runs, StalledCheck(r) PROVE VerdictInv'
  BY <1>10 DEF StalledCheck
<1>11. ASSUME NEW r \in Runs, ReadRow(r) PROVE VerdictInv'
  BY <1>11, RunTyped DEF ReadRow, Goto, KindOf
<1>12. ASSUME NEW r \in Runs, SyncThread(r) PROVE VerdictInv'
  BY <1>12, RunTyped DEF SyncThread, Goto
<1>13. ASSUME NEW r \in Runs, FlipThread(r) PROVE VerdictInv'
  BY <1>13, UpdateKeepsVerdicts
<1>14. ASSUME NEW r \in Runs, Classify(r) \/ Guess(r) PROVE VerdictInv'
  BY <1>14, RunTyped DEF Classify, Guess, LookUp, Goto, Recorded, IsNewest
<1>15. ASSUME NEW r \in Runs, Ignore(r) PROVE VerdictInv'
  BY <1>15, RunTyped DEF Ignore, Goto, Try
<1>16. ASSUME NEW r \in Runs, SetThread(r) PROVE VerdictInv'
  BY <1>16, UpdateKeepsVerdicts
<1>17. ASSUME NEW r \in Runs, MarkMatched(r) PROVE VerdictInv'
  BY <1>17, RunTyped DEF MarkMatched, Goto, Try, StatusOf
<1>18. ASSUME NEW r \in Runs, LookupConversation(r) PROVE VerdictInv'
  BY <1>18, RunTyped DEF LookupConversation, Goto
<1>19. ASSUME NEW r \in Runs, UpdateConversation(r) PROVE VerdictInv'
  BY <1>19, RunTyped DEF UpdateConversation, Goto, Try, AfterUpsert
<1>20. ASSUME NEW r \in Runs, InsertConversation(r) PROVE VerdictInv'
  BY <1>20, RunTyped DEF InsertConversation, Goto, Try, AfterUpsert
<1>21. ASSUME NEW r \in Runs, CreateChild(r) PROVE VerdictInv'
  BY <1>21, RunTyped DEF CreateChild, Goto
<1>22. ASSUME NEW r \in Runs, WriteBounce(r) PROVE VerdictInv'
  BY <1>22, RunTyped DEF WriteBounce, Goto, Try
<1>23. ASSUME NEW r \in Runs, Stamp(r) PROVE VerdictInv'
  BY <1>23, RunTyped DEF Stamp, Goto
<1>24. CASE WorkerCrash
  BY <1>24 DEF WorkerCrash, NoVerdict
<1>25. CASE SyncThreadScript
  BY <1>25 DEF SyncThreadScript
<1>26. CASE UNCHANGED vars
  BY <1>26 DEF vars
<1>27. QED
  BY <1>1, <1>2, <1>3, <1>4, <1>5, <1>6, <1>7, <1>8, <1>9, <1>10, <1>11, <1>12, <1>13,
     <1>14, <1>15, <1>16, <1>17, <1>18, <1>19, <1>20, <1>21, <1>22, <1>23, <1>24, <1>25,
     <1>26
     DEF Next, Handler, Queue, Scripts

\* No step removes a link; markInboxMatched writes it with the status.
LEMMA NextLink == TypeOK /\ VerdictInv /\ LinkInv /\ [Next]_vars => LinkInv'
<1> SUFFICES ASSUME TypeOK /\ VerdictInv /\ LinkInv, [Next]_vars PROVE LinkInv'
  OBVIOUS
<1> USE MatchAssumption DEF TypeOK, VerdictInv, LinkInv, Decided, Marked, Final, None,
            inboxVars, queueVars, runVars, notionVars, scriptVars, threadVars
<1>1. ASSUME NEW o \in Outbounds, RecordOutbound(o) \/ BackfillResets(o)
      PROVE  LinkInv'
  BY <1>1 DEF RecordOutbound, BackfillResets
<1>2. ASSUME NEW m \in Msgs, Insert(m) PROVE LinkInv'
  BY <1>2 DEF Insert
<1>3. ASSUME NEW m \in Msgs, Enqueue(m) PROVE LinkInv'
  BY <1>3 DEF Enqueue, Runs
<1>4. ASSUME NEW m \in Msgs, ReconcileScan(m) PROVE LinkInv'
  BY <1>4 DEF ReconcileScan, Recorded
<1>5. ASSUME NEW m \in Msgs, ReconcileLink(m) PROVE LinkInv'
  BY <1>5 DEF ReconcileLink
<1>6. ASSUME NEW m \in Msgs, Requeue(m) PROVE LinkInv'
  BY <1>6 DEF Requeue, Runs
<1>7. ASSUME NEW r \in Runs, TakeJob(r) PROVE LinkInv'
  BY <1>7 DEF TakeJob, Goto
<1>8. ASSUME NEW r \in Runs, CompleteJob(r) PROVE LinkInv'
  BY <1>8 DEF CompleteJob, Goto, NoVerdict
<1>9. ASSUME NEW r \in Runs, FailAttempt(r) PROVE LinkInv'
  BY <1>9 DEF FailAttempt, Goto, NoVerdict
<1>10. ASSUME NEW r \in Runs, StalledCheck(r) PROVE LinkInv'
  BY <1>10 DEF StalledCheck
<1>11. ASSUME NEW r \in Runs, ReadRow(r) PROVE LinkInv'
  BY <1>11, RunTyped DEF ReadRow, Goto, KindOf
<1>12. ASSUME NEW r \in Runs, SyncThread(r) PROVE LinkInv'
  BY <1>12, RunTyped DEF SyncThread, Goto
<1>13. ASSUME NEW r \in Runs, FlipThread(r) PROVE LinkInv'
  BY <1>13, RunTyped DEF FlipThread, Goto, Try
<1>14. ASSUME NEW r \in Runs, Classify(r) \/ Guess(r) PROVE LinkInv'
  BY <1>14, RunTyped DEF Classify, Guess, LookUp, Goto, Recorded, IsNewest
<1>15. ASSUME NEW r \in Runs, Ignore(r) PROVE LinkInv'
  BY <1>15, RunTyped DEF Ignore, Goto, Try
<1>16. ASSUME NEW r \in Runs, SetThread(r) PROVE LinkInv'
  BY <1>16, RunTyped DEF SetThread, Goto, Try
<1>17. ASSUME NEW r \in Runs, MarkMatched(r) PROVE LinkInv'
  <2>1. r[1] \in Msgs /\ verdict[r].out \in Outbounds
    BY <1>17, RunTyped DEF MarkMatched
  <2>2. \/ UNCHANGED inboxVars /\ pc' = [pc EXCEPT ![r] = "throw"]
       \/ /\ inbox' = [inbox EXCEPT ![r[1]] = StatusOf[verdict[r].kind]]
          /\ link' = [link EXCEPT ![r[1]] = verdict[r].out]
    BY <1>17 DEF MarkMatched, Goto, Try
  <2>3. \A m \in Msgs : link[m] # None => link'[m] # None
    BY <2>1, <2>2
  <2>4. \A m \in Msgs : inbox'[m] \in Final => link'[m] # None
    BY <2>1, <2>2
  <2>5. pc'[r] \in Marked => link'[r[1]] # None
    BY <1>17, <2>1, <2>2 DEF MarkMatched
  <2>6. \A q \in Runs \ {r} : pc'[q] = pc[q]
    BY <1>17 DEF MarkMatched, Goto, Try
  <2>7. \A q \in Runs : pc'[q] \in Marked => link'[q[1]] # None
    BY <2>3, <2>5, <2>6, RunTyped
  <2>8. QED
    BY <2>2, <2>4, <2>7
<1>18. ASSUME NEW r \in Runs, LookupConversation(r) PROVE LinkInv'
  BY <1>18, RunTyped DEF LookupConversation, Goto
<1>19. ASSUME NEW r \in Runs, UpdateConversation(r) PROVE LinkInv'
  BY <1>19, RunTyped DEF UpdateConversation, Goto, Try, AfterUpsert
<1>20. ASSUME NEW r \in Runs, InsertConversation(r) PROVE LinkInv'
  BY <1>20, RunTyped DEF InsertConversation, Goto, Try, AfterUpsert
<1>21. ASSUME NEW r \in Runs, CreateChild(r) PROVE LinkInv'
  BY <1>21, RunTyped DEF CreateChild, Goto
<1>22. ASSUME NEW r \in Runs, WriteBounce(r) PROVE LinkInv'
  BY <1>22, RunTyped DEF WriteBounce, Goto, Try
<1>23. ASSUME NEW r \in Runs, Stamp(r) PROVE LinkInv'
  BY <1>23, RunTyped DEF Stamp, Goto
<1>24. CASE WorkerCrash
  BY <1>24 DEF WorkerCrash, NoVerdict
<1>25. CASE SyncThreadScript
  BY <1>25 DEF SyncThreadScript
<1>26. CASE UNCHANGED vars
  BY <1>26 DEF vars
<1>27. QED
  BY <1>1, <1>2, <1>3, <1>4, <1>5, <1>6, <1>7, <1>8, <1>9, <1>10, <1>11, <1>12, <1>13,
     <1>14, <1>15, <1>16, <1>17, <1>18, <1>19, <1>20, <1>21, <1>22, <1>23, <1>24, <1>25,
     <1>26
     DEF Next, Handler, Queue, Scripts

\* A thread status that tells of a reply or a bounce keeps telling of one.
LEMMA NextReflect == TypeOK /\ VerdictInv /\ LinkInv /\ ReflectInv /\ [Next]_vars =>
     ReflectInv'
<1> SUFFICES ASSUME TypeOK /\ VerdictInv /\ LinkInv /\ ReflectInv, [Next]_vars
             PROVE ReflectInv'
  OBVIOUS
<1> USE MatchAssumption DEF TypeOK, VerdictInv, LinkInv, ReflectInv, FinalIsReflected,
            Told, Decided, Marked, Final, None, inboxVars, queueVars, runVars, notionVars,
            scriptVars, threadVars
<1>1. ASSUME NEW o \in Outbounds, RecordOutbound(o) \/ BackfillResets(o)
      PROVE  ReflectInv'
  <2>1. UNCHANGED <<inboxVars, runVars, linked>>
    BY <1>1 DEF RecordOutbound, BackfillResets
  <2>2. \A other \in Outbounds : Told(other) => Told(other)'
    BY <1>1 DEF RecordOutbound, BackfillResets
  <2> HIDE DEF Told
  <2>3. FinalIsReflected'
    BY <2>1, <2>2 DEF Told
  <2>4. QED
    BY <2>1, <2>2, <2>3
<1>2. ASSUME NEW m \in Msgs, Insert(m) PROVE ReflectInv'
  BY <1>2 DEF Insert
<1>3. ASSUME NEW m \in Msgs, Enqueue(m) PROVE ReflectInv'
  BY <1>3 DEF Enqueue, Runs
<1>4. ASSUME NEW m \in Msgs, ReconcileScan(m) PROVE ReflectInv'
  BY <1>4 DEF ReconcileScan, Recorded
<1>5. ASSUME NEW m \in Msgs, ReconcileLink(m) PROVE ReflectInv'
  BY <1>5 DEF ReconcileLink
<1>6. ASSUME NEW m \in Msgs, Requeue(m) PROVE ReflectInv'
  BY <1>6 DEF Requeue, Runs
<1>7. ASSUME NEW r \in Runs, TakeJob(r) PROVE ReflectInv'
  BY <1>7 DEF TakeJob, Goto
<1>8. ASSUME NEW r \in Runs, CompleteJob(r) PROVE ReflectInv'
  BY <1>8 DEF CompleteJob, Goto, NoVerdict
<1>9. ASSUME NEW r \in Runs, FailAttempt(r) PROVE ReflectInv'
  BY <1>9 DEF FailAttempt, Goto, NoVerdict
<1>10. ASSUME NEW r \in Runs, StalledCheck(r) PROVE ReflectInv'
  BY <1>10 DEF StalledCheck
<1>11. ASSUME NEW r \in Runs, ReadRow(r) PROVE ReflectInv'
  BY <1>11, RunTyped DEF ReadRow, Goto, KindOf
<1>12. ASSUME NEW r \in Runs, SyncThread(r) PROVE ReflectInv'
  BY <1>12, RunTyped DEF SyncThread, Goto
<1>13. ASSUME NEW r \in Runs, FlipThread(r) PROVE ReflectInv'
  <2>1. PICK x \in Outbounds : x = verdict[r].out
    BY <1>13 DEF FlipThread
  <2>2. Updates(x) /\ verdict' = verdict /\ UNCHANGED <<inboxVars, linked>>
    BY <1>13, <2>1 DEF FlipThread, Try, SetStatus, Updates
  <2>3. \A o \in Outbounds : Told(o) => Told(o)'
    BY <2>2, UpdateTells
  <2>4. FinalIsReflected'
    BY <2>2, <2>3
  <2>5. pc'[r] = "mark" => thread'[x] \in {"reply_received", "bounce"}
    BY <1>13, <2>1 DEF FlipThread, Try, Goto, SetStatus
  <2>6. \A q \in Runs \ {r} : pc'[q] = pc[q]
    BY <1>13 DEF FlipThread, Try, Goto
  <2>7. \A q \in Runs : pc'[q] = "mark" /\ verdict[q].kind # "auto" =>
            thread'[verdict[q].out] \in {"reply_received", "bounce"} \/ verdict[q].out \in reset'
    BY <2>1, <2>2, <2>3, <2>5, <2>6
  <2>8. QED
    BY <2>2, <2>4, <2>7
<1>14. ASSUME NEW r \in Runs, Classify(r) \/ Guess(r) PROVE ReflectInv'
  BY <1>14, RunTyped DEF Classify, Guess, LookUp, Goto, Recorded, IsNewest
<1>15. ASSUME NEW r \in Runs, Ignore(r) PROVE ReflectInv'
  BY <1>15, RunTyped DEF Ignore, Goto, Try
<1>16. ASSUME NEW r \in Runs, SetThread(r) PROVE ReflectInv'
  <2>1. PICK x \in Outbounds : x = verdict[r].out
    BY <1>16 DEF SetThread
  <2>2. Updates(x) /\ verdict' = verdict /\ UNCHANGED <<inboxVars, linked>>
    BY <1>16, <2>1 DEF SetThread, Try, SetStatus, Updates
  <2>3. \A o \in Outbounds : Told(o) => Told(o)'
    BY <2>2, UpdateTells
  <2>4. FinalIsReflected'
    BY <2>2, <2>3
  <2>5. pc'[r] = "mark" => thread'[x] \in {"reply_received", "bounce"}
    BY <1>16, <2>1 DEF SetThread, Try, Goto, SetStatus
  <2>6. \A q \in Runs \ {r} : pc'[q] = pc[q]
    BY <1>16 DEF SetThread, Try, Goto
  <2>7. \A q \in Runs : pc'[q] = "mark" /\ verdict[q].kind # "auto" =>
            thread'[verdict[q].out] \in {"reply_received", "bounce"} \/ verdict[q].out \in reset'
    BY <2>1, <2>2, <2>3, <2>5, <2>6
  <2>8. QED
    BY <2>2, <2>4, <2>7
<1>17. ASSUME NEW r \in Runs, MarkMatched(r) PROVE ReflectInv'
  <2>1. r[1] \in Msgs
    BY RunTyped
  <2>2. \/ UNCHANGED inboxVars
       \/ /\ inbox' = [inbox EXCEPT ![r[1]] = StatusOf[verdict[r].kind]]
          /\ link' = [link EXCEPT ![r[1]] = verdict[r].out]
    BY <1>17 DEF MarkMatched, Try
  <2>3. StatusOf[verdict[r].kind] \in {"matched", "bounce"} =>
            Told(verdict[r].out)
    BY <1>17 DEF MarkMatched, StatusOf
  <2>4. FinalIsReflected'
    BY <1>17, <2>1, <2>2, <2>3 DEF MarkMatched
  <2>5. pc'[r] # "mark" /\ \A q \in Runs \ {r} : pc'[q] = pc[q]
    BY <1>17 DEF MarkMatched, Goto, Try
  <2>6. QED
    BY <1>17, <2>4, <2>5 DEF MarkMatched
<1>18. ASSUME NEW r \in Runs, LookupConversation(r) PROVE ReflectInv'
  BY <1>18, RunTyped DEF LookupConversation, Goto
<1>19. ASSUME NEW r \in Runs, UpdateConversation(r) PROVE ReflectInv'
  BY <1>19, RunTyped DEF UpdateConversation, Goto, Try, AfterUpsert
<1>20. ASSUME NEW r \in Runs, InsertConversation(r) PROVE ReflectInv'
  BY <1>20, RunTyped DEF InsertConversation, Goto, Try, AfterUpsert
<1>21. ASSUME NEW r \in Runs, CreateChild(r) PROVE ReflectInv'
  BY <1>21, RunTyped DEF CreateChild, Goto
<1>22. ASSUME NEW r \in Runs, WriteBounce(r) PROVE ReflectInv'
  BY <1>22, RunTyped DEF WriteBounce, Goto, Try
<1>23. ASSUME NEW r \in Runs, Stamp(r) PROVE ReflectInv'
  BY <1>23, RunTyped DEF Stamp, Goto
<1>24. CASE WorkerCrash
  BY <1>24 DEF WorkerCrash, NoVerdict
<1>25. CASE SyncThreadScript
  BY <1>25, ScriptTells DEF SyncThreadScript
<1>26. CASE UNCHANGED vars
  BY <1>26 DEF vars
<1>27. QED
  BY <1>1, <1>2, <1>3, <1>4, <1>5, <1>6, <1>7, <1>8, <1>9, <1>10, <1>11, <1>12, <1>13,
     <1>14, <1>15, <1>16, <1>17, <1>18, <1>19, <1>20, <1>21, <1>22, <1>23, <1>24, <1>25,
     <1>26
     DEF Next, Handler, Queue, Scripts

\* A row of conversation_map is written by a run that has linked its mail.
LEMMA NextMap == TypeOK /\ VerdictInv /\ LinkInv /\ MapInv /\ [Next]_vars => MapInv'
<1> SUFFICES ASSUME TypeOK /\ VerdictInv /\ LinkInv /\ MapInv, [Next]_vars PROVE MapInv'
  OBVIOUS
<1> USE MatchAssumption DEF TypeOK, VerdictInv, LinkInv, MapInv, MapNamesMatched,
            Decided, Marked, Final, None, inboxVars, queueVars, runVars, notionVars,
            scriptVars, threadVars
<1>1. ASSUME NEW o \in Outbounds, RecordOutbound(o) \/ BackfillResets(o)
      PROVE  MapInv'
  BY <1>1 DEF RecordOutbound, BackfillResets
<1>2. ASSUME NEW m \in Msgs, Insert(m) PROVE MapInv'
  BY <1>2 DEF Insert
<1>3. ASSUME NEW m \in Msgs, Enqueue(m) PROVE MapInv'
  BY <1>3 DEF Enqueue, Runs
<1>4. ASSUME NEW m \in Msgs, ReconcileScan(m) PROVE MapInv'
  BY <1>4 DEF ReconcileScan, Recorded
<1>5. ASSUME NEW m \in Msgs, ReconcileLink(m) PROVE MapInv'
  BY <1>5 DEF ReconcileLink
<1>6. ASSUME NEW m \in Msgs, Requeue(m) PROVE MapInv'
  BY <1>6 DEF Requeue, Runs
<1>7. ASSUME NEW r \in Runs, TakeJob(r) PROVE MapInv'
  BY <1>7 DEF TakeJob, Goto
<1>8. ASSUME NEW r \in Runs, CompleteJob(r) PROVE MapInv'
  BY <1>8 DEF CompleteJob, Goto, NoVerdict
<1>9. ASSUME NEW r \in Runs, FailAttempt(r) PROVE MapInv'
  BY <1>9 DEF FailAttempt, Goto, NoVerdict
<1>10. ASSUME NEW r \in Runs, StalledCheck(r) PROVE MapInv'
  BY <1>10 DEF StalledCheck
<1>11. ASSUME NEW r \in Runs, ReadRow(r) PROVE MapInv'
  BY <1>11, RunTyped DEF ReadRow, Goto, KindOf
<1>12. ASSUME NEW r \in Runs, SyncThread(r) PROVE MapInv'
  BY <1>12, RunTyped DEF SyncThread, Goto
<1>13. ASSUME NEW r \in Runs, FlipThread(r) PROVE MapInv'
  BY <1>13, RunTyped DEF FlipThread, Goto, Try
<1>14. ASSUME NEW r \in Runs, Classify(r) \/ Guess(r) PROVE MapInv'
  BY <1>14, RunTyped DEF Classify, Guess, LookUp, Goto, Recorded, IsNewest
<1>15. ASSUME NEW r \in Runs, Ignore(r) PROVE MapInv'
  BY <1>15, RunTyped DEF Ignore, Goto, Try
<1>16. ASSUME NEW r \in Runs, SetThread(r) PROVE MapInv'
  BY <1>16, RunTyped DEF SetThread, Goto, Try
<1>17. ASSUME NEW r \in Runs, MarkMatched(r) PROVE MapInv'
  <2>1. r[1] \in Msgs /\ verdict[r].out \in Outbounds
    BY <1>17, RunTyped DEF MarkMatched
  <2>2. link' \in {link, [link EXCEPT ![r[1]] = verdict[r].out]}
    BY <1>17 DEF MarkMatched, Try
  <2>3. \A m \in Msgs : link[m] # None => link'[m] # None
    BY <2>1, <2>2
  <2>4. \A c \in Convs : map[c] # NoRow => link'[map[c].latest] # None
    BY <2>3
  <2>5. QED
    BY <1>17, <2>4 DEF MarkMatched
<1>18. ASSUME NEW r \in Runs, LookupConversation(r) PROVE MapInv'
  BY <1>18, RunTyped DEF LookupConversation, Goto
<1>19. ASSUME NEW r \in Runs, UpdateConversation(r) PROVE MapInv'
  <2>1. r[1] \in Msgs /\ Conv[r[1]] \in Convs /\ link[r[1]] # None
    BY <1>19, RunTyped DEF UpdateConversation
  <2>2. \E p : map' \in {map, [map EXCEPT ![Conv[r[1]]] = [page |-> p, latest |-> r[1]]]}
    BY <1>19 DEF UpdateConversation, Try
  <2>3. link' = link
    BY <1>19 DEF UpdateConversation
  <2>4. QED
    BY <2>1, <2>2, <2>3
<1>20. ASSUME NEW r \in Runs, InsertConversation(r) PROVE MapInv'
  <2>1. r[1] \in Msgs /\ Conv[r[1]] \in Convs /\ link[r[1]] # None
    BY <1>20, RunTyped DEF InsertConversation
  <2>2. \E p : map' \in {map, [map EXCEPT ![Conv[r[1]]] = [page |-> p, latest |-> r[1]]]}
    BY <1>20 DEF InsertConversation, Try
  <2>3. link' = link
    BY <1>20 DEF InsertConversation
  <2>4. QED
    BY <2>1, <2>2, <2>3
<1>21. ASSUME NEW r \in Runs, CreateChild(r) PROVE MapInv'
  BY <1>21, RunTyped DEF CreateChild, Goto
<1>22. ASSUME NEW r \in Runs, WriteBounce(r) PROVE MapInv'
  BY <1>22, RunTyped DEF WriteBounce, Goto, Try
<1>23. ASSUME NEW r \in Runs, Stamp(r) PROVE MapInv'
  BY <1>23, RunTyped DEF Stamp, Goto
<1>24. CASE WorkerCrash
  BY <1>24 DEF WorkerCrash, NoVerdict
<1>25. CASE SyncThreadScript
  BY <1>25 DEF SyncThreadScript
<1>26. CASE UNCHANGED vars
  BY <1>26 DEF vars
<1>27. QED
  BY <1>1, <1>2, <1>3, <1>4, <1>5, <1>6, <1>7, <1>8, <1>9, <1>10, <1>11, <1>12, <1>13,
     <1>14, <1>15, <1>16, <1>17, <1>18, <1>19, <1>20, <1>21, <1>22, <1>23, <1>24, <1>25,
     <1>26
     DEF Next, Handler, Queue, Scripts

-----------------------------------------------------------------------------
\* IInv is inductive.
THEOREM Invariance == Spec => []IInv
<1>1. IInv /\ [Next]_vars => IInv'
  BY NextTyped, NextVerdict, NextLink, NextReflect, NextMap DEF IInv
<1>2. QED
  BY InitIInv, <1>1, PTL DEF Spec

\* Every reachable state is well typed: what a run writes into a row is one of the statuses
\* of match_status, and a number of an outbound mail or none.
THEOREM TypeCorrect == Spec => []TypeOK
BY Invariance, PTL DEF IInv

\* A row that the worker made matched or bounce has its thread status set (processMatch),
\* unless a backfill has set the status of that outbound mail back since.
THEOREM FinalReflected == Spec => []FinalIsReflected
<1>1. IInv => FinalIsReflected
  BY DEF IInv, ReflectInv
<1>2. QED
  BY Invariance, <1>1, PTL

\* A row of conversation_map names a linked mail of its conversation (upsertConversation).
THEOREM MapMatched == Spec => []MapNamesMatched
<1>1. IInv => MapNamesMatched
  BY DEF IInv, MapInv
<1>2. QED
  BY Invariance, <1>1, PTL

-----------------------------------------------------------------------------
(* The worker alone: one job for a row, and no script.                       *)

\* What a run without a rival relies on: until it marks the row, the row is open; from
\* then to its one write to Notion, the row is final and no reply is shown.
AloneInv ==
    /\ scan = {}
    /\ \A r \in Runs :
        /\ pc[r] \in {"classify", "guess", "ignore", "status", "mark"} => inbox[r[1]] \notin Final
        /\ pc[r] \in {"lookup", "update", "insert", "write"} =>
            inbox[r[1]] = StatusOf[verdict[r].kind] /\ children[r[1]] = 0
    /\ \A m \in Msgs : inbox[m] \notin Final => children[m] = 0

\* Without the requeue script a mail has one run.
LEMMA OneRun ==
  ASSUME Alone, NEW r \in Runs
  PROVE  r[1] \in Msgs /\ \A q \in Runs : q[1] = r[1] => q = r
BY DEF Alone, Runs

\* AloneInv holds at the start.
LEMMA InitAlone == Init => AloneInv
BY MatchAssumption DEF Init, AloneInv, Runs

\* The pages one call of createInboundReplyRow leaves.
LEMMA CreateCount ==
  ASSUME TypeOK, NEW r \in Runs, CreateChild(r)
  PROVE  \E n \in 0..MaxPosts : children' = [children EXCEPT ![r[1]] = children[r[1]] + n]
<1> USE MatchAssumption
<1>1. CASE "notion" \in Faults
  BY <1>1 DEF CreateChild
<1>2. CASE "notion" \notin Faults
  BY <1>2 DEF CreateChild
<1>3. QED
  BY <1>1, <1>2

\* Every step of a worker that is alone keeps AloneInv.
LEMMA NextAlone == Alone /\ TypeOK /\ VerdictInv /\ AloneInv /\ [Next]_vars => AloneInv'
<1> SUFFICES ASSUME Alone /\ TypeOK /\ VerdictInv /\ AloneInv, [Next]_vars PROVE AloneInv'
  OBVIOUS
<1> USE MatchAssumption DEF TypeOK, VerdictInv, AloneInv, Decided, InboxStatus, Final,
            inboxVars, queueVars, runVars, notionVars, scriptVars, threadVars
<1>1. ASSUME NEW o \in Outbounds, RecordOutbound(o) \/ BackfillResets(o)
      PROVE  AloneInv'
  BY <1>1 DEF RecordOutbound, BackfillResets
<1>2. ASSUME NEW m \in Msgs, Insert(m) PROVE AloneInv'
  BY <1>2, RunTyped DEF Insert, StatusOf
<1>3. ASSUME NEW m \in Msgs, Enqueue(m) PROVE AloneInv'
  BY <1>3 DEF Enqueue, Runs
<1>4. ASSUME NEW m \in Msgs, ReconcileScan(m) PROVE AloneInv'
  BY <1>4 DEF ReconcileScan, Alone
<1>5. ASSUME NEW m \in Msgs, ReconcileLink(m) PROVE AloneInv'
  BY <1>5 DEF ReconcileLink
<1>6. ASSUME NEW m \in Msgs, Requeue(m) PROVE AloneInv'
  BY <1>6 DEF Requeue, Runs
<1>7. ASSUME NEW r \in Runs, TakeJob(r) PROVE AloneInv'
  BY <1>7, OneRun DEF TakeJob, Goto
<1>8. ASSUME NEW r \in Runs, CompleteJob(r) PROVE AloneInv'
  BY <1>8, OneRun DEF CompleteJob, Goto, NoVerdict
<1>9. ASSUME NEW r \in Runs, FailAttempt(r) PROVE AloneInv'
  BY <1>9, OneRun DEF FailAttempt, Goto, NoVerdict
<1>10. ASSUME NEW r \in Runs, StalledCheck(r) PROVE AloneInv'
  BY <1>10, OneRun DEF StalledCheck
<1>11. ASSUME NEW r \in Runs, ReadRow(r) PROVE AloneInv'
  BY <1>11, OneRun DEF ReadRow, Goto, KindOf
<1>12. ASSUME NEW r \in Runs, SyncThread(r) PROVE AloneInv'
  BY <1>12, OneRun DEF SyncThread, Goto
<1>13. ASSUME NEW r \in Runs, FlipThread(r) PROVE AloneInv'
  BY <1>13, OneRun DEF FlipThread, Goto, Try
<1>14. ASSUME NEW r \in Runs, Classify(r) \/ Guess(r) PROVE AloneInv'
  BY <1>14, OneRun DEF Classify, Guess, LookUp, Goto, Recorded, IsNewest
<1>15. ASSUME NEW r \in Runs, Ignore(r) PROVE AloneInv'
  <2>1. r[1] \in Msgs /\ \A q \in Runs : q[1] = r[1] => q = r
    BY OneRun
  <2>2. inbox[r[1]] \notin Final /\ children[r[1]] = 0
    BY <1>15, <2>1 DEF Ignore
  <2>3. inbox' \in {inbox, [inbox EXCEPT ![r[1]] = "ignored"]}
    BY <1>15 DEF Ignore, Try
  <2>4. \A m \in Msgs : inbox'[m] \notin Final => children[m] = 0
    BY <2>1, <2>2, <2>3
  <2>5. pc'[r] \in {"return", "throw"}
    BY <1>15 DEF Ignore, Goto, Try
  <2>6. \A q \in Runs \ {r} : pc'[q] = pc[q] /\ inbox'[q[1]] = inbox[q[1]]
    BY <1>15, <2>1, <2>3, RunTyped DEF Ignore, Goto, Try
  <2>7. QED
    BY <1>15, <2>4, <2>5, <2>6 DEF Ignore
<1>16. ASSUME NEW r \in Runs, SetThread(r) PROVE AloneInv'
  BY <1>16, OneRun DEF SetThread, Goto, Try
<1>17. ASSUME NEW r \in Runs, MarkMatched(r) PROVE AloneInv'
  <2>1. r[1] \in Msgs /\ \A q \in Runs : q[1] = r[1] => q = r
    BY OneRun
  <2>2. StatusOf[verdict[r].kind] \in Final
    BY <1>17 DEF MarkMatched, StatusOf
  <2>3. inbox[r[1]] \notin Final /\ children[r[1]] = 0
    BY <1>17, <2>1 DEF MarkMatched
  <2>4. inbox' \in {inbox, [inbox EXCEPT ![r[1]] = StatusOf[verdict[r].kind]]}
    BY <1>17 DEF MarkMatched, Try
  <2>5. \A m \in Msgs : inbox'[m] \notin Final => children[m] = 0
    BY <2>1, <2>2, <2>3, <2>4
  <2>6. \/ pc'[r] \in {"lookup", "stamp"} /\ inbox'[r[1]] = StatusOf[verdict[r].kind]
       \/ pc'[r] = "throw"
    BY <1>17, <2>1 DEF MarkMatched, Goto, Try
  <2>7. \A q \in Runs \ {r} : pc'[q] = pc[q] /\ inbox'[q[1]] = inbox[q[1]]
    BY <1>17, <2>1, <2>4, RunTyped DEF MarkMatched, Goto, Try
  <2>8. QED
    BY <1>17, <2>3, <2>5, <2>6, <2>7 DEF MarkMatched
<1>18. ASSUME NEW r \in Runs, LookupConversation(r) PROVE AloneInv'
  BY <1>18, OneRun DEF LookupConversation, Goto
<1>19. ASSUME NEW r \in Runs, UpdateConversation(r) PROVE AloneInv'
  BY <1>19, OneRun DEF UpdateConversation, Goto, Try, AfterUpsert
<1>20. ASSUME NEW r \in Runs, InsertConversation(r) PROVE AloneInv'
  BY <1>20, OneRun DEF InsertConversation, Goto, Try, AfterUpsert
<1>21. ASSUME NEW r \in Runs, CreateChild(r) PROVE AloneInv'
  <2>1. r[1] \in Msgs /\ \A q \in Runs : q[1] = r[1] => q = r
    BY OneRun
  <2>2. inbox[r[1]] \in Final /\ children[r[1]] = 0
    BY <1>21, <2>1 DEF CreateChild, StatusOf
  <2>3. \E n \in 0..MaxPosts : children' = [children EXCEPT ![r[1]] = n]
    BY <1>21, <2>1, <2>2, CreateCount DEF CreateChild
  <2>4. \A m \in Msgs : inbox[m] \notin Final => children'[m] = 0
    BY <2>1, <2>2, <2>3
  <2>5. pc'[r] \in {"stamp", "throw"}
    BY <1>21 DEF CreateChild, Goto
  <2>6. \A q \in Runs \ {r} : pc'[q] = pc[q] /\ children'[q[1]] = children[q[1]]
    BY <1>21, <2>1, <2>3, RunTyped DEF CreateChild, Goto
  <2>7. QED
    BY <1>21, <2>4, <2>5, <2>6 DEF CreateChild
<1>22. ASSUME NEW r \in Runs, WriteBounce(r) PROVE AloneInv'
  BY <1>22, OneRun DEF WriteBounce, Goto, Try
<1>23. ASSUME NEW r \in Runs, Stamp(r) PROVE AloneInv'
  BY <1>23, OneRun DEF Stamp, Goto
<1>24. CASE WorkerCrash
  BY <1>24 DEF WorkerCrash, NoVerdict
<1>25. CASE SyncThreadScript
  BY <1>25 DEF SyncThreadScript
<1>26. CASE UNCHANGED vars
  BY <1>26 DEF vars
<1>27. QED
  BY <1>1, <1>2, <1>3, <1>4, <1>5, <1>6, <1>7, <1>8, <1>9, <1>10, <1>11, <1>12, <1>13,
     <1>14, <1>15, <1>16, <1>17, <1>18, <1>19, <1>20, <1>21, <1>22, <1>23, <1>24, <1>25,
     <1>26
     DEF Next, Handler, Queue, Scripts

-----------------------------------------------------------------------------
\* The refinement mapping of KeepsBook.
Verdict(status) == IF status \in {"absent", "unmatched", "ignored"} THEN "open" ELSE status
BookOf == [m \in Msgs |-> Verdict(inbox[m])]

\* A step that leaves the verdicts and the shown replies alone.
LEMMA QuietStep ==
  ASSUME TypeOK, children' = children,
         \A m \in Msgs : Verdict(inbox'[m]) = Verdict(inbox[m])
  PROVE  [Book!Next]_Book!vars
BY DEF Book!vars, Verdict

\* markInboxMatched decides the mail, or changes nothing.
LEMMA MarkStep ==
  ASSUME Alone, TypeOK, VerdictInv, AloneInv, NEW r \in Runs, MarkMatched(r)
  PROVE  [Book!Next]_Book!vars
<1>1. r[1] \in Msgs
  BY OneRun
<1>2. inbox[r[1]] \in {"absent", "unmatched", "ignored"}
  BY <1>1 DEF MarkMatched, AloneInv, TypeOK, InboxStatus, Final
<1>3. PICK v \in Book!Verdicts : v = StatusOf[verdict[r].kind]
  BY DEF MarkMatched, VerdictInv, Decided, StatusOf, Book!Verdicts
<1>4. CASE inbox' = inbox
  BY <1>4, QuietStep DEF MarkMatched, notionVars
<1>5. CASE inbox' = [inbox EXCEPT ![r[1]] = StatusOf[verdict[r].kind]]
  <2>1. Book!Decide(r[1], v)
    BY <1>1, <1>2, <1>3, <1>5
       DEF Book!Decide, Book!Verdicts, MarkMatched, notionVars, TypeOK
  <2>2. QED
    BY <1>1, <2>1 DEF Book!Next
<1>6. QED
  BY <1>4, <1>5 DEF MarkMatched, Try, inboxVars

\* createInboundReplyRow shows the reply, or changes nothing.
LEMMA CreateStep ==
  ASSUME Alone, TypeOK, AloneInv, NEW r \in Runs, CreateChild(r)
  PROVE  [Book!Next]_Book!vars
<1>1. r[1] \in Msgs
  BY OneRun
<1>2. inbox[r[1]] = "matched" /\ children[r[1]] = 0
  BY <1>1 DEF CreateChild, AloneInv, StatusOf
<1>3. PICK n \in 0..MaxPosts : children' = [children EXCEPT ![r[1]] = n]
  BY <1>1, <1>2, CreateCount, MatchAssumption
<1>4. CASE n = 0
  <2>1. children' = children
    BY <1>1, <1>2, <1>3, <1>4 DEF TypeOK
  <2>2. QED
    BY <2>1, QuietStep DEF CreateChild, inboxVars
<1>5. CASE n # 0
  <2>1. n \in 1..MaxPosts
    BY <1>5, MatchAssumption
  <2>2. Book!Show(r[1], n)
    BY <1>1, <1>2, <1>3 DEF Book!Show, CreateChild, inboxVars
  <2>3. QED
    BY <1>1, <2>1, <2>2 DEF Book!Next
<1>6. QED
  BY <1>4, <1>5

\* markInboxIgnored leaves the verdict open.
LEMMA IgnoreStep ==
  ASSUME Alone, TypeOK, AloneInv, NEW r \in Runs, Ignore(r)
  PROVE  [Book!Next]_Book!vars
<1>1. r[1] \in Msgs
  BY OneRun
<1>2. inbox[r[1]] \in {"absent", "unmatched", "ignored"}
  BY <1>1 DEF Ignore, AloneInv, TypeOK, InboxStatus, Final
<1>3. inbox' = inbox \/ inbox' = [inbox EXCEPT ![r[1]] = "ignored"]
  BY DEF Ignore, Try
<1>4. \A m \in Msgs : Verdict(inbox'[m]) = Verdict(inbox[m])
  BY <1>1, <1>2, <1>3 DEF Verdict, TypeOK
<1>5. QED
  BY <1>4, QuietStep DEF Ignore, notionVars

\* Every step of the pipeline is a step of ReplyBook or a stutter.
LEMMA BookStep == Alone /\ TypeOK /\ VerdictInv /\ AloneInv /\ [Next]_vars =>
     [Book!Next]_Book!vars
<1> SUFFICES ASSUME Alone, TypeOK, VerdictInv, AloneInv, [Next]_vars
             PROVE [Book!Next]_Book!vars
  OBVIOUS
<1>1. ASSUME NEW o \in Outbounds, RecordOutbound(o) \/ BackfillResets(o)
      PROVE  [Book!Next]_Book!vars
  BY <1>1, QuietStep DEF RecordOutbound, BackfillResets, inboxVars, notionVars
<1>2. ASSUME NEW m \in Msgs, Insert(m) PROVE [Book!Next]_Book!vars
  <2>1. \A n \in Msgs : Verdict(inbox'[n]) = Verdict(inbox[n])
    BY <1>2 DEF Insert, Verdict, TypeOK
  <2>2. QED
    BY <1>2, <2>1, QuietStep DEF Insert, notionVars
<1>3. ASSUME NEW m \in Msgs, Enqueue(m) PROVE [Book!Next]_Book!vars
  BY <1>3, QuietStep DEF Enqueue, inboxVars, notionVars
<1>4. ASSUME NEW m \in Msgs, ReconcileScan(m) PROVE [Book!Next]_Book!vars
  BY <1>4, QuietStep DEF ReconcileScan, inboxVars, notionVars
<1>5. ASSUME NEW m \in Msgs, ReconcileLink(m) PROVE [Book!Next]_Book!vars
  BY <1>5 DEF ReconcileLink, AloneInv
<1>6. ASSUME NEW m \in Msgs, Requeue(m) PROVE [Book!Next]_Book!vars
  BY <1>6, QuietStep DEF Requeue, inboxVars, notionVars
<1>7. ASSUME NEW r \in Runs, TakeJob(r) PROVE [Book!Next]_Book!vars
  BY <1>7, QuietStep DEF TakeJob, inboxVars, notionVars
<1>8. ASSUME NEW r \in Runs, CompleteJob(r) PROVE [Book!Next]_Book!vars
  BY <1>8, QuietStep DEF CompleteJob, inboxVars, notionVars
<1>9. ASSUME NEW r \in Runs, FailAttempt(r) PROVE [Book!Next]_Book!vars
  BY <1>9, QuietStep DEF FailAttempt, inboxVars, notionVars
<1>10. ASSUME NEW r \in Runs, StalledCheck(r) PROVE [Book!Next]_Book!vars
  BY <1>10, QuietStep DEF StalledCheck, inboxVars, notionVars
<1>11. ASSUME NEW r \in Runs, ReadRow(r) PROVE [Book!Next]_Book!vars
  BY <1>11, QuietStep DEF ReadRow, inboxVars, notionVars
<1>12. ASSUME NEW r \in Runs, SyncThread(r) PROVE [Book!Next]_Book!vars
  BY <1>12, QuietStep DEF SyncThread, inboxVars, notionVars
<1>13. ASSUME NEW r \in Runs, FlipThread(r) PROVE [Book!Next]_Book!vars
  BY <1>13, QuietStep DEF FlipThread, inboxVars, notionVars
<1>14. ASSUME NEW r \in Runs, Classify(r) \/ Guess(r) PROVE [Book!Next]_Book!vars
  BY <1>14, QuietStep DEF Classify, Guess, LookUp, inboxVars, notionVars
<1>15. ASSUME NEW r \in Runs, Ignore(r) PROVE [Book!Next]_Book!vars
  BY <1>15, IgnoreStep
<1>16. ASSUME NEW r \in Runs, SetThread(r) PROVE [Book!Next]_Book!vars
  BY <1>16, QuietStep DEF SetThread, inboxVars, notionVars
<1>17. ASSUME NEW r \in Runs, MarkMatched(r) PROVE [Book!Next]_Book!vars
  BY <1>17, MarkStep
<1>18. ASSUME NEW r \in Runs, LookupConversation(r) PROVE [Book!Next]_Book!vars
  BY <1>18, QuietStep DEF LookupConversation, inboxVars, notionVars
<1>19. ASSUME NEW r \in Runs, UpdateConversation(r) PROVE [Book!Next]_Book!vars
  BY <1>19, QuietStep DEF UpdateConversation, inboxVars, notionVars
<1>20. ASSUME NEW r \in Runs, InsertConversation(r) PROVE [Book!Next]_Book!vars
  BY <1>20, QuietStep DEF InsertConversation, inboxVars, notionVars
<1>21. ASSUME NEW r \in Runs, CreateChild(r) PROVE [Book!Next]_Book!vars
  BY <1>21, CreateStep
<1>22. ASSUME NEW r \in Runs, WriteBounce(r) PROVE [Book!Next]_Book!vars
  BY <1>22, QuietStep DEF WriteBounce, inboxVars, notionVars
<1>23. ASSUME NEW r \in Runs, Stamp(r) PROVE [Book!Next]_Book!vars
  BY <1>23, QuietStep DEF Stamp, inboxVars, notionVars
<1>24. CASE WorkerCrash
  BY <1>24, QuietStep DEF WorkerCrash, inboxVars, notionVars
<1>25. CASE SyncThreadScript
  BY <1>25, QuietStep DEF SyncThreadScript, inboxVars, notionVars
<1>26. CASE UNCHANGED vars
  BY <1>26, QuietStep DEF vars, inboxVars, notionVars
<1>27. QED
  BY <1>1, <1>2, <1>3, <1>4, <1>5, <1>6, <1>7, <1>8, <1>9, <1>10, <1>11, <1>12, <1>13,
     <1>14, <1>15, <1>16, <1>17, <1>18, <1>19, <1>20, <1>21, <1>22, <1>23, <1>24, <1>25,
     <1>26
     DEF Next, Handler, Queue, Scripts

\* When the worker is alone, the pipeline implements ReplyBook under that mapping.
THEOREM Refinement == Alone => (Spec => KeepsBook)
<1> SUFFICES ASSUME Alone PROVE Spec => KeepsBook
  OBVIOUS
<1>1. Init => Book!Init
  BY DEF Init, Book!Init
<1>2. TypeOK /\ VerdictInv /\ AloneInv /\ [Next]_vars => AloneInv'
  BY NextAlone
<1>3. TypeOK /\ VerdictInv /\ AloneInv /\ [Next]_vars => [Book!Next]_Book!vars
  BY BookStep
<1>4. QED
  BY InitAlone, <1>1, <1>2, <1>3, Invariance, PTL DEF Spec, IInv, KeepsBook, Book!Spec

-----------------------------------------------------------------------------
(* What QueuedRowsGetVerdict rests on: a job does not go round in circles, and none    *)
(* comes to its end without a verdict.                                                *)

\* How far the handler is from its end.
Height == [read |-> 15, sync |-> 14, flip |-> 13, classify |-> 12, guess |-> 11,
           ignore |-> 10, status |-> 9, mark |-> 8, lookup |-> 7, update |-> 6,
           insert |-> 5, write |-> 4, stamp |-> 3, return |-> 2, throw |-> 1, idle |-> 0]

\* A job in the queue and its handler, weighed by the attempts and the stalls it has left.
Chances(r) == (Attempts - job[r].tries) + (MaxStalledCount - job[r].stalls)
Rank(r) ==
    IF job[r].state \in {"waiting", "active"}
    THEN 17 * Chances(r) + IF job[r].state = "waiting" THEN 16 ELSE Height[pc[r]]
    ELSE 0

\* Nothing happens to the job of run r, or it has less before it than it had.
Advances(r) == UNCHANGED <<job[r], pc[r]>> \/ Rank(r)' < Rank(r)

\* A handler runs for an active job, and a job in the queue has chances left.
JobInv ==
    \A r \in Runs :
        /\ pc[r] # "idle" => job[r].state = "active"
        /\ job[r].state \in {"waiting", "active"} =>
            job[r].tries < Attempts /\ job[r].stalls <= MaxStalledCount

\* The row has an answer of the handler or of a script.
Settled(m) == inbox[m] \notin {"absent", "unmatched"}

\* A row is inserted before its job is added; a handler settles the row before it returns,
\* and before it throws, unless Postgres failed.
SettledInv ==
    /\ \A m \in pending : inbox[m] # "absent"
    /\ \A r \in Runs :
        /\ job[r].state # "none" => inbox[r[1]] # "absent"
        /\ pc[r] \in {"sync", "flip", "return"} \cup Marked => Settled(r[1])
        /\ job[r].state = "completed" => Settled(r[1])
        /\ pc[r] = "throw" => Settled(r[1]) \/ "postgres" \in Faults

\* Each stall of a job is a crash of its own, and a job fails for the error of its
\* handler or because it stalled too often.
StallInv ==
    \A r \in Runs :
        /\ job[r].stalls + (IF job[r].state = "active" /\ pc[r] = "idle" THEN 1 ELSE 0)
             <= crashes
        /\ job[r].state = "failed" =>
            Settled(r[1]) \/ "postgres" \in Faults \/ crashes > MaxStalledCount

\* The heights of the steps.
LEMMA HeightTyped == Height \in [Steps -> 0..15]
BY DEF Height, Steps

\* A step of the handler brings it nearer to its end, and leaves its job to the queue.
LEMMA HandlerDescends ==
  ASSUME TypeOK, NEW r \in Runs, Handler(r)
  PROVE  /\ pc[r] # "idle"
         /\ UNCHANGED <<job, pending, crashes>>
         /\ \E s \in Steps \ {"idle"} :
              pc' = [pc EXCEPT ![r] = s] /\ Height[s] < Height[pc[r]]
<1> DEFINE Goal == /\ pc[r] # "idle"
                   /\ UNCHANGED <<job, pending, crashes>>
                   /\ \E s \in Steps \ {"idle"} :
                        pc' = [pc EXCEPT ![r] = s] /\ Height[s] < Height[pc[r]]
<1> USE DEF Goto, Try, Height, Steps, queueVars
<1>1. CASE ReadRow(r)
  BY <1>1 DEF ReadRow
<1>2. CASE SyncThread(r)
  BY <1>2 DEF SyncThread
<1>3. CASE FlipThread(r)
  BY <1>3 DEF FlipThread
<1>4. CASE Classify(r)
  BY <1>4 DEF Classify, LookUp
<1>5. CASE Guess(r)
  BY <1>5 DEF Guess, LookUp
<1>6. CASE Ignore(r)
  BY <1>6 DEF Ignore
<1>7. CASE SetThread(r)
  BY <1>7 DEF SetThread
<1>8. CASE MarkMatched(r)
  BY <1>8 DEF MarkMatched
<1>9. CASE LookupConversation(r)
  BY <1>9 DEF LookupConversation
<1>10. CASE UpdateConversation(r)
  BY <1>10 DEF UpdateConversation, AfterUpsert
<1>11. CASE InsertConversation(r)
  BY <1>11 DEF InsertConversation, AfterUpsert
<1>12. CASE CreateChild(r)
  BY <1>12 DEF CreateChild
<1>13. CASE WriteBounce(r)
  BY <1>13 DEF WriteBounce
<1>14. CASE Stamp(r)
  <2>1. pc[r] = "stamp" /\ UNCHANGED <<job, pending, crashes>>
    BY <1>14 DEF Stamp
  <2>2. pc' = [pc EXCEPT ![r] = "return"]
    BY <1>14 DEF Stamp
  <2>3. "return" \in Steps \ {"idle"} /\ Height["return"] < Height["stamp"]
    OBVIOUS
  <2>4. QED
    BY <2>1, <2>2, <2>3
<1>15. QED
  BY <1>1, <1>2, <1>3, <1>4, <1>5, <1>6, <1>7, <1>8, <1>9, <1>10, <1>11, <1>12, <1>13, <1>14
     DEF Handler


\* The chances of a job in the queue, and so its rank, are natural numbers.
LEMMA RankTyped ==
  ASSUME TypeOK, JobInv, NEW r \in Runs
  PROVE  /\ Rank(r) \in Nat
         /\ job[r].state \in {"waiting", "active"} => Chances(r) \in Nat \ {0}
         /\ Height[pc[r]] \in 0..15
<1> USE MatchAssumption
<1>1. job[r] \in Job /\ pc[r] \in Steps
  BY DEF TypeOK
<1>2. Height[pc[r]] \in 0..15
  BY <1>1, HeightTyped
<1>3. job[r].state \in {"waiting", "active"} => Chances(r) \in Nat \ {0}
  BY <1>1 DEF JobInv, Chances, MaxStalledCount, Job
<1>4. QED
  BY <1>2, <1>3 DEF Rank

\* A step of the handler lowers the rank.
LEMMA HandlerAdvances ==
  ASSUME TypeOK, JobInv, NEW r \in Runs, Handler(r)
  PROVE  Advances(r)
<1>1. PICK s \in Steps \ {"idle"} : pc' = [pc EXCEPT ![r] = s] /\ Height[s] < Height[pc[r]]
  BY HandlerDescends
<1>2. job' = job /\ job[r].state = "active"
  BY HandlerDescends DEF JobInv
<1>3. pc'[r] = s
  BY <1>1 DEF TypeOK
<1>4. Chances(r) \in Nat /\ Height[s] \in 0..15 /\ Height[pc[r]] \in 0..15
  BY RankTyped, HeightTyped, <1>2
<1>5. Rank(r) = 17 * Chances(r) + Height[pc[r]]
  BY <1>2 DEF Rank
<1>6. Rank(r)' = 17 * Chances(r) + Height[s]
  BY <1>2, <1>3 DEF Rank, Chances
<1>7. QED
  BY <1>1, <1>4, <1>5, <1>6 DEF Advances

\* A step of the queue lowers the rank.
LEMMA QueueAdvances ==
  ASSUME TypeOK, JobInv, NEW r \in Runs, Queue(r)
  PROVE  Advances(r)
<1> USE MatchAssumption DEF Goto
<1>1. job[r] \in Job /\ Chances(r) \in Int /\ Height[pc[r]] \in 0..15
  BY RankTyped DEF TypeOK, Chances, MaxStalledCount, Job
<1>2. CASE TakeJob(r)
  <2>1. /\ job[r].state = "waiting" /\ job'[r] = [job[r] EXCEPT !.state = "active"]
        /\ pc'[r] = "read"
    BY <1>2 DEF TakeJob, Start, TypeOK
  <2>2. Rank(r) = 17 * Chances(r) + 16
    BY <2>1 DEF Rank
  <2>3. Rank(r)' = 17 * Chances(r) + 15
    BY <1>1, <2>1 DEF Rank, Chances, Height, Job
  <2>4. QED
    BY <1>1, <2>2, <2>3 DEF Advances
<1>3. CASE CompleteJob(r)
  <2>1. pc[r] = "return" /\ job'[r].state = "completed" /\ job[r].state = "active"
    BY <1>1, <1>3 DEF CompleteJob, Complete, TypeOK, JobInv, Job
  <2>2. Rank(r)' = 0
    BY <2>1 DEF Rank
  <2>3. Rank(r) = 17 * Chances(r) + 2
    BY <2>1 DEF Rank, Height
  <2>4. Chances(r) > 0
    BY <2>1, RankTyped
  <2>5. QED
    BY <1>1, <2>2, <2>3, <2>4 DEF Advances
<1>4. CASE FailAttempt(r)
  <2>1. pc[r] = "throw" /\ job'[r] = AfterThrow(job[r], Attempts) /\ job[r].state = "active"
    BY <1>4 DEF FailAttempt, TypeOK, JobInv
  <2>2. Rank(r) = 17 * Chances(r) + 1
    BY <2>1 DEF Rank, Height
  <2>3. Chances(r) > 0
    BY <2>1, RankTyped
  <2>4. Rank(r)' \in {0, 17 * (Chances(r) - 1) + 16}
    BY <1>1, <2>1 DEF Rank, Chances, AfterThrow, Job, MaxStalledCount
  <2>5. QED
    BY <1>1, <2>2, <2>3, <2>4 DEF Advances
<1>5. CASE StalledCheck(r)
  <2>1. pc[r] = "idle" /\ job'[r] = AfterStall(job[r]) /\ job[r].state = "active"
    BY <1>5 DEF StalledCheck, TypeOK
  <2>2. Rank(r) = 17 * Chances(r)
    BY <1>1, <2>1 DEF Rank, Height
  <2>3. Chances(r) > 0
    BY <2>1, RankTyped
  <2>4. Rank(r)' \in {0, 17 * (Chances(r) - 1) + 16}
    BY <1>1, <2>1 DEF Rank, Chances, AfterStall, Job, MaxStalledCount
  <2>5. QED
    BY <1>1, <2>2, <2>3, <2>4 DEF Advances
<1>6. QED
  BY <1>2, <1>3, <1>4, <1>5 DEF Queue

\* No other step touches a job that is there, but for a crash, which ends its handler.
LEMMA NextAdvances ==
  TypeOK /\ JobInv /\ [Next]_vars => \A r \in Runs : job[r].state # "none" => Advances(r)
<1> SUFFICES ASSUME TypeOK, JobInv, [Next]_vars, NEW r \in Runs, job[r].state # "none"
             PROVE  Advances(r)
  OBVIOUS
<1> USE DEF TypeOK, Advances, queueVars, runVars
<1>1. ASSUME NEW q \in Runs, Queue(q) \/ Handler(q) PROVE Advances(r)
  <2>1. CASE q = r
    BY <1>1, <2>1, QueueAdvances, HandlerAdvances
  <2>2. CASE q # r
    <3>1. job'[r] = job[r]
      BY <1>1, <2>2, HandlerDescends
         DEF Queue, TakeJob, CompleteJob, FailAttempt, StalledCheck
    <3>2. pc'[r] = pc[r]
      BY <1>1, <2>2, HandlerDescends
         DEF Queue, TakeJob, CompleteJob, FailAttempt, StalledCheck, Goto
    <3>3. QED
      BY <3>1, <3>2
  <2>3. QED
    BY <2>1, <2>2
<1>2. ASSUME NEW m \in Msgs, Enqueue(m) PROVE Advances(r)
  BY <1>2 DEF Enqueue, Add
<1>3. ASSUME NEW m \in Msgs, Requeue(m) PROVE Advances(r)
  BY <1>3 DEF Requeue, Add
<1>4. CASE WorkerCrash
  <2>1. CASE pc[r] = "idle"
    BY <1>4, <2>1 DEF WorkerCrash
  <2>2. CASE pc[r] # "idle"
    <3>1. job' = job /\ job[r].state = "active" /\ pc'[r] = "idle"
      BY <1>4, <2>2 DEF WorkerCrash, JobInv
    <3>2. Rank(r) = 17 * Chances(r) + Height[pc[r]]
      BY <3>1 DEF Rank
    <3>3. Rank(r)' = 17 * Chances(r) + Height["idle"]
      BY <3>1 DEF Rank, Chances
    <3>4. Height["idle"] < Height[pc[r]]
      BY <2>2 DEF Height, Steps
    <3>5. Chances(r) \in Nat /\ Height["idle"] \in 0..15 /\ Height[pc[r]] \in 0..15
      BY <3>1, RankTyped, HeightTyped DEF Steps
    <3>6. QED
      BY <3>2, <3>3, <3>4, <3>5
  <2>3. QED
    BY <2>1, <2>2
<1>5. ASSUME NEW m \in Msgs, Insert(m) \/ ReconcileScan(m) \/ ReconcileLink(m)
      PROVE  Advances(r)
  BY <1>5 DEF Insert, ReconcileScan, ReconcileLink
<1>6. ASSUME NEW o \in Outbounds, RecordOutbound(o) \/ BackfillResets(o)
      PROVE  Advances(r)
  BY <1>6 DEF RecordOutbound, BackfillResets
<1>7. CASE SyncThreadScript
  BY <1>7 DEF SyncThreadScript
<1>8. CASE UNCHANGED vars
  BY <1>8 DEF vars
<1>9. QED
  BY <1>1, <1>2, <1>3, <1>4, <1>5, <1>6, <1>7, <1>8 DEF Next, Scripts


\* Steps of other runs leave the job and the handler of run r alone.
LEMMA OtherRun ==
  ASSUME TypeOK, NEW q \in Runs, Queue(q) \/ Handler(q), NEW r \in Runs, r # q
  PROVE  job'[r] = job[r] /\ pc'[r] = pc[r]
<1>1. job'[r] = job[r]
  BY HandlerDescends DEF Queue, TakeJob, CompleteJob, FailAttempt, StalledCheck, TypeOK
<1>2. pc'[r] = pc[r]
  BY HandlerDescends
     DEF Queue, TakeJob, CompleteJob, FailAttempt, StalledCheck, Goto, TypeOK, runVars
<1>3. QED
  BY <1>1, <1>2

\* Every step keeps JobInv.
LEMMA NextJob == TypeOK /\ JobInv /\ [Next]_vars => JobInv'
<1> DEFINE Good(r) ==
      /\ pc[r] # "idle" => job[r].state = "active"
      /\ job[r].state \in {"waiting", "active"} =>
          job[r].tries < Attempts /\ job[r].stalls <= MaxStalledCount
<1> SUFFICES ASSUME TypeOK, JobInv, [Next]_vars, NEW r \in Runs PROVE Good(r)'
  BY DEF JobInv
<1> USE MatchAssumption DEF TypeOK, queueVars, runVars
<1>0. job[r] \in Job /\ Good(r)
  BY DEF JobInv
<1>1. ASSUME NEW q \in Runs, Queue(q) \/ Handler(q) PROVE Good(r)'
  <2>1. CASE q # r
    BY <1>0, <1>1, <2>1, OtherRun
  <2>2. CASE q = r /\ Handler(q)
    <3>1. job' = job /\ pc[r] # "idle"
      BY <2>2, HandlerDescends
    <3>2. QED
      BY <1>0, <3>1
  <2>3. CASE q = r /\ TakeJob(q)
    BY <1>0, <2>3 DEF TakeJob, Start, Job
  <2>4. CASE q = r /\ CompleteJob(q)
    BY <1>0, <2>4 DEF CompleteJob, Complete, Goto, Job
  <2>5. CASE q = r /\ FailAttempt(q)
    BY <1>0, <2>5 DEF FailAttempt, AfterThrow, Goto, Job
  <2>6. CASE q = r /\ StalledCheck(q)
    BY <1>0, <2>6 DEF StalledCheck, AfterStall, Job, MaxStalledCount
  <2>7. QED
    BY <1>1, <2>1, <2>2, <2>3, <2>4, <2>5, <2>6 DEF Queue
<1>2. ASSUME NEW m \in Msgs, Enqueue(m) PROVE Good(r)'
  <2>1. pc' = pc /\ job'[r] \in {job[r], Add(job[r])}
    BY <1>2 DEF Enqueue
  <2>2. \/ Add(job[r]).tries < Attempts /\ Add(job[r]).stalls <= MaxStalledCount
        \/ Add(job[r]) = job[r]
    BY DEF Add, NoJob, MaxStalledCount
  <2>3. pc[r] # "idle" => Add(job[r]) = job[r]
    BY <1>0 DEF Add
  <2>4. QED
    BY <1>0, <2>1, <2>2, <2>3
<1>3. ASSUME NEW m \in Msgs, Requeue(m) PROVE Good(r)'
  <2>1. pc' = pc /\ job'[r] \in {job[r], Add(job[r])}
    BY <1>3 DEF Requeue
  <2>2. \/ Add(job[r]).tries < Attempts /\ Add(job[r]).stalls <= MaxStalledCount
        \/ Add(job[r]) = job[r]
    BY DEF Add, NoJob, MaxStalledCount
  <2>3. pc[r] # "idle" => Add(job[r]) = job[r]
    BY <1>0 DEF Add
  <2>4. QED
    BY <1>0, <2>1, <2>2, <2>3
<1>4. CASE WorkerCrash
  BY <1>0, <1>4 DEF WorkerCrash
<1>5. ASSUME NEW m \in Msgs, Insert(m) \/ ReconcileScan(m) \/ ReconcileLink(m)
      PROVE  Good(r)'
  BY <1>0, <1>5 DEF Insert, ReconcileScan, ReconcileLink
<1>6. ASSUME NEW o \in Outbounds, RecordOutbound(o) \/ BackfillResets(o)
      PROVE  Good(r)'
  BY <1>0, <1>6 DEF RecordOutbound, BackfillResets
<1>7. CASE SyncThreadScript
  BY <1>0, <1>7 DEF SyncThreadScript
<1>8. CASE UNCHANGED vars
  BY <1>0, <1>8 DEF vars
<1>9. QED
  BY <1>1, <1>2, <1>3, <1>4, <1>5, <1>6, <1>7, <1>8 DEF Next, Scripts

\* A row is never taken back: once it is there it stays, once it is settled it stays so.
LEMMA RowsStay ==
  TypeOK /\ VerdictInv /\ [Next]_vars =>
    \A m \in Msgs : /\ inbox[m] # "absent" => inbox'[m] # "absent"
                    /\ Settled(m) => Settled(m)'
<1> SUFFICES ASSUME TypeOK, VerdictInv, [Next]_vars, NEW m \in Msgs
             PROVE  /\ inbox[m] # "absent" => inbox'[m] # "absent"
                    /\ Settled(m) => Settled(m)'
  OBVIOUS
<1> USE DEF TypeOK, Settled, inboxVars
<1>1. ASSUME NEW n \in Msgs, Insert(n)
      PROVE  inbox[m] = "absent" \/ inbox'[m] = inbox[m]
  BY <1>1 DEF Insert
<1>2. ASSUME NEW n \in Msgs, ReconcileLink(n)
      PROVE  Settled(m)' \/ inbox'[m] = inbox[m]
  BY <1>2 DEF ReconcileLink
<1>3. ASSUME NEW r \in Runs, Ignore(r)
      PROVE  Settled(m)' \/ inbox'[m] = inbox[m]
  BY <1>3 DEF Ignore, Try
<1>4. ASSUME NEW r \in Runs, MarkMatched(r)
      PROVE  Settled(m)' \/ inbox'[m] = inbox[m]
  <2>1. StatusOf[verdict[r].kind] \in Final
    BY <1>4 DEF MarkMatched, VerdictInv, Decided, StatusOf, Final
  <2>2. QED
    BY <1>4, <2>1 DEF MarkMatched, Try, Final
<1>5. ASSUME NEW r \in Runs, Queue(r) \/ Handler(r), ~Ignore(r), ~MarkMatched(r)
      PROVE  inbox' = inbox
  BY <1>5 DEF Queue, Handler, TakeJob, CompleteJob, FailAttempt, StalledCheck, ReadRow,
              SyncThread, FlipThread, Classify, Guess, LookUp, SetThread,
              LookupConversation, UpdateConversation, InsertConversation, CreateChild,
              WriteBounce, Stamp
<1>6. ASSUME NEW n \in Msgs, Enqueue(n) \/ ReconcileScan(n) \/ Requeue(n) PROVE inbox' = inbox
  BY <1>6 DEF Enqueue, ReconcileScan, Requeue
<1>7. ASSUME NEW o \in Outbounds, RecordOutbound(o) \/ BackfillResets(o)
      PROVE  inbox' = inbox
  BY <1>7 DEF RecordOutbound, BackfillResets
<1>8. WorkerCrash \/ SyncThreadScript \/ UNCHANGED vars => inbox' = inbox
  BY DEF WorkerCrash, SyncThreadScript, vars
<1>9. QED
  BY <1>1, <1>2, <1>3, <1>4, <1>5, <1>6, <1>7, <1>8 DEF Next, Scripts


\* Every step keeps SettledInv.
LEMMA NextSettled ==
  TypeOK /\ VerdictInv /\ JobInv /\ SettledInv /\ [Next]_vars => SettledInv'
<1> DEFINE Good(r) ==
      /\ job[r].state # "none" => inbox[r[1]] # "absent"
      /\ pc[r] \in {"sync", "flip", "return"} \cup Marked => Settled(r[1])
      /\ job[r].state = "completed" => Settled(r[1])
      /\ pc[r] = "throw" => Settled(r[1]) \/ "postgres" \in Faults
<1> SUFFICES ASSUME TypeOK, VerdictInv, JobInv, SettledInv, [Next]_vars
             PROVE  SettledInv'
  OBVIOUS
<1> USE MatchAssumption DEF TypeOK, queueVars, runVars, inboxVars
<1>0. /\ \A m \in Msgs : inbox[m] # "absent" => inbox'[m] # "absent"
      /\ \A m \in Msgs : Settled(m) => Settled(m)'
  BY RowsStay
<1>1. \A r \in Runs : r[1] \in Msgs /\ job[r] \in Job /\ Good(r)
  BY RunTyped DEF SettledInv
<1>2. ASSUME NEW q \in Runs, Handler(q) PROVE Good(q)'
  <2>1. job' = job /\ job[q].state = "active"
    BY <1>2, HandlerDescends DEF JobInv
  <2>2. inbox'[q[1]] # "absent"
    BY <1>0, <1>1, <2>1
  <2>3. Settled(q[1]) => Settled(q[1])'
    BY <1>0, <1>1
  <2>4. /\ pc'[q] \in {"sync", "flip", "return"} \cup Marked => Settled(q[1])'
        /\ pc'[q] = "throw" => Settled(q[1])' \/ "postgres" \in Faults
    <3>1. CASE ReadRow(q)
      BY <1>1, <2>3, <3>1 DEF ReadRow, Goto, Settled, Final, Marked
    <3>2. CASE SyncThread(q)
      BY <1>1, <2>3, <3>2 DEF SyncThread, Goto, Marked
    <3>3. CASE FlipThread(q)
      BY <1>1, <2>3, <3>3 DEF FlipThread, Goto, Try, Marked
    <3>4. CASE Classify(q) \/ Guess(q)
      BY <3>4 DEF Classify, Guess, LookUp, Goto, Marked
    <3>5. CASE Ignore(q)
      BY <1>1, <3>5 DEF Ignore, Goto, Try, Settled, Marked
    <3>6. CASE SetThread(q)
      BY <3>6 DEF SetThread, Goto, Try, Marked
    <3>7. CASE MarkMatched(q)
      <4>1. StatusOf[verdict[q].kind] \in Final
        BY <3>7 DEF MarkMatched, VerdictInv, Decided, StatusOf, Final
      <4>2. QED
        BY <1>1, <3>7, <4>1 DEF MarkMatched, Goto, Try, Settled, Marked, Final
    <3>8. CASE LookupConversation(q)
      BY <1>1, <2>3, <3>8 DEF LookupConversation, Goto, Marked
    <3>9. CASE UpdateConversation(q)
      BY <1>1, <2>3, <3>9 DEF UpdateConversation, Goto, Try, Marked
    <3>10. CASE InsertConversation(q)
      BY <1>1, <2>3, <3>10 DEF InsertConversation, Goto, Try, Marked
    <3>11. CASE CreateChild(q)
      BY <1>1, <2>3, <3>11 DEF CreateChild, Goto, Marked
    <3>12. CASE WriteBounce(q)
      BY <1>1, <2>3, <3>12 DEF WriteBounce, Goto, Try, Marked
    <3>13. CASE Stamp(q)
      BY <1>1, <2>3, <3>13 DEF Stamp, Goto, Marked
    <3>14. QED
      BY <1>2, <3>1, <3>2, <3>3, <3>4, <3>5, <3>6, <3>7, <3>8, <3>9, <3>10, <3>11, <3>12,
         <3>13 DEF Handler
  <2>5. QED
    BY <2>1, <2>2, <2>4
<1>3. ASSUME NEW q \in Runs, Queue(q) PROVE Good(q)'
  <2>1. Good(q) /\ job[q] \in Job
    BY <1>1
  <2>2. inbox' = inbox
    BY <1>3 DEF Queue, TakeJob, CompleteJob, FailAttempt, StalledCheck
  <2>3. Settled(q[1])' = Settled(q[1])
    BY <2>2 DEF Settled
  <2>4. job'[q].state # "none" => job[q].state # "none"
    BY <1>3 DEF Queue, TakeJob, CompleteJob, FailAttempt, StalledCheck, JobInv
  <2>5. pc'[q] \in {"read", "idle"}
    BY <1>3 DEF Queue, TakeJob, CompleteJob, FailAttempt, StalledCheck, Goto
  <2>6. job'[q].state = "completed" => job[q].state = "completed" \/ pc[q] = "return"
    BY <1>3, <2>1
       DEF Queue, TakeJob, CompleteJob, FailAttempt, StalledCheck, Start, AfterThrow,
           AfterStall, Job
  <2>7. QED
    BY <2>1, <2>2, <2>3, <2>4, <2>5, <2>6 DEF Marked
<1>4. ASSUME NEW q \in Runs, Handler(q) \/ Queue(q) PROVE SettledInv'
  <2>1. \A r \in Runs \ {q} : Good(r)'
    <3> SUFFICES ASSUME NEW r \in Runs, r # q PROVE Good(r)'
      OBVIOUS
    <3>1. job'[r] = job[r] /\ pc'[r] = pc[r]
      BY <1>4, OtherRun
    <3>2. QED
      BY <1>0, <1>1, <3>1
  <2>2. pending' = pending
    BY <1>4, HandlerDescends DEF Queue, TakeJob, CompleteJob, FailAttempt, StalledCheck
  <2>3. Good(q)'
    BY <1>2, <1>3, <1>4
  <2>4. QED
    BY <1>0, <2>1, <2>2, <2>3 DEF SettledInv
<1>5. ASSUME NEW m \in Msgs, Insert(m) PROVE SettledInv'
  <2>1. \A r \in Runs : Good(r)'
    <3> SUFFICES ASSUME NEW r \in Runs PROVE Good(r)'
      OBVIOUS
    <3>1. job' = job /\ pc' = pc
      BY <1>5 DEF Insert
    <3>2. QED
      BY <1>0, <1>1, <3>1
  <2>2. \A n \in pending' : inbox'[n] # "absent"
    BY <1>0, <1>5 DEF Insert, SettledInv
  <2>3. QED
    BY <2>1, <2>2 DEF SettledInv
<1>6. ASSUME NEW m \in Msgs, Enqueue(m) \/ Requeue(m) PROVE SettledInv'
  <2>1. \A r \in Runs : Good(r)'
    <3> SUFFICES ASSUME NEW r \in Runs PROVE Good(r)'
      OBVIOUS
    <3>1. \/ job'[r] = job[r]
          \/ r[1] = m /\ job'[r] = Add(job[r])
      <4>1. \E slot \in Slots :
                job' \in {job, [job EXCEPT ![<<m, slot>>] = Add(job[<<m, slot>>])]}
        BY <1>6 DEF Enqueue, Requeue
      <4>2. PICK slot \in Slots :
                job' \in {job, [job EXCEPT ![<<m, slot>>] = Add(job[<<m, slot>>])]}
        BY <4>1
      <4>3. <<m, slot>> \in Runs
        BY DEF Runs
      <4>4. CASE r = <<m, slot>>
        <5>1. r[1] = m
          BY <4>4
        <5>2. job'[r] \in {job[r], Add(job[r])}
          BY <4>2, <4>3, <4>4
        <5>3. QED
          BY <5>1, <5>2
      <4>5. CASE r # <<m, slot>>
        BY <4>2, <4>5
      <4>6. QED
        BY <4>4, <4>5
    <3>2. pc' = pc /\ inbox' = inbox /\ inbox[m] # "absent"
      BY <1>6 DEF Enqueue, Requeue, SettledInv
    <3>3. Add(job[r]).state = "completed" => job[r].state = "completed"
      BY DEF Add, NoJob
    <3>4. QED
      BY <1>0, <1>1, <3>1, <3>2, <3>3
  <2>2. pending' \subseteq pending /\ inbox' = inbox
    BY <1>6 DEF Enqueue, Requeue
  <2>3. QED
    BY <2>1, <2>2 DEF SettledInv
<1>7. CASE WorkerCrash
  <2>1. job' = job /\ inbox' = inbox /\ pending' = {} /\ \A r \in Runs : pc'[r] = "idle"
    BY <1>7 DEF WorkerCrash
  <2>2. QED
    BY <1>0, <1>1, <2>1 DEF SettledInv, Marked
<1>8. ASSUME UNCHANGED <<job, pc, pending>> PROVE SettledInv'
  BY <1>0, <1>1, <1>8 DEF SettledInv
<1>9. ASSUME NEW m \in Msgs, ReconcileScan(m) \/ ReconcileLink(m) PROVE SettledInv'
  BY <1>8, <1>9 DEF ReconcileScan, ReconcileLink
<1>10. ASSUME NEW o \in Outbounds, RecordOutbound(o) \/ BackfillResets(o)
      PROVE  SettledInv'
  BY <1>8, <1>10 DEF RecordOutbound, BackfillResets
<1>11. SyncThreadScript \/ UNCHANGED vars => SettledInv'
  BY <1>8 DEF SyncThreadScript, vars
<1>12. QED
  BY <1>4, <1>5, <1>6, <1>7, <1>9, <1>10, <1>11 DEF Next, Scripts


\* Every step keeps StallInv.
LEMMA NextStall ==
  TypeOK /\ VerdictInv /\ JobInv /\ SettledInv /\ StallInv /\ [Next]_vars => StallInv'
<1> DEFINE Lost(r) == IF job[r].state = "active" /\ pc[r] = "idle" THEN 1 ELSE 0
           Good(r) ==
             /\ job[r].stalls + Lost(r) <= crashes
             /\ job[r].state = "failed" =>
                 Settled(r[1]) \/ "postgres" \in Faults \/ crashes > MaxStalledCount
<1> SUFFICES ASSUME TypeOK, VerdictInv, JobInv, SettledInv, StallInv, [Next]_vars,
                    NEW r \in Runs
             PROVE  Good(r)'
  BY DEF StallInv
<1> USE MatchAssumption DEF TypeOK, queueVars, runVars, inboxVars
<1>0. /\ Good(r) /\ job[r] \in Job /\ r[1] \in Msgs
      /\ Settled(r[1]) => Settled(r[1])'
      /\ crashes \in Nat /\ Lost(r) \in {0, 1}
  BY RunTyped, RowsStay DEF StallInv
<1>1. ASSUME job'[r] = job[r], pc'[r] = pc[r], crashes' = crashes PROVE Good(r)'
  BY <1>0, <1>1
<1>2. ASSUME NEW q \in Runs, Handler(q) \/ Queue(q) PROVE Good(r)'
  <2>1. crashes' = crashes
    BY <1>2, HandlerDescends DEF Queue, TakeJob, CompleteJob, FailAttempt, StalledCheck
  <2>2. CASE q # r
    BY <1>1, <1>2, <2>1, <2>2, OtherRun
  <2>3. CASE q = r /\ Handler(q)
    <3>1. job' = job /\ pc[r] # "idle" /\ \E s \in Steps \ {"idle"} : pc' = [pc EXCEPT ![r] = s]
      BY <2>3, HandlerDescends
    <3>2. Lost(r) = 0 /\ Lost(r)' = 0
      BY <3>1
    <3>3. QED
      BY <1>0, <2>1, <3>1, <3>2
  <2>4. CASE q = r /\ TakeJob(q)
    <3>1. /\ job'[r].stalls = job[r].stalls /\ job'[r].state = "active"
          /\ pc'[r] = "read"
      BY <1>0, <2>4 DEF TakeJob, Start, Goto, Job
    <3>2. Lost(r)' = 0 /\ job[r].stalls \in Nat
      BY <1>0, <3>1 DEF Job
    <3>3. QED
      BY <1>0, <2>1, <3>1, <3>2
  <2>5. CASE q = r /\ CompleteJob(q)
    <3>1. job'[r].stalls = job[r].stalls /\ job'[r].state = "completed"
      BY <1>0, <2>5 DEF CompleteJob, Complete, Job
    <3>2. Lost(r)' = 0 /\ job[r].stalls \in Nat
      BY <1>0, <3>1 DEF Job
    <3>3. QED
      BY <1>0, <2>1, <3>1, <3>2
  <2>6. CASE q = r /\ FailAttempt(q)
    <3>1. /\ job'[r].stalls = job[r].stalls /\ job'[r].state \in {"waiting", "failed"}
          /\ pc[r] = "throw"
      BY <1>0, <2>6 DEF FailAttempt, AfterThrow, Job
    <3>2. Settled(r[1])' \/ "postgres" \in Faults
      BY <1>0, <3>1 DEF SettledInv
    <3>3. QED
      BY <1>0, <2>1, <3>1, <3>2
  <2>7. CASE q = r /\ StalledCheck(q)
    <3>1. /\ Lost(r) = 1 /\ Lost(r)' = 0
          /\ \/ job'[r].stalls = job[r].stalls + 1 /\ job'[r].state = "waiting"
             \/ /\ job'[r].stalls = job[r].stalls /\ job'[r].state = "failed"
                /\ job[r].stalls >= MaxStalledCount
      BY <1>0, <2>7 DEF StalledCheck, AfterStall, Job, MaxStalledCount
    <3>2. QED
      BY <1>0, <2>1, <3>1 DEF Job, MaxStalledCount
  <2>8. QED
    BY <1>2, <2>2, <2>3, <2>4, <2>5, <2>6, <2>7 DEF Queue
<1>3. ASSUME NEW m \in Msgs, Enqueue(m) \/ Requeue(m) PROVE Good(r)'
  <2>1. /\ pc' = pc /\ crashes' = crashes
        /\ job'[r] \in {job[r], [NoJob EXCEPT !.state = "waiting"]}
    BY <1>3 DEF Enqueue, Requeue, Add
  <2>2. job'[r] = [NoJob EXCEPT !.state = "waiting"] =>
           job'[r].stalls = 0 /\ job'[r].state = "waiting" /\ Lost(r)' = 0
    BY DEF NoJob
  <2>3. CASE job'[r] = job[r]
    BY <1>1, <2>1, <2>3
  <2>4. CASE job'[r] # job[r]
    <3>1. job'[r].stalls = 0 /\ job'[r].state = "waiting" /\ Lost(r)' = 0
      BY <2>1, <2>2, <2>4
    <3>2. QED
      BY <1>0, <2>1, <3>1
  <2>5. QED
    BY <2>3, <2>4
<1>4. CASE WorkerCrash
  <2>1. job' = job /\ crashes' = crashes + 1
    BY <1>4 DEF WorkerCrash
  <2>2. Lost(r)' \in {0, 1} /\ job[r].stalls \in Nat
    BY <1>0 DEF Job
  <2>3. QED
    BY <1>0, <2>1, <2>2 DEF MaxStalledCount
<1>5. ASSUME NEW m \in Msgs, Insert(m) \/ ReconcileScan(m) \/ ReconcileLink(m)
      PROVE  Good(r)'
  BY <1>1, <1>5 DEF Insert, ReconcileScan, ReconcileLink
<1>6. ASSUME NEW o \in Outbounds, RecordOutbound(o) \/ BackfillResets(o)
      PROVE  Good(r)'
  BY <1>1, <1>6 DEF RecordOutbound, BackfillResets
<1>7. SyncThreadScript \/ UNCHANGED vars => Good(r)'
  BY <1>1 DEF SyncThreadScript, vars
<1>8. QED
  BY <1>2, <1>3, <1>4, <1>5, <1>6, <1>7 DEF Next, Scripts

\* The three invariants hold always.
LEMMA JobInvariance == Spec => [](JobInv /\ SettledInv /\ StallInv)
<1>1. Init => JobInv /\ SettledInv /\ StallInv
  BY MatchAssumption
     DEF Init, JobInv, SettledInv, StallInv, Marked, NoJob, MaxStalledCount, Runs
<1>2. IInv /\ JobInv /\ SettledInv /\ StallInv /\ [Next]_vars =>
         JobInv' /\ SettledInv' /\ StallInv'
  BY NextJob, NextSettled, NextStall DEF IInv
<1>3. QED
  BY <1>1, <1>2, Invariance, PTL DEF Spec

\* A job of the match queue never comes back to where it was: each step of its handler
\* and of the queue, crashes and stalls included, lowers a natural number, until the job
\* is finished.  With the fairness of the queue and of Node, which TLC adds, every job
\* ends: this is what "attempts", maxStalledCount and a handler without loops are for.
THEOREM JobsAdvance ==
  Spec => /\ [](\A r \in Runs : Rank(r) \in Nat)
          /\ [][\A r \in Runs : job[r].state # "none" => Advances(r)]_vars
<1>1. IInv /\ JobInv => \A r \in Runs : Rank(r) \in Nat
  BY RankTyped DEF IInv
<1>2. IInv /\ JobInv /\ [Next]_vars =>
         [\A r \in Runs : job[r].state # "none" => Advances(r)]_vars
  BY NextAdvances DEF IInv
<1>3. QED
  BY <1>1, <1>2, Invariance, JobInvariance, PTL DEF Spec

\* No row is left unmatched by a job that completed, whatever fails and whatever races:
\* every way through processMatch that returns has read or written a verdict.
THEOREM CompletedIsSettled ==
  Spec => [](\A r \in Runs : job[r].state = "completed" => Settled(r[1]))
<1>1. SettledInv => \A r \in Runs : job[r].state = "completed" => Settled(r[1])
  BY DEF SettledInv
<1>2. QED
  BY <1>1, JobInvariance, PTL

\* Nor by one that failed, unless Postgres failed or the worker died more than once: the
\* calls to Graph and Notion, and the race for conversation_map, come after the verdict.
\* This is the part of QueuedRowsGetVerdict that is about what is done, not when.
THEOREM FailedIsSettled ==
  ASSUME "postgres" \notin Faults
  PROVE  Spec => [](\A r \in Runs :
                      job[r].state = "failed" => Settled(r[1]) \/ crashes > MaxStalledCount)
<1>1. StallInv => \A r \in Runs :
         job[r].state = "failed" => Settled(r[1]) \/ crashes > MaxStalledCount
  BY DEF StallInv
<1>2. QED
  BY <1>1, JobInvariance, PTL

=============================================================================

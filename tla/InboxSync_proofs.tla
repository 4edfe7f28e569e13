-------------------------- MODULE InboxSync_proofs --------------------------
(***************************************************************************)
(* Theorems about InboxSync, for any mails, folders, ticks and bounds.       *)
(***************************************************************************)
EXTENDS InboxSync, Integers, FiniteSetTheorems, TLAPS

-----------------------------------------------------------------------------
(* The times of a finite set of mails.                                       *)

\* A finite set of mails has a newest one: a smallest set without one would lose an
\* element and still have none.
LEMMA HasNewest ==
  ASSUME NEW S \in SUBSET Msgs, IsFiniteSet(S), S # {}
  PROVE  \E m \in S : \A other \in S : Received[other] <= Received[m]
<1> DEFINE Topped(R) == \E m \in R : \A other \in R : Received[other] <= Received[m]
           Bad == {R \in FiniteSubsetsOf(Msgs) : R # {} /\ ~Topped(R)}
<1> SUFFICES ASSUME ~Topped(S) PROVE FALSE
  OBVIOUS
<1>1. S \in Bad /\ Bad \subseteq FiniteSubsetsOf(Msgs)
  BY DEF FiniteSubsetsOf
<1>2. PICK R \in Bad : \A smaller \in Bad : <<smaller, R>> \notin StrictSubsetOrdering(Msgs)
  <2>1. IsWellFoundedOn(StrictSubsetOrdering(Msgs), FiniteSubsetsOf(Msgs))
    BY FS_StrictSubsetOrderingWellFounded
  <2> HIDE DEF Bad
  <2>2. QED
    BY <1>1, <2>1, WFMin
<1>3. R \in SUBSET Msgs /\ IsFiniteSet(R) /\ R # {} /\ ~Topped(R)
  BY <1>2 DEF FiniteSubsetsOf
<1>4. PICK m \in R : TRUE
  BY <1>3
<1> DEFINE rest == R \ {m}
<1>5. rest \in FiniteSubsetsOf(Msgs) /\ <<rest, R>> \in StrictSubsetOrdering(Msgs)
  BY <1>3, <1>4, FS_RemoveElement DEF FiniteSubsetsOf, StrictSubsetOrdering
<1>6. rest = {} \/ Topped(rest)
  BY <1>2, <1>5
<1>7. \A other \in R : Received[other] \in Nat
  BY <1>3, SyncAssumption
<1>8. CASE rest = {}
  BY <1>3, <1>4, <1>7, <1>8
<1>9. CASE Topped(rest)
  <2>1. PICK top \in rest : \A other \in rest : Received[other] <= Received[top]
    BY <1>9
  <2>2. \A other \in R : other = m \/ other \in rest
    OBVIOUS
  <2>3. CASE Received[m] <= Received[top]
    BY <1>3, <2>1, <2>2, <2>3
  <2>4. CASE Received[top] <= Received[m]
    BY <1>3, <1>4, <1>7, <2>1, <2>2, <2>4
  <2>5. QED
    BY <1>4, <1>7, <2>3, <2>4
<1>10. QED
  BY <1>6, <1>8, <1>9

\* What Latest returns: one of the times, and no time of the set is later.
LEMMA LatestIs ==
  ASSUME NEW S \in SUBSET Msgs, IsFiniteSet(S), NEW t \in Nat
  PROVE  /\ Latest(t, S) \in Nat
         /\ Latest(t, S) \in {t} \cup {Received[m] : m \in S}
         /\ t <= Latest(t, S)
         /\ \A m \in S : Received[m] <= Latest(t, S)
<1> DEFINE times == {t} \cup {Received[m] : m \in S}
<1>1. \A m \in S : Received[m] \in Nat
  BY SyncAssumption
<1>2. \E max \in times : \A other \in times : other <= max
  <2>1. CASE S = {}
    BY <2>1
  <2>2. CASE S # {}
    <3>1. PICK m \in S : \A other \in S : Received[other] <= Received[m]
      BY <2>2, HasNewest
    <3>2. CASE Received[m] <= t
      BY <1>1, <3>1, <3>2
    <3>3. CASE t <= Received[m]
      BY <1>1, <3>1, <3>3
    <3>4. QED
      BY <1>1, <3>1, <3>2, <3>3
  <2>3. QED
    BY <2>1, <2>2
<1>3. Latest(t, S) \in times /\ \A other \in times : other <= Latest(t, S)
  BY <1>2 DEF Latest
<1>4. QED
  BY <1>1, <1>3

-----------------------------------------------------------------------------
(* Types.  The newest time of a batch is one because only finitely many mails *)
(* have arrived.                                                             *)

Typed == TypeOK /\ IsFiniteSet(arrived)

\* The runs of the queues are not walks.
LEMMA RunsTyped ==
  /\ \A r \in Jobs : r \in Runs /\ r \notin Deltas
  /\ \A k \in Ticks : <<"delta", k>> \in Deltas
  /\ \A f \in Folders : <<"poll", f>> \in Jobs
  /\ \A m \in Msgs : <<"webhook", m>> \in Jobs
  /\ Deltas \subseteq Runs
<1>1. \A r \in Polls : r \notin Deltas
  BY DEF Polls, Deltas
<1>2. \A r \in Webhooks : r \notin Deltas
  BY DEF Webhooks, Deltas
<1>3. QED
  BY <1>1, <1>2 DEF Runs, Jobs, Polls, Webhooks, Deltas

\* BullMQ's transitions lead from jobs to jobs.
LEMMA JobsTyped ==
  /\ NoJob \in Job
  /\ \A j \in Job : Add(j) \in Job /\ Start(j) \in Job /\ Complete(j) \in Job
  /\ \A j \in Job : AfterStall(j) \in Job
  /\ \A j \in Job, n \in Nat : AfterThrow(j, n) \in Job
<1>1. NoJob \in Job
  BY DEF NoJob, Job, JobStates
<1>2. \A j \in Job : Add(j) \in Job
  BY DEF Add, NoJob, Job, JobStates
<1>3. \A j \in Job : Start(j) \in Job /\ Complete(j) \in Job
  BY DEF Start, Complete, Job, JobStates
<1>4. \A j \in Job : AfterStall(j) \in Job
  BY DEF AfterStall, Job, JobStates
<1>5. \A j \in Job, n \in Nat : AfterThrow(j, n) \in Job
  BY DEF AfterThrow, Job, JobStates
<1>6. QED
  BY <1>1, <1>2, <1>3, <1>4, <1>5

\* The types hold at the start.
LEMMA InitTyped == Init => Typed
<1> SUFFICES ASSUME Init PROVE Typed
  OBVIOUS
<1>1. IsFiniteSet(arrived)
  BY FS_EmptySet DEF Init
<1>2. at \in [Ticks -> Folders]
  <2>1. CASE Ticks = {}
    BY <2>1 DEF Init
  <2>2. CASE Folders # {}
    BY <2>2 DEF Init
  <2>3. QED
    BY <2>1, <2>2, SyncAssumption
<1>3. job \in [Jobs -> Job]
  BY JobsTyped DEF Init
<1>4. QED
  BY <1>1, <1>2, <1>3 DEF Init, Typed, TypeOK, Nothing, Steps

\* A run moves on.
LEMMA GotoTyped ==
  ASSUME Typed, NEW r, NEW step \in Steps, Goto(r, step)
  PROVE  pc' \in [Runs -> Steps]
BY DEF Typed, TypeOK, Goto

\* A batch begins.
LEMMA BatchTyped ==
  ASSUME Typed, NEW r \in Runs, NEW batch \in SUBSET Msgs, IsFiniteSet(batch),
         NEW step \in Steps, Take(r, batch, step)
  PROVE  /\ todo' \in [Runs -> SUBSET Msgs]
         /\ fresh' \in [Runs -> BOOLEAN]
         /\ newest' \in [Runs -> Nat]
         /\ pc' \in [Runs -> Steps]
<1>1. Latest(newest[r], batch) \in Nat
  BY LatestIs DEF Typed, TypeOK
<1>2. QED
  BY <1>1 DEF Typed, TypeOK, Take, Goto

\* What Graph has is finite, and mail.
LEMMA ArrivedTyped ==
  ASSUME Typed, NEW batch \in SUBSET arrived
  PROVE  batch \in SUBSET Msgs /\ IsFiniteSet(batch)
BY FS_Subset DEF Typed, TypeOK

\* The steps of a run on its batch.
LEMMA BatchTypes ==
  ASSUME Typed, NEW r \in Runs, IngestSteps(r)
  PROVE  Typed'
<1>1. UNCHANGED <<arrived, linkVars, job, tickVars, seen, newest, crashes, expiries>>
  BY DEF IngestSteps, IngestEnd, SetCursor, Ingest, batchVars, boundVars
<1>2. CASE IngestEnd(r)
  BY <1>1, <1>2 DEF Typed, TypeOK, IngestEnd, Goto, Steps, storeVars, linkVars, tickVars,
     batchVars, boundVars
<1>3. CASE SetCursor(r)
  BY <1>1, <1>3 DEF Typed, TypeOK, SetCursor, Fails, Goto, Steps, linkVars, tickVars, batchVars
<1>4. ASSUME NEW m \in Msgs, Ingest(r, m)
      PROVE  Typed'
  <2>1. rows' \subseteq Msgs /\ UNCHANGED cursor
    BY <1>4 DEF Typed, TypeOK, Ingest
  <2>2. todo' \in [Runs -> SUBSET Msgs] /\ fresh' \in [Runs -> BOOLEAN]
    <3>1. /\ todo' = todo \/ todo' = [todo EXCEPT ![r] = @ \ {m}]
          /\ fresh' = fresh \/ fresh' = [fresh EXCEPT ![r] = @ \/ m \notin rows]
      BY <1>4 DEF Ingest
    <3>2. todo' \in [Runs -> SUBSET Msgs]
      BY <3>1 DEF Typed, TypeOK
    <3>3. fresh' \in [Runs -> BOOLEAN]
      BY <3>1 DEF Typed, TypeOK
    <3>4. QED
      BY <3>2, <3>3
  <2>3. pc' \in [Runs -> Steps] /\ failures' \in Nat
    BY <1>4 DEF Typed, TypeOK, Ingest, Fails, Goto, Steps
  <2>4. QED
    BY <1>1, <2>1, <2>2, <2>3 DEF Typed, TypeOK, linkVars, tickVars
<1>5. QED
  BY <1>2, <1>3, <1>4 DEF IngestSteps

\* The polls and the handlers of notifications.
LEMMA FetchTypes ==
  ASSUME Typed, NEW r \in Runs,
         \/ \E f \in Folders : r = <<"poll", f>> /\ (PollRead(f) \/ PollPull(f))
         \/ \E m \in Msgs : r = <<"webhook", m>> /\ WebhookFetch(m)
  PROVE  Typed'
<1>1. CASE \E f \in Folders : r = <<"poll", f>> /\ PollRead(f)
  <2>1. PICK f \in Folders : r = <<"poll", f>> /\ PollRead(f)
    BY <1>1
  <2>2. since' \in [Folders -> Nat]
    BY <2>1, SyncAssumption DEF Typed, TypeOK, PollRead
  <2>3. pc' \in [Runs -> Steps] /\ failures' \in Nat
    <3>1. \E step \in Steps : Goto(r, step)
      BY <2>1 DEF PollRead, Steps
    <3>2. failures' \in {failures, failures + 1}
      BY <2>1 DEF PollRead, Fails
    <3>3. QED
      BY <3>1, <3>2, GotoTyped DEF Typed, TypeOK
  <2>4. QED
    BY <2>1, <2>2, <2>3 DEF Typed, TypeOK, PollRead, storeVars, linkVars, batchVars
<1>2. ASSUME NEW batch \in SUBSET Msgs, IsFiniteSet(batch), NEW step \in {"return", "last"},
             Take(r, batch, step), since' \in [Folders -> Nat],
             seen' \in [Runs -> SUBSET Msgs],
             UNCHANGED <<arrived, storeVars, linkVars, job, at, left, boundVars>>
      PROVE  Typed'
  <2>1. /\ todo' \in [Runs -> SUBSET Msgs]
        /\ fresh' \in [Runs -> BOOLEAN]
        /\ newest' \in [Runs -> Nat]
        /\ pc' \in [Runs -> Steps]
    BY <1>2, BatchTyped DEF Steps
  <2>2. QED
    BY <1>2, <2>1 DEF Typed, TypeOK, storeVars, linkVars, boundVars
<1>3. ASSUME NEW step \in {"return", "throw"}, Goto(r, step), since' \in [Folders -> Nat],
             failures' \in {failures, failures + 1},
             UNCHANGED <<arrived, storeVars, linkVars, job, at, left, batchVars, crashes, expiries>>
      PROVE  Typed'
  BY <1>3 DEF Typed, TypeOK, Goto, Steps, storeVars, linkVars, batchVars
<1>4. ASSUME NEW f \in Folders, r = <<"poll", f>>, PollPull(f)
      PROVE  Typed'
  <2>1. since' \in [Folders -> Nat]
    BY <1>4 DEF Typed, TypeOK, PollPull
  <2>2. ASSUME NEW page \in PagesAfter(f, since[f]),
               Take(r, page, IF page = {} THEN "return" ELSE "last"), UNCHANGED failures
        PROVE  Typed'
    <3>1. page \in SUBSET Msgs /\ IsFiniteSet(page)
      BY ArrivedTyped DEF PagesAfter, In
    <3>2. PICK step \in {"return", "last"} : Take(r, page, step)
      BY <2>2
    <3>3. QED
      BY <1>2, <1>4, <2>1, <2>2, <3>1, <3>2 DEF Typed, TypeOK, PollPull, boundVars
  <2>3. QED
    BY <1>3, <1>4, <2>1, <2>2 DEF PollPull, Fails, batchVars
<1>5. ASSUME NEW m \in Msgs, r = <<"webhook", m>>, WebhookFetch(m)
      PROVE  Typed'
  <2>1. UNCHANGED since
    BY <1>5 DEF WebhookFetch, tickVars
  <2>2. since' \in [Folders -> Nat]
    BY <2>1 DEF Typed, TypeOK
  <2>3. CASE seen' = [seen EXCEPT ![r] = {m}] /\ Take(r, {m}, "last") /\ UNCHANGED failures
    <3>1. seen' \in [Runs -> SUBSET Msgs]
      BY <2>3 DEF Typed, TypeOK
    <3>2. QED
      BY <1>2, <1>5, <2>2, <2>3, <3>1, FS_Singleton DEF WebhookFetch, tickVars, boundVars
  <2>4. CASE (Goto(r, "return") \/ Goto(r, "throw")) /\ UNCHANGED batchVars
    <3>1. \E step \in {"return", "throw"} : Goto(r, step)
      BY <2>4
    <3>2. failures' \in {failures, failures + 1}
      BY <1>5 DEF WebhookFetch, Fails
    <3>3. QED
      BY <1>3, <1>5, <2>2, <2>4, <3>1, <3>2 DEF WebhookFetch, tickVars
  <2>5. QED
    BY <1>5, <2>3, <2>4 DEF WebhookFetch, batchVars
<1>6. QED
  BY <1>1, <1>4, <1>5

\* The queues.
LEMMA QueueTypes ==
  ASSUME Typed, NEW r \in Jobs, Queue(r)
  PROVE  Typed'
<1>1. UNCHANGED <<arrived, storeVars, linkVars, tickVars, boundVars>>
  BY DEF Queue, TakeJob, CompleteJob, FailAttempt, StalledCheck
<1>2. job[r] \in Job /\ r \in Runs
  BY RunsTyped DEF Typed, TypeOK
<1>3. ASSUME NEW after \in Job, Finish(r, after)
      PROVE  job' \in [Jobs -> Job]
  BY <1>3, JobsTyped DEF Typed, TypeOK, Finish
<1>4. ASSUME job' \in [Jobs -> Job], Forget(r)
      PROVE  Typed'
  BY <1>1, <1>2, <1>4 DEF Typed, TypeOK, Forget, Goto, Steps, storeVars, linkVars, tickVars,
     boundVars
<1>5. CASE TakeJob(r)
  <2>1. job' \in [Jobs -> Job]
    BY <1>2, <1>5, JobsTyped DEF Typed, TypeOK, TakeJob
  <2>2. QED
    BY <1>1, <1>5, <2>1 DEF Typed, TypeOK, TakeJob, Goto, Steps, storeVars, linkVars, tickVars,
       batchVars, boundVars
<1>6. CASE CompleteJob(r)
  BY <1>2, <1>3, <1>4, <1>6, JobsTyped DEF CompleteJob
<1>7. CASE FailAttempt(r)
  <2> DEFINE after == AfterThrow(job[r], AttemptsOf(r))
  <2>1. after \in Job
    BY <1>2, JobsTyped, SyncAssumption DEF AttemptsOf
  <2>2. Finish(r, after) \/ job' = [job EXCEPT ![r] = after]
    BY <1>7 DEF FailAttempt
  <2>3. job' \in [Jobs -> Job]
    BY <1>3, <2>1, <2>2 DEF Typed, TypeOK
  <2>4. QED
    BY <1>4, <1>7, <2>3 DEF FailAttempt
<1>8. CASE StalledCheck(r)
  <2>1. job' \in [Jobs -> Job]
    BY <1>2, <1>8, JobsTyped DEF Typed, TypeOK, StalledCheck
  <2>2. QED
    BY <1>1, <1>8, <2>1 DEF Typed, TypeOK, StalledCheck, storeVars, linkVars, tickVars,
       batchVars, boundVars
<1>9. QED
  BY <1>5, <1>6, <1>7, <1>8 DEF Queue

\* The delta ticks.
LEMMA TickTypes ==
  ASSUME Typed, NEW k \in Ticks, DeltaSteps(k)
  PROVE  Typed'
<1> DEFINE r == <<"delta", k>>
<1>1. r \in Runs
  BY RunsTyped
<1>2. CASE DeltaTick(k)
  BY <1>2 DEF Typed, TypeOK, DeltaTick, storeVars, linkVars, batchVars, boundVars
<1>3. CASE DeltaPage(k)
  <2> DEFINE news == In(at[k]) \ seen[r]
  <2>1. ASSUME NEW page \in SUBSET news, seen' = [seen EXCEPT ![r] = @ \cup page],
               Take(r, page, IF page = news THEN "last" ELSE "ingest"), UNCHANGED failures
        PROVE  Typed'
    <3>1. page \in SUBSET Msgs /\ IsFiniteSet(page)
      BY ArrivedTyped DEF In
    <3>2. PICK step \in {"last", "ingest"} : Take(r, page, step)
      BY <2>1
    <3>3. /\ todo' \in [Runs -> SUBSET Msgs]
          /\ fresh' \in [Runs -> BOOLEAN]
          /\ newest' \in [Runs -> Nat]
          /\ pc' \in [Runs -> Steps]
      BY <1>1, <3>1, <3>2, BatchTyped DEF Steps
    <3>4. seen' \in [Runs -> SUBSET Msgs]
      BY <1>1, <2>1, <3>1 DEF Typed, TypeOK
    <3>5. QED
      BY <1>3, <2>1, <3>3, <3>4 DEF Typed, TypeOK, DeltaPage, storeVars, linkVars, tickVars
  <2>2. CASE Fails("graph") /\ Goto(r, "throw") /\ UNCHANGED <<seen, todo, fresh, newest>>
    <3>1. pc' \in [Runs -> Steps] /\ failures' \in Nat
      <4>1. \E step \in Steps : Goto(r, step)
        BY <2>2 DEF Steps
      <4>2. failures' \in {failures, failures + 1}
        BY <2>2 DEF Fails
      <4>3. QED
        BY <4>1, <4>2, GotoTyped DEF Typed, TypeOK
    <3>2. QED
      BY <1>3, <2>2, <3>1 DEF Typed, TypeOK, DeltaPage, storeVars, linkVars, tickVars
  <2>3. QED
    BY <1>3, <2>1, <2>2 DEF DeltaPage
<1>4. CASE SaveLink(k)
  <2>1. seen[r] \in SUBSET Msgs
    BY <1>1 DEF Typed, TypeOK
  <2>2. link' \in [Folders -> {NoLink} \cup SUBSET Msgs]
    BY <1>4, <2>1 DEF Typed, TypeOK, SaveLink
  <2>3. expired' \subseteq Folders
    BY <1>4 DEF Typed, TypeOK, SaveLink
  <2>4. pc' \in [Runs -> Steps] /\ failures' \in Nat
    <3>1. \E step \in Steps : Goto(r, step)
      BY <1>4 DEF SaveLink, Steps
    <3>2. failures' \in {failures, failures + 1}
      BY <1>4 DEF SaveLink, Fails
    <3>3. QED
      BY <3>1, <3>2, GotoTyped DEF Typed, TypeOK
  <2>5. QED
    BY <1>4, <2>2, <2>3, <2>4 DEF Typed, TypeOK, SaveLink, storeVars, tickVars, batchVars
<1>5. CASE DeltaEnd(k)
  BY <1>5 DEF Typed, TypeOK, DeltaEnd, Forget, Goto, Steps, storeVars, linkVars, tickVars,
     boundVars
<1>6. ASSUME NEW f \in Folders, DeltaRead(k, f)
      PROVE  Typed'
  <2>1. seen' \in [Runs -> SUBSET Msgs]
    BY <1>6 DEF Typed, TypeOK, DeltaRead
  <2>2. pc' \in [Runs -> Steps]
    BY <1>6 DEF Typed, TypeOK, DeltaRead, Goto, Steps
  <2>3. QED
    BY <1>6, <2>1, <2>2 DEF Typed, TypeOK, DeltaRead, Fails, storeVars, linkVars, boundVars
<1>7. CASE IngestSteps(r)
  BY <1>1, <1>7, BatchTypes
<1>8. QED
  BY <1>2, <1>3, <1>4, <1>5, <1>6, <1>7 DEF DeltaSteps

\* The subscription tick.
LEMMA SubscriptionTypes ==
  ASSUME Typed, NEW f \in Folders, SubscriptionSteps(f)
  PROVE  Typed'
<1>1. UNCHANGED <<arrived, storeVars, expired, job, pc, tickVars, batchVars, crashes, expiries>>
  BY DEF SubscriptionSteps, SubscriptionRead, SubscriptionFind, SubscriptionWrite,
         SubscriptionFails, boundVars
<1>2. link[f] \in {NoLink} \cup SUBSET Msgs /\ held[f].link \in {NoLink} \cup SUBSET Msgs
  BY DEF Typed, TypeOK
<1>3. held' \in [Folders -> [state: {"idle", "read", "found"}, link: {NoLink} \cup SUBSET Msgs]]
  <2>1. PICK state \in {"idle", "read", "found"}, kept \in {NoLink, link[f], held[f].link} :
            held' = [held EXCEPT ![f] = [state |-> state, link |-> kept]]
    BY DEF SubscriptionSteps, SubscriptionRead, SubscriptionFind, SubscriptionWrite,
           SubscriptionFails, Nothing
  <2>2. [state |-> state, link |-> kept]
            \in [state: {"idle", "read", "found"}, link: {NoLink} \cup SUBSET Msgs]
    BY <1>2
  <2>3. QED
    BY <2>1, <2>2 DEF Typed, TypeOK
<1>4. link' \in [Folders -> {NoLink} \cup SUBSET Msgs] /\ tracked' \subseteq Folders
  BY <1>2 DEF Typed, TypeOK, SubscriptionSteps, SubscriptionRead, SubscriptionFind,
              SubscriptionWrite, SubscriptionFails
<1>5. failures' \in Nat
  BY DEF Typed, TypeOK, SubscriptionSteps, SubscriptionRead, SubscriptionFind, SubscriptionWrite,
         SubscriptionFails, Fails, boundVars
<1>6. QED
  BY <1>1, <1>3, <1>4, <1>5 DEF Typed, TypeOK, storeVars, tickVars, batchVars

\* Every step keeps the types.
LEMMA NextTyped == Typed /\ [Next]_vars => Typed'
<1> SUFFICES ASSUME Typed, [Next]_vars PROVE Typed'
  OBVIOUS
<1>1. ASSUME NEW m \in Msgs, Arrive(m)
      PROVE  Typed'
  <2>1. IsFiniteSet(arrived') /\ arrived' \subseteq Msgs
    BY <1>1, FS_AddElement DEF Typed, TypeOK, Arrive
  <2>2. QED
    BY <1>1, <2>1 DEF Typed, TypeOK, Arrive, storeVars, linkVars, tickVars, batchVars, boundVars
<1>2. ASSUME NEW m \in Msgs, Notify(m)
      PROVE  Typed'
  <2>1. job' \in [Jobs -> Job]
    BY <1>2, RunsTyped, JobsTyped DEF Typed, TypeOK, Notify
  <2>2. QED
    BY <1>2, <2>1 DEF Typed, TypeOK, Notify, storeVars, linkVars, tickVars, batchVars, boundVars
<1>3. ASSUME NEW m \in Msgs, WebhookSteps(m)
      PROVE  Typed'
  BY <1>3, RunsTyped, FetchTypes, BatchTypes DEF WebhookSteps
<1>4. ASSUME NEW f \in Folders, ExpireLink(f)
      PROVE  Typed'
  BY <1>4 DEF Typed, TypeOK, ExpireLink, storeVars, tickVars, batchVars
<1>5. ASSUME NEW f \in Folders, PollSteps(f)
      PROVE  Typed'
  BY <1>5, RunsTyped, FetchTypes, BatchTypes DEF PollSteps
<1>6. ASSUME NEW f \in Folders, SubscriptionSteps(f)
      PROVE  Typed'
  BY <1>6, SubscriptionTypes
<1>7. ASSUME NEW k \in Ticks, DeltaSteps(k)
      PROVE  Typed'
  BY <1>7, TickTypes
<1>8. ASSUME NEW r \in Jobs, Queue(r)
      PROVE  Typed'
  BY <1>8, QueueTypes
<1>9. CASE ScheduleTick
  <2>1. job' \in [Jobs -> Job]
    BY <1>9, JobsTyped DEF Typed, TypeOK, ScheduleTick
  <2>2. QED
    BY <1>9, <2>1 DEF Typed, TypeOK, ScheduleTick, storeVars, linkVars, tickVars, batchVars,
       boundVars
<1>10. CASE WorkerCrash
  BY <1>10 DEF Typed, TypeOK, WorkerCrash, Nothing, Steps, storeVars
<1>11. CASE UNCHANGED vars
  BY <1>11 DEF Typed, TypeOK, vars, storeVars, linkVars, tickVars, batchVars, boundVars
<1>12. QED
  BY <1>1, <1>2, <1>3, <1>4, <1>5, <1>6, <1>7, <1>8, <1>9, <1>10, <1>11 DEF Next

\* Every state is typed, and only finitely many mails have arrived in it.
LEMMA TypedAlways == Spec => []Typed
BY InitTyped, NextTyped, PTL DEF Spec

\* Every variable of the synchronisation has its type, the newest time of a batch among
\* them (ingestInboxMessageBatch).
THEOREM SyncTypes == Spec => []TypeOK
<1>1. Typed => TypeOK
  BY DEF Typed
<1>2. QED
  BY <1>1, TypedAlways, PTL

-----------------------------------------------------------------------------
(* The links.                                                                *)

\* A walk has ingested what was reported to it, but for the batch it is working on; it
\* has none when it is between two folders, between two pages or about to save what it
\* has.
Walked(r) ==
    /\ seen[r] \ todo[r] \subseteq rows
    /\ pc[r] \in {"idle", "page", "save", "cursor"} => todo[r] = {}

WalkInv == \A r \in Deltas : Walked(r)

\* The link that a subscription tick holds is as sound as the stored one.
HeldInv == \A f \in Folders : held[f].link # NoLink => held[f].link \subseteq rows

Sound == WalkInv /\ HeldInv /\ LinkIsIngested

IInv == Typed /\ Sound

-----------------------------------------------------------------------------
\* IInv holds at the start.
LEMMA InitIInv == Init => IInv
<1> SUFFICES ASSUME Init PROVE IInv
  OBVIOUS
<1>1. WalkInv
  BY RunsTyped DEF Init, WalkInv, Walked
<1>2. HeldInv /\ LinkIsIngested
  BY DEF Init, HeldInv, LinkIsIngested, Nothing
<1>3. QED
  BY <1>1, <1>2, InitTyped DEF IInv, Sound

\* A step of run r keeps the walks sound if it keeps r sound and lets the others be.
LEMMA WalkStep ==
  ASSUME WalkInv, rows \subseteq rows', NEW r \in Runs,
         \A q \in Runs \ {r} :
             pc'[q] = pc[q] /\ seen'[q] = seen[q] /\ todo'[q] = todo[q],
         r \in Deltas => Walked(r)'
  PROVE  WalkInv'
<1> SUFFICES ASSUME NEW q \in Deltas PROVE Walked(q)'
  BY DEF WalkInv
<1>1. CASE q = r
  BY <1>1
<1>2. CASE q # r
  BY <1>2, RunsTyped DEF WalkInv, Walked
<1>3. QED
  BY <1>1, <1>2

\* Rows are never deleted, so links that stay are as sound as they were.
LEMMA LinkStep ==
  ASSUME HeldInv, LinkIsIngested, rows \subseteq rows', UNCHANGED <<link, held>>
  PROVE  HeldInv' /\ LinkIsIngested'
BY DEF HeldInv, LinkIsIngested

\* A step that leaves the rows, the runs and the links alone.
LEMMA QuietStep ==
  ASSUME IInv, UNCHANGED <<rows, link, held, pc, seen, todo>>
  PROVE  Sound'
BY DEF IInv, Sound, WalkInv, Walked, HeldInv, LinkIsIngested

\* A step of the queues that moves run r and leaves what it has in memory alone.
LEMMA JumpStep ==
  ASSUME IInv, NEW r \in Jobs, NEW step \in Steps, Goto(r, step),
         UNCHANGED <<rows, link, held, seen, todo>>
  PROVE  Sound'
<1>1. r \in Runs /\ r \notin Deltas
  BY RunsTyped
<1>2. WalkInv'
  <2>1. \A q \in Runs \ {r} : pc'[q] = pc[q]
    BY DEF IInv, Typed, TypeOK, Goto
  <2>2. QED
    BY <1>1, <2>1, WalkStep DEF IInv, Sound
<1>3. HeldInv' /\ LinkIsIngested'
  BY LinkStep DEF IInv, Sound
<1>4. QED
  BY <1>2, <1>3 DEF IInv, Sound

\* The end of a run.
LEMMA ForgetStep ==
  ASSUME IInv, NEW r \in Runs, Forget(r), UNCHANGED <<rows, link, held>>
  PROVE  Sound'
<1>1. Walked(r)'
  BY DEF IInv, Typed, TypeOK, Forget, Walked
<1>2. \A q \in Runs \ {r} : pc'[q] = pc[q] /\ seen'[q] = seen[q] /\ todo'[q] = todo[q]
  BY DEF IInv, Typed, TypeOK, Forget, Goto
<1>3. WalkInv'
  BY <1>1, <1>2, WalkStep DEF IInv, Sound
<1>4. HeldInv' /\ LinkIsIngested'
  BY LinkStep DEF IInv, Sound
<1>5. QED
  BY <1>3, <1>4 DEF IInv, Sound

\* A fetch by a poll or a notification.
LEMMA FetchStep ==
  ASSUME IInv, NEW r \in Jobs, NEW batch \in SUBSET Msgs, NEW step \in Steps,
         Take(r, batch, step), UNCHANGED <<rows, link, held>>,
         \A q \in Runs \ {r} : seen'[q] = seen[q]
  PROVE  Sound'
<1>1. r \in Runs /\ r \notin Deltas
  BY RunsTyped
<1>2. \A q \in Runs \ {r} : pc'[q] = pc[q] /\ seen'[q] = seen[q] /\ todo'[q] = todo[q]
  BY DEF IInv, Typed, TypeOK, Take, Goto
<1>3. WalkInv'
  BY <1>1, <1>2, WalkStep DEF IInv, Sound
<1>4. HeldInv' /\ LinkIsIngested'
  BY LinkStep DEF IInv, Sound
<1>5. QED
  BY <1>3, <1>4 DEF IInv, Sound

\* The ingest of one mail.
LEMMA IngestStep ==
  ASSUME IInv, NEW r \in Runs, NEW m \in Msgs, Ingest(r, m)
  PROVE  Sound'
<1>1. UNCHANGED <<link, held, seen>>
  BY DEF Ingest, linkVars
<1>2. rows \subseteq rows' /\ rows' \subseteq Msgs
  BY DEF IInv, Typed, TypeOK, Ingest
<1>3. CASE rows' = rows \cup {m} /\ todo' = [todo EXCEPT ![r] = @ \ {m}] /\ UNCHANGED pc
  <2>1. todo'[r] = todo[r] \ {m} /\ pc[r] \in {"ingest", "last"}
    BY <1>3 DEF IInv, Typed, TypeOK, Ingest
  <2>2. r \in Deltas => Walked(r)'
    BY <1>1, <1>3, <2>1 DEF IInv, Sound, WalkInv, Walked
  <2>3. \A q \in Runs \ {r} : todo'[q] = todo[q]
    BY <1>3 DEF IInv, Typed, TypeOK
  <2>4. WalkInv'
    BY <1>1, <1>2, <1>3, <2>2, <2>3, WalkStep DEF IInv, Sound
  <2>5. QED
    BY <1>1, <1>2, <2>4, LinkStep DEF IInv, Sound
<1>4. CASE Goto(r, "throw") /\ UNCHANGED todo
  <2>1. pc'[r] = "throw"
    BY <1>4 DEF IInv, Typed, TypeOK, Goto
  <2>2. r \in Deltas => Walked(r)'
    BY <1>1, <1>2, <1>4, <2>1 DEF IInv, Sound, WalkInv, Walked
  <2>3. \A q \in Runs \ {r} : pc'[q] = pc[q]
    BY <1>4 DEF IInv, Typed, TypeOK, Goto
  <2>4. WalkInv'
    BY <1>1, <1>2, <1>4, <2>2, <2>3, WalkStep DEF IInv, Sound
  <2>5. QED
    BY <1>1, <1>2, <2>4, LinkStep DEF IInv, Sound
<1>5. QED
  BY <1>3, <1>4 DEF Ingest

\* A step of any run that has no mail of its batch left, and of one that throws.
LEMMA MoveStep ==
  ASSUME IInv, NEW r \in Runs, NEW step \in Steps, Goto(r, step),
         todo[r] = {} \/ step \notin {"idle", "page", "save", "cursor"},
         UNCHANGED <<rows, link, held, seen, todo>>
  PROVE  Sound'
<1>1. pc'[r] = step /\ \A q \in Runs \ {r} : pc'[q] = pc[q]
  BY DEF IInv, Typed, TypeOK, Goto
<1>2. r \in Deltas => Walked(r)'
  BY <1>1 DEF IInv, Sound, WalkInv, Walked
<1>3. WalkInv'
  BY <1>1, <1>2, WalkStep DEF IInv, Sound
<1>4. QED
  BY <1>3, LinkStep DEF IInv, Sound

\* A walk begins with the mails its link has reported, which are ingested.
LEMMA ReadStep ==
  ASSUME IInv, NEW k \in Ticks, NEW f \in Folders, DeltaRead(k, f)
  PROVE  Sound'
<1> DEFINE r == <<"delta", k>>
<1>1. r \in Runs /\ r \in Deltas
  BY RunsTyped
<1>2. UNCHANGED <<rows, link, held, todo>>
  BY DEF DeltaRead, storeVars, linkVars
<1>3. todo[r] = {} /\ todo'[r] = {}
  BY <1>1, <1>2 DEF DeltaRead, IInv, Sound, WalkInv, Walked
<1>4. CASE seen' = [seen EXCEPT ![r] = IF link[f] = NoLink THEN {} ELSE link[f]]
  <2>1. PICK step \in {"throw", "page"} : Goto(r, step)
    BY DEF DeltaRead
  <2>2. link[f] # NoLink => link[f] \subseteq Msgs /\ link[f] \subseteq rows
    BY DEF IInv, Typed, TypeOK, Sound, LinkIsIngested
  <2>3. seen'[r] \subseteq rows
    BY <1>1, <1>4, <2>2 DEF IInv, Typed, TypeOK
  <2>4. Walked(r)'
    BY <1>2, <1>3, <2>3 DEF Walked
  <2>5. \A q \in Runs \ {r} : pc'[q] = pc[q] /\ seen'[q] = seen[q]
    BY <1>4, <2>1 DEF IInv, Typed, TypeOK, Goto
  <2>6. WalkInv'
    BY <1>1, <1>2, <2>4, <2>5, WalkStep DEF IInv, Sound
  <2>7. QED
    BY <1>2, <2>6, LinkStep DEF IInv, Sound
<1>5. CASE Goto(r, "throw") /\ UNCHANGED seen
  BY <1>1, <1>2, <1>5, MoveStep DEF Steps
<1>6. QED
  BY <1>4, <1>5 DEF DeltaRead

\* A page is reported to a walk whose earlier pages are ingested.
LEMMA PageStep ==
  ASSUME IInv, NEW k \in Ticks, DeltaPage(k)
  PROVE  Sound'
<1> DEFINE r == <<"delta", k>>
           news == In(at[k]) \ seen[r]
<1>1. r \in Runs /\ r \in Deltas
  BY RunsTyped
<1>2. UNCHANGED <<rows, link, held>>
  BY DEF DeltaPage, storeVars, linkVars
<1>3. pc[r] = "page" /\ todo[r] = {} /\ seen[r] \subseteq rows
  BY <1>1 DEF DeltaPage, IInv, Sound, WalkInv, Walked
<1>4. ASSUME NEW page \in SUBSET news, seen' = [seen EXCEPT ![r] = @ \cup page],
             Take(r, page, IF page = news THEN "last" ELSE "ingest")
      PROVE  Sound'
  <2>1. PICK step \in {"last", "ingest"} : Take(r, page, step)
    BY <1>4
  <2>2. page \subseteq rows' \cup page /\ page \subseteq Msgs
    <3>1. news \subseteq Msgs
      BY DEF In
    <3>2. QED
      BY <3>1
  <2>3. seen'[r] = seen[r] \cup page /\ todo'[r] = page /\ pc'[r] = step
    BY <1>1, <1>4, <2>1 DEF IInv, Typed, TypeOK, Take, Goto
  <2>4. Walked(r)'
    BY <1>2, <1>3, <2>1, <2>3 DEF Walked
  <2>5. \A q \in Runs \ {r} : pc'[q] = pc[q] /\ seen'[q] = seen[q] /\ todo'[q] = todo[q]
    BY <1>4, <2>1 DEF IInv, Typed, TypeOK, Take, Goto
  <2>6. WalkInv'
    BY <1>1, <1>2, <2>4, <2>5, WalkStep DEF IInv, Sound
  <2>7. QED
    BY <1>2, <2>6, LinkStep DEF IInv, Sound
<1>5. CASE Goto(r, "throw") /\ UNCHANGED <<seen, todo>>
  BY <1>1, <1>2, <1>5, MoveStep DEF Steps
<1>6. QED
  BY <1>4, <1>5 DEF DeltaPage

\* The link that is saved has reported ingested mails only.
LEMMA SaveStep ==
  ASSUME IInv, NEW k \in Ticks, SaveLink(k)
  PROVE  Sound'
<1> DEFINE r == <<"delta", k>>
<1>1. r \in Runs /\ r \in Deltas
  BY RunsTyped
<1>2. UNCHANGED <<rows, held, seen, todo>>
  BY DEF SaveLink, storeVars, batchVars
<1>3. todo[r] = {} /\ seen[r] \subseteq rows /\ seen[r] \subseteq Msgs
  BY <1>1 DEF SaveLink, IInv, Typed, TypeOK, Sound, WalkInv, Walked
<1>4. PICK step \in {"return", "cursor", "throw"} : Goto(r, step)
  BY DEF SaveLink
<1>5. \A f \in Folders : link'[f] \in {link[f], seen[r]}
  BY DEF SaveLink, IInv, Typed, TypeOK
<1>6. link' \in [Folders -> {NoLink} \cup SUBSET Msgs]
  <2>1. CASE UNCHANGED link
    BY <2>1 DEF IInv, Typed, TypeOK
  <2>2. CASE link' = [link EXCEPT ![at[k]] = seen[r]]
    BY <1>3, <2>2 DEF IInv, Typed, TypeOK
  <2>3. QED
    BY <2>1, <2>2 DEF SaveLink
<1>7. WalkInv'
  <2>1. pc'[r] = step /\ \A q \in Runs \ {r} : pc'[q] = pc[q]
    BY <1>1, <1>4 DEF IInv, Typed, TypeOK, Goto
  <2>2. Walked(r)'
    BY <1>2, <1>3, <2>1 DEF Walked
  <2>3. QED
    BY <1>1, <1>2, <2>1, <2>2, WalkStep DEF IInv, Sound
<1>8. LinkIsIngested'
  BY <1>2, <1>3, <1>5 DEF IInv, Sound, LinkIsIngested
<1>9. HeldInv'
  BY <1>2 DEF IInv, Sound, HeldInv
<1>10. QED
  BY <1>7, <1>8, <1>9 DEF IInv, Sound

\* The subscription tick reads a link and writes it back.
LEMMA SubscriptionStep ==
  ASSUME IInv, NEW f \in Folders, SubscriptionSteps(f)
  PROVE  Sound'
<1>1. UNCHANGED <<rows, pc, seen, todo>>
  BY DEF SubscriptionSteps, SubscriptionRead, SubscriptionFind, SubscriptionWrite,
         SubscriptionFails, storeVars, batchVars
<1>2. WalkInv'
  BY <1>1 DEF IInv, Sound, WalkInv, Walked
<1>3. /\ link[f] \in {NoLink} \cup SUBSET Msgs
      /\ held[f].link \in {NoLink} \cup SUBSET Msgs
      /\ link[f] # NoLink => link[f] \subseteq rows
      /\ held[f].link # NoLink => held[f].link \subseteq rows
  BY DEF IInv, Typed, TypeOK, Sound, LinkIsIngested, HeldInv
<1>4. ASSUME NEW state \in {"idle", "read", "found"},
             NEW kept \in {NoLink, link[f], held[f].link},
             held' = [held EXCEPT ![f] = [state |-> state, link |-> kept]],
             UNCHANGED link
      PROVE  Sound'
  <2>1. \A g \in Folders : held'[g].link = IF g = f THEN kept ELSE held[g].link
    BY <1>4 DEF IInv, Typed, TypeOK
  <2>2. HeldInv'
    BY <1>1, <1>3, <2>1 DEF IInv, Sound, HeldInv
  <2>3. LinkIsIngested'
    BY <1>1, <1>4 DEF IInv, Sound, LinkIsIngested
  <2>4. QED
    BY <1>2, <2>2, <2>3 DEF IInv, Sound
<1>5. CASE SubscriptionRead(f)
  BY <1>4, <1>5 DEF SubscriptionRead
<1>6. CASE SubscriptionFind(f)
  <2>1. held' = [held EXCEPT ![f] =
            [state |-> "found", link |-> IF held[f].link = NoLink THEN link[f]
                                         ELSE held[f].link]]
    BY <1>6 DEF SubscriptionFind
  <2>2. QED
    BY <1>4, <1>6, <2>1 DEF SubscriptionFind
<1>7. CASE SubscriptionFails(f)
  BY <1>4, <1>7 DEF SubscriptionFails, Nothing
<1>8. CASE SubscriptionWrite(f)
  <2>1. \A g \in Folders : held'[g].link \in {NoLink, held[g].link}
    BY <1>8 DEF IInv, Typed, TypeOK, SubscriptionWrite, Nothing
  <2>2. \A g \in Folders : link'[g] = IF g = f THEN held[f].link ELSE link[g]
    BY <1>8 DEF IInv, Typed, TypeOK, SubscriptionWrite
  <2>3. HeldInv'
    BY <1>1, <2>1 DEF IInv, Sound, HeldInv
  <2>4. LinkIsIngested'
    BY <1>1, <1>3, <2>2 DEF IInv, Sound, LinkIsIngested
  <2>5. QED
    BY <1>2, <2>3, <2>4 DEF IInv, Sound
<1>9. QED
  BY <1>5, <1>6, <1>7, <1>8 DEF SubscriptionSteps

\* A restarted worker remembers nothing.
LEMMA CrashStep ==
  ASSUME IInv, WorkerCrash
  PROVE  Sound'
<1>1. UNCHANGED <<rows, link>>
  BY DEF WorkerCrash, storeVars
<1>2. WalkInv'
  BY RunsTyped DEF WorkerCrash, WalkInv, Walked
<1>3. HeldInv' /\ LinkIsIngested'
  BY <1>1 DEF IInv, Sound, WorkerCrash, HeldInv, LinkIsIngested, Nothing
<1>4. QED
  BY <1>2, <1>3 DEF IInv, Sound

\* The steps that every run takes on its batch.
LEMMA BatchStep ==
  ASSUME IInv, NEW r \in Runs, IngestSteps(r)
  PROVE  Sound'
<1>1. ASSUME NEW m \in Msgs, Ingest(r, m) PROVE Sound'
  BY <1>1, IngestStep
<1>2. CASE IngestEnd(r)
  <2>1. PICK step \in {"page", "save", "cursor", "return"} : Goto(r, step)
    BY <1>2 DEF IngestEnd
  <2>2. todo[r] = {} /\ UNCHANGED <<rows, link, held, seen, todo>>
    BY <1>2 DEF IngestEnd, storeVars, linkVars, batchVars
  <2>3. QED
    BY <2>1, <2>2, MoveStep DEF Steps
<1>3. CASE SetCursor(r)
  <2>1. PICK step \in {"return", "throw"} : Goto(r, step)
    BY <1>3 DEF SetCursor
  <2>2. UNCHANGED <<rows, link, held, seen, todo>>
    BY <1>3 DEF SetCursor, linkVars, batchVars
  <2>3. QED
    BY <2>1, <2>2, MoveStep DEF Steps
<1>4. QED
  BY <1>1, <1>2, <1>3 DEF IngestSteps

\* The polls and the notifications.
LEMMA JobStep ==
  ASSUME IInv, NEW r \in Jobs, Queue(r)
  PROVE  Sound'
<1>1. r \in Runs
  BY RunsTyped
<1>2. CASE TakeJob(r)
  <2>1. PICK step \in {"read", "pull"} : Goto(r, step)
    BY <1>2 DEF TakeJob
  <2>2. QED
    BY <1>2, <2>1, JumpStep DEF TakeJob, Steps, storeVars, linkVars, batchVars
<1>3. CASE CompleteJob(r)
  BY <1>1, <1>3, ForgetStep DEF CompleteJob, storeVars, linkVars
<1>4. CASE FailAttempt(r)
  BY <1>1, <1>4, ForgetStep DEF FailAttempt, storeVars, linkVars
<1>5. CASE StalledCheck(r)
  BY <1>5, QuietStep DEF StalledCheck, storeVars, linkVars, batchVars
<1>6. QED
  BY <1>2, <1>3, <1>4, <1>5 DEF Queue

\* A poll reads the cursor and fetches a page.
LEMMA PollStep ==
  ASSUME IInv, NEW f \in Folders, PollSteps(f)
  PROVE  Sound'
<1> DEFINE r == <<"poll", f>>
<1>1. r \in Jobs /\ r \in Runs
  BY RunsTyped
<1>2. CASE PollRead(f)
  <2>1. PICK step \in {"pull", "return", "throw"} : Goto(r, step)
    BY <1>2 DEF PollRead
  <2>2. QED
    BY <1>1, <1>2, <2>1, JumpStep DEF PollRead, Steps, storeVars, linkVars, batchVars
<1>3. CASE PollPull(f)
  <2>1. UNCHANGED <<rows, link, held, seen>>
    BY <1>3 DEF PollPull, storeVars, linkVars
  <2>2. ASSUME NEW page \in PagesAfter(f, since[f]),
               Take(r, page, IF page = {} THEN "return" ELSE "last")
        PROVE  Sound'
    <3>1. PICK step \in {"return", "last"} : Take(r, page, step)
      BY <2>2
    <3>2. page \in SUBSET Msgs
      BY DEF PagesAfter, In
    <3>3. QED
      BY <1>1, <2>1, <3>1, <3>2, FetchStep DEF Steps
  <2>3. CASE Goto(r, "return") /\ UNCHANGED todo
    BY <1>1, <2>1, <2>3, JumpStep DEF Steps
  <2>4. QED
    BY <1>3, <2>2, <2>3 DEF PollPull
<1>4. CASE IngestSteps(r)
  BY <1>1, <1>4, BatchStep
<1>5. QED
  BY <1>2, <1>3, <1>4 DEF PollSteps

\* The handler of a notification.
LEMMA WebhookStep ==
  ASSUME IInv, NEW m \in Msgs, WebhookSteps(m)
  PROVE  Sound'
<1> DEFINE r == <<"webhook", m>>
<1>1. r \in Jobs /\ r \in Runs
  BY RunsTyped
<1>2. CASE WebhookFetch(m)
  <2>1. UNCHANGED <<rows, link, held>>
    BY <1>2 DEF WebhookFetch, storeVars, linkVars
  <2>2. CASE seen' = [seen EXCEPT ![r] = {m}] /\ Take(r, {m}, "last")
    <3>1. \A q \in Runs \ {r} : seen'[q] = seen[q]
      BY <2>2 DEF IInv, Typed, TypeOK
    <3>2. QED
      BY <1>1, <2>1, <2>2, <3>1, FetchStep DEF Steps
  <2>3. CASE (Goto(r, "throw") \/ Goto(r, "return")) /\ UNCHANGED <<seen, todo>>
    BY <1>1, <2>1, <2>3, JumpStep DEF Steps
  <2>4. QED
    BY <1>2, <2>2, <2>3 DEF WebhookFetch
<1>3. CASE IngestSteps(r)
  BY <1>1, <1>3, BatchStep
<1>4. QED
  BY <1>2, <1>3 DEF WebhookSteps

\* A delta tick.
LEMMA TickStep ==
  ASSUME IInv, NEW k \in Ticks, DeltaSteps(k)
  PROVE  Sound'
<1>1. <<"delta", k>> \in Runs
  BY RunsTyped
<1>2. CASE DeltaTick(k)
  BY <1>2, QuietStep DEF DeltaTick, storeVars, linkVars, batchVars
<1>3. CASE DeltaPage(k)
  BY <1>3, PageStep
<1>4. CASE SaveLink(k)
  BY <1>4, SaveStep
<1>5. CASE DeltaEnd(k)
  BY <1>1, <1>5, ForgetStep DEF DeltaEnd, storeVars, linkVars
<1>6. ASSUME NEW f \in Folders, DeltaRead(k, f) PROVE Sound'
  BY <1>6, ReadStep
<1>7. CASE IngestSteps(<<"delta", k>>)
  BY <1>1, <1>7, BatchStep
<1>8. QED
  BY <1>2, <1>3, <1>4, <1>5, <1>6, <1>7 DEF DeltaSteps

\* Every step preserves IInv.
LEMMA NextIInv == IInv /\ [Next]_vars => IInv'
<1> SUFFICES ASSUME IInv, [Next]_vars PROVE Sound'
  BY NextTyped DEF IInv
<1>1. ASSUME NEW m \in Msgs, Arrive(m) PROVE Sound'
  BY <1>1, QuietStep DEF Arrive, storeVars, linkVars, batchVars
<1>2. ASSUME NEW m \in Msgs, Notify(m) PROVE Sound'
  BY <1>2, QuietStep DEF Notify, storeVars, linkVars, batchVars
<1>3. ASSUME NEW m \in Msgs, WebhookSteps(m) PROVE Sound'
  BY <1>3, WebhookStep
<1>4. ASSUME NEW f \in Folders, ExpireLink(f) PROVE Sound'
  BY <1>4, QuietStep DEF ExpireLink, storeVars, batchVars
<1>5. ASSUME NEW f \in Folders, PollSteps(f) PROVE Sound'
  BY <1>5, PollStep
<1>6. ASSUME NEW f \in Folders, SubscriptionSteps(f) PROVE Sound'
  BY <1>6, SubscriptionStep
<1>7. ASSUME NEW k \in Ticks, DeltaSteps(k) PROVE Sound'
  BY <1>7, TickStep
<1>8. ASSUME NEW r \in Jobs, Queue(r) PROVE Sound'
  BY <1>8, JobStep
<1>9. CASE ScheduleTick
  BY <1>9, QuietStep DEF ScheduleTick, storeVars, linkVars, batchVars
<1>10. CASE WorkerCrash
  BY <1>10, CrashStep
<1>11. CASE UNCHANGED vars
  BY <1>11, QuietStep DEF vars, storeVars, linkVars, batchVars
<1>12. QED
  BY <1>1, <1>2, <1>3, <1>4, <1>5, <1>6, <1>7, <1>8, <1>9, <1>10, <1>11 DEF Next

\* The inductive invariant of the synchronisation.
THEOREM Invariance == Spec => []IInv
BY InitIInv, NextIInv, PTL DEF Spec

\* A stored delta link never stands past a mail that is not ingested, for any number of
\* overlapping ticks, mails, folders, failures and crashes (delta.service.ts).
THEOREM LinkIngested == Spec => []LinkIsIngested
<1>1. IInv => LinkIsIngested
  BY DEF IInv, Sound
<1>2. QED
  BY <1>1, Invariance, PTL

-----------------------------------------------------------------------------
(* The cursor.  Mail that arrives is later than any cursor a run has reached, *)
(* so that what a run has left to ingest up to its newest mail is its batch.  *)

\* Two mails of a folder are never received in the same second.
TimesApart ==
    \A m, other \in Msgs : Folder[m] = Folder[other] /\ Received[m] = Received[other] => m = other

\* The mails that every poll without a cursor would have seen.
Late(m) == \A start \in Windows : start < Received[m]

\* A time the cursor of f may have, and one it may have without harm.
TimeOf(f, t) == t = 0 \/ \E m \in In(f) : Received[m] = t
Covered(f, t) == \A m \in In(f) : Late(m) /\ Received[m] <= t => m \in rows
Safe(f, t) == TimeOf(f, t) /\ Covered(f, t)

\* What is left of the mails up to the newest of a run is in its batch.
Pending(r) ==
    \A m \in In(FolderOf(r)) : Late(m) /\ Received[m] <= newest[r] => m \in rows \cup todo[r]

BatchSafe(r) ==
    /\ TimeOf(FolderOf(r), newest[r])
    /\ pc[r] \in {"idle", "read", "pull"} => newest[r] = 0
    /\ pc[r] \in {"last", "save", "cursor"} => Pending(r)
    /\ pc[r] \in {"save", "cursor"} => todo[r] = {}

BatchInv == \A r \in Runs : BatchSafe(r)

InOrder ==
    \A m, other \in Msgs : m \in arrived /\ Received[other] < Received[m] => other \in arrived

\* Only the job of a run that is under way is active, and no notification has come in.
JobInv ==
    /\ \A r \in Jobs : pc[r] # "idle" => job[r].state = "active"
    /\ \A r \in Webhooks : job[r].state = "none"

CursorInv == \A f \in Folders : Safe(f, cursor[f])

SinceInv ==
    \A f \in Folders : pc[<<"poll", f>>] = "pull" => since[f] \in Windows \/ Safe(f, since[f])

Cover == InOrder /\ JobInv /\ CursorInv /\ SinceInv /\ BatchInv

\* The folder of each kind of run.
LEMMA FolderOfRun ==
  /\ \A f \in Folders : FolderOf(<<"poll", f>>) = f
  /\ \A m \in Msgs : FolderOf(<<"webhook", m>>) = Folder[m]
  /\ \A k \in Ticks : FolderOf(<<"delta", k>>) = at[k]
<1>1. ASSUME NEW f \in Folders
      PROVE  FolderOf(<<"poll", f>>) = f
  <2>1. <<"poll", f>> \in Polls /\ <<"poll", f>> \notin Webhooks /\ <<"poll", f>> \notin Deltas
    BY DEF Polls, Webhooks, Deltas
  <2>2. QED
    BY <2>1 DEF FolderOf
<1>2. ASSUME NEW m \in Msgs
      PROVE  FolderOf(<<"webhook", m>>) = Folder[m]
  <2> DEFINE r == <<"webhook", m>>
  <2>1. r \in Webhooks /\ r \notin Polls /\ r \notin Deltas
    BY DEF Polls, Webhooks, Deltas
  <2>2. QED
    BY <2>1 DEF FolderOf
<1>3. ASSUME NEW k \in Ticks
      PROVE  FolderOf(<<"delta", k>>) = at[k]
  <2> DEFINE r == <<"delta", k>>
  <2>1. r \in Deltas /\ r \notin Polls /\ r \notin Webhooks
    BY DEF Polls, Webhooks, Deltas
  <2>2. QED
    BY <2>1 DEF FolderOf
<1>4. QED
  BY <1>1, <1>2, <1>3

\* The folder of a run depends on the tick alone.
LEMMA FolderStays ==
  ASSUME UNCHANGED at, NEW r \in Runs
  PROVE  FolderOf(r)' = FolderOf(r)
BY DEF FolderOf

\* A step that leaves Graph, the cursors and the runs alone.
LEMMA QuietCover ==
  ASSUME Cover, JobInv', rows \subseteq rows',
         UNCHANGED <<arrived, cursor, since, at, pc, todo, newest>>
  PROVE  Cover'
<1>1. InOrder' /\ CursorInv' /\ SinceInv'
  BY DEF Cover, InOrder, CursorInv, SinceInv, Safe, TimeOf, Covered, In
<1>2. BatchInv'
  BY FolderStays DEF Cover, BatchInv, BatchSafe, Pending, TimeOf, In
<1>3. QED
  BY <1>1, <1>2 DEF Cover

\* A step of run r alone.
LEMMA RunCover ==
  ASSUME Cover, JobInv', rows \subseteq rows', UNCHANGED arrived, NEW r \in Runs,
         CursorInv', SinceInv', BatchSafe(r)',
         \A q \in Runs \ {r} : /\ FolderOf(q)' = FolderOf(q)
                               /\ pc'[q] = pc[q]
                               /\ todo'[q] = todo[q]
                               /\ newest'[q] = newest[q]
  PROVE  Cover'
<1>1. InOrder'
  BY DEF Cover, InOrder
<1>2. BatchInv'
  <2> SUFFICES ASSUME NEW q \in Runs \ {r} PROVE BatchSafe(q)'
    BY DEF BatchInv
  <2>1. BatchSafe(q)
    BY DEF Cover, BatchInv
  <2>2. QED
    BY <2>1 DEF BatchSafe, Pending, TimeOf, In
<1>3. QED
  BY <1>1, <1>2 DEF Cover

\* The cursors that stay are as safe as they were, and so is what a poll has read of them.
LEMMA CursorStays ==
  ASSUME Cover, rows \subseteq rows', UNCHANGED <<arrived, cursor>>
  PROVE  CursorInv'
BY DEF Cover, CursorInv, Safe, TimeOf, Covered, In

LEMMA SinceStays ==
  ASSUME Cover, rows \subseteq rows', UNCHANGED <<arrived, since>>,
         \A f \in Folders : pc'[<<"poll", f>>] = "pull" => pc[<<"poll", f>>] = "pull"
  PROVE  SinceInv'
BY DEF Cover, SinceInv, Safe, TimeOf, Covered, In

\* Nothing has arrived at the start.
LEMMA InitCover == Init => Cover
<1> SUFFICES ASSUME Init PROVE Cover
  OBVIOUS
<1>1. InOrder /\ CursorInv /\ SinceInv
  BY DEF Init, InOrder, CursorInv, Safe, TimeOf, Covered, In, SinceInv, Runs, Jobs, Polls
<1>2. JobInv
  BY DEF Init, JobInv, Runs, Jobs, NoJob
<1>3. BatchInv
  BY DEF Init, BatchInv, BatchSafe, TimeOf, In
<1>4. QED
  BY <1>1, <1>2, <1>3 DEF Cover

\* Mail arrives after every mail of its folder that has arrived before.
LEMMA ArriveCover ==
  ASSUME Cover, TimesApart, NEW m \in Msgs, Arrive(m)
  PROVE  Cover'
<1>1. UNCHANGED <<rows, cursor, job, since, at, pc, todo, newest>>
  BY DEF Arrive, storeVars, tickVars, batchVars
<1>2. arrived' = arrived \cup {m} /\ m \notin arrived
  BY DEF Arrive
<1>3. ASSUME NEW t, TimeOf(Folder[m], t)
      PROVE  ~(Received[m] <= t)
  <2>1. Received[m] \in Nat \ {0}
    BY SyncAssumption
  <2>2. ASSUME NEW other \in In(Folder[m]), Received[other] = t
        PROVE  ~(Received[m] <= t)
    <3>1. other \in Msgs /\ other \in arrived /\ Folder[other] = Folder[m]
      BY DEF In
    <3>2. Received[other] \in Nat
      BY <3>1, SyncAssumption
    <3>3. ~(Received[m] < Received[other])
      BY <1>2, <3>1 DEF Cover, InOrder
    <3>4. Received[m] # Received[other]
      BY <1>2, <3>1 DEF TimesApart
    <3>5. QED
      BY <2>1, <2>2, <3>2, <3>3, <3>4
  <2>3. QED
    BY <2>1, <2>2, <1>3 DEF TimeOf
<1>4. InOrder'
  <2>1. \A x, y \in Msgs : Received[x] \in Nat /\ Received[y] \in Nat
    BY SyncAssumption
  <2>2. QED
    BY <1>2, <2>1 DEF Arrive, Cover, InOrder
<1>5. \A f : In(f) \subseteq In(f)' /\ \A n \in In(f)' : n \in In(f) \/ (n = m /\ f = Folder[m])
  BY <1>2 DEF In
<1>6. \A f, t : TimeOf(f, t) => TimeOf(f, t)'
  BY <1>5 DEF TimeOf
<1>7. \A f, t : Safe(f, t) => Safe(f, t)'
  BY <1>1, <1>3, <1>5, <1>6 DEF Safe, Covered
<1>8. CursorInv' /\ SinceInv'
  BY <1>1, <1>7 DEF Cover, CursorInv, SinceInv
<1>9. BatchInv'
  <2> SUFFICES ASSUME NEW r \in Runs PROVE BatchSafe(r)'
    BY DEF BatchInv
  <2>1. BatchSafe(r) /\ FolderOf(r)' = FolderOf(r)
    BY <1>1, FolderStays DEF Cover, BatchInv
  <2>2. TimeOf(FolderOf(r), newest[r])'
    BY <1>1, <1>6, <2>1 DEF BatchSafe
  <2>3. Pending(r) => Pending(r)'
    BY <1>1, <1>3, <1>5, <2>1 DEF BatchSafe, Pending
  <2>4. QED
    BY <1>1, <2>1, <2>2, <2>3 DEF BatchSafe
<1>10. JobInv'
  BY <1>1 DEF Cover, JobInv
<1>11. QED
  BY <1>4, <1>8, <1>9, <1>10 DEF Cover

\* The end of a run, or its loss.
LEMMA ForgetCover ==
  ASSUME Typed, Cover, JobInv', NEW r \in Runs, Forget(r),
         UNCHANGED <<arrived, storeVars, tickVars>>
  PROVE  Cover'
<1>1. UNCHANGED <<rows, cursor, since, at>>
  BY DEF storeVars, tickVars
<1>2. \A q \in Runs \ {r} : pc'[q] = pc[q] /\ todo'[q] = todo[q] /\ newest'[q] = newest[q]
  BY DEF Typed, TypeOK, Forget, Goto
<1>3. pc'[r] = "idle" /\ newest'[r] = 0
  BY DEF Typed, TypeOK, Forget, Goto
<1>4. BatchSafe(r)'
  BY <1>3 DEF BatchSafe, TimeOf
<1>5. SinceInv'
  <2>1. \A f \in Folders : pc'[<<"poll", f>>] = "pull" => pc[<<"poll", f>>] = "pull"
    BY <1>2, <1>3, RunsTyped
  <2>2. QED
    BY <1>1, <2>1, SinceStays
<1>6. CursorInv'
  BY <1>1, CursorStays
<1>7. QED
  BY <1>1, <1>2, <1>4, <1>5, <1>6, FolderStays, RunCover

\* The queues take, drop and retry jobs; a job that waits is not under way.
LEMMA QueueCover ==
  ASSUME Typed, Cover, NEW r \in Jobs, Queue(r)
  PROVE  Cover'
<1>1. UNCHANGED <<arrived, storeVars, tickVars>> /\ UNCHANGED <<rows, cursor, since, at>>
  BY DEF Queue, TakeJob, CompleteJob, FailAttempt, StalledCheck, storeVars, tickVars
<1>2. r \in Runs
  BY RunsTyped
<1>3. job[r].state # "none" /\ r \notin Webhooks /\ r \in Polls
  BY DEF Queue, TakeJob, CompleteJob, FailAttempt, StalledCheck, Cover, JobInv, Jobs
<1>4. ASSUME NEW after, after.state \in {"completed", "failed"}, Finish(r, after), Forget(r)
      PROVE  Cover'
  <2>1. \A q \in Jobs \ {r} : \/ job'[q] = job[q]
                              \/ job[q].state = after.state /\ job'[q].state = "none"
    BY <1>4 DEF Finish, NoJob
  <2>2. \A q \in Runs \ {r} : pc'[q] = pc[q]
    BY <1>4 DEF Typed, TypeOK, Forget, Goto
  <2>3. pc'[r] = "idle"
    BY <1>2, <1>4 DEF Typed, TypeOK, Forget, Goto
  <2>4. JobInv'
    BY <1>3, <1>4, <2>1, <2>2, <2>3 DEF Cover, JobInv, Jobs, Runs
  <2>5. QED
    BY <1>1, <1>2, <1>4, <2>4, ForgetCover
<1>5. CASE TakeJob(r)
  <2>1. pc[r] = "idle" /\ newest[r] = 0
    BY <1>2, <1>5 DEF TakeJob, Cover, JobInv, BatchInv, BatchSafe
  <2>2. UNCHANGED <<todo, newest>>
    BY <1>5 DEF TakeJob, batchVars
  <2>3. pc'[r] = "read" /\ \A q \in Runs \ {r} : pc'[q] = pc[q]
    BY <1>2, <1>3, <1>5 DEF Typed, TypeOK, TakeJob, Goto
  <2>4. job'[r].state = "active" /\ \A q \in Jobs \ {r} : job'[q] = job[q]
    BY <1>5 DEF Typed, TypeOK, TakeJob, Start, Job
  <2>5. JobInv'
    BY <1>3, <2>3, <2>4 DEF Cover, JobInv, Jobs, Runs
  <2>6. BatchSafe(r)'
    BY <2>1, <2>2, <2>3 DEF BatchSafe, TimeOf
  <2>7. SinceInv'
    <3>1. \A f \in Folders : pc'[<<"poll", f>>] = "pull" => pc[<<"poll", f>>] = "pull"
      BY <2>3, RunsTyped
    <3>2. QED
      BY <1>1, <3>1, SinceStays
  <2>8. CursorInv'
    BY <1>1, CursorStays
  <2>9. QED
    BY <1>1, <1>2, <2>2, <2>3, <2>5, <2>6, <2>7, <2>8, FolderStays, RunCover
<1>6. CASE CompleteJob(r)
  <2>1. Complete(job[r]).state = "completed"
    BY DEF Typed, TypeOK, Complete, Job
  <2>2. QED
    BY <1>4, <1>6, <2>1 DEF CompleteJob
<1>7. CASE FailAttempt(r)
  <2> DEFINE after == AfterThrow(job[r], AttemptsOf(r))
  <2>1. CASE IsFinished(after)
    BY <1>4, <1>7, <2>1 DEF FailAttempt, IsFinished
  <2>2. CASE ~IsFinished(after)
    <3>1. job' = [job EXCEPT ![r] = after] /\ Forget(r)
      BY <1>7, <2>2 DEF FailAttempt
    <3>2. \A q \in Jobs \ {r} : job'[q] = job[q]
      BY <3>1 DEF Typed, TypeOK
    <3>3. pc'[r] = "idle" /\ \A q \in Runs \ {r} : pc'[q] = pc[q]
      BY <1>2, <3>1 DEF Typed, TypeOK, Forget, Goto
    <3>4. JobInv'
      BY <1>3, <3>2, <3>3 DEF Cover, JobInv, Jobs, Runs
    <3>5. QED
      BY <1>1, <1>2, <3>1, <3>4, ForgetCover
  <2>3. QED
    BY <2>1, <2>2
<1>8. CASE StalledCheck(r)
  <2>1. UNCHANGED <<pc, todo, newest>> /\ pc[r] = "idle"
    BY <1>8 DEF StalledCheck, batchVars
  <2>2. \A q \in Jobs \ {r} : job'[q] = job[q]
    BY <1>8 DEF Typed, TypeOK, StalledCheck
  <2>3. JobInv'
    BY <1>3, <2>1, <2>2 DEF Cover, JobInv, Jobs
  <2>4. QED
    BY <1>1, <2>1, <2>3, QuietCover
<1>9. QED
  BY <1>5, <1>6, <1>7, <1>8 DEF Queue

\* A poll reads the cursor.
LEMMA ReadCover ==
  ASSUME Typed, Cover, NEW f \in Folders, PollRead(f)
  PROVE  Cover'
<1> DEFINE r == <<"poll", f>>
<1>1. r \in Runs
  BY RunsTyped
<1>2. UNCHANGED <<arrived, rows, cursor, job, at, todo, newest>>
  BY DEF PollRead, storeVars, batchVars
<1>3. pc[r] = "read" /\ newest[r] = 0
  BY <1>1 DEF PollRead, Cover, BatchInv, BatchSafe
<1>4. pc'[r] \in {"pull", "return", "throw"} /\ \A q \in Runs \ {r} : pc'[q] = pc[q]
  <2>1. PICK step \in {"pull", "return", "throw"} : Goto(r, step)
    BY DEF PollRead
  <2>2. QED
    BY <1>1, <2>1 DEF Typed, TypeOK, Goto
<1>5. JobInv'
  <2>1. \A q \in Jobs : pc'[q] # "idle" => pc[q] # "idle"
    BY <1>3, <1>4 DEF Runs
  <2>2. QED
    BY <1>2, <2>1 DEF Cover, JobInv
<1>6. BatchSafe(r)'
  BY <1>2, <1>3, <1>4 DEF BatchSafe, TimeOf
<1>7. SinceInv'
  <2>1. ASSUME NEW g \in Folders, pc'[<<"poll", g>>] = "pull"
        PROVE  since'[g] \in Windows \/ Safe(g, since'[g])
    <3>1. CASE g = f
      <4>1. pc'[r] # "throw" /\ pc'[r] # "return"
        BY <2>1, <3>1
      <4>2. since'[f] \in Windows \/ since'[f] = cursor[f]
        BY <1>1, <4>1 DEF Typed, TypeOK, PollRead, Goto
      <4>3. QED
        BY <3>1, <4>2 DEF Cover, CursorInv
    <3>2. CASE g # f
      <4>1. <<"poll", g>> \in Runs \ {r} /\ since'[g] = since[g]
        BY <3>2, RunsTyped DEF Typed, TypeOK, PollRead
      <4>2. QED
        BY <1>4, <2>1, <4>1 DEF Cover, SinceInv
    <3>3. QED
      BY <3>1, <3>2
  <2>2. \A g, t : Safe(g, t) => Safe(g, t)'
    BY <1>2 DEF Safe, TimeOf, Covered, In
  <2>3. QED
    BY <2>1, <2>2 DEF SinceInv
<1>8. CursorInv'
  BY <1>2, CursorStays
<1>9. QED
  BY <1>1, <1>2, <1>4, <1>5, <1>6, <1>7, <1>8, FolderStays, RunCover

\* A poll fetches the earliest mails after the cursor: up to the newest of them, the page
\* and the rows have all.
LEMMA PullCover ==
  ASSUME Typed, Cover, TimesApart, NEW f \in Folders, PollPull(f)
  PROVE  Cover'
<1> DEFINE r == <<"poll", f>>
<1>1. r \in Runs /\ FolderOf(r) = f
  BY RunsTyped, FolderOfRun
<1>2. UNCHANGED <<arrived, rows, cursor, job, at>>
  BY DEF PollPull, storeVars
<1>3. pc[r] = "pull" /\ newest[r] = 0
  BY <1>1 DEF PollPull, Cover, BatchInv, BatchSafe
<1>4. since[f] \in Windows \/ Safe(f, since[f])
  BY <1>3 DEF Cover, SinceInv
<1>5. ASSUME pc'[r] \in {"last", "return"}, BatchSafe(r)',
             \A q \in Runs \ {r} : pc'[q] = pc[q] /\ todo'[q] = todo[q] /\ newest'[q] = newest[q]
      PROVE  Cover'
  <2>1. JobInv'
    <3>1. \A q \in Jobs : pc'[q] # "idle" => pc[q] # "idle"
      BY <1>3, <1>5 DEF Runs
    <3>2. QED
      BY <1>2, <3>1 DEF Cover, JobInv
  <2>2. SinceInv'
    <3>1. ASSUME NEW g \in Folders, pc'[<<"poll", g>>] = "pull"
          PROVE  since'[g] \in Windows \/ Safe(g, since'[g])
      <4>1. <<"poll", g>> \in Runs \ {r} /\ g # f
        BY <1>5, <3>1, RunsTyped
      <4>2. since'[g] = since[g] /\ pc[<<"poll", g>>] = "pull"
        BY <1>5, <3>1, <4>1 DEF Typed, TypeOK, PollPull
      <4>3. QED
        BY <4>2 DEF Cover, SinceInv
    <3>2. \A g, t : Safe(g, t) => Safe(g, t)'
      BY <1>2 DEF Safe, TimeOf, Covered, In
    <3>3. QED
      BY <3>1, <3>2 DEF SinceInv
  <2>3. CursorInv'
    BY <1>2, CursorStays
  <2>4. QED
    BY <1>1, <1>2, <1>5, <2>1, <2>2, <2>3, FolderStays, RunCover
<1>6. ASSUME NEW page \in PagesAfter(f, since[f]),
             Take(r, page, IF page = {} THEN "return" ELSE "last")
      PROVE  Cover'
  <2>1. page \in SUBSET Msgs /\ IsFiniteSet(page) /\ page \subseteq In(f)
    BY ArrivedTyped DEF PagesAfter, In
  <2>2. PICK step \in {"return", "last"} :
            Take(r, page, step) /\ (step = "last" => page # {})
    BY <1>6
  <2>3. /\ todo'[r] = page /\ newest'[r] = Latest(0, page) /\ pc'[r] = step
        /\ \A q \in Runs \ {r} : pc'[q] = pc[q] /\ todo'[q] = todo[q] /\ newest'[q] = newest[q]
    BY <1>1, <1>3, <2>2 DEF Typed, TypeOK, Take, Goto
  <2>4. /\ Latest(0, page) \in Nat
        /\ Latest(0, page) = 0 \/ \E m \in page : Received[m] = Latest(0, page)
        /\ \A m \in page : Received[m] <= Latest(0, page)
    BY <2>1, LatestIs
  <2>5. TimeOf(f, Latest(0, page))
    BY <2>1, <2>4 DEF TimeOf
  <2>6. ASSUME NEW m \in In(f), Late(m), Received[m] <= Latest(0, page), m \notin page
        PROVE  m \in rows
    <3>1. m \in Msgs /\ Folder[m] = f /\ Received[m] \in Nat \ {0}
      BY SyncAssumption DEF In
    <3>2. PICK last \in page : Received[last] = Latest(0, page)
      BY <2>4, <2>6, <3>1
    <3>3. last \in Msgs /\ Folder[last] = f /\ Received[last] \in Nat
      BY <2>1, SyncAssumption DEF In
    <3>4. ~(Received[m] > since[f])
      <4>1. ASSUME Received[m] > since[f] PROVE Received[last] <= Received[m]
        BY <2>6, <4>1 DEF PagesAfter
      <4>2. Received[m] # Received[last]
        BY <2>6, <3>1, <3>2, <3>3 DEF TimesApart
      <4>3. QED
        BY <2>6, <3>1, <3>2, <3>3, <4>1, <4>2
    <3>5. since[f] \in Nat
      BY DEF Typed, TypeOK
    <3>6. Received[m] <= since[f] /\ since[f] \notin Windows
      BY <2>6, <3>1, <3>4, <3>5 DEF Late
    <3>7. QED
      BY <1>4, <2>6, <3>6 DEF Safe, Covered
  <2>7. BatchSafe(r)'
    <3>1. FolderOf(r)' = f /\ In(f)' = In(f)
      BY <1>1, <1>2, FolderStays DEF In
    <3>2. TimeOf(FolderOf(r), newest[r])'
      BY <1>2, <2>3, <2>5, <3>1 DEF TimeOf
    <3>3. Pending(r)'
      BY <1>2, <2>3, <2>6, <3>1 DEF Pending, Late
    <3>4. QED
      BY <2>3, <3>2, <3>3 DEF BatchSafe
  <2>8. QED
    BY <1>5, <2>3, <2>7
<1>7. CASE Goto(r, "return") /\ UNCHANGED <<todo, newest>>
  <2>1. pc'[r] = "return" /\ \A q \in Runs \ {r} : pc'[q] = pc[q]
    BY <1>1, <1>7 DEF Typed, TypeOK, Goto
  <2>2. BatchSafe(r)'
    BY <1>3, <1>7, <2>1 DEF BatchSafe, TimeOf
  <2>3. QED
    BY <1>5, <1>7, <2>1, <2>2
<1>8. QED
  BY <1>6, <1>7 DEF PollPull

\* A run that is under way goes on.
LEMMA GoesOnCover ==
  ASSUME Typed, Cover, rows \subseteq rows', UNCHANGED <<arrived, job, since, at>>,
         NEW r \in Runs, pc[r] \notin {"idle", "pull"}, pc'[r] # "pull",
         CursorInv', BatchSafe(r)',
         \A q \in Runs \ {r} : pc'[q] = pc[q] /\ todo'[q] = todo[q] /\ newest'[q] = newest[q]
  PROVE  Cover'
<1>1. JobInv'
  <2>1. \A q \in Jobs : pc'[q] # "idle" => pc[q] # "idle"
    BY DEF Runs
  <2>2. QED
    BY <2>1 DEF Cover, JobInv
<1>2. SinceInv'
  <2>1. \A f \in Folders : pc'[<<"poll", f>>] = "pull" => pc[<<"poll", f>>] = "pull"
    BY RunsTyped
  <2>2. QED
    BY <2>1, SinceStays
<1>3. QED
  BY <1>1, <1>2, FolderStays, RunCover

\* A batch is ingested, mail by mail, and the cursor set to its newest mail.
LEMMA IngestCover ==
  ASSUME Typed, Cover, NEW r \in Runs, IngestSteps(r)
  PROVE  Cover'
<1>1. BatchSafe(r)
  BY DEF Cover, BatchInv
<1>2. UNCHANGED <<arrived, job, since, at, newest>> /\ rows \subseteq rows'
  BY DEF IngestSteps, IngestEnd, SetCursor, Ingest, storeVars, tickVars, batchVars
<1>3. FolderOf(r)' = FolderOf(r) /\ \A f : In(f)' = In(f)
  BY <1>2, FolderStays DEF In
<1>4. TimeOf(FolderOf(r), newest[r])'
  BY <1>1, <1>2, <1>3 DEF BatchSafe, TimeOf
<1>5. CASE IngestEnd(r)
  <2>1. UNCHANGED <<rows, cursor, todo>> /\ todo[r] = {} /\ pc[r] \in {"ingest", "last"}
    BY <1>5 DEF IngestEnd, storeVars, batchVars
  <2>2. /\ pc'[r] \in {"page", "save", "cursor", "return"}
        /\ pc'[r] \in {"save", "cursor"} => pc[r] = "last"
        /\ \A q \in Runs \ {r} : pc'[q] = pc[q]
    BY <1>5 DEF Typed, TypeOK, IngestEnd, Goto
  <2>3. Pending(r) => Pending(r)'
    BY <1>2, <1>3, <2>1 DEF Pending
  <2>4. BatchSafe(r)'
    BY <1>1, <1>4, <2>1, <2>2, <2>3 DEF BatchSafe
  <2>5. CursorInv'
    BY <1>2, <2>1, CursorStays
  <2>6. QED
    BY <1>2, <2>1, <2>2, <2>4, <2>5, GoesOnCover
<1>6. CASE SetCursor(r)
  <2>1. UNCHANGED <<rows, todo>> /\ pc[r] = "cursor" /\ todo[r] = {}
    BY <1>1, <1>6 DEF SetCursor, batchVars, BatchSafe
  <2>2. pc'[r] \in {"return", "throw"} /\ \A q \in Runs \ {r} : pc'[q] = pc[q]
    <3>1. PICK step \in {"return", "throw"} : Goto(r, step)
      BY <1>6 DEF SetCursor
    <3>2. QED
      BY <3>1 DEF Typed, TypeOK, Goto
  <2>3. BatchSafe(r)'
    BY <1>4, <2>2 DEF BatchSafe
  <2>4. CursorInv'
    <3>1. Safe(FolderOf(r), newest[r])
      BY <1>1, <2>1 DEF BatchSafe, Pending, Safe, Covered
    <3>2. \A f \in Folders : \/ cursor'[f] = cursor[f]
                             \/ f = FolderOf(r) /\ cursor'[f] = newest[r]
      <4>1. CASE cursor' = [cursor EXCEPT ![FolderOf(r)] = newest[r]]
        BY <4>1 DEF Typed, TypeOK
      <4>2. CASE UNCHANGED cursor
        BY <4>2
      <4>3. QED
        BY <1>6, <4>1, <4>2 DEF SetCursor
    <3>3. \A f \in Folders : Safe(f, cursor'[f])
      BY <3>1, <3>2 DEF Cover, CursorInv
    <3>4. \A f, t : Safe(f, t) => Safe(f, t)'
      BY <1>2, <1>3 DEF Safe, TimeOf, Covered
    <3>5. QED
      BY <3>3, <3>4 DEF CursorInv
  <2>5. QED
    BY <1>2, <2>1, <2>2, <2>3, <2>4, GoesOnCover
<1>7. ASSUME NEW m \in Msgs, Ingest(r, m)
      PROVE  Cover'
  <2>1. UNCHANGED cursor /\ pc[r] \in {"ingest", "last"}
    BY <1>7 DEF Ingest
  <2>2. CursorInv'
    BY <1>2, <2>1, CursorStays
  <2>3. CASE rows' = rows \cup {m} /\ todo' = [todo EXCEPT ![r] = @ \ {m}] /\ UNCHANGED pc
    <3>1. todo'[r] = todo[r] \ {m} /\ \A q \in Runs \ {r} : todo'[q] = todo[q]
      BY <2>3 DEF Typed, TypeOK
    <3>2. Pending(r) => Pending(r)'
      BY <1>2, <1>3, <2>3, <3>1 DEF Pending
    <3>3. BatchSafe(r)'
      BY <1>1, <1>4, <2>1, <2>3, <3>2 DEF BatchSafe
    <3>4. QED
      BY <1>2, <2>1, <2>2, <2>3, <3>1, <3>3, GoesOnCover
  <2>4. CASE Goto(r, "throw") /\ UNCHANGED todo
    <3>1. pc'[r] = "throw" /\ \A q \in Runs \ {r} : pc'[q] = pc[q]
      BY <2>4 DEF Typed, TypeOK, Goto
    <3>2. BatchSafe(r)'
      BY <1>4, <3>1 DEF BatchSafe
    <3>3. QED
      BY <1>2, <2>1, <2>2, <2>4, <3>1, <3>2, GoesOnCover
  <2>5. QED
    BY <1>7, <2>3, <2>4 DEF Ingest
<1>8. QED
  BY <1>5, <1>6, <1>7 DEF IngestSteps

\* A delta tick: the page that leaves nothing to report comes with a link and a newest mail
\* up to which everything was reported.
LEMMA TickCover ==
  ASSUME IInv, Cover, NEW k \in Ticks, DeltaSteps(k)
  PROVE  Cover'
<1> DEFINE r == <<"delta", k>>
<1>1. Typed /\ r \in Runs /\ r \in Deltas /\ r \notin Jobs /\ FolderOf(r) = at[k]
  BY RunsTyped, FolderOfRun DEF IInv
<1>2. BatchSafe(r) /\ Walked(r)
  BY <1>1 DEF Cover, BatchInv, IInv, Sound, WalkInv
<1>3. CASE DeltaTick(k)
  <2>1. UNCHANGED <<arrived, rows, cursor, job, since, at, pc, todo, newest>>
    BY <1>3 DEF DeltaTick, storeVars, batchVars
  <2>2. QED
    BY <2>1, QuietCover DEF Cover, JobInv
<1>4. CASE DeltaPage(k)
  <2> DEFINE news == In(at[k]) \ seen[r]
  <2>1. UNCHANGED <<arrived, rows, cursor, job, since, at>> /\ pc[r] = "page" /\ todo[r] = {}
    BY <1>2, <1>4 DEF DeltaPage, storeVars, tickVars, Walked
  <2>2. CursorInv'
    BY <2>1, CursorStays
  <2>3. ASSUME NEW page \in SUBSET news,
               Take(r, page, IF page = news THEN "last" ELSE "ingest")
        PROVE  Cover'
    <3>1. page \in SUBSET Msgs /\ IsFiniteSet(page) /\ page \subseteq In(at[k])
      BY <1>1, ArrivedTyped DEF In
    <3>2. PICK step \in {"last", "ingest"} :
              Take(r, page, step) /\ (step = "last" => page = news)
      BY <2>3
    <3>3. /\ todo'[r] = page /\ newest'[r] = Latest(newest[r], page) /\ pc'[r] = step
          /\ \A q \in Runs \ {r} : pc'[q] = pc[q] /\ todo'[q] = todo[q] /\ newest'[q] = newest[q]
      BY <1>1, <3>2 DEF Typed, TypeOK, Take, Goto
    <3>4. newest'[r] = newest[r] \/ \E m \in page : Received[m] = newest'[r]
      <4>1. newest[r] \in Nat
        BY <1>1 DEF Typed, TypeOK
      <4>2. Latest(newest[r], page) \in {newest[r]} \cup {Received[m] : m \in page}
        BY <3>1, <4>1, LatestIs
      <4>3. QED
        BY <3>3, <4>2
    <3>5. FolderOf(r)' = at[k] /\ In(at[k])' = In(at[k])
      BY <1>1, <2>1, FolderStays DEF In
    <3>6. TimeOf(FolderOf(r), newest[r])'
      BY <1>1, <1>2, <2>1, <3>1, <3>4, <3>5 DEF BatchSafe, TimeOf
    <3>7. step = "last" => Pending(r)'
      <4>1. seen[r] \subseteq rows
        BY <1>2, <2>1 DEF Walked
      <4>2. QED
        BY <2>1, <3>2, <3>3, <3>5, <4>1 DEF Pending
    <3>8. BatchSafe(r)'
      BY <3>3, <3>6, <3>7 DEF BatchSafe
    <3>9. QED
      BY <1>1, <2>1, <2>2, <3>3, <3>8, GoesOnCover
  <2>4. CASE Goto(r, "throw") /\ UNCHANGED <<todo, newest>>
    <3>1. pc'[r] = "throw" /\ \A q \in Runs \ {r} : pc'[q] = pc[q]
      BY <1>1, <2>4 DEF Typed, TypeOK, Goto
    <3>2. BatchSafe(r)'
      BY <1>1, <1>2, <2>1, <2>4, <3>1, FolderStays DEF BatchSafe, TimeOf, In
    <3>3. QED
      BY <1>1, <2>1, <2>2, <2>4, <3>1, <3>2, GoesOnCover
  <2>5. QED
    BY <1>4, <2>3, <2>4 DEF DeltaPage
<1>5. CASE SaveLink(k)
  <2>1. UNCHANGED <<arrived, rows, cursor, job, since, at, todo, newest>> /\ pc[r] = "save"
    BY <1>5 DEF SaveLink, storeVars, tickVars, batchVars
  <2>2. pc'[r] \in {"return", "cursor", "throw"} /\ \A q \in Runs \ {r} : pc'[q] = pc[q]
    <3>1. PICK step \in {"return", "cursor", "throw"} : Goto(r, step)
      BY <1>5 DEF SaveLink
    <3>2. QED
      BY <1>1, <3>1 DEF Typed, TypeOK, Goto
  <2>3. BatchSafe(r)'
    BY <1>1, <1>2, <2>1, <2>2, FolderStays DEF BatchSafe, Pending, TimeOf, In
  <2>4. CursorInv'
    BY <2>1, CursorStays
  <2>5. QED
    BY <1>1, <2>1, <2>2, <2>3, <2>4, GoesOnCover
<1>6. CASE DeltaEnd(k)
  <2>1. \A q \in Jobs : pc'[q] = pc[q]
    BY <1>1, <1>6 DEF Typed, TypeOK, DeltaEnd, Forget, Goto, Runs
  <2>2. JobInv'
    BY <1>6, <2>1 DEF Cover, JobInv, DeltaEnd
  <2>3. QED
    BY <1>1, <1>6, <2>2, ForgetCover DEF DeltaEnd
<1>7. ASSUME NEW f \in Folders, DeltaRead(k, f)
      PROVE  Cover'
  <2>1. UNCHANGED <<arrived, rows, cursor, job, since, todo, newest>> /\ pc[r] = "idle"
    BY <1>7 DEF DeltaRead, storeVars
  <2>2. pc'[r] \in {"throw", "page"} /\ \A q \in Runs \ {r} : pc'[q] = pc[q]
    <3>1. PICK step \in {"throw", "page"} : Goto(r, step)
      BY <1>7 DEF DeltaRead
    <3>2. QED
      BY <1>1, <3>1 DEF Typed, TypeOK, Goto
  <2>3. BatchSafe(r)'
    BY <1>2, <2>1, <2>2 DEF BatchSafe, TimeOf
  <2>4. JobInv'
    <3>1. \A q \in Jobs : pc'[q] = pc[q]
      BY <1>1, <2>2 DEF Runs
    <3>2. QED
      BY <2>1, <3>1 DEF Cover, JobInv
  <2>5. CursorInv'
    BY <2>1, CursorStays
  <2>6. SinceInv'
    <3>1. \A g \in Folders : pc'[<<"poll", g>>] = "pull" => pc[<<"poll", g>>] = "pull"
      BY <1>1, <2>2, RunsTyped
    <3>2. QED
      BY <2>1, <3>1, SinceStays
  <2>7. \A q \in Runs \ {r} : FolderOf(q)' = FolderOf(q)
    <3> SUFFICES ASSUME NEW q \in Runs \ {r} PROVE FolderOf(q)' = FolderOf(q)
      OBVIOUS
    <3>1. CASE q \in Deltas
      <4>1. PICK other \in Ticks : q = <<"delta", other>>
        BY <3>1 DEF Deltas
      <4>2. other # k /\ FolderOf(q) = at[other]
        BY <4>1, FolderOfRun
      <4>3. at'[other] = at[other]
        BY <1>1, <1>7, <4>2 DEF Typed, TypeOK, DeltaRead
      <4>4. FolderOf(q)' = at'[other]
        BY <3>1, <4>1 DEF FolderOf, Polls, Webhooks, Deltas
      <4>5. QED
        BY <4>2, <4>3, <4>4
    <3>2. CASE q \notin Deltas
      BY <3>2 DEF FolderOf, Runs, Jobs
    <3>3. QED
      BY <3>1, <3>2
  <2>8. QED
    BY <1>1, <2>1, <2>2, <2>3, <2>4, <2>5, <2>6, <2>7, RunCover
<1>8. CASE IngestSteps(r)
  BY <1>1, <1>8, IngestCover
<1>9. QED
  BY <1>3, <1>4, <1>5, <1>6, <1>7, <1>8 DEF DeltaSteps

\* Every step preserves Cover, as long as no notification is served.
LEMMA NextCover ==
  ASSUME "webhook" \notin Modes, TimesApart
  PROVE  IInv /\ Cover /\ [Next]_vars => Cover'
<1> SUFFICES ASSUME IInv, Cover, [Next]_vars PROVE Cover'
  OBVIOUS
<1>1. Typed
  BY DEF IInv
<1>2. ASSUME NEW m \in Msgs, Arrive(m) PROVE Cover'
  BY <1>2, ArriveCover
<1>3. ASSUME NEW m \in Msgs PROVE ~Notify(m)
  BY DEF Notify
<1>4. ASSUME NEW m \in Msgs PROVE ~WebhookSteps(m)
  <2>1. <<"webhook", m>> \in Jobs /\ <<"webhook", m>> \in Webhooks
    BY DEF Jobs, Webhooks
  <2>2. pc[<<"webhook", m>>] = "idle"
    BY <2>1 DEF Cover, JobInv
  <2>3. QED
    BY <2>2 DEF WebhookSteps, WebhookFetch, IngestSteps, IngestEnd, SetCursor, Ingest
<1>5. ASSUME NEW f \in Folders, ExpireLink(f) \/ SubscriptionSteps(f) PROVE Cover'
  <2>1. UNCHANGED <<arrived, rows, cursor, job, since, at, pc, todo, newest>>
    BY <1>5 DEF ExpireLink, SubscriptionSteps, SubscriptionRead, SubscriptionFind,
       SubscriptionWrite, SubscriptionFails, storeVars, tickVars, batchVars
  <2>2. QED
    BY <2>1, QuietCover DEF Cover, JobInv
<1>6. ASSUME NEW f \in Folders, PollSteps(f) PROVE Cover'
  BY <1>1, <1>6, RunsTyped, ReadCover, PullCover, IngestCover DEF PollSteps
<1>7. ASSUME NEW k \in Ticks, DeltaSteps(k) PROVE Cover'
  BY <1>7, TickCover
<1>8. ASSUME NEW r \in Jobs, Queue(r) PROVE Cover'
  BY <1>1, <1>8, QueueCover
<1>9. CASE ScheduleTick
  <2>1. UNCHANGED <<arrived, rows, cursor, since, at, pc, todo, newest>>
    BY <1>9 DEF ScheduleTick, storeVars, tickVars, batchVars
  <2>2. \A r \in Jobs : job'[r] = job[r] \/ (r \in Polls /\ job[r].state = "none")
    BY <1>9 DEF ScheduleTick, Add
  <2>3. \A r \in Webhooks : r \notin Polls /\ r \in Jobs
    BY DEF Polls, Webhooks, Jobs
  <2>4. JobInv'
    BY <2>1, <2>2, <2>3 DEF Cover, JobInv
  <2>5. QED
    BY <2>1, <2>4, QuietCover
<1>10. CASE WorkerCrash
  <2>1. /\ \A r \in Runs : pc'[r] = "idle" /\ newest'[r] = 0
        /\ UNCHANGED <<arrived, rows, cursor, job, at>>
    BY <1>10 DEF WorkerCrash, storeVars
  <2>2. InOrder' /\ JobInv'
    BY <2>1 DEF Cover, InOrder, JobInv, Runs
  <2>3. CursorInv'
    BY <2>1, CursorStays
  <2>4. SinceInv'
    BY <2>1, RunsTyped DEF SinceInv
  <2>5. BatchInv'
    BY <2>1 DEF BatchInv, BatchSafe, TimeOf
  <2>6. QED
    BY <2>2, <2>3, <2>4, <2>5 DEF Cover
<1>11. CASE UNCHANGED vars
  <2>1. UNCHANGED <<arrived, rows, cursor, job, since, at, pc, todo, newest>>
    BY <1>11 DEF vars, storeVars, tickVars, batchVars
  <2>2. QED
    BY <2>1, QuietCover DEF Cover, JobInv
<1>12. QED
  BY <1>2, <1>3, <1>4, <1>5, <1>6, <1>7, <1>8, <1>9, <1>10, <1>11 DEF Next

\* As long as no notification is served, and no two mails of a folder are received in the
\* same second, the cursor never passes a mail that is not ingested, whatever polls, delta
\* ticks, failures and crashes do (inbox.worker.ts, inbox-ingest.service.ts).
THEOREM CursorNeverSkips ==
  ASSUME "webhook" \notin Modes, TimesApart
  PROVE  Spec => []CursorCovers
<1>1. Init => Cover
  BY InitCover
<1>2. IInv /\ Cover /\ [Next]_vars => Cover'
  BY NextCover
<1>3. IInv /\ Cover => CursorCovers
  <2> SUFFICES ASSUME IInv, Cover, NEW m \in arrived, Received[m] <= cursor[Folder[m]], Late(m)
               PROVE  m \in rows
    BY DEF CursorCovers, Late
  <2>1. m \in In(Folder[m]) /\ Folder[m] \in Folders
    BY SyncAssumption DEF IInv, Typed, TypeOK, In
  <2>2. QED
    BY <2>1 DEF Cover, CursorInv, Safe, Covered
<1>4. QED
  BY <1>1, <1>2, <1>3, Invariance, PTL DEF Spec

-----------------------------------------------------------------------------
(* What MailIsIngested rests on: a delta tick gets nearer to its end with every *)
(* step, so that it ends once it is left to run and no mail arrives.         *)

\* How far a run is from its end, as long as nothing more is reported to it.
Height ==
    [step \in Steps |->
        CASE step = "read" -> 8
          [] step = "pull" -> 7
          [] step = "ingest" -> 6
          [] step = "page" -> 5
          [] step = "last" -> 4
          [] step = "save" -> 3
          [] step = "cursor" -> 2
          [] step \in {"return", "throw"} -> 1
          [] OTHER -> 0]

\* The walk of run r is over, or more was reported to it, or it is further down, or one mail
\* of its batch is done.
WalkDescends(r) ==
    \/ pc[r] # "idle" /\ pc'[r] = "idle"
    \/ seen[r] \subseteq seen'[r] /\ seen'[r] # seen[r]
    \/ seen'[r] = seen[r] /\ Height[pc'[r]] < Height[pc[r]]
    \/ /\ seen'[r] = seen[r] /\ pc'[r] = pc[r]
       /\ todo'[r] \subseteq todo[r] /\ todo'[r] # todo[r]

RunStays(r) == UNCHANGED <<pc[r], seen[r], todo[r]>>

WalkRests(r) ==
    \/ RunStays(r)
    \/ pc[r] = "idle" /\ pc'[r] = "idle"

\* Tick k stands still, or has one folder less to visit, or its walk of a folder descends.
TickAdvances(k) ==
    \/ left'[k] \subseteq left[k] /\ left'[k] # left[k]
    \/ /\ left'[k] = left[k]
       /\ WalkDescends(<<"delta", k>>) \/ WalkRests(<<"delta", k>>)

\* A batch goes on: mail by mail, then a step down.
LEMMA BatchDescends ==
  ASSUME Typed, NEW r \in Runs, IngestSteps(r)
  PROVE  WalkDescends(r) /\ seen' = seen /\ job' = job /\ pc'[r] # "idle"
<1>1. seen' = seen /\ job' = job
  BY DEF IngestSteps, IngestEnd, SetCursor, Ingest, batchVars
<1>2. pc \in [Runs -> Steps] /\ todo \in [Runs -> SUBSET Msgs] /\ seen \in [Runs -> SUBSET Msgs]
  BY DEF Typed, TypeOK
<1>3. CASE IngestEnd(r)
  <2>1. \/ pc[r] = "ingest" /\ pc'[r] = "page"
        \/ pc[r] = "last" /\ pc'[r] \in {"save", "cursor", "return"}
    BY <1>2, <1>3 DEF IngestEnd, Goto
  <2>2. QED
    BY <1>1, <2>1 DEF WalkDescends, Height, Steps
<1>4. CASE SetCursor(r)
  <2>1. pc[r] = "cursor" /\ pc'[r] \in {"return", "throw"}
    BY <1>2, <1>4 DEF SetCursor, Goto
  <2>2. QED
    BY <1>1, <2>1 DEF WalkDescends, Height, Steps
<1>5. ASSUME NEW m \in Msgs, Ingest(r, m) PROVE WalkDescends(r) /\ pc'[r] # "idle"
  <2>1. pc[r] \in {"ingest", "last"} /\ m \in todo[r]
    BY <1>5 DEF Ingest
  <2>2. CASE pc' = pc /\ todo' = [todo EXCEPT ![r] = @ \ {m}]
    <3>1. todo'[r] = todo[r] \ {m}
      BY <1>2, <2>2
    <3>2. QED
      BY <1>1, <2>1, <2>2, <3>1 DEF WalkDescends
  <2>3. CASE Goto(r, "throw")
    <3>1. pc'[r] = "throw"
      BY <1>2, <2>3 DEF Goto
    <3>2. QED
      BY <1>1, <2>1, <3>1 DEF WalkDescends, Height, Steps
  <2>4. QED
    BY <1>5, <2>2, <2>3 DEF Ingest
<1>6. QED
  BY <1>1, <1>3, <1>4, <1>5 DEF IngestSteps

\* A page reports something new, or is the last one.
LEMMA PageDescends ==
  ASSUME Typed, NEW k \in Ticks, DeltaPage(k)
  PROVE  WalkDescends(<<"delta", k>>)
<1> DEFINE r == <<"delta", k>>
           news == In(at[k]) \ seen[r]
<1>1. r \in Runs
  BY RunsTyped
<1>2. pc \in [Runs -> Steps] /\ seen \in [Runs -> SUBSET Msgs]
  BY DEF Typed, TypeOK
<1>3. pc[r] = "page"
  BY DEF DeltaPage
<1>4. ASSUME NEW page \in SUBSET news, page # {} \/ news = {},
             seen' = [seen EXCEPT ![r] = @ \cup page],
             Take(r, page, IF page = news THEN "last" ELSE "ingest")
      PROVE  WalkDescends(r)
  <2>1. seen'[r] = seen[r] \cup page
    BY <1>1, <1>2, <1>4
  <2>2. CASE page # {}
    <3>1. \E m \in page : m \notin seen[r]
      BY <2>2
    <3>2. QED
      BY <2>1, <3>1 DEF WalkDescends
  <2>3. CASE page = {}
    <3>1. page = news /\ seen'[r] = seen[r]
      BY <1>4, <2>1, <2>3
    <3>2. pc'[r] = "last"
      BY <1>1, <1>2, <1>4, <3>1 DEF Take, Goto
    <3>3. QED
      BY <1>3, <3>1, <3>2 DEF WalkDescends, Height, Steps
  <2>4. QED
    BY <2>2, <2>3
<1>5. CASE Goto(r, "throw") /\ UNCHANGED seen
  <2>1. pc'[r] = "throw"
    BY <1>1, <1>2, <1>5 DEF Goto
  <2>2. QED
    BY <1>3, <1>5, <2>1 DEF WalkDescends, Height, Steps
<1>6. QED
  BY <1>4, <1>5 DEF DeltaPage

\* Every step of a tick, but the one that starts it, brings it on.
LEMMA TickGoesOn ==
  ASSUME Typed, NEW k \in Ticks, DeltaSteps(k)
  PROVE  TickAdvances(k) \/ DeltaTick(k)
<1> DEFINE r == <<"delta", k>>
<1>1. r \in Runs /\ r \in Deltas
  BY RunsTyped
<1>2. /\ pc \in [Runs -> Steps] /\ seen \in [Runs -> SUBSET Msgs]
      /\ left \in [Ticks -> SUBSET Folders]
  BY DEF Typed, TypeOK
<1>3. CASE DeltaPage(k)
  BY <1>3, PageDescends DEF TickAdvances, DeltaPage, tickVars
<1>4. CASE SaveLink(k)
  <2>1. left' = left /\ seen' = seen /\ pc[r] = "save"
    BY <1>4 DEF SaveLink, tickVars, batchVars
  <2>2. pc'[r] \in {"return", "cursor", "throw"}
    BY <1>1, <1>2, <1>4 DEF SaveLink, Goto
  <2>3. WalkDescends(r)
    BY <2>1, <2>2 DEF WalkDescends, Height, Steps
  <2>4. QED
    BY <2>1, <2>3 DEF TickAdvances
<1>5. CASE DeltaEnd(k)
  <2>1. left' = left /\ pc[r] # "idle" /\ pc'[r] = "idle"
    BY <1>1, <1>2, <1>5 DEF DeltaEnd, Forget, Goto, tickVars
  <2>2. QED
    BY <2>1 DEF TickAdvances, WalkDescends
<1>6. ASSUME NEW f \in Folders, DeltaRead(k, f) PROVE TickAdvances(k)
  <2>1. f \in left[k] /\ left'[k] = left[k] \ {f}
    BY <1>2, <1>6 DEF DeltaRead
  <2>2. QED
    BY <2>1 DEF TickAdvances
<1>7. CASE IngestSteps(r)
  <2>1. left' = left
    BY <1>7 DEF IngestSteps, IngestEnd, SetCursor, Ingest, tickVars
  <2>2. QED
    BY <1>1, <1>7, <2>1, BatchDescends DEF TickAdvances
<1>8. QED
  BY <1>3, <1>4, <1>5, <1>6, <1>7 DEF DeltaSteps

\* What one run does leaves the others where they are.
LEMMA OthersRest ==
  ASSUME Typed, NEW r \in Runs, NEW other \in Runs, other # r,
         IngestSteps(r)
           \/ (\E batch, step : Take(r, batch, step) /\ seen'[other] = seen[other])
           \/ (\E step : Goto(r, step) /\ UNCHANGED <<seen, todo>>) \/ Forget(r)
  PROVE  RunStays(other)
<1>1. /\ pc \in [Runs -> Steps] /\ seen \in [Runs -> SUBSET Msgs]
      /\ todo \in [Runs -> SUBSET Msgs]
  BY DEF Typed, TypeOK
<1>2. CASE IngestSteps(r)
  <2>1. pc' = pc \/ (\E step : Goto(r, step))
    BY <1>2 DEF IngestSteps, IngestEnd, SetCursor, Ingest
  <2>2. todo' = todo \/ (\E batch : todo' = [todo EXCEPT ![r] = batch])
    BY <1>2 DEF IngestSteps, IngestEnd, SetCursor, Ingest, batchVars
  <2>3. seen' = seen
    BY <1>2 DEF IngestSteps, IngestEnd, SetCursor, Ingest, batchVars
  <2>4. pc'[other] = pc[other]
    BY <1>1, <2>1 DEF Goto
  <2>5. todo'[other] = todo[other]
    BY <1>1, <2>2
  <2>6. QED
    BY <2>3, <2>4, <2>5 DEF RunStays
<1>3. ASSUME NEW batch, NEW step, Take(r, batch, step), seen'[other] = seen[other]
      PROVE  RunStays(other)
  BY <1>1, <1>3 DEF Take, Goto, RunStays
<1>4. ASSUME NEW step, Goto(r, step), UNCHANGED <<seen, todo>> PROVE RunStays(other)
  BY <1>1, <1>4 DEF Goto, RunStays
<1>5. CASE Forget(r)
  BY <1>1, <1>5 DEF Forget, Goto, RunStays
<1>6. QED
  BY <1>2, <1>3, <1>4, <1>5

\* The steps of run r: of a delta tick, or of the handler of a job.
RunSteps(r) ==
    \/ r \in Deltas /\ DeltaSteps(r[2])
    \/ r \in Polls /\ PollSteps(r[2])
    \/ r \in Webhooks /\ WebhookSteps(r[2])

\* A tick, a poll, a notification and the queues leave the other runs where they are.
LEMMA RunsAside ==
  ASSUME Typed, NEW other \in Runs, NEW r \in Runs, r # other,
         RunSteps(r) \/ (r \in Jobs /\ Queue(r))
  PROVE  RunStays(other)
<1>1. /\ pc \in [Runs -> Steps] /\ seen \in [Runs -> SUBSET Msgs]
      /\ todo \in [Runs -> SUBSET Msgs]
  BY DEF Typed, TypeOK
<1>2. ASSUME NEW j \in Ticks, r = <<"delta", j>>, DeltaSteps(j) PROVE RunStays(other)
  <2>1. CASE DeltaTick(j)
    BY <2>1 DEF DeltaTick, RunStays, batchVars
  <2>2. CASE DeltaPage(j)
    <3>1. \/ \E batch : seen' = [seen EXCEPT ![r] = batch]
          \/ seen' = seen
      BY <1>2, <2>2 DEF DeltaPage
    <3>2. \/ \E batch, step : Take(r, batch, step)
          \/ \E step : Goto(r, step) /\ UNCHANGED todo
      BY <1>2, <2>2 DEF DeltaPage
    <3>3. pc'[other] = pc[other]
      BY <1>1, <3>2 DEF Take, Goto
    <3>4. todo'[other] = todo[other]
      BY <1>1, <3>2 DEF Take
    <3>5. seen'[other] = seen[other]
      BY <1>1, <3>1
    <3>6. QED
      BY <3>3, <3>4, <3>5 DEF RunStays
  <2>3. CASE SaveLink(j)
    <3>1. UNCHANGED <<seen, todo>> /\ \E step : Goto(r, step)
      BY <1>2, <2>3 DEF SaveLink, batchVars
    <3>2. QED
      BY <3>1, OthersRest
  <2>4. CASE DeltaEnd(j)
    BY <1>2, <2>4, OthersRest DEF DeltaEnd
  <2>5. ASSUME NEW f \in Folders, DeltaRead(j, f) PROVE RunStays(other)
    <3>1. \E step : Goto(r, step)
      BY <1>2, <2>5 DEF DeltaRead
    <3>2. seen' = seen \/ \E batch : seen' = [seen EXCEPT ![r] = batch]
      BY <1>2, <2>5 DEF DeltaRead
    <3>3. pc'[other] = pc[other]
      BY <1>1, <3>1 DEF Goto
    <3>4. seen'[other] = seen[other]
      BY <1>1, <3>2
    <3>5. QED
      BY <2>5, <3>3, <3>4 DEF RunStays, DeltaRead
  <2>6. CASE IngestSteps(<<"delta", j>>)
    BY <1>2, <2>6, OthersRest
  <2>7. QED
    BY <1>2, <2>1, <2>2, <2>3, <2>4, <2>5, <2>6 DEF DeltaSteps
<1>3. ASSUME NEW f \in Folders, r = <<"poll", f>>, PollSteps(f) PROVE RunStays(other)
  <2>1. CASE PollRead(f)
    <3>1. UNCHANGED <<seen, todo>> /\ \E step : Goto(r, step)
      BY <1>3, <2>1 DEF PollRead, batchVars
    <3>2. QED
      BY <3>1, OthersRest
  <2>2. CASE PollPull(f)
    <3>1. \/ \E batch, step : Take(r, batch, step) /\ UNCHANGED seen
          \/ \E step : Goto(r, step) /\ UNCHANGED <<seen, todo>>
      BY <1>3, <2>2 DEF PollPull
    <3>2. QED
      BY <3>1, OthersRest
  <2>3. CASE IngestSteps(<<"poll", f>>)
    BY <1>3, <2>3, OthersRest
  <2>4. QED
    BY <1>3, <2>1, <2>2, <2>3 DEF PollSteps
<1>4. ASSUME NEW m \in Msgs, r = <<"webhook", m>>, WebhookSteps(m) PROVE RunStays(other)
  <2>1. CASE WebhookFetch(m)
    <3>1. \/ \E batch, step : Take(r, batch, step) /\ seen'[other] = seen[other]
          \/ \E step : Goto(r, step) /\ UNCHANGED <<seen, todo>>
      BY <1>1, <1>4, <2>1 DEF WebhookFetch
    <3>2. QED
      BY <3>1, OthersRest
  <2>2. CASE IngestSteps(<<"webhook", m>>)
    BY <1>4, <2>2, OthersRest
  <2>3. QED
    BY <1>4, <2>1, <2>2 DEF WebhookSteps
<1>5. CASE r \in Jobs /\ Queue(r)
  <2>1. \/ \E step : Goto(r, step) /\ UNCHANGED <<seen, todo>>
        \/ Forget(r)
        \/ UNCHANGED <<pc, seen, todo>>
    BY <1>5 DEF Queue, TakeJob, CompleteJob, FailAttempt, StalledCheck, batchVars
  <2>2. QED
    BY <2>1, OthersRest DEF RunStays
<1>6. QED
  BY <1>2, <1>3, <1>4, <1>5 DEF RunSteps, Deltas, Polls, Webhooks

\* Nor do they touch the list of folders of a tick that is not theirs.
LEMMA ListsAside ==
  ASSUME Typed, NEW k \in Ticks, NEW r \in Runs, r # <<"delta", k>>,
         RunSteps(r) \/ (r \in Jobs /\ Queue(r))
  PROVE  left'[k] = left[k]
<1>1. left \in [Ticks -> SUBSET Folders]
  BY DEF Typed, TypeOK
<1>2. ASSUME NEW j \in Ticks, j # k, DeltaSteps(j) PROVE left'[k] = left[k]
  BY <1>1, <1>2 DEF DeltaSteps, DeltaTick, DeltaPage, SaveLink, DeltaEnd, DeltaRead,
     IngestSteps, IngestEnd, SetCursor, Ingest, tickVars
<1>3. ASSUME NEW f \in Folders, PollSteps(f) PROVE left' = left
  BY <1>3 DEF PollSteps, PollRead, PollPull, IngestSteps, IngestEnd, SetCursor, Ingest, tickVars
<1>4. ASSUME NEW m \in Msgs, WebhookSteps(m) PROVE left' = left
  BY <1>4 DEF WebhookSteps, WebhookFetch, IngestSteps, IngestEnd, SetCursor, Ingest, tickVars
<1>5. CASE Queue(r)
  BY <1>5 DEF Queue, TakeJob, CompleteJob, FailAttempt, StalledCheck, tickVars
<1>6. ASSUME r \in Deltas PROVE r[2] \in Ticks /\ r[2] # k
  BY <1>6 DEF Deltas
<1>7. QED
  BY <1>2, <1>3, <1>4, <1>5, <1>6 DEF RunSteps, Polls, Webhooks

\* So that no tick is set back by another run.
LEMMA OtherRunsAside ==
  ASSUME Typed, NEW k \in Ticks, NEW r \in Runs, r # <<"delta", k>>,
         RunSteps(r) \/ (r \in Jobs /\ Queue(r))
  PROVE  TickAdvances(k)
BY RunsTyped, RunsAside, ListsAside DEF TickAdvances, WalkRests

\* No step of anyone sets a delta tick back.
LEMMA NextGoesOn ==
  ASSUME Typed, [Next]_vars, NEW k \in Ticks
  PROVE  TickAdvances(k) \/ DeltaTick(k)
<1> DEFINE walk == <<"delta", k>>
<1>1. \A r \in Jobs : r \in Runs /\ r # walk
  BY RunsTyped
<1>2. ASSUME UNCHANGED <<left, pc, seen, todo>> PROVE TickAdvances(k)
  BY <1>2 DEF TickAdvances, WalkRests, RunStays
<1>3. ASSUME NEW m \in Msgs, Arrive(m) \/ Notify(m) PROVE TickAdvances(k)
  BY <1>2, <1>3 DEF Arrive, Notify, tickVars, batchVars
<1>4. ASSUME NEW m \in Msgs, WebhookSteps(m) PROVE TickAdvances(k)
  <2> DEFINE r == <<"webhook", m>>
  <2>1. r \in Webhooks /\ r \in Jobs /\ r[2] = m
    BY DEF Webhooks, Jobs
  <2>2. QED
    BY <1>1, <1>4, <2>1, OtherRunsAside DEF RunSteps
<1>5. ASSUME NEW f \in Folders, ExpireLink(f) \/ SubscriptionSteps(f) PROVE TickAdvances(k)
  BY <1>2, <1>5 DEF ExpireLink, SubscriptionSteps, SubscriptionRead, SubscriptionFind,
     SubscriptionWrite, SubscriptionFails, tickVars, batchVars
<1>6. ASSUME NEW f \in Folders, PollSteps(f) PROVE TickAdvances(k)
  <2> DEFINE r == <<"poll", f>>
  <2>1. r \in Polls /\ r \in Jobs /\ r[2] = f
    BY DEF Polls, Jobs
  <2>2. QED
    BY <1>1, <1>6, <2>1, OtherRunsAside DEF RunSteps
<1>7. ASSUME NEW j \in Ticks, DeltaSteps(j) PROVE TickAdvances(k) \/ DeltaTick(k)
  <2>1. CASE j = k
    BY <1>7, <2>1, TickGoesOn
  <2>2. CASE j # k
    <3> DEFINE r == <<"delta", j>>
    <3>1. r \in Deltas /\ r \in Runs /\ r[2] = j /\ r # walk
      BY <2>2, RunsTyped
    <3>2. QED
      BY <1>7, <3>1, OtherRunsAside DEF RunSteps
  <2>3. QED
    BY <2>1, <2>2
<1>8. ASSUME NEW r \in Jobs, Queue(r) PROVE TickAdvances(k)
  BY <1>1, <1>8, OtherRunsAside
<1>9. CASE ScheduleTick
  BY <1>2, <1>9 DEF ScheduleTick, tickVars, batchVars
<1>10. CASE WorkerCrash
  <2>1. left'[k] = {} /\ pc'[walk] = "idle"
    BY <1>10, RunsTyped DEF WorkerCrash
  <2>2. CASE left[k] # {}
    BY <2>1, <2>2 DEF TickAdvances
  <2>3. CASE left[k] = {}
    BY <2>1, <2>3 DEF TickAdvances, WalkDescends, WalkRests, RunStays
  <2>4. QED
    BY <2>2, <2>3
<1>11. CASE UNCHANGED vars
  BY <1>2, <1>11 DEF vars, tickVars, batchVars
<1>12. QED
  BY <1>3, <1>4, <1>5, <1>6, <1>7, <1>8, <1>9, <1>10, <1>11 DEF Next

\* Between its start and its end a delta tick only gets on: however ticks, polls,
\* notifications, failures and crashes interleave, no step sets it back, and each of its own
\* visits a folder, fetches something new, ingests a mail or goes a step down
\* (tickDeltaOnce of v2-maintenance.worker.ts, the paging loop of delta.service.ts).
THEOREM TicksAdvance == Spec => [][\A k \in Ticks : TickAdvances(k) \/ DeltaTick(k)]_vars
<1>1. Typed /\ [Next]_vars => [\A k \in Ticks : TickAdvances(k) \/ DeltaTick(k)]_vars
  BY NextGoesOn
<1>2. QED
  BY <1>1, TypedAlways, PTL DEF Spec

-----------------------------------------------------------------------------
(* The jobs of polls and notifications: they end, and a notification that has   *)
(* fetched its mail completes only with it in the table.                      *)

InWork(r) == job[r].state \in {"waiting", "active"}

\* The attempts and the stalls that a job has left, and the way its handler has to go.
Chances(r) == (AttemptsOf(r) - job[r].tries) + (MaxStalledCount - job[r].stalls)
Rank(r) ==
    IF InWork(r)
    THEN 10 * Chances(r) + IF job[r].state = "waiting" THEN 9 ELSE Height[pc[r]]
    ELSE 0

\* The job of r has less before it than it had, or one mail less to ingest, or stands still.
JobAdvances(r) ==
    \/ Rank(r)' < Rank(r)
    \/ UNCHANGED <<job[r], pc[r]>> /\ todo'[r] \subseteq todo[r] /\ todo'[r] # todo[r]
    \/ job'[r] = job[r] /\ WalkRests(r)

\* A handler runs for an active job, and a job in the queue has chances left.
HandlerSteps == {"idle", "read", "pull", "last", "cursor", "throw", "return"}

HandlerOK(r) ==
    /\ pc[r] \in HandlerSteps
    /\ pc[r] # "idle" => job[r].state = "active"
    /\ InWork(r) => job[r].tries < AttemptsOf(r) /\ job[r].stalls <= MaxStalledCount

\* The mail of a notification is in the batch of its run until it has a row; a run that has
\* not fetched it, or is over, has nothing reported to it.
NotedOK(m) ==
    LET r == <<"webhook", m>> IN
    /\ pc[r] \in {"idle", "pull"} => seen[r] = {}
    /\ pc[r] = "last" => m \in todo[r] \cup rows
    /\ pc[r] = "cursor" => m \in rows
    /\ pc[r] = "return" /\ m \in seen[r] => m \in rows

QueueInv == (\A r \in Jobs : HandlerOK(r)) /\ (\A m \in Msgs : NotedOK(m))

\* What others do to a job: nothing, but a timer or the route may add it, and it may be
\* dropped once it is finished.
LeftAlone(r) ==
    /\ RunStays(r)
    /\ \/ job'[r] = job[r]
       \/ job[r].state = "none" /\ job'[r] = Add(job[r])
       \/ IsFinished(job[r]) /\ job'[r] = NoJob

\* BullMQ's transitions of a job, field by field.
LEMMA JobFields ==
  ASSUME NEW j \in Job, NEW n \in Nat \ {0}
  PROVE  /\ j.tries \in Nat /\ j.stalls \in Nat /\ j.state \in JobStates
         /\ Start(j).state = "active" /\ Start(j).tries = j.tries /\ Start(j).stalls = j.stalls
         /\ Complete(j).state = "completed"
         /\ \/ AfterThrow(j, n).state = "failed"
            \/ /\ AfterThrow(j, n).state = "waiting" /\ j.tries + 1 < n
               /\ AfterThrow(j, n).tries = j.tries + 1 /\ AfterThrow(j, n).stalls = j.stalls
         /\ \/ AfterStall(j).state = "failed"
            \/ /\ AfterStall(j).state = "waiting" /\ j.stalls + 1 <= MaxStalledCount
               /\ AfterStall(j).tries = j.tries /\ AfterStall(j).stalls = j.stalls + 1
         /\ j.state = "none" =>
                Add(j).state = "waiting" /\ Add(j).tries = 0 /\ Add(j).stalls = 0
         /\ NoJob.state = "none"
<1>1. j.tries \in Nat /\ j.stalls \in Nat /\ j.state \in JobStates
  BY DEF Job
<1>2. /\ Start(j).state = "active" /\ Start(j).tries = j.tries /\ Start(j).stalls = j.stalls
      /\ Complete(j).state = "completed"
  BY DEF Start, Complete, Job
<1>3. \/ AfterThrow(j, n).state = "failed"
      \/ /\ AfterThrow(j, n).state = "waiting" /\ j.tries + 1 < n
         /\ AfterThrow(j, n).tries = j.tries + 1 /\ AfterThrow(j, n).stalls = j.stalls
  BY DEF AfterThrow
<1>4. \/ AfterStall(j).state = "failed"
      \/ /\ AfterStall(j).state = "waiting" /\ j.stalls + 1 <= MaxStalledCount
         /\ AfterStall(j).tries = j.tries /\ AfterStall(j).stalls = j.stalls + 1
  BY <1>1 DEF AfterStall, Job, MaxStalledCount
<1>5. /\ j.state = "none" =>
              Add(j).state = "waiting" /\ Add(j).tries = 0 /\ Add(j).stalls = 0
      /\ NoJob.state = "none"
  BY DEF Add, NoJob
<1>6. QED
  BY <1>1, <1>2, <1>3, <1>4, <1>5

\* The ranks are natural numbers, above 9 while a chance is left.
LEMMA RanksTyped ==
  ASSUME Typed, NEW r \in Jobs, HandlerOK(r)
  PROVE  /\ Rank(r) \in Nat /\ Chances(r) \in Int /\ Height[pc[r]] \in 0..8
         /\ InWork(r) => Chances(r) >= 1
         /\ AttemptsOf(r) \in Nat \ {0} /\ job[r] \in Job /\ pc[r] \in Steps
<1>1. job[r] \in Job /\ pc[r] \in Steps
  BY RunsTyped DEF Typed, TypeOK
<1>2. Height[pc[r]] \in 0..8
  BY <1>1 DEF Height
<1>3. AttemptsOf(r) \in Nat \ {0}
  BY SyncAssumption DEF AttemptsOf
<1>4. job[r].tries \in Nat /\ job[r].stalls \in Nat
  BY <1>1, JobFields
<1>5. Chances(r) \in Int /\ (InWork(r) => Chances(r) >= 1)
  BY <1>3, <1>4 DEF Chances, HandlerOK, MaxStalledCount
<1>6. Rank(r) \in Nat
  BY <1>2, <1>5 DEF Rank
<1>7. QED
  BY <1>1, <1>2, <1>3, <1>5, <1>6

\* A step of a handler goes down, or ingests a mail; it leaves the queues and the rows.
LEMMA HandlerGoesDown ==
  ASSUME Typed, QueueInv, NEW r \in Jobs, RunSteps(r)
  PROVE  /\ job' = job /\ job[r].state = "active" /\ rows \subseteq rows'
         /\ pc'[r] \in HandlerSteps \ {"idle"}
         /\ \/ Height[pc'[r]] < Height[pc[r]]
            \/ pc'[r] = pc[r] /\ todo'[r] \subseteq todo[r] /\ todo'[r] # todo[r]
<1>1. r \in Runs /\ r \notin Deltas
  BY RunsTyped
<1>2. pc \in [Runs -> Steps] /\ todo \in [Runs -> SUBSET Msgs]
  BY DEF Typed, TypeOK
<1>3. pc[r] \in HandlerSteps /\ (pc[r] # "idle" => job[r].state = "active")
  BY DEF QueueInv, HandlerOK
<1>4. CASE IngestSteps(r)
  <2>1. WalkDescends(r) /\ seen' = seen /\ job' = job /\ pc'[r] # "idle"
    BY <1>1, <1>4, BatchDescends
  <2>2. pc[r] # "idle" /\ rows \subseteq rows' /\ pc'[r] \in HandlerSteps
    <3>1. CASE IngestEnd(r)
      BY <1>1, <1>2, <1>3, <3>1 DEF IngestEnd, Goto, HandlerSteps, storeVars
    <3>2. CASE SetCursor(r)
      BY <1>1, <1>2, <3>2 DEF SetCursor, Goto, HandlerSteps
    <3>3. ASSUME NEW m \in Msgs, Ingest(r, m)
          PROVE  pc[r] # "idle" /\ rows \subseteq rows' /\ pc'[r] \in HandlerSteps
      BY <1>1, <1>2, <1>3, <3>3 DEF Ingest, Goto, HandlerSteps
    <3>4. QED
      BY <1>4, <3>1, <3>2, <3>3 DEF IngestSteps
  <2>3. QED
    BY <1>3, <2>1, <2>2 DEF WalkDescends
<1>5. ASSUME NEW f \in Folders, r = <<"poll", f>>, PollRead(f) \/ PollPull(f)
      PROVE  /\ job' = job /\ rows' = rows /\ pc[r] # "idle"
             /\ pc'[r] \in HandlerSteps \ {"idle"} /\ Height[pc'[r]] < Height[pc[r]]
  <2>1. job' = job /\ rows' = rows
    BY <1>5 DEF PollRead, PollPull, storeVars
  <2>2. \/ pc[r] = "read" /\ pc'[r] \in {"pull", "return", "throw"}
        \/ pc[r] = "pull" /\ pc'[r] \in {"last", "return"}
    BY <1>1, <1>2, <1>5 DEF PollRead, PollPull, Take, Goto
  <2>3. QED
    BY <2>1, <2>2 DEF HandlerSteps, Height, Steps
<1>6. ASSUME NEW m \in Msgs, r = <<"webhook", m>>, WebhookFetch(m)
      PROVE  /\ job' = job /\ rows' = rows /\ pc[r] # "idle"
             /\ pc'[r] \in HandlerSteps \ {"idle"} /\ Height[pc'[r]] < Height[pc[r]]
  <2>1. job' = job /\ rows' = rows
    BY <1>6 DEF WebhookFetch, storeVars
  <2>2. pc[r] = "pull" /\ pc'[r] \in {"last", "return", "throw"}
    BY <1>1, <1>2, <1>6 DEF WebhookFetch, Take, Goto
  <2>3. QED
    BY <2>1, <2>2 DEF HandlerSteps, Height, Steps
<1>7. \/ IngestSteps(r)
      \/ \E f \in Folders : r = <<"poll", f>> /\ (PollRead(f) \/ PollPull(f))
      \/ \E m \in Msgs : r = <<"webhook", m>> /\ WebhookFetch(m)
  BY <1>1 DEF RunSteps, Polls, Webhooks, PollSteps, WebhookSteps
<1>8. QED
  BY <1>3, <1>4, <1>5, <1>6, <1>7

\* A step of the queue on a job, and what it makes of it.
LEMMA QueueMoves ==
  ASSUME Typed, QueueInv, NEW r \in Jobs, Queue(r)
  PROVE  /\ rows' = rows
         /\ seen'[r] = {} \/ seen'[r] = seen[r]
         /\ \/ job[r].state = "waiting" /\ job'[r] = Start(job[r]) /\ pc'[r] \in {"read", "pull"}
            \/ /\ pc[r] = "return" /\ job'[r] = Complete(job[r])
               /\ pc'[r] = "idle" /\ seen'[r] = {}
            \/ /\ pc[r] = "throw" /\ job'[r] = AfterThrow(job[r], AttemptsOf(r))
               /\ pc'[r] = "idle" /\ seen'[r] = {}
            \/ /\ job[r].state = "active" /\ pc[r] = "idle" /\ pc'[r] = "idle"
               /\ job'[r] = AfterStall(job[r])
<1>1. /\ r \in Runs /\ pc \in [Runs -> Steps] /\ job \in [Jobs -> Job]
      /\ seen \in [Runs -> SUBSET Msgs]
  BY RunsTyped DEF Typed, TypeOK
<1>2. rows' = rows
  BY DEF Queue, TakeJob, CompleteJob, FailAttempt, StalledCheck, storeVars
<1>3. CASE TakeJob(r)
  BY <1>1, <1>2, <1>3 DEF TakeJob, Goto, batchVars
<1>4. CASE CompleteJob(r)
  <2>1. job'[r] = Complete(job[r])
    BY <1>4 DEF CompleteJob, Finish
  <2>2. QED
    BY <1>1, <1>2, <1>4, <2>1 DEF CompleteJob, Forget, Goto
<1>5. CASE FailAttempt(r)
  <2> DEFINE after == AfterThrow(job[r], AttemptsOf(r))
  <2>1. Finish(r, after) \/ job' = [job EXCEPT ![r] = after]
    BY <1>5 DEF FailAttempt
  <2>2. job'[r] = after
    BY <1>1, <2>1 DEF Finish
  <2>3. QED
    BY <1>1, <1>2, <1>5, <2>2 DEF FailAttempt, Forget, Goto
<1>6. CASE StalledCheck(r)
  BY <1>1, <1>2, <1>6 DEF StalledCheck, batchVars
<1>7. QED
  BY <1>3, <1>4, <1>5, <1>6 DEF Queue

\* A step of the queue on one job leaves the others, but for those that have aged.
LEMMA QueueAside ==
  ASSUME Typed, NEW q \in Jobs, Queue(q), NEW r \in Jobs, r # q
  PROVE  job'[r] = job[r] \/ (IsFinished(job[r]) /\ job'[r] = NoJob)
<1>1. job \in [Jobs -> Job] /\ job[q] \in Job
  BY DEF Typed, TypeOK
<1>2. ASSUME NEW after, IsFinished(after), Finish(q, after)
      PROVE  job'[r] = job[r] \/ (IsFinished(job[r]) /\ job'[r] = NoJob)
  BY <1>2 DEF Finish, IsFinished
<1>3. CASE TakeJob(q) \/ StalledCheck(q)
  BY <1>1, <1>3 DEF TakeJob, StalledCheck
<1>4. CASE CompleteJob(q)
  <2>1. IsFinished(Complete(job[q]))
    BY <1>1 DEF IsFinished, Complete, Job
  <2>2. QED
    BY <1>2, <1>4, <2>1 DEF CompleteJob
<1>5. CASE FailAttempt(q)
  <2> DEFINE after == AfterThrow(job[q], AttemptsOf(q))
  <2>1. CASE IsFinished(after)
    BY <1>2, <1>5, <2>1 DEF FailAttempt
  <2>2. CASE ~IsFinished(after)
    <3>1. job' = [job EXCEPT ![q] = after]
      BY <1>5, <2>2 DEF FailAttempt
    <3>2. QED
      BY <1>1, <3>1
  <2>3. QED
    BY <2>1, <2>2
<1>6. QED
  BY <1>3, <1>4, <1>5 DEF Queue

\* What a step can be to the job of r.
LEMMA NextOfJob ==
  ASSUME Typed, QueueInv, [Next]_vars, NEW r \in Jobs
  PROVE  \/ Queue(r)
         \/ RunSteps(r)
         \/ WorkerCrash
         \/ LeftAlone(r) /\ rows \subseteq rows'
<1> DEFINE Rest == LeftAlone(r) /\ rows \subseteq rows'
<1>1. r \in Runs /\ r \notin Deltas /\ job \in [Jobs -> Job]
  BY RunsTyped DEF Typed, TypeOK
<1>2. ASSUME UNCHANGED <<job, pc, seen, todo, rows>> PROVE Rest
  BY <1>2 DEF LeftAlone, RunStays
<1>3. ASSUME NEW m \in Msgs, Arrive(m) PROVE Rest
  BY <1>2, <1>3 DEF Arrive, storeVars, batchVars
<1>4. ASSUME NEW m \in Msgs, Notify(m) PROVE Rest
  <2>1. UNCHANGED <<pc, seen, todo, rows>>
    BY <1>4 DEF Notify, storeVars, batchVars
  <2>2. job'[r] \in {job[r], Add(job[r])}
    BY <1>1, <1>4 DEF Notify
  <2>3. job[r].state # "none" => Add(job[r]) = job[r]
    BY DEF Add
  <2>4. QED
    BY <2>1, <2>2, <2>3 DEF LeftAlone, RunStays
<1>5. CASE ScheduleTick
  <2>1. UNCHANGED <<pc, seen, todo, rows>>
    BY <1>5 DEF ScheduleTick, storeVars, batchVars
  <2>2. job'[r] \in {job[r], Add(job[r])}
    BY <1>1, <1>5 DEF ScheduleTick
  <2>3. job[r].state # "none" => Add(job[r]) = job[r]
    BY DEF Add
  <2>4. QED
    BY <2>1, <2>2, <2>3 DEF LeftAlone, RunStays
<1>6. ASSUME NEW f \in Folders, ExpireLink(f) \/ SubscriptionSteps(f) PROVE Rest
  BY <1>2, <1>6 DEF ExpireLink, SubscriptionSteps, SubscriptionRead, SubscriptionFind,
     SubscriptionWrite, SubscriptionFails, storeVars, batchVars
<1>7. ASSUME NEW q \in Runs, q # r, RunSteps(q) PROVE Rest
  <2>1. RunStays(r)
    BY <1>1, <1>7, RunsAside
  <2>2. rows \subseteq rows' /\ job' = job
    <3>1. ASSUME NEW p \in Runs, IngestSteps(p) PROVE rows \subseteq rows' /\ job' = job
      BY <3>1 DEF IngestSteps, IngestEnd, SetCursor, Ingest, storeVars
    <3>2. ASSUME NEW k \in Ticks, DeltaSteps(k) PROVE rows \subseteq rows' /\ job' = job
      BY <3>1, <3>2, RunsTyped
         DEF DeltaSteps, DeltaTick, DeltaPage, SaveLink, DeltaEnd, DeltaRead, storeVars
    <3>3. ASSUME NEW f \in Folders, PollSteps(f) PROVE rows \subseteq rows' /\ job' = job
      BY <3>1, <3>3, RunsTyped DEF PollSteps, PollRead, PollPull, storeVars
    <3>4. ASSUME NEW m \in Msgs, WebhookSteps(m) PROVE rows \subseteq rows' /\ job' = job
      BY <3>1, <3>4, RunsTyped DEF WebhookSteps, WebhookFetch, storeVars
    <3>5. QED
      BY <1>7, <3>2, <3>3, <3>4 DEF RunSteps, Deltas, Polls, Webhooks
  <2>3. QED
    BY <2>1, <2>2 DEF LeftAlone
<1>8. ASSUME NEW q \in Jobs, q # r, Queue(q) PROVE Rest
  <2>1. RunStays(r)
    BY <1>1, <1>8, RunsTyped, RunsAside
  <2>2. job'[r] = job[r] \/ (IsFinished(job[r]) /\ job'[r] = NoJob)
    BY <1>8, QueueAside
  <2>3. rows' = rows
    BY <1>8 DEF Queue, TakeJob, CompleteJob, FailAttempt, StalledCheck, storeVars
  <2>4. QED
    BY <2>1, <2>2, <2>3 DEF LeftAlone
<1>9. CASE UNCHANGED vars
  BY <1>2, <1>9 DEF vars, storeVars, batchVars
<1>10. ASSUME NEW m \in Msgs, WebhookSteps(m)
       PROVE  \E q \in Runs : RunSteps(q)
  BY <1>10, RunsTyped DEF RunSteps, Webhooks
<1>11. ASSUME NEW f \in Folders, PollSteps(f)
       PROVE  \E q \in Runs : RunSteps(q)
  BY <1>11, RunsTyped DEF RunSteps, Polls
<1>12. ASSUME NEW k \in Ticks, DeltaSteps(k)
       PROVE  \E q \in Runs : RunSteps(q)
  BY <1>12, RunsTyped DEF RunSteps
<1>13. QED
  BY <1>3, <1>4, <1>5, <1>6, <1>7, <1>8, <1>9, <1>10, <1>11, <1>12 DEF Next

\* Each step of a job brings it on.
LEMMA NextJob ==
  ASSUME Typed, QueueInv, [Next]_vars, NEW r \in Jobs, InWork(r)
  PROVE  JobAdvances(r)
<1>1. HandlerOK(r)
  BY DEF QueueInv
<1>2. /\ Chances(r) \in Int /\ Chances(r) >= 1 /\ Height[pc[r]] \in 0..8 /\ job[r] \in Job
      /\ AttemptsOf(r) \in Nat \ {0} /\ pc[r] \in Steps
  BY <1>1, RanksTyped
<1>3. job[r].state \in {"waiting", "active"}
  BY DEF InWork
<1>4. CASE RunSteps(r)
  <2>1. /\ job' = job /\ job[r].state = "active" /\ pc'[r] \in HandlerSteps
        /\ \/ Height[pc'[r]] < Height[pc[r]]
           \/ pc'[r] = pc[r] /\ todo'[r] \subseteq todo[r] /\ todo'[r] # todo[r]
    BY <1>4, HandlerGoesDown
  <2>2. CASE Height[pc'[r]] < Height[pc[r]]
    <3>1. Rank(r) = 10 * Chances(r) + Height[pc[r]]
      BY <1>3, <2>1 DEF Rank, InWork
    <3>2. Rank(r)' = 10 * Chances(r) + Height[pc'[r]]
      BY <1>3, <2>1 DEF Rank, InWork, Chances
    <3>3. Height[pc'[r]] \in 0..8
      BY <2>1 DEF Height, HandlerSteps, Steps
    <3>4. QED
      BY <1>2, <2>2, <3>1, <3>2, <3>3 DEF JobAdvances
  <2>3. QED
    BY <2>1, <2>2 DEF JobAdvances
<1>5. CASE Queue(r)
  <2>1. CASE job[r].state = "waiting" /\ job'[r] = Start(job[r]) /\ pc'[r] \in {"read", "pull"}
    <3>1. Rank(r) = 10 * Chances(r) + 9
      BY <2>1 DEF Rank, InWork
    <3>2. Height[pc'[r]] \in 0..8
      BY <2>1 DEF Height, Steps
    <3>3. job'[r].state = "active" /\ Chances(r)' = Chances(r)
      BY <1>2, <2>1, JobFields DEF Chances
    <3>4. Rank(r)' = 10 * Chances(r) + Height[pc'[r]]
      BY <3>3 DEF Rank, InWork
    <3>5. QED
      BY <1>2, <3>1, <3>2, <3>4 DEF JobAdvances
  <2>2. ASSUME pc[r] \in {"return", "throw", "idle"}, job[r].state = "active",
               \/ job'[r].state \in {"completed", "failed"}
               \/ job'[r].state = "waiting" /\ Chances(r)' = Chances(r) - 1
        PROVE  JobAdvances(r)
    <3>1. Rank(r) >= 10 * Chances(r)
      BY <1>2, <2>2 DEF Rank, InWork
    <3>2. Rank(r)' \in {0, 10 * (Chances(r) - 1) + 9}
      BY <2>2 DEF Rank, InWork
    <3>3. Rank(r) \in Int
      BY <1>1, RanksTyped
    <3>4. QED
      BY <1>2, <3>1, <3>2, <3>3 DEF JobAdvances
  <2>3. CASE pc[r] = "return" /\ job'[r] = Complete(job[r])
    BY <1>1, <1>2, <2>2, <2>3, JobFields DEF HandlerOK
  <2>4. CASE pc[r] = "throw" /\ job'[r] = AfterThrow(job[r], AttemptsOf(r))
    <3>1. \/ job'[r].state = "failed"
          \/ /\ job'[r].state = "waiting"
             /\ job'[r].tries = job[r].tries + 1 /\ job'[r].stalls = job[r].stalls
      BY <1>2, <2>4, JobFields
    <3>2. job[r].tries \in Nat /\ job[r].stalls \in Nat
      BY <1>2, JobFields
    <3>3. job'[r].state = "failed" \/ (job'[r].state = "waiting" /\ Chances(r)' = Chances(r) - 1)
      BY <1>2, <3>1, <3>2 DEF Chances, MaxStalledCount
    <3>4. QED
      BY <1>1, <2>2, <2>4, <3>3 DEF HandlerOK
  <2>5. CASE job[r].state = "active" /\ pc[r] = "idle" /\ job'[r] = AfterStall(job[r])
    <3>1. \/ job'[r].state = "failed"
          \/ /\ job'[r].state = "waiting"
             /\ job'[r].tries = job[r].tries /\ job'[r].stalls = job[r].stalls + 1
      BY <1>2, <2>5, JobFields
    <3>2. job[r].tries \in Nat /\ job[r].stalls \in Nat
      BY <1>2, JobFields
    <3>3. job'[r].state = "failed" \/ (job'[r].state = "waiting" /\ Chances(r)' = Chances(r) - 1)
      BY <1>2, <3>1, <3>2 DEF Chances, MaxStalledCount
    <3>4. QED
      BY <2>2, <2>5, <3>3
  <2>6. QED
    BY <1>5, <2>1, <2>3, <2>4, <2>5, QueueMoves
<1>6. CASE WorkerCrash
  <2>1. job' = job /\ pc'[r] = "idle"
    BY <1>6, RunsTyped DEF WorkerCrash
  <2>2. CASE pc[r] = "idle"
    BY <2>1, <2>2 DEF JobAdvances, WalkRests, RunStays
  <2>3. CASE pc[r] # "idle"
    <3>1. job[r].state = "active"
      BY <1>1, <2>3 DEF HandlerOK
    <3>2. Rank(r) = 10 * Chances(r) + Height[pc[r]] /\ Rank(r)' = 10 * Chances(r) + Height["idle"]
      BY <2>1, <3>1 DEF Rank, InWork, Chances
    <3>3. Height["idle"] = 0
      BY DEF Height, Steps
    <3>4. Height[pc[r]] > 0
      BY <1>1, <1>2, <2>3 DEF HandlerOK, HandlerSteps, Height
    <3>5. QED
      BY <1>2, <3>2, <3>3, <3>4 DEF JobAdvances
  <2>4. QED
    BY <2>2, <2>3
<1>7. CASE LeftAlone(r)
  BY <1>3, <1>7 DEF LeftAlone, IsFinished, JobAdvances, WalkRests
<1>8. QED
  BY <1>4, <1>5, <1>6, <1>7, NextOfJob

\* A job in the queue keeps its chances, and its handler to its steps.
LEMMA NextHandler ==
  ASSUME Typed, QueueInv, [Next]_vars, NEW r \in Jobs
  PROVE  HandlerOK(r)'
<1>1. HandlerOK(r)
  BY DEF QueueInv
<1>2. AttemptsOf(r) \in Nat \ {0} /\ job[r] \in Job
  BY <1>1, RanksTyped
<1>3. CASE RunSteps(r)
  BY <1>1, <1>3, HandlerGoesDown DEF HandlerOK, InWork
<1>4. CASE Queue(r)
  <2>1. CASE job[r].state = "waiting" /\ job'[r] = Start(job[r]) /\ pc'[r] \in {"read", "pull"}
    BY <1>1, <1>2, <2>1, JobFields DEF HandlerOK, HandlerSteps, InWork
  <2>2. CASE pc[r] = "return" /\ job'[r] = Complete(job[r]) /\ pc'[r] = "idle"
    BY <1>2, <2>2, JobFields DEF HandlerOK, HandlerSteps, InWork
  <2>3. CASE pc[r] = "throw" /\ job'[r] = AfterThrow(job[r], AttemptsOf(r)) /\ pc'[r] = "idle"
    <3>1. InWork(r)
      BY <1>1, <2>3 DEF HandlerOK, InWork
    <3>2. \/ job'[r].state = "failed"
          \/ /\ job'[r].state = "waiting" /\ job[r].tries + 1 < AttemptsOf(r)
             /\ job'[r].tries = job[r].tries + 1 /\ job'[r].stalls = job[r].stalls
      BY <1>2, <2>3, JobFields
    <3>3. QED
      BY <1>1, <2>3, <3>1, <3>2 DEF HandlerOK, HandlerSteps, InWork
  <2>4. CASE /\ job[r].state = "active" /\ pc[r] = "idle" /\ pc'[r] = "idle"
             /\ job'[r] = AfterStall(job[r])
    <3>1. \/ job'[r].state = "failed"
          \/ /\ job'[r].state = "waiting" /\ job[r].stalls + 1 <= MaxStalledCount
             /\ job'[r].tries = job[r].tries /\ job'[r].stalls = job[r].stalls + 1
      BY <1>2, <2>4, JobFields
    <3>2. QED
      BY <1>1, <2>4, <3>1 DEF HandlerOK, HandlerSteps, InWork
  <2>5. QED
    BY <1>4, <2>1, <2>2, <2>3, <2>4, QueueMoves
<1>5. CASE WorkerCrash
  <2>1. job' = job /\ pc'[r] = "idle"
    BY <1>5, RunsTyped DEF WorkerCrash
  <2>2. QED
    BY <1>1, <2>1 DEF HandlerOK, HandlerSteps, InWork
<1>6. CASE LeftAlone(r)
  <2>1. pc'[r] = pc[r]
    BY <1>6 DEF LeftAlone, RunStays
  <2>2. CASE job'[r] = job[r]
    BY <1>1, <2>1, <2>2 DEF HandlerOK, InWork
  <2>3. CASE job[r].state = "none" /\ job'[r] = Add(job[r])
    BY <1>1, <1>2, <2>1, <2>3, JobFields DEF HandlerOK, InWork, MaxStalledCount
  <2>4. CASE IsFinished(job[r]) /\ job'[r] = NoJob
    BY <1>1, <1>2, <2>1, <2>4, JobFields DEF HandlerOK, InWork, IsFinished
  <2>5. QED
    BY <1>6, <2>2, <2>3, <2>4 DEF LeftAlone
<1>7. QED
  BY <1>3, <1>4, <1>5, <1>6, NextOfJob

\* A notification keeps its mail until it is ingested.
LEMMA NextNoted ==
  ASSUME Typed, QueueInv, [Next]_vars, NEW m \in Msgs
  PROVE  NotedOK(m)'
<1> DEFINE r == <<"webhook", m>>
<1>1. r \in Jobs /\ r \in Runs /\ r \notin Deltas
  BY RunsTyped
<1>2. NotedOK(m) /\ HandlerOK(r)
  BY <1>1 DEF QueueInv
<1>3. /\ pc \in [Runs -> Steps] /\ todo \in [Runs -> SUBSET Msgs]
      /\ seen \in [Runs -> SUBSET Msgs]
  BY DEF Typed, TypeOK
<1>4. CASE RunSteps(r)
  <2>1. pc'[r] # "idle"
    BY <1>1, <1>4, HandlerGoesDown
  <2>2. WebhookSteps(m)
    BY <1>1, <1>4 DEF RunSteps, Polls
  <2>3. CASE WebhookFetch(m)
    <3>1. \/ pc'[r] = "throw"
          \/ pc'[r] = "last" /\ todo'[r] = {m}
          \/ pc[r] = "pull" /\ pc'[r] = "return" /\ seen' = seen
      BY <1>1, <1>3, <2>3 DEF WebhookFetch, Take, Goto
    <3>2. QED
      BY <1>2, <3>1 DEF NotedOK
  <2>4. CASE IngestEnd(r)
    <3>1. pc[r] = "last" /\ todo[r] = {} /\ rows' = rows
      BY <1>2, <2>4 DEF IngestEnd, HandlerOK, HandlerSteps, storeVars
    <3>2. m \in rows' /\ pc'[r] \in {"cursor", "return"}
      BY <1>1, <1>2, <1>3, <2>4, <3>1 DEF IngestEnd, Goto, NotedOK
    <3>3. QED
      BY <3>2 DEF NotedOK
  <2>5. CASE SetCursor(r)
    <3>1. pc[r] = "cursor" /\ rows' = rows /\ pc'[r] \in {"return", "throw"}
      BY <1>1, <1>3, <2>5 DEF SetCursor, Goto
    <3>2. QED
      BY <1>2, <3>1 DEF NotedOK
  <2>6. ASSUME NEW n \in Msgs, Ingest(r, n) PROVE NotedOK(m)'
    <3>1. pc[r] = "last"
      BY <1>2, <2>6 DEF Ingest, HandlerOK, HandlerSteps
    <3>2. CASE rows' = rows \cup {n} /\ todo' = [todo EXCEPT ![r] = @ \ {n}] /\ pc' = pc
      <4>1. todo'[r] = todo[r] \ {n}
        BY <1>1, <1>3, <3>2
      <4>2. QED
        BY <1>2, <3>1, <3>2, <4>1 DEF NotedOK
    <3>3. CASE Goto(r, "throw")
      <4>1. pc'[r] = "throw"
        BY <1>1, <1>3, <3>3 DEF Goto
      <4>2. QED
        BY <4>1 DEF NotedOK
    <3>4. QED
      BY <2>6, <3>2, <3>3 DEF Ingest
  <2>7. QED
    BY <2>2, <2>3, <2>4, <2>5, <2>6 DEF WebhookSteps, IngestSteps
<1>5. CASE Queue(r)
  <2>1. pc'[r] \in {"idle", "read", "pull"}
    BY <1>1, <1>5, QueueMoves
  <2>2. seen'[r] = {} \/ (pc[r] = "idle" /\ seen'[r] = seen[r])
    BY <1>1, <1>2, <1>5, QueueMoves DEF HandlerOK
  <2>3. QED
    BY <1>2, <2>1, <2>2 DEF NotedOK
<1>6. CASE WorkerCrash
  <2>1. pc'[r] = "idle" /\ seen'[r] = {}
    BY <1>1, <1>6 DEF WorkerCrash
  <2>2. QED
    BY <2>1 DEF NotedOK
<1>7. CASE LeftAlone(r) /\ rows \subseteq rows'
  <2>1. pc'[r] = pc[r] /\ todo'[r] = todo[r] /\ seen'[r] = seen[r]
    BY <1>7 DEF LeftAlone, RunStays
  <2>2. QED
    BY <1>2, <1>7, <2>1 DEF NotedOK
<1>8. QED
  BY <1>1, <1>4, <1>5, <1>6, <1>7, NextOfJob

\* The queues keep to QueueInv.
LEMMA QueueAlways == Spec => [](Typed /\ QueueInv)
<1>1. Init => QueueInv
  BY RunsTyped DEF Init, QueueInv, HandlerOK, NotedOK, HandlerSteps, InWork, NoJob
<1>2. Typed /\ QueueInv /\ [Next]_vars => QueueInv'
  <2> SUFFICES ASSUME Typed, QueueInv, [Next]_vars PROVE QueueInv'
    OBVIOUS
  <2>1. QED
    BY NextHandler, NextNoted DEF QueueInv
<1>3. QED
  BY <1>1, <1>2, TypedAlways, PTL DEF Spec

\* The job of a poll or of a notification never comes back to where it was: with each step
\* of its handler and of the queue, crashes and stalls included, a natural number falls, or
\* a mail of its batch is done, until the job is finished (inbox.worker.ts,
\* webhook-ingest.worker.ts).
THEOREM JobsAdvance ==
  Spec => /\ [](\A r \in Jobs : Rank(r) \in Nat)
          /\ [][\A r \in Jobs : InWork(r) => JobAdvances(r)]_vars
<1>1. Typed /\ QueueInv => \A r \in Jobs : Rank(r) \in Nat
  BY RanksTyped DEF QueueInv
<1>2. Typed /\ QueueInv /\ [Next]_vars => [\A r \in Jobs : InWork(r) => JobAdvances(r)]_vars
  BY NextJob
<1>3. QED
  BY <1>1, <1>2, QueueAlways, PTL DEF Spec

\* A notification that has fetched its mail completes only with the mail in the table,
\* whatever failed on the way and whoever else ingested it: what cannot be inserted is an
\* error of the job, never a mail that is passed over (ingestInboxMessageBatch).  A job
\* completes without it only when the mailbox is disabled or the mail has gone before it is
\* fetched (webhook-ingest.worker.ts).
THEOREM FetchedIsIngested ==
  Spec => [][\A m \in Msgs :
               LET r == <<"webhook", m>> IN
               job[r].state = "active" /\ job'[r].state = "completed" /\ m \in seen[r]
               => m \in rows]_vars
<1> DEFINE Ends(m) ==
             LET r == <<"webhook", m>> IN
             job[r].state = "active" /\ job'[r].state = "completed" /\ m \in seen[r]
             => m \in rows
<1>1. ASSUME Typed, QueueInv, [Next]_vars, NEW m \in Msgs PROVE Ends(m)
  <2> DEFINE r == <<"webhook", m>>
  <2> SUFFICES ASSUME job[r].state = "active", job'[r].state = "completed", m \in seen[r]
               PROVE  m \in rows
    OBVIOUS
  <2>1. r \in Jobs /\ NotedOK(m)
    BY <1>1, RunsTyped DEF QueueInv
  <2>2. CASE Queue(r)
    <3>1. HandlerOK(r) /\ job[r] \in Job /\ AttemptsOf(r) \in Nat \ {0}
      BY <1>1, <2>1, RanksTyped DEF QueueInv
    <3>2. pc[r] = "return"
      BY <1>1, <2>1, <2>2, <3>1, QueueMoves, JobFields
    <3>3. QED
      BY <2>1, <3>2 DEF NotedOK
  <2>3. CASE RunSteps(r)
    BY <1>1, <2>1, <2>3, HandlerGoesDown
  <2>4. CASE WorkerCrash
    BY <2>4 DEF WorkerCrash
  <2>5. CASE LeftAlone(r)
    BY <2>5, JobFields DEF LeftAlone, IsFinished, NoJob
  <2>6. QED
    BY <1>1, <2>1, <2>2, <2>3, <2>4, <2>5, NextOfJob
<1>2. Typed /\ QueueInv /\ [Next]_vars => [\A m \in Msgs : Ends(m)]_vars
  BY <1>1
<1>3. QED
  BY <1>2, QueueAlways, PTL DEF Spec

=============================================================================

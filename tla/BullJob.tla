------------------------------ MODULE BullJob ------------------------------
(***************************************************************************)
(* One BullMQ job, seen through its jobId.  BullMQ is a library: this is    *)
(* the part of its behaviour that the queues of src/queues/queues.ts rely   *)
(* on.  A job is a value; the modules of the workers keep one job per jobId *)
(* in a variable and use the operators below for its transitions.           *)
(***************************************************************************)
EXTENDS Naturals

\* The Worker option maxStalledCount, which no worker of this code sets.
MaxStalledCount == 1

\* "waiting" stands for the waiting list and for the back-off delay of a retry:
\* the two differ only in time.
JobStates == {"none", "waiting", "active", "completed", "failed"}

\* tries counts the runs that threw, stalls the runs that were lost with their
\* process; both are forgotten with the job.
Job == [state: JobStates, tries: Nat, stalls: Nat]

NoJob == [state |-> "none", tries |-> 0, stalls |-> 0]

\* Queue.add: a jobId that Redis still knows, finished jobs included, is ignored.
Add(j) == IF j.state = "none" THEN [NoJob EXCEPT !.state = "waiting"] ELSE j

\* A worker takes the job, and its handler returned.
Start(j) == [j EXCEPT !.state = "active"]
Complete(j) == [j EXCEPT !.state = "completed"]

IsFinished(j) == j.state \in {"completed", "failed"}

\* The handler threw: another attempt if one is left.
AfterThrow(j, attempts) ==
    [state |-> IF j.tries + 1 < attempts THEN "waiting" ELSE "failed",
     tries |-> j.tries + 1,
     stalls |-> j.stalls]

\* The stalled check found an active job whose lock has expired.  It goes back
\* to the queue without losing an attempt, once; the second time it fails
\* without a run of the handler.
AfterStall(j) ==
    IF j.stalls < MaxStalledCount
    THEN [state |-> "waiting", tries |-> j.tries, stalls |-> j.stalls + 1]
    ELSE [j EXCEPT !.state = "failed"]

=============================================================================

----------------------------- MODULE MCBackfill -----------------------------
(***************************************************************************)
(* Four instances of Backfill that one run of TLC explores side by side; the *)
(* variable scene says which of them a behaviour plays.                      *)
(*                                                                           *)
(*   "console"  a reply from the console and a row of the worker, both to the *)
(*              same person under the same subject; pages of two rows, and    *)
(*              the API process may die.                                     *)
(*   "rows"     two rows of the worker for two persons; pages of one row and  *)
(*              two passes.  The second row's Payload is only of use with its *)
(*              _graph.  The CRM script runs beside the backfill.             *)
(*   "retry"    the reply alone, whose POST /pages may make two rows.         *)
(*   "resend"   one row of the worker, which may be sent twice over.           *)
(* There the mail may bounce as well.                                         *)
(*                                                                           *)
(* In all of them every call may fail.                                       *)
(***************************************************************************)
EXTENDS Backfill, TLC

CONSTANTS q1, m1, o1, o2

VARIABLE scene

\* The reply and the first row are to the same person under the same subject.
Keys == q1 :> o1 @@ o1 :> o1 @@ o2 :> o2

\* The bound that stands for all the scenes.
Sends == o1 :> 2 @@ o2 :> 1

AllFaults == {"postgres", "notion", "graph"}

Console == INSTANCE Backfill WITH
    Readable <- {q1, o1}, Matching <- {q1, o1}, Bouncing <- {},
    PageSize <- 2, MaxPosts <- 1, MaxPasses <- 1, MaxSyncs <- 0,
    MaxSends <- o1 :> 1 @@ o2 :> 0

TwoRows == INSTANCE Backfill WITH
    Msgs <- {}, Paged <- {},
    Readable <- {o1, o2}, Matching <- {o1}, Bouncing <- {},
    PageSize <- 1, MaxPosts <- 1, MaxPasses <- 2, MaxSyncs <- 1,
    MaxSends <- o1 :> 1 @@ o2 :> 1

Retry == INSTANCE Backfill WITH
    Readable <- {q1}, Matching <- {q1}, Bouncing <- {},
    PageSize <- 1, MaxPosts <- 2, MaxPasses <- 2, MaxSyncs <- 1,
    MaxSends <- o1 :> 0 @@ o2 :> 0

Resend == INSTANCE Backfill WITH
    Msgs <- {}, Paged <- {},
    Readable <- {o1}, Matching <- {o1}, Bouncing <- {o1},
    PageSize <- 1, MaxPosts <- 1, MaxPasses <- 1, MaxSyncs <- 1,
    MaxSends <- o1 :> 2 @@ o2 :> 0

\* Rows that are not at work in a scene were not sent in the past.
SceneInit ==
    \/ scene = "console" /\ Console!Init /\ PageOf(o2) \notin success
    \/ scene = "rows" /\ TwoRows!Init
    \/ scene = "retry" /\ Retry!Init /\ success = {}
    \/ scene = "resend" /\ Resend!Init /\ PageOf(o2) \notin success

SceneNext ==
    /\ UNCHANGED scene
    /\ \/ scene = "console" /\ Console!Next
       \/ scene = "rows" /\ TwoRows!Next
       \/ scene = "retry" /\ Retry!Next
       \/ scene = "resend" /\ Resend!Next

ScenePassStep ==
    /\ UNCHANGED scene
    /\ \/ scene = "console" /\ Console!PassStep
       \/ scene = "rows" /\ TwoRows!PassStep
       \/ scene = "retry" /\ Retry!PassStep
       \/ scene = "resend" /\ Resend!PassStep

SceneSpec ==
    /\ SceneInit
    /\ [][SceneNext]_<<scene, vars>>
    /\ WF_<<scene, vars>>(ScenePassStep)

=============================================================================

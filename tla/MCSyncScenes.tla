---------------------------- MODULE MCSyncScenes ----------------------------
(***************************************************************************)
(* Subscriptions, and two instances of InboxSync, that one run of TLC explores *)
(* side by side; the variable scene says which of them a behaviour plays.    *)
(*                                                                           *)
(*   "overlap"   two mails in one folder, brought in by two delta ticks that  *)
(*               overlap, page by page, beside the subscription tick; a crash. *)
(*   "polls"     three mails in the first of two folders, pages of one mail,  *)
(*               polling alone; the mailbox is disabled at times, two         *)
(*               failures and a crash.                                        *)
(*   "subscriptions"  the subscription of one folder that lives three hours   *)
(*               and is renewed in its last; five hours, with a crash.         *)
(***************************************************************************)
EXTENDS Subscriptions, TLC

CONSTANTS m1, m2, m3, inbox, junk, NoLink

VARIABLES scene,
    arrived, rows, cursor, tracked, link, expired, held, job, pc, since, place, left,
    seen, batch, wrote, newest, failures, deaths, expiries

SubscriptionFaults == {"graph", "postgres"}

\* Received times: one after the other.
Times == m1 :> 2 @@ m2 :> 3 @@ m3 :> 4

Overlap == INSTANCE InboxSync WITH
    Msgs <- {m1, m2}, Folders <- {inbox},
    Folder <- [m \in {m1, m2} |-> inbox], Received <- Times,
    Windows <- {0}, PageSize <- 1, Ticks <- {1, 2}, Modes <- {"delta"},
    Attempts <- 2, MaxFailures <- 0, MaxCrashes <- 1, MaxExpiries <- 0,
    Faults <- {"graph", "postgres", "redis"},
    at <- place, todo <- batch, fresh <- wrote, crashes <- deaths

\* A poll without a cursor starts before the first mail, or just after it.
Polls == INSTANCE InboxSync WITH
    Msgs <- {m1, m2, m3}, Folders <- {inbox, junk},
    Folder <- [m \in {m1, m2, m3} |-> inbox], Received <- Times,
    Windows <- {0, 2}, PageSize <- 1, Ticks <- {}, Modes <- {"poll", "edits"},
    Attempts <- 2, MaxFailures <- 2, MaxCrashes <- 1, MaxExpiries <- 0,
    Faults <- {"graph", "postgres", "redis"},
    at <- place, todo <- batch, fresh <- wrote, crashes <- deaths

syncVars == <<arrived, rows, cursor, tracked, link, expired, held, job, pc, since, place, left,
              seen, batch, wrote, newest, failures, deaths, expiries>>

SceneInit ==
    /\ Init
    /\ \/ scene \in {"overlap", "subscriptions"} /\ Overlap!Init
       \/ scene = "polls" /\ Polls!Init

SceneNext ==
    /\ UNCHANGED scene
    /\ \/ scene = "overlap" /\ Overlap!Next /\ UNCHANGED vars
       \/ scene = "polls" /\ Polls!Next /\ UNCHANGED vars
       \/ scene = "subscriptions" /\ Next /\ UNCHANGED syncVars

\* The step of delta tick k.
OverlapStep(k) == scene = "overlap" /\ Overlap!DeltaSteps(k) /\ UNCHANGED <<scene, vars>>

\* Only the delta ticks need to go on for what is said of the scenes (InboxSync's Fairness).
SceneSpec ==
    /\ SceneInit
    /\ [][SceneNext]_<<scene, syncVars, vars>>
    /\ \A k \in {1, 2} : WF_<<scene, syncVars, vars>>(OverlapStep(k))

\* Neither a poll nor a delta tick leaves a mail behind the cursor it has moved: the pages
\* of a poll come oldest first, the last page of a tick leaves nothing to report, and the
\* cursor follows the rows (inbox.worker.ts, delta.service.ts, inbox-ingest.service.ts).
CursorCovers ==
    /\ scene = "polls" => Polls!CursorCovers
    /\ scene = "overlap" => Overlap!CursorCovers

\* The delta ticks alone bring in every mail at last, though they overlap, the subscription
\* tick writes back the link it has read before them, and the worker dies; no notification
\* and no poll is needed (v2-maintenance.worker.ts, delta.service.ts).
MailIsIngested ==
    \A m \in {m1, m2} : scene = "overlap" /\ m \in arrived ~> m \in rows

=============================================================================

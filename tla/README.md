# EmalAuto in TLA+

EmalAuto sends mail that is planned in a Notion database, through Microsoft Graph, watches the
mailboxes for answers and bounces, and writes what it finds back to Notion. This directory holds
models of its core, the configurations that check them with TLC, and proofs for TLAPS. The models
are written from the code under `src/`; `PROJECT.json` names the source lines of every definition.

## 1. The system

Two Node processes share Redis (BullMQ queues), Postgres, Notion and Graph.

| process | parts |
|---|---|
| API (`src/server.ts`) | Notion poller, webhook route, admin console API, unsubscribe and health routes |
| worker (`src/worker.ts`) | workers of the send, inbox-poll, match and webhook-ingest queues; inbox scheduler; V2 maintenance (subscriptions, delta sync); token warmer |

### Components

| component | state it keeps | operations | talks to | correct when |
|---|---|---|---|---|
| Notion poller (`notion/poller.ts`) | none but the tick in flight | query due rows, add one job per row | Notion, send queue | a due row is queued; a finished row is not queued again unless it is reopened |
| Job queues (`queues/queues.ts`, BullMQ) | jobs by jobId: waiting, active, completed, failed, tries, stalls | add, take, complete, fail, stalled check, removal | Redis | a job ends; it is not run more often than its attempts and stalls allow |
| Send worker (`workers/send.worker.ts`) | none; status column of the row, `outbound_messages` | mark Sending, send or reply, look up the sent item, record, mark Success, verify, mark Failure | Notion, Graph, Postgres | a row at Success has a recorded mail; a mail has one owner; resends are bounded |
| Inbox poll (`workers/inbox.worker.ts`) | `inbox_last_sync_at`, `junk_last_sync_at` | schedule, read from the cursor, ingest, move the cursor | Graph, Postgres, match queue | no mail is left behind the cursor |
| Delta sync (`workers/v2-maintenance.worker.ts`, `graph/delta.service.ts`) | `webhook_subscriptions.delta_link` | walk the change log, save the link; take over the link with a new subscription | Graph, Postgres | the saved link never passes a mail without a row; every mail is ingested at last |
| Webhook route and worker | jobs `wh__<box>__<message>` | queue a notification, fetch the mail, ingest | Graph, queue | as above, and never less than without it |
| Ingest (`services/inbox-ingest.service.ts`) | `inbox_messages` | insert if new, add a match job | Postgres, match queue | each mail has one row and each new row a job |
| Match worker (`workers/match.worker.ts`) and matchers | `match_status`, `matched_outbound_id`, `thread_status`, `conversation_map`, Notion rows of replies | classify, link, set statuses, create a row for a reply, write a bounce | Postgres, Graph, Notion | a verdict is final; a final row is reflected in the thread; a reply is shown once |
| Operator scripts (`scripts/reconcile-…`, `scripts/sync-thread-status-…`) | the same tables | link rows, requeue, flip statuses | Postgres, match queue | they leave what the worker decided intact |
| Tokens and Graph apps (`auth/msal.ts`, `services/graph-apps.service.ts`) | token cache, app clients, the list of apps | acquire, refresh, evict | Postgres, identity provider | a client has the credential of the list; a token of an old one goes out of use |
| HTTP clients (`graph/client.ts`, `notion/client.ts`) | attempts of a call; rate limiter | retry, back off, refresh on 401 | Graph, Notion | a call ends after a bounded number of requests; spaced requests |
| Subscriptions (`workers/v2-maintenance.worker.ts`) | `webhook_subscriptions.subscription_id`, `expires_at` | renew, delete, create, store | Graph, Postgres | a subscription that is taken for valid is held by Graph |
| Admin reply (`services/admin-reply.service.ts`) | Notion row, `outbound_messages` | create a row, send, write the ids, record | Notion, Graph, Postgres | what is reported as sent is sent, stamped and recorded |
| Reply dialog (`web/…/ReplyComposerDialog.tsx`, `InboxPage.tsx`) | the open row, the message on show, the editor, the `sending` flag | open, load, fill, type, send, close | Admin API | a text goes to the person it was written to; the dialog never hangs |
| Backfill and CRM scripts (`scripts/backfill-…`, `scripts/sync-outbound-crm-…`) | what they have read | query page by page, look up, select, insert or update; fill the CRM columns | Notion, Graph, Postgres | a row of `outbound_messages` stays under the Notion row of its mail; a pass that ends well has missed nothing |
| Row writers (`notion/writer.ts`) | the Payload column | read, merge, write | Notion | no writer loses what another one wrote |
| Unsubscribe | `email_suppressions` | record | Postgres | a suppressed recipient gets no mail |
| Other pages and routes of the console, configuration, formatting, inspection scripts | – | – | – | outside the models, see section 8 |

### What is hard here

* Handlers are sequences of awaits over four services that share no transaction. Every step can
  fail, may have taken effect although it failed, and is repeated from the start by a retry.
* The worker can die between any two steps. BullMQ finds the stalled job and runs it again, once.
* A jobId is remembered as long as the finished job is retained, and that depends on what other
  jobs of the queue do.
* Sending gives no id: the worker looks for its own mail in Sent Items by subject and recipient.
* Mail arrives through three paths at once, which share a table and a cursor, and delta ticks overlap.
* Match jobs of one conversation run side by side, and the scripts write to the same rows.
* The scripts that mend `outbound_messages` hold what they have read over minutes, lock nothing, and
  run while the worker and the console add to the table.
* The browser has one dialog, one message and one editor for all rows, and answers that come late.

`PROJECT.json` lists these hazards one by one, with the line and the properties that cover each.

## 2. Modules

| module | models |
|---|---|
| `BullJob` | one BullMQ job behind its jobId: adds that are ignored, attempts, stalls, removal |
| `SendPipeline` | Notion poller, send queue, send worker, Graph's Sent Items, `outbound_messages`; the match worker's write of a bounce |
| `SendLedger` | the promise of the send pipeline: an append-only ledger of mails that are out |
| `MatchPipeline` | ingest (from the insert on), match queue and worker, the two operator scripts, the backfill's reset of a thread |
| `ReplyBook` | the promise of the match worker: one final verdict per mail, a reply shown once |
| `InboxSync` | poller, delta sync, notifications, the subscription tick, the cursor and the delta link |
| `MatchRules` | the lookup of the outbound mail: conversation, failed recipient of a bounce, heuristics |
| `GraphAccess` | the list of apps and its reload, MSAL clients and tokens, the attempts of a Graph call |
| `Subscriptions` | the hourly tick that keeps Graph's subscriptions alive, and what is stored of them |
| `WebReply` | a reply from the console, as the API process carries it out |
| `ReplyDialog` | the reply dialog in the browser, and the requests of `WebReply` it sends |
| `Backfill` | the backfill and the CRM script, beside the requests of `WebReply` and the send worker |
| `MCSend`, `MCMatch`, `MCSync`, `MCRules`, `MCAccess`, `MCConsole` | values of the constants for TLC |
| `MCSyncScenes`, `MCBackfill` | several instances that one run explores side by side |
| `*_proofs` of `SendPipeline`, `MatchPipeline`, `InboxSync`, `MatchRules`, `GraphAccess`, `Subscriptions`, `ReplyDialog`, `Backfill` | theorems and their proofs |

The three pipelines take the transitions of a job from `BullJob`. They meet at three places, and each
keeps the other side in the weakest form: `RecordOutbound` of `MatchPipeline` is the insert of
`SendPipeline` at any time, `Insert` and `Enqueue` of `MatchPipeline` are the ingest of `InboxSync` at
any time, and `WriteBounce` of `SendPipeline` (`Bounces` of `Backfill`) is the write of Failure by which
`MatchPipeline` shows a bounce, at any time once a mail of the row is recorded. `MatchRules` is what
`MatchPipeline` does in `Classify` and `Guess`: there `ByThread` and `ByContent` say to which outbound
mails the rules can lead, here the rules are modelled. `GraphAccess` is one call of the Graph client
that the pipelines use; its bound on the requests is a bound on `MaxPosts`. `ReplyDialog` and `Backfill`
both extend `WebReply`: the first puts the browser before it, the second the scripts behind it. Of the
send worker `Backfill` keeps what `SendLedger` says: a mail goes out, one of the row's kind is recorded,
and its ids are written to the row. `Subscriptions` and `InboxSync` share a table and no column but the
link, which `InboxSync` takes over with a new subscription at any time.

### How code becomes actions

* A handler is a program counter `pc[run]` and one action per await that matters. Steps are named
  for what has been done (`SendPipeline`) or what comes next (`MatchPipeline`, `InboxSync`).
  Between two steps every other actor may act.
* A call that fails takes one of two outcomes: nothing happened, or it happened and the answer was
  lost. `Faults` names the services that may fail in an instance.
* A run that throws reaches `"throw"`, and `FailAttempt` does what BullMQ does; a run that returns
  reaches `"return"` and `CompleteJob`. A crash sets all `pc` to `"idle"` and leaves the jobs
  active; `StalledCheck` finds them.
* Mails, rows and folders are model values or numbers. A mail that is out is named by the row it
  was sent for and its number, which stands for the Graph id. What a mail says is reduced to what
  the code compares: `Key` (sender, subject, recipient), `ByThread` and `ByContent` (the outbound
  mails that the conversation, or recipient and subject, lead to), `Kind` (what the detectors say),
  `Received`.

`SendPipeline`: `status` is the column of the Notion row, `found` what the current tick of the
poller has read and not yet queued, `job` the BullMQ job `send__<page>`, `hit` the sent item a run
holds, `delivered` the mails Graph put out, `rows` the table `outbound_messages`. `Build` to
`Catch` are the handler (`send.worker.ts` L42-257) in its order, the check of the status after the write of
Success, which looks up to three times, among them. The status column has three
writers: the worker, the operator who reopens a row, and the match worker, whose `WriteBounce` asks
nothing of the row and may come while it is being sent again.

`MatchPipeline`: `inbox` and `link` are `match_status` and `matched_outbound_id`, `thread` is
`thread_status`, `map` the table `conversation_map`, `children` the Notion rows created for a reply.
`ReadRow` to `Stamp` are `processMatch` (`match.worker.ts` L146-355); a run is a mail and a slot, so
that a requeued job can run beside the first one, and a retry acts on the row as it has read it.
`ReconcileScan`, `ReconcileLink`, `Requeue` and `SyncThreadScript` are the scripts, and `BackfillResets`
is what the update of the backfill does to a thread that has been answered; `reset` keeps which threads.

`InboxSync`: `rows` is the set of mails in `inbox_messages`, `cursor` the two `last_sync_at`
columns, `link` the stored delta link as the set of mails it has reported, `held` the link that the
subscription tick read before it called Graph. `ScheduleTick`, `PollRead`, `PollPull` are the poll;
`DeltaTick`, `DeltaRead`, `DeltaPage`, `SaveLink`, `DeltaEnd` the delta sync; `Notify`,
`WebhookFetch` the notifications; all use `Take`, `Ingest`, `IngestEnd`, `SetCursor`. With `"edits"` in
`Modes` a poll or a notification may find its mailbox disabled, and a notification its mail gone; the job
then completes without one. `seen` is what a run has fetched.

`MatchRules`: `inbox` is one mail, chosen at the start from `Mails`, `outbound` the table, to which
`Record` adds and in which `Update` (the backfill's) writes over at any time, and `before` what it held
when the lookup began. The properties speak of the rows of `before` that nobody has `touched`
since (`Standing`): the lookup is three queries and no transaction. `ByConversation`,
`ByRecipient` and `ByHeuristics` are the three queries of `resolveInboundOutboundMatch`, each with
the rules that are applied to its rows in the same breath. A subject is its number of leading marks
(`Re:`, `Fwd:`) and a text, since the code takes off six marks at most; the text of a bounce is the
sequences of addresses that the phrases, or else the general pattern, find in it.

`Subscriptions`: `graph` is the set of subscriptions Graph holds, which it drops when their time has
come (`Hour`), `row` what is stored of each folder's. `NextFolder` to `SaveCreated` are
`ensureSubscriptionForMailboxFolder` with its two nested `try` blocks: a renewal, or the write after it,
that fails leads to `Delete` and `Create`.

`WebReply`: `Find` to `Record` are `executeAdminInboxReply` in its order. A Notion row and a mail are
both named by whom they were made for and a number; `stamp` is the pairs of a row and the mail
whose ids its Payload holds. `CreatePage` can make several rows, because `notionFetch` posts again
after a 502.

`ReplyDialog`: `dlg` and `shown` are the state of the page, `seeded`, `quote` and `text` that of the
editor, whose text is reduced to the rows in whose dialogs it was typed. `OpenReply` and
`GraphMessage` are `openReply` before and after its await, `GraphMessage` with the effect that fills the
editor; `HandleSend` and `Answer` are `handleSend` before and after its own, and `Listed` is its end,
when the list has been loaded again and the flag is lowered once more.

`Backfill`: a pass is `BeginPass`, then for each page of the query (`Query`) and each row of it
(`NextRow`) a search of Sent Items (`Lookup`), two selects (`SelectByPage`, `SelectByGraph`) and
the insert or update (`Write`). `BeginSync` and `SyncRow` are the CRM script, which reads its
candidates at once and patches them by id. The send worker is what `SendLedger` says of it, a step
for each of its own (`WorkerMarks`, `WorkerSends`, `WorkerRecords`, `WorkerStamps`), and the end of a run
that fails or dies in between (`WorkerFails`). A recorded mail may come back (`Bounces`), which takes its
Notion row out of what the script queries. A row's text is reduced to its `Key` (sender, subject,
recipient), and whether the script can use it (`Readable`, `Matching`).

Scenes: `MCSyncScenes` and `MCBackfill` each have a variable `scene` that is chosen at the start and
never changes, and says which of several instances of a module a behaviour is of. Each scene is
the module with its own constants; what differs is only that one run of TLC explores all of them.

`GraphAccess`: `table` is `graph_apps` with its enabled rows, `apps` the list in memory, `clients`
and `cache` the two maps of `msal.ts`, with a token reduced to the credential it was issued for and
whether it is good for longer than the skew. A caller is a Graph call, or one app's part of a sweep
(warmer, health or status probe). `AskClient` to `ClientAnswers` is the await in
`acquireGraphTokenForApp`; `RefreshStart`, `RefreshRead`, `RefreshEnd` are before, at and after the
query of `refreshGraphAppsFromDb`, and everything from the diff to the new list is one step, because
the code has no await there. The worker process, which never reloads, is the instance without admin
requests.

## 3. Runs that pass

| run | instance | shows |
|---|---|---|
| `send_row` | one row whose mail may bounce, 3 attempts, 2 crashes, 1 reopening, 2 jobs, Notion, Graph and Postgres fail, fair | types; Success only for a recorded mail; at most Attempts + 1 sends per job; mail leaves only of rows that the run has marked, and never while the row reads Success; every job ends; without a crash no row stays at Sending |
| `send_shared` | three rows, two with the same sender, subject and recipient, the third a reply; Graph fails and so does the write of Failure | a run may record the other row's sent item, but only one under its own subject, and no mail gets two owners; `SendLedger` is implemented |
| `match_scripts` | one mail with two jobs, two outbound mails, the script links once, all scripts, a backfill that sets threads back, all faults, 1 crash | types; final rows are reflected in the thread, but for those that a script has linked or set back |
| `match_live` | a reply and a bounce of one conversation, two outbound mails of which one has no Notion page, Notion and Graph fail, calls post twice, 1 crash, fair | the map is sound though runs race for it; `ReplyBook` is implemented; a queued row gets a verdict |
| `sync_safety` | one mail, poll, delta tick, notification and subscription tick, a failure, a crash, an expired link, the mailbox disabled or the mail gone meanwhile | types; a stored link never passes a mail without a row |
| `sync_scenes` | three scenes: two mails, two overlapping delta ticks and the subscription tick, a crash, fair; three mails in one folder, pages of one, a second folder, polling with two failures and a crash, the mailbox disabled at times; the subscription of a folder over five hours with a crash | every mail is ingested by the delta sync alone; no mail is left behind the cursor that polls or delta ticks move; a subscription that is passed over is held by Graph; its types |
| `rules` | 108 mails, any part of seven outbound rows at first, two of them in two versions, two rows added or written over during the lookup, subjects matched in the relaxed way | of the rows that stand: the conversation decides if it can; a guess is as new as any that fits; a bounce whose text names a recipient is traced |
| `access` | two apps with two credentials, one call, one sweep, one admin request at a time, Entra and Postgres fail, fair | clients follow the list and are dropped only when their app changes; a call makes at most LastAttempt + 1 requests and ends; old tokens go out of use |
| `console` | two rows of the inbox, one without a Notion row behind it, two requests, two dialogs, Notion, Graph and the network fail, the API process dies once, fair | what is reported as sent is done; a recorded mail is stamped; a click on Send never sends a text written to somebody else; the dialog neither stays at Sending nor without an editor, whenever the list is loaded again |
| `backfill` | four scenes: a console reply and a row of the worker to the same person under one subject; two rows and two passes in pages of one, with the CRM script; a reply whose page is made twice; a row that is sent twice; mail may bounce, everything fails, the API process dies once, fair | types; mail, CRM and Notion row of a row of `outbound_messages` agree; a row that is there leaves one of its kind when it is written over; a pass that ends well leaves a row of the kind of every Notion row it ought to cover; a pass ends |

Each property of these runs is broken by the mutant that `PROJECT.json` names: an action without
a guard, with an error swallowed, or with its steps in another order.

### Bounds

`Attempts` is 3 as in `queues.ts`, or 2 where two rows or mails run side by side: one retry is what
tells a first run from a later one. Where three rows run side by side it is 1:
that run is about what runs do to each other, and `send_row` about what an attempt does to the
next. Crashes are bounded by 2 in `send_row`, because the second stall is what fails a job, and
by 1 elsewhere. Two rows or mails are enough for every race in the code: all of them are between two
runs, or a run and a script, over one conversation, one subject or one folder; the third row of
`send_shared` has a subject that no run may confuse with theirs. Three mails in the polls scene
give a page that is full, one that follows, and one behind.
The rows of `rules` have the ties, the other mailbox, the made-up
conversation and the seventh mark that the rules tell apart, and sent times on either side of both
age limits. `LastAttempt` is 2 in `access` (5 in the code), which lets a refusal and a throttled
answer come in either order; one reload is enough to race a token, since the property is about what
is left of the old credential. `MaxPosts` bounds the mails or rows that
one call makes (the clients may post again after a 502 or 503) and
`MaxScans` the rows the script resolves. `MaxAdds` and `MaxReopens` let a row go round twice.
`Bouncing` names the rows whose mail may come back. `MaxWrites` is 1 in `access`, where one change of the list
is what races a call, and 2 in `rules`, one between each two of the three queries. The requests of a call (`posts`)
are counted up to `LastAttempt` + 2, one more than the code makes.
A subscription lives three hours and is renewed in its last (two days and one hour in
the code), so five hours see it made, renewed twice, and dropped. Two dialogs (`MaxOpens`) are what a
late answer needs. Postgres does not fail in `console`, where a crash before or after its two calls
stands for that, but does in `backfill`. Two passes let the second meet the rows of the first.

### Fairness

Only what the code itself drives is fair, and weakly: the steps of a run that Node has started, the
queue (take, complete, fail, and the stalled check, which BullMQ repeats), the timers of the poller,
the scheduler and the delta sync, and the add that follows an insert. The answers of Entra and Graph to a
call, and the reload that an admin request has started, come at last, and tokens age. In `console` one await after
the other of the server and the page ends (`Progress`), and in `backfill` those of the script that
runs (`PassStep`). Operators, when scripts start, the CRM script,
notifications, subscriptions, the removal of finished jobs, crashes and failures are never fair.
A delta tick of a mailbox that is disabled does nothing: `MailIsIngested` is about a mailbox that stays
enabled and mails that stay where they are, so its scene is without `"edits"`.
Failures need no bound where retries bound them; `InboxSync` bounds them, since a delta tick
that fails for ever ingests nothing.

## 4. Runs that are expected to fail

Each of these checks one statement of the documentation or of a comment, and TLC finds how the code
departs from it. `PROJECT.json` quotes the statements under `findings`.

| run | what happens |
|---|---|
| `match_race` | two replies race for the row of `conversation_map`; the loser's Notion row is never made |
| `sync_poll` | the second cycle's poll has the jobId of the finished first one, and is never run |

The models have these behaviours as well; the code does nothing against them, so there is no
property to keep, and no run of their own:

* An attempt that fails after the mail is out is retried, and the mail is sent again: `ISSUES.md`
  calls the page id the idempotency key, but it only keeps a row from having two jobs
  (`FailAttempt`, `SendMail`; `ResendIsBounded` says how often).
* A mail is out and its job over, but no row of `outbound_messages` knows it: the sent item was not
  found in four looks, or the insert failed in the last attempt (`Lookup`, `Record`).
* Two crashes fail the job outside the handler, or a crash is followed by runs that fail in `Build`,
  and the row stays at Sending (`AfterStall`, `FailAttempt`).
* The finished job that Redis retains keeps a reopened row out of the queue (`PollAdd`, `Evict`).
* The check after `writeSendSuccess` reads whatever is in the column: a run that finds the Failure of a bounce
  there writes Success over it (`WriteBounce`, `Verify`), and a bounce that is written while a row is being sent
  again makes it read Failure although its mail leaves.
* An older reply that is matched later becomes the latest one (`UpdateConversation`).
* A reply matched before its outbound mail is recorded is ignored for good (`RecordOutbound`).
* A run that has decided to ignore a row overwrites what the reconcile script, or a requeued run, has made of it
  meanwhile, since the update asks nothing of the row (`inbox.repo.ts` L38-43): the row reads ignored
  though it is linked (`Ignore`, `ReconcileLink`). The link itself is never taken back.
* A requeued job beside the first one gives a reply two Notion rows (`Requeue`, `CreateChild`).
* A crash between the insert of a row and the add of its job leaves a row that no job ever sees.
* The job of a notification completes without a row when its mailbox is disabled, or its mail deleted or moved,
  before the mail is fetched (`WebhookFetch`); so does a poll (`PollRead`).
* A notification moves the poll's cursor past a mail that was never read (`SetCursor`), and a poll
  leaves out a mail received in the same second as the newest it has seen (`PagesAfter`).
* A delta link that Graph has forgotten is tried again for ever (`ExpireLink`, `DeltaPage`).
* The lookup detects bounces without the headers, though the worker has read them: a bounce that only
  its headers tell is not looked up by its recipient and is ignored, while the comment of
  `bounce-detector.service.ts` (L8-12) says that the matcher tries it (`DetectBounce`).
* Two admin requests whose reloads overlap compare with a list that is no longer in effect, and the
  last to end may put the older list in place, with clients of credentials that are gone: with two
  elements in `Admins`, `ClientIsCurrent` fails.
* A token that was on its way during a reload is put into the cache after it, and serves until it is
  near its end (`ClientAnswers`; `ReloadSettles` says that this ends). A reload that fails leaves
  the old list in effect until the next one (`RefreshFails`).
* The answer for a row's message is put on show whichever dialog is open by then
  (`InboxPage.tsx` L135-144): row B's dialog shows and quotes A's mail, and what was typed in it is gone
  (`GraphMessage`). What a click then sends is the text of B's dialog under A's quotation.
* Ctrl+Enter (`ReplyComposerDialog.tsx` L424) asks neither whether a send is under way nor whether the
  message is there: it sends twice, or the text that an earlier dialog has left (`KeySend`; with it,
  `ClickSendsOwnText` fails). Escape during a send closes the dialog and enables Send for the next one,
  and the success of the first then closes that one (`Close`, `Answer`). When the list is then loaded, Send is
  enabled once more, under whatever send the dialog on show has begun since (`Listed`).
* A console reply that fails after its mail has left is reported as an error, and the operator sends it
  again; its Notion row reads Success before anything is sent, and stays when the send fails
  (`CreatePage`, `SendReply`). A POST to Notion that is repeated after a 502 leaves a second row.
* The backfill calls itself idempotent by mailbox and Graph id (L19), but looks a row up by its Notion row
  first and overwrites the Graph id: a row that the worker or the console recorded can get a
  placeholder for its id, while L26 says that another row is added (`SelectByPage`, `Write`). The update
  also sets its thread back to sent though it was answered (`BackfillResets` of `MatchPipeline`) and
  gives it another conversation, after which answers in the old one are left to the heuristics
  (`Update` of `MatchRules`); `KindsStay` says only that a row of the kind stays.
* A Notion row that was sent twice has two mails; when the update would give one the id of the
  other the unique index stops the pass, and every later one, at that row (`Write`).
* Two Notion rows with one sender, subject and recipient can be given the same sent item by the search;
  the later one takes the row of the former (`Lookup`, `SelectByGraph`). `PassCovers` therefore asks
  for a row of the same kind, not for its own.
* The backfill may record a mail of the console before the console does: the request then fails at the unique index
  although its mail is out (`Record`).
* The CRM script writes by the id of what it has read, which may be under another Notion row by then; the
  CRM is that of a row of the same kind (`SyncRow`).
* The conversation lookup takes the newest mail of the conversation, whichever mailbox sent it and
  whether or not it was sent before the answer came (`ByConversation`).

## 5. Proofs

The theorems hold for all values of the constants that satisfy the named assumption of each module
(`SendAssumption`, `MatchAssumption`, `SyncAssumption`, `RulesAssumption`, `AccessAssumption`,
`SubscriptionsAssumption`, `WebAssumption`, `DialogAssumption`, `BackfillAssumption`), which only fix
the types and keep the null values apart from the others. None assumes a
bound or a finite set. Some theorems have a hypothesis beside it, which says where the code's promise
ends: `Refinement` of `MatchPipeline` (`Alone`), `ClientsCurrent` with
`ReloadDrops` (`InTurn`), and `CursorNeverSkips` (no notifications, `TimesApart`); section 4 says what
happens without them. Two theorems assume that one service does not fail: `FailedIsSettled` (Postgres)
and `SendingIsAtWork` (Notion's write of Failure).

* **`SendPipeline_proofs`.** `Invariance` shows that `IInv` is inductive, and the theorems
  `TypeCorrect`, `SuccessRecorded`, `RowsCorrect` and `ResendBounded` follow from its parts;
  `MailLeavesMarked` and `Refinement` are about steps. The properties are not inductive alone. That a
  row at Success is recorded needs it of runs that are about to write Success; that no mail has two
  owners needs that a run holds only mails that are out; that mail leaves of a marked row needs that
  nobody but a bounce, and an operator after it, writes over the mark of a run; the bound on the sends
  needs the relation of calls to the tries and stalls of the job at every step of a run (`CallsInv`).
  `Refinement` shows that every step of the pipeline is a step or a stutter of `SendLedger`.
* **`MatchPipeline_proofs`.** `TypeCorrect`, `FinalReflected`, `MapMatched` follow from the inductive
  invariant: a run with a verdict holds a recorded outbound mail (`VerdictInv`), links are never taken
  back (`LinkInv`), and a run that is about to mark a row has set the thread status (`ReflectInv`). A
  thread that a backfill has set back is excepted until the script or another answer sets it anew
  (`reset`). `Refinement` assumes `Alone` (one job per row, no script) and needs in addition that a run
  past its mark is the only one of its row and that a retry finds the row final.
* **`InboxSync_proofs`.** `SyncTypes` is the type invariant. `SetCursor` and `IngestEnd` work with the
  greatest time of the mails ingested, which exists because only finitely many mails have arrived at any
  moment: `Typed` adds this to the types, and `HasNewest` shows that a finite set of mails has
  a newest one, by a smallest set that has none (the library's induction over finite sets takes an
  operator and cannot be used; that inclusion of finite sets is well founded can).
  `LinkIngested` rests on `WalkInv` (what a walk was told of and is not in
  its batch has a row) and `HeldInv` (the link that a subscription tick holds is as sound as the
  stored one). Any number of ticks may overlap.
  `CursorNeverSkips` is `CursorCovers` for any number of mails, folders, pages, polls, ticks, retries and
  crashes. `CursorCovers` is far from inductive: a run sets the cursor long after it has read its
  page, when another run may have moved it. `Cover` says of the cursor, of the time a poll starts from and
  of the newest mail a run has seen the same thing, that mails up to it have rows or are in
  the run's batch (`CursorInv`, `SinceInv`, `BatchInv`), that they are times of mails that have
  arrived, and that mail arrives in order (`InOrder`), so that nothing new comes to be behind any of
  them; `JobInv` keeps two runs of one job apart. TLC has checked `Cover` on instances of
  two mails before it was proved. Two hypotheses bound what the code does: `"webhook"` is not
  in `Modes`, and no two mails of a folder are received in the same second.
* **`MatchRules_proofs`.** The lookup reads the table three times while it grows and is written over.
  `StandInv` says that the rows known at the beginning and not touched since are there at every query,
  `ThreadInv` keeps what the first query said of them, `BounceInv` what the second found of the
  recipients, and the three theorems follow: `ConversationFirst`, `GuessesAreSafe`, `BouncesAreTraced`;
  `RulesTyped` is the type invariant. `NewestAlone` is the fact about ties that they need.
* **`GraphAccess_proofs`.** `CallIsBounded` rests on `PostsInv`: where a call stands fixes how many
  requests it has made, one for each attempt before this one, and one refused request while a token
  is forced. `ClientsCurrent` and `ReloadDrops` assume `InTurn` (admin requests one after the
  other) and need that a refresh compares with the list that is still in effect (`PrevInv`).
  `AccessTyped` is the type invariant.

* **`Subscriptions_proofs`.** `PassedOverIsHeld` needs that rows name different subscriptions
  (`RowsApart`), so that deleting one folder's takes nothing from another's; that a folder is only
  deleted or made anew after its row was found to run out (`Judged`), which stays so as hours
  pass; and that what Graph has answered is held when it is stored (`FreshIsHeld`, `FreshApart`).
* **`ReplyDialog_proofs`.** `ReportIsTrue` and `RecordFollowsStamp` rest on `Trace`, which says for
  every place of a request what it has left behind, and `RowsNamed`: the mail of a row of
  `outbound_messages` is that of the request which made the Notion row, so that no other request's
  stamp can take the place of its own. `ClicksAreSafe` rests on
  `OwnEditor`: once the message is on show, the text was typed in the open dialog.
* **`Backfill_proofs`.** `RowsStayConsistent` says that everything the actors hold is good to be written
  at any later time: the pages the query has read (`BatchGood`), the entry (`EntryGood`), the row that a
  select has found, though others write to it meanwhile (`HitGood`), the candidates of the CRM script
  (`CandsGood`), the ids in the Payloads (`StampsGood`) and the mail a worker is about to stamp
  (`TakenGood`). Mails are never taken back, and a row of `outbound_messages` only ever moves to a
  Notion row of the same kind, which is why all of this lasts. The theorem holds for any number of
  requests, rows, passes and candidates. `BackfillTypes` is the type invariant. `PassesCover` follows a
  row that the pass ought to cover through the pass (`CoverInv`): once it is visited it is in the page,
  or it is the entry at work, or a row of its kind is in `outbound_messages` (`NoneIsLost`). It needs
  that the page and the entry are empty where the next query is made (`HeldInv`), so that the last query
  can conclude from what was visited; that the row stays one the script can use, because stamps are
  replaced and never taken away (`DueInv`); and `HitGood` of the first invariant, since the update of a
  row found by its mail could otherwise take the only row of another Notion row away. `KindsAreKept`
  says this of every step, with or without a pass: everybody but the pass leaves the rows that there are
  under their Notion rows (`RowsStay`), its update puts a row of the same kind in the place of the one
  it takes (`UpsertCovers`), and a bounce takes no row away. `KindsStay` is no invariant, and follows
  from the first one step by step.

### What the liveness properties rest on

That something happens at last has a part that needs no fairness: nothing waits for what will not
come, and no step leads back. This part is proved for all values of the constants, so that TLC only has to
show the rest, that a step is always possible and that fairness makes it happen.

* `JobsAdvance` of `SendPipeline` and of `MatchPipeline` (for `JobsEnd`, `QueuedRowsGetVerdict`): every
  step that touches a job of the queue lowers a natural number. `Rank` weighs the attempts and
  the stalls the job has left against the way its handler still has to go (`Height`); that some are
  left as long as it is in the queue is `JobInv` and, in `SendPipeline`, part of its first invariant.
  The three looks at the status in `writeSendSuccess` are steps one after the other, so that a write of
  somebody else between them does not send a run back.
* `CompletedIsSettled` and `FailedIsSettled` are the safety half of `QueuedRowsGetVerdict`: a row has a
  verdict when its job completed, and also when its job failed, unless Postgres failed or the worker died
  more than once. They need that a handler settles its row before it
  returns or throws (`SettledInv`) and that every stall was a crash of its own (`StallInv`).
* `SendingIsAtWork` is that of `SendingSettles`: without a crash, and if Notion takes the write of Failure, a row
  reads Sending only under a run that is on its way to write Success or Failure.
* `CallsAdvance` of `GraphAccess` (for `CallsEnd`): every step of a call lowers a natural number, the
  steps of the retries after 429 and 503 and of the forced token after 401 among them.
* `TicksAdvance` of `InboxSync` (for `MailIsIngested`): no step of anyone sets a delta tick back, and each of
  its own leaves it with fewer folders, more mails that were reported, a step lower, or fewer mails of
  its batch. There is no number here: how many mails a walk has before it is open, as mail goes on
  arriving. A tick that stops at an error has still come nearer to its end; that a later tick makes
  good what it missed is TLC's part.
* `JobsAdvance` of `InboxSync` is a number again, for the jobs of polls and notifications, and
  `FetchedIsIngested` what a completed notification stands for: a mail that it fetched has a row. No run checks
  either, as the runs with notifications or polls are about links and cursors.
* `PassesAdvance` of `Backfill` (for `PassEnds`): the same of a pass, by the rows that its queries have
  returned, the page, and the entry at work.
* `NoWaitForNothing` of `ReplyDialog` (for `SendingEnds`, `EditorComes`): a dialog that shows Sending has a
  request of its own row under way, one without an editor a call for its own message, and requests only
  go forward.

Every safety property that a passing run checks is a theorem. `CursorCovers` is checked in two scenes of one
module, and proved of `InboxSync` itself. Checked by TLC only are the liveness properties as such (`JobsEnd`,
`SendingSettles`, `QueuedRowsGetVerdict`, `MailIsIngested`, `SendingEnds`, `EditorComes`, `PassEnds`, `CallsEnd`,
`ReloadSettles`): they need fairness, whose meaning rests on `ENABLED`, which the prover does not
handle. `ReloadSettles` has no measure of its own: it waits for the token requests under way at a reload,
and the sweeps are callers of `CallsAdvance` too.

## 6. Running it

    tlc -workers 2 -config send_row.cfg MCSend.tla
    tlapm SendPipeline_proofs.tla

| configuration | module |
|---|---|
| `send_*.cfg` | `MCSend` |
| `match_*.cfg` | `MCMatch` |
| `sync_safety.cfg`, `sync_poll.cfg` | `MCSync` |
| `sync_scenes.cfg` | `MCSyncScenes` |
| `rules.cfg` | `MCRules` |
| `access.cfg` | `MCAccess` |
| `console.cfg` | `MCConsole` |
| `backfill.cfg` | `MCBackfill` |

The longest runs take two to three minutes with two workers.

## 7. Plan

The order is by what a defect costs: a mail sent twice or lost, a reply lost, then the rest.

1. *Done:* `BullJob`, `SendPipeline`, `SendLedger`, their theorems.
2. *Done:* `MatchPipeline`, `ReplyBook`, their theorems.
3. *Done:* `InboxSync` and its theorems.
4. *Done:* `GraphAccess` and its theorems. Left: the spacing of Notion requests (`withRateLimit`).
5. *Done:* `MatchRules` and its theorems.
6. *Done:* `WebReply` and `ReplyDialog`, their theorems. Left: the Payload column under
   writers that read and write it back at once.
7. *Done:* `Backfill` and its theorems.
8. *Done:* `Subscriptions` and its theorems. Left: overlapping ticks, and a subscription that Graph drops
   before its time.
9. `MailFlow`: `SendPipeline`, `InboxSync` and `MatchPipeline` composed over the shared tables, for
   what crosses them: a reply that overtakes the record of its mail, through all three ingest paths.

## 8. Not modelled

* Formatting and parsing: MIME, signatures, property mapping, CRM snapshots, the regular
  expressions of the detectors and of `normalizeThreadSubject` (which needs no separator after its
  `re`, so that it also shortens a subject that begins with Request). They are functions of one input,
  most of them with unit tests.
* The web console but for the reply dialog, and the CRUD of the admin API but for `graph_apps`, sessions,
  status counts: they read, or write single rows.
* Configuration, migrations, logging, connection pools, inspection scripts. Unsubscribe writes a table
  that no other part reads.
* Of the backfill: the dry run, the passes that only refresh bodies, a start from a stored cursor, the
  choice of the search window and the reading of a relation. Of the last two the comments say something
  else than the code does: `BACKFILL_GRAPH_SEARCH_WINDOW_HOURS=0` is documented as no limit (L53), but
  `parseInt(…) || 72` (L464, L605) makes it 72; several relations are said to count as the first
  (L47), but all are used (L354).
* Bounces of console replies, in `WebReply` and `ReplyDialog`: nothing there reads the status column.
* Two writers of one Payload column at once (`notion/writer.ts`): the later write loses the earlier one's
  fields.
* A subscription tick that outlasts its hour and meets the next one; a subscription that Graph drops
  before its time; a row that is written although the answer is lost. In the last case the tick deletes
  the subscription it has just stored, and the row reads valid for two days: `SkippedIsHeld` would not hold.
* A BullMQ lock that expires while its run is alive, which gives one job two runs at once.
* Mail that moves between folders or becomes visible out of the order of its received times.

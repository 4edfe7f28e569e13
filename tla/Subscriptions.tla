---------------------------- MODULE Subscriptions ----------------------------
(***************************************************************************)
(* The subscriptions to the mail folders at Microsoft Graph, and the hourly   *)
(* tick that keeps them alive.  For each folder the tick reads the stored     *)
(* row and passes on if it is good for longer than the lead; else it renews   *)
(* the subscription, or deletes it and makes a new one, and stores what Graph *)
(* has answered.  Every call is an await at which the worker may die.        *)
(*                                                                           *)
(* The delta link in the same row is InboxSync's.                            *)
(***************************************************************************)
EXTENDS Integers

CONSTANTS
    Folders,     \* the pairs of a mailbox that receives and a folder of it
    NoRow,       \* no row of webhook_subscriptions
    Ttl,         \* hours a subscription lives (SUBSCRIPTION_TTL_MS)
    Lead,        \* hours before its end at which it is renewed
    MaxHours,    \* bound: hours that pass
    MaxCrashes,  \* bound: crashes of the worker
    Faults       \* what may fail: "graph", "postgres"

ASSUME SubscriptionsAssumption ==
    /\ Ttl \in Nat
    /\ Lead \in Nat
    /\ MaxHours \in Nat
    /\ MaxCrashes \in Nat
    /\ NoRow \notin [id: Nat, expires: Nat]

VARIABLES
    now,      \* the hour
    graph,    \* the subscriptions that Graph holds
    row,      \* row[f]: what is stored for f
    at,       \* where the tick stands, "off" between two ticks
    todo,     \* folders it has still to look at
    folder,   \* the one it is at
    fresh,    \* what Graph has answered for it
    due,      \* the hour's tick, or that of a start, has not begun
    ids,      \* subscriptions that Graph has made so far
    crashes   \* crashes so far

vars == <<now, graph, row, at, todo, folder, fresh, due, ids, crashes>>

Subscription == [id: Nat, expires: Nat]

Places == {"off", "next", "renew", "saveRenewed", "delete", "create", "saveCreated"}

TypeOK ==
    /\ now \in Nat
    /\ graph \subseteq Subscription
    /\ row \in [Folders -> Subscription \cup {NoRow}]
    /\ at \in Places
    /\ todo \subseteq Folders
    /\ at \notin {"off", "next"} => folder \in Folders
    /\ at \in {"renew", "saveRenewed", "delete"} => row[folder] # NoRow
    /\ at \in {"saveRenewed", "saveCreated"} => fresh \in Subscription
    /\ due \in BOOLEAN
    /\ ids \in Nat
    /\ crashes \in Nat

Init ==
    /\ now = 0
    /\ graph = {}
    /\ row = [f \in Folders |-> NoRow]
    /\ at = "off"
    /\ todo = {}
    /\ folder = NoRow
    /\ fresh = NoRow
    /\ due = TRUE
    /\ ids = 0
    /\ crashes = 0

-----------------------------------------------------------------------------
\* The row is good for longer than the lead.
Valid(r) == r # NoRow /\ r.expires - now > Lead

\* What a subscription gets that is made or renewed now.
Expiration == now + Ttl

\* An hour passes.  Graph drops what has come to its end.
Hour ==
    /\ now < MaxHours
    /\ now' = now + 1
    /\ graph' = {s \in graph : s.expires > now + 1}
    /\ due' = TRUE
    /\ UNCHANGED <<row, at, todo, folder, fresh, ids, crashes>>

\* startV2Maintenance and its interval.  A tick is taken to end within its hour.
BeginTick ==
    /\ at = "off"
    /\ due
    /\ due' = FALSE
    /\ at' = "next"
    /\ todo' = Folders
    /\ UNCHANGED <<now, graph, row, folder, fresh, ids, crashes>>

\* (mutant) A folder without a row is treated like one whose subscription has run out.
NextFolderUnread ==
    /\ at = "next"
    /\ \/ todo = {} /\ at' = "off" /\ UNCHANGED <<todo, folder>>
       \/ \E f \in todo :
            /\ todo' = todo \ {f}
            /\ folder' = f
            /\ at' = IF Valid(row[f]) THEN "next" ELSE "renew"
    /\ UNCHANGED <<now, graph, row, fresh, due, ids, crashes>>

\* The next folder: its row is read.  A failure leaves the folder to the next tick.
NextFolder ==
    /\ at = "next"
    /\ \/ todo = {} /\ at' = "off" /\ UNCHANGED <<todo, folder>>
       \/ \E f \in todo :
            /\ todo' = todo \ {f}
            /\ folder' = f
            /\ \/ at' = IF Valid(row[f]) THEN "next"
                        ELSE IF row[f] = NoRow THEN "create" ELSE "renew"
               \/ "postgres" \in Faults /\ at' = "next"
    /\ UNCHANGED <<now, graph, row, fresh, due, ids, crashes>>

\* Graph has the subscription id expire at another time.
Renewed(id, expires) ==
    {IF s.id = id THEN [id |-> id, expires |-> expires] ELSE s : s \in graph}

\* (mutant) A renewal that fails is logged, and its expiration stored.
RenewBestEffort ==
    /\ at = "renew"
    /\ graph' \in {graph, Renewed(row[folder].id, Expiration)}
    /\ fresh' = [id |-> row[folder].id, expires |-> Expiration]
    /\ at' = "saveRenewed"
    /\ UNCHANGED <<now, row, todo, folder, due, ids, crashes>>

\* renewMailSubscription.  It fails for a subscription that Graph has dropped, and may
\* fail for any other before or after it is carried out.
Renew ==
    /\ at = "renew"
    /\ \/ /\ \E s \in graph : s.id = row[folder].id
          /\ graph' = Renewed(row[folder].id, Expiration)
          /\ fresh' = [id |-> row[folder].id, expires |-> Expiration]
          /\ at' = "saveRenewed"
       \/ /\ "graph" \in Faults \/ \A s \in graph : s.id # row[folder].id
          /\ graph' \in {graph, Renewed(row[folder].id, Expiration)}
          /\ at' = "delete"
          /\ UNCHANGED fresh
    /\ UNCHANGED <<now, row, todo, folder, due, ids, crashes>>

\* upsertWebhookRow.  It is done or not done: an answer that is lost is not modelled.
Upsert(failed) ==
    /\ \/ row' = [row EXCEPT ![folder] = fresh] /\ at' = "next"
       \/ "postgres" \in Faults /\ at' = failed /\ UNCHANGED row
    /\ UNCHANGED <<now, graph, todo, folder, fresh, due, ids, crashes>>

\* The failure of the write is caught like that of the renewal.
SaveRenewed == at = "saveRenewed" /\ Upsert("delete")

SaveCreated == at = "saveCreated" /\ Upsert("next")

\* deleteMailSubscription, which never throws.
Delete ==
    /\ at = "delete"
    /\ at' = "create"
    /\ \/ graph' = {s \in graph : s.id # row[folder].id}
       \/ "graph" \in Faults /\ UNCHANGED graph
    /\ UNCHANGED <<now, row, todo, folder, fresh, due, ids, crashes>>

\* ensureMailSubscriptionForFolder.  A failure may leave a subscription behind that no
\* row names.
Create ==
    LET new == [id |-> ids, expires |-> Expiration]
    IN  /\ at = "create"
        /\ \/ /\ graph' = graph \cup {new}
              /\ ids' = ids + 1
              /\ fresh' = new
              /\ at' = "saveCreated"
           \/ /\ "graph" \in Faults
              /\ \/ graph' = graph \cup {new} /\ ids' = ids + 1
                 \/ UNCHANGED <<graph, ids>>
              /\ at' = "next"
              /\ UNCHANGED fresh
        /\ UNCHANGED <<now, row, todo, folder, due, crashes>>

\* The worker dies and starts again, with a tick of its own.
WorkerCrash ==
    /\ crashes < MaxCrashes
    /\ crashes' = crashes + 1
    /\ at' = "off"
    /\ due' = TRUE
    /\ UNCHANGED <<now, graph, row, todo, folder, fresh, ids>>

TickStep ==
    NextFolder \/ Renew \/ SaveRenewed \/ Delete \/ Create \/ SaveCreated

Next == Hour \/ BeginTick \/ TickStep \/ WorkerCrash

Spec == Init /\ [][Next]_vars

-----------------------------------------------------------------------------
\* A subscription that the ticks pass over is one that Graph holds for at least as long as
\* the row says: no failure and no crash between the calls leaves a row that reads valid
\* for a subscription that is deleted or was never renewed, or a folder would get no
\* notification for two days (ensureSubscriptionForMailboxFolder).
SkippedIsHeld ==
    \A f \in Folders : Valid(row[f]) =>
        \E s \in graph : s.id = row[f].id /\ s.expires >= row[f].expires

=============================================================================

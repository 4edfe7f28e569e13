---------------------------- MODULE GraphAccess ----------------------------
(***************************************************************************)
(* How one process gets at Microsoft Graph: the list of Azure apps and its  *)
(* reload (graph-apps.service.ts, graph-apps.runtime.ts, the routes of the  *)
(* admin console), the MSAL clients and tokens it keeps per app (msal.ts),  *)
(* and the attempts of a Graph call (graph/client.ts).                      *)
(*                                                                          *)
(* An app is a mail domain.  A token is reduced to the credential it was    *)
(* issued for and to whether it is further from its end than the skew.      *)
(* Graph may refuse any token and throttle any call; Entra may refuse to    *)
(* issue a token if "entra" is in Faults.                                   *)
(***************************************************************************)
EXTENDS Naturals

CONSTANTS
    Apps,       \* keys of graph_apps: mail domains
    Creds,      \* what tenant, client id and secret of an app may be
    NoCred,     \* no enabled row for the app
    Calls,      \* Graph calls that may be under way at once
    AppOf,      \* AppOf[x]: the domain of the mailbox that call x acts for
    Binary,     \* calls of graphFetchBinary
    LastAttempt, \* a throttled request is made again while attempt is less: 5 in the code
    Sweeps,     \* sweeps over all apps: the token warmer, the health and status probes
    Admins,     \* admin requests that may be under way at once
    MaxWrites,  \* bound on the writes to graph_apps
    Faults      \* services that may fail

ASSUME AccessAssumption ==
    /\ NoCred \notin Creds
    /\ AppOf \in [Calls -> Apps]
    /\ Calls \cap (Sweeps \X Apps) = {}
    /\ LastAttempt \in Nat \ {0}
    /\ MaxWrites \in Nat

VARIABLES
    table,      \* graph_apps, the enabled rows
    apps,       \* dbAppsCache
    clients,    \* the credential each MSAL client was built with
    cache,      \* the token kept for each app
    pc,         \* where each call, and each app's part of a sweep, stands
    attempt,    \* attempt[x]: the argument of that name
    posts,      \* posts[x]: requests that call x has made of Graph
    asked,      \* the credential of the client that x waits for
    step,       \* where each admin request stands
    prev, next, \* the lists that refreshGraphAppsFromDb compares
    writes

tokenVars == <<clients, cache>>
callVars == <<pc, attempt, posts, asked>>
adminVars == <<step, prev, next, writes>>
vars == <<table, apps, tokenVars, callVars, adminVars>>

Lists == [Apps -> Creds \cup {NoCred}]
Empty == [a \in Apps |-> NoCred]

Tokens == [cred : Creds \cup {NoCred}, fresh : BOOLEAN]
NoToken == [cred |-> NoCred, fresh |-> FALSE]

Callers == Calls \cup (Sweeps \X Apps)
AppFor(x) == IF x \in Calls THEN AppOf[x] ELSE x[2]

TypeOK ==
    /\ table \in Lists
    /\ apps \in Lists
    /\ clients \in Lists
    /\ cache \in [Apps -> Tokens]
    /\ pc \in [Callers -> {"idle", "acquire", "asked", "request", "force", "forcing"}]
    /\ attempt \in [Callers -> 0..LastAttempt]
    /\ posts \in [Callers -> Nat]
    /\ asked \in [Callers -> Creds \cup {NoCred}]
    /\ step \in [Admins -> {"idle", "written", "reading", "read"}]
    /\ prev \in [Admins -> Lists]
    /\ next \in [Admins -> Lists]
    /\ writes \in 0..MaxWrites

\* The process has booted and read the list; it does not boot with an empty one.
Init ==
    /\ table \in Lists \ {Empty}
    /\ apps = table
    /\ clients = Empty
    /\ cache = [a \in Apps |-> NoToken]
    /\ pc = [x \in Callers |-> "idle"]
    /\ attempt = [x \in Callers |-> 0]
    /\ posts = [x \in Callers |-> 0]
    /\ asked = [x \in Callers |-> NoCred]
    /\ step = [r \in Admins |-> "idle"]
    /\ prev = [r \in Admins |-> Empty]
    /\ next = [r \in Admins |-> Empty]
    /\ writes = 0

Goto(x, to) == pc' = [pc EXCEPT ![x] = to]

\* The call has returned or thrown, or the sweep is done with the app.
End(x) == Goto(x, "idle") /\ attempt' = [attempt EXCEPT ![x] = 0]

-----------------------------------------------------------------------------
(* Tokens.                                                                   *)

\* A token in hand: a call goes on to its request, and a sweep has what it came for.
AfterToken(x) ==
    IF x \in Calls THEN Goto(x, "request") /\ UNCHANGED attempt ELSE End(x)

\* acquireGraphTokenForMailbox finds no app for the domain of the mailbox and throws.
NoApp(x) ==
    /\ pc[x] \in {"acquire", "force"}
    /\ x \in Calls
    /\ apps[AppFor(x)] = NoCred
    /\ End(x)
    /\ UNCHANGED <<table, apps, tokenVars, posts, asked, adminVars>>

HasApp(x) == x \in Calls => apps[AppFor(x)] # NoCred

AcquireCached(x) ==
    /\ pc[x] = "acquire"
    /\ HasApp(x)
    /\ cache[AppFor(x)].fresh
    /\ AfterToken(x)
    /\ UNCHANGED <<table, apps, tokenVars, posts, asked, adminVars>>

\* No token that is good for long enough, or force: the client of the app is asked, and
\* built from the list if there is none.
AskClient(x) ==
    LET a == AppFor(x)
        cred == IF clients[a] # NoCred THEN clients[a] ELSE apps[a]
    IN  /\ \/ pc[x] = "acquire" /\ ~cache[a].fresh
           \/ pc[x] = "force"
        /\ HasApp(x)
        /\ IF cred = NoCred
           THEN End(x) /\ UNCHANGED <<clients, asked>>
           ELSE /\ clients' = [clients EXCEPT ![a] = cred]
                /\ asked' = [asked EXCEPT ![x] = cred]
                /\ Goto(x, IF pc[x] = "force" THEN "forcing" ELSE "asked")
                /\ UNCHANGED attempt
        /\ UNCHANGED <<table, apps, cache, posts, adminVars>>

\* The answer is kept for the app, whatever became of its client meanwhile.  Without
\* force it may be a token that the client kept itself and that is near its end.
ClientAnswers(x) ==
    /\ pc[x] = "asked"
    /\ \E fresh \in BOOLEAN :
        cache' = [cache EXCEPT ![AppFor(x)] = [cred |-> asked[x], fresh |-> fresh]]
    /\ asked' = [asked EXCEPT ![x] = NoCred]
    /\ AfterToken(x)
    /\ UNCHANGED <<table, apps, clients, posts, adminVars>>

\* After a forced refresh the call starts over with the next attempt.
ForcedAnswer(x) ==
    /\ pc[x] = "forcing"
    /\ cache' = [cache EXCEPT ![AppFor(x)] = [cred |-> asked[x], fresh |-> TRUE]]
    /\ asked' = [asked EXCEPT ![x] = NoCred]
    /\ attempt' = [attempt EXCEPT ![x] = @ + 1]
    /\ Goto(x, "acquire")
    /\ UNCHANGED <<table, apps, clients, posts, adminVars>>

ClientFails(x) ==
    /\ "entra" \in Faults
    /\ pc[x] \in {"asked", "forcing"}
    /\ asked' = [asked EXCEPT ![x] = NoCred]
    /\ End(x)
    /\ UNCHANGED <<table, apps, tokenVars, posts, adminVars>>

\* Time passes: the token of the app comes nearer to its end than the skew.
Age(a) ==
    /\ cache[a].fresh
    /\ cache' = [cache EXCEPT ![a] = [@ EXCEPT !.fresh = FALSE]]
    /\ UNCHANGED <<table, apps, clients, callVars, adminVars>>

\* The warmer's timer fires, or somebody asks for /health or the status page: a token is
\* acquired for each app of the list, by the warmer one after the other, by the probes at
\* once.  BOUND: a sweep of one kind ends before the next begins.
Sweep(k) ==
    /\ \A a \in Apps : pc[<<k, a>>] = "idle"
    /\ pc' = [x \in Callers |->
                IF x \in {k} \X Apps /\ apps[AppFor(x)] # NoCred THEN "acquire" ELSE pc[x]]
    /\ UNCHANGED <<table, apps, tokenVars, attempt, posts, asked, adminVars>>

-----------------------------------------------------------------------------
(* Calls.                                                                    *)

Call(x) ==
    /\ x \in Calls
    /\ pc[x] = "idle"
    /\ posts' = [posts EXCEPT ![x] = 0]
    /\ Goto(x, "acquire")
    /\ UNCHANGED <<table, apps, tokenVars, attempt, asked, adminVars>>

\* BOUND: requests are counted up to LastAttempt + 2, one more than PostsBounded allows.
Post(x) ==
    /\ pc[x] = "request"
    /\ posts' = [posts EXCEPT ![x] = IF @ <= LastAttempt + 1 THEN @ + 1 ELSE @]
    /\ UNCHANGED <<table, apps, tokenVars, asked, adminVars>>

\* Success, or an error that is thrown: any status that is not retried.
Answered(x) ==
    /\ Post(x)
    /\ End(x)

\* 401 on the first attempt.
Refused(x) ==
    /\ Post(x)
    /\ attempt[x] = 0
    /\ Goto(x, "force")
    /\ UNCHANGED attempt

\* (mutant) One attempt too many.
ThrottledOnce(x) ==
    /\ Post(x)
    /\ x \notin Binary
    /\ attempt[x] <= LastAttempt
    /\ attempt' = [attempt EXCEPT ![x] = @ + 1]
    /\ Goto(x, "acquire")

\* (mutant) The next attempt is made under the number of this one.
ThrottledForever(x) ==
    /\ Post(x)
    /\ x \notin Binary
    /\ attempt[x] < LastAttempt
    /\ Goto(x, "acquire")
    /\ UNCHANGED attempt

\* 429 or 503: again after a pause.  graphFetchBinary throws instead.
Throttled(x) ==
    /\ Post(x)
    /\ x \notin Binary
    /\ attempt[x] < LastAttempt
    /\ attempt' = [attempt EXCEPT ![x] = @ + 1]
    /\ Goto(x, "acquire")

-----------------------------------------------------------------------------
(* The list of apps.                                                         *)

\* POST, PATCH and DELETE of the admin console, up to the write: a row is added, changed,
\* enabled, disabled or removed, or given another domain.
AdminWrite(r) ==
    /\ step[r] = "idle"
    /\ writes < MaxWrites
    /\ \E a \in Apps :
        \/ \E c \in Creds \cup {NoCred} : table' = [table EXCEPT ![a] = c]
        \/ \E b \in Apps \ {a} :
            /\ table[b] = NoCred
            /\ table' = [table EXCEPT ![a] = NoCred, ![b] = table[a]]
    /\ writes' = writes + 1
    /\ step' = [step EXCEPT ![r] = "written"]
    /\ UNCHANGED <<apps, tokenVars, callVars, prev, next>>

\* refreshGraphAppsFromDb copies the list ...
RefreshStart(r) ==
    /\ step[r] = "written"
    /\ prev' = [prev EXCEPT ![r] = apps]
    /\ step' = [step EXCEPT ![r] = "reading"]
    /\ UNCHANGED <<table, apps, tokenVars, callVars, next, writes>>

\* ... reads the table ...
RefreshRead(r) ==
    /\ step[r] = "reading"
    /\ next' = [next EXCEPT ![r] = table]
    /\ step' = [step EXCEPT ![r] = "read"]
    /\ UNCHANGED <<table, apps, tokenVars, callVars, prev, writes>>

RefreshFails(r) ==
    /\ "postgres" \in Faults
    /\ step[r] = "reading"
    /\ step' = [step EXCEPT ![r] = "idle"]
    /\ prev' = [prev EXCEPT ![r] = Empty]
    /\ UNCHANGED <<table, apps, tokenVars, callVars, next, writes>>

\* (mutant) A changed secret does not count.
DiffKeysOnly(old, new) == {a \in Apps : (old[a] = NoCred) # (new[a] = NoCred)}

\* (mutant) Every app counts as changed.
DiffEverything(old, new) == Apps

\* diffEvictKeys: apps that are new, gone or changed.
DiffEvictKeys(old, new) == {a \in Apps : old[a] # new[a]}

\* ... and drops clients and tokens of the apps that differ.
RefreshEnd(r) ==
    LET evicted == DiffEvictKeys(prev[r], next[r])
    IN  /\ step[r] = "read"
        /\ clients' = [a \in Apps |-> IF a \in evicted THEN NoCred ELSE clients[a]]
        /\ cache' = [a \in Apps |-> IF a \in evicted THEN NoToken ELSE cache[a]]
        /\ apps' = next[r]
        /\ step' = [step EXCEPT ![r] = "idle"]
        /\ prev' = [prev EXCEPT ![r] = Empty]
        /\ next' = [next EXCEPT ![r] = Empty]
        /\ UNCHANGED <<table, callVars, writes>>

-----------------------------------------------------------------------------
CallerSteps(x) ==
    \/ NoApp(x) \/ AcquireCached(x) \/ AskClient(x) \/ ClientAnswers(x)
    \/ ForcedAnswer(x) \/ ClientFails(x)
    \/ Answered(x) \/ Refused(x) \/ Throttled(x)

Refresh(r) == RefreshStart(r) \/ RefreshRead(r) \/ RefreshFails(r) \/ RefreshEnd(r)

Next ==
    \/ \E x \in Callers : CallerSteps(x) \/ Call(x)
    \/ \E k \in Sweeps : Sweep(k)
    \/ \E a \in Apps : Age(a)
    \/ \E r \in Admins : AdminWrite(r) \/ Refresh(r)

Spec == Init /\ [][Next]_vars

\* Node runs every pending await to its end, and time passes.  Nobody has to call, to ask
\* for /health or to change the list.
Fairness ==
    /\ \A x \in Callers : WF_vars(CallerSteps(x))
    /\ \A a \in Apps : WF_vars(Age(a))
    /\ \A r \in Admins : WF_vars(Refresh(r))

FairSpec == Spec /\ Fairness

-----------------------------------------------------------------------------
(* Properties.                                                               *)

\* While admin requests come one after the other: a client that is kept was built with the
\* credential in the list, though calls build clients while the list is being read
\* (refreshGraphAppsFromDb, getClient).
ClientIsCurrent == \A a \in Apps : clients[a] \in {NoCred, apps[a]}

\* While admin requests come one after the other, hot reload takes effect and does no more:
\* when the credential of an app changes, its
\* client and its token are dropped in the same step, and those of the others stay
\* (PLAN-web-console.md, diffEvictKeys and evictGraphAppClients).
ReloadEvicts ==
    [][\A a \in Apps :
        /\ apps'[a] # apps[a] => clients'[a] = NoCred /\ cache'[a] = NoToken
        /\ clients'[a] = NoCred /\ clients[a] # NoCred => apps'[a] # apps[a]]_vars

\* However Graph answers, a call makes at most LastAttempt + 1 requests of it, six in the
\* code: a bound on the copies of a mail that one call of sendMail can put out (the
\* recursion of graphSendMailMime).
PostsBounded == \A x \in Calls : posts[x] <= LastAttempt + 1

\* A call comes to an end (graphFetch and graphSendMailMime call themselves).
CallsEnd == \A x \in Calls : pc[x] # "idle" ~> pc[x] = "idle"

\* Once the console makes no more changes, the process comes to use tokens of the
\* credentials in its list alone, although a token that was under way during a reload is
\* kept after it: it is not fresh for ever, and the client that is asked next has the
\* credential of the list.
ReloadSettles == <>[](\A a \in Apps : cache[a].fresh => cache[a].cred = apps[a])

=============================================================================

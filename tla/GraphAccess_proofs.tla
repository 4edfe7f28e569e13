------------------------ MODULE GraphAccess_proofs ------------------------
(***************************************************************************)
(* Theorems about GraphAccess, for any set of apps, calls and bounds.        *)
(***************************************************************************)
EXTENDS GraphAccess, Integers, TLAPS

\* Admin requests come one after the other.
InTurn == \A r, s \in Admins : r = s

\* Where a call stands fixes how many requests it has made: one for each attempt before
\* this one, and a refused one before a forced token.
PostsOK(x) ==
    /\ posts[x] <= LastAttempt + 1
    /\ pc[x] = "idle" => attempt[x] = 0
    /\ x \in Calls /\ pc[x] \in {"acquire", "asked", "request"} => posts[x] = attempt[x]
    /\ pc[x] \in {"request", "force", "forcing"} => x \in Calls
    /\ pc[x] \in {"force", "forcing"} => attempt[x] = 0 /\ posts[x] = 1
PostsInv == \A x \in Callers : PostsOK(x)

PInv == TypeOK /\ PostsInv

\* What a refresh compares with is still the list in effect.
PrevInv == \A r \in Admins : step[r] \in {"reading", "read"} => prev[r] = apps

-----------------------------------------------------------------------------
\* The app of a caller is an app.
LEMMA AppTyped ==
  ASSUME NEW x \in Callers
  PROVE  AppFor(x) \in Apps
  BY AccessAssumption DEF Callers, AppFor

\* The lists are functions from apps.
LEMMA ListsTyped ==
  /\ Empty \in Lists
  /\ NoToken \in Tokens
  BY DEF Empty, Lists, NoToken, Tokens

\* The invariant of the calls holds at first.
THEOREM InitP == Init => PInv
  <1> SUFFICES ASSUME Init PROVE PInv
    OBVIOUS
  <1> USE AccessAssumption
  <1>1. TypeOK
    BY ListsTyped DEF Init, TypeOK, Lists
  <1>2. PostsInv
    BY DEF Init, PostsInv, PostsOK
  <1> QED
    BY <1>1, <1>2 DEF PInv

\* The invariant of the calls is inductive: every attempt makes one request.
THEOREM NextP == PInv /\ [Next]_vars => PInv'
  <1> SUFFICES ASSUME TypeOK, PostsInv, [Next]_vars PROVE TypeOK' /\ PostsInv'
    BY DEF PInv
  <1> USE AccessAssumption, ListsTyped
  <1>a. ASSUME NEW x \in Callers, NEW p \in {"idle", "acquire", "asked", "request", "force", "forcing"},
               NEW n \in 0..LastAttempt, NEW m \in Nat,
               pc' = [pc EXCEPT ![x] = p], attempt' = [attempt EXCEPT ![x] = n],
               posts' = [posts EXCEPT ![x] = m],
               PostsOK(x)'
        PROVE  /\ pc' \in [Callers -> {"idle", "acquire", "asked", "request", "force", "forcing"}]
               /\ attempt' \in [Callers -> 0..LastAttempt]
               /\ posts' \in [Callers -> Nat]
               /\ PostsInv'
    <2>1. /\ pc' \in [Callers -> {"idle", "acquire", "asked", "request", "force", "forcing"}]
          /\ attempt' \in [Callers -> 0..LastAttempt]
          /\ posts' \in [Callers -> Nat]
      BY <1>a DEF TypeOK
    <2>2. \A y \in Callers \ {x} : pc'[y] = pc[y] /\ attempt'[y] = attempt[y] /\ posts'[y] = posts[y]
      BY <1>a DEF TypeOK
    <2>3. \A y \in Callers \ {x} : PostsOK(y)'
      BY <2>2 DEF PostsInv, PostsOK
    <2> QED
      BY <1>a, <2>1, <2>3 DEF PostsInv
  <1>s. ASSUME NEW x \in Callers
        PROVE  /\ pc[x] \in {"idle", "acquire", "asked", "request", "force", "forcing"}
               /\ attempt[x] \in 0..LastAttempt
               /\ posts[x] \in Nat
               /\ PostsOK(x)
               /\ AppFor(x) \in Apps
    BY AppTyped DEF TypeOK, PostsInv
  <1>u. ASSUME NEW x \in Callers
        PROVE  /\ attempt = [attempt EXCEPT ![x] = attempt[x]]
               /\ posts = [posts EXCEPT ![x] = posts[x]]
    BY DEF TypeOK
  <1>e. ASSUME NEW x \in Callers, End(x), posts' = posts, pc[x] \in {"acquire", "asked", "force", "forcing"}
        PROVE  /\ pc' \in [Callers -> {"idle", "acquire", "asked", "request", "force", "forcing"}]
               /\ attempt' \in [Callers -> 0..LastAttempt]
               /\ posts' \in [Callers -> Nat]
               /\ PostsInv'
    <2>1. pc' = [pc EXCEPT ![x] = "idle"] /\ attempt' = [attempt EXCEPT ![x] = 0]
          /\ posts' = [posts EXCEPT ![x] = posts[x]] /\ 0 \in 0..LastAttempt
      BY <1>e, <1>u DEF End, Goto
    <2>2. pc'[x] = "idle" /\ attempt'[x] = 0 /\ posts'[x] = posts[x]
      BY <2>1, <1>s DEF TypeOK
    <2>3. PostsOK(x)'
      BY <2>2, <1>s DEF PostsOK
    <2> QED
      BY <2>1, <2>3, <1>s, <1>a
  <1>t. ASSUME NEW x \in Callers, AfterToken(x), posts' = posts, pc[x] \in {"acquire", "asked"}
        PROVE  /\ pc' \in [Callers -> {"idle", "acquire", "asked", "request", "force", "forcing"}]
               /\ attempt' \in [Callers -> 0..LastAttempt]
               /\ posts' \in [Callers -> Nat]
               /\ PostsInv'
    <2>1. CASE x \notin Calls
      BY <2>1, <1>t, <1>e DEF AfterToken
    <2>2. CASE x \in Calls
      <3>1. pc' = [pc EXCEPT ![x] = "request"] /\ attempt' = [attempt EXCEPT ![x] = attempt[x]]
            /\ posts' = [posts EXCEPT ![x] = posts[x]]
        BY <2>2, <1>t, <1>u DEF AfterToken, Goto
      <3>2. pc'[x] = "request" /\ attempt'[x] = attempt[x] /\ posts'[x] = posts[x]
        BY <3>1, <1>s DEF TypeOK
      <3>3. PostsOK(x)'
        BY <3>2, <2>2, <1>t, <1>s DEF PostsOK
      <3> QED
        BY <3>1, <3>3, <1>s, <1>a
    <2> QED
      BY <2>1, <2>2
  <1>1. ASSUME NEW x \in Callers, NoApp(x) PROVE TypeOK' /\ PostsInv'
    BY <1>1, <1>e DEF NoApp, TypeOK, tokenVars, adminVars
  <1>2. ASSUME NEW x \in Callers, AcquireCached(x) PROVE TypeOK' /\ PostsInv'
    BY <1>2, <1>t DEF AcquireCached, TypeOK, tokenVars, adminVars
  <1>3. ASSUME NEW x \in Callers, AskClient(x) PROVE TypeOK' /\ PostsInv'
    <2> DEFINE a == AppFor(x)
               cred == IF clients[a] # NoCred THEN clients[a] ELSE apps[a]
    <2>0. cred \in Creds \cup {NoCred} /\ a \in Apps /\ pc[x] \in {"acquire", "force"}
      BY <1>3, <1>s DEF TypeOK, Lists, AskClient
    <2>1. CASE cred = NoCred
      BY <2>0, <2>1, <1>3, <1>e DEF AskClient, TypeOK, adminVars
    <2>2. CASE cred # NoCred
      <3>1. /\ clients' = [clients EXCEPT ![a] = cred]
            /\ asked' = [asked EXCEPT ![x] = cred]
            /\ pc' = [pc EXCEPT ![x] = IF pc[x] = "force" THEN "forcing" ELSE "asked"]
            /\ attempt' = [attempt EXCEPT ![x] = attempt[x]]
            /\ posts' = [posts EXCEPT ![x] = posts[x]]
            /\ UNCHANGED <<table, apps, cache, adminVars>>
        BY <2>2, <1>3, <1>u DEF AskClient, Goto
      <3>2. clients' \in Lists /\ asked' \in [Callers -> Creds \cup {NoCred}]
        BY <3>1, <2>0 DEF TypeOK, Lists
      <3>3. /\ pc'[x] = IF pc[x] = "force" THEN "forcing" ELSE "asked"
            /\ attempt'[x] = attempt[x] /\ posts'[x] = posts[x]
        BY <3>1, <1>s DEF TypeOK
      <3>4. PostsOK(x)'
        BY <3>3, <2>0, <1>s DEF PostsOK
      <3>5. /\ pc' \in [Callers -> {"idle", "acquire", "asked", "request", "force", "forcing"}]
            /\ attempt' \in [Callers -> 0..LastAttempt]
            /\ posts' \in [Callers -> Nat]
            /\ PostsInv'
        <4>1. CASE pc[x] = "force"
          <5>1. pc' = [pc EXCEPT ![x] = "forcing"]
            BY <4>1, <3>1
          <5> QED
            BY <5>1, <3>1, <3>4, <1>s, <1>a
        <4>2. CASE pc[x] # "force"
          <5>1. pc' = [pc EXCEPT ![x] = "asked"]
            BY <4>2, <3>1
          <5> QED
            BY <5>1, <3>1, <3>4, <1>s, <1>a
        <4> QED
          BY <4>1, <4>2
      <3> QED
        BY <3>1, <3>2, <3>5 DEF TypeOK, adminVars
    <2> QED
      BY <2>1, <2>2
  <1>4. ASSUME NEW x \in Callers, ClientAnswers(x) PROVE TypeOK' /\ PostsInv'
    <2>1. PICK fresh \in BOOLEAN :
            cache' = [cache EXCEPT ![AppFor(x)] = [cred |-> asked[x], fresh |-> fresh]]
      BY <1>4 DEF ClientAnswers
    <2>2. [cred |-> asked[x], fresh |-> fresh] \in Tokens
      BY DEF TypeOK, Tokens
    <2>3. cache' \in [Apps -> Tokens] /\ asked' \in [Callers -> Creds \cup {NoCred}]
      BY <2>1, <2>2, <1>4, <1>s DEF ClientAnswers, TypeOK
    <2> QED
      BY <2>3, <1>4, <1>t DEF ClientAnswers, TypeOK, adminVars
  <1>5. ASSUME NEW x \in Callers, ForcedAnswer(x) PROVE TypeOK' /\ PostsInv'
    <2>1. [cred |-> asked[x], fresh |-> TRUE] \in Tokens
      BY DEF TypeOK, Tokens
    <2>2. cache' \in [Apps -> Tokens] /\ asked' \in [Callers -> Creds \cup {NoCred}]
      BY <2>1, <1>5, <1>s DEF ForcedAnswer, TypeOK
    <2>3. attempt[x] = 0 /\ posts[x] = 1 /\ x \in Calls
      BY <1>5, <1>s DEF ForcedAnswer, PostsOK
    <2>4. /\ pc' = [pc EXCEPT ![x] = "acquire"] /\ attempt' = [attempt EXCEPT ![x] = 1]
          /\ posts' = [posts EXCEPT ![x] = posts[x]]
      BY <2>3, <1>5, <1>u DEF ForcedAnswer, Goto
    <2>5. pc'[x] = "acquire" /\ attempt'[x] = 1 /\ posts'[x] = 1
      BY <2>3, <2>4, <1>s DEF TypeOK
    <2>6. PostsOK(x)'
      BY <2>5, <2>3 DEF PostsOK
    <2>7. 1 \in 0..LastAttempt
      OBVIOUS
    <2>8. /\ pc' \in [Callers -> {"idle", "acquire", "asked", "request", "force", "forcing"}]
          /\ attempt' \in [Callers -> 0..LastAttempt]
          /\ posts' \in [Callers -> Nat]
          /\ PostsInv'
      BY <2>4, <2>6, <2>7, <1>s, <1>a
    <2> QED
      BY <2>2, <2>8, <1>5 DEF ForcedAnswer, TypeOK, adminVars
  <1>6. ASSUME NEW x \in Callers, ClientFails(x) PROVE TypeOK' /\ PostsInv'
    <2>1. asked' \in [Callers -> Creds \cup {NoCred}]
      BY <1>6, <1>s DEF ClientFails, TypeOK
    <2> QED
      BY <2>1, <1>6, <1>e DEF ClientFails, TypeOK, tokenVars, adminVars
  <1>p. ASSUME NEW x \in Callers, Post(x), NEW p \in {"idle", "force", "acquire"}, NEW n \in 0..LastAttempt,
               pc' = [pc EXCEPT ![x] = p], attempt' = [attempt EXCEPT ![x] = n],
               p = "idle" => n = 0,
               p = "force" => attempt[x] = 0 /\ n = 0,
               p = "acquire" => n = attempt[x] + 1
        PROVE  TypeOK' /\ PostsInv'
    <2>1. x \in Calls /\ posts[x] = attempt[x] /\ pc[x] = "request"
      BY <1>p, <1>s DEF Post, PostsOK
    <2>0. attempt[x] \in 0..LastAttempt /\ posts[x] <= LastAttempt + 1 /\ posts[x] \in Nat
      BY <2>1 DEF TypeOK
    <2>2. posts' = [posts EXCEPT ![x] = posts[x] + 1] /\ posts[x] + 1 \in Nat
      BY <1>p, <2>0 DEF Post
    <2>3. pc'[x] = p /\ attempt'[x] = n /\ posts'[x] = posts[x] + 1
      BY <2>2, <1>p DEF TypeOK
    <2>4. PostsOK(x)'
      BY <2>1, <2>3, <1>p, <1>s DEF PostsOK
    <2>5. /\ pc' \in [Callers -> {"idle", "acquire", "asked", "request", "force", "forcing"}]
          /\ attempt' \in [Callers -> 0..LastAttempt]
          /\ posts' \in [Callers -> Nat]
          /\ PostsInv'
      BY <2>2, <2>4, <1>p, <1>a
    <2> QED
      BY <2>5, <1>p DEF Post, TypeOK, tokenVars, adminVars
  <1>7. ASSUME NEW x \in Callers, Answered(x) PROVE TypeOK' /\ PostsInv'
    <2>1. /\ pc' = [pc EXCEPT ![x] = "idle"]
          /\ attempt' = [attempt EXCEPT ![x] = 0]
          /\ 0 \in 0..LastAttempt
      BY <1>7 DEF Answered, End, Goto
    <2>2. Post(x)
      BY <1>7 DEF Answered
    <2> QED
      BY <2>1, <2>2, <1>p
  <1>8. ASSUME NEW x \in Callers, Refused(x) PROVE TypeOK' /\ PostsInv'
    <2>1. /\ pc' = [pc EXCEPT ![x] = "force"]
          /\ attempt' = [attempt EXCEPT ![x] = 0] /\ attempt[x] = 0
          /\ 0 \in 0..LastAttempt
      BY <1>8, <1>u DEF Refused, Goto
    <2>2. Post(x)
      BY <1>8 DEF Refused
    <2> QED
      BY <2>1, <2>2, <1>p
  <1>9. ASSUME NEW x \in Callers, Throttled(x) PROVE TypeOK' /\ PostsInv'
    <2>1. attempt[x] + 1 \in 0..LastAttempt
      BY <1>9, <1>s DEF Throttled
    <2>2. attempt' = [attempt EXCEPT ![x] = attempt[x] + 1]
      BY <1>9 DEF Throttled
    <2> QED
      BY <2>1, <2>2, <1>9, <1>p DEF Throttled, Goto
  <1>10. ASSUME NEW x \in Callers, Call(x) PROVE TypeOK' /\ PostsInv'
    <2>1. /\ pc' = [pc EXCEPT ![x] = "acquire"] /\ attempt' = [attempt EXCEPT ![x] = 0]
          /\ posts' = [posts EXCEPT ![x] = 0] /\ 0 \in 0..LastAttempt /\ 0 \in Nat
      BY <1>10, <1>s, <1>u DEF Call, Goto, PostsOK
    <2>2. pc'[x] = "acquire" /\ attempt'[x] = 0 /\ posts'[x] = 0
      BY <2>1 DEF TypeOK
    <2>3. PostsOK(x)'
      BY <2>2 DEF PostsOK
    <2>4. /\ pc' \in [Callers -> {"idle", "acquire", "asked", "request", "force", "forcing"}]
          /\ attempt' \in [Callers -> 0..LastAttempt]
          /\ posts' \in [Callers -> Nat]
          /\ PostsInv'
      BY <2>1, <2>3, <1>s, <1>a
    <2> QED
      BY <2>4, <1>10 DEF Call, TypeOK, tokenVars, adminVars
  <1>11. ASSUME NEW k \in Sweeps, Sweep(k) PROVE TypeOK' /\ PostsInv'
    <2>1. /\ attempt' = attempt /\ posts' = posts
          /\ pc' \in [Callers -> {"idle", "acquire", "asked", "request", "force", "forcing"}]
      BY <1>11 DEF Sweep, TypeOK
    <2>2. \A x \in Callers : \/ pc'[x] = pc[x]
                             \/ x \in {k} \X Apps /\ pc'[x] = "acquire"
      BY <1>11 DEF Sweep
    <2>3. \A x \in {k} \X Apps : x \notin Calls
      OBVIOUS
    <2>4. ASSUME NEW x \in Callers PROVE PostsOK(x)'
      BY <2>1, <2>2, <2>3, <1>s DEF PostsOK
    <2> QED
      BY <2>1, <2>4, <1>11 DEF Sweep, PostsInv, TypeOK, tokenVars, adminVars
  <1>12. ASSUME NEW a \in Apps, Age(a) PROVE TypeOK' /\ PostsInv'
    <2>1. [cache[a] EXCEPT !.fresh = FALSE] \in Tokens
      BY DEF TypeOK, Tokens
    <2>2. cache' \in [Apps -> Tokens]
      BY <2>1, <1>12 DEF Age, TypeOK
    <2> QED
      BY <2>2, <1>12 DEF Age, PostsInv, PostsOK, TypeOK, callVars, adminVars
  <1>13. ASSUME NEW r \in Admins, AdminWrite(r) PROVE TypeOK' /\ PostsInv'
    <2>1. table' \in Lists
      BY <1>13 DEF AdminWrite, TypeOK, Lists
    <2>2. writes' \in 0..MaxWrites /\ step' \in [Admins -> {"idle", "written", "reading", "read"}]
      BY <1>13 DEF AdminWrite, TypeOK
    <2> QED
      BY <2>1, <2>2, <1>13 DEF AdminWrite, PostsInv, PostsOK, TypeOK, tokenVars, callVars
  <1>14. ASSUME NEW r \in Admins, Refresh(r) PROVE TypeOK' /\ PostsInv'
    <2>1. step' \in [Admins -> {"idle", "written", "reading", "read"}]
      BY <1>14 DEF Refresh, RefreshStart, RefreshRead, RefreshFails, RefreshEnd, TypeOK
    <2>2. prev' \in [Admins -> Lists] /\ next' \in [Admins -> Lists]
      BY <1>14 DEF Refresh, RefreshStart, RefreshRead, RefreshFails, RefreshEnd, TypeOK
    <2>3. apps' \in Lists /\ clients' \in Lists /\ cache' \in [Apps -> Tokens]
      BY <1>14 DEF Refresh, RefreshStart, RefreshRead, RefreshFails, RefreshEnd, TypeOK, tokenVars, Lists
    <2>4. UNCHANGED <<table, callVars, writes>>
      BY <1>14 DEF Refresh, RefreshStart, RefreshRead, RefreshFails, RefreshEnd
    <2> QED
      BY <2>1, <2>2, <2>3, <2>4 DEF PostsInv, PostsOK, TypeOK, callVars
  <1>15. ASSUME UNCHANGED vars PROVE TypeOK' /\ PostsInv'
    BY <1>15 DEF vars, tokenVars, callVars, adminVars, TypeOK, PostsInv, PostsOK
  <1> QED
    BY <1>1, <1>2, <1>3, <1>4, <1>5, <1>6, <1>7, <1>8, <1>9, <1>10, <1>11, <1>12, <1>13, <1>14, <1>15
    DEF Next, CallerSteps

\* Every variable keeps its type, the attempts of a call below the limit among them.
THEOREM AccessTyped == Spec => []TypeOK
  <1>1. PInv => TypeOK
    BY DEF PInv
  <1> QED
    BY InitP, NextP, <1>1, PTL DEF Spec

\* One call of graphSendMailMime, and of the others, makes at most LastAttempt + 1 requests.
THEOREM CallIsBounded == Spec => []PostsBounded
  <1>1. PInv => PostsBounded
    BY DEF PInv, PostsInv, PostsOK, PostsBounded, Callers
  <1> QED
    BY InitP, NextP, <1>1, PTL DEF Spec

-----------------------------------------------------------------------------
\* No client and no refresh at first.
THEOREM InitC == Init => PrevInv /\ ClientIsCurrent
  BY DEF Init, PrevInv, ClientIsCurrent, Empty

\* What a step does to the lists and the clients while admin requests come in turn.
LEMMA StepC ==
  ASSUME InTurn, TypeOK, PrevInv, ClientIsCurrent, [Next]_vars
  PROVE  /\ PrevInv'
         /\ ClientIsCurrent'
         /\ \A a \in Apps :
              /\ apps'[a] # apps[a] => clients'[a] = NoCred /\ cache'[a] = NoToken
              /\ clients'[a] = NoCred /\ clients[a] # NoCred => apps'[a] # apps[a]
  <1> DEFINE Kept == /\ UNCHANGED <<apps, clients>>
                     /\ \A r \in Admins : /\ step'[r] \in {"reading", "read"} => step[r] = step'[r]
                                          /\ prev'[r] = prev[r]
             Goal == /\ PrevInv'
                     /\ ClientIsCurrent'
                     /\ \A a \in Apps :
                          /\ apps'[a] # apps[a] => clients'[a] = NoCred /\ cache'[a] = NoToken
                          /\ clients'[a] = NoCred /\ clients[a] # NoCred => apps'[a] # apps[a]
  <1>k. ASSUME Kept PROVE Goal
    BY <1>k DEF PrevInv, ClientIsCurrent
  <1>1. ASSUME NEW x \in Callers, AskClient(x) PROVE Goal
    <2> DEFINE b == AppFor(x)
               cred == IF clients[b] # NoCred THEN clients[b] ELSE apps[b]
    <2>1. UNCHANGED <<apps, step, prev>>
      BY <1>1 DEF AskClient, adminVars
    <2>2. \/ clients' = clients
          \/ cred # NoCred /\ clients' = [clients EXCEPT ![b] = cred]
      BY <1>1 DEF AskClient
    <2>3. \A a \in Apps : \/ clients'[a] = clients[a]
                          \/ clients[a] = NoCred /\ clients'[a] = apps[a]
      BY <2>2, AppTyped DEF TypeOK, Lists
    <2>4. PrevInv'
      BY <2>1 DEF PrevInv
    <2>5. \A a \in Apps : clients'[a] = NoCred => clients[a] = NoCred
      BY <2>2, AppTyped DEF TypeOK, Lists
    <2> QED
      BY <2>1, <2>3, <2>4, <2>5 DEF ClientIsCurrent
  <1>2. ASSUME NEW x \in Callers, CallerSteps(x) \/ Call(x), ~AskClient(x) PROVE Goal
    <2>1. UNCHANGED <<apps, clients, step, prev>>
      BY <1>2 DEF CallerSteps, Call, NoApp, AcquireCached, ClientAnswers, ForcedAnswer, ClientFails,
                  Answered, Refused, Throttled, Post, tokenVars, adminVars
    <2> QED
      BY <2>1, <1>k
  <1>3. ASSUME NEW k \in Sweeps, Sweep(k) PROVE Goal
    BY <1>3, <1>k DEF Sweep, tokenVars, adminVars
  <1>4. ASSUME NEW a \in Apps, Age(a) PROVE Goal
    BY <1>4, <1>k DEF Age, adminVars
  <1>5. ASSUME NEW r \in Admins, AdminWrite(r) PROVE Goal
    BY <1>5, <1>k DEF AdminWrite, tokenVars, TypeOK
  <1>6. ASSUME NEW r \in Admins, RefreshStart(r) PROVE Goal
    <2>1. UNCHANGED <<apps, clients>> /\ prev'[r] = apps
      BY <1>6 DEF RefreshStart, tokenVars, TypeOK
    <2>2. \A s \in Admins : prev'[s] = apps
      BY <2>1 DEF InTurn
    <2> QED
      BY <2>1, <2>2 DEF PrevInv, ClientIsCurrent
  <1>7. ASSUME NEW r \in Admins, RefreshRead(r) PROVE Goal
    <2>1. UNCHANGED <<apps, clients, prev>> /\ step[r] = "reading"
      BY <1>7 DEF RefreshRead, tokenVars
    <2>2. \A s \in Admins : prev'[s] = apps
      BY <2>1 DEF InTurn, PrevInv
    <2> QED
      BY <2>1, <2>2 DEF PrevInv, ClientIsCurrent
  <1>8. ASSUME NEW r \in Admins, RefreshFails(r) PROVE Goal
    <2>1. UNCHANGED <<apps, clients>> /\ step'[r] = "idle"
      BY <1>8 DEF RefreshFails, tokenVars, TypeOK
    <2>2. \A s \in Admins : step'[s] = "idle"
      BY <2>1 DEF InTurn
    <2> QED
      BY <2>1, <2>2 DEF PrevInv, ClientIsCurrent
  <1>9. ASSUME NEW r \in Admins, RefreshEnd(r) PROVE Goal
    <2>1. prev[r] = apps /\ next[r] \in Lists
      BY <1>9 DEF RefreshEnd, PrevInv, TypeOK
    <2>2. \A s \in Admins : step'[s] = "idle"
      BY <1>9 DEF RefreshEnd, TypeOK, InTurn
    <2>3. \A a \in Apps :
            /\ apps'[a] = next[r][a]
            /\ clients'[a] = IF apps[a] # next[r][a] THEN NoCred ELSE clients[a]
            /\ cache'[a] = IF apps[a] # next[r][a] THEN NoToken ELSE cache[a]
      BY <2>1, <1>9 DEF RefreshEnd, DiffEvictKeys
    <2>4. PrevInv'
      BY <2>2 DEF PrevInv
    <2>5. ClientIsCurrent'
      BY <2>3 DEF ClientIsCurrent
    <2> QED
      BY <2>3, <2>4, <2>5
  <1>10. ASSUME UNCHANGED vars PROVE Goal
    BY <1>10, <1>k DEF vars, tokenVars, adminVars
  <1> QED
    BY <1>1, <1>2, <1>3, <1>4, <1>5, <1>6, <1>7, <1>8, <1>9, <1>10 DEF Next, Refresh

\* While admin requests come one after the other, a client that is kept has the credential
\* of the list.
THEOREM ClientsCurrent == InTurn => (Spec => []ClientIsCurrent)
  <1> SUFFICES ASSUME InTurn PROVE Spec => []ClientIsCurrent
    OBVIOUS
  <1>1. TypeOK /\ PrevInv /\ ClientIsCurrent /\ [Next]_vars => PrevInv' /\ ClientIsCurrent'
    BY StepC
  <1> QED
    BY InitC, <1>1, AccessTyped, PTL DEF Spec

\* While admin requests come one after the other, a reload drops the client and the token of
\* every app whose credential it changes, and the client of no other.
THEOREM ReloadDrops == InTurn => (Spec => ReloadEvicts)
  <1> SUFFICES ASSUME InTurn PROVE Spec => ReloadEvicts
    OBVIOUS
  <1> DEFINE A == \A a \in Apps :
              /\ apps'[a] # apps[a] => clients'[a] = NoCred /\ cache'[a] = NoToken
              /\ clients'[a] = NoCred /\ clients[a] # NoCred => apps'[a] # apps[a]
  <1>1. TypeOK /\ PrevInv /\ ClientIsCurrent /\ [Next]_vars => PrevInv' /\ ClientIsCurrent'
    BY StepC
  <1>2. TypeOK /\ PrevInv /\ ClientIsCurrent /\ [Next]_vars => [A]_vars
    BY StepC
  <1>3. ReloadEvicts <=> [][A]_vars
    BY DEF ReloadEvicts
  <1> HIDE DEF A
  <1> QED
    BY InitC, <1>1, <1>2, <1>3, AccessTyped, PTL DEF Spec

-----------------------------------------------------------------------------
(* What CallsEnd rests on: the functions of graph/client.ts call themselves, and yet no   *)
(* call goes round in circles.                                                            *)

\* How far an attempt is from its end, and a call from its own.
Height == [acquire |-> 5, asked |-> 4, request |-> 3, force |-> 2, forcing |-> 1, idle |-> 0]
Rank(x) == IF pc[x] = "idle" THEN 0 ELSE 6 * (LastAttempt - attempt[x]) + Height[pc[x]]

\* Nothing happens to x, or it has less before it than it had.
Advances(x) == UNCHANGED <<pc[x], attempt[x]>> \/ Rank(x)' < Rank(x)

\* The ranks are natural numbers, and only who is done has rank 0.
LEMMA RankTyped ==
  ASSUME PInv, NEW x \in Callers
  PROVE  Rank(x) \in Nat /\ (pc[x] # "idle" => Rank(x) > 0)
BY AccessAssumption DEF PInv, TypeOK, Rank, Height

\* A step of a caller lowers its rank.
LEMMA CallerAdvances ==
  ASSUME PInv, NEW x \in Callers, CallerSteps(x)
  PROVE  pc[x] # "idle" /\ Rank(x)' < Rank(x)
<1> USE AccessAssumption DEF Goto, Height
<1>1. /\ pc[x] \in {"idle", "acquire", "asked", "request", "force", "forcing"}
      /\ attempt[x] \in 0..LastAttempt
      /\ pc[x] \in {"force", "forcing"} => attempt[x] = 0
  BY DEF PInv, TypeOK, PostsInv, PostsOK
<1>2. \A to : Goto(x, to) => pc'[x] = to
  BY DEF PInv, TypeOK
<1>3. ASSUME End(x), pc[x] # "idle" PROVE Rank(x)' < Rank(x)
  <2>1. Rank(x)' = 0
    BY <1>2, <1>3 DEF End, Rank
  <2>2. QED
    BY <1>3, <2>1, RankTyped
<1>4. ASSUME attempt' = attempt, pc'[x] # "idle", pc[x] # "idle",
             Height[pc'[x]] < Height[pc[x]],
             pc'[x] \in {"acquire", "asked", "request", "force", "forcing"}
      PROVE  Rank(x)' < Rank(x)
  BY <1>1, <1>4 DEF Rank
<1>5. ASSUME AfterToken(x), pc[x] \in {"acquire", "asked"} PROVE Rank(x)' < Rank(x)
  BY <1>2, <1>3, <1>4, <1>5 DEF AfterToken
<1>6. CASE NoApp(x)
  BY <1>3, <1>6 DEF NoApp
<1>7. CASE AcquireCached(x) \/ ClientAnswers(x)
  BY <1>5, <1>7 DEF AcquireCached, ClientAnswers
<1>8. CASE AskClient(x)
  <2>1. pc[x] \in {"acquire", "force"}
    BY <1>8 DEF AskClient
  <2>2. \/ End(x)
        \/ /\ attempt' = attempt
           /\ Goto(x, IF pc[x] = "force" THEN "forcing" ELSE "asked")
    BY <1>8 DEF AskClient
  <2>3. QED
    BY <1>2, <1>3, <1>4, <2>1, <2>2
<1>9. CASE ClientFails(x) \/ Answered(x)
  BY <1>3, <1>9 DEF ClientFails, Answered, Post
<1>10. CASE Refused(x)
  <2>1. pc[x] = "request" /\ attempt' = attempt /\ pc'[x] = "force"
    BY <1>2, <1>10 DEF Refused, Post
  <2>2. QED
    BY <1>4, <2>1
<1>11. CASE ForcedAnswer(x) \/ Throttled(x)
  <2>1. /\ pc[x] \in {"forcing", "request"} /\ attempt[x] < LastAttempt
        /\ attempt' = [attempt EXCEPT ![x] = attempt[x] + 1] /\ Goto(x, "acquire")
    BY <1>1, <1>11 DEF ForcedAnswer, Throttled, Post
  <2>2. attempt'[x] = attempt[x] + 1 /\ pc'[x] = "acquire"
    BY <1>2, <2>1 DEF PInv, TypeOK
  <2>3. QED
    BY <1>1, <2>1, <2>2 DEF Rank
<1>12. QED
  BY <1>6, <1>7, <1>8, <1>9, <1>10, <1>11 DEF CallerSteps, Post, NoApp, AcquireCached,
     AskClient, ClientAnswers, ForcedAnswer, ClientFails, Answered, Refused, Throttled

\* A caller's step is its own.
LEMMA OtherCaller ==
  ASSUME PInv, NEW y \in Callers, CallerSteps(y) \/ Call(y), NEW x \in Callers, x # y
  PROVE  UNCHANGED <<pc[x], attempt[x]>>
<1>1. CASE Call(y)
  BY <1>1 DEF Call, Goto, PInv, TypeOK
<1>2. CASE NoApp(y) \/ AcquireCached(y) \/ ClientAnswers(y) \/ ClientFails(y) \/ Answered(y)
  BY <1>2 DEF NoApp, AcquireCached, ClientAnswers, ClientFails, Answered, AfterToken, End,
              Goto, PInv, TypeOK
<1>3. CASE AskClient(y)
  BY <1>3 DEF AskClient, End, Goto, PInv, TypeOK
<1>4. CASE ForcedAnswer(y) \/ Refused(y) \/ Throttled(y)
  BY <1>4 DEF ForcedAnswer, Refused, Throttled, Goto, PInv, TypeOK
<1>5. QED
  BY <1>1, <1>2, <1>3, <1>4 DEF CallerSteps

\* Whatever Graph, Entra, the other callers and the console do, a step that touches a call
\* or a sweep's work on an app brings it nearer to its end: a natural number falls, through
\* every retry after 429 or 503 and the forced token after 401.  With the fairness of Node,
\* which TLC adds, every call ends.
THEOREM CallsAdvance ==
  Spec => /\ [](\A x \in Callers : Rank(x) \in Nat)
          /\ [][\A x \in Callers : pc[x] # "idle" => Advances(x)]_vars
<1>1. PInv => \A x \in Callers : Rank(x) \in Nat
  BY RankTyped
<1>2. PInv /\ [Next]_vars => [\A x \in Callers : pc[x] # "idle" => Advances(x)]_vars
  <2> SUFFICES ASSUME PInv, Next, NEW x \in Callers, pc[x] # "idle" PROVE Advances(x)
    OBVIOUS
  <2>1. ASSUME NEW y \in Callers, CallerSteps(y) \/ Call(y) PROVE Advances(x)
    <3>1. CASE y # x
      BY <2>1, <3>1, OtherCaller DEF Advances
    <3>2. CASE y = x
      BY <2>1, <3>2, CallerAdvances DEF Advances, Call
    <3>3. QED
      BY <3>1, <3>2
  <2>2. ASSUME NEW k \in Sweeps, Sweep(k) PROVE Advances(x)
    <3>1. x \in {k} \X Apps => pc[x] = "idle"
      BY <2>2 DEF Sweep
    <3>2. QED
      BY <2>2, <3>1 DEF Sweep, Advances
  <2>3. ASSUME NEW a \in Apps, Age(a) PROVE Advances(x)
    BY <2>3 DEF Age, callVars, Advances
  <2>4. ASSUME NEW r \in Admins, AdminWrite(r) \/ Refresh(r) PROVE Advances(x)
    BY <2>4 DEF AdminWrite, Refresh, RefreshStart, RefreshRead, RefreshFails, RefreshEnd,
                callVars, Advances
  <2>5. QED
    BY <2>1, <2>2, <2>3, <2>4 DEF Next
<1>3. QED
  BY InitP, NextP, <1>1, <1>2, PTL DEF Spec

=============================================================================

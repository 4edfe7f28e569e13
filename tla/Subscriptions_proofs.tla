------------------------ MODULE Subscriptions_proofs ------------------------
(***************************************************************************)
(* The subscriptions that the ticks pass over are held by Graph, for any     *)
(* folders, times to live, leads and faults.                                 *)
(*                                                                           *)
(* A tick deletes only the subscription of a row that has run into its lead,  *)
(* and a row that has does not read valid again until it is written.  What is *)
(* then left to show is that no two rows name one subscription, so that the   *)
(* deletion for one folder takes none from another, and that what Graph has   *)
(* answered is still true when it is stored, though hours may pass between.   *)
(***************************************************************************)
EXTENDS Subscriptions, TLAPS

\* Graph holds a subscription for at least as long as r says.
Held(r) == \E s \in graph : s.id = r.id /\ s.expires >= r.expires

\* A row names a subscription that was made, for no longer than one lives.
Bounded(r) == r.id < ids /\ r.expires <= now + Ttl

RowsBounded == \A f \in Folders : row[f] # NoRow => Bounded(row[f])

\* No two rows name one subscription.
RowsApart ==
    \A f, g \in Folders :
        f # g /\ row[f] # NoRow /\ row[g] # NoRow => row[f].id # row[g].id

\* The row whose subscription the tick renews or deletes has run into its lead.
Judged == at \in {"renew", "saveRenewed", "delete"} => ~Valid(row[folder])

\* What is about to be stored is still so, unless it has come to its end.
FreshIsHeld ==
    at \in {"saveRenewed", "saveCreated"} =>
        Bounded(fresh) /\ (fresh.expires > now => Held(fresh))

\* It is that of the folder's row, or one that no row names.
FreshApart ==
    /\ at = "saveRenewed" => fresh.id = row[folder].id
    /\ at = "saveCreated" => \A f \in Folders : row[f] # NoRow => row[f].id # fresh.id

IInv ==
    /\ TypeOK
    /\ RowsBounded
    /\ RowsApart
    /\ Judged
    /\ FreshIsHeld
    /\ FreshApart
    /\ SkippedIsHeld

-----------------------------------------------------------------------------
\* A renewal keeps the subscriptions that Graph holds, each with some time of its end.
LEMMA RenewedType ==
    ASSUME TypeOK, NEW id \in Nat, NEW expires \in Nat
    PROVE  Renewed(id, expires) \subseteq Subscription
BY DEF TypeOK, Renewed, Subscription

\* What was held stays so through a renewal to a time that is not before its end, and
\* what is renewed is held for that time.
LEMMA RenewedHolds ==
    ASSUME TypeOK, NEW id \in Nat, NEW expires \in Nat,
           NEW r \in Subscription, r.id = id => r.expires <= expires,
           Held(r) \/ (r = [id |-> id, expires |-> expires] /\ \E s \in graph : s.id = id)
    PROVE  \E s \in Renewed(id, expires) : s.id = r.id /\ s.expires >= r.expires
<1>1. PICK s \in graph : s.id = r.id /\ (r.id = id \/ s.expires >= r.expires)
  BY DEF Held, Subscription
<1>2. (IF s.id = id THEN [id |-> id, expires |-> expires] ELSE s) \in Renewed(id, expires)
  BY DEF Renewed
<1>3. CASE s.id = id
  BY <1>1, <1>2, <1>3 DEF Subscription
<1>4. CASE s.id # id
  BY <1>1, <1>2, <1>4
<1>. QED BY <1>3, <1>4

\* The type invariant is inductive.
LEMMA TypeStep == ASSUME TypeOK, [Next]_vars PROVE TypeOK'
<1>. USE SubscriptionsAssumption DEF TypeOK, Places
<1>1. CASE Hour BY <1>1 DEF Hour
<1>2. CASE BeginTick BY <1>2 DEF BeginTick
<1>3. CASE NextFolder BY <1>3 DEF NextFolder
<1>4. CASE Renew
  <2>1. row[folder] \in Subscription /\ row[folder].id \in Nat /\ Expiration \in Nat
    BY <1>4 DEF Renew, Subscription, Expiration
  <2>2. Renewed(row[folder].id, Expiration) \subseteq Subscription
    BY <2>1, RenewedType
  <2>3. [id |-> row[folder].id, expires |-> Expiration] \in Subscription
    BY <2>1 DEF Subscription
  <2>. QED BY <1>4, <2>2, <2>3 DEF Renew
<1>5. CASE SaveRenewed BY <1>5 DEF SaveRenewed, Upsert
<1>6. CASE Delete BY <1>6 DEF Delete
<1>7. CASE Create
  <2>1. [id |-> ids, expires |-> Expiration] \in Subscription
    BY DEF Subscription, Expiration
  <2>. QED BY <1>7, <2>1 DEF Create
<1>8. CASE SaveCreated BY <1>8 DEF SaveCreated, Upsert
<1>9. CASE WorkerCrash BY <1>9 DEF WorkerCrash
<1>10. CASE UNCHANGED vars BY <1>10 DEF vars
<1>. QED BY <1>1, <1>2, <1>3, <1>4, <1>5, <1>6, <1>7, <1>8, <1>9, <1>10 DEF Next, TickStep

-----------------------------------------------------------------------------
\* Storing what Graph has answered keeps the invariant, whichever step it follows.
LEMMA UpsertStep ==
    ASSUME IInv, TypeOK', NEW failed \in {"delete", "next"},
           at \in {"saveRenewed", "saveCreated"}, failed = "delete" => at = "saveRenewed",
           Upsert(failed)
    PROVE  IInv'
<1>. USE SubscriptionsAssumption
<1>1. folder \in Folders /\ fresh \in Subscription /\ fresh # NoRow
  BY DEF IInv, TypeOK, Subscription
<1>2. Bounded(fresh) /\ (fresh.expires > now => Held(fresh))
  BY DEF IInv, FreshIsHeld
<1>3. \A f \in Folders : f # folder /\ row[f] # NoRow => row[f].id # fresh.id
  BY <1>1 DEF IInv, FreshApart, RowsApart, TypeOK
<1>4. CASE row' = [row EXCEPT ![folder] = fresh] /\ at' = "next"
  <2>1. \A f \in Folders : row'[f] = IF f = folder THEN fresh ELSE row[f]
    BY <1>4 DEF IInv, TypeOK
  <2>2. UNCHANGED <<now, graph, folder, ids>>
    BY DEF Upsert
  <2>3. RowsBounded'
    BY <1>2, <2>1, <2>2 DEF IInv, RowsBounded, Bounded
  <2>4. RowsApart'
    BY <1>3, <2>1 DEF IInv, RowsApart
  <2>5. SkippedIsHeld'
    <3>1. \A f \in Folders : f # folder /\ Valid(row[f])' => Held(row[f])'
      BY <2>1, <2>2 DEF IInv, SkippedIsHeld, Valid, Held
    <3>2. Valid(row[folder])' => Held(row[folder])'
      BY <1>1, <1>2, <2>1, <2>2 DEF IInv, TypeOK, Valid, Held, Subscription
    <3>. QED BY <2>2, <3>1, <3>2 DEF SkippedIsHeld, Held, Valid
  <2>. QED BY <1>4, <2>3, <2>4, <2>5 DEF IInv, Judged, FreshIsHeld, FreshApart
<1>5. CASE at' = failed /\ UNCHANGED row
  <2>1. UNCHANGED <<now, graph, row, folder, fresh, ids>>
    BY <1>5 DEF Upsert
  <2>2. RowsBounded' /\ RowsApart' /\ SkippedIsHeld'
    BY <2>1 DEF IInv, RowsBounded, Bounded, RowsApart, SkippedIsHeld, Valid
  <2>3. Judged' /\ FreshIsHeld' /\ FreshApart'
    BY <1>5, <2>1 DEF IInv, Judged, FreshIsHeld, FreshApart, Valid
  <2>. QED BY <2>2, <2>3 DEF IInv
<1>. QED BY <1>4, <1>5 DEF Upsert

\* Every step keeps the invariant.
LEMMA InvStep == ASSUME IInv, [Next]_vars PROVE IInv'
<1>. USE SubscriptionsAssumption
<1>1. TypeOK'
  BY TypeStep DEF IInv
<1>2. \A f \in Folders : row[f] # NoRow =>
        row[f] \in Subscription /\ row[f].id \in Nat /\ row[f].expires \in Nat
  BY DEF IInv, TypeOK, Subscription
<1>3. now \in Nat /\ ids \in Nat /\ Expiration \in Nat
  BY DEF IInv, TypeOK, Expiration
<1>4. at \in {"saveRenewed", "saveCreated"} =>
        fresh \in Subscription /\ fresh.id \in Nat /\ fresh.expires \in Nat
  BY DEF IInv, TypeOK, Subscription
<1>5. CASE Hour
  <2>1. /\ now' = now + 1
        /\ graph' = {s \in graph : s.expires > now + 1}
        /\ UNCHANGED <<row, at, folder, fresh, ids>>
    BY <1>5 DEF Hour
  <2>2. \A s \in graph : s.id \in Nat /\ s.expires \in Nat
    BY DEF IInv, TypeOK, Subscription
  <2>3. ASSUME NEW r \in Subscription, r.expires > now => Held(r), r.expires > now + 1
        PROVE  Held(r)'
    BY <1>3, <2>1, <2>2, <2>3 DEF Held, Subscription
  <2>4. \A r \in Subscription : Bounded(r) => Bounded(r)'
    BY <1>3, <2>1 DEF Bounded, Subscription
  <2>5. RowsBounded' /\ RowsApart'
    BY <1>2, <2>1, <2>4 DEF IInv, RowsBounded, RowsApart
  <2>6. \A f \in Folders : Valid(row[f])' => Valid(row[f]) /\ row[f].expires > now + 1
    BY <1>2, <1>3, <2>1 DEF Valid
  <2>7. SkippedIsHeld'
    <3>1. ASSUME NEW f \in Folders, Valid(row[f])' PROVE Held(row[f])'
      <4>1. Valid(row[f]) /\ row[f].expires > now + 1 /\ row[f] \in Subscription
        BY <1>2, <2>6, <3>1 DEF Valid
      <4>2. Held(row[f])
        BY <4>1 DEF IInv, SkippedIsHeld, Held
      <4>. QED BY <2>1, <2>3, <4>1, <4>2
    <3>. QED BY <2>1, <3>1 DEF SkippedIsHeld, Held, Valid
  <2>8. Judged'
    BY <2>1, <2>6 DEF IInv, TypeOK, Judged, Valid
  <2>9. FreshIsHeld'
    BY <1>3, <1>4, <2>1, <2>3, <2>4 DEF IInv, FreshIsHeld
  <2>10. FreshApart'
    BY <2>1 DEF IInv, FreshApart
  <2>. QED BY <1>1, <2>5, <2>7, <2>8, <2>9, <2>10 DEF IInv
<1>6. CASE BeginTick
  BY <1>1, <1>6 DEF BeginTick, IInv, RowsBounded, Bounded, RowsApart, Judged, FreshIsHeld,
                    FreshApart, SkippedIsHeld, Valid
<1>7. CASE NextFolder
  <2>1. UNCHANGED <<now, graph, row, fresh, ids>>
    BY <1>7 DEF NextFolder
  <2>2. RowsBounded' /\ RowsApart' /\ SkippedIsHeld'
    BY <2>1 DEF IInv, RowsBounded, Bounded, RowsApart, SkippedIsHeld, Valid
  <2>3. at' \notin {"saveRenewed", "saveCreated", "delete"}
    BY <1>7 DEF NextFolder
  <2>4. at' = "renew" => ~Valid(row[folder'])
    BY <1>7 DEF NextFolder
  <2>5. Judged' /\ FreshIsHeld' /\ FreshApart'
    BY <2>1, <2>3, <2>4 DEF Judged, FreshIsHeld, FreshApart, Valid
  <2>. QED BY <1>1, <2>2, <2>5 DEF IInv
<1>8. CASE Renew
  <2>. DEFINE new == [id |-> row[folder].id, expires |-> Expiration]
  <2>1. at = "renew" /\ UNCHANGED <<now, row, folder, ids>>
    BY <1>8 DEF Renew
  <2>2. folder \in Folders /\ row[folder] # NoRow /\ ~Valid(row[folder])
    BY <2>1 DEF IInv, TypeOK, Judged
  <2>3. new \in Subscription /\ Bounded(new)
    BY <1>2, <1>3, <2>2 DEF IInv, RowsBounded, Bounded, Subscription, Expiration
  <2>4. ASSUME NEW f \in Folders, Valid(row[f]) PROVE Held(row[f])'
    <3>1. row[f] # NoRow /\ Held(row[f])
      BY <2>4 DEF IInv, SkippedIsHeld, Held, Valid
    <3>2. row[f] \in Subscription /\ row[f].expires <= Expiration
      BY <1>2, <3>1 DEF IInv, RowsBounded, Bounded, Expiration
    <3>3. \E s \in Renewed(row[folder].id, Expiration) :
            s.id = row[f].id /\ s.expires >= row[f].expires
      BY <1>2, <1>3, <2>2, <3>1, <3>2, RenewedHolds DEF IInv
    <3>. QED BY <1>8, <2>1, <3>1, <3>3 DEF Renew, Held
  <2>5. RowsBounded' /\ RowsApart'
    BY <2>1 DEF IInv, RowsBounded, Bounded, RowsApart
  <2>6. SkippedIsHeld'
    BY <2>1, <2>4 DEF SkippedIsHeld, Held, Valid
  <2>7. Judged'
    BY <2>1, <2>2 DEF Judged, Valid
  <2>8. CASE at' = "delete"
    BY <1>1, <2>5, <2>6, <2>7, <2>8 DEF IInv, FreshIsHeld, FreshApart
  <2>9. CASE at' # "delete"
    <3>1. /\ at' = "saveRenewed" /\ fresh' = new
          /\ graph' = Renewed(row[folder].id, Expiration)
          /\ \E s \in graph : s.id = row[folder].id
      BY <1>8, <2>9 DEF Renew
    <3>2. \E s \in Renewed(row[folder].id, Expiration) : s.id = new.id /\ s.expires >= new.expires
      BY <1>2, <1>3, <2>2, <2>3, <3>1, RenewedHolds DEF IInv
    <3>3. FreshIsHeld' /\ FreshApart'
      BY <2>1, <2>3, <3>1, <3>2 DEF FreshIsHeld, FreshApart, Held, Bounded
    <3>. QED BY <1>1, <2>5, <2>6, <2>7, <3>3 DEF IInv
  <2>. QED BY <2>8, <2>9
<1>9. CASE SaveRenewed
  BY <1>1, <1>9, UpsertStep DEF SaveRenewed
<1>10. CASE Delete
  <2>1. /\ at = "delete" /\ at' = "create"
        /\ UNCHANGED <<now, row, folder, ids>>
        /\ \A s \in graph : s.id # row[folder].id => s \in graph'
    BY <1>10 DEF Delete
  <2>2. folder \in Folders /\ row[folder] # NoRow /\ ~Valid(row[folder])
    BY <2>1 DEF IInv, TypeOK, Judged
  <2>3. \A f \in Folders : Valid(row[f]) => row[f].id # row[folder].id
    BY <2>2 DEF IInv, RowsApart, Valid
  <2>4. SkippedIsHeld'
    BY <2>1, <2>3 DEF IInv, SkippedIsHeld, Valid
  <2>5. RowsBounded' /\ RowsApart'
    BY <2>1 DEF IInv, RowsBounded, Bounded, RowsApart
  <2>. QED BY <1>1, <2>1, <2>4, <2>5 DEF IInv, Judged, FreshIsHeld, FreshApart
<1>11. CASE Create
  <2>. DEFINE new == [id |-> ids, expires |-> Expiration]
  <2>1. /\ at = "create" /\ graph \subseteq graph' /\ ids' \in {ids, ids + 1}
        /\ UNCHANGED <<now, row, folder>>
    BY <1>11 DEF Create
  <2>2. \A f \in Folders : row[f] # NoRow => Bounded(row[f])' /\ row[f].id # ids
    BY <1>2, <1>3, <2>1 DEF IInv, RowsBounded, Bounded
  <2>3. RowsBounded' /\ RowsApart' /\ SkippedIsHeld'
    BY <2>1, <2>2 DEF IInv, RowsBounded, RowsApart, SkippedIsHeld, Valid, Bounded
  <2>4. CASE at' = "next"
    BY <1>1, <2>3, <2>4 DEF IInv, Judged, FreshIsHeld, FreshApart
  <2>5. CASE at' # "next"
    <3>1. at' = "saveCreated" /\ fresh' = new /\ ids' = ids + 1 /\ new \in graph'
      BY <1>11, <2>5 DEF Create
    <3>2. Held(fresh)' /\ Bounded(fresh)'
      BY <1>3, <2>1, <3>1 DEF Held, Bounded, Expiration
    <3>3. FreshIsHeld' /\ FreshApart'
      BY <2>1, <2>2, <3>1, <3>2 DEF FreshIsHeld, FreshApart
    <3>. QED BY <1>1, <2>3, <3>1, <3>3 DEF IInv, Judged
  <2>. QED BY <2>4, <2>5
<1>12. CASE SaveCreated
  BY <1>1, <1>12, UpsertStep DEF SaveCreated
<1>13. CASE WorkerCrash
  BY <1>1, <1>13 DEF WorkerCrash, IInv, RowsBounded, Bounded, RowsApart, Judged,
                     FreshIsHeld, FreshApart, SkippedIsHeld, Valid
<1>14. CASE UNCHANGED vars
  BY <1>1, <1>14 DEF vars, IInv, RowsBounded, Bounded, RowsApart, Judged, FreshIsHeld,
                     FreshApart, SkippedIsHeld, Valid, Held
<1>. QED BY <1>5, <1>6, <1>7, <1>8, <1>9, <1>10, <1>11, <1>12, <1>13, <1>14
         DEF Next, TickStep

\* The invariant holds at the start, when nothing is subscribed.
LEMMA InvInit == Init => IInv
BY SubscriptionsAssumption
   DEF Init, IInv, TypeOK, Places, Subscription, RowsBounded, RowsApart, Judged, FreshIsHeld,
       FreshApart, SkippedIsHeld, Valid

LEMMA IInvAlways == Spec => []IInv
BY InvInit, InvStep, PTL DEF Spec

-----------------------------------------------------------------------------
\* The state stays within its types, and a tick that renews or deletes has a row to do it
\* for.
THEOREM SubscriptionsTypes == Spec => []TypeOK
<1>1. IInv => TypeOK BY DEF IInv
<1>. QED BY IInvAlways, <1>1, PTL

\* A subscription that the ticks pass over is held by Graph for at least as long as its row
\* says, whatever calls fail, wherever the worker dies and however long a tick takes.
THEOREM PassedOverIsHeld == Spec => []SkippedIsHeld
<1>1. IInv => SkippedIsHeld BY DEF IInv
<1>. QED BY IInvAlways, <1>1, PTL

=============================================================================

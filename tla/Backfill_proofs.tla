-------------------------- MODULE Backfill_proofs --------------------------
(***************************************************************************)
(* The rows of outbound_messages stay consistent, for any owners, keys, page  *)
(* sizes, faults and bounds, with the backfill, the CRM script, the console   *)
(* and the send worker all writing them, while bounces come in.               *)
(*                                                                           *)
(* No one locks anything, so what is shown is that whatever a script holds    *)
(* stays fit to be written while others write: mails are only ever added,     *)
(* rows are never taken away, and a row never passes from one subject, sender *)
(* and recipient to another.                                                 *)
(***************************************************************************)
EXTENDS Backfill, FiniteSetTheorems, SequenceTheorems, TLAPS

\* What a row of outbound_messages must be like.
Good(r) ==
    /\ ~r.id.legacy => r.id.of \in mails
    /\ r.page # None => Alike(r.id.of, r.page)
    /\ r.crm # None => r.page # None /\ Alike(r.crm, r.page)

\* A mail that was put out and is of the kind of a Notion row.
MailFor(m, p) == m \in mails /\ Alike(m, p)

RequestGood(q) ==
    /\ pc[q] \in {"stamp", "verify", "record"} => MailOf(q) \in mails
    /\ pc[q] = "stamp" => newPage[q] # None
    /\ newPage[q] # None => newPage[q][1] = q

RequestsGood == \A q \in Requests : RequestGood(q)
RowsGood == \A i \in DOMAIN out : Good(out[i])
StampsGood == \A s \in stamp : MailFor(s[2], s[1])
TakenGood == \A o \in OtherOwners : taken[o] # None => MailFor(taken[o], PageOf(o))

\* What the backfill holds of the Notion rows and is about to write.
BatchGood == \A b \in batch : b[2] # None => MailFor(b[2], b[1])
EntryGood == entry # None => Good(entry)

\* The row it is about to update is of the kind of the one it writes.
HitGood ==
    at = "write" /\ hit # 0 /\ out[hit].page # None => Alike(entry.page, out[hit].page)

\* The CRM script's candidates are still of the kind they were read as.
CandsGood ==
    \A c \in cands : out[c[1]].page # None /\ Alike(c[2], out[c[1]].page)

PassGood == BatchGood /\ EntryGood /\ HitGood /\ CandsGood

IInv == TypeOK /\ RequestsGood /\ RowsGood /\ StampsGood /\ TakenGood /\ PassGood

-----------------------------------------------------------------------------
\* Mails and Notion rows have names, and those of one owner are of one kind.
LEMMA Naming ==
    /\ \A q \in Requests : MailOf(q) \in Names /\ MailOf(q)[1] = q
    /\ \A q \in Requests, n \in Nat \ {0} : <<q, n>> \in Names
    /\ \A o \in OtherOwners, n \in Nat \ {0} : <<o, n>> \in Names
    /\ \A o \in OtherOwners : PageOf(o) \in Names /\ PageOf(o)[1] = o
    /\ None \notin Names \cup Row
BY WebAssumption, BackfillAssumption DEF MailOf, PageOf, Names, Owners

\* Appending to outbound_messages adds one row at the end.
LEMMA Appended ==
    ASSUME out \in Seq(Row), NEW new \in Row, out' = Append(out, new)
    PROVE  /\ out' \in Seq(Row)
           /\ Len(out) \in Nat /\ Len(out') = Len(out) + 1
           /\ DOMAIN out = 1..Len(out) /\ DOMAIN out' = 1..(Len(out) + 1)
           /\ \A i \in DOMAIN out : out'[i] = out[i]
           /\ out'[Len(out) + 1] = new
BY AppendProperties

\* The row that a request records.
LEMMA RecordTyped ==
    ASSUME WebTypeOK, NEW q \in Requests
    PROVE  [page |-> newPage[q], id |-> Sent(MailOf(q)), crm |-> None] \in Row
BY Naming DEF WebTypeOK, Row, Sent

\* Writing over a row of outbound_messages leaves the others.
LEMMA Updated ==
    ASSUME out \in Seq(Row), NEW new \in Row, NEW i \in DOMAIN out,
           out' = [out EXCEPT ![i] = new]
    PROVE  /\ out' \in Seq(Row)
           /\ Len(out') = Len(out) /\ DOMAIN out' = DOMAIN out
           /\ \A j \in DOMAIN out : out'[j] = IF j = i THEN new ELSE out[j]
<1>1. i \in 1..Len(out)
  OBVIOUS
<1>. QED BY <1>1, ExceptSeq

\* Good rows stay good when mails are added.
LEMMA GoodStays ==
    ASSUME mails \subseteq mails', NEW r, Good(r)
    PROVE  /\ ~r.id.legacy => r.id.of \in mails'
           /\ r.page # None => Alike(r.id.of, r.page)
           /\ r.crm # None => r.page # None /\ Alike(r.crm, r.page)
BY DEF Good

-----------------------------------------------------------------------------
(* The type invariant.                                                       *)

\* What the scripts know of outbound_messages stays in its range as rows are added.
LEMMA ScriptTypes ==
    ASSUME TypeOK, WebTypeOK', UNCHANGED <<taken, at, resolve, visited, batch, entry, hit>>,
           UNCHANGED <<outcome, passes, cands, syncs>>, due' \subseteq due,
           Len(out) <= Len(out')
    PROVE  TypeOK'
<1>1. Len(out) \in Nat /\ Len(out') \in Nat
  BY DEF TypeOK, WebTypeOK
<1>2. hit \in 0..Len(out') /\ cands \subseteq (1..Len(out')) \X Names
  BY <1>1 DEF TypeOK
<1>. QED BY <1>2 DEF TypeOK

\* Every step of a request keeps the types.
LEMMA RequestTypes ==
    ASSUME TypeOK, RequestsGood, NEW q \in Requests, Handler(q) \/ \E m \in Msgs : Post(q, m)
    PROVE  WebTypeOK' /\ Len(out) <= Len(out')
<1>. USE WebAssumption, Naming DEF Steps, Goto, Fails
<1>1. WebTypeOK /\ RequestGood(q) /\ out \in Seq(Row) /\ Len(out) \in Nat
  BY DEF TypeOK, WebTypeOK, RequestsGood
<1>2. CASE \E m \in Msgs : Post(q, m)
  BY <1>1, <1>2 DEF Post, WebTypeOK
<1>3. CASE Find(q)
  BY <1>1, <1>3 DEF Find, WebTypeOK
<1>4. CASE CreatePage(q)
  <2>1. PICK n \in 0..MaxPosts :
          /\ success' = success \cup ({q} \X (1..n))
          /\ newPage' \in {newPage, [newPage EXCEPT ![q] = <<q, n>>]}
          /\ n > 0 \/ newPage' = newPage
    BY <1>4 DEF CreatePage
  <2>2. {q} \X (1..n) \subseteq Names
    BY DEF Names, Owners
  <2>3. success' \subseteq Names /\ newPage' \in [Requests -> Names \cup {None}]
    BY <1>1, <2>1, <2>2 DEF WebTypeOK
  <2>4. pc' \in [Requests -> Steps] /\ UNCHANGED <<about, stamp, mails, out, crashes>>
    BY <1>1, <1>4 DEF CreatePage, WebTypeOK
  <2>. QED BY <1>1, <2>3, <2>4 DEF WebTypeOK
<1>5. CASE SendReply(q)
  BY <1>1, <1>5 DEF SendReply, WebTypeOK
<1>6. CASE Stamp(q)
  <2>1. newPage[q] \in Names /\ UNCHANGED <<about, newPage, mails, out, crashes>>
    BY <1>1, <1>6 DEF Stamp, RequestGood, WebTypeOK
  <2>2. success' \subseteq Names /\ stamp' \subseteq Names \X Names
    BY <1>1, <1>6, <2>1 DEF Stamp, Stamped, WebTypeOK
  <2>3. pc' \in [Requests -> Steps]
    BY <1>1, <1>6 DEF Stamp, WebTypeOK
  <2>. QED BY <1>1, <2>1, <2>2, <2>3 DEF WebTypeOK
<1>7. CASE Verify(q)
  BY <1>1, <1>7 DEF Verify, WebTypeOK
<1>8. CASE Record(q)
  <2>. DEFINE new == [page |-> newPage[q], id |-> Sent(MailOf(q)), crm |-> None]
  <2>1. out' = out \/ out' = Append(out, new)
    BY <1>8 DEF Record
  <2>2. new \in Row
    BY <1>1, RecordTyped
  <2>3. out' \in Seq(Row) /\ Len(out) <= Len(out')
    BY <1>1, <2>1, <2>2, Appended
  <2>4. pc' \in [Requests -> Steps] /\ UNCHANGED <<about, newPage, success, stamp, mails, crashes>>
    BY <1>1, <1>8 DEF Record, WebTypeOK
  <2>. QED BY <1>1, <2>3, <2>4 DEF WebTypeOK
<1>. QED BY <1>2, <1>3, <1>4, <1>5, <1>6, <1>7, <1>8 DEF Handler

\* So does every step of the send worker.
LEMMA WorkerTypes ==
    ASSUME TypeOK, NEW o \in OtherOwners, WorkerStep(o)
    PROVE  TypeOK'
<1>1. WebTypeOK /\ out \in Seq(Row) /\ Len(out) \in Nat
  BY DEF TypeOK, WebTypeOK
<1>2. CASE WorkerMarks(o)
  <2>1. WebTypeOK'
    BY <1>1, <1>2 DEF WorkerMarks, WebTypeOK
  <2>. QED BY <1>1, <1>2, <2>1, ScriptTypes DEF WorkerMarks, syncVars
<1>3. CASE WorkerSends(o)
  <2>1. PICK m \in Unsent(o) : mails' = mails \cup {m}
    BY <1>3 DEF WorkerSends
  <2>2. m \in Names
    BY BackfillAssumption, Naming DEF Unsent
  <2>3. WebTypeOK'
    BY <1>1, <1>3, <2>1, <2>2 DEF WorkerSends, WebTypeOK
  <2>. QED BY <1>1, <1>3, <2>3, ScriptTypes DEF WorkerSends, passVars, syncVars
<1>4. CASE WorkerRecords(o)
  <2>1. PICK m \in mails, crm \in {None, PageOf(o)} :
          /\ out' = Append(out, [page |-> PageOf(o), id |-> Sent(m), crm |-> crm])
          /\ taken' = [taken EXCEPT ![o] = m]
    BY <1>4 DEF WorkerRecords
  <2>2. m \in Names /\ [page |-> PageOf(o), id |-> Sent(m), crm |-> crm] \in Row
    BY <1>1, Naming DEF WebTypeOK, Row, Sent
  <2>3. out' \in Seq(Row) /\ Len(out') = Len(out) + 1
    BY <1>1, <2>1, <2>2, Appended
  <2>4. WebTypeOK'
    BY <1>1, <1>4, <2>3 DEF WorkerRecords, WebTypeOK
  <2>5. taken' \in [OtherOwners -> Names \cup {None}]
    BY <2>1, <2>2 DEF TypeOK
  <2>6. cands \subseteq (1..Len(out')) \X Names /\ hit \in 0..Len(out')
    BY <1>1, <2>3 DEF TypeOK
  <2>. QED BY <1>4, <2>4, <2>5, <2>6 DEF WorkerRecords, TypeOK, passVars, syncVars
<1>5. CASE WorkerStamps(o) \/ WorkerFails(o)
  <2>1. taken[o] \in Names /\ PageOf(o) \in Names
    BY <1>5, Naming DEF WorkerStamps, WorkerFails, TypeOK
  <2>2. WebTypeOK'
    BY <1>1, <1>5, <2>1 DEF WorkerStamps, WorkerFails, WebTypeOK, Stamped
  <2>3. taken' \in [OtherOwners -> Names \cup {None}]
    BY <1>5 DEF WorkerStamps, WorkerFails, TypeOK
  <2>. QED BY <1>5, <2>2, <2>3 DEF WorkerStamps, WorkerFails, TypeOK, passVars, syncVars
<1>. QED BY <1>2, <1>3, <1>4, <1>5 DEF WorkerStep

\* A select leaves the row to update in the range of outbound_messages.
LEMMA SelectTypes ==
    ASSUME TypeOK, NEW found \in SUBSET DOMAIN out, NEW otherwise \in {"bygraph", "write"},
           at \in {"bypage", "bygraph"}, Select(found, otherwise)
    PROVE  TypeOK'
<1>1. UNCHANGED <<webVars, taken, syncVars, resolve, due, passes, visited>>
  BY DEF Select, others, passInputs
<1>2. WebTypeOK'
  BY <1>1 DEF webVars, TypeOK, WebTypeOK
<1>3. out' = out /\ Len(out) \in Nat /\ DOMAIN out = 1..Len(out)
  BY <1>1 DEF webVars, TypeOK, WebTypeOK
<1>4. CASE /\ at' \in {otherwise, "write"} /\ hit' \in {0} \cup found
           /\ UNCHANGED <<batch, entry, outcome>>
  <2>1. hit' \in 0..Len(out')
    BY <1>3, <1>4
  <2>2. at' \in Places /\ entry \in Row /\ entry.page \in Names
    BY <1>4 DEF TypeOK, Places
  <2>. QED BY <1>1, <1>2, <1>3, <1>4, <2>1, <2>2 DEF TypeOK, syncVars, webVars
<1>5. CASE End("failed")
  BY <1>1, <1>2, <1>3, <1>5 DEF End, TypeOK, Places, syncVars, webVars
<1>. QED BY <1>4, <1>5 DEF Select

\* An upsert keeps the rows of outbound_messages typed, and where they are.
LEMMA UpsertTypes ==
    ASSUME TypeOK, at = "write", Upsert
    PROVE  out' \in Seq(Row) /\ Len(out) <= Len(out') /\ Len(out) \in Nat
<1>1. entry \in Row /\ out \in Seq(Row) /\ hit \in 0..Len(out) /\ Len(out) \in Nat
  BY DEF TypeOK, WebTypeOK
<1>2. CASE hit = 0
  <2>1. out' = Append(out, entry)
    BY <1>2 DEF Upsert
  <2>. QED BY <1>1, <2>1, Appended
<1>3. CASE hit # 0
  <2>1. out' = [out EXCEPT ![hit] = entry] /\ hit \in DOMAIN out
    BY <1>1, <1>3 DEF Upsert
  <2>. QED BY <1>1, <2>1, Updated
<1>. QED BY <1>2, <1>3

\* So does every step of the backfill.
LEMMA PassTypes ==
    ASSUME TypeOK, BeginPass \/ PassStep
    PROVE  TypeOK'
<1>1. WebTypeOK /\ out \in Seq(Row) /\ Len(out) \in Nat
  BY DEF TypeOK, WebTypeOK
<1>2. ASSUME UNCHANGED webVars PROVE WebTypeOK' /\ out' = out /\ success' = success
  BY <1>1, <1>2 DEF webVars, WebTypeOK
<1>3. \A p \in Names : Graph(p) \in Names \cup {None}
  BY <1>1 DEF Graph, WebTypeOK
<1>4. CASE BeginPass
  <2>1. UNCHANGED <<webVars, taken, syncVars, batch, entry, hit>>
    BY <1>4 DEF BeginPass, others
  <2>2. due' \subseteq Names
    BY <1>1, <1>4 DEF BeginPass, WebTypeOK
  <2>. QED BY <1>2, <1>4, <2>1, <2>2 DEF BeginPass, TypeOK, Places, syncVars
<1>5. CASE Query
  <2>1. UNCHANGED <<webVars, taken, syncVars, resolve, due, passes>>
    BY <1>5 DEF Query, others, passInputs
  <2>2. CASE End("done") \/ End("failed")
    <3>1. visited' = visited
      BY <1>5, <2>2 DEF Query, End
    <3>. QED BY <1>2, <2>1, <2>2, <3>1 DEF End, TypeOK, Places, syncVars
  <2>3. CASE ~(End("done") \/ End("failed"))
    <3>1. PICK B \in SUBSET (success \ visited) :
            batch' = {<<p, Graph(p)>> : p \in B} /\ visited' = visited \cup B
      BY <1>5, <2>3 DEF Query
    <3>2. B \subseteq Names
      BY <1>1, <3>1 DEF WebTypeOK
    <3>3. batch' \subseteq Names \X (Names \cup {None}) /\ visited' \subseteq Names
      BY <1>3, <3>1, <3>2 DEF TypeOK
    <3>4. at' = "next" /\ UNCHANGED <<entry, hit, outcome>>
      BY <1>5, <2>3 DEF Query
    <3>. QED BY <1>2, <2>1, <3>3, <3>4 DEF TypeOK, Places, syncVars
  <2>. QED BY <2>2, <2>3
<1>6. CASE NextRow
  <2>1. UNCHANGED <<webVars, taken, syncVars, resolve, due, passes, visited, hit, outcome>>
    BY <1>6 DEF NextRow, others, passInputs
  <2>2. CASE batch = {} /\ at' = "query" /\ UNCHANGED <<batch, entry>>
    BY <1>2, <2>1, <2>2 DEF TypeOK, Places, syncVars
  <2>3. CASE \E b \in batch : at' = "next" /\ entry' = None /\ batch' = batch \ {b}
    BY <1>2, <2>1, <2>3 DEF TypeOK, Places, syncVars
  <2>4. ASSUME NEW b \in batch, NEW crm \in CrmOf(b[1]), batch' = batch \ {b},
               at' = IF resolve /\ b[2] = None THEN "lookup" ELSE "bypage",
               entry' = [page |-> b[1], crm |-> crm,
                         id |-> IF b[2] = None THEN Legacy(b[1]) ELSE Sent(b[2])]
        PROVE  TypeOK'
    <3>1. b[1] \in Names /\ b[2] \in Names \cup {None} /\ crm \in Names \cup {None}
      BY DEF TypeOK, CrmOf
    <3>2. Legacy(b[1]) \in [legacy: BOOLEAN, of: Names]
      BY <3>1 DEF Legacy
    <3>3. b[2] # None => Sent(b[2]) \in [legacy: BOOLEAN, of: Names]
      BY <3>1 DEF Sent
    <3>4. entry' \in Row /\ entry'.page \in Names
      BY <2>4, <3>1, <3>2, <3>3 DEF Row
    <3>. QED BY <1>2, <2>1, <2>4, <3>4 DEF TypeOK, Places, syncVars
  <2>. QED BY <1>6, <2>2, <2>3, <2>4 DEF NextRow
<1>7. CASE Lookup
  <2>1. UNCHANGED <<webVars, taken, syncVars, resolve, due, passes, visited, batch, hit, outcome>>
    BY <1>7 DEF Lookup, others, passInputs
  <2>2. at = "lookup" /\ at' = "bypage" /\ entry \in Row /\ entry.page \in Names
    BY <1>7 DEF Lookup, TypeOK
  <2>3. entry' \in Row /\ entry'.page \in Names
    <3>1. CASE entry' = entry
      BY <2>2, <3>1
    <3>2. CASE \E m \in mails : entry' = WithId(Sent(m))
      BY <1>1, <2>2, <3>2 DEF WithId, Sent, Row, WebTypeOK
    <3>. QED BY <1>7, <3>1, <3>2 DEF Lookup
  <2>. QED BY <1>2, <2>1, <2>2, <2>3 DEF TypeOK, Places, syncVars
<1>8. CASE SelectByPage
  BY <1>8, SelectTypes DEF SelectByPage
<1>9. CASE SelectByGraph
  BY <1>9, SelectTypes DEF SelectByGraph
<1>10. CASE Write
  <2>1. /\ at = "write"
        /\ UNCHANGED <<pc, about, newPage, success, stamp, mails, crashes, taken, syncVars,
                       resolve, due, passes, visited>>
    BY <1>10 DEF Write, passInputs
  <2>2. Upsert \/ out' = out
    BY <1>10 DEF Write
  <2>3. out' \in Seq(Row) /\ Len(out) <= Len(out')
    BY <1>1, <2>1, <2>2, UpsertTypes
  <2>4. WebTypeOK'
    BY <1>1, <2>1, <2>3 DEF WebTypeOK
  <2>5. cands \subseteq (1..Len(out')) \X Names /\ Len(out') \in Nat
    BY <1>1, <2>3 DEF TypeOK
  <2>6. \/ at' = "next" /\ entry' = None /\ hit' = 0 /\ UNCHANGED <<batch, outcome>>
        \/ End("failed")
    BY <1>10 DEF Write
  <2>. QED BY <2>1, <2>4, <2>5, <2>6 DEF TypeOK, Places, syncVars, End
<1>. QED BY <1>4, <1>5, <1>6, <1>7, <1>8, <1>9, <1>10 DEF PassStep

\* The row that the CRM script writes back.
LEMMA SyncTyped ==
    ASSUME TypeOK, NEW c \in cands
    PROVE  /\ c[1] \in DOMAIN out /\ c[2] \in Names /\ out \in Seq(Row)
           /\ [page |-> out[c[1]].page, id |-> out[c[1]].id, crm |-> c[2]] \in Row
<1>1. c[1] \in 1..Len(out) /\ c[2] \in Names /\ out \in Seq(Row) /\ DOMAIN out = 1..Len(out)
  BY DEF TypeOK, WebTypeOK
<1>2. out[c[1]] \in Row
  BY <1>1
<1>. QED BY <1>1, <1>2 DEF Row

\* So does every step of the CRM script.
LEMMA SyncTypes ==
    ASSUME TypeOK, BeginSync \/ \E c \in cands : SyncRow(c)
    PROVE  TypeOK'
<1>1. WebTypeOK /\ out \in Seq(Row) /\ Len(out) \in Nat /\ DOMAIN out = 1..Len(out)
  BY DEF TypeOK, WebTypeOK
<1>2. CASE BeginSync
  <2>1. UNCHANGED <<webVars, taken, passVars>> /\ syncs' = syncs + 1
    BY <1>2 DEF BeginSync
  <2>2. WebTypeOK' /\ out' = out
    BY <1>1, <2>1 DEF webVars, WebTypeOK
  <2>3. \A i \in DOMAIN out : out[i].page \in Names \cup {None}
    <3>1. \A i \in 1..Len(out) : out[i] \in Row
      BY <1>1
    <3>. QED BY <1>1, <3>1 DEF Row
  <2>4. cands' \subseteq (1..Len(out)) \X Names
    BY <1>1, <1>2, <2>3 DEF BeginSync, Candidates
  <2>. QED BY <2>1, <2>2, <2>4 DEF TypeOK, passVars
<1>3. ASSUME NEW c \in cands, SyncRow(c) PROVE TypeOK'
  <2>. DEFINE new == [page |-> out[c[1]].page, id |-> out[c[1]].id, crm |-> c[2]]
  <2>1. out' = out \/ out' = [out EXCEPT ![c[1]] = new]
    BY <1>3 DEF SyncRow
  <2>2. out' \in Seq(Row) /\ Len(out') = Len(out)
    BY <1>1, <2>1, SyncTyped, Updated
  <2>3. UNCHANGED <<pc, about, newPage, success, stamp, mails, crashes, taken, passVars, syncs>>
          /\ cands' \subseteq cands
    BY <1>3 DEF SyncRow
  <2>4. WebTypeOK'
    BY <1>1, <2>2, <2>3 DEF WebTypeOK
  <2>. QED BY <2>2, <2>3, <2>4 DEF TypeOK, passVars
<1>. QED BY <1>2, <1>3

-----------------------------------------------------------------------------
(* The consistency of the rows.                                              *)

\* While mails are added and rows stay where they are, under the Notion rows they have,
\* whatever the scripts hold stays good.
LEMMA HeldStays ==
    ASSUME PassGood, TypeOK, mails \subseteq mails', DOMAIN out \subseteq DOMAIN out',
           \A i \in DOMAIN out : out'[i].page = out[i].page,
           UNCHANGED <<at, batch, entry, hit>>, cands' \subseteq cands
    PROVE  PassGood'
<1>1. BatchGood'
  BY DEF PassGood, BatchGood, MailFor, Alike, KeyOf
<1>2. EntryGood'
  BY DEF PassGood, EntryGood, Good, Alike, KeyOf
<1>3. out \in Seq(Row) /\ DOMAIN out = 1..Len(out) /\ Len(out) \in Nat /\ hit \in 0..Len(out)
  BY DEF TypeOK, WebTypeOK
<1>4. HitGood'
  BY <1>3 DEF PassGood, HitGood, Alike, KeyOf
<1>5. \A c \in cands : c[1] \in DOMAIN out
  BY <1>3 DEF TypeOK
<1>6. CandsGood'
  BY <1>5 DEF PassGood, CandsGood, Alike, KeyOf
<1>. QED BY <1>1, <1>2, <1>4, <1>6 DEF PassGood

\* Every step of a request keeps the invariant.
LEMMA RequestStep ==
    ASSUME IInv, NEW q \in Requests, Handler(q) \/ \E m \in Msgs : Post(q, m),
           UNCHANGED <<taken, passVars, syncVars>>
    PROVE  IInv'
<1>. USE DEF Goto, Fails
<1>1. WebTypeOK /\ TypeOK /\ out \in Seq(Row) /\ RequestGood(q) /\ MailOf(q)' = MailOf(q)
  BY DEF IInv, TypeOK, WebTypeOK, RequestsGood, MailOf
<1>2. WebTypeOK' /\ Len(out) <= Len(out')
  BY RequestTypes DEF IInv
<1>3. TypeOK'
  BY <1>1, <1>2, ScriptTypes DEF passVars, syncVars
<1>4. \A p \in Requests \ {q} : pc'[p] = pc[p] /\ newPage'[p] = newPage[p]
  BY <1>1 DEF Handler, Post, Find, CreatePage, SendReply, Stamp, Verify, Record, WebTypeOK
<1>5. mails \subseteq mails'
  BY DEF Handler, Post, Find, CreatePage, SendReply, Stamp, Verify, Record
<1>6. RequestsGood'
  <2>1. \A p \in Requests \ {q} : RequestGood(p)'
    BY <1>4, <1>5 DEF IInv, RequestsGood, RequestGood, MailOf
  <2>2. RequestGood(q)'
    <3>1. CASE \E m \in Msgs : Post(q, m)
      BY <1>1, <3>1 DEF Post, RequestGood, WebTypeOK
    <3>2. CASE Find(q)
      BY <1>1, <3>2 DEF Find, RequestGood, WebTypeOK
    <3>3. CASE CreatePage(q)
      BY <1>1, <3>3 DEF CreatePage, RequestGood, WebTypeOK
    <3>4. CASE SendReply(q)
      BY <1>1, <3>4 DEF SendReply, RequestGood, WebTypeOK
    <3>5. CASE Stamp(q)
      BY <1>1, <3>5 DEF Stamp, RequestGood, WebTypeOK
    <3>6. CASE Verify(q)
      BY <1>1, <3>6 DEF Verify, RequestGood, WebTypeOK
    <3>7. CASE Record(q)
      BY <1>1, <3>7 DEF Record, RequestGood, WebTypeOK
    <3>. QED BY <3>1, <3>2, <3>3, <3>4, <3>5, <3>6, <3>7 DEF Handler
  <2>. QED BY <2>1, <2>2 DEF RequestsGood
<1>7. StampsGood'
  <2>1. stamp' = stamp \/ (pc[q] = "stamp" /\ stamp' = Stamped(newPage[q], MailOf(q)))
    BY DEF Handler, Post, Find, CreatePage, SendReply, Stamp, Verify, Record
  <2>2. ASSUME NEW s \in stamp' PROVE s[2] \in mails' /\ Alike(s[2], s[1])
    <3>1. CASE s \in stamp
      BY <1>5, <3>1 DEF IInv, StampsGood, MailFor
    <3>2. CASE s \notin stamp
      <4>1. pc[q] = "stamp" /\ s = <<newPage[q], MailOf(q)>>
        BY <2>1, <2>2, <3>2 DEF Stamped
      <4>2. MailOf(q) \in mails /\ newPage[q][1] = q
        BY <1>1, <4>1 DEF RequestGood
      <4>. QED BY <1>5, <4>1, <4>2, Naming DEF Alike, KeyOf
    <3>. QED BY <3>1, <3>2
  <2>. QED BY <2>2 DEF StampsGood, MailFor, Alike, KeyOf
<1>8. TakenGood'
  BY <1>5 DEF IInv, TakenGood, MailFor, Alike, KeyOf, PageOf
<1>. DEFINE new == [page |-> newPage[q], id |-> Sent(MailOf(q)), crm |-> None]
<1>9. new \in Row
  BY <1>1, RecordTyped
<1>10. CASE out' = out
  <2>1. RowsGood'
    BY <1>5, <1>10 DEF IInv, RowsGood, Good, Alike, KeyOf
  <2>2. PassGood'
    BY <1>1, <1>5, <1>10, HeldStays DEF IInv, passVars, syncVars, Alike
  <2>. QED BY <1>3, <1>6, <1>7, <1>8, <2>1, <2>2 DEF IInv
<1>11. CASE out' # out
  <2>1. pc[q] = "record" /\ out' = Append(out, new)
    BY <1>11 DEF Handler, Post, Find, CreatePage, SendReply, Stamp, Verify, Record
  <2>2. /\ DOMAIN out = 1..Len(out) /\ DOMAIN out' = 1..(Len(out) + 1) /\ Len(out) \in Nat
        /\ \A i \in DOMAIN out : out'[i] = out[i]
        /\ out'[Len(out) + 1] = new
    BY <1>1, <1>9, <2>1, Appended
  <2>3. Good(new)
    <3>1. MailOf(q) \in mails /\ (newPage[q] # None => newPage[q][1] = q)
      BY <1>1, <2>1 DEF RequestGood
    <3>. QED BY <3>1, Naming DEF Good, Sent, Alike, KeyOf
  <2>4. RowsGood'
    <3>1. \A i \in DOMAIN out' : Good(out'[i])
      BY <2>2, <2>3 DEF IInv, RowsGood
    <3>. QED BY <1>5, <3>1 DEF RowsGood, Good, Alike, KeyOf
  <2>5. PassGood'
    BY <1>1, <1>5, <2>2, HeldStays DEF IInv, passVars, syncVars, Alike
  <2>. QED BY <1>3, <1>6, <1>7, <1>8, <2>4, <2>5 DEF IInv
<1>. QED BY <1>10, <1>11

\* So does the death of the API process.
LEMMA ApiCrashStep ==
    ASSUME IInv, ApiCrash, UNCHANGED <<taken, passVars, syncVars>>
    PROVE  IInv'
<1>1. UNCHANGED <<about, newPage, success, stamp, mails, out>> /\ crashes' = crashes + 1
  BY DEF ApiCrash
<1>2. \A q \in Requests : pc'[q] = pc[q] \/ pc'[q] = "error"
  BY DEF ApiCrash
<1>3. WebTypeOK /\ TypeOK
  BY DEF IInv, TypeOK
<1>4. WebTypeOK'
  BY <1>1, <1>3 DEF WebTypeOK, ApiCrash, Steps
<1>5. TypeOK'
  BY <1>1, <1>3, <1>4 DEF TypeOK, passVars, syncVars
<1>6. RequestsGood'
  BY <1>1, <1>2 DEF IInv, RequestsGood, RequestGood, MailOf
<1>7. RowsGood' /\ StampsGood' /\ TakenGood'
  BY <1>1 DEF IInv, RowsGood, Good, StampsGood, TakenGood, MailFor, Alike, KeyOf, PageOf
<1>8. PassGood'
  BY <1>1, <1>3, HeldStays DEF IInv, passVars, syncVars
<1>. QED BY <1>5, <1>6, <1>7, <1>8 DEF IInv

\* So does every step of the send worker, as far as it is known here.
LEMMA WorkerStepKeeps ==
    ASSUME IInv, NEW o \in OtherOwners, WorkerStep(o)
    PROVE  IInv'
<1>1. TypeOK /\ WebTypeOK /\ out \in Seq(Row)
  BY DEF IInv, TypeOK, WebTypeOK
<1>2. TypeOK'
  BY <1>1, WorkerTypes
<1>3. UNCHANGED <<pc, newPage>> /\ mails \subseteq mails'
  BY DEF WorkerStep, WorkerMarks, WorkerSends, WorkerRecords, WorkerStamps,
         WorkerFails
<1>4. RequestsGood'
  BY <1>3 DEF IInv, RequestsGood, RequestGood, MailOf
<1>5. UNCHANGED <<at, batch, entry, hit>> /\ UNCHANGED cands
  BY DEF WorkerStep, WorkerMarks, WorkerSends, WorkerRecords, WorkerStamps,
         WorkerFails, passVars, syncVars
<1>6. CASE WorkerMarks(o) \/ WorkerSends(o)
  <2>1. UNCHANGED <<stamp, out, taken>>
    BY <1>6 DEF WorkerMarks, WorkerSends
  <2>2. RowsGood' /\ StampsGood' /\ TakenGood'
    BY <1>3, <2>1 DEF IInv, RowsGood, Good, StampsGood, TakenGood, MailFor, Alike, KeyOf, PageOf
  <2>3. PassGood'
    BY <1>1, <1>3, <1>5, <2>1, HeldStays DEF IInv
  <2>. QED BY <1>2, <1>4, <2>2, <2>3 DEF IInv
<1>7. CASE WorkerRecords(o)
  <2>1. PICK m \in mails, crm \in {None, PageOf(o)} :
          /\ Alike(m, PageOf(o))
          /\ out' = Append(out, [page |-> PageOf(o), id |-> Sent(m), crm |-> crm])
          /\ taken' = [taken EXCEPT ![o] = m]
    BY <1>7 DEF WorkerRecords
  <2>. DEFINE new == [page |-> PageOf(o), id |-> Sent(m), crm |-> crm]
  <2>2. new \in Row
    BY <1>1, Naming DEF WebTypeOK, Row, Sent
  <2>3. /\ DOMAIN out = 1..Len(out) /\ DOMAIN out' = 1..(Len(out) + 1) /\ Len(out) \in Nat
        /\ \A i \in DOMAIN out : out'[i] = out[i]
        /\ out'[Len(out) + 1] = new
    BY <1>1, <2>1, <2>2, Appended
  <2>4. Good(new)
    BY <2>1, Naming DEF Good, Sent, Alike
  <2>5. RowsGood'
    <3>1. \A i \in DOMAIN out' : Good(out'[i])
      BY <2>3, <2>4 DEF IInv, RowsGood
    <3>. QED BY <1>3, <3>1 DEF RowsGood, Good, Alike, KeyOf
  <2>6. StampsGood'
    BY <1>3, <1>7 DEF WorkerRecords, IInv, StampsGood, MailFor, Alike, KeyOf
  <2>7. TakenGood'
    <3>1. \A p \in OtherOwners : taken'[p] = IF p = o THEN m ELSE taken[p]
      BY <1>1, <2>1 DEF TypeOK
    <3>. QED BY <1>3, <2>1, <3>1 DEF IInv, TakenGood, MailFor, Alike, KeyOf, PageOf
  <2>8. PassGood'
    BY <1>1, <1>3, <1>5, <2>3, HeldStays DEF IInv
  <2>. QED BY <1>2, <1>4, <2>5, <2>6, <2>7, <2>8 DEF IInv
<1>8. CASE WorkerStamps(o) \/ WorkerFails(o)
  <2>1. UNCHANGED <<mails, out>> /\ taken[o] # None
          /\ stamp' \in {stamp, Stamped(PageOf(o), taken[o])} /\ taken' = [taken EXCEPT ![o] = None]
    BY <1>8 DEF WorkerStamps, WorkerFails
  <2>2. RowsGood'
    BY <2>1 DEF IInv, RowsGood, Good, Alike, KeyOf
  <2>3. MailFor(taken[o], PageOf(o))
    BY <2>1 DEF IInv, TakenGood
  <2>4. StampsGood'
    BY <2>1, <2>3 DEF IInv, StampsGood, MailFor, Alike, KeyOf, Stamped
  <2>5. TakenGood'
    <3>1. \A p \in OtherOwners : taken'[p] = IF p = o THEN None ELSE taken[p]
      BY <1>1, <2>1 DEF TypeOK
    <3>. QED BY <2>1, <3>1 DEF IInv, TakenGood, MailFor, Alike, KeyOf, PageOf
  <2>6. PassGood'
    BY <1>1, <1>5, <2>1, HeldStays DEF IInv
  <2>. QED BY <1>2, <1>4, <2>2, <2>4, <2>5, <2>6 DEF IInv
<1>. QED BY <1>6, <1>7, <1>8 DEF WorkerStep

\* A bounce takes a row from Success, and changes nothing else that a script has read.
LEMMA BounceKeeps ==
    ASSUME IInv, NEW p \in success, Bounces(p)
    PROVE  IInv'
<1>1. /\ UNCHANGED <<pc, about, newPage, stamp, mails, out, crashes, taken>>
      /\ UNCHANGED <<at, resolve, visited, batch, entry, hit, outcome, passes, cands, syncs>>
      /\ success' \subseteq success /\ due' \subseteq due
  BY DEF Bounces, syncVars
<1>2. TypeOK /\ WebTypeOK /\ Len(out) \in Nat
  BY DEF IInv, TypeOK, WebTypeOK
<1>3. WebTypeOK'
  BY <1>1, <1>2 DEF WebTypeOK
<1>4. TypeOK'
  BY <1>1, <1>2, <1>3, ScriptTypes
<1>5. RequestsGood'
  BY <1>1 DEF IInv, RequestsGood, RequestGood, MailOf
<1>6. RowsGood' /\ StampsGood' /\ TakenGood'
  BY <1>1 DEF IInv, RowsGood, Good, StampsGood, TakenGood, MailFor, Alike, KeyOf, PageOf
<1>7. PassGood'
  BY <1>1, <1>2, HeldStays DEF IInv
<1>. QED BY <1>4, <1>5, <1>6, <1>7 DEF IInv

\* A step of the backfill that writes nothing leaves all but its own notes alone.
LEMMA StoresStay ==
    ASSUME IInv, UNCHANGED <<webVars, taken, syncVars>>
    PROVE  RequestsGood' /\ RowsGood' /\ StampsGood' /\ TakenGood' /\ CandsGood'
<1>1. UNCHANGED <<pc, newPage, stamp, mails, out, cands, taken>>
  BY DEF webVars, syncVars
<1>2. RequestsGood' /\ StampsGood' /\ TakenGood'
  BY <1>1 DEF IInv, RequestsGood, RequestGood, StampsGood, TakenGood, MailFor, Alike, KeyOf,
              MailOf, PageOf
<1>3. RowsGood' /\ CandsGood'
  BY <1>1 DEF IInv, RowsGood, Good, PassGood, CandsGood, Alike, KeyOf
<1>. QED BY <1>2, <1>3

\* A row that is found under the entry's Notion row, or under its mail, is of its kind.
LEMMA SelectStep ==
    ASSUME IInv, at \in {"bypage", "bygraph"}, NEW otherwise \in {"bygraph", "write"},
           NEW found \in SUBSET DOMAIN out, Select(found, otherwise),
           \A i \in found : out[i].page = entry.page \/ out[i].id = entry.id
    PROVE  IInv'
<1>1. TypeOK'
  BY SelectTypes DEF IInv
<1>2. UNCHANGED <<webVars, taken, syncVars>>
  BY DEF Select, others
<1>3. UNCHANGED <<mails, out>>
  BY <1>2 DEF webVars
<1>5. CASE End("failed")
  <2>1. BatchGood' /\ EntryGood' /\ HitGood'
    BY <1>5 DEF End, BatchGood, EntryGood, HitGood
  <2>. QED BY <1>1, <1>2, <2>1, StoresStay DEF IInv, PassGood
<1>6. CASE UNCHANGED <<batch, entry>> /\ (hit' = 0 \/ hit' \in found)
  <2>1. BatchGood' /\ EntryGood'
    BY <1>3, <1>6 DEF IInv, PassGood, BatchGood, EntryGood, MailFor, Good, Alike, KeyOf
  <2>2. HitGood'
    <3>. SUFFICES ASSUME hit' # 0, out[hit'].page # None
                  PROVE  Alike(entry.page, out[hit'].page)
      BY <1>3, <1>6 DEF HitGood, Alike, KeyOf
    <3>1. hit' \in found /\ hit' \in DOMAIN out
      BY <1>6
    <3>2. Good(out[hit'])
      BY <3>1 DEF IInv, RowsGood
    <3>3. CASE out[hit'].page = entry.page
      BY <3>3 DEF Alike
    <3>4. CASE out[hit'].id = entry.id
      <4>1. entry # None /\ entry.page # None
        BY Naming DEF IInv, TypeOK
      <4>2. Alike(entry.id.of, entry.page)
        BY <4>1 DEF IInv, PassGood, EntryGood, Good
      <4>3. Alike(out[hit'].id.of, out[hit'].page)
        BY <3>2 DEF Good
      <4>. QED BY <3>4, <4>2, <4>3 DEF Alike
    <3>. QED BY <3>1, <3>3, <3>4
  <2>. QED BY <1>1, <1>2, <2>1, <2>2, StoresStay DEF IInv, PassGood
<1>. QED BY <1>5, <1>6 DEF Select

\* The write puts a good entry in the place of a row of its kind, or at the end.
LEMMA WriteStep == ASSUME IInv, Write PROVE IInv'
<1>1. TypeOK /\ TypeOK' /\ out \in Seq(Row) /\ entry \in Row /\ entry.page \in Names /\ at = "write"
  BY PassTypes DEF IInv, TypeOK, WebTypeOK, Write, PassStep
<1>2. UNCHANGED <<pc, newPage, stamp, mails, taken, cands>>
  BY DEF Write, syncVars
<1>3. RequestsGood' /\ StampsGood' /\ TakenGood'
  BY <1>2 DEF IInv, RequestsGood, RequestGood, StampsGood, TakenGood, MailFor, Alike, KeyOf,
              MailOf, PageOf
<1>4. at' # "write" /\ entry' = None
  BY DEF Write, End
<1>5. batch' = batch \/ batch' = {}
  BY DEF Write, End
<1>6. BatchGood' /\ EntryGood' /\ HitGood'
  BY <1>2, <1>4, <1>5 DEF IInv, PassGood, BatchGood, EntryGood, HitGood, MailFor, Alike, KeyOf
<1>7. entry # None /\ entry.page # None
  BY <1>1, Naming DEF IInv, TypeOK
<1>8. Good(entry)
  BY <1>7 DEF IInv, PassGood, EntryGood
<1>9. DOMAIN out = 1..Len(out) /\ Len(out) \in Nat /\ hit \in 0..Len(out)
  BY <1>1 DEF TypeOK
<1>10. cands \subseteq (DOMAIN out) \X Names
  BY <1>1, <1>9 DEF TypeOK
<1>11. CASE out' = out
  <2>1. RowsGood' /\ CandsGood'
    BY <1>2, <1>11 DEF IInv, RowsGood, Good, PassGood, CandsGood, Alike, KeyOf
  <2>. QED BY <1>1, <1>3, <1>6, <2>1 DEF IInv, PassGood
<1>12. CASE out' = Append(out, entry)
  <2>1. /\ DOMAIN out' = 1..(Len(out) + 1) /\ \A i \in DOMAIN out : out'[i] = out[i]
        /\ out'[Len(out) + 1] = entry
    BY <1>1, <1>12, Appended
  <2>2. \A i \in DOMAIN out' : Good(out'[i])
    BY <1>8, <1>9, <2>1 DEF IInv, RowsGood
  <2>3. RowsGood'
    BY <1>2, <2>2 DEF RowsGood, Good, Alike, KeyOf
  <2>4. CandsGood'
    BY <1>2, <1>10, <2>1 DEF IInv, PassGood, CandsGood, Alike, KeyOf
  <2>. QED BY <1>1, <1>3, <1>6, <2>3, <2>4 DEF IInv, PassGood
<1>13. CASE hit # 0 /\ out' = [out EXCEPT ![hit] = entry]
  <2>1. hit \in DOMAIN out
    BY <1>9, <1>13
  <2>2. /\ DOMAIN out' = DOMAIN out
        /\ \A i \in DOMAIN out : out'[i] = IF i = hit THEN entry ELSE out[i]
    BY <1>1, <1>13, <2>1, Updated
  <2>3. RowsGood'
    <3>1. \A i \in DOMAIN out' : Good(out'[i])
      BY <1>8, <2>2 DEF IInv, RowsGood
    <3>. QED BY <1>2, <3>1 DEF RowsGood, Good, Alike, KeyOf
  <2>4. out[hit].page # None => Alike(entry.page, out[hit].page)
    BY <1>1, <1>13 DEF IInv, PassGood, HitGood
  <2>5. CandsGood'
    <3>. SUFFICES ASSUME NEW c \in cands
                  PROVE  out'[c[1]].page # None /\ Alike(c[2], out'[c[1]].page)
      BY <1>2 DEF CandsGood, Alike, KeyOf
    <3>1. c[1] \in DOMAIN out /\ out[c[1]].page # None /\ Alike(c[2], out[c[1]].page)
      BY <1>10 DEF IInv, PassGood, CandsGood
    <3>. QED BY <1>7, <2>2, <2>4, <3>1 DEF Alike
  <2>. QED BY <1>1, <1>3, <1>6, <2>3, <2>5 DEF IInv, PassGood
<1>. QED BY <1>11, <1>12, <1>13 DEF Write, Upsert

\* So does every other step of the backfill.
LEMMA PassStepKeeps == ASSUME IInv, BeginPass \/ PassStep PROVE IInv'
<1>1. TypeOK'
  BY PassTypes DEF IInv
<1>2. ASSUME UNCHANGED <<webVars, taken, syncVars>>, at' # "write",
             BatchGood', EntryGood'
      PROVE  IInv'
  <2>1. HitGood'
    BY <1>2 DEF HitGood
  <2>. QED BY <1>1, <1>2, <2>1, StoresStay DEF IInv, PassGood
<1>3. ASSUME UNCHANGED mails, batch' \subseteq batch PROVE BatchGood'
  BY <1>3 DEF IInv, PassGood, BatchGood, MailFor, Alike, KeyOf
<1>4. ASSUME UNCHANGED mails, entry' \in {entry, None} PROVE EntryGood'
  BY <1>4 DEF IInv, PassGood, EntryGood, Good, Alike, KeyOf
<1>5. CASE BeginPass
  BY <1>2, <1>3, <1>4, <1>5 DEF BeginPass, others, webVars
<1>6. CASE Query
  <2>1. UNCHANGED <<webVars, taken, syncVars>> /\ at' # "write" /\ UNCHANGED <<mails, stamp>>
    BY <1>6 DEF Query, others, End, webVars
  <2>2. EntryGood'
    BY <1>4, <1>6, <2>1 DEF Query, End
  <2>3. BatchGood'
    <3>1. CASE batch' = {}
      BY <3>1 DEF BatchGood
    <3>2. CASE batch' # {}
      <4>1. PICK B \in SUBSET success : batch' = {<<p, Graph(p)>> : p \in B}
        BY <1>6, <3>2 DEF Query, End
      <4>2. ASSUME NEW b \in batch', b[2] # None PROVE MailFor(b[2], b[1])
        <5>1. PICK p \in B : b = <<p, Graph(p)>>
          BY <4>1, <4>2
        <5>2. PICK s \in stamp : s[1] = p /\ b[2] = s[2]
          BY <4>2, <5>1 DEF Graph
        <5>. QED BY <5>1, <5>2 DEF IInv, StampsGood, MailFor
      <4>. QED BY <2>1, <4>2 DEF BatchGood, MailFor, Alike, KeyOf
    <3>. QED BY <3>1, <3>2
  <2>. QED BY <1>2, <2>1, <2>2, <2>3
<1>7. CASE NextRow
  <2>1. /\ UNCHANGED <<webVars, taken, syncVars>> /\ UNCHANGED mails
        /\ at' # "write" /\ batch' \subseteq batch
    BY <1>7 DEF NextRow, others, webVars
  <2>2. ASSUME NEW b \in batch, NEW crm \in CrmOf(b[1]),
               entry' = [page |-> b[1], crm |-> crm,
                         id |-> IF b[2] = None THEN Legacy(b[1]) ELSE Sent(b[2])]
        PROVE  EntryGood'
    <3>1. b[1] # None /\ (b[2] # None => MailFor(b[2], b[1]))
      BY Naming DEF IInv, TypeOK, PassGood, BatchGood
    <3>2. Good(entry')
      BY <2>2, <3>1 DEF Good, Legacy, Sent, CrmOf, MailFor, Alike
    <3>. QED BY <2>1, <3>2 DEF EntryGood, Good, Alike, KeyOf
  <2>3. EntryGood'
    BY <1>4, <1>7, <2>1, <2>2 DEF NextRow
  <2>. QED BY <1>2, <1>3, <2>1, <2>3
<1>8. CASE Lookup
  <2>1. /\ UNCHANGED <<webVars, taken, syncVars, batch>> /\ UNCHANGED mails
        /\ at = "lookup" /\ at' # "write"
    BY <1>8 DEF Lookup, others, webVars
  <2>2. ASSUME NEW m \in mails, Alike(m, entry.page), entry' = WithId(Sent(m))
        PROVE  EntryGood'
    <3>1. entry # None
      BY <2>1, Naming DEF IInv, TypeOK
    <3>2. Good(entry)
      BY <3>1 DEF IInv, PassGood, EntryGood
    <3>3. Good(entry')
      BY <2>2, <3>2 DEF Good, WithId, Sent
    <3>. QED BY <2>1, <3>3 DEF EntryGood, Good, Alike, KeyOf
  <2>3. EntryGood'
    BY <1>4, <1>8, <2>1, <2>2 DEF Lookup
  <2>. QED BY <1>2, <1>3, <2>1, <2>3
<1>9. CASE SelectByPage
  BY <1>9, SelectStep DEF SelectByPage
<1>10. CASE SelectByGraph
  BY <1>10, SelectStep DEF SelectByGraph
<1>11. CASE Write
  BY <1>11, WriteStep
<1>. QED BY <1>5, <1>6, <1>7, <1>8, <1>9, <1>10, <1>11 DEF PassStep

\* So does every step of the CRM script, which writes a row back under the Notion row and
\* the mail it has by then.
LEMMA SyncStep ==
    ASSUME IInv, BeginSync \/ \E c \in cands : SyncRow(c)
    PROVE  IInv'
<1>1. TypeOK /\ TypeOK' /\ out \in Seq(Row)
  BY SyncTypes DEF IInv, TypeOK, WebTypeOK
<1>2. UNCHANGED <<pc, newPage, stamp, mails, taken, at, batch, entry, hit>>
  BY DEF BeginSync, SyncRow, webVars, passVars
<1>3. RequestsGood' /\ StampsGood' /\ TakenGood'
  BY <1>2 DEF IInv, RequestsGood, RequestGood, StampsGood, TakenGood, MailFor, Alike, KeyOf,
              MailOf, PageOf
<1>4. DOMAIN out = 1..Len(out) /\ hit \in 0..Len(out) /\ cands \subseteq (DOMAIN out) \X Names
  BY <1>1 DEF TypeOK
<1>5. CASE BeginSync
  <2>1. UNCHANGED out
    BY <1>5 DEF BeginSync, webVars
  <2>2. RowsGood'
    BY <1>2, <2>1 DEF IInv, RowsGood, Good, Alike, KeyOf
  <2>3. \A c \in cands' : out[c[1]].page # None /\ c[2] = out[c[1]].page
    BY <1>5 DEF BeginSync, Candidates
  <2>4. CandsGood'
    BY <2>1, <2>3 DEF CandsGood, Alike, KeyOf
  <2>5. BatchGood' /\ EntryGood' /\ HitGood'
    BY <1>2, <2>1 DEF IInv, PassGood, BatchGood, EntryGood, HitGood, MailFor, Good, Alike, KeyOf
  <2>. QED BY <1>1, <1>3, <2>2, <2>4, <2>5 DEF IInv, PassGood
<1>6. ASSUME NEW c \in cands, SyncRow(c) PROVE IInv'
  <2>. DEFINE new == [page |-> out[c[1]].page, id |-> out[c[1]].id, crm |-> c[2]]
  <2>1. c[1] \in DOMAIN out /\ new \in Row /\ cands' \subseteq cands
    BY <1>1, <1>6, SyncTyped DEF SyncRow
  <2>2. out' = out \/ out' = [out EXCEPT ![c[1]] = new]
    BY <1>6 DEF SyncRow
  <2>3. /\ DOMAIN out' = DOMAIN out
        /\ \A i \in DOMAIN out : out'[i] = out[i] \/ (i = c[1] /\ out'[i] = new)
    BY <1>1, <2>1, <2>2, Updated
  <2>4. out[c[1]].page # None /\ Alike(c[2], out[c[1]].page) /\ Good(out[c[1]])
    BY <2>1 DEF IInv, PassGood, CandsGood, RowsGood
  <2>5. Good(new)
    BY <2>4 DEF Good
  <2>6. \A i \in DOMAIN out' : Good(out'[i])
    BY <2>3, <2>5 DEF IInv, RowsGood
  <2>7. RowsGood'
    BY <1>2, <2>6 DEF RowsGood, Good, Alike, KeyOf
  <2>8. \A i \in DOMAIN out : out'[i].page = out[i].page
    BY <2>3
  <2>9. PassGood'
    BY <1>1, <1>2, <2>1, <2>3, <2>8, HeldStays DEF IInv
  <2>. QED BY <1>1, <1>3, <2>7, <2>9 DEF IInv
<1>. QED BY <1>5, <1>6

-----------------------------------------------------------------------------
\* At the start outbound_messages is empty, and the Notion rows of the past name their own
\* mails.
LEMMA InitIInv == Init => IInv
<1>. SUFFICES ASSUME Init PROVE IInv
  OBVIOUS
<1>. USE Naming DEF Init, WebInit
<1>1. PICK past \in SUBSET OtherOwners, ours \in SUBSET OtherOwners :
        /\ ours \subseteq past
        /\ success = {PageOf(o) : o \in past}
        /\ mails = {PageOf(o) : o \in past}
        /\ stamp = {<<PageOf(o), PageOf(o)>> : o \in ours}
  OBVIOUS
<1>2. success \subseteq Names /\ mails \subseteq Names /\ stamp \subseteq Names \X Names
  BY <1>1
<1>3. WebTypeOK
  BY <1>2 DEF WebTypeOK, Steps
<1>4. TypeOK
  <2>1. hit \in 0..Len(out)
    BY DEF Init
  <2>2. taken \in [OtherOwners -> Names \cup {None}] /\ at \in Places
    BY DEF Places
  <2>3. /\ at = "off" /\ resolve \in BOOLEAN
        /\ entry \in Row \cup {None} /\ outcome \in {"none", "done", "failed"}
    OBVIOUS
  <2>4. /\ due \subseteq Names /\ visited \subseteq Names
        /\ batch \subseteq Names \X (Names \cup {None})
          /\ cands \subseteq (1..Len(out)) \X Names
    OBVIOUS
  <2>5. passes \in Nat /\ syncs \in Nat
    OBVIOUS
  <2>. QED BY <1>3, <2>1, <2>2, <2>3, <2>4, <2>5 DEF TypeOK
<1>5. StampsGood
  BY <1>1 DEF StampsGood, MailFor, Alike
<1>6. RequestsGood /\ RowsGood /\ TakenGood /\ PassGood
  BY DEF RequestsGood, RequestGood, RowsGood, TakenGood, PassGood, BatchGood, EntryGood,
         HitGood, CandsGood
<1>. QED BY <1>4, <1>5, <1>6 DEF IInv

LEMMA NextIInv == IInv /\ [Next]_vars => IInv'
<1>. SUFFICES ASSUME IInv, [Next]_vars PROVE IInv'
  OBVIOUS
<1>1. CASE UNCHANGED vars
  <2>1. UNCHANGED <<webVars, taken, syncVars, passVars>>
    BY <1>1 DEF vars
  <2>2. UNCHANGED <<mails, out, at, batch, entry, hit>>
    BY <2>1 DEF webVars, passVars
  <2>3. TypeOK'
    BY <2>1 DEF IInv, TypeOK, WebTypeOK, webVars, passVars, syncVars
  <2>4. BatchGood' /\ EntryGood' /\ HitGood'
    BY <2>2 DEF IInv, PassGood, BatchGood, EntryGood, HitGood, MailFor, Good, Alike, KeyOf
  <2>. QED BY <2>1, <2>3, <2>4, StoresStay DEF IInv, PassGood
<1>. QED BY <1>1, RequestStep, ApiCrashStep, WorkerStepKeeps, BounceKeeps, PassStepKeeps,
     SyncStep
     DEF Next

LEMMA IInvAlways == Spec => []IInv
BY InitIInv, NextIInv, PTL DEF Spec

-----------------------------------------------------------------------------
(* The cover of a pass.  A row that it ought to cover and has visited is not   *)
(* lost between the query and outbound_messages: it stands in the page, or it  *)
(* is the entry at work, or a row of its kind is there.  Rows may be updated    *)
(* by others, and the entry's row found under another Notion row, but never     *)
(* under one of another kind (RowsStayConsistent).                             *)

\* outbound_messages has a row for a Notion row of this kind.
Covered(p) == \E i \in DOMAIN out : out[i].page # None /\ Alike(out[i].page, p)

\* The pass holds p, and will write an entry for it.
Pending(p) == \E b \in batch : b[1] = p /\ Usable(p, b[2])
AtWork(p) == entry # None /\ entry.page = p

\* The rows to cover stay at Success, or are struck off; the script can use them still.
DueInv ==
    /\ due \subseteq success
    /\ \A p \in due : Usable(p, Graph(p))

\* Between the pages, and after the pass, nothing is held.
HeldInv ==
    /\ at \in {"off", "query"} => batch = {}
    /\ at \in {"off", "query", "next"} => entry = None

NoneIsLost ==
    at # "off" => \A p \in due \cap visited : Pending(p) \/ AtWork(p) \/ Covered(p)

DoneCovers ==
    outcome = "done" => at = "off" /\ \A p \in due : Covered(p)

CoverInv == DueInv /\ HeldInv /\ NoneIsLost /\ DoneCovers

\* Whether a Payload has a _graph.
LEMMA GraphIsNone ==
    ASSUME WebTypeOK, NEW p
    PROVE  Graph(p) = None <=> \A s \in stamp : s[1] # p
BY Naming DEF Graph, WebTypeOK

\* Rows of the kind of p stay, as long as rows keep their place and their Notion row.
LEMMA CoveredStays ==
    ASSUME DOMAIN out \subseteq DOMAIN out',
           \A i \in DOMAIN out : out'[i].page = out[i].page
    PROVE  \A p : Covered(p) => Covered(p)'
BY DEF Covered, Alike, KeyOf

\* The rows to cover remain so when Payloads are stamped and rows come to read Success.
LEMMA DueStays ==
    ASSUME IInv, IInv', DueInv, due' \subseteq due, due' \subseteq success',
           \A s \in stamp : \E t \in stamp' : t[1] = s[1]
    PROVE  DueInv'
<1>1. WebTypeOK /\ WebTypeOK'
  BY DEF IInv, TypeOK
<1>2. ASSUME NEW p \in due' PROVE Usable(p, Graph(p))'
  <2>1. Usable(p, Graph(p)) /\ p[1] \in Readable
    BY <1>2, BackfillAssumption DEF DueInv, Usable
  <2>2. CASE Graph(p)' = None
    <3>1. \A s \in stamp' : s[1] # p
      BY <1>1, <2>2, Naming DEF Graph, WebTypeOK
    <3>2. Graph(p) = None
      BY <1>1, <3>1, GraphIsNone
    <3>. QED BY <2>1, <2>2, <3>2 DEF Usable
  <2>3. CASE Graph(p)' # None
    BY <2>1, <2>3 DEF Usable
  <2>. QED BY <2>2, <2>3
<1>. QED BY <1>2 DEF DueInv

\* The others leave a pass its notes, and the rows that it counts on.
LEMMA OthersKeepCover ==
    ASSUME IInv, IInv', CoverInv, UNCHANGED <<at, visited, batch, entry, outcome>>,
           due' \subseteq due, due' \subseteq success',
           \A s \in stamp : \E t \in stamp' : t[1] = s[1],
           DOMAIN out \subseteq DOMAIN out',
           \A i \in DOMAIN out : out'[i].page = out[i].page
    PROVE  CoverInv'
<1>1. DueInv'
  BY DueStays DEF CoverInv
<1>2. HeldInv'
  BY DEF CoverInv, HeldInv
<1>3. \A p : Covered(p) => Covered(p)'
  BY CoveredStays
<1>4. NoneIsLost'
  BY <1>3 DEF CoverInv, NoneIsLost, Pending, AtWork, Usable
<1>5. DoneCovers'
  BY <1>3 DEF CoverInv, DoneCovers
<1>. QED BY <1>1, <1>2, <1>4, <1>5 DEF CoverInv

\* Appending leaves the rows there are.
LEMMA AppendKeepsRows ==
    ASSUME out \in Seq(Row), NEW new \in Row, out' = Append(out, new)
    PROVE  DOMAIN out \subseteq DOMAIN out' /\ \A i \in DOMAIN out : out'[i].page = out[i].page
BY Appended

\* A stamp may take the place of another, of the same row.
LEMMA StampedKeeps ==
    ASSUME NEW p, NEW m, NEW s \in stamp
    PROVE  \E t \in Stamped(p, m) : t[1] = s[1]
<1>1. CASE s[1] = p
  <2>1. <<p, m>> \in Stamped(p, m) /\ <<p, m>>[1] = p
    BY DEF Stamped
  <2>. QED BY <1>1, <2>1
<1>2. CASE s[1] # p
  BY <1>2 DEF Stamped
<1>. QED BY <1>1, <1>2

\* What the others write to outbound_messages leaves the rows there are, under their Notion
\* rows.
RowsStay == DOMAIN out \subseteq DOMAIN out' /\ \A i \in DOMAIN out : out'[i].page = out[i].page

LEMMA RequestRows ==
    ASSUME IInv, NEW q \in Requests, Handler(q) \/ \E m \in Msgs : Post(q, m)
    PROVE  RowsStay
<1>. DEFINE new == [page |-> newPage[q], id |-> Sent(MailOf(q)), crm |-> None]
<1>1. WebTypeOK /\ out \in Seq(Row) /\ new \in Row
  BY RecordTyped DEF IInv, TypeOK, WebTypeOK
<1>2. out' = out \/ out' = Append(out, new)
  BY DEF Handler, Post, Find, CreatePage, SendReply, Stamp, Verify, Record
<1>. QED BY <1>1, <1>2, AppendKeepsRows DEF RowsStay

LEMMA WorkerRows ==
    ASSUME IInv, NEW o \in OtherOwners, WorkerStep(o)
    PROVE  RowsStay
<1>1. WebTypeOK /\ out \in Seq(Row)
  BY DEF IInv, TypeOK, WebTypeOK
<1>2. CASE out' = out
  BY <1>2 DEF RowsStay
<1>3. CASE out' # out
  <2>1. PICK m \in mails, crm \in {None, PageOf(o)} :
          out' = Append(out, [page |-> PageOf(o), id |-> Sent(m), crm |-> crm])
    BY <1>3 DEF WorkerStep, WorkerMarks, WorkerSends, WorkerRecords, WorkerStamps, WorkerFails
  <2>2. [page |-> PageOf(o), id |-> Sent(m), crm |-> crm] \in Row
    BY <1>1, Naming DEF WebTypeOK, Row, Sent
  <2>. QED BY <1>1, <2>1, <2>2, AppendKeepsRows DEF RowsStay
<1>. QED BY <1>2, <1>3

LEMMA SyncRows ==
    ASSUME IInv, BeginSync \/ \E c \in cands : SyncRow(c)
    PROVE  RowsStay
<1>1. CASE BeginSync
  BY <1>1 DEF BeginSync, webVars, RowsStay
<1>2. ASSUME NEW c \in cands, SyncRow(c) PROVE RowsStay
  <2>. DEFINE new == [page |-> out[c[1]].page, id |-> out[c[1]].id, crm |-> c[2]]
  <2>1. out' = out \/ out' = [out EXCEPT ![c[1]] = new]
    BY <1>2 DEF SyncRow
  <2>. QED BY <2>1, SyncTyped, Updated DEF IInv, RowsStay
<1>. QED BY <1>1, <1>2

\* A request adds rows and stamps, and takes nothing from what the pass counts on.
LEMMA RequestCovers ==
    ASSUME IInv, IInv', CoverInv, NEW q \in Requests, Handler(q) \/ \E m \in Msgs : Post(q, m),
           UNCHANGED <<taken, passVars, syncVars>>
    PROVE  CoverInv'
<1>1. success \subseteq success' /\ due \subseteq success
  BY DEF Handler, Post, Find, CreatePage, SendReply, Stamp, Verify, Record, CoverInv, DueInv
<1>2. stamp' = stamp \/ stamp' = Stamped(newPage[q], MailOf(q))
  BY DEF Handler, Post, Find, CreatePage, SendReply, Stamp, Verify, Record
<1>3. \A s \in stamp : \E t \in stamp' : t[1] = s[1]
  BY <1>2, StampedKeeps
<1>. QED BY <1>1, <1>3, RequestRows, OthersKeepCover DEF passVars, RowsStay

\* So does the send worker, but for the row it sends again, which is struck off.
LEMMA WorkerCovers ==
    ASSUME IInv, IInv', CoverInv, NEW o \in OtherOwners, WorkerStep(o)
    PROVE  CoverInv'
<1>. USE DEF WorkerStep, WorkerMarks, WorkerSends, WorkerRecords, WorkerStamps, WorkerFails
<1>1. due \subseteq success
  BY DEF CoverInv, DueInv
<1>2. UNCHANGED <<at, visited, batch, entry, outcome>>
  BY DEF passVars
<1>3. due' \subseteq due /\ due' \subseteq success'
  BY <1>1 DEF passVars
<1>4. stamp' = stamp \/ stamp' = Stamped(PageOf(o), taken[o])
  OBVIOUS
<1>5. \A s \in stamp : \E t \in stamp' : t[1] = s[1]
  BY <1>4, StampedKeeps
<1>. QED BY <1>2, <1>3, <1>5, WorkerRows, OthersKeepCover DEF RowsStay

\* A row whose mail bounced is struck off.
LEMMA BounceCovers ==
    ASSUME IInv, IInv', CoverInv, NEW p \in success, Bounces(p)
    PROVE  CoverInv'
<1>1. UNCHANGED <<at, visited, batch, entry, outcome, stamp, out>>
  BY DEF Bounces
<1>2. due' \subseteq due /\ due' \subseteq success'
  BY DEF Bounces, CoverInv, DueInv
<1>. QED BY <1>1, <1>2, OthersKeepCover

\* The CRM script changes CRM columns only.
LEMMA SyncCovers ==
    ASSUME IInv, IInv', CoverInv, BeginSync \/ \E c \in cands : SyncRow(c)
    PROVE  CoverInv'
<1>1. UNCHANGED <<at, visited, batch, entry, outcome, due, success, stamp>>
  BY DEF BeginSync, SyncRow, webVars, passVars
<1>2. due \subseteq success
  BY DEF CoverInv, DueInv
<1>. QED BY <1>1, <1>2, SyncRows, OthersKeepCover DEF RowsStay

\* A step of the backfill that writes nothing takes no row and no stamp away.
LEMMA PassKeepsDue ==
    ASSUME IInv, IInv', CoverInv, PassStep
    PROVE  DueInv' /\ UNCHANGED <<due, success, stamp>>
<1>1. UNCHANGED <<due, success, stamp>>
  BY DEF PassStep, Query, NextRow, Lookup, SelectByPage, SelectByGraph, Select, Write, others,
         passInputs, webVars
<1>2. due' \subseteq success'
  BY <1>1 DEF CoverInv, DueInv
<1>. QED BY <1>1, <1>2, DueStays DEF CoverInv

\* After a pass that has failed nothing is promised.
LEMMA FailureCovers ==
    ASSUME DueInv', End("failed")
    PROVE  CoverInv'
BY DEF CoverInv, End, HeldInv, NoneIsLost, DoneCovers

\* A new pass has visited nothing.
LEMMA BeginCovers == ASSUME IInv, IInv', CoverInv, BeginPass PROVE CoverInv'
<1>1. /\ at = "off" /\ at' = "query" /\ visited' = {} /\ outcome' = "none"
      /\ UNCHANGED <<batch, entry, success, stamp>>
      /\ due' = {p \in success : Usable(p, Graph(p))}
  BY DEF BeginPass, others, webVars
<1>2. DueInv'
  BY <1>1 DEF DueInv, Usable, Graph
<1>. QED BY <1>1, <1>2 DEF CoverInv, HeldInv, NoneIsLost, DoneCovers

\* A query puts the rows to cover in its page, with what their Payloads hold; the last one
\* finds that all of them have been visited, when nothing is held any more.
LEMMA QueryCovers == ASSUME IInv, IInv', CoverInv, Query PROVE CoverInv'
<1>1. at = "query" /\ batch = {} /\ entry = None /\ UNCHANGED <<out, due>>
  BY DEF Query, others, passInputs, webVars, CoverInv, HeldInv
<1>2. DueInv'
  BY PassKeepsDue DEF PassStep
<1>3. \A p \in due \cap visited : Covered(p)
  BY <1>1 DEF CoverInv, NoneIsLost, Pending, AtWork
<1>4. \A p : Covered(p) => Covered(p)'
  BY <1>1 DEF Covered, Alike, KeyOf
<1>5. CASE End("failed")
  BY <1>2, <1>5, FailureCovers
<1>6. CASE (due \cap success) \subseteq visited /\ End("done")
  <2>1. \A p \in due : Covered(p)
    BY <1>3, <1>6 DEF CoverInv, DueInv
  <2>. QED BY <1>1, <1>2, <1>4, <1>6, <2>1 DEF CoverInv, End, HeldInv, NoneIsLost, DoneCovers
<1>7. CASE /\ \E B \in SUBSET (success \ visited) :
                /\ batch' = {<<p, Graph(p)>> : p \in B}
                /\ visited' = visited \cup B
           /\ at' = "next"
           /\ UNCHANGED <<entry, hit, outcome>>
  <2>1. PICK B \in SUBSET (success \ visited) :
          batch' = {<<p, Graph(p)>> : p \in B} /\ visited' = visited \cup B
    BY <1>7
  <2>2. ASSUME NEW p \in due, p \in visited' PROVE Pending(p)' \/ Covered(p)'
    <3>1. CASE p \in visited
      BY <1>3, <1>4, <2>2, <3>1
    <3>2. CASE p \in B
      <4>. DEFINE b == <<p, Graph(p)>>
      <4>1. b \in batch' /\ b[1] = p /\ b[2] = Graph(p)
        BY <2>1, <3>2
      <4>2. Usable(p, b[2])
        BY <2>2, <4>1 DEF CoverInv, DueInv
      <4>3. \E c \in batch' : c[1] = p /\ Usable(p, c[2])
        BY <4>1, <4>2
      <4>. QED BY <4>3 DEF Pending, Usable
    <3>. QED BY <2>1, <2>2, <3>1, <3>2
  <2>3. NoneIsLost'
    BY <1>1, <2>2 DEF NoneIsLost
  <2>4. HeldInv' /\ DoneCovers'
    BY <1>1, <1>7 DEF CoverInv, HeldInv, DoneCovers
  <2>. QED BY <1>2, <2>3, <2>4 DEF CoverInv
<1>. QED BY <1>5, <1>6, <1>7 DEF Query

\* A row leaves the page to be the entry at work, unless the script cannot use it.
LEMMA NextRowCovers == ASSUME IInv, IInv', CoverInv, NextRow PROVE CoverInv'
<1>1. at = "next" /\ entry = None /\ UNCHANGED <<out, due, visited, outcome>>
  BY DEF NextRow, others, passInputs, webVars, CoverInv, HeldInv
<1>2. DueInv'
  BY PassKeepsDue DEF PassStep
<1>3. \A p : Covered(p) => Covered(p)'
  BY <1>1 DEF Covered, Alike, KeyOf
<1>4. outcome # "done" /\ DoneCovers'
  BY <1>1 DEF CoverInv, DoneCovers
<1>5. CASE batch = {} /\ at' = "query" /\ UNCHANGED <<batch, entry>>
  <2>1. NoneIsLost' /\ HeldInv'
    BY <1>1, <1>3, <1>5 DEF CoverInv, NoneIsLost, HeldInv, Pending, AtWork
  <2>. QED BY <1>2, <1>4, <2>1 DEF CoverInv
<1>6. ASSUME NEW b \in batch, batch' = batch \ {b},
             IF Usable(b[1], b[2])
             THEN /\ at' \in {"lookup", "bypage"}
                  /\ entry' # None /\ entry'.page = b[1]
             ELSE at' = "next" /\ entry' = None
      PROVE  CoverInv'
  <2>1. ASSUME NEW p \in due \cap visited PROVE Pending(p)' \/ AtWork(p)' \/ Covered(p)'
    <3>1. CASE Covered(p)
      BY <1>3, <3>1
    <3>2. CASE Pending(p)
      <4>1. PICK c \in batch : c[1] = p /\ Usable(p, c[2])
        BY <3>2 DEF Pending
      <4>2. CASE c = b
        BY <1>6, <4>1, <4>2 DEF AtWork
      <4>3. CASE c # b
        <5>1. c \in batch'
          BY <1>6, <4>3
        <5>. QED BY <4>1, <5>1 DEF Pending, Usable
      <4>. QED BY <4>2, <4>3
    <3>. QED BY <1>1, <2>1, <3>1, <3>2 DEF CoverInv, NoneIsLost, AtWork
  <2>2. NoneIsLost'
    BY <1>1, <2>1 DEF NoneIsLost
  <2>3. HeldInv'
    BY <1>6 DEF HeldInv
  <2>. QED BY <1>2, <1>4, <2>2, <2>3 DEF CoverInv
<1>7. ASSUME NEW b \in batch, NEW crm \in CrmOf(b[1]),
             entry' = [page |-> b[1], crm |-> crm,
                       id |-> IF b[2] = None THEN Legacy(b[1]) ELSE Sent(b[2])],
             at' = IF resolve /\ b[2] = None THEN "lookup" ELSE "bypage"
      PROVE  entry' # None /\ entry'.page = b[1]
  <2>1. entry' \in Row \cup {None} /\ (at' \in {"lookup", "bypage"} => entry' \in Row)
    BY DEF IInv, TypeOK
  <2>2. entry' \in Row
    BY <1>7, <2>1
  <2>. QED BY <1>7, <2>2, Naming
<1>. QED BY <1>5, <1>6, <1>7 DEF NextRow

\* A search changes no more of the entry than its id.
LEMMA LookupCovers == ASSUME IInv, IInv', CoverInv, Lookup PROVE CoverInv'
<1>1. /\ at = "lookup" /\ at' = "bypage" /\ entry # None /\ entry' # None
      /\ UNCHANGED <<out, due, visited, batch, outcome>>
  BY Naming DEF Lookup, others, passInputs, webVars, IInv, TypeOK
<1>2. entry'.page = entry.page
  BY DEF Lookup, WithId
<1>3. DueInv'
  BY PassKeepsDue DEF PassStep
<1>4. \A p : Covered(p) => Covered(p)'
  BY <1>1 DEF Covered, Alike, KeyOf
<1>5. NoneIsLost'
  BY <1>1, <1>2, <1>4 DEF CoverInv, NoneIsLost, Pending, AtWork, Usable
<1>. QED BY <1>1, <1>3, <1>5 DEF CoverInv, HeldInv, DoneCovers

\* A select leaves the entry as it is, or ends the pass with an error.
LEMMA SelectCovers ==
    ASSUME IInv, IInv', CoverInv, SelectByPage \/ SelectByGraph
    PROVE  CoverInv'
<1>1. DueInv'
  BY PassKeepsDue DEF PassStep
<1>2. at \in {"bypage", "bygraph"} /\ UNCHANGED <<out, due, visited>>
  BY DEF SelectByPage, SelectByGraph, Select, others, passInputs, webVars
<1>3. CASE End("failed")
  BY <1>1, <1>3, FailureCovers
<1>4. CASE at' \in {"bygraph", "write"} /\ UNCHANGED <<batch, entry, outcome>>
  <2>1. \A p : Covered(p) => Covered(p)'
    BY <1>2 DEF Covered, Alike, KeyOf
  <2>2. NoneIsLost'
    BY <1>2, <1>4, <2>1 DEF CoverInv, NoneIsLost, Pending, AtWork, Usable
  <2>. QED BY <1>1, <1>2, <1>4, <2>2 DEF CoverInv, HeldInv, DoneCovers
<1>. QED BY <1>3, <1>4 DEF SelectByPage, SelectByGraph, Select

\* The upsert leaves a row for the entry, in the place of one of its kind or at the end.
LEMMA UpsertCovers ==
    ASSUME IInv, at = "write", Upsert
    PROVE  \A p : p = entry.page \/ Covered(p) => Covered(p)'
<1>1. /\ entry \in Row /\ entry.page \in Names /\ entry.page # None
      /\ out \in Seq(Row) /\ Len(out) \in Nat /\ DOMAIN out = 1..Len(out) /\ hit \in 0..Len(out)
  BY Naming DEF IInv, TypeOK, WebTypeOK
<1>2. CASE hit = 0
  <2>1. out' = Append(out, entry)
    BY <1>2 DEF Upsert
  <2>2. /\ DOMAIN out' = 1..(Len(out) + 1)
        /\ \A i \in DOMAIN out : out'[i] = out[i]
        /\ out'[Len(out) + 1] = entry
    BY <1>1, <2>1, Appended
  <2>3. Len(out) + 1 \in DOMAIN out' /\ DOMAIN out \subseteq DOMAIN out'
    BY <1>1, <2>2
  <2>4. ASSUME NEW p, p = entry.page PROVE Covered(p)'
    <3>1. \E i \in DOMAIN out' : out'[i].page # None /\ Alike(out'[i].page, p)
      BY <1>1, <2>2, <2>3, <2>4 DEF Alike
    <3>. QED BY <3>1 DEF Covered, Alike, KeyOf
  <2>5. \A p : Covered(p) => Covered(p)'
    BY <2>2, <2>3, CoveredStays
  <2>. QED BY <2>4, <2>5
<1>3. CASE hit # 0
  <2>1. out' = [out EXCEPT ![hit] = entry] /\ hit \in DOMAIN out
    BY <1>1, <1>3 DEF Upsert
  <2>2. /\ DOMAIN out' = DOMAIN out
        /\ \A i \in DOMAIN out : out'[i] = IF i = hit THEN entry ELSE out[i]
    BY <1>1, <2>1, Updated
  <2>3. out[hit].page # None => Alike(entry.page, out[hit].page)
    BY <1>3 DEF IInv, PassGood, HitGood
  <2>4. ASSUME NEW p, p = entry.page PROVE Covered(p)'
    <3>1. \E i \in DOMAIN out' : out'[i].page # None /\ Alike(out'[i].page, p)
      BY <1>1, <2>1, <2>2, <2>4 DEF Alike
    <3>. QED BY <3>1 DEF Covered, Alike, KeyOf
  <2>5. ASSUME NEW p, Covered(p) PROVE Covered(p)'
    <3>1. PICK i \in DOMAIN out : out[i].page # None /\ Alike(out[i].page, p)
      BY <2>5 DEF Covered
    <3>2. out'[i].page # None /\ Alike(out'[i].page, p)
      BY <1>1, <2>2, <2>3, <3>1 DEF Alike
    <3>3. \E j \in DOMAIN out' : out'[j].page # None /\ Alike(out'[j].page, p)
      BY <2>2, <3>2
    <3>. QED BY <3>3 DEF Covered, Alike, KeyOf
  <2>. QED BY <2>4, <2>5
<1>. QED BY <1>2, <1>3

\* The entry leaves the pass when its row is written, or the pass ends with an error.
LEMMA WriteCovers == ASSUME IInv, IInv', CoverInv, Write PROVE CoverInv'
<1>1. DueInv' /\ UNCHANGED <<due, visited>> /\ at = "write"
  BY PassKeepsDue DEF PassStep, Write, passInputs
<1>2. CASE End("failed")
  BY <1>1, <1>2, FailureCovers
<1>3. CASE Upsert /\ at' = "next" /\ entry' = None /\ UNCHANGED <<batch, outcome>>
  <2>1. \A p : p = entry.page \/ Covered(p) => Covered(p)'
    BY <1>1, <1>3, UpsertCovers
  <2>2. ASSUME NEW p \in due \cap visited PROVE Pending(p)' \/ Covered(p)'
    <3>1. CASE AtWork(p)
      <4>1. entry.page = p
        BY <3>1 DEF AtWork
      <4>. QED BY <2>1, <4>1
    <3>2. CASE Pending(p)
      BY <1>3, <3>2 DEF Pending, Usable
    <3>. QED BY <1>1, <2>1, <3>1, <3>2 DEF CoverInv, NoneIsLost
  <2>3. NoneIsLost'
    BY <1>1, <2>2 DEF NoneIsLost
  <2>. QED BY <1>1, <1>3, <2>3 DEF CoverInv, HeldInv, DoneCovers
<1>. QED BY <1>2, <1>3 DEF Write

\* No step takes away the only row of its kind.
LEMMA NextKeepsKinds == IInv /\ [Next]_vars => \A p : Covered(p) => Covered(p)'
<1>. SUFFICES ASSUME IInv, [Next]_vars PROVE \A p : Covered(p) => Covered(p)'
  OBVIOUS
<1>1. CASE out' = out
  BY <1>1 DEF Covered, Alike, KeyOf
<1>2. CASE Write
  <2>1. at = "write" /\ (Upsert \/ out' = out)
    BY <1>2 DEF Write
  <2>. QED BY <1>1, <2>1, UpsertCovers
<1>3. CASE RowsStay
  BY <1>3, CoveredStays DEF RowsStay
<1>4. out' = out \/ Write \/ RowsStay
  <2>1. ASSUME NEW q \in Requests, Handler(q) \/ \E m \in Msgs : Post(q, m) PROVE RowsStay
    BY <2>1, RequestRows
  <2>2. ASSUME ApiCrash \/ BeginPass \/ UNCHANGED vars \/ \E p \in success : Bounces(p)
        PROVE  out' = out
    BY <2>2 DEF ApiCrash, BeginPass, Bounces, others, vars, webVars
  <2>3. ASSUME PassStep PROVE out' = out \/ Write
    BY <2>3 DEF PassStep, Query, NextRow, Lookup, SelectByPage, SelectByGraph, Select, others,
                webVars
  <2>4. ASSUME NEW o \in OtherOwners, WorkerStep(o) PROVE RowsStay
    BY <2>4, WorkerRows
  <2>5. ASSUME BeginSync \/ \E c \in cands : SyncRow(c) PROVE RowsStay
    BY <2>5, SyncRows
  <2>. QED BY <2>1, <2>2, <2>3, <2>4, <2>5 DEF Next
<1>. QED BY <1>1, <1>2, <1>3, <1>4

-----------------------------------------------------------------------------
LEMMA InitCovers == Init => CoverInv
BY DEF Init, CoverInv, DueInv, HeldInv, NoneIsLost, DoneCovers

LEMMA NextCovers == IInv /\ IInv' /\ CoverInv /\ [Next]_vars => CoverInv'
<1>. SUFFICES ASSUME IInv, IInv', CoverInv, [Next]_vars PROVE CoverInv'
  OBVIOUS
<1>1. CASE UNCHANGED vars
  <2>1. UNCHANGED <<at, visited, batch, entry, outcome, due, success, stamp, out>>
    BY <1>1 DEF vars, webVars, passVars
  <2>2. due \subseteq success
    BY DEF CoverInv, DueInv
  <2>. QED BY <2>1, <2>2, OthersKeepCover
<1>2. CASE PassStep
  BY <1>2, QueryCovers, NextRowCovers, LookupCovers, SelectCovers, WriteCovers DEF PassStep
<1>3. CASE ApiCrash /\ UNCHANGED <<taken, passVars, syncVars>>
  <2>1. UNCHANGED <<at, visited, batch, entry, outcome, due, success, stamp, out>>
    BY <1>3 DEF ApiCrash, passVars
  <2>2. due \subseteq success
    BY DEF CoverInv, DueInv
  <2>. QED BY <2>1, <2>2, OthersKeepCover
<1>. QED BY <1>1, <1>2, <1>3, RequestCovers, WorkerCovers, BounceCovers, BeginCovers, SyncCovers
     DEF Next

LEMMA CoverAlways == Spec => [](IInv /\ CoverInv)
BY InitIInv, NextIInv, InitCovers, NextCovers, PTL DEF Spec

\* The stores and the scripts stay within their types: what is about to be written is a
\* whole row, and what is about to be updated is there.
THEOREM BackfillTypes == Spec => []TypeOK
<1>1. IInv => TypeOK BY DEF IInv
<1>. QED BY IInvAlways, <1>1, PTL

\* Whatever the scripts find by Notion row, by mail or in Sent Items, and however stale it
\* is when they write it, no row comes to be under a Notion row of another kind than its
\* mail or its CRM.
THEOREM RowsStayConsistent == Spec => []RowsAreConsistent
<1>1. IInv => RowsAreConsistent
  BY DEF IInv, RowsGood, Good, Rows, RowsAreConsistent
<1>. QED BY IInvAlways, <1>1, PTL

\* After a pass that ended without an error, for every row that it ought to cover, and that is
\* still at Success, outbound_messages has a row of its kind, be it that of another Notion row
\* of the same subject, sender and recipient, whatever the console, the send worker and the
\* CRM script wrote meanwhile.
THEOREM PassesCover == Spec => []PassCovers
<1>1. CoverInv => PassCovers
  <2>1. ASSUME NEW p, Covered(p) PROVE \E r \in Rows : r.page # None /\ Alike(r.page, p)
    BY <2>1 DEF Covered, Rows
  <2>. QED BY <2>1 DEF CoverInv, DoneCovers, PassCovers
<1>. QED BY CoverAlways, <1>1, PTL

\* Whoever writes outbound_messages, and however stale what is written, the table keeps a row of
\* each subject, sender and recipient that it has had under a Notion row.
THEOREM KindsAreKept == Spec => KindsStay
<1>1. ASSUME IInv, [Next]_vars, NEW r \in Rows, r.page # None
      PROVE  \E s \in Rows' : s.page # None /\ Alike(s.page, r.page)
  <2>1. Covered(r.page)
    BY <1>1 DEF Covered, Rows, Alike
  <2>2. \A p : Covered(p) => \E i \in DOMAIN out' : out'[i].page # None /\ Alike(out'[i].page, p)
    BY <1>1, NextKeepsKinds DEF Covered, Alike, KeyOf
  <2>3. PICK i \in DOMAIN out' : out'[i].page # None /\ Alike(out'[i].page, r.page)
    BY <2>1, <2>2
  <2>. QED BY <2>3 DEF Rows
<1>2. IInv /\ [Next]_vars =>
        [\A r \in Rows : r.page # None =>
            \E s \in Rows' : s.page # None /\ Alike(s.page, r.page)]_vars
  BY <1>1
<1>. QED BY IInvAlways, <1>2, PTL DEF Spec, KindsStay

-----------------------------------------------------------------------------
(* What PassEnds rests on: with each of its steps a pass gets nearer to its end. *)

\* How far the entry of a row is from being written.
Height ==
    [place \in Places |->
        CASE place = "lookup" -> 5
          [] place = "bypage" -> 4
          [] place = "bygraph" -> 3
          [] place = "write" -> 2
          [] place = "next" -> 1
          [] OTHER -> 0]

\* The pass is over, or a query returned rows that none before it had, or a row of the page
\* is taken up, or the one in hand is nearer to be written.
PassDescends ==
    \/ at # "off" /\ at' = "off"
    \/ visited \subseteq visited' /\ visited' # visited
    \/ visited' = visited /\ batch' \subseteq batch /\ batch' # batch
    \/ visited' = visited /\ batch' = batch /\ Height[at'] < Height[at]

PassRests == UNCHANGED <<at, visited, batch>>

\* A query returns a row that the pass has not seen, or ends it.
LEMMA QueryDescends == ASSUME Query PROVE PassDescends
<1>1. at = "query"
  BY DEF Query
<1>2. ASSUME NEW B \in SUBSET (success \ visited), Cardinality(B) \in 1..PageSize,
             visited' = visited \cup B
      PROVE  PassDescends
  <2>1. B # {}
    BY <1>2, FS_EmptySet
  <2>2. PICK p \in B : p \notin visited
    BY <2>1
  <2>. QED BY <1>2, <2>2 DEF PassDescends
<1>3. ASSUME NEW how, End(how) PROVE PassDescends
  BY <1>1, <1>3 DEF End, PassDescends
<1>. QED BY <1>2, <1>3 DEF Query

\* Every step of a pass brings it on.
LEMMA StepDescends == ASSUME IInv, PassStep PROVE PassDescends
<1>1. at \in Places /\ at' \in Places
  BY PassStepKeeps DEF IInv, TypeOK
<1>2. CASE Query
  BY <1>2, QueryDescends
<1>3. CASE NextRow
  <2>1. visited' = visited /\ at = "next"
    BY <1>3 DEF NextRow
  <2>2. CASE at' = "query" /\ batch' = batch
    BY <2>1, <2>2 DEF PassDescends, Height, Places
  <2>3. ASSUME NEW b \in batch, batch' = batch \ {b} PROVE PassDescends
    BY <2>1, <2>3 DEF PassDescends
  <2>. QED BY <1>3, <2>2, <2>3 DEF NextRow
<1>4. CASE Lookup
  <2>1. visited' = visited /\ batch' = batch /\ at = "lookup" /\ at' = "bypage"
    BY <1>4 DEF Lookup
  <2>. QED BY <2>1 DEF PassDescends, Height, Places
<1>5. CASE SelectByPage
  <2>1. at = "bypage" /\ visited' = visited
    BY <1>5 DEF SelectByPage, Select
  <2>2. \/ batch' = batch /\ at' \in {"bygraph", "write"}
        \/ at' = "off"
    BY <1>5 DEF SelectByPage, Select, End
  <2>. QED BY <2>1, <2>2 DEF PassDescends, Height, Places
<1>6. CASE SelectByGraph
  <2>1. at = "bygraph" /\ visited' = visited
    BY <1>6 DEF SelectByGraph, Select
  <2>2. \/ batch' = batch /\ at' = "write"
        \/ at' = "off"
    BY <1>6 DEF SelectByGraph, Select, End
  <2>. QED BY <2>1, <2>2 DEF PassDescends, Height, Places
<1>7. CASE Write
  <2>1. at = "write" /\ visited' = visited
    BY <1>7 DEF Write
  <2>2. \/ batch' = batch /\ at' = "next"
        \/ at' = "off"
    BY <1>7 DEF Write, End
  <2>. QED BY <2>1, <2>2 DEF PassDescends, Height, Places
<1>. QED BY <1>2, <1>3, <1>4, <1>5, <1>6, <1>7 DEF PassStep

\* A pass of the backfill only gets on: while rows change and are added under it, nobody
\* sets it back, and each of its steps asks for rows it has not had, takes up one of the
\* page, brings the one in hand nearer to its write, or ends the pass (the loop of
\* backfill-outbound-from-notion.ts).
THEOREM PassesAdvance == Spec => [][BeginPass \/ PassDescends \/ PassRests]_vars
<1>1. ASSUME IInv, [Next]_vars PROVE [BeginPass \/ PassDescends \/ PassRests]_vars
  <2>1. CASE PassStep
    BY <1>1, <2>1, StepDescends
  <2>2. CASE UNCHANGED <<passVars>>
    BY <2>2 DEF passVars, PassRests
  <2>3. ASSUME NEW o \in OtherOwners, WorkerStep(o) PROVE PassRests
    BY <2>3 DEF WorkerStep, WorkerMarks, WorkerSends, WorkerRecords, WorkerStamps, WorkerFails,
       passVars, PassRests
  <2>4. CASE BeginSync \/ \E c \in cands : SyncRow(c)
    BY <2>2, <2>4 DEF BeginSync, SyncRow
  <2>5. ASSUME NEW p \in success, Bounces(p) PROVE PassRests
    BY <2>5 DEF Bounces, PassRests
  <2>. QED BY <1>1, <2>1, <2>2, <2>3, <2>4, <2>5 DEF Next
<1>2. IInv /\ [Next]_vars => [BeginPass \/ PassDescends \/ PassRests]_vars
  BY <1>1
<1>. QED BY IInvAlways, <1>2, PTL DEF Spec

=============================================================================

------------------------------ MODULE Backfill ------------------------------
(***************************************************************************)
(* The two scripts that mend outbound_messages, at work while the console and *)
(* the send worker add to it.  The backfill walks the Notion rows at Success,  *)
(* page by page, and writes a row for each, from the ids in the Payload, from *)
(* a search of Sent Items, or under a placeholder; the CRM script then fills   *)
(* the CRM columns of the rows that lack them.  Both hold what they have read *)
(* over many awaits, and lock nothing.                                       *)
(*                                                                           *)
(* The send worker is no more here than what SendLedger says of it, the match *)
(* worker no more than the bounce that takes a row from Success.              *)
(***************************************************************************)
EXTENDS WebReply

CONSTANTS
    Key,         \* Key[o]: sender, subject and recipient of the rows and mails of o
    Readable,    \* owners whose rows have a Payload and a sender the script can use
    Matching,    \* those whose Payload also names a recipient and agrees with the row
    Bouncing,    \* owners whose mails may bounce
    PageSize,    \* BACKFILL_NOTION_PAGE_SIZE
    MaxPasses,   \* bound: passes of the backfill
    MaxSyncs,    \* bound: passes of the CRM script
    MaxSends     \* bound: MaxSends[o], the mails the worker sends for the row of o

ASSUME BackfillAssumption ==
    /\ Readable \subseteq Owners
    /\ Matching \subseteq Readable
    /\ Bouncing \subseteq Owners
    /\ PageSize \in Nat \ {0}
    /\ MaxPasses \in Nat
    /\ MaxSyncs \in Nat
    /\ MaxSends \in [OtherOwners -> Nat]
    /\ None \notin Owners \cup Row

VARIABLES
    taken,     \* taken[o]: the mail the worker's run for o has recorded, Notion not yet told
    at,        \* where the pass of the backfill stands
    resolve,   \* BACKFILL_LEGACY_RESOLVE_GRAPH of the pass
    due,       \* the rows it ought to cover: at Success since it began, and usable
    visited,   \* the rows that its queries have returned
    batch,     \* what the last query said of its rows: <<row, mail>>, mail the _graph or None
    entry,     \* the row of outbound_messages it is about to write
    hit,       \* the id it has found for it, 0 if none
    outcome,   \* how the last pass ended: "none", "done", "failed"
    passes,    \* passes of the backfill so far
    cands,     \* candidates of the CRM script: <<id, Notion row>>
    syncs      \* passes of the CRM script so far

passVars == <<at, resolve, due, visited, batch, entry, hit, outcome, passes>>
syncVars == <<cands, syncs>>
vars == <<webVars, taken, passVars, syncVars>>

KeyOf(name) == Key[name[1]]
Alike(x, y) == KeyOf(x) = KeyOf(y)

\* The Notion row of an owner the worker sends for.
PageOf(o) == <<o, 1>>

Places == {"off", "query", "next", "lookup", "bypage", "bygraph", "write"}

TypeOK ==
    /\ WebTypeOK
    /\ taken \in [OtherOwners -> Names \cup {None}]
    /\ at \in Places
    /\ resolve \in BOOLEAN
    /\ due \subseteq Names
    /\ visited \subseteq Names
    /\ batch \subseteq Names \X (Names \cup {None})
    /\ entry \in Row \cup {None}
    /\ at \in {"lookup", "bypage", "bygraph", "write"} => entry \in Row /\ entry.page \in Names
    /\ hit \in 0..Len(out)
    /\ outcome \in {"none", "done", "failed"}
    /\ passes \in Nat
    /\ cands \subseteq (1..Len(out)) \X Names
    /\ syncs \in Nat

\* Some rows were sent in the past, by this system or by another tool, which left no
\* _graph; none of these mails is in outbound_messages.
Init ==
    /\ WebInit
    /\ \E past \in SUBSET OtherOwners : \E ours \in SUBSET past :
        /\ success = {PageOf(o) : o \in past}
        /\ mails = {PageOf(o) : o \in past}
        /\ stamp = {<<PageOf(o), PageOf(o)>> : o \in ours}
    /\ out = <<>>
    /\ taken = [o \in OtherOwners |-> None]
    /\ at = "off"
    /\ resolve = FALSE
    /\ due = {} /\ visited = {} /\ batch = {}
    /\ entry = None
    /\ hit = 0
    /\ outcome = "none"
    /\ passes = 0
    /\ cands = {}
    /\ syncs = 0

-----------------------------------------------------------------------------
(* The send worker.                                                          *)

\* The mails that the bound leaves the worker to send for a row.
Unsent(o) == {<<o, n>> : n \in 1..MaxSends[o]} \ mails

\* markSending: a row that was reopened reads Sending.
WorkerMarks(o) ==
    /\ taken[o] = None
    /\ PageOf(o) \in success
    /\ Unsent(o) # {}
    /\ success' = success \ {PageOf(o)}
    /\ due' = due \ {PageOf(o)}
    /\ UNCHANGED <<pc, about, newPage, stamp, mails, out, crashes, taken, at, resolve, visited,
                   batch, entry, hit, outcome, passes, syncVars>>

\* A mail of the row goes out, the first or another.
WorkerSends(o) ==
    /\ taken[o] = None
    /\ PageOf(o) \notin success
    /\ \E m \in Unsent(o) : mails' = mails \cup {m}
    /\ UNCHANGED <<pc, about, newPage, success, stamp, out, crashes, taken, passVars, syncVars>>

\* The worker finds its mail, or one like it, in Sent Items and records it, with or
\* without CRM.
WorkerRecords(o) ==
    /\ taken[o] = None
    /\ PageOf(o) \notin success
    /\ \E m \in mails : m[1] = o
    /\ \E m \in mails, crm \in {None, PageOf(o)} :
        /\ Alike(m, PageOf(o))
        /\ Free(Sent(m))
        /\ out' = Append(out, [page |-> PageOf(o), id |-> Sent(m), crm |-> crm])
        /\ taken' = [taken EXCEPT ![o] = m]
    /\ UNCHANGED <<pc, about, newPage, success, stamp, mails, crashes, passVars, syncVars>>

\* writeSendSuccess.
WorkerStamps(o) ==
    /\ taken[o] # None
    /\ success' = success \cup {PageOf(o)}
    /\ stamp' = Stamped(PageOf(o), taken[o])
    /\ taken' = [taken EXCEPT ![o] = None]
    /\ UNCHANGED <<pc, about, newPage, mails, out, crashes, passVars, syncVars>>

\* The run fails or dies before writeSendSuccess has answered, its PATCH done or not, and
\* writeSendFailure done after it or not.
WorkerFails(o) ==
    /\ taken[o] # None
    /\ \/ UNCHANGED <<success, stamp>>
       \/ /\ stamp' = Stamped(PageOf(o), taken[o])
          /\ success' \in {success, success \cup {PageOf(o)}}
    /\ taken' = [taken EXCEPT ![o] = None]
    /\ UNCHANGED <<pc, about, newPage, mails, out, crashes, passVars, syncVars>>

WorkerStep(o) ==
    WorkerMarks(o) \/ WorkerSends(o) \/ WorkerRecords(o) \/ WorkerStamps(o) \/ WorkerFails(o)

-----------------------------------------------------------------------------
(* The match worker.                                                         *)

\* writeBounce: a mail that is recorded under Notion row p came back.
Bounces(p) ==
    /\ p \in success /\ p[1] \in Bouncing
    /\ \E r \in Rows : r.page = p /\ ~r.id.legacy
    /\ success' = success \ {p}
    /\ due' = due \ {p}
    /\ UNCHANGED <<pc, about, newPage, stamp, mails, out, crashes, taken, at, resolve, visited,
                   batch, entry, hit, outcome, passes, syncVars>>

-----------------------------------------------------------------------------
(* The backfill.                                                             *)

passInputs == <<resolve, due, passes>>
others == <<webVars, taken, syncVars>>

\* The ids of a mail that the Payload of row p holds as its _graph.
Graph(p) == IF \E s \in stamp : s[1] = p THEN (CHOOSE s \in stamp : s[1] = p)[2] ELSE None

\* A row without _graph needs a recipient in its Payload, and a subject and a body there
\* that agree with the row's (legacyPayloadMatchesNotion).
Usable(p, graph) == p[1] \in (IF graph = None THEN Matching ELSE Readable)

\* main, up to its loop.
BeginPass ==
    /\ at = "off"
    /\ passes < MaxPasses
    /\ passes' = passes + 1
    /\ at' = "query"
    /\ resolve' \in BOOLEAN
    /\ due' = {p \in success : Usable(p, Graph(p))}
    /\ visited' = {}
    /\ outcome' = "none"
    /\ UNCHANGED <<others, batch, entry, hit>>

\* main ends, well or with an error.
End(how) ==
    /\ at' = "off"
    /\ outcome' = how
    /\ batch' = {}
    /\ entry' = None
    /\ hit' = 0

\* (mutant) The next query does not take over the cursor.
QueryWithoutCursor ==
    /\ at = "query"
    /\ \E B \in SUBSET success :
        /\ Cardinality(B) \in 1..PageSize
        /\ batch' = {<<p, Graph(p)>> : p \in B}
        /\ visited' = visited \cup B
    /\ at' = "next"
    /\ UNCHANGED <<others, passInputs, entry, hit, outcome>>

\* One page of the query for rows at Success.  Rows that come to read Success during the
\* pass may or may not be among the later pages.
Query ==
    /\ at = "query"
    /\ \/ /\ \E B \in SUBSET (success \ visited) :
                /\ Cardinality(B) \in 1..PageSize
                /\ batch' = {<<p, Graph(p)>> : p \in B}
                /\ visited' = visited \cup B
          /\ at' = "next"
          /\ UNCHANGED <<entry, hit, outcome>>
       \/ /\ (due \cap success) \subseteq visited
          /\ End("done")
          /\ UNCHANGED visited
       \/ /\ "notion" \in Faults
          /\ End("failed")
          /\ UNCHANGED visited
    /\ UNCHANGED <<others, passInputs>>

\* The CRM columns come from the row, from what the interaction log says of it, or from
\* its Payload; they may be empty.
CrmOf(p) == {None, p}

\* The next row of the page: passed over, or turned into an entry, with a placeholder for
\* the id if the Payload has none.
NextRow ==
    /\ at = "next"
    /\ \/ batch = {} /\ at' = "query" /\ UNCHANGED <<batch, entry>>
       \/ \E b \in batch :
            /\ batch' = batch \ {b}
            /\ IF Usable(b[1], b[2])
               THEN /\ at' = IF resolve /\ b[2] = None THEN "lookup" ELSE "bypage"
                    /\ \E crm \in CrmOf(b[1]) :
                        entry' = [page |-> b[1], crm |-> crm,
                                  id |-> IF b[2] = None THEN Legacy(b[1]) ELSE Sent(b[2])]
               ELSE at' = "next" /\ entry' = None
    /\ UNCHANGED <<others, passInputs, visited, hit, outcome>>

\* The entry under an id that was found for it.
WithId(id) == [page |-> entry.page, id |-> id, crm |-> entry.crm]

\* (mutant) The nearest sent item is taken whatever its subject and recipient.
LookupAny ==
    /\ at = "lookup"
    /\ at' = "bypage"
    /\ \/ \E m \in mails : entry' = WithId(Sent(m))
       \/ UNCHANGED entry
    /\ UNCHANGED <<others, passInputs, visited, batch, hit, outcome>>

\* (mutant) The result of the search is used without a look at it.
LookupUnchecked ==
    /\ at = "lookup"
    /\ at' = "bypage"
    /\ \/ \E m \in mails : Alike(m, entry.page) /\ entry' = WithId(Sent(m))
       \/ entry' = WithId(None)
    /\ UNCHANGED <<others, passInputs, visited, batch, hit, outcome>>

\* findSentMessageNearDate: the sent item of this subject and recipient that is nearest
\* to the row's completion time.  If none is in reach, or Graph fails, the placeholder stays.
Lookup ==
    /\ at = "lookup"
    /\ at' = "bypage"
    /\ \/ \E m \in mails : Alike(m, entry.page) /\ entry' = WithId(Sent(m))
       \/ UNCHANGED entry
    /\ UNCHANGED <<others, passInputs, visited, batch, hit, outcome>>

\* A select of upsertOutbound: one of the rows found is the one to update.
Select(found, otherwise) ==
    /\ \/ /\ found = {}
          /\ at' = otherwise
          /\ hit' = 0
          /\ UNCHANGED <<batch, entry, outcome>>
       \/ /\ hit' \in found
          /\ at' = "write"
          /\ UNCHANGED <<batch, entry, outcome>>
       \/ "postgres" \in Faults /\ End("failed")
    /\ UNCHANGED <<others, passInputs, visited>>

\* The select by Notion row comes first, and decides if it finds one.
SelectByPage ==
    /\ at = "bypage"
    /\ Select({i \in DOMAIN out : out[i].page = entry.page}, "bygraph")

SelectByGraph ==
    /\ at = "bygraph"
    /\ Select({i \in DOMAIN out : out[i].id = entry.id}, "write")

\* The insert, or the update of every column; both are bound by the unique index.  The id
\* stands for the conversation as well, which the update replaces with it; the thread status
\* that it sets back to "sent" is MatchPipeline's.
Upsert ==
    /\ \A i \in DOMAIN out \ {hit} : out[i].id # entry.id
    /\ out' = IF hit = 0 THEN Append(out, entry) ELSE [out EXCEPT ![hit] = entry]

\* (mutant) A row that cannot be written is logged and passed over.
WriteBestEffort ==
    /\ at = "write"
    /\ Upsert \/ UNCHANGED out
    /\ at' = "next"
    /\ entry' = None
    /\ hit' = 0
    /\ UNCHANGED <<pc, about, newPage, success, stamp, mails, crashes, taken, syncVars,
                   passInputs, visited, batch, outcome>>

Write ==
    /\ at = "write"
    /\ \/ /\ Upsert
          /\ at' = "next"
          /\ entry' = None
          /\ hit' = 0
          /\ UNCHANGED <<batch, outcome>>
       \/ /\ \/ "postgres" \in Faults /\ (Upsert \/ UNCHANGED out)
             \/ ~(\A i \in DOMAIN out \ {hit} : out[i].id # entry.id) /\ UNCHANGED out
          /\ End("failed")
    /\ UNCHANGED <<pc, about, newPage, success, stamp, mails, crashes, taken, syncVars,
                   passInputs, visited>>

PassStep == Query \/ NextRow \/ Lookup \/ SelectByPage \/ SelectByGraph \/ Write

-----------------------------------------------------------------------------
(* The CRM script.                                                           *)

\* The rows of outbound_messages that lack CRM, or all of them, and their Notion rows.
Candidates(overwrite) ==
    {<<i, out[i].page>> : i \in {j \in DOMAIN out :
        out[j].page # None /\ (overwrite \/ out[j].crm = None)}}

\* The candidates are read at once.
BeginSync ==
    /\ cands = {}
    /\ syncs < MaxSyncs
    /\ syncs' = syncs + 1
    /\ \E overwrite \in BOOLEAN : cands' = Candidates(overwrite)
    /\ UNCHANGED <<webVars, taken, passVars>>

\* One candidate: the Notion row and its relations are read, and the CRM columns of the
\* row with that id are set.  An archived row, a row without relations and an error leave
\* it as it is.
SyncRow(c) ==
    /\ c \in cands
    /\ cands' = cands \ {c}
    /\ out' \in {out, [out EXCEPT ![c[1]] = [page |-> @.page, id |-> @.id, crm |-> c[2]]]}
    /\ UNCHANGED <<pc, about, newPage, success, stamp, mails, crashes, taken, passVars, syncs>>

-----------------------------------------------------------------------------
Next ==
    \/ \E q \in Requests :
        /\ Handler(q) \/ \E m \in Msgs : Post(q, m)
        /\ UNCHANGED <<taken, passVars, syncVars>>
    \/ ApiCrash /\ UNCHANGED <<taken, passVars, syncVars>>
    \/ \E o \in OtherOwners : WorkerStep(o)
    \/ \E p \in success : Bounces(p)
    \/ BeginPass
    \/ PassStep
    \/ BeginSync
    \/ \E c \in cands : SyncRow(c)

Spec == Init /\ [][Next]_vars

\* Node runs the awaits of the script to their end.
FairSpec == Spec /\ WF_vars(PassStep)

-----------------------------------------------------------------------------
(* Properties.                                                               *)

\* No row of outbound_messages is under a Notion row of another subject, sender or
\* recipient than its mail or its CRM, though ids are searched for, rows are found by
\* Notion row or by mail, and all of it is stale when it is written: answers are matched
\* through this table (upsertOutbound, findSentMessageNearDate, recordOutbound).
RowsAreConsistent ==
    \A r \in Rows :
        /\ ~r.id.legacy => r.id.of \in mails
        /\ r.page # None => Alike(r.id.of, r.page)
        /\ r.crm # None => Alike(r.crm, r.page)

\* After a pass that ended without an error every row it ought to cover, or one of the
\* same subject, sender and recipient, has a row of outbound_messages: no page of the
\* query is lost and no failed write goes unnoticed.
PassCovers ==
    outcome = "done" => \A p \in due : \E r \in Rows : r.page # None /\ Alike(r.page, p)

\* Once outbound_messages has a row under some Notion row, it keeps one under a Notion row
\* of that subject, sender and recipient, whatever stale entries the scripts write over it
\* (upsertOutbound, whose update replaces the Notion row of the row it hits).  No more than
\* that stays: the update replaces the conversation as well, with that of another mail of
\* this kind or with a placeholder, and answers in the old conversation are then left to
\* the heuristics.
KindsStay ==
    [][\A r \in Rows : r.page # None =>
            \E s \in Rows' : s.page # None /\ Alike(s.page, r.page)]_vars

\* A pass comes to its end while rows change and are added under it.
PassEnds == at # "off" ~> at = "off"

=============================================================================

------------------------------ MODULE WebReply ------------------------------
(***************************************************************************)
(* The reply an operator sends from the web console, as the API process      *)
(* carries it out: a Notion row is made, at Success before anything is sent,  *)
(* the mail goes out in the thread of the row of inbox_messages it answers,   *)
(* the Notion row gets the ids of the mail, and the mail is recorded in       *)
(* outbound_messages.  The order of the last two is the reverse of the send   *)
(* worker's, and nothing is undone when a step fails.                        *)
(*                                                                           *)
(* A request is split at its awaits; pc[q] is where request q stands.  Notion *)
(* rows and mails are both named <<owner, number>>: what they were made for,  *)
(* a request or another row, and which of its rows or mails they are.        *)
(***************************************************************************)
EXTENDS Naturals, Sequences, FiniteSets

CONSTANTS
    Requests,    \* the POSTs to /api/inbox/:id/reply that may come in
    Msgs,        \* the rows of inbox_messages they answer
    Paged,       \* those matched with an outbound mail that has a Notion row
    OtherOwners, \* rows of the Notion database that no request makes
    None,        \* null
    MaxPosts,    \* bound: Notion rows one POST /pages can make, HTTP retries included
    MaxCrashes,  \* bound: crashes of the API process
    Faults       \* what may fail: "postgres", "notion", "graph"

ASSUME WebAssumption ==
    /\ Paged \subseteq Msgs
    /\ MaxPosts \in Nat \ {0}
    /\ MaxCrashes \in Nat
    /\ Requests \cap OtherOwners = {}
    /\ None \notin Msgs \cup (Requests \cup OtherOwners) \X (Nat \ {0})

VARIABLES
    pc,       \* pc[q]: where request q stands; "ok" and "error" are its answers
    about,    \* about[q]: the row of inbox_messages it answers, None before it comes in
    newPage,  \* newPage[q]: the Notion row it has made (newNotionPageId)
    success,  \* the Notion rows that read Success
    stamp,    \* the pairs <<row, mail>> that the rows' Payloads hold as _graph
    mails,    \* the mails Graph has put out
    out,      \* outbound_messages, in the order of their ids
    crashes   \* crashes of the API process so far

webVars == <<pc, about, newPage, success, stamp, mails, out, crashes>>

Owners == Requests \cup OtherOwners
Names == Owners \X (Nat \ {0})

\* graph_message_id: that of a mail, or the placeholder the backfill makes up for a row.
Sent(m) == [legacy |-> FALSE, of |-> m]
Legacy(p) == [legacy |-> TRUE, of |-> p]

\* The columns of outbound_messages that matter: notion_page_id, graph_message_id, and
\* the Notion row that the CRM columns were read from.
Row == [page: Names \cup {None}, id: [legacy: BOOLEAN, of: Names], crm: Names \cup {None}]

Rows == {out[i] : i \in DOMAIN out}

\* The unique index on (mailbox_id, graph_message_id) admits id.
Free(id) == \A r \in Rows : r.id # id

\* Payload p gets the ids of mail m as its _graph, in place of those it had.
Stamped(p, m) == {s \in stamp : s[1] # p} \cup {<<p, m>>}

\* The mail of request q: the draft that createReply makes is sent once.
MailOf(q) == <<q, 1>>

Steps == {"unused", "find", "page", "send", "stamp", "verify", "record", "ok", "error"}
Ended == {"unused", "ok", "error"}

WebTypeOK ==
    /\ pc \in [Requests -> Steps]
    /\ about \in [Requests -> Msgs \cup {None}]
    /\ newPage \in [Requests -> Names \cup {None}]
    /\ success \subseteq Names
    /\ stamp \subseteq Names \X Names
    /\ mails \subseteq Names
    /\ out \in Seq(Row)
    /\ crashes \in Nat

WebInit ==
    /\ pc = [q \in Requests |-> "unused"]
    /\ about = [q \in Requests |-> None]
    /\ newPage = [q \in Requests |-> None]
    /\ crashes = 0

-----------------------------------------------------------------------------
Goto(q, step) == pc' = [pc EXCEPT ![q] = step]

Fails(q, what) ==
    /\ what \in Faults
    /\ Goto(q, "error")

\* The request comes in.
Post(q, m) ==
    /\ pc[q] = "unused"
    /\ Goto(q, "find")
    /\ about' = [about EXCEPT ![q] = m]
    /\ UNCHANGED <<newPage, success, stamp, mails, out, crashes>>

\* The inbox row, its mailbox and the Notion row of the matched mail are read.
Find(q) ==
    /\ pc[q] = "find"
    /\ \/ Goto(q, IF about[q] \in Paged THEN "page" ELSE "send")
       \/ Fails(q, "postgres")
    /\ UNCHANGED <<about, newPage, success, stamp, mails, out, crashes>>

\* notionFetch posts again after a 502, 503 or 504 though the request may have been carried
\* out: in the end it has been n times.
CarriedOut(n) == n # 1 => "notion" \in Faults

\* (mutant) An answer that names no row is taken for one.
CreatePageUnchecked(q) ==
    /\ pc[q] = "page"
    /\ \E n \in 0..MaxPosts :
        /\ CarriedOut(n)
        /\ success' = success \cup ({q} \X (1..n))
        /\ newPage' = [newPage EXCEPT ![q] = <<q, n>>]
    /\ Goto(q, "send")
    /\ UNCHANGED <<about, stamp, mails, out, crashes>>

\* createWebReplyNotionPage: the row is made at Success, so that no poll takes it.
\* Of the n rows only the last one's id is known.
CreatePage(q) ==
    /\ pc[q] = "page"
    /\ \E n \in 0..MaxPosts :
        /\ CarriedOut(n)
        /\ success' = success \cup ({q} \X (1..n))
        /\ \/ /\ n > 0
              /\ newPage' = [newPage EXCEPT ![q] = <<q, n>>]
              /\ Goto(q, "send")
           \/ /\ Fails(q, "notion")
              /\ UNCHANGED newPage
    /\ UNCHANGED <<about, stamp, mails, out, crashes>>

\* createReply, PATCH, send, GET.  Any of the four calls may fail, the last one after
\* the mail has left.
SendReply(q) ==
    /\ pc[q] = "send"
    /\ \/ /\ mails' = mails \cup {MailOf(q)}
          /\ Goto(q, IF newPage[q] = None THEN "record" ELSE "stamp")
       \/ /\ Fails(q, "graph")
          /\ mails' \in {mails, mails \cup {MailOf(q)}}
    /\ UNCHANGED <<about, newPage, success, stamp, out, crashes>>

\* (mutant) A failed write to Notion is logged and the request goes on.
StampBestEffort(q) ==
    /\ pc[q] = "stamp"
    /\ success' = success \cup {newPage[q]}
    /\ stamp' \in {stamp, Stamped(newPage[q], MailOf(q))}
    /\ Goto(q, "verify")
    /\ UNCHANGED <<about, newPage, mails, out, crashes>>

\* writeSendSuccess: the ids of the mail are merged into the Payload of the new row.
Stamp(q) ==
    /\ pc[q] = "stamp"
    /\ success' = success \cup {newPage[q]}
    /\ \/ /\ stamp' = Stamped(newPage[q], MailOf(q))
          /\ Goto(q, "verify")
       \/ /\ Fails(q, "notion")
          /\ stamp' \in {stamp, Stamped(newPage[q], MailOf(q))}
    /\ UNCHANGED <<about, newPage, mails, out, crashes>>

\* writeSendSuccess reads the row back.  It has read Success since it was made.
Verify(q) ==
    /\ pc[q] = "verify"
    /\ \/ newPage[q] \in success /\ Goto(q, "record")
       \/ Fails(q, "notion")
    /\ UNCHANGED <<about, newPage, success, stamp, mails, out, crashes>>

\* (mutant) A failed insert is logged and the operator told that all went well.
RecordBestEffort(q) ==
    LET row == [page |-> newPage[q], id |-> Sent(MailOf(q)), crm |-> None]
    IN  /\ pc[q] = "record"
        /\ out' \in {out, Append(out, row)}
        /\ Goto(q, "ok")
        /\ UNCHANGED <<about, newPage, success, stamp, mails, crashes>>

\* recordOutbound.  The insert may fail, or be done and its answer lost.
Record(q) ==
    LET row == [page |-> newPage[q], id |-> Sent(MailOf(q)), crm |-> None]
    IN  /\ pc[q] = "record"
        /\ \/ /\ Free(row.id)
              /\ out' = Append(out, row)
              /\ Goto(q, "ok")
           \/ /\ ~Free(row.id)
              /\ Goto(q, "error")
              /\ UNCHANGED out
           \/ /\ Free(row.id)
              /\ Fails(q, "postgres")
              /\ out' \in {out, Append(out, row)}
        /\ UNCHANGED <<about, newPage, success, stamp, mails, crashes>>

\* The API process dies: the browser sees its connections break.
ApiCrash ==
    /\ crashes < MaxCrashes
    /\ \E q \in Requests : pc[q] \notin Ended
    /\ crashes' = crashes + 1
    /\ pc' = [q \in Requests |-> IF pc[q] \in Ended THEN pc[q] ELSE "error"]
    /\ UNCHANGED <<about, newPage, success, stamp, mails, out>>

Handler(q) ==
    Find(q) \/ CreatePage(q) \/ SendReply(q) \/ Stamp(q) \/ Verify(q) \/ Record(q)

-----------------------------------------------------------------------------
(* Properties.                                                               *)

\* When the operator is told that the reply is sent, all three are so: the mail is out,
\* it is in outbound_messages under the Notion row the request made, and that row holds
\* the mail's ids (admin-reply.service.ts; no step of the request is best effort).
ReportedIsDone ==
    \A q \in Requests : pc[q] = "ok" =>
        /\ MailOf(q) \in mails
        /\ \E r \in Rows : r.page = newPage[q] /\ r.id = Sent(MailOf(q))
        /\ about[q] \in Paged => <<newPage[q], MailOf(q)>> \in stamp

\* A console mail that is in outbound_messages under a Notion row is named by that row's
\* Payload as well, whatever fails or dies: here the row is stamped before the insert,
\* where the send worker inserts first (admin-reply.service.ts:74-103).
RecordedIsStamped ==
    \A r \in Rows : r.page # None => <<r.page, r.id.of>> \in stamp

=============================================================================

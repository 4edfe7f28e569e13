------------------------- MODULE ReplyDialog_proofs -------------------------
(***************************************************************************)
(* Theorems about the replies of the web console, for any requests, rows,    *)
(* faults and bounds: what the operator is told of a reply is so, and what a  *)
(* click on Send sends off was typed in the dialog it is sent from.          *)
(***************************************************************************)
EXTENDS ReplyDialog, SequenceTheorems, TLAPS

\* How far a request has come says what it has done.
Trace(q) ==
    /\ pc[q] \in {"stamp", "verify", "record", "ok"} => MailOf(q) \in mails
    /\ newPage[q] # None => newPage[q][1] = q
    /\ pc[q] \in {"stamp", "verify"} => newPage[q] # None
    /\ pc[q] \in {"send", "stamp", "verify", "record", "ok"} /\ about[q] \in Paged =>
            newPage[q] # None
    /\ pc[q] \in {"verify", "record", "ok"} /\ newPage[q] # None =>
            <<newPage[q], MailOf(q)>> \in stamp
    /\ pc[q] = "ok" => \E r \in Rows : r.page = newPage[q] /\ r.id = Sent(MailOf(q))

Traces == \A q \in Requests : Trace(q)

\* A mail is recorded under a Notion row of the request it is the mail of.
RowsNamed == \A r \in Rows : r.page # None => r.id.of = MailOf(r.page[1])

WebInv == WebTypeOK /\ Traces /\ RowsNamed /\ RecordedIsStamped

-----------------------------------------------------------------------------
(* The requests.                                                             *)

\* The ids of a request's mails and rows are names.
LEMMA NameTyped ==
    ASSUME NEW q \in Requests
    PROVE  /\ MailOf(q) \in Names
           /\ \A n \in Nat : n > 0 => <<q, n>> \in Names
           /\ \A n \in Nat : {q} \X (1..n) \subseteq Names
BY DEF MailOf, Names, Owners

\* Appending to outbound_messages adds one row.
LEMMA AppendRow ==
    ASSUME out \in Seq(Row), NEW row \in Row, out' = Append(out, row)
    PROVE  out' \in Seq(Row) /\ Rows' = Rows \cup {row}
<1>1. out' \in Seq(Row) /\ Len(out') = Len(out) + 1 /\ Len(out) \in Nat
  BY AppendProperties
<1>2. \A i \in 1..Len(out) : out'[i] = out[i]
  BY AppendProperties
<1>3. out'[Len(out) + 1] = row
  BY AppendProperties
<1>4. DOMAIN out = 1..Len(out) /\ DOMAIN out' = 1..(Len(out) + 1)
  BY <1>1
<1>5. Rows' \subseteq Rows \cup {row}
  BY <1>1, <1>2, <1>3, <1>4 DEF Rows
<1>6. Rows \subseteq Rows'
  BY <1>1, <1>2, <1>4 DEF Rows
<1>7. row \in Rows'
  BY <1>1, <1>3, <1>4 DEF Rows
<1>. QED BY <1>1, <1>5, <1>6, <1>7

\* The row that a request writes.
LEMMA RowTyped ==
    ASSUME WebTypeOK, NEW q \in Requests
    PROVE  [page |-> newPage[q], id |-> Sent(MailOf(q)), crm |-> None] \in Row
BY NameTyped DEF WebTypeOK, Row, Sent

\* The type invariant is kept by every step of a request.
LEMMA HandlerTypes ==
    ASSUME WebTypeOK, NEW q \in Requests, Trace(q), Handler(q)
    PROVE  WebTypeOK'
<1>. USE WebAssumption, NameTyped DEF WebTypeOK, Steps, Goto, Fails
<1>1. CASE Find(q) BY <1>1 DEF Find
<1>2. CASE CreatePage(q)
  <2>1. 0..MaxPosts \subseteq Nat
    OBVIOUS
  <2>. QED BY <1>2, <2>1 DEF CreatePage
<1>3. CASE SendReply(q) BY <1>3 DEF SendReply
<1>4. CASE Stamp(q)
  <2>1. /\ newPage[q] \in Names /\ success' \subseteq Names
        /\ UNCHANGED <<about, newPage, mails, out, crashes>>
    BY <1>4 DEF Stamp, Trace
  <2>2. stamp' \subseteq Names \X Names
    BY <1>4, <2>1 DEF Stamp, Stamped
  <2>3. pc' \in [Requests -> Steps]
    BY <1>4 DEF Stamp
  <2>. QED BY <2>1, <2>2, <2>3
<1>5. CASE Verify(q) BY <1>5 DEF Verify
<1>6. CASE Record(q)
  <2>1. out' \in {out, Append(out, [page |-> newPage[q], id |-> Sent(MailOf(q)), crm |-> None])}
    BY <1>6 DEF Record
  <2>2. out' \in Seq(Row)
    BY <2>1, RowTyped, AppendRow
  <2>. QED BY <1>6, <2>2 DEF Record
<1>. QED BY <1>1, <1>2, <1>3, <1>4, <1>5, <1>6 DEF Handler

\* A step of request q that leaves the others where they are, undoes no send and no stamp
\* but on q's own row, and drops no row of outbound_messages, keeps their traces.
LEMMA OthersKeep ==
    ASSUME WebTypeOK, Traces, NEW q \in Requests,
           \A p \in Requests \ {q} : /\ pc'[p] = pc[p]
                                    /\ about'[p] = about[p]
                                    /\ newPage'[p] = newPage[p],
           mails \subseteq mails',
           \A s \in stamp : s \in stamp' \/ s[1] = newPage[q],
           Rows \subseteq Rows'
    PROVE  \A p \in Requests \ {q} : Trace(p)'
<1>. SUFFICES ASSUME NEW p \in Requests \ {q} PROVE Trace(p)'
  OBVIOUS
<1>1. Trace(p) /\ Trace(q)
  BY DEF Traces
<1>2. MailOf(p)' = MailOf(p)
  BY DEF MailOf
<1>3. newPage[p] # None => newPage[p] # newPage[q]
  BY <1>1 DEF Trace
<1>4. <<newPage[p], MailOf(p)>>[1] = newPage[p]
  OBVIOUS
<1>5. newPage[p] # None /\ <<newPage[p], MailOf(p)>> \in stamp =>
        <<newPage[p], MailOf(p)>> \in stamp'
  BY <1>3, <1>4
<1>6. (\E r \in Rows : r.page = newPage[p] /\ r.id = Sent(MailOf(p))) =>
        \E r \in Rows' : r.page = newPage'[p] /\ r.id = Sent(MailOf(p))
  OBVIOUS
<1>. QED BY <1>1, <1>2, <1>5, <1>6 DEF Trace, Sent

\* Every step of a request keeps the invariant.
LEMMA HandlerStep ==
    ASSUME WebInv, NEW q \in Requests, Handler(q)
    PROVE  WebInv'
<1>. USE DEF Goto, Fails
<1>1. WebTypeOK /\ WebTypeOK' /\ Traces /\ Trace(q)
  BY HandlerTypes DEF WebInv, Traces
<1>2. \A p \in Requests \ {q} : pc'[p] = pc[p]
  BY <1>1 DEF Handler, Find, CreatePage, SendReply, Stamp, Verify, Record, WebTypeOK
<1>3. \A step : pc' = [pc EXCEPT ![q] = step] => pc'[q] = step
  BY <1>1 DEF WebTypeOK
<1>4. ASSUME UNCHANGED out, UNCHANGED stamp
      PROVE  RowsNamed' /\ RecordedIsStamped' /\ Rows' = Rows
  BY <1>4 DEF WebInv, RowsNamed, RecordedIsStamped, Rows, MailOf
<1>5. MailOf(q)' = MailOf(q)
  BY DEF MailOf
<1>6. CASE Find(q)
  <2>1. UNCHANGED <<about, newPage, success, stamp, mails, out>>
    BY <1>6 DEF Find
  <2>2. pc'[q] \in {"page", "error"} \/ (pc'[q] = "send" /\ about[q] \notin Paged)
    BY <1>3, <1>6 DEF Find
  <2>3. Trace(q)'
    BY <1>1, <1>5, <2>1, <2>2 DEF Trace
  <2>. QED BY <1>1, <1>2, <1>4, <2>1, <2>3, OthersKeep DEF WebInv, Traces
<1>7. CASE CreatePage(q)
  <2>1. UNCHANGED <<about, stamp, mails, out>>
    BY <1>7 DEF CreatePage
  <2>2. PICK n \in 0..MaxPosts :
           \/ n > 0 /\ newPage' = [newPage EXCEPT ![q] = <<q, n>>] /\ pc'[q] = "send"
           \/ newPage' = newPage /\ pc'[q] = "error"
    BY <1>3, <1>7 DEF CreatePage
  <2>3. \A p \in Requests \ {q} : newPage'[p] = newPage[p]
    BY <1>1, <2>2 DEF WebTypeOK
  <2>4. \/ pc'[q] = "error" /\ newPage'[q] = newPage[q]
        \/ pc'[q] = "send" /\ newPage'[q] = <<q, n>> /\ n > 0
    BY <1>1, <2>2 DEF WebTypeOK
  <2>5. n > 0 => <<q, n>> # None
    <3>1. n > 0 => <<q, n>> \in Names
      BY <2>2, NameTyped
    <3>. QED BY <3>1, WebAssumption DEF Names, Owners
  <2>6. Trace(q)'
    BY <1>1, <1>5, <2>1, <2>4, <2>5 DEF Trace
  <2>. QED BY <1>1, <1>2, <1>4, <2>1, <2>3, <2>6, OthersKeep DEF WebInv, Traces
<1>8. CASE SendReply(q)
  <2>1. UNCHANGED <<about, newPage, success, stamp, out>> /\ mails \subseteq mails'
    BY <1>8 DEF SendReply
  <2>2. pc[q] = "send"
    BY <1>8 DEF SendReply
  <2>3. \/ pc'[q] = "error"
        \/ /\ MailOf(q) \in mails'
           /\ pc'[q] = IF newPage[q] = None THEN "record" ELSE "stamp"
    BY <1>3, <1>8 DEF SendReply
  <2>4. Trace(q)'
    BY <1>1, <1>5, <2>1, <2>2, <2>3 DEF Trace
  <2>. QED BY <1>1, <1>2, <1>4, <2>1, <2>4, OthersKeep DEF WebInv, Traces
<1>9. CASE Stamp(q)
  <2>. DEFINE mine == <<newPage[q], MailOf(q)>>
  <2>1. UNCHANGED <<about, newPage, mails, out>> /\ pc[q] = "stamp" /\ newPage[q] # None
    BY <1>1, <1>9 DEF Stamp, Trace
  <2>2. stamp' = stamp \/ stamp' = Stamped(newPage[q], MailOf(q))
    BY <1>9 DEF Stamp
  <2>3. \A s \in stamp : s \in stamp' \/ s[1] = newPage[q]
    BY <2>2 DEF Stamped
  <2>4. \/ pc'[q] = "error"
        \/ pc'[q] = "verify" /\ mine \in stamp'
    BY <1>3, <1>9 DEF Stamp, Stamped
  <2>5. Trace(q)'
    BY <1>1, <1>5, <2>1, <2>4 DEF Trace
  <2>6. Rows' = Rows /\ RowsNamed'
    BY <2>1 DEF Rows, WebInv, RowsNamed, MailOf
  <2>7. RecordedIsStamped'
    <3>. SUFFICES ASSUME NEW r \in Rows, r.page # None
                  PROVE  <<r.page, r.id.of>> \in stamp'
      BY <2>6 DEF RecordedIsStamped
    <3>1. <<r.page, r.id.of>> \in stamp /\ r.id.of = MailOf(r.page[1])
      BY DEF WebInv, RecordedIsStamped, RowsNamed
    <3>2. CASE r.page # newPage[q]
      BY <2>3, <3>1, <3>2
    <3>3. CASE r.page = newPage[q]
      <4>1. r.id.of = MailOf(q)
        BY <1>1, <2>1, <3>1, <3>3 DEF Trace
      <4>2. mine \in Stamped(newPage[q], MailOf(q))
        BY DEF Stamped
      <4>. QED BY <2>2, <3>1, <3>3, <4>1, <4>2
    <3>. QED BY <3>2, <3>3
  <2>. QED BY <1>1, <1>2, <2>1, <2>3, <2>5, <2>6, <2>7, OthersKeep DEF WebInv, Traces
<1>10. CASE Verify(q)
  <2>1. UNCHANGED <<about, newPage, success, stamp, mails, out>>
    BY <1>10 DEF Verify
  <2>2. pc[q] = "verify" /\ pc'[q] \in {"record", "error"}
    BY <1>3, <1>10 DEF Verify
  <2>3. Trace(q)'
    BY <1>1, <1>5, <2>1, <2>2 DEF Trace
  <2>. QED BY <1>1, <1>2, <1>4, <2>1, <2>3, OthersKeep DEF WebInv, Traces
<1>11. CASE Record(q)
  <2>. DEFINE new == [page |-> newPage[q], id |-> Sent(MailOf(q)), crm |-> None]
  <2>1. UNCHANGED <<about, newPage, success, stamp, mails>> /\ pc[q] = "record"
    BY <1>11 DEF Record
  <2>2. \/ out' = out /\ pc'[q] = "error"
        \/ out' = Append(out, new) /\ pc'[q] \in {"ok", "error"}
    BY <1>3, <1>11 DEF Record
  <2>3. CASE out' = out /\ pc'[q] = "error"
    <3>1. Trace(q)'
      BY <1>1, <1>5, <2>1, <2>3 DEF Trace
    <3>. QED BY <1>1, <1>2, <1>4, <2>1, <2>3, <3>1, OthersKeep DEF WebInv, Traces
  <2>4. CASE out' = Append(out, new) /\ pc'[q] \in {"ok", "error"}
    <3>1. out \in Seq(Row)
      BY <1>1 DEF WebTypeOK
    <3>2. Rows' = Rows \cup {new}
      BY <1>1, <2>4, <3>1, RowTyped, AppendRow
    <3>3. new.page = newPage[q] /\ new.id = Sent(MailOf(q)) /\ new.id.of = MailOf(q)
      BY DEF Sent
    <3>4. Trace(q)'
      BY <1>1, <1>5, <2>1, <2>4, <3>2, <3>3 DEF Trace, Sent
    <3>5. RowsNamed'
      BY <1>1, <3>2, <3>3 DEF WebInv, RowsNamed, Trace, MailOf
    <3>6. RecordedIsStamped'
      BY <1>1, <2>1, <3>2, <3>3 DEF WebInv, RecordedIsStamped, Trace
    <3>. QED BY <1>1, <1>2, <2>1, <3>2, <3>4, <3>5, <3>6, OthersKeep DEF WebInv, Traces
  <2>. QED BY <2>2, <2>3, <2>4
<1>. QED BY <1>6, <1>7, <1>8, <1>9, <1>10, <1>11 DEF Handler

\* The request that comes in keeps the invariant.
LEMMA PostStep ==
    ASSUME WebInv, NEW q \in Requests, NEW m \in Msgs, Post(q, m)
    PROVE  WebInv'
<1>1. UNCHANGED <<newPage, success, stamp, mails, out, crashes>>
  BY DEF Post
<1>2. WebTypeOK /\ Traces /\ Trace(q)
  BY DEF WebInv, Traces
<1>3. WebTypeOK' /\ pc'[q] = "find" /\ about'[q] = m
  BY <1>1, <1>2 DEF WebTypeOK, Post, Goto, Steps
<1>4. \A p \in Requests \ {q} : pc'[p] = pc[p] /\ about'[p] = about[p]
  BY <1>2 DEF WebTypeOK, Post, Goto
<1>5. Rows' = Rows /\ RowsNamed' /\ RecordedIsStamped'
  BY <1>1 DEF Rows, WebInv, RowsNamed, RecordedIsStamped, MailOf
<1>6. Trace(q)'
  BY <1>1, <1>2, <1>3 DEF Trace
<1>. QED BY <1>1, <1>2, <1>3, <1>4, <1>5, <1>6, OthersKeep DEF WebInv, Traces

\* So does the death of the API process, which makes errors of the requests under way.
LEMMA ApiCrashStep == ASSUME WebInv, ApiCrash PROVE WebInv'
<1>1. UNCHANGED <<about, newPage, success, stamp, mails, out>> /\ crashes' = crashes + 1
  BY DEF ApiCrash
<1>2. \A q \in Requests : pc'[q] = pc[q] \/ pc'[q] = "error"
  BY DEF ApiCrash
<1>3. pc' \in [Requests -> Steps]
  BY DEF ApiCrash, WebInv, WebTypeOK, Steps
<1>4. WebTypeOK'
  BY <1>1, <1>3 DEF WebInv, WebTypeOK
<1>5. Rows' = Rows /\ RowsNamed' /\ RecordedIsStamped'
  BY <1>1 DEF Rows, WebInv, RowsNamed, RecordedIsStamped, MailOf
<1>6. ASSUME NEW q \in Requests PROVE Trace(q)'
  <2>1. Trace(q) /\ MailOf(q)' = MailOf(q)
    BY DEF WebInv, Traces, MailOf
  <2>. QED BY <1>1, <1>2, <1>5, <2>1 DEF Trace, Sent
<1>. QED BY <1>4, <1>5, <1>6 DEF WebInv, Traces

\* A step of the page alone keeps it.
LEMMA PageStep == ASSUME WebInv, UNCHANGED webVars PROVE WebInv'
<1>1. UNCHANGED <<pc, about, newPage, success, stamp, mails, out, crashes>>
  BY DEF webVars
<1>2. WebTypeOK'
  BY <1>1 DEF WebInv, WebTypeOK
<1>3. Rows' = Rows /\ RowsNamed' /\ RecordedIsStamped'
  BY <1>1 DEF Rows, WebInv, RowsNamed, RecordedIsStamped, MailOf
<1>4. ASSUME NEW q \in Requests PROVE Trace(q)'
  <2>1. Trace(q) /\ MailOf(q)' = MailOf(q)
    BY DEF WebInv, Traces, MailOf
  <2>. QED BY <1>1, <1>3, <2>1 DEF Trace, Sent
<1>. QED BY <1>2, <1>3, <1>4 DEF WebInv, Traces

-----------------------------------------------------------------------------
(* The dialog.                                                               *)

\* The editor is filled only for the dialog that is open and while a message is on show,
\* and from then on it holds no text of another dialog.
OwnEditor ==
    /\ seeded # None => dlg # None /\ shown # None
    /\ dlg # None /\ shown # None => text \subseteq {dlg}

IInv == TypeOK /\ WebInv /\ OwnEditor /\ ClickSendsOwnText

LEMMA InitIInv == Init => IInv
<1>. SUFFICES ASSUME Init PROVE IInv
  OBVIOUS
<1>. USE WebAssumption, DialogAssumption DEF Init, WebInit
<1>1. WebTypeOK
  BY DEF WebTypeOK, Steps
<1>2. TypeOK
  BY <1>1 DEF TypeOK
<1>3. WebInv
  BY <1>1 DEF WebInv, Traces, Trace, RowsNamed, RecordedIsStamped, Rows
<1>4. OwnEditor /\ ClickSendsOwnText
  BY DEF OwnEditor, ClickSendsOwnText
<1>. QED BY <1>2, <1>3, <1>4 DEF IInv

\* Requests under way and the page do not change what was sent off.
LEMMA SentStays ==
    ASSUME ClickSendsOwnText, UNCHANGED <<about, body>> PROVE ClickSendsOwnText'
BY DEF ClickSendsOwnText

\* A step of a request changes nothing on the page, nor what the request answers.
LEMMA ServerStep ==
    ASSUME IInv, NEW q \in Requests, Handler(q), UNCHANGED <<pageVars, editorVars, postVars>>
    PROVE  IInv'
<1>1. WebInv' /\ WebTypeOK'
  BY HandlerStep DEF IInv, WebInv
<1>2. UNCHANGED about
  BY DEF Handler, Find, CreatePage, SendReply, Stamp, Verify, Record
<1>3. TypeOK' /\ OwnEditor' /\ ClickSendsOwnText'
  BY <1>1, <1>2, SentStays DEF IInv, TypeOK, OwnEditor, pageVars, editorVars, postVars
<1>. QED BY <1>1, <1>3 DEF IInv

\* A reply that is sent off takes the text of the editor with it, which a click only does
\* when a message is on show.
LEMMA SendStep ==
    ASSUME IInv, NEW q \in Requests, NEW click \in BOOLEAN, HandleSend(q, click),
           click => shown # None
    PROVE  IInv'
<1>. DEFINE mail == [click |-> click, quote |-> quote, text |-> text]
<1>1. Post(q, dlg) /\ dlg \in Msgs /\ dlg # None
  BY DEF HandleSend, IInv, TypeOK
<1>2. WebInv' /\ WebTypeOK'
  BY <1>1, PostStep DEF IInv, WebInv
<1>3. mail \in Body
  BY DEF Body, IInv, TypeOK
<1>4. TypeOK' /\ OwnEditor'
  BY <1>2, <1>3 DEF HandleSend, IInv, TypeOK, OwnEditor, pageVars, editorVars
<1>5. about'[q] = dlg /\ body'[q] = mail
  BY <1>1 DEF HandleSend, Post, IInv, TypeOK, WebTypeOK
<1>6. \A p \in Requests \ {q} : about'[p] = about[p] /\ body'[p] = body[p]
  BY <1>1 DEF HandleSend, Post, IInv, TypeOK, WebTypeOK
<1>7. click => text \subseteq {dlg}
  BY <1>1 DEF IInv, OwnEditor
<1>8. ClickSendsOwnText'
  BY <1>5, <1>6, <1>7 DEF ClickSendsOwnText, IInv
<1>. QED BY <1>2, <1>4, <1>8 DEF IInv

LEMMA NextIInv == IInv /\ [Next]_vars => IInv'
<1>. SUFFICES ASSUME IInv, [Next]_vars PROVE IInv'
  OBVIOUS
<1>. USE DialogAssumption, WebAssumption
<1>a. ASSUME UNCHANGED webVars PROVE WebInv' /\ WebTypeOK' /\ UNCHANGED about
  BY <1>a, PageStep DEF IInv, WebInv, webVars
<1>1. ASSUME NEW m \in Msgs, OpenReply(m) PROVE IInv'
  <2>1. UNCHANGED <<webVars, editorVars, postVars>>
    BY <1>1 DEF OpenReply
  <2>2. TypeOK' /\ OwnEditor' /\ ClickSendsOwnText'
    BY <1>1, <1>a, <2>1, SentStays
       DEF OpenReply, IInv, TypeOK, OwnEditor, editorVars, postVars
  <2>. QED BY <1>a, <2>1, <2>2 DEF IInv
<1>2. ASSUME NEW m \in Msgs, GraphMessage(m) PROVE IInv'
  <2>1. UNCHANGED <<webVars, dlg, opens, postVars>>
    BY <1>2 DEF GraphMessage
  <2>2. PICK msg \in {m, "failed"} : shown' = msg /\ Seed(msg)
    BY <1>2 DEF GraphMessage
  <2>3. fetching' \in [Msgs -> Nat]
    BY <1>2 DEF GraphMessage, IInv, TypeOK
  <2>4. msg # None /\ msg \in Msgs \cup {"failed"}
    BY <2>2
  <2>5. seeded' \in (Msgs \X (Msgs \cup {"failed"})) \cup {None} /\ quote' \in Msgs \cup {None}
          /\ text' \subseteq Msgs
    BY <2>2, <2>4 DEF Seed, editorVars, IInv, TypeOK
  <2>6. TypeOK'
    BY <1>a, <2>1, <2>2, <2>3, <2>4, <2>5 DEF IInv, TypeOK, postVars
  <2>7. OwnEditor'
    <3>1. dlg # None => dlg \in Msgs /\ <<dlg, msg>> # None
      BY <2>4 DEF IInv, TypeOK
    <3>. QED BY <2>1, <2>2, <2>4, <3>1 DEF Seed, editorVars, IInv, OwnEditor
  <2>8. ClickSendsOwnText'
    BY <1>a, <2>1, SentStays DEF IInv, postVars
  <2>. QED BY <1>a, <2>1, <2>6, <2>7, <2>8 DEF IInv
<1>3. CASE Type
  <2>1. UNCHANGED <<webVars, pageVars, seeded, quote, postVars>>
    BY <1>3 DEF Type
  <2>2. TypeOK' /\ OwnEditor' /\ ClickSendsOwnText'
    BY <1>3, <1>a, <2>1, SentStays DEF Type, IInv, TypeOK, OwnEditor, pageVars, postVars
  <2>. QED BY <1>a, <2>1, <2>2 DEF IInv
<1>4. CASE Close
  <2>1. UNCHANGED <<webVars, fetching, opens, quote, text, waiting, listing, body>>
    BY <1>4 DEF Close
  <2>2. TypeOK' /\ OwnEditor' /\ ClickSendsOwnText'
    BY <1>4, <1>a, <2>1, SentStays DEF Close, Closed, IInv, TypeOK, OwnEditor
  <2>. QED BY <1>a, <2>1, <2>2 DEF IInv
<1>5. ASSUME NEW q \in Requests, Answer(q) PROVE IInv'
  <2>1. UNCHANGED <<webVars, fetching, opens, quote, text>> /\ waiting' \subseteq waiting
    BY <1>5 DEF Answer
  <2>2. body' = [body EXCEPT ![q] = None]
    BY <1>5 DEF Answer
  <2>3. body' \in [Requests -> Body \cup {None}]
    BY <2>2 DEF IInv, TypeOK
  <2>4. \A p \in Requests : body'[p] = None \/ body'[p] = body[p]
    BY <2>2 DEF IInv, TypeOK
  <2>5. \/ dlg' = None /\ shown' = None /\ seeded' = None /\ sending' = FALSE
        \/ UNCHANGED <<dlg, shown, seeded>> /\ sending' = FALSE
    BY <1>5 DEF Answer, Closed
  <2>6. listing' \subseteq Requests
    BY <1>5 DEF Answer, IInv, TypeOK
  <2>7. TypeOK' /\ OwnEditor'
    BY <1>a, <2>1, <2>3, <2>5, <2>6 DEF IInv, TypeOK, OwnEditor
  <2>8. ClickSendsOwnText'
    BY <1>a, <2>1, <2>4 DEF IInv, ClickSendsOwnText
  <2>. QED BY <1>a, <2>1, <2>7, <2>8 DEF IInv
<1>6. ASSUME NEW q \in Requests, ClickSend(q) PROVE IInv'
  BY <1>6, SendStep DEF ClickSend
<1>7. ASSUME NEW q \in Requests, KeySend(q) PROVE IInv'
  BY <1>7, SendStep DEF KeySend
<1>8. CASE ApiCrash /\ UNCHANGED <<pageVars, editorVars, postVars>>
  <2>1. WebInv' /\ WebTypeOK' /\ UNCHANGED about
    BY <1>8, ApiCrashStep DEF IInv, WebInv, ApiCrash
  <2>2. TypeOK' /\ OwnEditor' /\ ClickSendsOwnText'
    BY <1>8, <2>1, SentStays DEF IInv, TypeOK, OwnEditor, pageVars, editorVars, postVars
  <2>. QED BY <2>1, <2>2 DEF IInv
<1>9. CASE UNCHANGED vars
  <2>1. UNCHANGED <<webVars, pageVars, editorVars, postVars>>
    BY <1>9 DEF vars
  <2>2. TypeOK' /\ OwnEditor' /\ ClickSendsOwnText'
    BY <1>a, <2>1, SentStays DEF IInv, TypeOK, OwnEditor, pageVars, editorVars, postVars
  <2>. QED BY <1>a, <2>1, <2>2 DEF IInv
<1>10. ASSUME NEW q \in Requests, Listed(q) PROVE IInv'
  <2>1. UNCHANGED <<webVars, pageVars, editorVars, waiting, body>>
    BY <1>10 DEF Listed
  <2>2. sending' = FALSE /\ listing' \subseteq Requests
    BY <1>10 DEF Listed, IInv, TypeOK
  <2>3. TypeOK' /\ OwnEditor' /\ ClickSendsOwnText'
    BY <1>a, <2>1, <2>2, SentStays DEF IInv, TypeOK, OwnEditor, pageVars, editorVars
  <2>. QED BY <1>a, <2>1, <2>3 DEF IInv
<1>. QED
  BY <1>1, <1>2, <1>3, <1>4, <1>5, <1>6, <1>7, <1>8, <1>9, <1>10, ServerStep DEF Next, Progress

LEMMA IInvAlways == Spec => []IInv
BY InitIInv, NextIInv, PTL DEF Spec

-----------------------------------------------------------------------------
\* The browser and the server stay within their types.
THEOREM DialogTypes == Spec => []TypeOK
<1>1. IInv => TypeOK BY DEF IInv
<1>. QED BY IInvAlways, <1>1, PTL

\* Whatever fails, a reply that is reported as sent is out, recorded under the Notion row
\* that was made for it, and named by that row.
THEOREM ReportIsTrue == Spec => []ReportedIsDone
<1>1. WebInv => ReportedIsDone
  BY DEF WebInv, Traces, Trace, ReportedIsDone
<1>2. IInv => ReportedIsDone BY <1>1 DEF IInv
<1>. QED BY IInvAlways, <1>2, PTL

\* No mail is recorded under a Notion row that does not name it, however many requests
\* are under way.
THEOREM RecordFollowsStamp == Spec => []RecordedIsStamped
<1>1. IInv => RecordedIsStamped BY DEF IInv, WebInv
<1>. QED BY IInvAlways, <1>1, PTL

\* A click never sends what was typed for another row, however late messages come and
\* however often dialogs are closed while a reply is under way.
THEOREM ClicksAreSafe == Spec => []ClickSendsOwnText
<1>1. IInv => ClickSendsOwnText BY DEF IInv
<1>. QED BY IInvAlways, <1>1, PTL

-----------------------------------------------------------------------------
(* What SendingEnds and EditorComes rest on: the dialog never waits for nothing.         *)

\* A dialog at Sending waits for a request of its own row that was made.
SendingIsOwed ==
    sending => dlg # None /\ \E q \in waiting : about[q] = dlg

\* A dialog without a message waits for that of its own row.
EditorIsOwed == dlg # None /\ shown = None => fetching[dlg] > 0

OwedInv == SendingIsOwed /\ EditorIsOwed /\ \A q \in waiting : pc[q] # "unused"

\* How far a request is from its answer.
Height == [unused |-> 7, find |-> 6, page |-> 5, send |-> 4, stamp |-> 3, verify |-> 2,
           record |-> 1, ok |-> 0, error |-> 0]

\* A request only goes forward, and forgets nothing about the row it answers.
RequestAdvances(q) ==
    \/ UNCHANGED <<pc[q], about[q]>>
    \/ Height[pc'[q]] < Height[pc[q]] /\ (pc[q] = "unused" \/ about'[q] = about[q])

\* A step of a request brings it forward.
LEMMA HandlerForward ==
    ASSUME WebTypeOK, NEW q \in Requests, Handler(q)
    PROVE  /\ \A p \in Requests : RequestAdvances(p)
           /\ UNCHANGED about
           /\ \A p \in Requests : pc[p] # "unused" => pc'[p] # "unused"
<1>. USE DEF WebTypeOK, Goto, Fails, RequestAdvances, Height, Steps
<1>1. CASE Find(q) BY <1>1 DEF Find
<1>2. CASE CreatePage(q) BY <1>2 DEF CreatePage
<1>3. CASE SendReply(q) BY <1>3 DEF SendReply
<1>4. CASE Stamp(q) BY <1>4 DEF Stamp
<1>5. CASE Verify(q) BY <1>5 DEF Verify
<1>6. CASE Record(q) BY <1>6 DEF Record
<1>. QED BY <1>1, <1>2, <1>3, <1>4, <1>5, <1>6 DEF Handler

\* Every step of the browser and the server brings the requests forward or leaves them.
LEMMA NextForward ==
    IInv /\ [Next]_vars =>
        /\ \A q \in Requests : RequestAdvances(q)
        /\ \A q \in Requests : pc[q] # "unused" => pc'[q] # "unused" /\ about'[q] = about[q]
<1>. SUFFICES ASSUME IInv, [Next]_vars
              PROVE  /\ \A q \in Requests : RequestAdvances(q)
                     /\ \A q \in Requests : pc[q] # "unused" =>
                            pc'[q] # "unused" /\ about'[q] = about[q]
  OBVIOUS
<1>0. WebTypeOK
  BY DEF IInv, WebInv
<1>1. ASSUME NEW p \in Requests, Handler(p)
      PROVE  /\ \A q \in Requests : RequestAdvances(q)
             /\ \A q \in Requests : pc[q] # "unused" =>
                    pc'[q] # "unused" /\ about'[q] = about[q]
  BY <1>0, <1>1, HandlerForward
<1>2. ASSUME NEW p \in Requests, NEW m, Post(p, m)
      PROVE  /\ \A q \in Requests : RequestAdvances(q)
             /\ \A q \in Requests : pc[q] # "unused" =>
                    pc'[q] # "unused" /\ about'[q] = about[q]
  BY <1>0, <1>2 DEF Post, Goto, RequestAdvances, Height, WebTypeOK
<1>3. ASSUME ApiCrash
      PROVE  /\ \A q \in Requests : RequestAdvances(q)
             /\ \A q \in Requests : pc[q] # "unused" =>
                    pc'[q] # "unused" /\ about'[q] = about[q]
  BY <1>0, <1>3 DEF ApiCrash, RequestAdvances, Height, WebTypeOK, Ended, Steps
<1>4. ASSUME UNCHANGED <<pc, about>>
      PROVE  /\ \A q \in Requests : RequestAdvances(q)
             /\ \A q \in Requests : pc[q] # "unused" =>
                    pc'[q] # "unused" /\ about'[q] = about[q]
  BY <1>4 DEF RequestAdvances
<1>5. \/ \E p \in Requests : Handler(p)
      \/ \E p \in Requests : Post(p, dlg)
      \/ ApiCrash
      \/ UNCHANGED <<pc, about>>
  BY DEF Next, Progress, GraphMessage, OpenReply, Type, Close, Answer, Listed, ClickSend,
         KeySend, HandleSend, webVars, vars
<1>. QED BY <1>1, <1>2, <1>3, <1>4, <1>5

\* Every step keeps OwedInv.
LEMMA NextOwed == IInv /\ OwedInv /\ [Next]_vars => OwedInv'
<1>. SUFFICES ASSUME IInv, OwedInv, [Next]_vars PROVE OwedInv'
  OBVIOUS
<1>. USE WebAssumption, DialogAssumption
<1>t. /\ dlg \in Msgs \cup {None} /\ fetching \in [Msgs -> Nat] /\ waiting \subseteq Requests
      /\ pc \in [Requests -> Steps] /\ about \in [Requests -> Msgs \cup {None}]
  BY DEF IInv, TypeOK, WebTypeOK
<1>w. \A q \in waiting : pc'[q] # "unused" /\ about'[q] = about[q]
  BY <1>t, NextForward DEF OwedInv
<1>1. ASSUME UNCHANGED <<sending, dlg, shown, fetching, waiting>> PROVE OwedInv'
  BY <1>1, <1>w DEF OwedInv, SendingIsOwed, EditorIsOwed
<1>2. ASSUME NEW m \in Msgs, OpenReply(m) PROVE OwedInv'
  <2>1. dlg = None /\ ~sending /\ dlg' = m /\ UNCHANGED <<sending, waiting>>
    BY <1>2 DEF OpenReply, postVars, OwedInv, SendingIsOwed
  <2>2. fetching'[m] > 0
    BY <1>2, <1>t DEF OpenReply
  <2>. QED BY <1>w, <2>1, <2>2 DEF OwedInv, SendingIsOwed, EditorIsOwed
<1>3. ASSUME NEW m \in Msgs, GraphMessage(m) PROVE OwedInv'
  <2>1. UNCHANGED <<dlg, sending, waiting>> /\ shown' # None
    BY <1>3 DEF GraphMessage, postVars
  <2>. QED BY <1>w, <2>1 DEF OwedInv, SendingIsOwed, EditorIsOwed
<1>4. CASE Close
  <2>1. dlg' = None /\ sending' = FALSE /\ waiting' = waiting
    BY <1>4 DEF Close, Closed
  <2>. QED BY <1>w, <2>1 DEF OwedInv, SendingIsOwed, EditorIsOwed
<1>5. ASSUME NEW q \in Requests, Answer(q) PROVE OwedInv'
  <2>1. /\ sending' = FALSE /\ waiting' \subseteq waiting /\ fetching' = fetching
        /\ dlg' = None \/ UNCHANGED <<dlg, shown>>
    BY <1>5 DEF Answer, Closed
  <2>. QED BY <1>w, <2>1 DEF OwedInv, SendingIsOwed, EditorIsOwed
<1>6. ASSUME NEW q \in Requests, ClickSend(q) \/ KeySend(q) PROVE OwedInv'
  <2>1. /\ dlg # None /\ Post(q, dlg) /\ UNCHANGED <<dlg, shown, fetching>>
        /\ waiting' = waiting \cup {q}
    BY <1>6 DEF ClickSend, KeySend, HandleSend, pageVars
  <2>2. about'[q] = dlg /\ pc'[q] = "find"
    BY <1>t, <2>1 DEF Post, Goto
  <2>. QED BY <1>w, <2>1, <2>2 DEF OwedInv, SendingIsOwed, EditorIsOwed
<1>7. ASSUME Type \/ UNCHANGED vars \/ UNCHANGED <<pageVars, editorVars, postVars>>
      PROVE  OwedInv'
  BY <1>1, <1>7 DEF Type, pageVars, editorVars, postVars, vars
<1>8. ASSUME NEW q \in Requests, Listed(q) PROVE OwedInv'
  <2>1. sending' = FALSE /\ UNCHANGED <<dlg, shown, fetching, waiting>>
    BY <1>8 DEF Listed, pageVars
  <2>. QED BY <1>w, <2>1 DEF OwedInv, SendingIsOwed, EditorIsOwed
<1>. QED BY <1>1, <1>2, <1>3, <1>4, <1>5, <1>6, <1>7, <1>8 DEF Next, Progress

\* Whatever fails and in whatever order the answers come, a dialog at Sending waits for a
\* request of its own row, and one without an editor for its own message: handleSend lowers
\* the flag in its finally, and openReply shows its failures.  And each step of a request
\* brings it nearer to its answer.  What SendingEnds and EditorComes add is that these
\* steps are taken.
THEOREM NoWaitForNothing ==
    Spec => /\ [](SendingIsOwed /\ EditorIsOwed)
            /\ [][\A q \in Requests : RequestAdvances(q)]_vars
<1>1. Init => OwedInv
  BY WebAssumption DEF Init, OwedInv, SendingIsOwed, EditorIsOwed
<1>2. OwedInv => SendingIsOwed /\ EditorIsOwed
  BY DEF OwedInv
<1>3. IInv /\ [Next]_vars => [\A q \in Requests : RequestAdvances(q)]_vars
  BY NextForward
<1>. QED BY IInvAlways, NextOwed, <1>1, <1>2, <1>3, PTL DEF Spec

=============================================================================

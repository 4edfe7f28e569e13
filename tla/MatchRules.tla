----------------------------- MODULE MatchRules -----------------------------
(***************************************************************************)
(* By which rules an incoming mail is held for the answer to an outgoing    *)
(* one, or for its bounce: reply-matcher, bounce-matcher and                *)
(* legacy-outbound-match, with the text rules of bounce-detector.           *)
(* MatchPipeline takes their outcome as given.                              *)
(*                                                                          *)
(* One mail is looked up, in three queries one after the other, while rows  *)
(* of outbound_messages are added and written over.  A text is reduced to what the regular   *)
(* expressions see of it: a subject to its leading Re: or Fwd: marks and    *)
(* the rest, the text of a bounce to the addresses in it.                   *)
(***************************************************************************)
EXTENDS Naturals, Sequences

CONSTANTS
    Boxes,      \* our mailboxes
    Addresses,  \* mail addresses
    BoxAddress, \* BoxAddress[b]: the address of b
    Daemons,    \* addresses of mail systems: mailer-daemon, postmaster, noreply
    Threads,    \* Graph conversations
    NoThread,   \* conversationId is empty
    Legacy,     \* conversationId of a row that the backfill script made up
    Texts, NoText, \* subjects without marks, and the empty one
    Within,     \* pairs of texts, the first part of the second
    Mails,      \* mails that may come in
    Rows,       \* rows that outbound_messages may hold, in all their versions
    Strips,     \* marks that normalizeThreadSubject takes off: 6 in the code
    RelaxedSubject, \* LEGACY_MATCH_RELAXED_SUBJECT
    LegacyAge, BounceAge, \* how old an outgoing mail may be, 0 for no limit
    MaxWrites,  \* bound: rows added or written over during the lookup
    NoRow

Subjects == [marks : Nat, text : Texts \cup {NoText}]

MailType ==
    [box : Boxes, thread : Threads \cup {NoThread}, subject : Subjects, at : Nat,
     from : Addresses, to : SUBSET Addresses,
     bounce : BOOLEAN,         \* sender, subject or preview tell that it is one
     named : Seq(Addresses),   \* those that the phrases of a bounce name
     mentioned : Seq(Addresses)]  \* all that subject and preview contain

RowType ==
    [id : Nat, box : Boxes, thread : Threads \cup {Legacy}, subject : Subjects,
     sent : Nat, to : SUBSET Addresses]

ASSUME RulesAssumption ==
    /\ BoxAddress \in [Boxes -> Addresses]
    /\ Mails \subseteq MailType
    /\ Rows \subseteq RowType
    /\ Legacy \notin Threads /\ NoThread \notin Threads
    /\ NoRow \notin Rows
    /\ Strips \in Nat /\ LegacyAge \in Nat /\ BounceAge \in Nat /\ MaxWrites \in Nat

VARIABLES
    inbox,      \* the row of inbox_messages
    outbound,   \* outbound_messages
    before,     \* (history) outbound_messages when the lookup began
    touched,    \* (history) rows added or written over since, as they were and as they are
    writes,     \* such writes so far
    pc,
    method,     \* of MatchResult
    hit         \* the row that is named, or NoRow

vars == <<inbox, outbound, before, touched, writes, pc, method, hit>>

Methods == {"none", "conversation", "bounce_recipient", "legacy_heuristic"}

TypeOK ==
    /\ inbox \in Mails
    /\ outbound \subseteq Rows
    /\ before \subseteq Rows
    /\ touched \subseteq Rows
    /\ writes \in 0..MaxWrites
    /\ pc \in {"conversation", "recipient", "legacy", "done"}
    /\ method \in Methods
    /\ hit \in outbound \cup {NoRow}
    /\ hit = NoRow <=> method = "none"

-----------------------------------------------------------------------------
(* Bounces.                                                                  *)

\* The lookup detects bounces by sender, subject and text.  The worker, which decides what
\* to make of the mail, looks at its headers too.
DetectBounce(m) == m.bounce

\* What is left are addresses of people.
Ignored(m, a) == a \in Daemons \/ a = BoxAddress[m.box]
People(m, s) == SelectSeq(s, LAMBDA a : ~Ignored(m, a))

\* The addresses that the phrases name, and all others only if they name none.
FailedRecipients(m) ==
    IF People(m, m.named) # <<>> THEN People(m, m.named) ELSE People(m, m.mentioned)

-----------------------------------------------------------------------------
(* What fits.                                                                *)

NormalizeThreadSubject(s) ==
    [marks |-> IF s.marks > Strips THEN s.marks - Strips ELSE 0, text |-> s.text]

IsEmpty(s) == s.marks = 0 /\ s.text = NoText

\* s is part of t: marks are only in front of a text.
Includes(t, s) ==
    \/ s.text = t.text /\ s.marks <= t.marks
    \/ s.marks = 0 /\ <<s.text, t.text>> \in Within

SubjectsMatch(s, t) ==
    LET a == NormalizeThreadSubject(s)
        b == NormalizeThreadSubject(t)
    IN  /\ ~IsEmpty(a) /\ ~IsEmpty(b)
        /\ a = b \/ (RelaxedSubject /\ (Includes(a, b) \/ Includes(b, a)))

\* The sender is one of those that the mail went to, and the answer is for the mailbox, if
\* it names anyone.
PartyMatches(m, row) ==
    /\ m.from \in row.to
    /\ m.to = {} \/ BoxAddress[m.box] \in m.to

LegacyFits(m, row) ==
    /\ row.box = m.box
    /\ row.thread = Legacy
    /\ row.sent < m.at
    /\ LegacyAge > 0 => m.at - row.sent <= LegacyAge
    /\ SubjectsMatch(m.subject, row.subject)
    /\ PartyMatches(m, row)

SentInWindow(m, row) ==
    /\ row.box = m.box
    /\ row.sent < m.at
    /\ BounceAge > 0 => m.at < row.sent + BounceAge

\* (mutant) The order of the sort is the wrong way round.
Oldest(rows) == {r \in rows : \A q \in rows : r.sent <= q.sent}

Newest(rows) == {r \in rows : \A q \in rows : q.sent <= r.sent}

\* (mutant) A tie is not looked for.
AnyNewest(rows, r) == r \in Newest(rows)

\* pickUniqueNewest names r: two mails sent at once are ambiguous.
IsUniqueNewest(rows, r) == Newest(rows) = {r}

-----------------------------------------------------------------------------
Init ==
    /\ inbox \in Mails
    /\ outbound \in {S \in SUBSET Rows : \A r, q \in S : r.id = q.id => r = q}
    /\ before = outbound
    /\ touched = {}
    /\ writes = 0
    /\ pc = "conversation"
    /\ method = "none"
    /\ hit = NoRow

Name(how, row) == method' = how /\ hit' = row /\ pc' = "done"

GoOn(to) == pc' = to /\ UNCHANGED <<method, hit>>

InThread == {r \in outbound : r.thread = inbox.thread}

\* The newest mail of the conversation, whatever mailbox sent it and when.  If there is
\* none, what follows depends on the mail being a bounce.
ByConversation ==
    /\ pc = "conversation"
    /\ \/ \E row \in Newest(InThread) : Name("conversation", row)
       \/ /\ InThread = {}
          /\ GoOn(IF DetectBounce(inbox) THEN "recipient" ELSE "legacy")
    /\ UNCHANGED <<inbox, outbound, before, touched, writes>>

SentTo(a) == {r \in outbound : SentInWindow(inbox, r) /\ a \in r.to}

Settles(a) == \E row \in Rows : IsUniqueNewest(SentTo(a), row)

\* (mutant) An ambiguous recipient ends the search.
ByFirstRecipient ==
    LET failed == FailedRecipients(inbox)
    IN  /\ pc = "recipient"
        /\ IF \E i \in DOMAIN failed : SentTo(failed[i]) # {}
           THEN \E i \in DOMAIN failed :
                    /\ SentTo(failed[i]) # {}
                    /\ \A j \in 1..(i - 1) : SentTo(failed[j]) = {}
                    /\ IF Settles(failed[i])
                       THEN \E row \in Newest(SentTo(failed[i])) : Name("bounce_recipient", row)
                       ELSE GoOn("legacy")
           ELSE GoOn("legacy")
        /\ UNCHANGED <<inbox, outbound, before, touched, writes>>

\* The first of the failed recipients for whom one mail is the newest.
ByRecipient ==
    LET failed == FailedRecipients(inbox)
    IN  /\ pc = "recipient"
        /\ \/ \E i \in DOMAIN failed, row \in outbound :
                /\ IsUniqueNewest(SentTo(failed[i]), row)
                /\ \A j \in 1..(i - 1) : ~Settles(failed[j])
                /\ Name("bounce_recipient", row)
           \/ (\A i \in DOMAIN failed : ~Settles(failed[i])) /\ GoOn("legacy")
        /\ UNCHANGED <<inbox, outbound, before, touched, writes>>

LegacyHits == {r \in outbound : LegacyFits(inbox, r)}

\* (mutant) An ambiguous lookup counts as a match.
HeuristicsUnlessNone ==
    /\ pc = "legacy"
    /\ \/ \E row \in outbound :
            IsUniqueNewest(LegacyHits, row) /\ Name("legacy_heuristic", row)
       \/ /\ \A row \in outbound : ~IsUniqueNewest(LegacyHits, row)
          /\ IF LegacyHits = {} THEN GoOn("done") ELSE Name("legacy_heuristic", NoRow)
    /\ UNCHANGED <<inbox, outbound, before, touched, writes>>

\* The one newest of the rows that fit, if there is one.
ByHeuristics ==
    /\ pc = "legacy"
    /\ \/ \E row \in outbound :
            IsUniqueNewest(LegacyHits, row) /\ Name("legacy_heuristic", row)
       \/ (\A row \in outbound : ~IsUniqueNewest(LegacyHits, row)) /\ GoOn("done")
    /\ UNCHANGED <<inbox, outbound, before, touched, writes>>

\* Meanwhile the send worker records a mail, or the backfill script one of long ago.
Record ==
    /\ pc # "done" /\ writes < MaxWrites
    /\ writes' = writes + 1
    /\ \E row \in Rows :
        /\ \A r \in outbound : r.id # row.id
        /\ outbound' = outbound \cup {row}
        /\ touched' = touched \cup {row}
    /\ UNCHANGED <<inbox, before, pc, method, hit>>

\* Or the backfill writes over a row of that mailbox: conversation, subject, recipients and
\* time become those that it has read or looked up, or a placeholder and a guess of the time.
Update ==
    /\ pc # "done" /\ writes < MaxWrites
    /\ writes' = writes + 1
    /\ \E old \in outbound, row \in Rows :
        /\ row.id = old.id /\ row.box = old.box
        /\ outbound' = (outbound \ {old}) \cup {row}
        /\ touched' = touched \cup {old, row}
    /\ UNCHANGED <<inbox, before, pc, method, hit>>

Next == ByConversation \/ ByRecipient \/ ByHeuristics \/ Record \/ Update

Spec == Init /\ [][Next]_vars

-----------------------------------------------------------------------------
(* Properties.                                                               *)

\* The rows that the lookup finds as they are whenever it looks.
Standing == before \ touched

\* The conversation comes first: if a mail of it stands in the table, that mail or one as
\* new is named, and no guess (resolveInboundOutboundMatch).
ThreadComesFirst ==
    \A r \in Standing : pc = "done" /\ r.thread = inbox.thread =>
        method = "conversation" /\ hit.thread = inbox.thread /\ r.sent <= hit.sent

\* The address by which a guess is made.
Reached(a) ==
    \/ method = "legacy_heuristic" /\ a = inbox.from
    \/ method = "bounce_recipient" /\ \E i \in DOMAIN FailedRecipients(inbox) :
                                            a = FailedRecipients(inbox)[i]

\* A guess names a mail that this mailbox sent before the answer came and that went to the
\* one who answers or who was not reached, and none that would do as well, and stands in the
\* table, is as new: of a bounce any mail to that recipient, of an answer any placeholder
\* whose subject fits (findBounceOutboundMatch, resolveLegacyOutboundMatch).
GuessIsSafe ==
    method \in {"bounce_recipient", "legacy_heuristic"} =>
        /\ hit.box = inbox.box /\ hit.sent < inbox.at
        /\ \E a \in hit.to :
            /\ Reached(a)
            /\ \A r \in Standing :
                /\ r.box = inbox.box /\ a \in r.to /\ r.sent < inbox.at
                /\ method = "legacy_heuristic" =>
                        r.thread = Legacy /\ SubjectsMatch(inbox.subject, r.subject)
                => r = hit \/ r.sent < hit.sent

\* A bounce is traced: if the sender, the subject or the text tell it, and they name a
\* recipient to whom one mail is the newest of those in the window, then it is not ignored,
\* unless a row of that recipient is added or written over meanwhile
\* (extractFailedRecipientEmails, findBounceOutboundMatch).
BounceIsTraced ==
    pc = "done" /\ DetectBounce(inbox) /\ hit = NoRow =>
        \A i \in DOMAIN FailedRecipients(inbox) :
            LET sent(S) == {r \in S : SentInWindow(inbox, r) /\ FailedRecipients(inbox)[i] \in r.to}
            IN  sent(touched) = {} => \A row \in Rows : Newest(sent(before)) # {row}

=============================================================================

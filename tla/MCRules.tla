------------------------------ MODULE MCRules ------------------------------
(* Instances of MatchRules for TLC.                                          *)
EXTENDS MatchRules

CONSTANTS b1, b2, own, cust, other, daemon, t1, offer, offers

OwnAddress == [b \in Boxes |-> IF b = b1 THEN own ELSE other]

Subject(n, x) == [marks |-> n, text |-> x]

Row(i, b, t, n, s, to) ==
    [id |-> i, box |-> b, thread |-> t, subject |-> Subject(n, offer), sent |-> s, to |-> to]

\* Rows of a conversation, by two mailboxes; rows of the backfill script that are as new as
\* one another; one of another mailbox.  Two rows may be the ones of the backfill script or,
\* under the same id, what they become when it finds the mail in Sent Items.
SomeRows ==
    {Row(1, b1, t1, 0, 1, {cust}),
     Row(2, b2, t1, 1, 3, {other}),
     Row(1, b1, Legacy, 0, 1, {cust}),
     Row(4, b1, Legacy, 1, 2, {cust, other}),
     Row(5, b1, Legacy, 0, 2, {cust}),
     Row(5, b1, t1, 0, 1, {cust}),
     Row(6, b2, Legacy, 0, 2, {cust}),
     Row(7, b1, Legacy, 7, 2, {other})}

\* Answers and bounces: in the conversation or out of it, with marks up to and above the
\* limit, to the mailbox or to somebody else.
SomeMails ==
    {[box |-> b1, thread |-> t, subject |-> s, at |-> 3, from |-> f, to |-> to,
      bounce |-> n # <<>>, named |-> n, mentioned |-> n \o <<own, cust>>] :
        t \in {t1, NoThread}, s \in {Subject(1, offer), Subject(7, offer), Subject(0, offers)},
        f \in {cust, daemon}, to \in {{}, {own}, {other}},
        n \in {<<>>, <<daemon>>, <<other, cust>>}}

OfferInOffers == {<<offer, offers>>}

=============================================================================

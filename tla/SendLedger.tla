----------------------------- MODULE SendLedger -----------------------------
(***************************************************************************)
(* What the send pipeline promises its readers, whatever fails: a ledger of *)
(* mails.  Mails that are out stay out; each entry of the ledger stands for *)
(* one mail that is out, no mail is entered twice and no entry is lost; and  *)
(* success is announced only for a row of Notion that has an entry.  It does *)
(* not promise that a row is mailed once, nor that every mail is entered.    *)
(***************************************************************************)
VARIABLES
    mails,      \* mails that are out
    ledger,     \* entries [page, mail]
    announced   \* rows announced as sent

vars == <<mails, ledger, announced>>

Init ==
    /\ mails = {}
    /\ ledger = {}
    /\ announced = {}

Deliver ==
    /\ mails \subseteq mails'
    /\ UNCHANGED <<ledger, announced>>

Enter(e) ==
    /\ e.mail \in mails
    /\ \A other \in ledger : other.mail # e.mail
    /\ ledger' = ledger \cup {e}
    /\ UNCHANGED <<mails, announced>>

Announce(p) ==
    /\ \E e \in ledger : e.page = p
    /\ announced' = announced \cup {p}
    /\ UNCHANGED <<mails, ledger>>

\* A row is opened again, or a later run of its job overwrites the outcome.
Withdraw(p) ==
    /\ announced' = announced \ {p}
    /\ UNCHANGED <<mails, ledger>>

Next ==
    \/ Deliver
    \/ \E e \in ledger' \ ledger : Enter(e)
    \/ \E p \in announced' \ announced : Announce(p)
    \/ \E p \in announced \ announced' : Withdraw(p)

Spec == Init /\ [][Next]_vars

=============================================================================

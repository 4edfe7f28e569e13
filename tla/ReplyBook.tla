----------------------------- MODULE ReplyBook ------------------------------
(***************************************************************************)
(* What the match pipeline promises about inbound mail: each mail is open    *)
(* until it gets a verdict, a verdict is final, and a reply is shown in       *)
(* Notion at most once, and only under the verdict "matched".  It does not    *)
(* promise that every mail gets a verdict, nor that every reply is shown.     *)
(***************************************************************************)
EXTENDS Naturals

CONSTANTS
    Mails,
    Copies      \* rows that Notion may make of one request to show a reply

VARIABLES
    book,       \* book[m]: the verdict on mail m
    shown       \* shown[m]: rows of Notion that show m

vars == <<book, shown>>

Verdicts == {"matched", "bounce", "auto_reply"}

Init ==
    /\ book = [m \in Mails |-> "open"]
    /\ shown = [m \in Mails |-> 0]

Decide(m, v) ==
    /\ book[m] = "open"
    /\ book' = [book EXCEPT ![m] = v]
    /\ UNCHANGED shown

Show(m, n) ==
    /\ book[m] = "matched"
    /\ shown[m] = 0
    /\ shown' = [shown EXCEPT ![m] = n]
    /\ UNCHANGED book

Next ==
    \E m \in Mails :
        \/ \E v \in Verdicts : Decide(m, v)
        \/ \E n \in 1..Copies : Show(m, n)

Spec == Init /\ [][Next]_vars

=============================================================================

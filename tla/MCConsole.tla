------------------------------ MODULE MCConsole ------------------------------
(* Instances of ReplyDialog for TLC.                                         *)
EXTENDS ReplyDialog

CONSTANTS q1, q2, m1, m2

TwoRequests == {q1, q2}
TwoRows == {m1, m2}

\* The first row answers a mail with a Notion row, the second one without.
PagedM1 == {m1}

=============================================================================

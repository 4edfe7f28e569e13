------------------------------- MODULE MCSend -------------------------------
(* Instances of SendPipeline for TLC.                                        *)
EXTENDS SendPipeline

CONSTANTS p1, p2, p3

OneRow == {p1}
ThreeRows == {p1, p2, p3}
NoReply == {}
ReplyP3 == {p3}

\* Every row has a subject and a recipient of its own.
OwnKeys == [p \in Pages |-> p]
\* The first two rows write to the same person under the same subject.
SharedKey == [p \in Pages |-> IF p = p3 THEN p3 ELSE p1]

\* Everything may fail but the write of Failure; and that write and Graph.
AllButFailure == {"notion", "graph", "postgres"}
FailureAndGraph == {"failure", "graph"}

=============================================================================

------------------------------- MODULE MCMatch -------------------------------
(* Instances of MatchPipeline for TLC.                                       *)
EXTENDS MatchPipeline

OneMail == {1}
TwoMails == {1, 2}
OneOutbound == {1}
TwoOutbounds == {1, 2}

\* Every mail is in the conversation of every outbound mail of the instance.
AllInThread == [m \in Msgs |-> Outbounds]
NoneByContent == [m \in Msgs |-> {}]
\* The second mail has the first outbound mail in its conversation, and the recipient
\* of the second outbound mail.
SecondAnswersFirst == [m \in Msgs |-> IF m = 2 THEN {1} ELSE Outbounds]
SecondNamesSecond == [m \in Msgs |-> IF m = 2 THEN {2} ELSE {}]

\* Detection asks Graph for the headers: when Graph fails, an automatic mail passes for a
\* human one.
AllAuto == [m \in Msgs |-> "auto"]
AllHuman == [m \in Msgs |-> "human"]
SecondBounces == [m \in Msgs |-> IF m = 2 THEN "bounce" ELSE "human"]

\* All mails belong to one conversation.
OneConversation == [m \in Msgs |-> 1]

FirstPaged == {1}

IngestOnly == {"ingest"}
WithRequeue == {"ingest", "requeue"}

AllFaults == {"notion", "graph", "postgres", "redis"}
RemoteFaults == {"notion", "graph"}
NoFaults == {}

=============================================================================

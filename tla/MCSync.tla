------------------------------- MODULE MCSync -------------------------------
(* Instances of InboxSync for TLC, with one mail.                            *)
EXTENDS InboxSync

CONSTANTS m1, inbox

AllInInbox == [m \in Msgs |-> inbox]

\* When the mail is received.
Times == [m \in Msgs |-> 2]

\* A poll without a cursor starts before the mail.
Early == {0}

OneTick == {1}

Polling == {"poll"}
AllModes == {"poll", "delta", "webhook", "edits"}
AllFaults == {"graph", "postgres", "redis"}

=============================================================================

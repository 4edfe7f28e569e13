------------------------- MODULE MatchRules_proofs -------------------------
(***************************************************************************)
(* Theorems about MatchRules, for any mails, rows, texts and limits.         *)
(***************************************************************************)
EXTENDS MatchRules, TLAPS

\* What stands is in the table, and all else in it was touched.
StandInv ==
    /\ Standing \subseteq outbound
    /\ outbound \subseteq before \cup touched

\* Once the conversation has been looked up, what it said of the rows that stand holds.
ThreadInv ==
    \A r \in Standing : pc # "conversation" /\ r.thread = inbox.thread =>
        /\ method = "conversation" /\ hit.thread = inbox.thread
        /\ r.sent <= hit.sent

\* The mails to the i-th failed recipient among the rows of S.
Sent(S, i) == {r \in S : SentInWindow(inbox, r) /\ FailedRecipients(inbox)[i] \in r.to}

\* Once the failed recipients have been looked up, none of them had one newest mail among
\* the rows known from the beginning, unless rows to that recipient were touched.
BounceInv ==
    pc \in {"legacy", "done"} /\ DetectBounce(inbox) /\ hit = NoRow =>
        \A i \in DOMAIN FailedRecipients(inbox) :
            Sent(touched, i) = {} => \A row \in Rows : Newest(Sent(before, i)) # {row}

\* Nothing is named before the last lookup, and only a bounce is looked up by recipient.
RouteInv ==
    /\ pc \in {"conversation", "recipient", "legacy"} => method = "none"
    /\ pc = "recipient" => DetectBounce(inbox)

IInv == TypeOK /\ StandInv /\ ThreadInv /\ GuessIsSafe /\ BounceInv /\ RouteInv

-----------------------------------------------------------------------------
\* The one newest row is one of the rows, and none is newer.
LEMMA NewestFits ==
  ASSUME NEW rows, NEW row, IsUniqueNewest(rows, row)
  PROVE  /\ row \in rows
         /\ \A r \in rows : r.sent <= row.sent
  BY DEF IsUniqueNewest, Newest

\* No other row is as new as the one that is named.
LEMMA NewestAlone ==
  ASSUME NEW rows \in SUBSET Rows, NEW row, IsUniqueNewest(rows, row), NEW r \in rows, r # row
  PROVE  r.sent < row.sent
  <1>1. r \notin Newest(rows) /\ row \in Newest(rows)
    BY DEF IsUniqueNewest
  <1>2. PICK q \in rows : ~(q.sent <= r.sent)
    BY <1>1 DEF Newest
  <1>3. q.sent <= row.sent
    BY <1>1 DEF Newest
  <1>4. row \in rows
    BY <1>1 DEF Newest
  <1>5. q.sent \in Nat /\ r.sent \in Nat /\ row.sent \in Nat
    BY <1>4, RulesAssumption DEF RowType
  <1> QED
    BY <1>2, <1>3, <1>5

\* The invariant holds before the lookup begins.
THEOREM InitI == Init => IInv
  BY RulesAssumption DEF Init, IInv, TypeOK, StandInv, Standing, ThreadInv, GuessIsSafe, BounceInv,
                         RouteInv, Methods

\* It is inductive.
THEOREM NextI == IInv /\ [Next]_vars => IInv'
  <1> SUFFICES ASSUME IInv, [Next]_vars PROVE IInv'
    OBVIOUS
  <1> USE DEF IInv
  <1> USE RulesAssumption
  <1>1. CASE ByConversation
    <2>0. UNCHANGED <<inbox, outbound, before, touched, writes>> /\ pc = "conversation"
      BY <1>1 DEF ByConversation
    <2>s. StandInv'
      BY <2>0 DEF StandInv, Standing
    <2>1. ASSUME NEW row \in Newest(InThread), Name("conversation", row) PROVE IInv'
      <3>1. /\ row \in outbound /\ row.thread = inbox.thread
            /\ \A r \in InThread : r.sent <= row.sent
        BY <2>1 DEF Newest, InThread
      <3>2. method' = "conversation" /\ hit' = row /\ pc' = "done"
        BY <2>1 DEF Name
      <3>3. TypeOK'
        BY <2>0, <3>1, <3>2 DEF TypeOK, Methods
      <3>4. ThreadInv'
        BY <2>0, <3>1, <3>2 DEF ThreadInv, InThread, StandInv, Standing
      <3>5. GuessIsSafe' /\ RouteInv'
        BY <3>2 DEF GuessIsSafe, RouteInv
      <3>6. BounceInv'
        BY <3>1, <3>2 DEF BounceInv, TypeOK
      <3> QED
        BY <2>s, <3>3, <3>4, <3>5, <3>6
    <2>2. ASSUME InThread = {}, GoOn(IF DetectBounce(inbox) THEN "recipient" ELSE "legacy")
          PROVE  IInv'
      <3>1. UNCHANGED <<method, hit>> /\ method = "none"
            /\ pc' = IF DetectBounce(inbox) THEN "recipient" ELSE "legacy"
        BY <2>0, <2>2 DEF GoOn, RouteInv
      <3>2. TypeOK'
        BY <2>0, <3>1 DEF TypeOK
      <3>3. ThreadInv'
        BY <2>0, <2>2 DEF ThreadInv, InThread, StandInv, Standing
      <3>4. GuessIsSafe' /\ RouteInv'
        BY <2>0, <3>1 DEF GuessIsSafe, RouteInv
      <3>5. BounceInv'
        BY <2>0, <3>1 DEF BounceInv
      <3> QED
        BY <2>s, <3>2, <3>3, <3>4, <3>5
    <2> QED
      BY <1>1, <2>1, <2>2 DEF ByConversation
  <1>2. CASE ByRecipient
    <2> DEFINE failed == FailedRecipients(inbox)
    <2>0. /\ UNCHANGED <<inbox, outbound, before, touched, writes>>
          /\ pc = "recipient" /\ method = "none"
      BY <1>2 DEF ByRecipient, RouteInv
    <2>s. StandInv'
      BY <2>0 DEF StandInv, Standing
    <2>t. \A r \in Standing : r.thread # inbox.thread
      BY <2>0 DEF ThreadInv
    <2>1. ASSUME NEW i \in DOMAIN failed, NEW row \in outbound,
                 IsUniqueNewest(SentTo(failed[i]), row), Name("bounce_recipient", row)
          PROVE  IInv'
      <3>1. method' = "bounce_recipient" /\ hit' = row /\ pc' = "done"
        BY <2>1 DEF Name
      <3>2. row \in SentTo(failed[i]) /\ SentTo(failed[i]) \in SUBSET Rows
        BY <2>1, NewestFits DEF SentTo, TypeOK
      <3>3. SentInWindow(inbox, row) /\ failed[i] \in row.to
        BY <3>2 DEF SentTo
      <3>4. ASSUME NEW r \in Standing, r.box = inbox.box, failed[i] \in r.to, r.sent < inbox.at
            PROVE  r = row \/ r.sent < row.sent
        <4>0. inbox.at \in Nat /\ r.sent \in Nat /\ row.sent \in Nat /\ r \in outbound
          BY DEF TypeOK, MailType, RowType, StandInv
        <4>1. CASE SentInWindow(inbox, r)
          BY <4>0, <4>1, <3>2, <3>4, <2>1, NewestAlone DEF SentTo
        <4>2. CASE ~SentInWindow(inbox, r)
          BY <4>0, <4>2, <3>3, <3>4 DEF SentInWindow
        <4> QED
          BY <4>1, <4>2
      <3>5. TypeOK' /\ RouteInv'
        BY <2>0, <2>1, <3>1 DEF TypeOK, Methods, RouteInv
      <3>6. ThreadInv'
        BY <2>0, <2>t DEF ThreadInv, Standing
      <3>7. GuessIsSafe'
        <4>1. hit'.box = inbox.box /\ hit'.sent < inbox.at /\ failed[i] \in hit'.to
          BY <3>1, <3>3 DEF SentInWindow
        <4>2. Reached(failed[i])'
          BY <2>0, <3>1 DEF Reached
        <4> QED
          BY <2>0, <3>1, <3>4, <4>1, <4>2 DEF GuessIsSafe, Standing
      <3>8. BounceInv'
        BY <3>1, <2>1 DEF BounceInv, TypeOK
      <3> QED
        BY <2>s, <3>5, <3>6, <3>7, <3>8
    <2>2. ASSUME \A i \in DOMAIN failed : ~Settles(failed[i]), GoOn("legacy") PROVE IInv'
      <3>1. UNCHANGED <<method, hit>> /\ pc' = "legacy"
        BY <2>2 DEF GoOn
      <3>2. TypeOK' /\ RouteInv'
        BY <2>0, <3>1 DEF TypeOK, RouteInv
      <3>3. ThreadInv'
        BY <2>0, <2>t DEF ThreadInv, Standing
      <3>4. GuessIsSafe'
        BY <2>0, <3>1 DEF GuessIsSafe
      <3>5. \A i \in DOMAIN failed : \A row \in Rows : Newest(SentTo(failed[i])) # {row}
        BY <2>2 DEF Settles, IsUniqueNewest
      <3>6. ASSUME NEW i \in DOMAIN failed, Sent(touched, i) = {}
            PROVE  SentTo(failed[i]) = Sent(before, i)
        <4>1. \A r \in touched : ~(SentInWindow(inbox, r) /\ failed[i] \in r.to)
          BY <3>6 DEF Sent
        <4> QED
          BY <4>1 DEF SentTo, Sent, StandInv, Standing
      <3>7. BounceInv'
        BY <2>0, <3>5, <3>6 DEF BounceInv, Sent
      <3> QED
        BY <2>s, <3>2, <3>3, <3>4, <3>7
    <2> QED
      BY <1>2, <2>1, <2>2 DEF ByRecipient
  <1>3. CASE ByHeuristics
    <2>0. UNCHANGED <<inbox, outbound, before, touched, writes>> /\ pc = "legacy" /\ method = "none"
      BY <1>3 DEF ByHeuristics, RouteInv
    <2>s. StandInv'
      BY <2>0 DEF StandInv, Standing
    <2>t. \A r \in Standing : r.thread # inbox.thread
      BY <2>0 DEF ThreadInv
    <2>1. ASSUME NEW row \in outbound,
                 IsUniqueNewest(LegacyHits, row), Name("legacy_heuristic", row)
          PROVE  IInv'
      <3>1. method' = "legacy_heuristic" /\ hit' = row /\ pc' = "done"
        BY <2>1 DEF Name
      <3>2. row \in LegacyHits /\ LegacyHits \in SUBSET Rows
        BY <2>1, NewestFits DEF LegacyHits, TypeOK
      <3>3. LegacyFits(inbox, row)
        BY <3>2 DEF LegacyHits
      <3>4. ASSUME NEW r \in Standing, r.box = inbox.box, inbox.from \in r.to, r.sent < inbox.at,
                   r.thread = Legacy, SubjectsMatch(inbox.subject, r.subject)
            PROVE  r = row \/ r.sent < row.sent
        <4>0. inbox.at \in Nat /\ r.sent \in Nat /\ row.sent \in Nat /\ r \in outbound
          BY DEF TypeOK, MailType, RowType, StandInv
        <4>2. PartyMatches(inbox, r)
          BY <3>3, <3>4 DEF LegacyFits, PartyMatches
        <4>3. CASE LegacyFits(inbox, r)
          BY <4>0, <4>3, <3>2, <2>1, NewestAlone DEF LegacyHits
        <4>4. CASE ~LegacyFits(inbox, r)
          <5>1. LegacyAge > 0 /\ ~(inbox.at - r.sent <= LegacyAge)
            BY <4>2, <4>4, <3>4 DEF LegacyFits
          <5>2. inbox.at - row.sent <= LegacyAge /\ row.sent < inbox.at
            BY <5>1, <3>3 DEF LegacyFits
          <5> QED
            BY <5>1, <5>2, <4>0, <3>4
        <4> QED
          BY <4>3, <4>4
      <3>5. TypeOK' /\ RouteInv'
        BY <2>0, <2>1, <3>1 DEF TypeOK, Methods, RouteInv
      <3>6. ThreadInv'
        BY <2>0, <2>t DEF ThreadInv, Standing
      <3>7. GuessIsSafe'
        <4>1. hit'.box = inbox.box /\ hit'.sent < inbox.at /\ inbox.from \in hit'.to
          BY <3>1, <3>3 DEF LegacyFits, PartyMatches
        <4>2. Reached(inbox.from)'
          BY <2>0, <3>1 DEF Reached
        <4> QED
          BY <2>0, <3>1, <3>4, <4>1, <4>2 DEF GuessIsSafe, Standing
      <3>8. BounceInv'
        BY <3>1, <2>1 DEF BounceInv, TypeOK
      <3> QED
        BY <2>s, <3>5, <3>6, <3>7, <3>8
    <2>2. ASSUME GoOn("done") PROVE IInv'
      <3>1. UNCHANGED <<method, hit>> /\ pc' = "done"
        BY <2>2 DEF GoOn
      <3>2. TypeOK' /\ RouteInv'
        BY <2>0, <3>1 DEF TypeOK, RouteInv
      <3>3. ThreadInv'
        BY <2>0, <2>t DEF ThreadInv, Standing
      <3>4. GuessIsSafe'
        BY <2>0, <3>1 DEF GuessIsSafe
      <3>6. BounceInv'
        BY <2>0, <3>1 DEF BounceInv, Sent
      <3> QED
        BY <2>s, <3>2, <3>3, <3>4, <3>6
    <2> QED
      BY <1>3, <2>1, <2>2 DEF ByHeuristics
  <1>4. CASE Record \/ Update
    <2>0. /\ UNCHANGED <<inbox, before, pc, method, hit>> /\ pc # "done"
          /\ touched \subseteq touched' /\ writes' \in 0..MaxWrites
      BY <1>4 DEF Record, Update, TypeOK
    <2>1. /\ outbound' \subseteq Rows /\ touched' \subseteq Rows
          /\ outbound \subseteq outbound' \cup touched'
          /\ outbound' \subseteq outbound \cup touched'
      BY <1>4 DEF Record, Update, TypeOK
    <2>2. hit = NoRow /\ method = "none"
      BY <2>0 DEF RouteInv, TypeOK
    <2>3. TypeOK' /\ RouteInv'
      BY <2>0, <2>1, <2>2 DEF TypeOK, RouteInv
    <2>4. StandInv' /\ Standing' \subseteq Standing
      BY <2>0, <2>1 DEF StandInv, Standing
    <2>5. ThreadInv'
      BY <2>0, <2>4 DEF ThreadInv
    <2>6. GuessIsSafe'
      BY <2>0, <2>2 DEF GuessIsSafe
    <2>7. BounceInv'
      <3>1. \A i : Sent(touched, i)' = {} => Sent(touched, i) = {}
        BY <2>0 DEF Sent
      <3>2. \A i : Sent(before, i)' = Sent(before, i)
        BY <2>0 DEF Sent
      <3> QED
        BY <2>0, <3>1, <3>2 DEF BounceInv
    <2> QED
      BY <2>3, <2>4, <2>5, <2>6, <2>7
  <1>5. CASE UNCHANGED vars
    <2>1. UNCHANGED <<inbox, outbound, before, touched, writes, pc, method, hit>>
      BY <1>5 DEF vars
    <2>2. TypeOK' /\ RouteInv' /\ StandInv'
      BY <2>1 DEF TypeOK, RouteInv, StandInv, Standing
    <2>3. ThreadInv' /\ GuessIsSafe' /\ BounceInv'
      BY <2>1 DEF ThreadInv, GuessIsSafe, Standing, Reached, BounceInv, Sent
    <2> QED
      BY <2>2, <2>3
  <1> QED
    BY <1>1, <1>2, <1>3, <1>4, <1>5 DEF Next

\* The invariant holds throughout.
THEOREM Invariance == Spec => []IInv
  BY InitI, NextI, PTL DEF Spec

\* Type correctness: what the lookup holds between its queries are mails of the table, and
\* what it returns is one of them or nothing.
THEOREM RulesTyped == Spec => []TypeOK
  <1>1. IInv => TypeOK
    BY DEF IInv
  <1> QED
    BY <1>1, Invariance, PTL

\* A mail of the conversation whose row stands when the lookup begins, and is not written over
\* before it ends, is never passed over for a guess, nor for an older one, whatever becomes of
\* the other rows meanwhile.
THEOREM ConversationFirst == Spec => []ThreadComesFirst
  <1>1. IInv => ThreadComesFirst
    BY DEF IInv, ThreadInv, ThreadComesFirst
  <1> QED
    BY <1>1, Invariance, PTL

\* A guess is unambiguous: among the rows that stand from the beginning of the lookup to its
\* end, no other that fits is as new, though others are added and written over.
THEOREM GuessesAreSafe == Spec => []GuessIsSafe
  <1>1. IInv => GuessIsSafe
    BY DEF IInv
  <1> QED
    BY <1>1, Invariance, PTL

\* A bounce that names a recipient of one newest mail is not ignored, unless a row of that
\* recipient is added or written over during the lookup.
THEOREM BouncesAreTraced == Spec => []BounceIsTraced
  <1>1. IInv => BounceIsTraced
    BY DEF IInv, BounceInv, Sent, BounceIsTraced
  <1> QED
    BY <1>1, Invariance, PTL
=============================================================================

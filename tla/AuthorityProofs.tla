-------------------------- MODULE AuthorityProofs --------------------------
(***************************************************************************)
(* The trust path proved for every set of actors, labels, numbers, events, *)
(* repository rules and lifetimes.  The invariant behind all of it is that *)
(* the grant is still the one policy computed from the cause, and that an  *)
(* accepted write is one of its kinds, made with the tier Execute picks.   *)
(***************************************************************************)
EXTENDS Authority, TLAPS

GrantComesFromCause ==
    CASE cause.type = "none" -> phase = "new" /\ grant = NoGrant
      [] cause.type = "scheduled" -> phase \in {"granted", "accepted"} /\ grant = GrantForUpgrade
      [] OTHER -> /\ cause.type = "webhook" /\ phase # "new"
                  /\ cause.event \in Events /\ cause.canWrite \in BOOLEAN /\ cause.rules \in RuleSets
                  /\ Handled(cause.event)
                  /\ grant = Decide(triggerFromEvent(cause.event, cause.canWrite), cause.rules)

WriteComesFromGrant ==
    phase = "accepted" =>
        /\ written.kind \in grant.kinds
        /\ written.credential = CredentialScope(written.kind, grant)

AuthorityInv == TypeOK /\ GrantComesFromCause /\ WriteComesFromGrant

\* Policy answers with no grant, a review grant or an issue grant, each for its
\* own kind of trigger and only when nothing denies it.
LEMMA DecideCases ==
    ASSUME NEW e \in Event, NEW canWrite \in BOOLEAN, NEW rules \in Rules
    PROVE  LET t == triggerFromEvent(e, canWrite) IN
           /\ Decide(t, rules) \in Grant
           /\ \/ Denies(t, rules) /\ Decide(t, rules) = NoGrant
              \/ ~Denies(t, rules) /\ e.type # "issues" /\ Decide(t, rules) = ReviewGrant(t)
              \/ ~Denies(t, rules) /\ e.type = "issues" /\ Decide(t, rules) = IssueGrant(t)
<1> DEFINE t == triggerFromEvent(e, canWrite)
<1>1. /\ t.kind = IF e.type = "issues" THEN "webhook_issue_labeled" ELSE "webhook_pull_request"
      /\ t.number \in Numbers /\ t.manual \in BOOLEAN /\ t.shas \in BOOLEAN
  BY DEF triggerFromEvent, ManualReview, Event
<1>2. NoGrant \in Grant
  BY DEF NoGrant, Grant
<1>3. e.type # "issues" => ReviewGrant(t) \in Grant
  BY <1>1 DEF ReviewGrant, Grant, TriggerNames, Scopes, Kinds, Tokens
<1>4. e.type = "issues" => IssueGrant(t) \in Grant
  BY <1>1 DEF IssueGrant, Grant, TriggerNames, Scopes, Kinds, Tokens
<1> HIDE DEF t
<1>5. /\ Decide(t, rules) \in Grant
      /\ \/ Denies(t, rules) /\ Decide(t, rules) = NoGrant
         \/ ~Denies(t, rules) /\ e.type # "issues" /\ Decide(t, rules) = ReviewGrant(t)
         \/ ~Denies(t, rules) /\ e.type = "issues" /\ Decide(t, rules) = IssueGrant(t)
  BY <1>1, <1>2, <1>3, <1>4 DEF Decide
<1> QED
  BY <1>5 DEF t

\* Whatever the cause, the grant is one of four.
LEMMA GrantCases ==
    ASSUME AuthorityInv
    PROVE  \/ grant = NoGrant
           \/ cause.type = "scheduled" /\ grant = GrantForUpgrade
           \/ /\ cause.type = "webhook" /\ cause.event.type # "issues"
              /\ ~Denies(triggerFromEvent(cause.event, cause.canWrite), cause.rules)
              /\ grant = ReviewGrant(triggerFromEvent(cause.event, cause.canWrite))
           \/ /\ cause.type = "webhook" /\ cause.event.type = "issues"
              /\ ~Denies(triggerFromEvent(cause.event, cause.canWrite), cause.rules)
              /\ grant = IssueGrant(triggerFromEvent(cause.event, cause.canWrite))
<1>1. CASE cause.type \in {"none", "scheduled"}
  BY <1>1 DEF AuthorityInv, GrantComesFromCause
<1>2. CASE cause.type \notin {"none", "scheduled"}
  <2>1. /\ cause.event \in Event /\ cause.canWrite \in BOOLEAN /\ cause.rules \in Rules
        /\ cause.type = "webhook"
        /\ grant = Decide(triggerFromEvent(cause.event, cause.canWrite), cause.rules)
    BY <1>2, EventsAssumption DEF AuthorityInv, GrantComesFromCause
  <2> QED
    BY <2>1, DecideCases
<1> QED
  BY <1>1, <1>2

\* The invariant is inductive.
LEMMA AuthorityInvStep == AuthorityInv /\ [Next]_vars => AuthorityInv'
<1> SUFFICES ASSUME AuthorityInv, [Next]_vars PROVE AuthorityInv'
  OBVIOUS
<1>0. TypeOK /\ GrantComesFromCause /\ WriteComesFromGrant
  BY DEF AuthorityInv
<1>1. CASE UNCHANGED vars
  BY <1>0, <1>1 DEF AuthorityInv, TypeOK, GrantComesFromCause, WriteComesFromGrant, vars
<1>2. ASSUME NEW e \in Events, NEW canWrite \in BOOLEAN, NEW rules \in RuleSets,
             HandleEvent(e, canWrite, rules)
      PROVE  AuthorityInv'
  <2>1. grant' \in Grant
    BY <1>2, EventsAssumption, DecideCases DEF HandleEvent
  <2>2. phase' \in {"denied", "granted"}
    BY <1>2 DEF HandleEvent
  <2>3. TypeOK'
    BY <1>0, <1>2, <2>1, <2>2 DEF TypeOK, HandleEvent
  <2>4. GrantComesFromCause'
    BY <1>2, <2>2 DEF GrantComesFromCause, HandleEvent
  <2> QED
    BY <2>2, <2>3, <2>4 DEF AuthorityInv, WriteComesFromGrant
<1>3. CASE Schedule
  <2>1. GrantForUpgrade \in Grant
    BY DEF GrantForUpgrade, Grant, TriggerNames, Scopes, Kinds, Tokens
  <2>2. TypeOK'
    BY <1>0, <1>3, <2>1 DEF TypeOK, Schedule
  <2> QED
    BY <1>3, <2>2 DEF AuthorityInv, GrantComesFromCause, WriteComesFromGrant, Schedule
<1>4. CASE Tick
  <2>1. age' \in 0..MaxAge
    BY <1>0, <1>4, MaxAgeAssumption DEF TypeOK, Tick
  <2>2. UNCHANGED <<phase, cause, grant, written>>
    BY <1>4 DEF Tick
  <2> QED
    BY <1>0, <2>1, <2>2 DEF AuthorityInv, TypeOK, GrantComesFromCause, WriteComesFromGrant
<1>5. ASSUME NEW e \in Envelope, Execute(e)
      PROVE  AuthorityInv'
  <2>1. UNCHANGED <<cause, grant, age>> /\ phase' = "accepted" /\ phase # "new"
    BY <1>5 DEF Execute
  <2>2. e.kind \in Kinds /\ e.kind \in grant.kinds
    BY <1>5 DEF Execute, Validate, Envelope
  <2>3. CredentialScope(e.kind, grant) \in Tokens \cup {"none"}
    BY <1>0 DEF TypeOK, CredentialScope, Grant, Tokens
  <2>4. written' = [kind |-> e.kind, credential |-> CredentialScope(e.kind, grant)]
    BY <1>5 DEF Execute
  <2>5. TypeOK'
    BY <1>0, <2>1, <2>2, <2>3, <2>4 DEF TypeOK
  <2>6. WriteComesFromGrant'
    BY <2>1, <2>2, <2>4 DEF WriteComesFromGrant, CredentialScope
  <2>7. GrantComesFromCause'
    BY <1>0, <2>1 DEF GrantComesFromCause
  <2> QED
    BY <2>5, <2>6, <2>7 DEF AuthorityInv
<1> QED
  BY <1>1, <1>2, <1>3, <1>4, <1>5 DEF Next

\* It holds at the start.
LEMMA AuthorityInvInit == Init => AuthorityInv
<1> SUFFICES ASSUME Init PROVE AuthorityInv
  OBVIOUS
<1>1. TypeOK
  BY MaxAgeAssumption DEF Init, TypeOK, NoGrant, Grant, Nothing
<1> QED
  BY <1>1 DEF Init, AuthorityInv, GrantComesFromCause, WriteComesFromGrant

-----------------------------------------------------------------------------
(* The theorems *)

\* The recorded cause, grant, age and written envelope stay in their types.
THEOREM AuthorityTypeCorrect == Spec => []TypeOK
<1>1. AuthorityInv => TypeOK
  BY DEF AuthorityInv
<1> QED
  BY <1>1, AuthorityInvInit, AuthorityInvStep, PTL DEF Spec

\* Behind every write Execute accepts stands a person or a setting entitled to it.
THEOREM WritesAreWarranted == Spec => []AcceptedWriteIsWarranted
<1>1. AuthorityInv => AcceptedWriteIsWarranted
  <2> SUFFICES ASSUME AuthorityInv, phase = "accepted" PROVE AcceptedWriteIsWarranted
    BY DEF AcceptedWriteIsWarranted
  <2>1. written.kind \in grant.kinds
    BY DEF AuthorityInv, WriteComesFromGrant
  <2>2. CASE grant = NoGrant
    BY <2>1, <2>2 DEF NoGrant
  <2>3. CASE cause.type = "scheduled" /\ grant = GrantForUpgrade
    BY <2>1, <2>3 DEF GrantForUpgrade, AcceptedWriteIsWarranted
  <2>e. cause.type = "webhook" => cause.event \in Event /\ Handled(cause.event)
    BY EventsAssumption DEF AuthorityInv, GrantComesFromCause
  <2>4. CASE /\ cause.type = "webhook" /\ cause.event.type # "issues"
             /\ ~Denies(triggerFromEvent(cause.event, cause.canWrite), cause.rules)
             /\ grant = ReviewGrant(triggerFromEvent(cause.event, cause.canWrite))
    BY <2>1, <2>e, <2>4
       DEF ReviewGrant, Denies, triggerFromEvent, ManualReview, Event, Handled, AcceptedWriteIsWarranted
  <2>5. CASE /\ cause.type = "webhook" /\ cause.event.type = "issues"
             /\ ~Denies(triggerFromEvent(cause.event, cause.canWrite), cause.rules)
             /\ grant = IssueGrant(triggerFromEvent(cause.event, cause.canWrite))
    BY <2>1, <2>e, <2>5
       DEF IssueGrant, Denies, triggerFromEvent, ManualReview, Event, Handled, AcceptedWriteIsWarranted
  <2> QED
    BY <2>2, <2>3, <2>4, <2>5, GrantCases
<1> QED
  BY <1>1, AuthorityInvInit, AuthorityInvStep, PTL DEF Spec

\* No review is written with the contents-write credential.
THEOREM ReviewCredential == Spec => []ReviewsNeverUseContentsWrite
<1>1. AuthorityInv => ReviewsNeverUseContentsWrite
  <2> SUFFICES ASSUME AuthorityInv, phase = "accepted",
                      cause.type = "webhook", cause.event.type # "issues"
               PROVE  written.credential = "issues_write"
    BY DEF ReviewsNeverUseContentsWrite
  <2>1. written.kind \in grant.kinds /\ written.credential = CredentialScope(written.kind, grant)
    BY DEF AuthorityInv, WriteComesFromGrant
  <2>2. written.kind = "post_review"
    BY <2>1, GrantCases DEF NoGrant, ReviewGrant
  <2> QED
    BY <2>1, <2>2 DEF CredentialScope
<1> QED
  BY <1>1, AuthorityInvInit, AuthorityInvStep, PTL DEF Spec

\* Every kind policy or the schedule grants passes the executor's own tables for
\* as long as the grant lives.
THEOREM GrantsAreUsable == Spec => []GrantedKindsAreUsable
<1>1. AuthorityInv => GrantedKindsAreUsable
  <2> SUFFICES ASSUME AuthorityInv, age <= grant.ttl, NEW k \in grant.kinds
               PROVE  Validate([version |-> TRUE, own |-> TRUE, kind |-> k, wellFormed |-> TRUE], grant, age)
    BY DEF GrantedKindsAreUsable
  <2>1. grant \in Grant /\ age \in 0..MaxAge
    BY DEF AuthorityInv, TypeOK
  <2>2. ~Expired(grant, age)
    <3>1. age \in Int /\ grant.ttl \in Int
      BY <2>1, MaxAgeAssumption, TTLAssumption DEF Grant
    <3> QED
      BY <3>1 DEF Expired
  <2>3. cause.type = "webhook" => cause.event \in Event
    BY EventsAssumption DEF AuthorityInv, GrantComesFromCause
  <2>4. cause.type = "webhook" => triggerFromEvent(cause.event, cause.canWrite).number \in Nat \ {0}
    BY <2>3, NumbersAssumption DEF triggerFromEvent, Event
  <2>5. tokenCovers(k, grant.token) /\ scopeAllows(k, grant)
    <3> USE DEF tokenCovers, scopeAllows, Rank, Needs
    <3>1. CASE grant = NoGrant
      BY <3>1 DEF NoGrant
    <3>2. CASE grant = GrantForUpgrade
      BY <3>2 DEF GrantForUpgrade
    <3>3. CASE /\ cause.type = "webhook"
               /\ grant = ReviewGrant(triggerFromEvent(cause.event, cause.canWrite))
      BY <2>4, <3>3 DEF ReviewGrant
    <3>4. CASE /\ cause.type = "webhook"
               /\ grant = IssueGrant(triggerFromEvent(cause.event, cause.canWrite))
      BY <2>4, <3>4 DEF IssueGrant
    <3> QED
      BY <3>1, <3>2, <3>3, <3>4, GrantCases
  <2>6. k \in Kinds
    BY <2>1 DEF Grant
  <2> QED
    BY <2>2, <2>5, <2>6 DEF Validate, Expired
<1> QED
  BY <1>1, AuthorityInvInit, AuthorityInvStep, PTL DEF Spec
=============================================================================

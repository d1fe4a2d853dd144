----------------------------- MODULE Authority -----------------------------
(***************************************************************************)
(* The trust path of one run, end to end: a webhook event (or the upgrade  *)
(* schedule) becomes a grant at dispatch, time passes, and an untrusted    *)
(* agent proposes envelopes of any shape that Execute accepts or refuses.  *)
(***************************************************************************)
EXTENDS Grants

CONSTANTS Events,    \* the events the webhook endpoint can receive
          RuleSets,  \* the repo_config rows a repository can have
          MaxAge     \* bound: ticks after dispatch that are looked at

ASSUME EventsAssumption == Events \subseteq Event /\ RuleSets \subseteq Rules
ASSUME MaxAgeAssumption == MaxAge \in Nat

VARIABLES phase,    \* "new", "denied", "granted", or "accepted" (last envelope)
          cause,    \* event, authorizer answer and rules the run was decided on
          grant,
          age,
          written   \* kind and credential tier of the accepted envelope

vars == <<phase, cause, grant, age, written>>

Nothing == [kind |-> "none", credential |-> "none"]

TypeOK ==
    /\ phase \in {"new", "denied", "granted", "accepted"}
    /\ cause \in [type: {"none", "scheduled"}] \cup
                 [type: {"webhook"}, event: Events, canWrite: BOOLEAN, rules: RuleSets]
    /\ grant \in Grant
    /\ age \in 0..MaxAge
    /\ written \in [kind: Kinds, credential: Tokens \cup {"none"}] \cup {Nothing}

Init ==
    /\ phase = "new"
    /\ cause = [type |-> "none"]
    /\ grant = NoGrant
    /\ age = 0
    /\ written = Nothing

\* dispatch.HandleEvent: the grant is fixed here, before any agent runs.
HandleEvent(e, canWrite, rules) ==
    /\ phase = "new"
    /\ Handled(e)
    /\ cause' = [type |-> "webhook", event |-> e, canWrite |-> canWrite, rules |-> rules]
    /\ grant' = Decide(triggerFromEvent(e, canWrite), rules)
    /\ phase' = IF Denies(triggerFromEvent(e, canWrite), rules) THEN "denied" ELSE "granted"
    /\ UNCHANGED <<age, written>>

\* upgrade.Schedule, for a repository that opted in.
Schedule ==
    /\ phase = "new"
    /\ cause' = [type |-> "scheduled"]
    /\ grant' = GrantForUpgrade
    /\ phase' = "granted"
    /\ UNCHANGED <<age, written>>

Tick ==
    /\ phase # "new" /\ age < MaxAge
    /\ age' = age + 1
    /\ UNCHANGED <<phase, cause, grant, written>>

\* executor.Execute up to the write: an accepted envelope is written with the
\* credential CredentialScope names.  A denied run has no job, but the gate is
\* asked all the same: its empty grant must refuse everything.
Execute(e) ==
    /\ phase # "new"
    /\ Validate(e, grant, age)
    /\ phase' = "accepted"
    /\ written' = [kind |-> e.kind, credential |-> CredentialScope(e.kind, grant)]
    /\ UNCHANGED <<cause, grant, age>>

Next ==
    \/ \E e \in Events, canWrite \in BOOLEAN, rules \in RuleSets : HandleEvent(e, canWrite, rules)
    \/ Schedule
    \/ Tick
    \/ \E e \in Envelope : Execute(e)

Spec == Init /\ [][Next]_vars

-----------------------------------------------------------------------------
(* Properties *)

\* Who stands behind an accepted write, traced back to the event: only the
\* schedule or a labeled issue can lead to a pull request or an issue comment,
\* and then an allowlisted sender with confirmed write permission applied an
\* allowed label in an enabled repository; a pull-request event, whoever sent it,
\* leads to nothing but a review, which a person with write permission asked for
\* (and, by label, an allowlisted one) or the repository switched on.
AcceptedWriteIsWarranted ==
    phase = "accepted" =>
        \/ cause.type = "scheduled" /\ written.kind = "open_pr"
        \/ /\ cause.type = "webhook"
           /\ cause.rules.enabled
           /\ \/ /\ cause.event.type = "issues" /\ cause.event.action = "labeled"
                 /\ written.kind \in {"open_pr", "post_comment"}
                 /\ cause.canWrite
                 /\ cause.event.sender \in cause.rules.actorAllowlist
                 /\ cause.event.label \in cause.rules.allowedLabels
              \/ /\ cause.event.type # "issues"
                 /\ written.kind = "post_review"
                 /\ \/ cause.event.type = "issue_comment" /\ cause.canWrite /\ ~cause.event.bot
                    \/ /\ cause.event.action = "labeled" /\ cause.canWrite
                       /\ cause.event.sender \in cause.rules.actorAllowlist
                    \/ /\ cause.event.type = "pull_request" /\ cause.event.action # "labeled"
                       /\ cause.rules.autoReview

\* Code-writing credentials stay away from reviews: a run that executes a fork's
\* code never gets its result written with the contents-write token.
ReviewsNeverUseContentsWrite ==
    phase = "accepted" /\ cause.type = "webhook" /\ cause.event.type # "issues"
        => written.credential = "issues_write"

\* The tables agree with each other: every kind policy grants passes the token
\* and scope tables of the executor for as long as the grant lives, so no run is
\* dispatched that can only fail at its last step.
GrantedKindsAreUsable ==
    phase # "new" /\ age <= grant.ttl =>
        \A k \in grant.kinds :
            Validate([version |-> TRUE, own |-> TRUE, kind |-> k, wellFormed |-> TRUE], grant, age)
=============================================================================

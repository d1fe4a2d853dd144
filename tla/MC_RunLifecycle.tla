-------------------------- MODULE MC_RunLifecycle --------------------------
(* Instances of RunLifecycle for TLC: one repository, one actor, two labels. *)
EXTENDS RunLifecycle

MCActors == {"maintainer"}
MCLabels == {BothosReview, "bothos/fix"}
MCNumbers == {1}

OpenRules == [enabled |-> TRUE, allowedLabels |-> {"bothos/fix"},
              actorAllowlist |-> MCActors, autoReview |-> TRUE]

\* An issue labeled by a maintainer, a manual review, an automatic one, and the
\* same label event of an actor GitHub does not confirm as a writer.
Labeled == [type |-> "issues", action |-> "labeled", label |-> "bothos/fix",
            sender |-> "maintainer", bot |-> FALSE, mention |-> FALSE,
            onPR |-> FALSE, number |-> 1, shas |-> FALSE]
Asked == [Labeled EXCEPT !.type = "issue_comment", !.action = "created",
                         !.onPR = TRUE, !.mention = TRUE]
Pushed == [Labeled EXCEPT !.type = "pull_request", !.action = "synchronize", !.shas = TRUE]

MCWebhookAll ==
    [d \in {"issue", "manual", "auto", "refused"} |->
        [event |-> CASE d = "manual" -> Asked [] d = "auto" -> Pushed [] OTHER -> Labeled,
         canWrite |-> d # "refused", rules |-> OpenRules]]
IssueOnly == {"issue"}
EveryDelivery == {"issue", "manual", "auto", "refused"}
MCWebhookIssue == [d \in IssueOnly |-> MCWebhookAll[d]]
=============================================================================

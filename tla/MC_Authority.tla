---------------------------- MODULE MC_Authority ----------------------------
(* Instances of Authority for TLC: a maintainer and a stranger, the review     *)
(* label and a fix label, every rule set over them, and one event per case     *)
(* triggerFromEvent distinguishes (the fields a case ignores are fixed).       *)
EXTENDS Authority

MCActors == {"maintainer", "stranger"}
MCLabels == {BothosReview, "bothos/fix"}
MCNumbers == {1}

MCEvents ==
    {e \in Event :
        /\ e.type # "issue_comment" => ~e.bot /\ ~e.mention /\ ~e.onPR
        /\ e.type # "pull_request" => ~e.shas
        /\ e.type = "pull_request" => e.action \in {"opened", "labeled", "closed"}
        /\ e.type = "issue_comment" => e.action \in {"created", "closed"}
        /\ e.type = "issues" => e.action \in {"labeled", "opened"}
        /\ e.action # "labeled" => e.label = BothosReview}
MCRuleSets == Rules
=============================================================================

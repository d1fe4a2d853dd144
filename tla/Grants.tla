------------------------------- MODULE Grants -------------------------------
(***************************************************************************)
(* The authority a run carries: how a webhook event becomes a trigger      *)
(* (internal/dispatch), how policy turns the trigger into an immutable     *)
(* grant (internal/policy, internal/upgrade), and how the intent layer     *)
(* holds an envelope against that grant (internal/intent).  Everything     *)
(* here is a pure operator; the modules that EXTEND this one own the state.*)
(*                                                                         *)
(* Abstracted data: a repository is fixed, so owner, name and account are  *)
(* left out; a grant's base/head SHAs are one Boolean ("both are present");*)
(* times are ages in ticks since the grant was issued, so ExpiresAt is the *)
(* grant's ttl; a payload is well-formed or not (decodeAndSanitise).       *)
(***************************************************************************)
EXTENDS Integers

CONSTANTS Actors,        \* GitHub logins
          Labels,        \* label names an event can carry
          Numbers,       \* issue and pull-request numbers
          WebhookTTL,    \* policy.Decide: ExpiresAt = now + 1h
          UpgradeTTL     \* GrantForUpgrade: ExpiresAt = now + 45m

ASSUME NumbersAssumption == Numbers \subseteq Nat \ {0}
ASSUME TTLAssumption == WebhookTTL \in Nat /\ UpgradeTTL \in Nat

Kinds == {"open_pr", "update_pr", "post_review", "post_comment", "set_labels"}
Scopes == {"scheduled", "pull_request", "issue"}
Tokens == {"read_only", "issues_write", "contents_write"}
TriggerNames == {"upgrade", "webhook_pull_request", "webhook_issue_labeled"}

\* The label whose name triggers a manual review.
BothosReview == "bothos/review"

Grant == [trigger: TriggerNames \cup {"none"}, scope: Scopes \cup {"none"},
          number: Numbers \cup {0}, kinds: SUBSET Kinds,
          token: Tokens \cup {"none"}, manual: BOOLEAN, shas: BOOLEAN,
          ttl: {0, WebhookTTL, UpgradeTTL}]

\* intent.Grant{}: what a denied run stores.  It carries no capability.
NoGrant == [trigger |-> "none", scope |-> "none", number |-> 0, kinds |-> {},
            token |-> "none", manual |-> FALSE, shas |-> FALSE, ttl |-> 0]

-----------------------------------------------------------------------------
(* internal/dispatch: events and triggers *)

Event == [type: {"pull_request", "issue_comment", "issues"},
          action: {"opened", "synchronize", "reopened", "labeled", "created", "closed"},
          label: Labels, sender: Actors, bot: BOOLEAN, mention: BOOLEAN,
          onPR: BOOLEAN, number: Numbers, shas: BOOLEAN]

\* The events triggerFromEvent reports as handled.
Handled(e) ==
    \/ /\ e.type = "pull_request"
       /\ \/ e.action \in {"opened", "synchronize", "reopened"}
          \/ e.action = "labeled" /\ e.label = BothosReview
    \/ /\ e.type = "issue_comment" /\ e.action = "created"
       /\ e.onPR /\ ~e.bot /\ e.mention
    \/ e.type = "issues" /\ e.action = "labeled"

ManualReview(e) == e.type = "issue_comment" \/ (e.type = "pull_request" /\ e.action = "labeled")

\* canWrite is the authorizer's answer (a lookup error counts as FALSE); it is
\* only asked for manual reviews and labeled issues.  A comment carries no SHAs
\* of its own: they are loaded for an authorised actor, and the load either
\* yields both or fails the whole delivery before anything is stored.
triggerFromEvent(e, canWrite) ==
    [kind |-> IF e.type = "issues" THEN "webhook_issue_labeled" ELSE "webhook_pull_request",
     number |-> e.number, actor |-> e.sender, label |-> e.label,
     actorHasWrite |-> canWrite /\ (e.type = "issues" \/ ManualReview(e)),
     manual |-> ManualReview(e),
     reviewLabel |-> e.type = "pull_request" /\ e.action = "labeled",
     shas |-> IF e.type = "issue_comment" THEN canWrite
              ELSE e.type = "pull_request" /\ e.shas]

-----------------------------------------------------------------------------
(* internal/policy: Decide *)

Rules == [enabled: BOOLEAN, allowedLabels: SUBSET Labels,
          actorAllowlist: SUBSET Actors, autoReview: BOOLEAN]

\* Variant: a labeled issue without the write-permission check.
DeniesWithoutPermission(t, rules) ==
    \/ ~rules.enabled
    \/ /\ t.kind = "webhook_pull_request"
       /\ \/ t.manual /\ ~t.actorHasWrite
          \/ t.reviewLabel /\ t.actor \notin rules.actorAllowlist
          \/ ~t.manual /\ ~rules.autoReview
    \/ /\ t.kind = "webhook_issue_labeled"
       /\ t.label \notin rules.allowedLabels \/ t.actor \notin rules.actorAllowlist

Denies(t, rules) ==
    \/ ~rules.enabled
    \/ /\ t.kind = "webhook_pull_request"
       /\ \/ t.manual /\ ~t.actorHasWrite
          \/ t.reviewLabel /\ t.actor \notin rules.actorAllowlist
          \/ ~t.manual /\ ~rules.autoReview
    \/ /\ t.kind = "webhook_issue_labeled"
       /\ \/ t.label \notin rules.allowedLabels
          \/ t.actor \notin rules.actorAllowlist
          \/ ~t.actorHasWrite

ReviewGrant(t) ==
    [trigger |-> t.kind, scope |-> "pull_request", number |-> t.number,
     kinds |-> {"post_review"}, token |-> "read_only", manual |-> t.manual,
     shas |-> t.shas, ttl |-> WebhookTTL]

\* Variant: an issue grant with a lifetime of its own.
IssueGrantLonger(t) ==
    [trigger |-> t.kind, scope |-> "issue", number |-> t.number,
     kinds |-> {"open_pr", "post_comment"}, token |-> "contents_write",
     manual |-> t.manual, shas |-> FALSE, ttl |-> WebhookTTL + 1]

IssueGrant(t) ==
    [trigger |-> t.kind, scope |-> "issue", number |-> t.number,
     kinds |-> {"open_pr", "post_comment"}, token |-> "contents_write",
     manual |-> t.manual, shas |-> FALSE, ttl |-> WebhookTTL]

Decide(t, rules) ==
    IF Denies(t, rules) THEN NoGrant
    ELSE IF t.kind = "webhook_pull_request" THEN ReviewGrant(t) ELSE IssueGrant(t)

\* internal/upgrade: the grant of a scheduled run does not pass through Decide.
GrantForUpgrade ==
    [trigger |-> "upgrade", scope |-> "scheduled", number |-> 0,
     kinds |-> {"open_pr"}, token |-> "contents_write", manual |-> FALSE,
     shas |-> FALSE, ttl |-> UpgradeTTL]

-----------------------------------------------------------------------------
(* internal/intent: Validate *)

Rank(token) == CASE token = "read_only" -> 0
                 [] token = "issues_write" -> 1
                 [] token = "contents_write" -> 2
                 [] OTHER -> 0

Needs(kind) == IF kind \in {"open_pr", "update_pr"} THEN "contents_write" ELSE "issues_write"

\* Variant: without the exception for reviews under a read-only grant.
tokenCoversByRank(kind, token) == Rank(token) >= Rank(Needs(kind))

tokenCovers(kind, token) ==
    \/ kind = "post_review" /\ token = "read_only"
    \/ Rank(token) >= Rank(Needs(kind))

scopeAllows(kind, g) ==
    /\ \/ kind = "open_pr" /\ g.scope \in {"issue", "scheduled"}
       \/ kind \in {"update_pr", "post_review"} /\ g.scope = "pull_request"
       \/ kind \in {"post_comment", "set_labels"} /\ g.scope \in {"issue", "pull_request"}
    /\ g.scope # "scheduled" => g.number # 0

\* Variant: one tick of grace after ExpiresAt.
ExpiredLate(g, age) == age > g.ttl + 1

Expired(g, age) == age > g.ttl

\* env.version: the schema version is the current one; env.own: env.RunID is the
\* grant's; env.wellFormed: the payload decodes and keeps its limits.
Envelope == [version: BOOLEAN, own: BOOLEAN, kind: Kinds, wellFormed: BOOLEAN]

Validate(env, g, age) ==
    /\ env.version
    /\ env.own
    /\ env.kind \in Kinds
    /\ ~Expired(g, age)
    /\ env.kind \in g.kinds
    /\ tokenCovers(env.kind, g.token)
    /\ scopeAllows(env.kind, g)
    /\ env.wellFormed

\* Variant: the grant's own tier for every kind.
CredentialOfGrant(kind, g) == g.token

\* The credential tier Execute resolves for a validated envelope.
CredentialScope(kind, g) == IF kind = "post_review" THEN "issues_write" ELSE g.token
=============================================================================

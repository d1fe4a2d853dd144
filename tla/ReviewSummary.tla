--------------------------- MODULE ReviewSummary ---------------------------
(***************************************************************************)
(* The summary comment of one pull request: the review runs that post and  *)
(* update it, GitHub's list of comments, and the review_comments row that  *)
(* maps the pull request to the comment.  Every API call and every SQL     *)
(* statement is one step and may fail with or without having landed (the   *)
(* acknowledgement's two-second timeout is one way to lose a reply).       *)
(*                                                                         *)
(* A comment's text is abstracted to what it says: "queued", the run whose *)
(* review it shows, or "quote" for a user's comment that repeats the       *)
(* marker.  The agent and everything before it are one step that succeeds  *)
(* or fails; the rest of a run's life is in RunLifecycle.                  *)
(***************************************************************************)
EXTENDS Naturals, Sequences, FiniteSets

CONSTANTS Runs,         \* review runs dispatched for the pull request
          ManualRuns,   \* those with grant.Manual
          Concurrency,  \* MaxWorkers of the worker's queue
          MaxFaults,    \* bound: failed GitHub or ledger calls
          MaxDeletes,   \* bound: comments of ours a maintainer deletes
          MaxQuotes     \* bound: user comments containing the marker

ASSUME ReviewAssumption ==
    /\ ManualRuns \subseteq Runs /\ Runs \cap {"queued", "quote", "none"} = {}
    /\ Concurrency \in Nat /\ MaxFaults \in Nat /\ MaxDeletes \in Nat /\ MaxQuotes \in Nat

VARIABLES comments,  \* the pull request's comments in the order GitHub lists them
          mapping,   \* review_comments.comment_id; 0: no row
          pc, target, \* per run: next step, comment id it works with (0: none)
          lastWrite, \* the run whose review was written last
          faults, deletes, quotes

vars == <<comments, mapping, pc, target, lastWrite, faults, deletes, quotes>>

Comment == [owner: {"bothos", "user"}, body: Runs \cup {"queued", "quote"}, live: BOOLEAN]
PCs == {"new", "ackFind", "ackCreate", "ackUpsert", "agent", "lookup", "inline", "find",
        "edit", "create", "upsert", "done", "failed"}

TypeOK ==
    /\ comments \in Seq(Comment)
    /\ mapping \in 0..Len(comments)
    /\ pc \in [Runs -> PCs]
    /\ target \in [Runs -> 0..Len(comments)]
    /\ lastWrite \in Runs \cup {"none"}
    /\ faults \in 0..MaxFaults /\ deletes \in 0..MaxDeletes /\ quotes \in 0..MaxQuotes

Init ==
    /\ comments = <<>> /\ mapping = 0
    /\ pc = [r \in Runs |-> "new"]
    /\ target = [r \in Runs |-> 0]
    /\ lastWrite = "none"
    /\ faults = 0 /\ deletes = 0 /\ quotes = 0

-----------------------------------------------------------------------------
Goto(r, next) == pc' = [pc EXCEPT ![r] = next]
Target(r, id) == target' = [target EXCEPT ![r] = id]

\* A call fails: nothing landed, or (Fault of a write) it landed unseen.
Fault == faults < MaxFaults /\ faults' = faults + 1
Works == UNCHANGED faults

\* A comment of ours: the bot's login, and the marker every comment here carries.
Owned(i) == comments[i].live /\ comments[i].owner = "bothos"

\* Variant: the marker alone identifies the comment.
findMarked ==
    LET ids == {i \in 1..Len(comments) : comments[i].live} IN
    IF ids = {} THEN 0 ELSE CHOOSE i \in ids : \A j \in ids : i <= j

\* findOwnedReviewComment: the first listed comment of ours.
findOwned ==
    LET ids == {i \in 1..Len(comments) : Owned(i)} IN
    IF ids = {} THEN 0 ELSE CHOOSE i \in ids : \A j \in ids : i <= j

CreateComment(text) ==
    comments' = Append(comments, [owner |-> "bothos", body |-> text, live |-> TRUE])

InProgress == {r \in Runs : pc[r] \notin {"new", "done", "failed"}}

\* River gives the run to a free handler; a manual review acknowledges first.
Begin(r) ==
    /\ pc[r] = "new"
    /\ Cardinality(InProgress) < Concurrency
    /\ Goto(r, IF r \in ManualRuns THEN "ackFind" ELSE "agent")
    /\ UNCHANGED <<comments, mapping, target, lastWrite, faults, deletes, quotes>>

-----------------------------------------------------------------------------
(* AcknowledgeReview.  ReviewPipeline.Run only logs its error. *)

AckFind(r) ==
    /\ pc[r] = "ackFind"
    /\ \/ /\ Works
          /\ Target(r, findOwned)
          /\ Goto(r, IF findOwned = 0 THEN "ackCreate" ELSE "ackUpsert")
       \/ Fault /\ UNCHANGED target /\ Goto(r, "agent")
    /\ UNCHANGED <<comments, mapping, lastWrite, deletes, quotes>>

AckCreate(r) ==
    /\ pc[r] = "ackCreate"
    /\ \/ Works /\ CreateComment("queued") /\ Target(r, Len(comments) + 1) /\ Goto(r, "ackUpsert")
       \/ /\ Fault
          /\ CreateComment("queued") \/ UNCHANGED comments
          /\ UNCHANGED target /\ Goto(r, "agent")
    /\ UNCHANGED <<mapping, lastWrite, deletes, quotes>>

AckUpsert(r) ==
    /\ pc[r] = "ackUpsert"
    /\ \/ Works /\ mapping' = target[r]
       \/ Fault /\ mapping' \in {mapping, target[r]}
    /\ Goto(r, "agent") /\ Target(r, 0)
    /\ UNCHANGED <<comments, lastWrite, deletes, quotes>>

\* Sandbox, checks, agent and validation.
Agent(r) ==
    /\ pc[r] = "agent"
    /\ Goto(r, "lookup") \/ Goto(r, "failed")
    /\ UNCHANGED <<comments, mapping, target, lastWrite, faults, deletes, quotes>>

-----------------------------------------------------------------------------
(* Execute for post_review, and PostReview *)

\* mappedCommentID is read once, before the inline comments go out.
Lookup(r) ==
    /\ pc[r] = "lookup"
    /\ \/ Works /\ Target(r, mapping) /\ Goto(r, "inline")
       \/ Fault /\ UNCHANGED target /\ Goto(r, "failed")
    /\ UNCHANGED <<comments, mapping, lastWrite, deletes, quotes>>

Inline(r) ==
    /\ pc[r] = "inline"
    /\ \/ Works /\ Goto(r, IF target[r] = 0 THEN "find" ELSE "edit")
       \/ Fault /\ Goto(r, "failed")
    /\ UNCHANGED <<comments, mapping, target, lastWrite, deletes, quotes>>

\* Variant: without a mapping the comment is taken to be missing.
FindSkipped(r) ==
    /\ pc[r] = "find"
    /\ Goto(r, "create")
    /\ UNCHANGED <<comments, mapping, target, lastWrite, faults, deletes, quotes>>

Find(r) ==
    /\ pc[r] = "find"
    /\ \/ /\ Works
          /\ Target(r, findOwned)
          /\ Goto(r, IF findOwned = 0 THEN "create" ELSE "edit")
       \/ Fault /\ UNCHANGED target /\ Goto(r, "failed")
    /\ UNCHANGED <<comments, mapping, lastWrite, deletes, quotes>>

\* A deleted comment answers 404, which falls through to CreateComment; any
\* other error is final.
Edit(r) ==
    /\ pc[r] = "edit"
    /\ \/ /\ comments[target[r]].live
          /\ comments' = [comments EXCEPT ![target[r]].body = r] /\ lastWrite' = r
          /\ \/ Works /\ Goto(r, "upsert")
             \/ Fault /\ Goto(r, "failed")
       \/ Fault /\ Goto(r, "failed") /\ UNCHANGED <<comments, lastWrite>>
       \/ ~comments[target[r]].live /\ Works /\ Goto(r, "create") /\ UNCHANGED <<comments, lastWrite>>
    /\ UNCHANGED <<mapping, target, deletes, quotes>>

\* Variant: the id of the new comment is taken although creating it failed.
CreateUnchecked(r) ==
    /\ pc[r] = "create"
    /\ \/ Works /\ CreateComment(r)
       \/ Fault /\ UNCHANGED comments
    /\ lastWrite' = r /\ Target(r, Len(comments) + 1) /\ Goto(r, "upsert")
    /\ UNCHANGED <<mapping, deletes, quotes>>

Create(r) ==
    /\ pc[r] = "create"
    /\ \/ /\ CreateComment(r) /\ lastWrite' = r
          /\ \/ Works /\ Target(r, Len(comments) + 1) /\ Goto(r, "upsert")
             \/ Fault /\ UNCHANGED target /\ Goto(r, "failed")
       \/ Fault /\ Goto(r, "failed") /\ UNCHANGED <<comments, target, lastWrite>>
    /\ UNCHANGED <<mapping, deletes, quotes>>

\* Variant: INSERT ... ON CONFLICT DO NOTHING.
UpsertKeepsFirst(r) ==
    /\ pc[r] = "upsert"
    /\ mapping' = IF mapping = 0 THEN target[r] ELSE mapping
    /\ Goto(r, "done")
    /\ UNCHANGED <<comments, target, lastWrite, faults, deletes, quotes>>

Upsert(r) ==
    /\ pc[r] = "upsert"
    /\ \/ Works /\ mapping' = target[r] /\ Goto(r, "done")
       \/ Fault /\ mapping' \in {mapping, target[r]} /\ Goto(r, "failed")
    /\ UNCHANGED <<comments, target, lastWrite, deletes, quotes>>

-----------------------------------------------------------------------------
(* People on GitHub *)

Delete(i) ==
    /\ Owned(i) /\ deletes < MaxDeletes
    /\ comments' = [comments EXCEPT ![i].live = FALSE]
    /\ deletes' = deletes + 1
    /\ UNCHANGED <<mapping, pc, target, lastWrite, faults, quotes>>

Quote ==
    /\ quotes < MaxQuotes
    /\ comments' = Append(comments, [owner |-> "user", body |-> "quote", live |-> TRUE])
    /\ quotes' = quotes + 1
    /\ UNCHANGED <<mapping, pc, target, lastWrite, faults, deletes>>

Next ==
    \/ \E r \in Runs :
          \/ Begin(r) \/ AckFind(r) \/ AckCreate(r) \/ AckUpsert(r) \/ Agent(r)
          \/ Lookup(r) \/ Inline(r) \/ Find(r) \/ Edit(r) \/ Create(r) \/ Upsert(r)
    \/ \E i \in 1..Len(comments) : Delete(i)
    \/ Quote

Spec == Init /\ [][Next]_vars

-----------------------------------------------------------------------------
(* Properties *)

Summaries == {i \in 1..Len(comments) : Owned(i)}

\* One summary comment per pull request, however its reviews end: lost replies,
\* timed-out acknowledgements and failed mapping updates are all recovered from
\* by looking for the marker.
OneSummaryComment == Cardinality(Summaries) <= 1

\* ... except that a mapping left pointing at a deleted comment is trusted: when
\* the replacement's reply or mapping update is lost, the next run replaces it
\* again without looking.
OneSummaryUnlessDeleted == OneSummaryComment \/ (deletes > 0 /\ faults > 0)

\* A successful review that nobody has overwritten is on the pull request, and
\* when the pull request's one summary shows it the mapping leads there.  (With a
\* second summary around, an acknowledgement takes the mapping back to the first;
\* if that one is deleted in turn, the mapping leads nowhere.)
SucceededReviewIsMapped ==
    \A r \in Runs : pc[r] = "done" /\ lastWrite = r =>
        /\ \E i \in 1..Len(comments) : comments[i].body = r
        /\ \A i \in Summaries :
              OneSummaryComment /\ comments[i].body = r =>
                  mapping = i \/ (deletes > 1 /\ faults > 0)

\* A user's comment that quotes the marker is never edited.
OthersCommentsStay ==
    [][\A i \in 1..Len(comments) : comments[i].owner = "user" => comments'[i] = comments[i]]_vars
=============================================================================

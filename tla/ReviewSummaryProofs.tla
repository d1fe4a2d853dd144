------------------------- MODULE ReviewSummaryProofs -------------------------
(***************************************************************************)
(* Theorems about ReviewSummary: for any number of reviews and any bounds  *)
(* on faults, deletions and quotes; the last two for one handler.          *)
(***************************************************************************)
EXTENDS ReviewSummary, SequenceFacts, FiniteSetTheorems

\* Who is remembered as ours is ours, and what is about to be edited or mapped exists.
OwnTargets ==
    /\ mapping # 0 => comments[mapping].owner = "bothos"
    /\ \A r \in Runs : target[r] # 0 => comments[target[r]].owner = "bothos"
    /\ \A r \in Runs : pc[r] \in {"ackUpsert", "edit", "upsert"} => target[r] # 0

\* A run writes its review once, into one comment.
WrittenOnce ==
    /\ lastWrite # "none" => \E i \in 1..Len(comments) : comments[i].body = lastWrite
    /\ \A i \in 1..Len(comments) :
          comments[i].body \in Runs => pc[comments[i].body] \in {"upsert", "done", "failed"}
    /\ \A i, j \in 1..Len(comments) :
          comments[i].body = comments[j].body /\ comments[i].body \in Runs => i = j

CommentsInv == TypeOK /\ OwnTargets /\ WrittenOnce

Alone == \A r, q \in InProgress : r = q

Unique == \A i, j \in Summaries : i = j

\* Nothing has been deleted, or nothing has failed.
Undisturbed == deletes = 0 \/ faults = 0

\* A comment is made only where there is none.
MadeWhereNone ==
    /\ Undisturbed => Unique
    /\ deletes = 0 => \A i \in 1..Len(comments) : comments[i].owner = "bothos" => Owned(i)
    /\ \A r \in Runs : /\ pc[r] = "ackCreate" => Summaries = {}
                       /\ pc[r] = "create" /\ Undisturbed => Summaries = {}

\* Without failures the mapping, or who is about to set it, knows the summary.
Known ==
    faults = 0 =>
        /\ \A r \in Runs :
              pc[r] \in {"ackUpsert", "upsert", "edit"} \/ (pc[r] = "inline" /\ target[r] # 0)
                  => Summaries \subseteq {target[r]}
        /\ (\A r \in Runs : pc[r] \notin {"ackUpsert", "upsert"}) => Summaries \subseteq {mapping}

\* The mapping follows the last review, also past an acknowledgement.
Mapped ==
    /\ \A r \in Runs : pc[r] = "upsert" => lastWrite = r /\ comments[target[r]].body = r
    /\ deletes <= 1 \/ faults = 0 =>
          \A r \in Runs :
              /\ pc[r] = "ackUpsert" /\ Unique => Summaries \subseteq {target[r]}
              /\ pc[r] = "done" /\ lastWrite = r /\ Unique =>
                    \A i \in Summaries : comments[i].body = r => mapping = i

OneHandlerInv == CommentsInv /\ Alone /\ MadeWhereNone /\ Known /\ Mapped

-----------------------------------------------------------------------------
(* lists of comments *)

LEMMA CommentTyped ==
    ASSUME TypeOK
    PROVE  /\ comments \in Seq(Comment) /\ Len(comments) \in Nat /\ DOMAIN comments = 1..Len(comments)
           /\ \A i \in 1..Len(comments) :
                 /\ comments[i] \in Comment
                 /\ comments[i] = [owner |-> comments[i].owner, body |-> comments[i].body,
                                   live |-> comments[i].live]
                 /\ comments[i].owner \in {"bothos", "user"} /\ comments[i].live \in BOOLEAN
<1>1. comments \in Seq(Comment)
  BY DEF TypeOK
<1>2. ASSUME NEW i \in 1..Len(comments)
      PROVE  /\ comments[i] \in Comment
             /\ comments[i] = [owner |-> comments[i].owner, body |-> comments[i].body,
                               live |-> comments[i].live]
             /\ comments[i].owner \in {"bothos", "user"} /\ comments[i].live \in BOOLEAN
  <2>1. comments[i] \in Comment
    BY <1>1, ElementTyped
  <2> QED
    BY <2>1 DEF Comment
<1> QED
  BY <1>1, <1>2

LEMMA Appended ==
    ASSUME TypeOK, NEW c \in Comment, comments' = Append(comments, c)
    PROVE  /\ comments' \in Seq(Comment)
           /\ Len(comments') = Len(comments) + 1
           /\ 1..Len(comments') = 1..Len(comments) \cup {Len(comments) + 1}
           /\ \A i \in 1..Len(comments) : comments'[i] = comments[i]
           /\ comments'[Len(comments) + 1] = c
<1>1. comments \in Seq(Comment) /\ Len(comments) \in Nat
  BY CommentTyped
<1>2. Len(comments') = Len(comments) + 1
  BY <1>1
<1>3. 1..(Len(comments) + 1) = 1..Len(comments) \cup {Len(comments) + 1}
  BY <1>1
<1> QED
  BY <1>1, <1>2, <1>3

\* A comment of ours is a new summary, anybody else's is not.
LEMMA SummaryAppended ==
    ASSUME TypeOK, NEW c \in Comment, comments' = Append(comments, c)
    PROVE  /\ c.owner = "user" => Summaries' = Summaries
           /\ c.owner = "bothos" /\ c.live => Summaries' = Summaries \cup {Len(comments) + 1}
           /\ Len(comments) + 1 \notin Summaries
<1>1. /\ Len(comments) \in Nat
      /\ 1..Len(comments') = 1..Len(comments) \cup {Len(comments) + 1}
      /\ \A i \in 1..Len(comments) : comments'[i] = comments[i]
      /\ comments'[Len(comments) + 1] = c
  BY Appended, CommentTyped
<1> DEFINE n == Len(comments) + 1
<1>3. /\ c.owner = "user" => ~(comments'[n].live /\ comments'[n].owner = "bothos")
      /\ c.owner = "bothos" /\ c.live => comments'[n].live /\ comments'[n].owner = "bothos"
  BY <1>1
<1>6. Summaries' = {i \in 1..Len(comments') : comments'[i].live /\ comments'[i].owner = "bothos"}
  BY DEF Summaries, Owned
<1>5. Len(comments) + 1 \notin 1..Len(comments)
  BY <1>1
<1> QED
  BY <1>1, <1>3, <1>5, <1>6 DEF Summaries, Owned

LEMMA Rewritten ==
    ASSUME TypeOK, NEW n \in 1..Len(comments), NEW r \in Runs,
           comments' = [comments EXCEPT ![n].body = r]
    PROVE  /\ comments' \in Seq(Comment)
           /\ Len(comments') = Len(comments)
           /\ comments'[n].body = r
           /\ \A i \in 1..Len(comments) :
                 /\ i # n => comments'[i] = comments[i]
                 /\ comments'[i].owner = comments[i].owner /\ comments'[i].live = comments[i].live
           /\ Summaries' = Summaries
<1>1. comments \in Seq(Comment) /\ Len(comments) \in Nat /\ comments[n] \in Comment
  BY CommentTyped
<1> DEFINE c == [comments[n] EXCEPT !.body = r]
<1>2. c \in Comment /\ c.body = r /\ c.owner = comments[n].owner /\ c.live = comments[n].live
  BY <1>1 DEF Comment
<1>3. comments' = [comments EXCEPT ![n] = c]
  OBVIOUS
<1> HIDE DEF c
<1>4. comments' \in Seq(Comment) /\ Len(comments') = Len(comments)
  BY <1>1, <1>2, <1>3
<1>5. \A i \in 1..Len(comments) : comments'[i] = IF i = n THEN c ELSE comments[i]
  BY <1>1, <1>3
<1>6. \A i \in 1..Len(comments) : /\ i # n => comments'[i] = comments[i]
                                  /\ comments'[i].owner = comments[i].owner
                                  /\ comments'[i].live = comments[i].live
  BY <1>2, <1>5
<1>7. Summaries' = Summaries
  BY <1>4, <1>6 DEF Summaries, Owned
<1> QED
  BY <1>2, <1>4, <1>5, <1>6, <1>7

LEMMA Deleted ==
    ASSUME TypeOK, NEW n \in 1..Len(comments)
    PROVE  comments' = [comments EXCEPT ![n].live = FALSE] =>
              /\ comments' \in Seq(Comment)
              /\ Len(comments') = Len(comments)
              /\ \A i \in 1..Len(comments) : /\ comments'[i].owner = comments[i].owner
                                             /\ comments'[i].body = comments[i].body
                                             /\ i # n => comments'[i] = comments[i]
              /\ Summaries' = Summaries \ {n}
<1>0. SUFFICES ASSUME comments' = [comments EXCEPT ![n].live = FALSE]
      PROVE  /\ comments' \in Seq(Comment)
             /\ Len(comments') = Len(comments)
             /\ \A i \in 1..Len(comments) : /\ comments'[i].owner = comments[i].owner
                                            /\ comments'[i].body = comments[i].body
                                            /\ i # n => comments'[i] = comments[i]
             /\ Summaries' = Summaries \ {n}
  OBVIOUS
<1>1. comments \in Seq(Comment) /\ Len(comments) \in Nat /\ comments[n] \in Comment
  BY CommentTyped
<1> DEFINE c == [comments[n] EXCEPT !.live = FALSE]
<1>a. c \in Comment
  BY <1>1 DEF Comment
<1>2. ~c.live /\ c.owner = comments[n].owner /\ c.body = comments[n].body
  BY <1>1 DEF Comment
<1>3. comments' = [comments EXCEPT ![n] = c]
  BY <1>0
<1> HIDE DEF c
<1>4. comments' \in Seq(Comment) /\ Len(comments') = Len(comments)
  BY <1>1, <1>a, <1>3
<1>5. \A i \in 1..Len(comments) : comments'[i] = IF i = n THEN c ELSE comments[i]
  BY <1>1, <1>3
<1>6. \A i \in 1..Len(comments) : Owned(i)' <=> Owned(i) /\ i # n
  BY <1>2, <1>5 DEF Owned
<1>7. Summaries' = Summaries \ {n}
  BY <1>4, <1>6 DEF Summaries
<1> QED
  BY <1>2, <1>4, <1>5, <1>7

\* findOwned finds a summary if there is one.
LEMMA FindsSummary ==
    ASSUME TypeOK
    PROVE  /\ findOwned = 0 <=> Summaries = {}
           /\ findOwned # 0 => findOwned \in Summaries
<1>1. Summaries \in SUBSET Nat /\ 0 \notin Summaries
  BY CommentTyped DEF Summaries
<1>2. findOwned = IF Summaries = {} THEN 0
                  ELSE CHOOSE i \in Summaries : \A j \in Summaries : i <= j
  BY DEF findOwned, Summaries
<1>3. Summaries # {} => \E i \in Summaries : \A j \in Summaries : i <= j
  BY <1>1, LeastNatural
<1>4. Summaries # {} => findOwned \in Summaries
  BY <1>2, <1>3
<1> QED
  BY <1>1, <1>2, <1>4

\* At most one, counted or compared.
LEMMA OneIsUnique == TypeOK => (OneSummaryComment <=> Unique)
<1> SUFFICES ASSUME TypeOK PROVE OneSummaryComment <=> Unique
  OBVIOUS
<1>1. IsFiniteSet(Summaries)
  <2>1. IsFiniteSet(1..Len(comments))
    BY CommentTyped, FS_Interval
  <2>2. Summaries \subseteq 1..Len(comments)
    BY DEF Summaries
  <2> QED
    BY <2>1, <2>2, FS_Subset
<1>2. Cardinality(Summaries) \in Nat
  BY <1>1, FS_CardinalityType
<1>3. Cardinality(Summaries) = 0 <=> Summaries = {}
  BY <1>1, FS_EmptySet
<1>4. Cardinality(Summaries) = 1 <=> \E x : Summaries = {x}
  BY <1>1, FS_Singleton
<1>5. Unique <=> Summaries = {} \/ \E x : Summaries = {x}
  <2>1. ASSUME Unique, NEW x \in Summaries PROVE Summaries = {x}
    BY <2>1 DEF Unique
  <2> QED
    BY <2>1 DEF Unique
<1>6. OneSummaryComment <=> Cardinality(Summaries) = 0 \/ Cardinality(Summaries) = 1
  BY <1>2 DEF OneSummaryComment
<1> QED
  BY <1>3, <1>4, <1>5, <1>6

-----------------------------------------------------------------------------
(* every step, any number of handlers *)

\* No step removes a comment from the list or gives it to somebody else.
Kept ==
    /\ comments' \in Seq(Comment)
    /\ Len(comments') \in Nat /\ Len(comments) <= Len(comments')
    /\ \A i \in 1..Len(comments) : i \in 1..Len(comments') /\ comments'[i].owner = comments[i].owner

LEMMA UntouchedIsKept == TypeOK /\ comments' = comments => Kept
BY CommentTyped DEF Kept

LEMMA AppendedIsKept ==
    ASSUME TypeOK, NEW c \in Comment, comments' = Append(comments, c)
    PROVE  Kept
BY Appended, CommentTyped DEF Kept

LEMMA RewrittenIsKept ==
    ASSUME TypeOK, NEW n \in 1..Len(comments), NEW r \in Runs, comments' = [comments EXCEPT ![n].body = r]
    PROVE  Kept
<1>1. /\ comments' \in Seq(Comment) /\ Len(comments') = Len(comments)
      /\ \A i \in 1..Len(comments) : comments'[i].owner = comments[i].owner
  BY Rewritten
<1> QED
  BY <1>1, CommentTyped DEF Kept

\* The comment CreateComment makes.
LEMMA CreatedTyped ==
    ASSUME NEW text \in Runs \cup {"queued"}
    PROVE  /\ [owner |-> "bothos", body |-> text, live |-> TRUE] \in Comment
           /\ [owner |-> "user", body |-> "quote", live |-> TRUE] \in Comment
BY DEF Comment

LEMMA CreatedIsKept ==
    ASSUME TypeOK, NEW text \in Runs \cup {"queued"}, CreateComment(text)
    PROVE  /\ Kept /\ Len(comments') = Len(comments) + 1
           /\ Len(comments) + 1 \in 1..Len(comments')
           /\ comments'[Len(comments) + 1].owner = "bothos" /\ comments'[Len(comments) + 1].body = text
           /\ \A i \in 1..Len(comments) : comments'[i] = comments[i]
           /\ 1..Len(comments') = 1..Len(comments) \cup {Len(comments) + 1}
           /\ Summaries' = Summaries \cup {Len(comments) + 1} /\ Len(comments) + 1 \notin Summaries
<1> DEFINE c == [owner |-> "bothos", body |-> text, live |-> TRUE]
<1>1. c \in Comment /\ c.owner = "bothos" /\ c.body = text
  BY CreatedTyped
<1>2. c.live
  OBVIOUS
<1>3. comments' = Append(comments, c)
  BY DEF CreateComment
<1> HIDE DEF c
<1> QED
  BY <1>1, <1>2, <1>3, AppendedIsKept, Appended, SummaryAppended, CommentTyped

\* A step of a run: what of a comment list and a target it moves stays in range.
LEMMA TargetsTyped ==
    ASSUME TypeOK, Kept, NEW r \in Runs, NEW id \in 0..Len(comments')
    PROVE  /\ mapping \in 0..Len(comments') /\ target \in [Runs -> 0..Len(comments')]
           /\ [target EXCEPT ![r] = id] \in [Runs -> 0..Len(comments')]
           /\ \A q \in Runs : target[q] \in 0..Len(comments')
<1>1. Len(comments) \in Nat /\ Len(comments') \in Nat /\ Len(comments) <= Len(comments')
  BY CommentTyped DEF Kept
<1>2. 0..Len(comments) \subseteq 0..Len(comments')
  BY <1>1
<1>3. mapping \in 0..Len(comments) /\ target \in [Runs -> 0..Len(comments)]
  BY DEF TypeOK
<1>4. target \in [Runs -> 0..Len(comments')]
  BY <1>2, <1>3
<1> QED
  BY <1>2, <1>3, <1>4

LEMMA FaultTyped ==
    ASSUME TypeOK, Works \/ Fault
    PROVE  faults' \in 0..MaxFaults /\ (faults' = 0 => faults = 0)
<1>1. MaxFaults \in Nat /\ faults \in 0..MaxFaults
  BY ReviewAssumption DEF ReviewAssumption, TypeOK
<1>2. CASE Works
  BY <1>1, <1>2 DEF Works
<1>3. CASE Fault
  BY <1>1, <1>3 DEF Fault
<1> QED
  BY <1>2, <1>3

LEMMA FoundTyped ==
    ASSUME TypeOK
    PROVE  /\ findOwned \in 0..Len(comments)
           /\ findOwned # 0 => comments[findOwned].owner = "bothos"
<1>1. findOwned = 0 \/ findOwned \in Summaries
  BY FindsSummary
<1> QED
  BY <1>1, CommentTyped DEF Summaries, Owned

LEMMA TypeStep == TypeOK /\ OwnTargets /\ [Next]_vars => TypeOK' /\ Kept
<1> SUFFICES ASSUME TypeOK, OwnTargets, [Next]_vars PROVE TypeOK' /\ Kept
  OBVIOUS
<1> USE DEF Goto, Target, PCs
<1>0. /\ pc \in [Runs -> PCs] /\ lastWrite \in Runs \cup {"none"}
      /\ faults \in 0..MaxFaults /\ deletes \in 0..MaxDeletes /\ quotes \in 0..MaxQuotes
      /\ MaxDeletes \in Nat /\ MaxQuotes \in Nat
      /\ \A r \in Runs : target[r] \in 0..Len(comments)
  BY ReviewAssumption DEF ReviewAssumption, TypeOK
<1>1. ASSUME NEW r \in Runs, Begin(r) PROVE TypeOK' /\ Kept
  BY <1>1, UntouchedIsKept DEF Begin, TypeOK
<1>2. ASSUME NEW r \in Runs, AckFind(r) PROVE TypeOK' /\ Kept
  <2>1. Kept /\ faults' \in 0..MaxFaults
    BY <1>2, UntouchedIsKept, FaultTyped DEF AckFind
  <2> QED
    BY <1>2, <2>1, FoundTyped DEF AckFind, TypeOK
<1>3. ASSUME NEW r \in Runs, AckCreate(r) PROVE TypeOK' /\ Kept
  <2>1. faults' \in 0..MaxFaults
    BY <1>3, FaultTyped DEF AckCreate
  <2>2. Kept /\ (target' # target => Len(comments) + 1 \in 0..Len(comments'))
    BY <1>3, UntouchedIsKept, CreatedIsKept, CommentTyped DEF AckCreate
  <2>3. mapping' \in 0..Len(comments') /\ target' \in [Runs -> 0..Len(comments')]
    BY <1>3, <2>2, TargetsTyped DEF AckCreate
  <2>4. pc' \in [Runs -> PCs]
    BY <1>0, <1>3 DEF AckCreate
  <2> QED
    BY <1>0, <1>3, <2>1, <2>2, <2>3, <2>4 DEF AckCreate, TypeOK, Kept
<1>4. ASSUME NEW r \in Runs, AckUpsert(r) PROVE TypeOK' /\ Kept
  <2>1. Kept /\ faults' \in 0..MaxFaults
    BY <1>4, UntouchedIsKept, FaultTyped DEF AckUpsert
  <2>2. mapping' \in 0..Len(comments) /\ target' \in [Runs -> 0..Len(comments)]
    BY <1>4, CommentTyped DEF AckUpsert, TypeOK
  <2> QED
    BY <1>4, <2>1, <2>2 DEF AckUpsert, TypeOK
<1>5. ASSUME NEW r \in Runs, Agent(r) PROVE TypeOK' /\ Kept
  BY <1>5, UntouchedIsKept DEF Agent, TypeOK
<1>6. ASSUME NEW r \in Runs, Lookup(r) PROVE TypeOK' /\ Kept
  <2>1. Kept /\ faults' \in 0..MaxFaults
    BY <1>6, UntouchedIsKept, FaultTyped DEF Lookup
  <2> QED
    BY <1>6, <2>1 DEF Lookup, TypeOK
<1>7. ASSUME NEW r \in Runs, Inline(r) PROVE TypeOK' /\ Kept
  <2>1. Kept /\ faults' \in 0..MaxFaults
    BY <1>7, UntouchedIsKept, FaultTyped DEF Inline
  <2> QED
    BY <1>7, <2>1 DEF Inline, TypeOK
<1>8. ASSUME NEW r \in Runs, Find(r) PROVE TypeOK' /\ Kept
  <2>1. Kept /\ faults' \in 0..MaxFaults
    BY <1>8, UntouchedIsKept, FaultTyped DEF Find
  <2> QED
    BY <1>8, <2>1, FoundTyped DEF Find, TypeOK
<1>9. ASSUME NEW r \in Runs, Edit(r) PROVE TypeOK' /\ Kept
  <2>1. faults' \in 0..MaxFaults
    BY <1>9, FaultTyped DEF Edit
  <2>2. target[r] \in 1..Len(comments)
    BY <1>0, <1>9, CommentTyped DEF Edit, OwnTargets
  <2>3. Kept /\ Len(comments') = Len(comments)
    BY <1>9, <2>2, UntouchedIsKept, RewrittenIsKept, Rewritten DEF Edit
  <2>4. pc' \in [Runs -> PCs] /\ lastWrite' \in Runs \cup {"none"}
    BY <1>0, <1>9 DEF Edit
  <2> QED
    BY <1>9, <2>1, <2>3, <2>4 DEF Edit, TypeOK, Kept
<1>10. ASSUME NEW r \in Runs, Create(r) PROVE TypeOK' /\ Kept
  <2>1. faults' \in 0..MaxFaults
    BY <1>10, FaultTyped DEF Create
  <2>2. Kept /\ (target' # target => Len(comments) + 1 \in 0..Len(comments'))
    BY <1>10, UntouchedIsKept, CreatedIsKept, CommentTyped DEF Create
  <2>3. mapping' \in 0..Len(comments') /\ target' \in [Runs -> 0..Len(comments')]
    BY <1>10, <2>2, TargetsTyped DEF Create
  <2>4. pc' \in [Runs -> PCs] /\ lastWrite' \in Runs \cup {"none"}
    BY <1>0, <1>10 DEF Create
  <2> QED
    BY <1>0, <1>10, <2>1, <2>2, <2>3, <2>4 DEF Create, TypeOK, Kept
<1>11. ASSUME NEW r \in Runs, Upsert(r) PROVE TypeOK' /\ Kept
  <2>1. Kept /\ faults' \in 0..MaxFaults
    BY <1>11, UntouchedIsKept, FaultTyped DEF Upsert
  <2> QED
    BY <1>11, <2>1 DEF Upsert, TypeOK
<1>12. ASSUME NEW i \in 1..Len(comments), Delete(i) PROVE TypeOK' /\ Kept
  <2>1. /\ comments' \in Seq(Comment) /\ Len(comments') = Len(comments)
        /\ \A j \in 1..Len(comments) : comments'[j].owner = comments[j].owner
    BY <1>12, Deleted DEF Delete
  <2>2. deletes' \in 0..MaxDeletes
    BY <1>0, <1>12 DEF Delete
  <2> QED
    BY <1>12, <2>1, <2>2, CommentTyped DEF Delete, TypeOK, Kept
<1>13. CASE Quote
  <2>1. Kept
    BY <1>13, CreatedTyped, AppendedIsKept DEF Quote
  <2>2. mapping \in 0..Len(comments') /\ target \in [Runs -> 0..Len(comments')]
    BY <2>1, TargetsTyped, CommentTyped DEF TypeOK, Kept
  <2>3. quotes' \in 0..MaxQuotes
    BY <1>0, <1>13 DEF Quote
  <2> QED
    BY <1>13, <2>1, <2>2, <2>3 DEF Quote, TypeOK, Kept
<1>14. CASE UNCHANGED vars
  BY <1>14, UntouchedIsKept DEF vars, TypeOK
<1> QED
  BY <1>1, <1>2, <1>3, <1>4, <1>5, <1>6, <1>7, <1>8, <1>9, <1>10, <1>11, <1>12, <1>13, <1>14 DEF Next

LEMMA OwnTargetsStep == TypeOK /\ OwnTargets /\ [Next]_vars => OwnTargets'
<1> SUFFICES ASSUME TypeOK, OwnTargets, [Next]_vars PROVE OwnTargets'
  OBVIOUS
<1> USE DEF Goto, Target
<1>0. /\ pc \in [Runs -> PCs] /\ target \in [Runs -> 0..Len(comments)]
      /\ mapping \in 0..Len(comments) /\ Len(comments) \in Nat
  BY CommentTyped DEF TypeOK
<1>k. /\ \A i \in 1..Len(comments) : comments'[i].owner = comments[i].owner
      /\ \A i \in 0..Len(comments) : i # 0 => i \in 1..Len(comments)
  BY <1>0, TypeStep DEF Kept
<1>a. /\ mapping # 0 => comments'[mapping].owner = "bothos"
      /\ \A r \in Runs : target[r] # 0 => comments'[target[r]].owner = "bothos"
      /\ findOwned # 0 => comments'[findOwned].owner = "bothos"
  BY <1>0, <1>k, FoundTyped DEF OwnTargets
<1>b. \A r \in Runs : pc[r] \in {"ackUpsert", "edit", "upsert"} => target[r] # 0
  BY DEF OwnTargets
<1> USE <1>0, <1>a, <1>b
<1>1. ASSUME NEW r \in Runs, Begin(r) PROVE OwnTargets'
  BY <1>1 DEF Begin, OwnTargets
<1>2. ASSUME NEW r \in Runs, AckFind(r) PROVE OwnTargets'
  BY <1>2 DEF AckFind, OwnTargets
<1>3. ASSUME NEW r \in Runs, AckCreate(r) PROVE OwnTargets'
  <2>1. CASE CreateComment("queued") /\ Target(r, Len(comments) + 1) /\ Goto(r, "ackUpsert")
    <3>1. comments'[Len(comments) + 1].owner = "bothos" /\ Len(comments) + 1 # 0
      BY <2>1, CreatedIsKept
    <3> QED
      BY <1>3, <2>1, <3>1 DEF AckCreate, OwnTargets
  <2>2. CASE UNCHANGED target /\ Goto(r, "agent")
    BY <1>3, <2>2 DEF AckCreate, OwnTargets
  <2> QED
    BY <1>3, <2>1, <2>2 DEF AckCreate
<1>4. ASSUME NEW r \in Runs, AckUpsert(r) PROVE OwnTargets'
  BY <1>4 DEF AckUpsert, OwnTargets
<1>5. ASSUME NEW r \in Runs, Agent(r) PROVE OwnTargets'
  BY <1>5 DEF Agent, OwnTargets
<1>6. ASSUME NEW r \in Runs, Lookup(r) PROVE OwnTargets'
  BY <1>6 DEF Lookup, OwnTargets
<1>7. ASSUME NEW r \in Runs, Inline(r) PROVE OwnTargets'
  BY <1>7 DEF Inline, OwnTargets
<1>8. ASSUME NEW r \in Runs, Find(r) PROVE OwnTargets'
  BY <1>8 DEF Find, OwnTargets
<1>9. ASSUME NEW r \in Runs, Edit(r) PROVE OwnTargets'
  BY <1>9 DEF Edit, OwnTargets
<1>10. ASSUME NEW r \in Runs, Create(r) PROVE OwnTargets'
  <2>1. CASE CreateComment(r) /\ Target(r, Len(comments) + 1) /\ Goto(r, "upsert")
    <3>1. comments'[Len(comments) + 1].owner = "bothos" /\ Len(comments) + 1 # 0
      BY <2>1, CreatedIsKept
    <3> QED
      BY <1>10, <2>1, <3>1 DEF Create, OwnTargets
  <2>2. CASE UNCHANGED target /\ Goto(r, "failed")
    BY <1>10, <2>2 DEF Create, OwnTargets
  <2> QED
    BY <1>10, <2>1, <2>2 DEF Create
<1>11. ASSUME NEW r \in Runs, Upsert(r) PROVE OwnTargets'
  BY <1>11 DEF Upsert, OwnTargets
<1>12. ASSUME NEW i \in 1..Len(comments), Delete(i) PROVE OwnTargets'
  BY <1>12 DEF Delete, OwnTargets
<1>13. CASE Quote
  BY <1>13 DEF Quote, OwnTargets
<1>14. CASE UNCHANGED vars
  BY <1>14 DEF vars, OwnTargets
<1> QED
  BY <1>1, <1>2, <1>3, <1>4, <1>5, <1>6, <1>7, <1>8, <1>9, <1>10, <1>11, <1>12, <1>13, <1>14 DEF Next

\* Texts are as they were, except that a run may have written its own into one comment.
WrittenBy(r, n) ==
    /\ n \in 1..Len(comments') /\ comments'[n].body = r
    /\ \A i \in 1..Len(comments') : i # n => i \in 1..Len(comments) /\ comments'[i].body = comments[i].body

LEMMA WrittenOnceStep == CommentsInv /\ [Next]_vars => WrittenOnce'
<1> SUFFICES ASSUME CommentsInv, [Next]_vars PROVE WrittenOnce'
  OBVIOUS
<1> USE DEF Goto
<1>0. /\ TypeOK /\ OwnTargets /\ WrittenOnce /\ Kept
      /\ pc \in [Runs -> PCs] /\ Len(comments) \in Nat /\ lastWrite \in Runs \cup {"none"}
  BY TypeStep, CommentTyped DEF TypeOK, CommentsInv
<1>q. "queued" \notin Runs /\ "quote" \notin Runs /\ "none" \notin Runs
  BY ReviewAssumption DEF ReviewAssumption
<1>w. ASSUME NEW r \in Runs, pc[r] \in {"edit", "create"}, NEW n, WrittenBy(r, n), lastWrite' = r,
             pc'[r] \in {"upsert", "failed"}, \A q \in Runs : q # r => pc'[q] = pc[q]
      PROVE  WrittenOnce'
  <2>1. \A i \in 1..Len(comments) : comments[i].body # r
    BY <1>0, <1>w DEF WrittenOnce
  <2>2. \A i \in 1..Len(comments') : comments'[i].body = r => i = n
    BY <1>w, <2>1 DEF WrittenBy
  <2>3. \A i \in 1..Len(comments') :
          comments'[i].body \in Runs => pc'[comments'[i].body] \in {"upsert", "done", "failed"}
    BY <1>0, <1>w, <2>2 DEF WrittenOnce, WrittenBy
  <2>4. \A i, j \in 1..Len(comments') :
          comments'[i].body = comments'[j].body /\ comments'[i].body \in Runs => i = j
    BY <1>0, <1>w, <2>2 DEF WrittenOnce, WrittenBy
  <2> QED
    BY <1>w, <2>3, <2>4 DEF WrittenOnce, WrittenBy
<1>s. ASSUME lastWrite' = lastWrite,
             \A i \in 1..Len(comments) : i \in 1..Len(comments') /\ comments'[i].body = comments[i].body,
             \A i \in 1..Len(comments') : i \in 1..Len(comments) \/ comments'[i].body \notin Runs,
             \A q \in Runs : pc[q] \in {"upsert", "done", "failed"} => pc'[q] \in {"upsert", "done", "failed"}
      PROVE  WrittenOnce'
  BY <1>0, <1>s DEF WrittenOnce
<1>u. comments' = comments => /\ \A i \in 1..Len(comments) : i \in 1..Len(comments') /\ comments'[i].body = comments[i].body
                              /\ \A i \in 1..Len(comments') : i \in 1..Len(comments)
  OBVIOUS
<1>1. ASSUME NEW r \in Runs, Begin(r) \/ Agent(r) PROVE WrittenOnce'
  BY <1>0, <1>1, <1>s, <1>u DEF Begin, Agent
<1>2. ASSUME NEW r \in Runs, AckFind(r) \/ AckUpsert(r) \/ Lookup(r) PROVE WrittenOnce'
  BY <1>0, <1>2, <1>s, <1>u DEF AckFind, AckUpsert, Lookup
<1>3. ASSUME NEW r \in Runs, Inline(r) \/ Find(r) \/ Upsert(r) PROVE WrittenOnce'
  BY <1>0, <1>3, <1>s, <1>u DEF Inline, Find, Upsert
<1>4. ASSUME NEW r \in Runs, AckCreate(r) PROVE WrittenOnce'
  <2>1. lastWrite' = lastWrite
    BY <1>4 DEF AckCreate
  <2>2. \A q \in Runs : pc[q] \in {"upsert", "done", "failed"} => pc'[q] \in {"upsert", "done", "failed"}
    BY <1>0, <1>4 DEF AckCreate
  <2>3. CASE CreateComment("queued")
    BY <1>0, <1>q, <1>s, <2>1, <2>2, <2>3, CreatedIsKept
  <2>4. CASE UNCHANGED comments
    BY <1>s, <1>u, <2>1, <2>2, <2>4
  <2> QED
    BY <1>4, <2>3, <2>4 DEF AckCreate
<1>5. ASSUME NEW r \in Runs, Edit(r) PROVE WrittenOnce'
  <2>1. target[r] \in 1..Len(comments)
    BY <1>0, <1>5 DEF Edit, OwnTargets, TypeOK
  <2>2. CASE comments' = [comments EXCEPT ![target[r]].body = r] /\ lastWrite' = r
    <3>1. WrittenBy(r, target[r])
      BY <1>0, <2>1, <2>2, Rewritten DEF WrittenBy
    <3>2. pc[r] = "edit" /\ pc'[r] \in {"upsert", "failed"} /\ \A q \in Runs : q # r => pc'[q] = pc[q]
      BY <1>0, <1>5, <1>q, <2>2 DEF Edit, WrittenOnce
    <3> QED
      BY <1>w, <2>2, <3>1, <3>2
  <2>3. CASE UNCHANGED <<comments, lastWrite>>
    <3>1. \A q \in Runs : pc[q] \in {"upsert", "done", "failed"} => pc'[q] \in {"upsert", "done", "failed"}
      BY <1>0, <1>5 DEF Edit
    <3> QED
      BY <1>s, <1>u, <2>3, <3>1
  <2> QED
    BY <1>5, <2>2, <2>3 DEF Edit
<1>6. ASSUME NEW r \in Runs, Create(r) PROVE WrittenOnce'
  <2>1. CASE CreateComment(r) /\ lastWrite' = r /\ pc'[r] \in {"upsert", "failed"}
    <3>1. WrittenBy(r, Len(comments) + 1)
      BY <1>0, <2>1, CreatedIsKept DEF WrittenBy
    <3>2. pc[r] = "create" /\ \A q \in Runs : q # r => pc'[q] = pc[q]
      BY <1>0, <1>6 DEF Create
    <3> QED
      BY <1>w, <2>1, <3>1, <3>2
  <2>2. CASE UNCHANGED <<comments, lastWrite>>
    <3>1. \A q \in Runs : pc[q] \in {"upsert", "done", "failed"} => pc'[q] \in {"upsert", "done", "failed"}
      BY <1>0, <1>6 DEF Create
    <3> QED
      BY <1>s, <1>u, <2>2, <3>1
  <2> QED
    BY <1>0, <1>6, <2>1, <2>2 DEF Create
<1>7. ASSUME NEW i \in 1..Len(comments), Delete(i) PROVE WrittenOnce'
  <2>1. Len(comments') = Len(comments) /\ \A j \in 1..Len(comments) : comments'[j].body = comments[j].body
    BY <1>0, <1>7, Deleted DEF Delete
  <2> QED
    BY <1>7, <1>s, <2>1 DEF Delete
<1>8. CASE Quote
  <2>1. /\ 1..Len(comments') = 1..Len(comments) \cup {Len(comments) + 1}
        /\ \A j \in 1..Len(comments) : comments'[j] = comments[j]
        /\ comments'[Len(comments) + 1].body = "quote"
    BY <1>0, <1>8, CreatedTyped, Appended DEF Quote
  <2> QED
    BY <1>8, <1>q, <1>s, <2>1 DEF Quote
<1>9. CASE UNCHANGED vars
  BY <1>9, <1>s, <1>u DEF vars
<1> QED
  BY <1>1, <1>2, <1>3, <1>4, <1>5, <1>6, <1>7, <1>8, <1>9 DEF Next

LEMMA CommentsInvariant == Spec => []CommentsInv
<1>1. Init => CommentsInv
  <2> SUFFICES ASSUME Init PROVE CommentsInv
    OBVIOUS
  <2>1. /\ MaxFaults \in Nat /\ MaxDeletes \in Nat /\ MaxQuotes \in Nat
        /\ <<>> \in Seq(Comment) /\ Len(<<>>) = 0
    BY ReviewAssumption DEF ReviewAssumption
  <2>2. TypeOK
    BY <2>1 DEF Init, TypeOK, PCs
  <2>3. OwnTargets /\ WrittenOnce
    BY <2>1 DEF Init, OwnTargets, WrittenOnce
  <2> QED
    BY <2>2, <2>3 DEF CommentsInv
<1>2. CommentsInv /\ [Next]_vars => CommentsInv'
  BY TypeStep, OwnTargetsStep, WrittenOnceStep DEF CommentsInv
<1> QED
  BY <1>1, <1>2, PTL DEF Spec

\* Types, for any number of handlers: what is mapped or worked with is in GitHub's list.
THEOREM SummaryTypeCorrect == Spec => []TypeOK
BY CommentsInvariant, PTL DEF CommentsInv

\* No step of a run or a maintainer touches a user's comment, for any number of handlers.
THEOREM UsersCommentsStay == Spec => OthersCommentsStay
<1>1. CommentsInv /\ [Next]_vars =>
        [\A i \in 1..Len(comments) : comments[i].owner = "user" => comments'[i] = comments[i]]_vars
  <2> SUFFICES ASSUME CommentsInv, [Next]_vars, NEW i \in 1..Len(comments), comments[i].owner = "user"
               PROVE  comments'[i] = comments[i]
    OBVIOUS
  <2>0. TypeOK /\ OwnTargets
    BY DEF CommentsInv
  <2>1. ASSUME NEW r \in Runs,
               \/ Begin(r) \/ AckFind(r) \/ AckUpsert(r) \/ Agent(r)
               \/ Lookup(r) \/ Inline(r) \/ Find(r) \/ Upsert(r)
        PROVE  comments'[i] = comments[i]
    BY <2>1 DEF Begin, AckFind, AckUpsert, Agent, Lookup, Inline, Find, Upsert
  <2>2. ASSUME NEW r \in Runs, AckCreate(r) \/ Create(r) PROVE comments'[i] = comments[i]
    BY <2>0, <2>2, CreatedIsKept DEF AckCreate, Create
  <2>3. ASSUME NEW r \in Runs, Edit(r) PROVE comments'[i] = comments[i]
    <3>1. target[r] \in 1..Len(comments) /\ comments[target[r]].owner = "bothos"
      BY <2>0, <2>3, CommentTyped DEF Edit, OwnTargets, TypeOK
    <3> QED
      BY <2>0, <2>3, <3>1, Rewritten DEF Edit
  <2>4. ASSUME NEW n \in 1..Len(comments), Delete(n) PROVE comments'[i] = comments[i]
    BY <2>0, <2>4, Deleted DEF Delete, Owned
  <2>5. CASE Quote
    BY <2>0, <2>5, CreatedTyped, Appended DEF Quote
  <2>6. CASE UNCHANGED vars
    BY <2>6 DEF vars
  <2> QED
    BY <2>1, <2>2, <2>3, <2>4, <2>5, <2>6 DEF Next
<1> QED
  BY <1>1, CommentsInvariant, PTL DEF Spec, OthersCommentsStay

-----------------------------------------------------------------------------
(* one handler *)

\* The handler takes a run only when it has none.
LEMMA AloneStep == Concurrency = 1 /\ TypeOK /\ Alone /\ [Next]_vars => Alone'
<1> SUFFICES ASSUME Concurrency = 1, TypeOK, Alone, [Next]_vars PROVE Alone'
  OBVIOUS
<1>0. pc \in [Runs -> PCs]
  BY DEF TypeOK
<1>1. ASSUME NEW r \in Runs, Begin(r) PROVE Alone'
  <2>1. IsFiniteSet(InProgress)
    <3>1. InProgress = {} \/ \E q : InProgress = {q}
      BY DEF Alone
    <3> QED
      BY <3>1, FS_EmptySet, FS_Singleton
  <2>2. Cardinality(InProgress) \in Nat /\ Cardinality(InProgress) < 1
    BY <1>1, <2>1, FS_CardinalityType DEF Begin
  <2>3. InProgress = {}
    BY <2>1, <2>2, FS_EmptySet
  <2>4. InProgress' \subseteq {r}
    BY <1>0, <1>1, <2>3 DEF InProgress, Begin, Goto
  <2> QED
    BY <2>4 DEF Alone
<1>2. InProgress' \subseteq InProgress => Alone'
  BY DEF Alone
<1>3. ASSUME NEW r \in Runs, pc[r] \notin {"new", "done", "failed"},
             \A q \in Runs : q # r => pc'[q] = pc[q]
      PROVE  InProgress' \subseteq InProgress
  BY <1>3 DEF InProgress
<1>4. ASSUME NEW r \in Runs, AckFind(r) \/ AckCreate(r) \/ AckUpsert(r) \/ Agent(r) \/ Lookup(r)
      PROVE  InProgress' \subseteq InProgress
  BY <1>0, <1>3, <1>4 DEF AckFind, AckCreate, AckUpsert, Agent, Lookup, Goto
<1>5. ASSUME NEW r \in Runs, Inline(r) \/ Find(r) \/ Edit(r) \/ Create(r) \/ Upsert(r)
      PROVE  InProgress' \subseteq InProgress
  BY <1>0, <1>3, <1>5 DEF Inline, Find, Edit, Create, Upsert, Goto
<1>6. ASSUME pc' = pc PROVE InProgress' \subseteq InProgress
  BY <1>6 DEF InProgress
<1>7. ASSUME NEW i \in 1..Len(comments), Delete(i) PROVE pc' = pc
  BY <1>7 DEF Delete
<1>8. Quote \/ UNCHANGED vars => pc' = pc
  BY DEF Quote, vars
<1> QED
  BY <1>1, <1>2, <1>4, <1>5, <1>6, <1>7, <1>8 DEF Next

\* While a run is in progress the others are not.
LEMMA OthersRest ==
    ASSUME TypeOK, Alone, NEW r \in Runs, pc[r] \notin {"new", "done", "failed"}
    PROVE  \A q \in Runs : q # r => pc[q] \in {"new", "done", "failed"}
BY DEF Alone, InProgress, TypeOK

SummaryInv == MadeWhereNone /\ Known /\ Mapped

LEMMA SameComments ==
    comments' = comments =>
        /\ Summaries' = Summaries /\ (Unique' <=> Unique)
        /\ \A i \in 1..Len(comments) : Owned(i)' <=> Owned(i)
BY DEF Summaries, Unique, Owned

\* The conjuncts of MadeWhereNone that only look at the list.
LEMMA SameMade ==
    ASSUME MadeWhereNone, comments' = comments, deletes' = deletes, faults' = 0 => faults = 0,
           \A q \in Runs : /\ pc'[q] = "ackCreate" => Summaries = {}
                           /\ pc'[q] = "create" /\ Undisturbed => Summaries = {}
    PROVE  MadeWhereNone'
<1>1. Undisturbed' => Undisturbed
  BY DEF Undisturbed
<1>2. Summaries' = Summaries /\ (Unique' <=> Unique) /\ \A i \in 1..Len(comments) : Owned(i)' <=> Owned(i)
  BY SameComments
<1>3. Undisturbed' => Unique'
  BY <1>1, <1>2 DEF MadeWhereNone
<1>4. deletes' = 0 => \A i \in 1..Len(comments') : comments'[i].owner = "bothos" => Owned(i)'
  BY <1>2 DEF MadeWhereNone
<1> QED
  BY <1>1, <1>2, <1>3, <1>4 DEF MadeWhereNone

\* A step of a run in progress that leaves comments and mapping alone and neither begins
\* nor ends an upsert.
LEMMA PassingStep ==
    ASSUME OneHandlerInv, comments' = comments, mapping' = mapping, lastWrite' = lastWrite,
           deletes' = deletes, faults' = 0 => faults = 0,
           NEW r \in Runs, pc[r] \notin {"ackUpsert", "upsert", "done"},
           pc'[r] \notin {"upsert", "done"},
           pc'[r] = "ackUpsert" => pc[r] \notin {"new", "failed"} /\ target'[r] \in Summaries,
           pc'[r] = "ackCreate" => Summaries = {},
           pc'[r] = "create" /\ Undisturbed => Summaries = {},
           faults = 0 /\ (pc'[r] = "edit" \/ (pc'[r] = "inline" /\ target'[r] # 0)) => Summaries \subseteq {target'[r]},
           \A q \in Runs : q # r => pc'[q] = pc[q] /\ target'[q] = target[q]
    PROVE  SummaryInv'
<1>0. TypeOK /\ Alone /\ MadeWhereNone /\ Known /\ Mapped
  BY DEF OneHandlerInv, CommentsInv
<1>1. Summaries' = Summaries /\ (Unique' <=> Unique)
  BY SameComments
<1>2. MadeWhereNone'
  <2>1. \A q \in Runs : /\ pc'[q] = "ackCreate" => Summaries = {}
                        /\ pc'[q] = "create" /\ Undisturbed => Summaries = {}
    BY <1>0 DEF MadeWhereNone
  <2> QED
    BY <1>0, <2>1, SameMade
<1>3. Known'
  <2> SUFFICES ASSUME faults' = 0
               PROVE  /\ \A q \in Runs :
                            pc'[q] \in {"ackUpsert", "upsert", "edit"} \/ (pc'[q] = "inline" /\ target'[q] # 0)
                                => Summaries \subseteq {target'[q]}
                      /\ (\A q \in Runs : pc'[q] \notin {"ackUpsert", "upsert"}) => Summaries \subseteq {mapping}
    BY <1>1 DEF Known
  <2>1. faults = 0 /\ Unique
    BY <1>0 DEF MadeWhereNone, Undisturbed
  <2>2. pc'[r] = "ackUpsert" => Summaries \subseteq {target'[r]}
    BY <2>1 DEF Unique
  <2>3. (\A q \in Runs : pc'[q] \notin {"ackUpsert", "upsert"}) => \A q \in Runs : pc[q] \notin {"ackUpsert", "upsert"}
    OBVIOUS
  <2> QED
    BY <1>0, <2>1, <2>2, <2>3 DEF Known
<1>4. Mapped'
  <2>1. \A q \in Runs : pc'[q] = "upsert" => lastWrite' = q /\ comments'[target'[q]].body = q
    BY <1>0 DEF Mapped
  <2>2. deletes' <= 1 \/ faults' = 0 => deletes <= 1 \/ faults = 0
    OBVIOUS
  <2>3. pc'[r] = "ackUpsert" /\ Unique => Summaries \subseteq {target'[r]}
    BY DEF Unique
  <2> QED
    BY <1>0, <1>1, <2>1, <2>2, <2>3 DEF Mapped
<1> QED
  BY <1>2, <1>3, <1>4 DEF SummaryInv

LEMMA BeginStep == ASSUME OneHandlerInv, NEW r \in Runs, Begin(r) PROVE SummaryInv'
<1>0. pc \in [Runs -> PCs]
  BY DEF OneHandlerInv, CommentsInv, TypeOK
<1> QED
  BY <1>0, PassingStep DEF Begin, Goto

LEMMA AckFindStep == ASSUME OneHandlerInv, NEW r \in Runs, AckFind(r) PROVE SummaryInv'
<1>0. TypeOK /\ pc \in [Runs -> PCs] /\ target \in [Runs -> 0..Len(comments)]
  BY DEF OneHandlerInv, CommentsInv, TypeOK
<1>1. faults' = 0 => faults = 0
  BY <1>0, FaultTyped DEF AckFind
<1> QED
  BY <1>0, <1>1, PassingStep, FindsSummary DEF AckFind, Goto, Target

LEMMA AgentStep == ASSUME OneHandlerInv, NEW r \in Runs, Agent(r) PROVE SummaryInv'
<1>0. pc \in [Runs -> PCs]
  BY DEF OneHandlerInv, CommentsInv, TypeOK
<1> QED
  BY <1>0, PassingStep DEF Agent, Goto

LEMMA LookupStep == ASSUME OneHandlerInv, NEW r \in Runs, Lookup(r) PROVE SummaryInv'
<1>0. /\ TypeOK /\ Alone /\ Known
      /\ pc \in [Runs -> PCs] /\ target \in [Runs -> 0..Len(comments)]
  BY DEF OneHandlerInv, CommentsInv, TypeOK
<1>1. faults' = 0 => faults = 0
  BY <1>0, FaultTyped DEF Lookup
<1>2. faults = 0 => Summaries \subseteq {mapping}
  BY <1>0, OthersRest DEF Known, Lookup
<1> QED
  BY <1>0, <1>1, <1>2, PassingStep DEF Lookup, Goto, Target

LEMMA InlineStep == ASSUME OneHandlerInv, NEW r \in Runs, Inline(r) PROVE SummaryInv'
<1>0. TypeOK /\ Known /\ pc \in [Runs -> PCs]
  BY DEF OneHandlerInv, CommentsInv, TypeOK
<1>1. faults' = 0 => faults = 0
  BY <1>0, FaultTyped DEF Inline
<1>2. faults = 0 /\ target[r] # 0 => Summaries \subseteq {target[r]}
  BY <1>0 DEF Known, Inline
<1> QED
  BY <1>0, <1>1, <1>2, PassingStep DEF Inline, Goto

LEMMA FindStep == ASSUME OneHandlerInv, NEW r \in Runs, Find(r) PROVE SummaryInv'
<1>0. TypeOK /\ MadeWhereNone /\ pc \in [Runs -> PCs] /\ target \in [Runs -> 0..Len(comments)]
  BY DEF OneHandlerInv, CommentsInv, TypeOK
<1>1. faults' = 0 => faults = 0
  BY <1>0, FaultTyped DEF Find
<1>2. faults = 0 /\ findOwned # 0 => Summaries \subseteq {findOwned}
  BY <1>0, FindsSummary DEF MadeWhereNone, Undisturbed, Unique
<1> QED
  BY <1>0, <1>1, <1>2, PassingStep, FindsSummary DEF Find, Goto, Target

\* An acknowledgement sets the mapping to the comment it found or made.
LEMMA AckUpsertStep == ASSUME OneHandlerInv, NEW r \in Runs, AckUpsert(r) PROVE SummaryInv'
<1>0. /\ TypeOK /\ Alone /\ MadeWhereNone /\ Known /\ Mapped
      /\ pc \in [Runs -> PCs] /\ target \in [Runs -> 0..Len(comments)]
  BY DEF OneHandlerInv, CommentsInv, TypeOK
<1>1. /\ faults' = 0 => faults = 0 /\ mapping' = target[r]
      /\ mapping' \in {mapping, target[r]}
      /\ comments' = comments /\ deletes' = deletes /\ lastWrite' = lastWrite
      /\ pc[r] = "ackUpsert" /\ pc'[r] = "agent" /\ target'[r] = 0
      /\ \A q \in Runs : q # r => /\ pc'[q] = pc[q] /\ target'[q] = target[q]
                                  /\ pc[q] \in {"new", "done", "failed"}
  <2>1. faults' = 0 => faults = 0 /\ Works
    <3>1. Fault => faults' # 0
      BY <1>0, ReviewAssumption DEF Fault, TypeOK, ReviewAssumption
    <3> QED
      BY <1>0, <3>1, FaultTyped DEF AckUpsert
  <2>2. Works => faults' = faults
    BY DEF Works
  <2>3. \A q \in Runs : q # r => pc[q] \in {"new", "done", "failed"}
    BY <1>0, OthersRest DEF AckUpsert
  <2>4. Fault => faults' # 0
    BY <1>0, ReviewAssumption DEF Fault, TypeOK, ReviewAssumption
  <2> QED
    BY <1>0, <2>1, <2>3, <2>4 DEF AckUpsert, Goto, Target
<1>2. Summaries' = Summaries /\ (Unique' <=> Unique)
  BY <1>1, SameComments
<1>3. MadeWhereNone'
  BY <1>0, <1>1, SameMade DEF MadeWhereNone
<1>4. Known'
  BY <1>0, <1>1, <1>2 DEF Known
<1>5. Mapped'
  BY <1>0, <1>1, <1>2 DEF Mapped
<1> QED
  BY <1>3, <1>4, <1>5 DEF SummaryInv

\* A successful upsert ends a review and maps its comment.
LEMMA UpsertStep == ASSUME OneHandlerInv, NEW r \in Runs, Upsert(r) PROVE SummaryInv'
<1>0. /\ TypeOK /\ Alone /\ MadeWhereNone /\ Known /\ Mapped /\ WrittenOnce
      /\ pc \in [Runs -> PCs] /\ target \in [Runs -> 0..Len(comments)]
  BY DEF OneHandlerInv, CommentsInv, TypeOK
<1>1. /\ faults' = 0 => faults = 0 /\ mapping' = target[r]
      /\ mapping' = target[r] \/ pc'[r] = "failed"
      /\ comments' = comments /\ deletes' = deletes /\ lastWrite' = lastWrite /\ target' = target
      /\ pc[r] = "upsert" /\ pc'[r] \in {"done", "failed"}
      /\ \A q \in Runs : q # r => pc'[q] = pc[q] /\ pc[q] \in {"new", "done", "failed"}
  <2>1. Fault => faults' # 0
    BY <1>0, ReviewAssumption DEF Fault, TypeOK, ReviewAssumption
  <2>2. faults' = 0 => faults = 0
    BY <1>0, FaultTyped DEF Upsert
  <2>3. \A q \in Runs : q # r => pc[q] \in {"new", "done", "failed"}
    BY <1>0, OthersRest DEF Upsert
  <2> QED
    BY <1>0, <2>1, <2>2, <2>3 DEF Upsert, Goto
<1>2. Summaries' = Summaries /\ (Unique' <=> Unique)
  BY <1>1, SameComments
<1>3. MadeWhereNone'
  BY <1>0, <1>1, SameMade DEF MadeWhereNone
<1>4. Known'
  BY <1>0, <1>1, <1>2 DEF Known
<1>5. Mapped'
  <2>1. lastWrite = r /\ comments[target[r]].body = r
    BY <1>0, <1>1 DEF Mapped
  <2>2. target[r] \in 1..Len(comments)
    BY <1>0, <1>1, CommentTyped DEF OneHandlerInv, CommentsInv, OwnTargets
  <2>3. \A i \in Summaries : comments[i].body = r => i = target[r]
    BY <1>0, <2>1, <2>2 DEF WrittenOnce, Summaries
  <2>4. ASSUME NEW q \in Runs, pc'[q] = "done", lastWrite' = q PROVE q = r /\ mapping' = target[r]
    BY <1>1, <2>1, <2>4
  <2> QED
    BY <1>0, <1>1, <1>2, <2>3, <2>4 DEF Mapped
<1> QED
  BY <1>3, <1>4, <1>5 DEF SummaryInv

\* A review is written over the summary, or the summary is gone.
LEMMA EditStep == ASSUME OneHandlerInv, NEW r \in Runs, Edit(r) PROVE SummaryInv'
<1>0. /\ TypeOK /\ Alone /\ MadeWhereNone /\ Known /\ Mapped /\ OwnTargets
      /\ pc \in [Runs -> PCs] /\ target \in [Runs -> 0..Len(comments)]
  BY DEF OneHandlerInv, CommentsInv, TypeOK
<1>1. /\ faults' = 0 => faults = 0
      /\ mapping' = mapping /\ target' = target /\ deletes' = deletes
      /\ pc[r] = "edit"
      /\ \A q \in Runs : q # r => pc'[q] = pc[q] /\ pc[q] \in {"new", "done", "failed"}
      /\ target[r] \in 1..Len(comments) /\ comments[target[r]].owner = "bothos"
  <2>1. faults' = 0 => faults = 0
    BY <1>0, FaultTyped DEF Edit
  <2>2. \A q \in Runs : q # r => pc[q] \in {"new", "done", "failed"}
    BY <1>0, OthersRest DEF Edit
  <2>3. target[r] \in 1..Len(comments) /\ comments[target[r]].owner = "bothos"
    BY <1>0, CommentTyped DEF Edit, OwnTargets
  <2> QED
    BY <1>0, <2>1, <2>2, <2>3 DEF Edit, Goto
<1>2. CASE /\ comments' = [comments EXCEPT ![target[r]].body = r] /\ lastWrite' = r
           /\ pc'[r] \in {"upsert", "failed"}
  <2>1. /\ Summaries' = Summaries /\ Len(comments') = Len(comments)
        /\ comments'[target[r]].body = r
        /\ \A i \in 1..Len(comments) :
              /\ i # target[r] => comments'[i] = comments[i]
              /\ comments'[i].owner = comments[i].owner /\ comments'[i].live = comments[i].live
    BY <1>0, <1>1, <1>2, Rewritten
  <2>2. Unique' <=> Unique
    BY <2>1 DEF Unique
  <2>3. MadeWhereNone'
    <3>1. Undisturbed' => Undisturbed
      BY <1>1 DEF Undisturbed
    <3>2. deletes' = 0 => \A i \in 1..Len(comments') : comments'[i].owner = "bothos" => Owned(i)'
      BY <1>0, <1>1, <2>1 DEF MadeWhereNone, Owned
    <3> QED
      BY <1>0, <1>1, <1>2, <2>1, <2>2, <3>1, <3>2 DEF MadeWhereNone
  <2>4. Known'
    BY <1>0, <1>1, <1>2, <2>1 DEF Known
  <2>5. Mapped'
    BY <1>0, <1>1, <1>2, <2>1, <2>2 DEF Mapped
  <2> QED
    BY <2>3, <2>4, <2>5 DEF SummaryInv
<1>3. CASE pc'[r] = "failed" /\ UNCHANGED <<comments, lastWrite>>
  BY <1>1, <1>3, PassingStep
<1>4. CASE pc'[r] = "create" /\ ~comments[target[r]].live /\ UNCHANGED <<comments, lastWrite>>
  <2>1. Undisturbed => Summaries = {}
    <3>1. deletes # 0
      BY <1>0, <1>1, <1>4 DEF MadeWhereNone, Owned
    <3>2. faults = 0 => Summaries \subseteq {target[r]}
      BY <1>0, <1>1 DEF Known
    <3>3. target[r] \notin Summaries
      BY <1>4 DEF Summaries, Owned
    <3> QED
      BY <3>1, <3>2, <3>3 DEF Undisturbed
  <2> QED
    BY <1>1, <1>4, <2>1, PassingStep
<1> QED
  BY <1>0, <1>2, <1>3, <1>4 DEF Edit, Goto

\* A comment is made where there is none, for an acknowledgement or a review.
LEMMA CreatedStep ==
    ASSUME OneHandlerInv, NEW r \in Runs, NEW text \in Runs \cup {"queued"}, CreateComment(text),
           pc[r] \in {"ackCreate", "create"},
           \A q \in Runs : q # r => pc'[q] = pc[q] /\ target'[q] = target[q],
           deletes' = deletes, mapping' = mapping, faults' = 0 => faults = 0,
           \/ pc'[r] \in {"ackUpsert", "upsert"} /\ target'[r] = Len(comments) + 1
           \/ pc'[r] \in {"agent", "failed"} /\ faults' # 0,
           \/ pc[r] = "create" /\ lastWrite' = r /\ text = r /\ pc'[r] \in {"upsert", "failed"}
           \/ pc[r] = "ackCreate" /\ lastWrite' = lastWrite /\ text = "queued" /\ pc'[r] \in {"ackUpsert", "agent"}
    PROVE  SummaryInv'
<1>0. /\ TypeOK /\ Alone /\ MadeWhereNone /\ Known /\ Mapped /\ WrittenOnce
      /\ pc \in [Runs -> PCs] /\ target \in [Runs -> 0..Len(comments)] /\ Len(comments) \in Nat
  BY CommentTyped DEF OneHandlerInv, CommentsInv, TypeOK
<1> DEFINE n == Len(comments) + 1
<1>1. /\ comments'[n].owner = "bothos" /\ comments'[n].body = text
      /\ \A i \in 1..Len(comments) : comments'[i] = comments[i]
      /\ 1..Len(comments') = 1..Len(comments) \cup {n}
      /\ Summaries' = Summaries \cup {n} /\ n \notin Summaries
  BY <1>0, CreatedIsKept
<1> HIDE DEF n
<1>2. \A q \in Runs : q # r => pc[q] \in {"new", "done", "failed"}
  BY <1>0, OthersRest
<1>3. Undisturbed' => Undisturbed
  BY DEF Undisturbed
<1>4. Undisturbed \/ pc[r] = "ackCreate" => Summaries = {}
  BY <1>0 DEF MadeWhereNone
<1>5. MadeWhereNone'
  <2>1. Undisturbed' => Unique'
    BY <1>1, <1>3, <1>4 DEF Unique
  <2>3. comments'[n].live /\ comments'[n].owner = "bothos"
    BY <1>1 DEF Summaries, Owned
  <2>4. deletes' = 0 => \A i \in 1..Len(comments') : comments'[i].owner = "bothos" => Owned(i)'
    BY <1>0, <1>1, <2>3 DEF MadeWhereNone, Owned
  <2>5. \A q \in Runs : pc'[q] \notin {"ackCreate", "create"}
    BY <1>2
  <2> QED
    BY <2>1, <2>4, <2>5 DEF MadeWhereNone
<1>6. Known'
  <2> SUFFICES ASSUME faults' = 0
               PROVE  /\ \A q \in Runs :
                            pc'[q] \in {"ackUpsert", "upsert", "edit"} \/ (pc'[q] = "inline" /\ target'[q] # 0)
                                => Summaries' \subseteq {target'[q]}
                      /\ (\A q \in Runs : pc'[q] \notin {"ackUpsert", "upsert"}) => Summaries' \subseteq {mapping'}
    BY DEF Known
  <2>1. Summaries' = {n} /\ pc'[r] \in {"ackUpsert", "upsert"} /\ target'[r] = n
    BY <1>1, <1>4 DEF Undisturbed, n
  <2> QED
    BY <1>2, <2>1
<1>7. Mapped'
  <2>1. \A q \in Runs : pc'[q] = "upsert" => lastWrite' = q /\ comments'[target'[q]].body = q
    BY <1>1, <1>2 DEF n
  <2>2. \A q \in Runs : pc'[q] = "ackUpsert" => Summaries' \subseteq {target'[q]}
    BY <1>1, <1>2, <1>4 DEF n
  <2>3. ASSUME NEW q \in Runs, pc'[q] = "done", lastWrite' = q, NEW i \in Summaries', comments'[i].body = q
        PROVE  FALSE
    <3>1. q # r /\ pc[r] = "ackCreate"
      BY <2>3
    <3>2. Summaries' = {n} /\ comments'[n].body = "queued"
      BY <1>1, <1>4, <3>1
    <3> QED
      BY <2>3, <3>2, ReviewAssumption DEF ReviewAssumption
  <2> QED
    BY <2>1, <2>2, <2>3 DEF Mapped
<1> QED
  BY <1>5, <1>6, <1>7 DEF SummaryInv

LEMMA AckCreateStep == ASSUME OneHandlerInv, NEW r \in Runs, AckCreate(r) PROVE SummaryInv'
<1>0. TypeOK /\ pc \in [Runs -> PCs] /\ target \in [Runs -> 0..Len(comments)]
  BY DEF OneHandlerInv, CommentsInv, TypeOK
<1>1. (faults' = 0 => faults = 0) /\ (Fault => faults' # 0)
  BY <1>0, FaultTyped, ReviewAssumption DEF AckCreate, Fault, TypeOK, ReviewAssumption
<1>2. CASE CreateComment("queued") /\ Target(r, Len(comments) + 1) /\ Goto(r, "ackUpsert")
  BY <1>0, <1>1, <1>2, CreatedStep DEF AckCreate, Goto, Target
<1>3. CASE CreateComment("queued") /\ Fault /\ UNCHANGED target /\ Goto(r, "agent")
  BY <1>0, <1>1, <1>3, CreatedStep DEF AckCreate, Goto
<1>4. CASE UNCHANGED <<comments, target>> /\ Goto(r, "agent")
  BY <1>0, <1>1, <1>4, PassingStep DEF AckCreate, Goto
<1> QED
  BY <1>2, <1>3, <1>4 DEF AckCreate

LEMMA CreateStep == ASSUME OneHandlerInv, NEW r \in Runs, Create(r) PROVE SummaryInv'
<1>0. TypeOK /\ pc \in [Runs -> PCs] /\ target \in [Runs -> 0..Len(comments)]
  BY DEF OneHandlerInv, CommentsInv, TypeOK
<1>1. (faults' = 0 => faults = 0) /\ (Fault => faults' # 0)
  BY <1>0, FaultTyped, ReviewAssumption DEF Create, Fault, TypeOK, ReviewAssumption
<1>2. CASE CreateComment(r) /\ lastWrite' = r /\ Target(r, Len(comments) + 1) /\ Goto(r, "upsert")
  BY <1>0, <1>1, <1>2, CreatedStep DEF Create, Goto, Target
<1>3. CASE CreateComment(r) /\ lastWrite' = r /\ Fault /\ UNCHANGED target /\ Goto(r, "failed")
  BY <1>0, <1>1, <1>3, CreatedStep DEF Create, Goto
<1>4. CASE UNCHANGED <<comments, target, lastWrite>> /\ Goto(r, "failed")
  BY <1>0, <1>1, <1>4, PassingStep DEF Create, Goto
<1> QED
  BY <1>2, <1>3, <1>4 DEF Create

\* Deleting the only summary leaves none.
LEMMA DeleteStep == ASSUME OneHandlerInv, NEW n \in 1..Len(comments), Delete(n) PROVE SummaryInv'
<1>0. TypeOK /\ MadeWhereNone /\ Known /\ Mapped /\ OwnTargets
  BY DEF OneHandlerInv, CommentsInv
<1>1. /\ Summaries' = Summaries \ {n} /\ Len(comments') = Len(comments) /\ n \in Summaries
      /\ \A i \in 1..Len(comments) : /\ comments'[i].owner = comments[i].owner
                                     /\ comments'[i].body = comments[i].body
      /\ UNCHANGED <<mapping, pc, target, lastWrite, faults>> /\ deletes' = deletes + 1
  BY <1>0, Deleted DEF Delete, Summaries
<1>2. deletes \in Nat /\ deletes' # 0 /\ (deletes' <= 1 => deletes = 0)
  BY <1>0, <1>1, ReviewAssumption DEF TypeOK, ReviewAssumption
<1>3. Undisturbed' => Undisturbed
  BY <1>1, <1>2 DEF Undisturbed
<1>4. (Unique => Unique') /\ (Undisturbed => Summaries' = {})
  BY <1>0, <1>1 DEF Unique, MadeWhereNone
<1>5. MadeWhereNone'
  BY <1>0, <1>1, <1>2, <1>3, <1>4 DEF MadeWhereNone
<1>6. Known'
  BY <1>0, <1>1 DEF Known
<1>7. Mapped'
  <2>1. \A q \in Runs : pc'[q] = "upsert" => lastWrite' = q /\ comments'[target'[q]].body = q
    <3> SUFFICES ASSUME NEW q \in Runs, pc[q] = "upsert" PROVE lastWrite = q /\ comments'[target[q]].body = q
      BY <1>1
    <3>1. target[q] \in 1..Len(comments)
      BY <1>0, CommentTyped DEF OwnTargets, TypeOK
    <3> QED
      BY <1>0, <1>1, <3>1 DEF Mapped
  <2>2. deletes' <= 1 \/ faults' = 0 => Summaries' = {}
    BY <1>1, <1>2, <1>4 DEF Undisturbed
  <2> QED
    BY <2>1, <2>2 DEF Mapped
<1> QED
  BY <1>5, <1>6, <1>7 DEF SummaryInv

LEMMA QuoteStep == ASSUME OneHandlerInv, Quote PROVE SummaryInv'
<1>0. TypeOK /\ MadeWhereNone /\ Known /\ Mapped /\ OwnTargets
  BY DEF OneHandlerInv, CommentsInv
<1> DEFINE c == [owner |-> "user", body |-> "quote", live |-> TRUE]
<1>1. c \in Comment /\ c.owner = "user" /\ comments' = Append(comments, c)
  BY CreatedTyped DEF Quote
<1> HIDE DEF c
<1>2. /\ Summaries' = Summaries
      /\ 1..Len(comments') = 1..Len(comments) \cup {Len(comments) + 1}
      /\ \A i \in 1..Len(comments) : comments'[i] = comments[i]
      /\ comments'[Len(comments) + 1].owner = "user"
  BY <1>0, <1>1, Appended, SummaryAppended
<1>3. UNCHANGED <<mapping, pc, target, lastWrite, faults, deletes>>
  BY DEF Quote
<1>4. (Unique' <=> Unique) /\ (Undisturbed' <=> Undisturbed)
  BY <1>2, <1>3 DEF Unique, Undisturbed
<1>5. MadeWhereNone'
  BY <1>0, <1>2, <1>3, <1>4 DEF MadeWhereNone, Owned
<1>6. Known'
  BY <1>0, <1>2, <1>3 DEF Known
<1>7. Mapped'
  <2>1. \A q \in Runs : pc'[q] = "upsert" => lastWrite' = q /\ comments'[target'[q]].body = q
    <3> SUFFICES ASSUME NEW q \in Runs, pc[q] = "upsert" PROVE lastWrite = q /\ comments'[target[q]].body = q
      BY <1>3
    <3>1. target[q] \in 1..Len(comments)
      BY <1>0, CommentTyped DEF OwnTargets, TypeOK
    <3> QED
      BY <1>0, <1>2, <3>1 DEF Mapped
  <2>2. \A i \in Summaries : comments'[i] = comments[i]
    BY <1>2 DEF Summaries
  <2> QED
    BY <1>0, <1>2, <1>3, <1>4, <2>1, <2>2 DEF Mapped
<1> QED
  BY <1>5, <1>6, <1>7 DEF SummaryInv

LEMMA SummaryStutter == ASSUME OneHandlerInv, UNCHANGED vars PROVE SummaryInv'
<1>0. MadeWhereNone /\ Known /\ Mapped
  BY DEF OneHandlerInv
<1>1. UNCHANGED <<comments, mapping, pc, target, lastWrite, faults, deletes>>
  BY DEF vars
<1>2. Summaries' = Summaries /\ (Unique' <=> Unique) /\ (Undisturbed' <=> Undisturbed)
  BY <1>1, SameComments DEF Undisturbed
<1>3. MadeWhereNone'
  BY <1>0, <1>1, SameMade DEF MadeWhereNone
<1> QED
  BY <1>0, <1>1, <1>2, <1>3 DEF SummaryInv, Known, Mapped

LEMMA OneHandlerInvariant == Concurrency = 1 => (Spec => []OneHandlerInv)
<1> SUFFICES ASSUME Concurrency = 1 PROVE Spec => []OneHandlerInv
  OBVIOUS
<1>1. Init => Alone /\ SummaryInv
  <2> SUFFICES ASSUME Init PROVE Alone /\ SummaryInv
    OBVIOUS
  <2>1. Summaries = {} /\ InProgress = {}
    BY DEF Init, Summaries, InProgress
  <2>2. Alone /\ MadeWhereNone /\ Known /\ Mapped
    BY <2>1 DEF Init, Alone, MadeWhereNone, Unique, Known, Mapped
  <2> QED
    BY <2>2 DEF SummaryInv
<1>2. CommentsInv /\ CommentsInv' /\ Alone /\ SummaryInv /\ [Next]_vars => Alone' /\ SummaryInv'
  <2> SUFFICES ASSUME CommentsInv, Alone, SummaryInv, [Next]_vars PROVE Alone' /\ SummaryInv'
    OBVIOUS
  <2>1. OneHandlerInv
    BY DEF OneHandlerInv, SummaryInv
  <2>2. Alone'
    BY AloneStep DEF CommentsInv
  <2>3. ASSUME NEW r \in Runs,
               \/ Begin(r) \/ AckFind(r) \/ AckCreate(r) \/ AckUpsert(r) \/ Agent(r)
               \/ Lookup(r) \/ Inline(r)
        PROVE  SummaryInv'
    BY <2>1, <2>3, BeginStep, AckFindStep, AckCreateStep, AckUpsertStep, AgentStep, LookupStep, InlineStep
  <2>4. ASSUME NEW r \in Runs, Find(r) \/ Edit(r) \/ Create(r) \/ Upsert(r) PROVE SummaryInv'
    BY <2>1, <2>4, FindStep, EditStep, CreateStep, UpsertStep
  <2>5. SummaryInv'
    BY <2>1, <2>3, <2>4, DeleteStep, QuoteStep, SummaryStutter DEF Next
  <2> QED
    BY <2>2, <2>5
<1>3. CommentsInv /\ Alone /\ SummaryInv => OneHandlerInv
  BY DEF OneHandlerInv, SummaryInv
<1> QED
  BY <1>1, <1>2, <1>3, CommentsInvariant, PTL DEF Spec

\* With one handler a pull request has one summary comment, through lost replies, timed-out
\* acknowledgements and failed mapping updates, until something was deleted and something failed.
THEOREM OneSummaryPerPullRequest == Concurrency = 1 => (Spec => []OneSummaryUnlessDeleted)
<1> SUFFICES ASSUME Concurrency = 1 PROVE Spec => []OneSummaryUnlessDeleted
  OBVIOUS
<1>1. OneHandlerInv => OneSummaryUnlessDeleted
  <2> SUFFICES ASSUME OneHandlerInv PROVE OneSummaryUnlessDeleted
    OBVIOUS
  <2>1. TypeOK /\ (Undisturbed => Unique)
    BY DEF OneHandlerInv, CommentsInv, MadeWhereNone
  <2>2. Undisturbed \/ (deletes > 0 /\ faults > 0)
    BY <2>1, ReviewAssumption DEF Undisturbed, TypeOK, ReviewAssumption
  <2> QED
    BY <2>1, <2>2, OneIsUnique DEF OneSummaryUnlessDeleted
<1> QED
  BY <1>1, OneHandlerInvariant, PTL

\* With one handler a successful review nobody has overwritten is on the pull request and the
\* mapping leads to it.
THEOREM SucceededReviewsAreMapped == Concurrency = 1 => (Spec => []SucceededReviewIsMapped)
<1> SUFFICES ASSUME Concurrency = 1 PROVE Spec => []SucceededReviewIsMapped
  OBVIOUS
<1>1. OneHandlerInv => SucceededReviewIsMapped
  <2> SUFFICES ASSUME OneHandlerInv, NEW r \in Runs, pc[r] = "done", lastWrite = r
               PROVE  /\ \E i \in 1..Len(comments) : comments[i].body = r
                      /\ \A i \in Summaries :
                            OneSummaryComment /\ comments[i].body = r =>
                                mapping = i \/ (deletes > 1 /\ faults > 0)
    BY DEF SucceededReviewIsMapped
  <2>1. TypeOK /\ WrittenOnce /\ Mapped
    BY DEF OneHandlerInv, CommentsInv
  <2>2. lastWrite # "none"
    BY ReviewAssumption DEF ReviewAssumption
  <2>3. (deletes <= 1 \/ faults = 0) \/ (deletes > 1 /\ faults > 0)
    BY <2>1, ReviewAssumption DEF TypeOK, ReviewAssumption
  <2>4. OneSummaryComment <=> Unique
    BY <2>1, OneIsUnique
  <2> QED
    BY <2>1, <2>2, <2>3, <2>4 DEF WrittenOnce, Mapped
<1> QED
  BY <1>1, OneHandlerInvariant, PTL
=============================================================================

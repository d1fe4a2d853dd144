------------------------ MODULE ReviewContentProofs ------------------------
(***************************************************************************)
(* What a review says is accepted, rests on the granted commit, keeps its  *)
(* findings and points at the right lines, for every diff, every set of    *)
(* reviews the model may write and every limit.                            *)
(***************************************************************************)
EXTENDS ReviewContent, SequenceFacts, SequenceTheorems, FunctionTheorems, FiniteSetTheorems

-----------------------------------------------------------------------------
(* The lines git prints *)

Content == {"plain", "secret", "http"}
LineKinds == {"file", "path", "hunk", "del", "other"} \cup Content
DiffLine == [t : LineKinds, n : Nat]
Breaks == {"file", "hunk"}

\* Line i is the header of a hunk that line j belongs to, and names a line number.
Opens(ls, i, j) ==
    /\ ls[i].t = "hunk" /\ ls[i].n > 0
    /\ \A x \in (i + 1)..(j - 1) : ls[x].t \notin Breaks

\* Every added line is in such a hunk.
Numbered(ls) == \A j \in 1..Len(ls) : ls[j].t \in Content => \E i \in 1..(j - 1) : Opens(ls, i, j)

\* No line is of one of these kinds.
Free(ls, kinds) == \A j \in 1..Len(ls) : ls[j].t \notin kinds

LEMMA LinesTyped ==
    ASSUME NEW t \in LineKinds, NEW n \in Nat
    PROVE  Line(t, n) \in DiffLine /\ Line(t, n).t = t /\ Line(t, n).n = n
  BY DEF Line, DiffLine

LEMMA AddedTyped ==
    ASSUME NEW text \in Texts
    PROVE  Added(text) \in DiffLine /\ Added(text).t \notin Breaks
<1>1. /\ [t |-> "other", n |-> 0] \in DiffLine /\ [t |-> "path", n |-> SomePath] \in DiffLine
      /\ text \in Content => [t |-> text, n |-> 0] \in DiffLine /\ text \notin Breaks
  BY DEF DiffLine, LineKinds, Content, SomePath, Breaks
<1>2. text \in Content \cup {"plus", "header"}
  BY DEF Texts, Content
<1> QED
  BY <1>1, <1>2 DEF Added, Breaks, Content

LEMMA FreeConcatenation ==
    ASSUME NEW K, NEW a \in Seq(DiffLine), NEW b \in Seq(DiffLine), Free(a, K), Free(b, K)
    PROVE  a \o b \in Seq(DiffLine) /\ Free(a \o b, K)
<1>1. PICK c : c = a \o b
  OBVIOUS
<1>2. /\ c \in Seq(DiffLine) /\ Len(c) = Len(a) + Len(b) /\ Len(a) \in Nat /\ Len(b) \in Nat
      /\ \A j \in 1..Len(c) : IF j <= Len(a) THEN c[j] = a[j] ELSE c[j] = b[j - Len(a)]
  BY <1>1
<1>3. \A j \in 1..Len(c) : IF j <= Len(a) THEN j \in 1..Len(a) ELSE j - Len(a) \in 1..Len(b)
  BY <1>2
<1>4. Free(c, K)
  BY <1>2, <1>3 DEF Free
<1> QED
  BY <1>1, <1>2, <1>4

LEMMA MarkerTyped ==
    ASSUME NEW noEol \in BOOLEAN
    PROVE  Marker(noEol) \in Seq(DiffLine) /\ Free(Marker(noEol), Breaks) /\ Free(Marker(noEol), Content)
<1>1. Line("other", 0) \in DiffLine /\ Line("other", 0).t = "other"
  BY LinesTyped DEF LineKinds
<1> DEFINE l == Line("other", 0)
<1> HIDE DEF l
<1>2. <<l>> \in Seq(DiffLine) /\ Free(<<l>>, Breaks) /\ Free(<<l>>, Content)
  BY <1>1 DEF Free, Breaks, Content, l
<1>3. <<>> \in Seq(DiffLine) /\ Free(<<>>, Breaks) /\ Free(<<>>, Content)
  BY DEF Free
<1> QED
  BY <1>2, <1>3 DEF Marker, l

\* A header in front of lines that are inside its hunk.
LEMMA HeaderNumbers ==
    ASSUME NEW l \in DiffLine, NEW b \in Seq(DiffLine), Free(b, Breaks), l.t \notin Content,
           (l.t = "hunk" /\ l.n > 0) \/ Free(b, Content)
    PROVE  <<l>> \o b \in Seq(DiffLine) /\ Numbered(<<l>> \o b)
<1> DEFINE c == <<l>> \o b
<1>1. /\ c \in Seq(DiffLine) /\ Len(c) = 1 + Len(b) /\ Len(b) \in Nat /\ c[1] = l
      /\ \A j \in 2..Len(c) : j - 1 \in 1..Len(b) /\ c[j] = b[j - 1]
  OBVIOUS
<1> HIDE DEF c
<1>2. ASSUME NEW j \in 1..Len(c), c[j].t \in Content PROVE \E i \in 1..(j - 1) : Opens(c, i, j)
  <2>1. j \in 2..Len(c)
    BY <1>1, <1>2
  <2>2. ~Free(b, Content)
    BY <1>1, <1>2, <2>1 DEF Free
  <2>3. \A x \in (1 + 1)..(j - 1) : c[x].t \notin Breaks
    <3>1. \A x \in (1 + 1)..(j - 1) : x \in 2..Len(c)
      BY <1>1, <2>1
    <3>2. \A x \in 2..Len(c) : c[x].t \notin Breaks
      BY <1>1 DEF Free
    <3> QED
      BY <3>1, <3>2
  <2>4. Opens(c, 1, j) /\ 1 \in 1..(j - 1)
    BY <1>1, <2>1, <2>2, <2>3 DEF Opens
  <2> QED
    BY <2>4
<1> QED
  BY <1>1, <1>2 DEF Numbered, c

\* What is put together from numbered parts is numbered.
LEMMA PartsNumbered ==
    ASSUME NEW t \in Seq(DiffLine),
           \A j \in 1..Len(t) : t[j].t \in Content =>
              \E s \in Seq(DiffLine), o \in Nat : Numbered(s) /\ Part(t, s, o) /\ j - o \in 1..Len(s)
    PROVE  Numbered(t)
<1> SUFFICES ASSUME NEW j \in 1..Len(t), t[j].t \in Content
             PROVE  \E i \in 1..(j - 1) : Opens(t, i, j)
  BY DEF Numbered
<1>1. PICK s \in Seq(DiffLine), o \in Nat : Numbered(s) /\ Part(t, s, o) /\ j - o \in 1..Len(s)
  OBVIOUS
<1>2. j \in Nat /\ Len(s) \in Nat /\ Len(t) \in Nat
  OBVIOUS
<1>3. PICK k \in 1..Len(s) : k = j - o
  BY <1>1
<1>4. k \in Nat /\ j = o + k
  BY <1>2, <1>3
<1>5. s[k].t \in Content
  BY <1>1, <1>4 DEF Part
<1>6. PICK i \in 1..(k - 1) : Opens(s, i, k)
  BY <1>1, <1>5 DEF Numbered
<1>7. o + i \in 1..(j - 1) /\ i \in 1..Len(s)
  BY <1>2, <1>4
<1>8. t[o + i] = s[i]
  BY <1>1, <1>7 DEF Part
<1>9. ASSUME NEW x \in (o + i + 1)..(j - 1) PROVE t[x].t \notin Breaks
  <2>1. x - o \in (i + 1)..(k - 1) /\ x - o \in 1..Len(s) /\ o + (x - o) = x
    BY <1>2, <1>4, <1>7
  <2>2. t[o + (x - o)] = s[x - o]
    BY <1>1, <2>1 DEF Part
  <2> QED
    BY <1>6, <2>1, <2>2 DEF Opens
<1>10. Opens(t, o + i, j)
  BY <1>6, <1>8, <1>9 DEF Opens
<1> QED
  BY <1>7, <1>10

LEMMA NumberedConcatenation ==
    ASSUME NEW a \in Seq(DiffLine), NEW b \in Seq(DiffLine), Numbered(a), Numbered(b)
    PROVE  a \o b \in Seq(DiffLine) /\ Numbered(a \o b)
<1>1. PICK c : c = a \o b
  OBVIOUS
<1>2. /\ c \in Seq(DiffLine) /\ Len(c) = Len(a) + Len(b)
      /\ Part(c, a, 0) /\ Part(c, b, Len(a))
  BY <1>1, PartsOfConcatenation
<1>3. Len(a) \in Nat /\ Len(b) \in Nat
  OBVIOUS
<1>4. ASSUME NEW j \in 1..Len(c)
      PROVE  \E s \in Seq(DiffLine), o \in Nat : Numbered(s) /\ Part(c, s, o) /\ j - o \in 1..Len(s)
  <2>1. j - 0 \in 1..Len(a) \/ j - Len(a) \in 1..Len(b)
    BY <1>2, <1>3
  <2> QED
    BY <1>2, <1>3, <2>1
<1>5. Numbered(c)
  BY <1>2, <1>4, PartsNumbered
<1> QED
  BY <1>1, <1>2, <1>5

LEMMA NumberedFlatten ==
    ASSUME NEW ss \in Seq(Seq(DiffLine)), \A p \in DOMAIN ss : Numbered(ss[p])
    PROVE  FlattenSeq(ss) \in Seq(DiffLine) /\ Numbered(FlattenSeq(ss))
<1>1. PICK t : t = FlattenSeq(ss)
  OBVIOUS
<1>2. t \in Seq(DiffLine)
  BY <1>1, FlattenContains
<1>3. ASSUME NEW j \in 1..Len(t)
      PROVE  \E s \in Seq(DiffLine), o \in Nat : Numbered(s) /\ Part(t, s, o) /\ j - o \in 1..Len(s)
  <2>1. PICK p \in DOMAIN ss, o \in Nat : Part(t, ss[p], o) /\ j - o \in 1..Len(ss[p])
    BY <1>1, <1>3, FlattenLocates
  <2>2. ss[p] \in Seq(DiffLine)
    BY ElementTyped
  <2> QED
    BY <2>1, <2>2
<1>4. Numbered(t)
  BY <1>2, <1>3, PartsNumbered
<1> QED
  BY <1>1, <1>2, <1>4

\* A list of lines computed one by one.
LEMMA ListTyped ==
    ASSUME NEW n \in Nat, NEW f \in [1..n -> DiffLine], NEW K, \A i \in 1..n : f[i].t \notin K
    PROVE  f \in Seq(DiffLine) /\ Len(f) = n /\ Free(f, K)
<1>1. f \in Seq(DiffLine) /\ Len(f) = n
  OBVIOUS
<1> QED
  BY <1>1 DEF Free

LEMMA HunkNumbered ==
    ASSUME NEW h \in Hunk
    PROVE  RenderHunk(h) \in Seq(DiffLine) /\ Numbered(RenderHunk(h))
<1> DEFINE dels == [i \in 1..h.dels |-> Line("del", 0)]
           adds == [i \in 1..Len(h.adds) |-> Added(h.adds[i])]
           l == Line("hunk", h.start)
<1>1. /\ h.start \in Nat /\ h.dels \in Nat /\ h.oldNoEol \in BOOLEAN /\ h.newNoEol \in BOOLEAN
      /\ h.adds \in Seq(Texts) /\ (h.adds # <<>> => h.start > 0)
  BY DEF Hunk
<1>2. dels \in Seq(DiffLine) /\ Free(dels, Breaks) /\ Free(dels, Content)
  <2>1. Line("del", 0) \in DiffLine /\ Line("del", 0).t = "del"
    BY LinesTyped DEF LineKinds
  <2>2. dels \in [1..h.dels -> DiffLine]
    BY <2>1
  <2>3. \A i \in 1..h.dels : dels[i].t \notin Breaks /\ dels[i].t \notin Content
    BY <2>1 DEF Breaks, Content
  <2> HIDE DEF dels
  <2> QED
    BY <1>1, <2>2, <2>3, ListTyped
<1>3. /\ adds \in Seq(DiffLine) /\ Free(adds, Breaks)
      /\ h.adds = <<>> => Free(adds, Content)
  <2>1. \A i \in 1..Len(h.adds) : h.adds[i] \in Texts
    BY <1>1
  <2>2. \A i \in 1..Len(h.adds) : Added(h.adds[i]) \in DiffLine /\ Added(h.adds[i]).t \notin Breaks
    BY <2>1, AddedTyped
  <2>3. Len(h.adds) \in Nat
    BY <1>1
  <2>4. adds \in [1..Len(h.adds) -> DiffLine] /\ \A i \in 1..Len(h.adds) : adds[i].t \notin Breaks
    BY <2>2
  <2>5. h.adds = <<>> => adds = <<>>
    OBVIOUS
  <2> HIDE DEF adds
  <2>6. adds \in Seq(DiffLine) /\ Free(adds, Breaks)
    BY <2>3, <2>4, ListTyped
  <2> QED
    BY <2>5, <2>6 DEF Free
<1>4. \A b \in {h.oldNoEol, h.newNoEol} :
        Marker(b) \in Seq(DiffLine) /\ Free(Marker(b), Breaks) /\ Free(Marker(b), Content)
  BY <1>1, MarkerTyped
<1>5. l \in DiffLine /\ l.t = "hunk" /\ l.n = h.start
  BY <1>1, LinesTyped DEF LineKinds
<1> DEFINE old == Marker(h.oldNoEol)
           new == Marker(h.newNoEol)
           body == (dels \o old) \o (adds \o new)
<1>6. /\ old \in Seq(DiffLine) /\ Free(old, Breaks) /\ Free(old, Content)
      /\ new \in Seq(DiffLine) /\ Free(new, Breaks) /\ Free(new, Content)
  BY <1>4
<1>7. RenderHunk(h) = <<l>> \o dels \o old \o adds \o new
  BY DEF RenderHunk
<1> HIDE DEF l, adds, dels, old, new
<1>8. /\ dels \o old \in Seq(DiffLine) /\ Free(dels \o old, Breaks) /\ Free(dels \o old, Content)
      /\ adds \o new \in Seq(DiffLine) /\ Free(adds \o new, Breaks)
      /\ h.adds = <<>> => Free(adds \o new, Content)
  BY <1>2, <1>3, <1>6, FreeConcatenation
<1>9. body \in Seq(DiffLine) /\ Free(body, Breaks) /\ (h.adds = <<>> => Free(body, Content))
  BY <1>8, FreeConcatenation
<1>10. RenderHunk(h) = <<l>> \o body
  <2>1. <<l>> \in Seq(DiffLine) /\ dels \in Seq(DiffLine) /\ old \in Seq(DiffLine)
        /\ adds \in Seq(DiffLine) /\ new \in Seq(DiffLine)
    BY <1>2, <1>3, <1>5, <1>6
  <2>2. /\ <<l>> \o dels \in Seq(DiffLine) /\ dels \o old \in Seq(DiffLine)
        /\ adds \o new \in Seq(DiffLine) /\ <<l>> \o (dels \o old) \in Seq(DiffLine)
    BY <2>1
  <2>3. <<l>> \o dels \o old = <<l>> \o (dels \o old)
    BY <2>1, ConcatAssociative
  <2>4. (<<l>> \o (dels \o old)) \o adds \o new = (<<l>> \o (dels \o old)) \o (adds \o new)
    BY <2>1, <2>2, ConcatAssociative
  <2>5. (<<l>> \o (dels \o old)) \o (adds \o new) = <<l>> \o ((dels \o old) \o (adds \o new))
    BY <2>1, <2>2, ConcatAssociative
  <2> QED
    BY <1>7, <2>3, <2>4, <2>5, Zenon
<1> HIDE DEF body
<1>11. l.t \notin Content /\ ((l.t = "hunk" /\ l.n > 0) \/ Free(body, Content))
  BY <1>1, <1>5, <1>9 DEF Content
<1> QED
  BY <1>5, <1>9, <1>10, <1>11, HeaderNumbers

LEMMA FreeIsNumbered == \A ls : Free(ls, Content) => Numbered(ls)
  BY DEF Free, Numbered

\* A file is printed as two header lines, the lines of its names and its hunks.
LEMMA FilePartsTyped ==
    ASSUME NEW f \in File
    PROVE  LET first == <<Line("file", IF f.quoted THEN NoPath ELSE f.path), Line("other", 0)>>
               head == IF f.hunks = <<>> THEN <<>>
                       ELSE <<Line("del", 0), IF f.quoted \/ f.deleted THEN Line("other", 0)
                                              ELSE Line("path", f.path)>>
               rest == FlattenSeq([i \in 1..Len(f.hunks) |-> RenderHunk(f.hunks[i])])
           IN  /\ first \in Seq(DiffLine) /\ Free(first, Content)
               /\ head \in Seq(DiffLine) /\ Free(head, Content)
               /\ rest \in Seq(DiffLine) /\ Numbered(rest)
<1>1. f.path \in Nat /\ f.hunks \in Seq(Hunk)
  BY ContentAssumption DEF File
<1> DEFINE first == <<Line("file", IF f.quoted THEN NoPath ELSE f.path), Line("other", 0)>>
           names == <<Line("del", 0), IF f.quoted \/ f.deleted THEN Line("other", 0)
                                      ELSE Line("path", f.path)>>
           head == IF f.hunks = <<>> THEN <<>> ELSE names
           hunks == [i \in 1..Len(f.hunks) |-> RenderHunk(f.hunks[i])]
<1>2. \A t \in {"file", "del", "other", "path"}, n \in {f.path, 0} :
        Line(t, n) \in DiffLine /\ Line(t, n).t \notin Content
  BY <1>1, LinesTyped DEF LineKinds, Content
<1>3. first \in Seq(DiffLine) /\ Free(first, Content)
  <2>1. PICK l : l = Line("file", IF f.quoted THEN NoPath ELSE f.path)
    OBVIOUS
  <2>2. PICK o : o = Line("other", 0)
    OBVIOUS
  <2>3. l \in DiffLine /\ l.t \notin Content /\ o \in DiffLine /\ o.t \notin Content
    BY <1>2, <2>1, <2>2 DEF NoPath
  <2>4. <<l, o>> \in Seq(DiffLine) /\ Free(<<l, o>>, Content)
    BY <2>3 DEF Free
  <2> QED
    BY <2>1, <2>2, <2>4
<1>4. head \in Seq(DiffLine) /\ Free(head, Content)
  <2>1. PICK l : l = Line("del", 0)
    OBVIOUS
  <2>2. PICK o : o = IF f.quoted \/ f.deleted THEN Line("other", 0) ELSE Line("path", f.path)
    OBVIOUS
  <2>3. l \in DiffLine /\ l.t \notin Content /\ o \in DiffLine /\ o.t \notin Content
    BY <1>2, <2>1, <2>2
  <2>4. <<l, o>> \in Seq(DiffLine) /\ Free(<<l, o>>, Content)
    BY <2>3 DEF Free
  <2>5. <<>> \in Seq(DiffLine) /\ Free(<<>>, Content)
    BY DEF Free
  <2> QED
    BY <2>1, <2>2, <2>4, <2>5
<1>5. hunks \in Seq(Seq(DiffLine)) /\ \A i \in DOMAIN hunks : Numbered(hunks[i])
  <2>1. \A i \in 1..Len(f.hunks) : f.hunks[i] \in Hunk
    BY <1>1
  <2>2. \A i \in 1..Len(f.hunks) :
          RenderHunk(f.hunks[i]) \in Seq(DiffLine) /\ Numbered(RenderHunk(f.hunks[i]))
    BY <2>1, HunkNumbered
  <2>3. Len(f.hunks) \in Nat
    BY <1>1
  <2> QED
    BY <2>2, <2>3
<1> HIDE DEF first, head, hunks
<1>6. FlattenSeq(hunks) \in Seq(DiffLine) /\ Numbered(FlattenSeq(hunks))
  BY <1>5, NumberedFlatten
<1> QED
  BY <1>3, <1>4, <1>6 DEF first, head, hunks

LEMMA FileNumbered ==
    ASSUME NEW f \in File
    PROVE  RenderFile(f) \in Seq(DiffLine) /\ Numbered(RenderFile(f))
<1> DEFINE first == <<Line("file", IF f.quoted THEN NoPath ELSE f.path), Line("other", 0)>>
           head == IF f.hunks = <<>> THEN <<>>
                   ELSE <<Line("del", 0), IF f.quoted \/ f.deleted THEN Line("other", 0)
                                          ELSE Line("path", f.path)>>
           rest == FlattenSeq([i \in 1..Len(f.hunks) |-> RenderHunk(f.hunks[i])])
<1>1. /\ first \in Seq(DiffLine) /\ Free(first, Content)
      /\ head \in Seq(DiffLine) /\ Free(head, Content)
      /\ rest \in Seq(DiffLine) /\ Numbered(rest)
  BY FilePartsTyped
<1>2. RenderFile(f) = first \o head \o rest
  BY DEF RenderFile
<1> HIDE DEF first, head, rest
<1>3. first \o head \in Seq(DiffLine) /\ Numbered(first \o head)
  BY <1>1, FreeConcatenation, FreeIsNumbered
<1> QED
  BY <1>1, <1>2, <1>3, NumberedConcatenation

\* Git prints added lines only in hunks that name a line of the head.
LEMMA DiffNumbered ==
    ASSUME NEW d \in Diff
    PROVE  Render(d) \in Seq(DiffLine) /\ Numbered(Render(d))
<1> DEFINE files == [i \in 1..Len(d.files) |-> RenderFile(d.files[i])]
<1>1. d.files \in Seq(File)
  BY DEF Diff
<1>2. \A i \in 1..Len(d.files) : d.files[i] \in File
  BY <1>1
<1>3. \A i \in 1..Len(d.files) :
        RenderFile(d.files[i]) \in Seq(DiffLine) /\ Numbered(RenderFile(d.files[i]))
  BY <1>2, FileNumbered
<1>4. Len(d.files) \in Nat
  BY <1>1
<1>5. files \in Seq(Seq(DiffLine)) /\ \A i \in DOMAIN files : Numbered(files[i])
  BY <1>3, <1>4
<1> HIDE DEF files
<1>6. FlattenSeq(files) \in Seq(DiffLine) /\ Numbered(FlattenSeq(files))
  BY <1>5, NumberedFlatten
<1> QED
  BY <1>6 DEF Render, files

\* The first line git prints names a file.
LEMMA DiffStartsWithFile ==
    ASSUME NEW d \in Diff, Render(d) # <<>>
    PROVE  Render(d)[1].t = "file"
<1> DEFINE files == [i \in 1..Len(d.files) |-> RenderFile(d.files[i])]
<1>1. \A i \in 1..Len(d.files) : d.files[i] \in File
  BY DEF Diff
<1>2. \A i \in 1..Len(d.files) : RenderFile(d.files[i]) \in Seq(DiffLine)
  BY <1>1, FileNumbered
<1>3. Len(d.files) \in Nat
  BY DEF Diff
<1>4. files \in Seq(Seq(DiffLine)) /\ DOMAIN files = 1..Len(d.files)
  BY <1>2, <1>3
<1>5. \A i \in 1..Len(d.files) : files[i] = RenderFile(d.files[i])
  OBVIOUS
<1>6. Render(d) = FlattenSeq(files)
  BY DEF Render
<1> HIDE DEF files
<1>7. Render(d) \in Seq(DiffLine)
  BY DiffNumbered
<1>8. 1 \in 1..Len(FlattenSeq(files))
  BY <1>6, <1>7
<1>9. PICK p \in DOMAIN files, o \in Nat : Part(FlattenSeq(files), files[p], o) /\ 1 - o \in 1..Len(files[p])
  BY <1>4, <1>8, FlattenLocates
<1>10. p \in 1..Len(d.files) /\ files[p] \in Seq(DiffLine)
  BY <1>4, <1>9
<1>11. Len(files[p]) \in Nat
  BY <1>10
<1>12. o = 0 /\ 1 \in 1..Len(files[p])
  BY <1>9, <1>11
<1>13. FlattenSeq(files)[1] = files[p][1]
  BY <1>9, <1>12 DEF Part
<1>14. ASSUME NEW f \in File PROVE RenderFile(f)[1].t = "file"
  <2> DEFINE l == Line("file", IF f.quoted THEN NoPath ELSE f.path)
             o1 == Line("other", 0)
             head == IF f.hunks = <<>> THEN <<>>
                     ELSE <<Line("del", 0), IF f.quoted \/ f.deleted THEN Line("other", 0)
                                            ELSE Line("path", f.path)>>
             hunks == FlattenSeq([i \in 1..Len(f.hunks) |-> RenderHunk(f.hunks[i])])
  <2>1. RenderFile(f) = <<l, o1>> \o head \o hunks
    BY DEF RenderFile
  <2>2. l.t = "file"
    BY DEF Line
  <2>3. \E S : <<l, o1>> \in Seq(S) /\ head \in Seq(S) /\ hunks \in Seq(S)
    <3>1. f.hunks \in Seq(Hunk)
      BY DEF File
    <3>2. \A i \in 1..Len(f.hunks) : RenderHunk(f.hunks[i]) \in Seq(DiffLine)
      BY <3>1, HunkNumbered
    <3>3. [i \in 1..Len(f.hunks) |-> RenderHunk(f.hunks[i])] \in Seq(Seq(DiffLine))
      BY <3>1, <3>2
    <3>4. hunks \in Seq(DiffLine)
      BY <3>3, FlattenContains
    <3>5. /\ l \in DiffLine /\ o1 \in DiffLine
          /\ Line("del", 0) \in DiffLine /\ Line("path", f.path) \in DiffLine
      BY LinesTyped, ContentAssumption DEF LineKinds, File, NoPath
    <3> HIDE DEF l, o1, hunks
    <3>6. <<l, o1>> \in Seq(DiffLine) /\ head \in Seq(DiffLine)
      BY <3>5 DEF o1
    <3> QED
      BY <3>4, <3>6
  <2> HIDE DEF l, o1, head, hunks
  <2>4. (<<l, o1>> \o head \o hunks)[1] = l
    <3>1. PICK S : <<l, o1>> \in Seq(S) /\ head \in Seq(S) /\ hunks \in Seq(S)
      BY <2>3
    <3>2. <<l, o1>> # <<>> /\ <<l, o1>>[1] = l
      OBVIOUS
    <3>3. /\ <<l, o1>> \o head \in Seq(S) /\ <<l, o1>> \o head # <<>>
          /\ (<<l, o1>> \o head)[1] = l
      BY <3>1, <3>2, FirstOfConcatenation
    <3> QED
      BY <3>1, <3>3, FirstOfConcatenation
  <2> QED
    BY <2>1, <2>2, <2>4
<1> QED
  BY <1>1, <1>5, <1>6, <1>10, <1>13, <1>14

-----------------------------------------------------------------------------
(* parseDiff *)

AddedLine == [line : Nat \ {0}, text : Content]
ParsedFile == [path : Nat, added : Seq(AddedLine)]
ParseState == [files : Seq(ParsedFile), newLine : Nat]

LEMMA ParseLineTyped ==
    ASSUME NEW s \in ParseState, NEW l \in DiffLine, l.t \in Content => s.newLine > 0
    PROVE  parseLine(s, l) \in ParseState
<1>1. s.files \in Seq(ParsedFile) /\ s.newLine \in Nat /\ l.n \in Nat /\ l.t \in LineKinds
  BY DEF ParseState, DiffLine
<1>2. CASE l.t = "file"
  <2> DEFINE f == [path |-> l.n, added |-> <<>>]
  <2>1. f \in ParsedFile
    BY <1>1 DEF ParsedFile
  <2> HIDE DEF f
  <2>2. Append(s.files, f) \in Seq(ParsedFile)
    BY <1>1, <2>1
  <2> QED
    BY <1>2, <2>2 DEF parseLine, ParseState, f
<1>3. CASE l.t # "file" /\ s.files = <<>>
  BY <1>3 DEF parseLine
<1>4. CASE l.t # "file" /\ s.files # <<>>
  <2>1. parseLine(s, l) = parseInFile(s, l)
    BY <1>4 DEF parseLine
  <2> DEFINE last == Len(s.files)
             f == s.files[last]
  <2>2. last \in 1..Len(s.files) /\ f \in ParsedFile
    BY <1>1, <1>4
  <2>3. f.path \in Nat /\ f.added \in Seq(AddedLine)
    BY <2>2 DEF ParsedFile
  <2>4. \A g \in ParsedFile : [s.files EXCEPT ![last] = g] \in Seq(ParsedFile)
    BY <1>1, <2>2
  <2>5. CASE l.t = "path"
    <3> DEFINE g == [f EXCEPT !.path = l.n]
    <3>1. g \in ParsedFile
      BY <1>1, <2>2 DEF ParsedFile
    <3>2. parseInFile(s, l) = [s EXCEPT !.files = [s.files EXCEPT ![last] = g]]
      BY <2>5 DEF parseInFile
    <3> HIDE DEF g
    <3>3. [s.files EXCEPT ![last] = g] \in Seq(ParsedFile)
      BY <2>4, <3>1
    <3> QED
      BY <2>1, <3>2, <3>3 DEF ParseState
  <2>6. CASE l.t = "hunk"
    BY <1>1, <2>1, <2>6 DEF parseInFile, ParseState
  <2>7. CASE l.t \in Content
    <3> DEFINE a == [line |-> s.newLine, text |-> l.t]
               g == [f EXCEPT !.added = Append(f.added, a)]
    <3>1. a \in AddedLine
      BY <1>1, <2>7 DEF AddedLine
    <3>2. Append(f.added, a) \in Seq(AddedLine)
      BY <2>3, <3>1
    <3>3. g \in ParsedFile
      BY <2>2, <3>2 DEF ParsedFile
    <3>4. parseInFile(s, l) = [s EXCEPT !.files = [s.files EXCEPT ![last] = g], !.newLine = s.newLine + 1]
      BY <2>7 DEF parseInFile, Content
    <3> HIDE DEF g
    <3>5. [s.files EXCEPT ![last] = g] \in Seq(ParsedFile) /\ s.newLine + 1 \in Nat
      BY <1>1, <2>4, <3>3
    <3> QED
      BY <2>1, <3>4, <3>5 DEF ParseState
  <2>8. CASE l.t \in {"del", "other"}
    <3>1. parseInFile(s, l) = [s EXCEPT !.newLine = IF Advances(l.t) /\ s.newLine > 0 THEN s.newLine + 1 ELSE s.newLine]
      BY <2>8 DEF parseInFile
    <3> QED
      BY <1>1, <2>1, <3>1 DEF ParseState
  <2> QED
    BY <1>1, <1>4, <2>5, <2>6, <2>7, <2>8 DEF LineKinds
<1> QED
  BY <1>2, <1>3, <1>4

\* The added lines still to come get numbers: from a hunk to come, or from the one
\* the parser is in.
Ready(ls, n) ==
    \A j \in 1..Len(ls) : ls[j].t \in Content =>
        \/ \E i \in 1..(j - 1) : Opens(ls, i, j)
        \/ n > 0 /\ \A x \in 1..(j - 1) : ls[x].t \notin Breaks

\* Before the first file header nothing is read.
Started(ls, s) == s.files # <<>> \/ ls = <<>> \/ ls[1].t = "file"

Parsing(ls, s) == s \in ParseState /\ ls \in Seq(DiffLine) /\ Ready(ls, s.newLine) /\ Started(ls, s)

\* The number parseLine leaves: a hunk sets it, other lines keep it positive.
LEMMA NewLineKept ==
    ASSUME NEW s \in ParseState, NEW l \in DiffLine, s.files # <<>> \/ l.t = "file"
    PROVE  /\ parseLine(s, l).files # <<>>
           /\ l.t = "hunk" => parseLine(s, l).newLine = l.n
           /\ l.t \notin Breaks /\ s.newLine > 0 => parseLine(s, l).newLine > 0
<1>1. s.files \in Seq(ParsedFile) /\ s.newLine \in Nat /\ l.n \in Nat /\ l.t \in LineKinds
  BY DEF ParseState, DiffLine
<1>2. CASE l.t = "file"
  <2>1. parseLine(s, l).files = Append(s.files, [path |-> l.n, added |-> <<>>])
    BY <1>2 DEF parseLine
  <2>2. \A e : Append(s.files, e) # <<>>
    BY <1>1
  <2> QED
    BY <1>2, <2>1, <2>2 DEF Breaks
<1>3. CASE l.t # "file"
  <2>1. parseLine(s, l) = parseInFile(s, l) /\ s.files # <<>>
    BY <1>3 DEF parseLine
  <2>2. l.t = "hunk" => parseInFile(s, l).newLine = l.n
    BY DEF parseInFile, ParseState
  <2>3. l.t \notin Breaks /\ s.newLine > 0 => parseInFile(s, l).newLine > 0
    BY <1>1, <1>3 DEF parseInFile, ParseState, LineKinds, Content, Breaks
  <2>4. parseInFile(s, l).files # <<>>
    <3>1. ASSUME NEW g PROVE [s.files EXCEPT ![Len(s.files)] = g] # <<>>
      <4>1. PICK e : e = [s.files EXCEPT ![Len(s.files)] = g]
        OBVIOUS
      <4>2. DOMAIN e = DOMAIN s.files /\ 1 \in DOMAIN s.files
        BY <1>1, <2>1, <4>1
      <4>3. e # <<>>
        BY <4>2
      <4> QED
        BY <4>1, <4>3
    <3>2. \/ parseInFile(s, l).files = s.files
          \/ \E g : parseInFile(s, l).files = [s.files EXCEPT ![Len(s.files)] = g]
      BY <1>1, <1>3 DEF parseInFile, ParseState, LineKinds, Content
    <3> QED
      BY <2>1, <3>1, <3>2
  <2> QED
    BY <2>1, <2>2, <2>3, <2>4
<1> QED
  BY <1>2, <1>3

LEMMA ParsingStep ==
    ASSUME NEW ls, NEW s, Parsing(ls, s), ls # <<>>
    PROVE  Parsing(Tail(ls), parseLine(s, Head(ls)))
<1> DEFINE l == Head(ls)
           rest == Tail(ls)
           z == parseLine(s, l)
<1>1. s \in ParseState /\ ls \in Seq(DiffLine) /\ Ready(ls, s.newLine) /\ Started(ls, s)
  BY DEF Parsing
<1>2. /\ l = ls[1] /\ l \in DiffLine /\ rest \in Seq(DiffLine) /\ Len(ls) \in Nat /\ Len(rest) = Len(ls) - 1
      /\ \A j \in 1..Len(rest) : rest[j] = ls[j + 1]
      /\ 1 \in 1..Len(ls)
  BY <1>1
<1>3. s.files # <<>> \/ l.t = "file"
  BY <1>1, <1>2 DEF Started
<1>4. l.t \in Content => s.newLine > 0
  <2>1. \A i \in 1..(1 - 1) : FALSE
    OBVIOUS
  <2> QED
    BY <1>1, <1>2, <2>1 DEF Ready
<1> HIDE DEF l, rest, z
<1>5. z \in ParseState
  BY <1>1, <1>2, <1>4, ParseLineTyped DEF z
<1>6. /\ z.files # <<>>
      /\ l.t = "hunk" => z.newLine = l.n
      /\ l.t \notin Breaks /\ s.newLine > 0 => z.newLine > 0
  BY <1>1, <1>2, <1>3, NewLineKept DEF z
<1>7. Ready(rest, z.newLine)
  <2> SUFFICES ASSUME NEW j \in 1..Len(rest), rest[j].t \in Content
               PROVE  \/ \E i \in 1..(j - 1) : Opens(rest, i, j)
                      \/ z.newLine > 0 /\ \A x \in 1..(j - 1) : rest[x].t \notin Breaks
    BY DEF Ready
  <2>1. /\ j \in Nat /\ j + 1 \in 1..Len(ls) /\ ls[j + 1] = rest[j] /\ (j + 1) - 1 = j
        /\ \A x \in 1..(j - 1) : rest[x] = ls[x + 1]
    BY <1>2
  <2>2. \/ \E i \in 1..j : Opens(ls, i, j + 1)
        \/ s.newLine > 0 /\ \A x \in 1..j : ls[x].t \notin Breaks
    BY <1>1, <2>1 DEF Ready
  <2>3. ASSUME NEW i \in 1..j, Opens(ls, i, j + 1), i # 1
        PROVE  i - 1 \in 1..(j - 1) /\ Opens(rest, i - 1, j)
    <3>1. i - 1 \in 1..(j - 1) /\ rest[i - 1] = ls[i]
      BY <1>2, <2>1, <2>3
    <3>2. ASSUME NEW x \in ((i - 1) + 1)..(j - 1) PROVE rest[x].t \notin Breaks
      <4>1. x \in 1..(j - 1) /\ x + 1 \in (i + 1)..((j + 1) - 1)
        BY <2>1, <3>1
      <4> QED
        BY <2>1, <2>3, <4>1 DEF Opens
    <3>3. rest[i - 1].t = "hunk" /\ rest[i - 1].n > 0
      BY <2>3, <3>1 DEF Opens
    <3> QED
      BY <3>1, <3>2, <3>3 DEF Opens
  <2>4. ASSUME Opens(ls, 1, j + 1)
        PROVE  z.newLine > 0 /\ \A x \in 1..(j - 1) : rest[x].t \notin Breaks
    <3>1. l.t = "hunk" /\ l.n > 0
      BY <1>2, <2>4 DEF Opens
    <3>2. ASSUME NEW x \in 1..(j - 1) PROVE rest[x].t \notin Breaks
      <4>1. x + 1 \in (1 + 1)..((j + 1) - 1)
        BY <2>1
      <4> QED
        BY <2>1, <2>4, <4>1 DEF Opens
    <3> QED
      BY <1>6, <3>1, <3>2
  <2>5. ASSUME s.newLine > 0, \A x \in 1..j : ls[x].t \notin Breaks
        PROVE  z.newLine > 0 /\ \A x \in 1..(j - 1) : rest[x].t \notin Breaks
    <3>1. 1 \in 1..j /\ \A x \in 1..(j - 1) : x + 1 \in 1..j
      BY <2>1
    <3> QED
      BY <1>2, <1>6, <2>1, <2>5, <3>1
  <2> QED
    BY <2>2, <2>3, <2>4, <2>5
<1>8. Started(rest, z)
  BY <1>6 DEF Started
<1> QED
  BY <1>2, <1>5, <1>7, <1>8 DEF Parsing, l, rest, z

\* What parseDiff starts from.
LEMMA ParsingStarts ==
    ASSUME NEW d \in Diff
    PROVE  Parsing(Render(d), NothingParsed)
<1>1. NothingParsed \in ParseState /\ NothingParsed.newLine = 0
  BY DEF NothingParsed, ParseState
<1>2. Render(d) \in Seq(DiffLine) /\ Ready(Render(d), 0)
  BY DiffNumbered DEF Numbered, Ready
<1>3. Started(Render(d), NothingParsed)
  BY DiffStartsWithFile DEF Started
<1> QED
  BY <1>1, <1>2, <1>3 DEF Parsing

-----------------------------------------------------------------------------
(* The loop as a whole *)

Folds(f, ls, n) ==
    f = [k \in 0..n |-> IF k = 0 THEN NothingParsed ELSE parseLine(f[k - 1], ls[k])]

LEMMA FoldExists ==
    ASSUME NEW ls, NEW n \in Nat
    PROVE  \E f : Folds(f, ls, n)
<1> DEFINE Bad == {m \in Nat : ~\E f : Folds(f, ls, m)}
<1>1. SUFFICES ASSUME Bad # {} PROVE FALSE
  OBVIOUS
<1>2. Bad \in SUBSET Nat
  OBVIOUS
<1>3. \A m \in Bad : m \in Nat /\ ~\E f : Folds(f, ls, m)
  OBVIOUS
<1>4. \A m \in Nat : m \notin Bad => \E f : Folds(f, ls, m)
  OBVIOUS
<1> HIDE DEF Bad
<1>5. PICK m \in Bad : \A k \in Bad : m <= k
  BY <1>1, <1>2, LeastNatural
<1>6. m \in Nat
  BY <1>3
<1>7. CASE m = 0
  <2> DEFINE f == [k \in 0..0 |-> NothingParsed]
  <2>1. Folds(f, ls, 0)
    BY DEF Folds
  <2> QED
    BY <1>3, <1>7, <2>1
<1>8. CASE m # 0
  <2>1. m - 1 \in Nat /\ ~(m <= m - 1)
    BY <1>6, <1>8
  <2>2. PICK f : Folds(f, ls, m - 1)
    BY <1>4, <1>5, <2>1
  <2> DEFINE g == [k \in 0..m |-> IF k = m THEN parseLine(f[m - 1], ls[m]) ELSE f[k]]
  <2>3. ASSUME NEW k \in 0..m
        PROVE  g[k] = IF k = 0 THEN NothingParsed ELSE parseLine(g[k - 1], ls[k])
    <3>1. CASE k = m
      <4>1. m - 1 \in 0..m /\ m - 1 # m /\ m \in 0..m
        BY <1>6, <2>1
      <4>2. g[m - 1] = f[m - 1] /\ g[m] = parseLine(f[m - 1], ls[m])
        BY <4>1
      <4> QED
        BY <1>8, <3>1, <4>2
    <3>2. CASE k # m
      <4>1. k \in 0..(m - 1) /\ (k # 0 => k - 1 \in 0..m /\ k - 1 # m)
        BY <1>6, <3>2
      <4>2. g[k] = f[k] /\ (k # 0 => g[k - 1] = f[k - 1])
        BY <3>2, <4>1
      <4>3. f[k] = IF k = 0 THEN NothingParsed ELSE parseLine(f[k - 1], ls[k])
        BY <2>2, <4>1 DEF Folds
      <4> QED
        BY <4>2, <4>3
    <3> QED
      BY <3>1, <3>2
  <2>4. \E h : h = g
    OBVIOUS
  <2>5. Folds(g, ls, m)
    BY <2>3 DEF Folds
  <2> QED
    BY <1>3, <2>5
<1> QED
  BY <1>7, <1>8

LEMMA AfterEachLine ==
    ASSUME NEW ls, Len(ls) \in Nat
    PROVE  /\ After(ls)[0] = NothingParsed
           /\ \A k \in 1..Len(ls) : After(ls)[k] = parseLine(After(ls)[k - 1], ls[k])
<1> DEFINE n == Len(ls)
           F(f) == [k \in 0..n |-> IF k = 0 THEN NothingParsed ELSE parseLine(f[k - 1], ls[k])]
           h == CHOOSE f : f = F(f)
<1>1. PICK f : Folds(f, ls, n)
  BY FoldExists
<1>2. f = F(f)
  BY <1>1 DEF Folds
<1>3. h = F(h)
  BY <1>2
<1>4. After(ls) = h
  BY DEF After
<1> HIDE DEF h
<1>5. 0 \in 0..n /\ \A k \in 1..n : k \in 0..n /\ k # 0
  OBVIOUS
<1>6. h[0] = NothingParsed /\ \A k \in 1..n : h[k] = parseLine(h[k - 1], ls[k])
  BY <1>3, <1>5
<1> QED
  BY <1>4, <1>6

-----------------------------------------------------------------------------
(* Findings in order *)

Rules == {"denied_path", "dependency_delta", "lockfile_only", "osv_delta", "secret"}
Findings == [rule : Rules, path : Nat, line : Nat \ {0}, detail : Nat]

LEMMA RankFacts ==
    /\ DOMAIN Rank = Rules
    /\ \A r \in Rules : Rank[r] \in Nat
    /\ \A r, q \in Rules : Rank[r] = Rank[q] => r = q
<1>1. /\ Rank["denied_path"] = 1 /\ Rank["dependency_delta"] = 2 /\ Rank["lockfile_only"] = 3
      /\ Rank["osv_delta"] = 4 /\ Rank["secret"] = 5
  BY DEF Rank
<1>2. DOMAIN Rank = Rules
  BY DEF Rank, Rules
<1> QED
  BY <1>1, <1>2 DEF Rules

\* sort.Slice's order is total on findings that differ.
LEMMA BeforeIsOrder ==
    ASSUME NEW f \in Findings, NEW g \in Findings, NEW h \in Findings
    PROVE  /\ ~Before(f, f)
           /\ Before(f, g) /\ Before(g, h) => Before(f, h)
           /\ f # g => Before(f, g) \/ Before(g, f)
<1>1. \A x \in {f, g, h} : x.rule \in Rules /\ Rank[x.rule] \in Nat /\ x.path \in Nat /\ x.line \in Nat /\ x.detail \in Nat
  BY RankFacts DEF Findings
<1>2. \A x, y \in {f, g, h} : Rank[x.rule] = Rank[y.rule] => x.rule = y.rule
  BY <1>1, RankFacts
<1>3. f.rule = g.rule /\ f.path = g.path /\ f.line = g.line /\ f.detail = g.detail => f = g
  BY DEF Findings
<1> HIDE DEF Rules
<1>4. ~Before(f, f)
  BY <1>1 DEF Before
<1>5. Before(f, g) /\ Before(g, h) => Before(f, h)
  BY <1>1, <1>2 DEF Before
<1>6. f # g => Before(f, g) \/ Before(g, f)
  BY <1>1, <1>2, <1>3 DEF Before
<1> QED
  BY <1>4, <1>5, <1>6

\* Sorted lists the elements of a finite set of findings.
LEMMA SortedLists ==
    ASSUME NEW S \in SUBSET Findings, IsFiniteSet(S)
    PROVE  Sorted(S) \in Seq(S) /\ Range(Sorted(S)) = S
<1> DEFINE n == Cardinality(S)
           below(f) == {g \in S : Before(g, f)}
           r == [f \in S |-> Cardinality(below(f)) + 1]
<1>1. n \in Nat
  BY FS_CardinalityType
<1>2. ASSUME NEW f \in S PROVE IsFiniteSet(below(f)) /\ Cardinality(below(f)) \in Nat /\ Cardinality(below(f)) < n
  <2>1. below(f) \in SUBSET S /\ f \notin below(f)
    BY BeforeIsOrder
  <2> HIDE DEF below
  <2>2. IsFiniteSet(below(f)) /\ Cardinality(below(f)) <= n /\ (n = Cardinality(below(f)) => S = below(f))
    BY <2>1, FS_Subset
  <2>3. Cardinality(below(f)) \in Nat
    BY <2>2, FS_CardinalityType
  <2> QED
    BY <1>1, <2>1, <2>2, <2>3
<1>3. ASSUME NEW f \in S, NEW g \in S, Before(f, g) PROVE Cardinality(below(f)) # Cardinality(below(g))
  <2>1. below(f) \in SUBSET below(g) /\ f \in below(g) /\ f \notin below(f)
    <3>1. f \notin below(f) /\ f \in below(g)
      BY <1>3, BeforeIsOrder
    <3>2. ASSUME NEW h \in S, Before(h, f) PROVE Before(h, g)
      <4>1. h \in Findings /\ f \in Findings /\ g \in Findings
        OBVIOUS
      <4> QED
        BY <1>3, <3>2, <4>1, BeforeIsOrder
    <3> QED
      BY <3>1, <3>2
  <2>2. IsFiniteSet(below(g))
    BY <1>2
  <2> HIDE DEF below
  <2> QED
    BY <2>1, <2>2, FS_Subset
<1>4. r \in [S -> 1..n]
  <2>1. ASSUME NEW f \in S PROVE Cardinality(below(f)) + 1 \in 1..n
    <3>1. PICK a \in Nat : a = Cardinality(below(f)) /\ a < n
      BY <1>2
    <3>2. a + 1 \in 1..n
      BY <1>1, <3>1
    <3> QED
      BY <3>1, <3>2
  <2> HIDE DEF below
  <2> QED
    BY <2>1
<1>5. \A f, g \in S : r[f] = r[g] => f = g
  <2>1. \A f, g \in S : f # g => Cardinality(below(f)) # Cardinality(below(g))
    <3> SUFFICES ASSUME NEW f \in S, NEW g \in S, f # g
                 PROVE  Cardinality(below(f)) # Cardinality(below(g))
      OBVIOUS
    <3>1. Before(f, g) \/ Before(g, f)
      BY BeforeIsOrder
    <3> QED
      BY <1>3, <3>1
  <2>2. \A f \in S : Cardinality(below(f)) \in Nat
    BY <1>2
  <2> HIDE DEF below
  <2> QED
    BY <2>1, <2>2
<1>6. \A i \in 1..n : \E f \in S : Cardinality(below(f)) = i - 1
  <2> HIDE DEF r
  <2>1. r \in Injection(S, 1..n)
    BY <1>4, <1>5, Fun_IsInj
  <2>2. IsFiniteSet(1..n) /\ Cardinality(1..n) = n
    BY <1>1, FS_Interval
  <2>3. r \in Surjection(S, 1..n)
    BY <2>1, <2>2, FS_Injection
  <2>4. \A i \in 1..n : \E f \in S : r[f] = i
    BY <2>3 DEF Surjection
  <2>5. \A f \in S : r[f] = Cardinality(below(f)) + 1 /\ Cardinality(below(f)) \in Nat
    BY <1>2 DEF r
  <2> HIDE DEF below
  <2> QED
    BY <1>1, <2>4, <2>5
<1>7. Sorted(S) = [i \in 1..n |-> CHOOSE f \in S : Cardinality(below(f)) = i - 1]
  BY DEF Sorted
<1>8. \A f \in S : r[f] \in 1..n /\ Cardinality(below(f)) = r[f] - 1
  <2>1. \A f \in S : r[f] = Cardinality(below(f)) + 1 /\ Cardinality(below(f)) \in Nat
    BY <1>2
  <2>2. \A f \in S : r[f] \in 1..n
    BY <1>4
  <2> HIDE DEF below, r
  <2> QED
    BY <2>1, <2>2
<1> HIDE DEF n, below, r
<1>9. Sorted(S) \in [1..n -> S]
  BY <1>6, <1>7
<1>10. ASSUME NEW f \in S PROVE Sorted(S)[r[f]] = f
  <2> DEFINE g == CHOOSE x \in S : Cardinality(below(x)) = r[f] - 1
  <2>1. g \in S /\ Cardinality(below(g)) = r[f] - 1
    BY <1>8
  <2>2. Sorted(S)[r[f]] = g
    BY <1>7, <1>8
  <2> HIDE DEF g
  <2>3. r[g] = r[f]
    <3>1. r[g] \in 1..n /\ r[f] \in 1..n /\ r[g] - 1 = r[f] - 1
      BY <1>8, <2>1
    <3> QED
      BY <1>1, <3>1
  <2> QED
    BY <1>5, <2>1, <2>2, <2>3
<1>11. Range(Sorted(S)) = S
  <2>1. DOMAIN Sorted(S) = 1..n
    BY <1>9
  <2> QED
    BY <1>8, <1>9, <1>10, <2>1 DEF Range
<1> QED
  BY <1>1, <1>9, <1>11

-----------------------------------------------------------------------------
(* What the checks find *)

LEMMA ImageFinite ==
    ASSUME NEW S, IsFiniteSet(S), NEW f, NEW T, \A t \in T : \E x \in S : f[x] = t,
           NEW U, f \in [S -> U]
    PROVE  IsFiniteSet(T)
<1> DEFINE R == {f[x] : x \in S}
<1>1. f \in [S -> R] /\ \A t \in R : \E x \in S : f[x] = t
  OBVIOUS
<1>2. T \in SUBSET R
  OBVIOUS
<1> HIDE DEF R
<1>3. f \in Surjection(S, R)
  BY <1>1, Fun_IsSurj
<1>4. IsFiniteSet(R)
  BY <1>3, FS_Surjection
<1> QED
  BY <1>2, <1>4, FS_Subset

LEMMA RangeFinite ==
    ASSUME NEW X, NEW s \in Seq(X)
    PROVE  IsFiniteSet(Range(s)) /\ Range(s) \in SUBSET X
<1>1. Len(s) \in Nat /\ s \in [1..Len(s) -> X] /\ DOMAIN s = 1..Len(s)
  OBVIOUS
<1>2. IsFiniteSet(1..Len(s))
  BY <1>1, FS_Interval
<1>3. \A t \in Range(s) : \E x \in 1..Len(s) : s[x] = t
  BY <1>1 DEF Range
<1>4. IsFiniteSet(Range(s))
  BY <1>1, <1>2, <1>3, ImageFinite
<1> QED
  BY <1>1, <1>4 DEF Range

\* A finite set of findings.
Few(S) == S \in SUBSET Findings /\ IsFiniteSet(S)

LEMMA FindingTyped ==
    ASSUME NEW rule \in Rules, NEW path \in Nat, NEW line \in Nat \ {0}, NEW detail \in Nat
    PROVE  Finding(rule, path, line, detail) \in Findings
  BY DEF Finding, Findings

LEMMA FirstLineTyped ==
    ASSUME NEW f \in ParsedFile
    PROVE  firstLine(f) \in Nat \ {0}
<1>1. f.added \in Seq(AddedLine)
  BY DEF ParsedFile
<1>2. f.added # <<>> => f.added[1] \in AddedLine
  BY <1>1
<1> QED
  BY <1>2 DEF firstLine, AddedLine

LEMMA DeniedFew ==
    ASSUME NEW fs \in SUBSET ParsedFile, IsFiniteSet(fs)
    PROVE  Few(deniedPathFindings(fs))
<1> DEFINE image == [f \in fs |-> Finding("denied_path", f.path, firstLine(f), 0)]
           D == deniedPathFindings(fs)
<1>1. ASSUME NEW f \in fs PROVE Finding("denied_path", f.path, firstLine(f), 0) \in Findings
  <2>1. f.path \in Nat /\ firstLine(f) \in Nat \ {0}
    BY FirstLineTyped DEF ParsedFile
  <2> QED
    BY <2>1, FindingTyped DEF Rules
<1>2. image \in [fs -> Findings] /\ DOMAIN image = fs
  BY <1>1
<1>3. \A t \in D : \E f \in fs : image[f] = t
  BY DEF deniedPathFindings
<1> HIDE DEF image, D
<1>4. IsFiniteSet(D)
  BY <1>2, <1>3, ImageFinite
<1>5. D \in SUBSET Findings
  BY <1>2, <1>3
<1> QED
  BY <1>4, <1>5 DEF Few, D

\* What is found file by file.
LEMMA FewEach ==
    ASSUME NEW S, IsFiniteSet(S), NEW g, DOMAIN g = S, \A f \in S : Few(g[f])
    PROVE  Few(UNION {g[f] : f \in S})
<1> DEFINE sets == {g[f] : f \in S}
<1>1. \A s \in sets : IsFiniteSet(s) /\ s \in SUBSET Findings
  BY DEF Few
<1>2. IsFiniteSet(sets)
  <2> DEFINE h == [f \in S |-> g[f]]
  <2>1. h \in [S -> SUBSET Findings] /\ \A t \in sets : \E x \in S : h[x] = t
    BY DEF Few
  <2> HIDE DEF sets, h
  <2> QED
    BY <2>1, ImageFinite
<1>3. IsFiniteSet(UNION sets)
  BY <1>1, <1>2, FS_UNION
<1>4. (UNION sets) \in SUBSET Findings
  BY <1>1
<1> QED
  BY <1>3, <1>4 DEF Few

LEMMA SecretsFew ==
    ASSUME NEW fs \in SUBSET ParsedFile, IsFiniteSet(fs)
    PROVE  Few(secretFindings(fs))
<1> DEFINE of(f) == {Finding("secret", f.path, a.line, IF a.text = "http" THEN 1 ELSE 2) :
                        a \in {b \in Range(f.added) : Leaks(b.text, f.path)}}
           g == [f \in fs |-> of(f)]
<1>1. ASSUME NEW f \in fs PROVE Few(of(f))
  <2> DEFINE image == [a \in Range(f.added) |-> Finding("secret", f.path, a.line, IF a.text = "http" THEN 1 ELSE 2)]
             D == of(f)
  <2>1. f.path \in Nat /\ f.added \in Seq(AddedLine)
    BY DEF ParsedFile
  <2>2. IsFiniteSet(Range(f.added)) /\ Range(f.added) \in SUBSET AddedLine
    BY <2>1, RangeFinite
  <2>3. \A a \in Range(f.added) : Finding("secret", f.path, a.line, IF a.text = "http" THEN 1 ELSE 2) \in Findings
    <3> SUFFICES ASSUME NEW a \in Range(f.added)
                 PROVE  Finding("secret", f.path, a.line, IF a.text = "http" THEN 1 ELSE 2) \in Findings
      OBVIOUS
    <3>1. a.line \in Nat \ {0} /\ (IF a.text = "http" THEN 1 ELSE 2) \in Nat
      BY <2>2 DEF AddedLine
    <3> QED
      BY <2>1, <3>1, FindingTyped DEF Rules
  <2>4. image \in [Range(f.added) -> Findings] /\ DOMAIN image = Range(f.added)
    BY <2>3
  <2>5. \A t \in D : \E a \in Range(f.added) : image[a] = t
    OBVIOUS
  <2> HIDE DEF image, D
  <2>6. IsFiniteSet(D)
    BY <2>2, <2>4, <2>5, ImageFinite
  <2>7. D \in SUBSET Findings
    BY <2>4, <2>5
  <2> QED
    BY <2>6, <2>7 DEF Few, D
<1>2. DOMAIN g = fs /\ \A f \in fs : g[f] = of(f)
  OBVIOUS
<1>3. secretFindings(fs) = UNION {g[f] : f \in fs}
  BY DEF secretFindings
<1> HIDE DEF g
<1>4. \A f \in fs : Few(g[f])
  BY <1>1, <1>2
<1> QED
  BY <1>2, <1>3, <1>4, FewEach

\* The file that carries what has no line of its own is a file of the diff.
LEMMA FirstInputTyped ==
    ASSUME NEW fs \in SUBSET ParsedFile, HasInputs(fs)
    PROVE  FirstInput(fs) \in Nat
<1> DEFINE manifests == {f.path : f \in fs} \cap Manifests
           lockfiles == {f.path : f \in fs} \cap Lockfiles
<1>1. manifests \in SUBSET Nat /\ lockfiles \in SUBSET Nat
  BY DEF ParsedFile
<1>2. manifests # {} \/ lockfiles # {}
  BY DEF HasInputs
<1>3. \A S \in SUBSET Nat : S # {} => (CHOOSE p \in S : \A q \in S : p <= q) \in Nat
  <2> SUFFICES ASSUME NEW S \in SUBSET Nat, S # {} PROVE (CHOOSE p \in S : \A q \in S : p <= q) \in Nat
    OBVIOUS
  <2>1. \E p \in S : \A q \in S : p <= q
    BY LeastNatural
  <2> QED
    BY <2>1
<1>4. FirstInput(fs) = IF manifests # {} THEN CHOOSE p \in manifests : \A q \in manifests : p <= q
                       ELSE CHOOSE p \in lockfiles : \A q \in lockfiles : p <= q
  BY DEF FirstInput
<1> HIDE DEF manifests, lockfiles
<1> QED
  BY <1>1, <1>2, <1>3, <1>4

LEMMA DependenciesFew ==
    ASSUME NEW d \in Diffs, NEW fs \in SUBSET ParsedFile, IsFiniteSet(fs)
    PROVE  Few(dependencyDeltaFindings(d, fs))
<1> DEFINE manifests == {f \in fs : f.path \in Manifests}
<1>0. IsFiniteSet(manifests) /\ manifests \in SUBSET fs
  BY FS_Subset
<1>1. CASE manifests = {}
  <2> DEFINE image == [f \in fs |-> Finding("lockfile_only", f.path, firstLine(f), 0)]
             D == dependencyDeltaFindings(d, fs)
  <2>1. ASSUME NEW f \in fs PROVE Finding("lockfile_only", f.path, firstLine(f), 0) \in Findings
    <3>1. f.path \in Nat /\ firstLine(f) \in Nat \ {0}
      BY FirstLineTyped DEF ParsedFile
    <3> QED
      BY <3>1, FindingTyped DEF Rules
  <2>2. image \in [fs -> Findings] /\ DOMAIN image = fs
    BY <2>1
  <2>3. \A t \in D : \E f \in fs : image[f] = t
    BY <1>1 DEF dependencyDeltaFindings
  <2> HIDE DEF image, D
  <2>4. IsFiniteSet(D)
    BY <2>2, <2>3, ImageFinite
  <2>5. D \in SUBSET Findings
    BY <2>2, <2>3
  <2> QED
    BY <2>4, <2>5 DEF Few, D
<1>2. CASE manifests # {}
  <2> DEFINE of(f) == {Finding("dependency_delta", f.path, firstLine(f), k) : k \in dependencyDetails(d.deps[f.path])}
             g == [f \in manifests |-> of(f)]
  <2>1. ASSUME NEW f \in manifests PROVE Few(of(f))
    <3> DEFINE K == dependencyDetails(d.deps[f.path])
               image == [k \in K |-> Finding("dependency_delta", f.path, firstLine(f), k)]
               D == of(f)
    <3>1. f.path \in Nat /\ firstLine(f) \in Nat \ {0} /\ f.path \in Manifests
      BY FirstLineTyped DEF ParsedFile
    <3>2. IsFiniteSet(K) /\ K \in SUBSET Packages /\ Packages \subseteq Nat
      BY <3>1, ListsAssumption, ContentAssumption DEF dependencyDetails
    <3>3. \A k \in K : Finding("dependency_delta", f.path, firstLine(f), k) \in Findings
      BY <3>1, <3>2, FindingTyped DEF Rules
    <3>4. image \in [K -> Findings] /\ DOMAIN image = K
      BY <3>3
    <3>5. \A t \in D : \E k \in K : image[k] = t
      OBVIOUS
    <3> HIDE DEF image, D, K
    <3>6. IsFiniteSet(D)
      BY <3>2, <3>4, <3>5, ImageFinite
    <3>7. D \in SUBSET Findings
      BY <3>4, <3>5
    <3> QED
      BY <3>6, <3>7 DEF Few, D
  <2>2. DOMAIN g = manifests /\ \A f \in manifests : g[f] = of(f)
    OBVIOUS
  <2>3. dependencyDeltaFindings(d, fs) = UNION {g[f] : f \in manifests}
    <3>1. dependencyDeltaFindings(d, fs) = UNION {of(f) : f \in manifests}
      BY <1>2 DEF dependencyDeltaFindings
    <3>2. {of(f) : f \in manifests} = {g[f] : f \in manifests}
      BY <2>2
    <3> QED
      BY <3>1, <3>2
  <2> HIDE DEF g, manifests
  <2>4. \A f \in manifests : Few(g[f])
    BY <2>1, <2>2
  <2> QED
    BY <1>0, <2>2, <2>3, <2>4, FewEach
<1> QED
  BY <1>1, <1>2

LEMMA AdvisoriesFew ==
    ASSUME NEW d \in Diffs, NEW fs \in SUBSET ParsedFile
    PROVE  Few(osvDeltaFindings(d, fs))
<1>1. CASE ~HasInputs(fs)
  <2>1. osvDeltaFindings(d, fs) = {}
    BY <1>1 DEF osvDeltaFindings
  <2> QED
    BY <2>1, FS_EmptySet DEF Few
<1>2. CASE HasInputs(fs)
  <2> DEFINE A == d.head \ d.base
             image == [a \in A |-> Finding("osv_delta", FirstInput(fs), 1, a)]
             D == osvDeltaFindings(d, fs)
  <2>1. IsFiniteSet(A) /\ A \in SUBSET Nat
    <3>1. d.head \subseteq Nat /\ IsFiniteSet(d.head)
      BY ContentAssumption, ListsAssumption DEF Diff
    <3> QED
      BY <3>1, FS_Subset
  <2>2. FirstInput(fs) \in Nat
    BY <1>2, FirstInputTyped
  <2>3. \A a \in A : Finding("osv_delta", FirstInput(fs), 1, a) \in Findings
    BY <2>1, <2>2, FindingTyped DEF Rules
  <2>4. image \in [A -> Findings] /\ DOMAIN image = A
    BY <2>3
  <2>5. \A t \in D : \E a \in A : image[a] = t
    BY <1>2 DEF osvDeltaFindings
  <2> HIDE DEF image, D, A
  <2>6. IsFiniteSet(D)
    BY <2>1, <2>4, <2>5, ImageFinite
  <2>7. D \in SUBSET Findings
    BY <2>4, <2>5
  <2> QED
    BY <2>6, <2>7 DEF Few, D
<1> QED
  BY <1>1, <1>2

\* All returns a list of findings, each with a line.
LEMMA AllTyped ==
    ASSUME NEW d \in Diffs, NEW s \in ParseState
    PROVE  LET fs == Range(s.files) IN
           /\ All(d, fs) \in Seq(Findings)
           /\ Range(All(d, fs)) = deniedPathFindings(fs) \cup secretFindings(fs)
                                    \cup dependencyDeltaFindings(d, fs) \cup osvDeltaFindings(d, fs)
<1> DEFINE fs == Range(s.files)
           S == deniedPathFindings(fs) \cup secretFindings(fs)
                  \cup dependencyDeltaFindings(d, fs) \cup osvDeltaFindings(d, fs)
<1>1. fs \in SUBSET ParsedFile /\ IsFiniteSet(fs)
  BY RangeFinite DEF ParseState
<1> HIDE DEF fs
<1>2. /\ Few(deniedPathFindings(fs)) /\ Few(secretFindings(fs))
      /\ Few(dependencyDeltaFindings(d, fs)) /\ Few(osvDeltaFindings(d, fs))
  BY <1>1, DeniedFew, SecretsFew, DependenciesFew, AdvisoriesFew
<1>3. \A A, B : Few(A) /\ Few(B) => Few(A \cup B)
  BY FS_Union DEF Few
<1>4. Few(S)
  BY <1>2, <1>3
<1>5. All(d, fs) = Sorted(S)
  BY DEF All
<1> HIDE DEF S
<1>6. Sorted(S) \in Seq(S) /\ S \in SUBSET Findings /\ Range(Sorted(S)) = S
  BY <1>4, SortedLists DEF Few
<1>7. Sorted(S) \in Seq(Findings)
  BY <1>6
<1> QED
  BY <1>5, <1>6, <1>7 DEF fs, S

-----------------------------------------------------------------------------
(* The merged review *)

\* Findings first, then opinions, up to the limit.
LEMMA MergedElements ==
    ASSUME findings \in Seq(Findings), model \in Seq(Remark)
    PROVE  /\ Truncated(Merged) \in Seq(Remark)
           /\ Len(Truncated(Merged)) <= MaxComments
           /\ Len(Truncated(Merged)) <= Len(findings) + Len(model)
           /\ \A i \in 1..Len(Truncated(Merged)) :
                  Truncated(Merged)[i] = IF i <= Len(findings) THEN AsRemark(i)
                                         ELSE AsOpinion(model[i - Len(findings)])
<1> DEFINE n == Len(findings)
           m == Len(model)
           a == [i \in 1..n |-> AsRemark(i)]
           b == [i \in 1..m |-> AsOpinion(model[i])]
           c == a \o b
           u == Truncated(c)
<1>1. n \in Nat /\ m \in Nat /\ MaxComments \in Nat
  BY ContentAssumption
<1>2. ASSUME NEW i \in 1..n PROVE AsRemark(i) \in Remark
  <2>1. findings[i] \in Findings
    BY ElementTyped
  <2> QED
    BY <1>1, <2>1 DEF Findings, AsRemark, Remark
<1>3. ASSUME NEW i \in 1..m PROVE AsOpinion(model[i]) \in Remark
  <2>1. model[i] \in Remark
    BY ElementTyped
  <2> QED
    BY <2>1 DEF AsOpinion, Remark
<1>4. a \in Seq(Remark) /\ Len(a) = n /\ \A i \in 1..n : a[i] = AsRemark(i)
  BY <1>1, <1>2
<1>5. b \in Seq(Remark) /\ Len(b) = m /\ \A i \in 1..m : b[i] = AsOpinion(model[i])
  BY <1>1, <1>3
<1> HIDE DEF a, b, n, m
<1>6. /\ c \in Seq(Remark) /\ Len(c) = n + m
      /\ \A i \in 1..(n + m) : c[i] = IF i <= n THEN a[i] ELSE b[i - n]
  BY <1>1, <1>4, <1>5
<1> HIDE DEF c
<1>7. /\ u \in Seq(Remark) /\ Len(u) \in Nat /\ Len(u) <= MaxComments /\ Len(u) <= n + m
      /\ \A i \in 1..Len(u) : u[i] = c[i]
  <2>1. CASE Len(c) > MaxComments
    <3>1. u = SubSeq(c, 1, MaxComments)
      BY <2>1 DEF Truncated
    <3> QED
      BY <1>1, <1>6, <2>1, <3>1
  <2>2. CASE ~(Len(c) > MaxComments)
    BY <1>1, <1>6, <2>2 DEF Truncated
  <2> QED
    BY <2>1, <2>2
<1> HIDE DEF u
<1>8. ASSUME NEW i \in 1..Len(u)
      PROVE  u[i] = IF i <= n THEN AsRemark(i) ELSE AsOpinion(model[i - n])
  <2>1. i \in 1..(n + m) /\ (i <= n => i \in 1..n) /\ (~(i <= n) => i - n \in 1..m)
    BY <1>1, <1>7
  <2> QED
    BY <1>4, <1>5, <1>6, <1>7, <2>1
<1>9. Truncated(Merged) = u
  BY DEF Merged, a, b, c, u, n, m
<1> QED
  BY <1>7, <1>8, <1>9 DEF n, m

\* The merge of findings with a review that was accepted is accepted.
LEMMA MergedAccepted ==
    ASSUME findings \in Seq(Findings), model \in Seq(Remark), Validate(model)
    PROVE  Validate(Truncated(Merged))
<1> DEFINE u == Truncated(Merged)
           n == Len(findings)
           m == Len(model)
<1>1. /\ u \in Seq(Remark) /\ Len(u) <= MaxComments /\ Len(u) <= n + m
      /\ \A i \in 1..Len(u) : u[i] = IF i <= n THEN AsRemark(i) ELSE AsOpinion(model[i - n])
  BY MergedElements
<1>2. n \in Nat /\ m \in Nat /\ Len(u) \in Nat
  BY <1>1
<1> HIDE DEF u, n, m
<1>3. ASSUME NEW i \in 1..Len(u)
      PROVE  u[i].line >= 1 /\ (u[i].verified => u[i].evidence)
  <2>1. CASE i <= n
    <3>1. findings[i] \in Findings
      BY <1>2, <2>1, ElementTyped DEF n
    <3>2. AsRemark(i).line = findings[i].line /\ AsRemark(i).evidence
      BY DEF AsRemark
    <3> QED
      BY <1>1, <2>1, <3>1, <3>2 DEF Findings
  <2>2. CASE ~(i <= n)
    <3>1. i - n \in 1..m
      BY <1>1, <1>2, <2>2
    <3>2. model[i - n].line >= 1 /\ model[i - n] \in Remark
      BY <3>1, ElementTyped DEF Validate, m
    <3>3. AsOpinion(model[i - n]).line = model[i - n].line /\ ~AsOpinion(model[i - n]).verified
      BY <3>2 DEF AsOpinion, Remark
    <3> QED
      BY <1>1, <2>2, <3>2, <3>3
  <2> QED
    BY <2>1, <2>2
<1> QED
  BY <1>1, <1>3 DEF Validate, u

-----------------------------------------------------------------------------
(* The invariant *)

Stages == {"sandbox", "load", "parse", "agent", "merge", "execute", "inline", "summary",
           "succeeded", "failed"}

\* What parseDiff reads in a diff, and what the checks find there.
ReadIn(d) == Range(Parsed(Render(d)).files)
FoundIn(d) == All(d, ReadIn(d))

Typed ==
    /\ diff \in Diffs /\ moved \in BOOLEAN /\ fetched \in {"none", "granted", "newer"}
    /\ pc \in Stages
    /\ parsed \in ParseState /\ findings \in Seq(Findings)
    /\ model \in Seq(Remark) /\ comments \in Seq(Remark)
    /\ next \in 0..Len(comments) /\ posted \subseteq 1..next

\* Behind the sandbox it is the granted commit that is looked at.
GrantedIsFetched == pc \notin {"sandbox", "failed"} => fetched = "granted"

\* The parser is somewhere in the lines of the granted diff.
ReadSoFar ==
    LET all == Render(diff)
        read == Len(all) - Len(lines)
    IN  pc = "parse" =>
            /\ Parsing(lines, parsed)
            /\ read \in 0..Len(all) /\ parsed = After(all)[read]
            /\ \A j \in 1..Len(lines) : lines[j] = all[read + j]

\* What was found was found there, and what was merged is that and the model's remarks.
FoundAndMerged ==
    /\ Checked => findings = FoundIn(diff) /\ ~Unreadable(diff, ReadIn(diff))
    /\ pc = "merge" => Validate(model)
    /\ pc \in {"sandbox", "load", "parse", "agent", "merge"} => comments = <<>>
    /\ pc \in {"execute", "inline", "summary", "succeeded"} => comments = Truncated(Merged)
    /\ comments # <<>> => comments = Truncated(Merged) /\ findings = FoundIn(diff)
    /\ pc = "execute" => Validate(comments)

ContentInv == Typed /\ GrantedIsFetched /\ ReadSoFar /\ FoundAndMerged

LEMMA InitContent == Init => ContentInv
<1> SUFFICES ASSUME Init PROVE ContentInv
  OBVIOUS
<1>1. Typed
  <2>1. <<>> \in Seq(Findings) /\ <<>> \in Seq(Remark) /\ Len(<<>>) = 0 /\ 0 \in 0..0 /\ {} \subseteq 1..0
    OBVIOUS
  <2>2. NothingParsed \in ParseState
    BY DEF NothingParsed, ParseState
  <2> QED
    BY <2>1, <2>2 DEF Init, Typed, Stages
<1>2. GrantedIsFetched /\ ReadSoFar
  BY DEF Init, GrantedIsFetched, ReadSoFar
<1>3. FoundAndMerged
  BY DEF Init, FoundAndMerged, Checked
<1> QED
  BY <1>1, <1>2, <1>3 DEF ContentInv

\* Steps that change neither what was found nor what was said of it.
LEMMA SameReview ==
    ASSUME findings' = findings, model' = model, comments' = comments, diff' = diff
    PROVE  /\ Truncated(Merged)' = Truncated(Merged) /\ FoundIn(diff)' = FoundIn(diff)
           /\ Validate(comments)' = Validate(comments) /\ Validate(model)' = Validate(model)
           /\ Unreadable(diff, ReadIn(diff))' = Unreadable(diff, ReadIn(diff))
  BY DEF Truncated, Merged, AsRemark, FoundIn, ReadIn, Validate, Unreadable

LEMMA QuietStep ==
    ASSUME ContentInv, pc' \in Stages, moved' \in BOOLEAN,
           fetched' = fetched \/ pc = "sandbox",
           fetched' \in {"none", "granted", "newer"},
           UNCHANGED <<diff, parsing, findings, model, comments, next, posted>>,
           \/ pc' = pc /\ fetched' = fetched
           \/ pc' = "failed"
           \/ pc = "sandbox" /\ pc' = "load" /\ fetched' = "granted"
           \/ pc = "execute" /\ pc' = "inline"
           \/ pc = "inline" /\ pc' = "summary"
           \/ pc = "summary" /\ pc' = "succeeded"
    PROVE  ContentInv'
<1>1. Typed' /\ GrantedIsFetched'
  <2>1. Typed'
    BY DEF ContentInv, Typed, parsing
  <2>2. GrantedIsFetched'
    BY DEF ContentInv, GrantedIsFetched
  <2> QED
    BY <2>1, <2>2
<1>2. ReadSoFar'
  BY DEF ContentInv, ReadSoFar, Parsing, parsing
<1>3. FoundAndMerged'
  BY SameReview DEF ContentInv, FoundAndMerged, Checked
<1> QED
  BY <1>1, <1>2, <1>3 DEF ContentInv

LEMMA LoadStep == ASSUME ContentInv, loadDiff PROVE ContentInv'
<1>1. diff \in Diff /\ Fetched = diff /\ diff' = diff
  BY ContentAssumption DEF ContentInv, Typed, GrantedIsFetched, Fetched, loadDiff
<1>2. lines' = Render(diff) /\ parsed' = NothingParsed
  BY <1>1 DEF loadDiff
<1>3. Parsing(lines', parsed')
  BY <1>1, <1>2, ParsingStarts
<1>4. Len(lines') \in Nat /\ lines' \in Seq(DiffLine)
  BY <1>3 DEF Parsing
<1>5. Typed'
  <2>1. parsed' \in ParseState
    BY <1>3 DEF Parsing
  <2> QED
    BY <2>1 DEF ContentInv, Typed, loadDiff, Stages
<1>6. GrantedIsFetched' /\ FoundAndMerged'
  BY SameReview DEF ContentInv, GrantedIsFetched, FoundAndMerged, Checked, loadDiff
<1>7. ReadSoFar'
  <2>1. PICK all : all = Render(diff)
    OBVIOUS
  <2>2. After(all)[0] = NothingParsed /\ Len(all) - Len(all) = 0 /\ 0 \in 0..Len(all)
    BY <1>2, <1>4, <2>1, AfterEachLine
  <2>3. \A j \in 1..Len(all) : all[j] = all[0 + j]
    BY <1>2, <1>4, <2>1
  <2> QED
    BY <1>1, <1>2, <1>3, <2>1, <2>2, <2>3 DEF ReadSoFar
<1> QED
  BY <1>5, <1>6, <1>7 DEF ContentInv

LEMMA ParseStep == ASSUME ContentInv, parseDiff PROVE ContentInv'
<1>1. PICK all : all = Render(diff)
  OBVIOUS
<1>2. PICK read : read = Len(all) - Len(lines)
  OBVIOUS
<1>3. /\ Parsing(lines, parsed) /\ lines # <<>> /\ pc = "parse" /\ diff' = diff
      /\ read \in 0..Len(all) /\ parsed = After(all)[read]
      /\ \A j \in 1..Len(lines) : lines[j] = all[read + j]
  BY <1>1, <1>2 DEF ContentInv, ReadSoFar, parseDiff
<1>4. parsed' = parseLine(parsed, Head(lines)) /\ lines' = Tail(lines)
  BY DEF parseDiff
<1>5. Parsing(lines', parsed')
  BY <1>3, <1>4, ParsingStep
<1>6. all \in Seq(DiffLine) /\ Len(all) \in Nat
  BY <1>1, ContentAssumption, DiffNumbered DEF ContentInv, Typed
<1>7. lines \in Seq(DiffLine)
  BY <1>3 DEF Parsing
<1>8. /\ Len(lines) \in Nat /\ Len(lines) > 0 /\ Len(lines') = Len(lines) - 1
      /\ Head(lines) = lines[1] /\ \A j \in 1..Len(lines') : lines'[j] = lines[j + 1]
  BY <1>3, <1>4, <1>7
<1>9. read + 1 \in 1..Len(all) /\ (read + 1) - 1 = read /\ Len(all) - Len(lines') = read + 1
  BY <1>2, <1>3, <1>6, <1>8
<1>10. Head(lines) = all[read + 1]
  BY <1>3, <1>8
<1>11. parsed' = After(all)[read + 1]
  BY <1>3, <1>4, <1>6, <1>9, <1>10, AfterEachLine
<1>12. ASSUME NEW j \in 1..Len(lines') PROVE lines'[j] = all[(read + 1) + j]
  <2>1. j + 1 \in 1..Len(lines) /\ read + (j + 1) = (read + 1) + j
    BY <1>3, <1>8
  <2> QED
    BY <1>3, <1>8, <2>1
<1>13. ReadSoFar'
  <2>1. read + 1 \in 0..Len(all)
    BY <1>9
  <2> QED
    BY <1>1, <1>3, <1>5, <1>9, <1>11, <1>12, <2>1 DEF ReadSoFar
<1>14. Typed'
  <2>1. parsed' \in ParseState
    BY <1>5 DEF Parsing
  <2> QED
    BY <2>1 DEF ContentInv, Typed, parseDiff
<1>15. GrantedIsFetched' /\ FoundAndMerged'
  BY SameReview DEF ContentInv, GrantedIsFetched, FoundAndMerged, Checked, parseDiff
<1> QED
  BY <1>13, <1>14, <1>15 DEF ContentInv

\* When no lines are left, the whole diff has been read.
LEMMA WholeDiffRead == ASSUME ContentInv, Checks PROVE parsed = Parsed(Render(diff))
<1>1. pc = "parse" /\ lines = <<>>
  BY DEF Checks
<1>2. Render(diff) \in Seq(DiffLine)
  BY ContentAssumption, DiffNumbered DEF ContentInv, Typed
<1>3. PICK all : all = Render(diff)
  OBVIOUS
<1>4. Len(all) \in Nat /\ Len(lines) = 0
  BY <1>1, <1>2, <1>3
<1>5. Len(all) - Len(lines) = Len(all)
  BY <1>4
<1>6. parsed = After(all)[Len(all) - Len(lines)]
  BY <1>1, <1>3 DEF ContentInv, ReadSoFar
<1> QED
  BY <1>3, <1>5, <1>6 DEF Parsed

LEMMA ChecksStep == ASSUME ContentInv, Checks PROVE ContentInv'
<1>1. CASE pc' = "failed" /\ UNCHANGED findings
  BY <1>1, QuietStep DEF Checks, parsing, ContentInv, Typed, Stages
<1>2. CASE /\ ~Unreadable(Fetched, Range(parsed.files)) /\ pc' = "agent"
           /\ findings' = All(Fetched, Range(parsed.files))
  <2>1. Fetched = diff /\ diff' = diff /\ pc = "parse" /\ lines = <<>>
    BY DEF ContentInv, GrantedIsFetched, Fetched, Checks
  <2>2. parsed = Parsed(Render(diff))
    BY WholeDiffRead
  <2>3. findings' = FoundIn(diff)
    BY <1>2, <2>1, <2>2 DEF FoundIn, ReadIn
  <2>4. findings' \in Seq(Findings)
    BY <1>2, <2>1, AllTyped DEF ContentInv, Typed
  <2>5. Typed' /\ GrantedIsFetched' /\ ReadSoFar'
    BY <1>2, <2>4 DEF ContentInv, Typed, GrantedIsFetched, ReadSoFar, Checks, Stages
  <2>6. /\ FoundIn(diff)' = FoundIn(diff)
        /\ Unreadable(diff, ReadIn(diff))' = Unreadable(diff, ReadIn(diff))
        /\ ~Unreadable(diff, ReadIn(diff))
    BY <1>2, <2>1, <2>2 DEF FoundIn, ReadIn, Unreadable
  <2>7. FoundAndMerged'
    BY <1>2, <2>1, <2>3, <2>6 DEF ContentInv, FoundAndMerged, Checks, Checked
  <2> QED
    BY <2>5, <2>7 DEF ContentInv
<1> QED
  BY <1>1, <1>2 DEF Checks

LEMMA AgentStep == ASSUME ContentInv, Agent PROVE ContentInv'
<1>1. CASE pc' = "failed" /\ UNCHANGED model
  BY <1>1, QuietStep DEF Agent, ContentInv, Typed, Stages
<1>2. ASSUME NEW r \in Reviews, Validate(r), model' = r, pc' = "merge" PROVE ContentInv'
  <2>1. r \in Seq(Remark)
    BY ContentAssumption
  <2>2. Typed' /\ GrantedIsFetched' /\ ReadSoFar'
    BY <1>2, <2>1 DEF ContentInv, Typed, GrantedIsFetched, ReadSoFar, Agent, Stages, parsing
  <2>3. /\ FoundIn(diff)' = FoundIn(diff) /\ pc = "agent" /\ comments' = comments /\ findings' = findings
        /\ Unreadable(diff, ReadIn(diff))' = Unreadable(diff, ReadIn(diff))
    BY DEF FoundIn, ReadIn, Unreadable, Agent
  <2>4. Validate(model)'
    BY <1>2 DEF Validate
  <2>5. FoundAndMerged'
    BY <1>2, <2>3, <2>4 DEF ContentInv, FoundAndMerged, Checked
  <2> QED
    BY <2>2, <2>5 DEF ContentInv
<1> QED
  BY <1>1, <1>2 DEF Agent

LEMMA MergeStep == ASSUME ContentInv, Merge PROVE ContentInv'
<1>1. /\ findings \in Seq(Findings) /\ model \in Seq(Remark) /\ Validate(model)
      /\ comments = <<>> /\ findings = FoundIn(diff) /\ ~Unreadable(diff, ReadIn(diff))
  BY DEF ContentInv, Typed, FoundAndMerged, Checked, Merge
<1>2. comments' = Truncated(Merged) /\ UNCHANGED <<findings, model, diff, next, posted>> /\ pc' = "execute"
  BY DEF Merge
<1>3. Truncated(Merged) \in Seq(Remark) /\ Validate(Truncated(Merged))
  BY <1>1, MergedElements, MergedAccepted
<1>4. Typed'
  <2>1. next = 0 /\ posted = {}
    BY <1>1 DEF ContentInv, Typed
  <2>2. 0 \in 0..Len(comments')
    BY <1>2, <1>3
  <2> QED
    BY <1>2, <1>3, <2>1, <2>2 DEF ContentInv, Typed, Merge, Stages, parsing
<1>5. /\ Truncated(Merged)' = Truncated(Merged) /\ FoundIn(diff)' = FoundIn(diff)
      /\ Unreadable(diff, ReadIn(diff))' = Unreadable(diff, ReadIn(diff))
  BY <1>2 DEF Truncated, Merged, AsRemark, FoundIn, ReadIn, Unreadable
<1>6. Validate(comments)'
  BY <1>2, <1>3 DEF Validate
<1>7. GrantedIsFetched' /\ ReadSoFar'
  BY <1>2 DEF ContentInv, GrantedIsFetched, ReadSoFar, Merge
<1>8. FoundAndMerged'
  BY <1>1, <1>2, <1>5, <1>6 DEF FoundAndMerged, Checked
<1> QED
  BY <1>4, <1>7, <1>8 DEF ContentInv

LEMMA PostStep == ASSUME ContentInv, PostInline PROVE ContentInv'
<1>1. /\ next \in 0..Len(comments) /\ posted \subseteq 1..next /\ next < Len(comments) /\ Len(comments) \in Nat
      /\ next' = next + 1 /\ (posted' = posted \cup {next + 1} \/ posted' = posted)
  BY DEF ContentInv, Typed, PostInline
<1>2. next' \in 0..Len(comments) /\ posted' \subseteq 1..next'
  <2>1. next' \in 0..Len(comments) /\ next + 1 \in 1..next' /\ 1..next \subseteq 1..next'
    BY <1>1
  <2> QED
    BY <1>1, <2>1
<1>3. Typed'
  BY <1>2 DEF ContentInv, Typed, PostInline, parsing
<1>4. GrantedIsFetched' /\ ReadSoFar'
  BY DEF ContentInv, GrantedIsFetched, ReadSoFar, PostInline
<1>5. FoundAndMerged'
  BY SameReview DEF ContentInv, FoundAndMerged, Checked, PostInline
<1> QED
  BY <1>3, <1>4, <1>5 DEF ContentInv

\* Every step keeps the invariant.
LEMMA ContentStep == ContentInv /\ [Next]_vars => ContentInv'
<1> SUFFICES ASSUME ContentInv, [Next]_vars PROVE ContentInv'
  OBVIOUS
<1>0. pc \in Stages /\ moved \in BOOLEAN /\ fetched \in {"none", "granted", "newer"}
  BY DEF ContentInv, Typed
<1>1. CASE Sandbox
  BY <1>0, <1>1, QuietStep DEF Sandbox, Stages
<1>2. CASE loadDiff
  BY <1>2, LoadStep
<1>3. CASE parseDiff
  BY <1>3, ParseStep
<1>4. CASE Checks
  BY <1>4, ChecksStep
<1>5. CASE Agent
  BY <1>5, AgentStep
<1>6. CASE Merge
  BY <1>6, MergeStep
<1>7. CASE Execute
  BY <1>0, <1>7, QuietStep DEF Execute, Stages
<1>8. CASE PostInline
  BY <1>8, PostStep
<1>9. CASE InlineDone
  BY <1>0, <1>9, QuietStep DEF InlineDone, Stages
<1>10. CASE Summarise
  BY <1>0, <1>10, QuietStep DEF Summarise, Stages
<1>11. CASE Fail
  BY <1>0, <1>11, QuietStep DEF Fail, Stages
<1>12. CASE Push
  BY <1>0, <1>12, QuietStep DEF Push
<1>13. CASE UNCHANGED vars
  <2>1. /\ UNCHANGED <<diff, parsing, findings, model, comments, next, posted>>
        /\ pc' = pc /\ fetched' = fetched /\ moved' = moved
    BY <1>13 DEF vars, parsing
  <2>2. pc' \in Stages /\ moved' \in BOOLEAN /\ fetched' \in {"none", "granted", "newer"}
    BY <1>0, <2>1
  <2> QED
    BY <2>1, <2>2, QuietStep
<1> QED
  BY <1>1, <1>2, <1>3, <1>4, <1>5, <1>6, <1>7, <1>8, <1>9, <1>10, <1>11, <1>12, <1>13
  DEF Next, Pipeline

LEMMA ContentInvariant == Spec => []ContentInv
  BY InitContent, ContentStep, PTL DEF Spec

-----------------------------------------------------------------------------
(* The theorems *)

\* Types, of what parseDiff reads and what the checks find among others: a finding has a
\* file and a line.
THEOREM ContentTypeCorrect == Spec => []TypeOK
<1>1. ContentInv => TypeOK
  <2> SUFFICES ASSUME ContentInv PROVE TypeOK
    OBVIOUS
  <2>1. parsed.newLine \in Nat /\ parsed.files \in Seq(ParsedFile)
    BY DEF ContentInv, Typed, ParseState
  <2>2. \A f \in Range(parsed.files) : f.path \in Nat
    <3>1. Range(parsed.files) \in SUBSET ParsedFile
      BY <2>1, RangeFinite
    <3> QED
      BY <3>1 DEF ParsedFile
  <2>3. Range(findings) \in SUBSET Findings
    BY RangeFinite DEF ContentInv, Typed
  <2>4. \A f \in Range(findings) : f.rule \in DOMAIN Rank /\ f.path \in Nat /\ f.line \in Nat \ {0}
    BY <2>3, RankFacts DEF Findings
  <2> QED
    BY <2>1, <2>2, <2>4 DEF ContentInv, Typed, TypeOK, Stages
<1> QED
  BY <1>1, ContentInvariant, PTL

\* The executor's validation accepts every review the pipeline has merged.
THEOREM MergedReviewsAreAccepted == Spec => []MergedReviewIsAccepted
<1>1. ContentInv => MergedReviewIsAccepted
  BY DEF ContentInv, FoundAndMerged, MergedReviewIsAccepted
<1> QED
  BY <1>1, ContentInvariant, PTL

\* What is posted as verified was found in the granted commit, whatever was pushed since.
THEOREM VerifiedRemarksAreFound == Spec => []VerifiedIsFoundInGrantedCommit
<1>1. ContentInv => VerifiedIsFoundInGrantedCommit
  <2> SUFFICES ASSUME ContentInv, NEW i \in posted, comments[i].verified
               PROVE  /\ comments[i].origin \in 1..Len(FoundIn(diff))
                      /\ comments[i].path = FoundIn(diff)[comments[i].origin].path
                      /\ comments[i].line = FoundIn(diff)[comments[i].origin].line
    BY DEF VerifiedIsFoundInGrantedCommit, FoundIn, ReadIn
  <2>1. findings \in Seq(Findings) /\ model \in Seq(Remark) /\ comments \in Seq(Remark) /\ i \in 1..Len(comments)
    BY DEF ContentInv, Typed
  <2>2. comments = Truncated(Merged) /\ findings = FoundIn(diff)
    BY <2>1 DEF ContentInv, FoundAndMerged
  <2>3. comments[i] = IF i <= Len(findings) THEN AsRemark(i) ELSE AsOpinion(model[i - Len(findings)])
    BY <2>1, <2>2, MergedElements
  <2>4. CASE i <= Len(findings)
    BY <2>1, <2>2, <2>3, <2>4 DEF AsRemark
  <2>5. CASE ~(i <= Len(findings))
    <3>1. i - Len(findings) \in 1..Len(model)
      BY <2>1, <2>2, <2>5, MergedElements
    <3>2. model[i - Len(findings)] \in Remark
      BY <2>1, <3>1, ElementTyped
    <3>3. ~AsOpinion(model[i - Len(findings)]).verified
      BY <3>2 DEF AsOpinion, Remark
    <3> QED
      BY <2>3, <2>5, <3>3
  <2> QED
    BY <2>4, <2>5
<1> QED
  BY <1>1, ContentInvariant, PTL

\* If a review has room for an opinion it has all the findings.
THEOREM FindingsComeFirst == Spec => []FindingsOutrankOpinions
<1>1. ContentInv => FindingsOutrankOpinions
  <2> SUFFICES ASSUME ContentInv, pc = "execute", NEW i \in 1..Len(comments), ~comments[i].verified,
                      NEW k \in 1..Len(findings)
               PROVE  \E j \in 1..Len(comments) : comments[j].origin = k
    BY DEF FindingsOutrankOpinions
  <2>1. /\ findings \in Seq(Findings) /\ model \in Seq(Remark) /\ comments \in Seq(Remark)
        /\ comments = Truncated(Merged)
    BY DEF ContentInv, Typed, FoundAndMerged
  <2>2. \A j \in 1..Len(comments) :
          comments[j] = IF j <= Len(findings) THEN AsRemark(j) ELSE AsOpinion(model[j - Len(findings)])
    BY <2>1, MergedElements
  <2>3. \A j : AsRemark(j).verified /\ AsRemark(j).origin = j
    BY DEF AsRemark
  <2>4. ~(i <= Len(findings))
    BY <2>2, <2>3
  <2>5. k \in 1..Len(comments) /\ k <= Len(findings)
    BY <2>1, <2>4
  <2>6. comments[k] = AsRemark(k)
    BY <2>2, <2>5
  <2> QED
    BY <2>3, <2>5, <2>6
<1> QED
  BY <1>1, ContentInvariant, PTL

-----------------------------------------------------------------------------
(* Part two: secrets are found in place.  What parseDiff makes of each part of the patch. *)

\* Reading the lines ls takes parseDiff's loop from s to t.
Reads(s, ls, t) ==
    \E st : /\ st[0] = s /\ st[Len(ls)] = t
            /\ \A k \in 1..Len(ls) : st[k] = parseLine(st[k - 1], ls[k])

\* The same, part by part.
ReadsEach(s, ss, t) ==
    \E u : /\ u[0] = s /\ u[Len(ss)] = t
           /\ \A i \in 1..Len(ss) : Reads(u[i - 1], ss[i], u[i])

LEMMA ReadsOne ==
    ASSUME NEW s, NEW l, NEW t, Reads(s, <<l>>, t)
    PROVE  t = parseLine(s, l)
<1>1. PICK st : /\ st[0] = s /\ st[Len(<<l>>)] = t
                /\ \A k \in 1..Len(<<l>>) : st[k] = parseLine(st[k - 1], <<l>>[k])
  BY DEF Reads
<1>2. Len(<<l>>) = 1 /\ <<l>>[1] = l /\ 1 - 1 = 0 /\ 1 \in 1..1
  OBVIOUS
<1>3. st[1] = t /\ st[1] = parseLine(st[0], l)
  BY <1>1, <1>2
<1> QED
  BY <1>1, <1>3

LEMMA ReadsNothing ==
    ASSUME NEW s, NEW t, Reads(s, <<>>, t)
    PROVE  t = s
  BY DEF Reads

LEMMA ReadsConcatenation ==
    ASSUME NEW a \in Seq(DiffLine), NEW b \in Seq(DiffLine), NEW s, NEW t, Reads(s, a \o b, t)
    PROVE  \E u : Reads(s, a, u) /\ Reads(u, b, t)
<1>1. PICK c : c = a \o b
  OBVIOUS
<1>2. PICK n \in Nat, m \in Nat : n = Len(a) /\ m = Len(b)
  OBVIOUS
<1>3. /\ Len(c) = n + m
      /\ \A k \in 1..n : c[k] = a[k]
      /\ \A k \in 1..m : c[n + k] = b[k]
  BY <1>1, <1>2
<1>4. PICK st : /\ st[0] = s /\ st[Len(c)] = t
                /\ \A k \in 1..Len(c) : st[k] = parseLine(st[k - 1], c[k])
  BY <1>1 DEF Reads
<1>5. Reads(s, a, st[n])
  <2>1. \A k \in 1..n : k \in 1..(n + m)
    OBVIOUS
  <2>2. \A k \in 1..n : st[k] = parseLine(st[k - 1], a[k])
    BY <1>3, <1>4, <2>1
  <2> QED
    BY <1>2, <1>4, <2>2 DEF Reads
<1>6. Reads(st[n], b, t)
  <2> DEFINE su == [k \in 0..m |-> st[n + k]]
  <2>1. su[0] = st[n] /\ su[m] = t
    BY <1>3, <1>4
  <2>2. ASSUME NEW k \in 1..m PROVE su[k] = parseLine(su[k - 1], b[k])
    <3>1. n + k \in 1..(n + m) /\ k \in 0..m /\ k - 1 \in 0..m /\ n + (k - 1) = (n + k) - 1
      OBVIOUS
    <3>2. su[k] = st[n + k] /\ su[k - 1] = st[(n + k) - 1]
      BY <3>1
    <3>3. st[n + k] = parseLine(st[(n + k) - 1], c[n + k]) /\ c[n + k] = b[k]
      BY <1>3, <1>4, <3>1
    <3> QED
      BY <3>2, <3>3
  <2>3. \E f : f = su
    OBVIOUS
  <2> HIDE DEF su
  <2> QED
    BY <1>2, <2>1, <2>2, <2>3 DEF Reads
<1> QED
  BY <1>5, <1>6

LEMMA ReadsParts ==
    ASSUME NEW ss \in Seq(Seq(DiffLine)), NEW f, Concatenates(f, ss, Len(ss)), ss # <<>>,
           NEW s, NEW t, Reads(s, f[Len(ss)], t)
    PROVE  ReadsEach(s, ss, t)
<1> DEFINE Holds(n, x) == \E u : /\ u[0] = s /\ u[n] = x
                                 /\ \A i \in 1..n : Reads(u[i - 1], ss[i], u[i])
<1>1. PICK N \in Nat : Len(ss) = N + 1
  <2>1. Len(ss) \in Nat /\ Len(ss) # 0
    OBVIOUS
  <2>2. Len(ss) - 1 \in Nat /\ Len(ss) = (Len(ss) - 1) + 1
    BY <2>1
  <2> QED
    BY <2>2
<1> DEFINE S == {k \in 0..N : \A x : Reads(s, f[k + 1], x) => Holds(k + 1, x)}
<1>2. 0 \in S
  <2>1. f[1] = ss[1] /\ 1 \in 1..Len(ss)
    BY <1>1 DEF Concatenates
  <2>2. ASSUME NEW x, Reads(s, ss[1], x) PROVE Holds(1, x)
    <3> DEFINE u == [i \in 0..1 |-> IF i = 0 THEN s ELSE x]
    <3>1. u[0] = s /\ u[1] = x /\ \A i \in 1..1 : i = 1 /\ i - 1 = 0
      OBVIOUS
    <3>2. \A i \in 1..1 : Reads(u[i - 1], ss[i], u[i])
      <4> HIDE DEF u
      <4> QED
        BY <2>2, <3>1
    <3>3. \E v : v = u
      OBVIOUS
    <3> HIDE DEF u
    <3> QED
      BY <3>1, <3>2, <3>3
  <2>3. 0 \in 0..N /\ 0 + 1 = 1
    OBVIOUS
  <2> HIDE DEF Holds
  <2> QED
    BY <2>1, <2>2, <2>3
<1>3. ASSUME NEW k \in 0..(N - 1), k \in S PROVE k + 1 \in S
  <2>1. /\ k + 1 \in 0..N /\ k + 1 \in 1..Len(ss) /\ k + 2 \in 1..Len(ss)
        /\ (k + 1) + 1 = k + 2 /\ (k + 2) - 1 = k + 1 /\ k + 2 # 1 /\ k \in Nat
    BY <1>1
  <2>2. f[k + 2] = f[k + 1] \o ss[k + 2]
    BY <2>1 DEF Concatenates
  <2>3. f[k + 1] \in Seq(DiffLine) /\ ss[k + 2] \in Seq(DiffLine)
    BY <2>1, ConcatenationContains, ElementTyped
  <2>4. ASSUME NEW x, Reads(s, f[k + 2], x) PROVE Holds(k + 2, x)
    <3>1. PICK y : Reads(s, f[k + 1], y) /\ Reads(y, ss[k + 2], x)
      BY <2>2, <2>3, <2>4, ReadsConcatenation
    <3>2. Holds(k + 1, y)
      BY <1>3, <3>1
    <3>3. PICK u : u[0] = s /\ u[k + 1] = y /\ \A i \in 1..(k + 1) : Reads(u[i - 1], ss[i], u[i])
      BY <3>2
    <3> DEFINE v == [i \in 0..(k + 2) |-> IF i = k + 2 THEN x ELSE u[i]]
    <3>4. v[0] = s /\ v[k + 2] = x
      BY <2>1, <3>3
    <3>5. ASSUME NEW i \in 1..(k + 2) PROVE Reads(v[i - 1], ss[i], v[i])
      <4>1. CASE i = k + 2
        <5>1. v[i - 1] = u[k + 1] /\ v[i] = x
          BY <2>1, <4>1
        <5> QED
          BY <3>1, <3>3, <4>1, <5>1
      <4>2. CASE i # k + 2
        <5>1. i \in 1..(k + 1) /\ v[i - 1] = u[i - 1] /\ v[i] = u[i]
          BY <2>1, <4>2
        <5> QED
          BY <3>3, <5>1
      <4> QED
        BY <4>1, <4>2
    <3>6. \E w : w = v
      OBVIOUS
    <3> HIDE DEF v
    <3> QED
      BY <3>4, <3>5, <3>6
  <2> HIDE DEF Holds
  <2> QED
    BY <2>1, <2>4
<1> HIDE DEF Holds
<1>4. \A k \in S : \A x : Reads(s, f[k + 1], x) => Holds(k + 1, x)
  OBVIOUS
<1> HIDE DEF S
<1>5. N \in S
  <2>1. N \in 0..N /\ \A k \in 0..(N - 1) : k \in S => k + 1 \in S
    BY <1>3
  <2>2. \A k \in 0..N : k \in S
    BY <1>2, <2>1, Successors, Zenon
  <2> QED
    BY <2>1, <2>2
<1>6. Holds(Len(ss), t)
  BY <1>1, <1>4, <1>5
<1> QED
  BY <1>6 DEF Holds, ReadsEach

LEMMA ReadsFlatten ==
    ASSUME NEW ss \in Seq(Seq(DiffLine)), NEW s, NEW t, Reads(s, FlattenSeq(ss), t)
    PROVE  ReadsEach(s, ss, t)
<1>1. CASE ss = <<>>
  <2>1. t = s
    BY <1>1, ReadsNothing DEF FlattenSeq
  <2> DEFINE u == [i \in 0..0 |-> s]
  <2>2. u[0] = s /\ Len(ss) = 0
    BY <1>1
  <2>3. \E v : v = u
    OBVIOUS
  <2> HIDE DEF u
  <2> QED
    BY <2>1, <2>2, <2>3 DEF ReadsEach
<1>2. CASE ss # <<>>
  <2>1. PICK f : Concatenates(f, ss, Len(ss)) /\ FlattenSeq(ss) = f[Len(ss)]
    BY <1>2, FlattenIsLast
  <2>2. Concatenates(f, ss, Len(ss))
    BY <2>1
  <2>3. Reads(s, f[Len(ss)], t)
    BY <2>1
  <2> QED
    BY <1>2, <2>2, <2>3, ReadsParts
<1> QED
  BY <1>1, <1>2

RawFile == [path : Nat, added : Seq([line : Nat, text : Content])]
RawState == [files : Seq(RawFile), newLine : Nat]

\* The file being read, and the lines added to it.
Current(s) == s.files[Len(s.files)]
Marks(s) == Range(Current(s).added)

Reading(s) == s \in RawState /\ s.files # <<>>

\* The files before the one being read, and their number.
SameBefore(s, t) ==
    /\ Len(t.files) = Len(s.files)
    /\ \A j \in 1..(Len(s.files) - 1) : t.files[j] = s.files[j]

LEMMA LastReplaced ==
    ASSUME NEW S, NEW fs \in Seq(S), fs # <<>>, NEW x \in S
    PROVE  LET n == Len(fs)
               gs == [fs EXCEPT ![n] = x]
           IN  /\ gs \in Seq(S) /\ gs # <<>> /\ Len(gs) = n /\ gs[n] = x
               /\ \A j \in 1..(n - 1) : gs[j] = fs[j]
<1>1. PICK n \in Nat : n = Len(fs)
  OBVIOUS
<1>2. n # 0 /\ n \in 1..n /\ fs \in [1..n -> S]
  BY <1>1
<1> DEFINE gs == [fs EXCEPT ![n] = x]
<1>3. gs \in [1..n -> S] /\ gs[n] = x /\ \A j \in 1..(n - 1) : gs[j] = fs[j]
  BY <1>2
<1> HIDE DEF gs
<1>4. gs \in Seq(S) /\ Len(gs) = n
  BY <1>3
<1>5. gs # <<>>
  BY <1>2, <1>4
<1> QED
  BY <1>1, <1>3, <1>4, <1>5 DEF gs

LEMMA MarkAdded ==
    ASSUME NEW S, NEW a \in Seq(S), NEW x \in S
    PROVE  Append(a, x) \in Seq(S) /\ Range(Append(a, x)) = Range(a) \cup {x}
<1>1. PICK b : b = Append(a, x)
  OBVIOUS
<1>2. PICK n \in Nat : n = Len(a)
  OBVIOUS
<1>3. /\ b \in Seq(S) /\ Len(b) = n + 1 /\ DOMAIN b = 1..(n + 1) /\ DOMAIN a = 1..n
      /\ \A j \in 1..n : b[j] = a[j]
      /\ b[n + 1] = x
  BY <1>1, <1>2
<1>4. \A j \in 1..(n + 1) : j \in 1..n \/ j = n + 1
  OBVIOUS
<1>5. n + 1 \in 1..(n + 1) /\ \A j \in 1..n : j \in 1..(n + 1)
  OBVIOUS
<1>6. \A y \in Range(b) : y \in Range(a) \cup {x}
  BY <1>3, <1>4 DEF Range
<1>7. \A y \in Range(a) \cup {x} : y \in Range(b)
  BY <1>3, <1>5 DEF Range
<1> QED
  BY <1>1, <1>3, <1>6, <1>7

\* What a line that is no file header does to the file being read.
LEMMA LineRead ==
    ASSUME NEW s, Reading(s), NEW l \in DiffLine, l.t # "file"
    PROVE  LET t == parseLine(s, l) IN
           /\ Reading(t) /\ SameBefore(s, t)
           /\ l.t = "path" => /\ Current(t).path = l.n /\ Marks(t) = Marks(s)
                              /\ t.newLine = s.newLine
           /\ l.t = "hunk" => Current(t) = Current(s) /\ t.newLine = l.n
           /\ l.t \in Content => /\ Current(t).path = Current(s).path
                                 /\ Marks(t) = Marks(s) \cup {[line |-> s.newLine, text |-> l.t]}
                                 /\ t.newLine = s.newLine + 1
           /\ l.t = "del" => Current(t) = Current(s) /\ t.newLine = s.newLine
           /\ l.t = "other" => Current(t) = Current(s)
<1> DEFINE n == Len(s.files)
           cur == Current(s)
           t == parseLine(s, l)
<1>1. /\ s.files \in Seq(RawFile) /\ s.files # <<>> /\ s.newLine \in Nat /\ l.n \in Nat
      /\ l.t \in {"path", "hunk", "del", "other"} \cup Content
  BY DEF Reading, RawState, DiffLine, LineKinds
<1>2. n \in Nat /\ n # 0 /\ n \in 1..n /\ cur = s.files[n] /\ cur \in RawFile
  BY <1>1 DEF Current
<1>3. cur.path \in Nat /\ cur.added \in Seq([line : Nat, text : Content])
  BY <1>2 DEF RawFile
<1>4. t = parseInFile(s, l)
  BY <1>1 DEF parseLine
<1>5. CASE l.t = "path"
  <2> DEFINE x == [cur EXCEPT !.path = l.n]
             fs == [s.files EXCEPT ![n] = x]
  <2>1. t = [s EXCEPT !.files = fs]
    BY <1>2, <1>4, <1>5 DEF parseInFile
  <2>2. x \in RawFile /\ x.path = l.n /\ x.added = cur.added
    BY <1>1, <1>2 DEF RawFile
  <2> HIDE DEF x
  <2>3. /\ fs \in Seq(RawFile) /\ fs # <<>> /\ Len(fs) = n /\ fs[n] = x
        /\ \A j \in 1..(n - 1) : fs[j] = s.files[j]
    BY <1>1, <2>2, LastReplaced
  <2> HIDE DEF fs
  <2>4. t.files = fs /\ t.newLine = s.newLine /\ t \in RawState
    BY <2>1, <2>3 DEF Reading, RawState
  <2> QED
    BY <1>5, <2>2, <2>3, <2>4 DEF Reading, SameBefore, Current, Marks, Content
<1>6. CASE l.t = "hunk"
  <2>1. t = [s EXCEPT !.newLine = l.n]
    BY <1>4, <1>6 DEF parseInFile
  <2>2. t.files = s.files /\ t.newLine = l.n /\ t \in RawState
    BY <1>1, <2>1 DEF Reading, RawState
  <2> QED
    BY <1>1, <1>6, <2>2 DEF Reading, SameBefore, Current, Marks, Content
<1>7. CASE l.t \in Content
  <2> DEFINE e == [line |-> s.newLine, text |-> l.t]
             x == [cur EXCEPT !.added = Append(cur.added, e)]
             fs == [s.files EXCEPT ![n] = x]
  <2>1. t = [s EXCEPT !.files = fs, !.newLine = s.newLine + 1]
    BY <1>2, <1>4, <1>7 DEF parseInFile, Content
  <2>2. e \in [line : Nat, text : Content]
    BY <1>1, <1>7
  <2> HIDE DEF e
  <2>3. /\ Append(cur.added, e) \in Seq([line : Nat, text : Content])
        /\ Range(Append(cur.added, e)) = Range(cur.added) \cup {e}
    <3> DEFINE T == [line : Nat, text : Content]
    <3>1. e \in T /\ cur.added \in Seq(T)
      BY <1>3, <2>2
    <3> HIDE DEF T
    <3>2. PICK a : a = cur.added
      OBVIOUS
    <3>3. Append(a, e) \in Seq(T) /\ Range(Append(a, e)) = Range(a) \cup {e}
      BY <3>1, <3>2, MarkAdded
    <3> QED
      BY <3>2, <3>3 DEF T
  <2>4. x \in RawFile /\ x.path = cur.path /\ x.added = Append(cur.added, e)
    BY <1>2, <2>3 DEF RawFile
  <2> HIDE DEF x
  <2>5. /\ fs \in Seq(RawFile) /\ fs # <<>> /\ Len(fs) = n /\ fs[n] = x
        /\ \A j \in 1..(n - 1) : fs[j] = s.files[j]
    BY <1>1, <2>4, LastReplaced
  <2> HIDE DEF fs
  <2>6. t.files = fs /\ t.newLine = s.newLine + 1 /\ t \in RawState
    <3>1. s = [files |-> s.files, newLine |-> s.newLine] /\ s.newLine + 1 \in Nat
      BY <1>1 DEF Reading, RawState
    <3>2. t = [files |-> fs, newLine |-> s.newLine + 1]
      BY <2>1, <3>1
    <3> HIDE DEF t
    <3> QED
      BY <2>5, <3>1, <3>2 DEF RawState
  <2>7. Reading(t) /\ SameBefore(s, t)
    BY <2>5, <2>6 DEF Reading, SameBefore
  <2>8. Current(t) = x /\ Marks(t) = Marks(s) \cup {e}
    BY <2>3, <2>4, <2>5, <2>6 DEF Current, Marks
  <2> QED
    BY <1>7, <2>4, <2>6, <2>7, <2>8 DEF Content, e
<1>8. CASE l.t \in {"del", "other"}
  <2>1. t = [s EXCEPT !.newLine = IF Advances(l.t) /\ @ > 0 THEN @ + 1 ELSE @]
    BY <1>4, <1>8 DEF parseInFile
  <2>2. t.files = s.files /\ t.newLine \in Nat /\ t \in RawState
    BY <1>1, <2>1 DEF Reading, RawState
  <2>3. l.t = "del" => t.newLine = s.newLine
    BY <1>1, <2>1 DEF Advances, Reading, RawState
  <2> QED
    BY <1>1, <1>8, <2>2, <2>3 DEF Reading, SameBefore, Current, Marks, Content
<1> QED
  BY <1>1, <1>5, <1>6, <1>7, <1>8

LEMMA SameBeforeTransitive ==
    ASSUME NEW s, NEW t, NEW u, SameBefore(s, t), SameBefore(t, u)
    PROVE  SameBefore(s, u)
  BY DEF SameBefore

\* Deleted lines leave everything as it is.
LEMMA DeletionsRead ==
    ASSUME NEW n \in Nat, NEW s, Reading(s), NEW t, Reads(s, [i \in 1..n |-> Line("del", 0)], t)
    PROVE  Reading(t) /\ SameBefore(s, t) /\ Current(t) = Current(s) /\ t.newLine = s.newLine
<1> DEFINE ls == [i \in 1..n |-> Line("del", 0)]
           Still(x) == /\ Reading(x) /\ SameBefore(s, x)
                       /\ Current(x) = Current(s) /\ x.newLine = s.newLine
<1>1. PICK st : /\ st[0] = s /\ st[Len(ls)] = t
                /\ \A k \in 1..Len(ls) : st[k] = parseLine(st[k - 1], ls[k])
  BY DEF Reads
<1>2. Len(ls) = n /\ \A k \in 1..n : ls[k] = Line("del", 0)
  OBVIOUS
<1>3. Line("del", 0) \in DiffLine /\ Line("del", 0).t = "del"
  BY LinesTyped DEF LineKinds
<1> HIDE DEF ls
<1> DEFINE S == {k \in 0..n : Still(st[k])}
<1>4. 0 \in S
  BY <1>1 DEF SameBefore
<1>5. ASSUME NEW k \in 0..(n - 1), k \in S PROVE k + 1 \in S
  <2>1. k + 1 \in 1..n /\ k + 1 \in 0..n /\ (k + 1) - 1 = k
    OBVIOUS
  <2>2. st[k + 1] = parseLine(st[k], Line("del", 0))
    BY <1>1, <1>2, <2>1
  <2>3. Still(st[k])
    BY <1>5
  <2>4. /\ Reading(st[k + 1]) /\ SameBefore(st[k], st[k + 1])
        /\ Current(st[k + 1]) = Current(st[k]) /\ st[k + 1].newLine = st[k].newLine
    BY <1>3, <2>2, <2>3, LineRead
  <2>5. SameBefore(s, st[k + 1])
    BY <2>3, <2>4, SameBeforeTransitive
  <2> QED
    BY <2>1, <2>3, <2>4, <2>5
<1>6. \A k \in S : Still(st[k])
  OBVIOUS
<1> HIDE DEF S, Still
<1>7. n \in 0..n /\ \A k \in 0..(n - 1) : k \in S => k + 1 \in S
  BY <1>5
<1>8. \A k \in 0..n : k \in S
  BY <1>4, <1>7, Successors, Zenon
<1>9. Still(t)
  BY <1>1, <1>2, <1>6, <1>7, <1>8
<1> QED
  BY <1>9 DEF Still

\* A marker at most advances the number.
LEMMA MarkerRead ==
    ASSUME NEW b \in BOOLEAN, NEW s, Reading(s), NEW t, Reads(s, Marker(b), t)
    PROVE  /\ Reading(t) /\ SameBefore(s, t) /\ Current(t) = Current(s)
           /\ ~b => t.newLine = s.newLine
<1>1. CASE b
  <2>1. PICK l : l = Line("other", 0)
    OBVIOUS
  <2>2. l \in DiffLine /\ l.t = "other"
    BY <2>1, LinesTyped DEF LineKinds
  <2>3. Reads(s, <<l>>, t)
    BY <1>1, <2>1 DEF Marker
  <2>4. t = parseLine(s, l)
    BY <2>3, ReadsOne
  <2> QED
    BY <1>1, <2>2, <2>4, LineRead
<1>2. CASE ~b
  <2>1. t = s
    BY <1>2, ReadsNothing DEF Marker
  <2> QED
    BY <2>1 DEF SameBefore
<1> QED
  BY <1>1, <1>2

\* The first k texts, numbered from n.
Numbering(n, texts, k) == {[line |-> n + i - 1, text |-> texts[i]] : i \in 1..k}

PlainAdds(texts) == \A i \in 1..Len(texts) : texts[i] \notin {"plus", "header"}

\* An added text: marked if it is plain, a new name for the file if it looks like a header.
LEMMA AdditionRead ==
    ASSUME NEW text \in Texts, NEW s, Reading(s)
    PROVE  LET t == parseLine(s, Added(text)) IN
           /\ Reading(t) /\ SameBefore(s, t)
           /\ Current(t).path \in {Current(s).path, SomePath}
           /\ text \notin {"plus", "header"} =>
                /\ Current(t).path = Current(s).path
                /\ Marks(t) = Marks(s) \cup {[line |-> s.newLine, text |-> text]}
                /\ t.newLine = s.newLine + 1
<1> DEFINE l == Added(text)
           t == parseLine(s, l)
<1>1. l \in DiffLine /\ l.t \notin Breaks
  BY AddedTyped
<1>2. l.t # "file"
  BY <1>1 DEF Breaks
<1>3. /\ text = "plus" => l.t = "other"
      /\ text = "header" => l.t = "path" /\ l.n = SomePath
      /\ text \in Content => l.t = text
  BY DEF Added, Content
<1>4. text \in Content \/ text = "plus" \/ text = "header"
  BY DEF Texts, Content
<1>5. "plus" \notin Content /\ "header" \notin Content
  BY DEF Content
<1> HIDE DEF l
<1>6. /\ Reading(t) /\ SameBefore(s, t)
      /\ l.t = "path" => Current(t).path = l.n
      /\ l.t \in Content => /\ Current(t).path = Current(s).path
                            /\ Marks(t) = Marks(s) \cup {[line |-> s.newLine, text |-> l.t]}
                            /\ t.newLine = s.newLine + 1
      /\ l.t = "other" => Current(t) = Current(s)
  BY <1>1, <1>2, LineRead
<1> HIDE DEF t
<1>7. Current(t).path \in {Current(s).path, SomePath}
  BY <1>3, <1>4, <1>6
<1>8. text \notin {"plus", "header"} =>
        /\ Current(t).path = Current(s).path
        /\ Marks(t) = Marks(s) \cup {[line |-> s.newLine, text |-> text]}
        /\ t.newLine = s.newLine + 1
  BY <1>3, <1>4, <1>6
<1> QED
  BY <1>6, <1>7, <1>8 DEF t, l

LEMMA AdditionsRead ==
    ASSUME NEW texts \in Seq(Texts), NEW s, Reading(s), NEW t,
           Reads(s, [i \in 1..Len(texts) |-> Added(texts[i])], t)
    PROVE  /\ Reading(t) /\ SameBefore(s, t)
           /\ Current(t).path \in {Current(s).path, SomePath}
           /\ PlainAdds(texts) =>
                /\ Current(t).path = Current(s).path
                /\ Marks(t) = Marks(s) \cup Numbering(s.newLine, texts, Len(texts))
<1> DEFINE ls == [i \in 1..Len(texts) |-> Added(texts[i])]
           Good(k, x) ==
             /\ Reading(x) /\ SameBefore(s, x)
             /\ Current(x).path \in {Current(s).path, SomePath}
             /\ PlainAdds(texts) =>
                  /\ Current(x).path = Current(s).path
                  /\ Marks(x) = Marks(s) \cup Numbering(s.newLine, texts, k)
                  /\ x.newLine = s.newLine + k
<1>1. PICK st : /\ st[0] = s /\ st[Len(ls)] = t
                /\ \A k \in 1..Len(ls) : st[k] = parseLine(st[k - 1], ls[k])
  BY DEF Reads
<1>2. PICK n \in Nat : n = Len(texts)
  OBVIOUS
<1>3. Len(ls) = n /\ \A k \in 1..n : ls[k] = Added(texts[k]) /\ texts[k] \in Texts
  BY <1>2
<1>4. s.newLine \in Nat
  BY DEF Reading, RawState
<1> HIDE DEF ls
<1> DEFINE S == {k \in 0..n : Good(k, st[k])}
<1>5. 0 \in S
  <2>1. Numbering(s.newLine, texts, 0) = {}
    BY DEF Numbering
  <2>2. Good(0, s)
    BY <1>4, <2>1 DEF SameBefore
  <2> HIDE DEF Good
  <2> QED
    BY <1>1, <2>2
<1>6. ASSUME NEW k \in 0..(n - 1), k \in S PROVE k + 1 \in S
  <2>1. k + 1 \in 1..n /\ k + 1 \in 0..n /\ (k + 1) - 1 = k /\ k \in Nat
    OBVIOUS
  <2>2. st[k + 1] = parseLine(st[k], Added(texts[k + 1])) /\ texts[k + 1] \in Texts
    BY <1>1, <1>3, <2>1
  <2>3. Good(k, st[k])
    BY <1>6
  <2> DEFINE x == st[k]
             y == st[k + 1]
             w == texts[k + 1]
  <2>4. y = parseLine(x, Added(w)) /\ w \in Texts
    BY <2>2
  <2>5. Good(k, x)
    BY <2>3
  <2> HIDE DEF x, y
  <2>6. /\ Reading(y) /\ SameBefore(x, y)
        /\ Current(y).path \in {Current(x).path, SomePath}
        /\ w \notin {"plus", "header"} =>
             /\ Current(y).path = Current(x).path
             /\ Marks(y) = Marks(x) \cup {[line |-> x.newLine, text |-> w]}
             /\ y.newLine = x.newLine + 1
    BY <2>4, <2>5, AdditionRead
  <2>7. Reading(y) /\ SameBefore(s, y) /\ Current(y).path \in {Current(s).path, SomePath}
    BY <2>5, <2>6, SameBeforeTransitive
  <2>8. ASSUME PlainAdds(texts)
        PROVE  /\ Current(y).path = Current(s).path
               /\ Marks(y) = Marks(s) \cup Numbering(s.newLine, texts, k + 1)
               /\ y.newLine = s.newLine + (k + 1)
    <3>1. w \notin {"plus", "header"}
      BY <1>2, <2>1, <2>8 DEF PlainAdds
    <3>2. x.newLine = s.newLine + k /\ y.newLine = s.newLine + (k + 1)
      BY <1>4, <2>1, <2>5, <2>6, <2>8, <3>1
    <3>3. Numbering(s.newLine, texts, k + 1)
            = Numbering(s.newLine, texts, k) \cup {[line |-> s.newLine + k, text |-> w]}
      <4>1. \A i \in 1..(k + 1) : i \in 1..k \/ i = k + 1
        BY <2>1
      <4>2. s.newLine + (k + 1) - 1 = s.newLine + k
        BY <1>4, <2>1
      <4>3. \A i \in 1..k : i \in 1..(k + 1)
        BY <2>1
      <4>4. k + 1 \in 1..(k + 1)
        BY <2>1
      <4> QED
        BY <4>1, <4>2, <4>3, <4>4 DEF Numbering
    <3>4. Marks(y) = Marks(s) \cup Numbering(s.newLine, texts, k + 1)
      <4>1. Marks(y) = Marks(x) \cup {[line |-> s.newLine + k, text |-> w]}
        BY <2>6, <3>1, <3>2
      <4>2. Marks(x) = Marks(s) \cup Numbering(s.newLine, texts, k)
        BY <2>5, <2>8
      <4> QED
        BY <4>1, <4>2, <3>3
    <3> QED
      BY <2>5, <2>6, <2>8, <3>1, <3>2, <3>4
  <2>9. Good(k + 1, y)
    BY <2>7, <2>8
  <2> HIDE DEF Good
  <2> QED
    BY <2>1, <2>9 DEF y
<1>7. \A k \in S : Good(k, st[k])
  OBVIOUS
<1> HIDE DEF S, Good
<1>8. n \in 0..n /\ \A k \in 0..(n - 1) : k \in S => k + 1 \in S
  BY <1>6
<1>9. \A k \in 0..n : k \in S
  BY <1>5, <1>8, Successors, Zenon
<1>10. Good(Len(texts), t)
  BY <1>1, <1>2, <1>3, <1>7, <1>8, <1>9
<1> QED
  BY <1>10 DEF Good

LEMMA ReadsTwo ==
    ASSUME NEW k \in DiffLine, NEW l \in DiffLine, NEW s, NEW t, Reads(s, <<k, l>>, t)
    PROVE  t = parseLine(parseLine(s, k), l)
<1>1. <<k>> \in Seq(DiffLine) /\ <<l>> \in Seq(DiffLine) /\ <<k, l>> \in Seq(DiffLine)
  <2> HIDE DEF DiffLine
  <2> QED
    OBVIOUS
<1>2. <<k, l>> = <<k>> \o <<l>>
  <2>1. PICK c : c = <<k>> \o <<l>>
    OBVIOUS
  <2>2. c \in Seq(DiffLine) /\ Len(c) = 2 /\ c[1] = k /\ c[2] = l
    BY <1>1, <2>1
  <2>3. <<k, l>> \in Seq(DiffLine) /\ Len(<<k, l>>) = 2 /\ <<k, l>>[1] = k /\ <<k, l>>[2] = l
    BY <1>1
  <2>4. PICK b : b = <<k, l>>
    OBVIOUS
  <2>5. b \in Seq(DiffLine) /\ Len(b) = Len(c) /\ \A i \in 1..Len(b) : b[i] = c[i]
    <3>1. \A i \in 1..2 : i = 1 \/ i = 2
      OBVIOUS
    <3> QED
      BY <2>2, <2>3, <2>4, <3>1
  <2>6. b = c
    BY <2>2, <2>5, SeqEqual
  <2> QED
    BY <2>1, <2>4, <2>6
<1>3. PICK u : Reads(s, <<k>>, u) /\ Reads(u, <<l>>, t)
  BY <1>1, <1>2, ReadsConcatenation
<1> QED
  BY <1>3, ReadsOne

\* A hunk that deletes no unended last line marks its plain additions in place.
LEMMA HunkRead ==
    ASSUME NEW h \in Hunk, NEW s, Reading(s), NEW t, Reads(s, RenderHunk(h), t)
    PROVE  /\ Reading(t) /\ SameBefore(s, t)
           /\ Current(t).path \in {Current(s).path, SomePath}
           /\ PlainAdds(h.adds) => Current(t).path = Current(s).path
           /\ PlainAdds(h.adds) /\ ~h.oldNoEol =>
                Marks(t) = Marks(s) \cup Numbering(h.start, h.adds, Len(h.adds))
<1> DEFINE dels == [i \in 1..h.dels |-> Line("del", 0)]
           adds == [i \in 1..Len(h.adds) |-> Added(h.adds[i])]
           old == Marker(h.oldNoEol)
           new == Marker(h.newNoEol)
           l == Line("hunk", h.start)
<1>1. /\ h.start \in Nat /\ h.dels \in Nat /\ h.oldNoEol \in BOOLEAN /\ h.newNoEol \in BOOLEAN
      /\ h.adds \in Seq(Texts)
  BY DEF Hunk
<1>2. l \in DiffLine /\ l.t = "hunk" /\ l.n = h.start /\ <<l>> \in Seq(DiffLine)
  <2>1. l \in DiffLine /\ l.t = "hunk" /\ l.n = h.start
    BY <1>1, LinesTyped DEF LineKinds
  <2> HIDE DEF l
  <2> QED
    BY <2>1
<1>3. dels \in Seq(DiffLine)
  <2>1. Line("del", 0) \in DiffLine
    BY LinesTyped DEF LineKinds
  <2> QED
    BY <1>1, <2>1
<1>4. adds \in Seq(DiffLine)
  <2>1. \A i \in 1..Len(h.adds) : h.adds[i] \in Texts
    BY <1>1
  <2>2. \A i \in 1..Len(h.adds) : Added(h.adds[i]) \in DiffLine
    BY <2>1, AddedTyped
  <2>3. Len(h.adds) \in Nat
    BY <1>1
  <2> QED
    BY <2>2, <2>3
<1>5. old \in Seq(DiffLine) /\ new \in Seq(DiffLine)
  BY <1>1, MarkerTyped
<1>6. Reads(s, <<l>> \o dels \o old \o adds \o new, t)
  BY DEF RenderHunk
<1>7. /\ \A x : Reads(s, <<l>>, x) => x = parseLine(s, l)
      /\ \A x, y : Reading(x) /\ Reads(x, dels, y) =>
           /\ Reading(y) /\ SameBefore(x, y) /\ Current(y) = Current(x) /\ y.newLine = x.newLine
      /\ \A x, y : Reading(x) /\ Reads(x, old, y) =>
           /\ Reading(y) /\ SameBefore(x, y) /\ Current(y) = Current(x)
           /\ ~h.oldNoEol => y.newLine = x.newLine
      /\ \A x, y : Reading(x) /\ Reads(x, new, y) =>
           Reading(y) /\ SameBefore(x, y) /\ Current(y) = Current(x)
  BY <1>1, ReadsOne, DeletionsRead, MarkerRead
<1>8. \A x, y : Reading(x) /\ Reads(x, adds, y) =>
           /\ Reading(y) /\ SameBefore(x, y) /\ Current(y).path \in {Current(x).path, SomePath}
           /\ PlainAdds(h.adds) =>
                /\ Current(y).path = Current(x).path
                /\ Marks(y) = Marks(x) \cup Numbering(x.newLine, h.adds, Len(h.adds))
  BY <1>1, AdditionsRead
<1> HIDE DEF l, dels, old, adds, new
<1> DEFINE p1 == <<l>> \o dels
           p2 == p1 \o old
           p3 == p2 \o adds
<1>9. p1 \in Seq(DiffLine)
  BY <1>2, <1>3
<1> HIDE DEF p1
<1>10. p2 \in Seq(DiffLine)
  BY <1>5, <1>9
<1> HIDE DEF p2
<1>11. p3 \in Seq(DiffLine)
  BY <1>4, <1>10
<1> HIDE DEF p3
<1>12. PICK e : Reads(s, p3, e) /\ Reads(e, new, t)
  BY <1>5, <1>6, <1>11, ReadsConcatenation DEF p3, p2, p1
<1>13. PICK c : Reads(s, p2, c) /\ Reads(c, adds, e)
  BY <1>4, <1>10, <1>12, ReadsConcatenation DEF p3
<1>14. PICK b : Reads(s, p1, b) /\ Reads(b, old, c)
  BY <1>5, <1>9, <1>13, ReadsConcatenation DEF p2
<1>15. PICK a : Reads(s, <<l>>, a) /\ Reads(a, dels, b)
  BY <1>2, <1>3, <1>14, ReadsConcatenation DEF p1
<1>16. Reading(a) /\ SameBefore(s, a) /\ Current(a) = Current(s) /\ a.newLine = h.start
  <2>1. a = parseLine(s, l) /\ l.t # "file"
    BY <1>2, <1>7, <1>15
  <2> QED
    BY <1>2, <2>1, LineRead
<1>17. Reading(b) /\ SameBefore(a, b) /\ Current(b) = Current(s) /\ b.newLine = h.start
  BY <1>7, <1>15, <1>16
<1>18. /\ Reading(c) /\ SameBefore(b, c) /\ Current(c) = Current(s)
       /\ ~h.oldNoEol => c.newLine = h.start
  BY <1>7, <1>14, <1>17
<1>19. /\ Reading(e) /\ SameBefore(c, e) /\ Current(e).path \in {Current(s).path, SomePath}
       /\ PlainAdds(h.adds) =>
            /\ Current(e).path = Current(s).path
            /\ Marks(e) = Marks(s) \cup Numbering(c.newLine, h.adds, Len(h.adds))
  BY <1>8, <1>13, <1>18 DEF Marks
<1>20. Reading(t) /\ SameBefore(e, t) /\ Current(t) = Current(e) /\ Marks(t) = Marks(e)
  BY <1>7, <1>12, <1>19 DEF Marks
<1>21. SameBefore(s, t)
  BY <1>16, <1>17, <1>18, <1>19, <1>20, SameBeforeTransitive
<1> QED
  BY <1>18, <1>19, <1>20, <1>21

\* Where the additions of the first k hunks are.
PlacesOfFirst(f, k) ==
    UNION {Numbering(f.hunks[i].start, f.hunks[i].adds, Len(f.hunks[i].adds)) : i \in 1..k}

LEMMA PlainHunks ==
    ASSUME NEW f \in File
    PROVE  /\ PlainTexts(f) <=> \A i \in 1..Len(f.hunks) : PlainAdds(f.hunks[i].adds)
           /\ WholeLines(f) <=> \A i \in 1..Len(f.hunks) : ~f.hunks[i].oldNoEol
           /\ Places(f) = PlacesOfFirst(f, Len(f.hunks))
<1>1. DOMAIN f.hunks = 1..Len(f.hunks)
  BY DEF File
<1>2. PlainTexts(f) <=> \A i \in 1..Len(f.hunks) : PlainAdds(f.hunks[i].adds)
  BY <1>1 DEF PlainTexts, PlainAdds, Range
<1>3. WholeLines(f) <=> \A i \in 1..Len(f.hunks) : ~f.hunks[i].oldNoEol
  BY <1>1 DEF WholeLines, Range
<1>4. Places(f) = PlacesOfFirst(f, Len(f.hunks))
  BY <1>1 DEF Places, PlacesOfFirst, Numbering, Range
<1> QED
  BY <1>2, <1>3, <1>4

LEMMA HunksRead ==
    ASSUME NEW f \in File, NEW s, Reading(s), NEW t,
           Reads(s, FlattenSeq([i \in 1..Len(f.hunks) |-> RenderHunk(f.hunks[i])]), t)
    PROVE  /\ Reading(t) /\ SameBefore(s, t)
           /\ Current(t).path \in {Current(s).path, SomePath}
           /\ PlainTexts(f) => Current(t).path = Current(s).path
           /\ PlainTexts(f) /\ WholeLines(f) => Marks(t) = Marks(s) \cup Places(f)
<1> DEFINE ss == [i \in 1..Len(f.hunks) |-> RenderHunk(f.hunks[i])]
           Good(k, x) ==
             /\ Reading(x) /\ SameBefore(s, x)
             /\ Current(x).path \in {Current(s).path, SomePath}
             /\ PlainTexts(f) => Current(x).path = Current(s).path
             /\ PlainTexts(f) /\ WholeLines(f) => Marks(x) = Marks(s) \cup PlacesOfFirst(f, k)
<1>1. f.hunks \in Seq(Hunk)
  BY DEF File
<1>2. PICK n \in Nat : n = Len(f.hunks)
  BY <1>1
<1>3. \A i \in 1..n : f.hunks[i] \in Hunk
  BY <1>1, <1>2
<1>4. ss \in Seq(Seq(DiffLine)) /\ Len(ss) = n /\ \A i \in 1..n : ss[i] = RenderHunk(f.hunks[i])
  <2>1. \A i \in 1..n : RenderHunk(f.hunks[i]) \in Seq(DiffLine)
    BY <1>3, HunkNumbered
  <2> QED
    BY <1>2, <2>1
<1> HIDE DEF ss
<1>5. ReadsEach(s, ss, t)
  BY <1>4, ReadsFlatten DEF ss
<1>6. PICK u : u[0] = s /\ u[n] = t /\ \A i \in 1..n : Reads(u[i - 1], ss[i], u[i])
  BY <1>4, <1>5 DEF ReadsEach
<1> DEFINE S == {k \in 0..n : Good(k, u[k])}
<1>7. 0 \in S
  <2>1. PlacesOfFirst(f, 0) = {}
    BY DEF PlacesOfFirst
  <2>2. Good(0, s)
    BY <2>1 DEF SameBefore
  <2> HIDE DEF Good
  <2> QED
    BY <1>6, <2>2
<1>8. ASSUME NEW k \in 0..(n - 1), k \in S PROVE k + 1 \in S
  <2>1. k + 1 \in 1..n /\ k + 1 \in 0..n /\ (k + 1) - 1 = k /\ k \in Nat
    OBVIOUS
  <2> DEFINE x == u[k]
             y == u[k + 1]
             h == f.hunks[k + 1]
  <2>2. Reads(x, RenderHunk(h), y) /\ h \in Hunk
    BY <1>3, <1>4, <1>6, <2>1
  <2>3. Good(k, x)
    BY <1>8
  <2> HIDE DEF x, y
  <2>4. /\ Reading(y) /\ SameBefore(x, y)
        /\ Current(y).path \in {Current(x).path, SomePath}
        /\ PlainAdds(h.adds) => Current(y).path = Current(x).path
        /\ PlainAdds(h.adds) /\ ~h.oldNoEol =>
             Marks(y) = Marks(x) \cup Numbering(h.start, h.adds, Len(h.adds))
    BY <2>2, <2>3, HunkRead
  <2>5. /\ PlainTexts(f) => PlainAdds(h.adds)
        /\ WholeLines(f) => ~h.oldNoEol
    BY <1>2, <2>1, PlainHunks
  <2>6. PlacesOfFirst(f, k + 1)
          = PlacesOfFirst(f, k) \cup Numbering(h.start, h.adds, Len(h.adds))
    <3>1. /\ \A i \in 1..(k + 1) : i \in 1..k \/ i = k + 1
          /\ \A i \in 1..k : i \in 1..(k + 1)
          /\ k + 1 \in 1..(k + 1)
      BY <2>1
    <3> QED
      BY <3>1 DEF PlacesOfFirst
  <2>7. SameBefore(s, y)
    BY <2>3, <2>4, SameBeforeTransitive
  <2> HIDE DEF h
  <2>8. Good(k + 1, y)
    BY <2>3, <2>4, <2>5, <2>6, <2>7
  <2> HIDE DEF Good
  <2> QED
    BY <2>1, <2>8 DEF y
<1>9. \A k \in S : Good(k, u[k])
  OBVIOUS
<1> HIDE DEF S, Good
<1>10. n \in 0..n /\ \A k \in 0..(n - 1) : k \in S => k + 1 \in S
  BY <1>8
<1>11. \A k \in 0..n : k \in S
  BY <1>7, <1>10, Successors, Zenon
<1>12. Good(n, t)
  BY <1>6, <1>9, <1>10, <1>11
<1> QED
  BY <1>2, <1>12, PlainHunks DEF Good

-----------------------------------------------------------------------------
(* Files *)

\* What parseDiff makes of a file: its name, unless an added text looks like a header, and
\* the additions in their places.
FileIs(f, p) ==
    /\ p.path \in {NoPath, SomePath, f.path}
    /\ PlainTexts(f) => p.path = IF f.quoted THEN NoPath ELSE f.path
    /\ PlainTexts(f) /\ WholeLines(f) => Range(p.added) = Places(f)

\* The header lines of a file.
LEMMA HeaderRead ==
    ASSUME NEW f \in File, NEW s \in RawState, NEW t,
           Reads(s, <<Line("file", IF f.quoted THEN NoPath ELSE f.path), Line("other", 0)>>, t)
    PROVE  /\ Reading(t) /\ Len(t.files) = Len(s.files) + 1
           /\ \A j \in 1..Len(s.files) : t.files[j] = s.files[j]
           /\ Current(t).path = IF f.quoted THEN NoPath ELSE f.path
           /\ Marks(t) = {}
<1> DEFINE name == IF f.quoted THEN NoPath ELSE f.path
           k == Line("file", name)
           l == Line("other", 0)
           new == [path |-> name, added |-> <<>>]
           u == parseLine(s, k)
<1>1. name \in Nat
  BY ContentAssumption DEF File, NoPath
<1>2. k \in DiffLine /\ k.t = "file" /\ k.n = name /\ l \in DiffLine /\ l.t = "other"
  BY <1>1, LinesTyped DEF LineKinds
<1> HIDE DEF k, l
<1>3. t = parseLine(u, l)
  BY <1>2, ReadsTwo DEF k, l
<1>4. u = [files |-> Append(s.files, new), newLine |-> 0]
  BY <1>2 DEF parseLine
<1>5. s.files \in Seq(RawFile) /\ new \in RawFile
  BY <1>1 DEF RawState, RawFile
<1> HIDE DEF new, name, u
<1>6. PICK n \in Nat : n = Len(s.files)
  BY <1>5
<1>7. /\ u.files \in Seq(RawFile) /\ Len(u.files) = n + 1 /\ u.files[n + 1] = new
      /\ \A j \in 1..n : u.files[j] = s.files[j]
  <2>1. u.files = Append(s.files, new)
    BY <1>4
  <2> QED
    BY <1>5, <1>6, <2>1
<1>8. u \in RawState /\ u.files # <<>>
  <2>1. u.files # <<>>
    BY <1>7
  <2> QED
    BY <1>4, <1>7, <2>1 DEF RawState
<1>9. Reading(t) /\ SameBefore(u, t) /\ Current(t) = Current(u)
  BY <1>2, <1>3, <1>8, LineRead DEF Reading
<1>10. Len(t.files) = n + 1 /\ \A j \in 1..n : t.files[j] = s.files[j]
  <2>1. (n + 1) - 1 = n
    OBVIOUS
  <2> QED
    BY <1>7, <1>9, <2>1 DEF SameBefore
<1>11. Current(t) = new
  BY <1>7, <1>9 DEF Current
<1>12. new.path = name /\ Range(new.added) = {}
  BY DEF new, Range
<1> QED
  BY <1>6, <1>9, <1>10, <1>11, <1>12 DEF Marks, name

\* The lines that name the old and the new file.
LEMMA NamesRead ==
    ASSUME NEW f \in File, NEW s, Reading(s), Marks(s) = {},
           Current(s).path = IF f.quoted THEN NoPath ELSE f.path,
           NEW t, Reads(s, IF f.hunks = <<>> THEN <<>>
                           ELSE <<Line("del", 0), IF f.quoted \/ f.deleted THEN Line("other", 0)
                                                  ELSE Line("path", f.path)>>, t)
    PROVE  /\ Reading(t) /\ SameBefore(s, t) /\ Marks(t) = {}
           /\ Current(t).path = IF f.quoted THEN NoPath ELSE f.path
<1>1. CASE f.hunks = <<>>
  <2>1. t = s
    BY <1>1, ReadsNothing
  <2> QED
    BY <2>1 DEF SameBefore
<1>2. CASE f.hunks # <<>>
  <2> DEFINE k == Line("del", 0)
             l == IF f.quoted \/ f.deleted THEN Line("other", 0) ELSE Line("path", f.path)
             u == parseLine(s, k)
  <2>1. f.path \in Nat
    BY ContentAssumption DEF File
  <2>2. k \in DiffLine /\ k.t = "del"
    BY LinesTyped DEF LineKinds
  <2>3. /\ l \in DiffLine
        /\ l.t = "other" \/ (l.t = "path" /\ l.n = f.path /\ ~f.quoted)
    BY <2>1, LinesTyped DEF LineKinds
  <2>4. Reads(s, <<k, l>>, t)
    BY <1>2
  <2> HIDE DEF k, l
  <2>5. t = parseLine(u, l)
    BY <2>2, <2>3, <2>4, ReadsTwo
  <2>6. Reading(u) /\ SameBefore(s, u) /\ Current(u) = Current(s)
    BY <2>2, LineRead
  <2> HIDE DEF u
  <2>7. /\ Reading(t) /\ SameBefore(u, t)
        /\ l.t = "path" => Current(t).path = l.n /\ Marks(t) = Marks(u)
        /\ l.t = "other" => Current(t) = Current(u)
    BY <2>3, <2>5, <2>6, LineRead
  <2>8. SameBefore(s, t)
    BY <2>6, <2>7, SameBeforeTransitive
  <2> QED
    BY <2>3, <2>6, <2>7, <2>8 DEF Marks
<1> QED
  BY <1>1, <1>2

LEMMA FileRead ==
    ASSUME NEW f \in File, NEW s \in RawState, NEW t, Reads(s, RenderFile(f), t)
    PROVE  /\ t \in RawState /\ Len(t.files) = Len(s.files) + 1
           /\ \A j \in 1..Len(s.files) : t.files[j] = s.files[j]
           /\ FileIs(f, t.files[Len(t.files)])
<1> DEFINE first == <<Line("file", IF f.quoted THEN NoPath ELSE f.path), Line("other", 0)>>
           head == IF f.hunks = <<>> THEN <<>>
                   ELSE <<Line("del", 0), IF f.quoted \/ f.deleted THEN Line("other", 0)
                                          ELSE Line("path", f.path)>>
           hunks == [i \in 1..Len(f.hunks) |-> RenderHunk(f.hunks[i])]
           rest == FlattenSeq(hunks)
<1>1. first \in Seq(DiffLine) /\ head \in Seq(DiffLine) /\ rest \in Seq(DiffLine)
  BY FilePartsTyped
<1>2. Reads(s, first \o head \o rest, t)
  BY DEF RenderFile
<1> HIDE DEF first, head, rest, hunks
<1>3. first \o head \in Seq(DiffLine)
  BY <1>1
<1>4. PICK v : Reads(s, first \o head, v) /\ Reads(v, rest, t)
  BY <1>1, <1>2, <1>3, ReadsConcatenation
<1>5. PICK u : Reads(s, first, u) /\ Reads(u, head, v)
  BY <1>1, <1>4, ReadsConcatenation
<1>6. /\ Reading(u) /\ Len(u.files) = Len(s.files) + 1
      /\ \A j \in 1..Len(s.files) : u.files[j] = s.files[j]
      /\ Current(u).path = IF f.quoted THEN NoPath ELSE f.path
      /\ Marks(u) = {}
  BY <1>5, HeaderRead DEF first
<1>7. /\ Reading(v) /\ SameBefore(u, v) /\ Marks(v) = {}
      /\ Current(v).path = IF f.quoted THEN NoPath ELSE f.path
  BY <1>5, <1>6, NamesRead DEF head
<1>8. /\ Reading(t) /\ SameBefore(v, t)
      /\ Current(t).path \in {Current(v).path, SomePath}
      /\ PlainTexts(f) => Current(t).path = Current(v).path
      /\ PlainTexts(f) /\ WholeLines(f) => Marks(t) = Marks(v) \cup Places(f)
  BY <1>4, <1>7, HunksRead DEF rest, hunks
<1>9. FileIs(f, Current(t))
  BY <1>7, <1>8 DEF FileIs, Marks
<1>10. PICK n \in Nat : n = Len(s.files)
  BY DEF RawState
<1>11. Len(t.files) = n + 1 /\ \A j \in 1..n : t.files[j] = s.files[j]
  <2>1. (n + 1) - 1 = n
    OBVIOUS
  <2> QED
    BY <1>6, <1>7, <1>8, <1>10, <2>1 DEF SameBefore
<1> QED
  BY <1>8, <1>9, <1>10, <1>11 DEF Reading, Current

\* parseDiff reads back the files git printed.
LEMMA DiffRead ==
    ASSUME NEW d \in Diff
    PROVE  LET p == Parsed(Render(d)) IN
           /\ p.files \in Seq(RawFile) /\ Len(p.files) = Len(d.files)
           /\ \A i \in 1..Len(d.files) : FileIs(d.files[i], p.files[i])
<1> DEFINE ss == [i \in 1..Len(d.files) |-> RenderFile(d.files[i])]
           p == Parsed(Render(d))
           Good(k, x) == /\ x \in RawState /\ Len(x.files) = k
                         /\ \A i \in 1..k : FileIs(d.files[i], x.files[i])
<1>1. PICK n \in Nat : n = Len(d.files)
  BY DEF Diff
<1>2. \A i \in 1..n : d.files[i] \in File
  BY <1>1 DEF Diff
<1>3. ss \in Seq(Seq(DiffLine)) /\ Len(ss) = n /\ \A i \in 1..n : ss[i] = RenderFile(d.files[i])
  <2>1. \A i \in 1..n : RenderFile(d.files[i]) \in Seq(DiffLine)
    BY <1>2, FileNumbered
  <2> QED
    BY <1>1, <2>1
<1>4. Render(d) = FlattenSeq(ss)
  BY DEF Render
<1> HIDE DEF ss
<1>5. Reads(NothingParsed, Render(d), p)
  <2>1. Len(Render(d)) \in Nat
    BY DiffNumbered
  <2>2. /\ After(Render(d))[0] = NothingParsed
        /\ \A k \in 1..Len(Render(d)) :
             After(Render(d))[k] = parseLine(After(Render(d))[k - 1], Render(d)[k])
    BY <2>1, AfterEachLine
  <2>3. After(Render(d))[Len(Render(d))] = p
    BY DEF Parsed
  <2> HIDE DEF p
  <2> QED
    BY <2>2, <2>3 DEF Reads
<1> HIDE DEF p
<1>6. ReadsEach(NothingParsed, ss, p)
  <2>1. Reads(NothingParsed, FlattenSeq(ss), p)
    BY <1>4, <1>5
  <2> QED
    BY <1>3, <2>1, ReadsFlatten
<1>7. PICK u : u[0] = NothingParsed /\ u[n] = p /\ \A i \in 1..n : Reads(u[i - 1], ss[i], u[i])
  BY <1>3, <1>6 DEF ReadsEach
<1> DEFINE S == {k \in 0..n : Good(k, u[k])}
<1>8. 0 \in S
  <2>1. NothingParsed \in RawState /\ Len(NothingParsed.files) = 0
    BY DEF NothingParsed, RawState
  <2>2. Good(0, NothingParsed)
    BY <2>1
  <2> HIDE DEF Good
  <2> QED
    BY <1>7, <2>2
<1>9. ASSUME NEW k \in 0..(n - 1), k \in S PROVE k + 1 \in S
  <2>1. k + 1 \in 1..n /\ k + 1 \in 0..n /\ (k + 1) - 1 = k /\ k \in Nat
    OBVIOUS
  <2> DEFINE x == u[k]
             y == u[k + 1]
             f == d.files[k + 1]
  <2>2. Reads(x, RenderFile(f), y) /\ f \in File
    BY <1>2, <1>3, <1>7, <2>1
  <2>3. Good(k, x)
    BY <1>9
  <2> HIDE DEF x, y, f
  <2>4. /\ y \in RawState /\ Len(y.files) = k + 1
        /\ \A j \in 1..k : y.files[j] = x.files[j]
        /\ FileIs(f, y.files[k + 1])
    BY <2>2, <2>3, FileRead
  <2>5. ASSUME NEW i \in 1..(k + 1) PROVE FileIs(d.files[i], y.files[i])
    <3>1. i \in 1..k \/ i = k + 1
      BY <2>1
    <3> QED
      BY <2>3, <2>4, <3>1 DEF f
  <2>6. Good(k + 1, y)
    BY <2>4, <2>5
  <2> HIDE DEF Good
  <2> QED
    BY <2>1, <2>6 DEF y
<1>10. \A k \in S : Good(k, u[k])
  OBVIOUS
<1> HIDE DEF S, Good
<1>11. n \in 0..n /\ \A k \in 0..(n - 1) : k \in S => k + 1 \in S
  BY <1>9
<1>12. \A k \in 0..n : k \in S
  BY <1>8, <1>11, Successors, Zenon
<1>13. Good(n, p)
  BY <1>7, <1>10, <1>11, <1>12
<1> QED
  BY <1>1, <1>13 DEF Good, RawState, p

-----------------------------------------------------------------------------
(* Secrets *)

Ordinary(f) == PlainTexts(f) /\ WholeLines(f)
OrdinaryFiles(d) == {f \in Range(d.files) : PlainTexts(f) /\ WholeLines(f)}

\* SecretPlaces of the ordinary files.
LeakPlaces(d) ==
    UNION {{<<f.path, a.line>> : a \in {b \in Places(f) : Leaks(b.text, f.path)}} :
           f \in OrdinaryFiles(d)}

\* The secret findings of a diff all of whose files have a name.
LEMMA SecretsInPlace ==
    ASSUME NEW d \in Diffs, NEW fs, fs = ReadIn(d), ~Unreadable(d, fs), NEW found,
           Range(found) = deniedPathFindings(fs) \cup secretFindings(fs)
                            \cup dependencyDeltaFindings(d, fs) \cup osvDeltaFindings(d, fs)
    PROVE  SecretRemarks(found, {f.path : f \in OrdinaryFiles(d)}) = LeakPlaces(d)
<1> DEFINE p == Parsed(Render(d)).files
           names == {f.path : f \in OrdinaryFiles(d)}
<1>1. PICK n \in Nat : n = Len(d.files)
  BY ContentAssumption DEF Diff
<1>2. /\ \A i \in 1..n : d.files[i] \in File
      /\ DOMAIN d.files = 1..n
      /\ \A i \in 1..n : d.files[i].path \notin {NoPath, SomePath}
  <2>1. d.files \in Seq(File)
    BY ContentAssumption DEF Diff
  <2>2. \A i \in 1..n : d.files[i] \in File
    BY <1>1, <2>1
  <2>3. DOMAIN d.files = 1..n
    BY <1>1, <2>1
  <2> QED
    BY <2>2, <2>3, ContentAssumption DEF File
<1>3. p \in Seq(RawFile) /\ Len(p) = n /\ \A i \in 1..n : FileIs(d.files[i], p[i])
  <2>1. d \in Diff
    BY ContentAssumption
  <2> QED
    BY <1>1, <2>1, DiffRead
<1> HIDE DEF p
<1>4. DOMAIN p = 1..n /\ fs = {p[i] : i \in 1..n}
  <2>1. DOMAIN p = 1..n
    BY <1>3
  <2>2. fs = Range(p)
    BY DEF ReadIn, p
  <2> QED
    BY <2>1, <2>2 DEF Range
<1>5. \A i \in 1..n : p[i].path # NoPath
  BY <1>4 DEF Unreadable
<1>6. \A g \in Range(found) : g.rule = "secret" <=> g \in secretFindings(fs)
  <2>1. \A g \in secretFindings(fs) : g.rule = "secret"
    BY DEF secretFindings, Finding
  <2>2. \A g \in deniedPathFindings(fs) : g.rule # "secret"
    BY DEF deniedPathFindings, Finding
  <2>3. \A g \in dependencyDeltaFindings(d, fs) : g.rule # "secret"
    BY DEF dependencyDeltaFindings, Finding
  <2>4. \A g \in osvDeltaFindings(d, fs) : g.rule # "secret"
    BY DEF osvDeltaFindings, Finding
  <2> QED
    BY <2>1, <2>2, <2>3, <2>4
\* In an ordinary file the additions are marked where they are, under the file's name.
<1>7. ASSUME NEW i \in 1..n, Ordinary(d.files[i])
      PROVE  p[i].path = d.files[i].path /\ Range(p[i].added) = Places(d.files[i])
  BY <1>3, <1>5, <1>7 DEF FileIs, Ordinary
\* What bears the name of an ordinary file is that file.
<1>8. ASSUME NEW i \in 1..n, p[i].path \in names
      PROVE  Ordinary(d.files[i])
  <2>1. PICK j \in 1..n : Ordinary(d.files[j]) /\ p[i].path = d.files[j].path
    BY <1>2, <1>8 DEF OrdinaryFiles, Ordinary, Range
  <2>2. p[i].path = d.files[i].path
    BY <1>2, <1>3, <2>1 DEF FileIs
  <2>3. i = j
    BY <1>2, <2>1, <2>2, FilesAssumption
  <2> QED
    BY <2>1, <2>3
<1>9. SecretRemarks(found, names) =
        {<<g.path, g.line>> : g \in {f \in secretFindings(fs) : f.path \in names}}
  <2>1. \A g \in secretFindings(fs) : g \in Range(found)
    OBVIOUS
  <2> QED
    BY <1>6, <2>1 DEF SecretRemarks
<1>10. ASSUME NEW x \in SecretRemarks(found, names) PROVE x \in LeakPlaces(d)
  <2>1. PICK g \in secretFindings(fs) : g.path \in names /\ x = <<g.path, g.line>>
    BY <1>9, <1>10
  <2>2. PICK i \in 1..n : \E a \in Range(p[i].added) :
          /\ Leaks(a.text, p[i].path)
          /\ g = Finding("secret", p[i].path, a.line, IF a.text = "http" THEN 1 ELSE 2)
    BY <1>4, <2>1 DEF secretFindings
  <2>3. PICK a \in Range(p[i].added) :
          /\ Leaks(a.text, p[i].path)
          /\ g = Finding("secret", p[i].path, a.line, IF a.text = "http" THEN 1 ELSE 2)
    BY <2>2
  <2>4. g.path = p[i].path /\ g.line = a.line
    BY <2>3 DEF Finding
  <2>5. Ordinary(d.files[i])
    BY <1>8, <2>1, <2>4
  <2>6. p[i].path = d.files[i].path /\ a \in Places(d.files[i])
    BY <1>7, <2>3, <2>5
  <2>7. d.files[i] \in Range(d.files)
    BY <1>2 DEF Range
  <2> QED
    BY <2>1, <2>3, <2>4, <2>5, <2>6, <2>7 DEF LeakPlaces, OrdinaryFiles, Ordinary
<1>11. ASSUME NEW x \in LeakPlaces(d) PROVE x \in SecretRemarks(found, names)
  <2>1. PICK i \in 1..n : /\ Ordinary(d.files[i])
                         /\ \E a \in Places(d.files[i]) :
                              /\ Leaks(a.text, d.files[i].path)
                              /\ x = <<d.files[i].path, a.line>>
    BY <1>2, <1>11 DEF LeakPlaces, OrdinaryFiles, Ordinary, Range
  <2>2. PICK a \in Places(d.files[i]) :
          /\ Ordinary(d.files[i]) /\ Leaks(a.text, d.files[i].path)
          /\ x = <<d.files[i].path, a.line>>
    BY <2>1
  <2> DEFINE g == Finding("secret", p[i].path, a.line, IF a.text = "http" THEN 1 ELSE 2)
  <2>3. p[i].path = d.files[i].path /\ a \in Range(p[i].added)
    BY <1>7, <2>2
  <2>4. p[i] \in fs
    BY <1>4
  <2>5. g \in secretFindings(fs)
    BY <2>2, <2>3, <2>4 DEF secretFindings
  <2>6. g.path = d.files[i].path /\ g.line = a.line
    BY <2>3 DEF Finding
  <2>7. d.files[i].path \in names
    BY <1>2, <2>2 DEF OrdinaryFiles, Ordinary, Range
  <2> HIDE DEF g
  <2> QED
    BY <1>9, <2>2, <2>5, <2>6, <2>7
<1> QED
  BY <1>10, <1>11

\* From the checks on the whole diff has been read.
ReadWhole == Checked => parsed = Parsed(Render(diff))

LEMMA ReadWholeStep == ASSUME ContentInv, ReadWhole, [Next]_vars PROVE ReadWhole'
<1> SUFFICES ASSUME Checked' PROVE parsed' = Parsed(Render(diff'))
  BY DEF ReadWhole
<1>1. CASE Checks
  <2>1. parsed = Parsed(Render(diff))
    BY <1>1, WholeDiffRead
  <2> QED
    BY <1>1, <2>1 DEF Checks
<1>2. CASE ~Checks
  <2>1. Checked /\ parsed' = parsed /\ diff' = diff
    BY <1>2 DEF Next, Pipeline, Sandbox, loadDiff, parseDiff, Agent, Merge, Execute, PostInline,
                InlineDone, Summarise, Fail, Push, vars, parsing, Checked
  <2> QED
    BY <2>1 DEF ReadWhole
<1> QED
  BY <1>1, <1>2

\* The secret findings of every diff are its leaks, each in its place.
THEOREM SecretsFoundInPlace == Spec => []SecretsAreFoundInPlace
<1>1. Init => ReadWhole
  BY DEF Init, ReadWhole, Checked
<1>2. ContentInv /\ ReadWhole /\ [Next]_vars => ReadWhole'
  BY ReadWholeStep
<1>3. ContentInv /\ ReadWhole => SecretsAreFoundInPlace
  <2> SUFFICES ASSUME ContentInv, ReadWhole, Checked
               PROVE  SecretRemarks(findings, {f.path : f \in OrdinaryFiles(diff)}) = LeakPlaces(diff)
    BY Zenon DEF SecretsAreFoundInPlace, FoundInPlace, SecretPlaces, OrdinaryFiles, LeakPlaces
  <2>1. /\ diff \in Diffs /\ parsed \in ParseState /\ parsed = Parsed(Render(diff))
        /\ findings = FoundIn(diff) /\ ~Unreadable(diff, ReadIn(diff))
    BY DEF ContentInv, Typed, FoundAndMerged, ReadWhole
  <2> DEFINE fs == ReadIn(diff)
  <2>2. Range(findings) = deniedPathFindings(fs) \cup secretFindings(fs)
                            \cup dependencyDeltaFindings(diff, fs) \cup osvDeltaFindings(diff, fs)
    BY <2>1, AllTyped DEF FoundIn, ReadIn
  <2> HIDE DEF fs
  <2>3. fs = ReadIn(diff)
    BY DEF fs
  <2> QED
    BY <2>1, <2>2, <2>3, SecretsInPlace
<1> QED
  BY <1>1, <1>2, <1>3, ContentInvariant, PTL DEF Spec
=============================================================================

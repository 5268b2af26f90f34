--------------------------- MODULE ThreeWayMerge ---------------------------
(***************************************************************************)
(* web/src/merge/three-way-merge.ts: the document of the merge editor.  It *)
(* is made from the base and the two sides, and then changed by the user,  *)
(* segment by segment or as a text.                                        *)
(*                                                                         *)
(* A text has its lines and, when it has any, may end with a newline.  A   *)
(* line is a sequence of words and spaces: what Tokens of lines takes      *)
(* apart, and what gluing two words makes, are then told apart as in the   *)
(* code as long as the words of the input are letters set apart by spaces. *)
(* The kind of line ends, ranges, word colours and the parsing of conflict *)
(* markers are left out.                                                   *)
(***************************************************************************)
EXTENDS LineDrift, FiniteSets

CONSTANTS Texts,           \* the texts that are merged
          Inputs,          \* the texts and blocks the user types
          MaxEdits         \* bound on the user's steps

NewLine == "newline"

ASSUME MergeAssumption ==
    /\ \A t \in Texts \cup Inputs :
          /\ t.lines \in Seq(Seq(STRING))
          /\ t.newline \in BOOLEAN
          /\ t.lines = <<>> => ~t.newline
    /\ MaxEdits \in Nat

VARIABLES texts,           \* the base, the left and the right text
          segments,        \* of the document
          newline,         \* hasTrailingNewline
          raw,             \* rawTextContent, the result as a text
          edits            \* how many steps the user has made

editorVars == <<texts, segments, newline, raw, edits>>

-----------------------------------------------------------------------------
(* Combining both sides of a conflict. *)

\* tokenizeForWordDiff of the joined lines.
Tokens(lines) ==
    FlattenSeq([i \in 1..Len(lines) |-> IF i = 1 THEN lines[i] ELSE <<NewLine>> \o lines[i]])

\* join('') and split('\n').
LinesOf(tokens) ==
    IF tokens = <<>> THEN <<>>
    ELSE LET Breaks(n) == Cardinality({i \in 1..n : tokens[i] = NewLine})
             Part(k, i) == IF tokens[i] # NewLine /\ Breaks(i) = k THEN <<tokens[i]>> ELSE <<>>
         IN  [line \in 1..(Breaks(Len(tokens)) + 1) |->
                 FlattenSeq([i \in 1..Len(tokens) |-> Part(line - 1, i)])]

Empty(e) == e.baseStart = e.baseEnd

\* Two edits in a row, unless both insert at one place.
Touch(e, f) == e.baseEnd = f.baseStart /\ ~(Empty(e) /\ Empty(f))

SameEdit(e, f) == /\ e.baseStart = f.baseStart /\ e.baseEnd = f.baseEnd
                  /\ e.items = f.items

\* Which edits are next, of both sides in one sequence: in a set, with what is
\* left of the two; none when they overlap.
CombineRound(s) ==
    LET e == s.first[1]
        f == s.second[1]
        Then(made, first, second) ==
            {[made |-> s.made \o made, first |-> first, second |-> second]}
    IN  IF s.first = <<>> \/ s.second = <<>> THEN {s}
        ELSE CASE e.baseEnd < f.baseStart -> Then(<<e>>, Tail(s.first), s.second)
               [] f.baseEnd < e.baseStart -> Then(<<f>>, s.first, Tail(s.second))
               [] SameEdit(e, f) -> Then(<<e>>, Tail(s.first), Tail(s.second))
               [] Touch(e, f) -> Then(<<e, f>>, Tail(s.first), Tail(s.second))
               [] Touch(f, e) -> Then(<<f, e>>, Tail(s.first), Tail(s.second))
               [] OTHER -> {}

\* The edits of both in one sequence, in a set; none when they overlap.
CombinedEdits(first, second) ==
    LET after[n \in Nat] ==
            IF n = 0 THEN {[made |-> <<>>, first |-> first, second |-> second]}
            ELSE UNION {CombineRound(s) : s \in after[n - 1]}
    IN  {s.made \o s.first \o s.second : s \in after[Len(first) + Len(second)]}

Apply(tokens, es) ==
    LET done(i) == IF i = 0 THEN 0 ELSE es[i].baseEnd
    IN  IF \E i \in 1..Len(es) : es[i].baseStart < done(i - 1) THEN {}
        ELSE {FlattenSeq([i \in 1..Len(es) |->
                             SubSeq(tokens, done(i - 1) + 1, es[i].baseStart) \o es[i].items])
              \o SubSeq(tokens, done(Len(es)) + 1, Len(tokens))}

\* Both edits applied: a set of one result, or {}.
ApplyBoth(tokens, firstEdits, secondEdits) ==
    IF firstEdits = <<>> \/ secondEdits = <<>> THEN {}
    ELSE UNION {{LinesOf(t) : t \in Apply(tokens, es)} :
                   es \in CombinedEdits(firstEdits, secondEdits)}

\* trySmartCombineLines, {} for null.
SmartCombine(base, first, second) ==
    IF base = <<>> THEN {}
    ELSE ApplyBoth(Tokens(base), SequenceEdits(Tokens(base), Tokens(first)),
                   SequenceEdits(Tokens(base), Tokens(second)))

Appended(first, second) ==
    LET p == CommonPrefix(first, second)
        s == CommonSuffix(first, second, p)
    IN  SubSeq(first, 1, Len(first) - s) \o SubSeq(second, p + 1, Len(second) - s)
            \o SubSeq(first, Len(first) - s + 1, Len(first))

OneOf(results, otherwise) == IF results # {} THEN CHOOSE r \in results : TRUE ELSE otherwise

CombineLines(first, second, base) ==
    OneOf(SmartCombine(base, first, second), Appended(first, second))

-----------------------------------------------------------------------------
(* Making the document. *)

CleanSegment(origin, base, left, right, lines) ==
    [type |-> "clean", origin |-> origin, accepted |-> TRUE,
     base |-> base, left |-> left, right |-> right, lines |-> lines]

ConflictHunk(base, left, right) ==
    [type |-> "conflict", resolution |-> "unhandled", leftHandled |-> FALSE,
     rightHandled |-> FALSE, handled |-> FALSE,
     base |-> base, left |-> left, right |-> right, lines |-> base]

StrictlyBeforeTouching(es, fs) ==
    es # <<>> /\ (fs = <<>> \/ es[1].baseEnd <= fs[1].baseStart)

\* Whether the first edit of es ends before that of fs without touching it, or
\* both replace lines.
StrictlyBefore(es, fs) ==
    /\ es # <<>>
    /\ \/ fs = <<>>
       \/ es[1].baseEnd < fs[1].baseStart
       \/ es[1].baseEnd = fs[1].baseStart /\ ~Empty(es[1]) /\ ~Empty(fs[1])

\* The edits that overlap a cluster [start, end, emptyAtEnd] are absorbed by it.
Overlaps(e, c) ==
    \/ e.baseStart < c.end
    \/ e.baseStart = c.end /\ (Empty(e) \/ c.start = c.end \/ c.emptyAtEnd)

AbsorbEdit(e, c) ==
    IF e.baseEnd > c.end THEN [c EXCEPT !.end = e.baseEnd, !.emptyAtEnd = FALSE]
    ELSE [c EXCEPT !.emptyAtEnd = @ \/ (Empty(e) /\ e.baseEnd = c.end)]

AbsorbFirst(s) ==
    IF s.es = <<>> \/ ~Overlaps(s.es[1], s.c) THEN s
    ELSE [es |-> Tail(s.es), c |-> AbsorbEdit(s.es[1], s.c), last |-> {s.es[1]}]

\* The cluster with the edits of one side behind it; last is the last absorbed.
AbsorbSide(es, c, last) ==
    LET after[n \in Nat] == IF n = 0 THEN [es |-> es, c |-> c, last |-> last]
                            ELSE AbsorbFirst(after[n - 1])
    IN  after[Len(es)]

\* Both sides in turn.
AbsorbBoth(u) ==
    LET l == AbsorbSide(u.les, u.c, u.lastL)
        r == AbsorbSide(u.res, l.c, u.lastR)
    IN  [les |-> l.es, res |-> r.es, c |-> r.c, lastL |-> l.last, lastR |-> r.last]

\* Until neither has an edit that overlaps: every round but the last absorbs one.
CollectCluster(u) ==
    LET after[n \in Nat] == IF n = 0 THEN u ELSE AbsorbBoth(after[n - 1])
    IN  after[Len(u.les) + Len(u.res)]

Slice(s, from, to) == SubSeq(s, from + 1, to)

\* Where the lines of a cluster end on a side, and on all three.
SideEnd(cluster, last, p, start) ==
    IF last = {} THEN p + cluster.c.end - start
    ELSE CHOOSE q \in {e.sideEnd + cluster.c.end - e.baseEnd : e \in last} : TRUE

ClusterEnd(cluster, at, start) ==
    [base |-> cluster.c.end, left |-> SideEnd(cluster, cluster.lastL, at.left, start),
     right |-> SideEnd(cluster, cluster.lastR, at.right, start)]

ClusterSegment(bs, ls, rs) ==
    IF ls = rs THEN CleanSegment("both-identical", bs, ls, rs, ls) ELSE ConflictHunk(bs, ls, rs)

\* emitUnchangedUpTo: what the loop has come to, at a line of the base.
Unchanged(t, s, upTo) ==
    LET n  == Greater(upTo - s.pos.base, 0)
        at == [side \in DOMAIN s.pos |-> s.pos[side] + n]
    IN  IF n = 0 THEN s
        ELSE [s EXCEPT !.pos = at,
                       !.made = Append(@, CleanSegment("unchanged",
                                              Slice(t.base, s.pos.base, at.base),
                                              Slice(t.left, s.pos.left, at.left),
                                              Slice(t.right, s.pos.right, at.right),
                                              Slice(t.base, s.pos.base, at.base)))]

\* The first edit of one side is taken, where the other has the base.
LeftOnly(t, s) ==
    LET e  == s.les[1]
        to == [base |-> e.baseEnd, left |-> e.sideEnd,
               right |-> s.pos.right + e.baseEnd - e.baseStart]
    IN  [s EXCEPT !.les = Tail(@), !.pos = to,
                  !.made = Append(@, CleanSegment("left", Slice(t.base, e.baseStart, to.base),
                                         e.items, Slice(t.right, s.pos.right, to.right), e.items))]

RightOnly(t, s) ==
    LET e  == s.res[1]
        to == [base |-> e.baseEnd, left |-> s.pos.left + e.baseEnd - e.baseStart,
               right |-> e.sideEnd]
    IN  [s EXCEPT !.res = Tail(@), !.pos = to,
                  !.made = Append(@, CleanSegment("right", Slice(t.base, e.baseStart, to.base),
                                         Slice(t.left, s.pos.left, to.left), e.items, e.items))]

\* Edits of both sides overlap.
Clustered(t, s, start) ==
    LET cluster == CollectCluster(
            [les |-> s.les, res |-> s.res, lastL |-> {}, lastR |-> {},
             c |-> [start |-> start, end |-> Greater(s.les[1].baseEnd, s.res[1].baseEnd),
                    emptyAtEnd |-> FALSE]])
        to == ClusterEnd(cluster, s.pos, start)
    IN  [les |-> cluster.les, res |-> cluster.res, pos |-> to,
         made |-> Append(s.made, ClusterSegment(Slice(t.base, start, to.base),
                                                Slice(t.left, s.pos.left, to.left),
                                                Slice(t.right, s.pos.right, to.right)))]

MergeRound(t, s) ==
    LET starts == {es[1].baseStart : es \in {s.les, s.res} \ {<<>>}}
        start  == CHOOSE n \in starts : \A m \in starts : n <= m
        there  == Unchanged(t, s, start)
    IN  CASE s.les = <<>> /\ s.res = <<>> -> s
          [] StrictlyBefore(s.les, s.res) -> LeftOnly(t, there)
          [] StrictlyBefore(s.res, s.les) -> RightOnly(t, there)
          [] OTHER -> Clustered(t, there, start)

\* The rounds of the loop: each takes an edit.
MergedSegments(t, les, res) ==
    LET after[n \in Nat] ==
            IF n = 0 THEN [les |-> les, res |-> res, made |-> <<>>,
                           pos |-> [base |-> 0, left |-> 0, right |-> 0]]
            ELSE MergeRound(t, after[n - 1])
    IN  Unchanged(t, after[Len(les) + Len(res)], Len(t.base)).made

ThreeWayMerge(base, left, right) ==
    MergedSegments([base |-> base, left |-> left, right |-> right],
                   SequenceEdits(base, left), SequenceEdits(base, right))

ResolveTrailingNewline(b, l, r) ==
    CASE l.lines # <<>> /\ r.lines # <<>> -> l.newline \/ r.newline
      [] l.lines # <<>> /\ r.lines = <<>> -> l.newline
      [] l.lines = <<>> /\ r.lines # <<>> -> r.newline
      [] OTHER -> b.newline

\* renderMergedContent, with newline.
LinesIn(segs) == FlattenSeq([i \in DOMAIN segs |-> segs[i].lines])

\* A merge of something.
EditorInit ==
    /\ texts \in [base : Texts, left : Texts, right : Texts]
    /\ \E side \in DOMAIN texts : texts[side].lines # <<>>
    /\ segments = ThreeWayMerge(texts.base.lines, texts.left.lines, texts.right.lines)
    /\ newline = ResolveTrailingNewline(texts.base, texts.left, texts.right)
    /\ raw = [lines |-> LinesIn(segments), newline |-> newline]
    /\ edits = 0

-----------------------------------------------------------------------------
(* The user's steps. *)

Resolutions == {"unhandled", "left", "right", "both-left-first", "both-right-first", "base"}

\* getResolvedLinesForHunk, but for "custom".
ResolvedLines(hunk, resolution) ==
    CASE resolution = "left" -> hunk.left
      [] resolution = "right" -> hunk.right
      [] resolution = "both-left-first" -> CombineLines(hunk.left, hunk.right, hunk.base)
      [] resolution = "both-right-first" -> CombineLines(hunk.right, hunk.left, hunk.base)
      [] resolution \in {"base", "unhandled"} -> hunk.base

WithResolution(hunk, resolution, lines) ==
    LET done == resolution # "unhandled"
    IN  [hunk EXCEPT !.resolution = resolution, !.leftHandled = done, !.rightHandled = done,
                     !.handled = done, !.lines = lines]

\* inferConflictResolutionFromLines.
InferredResolution(hunk, lines) ==
    CASE lines = hunk.left -> "left"
      [] lines = hunk.right -> "right"
      [] OTHER ->
         IF lines = ResolvedLines(hunk, "both-left-first") THEN "both-left-first"
         ELSE IF lines = ResolvedLines(hunk, "both-right-first") THEN "both-right-first"
         ELSE IF lines = hunk.base THEN IF hunk.handled THEN "base" ELSE "unhandled"
         ELSE "custom"

Conflicts == {i \in DOMAIN segments : segments[i].type = "conflict"}

\* applyResolution and the like: the text follows the document.
Step(new) == /\ edits < MaxEdits /\ edits' = edits + 1
             /\ segments' = new
             /\ raw' = [lines |-> LinesIn(new), newline |-> newline]
             /\ UNCHANGED <<texts, newline>>

\* resolveConflictHunk.
Resolve(i, resolution) ==
    Step([segments EXCEPT ![i] = WithResolution(@, resolution, ResolvedLines(@, resolution))])

CustomHunk(hunk, resolution, lines) ==
    WithResolution(hunk, resolution, IF resolution = "custom" THEN lines
                                     ELSE ResolvedLines(hunk, resolution))

\* handleCustomHunkInput: a block typed in place of the hunk.
CustomInput(i, lines) ==
    Step([segments EXCEPT ![i] = CustomHunk(@, InferredResolution(@, lines), lines)])

WithoutSideUnfinished(hunk, side, handled) ==
    IF hunk.resolution = side THEN "unhandled"
    ELSE IF hunk.resolution \in {"both-left-first", "both-right-first"}
    THEN IF side = "left" THEN "right" ELSE "left"
    ELSE hunk.resolution

\* The resolution of a hunk one side of which is ignored.
WithoutSide(hunk, side, handled) ==
    LET kept == IF hunk.resolution = side THEN "unhandled"
                ELSE IF hunk.resolution \in {"both-left-first", "both-right-first"}
                THEN IF side = "left" THEN "right" ELSE "left"
                ELSE hunk.resolution
    IN  IF kept = "unhandled" /\ handled THEN "base" ELSE kept

\* ignoreConflictSide.
IgnoreSide(i, side) ==
    LET hunk == segments[i]
        leftHandled == hunk.leftHandled \/ side = "left"
        rightHandled == hunk.rightHandled \/ side = "right"
        handled == leftHandled /\ rightHandled
        resolution == WithoutSide(hunk, side, handled)
    IN  Step([segments EXCEPT ![i] =
                 [hunk EXCEPT !.resolution = resolution, !.leftHandled = leftHandled,
                              !.rightHandled = rightHandled, !.handled = handled,
                              !.lines = IF resolution = "custom" THEN @
                                        ELSE ResolvedLines(hunk, resolution)]])

\* toggleConflictHandled.
ToggleHandled(i) ==
    LET handled == ~segments[i].handled
        resolution == CASE segments[i].resolution = "unhandled" /\ handled -> "base"
                        [] segments[i].resolution = "base" /\ ~handled -> "unhandled"
                        [] OTHER -> segments[i].resolution
    IN  Step([segments EXCEPT ![i] =
                    [@ EXCEPT !.resolution = resolution, !.leftHandled = handled,
                              !.rightHandled = handled, !.handled = handled]])

\* toggleAutoMergedSegment.
ToggleAccepted(i) ==
    LET s == segments[i]
        accepted == ~s.accepted
    IN  /\ s.type = "clean" /\ s.origin # "unchanged"
        /\ Step([segments EXCEPT ![i] =
                    [s EXCEPT !.accepted = accepted,
                              !.lines = CASE ~accepted -> s.base
                                          [] accepted /\ s.origin = "right" -> s.right
                                          [] OTHER -> s.left]])

\* resolveAllConflicts: accept all of one side.
ResolveAll(side) ==
    /\ Conflicts # {}
    /\ Step([i \in DOMAIN segments |->
                IF i \in Conflicts THEN WithResolution(segments[i], side, segments[i][side])
                ELSE segments[i]])

LinesBefore(i) == Len(FlattenSeq([j \in 1..(i - 1) |-> segments[j].lines]))
RenderedLines == LinesIn(segments)

NewBoundaryUnordered(matches, i, prev, count) ==
    LET old    == LinesBefore(i)
        exact  == {m \in matches : m[1] = old + 1}
    IN  IF exact # {} THEN (CHOOSE m \in exact : TRUE)[2] - 1 ELSE Lesser(count, old)

\* Where segment i begins in new lines, behind the begin prev of the one before:
\* at the line its first line is matched with, or as far behind the last matched
\* line before it as it was.
NewBoundary(matches, i, prev, count) ==
    LET old    == LinesBefore(i)
        exact  == {m \in matches : m[1] = old + 1}
        before == {m \in matches : m[1] <= old}
        last   == CHOOSE m \in before : \A n \in before : n[1] <= m[1]
    IN  CASE exact # {} -> Greater(prev, (CHOOSE m \in exact : TRUE)[2] - 1)
          [] exact = {} /\ before # {} -> Lesser(count, Greater(prev, last[2] + old - last[1]))
          [] OTHER -> Lesser(count, Greater(prev, old))

\* Where each segment begins in new lines; all of them end with the last.
NewBoundaries(lines) ==
    LET matches == MatchedPairs(RenderedLines, lines)
        begin[i \in Nat] == CASE i <= 1 -> 0
                              [] i > Len(segments) -> Len(lines)
                              [] OTHER -> NewBoundary(matches, i, begin[i - 1], Len(lines))
    IN  begin

\* A segment gets other lines.
Synced(s, lines) ==
    CASE s.lines = lines -> s
      [] s.lines # lines /\ s.type = "clean" ->
         [s EXCEPT !.lines = lines,
                   !.accepted = \/ s.origin = "unchanged"
                                \/ lines = IF s.origin = "right" THEN s.right ELSE s.left]
      [] OTHER -> WithResolution(s, InferredResolution(s, lines), lines)

\* syncMergeDocumentFromResultText and handleRawEditorInput: the result was
\* edited as a text.
Sync(t) ==
    /\ edits < MaxEdits /\ edits' = edits + 1
    /\ t # raw
    /\ raw' = t
    /\ IF t.lines = RenderedLines THEN UNCHANGED <<segments, newline>>
       ELSE LET bounds == NewBoundaries(t.lines)
            IN  /\ segments' = [i \in DOMAIN segments |->
                                   Synced(segments[i], Slice(t.lines, bounds[i], bounds[i + 1]))]
                /\ newline' = IF t.lines = <<>> THEN newline ELSE t.newline
    /\ UNCHANGED texts

EditorNext ==
    \/ \E i \in Conflicts : \/ \E r \in Resolutions : Resolve(i, r)
                            \/ \E t \in Inputs : CustomInput(i, t.lines)
                            \/ \E side \in {"left", "right"} : IgnoreSide(i, side)
                            \/ ToggleHandled(i)
    \/ \E i \in DOMAIN segments : ToggleAccepted(i)
    \/ \E side \in {"left", "right"} : ResolveAll(side)
    \/ \E t \in Inputs : Sync(t)

EditorSpec == EditorInit /\ [][EditorNext]_editorVars
-----------------------------------------------------------------------------
\* The types of the fields.
SegmentsTyped ==
    /\ newline \in BOOLEAN /\ edits \in 0..MaxEdits
    /\ \A s \in Range(segments) :
          \/ s.type = "clean" /\ s.origin \in {"unchanged", "left", "right", "both-identical"}
          \/ s.type = "conflict" /\ s.resolution \in Resolutions \cup {"custom"}

Lines(part) == FlattenSeq([i \in DOMAIN segments |-> segments[i][part]])

\* "Non-conflicting changes (where only one side modified a region, or both sides
\* made the exact same modification) are automatically merged": the segments
\* consist of all the lines of the three texts in their order, what is taken from
\* one side was left alone by the other, and a side that is all there is to merge
\* is the result.
MergeTakesAll ==
    /\ \A side \in DOMAIN texts : Lines(side) = texts[side].lines
    /\ \A s \in Range(segments) :
          IF s.type = "conflict" THEN s.left # s.right
          ELSE /\ s.origin \in {"unchanged", "left"} => s.right = s.base
               /\ s.origin \in {"unchanged", "right"} => s.left = s.base
               /\ s.origin = "both-identical" => s.left = s.right
    /\ edits = 0 =>
          /\ texts.base.lines = texts.left.lines => RenderedLines = texts.right.lines
          /\ texts.base.lines = texts.right.lines => RenderedLines = texts.left.lines
          /\ texts.left.lines = texts.right.lines => RenderedLines = texts.left.lines

\* However a hunk came to its lines, its resolution says what they are, and it
\* counts as handled exactly when both sides do; an unhandled resolution never
\* does, so that no conflict is passed over.
ResolutionsAreTrue ==
    /\ SegmentsTyped
    /\ \A i \in Conflicts :
        LET hunk == segments[i]
        IN  /\ hunk.resolution # "custom" => hunk.lines = ResolvedLines(hunk, hunk.resolution)
            /\ hunk.handled = (hunk.leftHandled /\ hunk.rightHandled)
            /\ hunk.resolution = "unhandled" => ~hunk.handled
            /\ hunk.resolution = "base" => hunk.handled

\* The text and the document have the same lines: editing the result as a text
\* never loses or moves a line that was typed.
TextIsDocument == raw.lines = RenderedLines

\* They agree on the newline at the end too.
NewlineIsKept == raw.lines # <<>> => raw.newline = newline

\* A line that is in both revisions is found where it is, the others keep their
\* order among them and stay within the text.
DriftFollowsText ==
    edits = 0 =>
        LET old   == texts.base.lines
            new   == texts.left.lines
            to(n) == MapLineAcrossHunks(n, DiffHunks(old, new))
        IN  /\ \A m \in MatchedPairs(old, new) : to(m[1]) = m[2]
            /\ \A n \in 1..Len(old) : to(n) \in 1..Greater(1, Len(new))
            /\ \A n \in 1..(Len(old) - 1) : to(n) <= to(n + 1)
=============================================================================

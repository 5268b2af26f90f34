---------------------------- MODULE SequenceDiff ----------------------------
(***************************************************************************)
(* web/src/merge/three-way-merge.ts: the shortest edit script between two  *)
(* sequences, of lines or of words, by Myers' algorithm.                   *)
(*                                                                         *)
(* The furthest points after d edits are a set of pairs <<k, x>>, one for  *)
(* each diagonal k; matched pairs are a set of <<index, index>> from 1.    *)
(* An edit names the items after which it starts and those it ends with,   *)
(* so that it is empty on a side when both are the same.                   *)
(***************************************************************************)
EXTENDS Integers, SequencesExt

Lesser(m, n) == IF m < n THEN m ELSE n
Greater(m, n) == IF m > n THEN m ELSE n

CommonPrefix(a, b) == Len(LongestCommonPrefix({a, b}))

\* Of what is left behind the first p items.
CommonSuffix(a, b, p) ==
    CommonPrefix(Reverse(SubSeq(a, p + 1, Len(a))), Reverse(SubSeq(b, p + 1, Len(b))))

At(v, k) == (CHOOSE point \in v : point[1] = k)[2]

\* Whether d edits reach diagonal k best by an insertion.
CameFromAbove(v, k, d) == k = -d \/ (k # d /\ At(v, k - 1) < At(v, k + 1))

StartX(v, k, d) == IF CameFromAbove(v, k, d) THEN At(v, k + 1) ELSE At(v, k - 1) + 1

EndOfSnake(a, b, x, y) ==
    x + CommonPrefix(SubSeq(a, x + 1, Len(a)), SubSeq(b, y + 1, Len(b)))

Diagonals(d) == {k \in -d..d : (d - k) % 2 = 0}

StepDepth(a, b, v, d) ==
    {<<k, EndOfSnake(a, b, StartX(v, k, d), StartX(v, k, d) - k)>> : k \in Diagonals(d)}

Arrives(a, b, v) == \E point \in v : point[2] >= Len(a) /\ point[2] - point[1] >= Len(b)

\* The furthest points before each depth, and after the first that reaches both ends.
EditTrace(a, b) ==
    LET after[n \in Nat] ==
            IF n = 0 THEN <<{<<1, 0>>}>>
            ELSE LET trace == after[n - 1]
                 IN  IF Arrives(a, b, Last(trace)) THEN trace
                     ELSE Append(trace, StepDepth(a, b, Last(trace), Len(trace) - 1))
    IN  after[Len(a) + Len(b) + 1]

Snake(x, y, n) == {<<x - i, y - i>> : i \in 0..(n - 1)}

\* The way back from both ends: where it is before the edits of a depth.
PointBefore(v, d, point) ==
    LET diagonal == point[1] - point[2]
        k == IF CameFromAbove(v, diagonal, d) THEN diagonal + 1 ELSE diagonal - 1
    IN  <<At(v, k), At(v, k) - k>>

Backtrack(trace, a, b) ==
    LET foundD == Len(trace) - 2
        at[d \in 0..foundD] == IF d = foundD THEN <<Len(a), Len(b)>>
                               ELSE PointBefore(trace[d + 2], d + 1, at[d + 1])
        Run(d) == LET from == at[d]
                      to == IF d = 0 THEN <<0, 0>> ELSE at[d - 1]
                  IN  Snake(from[1], from[2], Lesser(from[1] - to[1], from[2] - to[2]))
    IN  UNION {Run(d) : d \in 0..foundD}

MatchedMiddle(a, b) ==
    IF a = <<>> \/ b = <<>> THEN {} ELSE Backtrack(EditTrace(a, b), a, b)

\* The first p items match, the last s, and what the trace finds between them.
PairsAround(a, b, p, s) ==
    {<<i, i>> : i \in 1..p}
        \cup {<<m[1] + p, m[2] + p>> :
                 m \in MatchedMiddle(SubSeq(a, p + 1, Len(a) - s), SubSeq(b, p + 1, Len(b) - s))}
        \cup Snake(Len(a), Len(b), s)

MatchedPairs(a, b) ==
    LET p == CommonPrefix(a, b) IN PairsAround(a, b, p, CommonSuffix(a, b, p))

\* What lies between one anchor and the next, when something does.
EditsBetween(b, anchors) ==
    LET Edit(m, n) == [baseStart |-> m[1], baseEnd |-> n[1] - 1,
                       sideStart |-> m[2], sideEnd |-> n[2] - 1,
                       items     |-> SubSeq(b, m[2] + 1, n[2] - 1)]
        Between(m, n) == IF n = <<m[1] + 1, m[2] + 1>> THEN <<>> ELSE <<Edit(m, n)>>
    IN  FlattenSeq([i \in 1..(Len(anchors) - 1) |-> Between(anchors[i], anchors[i + 1])])

\* The matched pairs in their order, from before the first item to behind the last.
Anchors(a, b) ==
    LET pairs == MatchedPairs(a, b)
        At1(i) == {m \in pairs : m[1] = i}
    IN  <<<<0, 0>>>>
            \o FlattenSeq([i \in 1..Len(a) |-> IF At1(i) = {} THEN <<>>
                                               ELSE <<CHOOSE m \in At1(i) : TRUE>>])
            \o <<<<Len(a) + 1, Len(b) + 1>>>>

\* computeSequenceEdits.
SequenceEdits(a, b) == EditsBetween(b, Anchors(a, b))
=============================================================================

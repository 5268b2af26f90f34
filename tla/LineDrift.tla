----------------------------- MODULE LineDrift -----------------------------
(***************************************************************************)
(* utils/line-drift.ts: where a line of an old revision is in a new one,   *)
(* from the hunks of a diff without context.  The hunks are git's; here    *)
(* they are made from the edits of SequenceDiff in git's notation.         *)
(***************************************************************************)
EXTENDS SequenceDiff

\* A side without lines is given by the line before it.
HunkOf(e) ==
    [oldStart |-> IF e.baseStart = e.baseEnd THEN e.baseStart ELSE e.baseStart + 1,
     oldCount |-> e.baseEnd - e.baseStart,
     newStart |-> IF e.sideStart = e.sideEnd THEN e.sideStart ELSE e.sideStart + 1,
     newCount |-> e.sideEnd - e.sideStart]

HunksOf(edits) == [i \in 1..Len(edits) |-> HunkOf(edits[i])]

DiffHunks(old, new) == HunksOf(SequenceEdits(old, new))

AtLeastOne(n) == IF n < 1 THEN 1 ELSE n

\* From the hunks on, with what those before have moved the line by.
DriftAfter(line, hunks) ==
    LET from[i \in 1..(Len(hunks) + 1)] ==
            [delta \in Int |->
                IF i > Len(hunks) THEN AtLeastOne(line + delta)
                ELSE LET hunk == hunks[i]
                         skip == from[i + 1][delta + hunk.newCount - hunk.oldCount]
                         offset == line - hunk.oldStart
                     IN  IF hunk.oldCount = 0
                         THEN IF line <= hunk.oldStart THEN AtLeastOne(line + delta) ELSE skip
                         ELSE IF line < hunk.oldStart THEN AtLeastOne(line + delta)
                         ELSE IF offset >= hunk.oldCount THEN skip
                         ELSE IF hunk.newCount = 0 THEN AtLeastOne(hunk.newStart)
                         ELSE AtLeastOne(hunk.newStart + Lesser(offset, hunk.newCount - 1))]
    IN  from[1][0]

MapLineFromZero(line, hunks) == 1 + DriftAfter(line - 1, hunks)

MapLineAcrossHunks(line, hunks) ==
    IF line <= 0 \/ hunks = <<>> THEN line ELSE DriftAfter(line, hunks)
=============================================================================

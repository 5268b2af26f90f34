--------------------------- MODULE MCThreeWayMerge ---------------------------
(* Values for ThreeWayMerge: texts of lines of one word, three of three lines  *)
(* and one of a line of two words.                                             *)
EXTENDS ThreeWayMerge

a == <<"a">>
b == <<"b">>
Text(lines) == [lines |-> lines, newline |-> lines # <<>>]
MCTexts == {Text(lines) : lines \in BoundedSeq({a, b}, 2)
                                       \cup {<<a, b, a>>, <<a, a, b>>, <<b, b, a>>, <<<<"a", " ", "b">>>>}}
MCInputs == {Text(<<>>), Text(<<b>>), Text(<<a, b, a>>), [lines |-> <<b, a>>, newline |-> FALSE]}
=============================================================================

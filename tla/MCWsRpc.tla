------------------------------- MODULE MCWsRpc -------------------------------
(* Values for WsRpc: two responses, the longer of three chunks. *)
EXTENDS WsRpc

Ascii == [a |-> 1, b |-> 1]
TwoReplies == [r1 |-> <<"a", "b", "a">>, r2 |-> <<"b", "a">>]

OneReply == [r1 |-> <<"a", "b">>]

\* "a" then a character of two bytes: the cut falls between them.
Accented == [a |-> 1, e |-> 2]
AccentedReply == [r1 |-> <<"a", "e">>]
=============================================================================

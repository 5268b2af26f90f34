------------------------------ MODULE WsFrames ------------------------------
(***************************************************************************)
(* How a response crosses /api/ws: splitResponse of                        *)
(* internal/server/ws_rpc.go cuts its UTF-8 encoding into $/chunk frames   *)
(* of ChunkSize bytes, and WsRpcChannel of src/core/host/ws-rpc-channel.ts *)
(* joins them.  A text is a sequence of characters, Width[ch] the bytes of *)
(* its encoding; byte k of it is the pair <<ch, k>>.                       *)
(***************************************************************************)
EXTENDS Naturals, Sequences, SequencesExt

CONSTANTS Width,           \* bytes of each character's UTF-8 encoding
          ChunkSize        \* wsChunkSize

ASSUME FramesAssumption == /\ \A ch \in DOMAIN Width : Width[ch] \in 1..4
                           /\ ChunkSize \in Nat \ {0}

Replacement == "U+FFFD"    \* what encoding/json writes for a byte that is not UTF-8

Utf8(text) == FlattenSeq([i \in DOMAIN text |->
                              [k \in 1..Width[text[i]] |-> <<text[i], k>>]])

\* A JSON string made of raw bytes: each byte of a cut character is replaced.
Whole(bytes, i) ==         \* the character at byte i is all there
    LET ch == bytes[i][1]  first == i + 1 - bytes[i][2]
    IN first >= 1 /\ first + Width[ch] - 1 <= Len(bytes)

JsonString(bytes) ==
    FlattenSeq([i \in DOMAIN bytes |->
        IF ~Whole(bytes, i) THEN <<Replacement>>
        ELSE IF bytes[i][2] = 1 THEN <<bytes[i][1]>> ELSE <<>>])

Plain(id, text) == [id |-> id, chunk |-> FALSE, seq |-> 0, last |-> TRUE, data |-> text]

\* splitResponse
Split(id, text) ==
    LET bytes == Utf8(text)
        n == (Len(bytes) + ChunkSize - 1) \div ChunkSize
        End(i) == IF i = n THEN Len(bytes) ELSE i * ChunkSize
    IN IF Len(bytes) <= ChunkSize
       THEN <<Plain(id, text)>>
       ELSE [i \in 1..n |->
               [id |-> id, chunk |-> TRUE, seq |-> i - 1, last |-> i = n,
                data |-> JsonString(SubSeq(bytes, (i - 1) * ChunkSize + 1, End(i)))]]

\* parts[seq] = data, and parts.join(''): a hole joins as nothing.
NoParts == <<>>
AddPart(parts, frame) ==
    [i \in 1..(IF Len(parts) > frame.seq THEN Len(parts) ELSE frame.seq + 1) |->
        IF i = frame.seq + 1 THEN frame.data
        ELSE IF i <= Len(parts) THEN parts[i] ELSE <<>>]
Complete(parts) == \A i \in DOMAIN parts : parts[i] # <<>>
=============================================================================

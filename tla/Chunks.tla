------------------------------- MODULE Chunks -------------------------------
(***************************************************************************)
(* utils.chunkByByteLength (src/src/utils/utils.ts:50-74), which splits    *)
(* the orders that are posted to Mesh.  One action is one turn of its      *)
(* loop.  An item stands for its position and its length in bytes.         *)
(***************************************************************************)
EXTENDS Integers, Sequences, SequencesExt

CONSTANTS
    MaxLength,  \* maxByteLength
    Lengths,    \* of items
    MaxItems    \* bound: items of a call

ASSUME ChunksAssumption ==
    MaxLength \in Nat /\ Lengths \subseteq Nat /\ MaxItems \in Nat

VARIABLE
    chunking   \* the items, those left, the chunks, and the current one

ChunksInit(sizes) ==
    chunking \in UNION {
        [items : {[i \in DOMAIN s |-> <<i, s[i]>>]}, left : {[i \in DOMAIN s |-> <<i, s[i]>>]},
         chunks : {<<>>}, current : {<<>>}, length : {0}, done : {FALSE}] :
        s \in UNION {[1 .. n -> Lengths] : n \in sizes}}

\* Mutant: The item that did not fit opens no chunk of its own.
ChunkItemDropping ==
    LET c == chunking  length == c.length + Head(c.left)[2] IN
    /\ c.left # <<>>
    /\ chunking' =
         IF length > MaxLength
         THEN [c EXCEPT !.chunks = Append(@, c.current), !.current = <<>>, !.length = 0,
                        !.left = Tail(@)]
         ELSE [c EXCEPT !.left = Tail(@), !.current = Append(@, Head(c.left)),
                        !.length = length]

ChunkItem ==
    LET c == chunking  length == c.length + Head(c.left)[2] IN
    /\ c.left # <<>>
    /\ chunking' =
         IF length > MaxLength
         THEN [c EXCEPT !.chunks = Append(@, c.current), !.current = <<>>, !.length = 0]
         ELSE [c EXCEPT !.left = Tail(@), !.current = Append(@, Head(c.left)),
                        !.length = length]

LastChunk ==
    LET c == chunking IN
    /\ c.left = <<>> /\ ~c.done
    /\ chunking' = [c EXCEPT !.chunks = IF c.current # <<>> THEN Append(@, c.current) ELSE @,
                             !.current = <<>>, !.done = TRUE]

ChunksNext == ChunkItem \/ LastChunk

ByteLength(chunk) == SumFunction([i \in DOMAIN chunk |-> chunk[i][2]])

\* Of items that fit into a chunk each, none is lost, repeated or moved, and no
\* chunk is empty or longer than Mesh takes (utils.ts:50-74, mesh_client.ts:32).
ChunksPartitionTheItems ==
    (\A i \in DOMAIN chunking.items : chunking.items[i][2] <= MaxLength) =>
        /\ FlattenSeq(chunking.chunks) \o chunking.current \o chunking.left
               = chunking.items
        /\ \A i \in DOMAIN chunking.chunks :
               chunking.chunks[i] # <<>> /\ ByteLength(chunking.chunks[i]) <= MaxLength
=============================================================================

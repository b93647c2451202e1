------------------------------ MODULE Chunker ------------------------------
(***************************************************************************)
(* The loop of TextChunker.chunk (backend/app/knowledge/chunker.py), which  *)
(* cuts the words of a document into overlapping chunks.  A word is its     *)
(* position, a chunk the positions from..to-1 with its chunk_index.         *)
(***************************************************************************)
EXTENDS Integers

VARIABLES
    size, overlap, words, \* the settings and the number of words; constant
    start, idx,           \* of the next chunk
    chunks,               \* the list of chunks, as a set of records with their index
    done                  \* the loop has ended

config == <<size, overlap, words>>
vars == <<size, overlap, words, start, idx, chunks, done>>

step == size - overlap
Minimum(a, b) == IF a <= b THEN a ELSE b

\* The constructor refuses every other pair of settings with ChunkerConfigError.
Valid == size > 0 /\ overlap >= 0 /\ overlap < size

Init ==
    /\ size \in Int /\ overlap \in Int /\ Valid
    /\ words \in Nat
    /\ start = 0 /\ idx = 0 /\ chunks = {}
    /\ done = FALSE

\* One round of the loop, which ends with the chunk that takes the last word.
Chunk ==
    LET end == Minimum(start + size, words) IN
    /\ ~done /\ start < words
    /\ chunks' = chunks \cup {[index |-> idx, from |-> start, to |-> end]}
    /\ idx' = idx + 1
    /\ IF end = words THEN done' = TRUE /\ start' = start
       ELSE done' = FALSE /\ start' = start + step
    /\ UNCHANGED config

\* There are no words, or the loop condition fails.
Finish ==
    /\ ~done /\ ~(start < words)
    /\ done' = TRUE
    /\ UNCHANGED <<size, overlap, words, start, idx, chunks>>

Next == Chunk \/ Finish

Spec == Init /\ [][Next]_vars

-----------------------------------------------------------------------------
\* The module's documentation: "at most chunk_size words", and no empty chunk.
ChunksFit == \A c \in chunks : c.from >= 0 /\ c.from < c.to /\ c.to <= words /\ c.to - c.from <= size

\* No word of the document is lost to the search.
NoWordLost ==
    done => \A i \in 0..(words - 1) : \E c \in chunks : c.from <= i /\ i < c.to

\* "Consecutive chunks overlap by `overlap` words", the last one included, and each
\* has words that its predecessor lacks: the loop adds no chunk that only repeats.
OverlapExact ==
    \A c \in chunks, d \in chunks :
        d.index = c.index + 1 => c.to - d.from = overlap /\ c.to < d.to

\* Every round moves on by at least one word or ends the loop, for every setting
\* the constructor accepts; so the loop ends after at most as many rounds as words.
Progress == [][done' \/ (start' > start /\ start' < words)]_vars
=============================================================================

----------------------------- MODULE ResponseCache -----------------------------
(***************************************************************************)
(* What a cache of HTTP responses promises its readers: a response becomes *)
(* visible under its hash at once and whole, and a reader who found one is *)
(* given the bytes of the range it asked for, in order, all of them bytes  *)
(* of that response, until it has them all or the cache gives up.          *)
(***************************************************************************)
EXTENDS Naturals, Sequences

CONSTANTS
    Readers,
    Hashes,     \* what requests are told apart by
    Origin,     \* Origin[h]: the responses to requests of hash h
    BodyLen,    \* BodyLen[r]: the number of body bytes of r
    NONE        \* no response, no reader

VARIABLES
    stored,     \* the response visible under each hash
    reader      \* what each reader has found, asked for and been given

cache == <<stored, reader>>

Init ==
    /\ stored = [h \in Hashes |-> NONE]
    /\ reader = [w \in Readers |-> NONE]

(* The bytes from .. to - 1 of a response.                                 *)
Slice(r, from, to) == [i \in 1 .. (to - from) |-> <<r, from + i - 1>>]

Store(h) ==
    /\ \E r \in Origin[h] : stored' = [stored EXCEPT ![h] = r]
    /\ UNCHANGED reader

(* Responses expire, or the cache is emptied.                              *)
Drop ==
    /\ \E dropped \in SUBSET Hashes :
          stored' = [h \in Hashes |-> IF h \in dropped THEN NONE ELSE stored[h]]
    /\ UNCHANGED reader

Find(w, h) ==
    /\ reader[w] = NONE
    /\ stored[h] # NONE
    /\ reader' = [reader EXCEPT ![w] =
          [response |-> stored[h], begin |-> 0, end |-> 0, bytes |-> <<>>]]
    /\ UNCHANGED stored

Ask(w) ==
    /\ reader[w] # NONE
    /\ reader[w].end = 0
    /\ \E end \in 1 .. BodyLen[reader[w].response] : \E begin \in 0 .. (end - 1) :
          reader' = [reader EXCEPT ![w].begin = begin, ![w].end = end]
    /\ UNCHANGED stored

(* At least one byte more of the range.                                    *)
Deliver(w) ==
    LET given == reader[w].begin + Len(reader[w].bytes) IN
    /\ reader[w] # NONE
    /\ \E to \in (given + 1) .. reader[w].end :
          reader' = [reader EXCEPT ![w].bytes = @ \o Slice(reader[w].response, given, to)]
    /\ UNCHANGED stored

(* The reader leaves.                                                      *)
Leave(w) ==
    /\ reader' = [reader EXCEPT ![w] = NONE]
    /\ UNCHANGED stored

Next ==
    \/ \E h \in Hashes : Store(h)
    \/ Drop
    \/ \E w \in Readers, h \in Hashes : Find(w, h)
    \/ \E w \in Readers : Ask(w) \/ Deliver(w) \/ Leave(w)

Spec == Init /\ [][Next]_cache
=============================================================================

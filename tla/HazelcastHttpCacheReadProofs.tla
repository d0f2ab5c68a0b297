--------------------- MODULE HazelcastHttpCacheReadProofs ---------------------
(***************************************************************************)
(* Proofs about the readers of HazelcastHttpCache, where the upstream has  *)
(* one response to each hash: reads of servable ranges are exact, and the  *)
(* cache implements ResponseCache.                                         *)
(***************************************************************************)
EXTENDS HazelcastHttpCacheProofs, SequenceTheorems

(* The upstream never changes a response.                                  *)
StaticOrigin == \A h \in Hashes : \A r, s \in Origin[h] : r = s

-----------------------------------------------------------------------------
(* Quotients and remainders by the partition size.                         *)
LEMMA DivMod ==
    ASSUME NEW p \in Nat \ {0}, NEW n \in Nat
    PROVE  /\ n \div p \in Nat /\ n % p \in Nat
           /\ n % p < p
           /\ n = (n \div p) * p + (n % p)
  <1>1. n \div p \in Nat
    OBVIOUS
  <1>2. n % p \in Nat /\ n % p < p
    OBVIOUS
  <1>3. n = (n \div p) * p + (n % p)
    OBVIOUS
  <1> QED BY <1>1, <1>2, <1>3

LEMMA DivModUnique ==
    ASSUME NEW p \in Nat \ {0}, NEW q \in Nat, NEW r \in Nat, r < p
    PROVE  (q * p + r) \div p = q /\ (q * p + r) % p = r
  <1> DEFINE n == q * p + r
  <1>1. n \in Nat
    OBVIOUS
  <1>2. /\ n \div p \in Nat /\ n % p \in Nat /\ n % p < p
        /\ n = (n \div p) * p + (n % p)
    BY <1>1, DivMod
  <1>3. n \div p = q
    <2> DEFINE d == n \div p
               m == n % p
    <2>1. d \in Nat /\ m \in Nat /\ m < p /\ d * p + m = q * p + r
      BY <1>2
    <2> HIDE DEF d, m, n
    <2>2. d * p < q * p + p /\ q * p < d * p + p
      BY <2>1, Multiples
    <2>3. d <= q /\ q <= d
      BY <2>1, <2>2, Multiples
    <2> QED BY <2>1, <2>3 DEF d
  <1>4. n % p = r
    <2> HIDE DEF n
    <2> QED BY <1>2, <1>3 DEF n
  <1> QED BY <1>3, <1>4

LEMMA MultipleMod ==
    ASSUME NEW p \in Nat \ {0}, NEW q \in Nat
    PROVE  (q * p) % p = 0
  <1>1. q * p \in Nat
    OBVIOUS
  <1>2. PICK z \in Nat : z = 0
    OBVIOUS
  <1>3. z < p
    BY <1>2
  <1>4. (q * p + z) % p = z
    BY <1>3, DivModUnique
  <1>5. q * p + z = q * p
    BY <1>1, <1>2
  <1> QED BY <1>2, <1>4, <1>5

-----------------------------------------------------------------------------
(* n bytes of a response.                                                  *)
BytesFrom(r, from, n) == [i \in 1 .. n |-> <<r, from + i - 1>>]

(* Where a lookup stands, before and after the header is found.            *)
Fresh(c) == c.begin = 0 /\ c.end = 0 /\ c.start = 0 /\ c.full_body = <<>>

Found(c) ==
    c.headers \in Origin[c.hash_key] /\ c.total_body_size = BodyLen[c.headers]

(* The bytes given so far: after the first getBody the next one begins at  *)
(* a partition, so that it needs no offset.                                *)
Exact(c) ==
    /\ c.begin <= c.start /\ c.start <= c.end
    /\ c.full_body = BytesFrom(c.headers, c.begin, c.start - c.begin)
    /\ c.start \in {c.begin, c.end} \/ c.start % BODY_PARTITION_SIZE = 0

ReadOK(p, c) ==
    /\ p \in LookupPCs => Fresh(c)
    /\ p \in {"hit"} \cup ReadPCs => Found(c)
    /\ p \in ReadPCs => c.begin < c.end /\ c.end <= c.total_body_size
    /\ p \in ReadPCs /\ ServableRange(c) =>
          /\ p \notin {"oversized", "faulted"}
          /\ Exact(c)
          /\ p = "read" => c.start < c.end

ReadInv == \A w \in Workers : ReadOK(pc[w], lookup[w])


-----------------------------------------------------------------------------
(* The partition a read begins in, and what getBody copies out of it: when *)
(* the read begins at the partition or goes beyond it, the next bytes of   *)
(* the response, at least one of them, up to the end of the range or of    *)
(* the partition.                                                          *)
LEMMA CopiedBytesExact ==
    ASSUME NEW r \in Responses, NEW start \in Nat, NEW end \in Nat,
           start < end, end <= BodyLen[r],
           start % BODY_PARTITION_SIZE = 0 \/ ~OneChunkSatisfies(start, end),
           NEW body, body = Partition(r, body_index(start))
    PROVE  \E n \in Nat \ {0} :
              /\ CopyLength(Len(body), start, end) = n
              /\ ~ReadsOutside(body, start, end)
              /\ start + n <= end
              /\ start + n = end \/ (start + n) % BODY_PARTITION_SIZE = 0
              /\ CopiedBuffer(body, start, end) = BytesFrom(r, start, n)
  <1> DEFINE p == BODY_PARTITION_SIZE
             q == start \div p
             o == start % p
             first == q * p
             L == IF BodyLen[r] - first < p THEN BodyLen[r] - first ELSE p
  <1>0. p \in Nat \ {0} /\ BodyLen[r] \in Nat
    BY PartitionSize, ResponseAssumption
  <1>1. q \in Nat /\ o \in Nat /\ o < p /\ start = first + o /\ first \in Nat
        /\ (q + 1) * p = first + p
    <2> HIDE DEF p
    <2>1. q \in Nat /\ o \in Nat /\ o < p /\ start = first + o
      BY <1>0, DivMod
    <2> HIDE DEF q
    <2> QED BY <1>0, <2>1, Multiples
  <1>2. body = [i \in 1 .. L |-> <<r, first + i - 1>>]
    BY DEF Partition, body_index
  <1>3. (OneChunkSatisfies(start, end) <=> end < first + p)
        /\ CopyLength(Len(body), start, end) =
              IF OneChunkSatisfies(start, end) THEN end % p ELSE Len(body) - o
    BY <1>1 DEF OneChunkSatisfies, CopyLength, body_index
  <1>4. /\ \A n \in Nat : CopyLength(Len(body), start, end) = n =>
              /\ ReadsOutside(body, start, end) <=> o + n > Len(body)
              /\ CopiedBuffer(body, start, end) =
                    [i \in 1 .. n |-> IF o + i <= Len(body) THEN body[o + i] ELSE JUNK]
    BY DEF ReadsOutside, CopiedBuffer
  <1>5. q * p = first
    OBVIOUS
  <1> HIDE DEF p, q, o, first
  <1>6. L \in Nat /\ first + L <= BodyLen[r] /\ L <= p
    BY <1>0, <1>1
  <1> HIDE DEF L
  <1>7. Len(body) = L
    <2>1. body \in [1 .. L -> {<<r, first + i - 1>> : i \in 1 .. L}]
      BY <1>2
    <2> QED BY <1>6, <2>1, SeqOfFunction
  <1>8. \E n \in Nat \ {0} : /\ CopyLength(Len(body), start, end) = n
                             /\ o + n <= L
                             /\ start + n <= end
                             /\ start + n = end \/ (start + n) % p = 0
    <2>1. CASE OneChunkSatisfies(start, end)
      <3>1. o = 0 /\ end < first + p /\ start = first
        BY <1>1, <1>3, <2>1 DEF o, p
      <3>2. end - first \in Nat /\ end - first < p /\ end = first + (end - first)
        BY <1>0, <1>1, <3>1
      <3>3. (q * p + (end - first)) % p = end - first
        BY <1>0, <1>1, <3>2, DivModUnique
      <3>4. end % p = end - first
        BY <1>5, <3>2, <3>3
      <3>5. CopyLength(Len(body), start, end) = end - first
        BY <1>3, <2>1, <3>4
      <3>6. end - first <= L
        BY <1>0, <1>1, <3>1 DEF L
      <3> QED BY <1>1, <3>1, <3>2, <3>5, <3>6
    <2>2. CASE ~OneChunkSatisfies(start, end)
      <3>1. first + p <= end
        BY <1>0, <1>1, <1>3, <2>2
      <3>2. L = p
        BY <1>0, <1>1, <3>1 DEF L
      <3>3. CopyLength(Len(body), start, end) = p - o
        BY <1>3, <1>7, <2>2, <3>2
      <3>4. start + (p - o) = first + p
        BY <1>0, <1>1
      <3>5. ((q + 1) * p) % p = 0
        BY <1>0, <1>1, MultipleMod
      <3>6. (start + (p - o)) % p = 0
        BY <1>0, <1>1, <3>4, <3>5
      <3>7. p - o \in Nat \ {0}
        BY <1>0, <1>1
      <3> QED BY <1>0, <1>1, <3>1, <3>2, <3>3, <3>4, <3>6, <3>7
    <2> QED BY <2>1, <2>2
  <1>9. PICK n \in Nat \ {0} : /\ CopyLength(Len(body), start, end) = n
                               /\ o + n <= L
                               /\ start + n <= end
                               /\ start + n = end \/ (start + n) % p = 0
    BY <1>8
  <1>10. \A i \in 1 .. n : o + i <= Len(body) /\ body[o + i] = <<r, start + i - 1>>
    <2> SUFFICES ASSUME NEW i \in 1 .. n
                 PROVE  o + i <= Len(body) /\ body[o + i] = <<r, start + i - 1>>
      OBVIOUS
    <2>1. o + i \in 1 .. L
      BY <1>1, <1>6, <1>9
    <2>2. first + (o + i) - 1 = start + i - 1
      BY <1>1
    <2>3. body[o + i] = <<r, first + (o + i) - 1>>
      BY <1>2, <2>1, Zenon
    <2> QED BY <1>6, <1>7, <2>1, <2>2, <2>3
  <1>11. CopiedBuffer(body, start, end) = BytesFrom(r, start, n)
    BY <1>4, <1>9, <1>10 DEF BytesFrom
  <1>12. ~ReadsOutside(body, start, end)
    <2>1. ReadsOutside(body, start, end) => o + n > Len(body)
      BY <1>4, <1>9
    <2>2. ~(o + n > Len(body))
      BY <1>1, <1>6, <1>7, <1>9
    <2> QED BY <2>1, <2>2
  <1> QED BY <1>9, <1>11, <1>12 DEF p

(* Consecutive bytes of a response.                                        *)
LEMMA BytesOf ==
    ASSUME NEW r \in Responses, NEW b \in Nat, NEW n \in Nat
    PROVE  /\ BytesFrom(r, b, n) \in Seq(Byte)
           /\ Len(BytesFrom(r, b, n)) = n
           /\ \A i \in 1 .. n : BytesFrom(r, b, n)[i] = <<r, b + i - 1>>
  <1>1. BytesFrom(r, b, n) \in [1 .. n -> Byte]
    BY DEF Byte, BytesFrom
  <1>2. BytesFrom(r, b, n) \in Seq(Byte) /\ Len(BytesFrom(r, b, n)) = n
    BY <1>1, SeqOfFunction
  <1> QED BY <1>2 DEF BytesFrom

LEMMA BytesLen ==
    \A r \in Responses : \A b, n \in Nat :
        BytesFrom(r, b, n) \in Seq(Byte) /\ Len(BytesFrom(r, b, n)) = n
  BY BytesOf

LEMMA JoinedBytes ==
    ASSUME NEW given \in Seq(Byte), NEW data \in Seq(Byte), NEW all \in Seq(Byte),
           Len(all) = Len(given) + Len(data),
           \A i \in 1 .. Len(given) : given[i] = all[i],
           \A i \in 1 .. Len(data) : data[i] = all[Len(given) + i]
    PROVE  given \o data = all
  <1>1. /\ given \o data \in Seq(Byte) /\ Len(given \o data) = Len(given) + Len(data)
        /\ \A i \in 1 .. Len(given) + Len(data) :
              (given \o data)[i] = IF i <= Len(given) THEN given[i] ELSE data[i - Len(given)]
    BY ConcatProperties
  <1>2. Len(given) \in Nat /\ Len(data) \in Nat
    OBVIOUS
  <1>3. ASSUME NEW i \in 1 .. Len(given) + Len(data) PROVE (given \o data)[i] = all[i]
    <2>1. CASE i <= Len(given)
      BY <1>1, <1>2, <2>1
    <2>2. CASE i > Len(given)
      <3>1. i - Len(given) \in 1 .. Len(data) /\ Len(given) + (i - Len(given)) = i
        BY <1>2, <2>2
      <3> QED BY <1>1, <1>2, <2>2, <3>1
    <2> QED BY <1>2, <2>1, <2>2
  <1> QED BY <1>1, <1>3, SeqEqual

(* The bytes given so far and the ones of the next getBody.                *)
LEMMA BytesJoin ==
    ASSUME NEW r \in Responses, NEW b \in Nat, NEW m \in Nat, NEW n \in Nat
    PROVE  BytesFrom(r, b, m) \o BytesFrom(r, b + m, n) = BytesFrom(r, b, m + n)
  <1> DEFINE given == BytesFrom(r, b, m)
             data  == BytesFrom(r, b + m, n)
             all   == BytesFrom(r, b, m + n)
  <1>0. b + m \in Nat /\ m + n \in Nat
    OBVIOUS
  <1>1. /\ given \in Seq(Byte) /\ Len(given) = m
        /\ \A i \in 1 .. m : given[i] = <<r, b + i - 1>>
    BY BytesOf
  <1>2. /\ data \in Seq(Byte) /\ Len(data) = n
        /\ \A i \in 1 .. n : data[i] = <<r, (b + m) + i - 1>>
    BY <1>0, BytesOf
  <1>3. /\ all \in Seq(Byte) /\ Len(all) = m + n
        /\ \A i \in 1 .. (m + n) : all[i] = <<r, b + i - 1>>
    BY <1>0, BytesOf
  <1> HIDE DEF given, data, all
  <1>4. \A i \in 1 .. m : given[i] = all[i]
    <2> SUFFICES ASSUME NEW i \in 1 .. m PROVE given[i] = all[i]
      OBVIOUS
    <2>1. i \in 1 .. (m + n)
      OBVIOUS
    <2> QED BY <1>1, <1>3, <2>1, Zenon
  <1>5. \A i \in 1 .. n : data[i] = all[m + i]
    <2> SUFFICES ASSUME NEW i \in 1 .. n PROVE data[i] = all[m + i]
      OBVIOUS
    <2>1. m + i \in 1 .. (m + n) /\ (b + m) + i - 1 = b + (m + i) - 1
      OBVIOUS
    <2> QED BY <1>2, <1>3, <2>1
  <1>6. given \o data = all
    BY <1>1, <1>2, <1>3, <1>4, <1>5, JoinedBytes
  <1> QED BY <1>6 DEF given, data, all

-----------------------------------------------------------------------------
(* One worker moves.                                                       *)
LEMMA ReadFrame ==
    ASSUME ReadInv, NEW w \in Workers,
           \A v \in Workers \ {w} : pc'[v] = pc[v] /\ lookup'[v] = lookup[v],
           ReadOK(pc'[w], lookup'[w])
    PROVE  ReadInv'
  BY DEF ReadInv

(* A worker that is not looking up.                                        *)
LEMMA NoReader ==
    \A p, c : p \notin LookupPCs \cup ReadPCs => ReadOK(p, c)
  BY DEF ReadOK, LookupPCs

LEMMA InitRead == Init => ReadInv
  <1> SUFFICES ASSUME Init, NEW w \in Workers PROVE ReadOK(pc[w], lookup[w])
    BY DEF ReadInv
  <1>1. pc[w] = "idle"
    BY DEF Init
  <1> QED BY <1>1, NoReader DEF LookupPCs, ReadPCs

LEMMA MakeLookupRead ==
    ASSUME TypeOK, ReadInv, NEW w \in Workers, NEW h \in Hashes, MakeLookupContext(w, h)
    PROVE  ReadInv'
  <1>1. /\ \A v \in Workers \ {w} : pc'[v] = pc[v] /\ lookup'[v] = lookup[v]
        /\ pc'[w] = "lookup"
        /\ lookup'[w] = [hash_key |-> h, headers |-> NULL, total_body_size |-> NULL,
                         begin |-> 0, end |-> 0, start |-> 0, full_body |-> <<>>]
    BY DEF TypeOK, MakeLookupContext
  <1>2. Fresh(lookup'[w])
    BY <1>1 DEF Fresh
  <1>3. ReadOK("lookup", lookup'[w])
    BY <1>2 DEF ReadOK, ReadPCs
  <1> QED BY <1>1, <1>3, ReadFrame

LEMMA GetHeadersRead ==
    ASSUME IInv, ReadInv, NEW w \in Workers, GetHeaders(w)
    PROVE  ReadInv'
  <1> DEFINE c == lookup[w]
             e == lookupHeader(c.hash_key)
  <1>0. /\ TypeOK /\ pc[w] = "lookup" /\ c \in LookupContext /\ ReadOK("lookup", c)
    <2>1. TypeOK /\ pc[w] = "lookup" /\ ContextOK(w)
      BY DEF IInv, TypeOK, GetHeaders
    <2> QED BY <2>1 DEF ContextOK, LookupPCs, ReadInv
  <1>1. Fresh(c) /\ c.hash_key \in Hashes
    BY <1>0 DEF ReadOK, LookupPCs, LookupContext
  <1>2. CASE e = NULL
    <2>1. pc' = [pc EXCEPT ![w] = "miss"] /\ UNCHANGED lookup
      BY <1>2 DEF GetHeaders
    <2>2. ReadOK("miss", c)
      BY <1>1 DEF ReadOK, ReadPCs
    <2> QED BY <1>0, <2>1, <2>2, ReadFrame DEF TypeOK
  <1>3. CASE e # NULL
    <2> DEFINE n == [c EXCEPT !.headers = e.headers, !.total_body_size = e.total_body_size]
    <2>1. pc' = [pc EXCEPT ![w] = "hit"] /\ lookup' = [lookup EXCEPT ![w] = n]
      BY <1>3 DEF GetHeaders
    <2>2. e.headers \in Origin[c.hash_key] /\ e.total_body_size = BodyLen[e.headers]
      BY <1>1, <1>3 DEF IInv, HeaderDescribesResponse
    <2>3. /\ n.hash_key = c.hash_key /\ n.headers = e.headers
          /\ n.total_body_size = e.total_body_size
          /\ n.begin = c.begin /\ n.end = c.end /\ n.start = c.start
          /\ n.full_body = c.full_body
      BY <1>0 DEF LookupContext
    <2> HIDE DEF n
    <2>4. Fresh(n) /\ Found(n)
      BY <1>1, <2>2, <2>3 DEF Fresh, Found
    <2>5. ReadOK("hit", n)
      BY <2>4 DEF ReadOK, ReadPCs
    <2>6. /\ \A v \in Workers \ {w} : pc'[v] = pc[v] /\ lookup'[v] = lookup[v]
          /\ pc'[w] = "hit" /\ lookup'[w] = n
      BY <1>0, <2>1 DEF TypeOK
    <2> QED BY <2>5, <2>6, ReadFrame
  <1> QED BY <1>2, <1>3

LEMMA RequestRangeRead ==
    ASSUME IInv, ReadInv, NEW w \in Workers, RequestRange(w)
    PROVE  ReadInv'
  <1> DEFINE c == lookup[w]
  <1>0. /\ TypeOK /\ pc[w] = "hit" /\ c \in LookupContext /\ ReadOK("hit", c)
    <2>1. TypeOK /\ pc[w] = "hit" /\ ContextOK(w)
      BY DEF IInv, TypeOK, RequestRange
    <2> QED BY <2>1 DEF ContextOK, LookupPCs, ReadInv
  <1>1. Fresh(c) /\ Found(c) /\ c.total_body_size \in Nat
    <2>1. ContextOK(w)
      BY <1>0 DEF TypeOK
    <2> QED BY <1>0, <2>1 DEF ReadOK, LookupPCs, ContextOK
  <1>2. PICK end \in 1 .. c.total_body_size : \E begin \in 0 .. (end - 1) :
            lookup' = [lookup EXCEPT ![w].begin = begin, ![w].start = begin, ![w].end = end]
    BY DEF RequestRange
  <1>3. PICK begin \in 0 .. (end - 1) :
            lookup' = [lookup EXCEPT ![w].begin = begin, ![w].start = begin, ![w].end = end]
    BY <1>2
  <1> DEFINE n == [c EXCEPT !.begin = begin, !.start = begin, !.end = end]
  <1>4. lookup' = [lookup EXCEPT ![w] = n]
    BY <1>3
  <1>5. /\ n.hash_key = c.hash_key /\ n.headers = c.headers
        /\ n.total_body_size = c.total_body_size
        /\ n.begin = begin /\ n.end = end /\ n.start = begin
        /\ n.full_body = c.full_body
    BY <1>0 DEF LookupContext
  <1> HIDE DEF n
  <1>6. /\ \A v \in Workers \ {w} : pc'[v] = pc[v] /\ lookup'[v] = lookup[v]
        /\ pc'[w] = "read" /\ lookup'[w] = n
    BY <1>0, <1>4 DEF TypeOK, RequestRange
  <1>7. begin \in Nat /\ end \in Nat /\ begin < end /\ end <= c.total_body_size
    BY <1>1
  <1>8. Found(n)
    BY <1>1, <1>5 DEF Found
  <1>9. Exact(n)
    <2>1. BytesFrom(n.headers, begin, begin - begin) = <<>>
      BY <1>7 DEF BytesFrom
    <2> QED BY <1>1, <1>5, <1>7, <2>1 DEF Exact, Fresh
  <1>10. ReadOK("read", n)
    BY <1>5, <1>7, <1>8, <1>9 DEF ReadOK, LookupPCs
  <1> QED BY <1>6, <1>10, ReadFrame


-----------------------------------------------------------------------------
(* A worker about to call getBody.                                         *)
LEMMA Reading ==
    ASSUME IInv, ReadInv, NEW w \in Workers, GetBody(w)
    PROVE  /\ TypeOK /\ pc[w] = "read" /\ ReadOK("read", lookup[w])
           /\ lookup[w] \in LookupContext /\ lookup[w].headers \in Responses
           /\ Found(lookup[w])
           /\ lookup[w].begin < lookup[w].end
           /\ lookup[w].end <= BodyLen[lookup[w].headers]
  <1>1. TypeOK /\ pc[w] = "read" /\ ContextOK(w) /\ ReadOK("read", lookup[w])
    BY DEF IInv, TypeOK, GetBody, ReadInv
  <1>2. lookup[w] \in LookupContext /\ lookup[w].headers \in Responses
    BY <1>1 DEF ContextOK, ReadPCs
  <1>3. /\ Found(lookup[w])
        /\ lookup[w].begin < lookup[w].end /\ lookup[w].end <= lookup[w].total_body_size
    BY <1>1 DEF ReadOK, ReadPCs
  <1> QED BY <1>1, <1>2, <1>3 DEF Found

(* The partition getBody finds is a partition of the response whose        *)
(* headers the reader was given: there is no other response.               *)
LEMMA FoundPartition ==
    ASSUME StaticOrigin, IInv, NEW h \in Hashes, NEW r \in Origin[h],
           NEW start \in Nat, start < BodyLen[r],
           lookupBody(h, body_index(start)) # NULL
    PROVE  lookupBody(h, body_index(start)) = Partition(r, body_index(start))
  <1> DEFINE p == BODY_PARTITION_SIZE
             index == start \div p
  <1>1. r \in Responses
    BY ResponseAssumption
  <1>2. p \in Nat \ {0} /\ INT_MAX \in Nat /\ BodyLen[r] \in Nat /\ BodyLen[r] < INT_MAX * p
    BY <1>1, PartitionSize, ResponseAssumption
  <1> HIDE DEF p
  <1>3. index \in Nat /\ index * p <= start
    <2>1. index \in Nat /\ start % p \in Nat /\ start = index * p + (start % p)
      BY <1>2, DivMod
    <2>2. index * p \in Nat
      BY <1>2, <2>1, Multiples
    <2> HIDE DEF index
    <2> QED BY <2>1, <2>2
  <1>4. body_index(start) = index
    BY DEF body_index, p
  <1> HIDE DEF index
  <1>5. index * p < INT_MAX * p
    <2>1. index * p \in Nat /\ INT_MAX * p \in Nat
      BY <1>2, <1>3, Multiples
    <2> QED BY <1>2, <1>3, <2>1
  <1>6. index \in 0 .. INT_MAX
    BY <1>2, <1>3, <1>5, Multiples
  <1>7. PICK s \in Origin[h] : lookupBody(h, index) = Partition(s, index)
    BY <1>4, <1>6 DEF IInv, PartitionsAreSlices
  <1>8. s = r
    BY DEF StaticOrigin
  <1> QED BY <1>4, <1>7, <1>8

(* What one getBody of a servable range does.                              *)
LEMMA GetBodyGives ==
    ASSUME StaticOrigin, IInv, ReadInv, NEW w \in Workers, GetBody(w),
           NEW c, c = lookup[w], ServableRange(c)
    PROVE  \/ pc' = [pc EXCEPT ![w] = "aborted"] /\ UNCHANGED lookup
           \/ \E n \in Nat \ {0} :
                 /\ c.start + n <= c.end
                 /\ c.start + n = c.end \/ (c.start + n) % BODY_PARTITION_SIZE = 0
                 /\ lookup' = [lookup EXCEPT ![w] =
                        [c EXCEPT !.full_body = c.full_body \o BytesFrom(c.headers, c.start, n),
                                  !.start = c.start + n]]
                 /\ pc' = [pc EXCEPT ![w] = IF c.start + n < c.end THEN "read" ELSE "served"]
  <1> DEFINE body == lookupBody(c.hash_key, body_index(c.start))
             copy == CopiedBuffer(body, c.start, c.end)
  <1>0. /\ TypeOK /\ pc[w] = "read" /\ ReadOK("read", c)
        /\ c \in LookupContext /\ c.headers \in Responses
        /\ Found(c) /\ c.begin < c.end /\ c.end <= BodyLen[c.headers]
    BY Reading
  <1>1. Exact(c) /\ c.start < c.end
    BY <1>0 DEF ReadOK, ReadPCs
  <1>2. c.begin \in Nat /\ c.start \in Nat /\ c.end \in Nat /\ c.hash_key \in Hashes
        /\ c.begin <= c.start /\ BodyLen[c.headers] \in Nat
    BY <1>0, <1>1, ResponseAssumption DEF LookupContext, Exact
  <1>3. CASE body = NULL
    BY <1>3 DEF GetBody
  <1>4. CASE body # NULL
    <2>1. body = Partition(c.headers, body_index(c.start))
      <3>1. c.headers \in Origin[c.hash_key] /\ c.start < BodyLen[c.headers]
        BY <1>0, <1>1, <1>2 DEF Found
      <3> QED BY <1>2, <1>4, <3>1, FoundPartition
    <2>2. c.start % BODY_PARTITION_SIZE = 0 \/ ~OneChunkSatisfies(c.start, c.end)
      BY <1>1, <1>2 DEF Exact, ServableRange
    <2> HIDE DEF body
    <2>3. PICK n \in Nat \ {0} :
              /\ CopyLength(Len(body), c.start, c.end) = n
              /\ ~ReadsOutside(body, c.start, c.end)
              /\ c.start + n <= c.end
              /\ c.start + n = c.end \/ (c.start + n) % BODY_PARTITION_SIZE = 0
              /\ CopiedBuffer(body, c.start, c.end) = BytesFrom(c.headers, c.start, n)
      <3>1. /\ c.headers \in Responses /\ c.start \in Nat /\ c.end \in Nat
            /\ c.start < c.end /\ c.end <= BodyLen[c.headers]
        BY <1>0, <1>1, <1>2
      <3>2. \A b : b = Partition(c.headers, body_index(c.start)) => \E n \in Nat \ {0} :
              /\ CopyLength(Len(b), c.start, c.end) = n
              /\ ~ReadsOutside(b, c.start, c.end)
              /\ c.start + n <= c.end
              /\ c.start + n = c.end \/ (c.start + n) % BODY_PARTITION_SIZE = 0
              /\ CopiedBuffer(b, c.start, c.end) = BytesFrom(c.headers, c.start, n)
        BY <2>2, <3>1, CopiedBytesExact, Zenon
      <3> QED BY <2>1, <3>2, Zenon
    <2> HIDE DEF copy
    <2>4. copy = BytesFrom(c.headers, c.start, n) /\ Len(copy) = n
      <3>1. copy = BytesFrom(c.headers, c.start, n)
        BY <2>3 DEF copy
      <3>2. n \in Nat /\ c.headers \in Responses /\ c.start \in Nat
        BY <1>0, <1>2
      <3>3. Len(BytesFrom(c.headers, c.start, n)) = n
        BY <3>2, BytesLen, Zenon
      <3> QED BY <3>1, <3>3, Zenon
    <2>5. /\ lookup' = [lookup EXCEPT ![w].full_body = @ \o copy,
                                      ![w].start = @ + Len(copy)]
          /\ pc' = [pc EXCEPT ![w] =
                CASE c.start + Len(copy) < c.end -> "read"
                  [] c.start + Len(copy) = c.end -> "served"
                  [] OTHER                       -> "oversized"]
      BY <1>4, <2>3 DEF GetBody, body, copy
    <2>6. lookup' = [lookup EXCEPT ![w] =
              [c EXCEPT !.full_body = c.full_body \o copy, !.start = c.start + n]]
      <3>1. lookup' = [lookup EXCEPT ![w] =
                [lookup[w] EXCEPT !.full_body = lookup[w].full_body \o copy,
                                  !.start = lookup[w].start + Len(copy)]]
        BY <2>5
      <3> QED BY <2>4, <3>1, Zenon
    <2>7. pc' = [pc EXCEPT ![w] = IF c.start + n < c.end THEN "read" ELSE "served"]
      <3>1. (CASE c.start + Len(copy) < c.end -> "read"
               [] c.start + Len(copy) = c.end -> "served"
               [] OTHER                       -> "oversized")
            = IF c.start + n < c.end THEN "read" ELSE "served"
        <4> HIDE DEF body
        <4>1. CASE c.start + n < c.end
          BY <1>2, <2>4, <4>1
        <4>2. CASE c.start + n = c.end
          BY <1>2, <2>4, <4>2
        <4>3. c.start + n < c.end \/ c.start + n = c.end
          BY <1>2, <2>3
        <4> QED BY <4>1, <4>2, <4>3
      <3> QED BY <2>5, <3>1, Zenon
    <2> QED BY <2>3, <2>4, <2>6, <2>7
  <1> QED BY <1>3, <1>4

(* Whatever the range, getBody changes the bytes given and where it goes   *)
(* on, and nothing else of the context.                                    *)
LEMMA GetBodyMoves ==
    ASSUME IInv, ReadInv, NEW w \in Workers, GetBody(w)
    PROVE  \E p, start, full :
             /\ p \in ReadPCs /\ pc' = [pc EXCEPT ![w] = p]
             /\ lookup' = [lookup EXCEPT ![w] =
                             [lookup[w] EXCEPT !.full_body = full, !.start = start]]
  <1> DEFINE c == lookup[w]
  <1>0. TypeOK /\ c \in LookupContext
    BY Reading
  <1>1. CASE UNCHANGED lookup
    <2>1. c = [c EXCEPT !.full_body = c.full_body, !.start = c.start]
      BY <1>0 DEF LookupContext
    <2>2. lookup' = [lookup EXCEPT ![w] = c]
      BY <1>0, <1>1 DEF TypeOK
    <2>3. \E p \in ReadPCs : pc' = [pc EXCEPT ![w] = p]
      BY DEF GetBody, ReadPCs
    <2>4. lookup' = [lookup EXCEPT ![w] =
              [c EXCEPT !.full_body = c.full_body, !.start = c.start]]
      <3> DEFINE d == [c EXCEPT !.full_body = c.full_body, !.start = c.start]
      <3>1. c = d
        BY <2>1
      <3> HIDE DEF d
      <3>2. lookup' = [lookup EXCEPT ![w] = d]
        BY <2>2, <3>1
      <3> QED BY <3>2 DEF d
    <2> QED BY <2>3, <2>4, Zenon
  <1>2. CASE ~UNCHANGED lookup
    <2> DEFINE body == lookupBody(c.hash_key, body_index(c.start))
               copy == CopiedBuffer(body, c.start, c.end)
               q == CASE c.start + Len(copy) < c.end -> "read"
                      [] c.start + Len(copy) = c.end -> "served"
                      [] OTHER                       -> "oversized"
    <2>1. /\ lookup' = [lookup EXCEPT ![w].full_body = @ \o copy,
                                      ![w].start = @ + Len(copy)]
          /\ pc' = [pc EXCEPT ![w] = q]
      BY <1>2, Zenon DEF GetBody
    <2>2. q \in ReadPCs
      <3> HIDE DEF copy
      <3> QED BY DEF ReadPCs
    <2> HIDE DEF q, copy
    <2>3. lookup' = [lookup EXCEPT ![w] = [c EXCEPT !.full_body = c.full_body \o copy,
                                                    !.start = c.start + Len(copy)]]
      BY <2>1
    <2> QED BY <2>1, <2>2, <2>3, Zenon
  <1> QED BY <1>1, <1>2

(* Each getBody adds the next bytes.                                       *)
LEMMA GetBodyRead ==
    ASSUME StaticOrigin, IInv, ReadInv, NEW w \in Workers, GetBody(w)
    PROVE  ReadInv'
  <1> DEFINE c == lookup[w]
  <1>0. /\ TypeOK /\ pc[w] = "read" /\ ReadOK("read", c)
        /\ c \in LookupContext /\ c.headers \in Responses
        /\ Found(c) /\ c.begin < c.end /\ c.end <= c.total_body_size
    BY Reading DEF Found
  <1>1. /\ c.begin \in Nat /\ c.start \in Nat /\ c.end \in Nat
    BY <1>0 DEF LookupContext
  <1>2. CASE ~ServableRange(c)
    <2>1. PICK p, start, full :
             /\ p \in ReadPCs /\ pc' = [pc EXCEPT ![w] = p]
             /\ lookup' = [lookup EXCEPT ![w] =
                             [c EXCEPT !.full_body = full, !.start = start]]
      BY GetBodyMoves
    <2> DEFINE n == [c EXCEPT !.full_body = full, !.start = start]
    <2>2. /\ n.hash_key = c.hash_key /\ n.headers = c.headers
          /\ n.total_body_size = c.total_body_size
          /\ n.begin = c.begin /\ n.end = c.end
      BY <1>0 DEF LookupContext
    <2>3. /\ \A v \in Workers \ {w} : pc'[v] = pc[v] /\ lookup'[v] = lookup[v]
          /\ pc'[w] = p /\ lookup'[w] = n
      BY <1>0, <2>1 DEF TypeOK
    <2> HIDE DEF n
    <2>4. Found(n) /\ ~ServableRange(n)
      BY <1>0, <1>2, <2>2 DEF Found, ServableRange
    <2>5. ReadOK(p, n)
      BY <1>0, <2>1, <2>2, <2>4 DEF ReadOK, LookupPCs, ReadPCs
    <2> QED BY <2>3, <2>5, ReadFrame
  <1>3. CASE ServableRange(c)
    <2>0. Exact(c) /\ c.start < c.end
      BY <1>0, <1>3 DEF ReadOK, ReadPCs
    <2>1. CASE pc' = [pc EXCEPT ![w] = "aborted"] /\ UNCHANGED lookup
      <3>1. ReadOK("aborted", c)
        BY <1>0, <2>0 DEF ReadOK, LookupPCs
      <3>2. /\ \A v \in Workers \ {w} : pc'[v] = pc[v] /\ lookup'[v] = lookup[v]
            /\ pc'[w] = "aborted" /\ lookup'[w] = c
        BY <1>0, <2>1 DEF TypeOK
      <3> QED BY <3>1, <3>2, ReadFrame
    <2>2. ASSUME NEW k \in Nat \ {0},
                 c.start + k <= c.end,
                 c.start + k = c.end \/ (c.start + k) % BODY_PARTITION_SIZE = 0,
                 lookup' = [lookup EXCEPT ![w] =
                     [c EXCEPT !.full_body = c.full_body \o BytesFrom(c.headers, c.start, k),
                               !.start = c.start + k]],
                 pc' = [pc EXCEPT ![w] = IF c.start + k < c.end THEN "read" ELSE "served"]
          PROVE  ReadInv'
      <3> DEFINE n == [c EXCEPT !.full_body = c.full_body \o BytesFrom(c.headers, c.start, k),
                                !.start = c.start + k]
                 p == IF c.start + k < c.end THEN "read" ELSE "served"
      <3>1. /\ n.hash_key = c.hash_key /\ n.headers = c.headers
            /\ n.total_body_size = c.total_body_size
            /\ n.begin = c.begin /\ n.end = c.end
            /\ n.start = c.start + k
            /\ n.full_body = c.full_body \o BytesFrom(c.headers, c.start, k)
        BY <1>0 DEF LookupContext
      <3>2. /\ \A v \in Workers \ {w} : pc'[v] = pc[v] /\ lookup'[v] = lookup[v]
            /\ pc'[w] = p /\ lookup'[w] = n
        BY <1>0, <2>2 DEF TypeOK
      <3> HIDE DEF n
      <3>3. n.full_body = BytesFrom(n.headers, n.begin, n.start - n.begin)
        <4>1. /\ c.start - c.begin \in Nat /\ c.begin + (c.start - c.begin) = c.start
              /\ (c.start - c.begin) + k = (c.start + k) - c.begin /\ k \in Nat
          BY <1>1, <2>0 DEF Exact
        <4>2. c.full_body = BytesFrom(c.headers, c.begin, c.start - c.begin)
          BY <2>0 DEF Exact
        <4>3. BytesFrom(c.headers, c.begin, c.start - c.begin)
                \o BytesFrom(c.headers, c.begin + (c.start - c.begin), k)
              = BytesFrom(c.headers, c.begin, (c.start - c.begin) + k)
          <5>1. \A m, j \in Nat :
                   BytesFrom(c.headers, c.begin, m) \o BytesFrom(c.headers, c.begin + m, j)
                   = BytesFrom(c.headers, c.begin, m + j)
            BY <1>0, <1>1, BytesJoin, Zenon
          <5> QED BY <4>1, <5>1, Zenon
        <4>4. c.full_body \o BytesFrom(c.headers, c.start, k) =
              BytesFrom(c.headers, c.begin, (c.start + k) - c.begin)
          BY <4>1, <4>2, <4>3, Zenon
        <4> QED BY <3>1, <4>4, Zenon
      <3>4. Exact(n) /\ (p = "read" => n.start < n.end) /\ p \in {"read", "served"}
        <4>1. n.begin <= n.start /\ n.start <= n.end /\ (p = "read" => n.start < n.end)
              /\ p \in {"read", "served"}
          <5>1. c.begin <= c.start /\ c.start + k <= c.end /\ k \in Nat
            BY <2>0, <2>2 DEF Exact
          <5>2. c.begin <= c.start + k
            BY <1>1, <5>1
          <5> QED BY <3>1, <5>1, <5>2
        <4>2. n.start \in {n.begin, n.end} \/ n.start % BODY_PARTITION_SIZE = 0
          <5>1. CASE c.start + k = c.end
            BY <3>1, <5>1
          <5>2. CASE (c.start + k) % BODY_PARTITION_SIZE = 0
            BY <3>1, <5>2, Zenon
          <5> QED BY <2>2, <5>1, <5>2, Zenon
        <4> QED BY <3>3, <4>1, <4>2, Zenon DEF Exact
      <3>5. Found(n) /\ n.begin < n.end /\ n.end <= n.total_body_size
        BY <1>0, <3>1 DEF Found
      <3> HIDE DEF p
      <3>6. ReadOK(p, n)
        BY <3>4, <3>5 DEF ReadOK, LookupPCs
      <3> QED BY <3>2, <3>6, ReadFrame
    <2> QED BY <1>3, <2>1, <2>2, GetBodyGives
  <1> QED BY <1>2, <1>3


(* A worker that inserts, or goes idle, is no reader afterwards, and the   *)
(* other workers keep their contexts.                                      *)
LEMMA LeavingRead ==
    ASSUME TypeOK, ReadInv, NEW w \in Workers,
           NEW p \in {"idle"} \cup InsertPCs,
           pc' = [pc EXCEPT ![w] = p],
           UNCHANGED lookup \/ lookup' = [lookup EXCEPT ![w] = NULL]
    PROVE  ReadInv'
  <1>1. /\ \A v \in Workers \ {w} : pc'[v] = pc[v] /\ lookup'[v] = lookup[v]
        /\ pc'[w] = p
    BY DEF TypeOK
  <1>2. p \notin LookupPCs \cup ReadPCs
    BY DEF InsertPCs, LookupPCs, ReadPCs
  <1>3. ReadOK(pc'[w], lookup'[w])
    BY <1>1, <1>2, NoReader
  <1> QED BY <1>1, <1>3, ReadFrame

LEMMA SameReaders ==
    ASSUME ReadInv, UNCHANGED <<pc, lookup>>
    PROVE  ReadInv'
  BY DEF ReadInv

LEMMA InsertStepRead ==
    ASSUME TypeOK, ReadInv, NEW w \in Workers,
           \/ MakeInsertContext(w) \/ InsertHeaders(w) \/ InsertBody(w)
           \/ FillBuffer(w) \/ BufferRest(w) \/ EndChunk(w) \/ FlushHeader(w)
           \/ Release(w)
    PROVE  ReadInv'
  <1> USE DEF InsertPCs
  <1>1. CASE MakeInsertContext(w)
    BY <1>1, LeavingRead DEF MakeInsertContext
  <1>2. CASE InsertHeaders(w)
    <2>1. PICK end_stream \in BOOLEAN :
             pc' = [pc EXCEPT ![w] = IF end_stream THEN "flushHeader" ELSE "ready"]
      BY <1>2 DEF InsertHeaders
    <2>2. PICK p \in {"flushHeader", "ready"} : pc' = [pc EXCEPT ![w] = p]
      BY <2>1
    <2>3. UNCHANGED lookup
      BY <1>2 DEF InsertHeaders
    <2> QED BY <2>2, <2>3, LeavingRead
  <1>3. CASE InsertBody(w)
    BY <1>3, LeavingRead DEF InsertBody
  <1>4. CASE FillBuffer(w)
    <2>1. UNCHANGED <<pc, lookup>>
      BY <1>4 DEF FillBuffer
    <2> QED BY <2>1, SameReaders
  <1>5. CASE BufferRest(w)
    <2>1. UNCHANGED <<pc, lookup>>
      BY <1>5 DEF BufferRest
    <2> QED BY <2>1, SameReaders
  <1>6. CASE EndChunk(w)
    <2>1. UNCHANGED lookup
      BY <1>6 DEF EndChunk
    <2>2. PICK p \in {"flushHeader", "ready"} : pc' = [pc EXCEPT ![w] = p]
      BY <1>6 DEF EndChunk
    <2> QED BY <2>1, <2>2, LeavingRead
  <1>7. CASE FlushHeader(w)
    BY <1>7, LeavingRead DEF FlushHeader
  <1>8. CASE Release(w)
    BY <1>8, LeavingRead DEF Release
  <1> QED BY <1>1, <1>2, <1>3, <1>4, <1>5, <1>6, <1>7, <1>8

LEMMA NextRead ==
    ASSUME StaticOrigin, IInv, ReadInv, [Next]_vars
    PROVE  ReadInv'
  <1>0. TypeOK
    BY DEF IInv
  <1>1. ASSUME NEW w \in Workers, HandlerStep(w) PROVE ReadInv'
    BY <1>0, <1>1, GetHeadersRead, GetBodyRead, InsertStepRead DEF HandlerStep
  <1>2. ASSUME NEW w \in Workers, FilterStep(w) PROVE ReadInv'
    BY <1>0, <1>2, MakeLookupRead, RequestRangeRead, InsertStepRead DEF FilterStep
  <1>3. CASE ClusterStep
    <2>1. UNCHANGED <<pc, lookup>>
      BY <1>3 DEF ClusterStep, EvictHeader, EvictBody, ClearBodyMap, ClearHeaderMap
    <2> QED BY <2>1, SameReaders
  <1>4. CASE UNCHANGED vars
    <2>1. UNCHANGED <<pc, lookup>>
      BY <1>4 DEF vars
    <2> QED BY <2>1, SameReaders
  <1> QED BY <1>1, <1>2, <1>3, <1>4 DEF Next

(* Every reachable state satisfies the inductive invariant of the reads:   *)
(* what getHeaders and the getBody calls so far have left in a context.    *)
THEOREM ReadInvariance == ASSUME StaticOrigin PROVE Spec => []ReadInv
  <1>1. Init => ReadInv
    BY InitRead
  <1>2. IInv /\ ReadInv /\ [Next]_vars => ReadInv'
    BY NextRead
  <1> QED BY <1>1, <1>2, Invariance, PTL DEF Spec

(* Where the upstream never changes a response, a reader of a servable     *)
(* range has, after each getBody and under every interleaving of inserts,  *)
(* evictions and clears, exactly the first bytes of its range, and is      *)
(* never given too many or read beyond a buffer for.                       *)
THEOREM ReadsExact == ASSUME StaticOrigin PROVE Spec => []ReadsAreExact
  <1>1. ReadInv => ReadsAreExact
    <2> SUFFICES ASSUME ReadInv, NEW w \in Workers,
                        pc[w] \in ReadPCs, ServableRange(lookup[w])
                 PROVE  /\ pc[w] \notin {"oversized", "faulted"}
                        /\ lookup[w].start <= lookup[w].end
                        /\ lookup[w].full_body =
                             [i \in 1 .. (lookup[w].start - lookup[w].begin) |->
                                 <<lookup[w].headers, lookup[w].begin + i - 1>>]
      BY Zenon DEF ReadsAreExact
    <2>1. ReadOK(pc[w], lookup[w])
      BY DEF ReadInv
    <2>2. pc[w] \notin {"oversized", "faulted"} /\ Exact(lookup[w])
      BY <2>1 DEF ReadOK
    <2> QED BY <2>2 DEF Exact, BytesFrom
  <1> QED BY <1>1, ReadInvariance, PTL


-----------------------------------------------------------------------------
(* The refinement.  What the readers of ResponseCache see of a state: the  *)
(* responses behind the header map, and what each worker has been given.   *)
View(p, c) ==
    IF p = "hit" \/ (p \in ReadPCs /\ ServableRange(c))
    THEN [response |-> c.headers, begin |-> c.begin, end |-> c.end,
          bytes |-> c.full_body]
    ELSE NULL

Stored ==
    [h \in Hashes |-> IF lookupHeader(h) = NULL THEN NULL ELSE lookupHeader(h).headers]

Given == [w \in Workers |-> View(pc[w], lookup[w])]

Refines == [Promise!Next]_(Promise!cache)

(* The steps of ResponseCache, over Stored and Given.                      *)
LEMMA Mapping ==
    /\ Stored = [h \in Hashes |-> IF lookupHeader(h) = NULL THEN NULL
                                   ELSE lookupHeader(h).headers]
    /\ Given = [w \in Workers |-> Reader(w)]
  BY DEF Stored, Given, View, Reader

LEMMA MappingNext ==
    /\ Stored' = [h \in Hashes |-> IF lookupHeader(h)' = NULL THEN NULL
                                   ELSE lookupHeader(h)'.headers]
    /\ Given' = [w \in Workers |-> Reader(w)']
  BY DEF Stored, Given, View, Reader

LEMMA StutterStep ==
    ASSUME Stored' = Stored, Given' = Given
    PROVE  Refines
  BY Mapping, MappingNext DEF Refines, Promise!cache

LEMMA StoreStep ==
    ASSUME NEW h \in Hashes, NEW r \in Origin[h],
           Stored' = [Stored EXCEPT ![h] = r], Given' = Given
    PROVE  Refines
  BY Mapping, MappingNext DEF Refines, Promise!Next, Promise!Store

LEMMA DropStep ==
    ASSUME NEW dropped \in SUBSET Hashes,
           Stored' = [h \in Hashes |-> IF h \in dropped THEN NULL ELSE Stored[h]],
           Given' = Given
    PROVE  Refines
  BY Mapping, MappingNext DEF Refines, Promise!Next, Promise!Drop

LEMMA LeaveStep ==
    ASSUME NEW w \in Workers, Given' = [Given EXCEPT ![w] = NULL], Stored' = Stored
    PROVE  Refines
  BY Mapping, MappingNext DEF Refines, Promise!Next, Promise!Leave


LEMMA FindStep ==
    ASSUME NEW w \in Workers, NEW h \in Hashes, Given[w] = NULL, Stored[h] # NULL,
           Given' = [Given EXCEPT ![w] =
              [response |-> Stored[h], begin |-> 0, end |-> 0, bytes |-> <<>>]],
           Stored' = Stored
    PROVE  Refines
  BY Mapping, MappingNext DEF Refines, Promise!Next, Promise!Find

LEMMA AskStep ==
    ASSUME NEW w \in Workers, Given[w] # NULL, Given[w].end = 0,
           NEW end \in 1 .. BodyLen[Given[w].response], NEW begin \in 0 .. (end - 1),
           Given' = [Given EXCEPT ![w].begin = begin, ![w].end = end],
           Stored' = Stored
    PROVE  Refines
  <1> DEFINE g == [v \in Workers |-> Reader(v)]
  <1>1. Given = g /\ Given' = g'
    BY Mapping, MappingNext
  <1> HIDE DEF g
  <1>2. /\ g[w] # NULL /\ g[w].end = 0
        /\ end \in 1 .. BodyLen[g[w].response]
    BY <1>1
  <1>3. g' = [g EXCEPT ![w].begin = begin, ![w].end = end]
    BY <1>1
  <1>4. Promise!Ask(w)
    BY <1>2, <1>3, Mapping, MappingNext DEF Promise!Ask, g
  <1> QED BY <1>4 DEF Refines, Promise!Next

LEMMA DeliverStep ==
    ASSUME NEW w \in Workers, Given[w] # NULL,
           NEW to \in (Given[w].begin + Len(Given[w].bytes) + 1) .. Given[w].end,
           Given' = [Given EXCEPT ![w].bytes =
               @ \o Promise!Slice(Given[w].response,
                                  Given[w].begin + Len(Given[w].bytes), to)],
           Stored' = Stored
    PROVE  Refines
  BY Mapping, MappingNext DEF Refines, Promise!Next, Promise!Deliver

(* The steps of a worker change what this worker has been given.           *)
LEMMA GivenMoves ==
    ASSUME NEW w \in Workers,
           \A v \in Workers \ {w} : pc'[v] = pc[v] /\ lookup'[v] = lookup[v]
    PROVE  Given' = [Given EXCEPT ![w] = View(pc'[w], lookup'[w])]
  <1>1. Given' = [v \in Workers |-> View(pc'[v], lookup'[v])]
    BY DEF Given
  <1>2. \A v \in Workers \ {w} : View(pc'[v], lookup'[v]) = View(pc[v], lookup[v])
    OBVIOUS
  <1> QED BY <1>1, <1>2 DEF Given

LEMMA SameGiven ==
    ASSUME UNCHANGED <<pc, lookup>>
    PROVE  Given' = Given
  BY DEF Given

LEMMA SameStored ==
    ASSUME UNCHANGED headerMap
    PROVE  Stored' = Stored
  BY DEF Stored, lookupHeader

(* A worker that is no reader after the step has left.                     *)
LEMMA LeavingRefines ==
    ASSUME NEW w \in Workers,
           \A v \in Workers \ {w} : pc'[v] = pc[v] /\ lookup'[v] = lookup[v],
           View(pc'[w], lookup'[w]) = NULL,
           UNCHANGED headerMap
    PROVE  Refines
  <1>1. Given' = [Given EXCEPT ![w] = NULL]
    BY GivenMoves
  <1> QED BY <1>1, SameStored, LeaveStep

LEMMA NoView ==
    \A p, c : p \notin {"hit"} \cup ReadPCs => View(p, c) = NULL
  BY DEF View


(* The headers of a hit are those visible under the hash of the lookup.    *)
LEMMA GetHeadersRefines ==
    ASSUME IInv, ReadInv, NEW w \in Workers, GetHeaders(w)
    PROVE  Refines
  <1> DEFINE c == lookup[w]
             e == lookupHeader(c.hash_key)
  <1>0. /\ TypeOK /\ pc[w] = "lookup" /\ c \in LookupContext /\ ReadOK("lookup", c)
        /\ UNCHANGED headerMap
    <2>1. TypeOK /\ pc[w] = "lookup" /\ ContextOK(w) /\ UNCHANGED headerMap
      BY DEF IInv, TypeOK, GetHeaders
    <2> QED BY <2>1 DEF ContextOK, LookupPCs, ReadInv
  <1>1. Fresh(c) /\ c.hash_key \in Hashes
    BY <1>0 DEF ReadOK, LookupPCs, LookupContext
  <1>2. CASE e = NULL
    <2>1. pc' = [pc EXCEPT ![w] = "miss"] /\ UNCHANGED lookup
      BY <1>2 DEF GetHeaders
    <2>2. /\ \A v \in Workers \ {w} : pc'[v] = pc[v] /\ lookup'[v] = lookup[v]
          /\ pc'[w] = "miss"
      BY <1>0, <2>1 DEF TypeOK
    <2>3. View(pc'[w], lookup'[w]) = NULL
      BY <2>2, NoView DEF ReadPCs
    <2> QED BY <1>0, <2>2, <2>3, LeavingRefines
  <1>3. CASE e # NULL
    <2> DEFINE n == [c EXCEPT !.headers = e.headers, !.total_body_size = e.total_body_size]
    <2>1. pc' = [pc EXCEPT ![w] = "hit"] /\ lookup' = [lookup EXCEPT ![w] = n]
      BY <1>3 DEF GetHeaders
    <2>2. e.headers \in Responses
      BY <1>1, <1>3, ResponseAssumption DEF IInv, HeaderDescribesResponse
    <2>3. /\ n.headers = e.headers /\ n.begin = 0 /\ n.end = 0 /\ n.full_body = <<>>
      BY <1>0, <1>1 DEF LookupContext, Fresh
    <2>4. /\ \A v \in Workers \ {w} : pc'[v] = pc[v] /\ lookup'[v] = lookup[v]
          /\ pc'[w] = "hit" /\ lookup'[w] = n
      BY <1>0, <2>1 DEF TypeOK
    <2> HIDE DEF n
    <2>5. View("hit", n) = [response |-> e.headers, begin |-> 0, end |-> 0, bytes |-> <<>>]
      BY <2>3 DEF View
    <2>6. Stored[c.hash_key] = e.headers
      BY <1>1, <1>3 DEF Stored
    <2>7. Given[w] = NULL
      BY <1>0, NoView DEF Given, ReadPCs
    <2>8. Stored' = Stored
      BY <1>0, SameStored
    <2>9. Given' = [Given EXCEPT ![w] =
             [response |-> Stored[c.hash_key], begin |-> 0, end |-> 0, bytes |-> <<>>]]
      <3> HIDE DEF e, c
      <3>1. Given' = [Given EXCEPT ![w] = View("hit", n)]
        BY <2>4, GivenMoves
      <3> QED BY <2>5, <2>6, <3>1
    <2>10. Stored[c.hash_key] # NULL
      BY <2>2, <2>6, NullAssumption
    <2> QED BY <1>1, <2>7, <2>8, <2>9, <2>10, FindStep
  <1> QED BY <1>2, <1>3

LEMMA AskedView ==
    ASSUME NEW g \in ReaderView, NEW begin \in Nat, NEW end \in Nat
    PROVE  [g EXCEPT !.begin = begin, !.end = end]
           = [response |-> g.response, begin |-> begin, end |-> end, bytes |-> g.bytes]
  <1> DEFINE a == [g EXCEPT !.begin = begin, !.end = end]
  <1>1. a \in ReaderView
    BY DEF ReaderView
  <1>2. /\ a.response = g.response /\ a.begin = begin /\ a.end = end
        /\ a.bytes = g.bytes
    BY DEF ReaderView
  <1> HIDE DEF a
  <1>3. a = [response |-> a.response, begin |-> a.begin, end |-> a.end, bytes |-> a.bytes]
    BY <1>1 DEF ReaderView
  <1>4. a = [response |-> g.response, begin |-> begin, end |-> end, bytes |-> g.bytes]
    BY <1>2, <1>3
  <1> QED BY <1>4 DEF a

(* The caller asks for a range; where it is not servable the reader is     *)
(* promised nothing more.                                                  *)
LEMMA RequestRangeRefines ==
    ASSUME IInv, ReadInv, NEW w \in Workers, RequestRange(w)
    PROVE  Refines
  <1> DEFINE c == lookup[w]
  <1>0. /\ TypeOK /\ pc[w] = "hit" /\ c \in LookupContext /\ ReadOK("hit", c)
        /\ c.headers \in Responses /\ c.total_body_size \in Nat /\ UNCHANGED headerMap
    <2>1. TypeOK /\ pc[w] = "hit" /\ ContextOK(w) /\ UNCHANGED headerMap
      BY DEF IInv, TypeOK, RequestRange
    <2> QED BY <2>1 DEF ContextOK, LookupPCs, ReadInv
  <1>1. Fresh(c) /\ Found(c)
    BY <1>0 DEF ReadOK, LookupPCs
  <1>2. PICK end \in 1 .. c.total_body_size : \E begin \in 0 .. (end - 1) :
            lookup' = [lookup EXCEPT ![w].begin = begin, ![w].start = begin, ![w].end = end]
    BY DEF RequestRange
  <1>3. PICK begin \in 0 .. (end - 1) :
            lookup' = [lookup EXCEPT ![w].begin = begin, ![w].start = begin, ![w].end = end]
    BY <1>2
  <1>3a. begin \in Nat /\ end \in Nat
    <2> DEFINE total == c.total_body_size
    <2>1. total \in Nat
      BY <1>0
    <2> HIDE DEF total
    <2>2. end \in 1 .. total /\ begin \in 0 .. (end - 1)
      BY Zenon DEF total
    <2> QED BY <2>1, <2>2
  <1> DEFINE n == [c EXCEPT !.begin = begin, !.start = begin, !.end = end]
  <1>4. lookup' = [lookup EXCEPT ![w] = n]
    BY <1>3
  <1>5. /\ n.headers = c.headers /\ n.begin = begin /\ n.end = end
        /\ n.full_body = c.full_body
    BY <1>0 DEF LookupContext
  <1>6. /\ \A v \in Workers \ {w} : pc'[v] = pc[v] /\ lookup'[v] = lookup[v]
        /\ pc'[w] = "read" /\ lookup'[w] = n
    BY <1>0, <1>4 DEF TypeOK, RequestRange
  <1> HIDE DEF n
  <1>7. CASE ~ServableRange(n)
    <2>1. View(pc'[w], lookup'[w]) = NULL
      BY <1>6, <1>7 DEF View
    <2> QED BY <1>0, <1>6, <2>1, LeavingRefines
  <1>8. CASE ServableRange(n)
    <2> DEFINE g == [response |-> c.headers, begin |-> c.begin, end |-> c.end,
                     bytes |-> c.full_body]
    <2>1. Given[w] = g
      BY <1>0 DEF Given, View
    <2>2. g \in ReaderView /\ g.end = 0 /\ g.response = c.headers /\ g.bytes = c.full_body
      BY <1>0, <1>1 DEF ReaderView, LookupContext, Fresh
    <2>3. View("read", n) = [g EXCEPT !.begin = begin, !.end = end]
      <3>1. View("read", n) = [response |-> n.headers, begin |-> n.begin, end |-> n.end,
                               bytes |-> n.full_body]
        BY <1>8, Zenon DEF View, ReadPCs
      <3>2. begin \in Nat /\ end \in Nat
        BY <1>3a
      <3> HIDE DEF g
      <3>3. [g EXCEPT !.begin = begin, !.end = end] =
            [response |-> g.response, begin |-> begin, end |-> end, bytes |-> g.bytes]
        BY <2>2, <3>2, AskedView
      <3> QED BY <1>5, <2>2, <3>1, <3>3
    <2> HIDE DEF g
    <2>4. Given' = [Given EXCEPT ![w].begin = begin, ![w].end = end]
      <3>1. Given' = [Given EXCEPT ![w] = View("read", n)]
        BY <1>6, GivenMoves
      <3> QED BY <2>1, <2>3, <3>1
    <2>5. Given[w] # NULL /\ Given[w].end = 0
      BY <2>1, <2>2, NullAssumption
    <2>6. end \in 1 .. BodyLen[Given[w].response]
      BY <1>1, <2>1, <2>2 DEF Found
    <2>7. Stored' = Stored
      BY <1>0, SameStored
    <2> QED BY <2>4, <2>5, <2>6, <2>7, AskStep
  <1> QED BY <1>7, <1>8


LEMMA DeliveredView ==
    ASSUME NEW g \in ReaderView, NEW bytes \in Seq(Byte)
    PROVE  [g EXCEPT !.bytes = bytes]
           = [response |-> g.response, begin |-> g.begin, end |-> g.end, bytes |-> bytes]
  <1> DEFINE a == [g EXCEPT !.bytes = bytes]
  <1>1. a \in ReaderView
    BY DEF ReaderView
  <1>2. /\ a.response = g.response /\ a.begin = g.begin /\ a.end = g.end
        /\ a.bytes = bytes
    BY DEF ReaderView
  <1> HIDE DEF a
  <1>3. a = [response |-> a.response, begin |-> a.begin, end |-> a.end, bytes |-> a.bytes]
    BY <1>1 DEF ReaderView
  <1>4. a = [response |-> g.response, begin |-> g.begin, end |-> g.end, bytes |-> bytes]
    BY <1>2, <1>3
  <1> QED BY <1>4 DEF a

LEMMA GetBodyRefines ==
    ASSUME StaticOrigin, IInv, ReadInv, NEW w \in Workers, GetBody(w)
    PROVE  Refines
  <1> DEFINE c == lookup[w]
  <1>0. /\ TypeOK /\ pc[w] = "read" /\ ReadOK("read", c)
        /\ c \in LookupContext /\ c.headers \in Responses
        /\ c.begin \in Nat /\ c.start \in Nat /\ c.end \in Nat /\ c.full_body \in Seq(Byte)
        /\ UNCHANGED headerMap
    <2>1. UNCHANGED headerMap
      BY DEF GetBody
    <2> QED BY <2>1, Reading DEF LookupContext
  <1>1. Stored' = Stored
    BY <1>0, SameStored
  <1>2. CASE ~ServableRange(c)
    <2>1. PICK p, start, full :
             /\ p \in ReadPCs /\ pc' = [pc EXCEPT ![w] = p]
             /\ lookup' = [lookup EXCEPT ![w] =
                             [c EXCEPT !.full_body = full, !.start = start]]
      BY GetBodyMoves
    <2> DEFINE n == [c EXCEPT !.full_body = full, !.start = start]
    <2>2. n.begin = c.begin /\ n.end = c.end
      BY <1>0 DEF LookupContext
    <2>3. /\ \A v \in Workers \ {w} : pc'[v] = pc[v] /\ lookup'[v] = lookup[v]
          /\ pc'[w] = p /\ lookup'[w] = n
      BY <1>0, <2>1 DEF TypeOK
    <2> HIDE DEF n
    <2>4. ~ServableRange(n)
      BY <1>2, <2>2 DEF ServableRange
    <2>5. View(p, n) = NULL
      BY <2>1, <2>4 DEF View, ReadPCs
    <2> QED BY <1>0, <2>3, <2>5, LeavingRefines
  <1>3. CASE ServableRange(c)
    <2> DEFINE g == [response |-> c.headers, begin |-> c.begin, end |-> c.end,
                     bytes |-> c.full_body]
    <2>0. Exact(c) /\ c.start < c.end
      BY <1>0, <1>3 DEF ReadOK, ReadPCs
    <2>1. /\ g \in ReaderView /\ g.response = c.headers /\ g.begin = c.begin
          /\ g.end = c.end /\ g.bytes = c.full_body
      BY <1>0 DEF ReaderView
    <2>2. Given[w] = g
      BY <1>0, <1>3 DEF Given, View, ReadPCs
    <2>3. View("aborted", c) = g
      BY <1>3 DEF View, ReadPCs
    <2> HIDE DEF g
    <2>4. CASE pc' = [pc EXCEPT ![w] = "aborted"] /\ UNCHANGED lookup
      <3>1. /\ \A v \in Workers \ {w} : pc'[v] = pc[v] /\ lookup'[v] = lookup[v]
            /\ pc'[w] = "aborted" /\ lookup'[w] = c
        BY <1>0, <2>4 DEF TypeOK
      <3>2. Given' = [Given EXCEPT ![w] = g]
        BY <2>3, <3>1, GivenMoves
      <3>3. Given' = Given
        BY <2>2, <3>2 DEF Given
      <3> QED BY <1>1, <3>3, StutterStep
    <2>5. ASSUME NEW k \in Nat \ {0},
                 c.start + k <= c.end,
                 lookup' = [lookup EXCEPT ![w] =
                     [c EXCEPT !.full_body = c.full_body \o BytesFrom(c.headers, c.start, k),
                               !.start = c.start + k]],
                 pc' = [pc EXCEPT ![w] = IF c.start + k < c.end THEN "read" ELSE "served"]
          PROVE  Refines
      <3> DEFINE data == BytesFrom(c.headers, c.start, k)
                 n == [c EXCEPT !.full_body = c.full_body \o data, !.start = c.start + k]
                 p == IF c.start + k < c.end THEN "read" ELSE "served"
                 full == c.full_body \o data
      <3>1. /\ n.headers = c.headers /\ n.begin = c.begin /\ n.end = c.end
            /\ n.full_body = c.full_body \o data
        BY <1>0 DEF LookupContext
      <3>2. /\ \A v \in Workers \ {w} : pc'[v] = pc[v] /\ lookup'[v] = lookup[v]
            /\ pc'[w] = p /\ lookup'[w] = n
        BY <1>0, <2>5 DEF TypeOK
      <3>3. p \in {"read", "served"}
        OBVIOUS
      <3> HIDE DEF n, p
      <3>4. data \in Seq(Byte) /\ Len(c.full_body) = c.start - c.begin
        <4>a. k \in Nat
          OBVIOUS
        <4>b. c.begin <= c.start /\ c.begin \in Nat /\ c.start \in Nat
          BY <1>0, <2>0 DEF Exact
        <4>1. k \in Nat /\ c.start - c.begin \in Nat
          BY <4>a, <4>b
        <4>2. c.full_body = BytesFrom(c.headers, c.begin, c.start - c.begin)
          BY <2>0 DEF Exact
        <4>3. Len(BytesFrom(c.headers, c.begin, c.start - c.begin)) = c.start - c.begin
          BY <1>0, <4>1, BytesLen, Zenon
        <4>4. data \in Seq(Byte)
          BY <1>0, <4>1, BytesLen, Zenon
        <4> QED BY <4>2, <4>3, <4>4, Zenon
      <3>5. full \in Seq(Byte)
        <4> HIDE DEF data
        <4> QED BY <1>0, <3>4
      <3>6. View(p, n) = [response |-> c.headers, begin |-> c.begin, end |-> c.end,
                          bytes |-> full]
        <4>1. ServableRange(n)
          BY <1>3, <3>1 DEF ServableRange
        <4>2. View(p, n) = [response |-> n.headers, begin |-> n.begin, end |-> n.end,
                            bytes |-> n.full_body]
          BY <3>3, <4>1 DEF View, ReadPCs
        <4> HIDE DEF data
        <4> QED BY <3>1, <4>2
      <3>7. Given[w].begin + Len(Given[w].bytes) = c.start
        <4>1. c.begin + (c.start - c.begin) = c.start
          BY <1>0
        <4>2. Given[w].begin = c.begin /\ Given[w].bytes = c.full_body
          BY <2>1, <2>2
        <4> QED BY <3>4, <4>1, <4>2, Zenon
      <3>8. c.start + k \in (Given[w].begin + Len(Given[w].bytes) + 1) .. Given[w].end
        BY <1>0, <2>1, <2>2, <2>5, <3>7
      <3>9. data = Promise!Slice(Given[w].response,
                                 Given[w].begin + Len(Given[w].bytes), c.start + k)
        <4>1. data = Promise!Slice(c.headers, c.start, c.start + k)
          <5>1. (c.start + k) - c.start = k
            BY <1>0
          <5> QED BY <5>1 DEF Promise!Slice, BytesFrom
        <4> HIDE DEF data
        <4> QED BY <2>1, <2>2, <3>7, <4>1
      <3>10. Given' = [Given EXCEPT ![w].bytes = @ \o data]
        <4> HIDE DEF full
        <4>1. [g EXCEPT !.bytes = full] = View(p, n)
          BY <2>1, <3>5, <3>6, DeliveredView
        <4>2. Given' = [Given EXCEPT ![w] = View(p, n)]
          BY <3>2, GivenMoves
        <4>3. Given' = [Given EXCEPT ![w] = [g EXCEPT !.bytes = full]]
          BY <4>1, <4>2
        <4> HIDE DEF data
        <4>4. full = Given[w].bytes \o data
          BY <2>1, <2>2 DEF full
        <4> QED BY <2>2, <4>3, <4>4
      <3>11. Given[w] # NULL
        BY <2>1, <2>2, NullAssumption
      <3> HIDE DEF data
      <3>12. Given' = [Given EXCEPT ![w].bytes =
                @ \o Promise!Slice(Given[w].response,
                                   Given[w].begin + Len(Given[w].bytes), c.start + k)]
        BY <3>9, <3>10
      <3> QED BY <1>1, <3>8, <3>11, <3>12, DeliverStep
    <2> QED BY <1>3, <2>4, <2>5, GetBodyGives
  <1> QED BY <1>2, <1>3


(* An insert step is not seen, but for the put of the header.              *)
LEMMA WorkerRefines ==
    ASSUME TypeOK, NEW w \in Workers,
           \/ \E h \in Hashes : MakeLookupContext(w, h)
           \/ MakeInsertContext(w) \/ InsertHeaders(w) \/ InsertBody(w)
           \/ FillBuffer(w) \/ BufferRest(w) \/ EndChunk(w) \/ Release(w)
    PROVE  Refines
  <1>1. ASSUME NEW p \in {"idle", "lookup"} \cup InsertPCs, NEW c,
               pc' = [pc EXCEPT ![w] = p],
               UNCHANGED lookup \/ lookup' = [lookup EXCEPT ![w] = c],
               UNCHANGED headerMap
        PROVE  Refines
    <2>1. /\ \A v \in Workers \ {w} : pc'[v] = pc[v] /\ lookup'[v] = lookup[v]
          /\ pc'[w] = p
      BY <1>1 DEF TypeOK
    <2>2. View(pc'[w], lookup'[w]) = NULL
      BY <1>1, <2>1, NoView DEF InsertPCs, ReadPCs
    <2> QED BY <1>1, <2>1, <2>2, LeavingRefines
  <1> USE DEF InsertPCs
  <1>2. CASE \E h \in Hashes : MakeLookupContext(w, h)
    BY <1>1, <1>2 DEF MakeLookupContext
  <1>3. CASE MakeInsertContext(w)
    BY <1>1, <1>3 DEF MakeInsertContext
  <1>4. CASE InsertHeaders(w)
    <2>1. PICK end_stream \in BOOLEAN :
             pc' = [pc EXCEPT ![w] = IF end_stream THEN "flushHeader" ELSE "ready"]
      BY <1>4 DEF InsertHeaders
    <2>2. PICK p \in {"flushHeader", "ready"} : pc' = [pc EXCEPT ![w] = p]
      BY <2>1
    <2>3. UNCHANGED <<lookup, headerMap>>
      BY <1>4 DEF InsertHeaders
    <2> QED BY <1>1, <2>2, <2>3
  <1>5. CASE InsertBody(w)
    BY <1>1, <1>5 DEF InsertBody
  <1>6. CASE FillBuffer(w) \/ BufferRest(w)
    <2>1. UNCHANGED <<pc, lookup, headerMap>>
      BY <1>6 DEF FillBuffer, BufferRest
    <2> QED BY <2>1, SameGiven, SameStored, StutterStep
  <1>7. CASE EndChunk(w)
    <2>1. UNCHANGED <<lookup, headerMap>>
      BY <1>7 DEF EndChunk
    <2>2. PICK p \in {"flushHeader", "ready"} : pc' = [pc EXCEPT ![w] = p]
      BY <1>7 DEF EndChunk
    <2> QED BY <1>1, <2>1, <2>2
  <1>8. CASE Release(w)
    BY <1>1, <1>8 DEF Release
  <1> QED BY <1>2, <1>3, <1>4, <1>5, <1>6, <1>7, <1>8

(* The put of the header makes the whole response visible.                 *)
LEMMA FlushHeaderRefines ==
    ASSUME IInv, NEW w \in Workers, FlushHeader(w)
    PROVE  Refines
  <1> DEFINE c == insert[w]
  <1>0. TypeOK /\ InsertProgress
    BY DEF IInv
  <1>1. /\ pc[w] = "flushHeader"
        /\ pc' = [pc EXCEPT ![w] = "inserted"] /\ UNCHANGED lookup
    BY DEF FlushHeader
  <1>2. c \in InsertContext /\ c.headers \in Responses
    BY <1>0, <1>1 DEF TypeOK, ContextOK, InsertPCs
  <1>3. c.headers \in Origin[c.hash_key]
    BY <1>0, <1>1 DEF InsertProgress, Progress, InsertPCs
  <1>4. PICK h \in Hashes, entry \in HeaderEntry :
           /\ entry.headers \in Origin[h]
           /\ headerMap' = Put(headerMap, HeaderKey(h), entry)
    <2> DEFINE e == [headers |-> c.headers, total_body_size |-> c.total_body_size]
    <2>1. e \in HeaderEntry /\ e.headers = c.headers /\ c.hash_key \in Hashes
      BY <1>2 DEF InsertContext, HeaderEntry
    <2>2. headerMap' = Put(headerMap, HeaderKey(c.hash_key), e)
      BY DEF FlushHeader, insertHeader
    <2> HIDE DEF e
    <2> QED BY <1>3, <2>1, <2>2
  <1>5. entry # NULL
    BY NullAssumption
  <1>6. lookupHeader(h)' = entry
    BY <1>4 DEF lookupHeader, Put, Get
  <1>7. \A g \in Hashes \ {h} : lookupHeader(g)' = lookupHeader(g)
    <2> SUFFICES ASSUME NEW g \in Hashes \ {h} PROVE lookupHeader(g)' = lookupHeader(g)
      OBVIOUS
    <2>1. HeaderKey(g) # HeaderKey(h)
      BY HeaderKeyInjective
    <2> QED BY <1>4, <2>1 DEF lookupHeader, Put, Get
  <1>8. Stored' = [Stored EXCEPT ![h] = entry.headers]
    BY <1>5, <1>6, <1>7 DEF Stored
  <1>9. Given' = Given
    <2>1. /\ \A v \in Workers \ {w} : pc'[v] = pc[v] /\ lookup'[v] = lookup[v]
          /\ pc'[w] = "inserted"
      BY <1>0, <1>1 DEF TypeOK
    <2>2. View(pc'[w], lookup'[w]) = NULL /\ View(pc[w], lookup[w]) = NULL
      BY <1>1, <2>1, NoView DEF ReadPCs
    <2>3. Given' = [Given EXCEPT ![w] = NULL]
      BY <2>1, <2>2, GivenMoves
    <2> QED BY <2>2, <2>3 DEF Given
  <1> QED BY <1>4, <1>8, <1>9, StoreStep

(* Whatever the cluster drops, a response leaves the cache whole.          *)
LEMMA ClusterRefines ==
    ASSUME IInv, ClusterStep
    PROVE  Refines
  <1>0. Shrinks
    BY ClusterShrinks DEF IInv
  <1>1. Given' = Given
    BY <1>0, SameGiven DEF Shrinks
  <1> DEFINE dropped == {h \in Hashes : lookupHeader(h)' = NULL}
  <1>2. \A h \in Hashes :
           lookupHeader(h)' # NULL => lookupHeader(h)' = lookupHeader(h)
    BY <1>0 DEF Shrinks, lookupHeader, Get
  <1>3. Stored' = [h \in Hashes |-> IF h \in dropped THEN NULL ELSE Stored[h]]
    BY <1>2 DEF Stored
  <1> QED BY <1>1, <1>3, DropStep

LEMMA NextRefines ==
    ASSUME StaticOrigin, IInv, ReadInv, [Next]_vars
    PROVE  Refines
  <1>0. TypeOK
    BY DEF IInv
  <1>1. ASSUME NEW w \in Workers, HandlerStep(w) PROVE Refines
    BY <1>0, <1>1, GetHeadersRefines, GetBodyRefines, WorkerRefines, FlushHeaderRefines
       DEF HandlerStep
  <1>2. ASSUME NEW w \in Workers, FilterStep(w) PROVE Refines
    BY <1>0, <1>2, RequestRangeRefines, WorkerRefines DEF FilterStep
  <1>3. CASE UNCHANGED vars
    <2>1. UNCHANGED <<pc, lookup, headerMap>>
      BY <1>3 DEF vars
    <2> QED BY <2>1, SameGiven, SameStored, StutterStep
  <1> QED BY <1>1, <1>2, <1>3, ClusterRefines DEF Next

(* Where the upstream never changes a response, the plugin implements a    *)
(* cache of whole responses: what the contexts do to the two maps, and     *)
(* what the cluster does to them, can only be seen as a response stored or *)
(* dropped at once, and as the next bytes of a range delivered.            *)
THEOREM ResponseCacheImplemented == ASSUME StaticOrigin PROVE Spec => ImplementsResponseCache
  <1>1. Init => Promise!Init
    <2> SUFFICES ASSUME Init PROVE Promise!Init
      OBVIOUS
    <2>1. \A h \in Hashes : lookupHeader(h) = NULL
      BY DEF Init, lookupHeader, Get
    <2>2. \A w \in Workers : Reader(w) = NULL
      BY DEF Init, Reader, ReadPCs
    <2> QED BY <2>1, <2>2 DEF Promise!Init
  <1>2. IInv /\ ReadInv /\ [Next]_vars => [Promise!Next]_(Promise!cache)
    BY NextRefines DEF Refines
  <1> QED
    BY <1>1, <1>2, Invariance, ReadInvariance, PTL
       DEF Spec, ImplementsResponseCache, Promise!Spec
=============================================================================

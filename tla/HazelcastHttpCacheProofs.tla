----------------------- MODULE HazelcastHttpCacheProofs -----------------------
(***************************************************************************)
(* Proofs about HazelcastHttpCache for all workers, hashes, responses and  *)
(* partition sizes: IInv is an inductive invariant of Spec.                *)
(***************************************************************************)
EXTENDS HazelcastHttpCache, TLAPS

(* Whatever the configuration, a partition holds at least one byte.        *)
LEMMA PartitionSize == BODY_PARTITION_SIZE \in Nat \ {0}
  BY WordAssumption, ConfigAssumption DEF BODY_PARTITION_SIZE, UInt64

(* The header map tells all hashes apart.                                  *)
LEMMA HeaderKeyInjective ==
  ASSUME NEW g \in Hashes, NEW h \in Hashes, HeaderKey(g) = HeaderKey(h)
  PROVE  g = h
  BY HashAssumption, WordAssumption DEF HeaderKey, Int64

(* Multiples of the partition size, for solvers without a product.         *)
LEMMA Multiples ==
  ASSUME NEW p \in Nat \ {0}
  PROVE  /\ \A i \in Nat : i * p \in Nat
         /\ \A i \in Nat : (i + 1) * p = i * p + p
         /\ \A i, j \in Nat : i * p < j * p => i < j
         /\ \A i, j \in Nat : i * p < j * p + p => i <= j
         /\ \A i, j \in Nat : i < j => i * p < j * p
  <1>1. \A i \in Nat : i * p \in Nat /\ (i + 1) * p = i * p + p
    OBVIOUS
  <1>2. ASSUME NEW i \in Nat, NEW j \in Nat, j <= i
        PROVE  j * p <= i * p
    BY <1>2
  <1>3. ASSUME NEW i \in Nat, NEW j \in Nat, i * p < j * p
        PROVE  i < j
    BY <1>1, <1>2, <1>3
  <1>4. ASSUME NEW i \in Nat, NEW j \in Nat, i * p < j * p + p
        PROVE  i <= j
    <2>1. i * p < (j + 1) * p
      BY <1>1, <1>4
    <2>2. i < j + 1
      BY <1>3, <2>1
    <2> QED
      BY <2>2
  <1>5. ASSUME NEW i \in Nat, NEW j \in Nat, i < j
        PROVE  i * p < j * p
    <2>1. (i + 1) * p <= j * p
      BY <1>2, <1>5
    <2> QED
      BY <1>1, <2>1
  <1> QED
    BY <1>1, <1>3, <1>4, <1>5

(* A function on 1 .. n is a sequence of length n.                         *)
LEMMA SeqOfFunction ==
  ASSUME NEW S, NEW n \in Nat, NEW f \in [1 .. n -> S]
  PROVE  f \in Seq(S) /\ Len(f) = n
  OBVIOUS

(* A worker that does nothing keeps its progress as long as no body key is *)
(* forgotten.                                                              *)
LEMMA FrameProgress ==
  ASSUME NEW w \in Workers, Progress(w),
         pc'[w] = pc[w], insert'[w] = insert[w],
         DOMAIN bodyMap \cup lost \subseteq (DOMAIN bodyMap \cup lost)'
  PROVE  Progress(w)'
  BY DEF Progress

(* A worker that does nothing keeps its contexts.                          *)
LEMMA FrameContext ==
  ASSUME NEW w \in Workers, ContextOK(w),
         pc'[w] = pc[w], insert'[w] = insert[w], lookup'[w] = lookup[w]
  PROVE  ContextOK(w)'
  BY DEF ContextOK

-----------------------------------------------------------------------------
(* The initial state.                                                      *)
LEMMA InitIInv == Init => IInv
  <1> SUFFICES ASSUME Init PROVE IInv
    OBVIOUS
  <1>1. TypeOK
    <2>1. /\ headerMap \in [DOMAIN headerMap -> HeaderEntry]
          /\ bodyMap \in [DOMAIN bodyMap -> Seq(Byte)]
          /\ DOMAIN headerMap = {} /\ DOMAIN bodyMap = {}
      BY DEF Init
    <2>2. /\ pc \in [Workers -> {"idle"} \cup LookupPCs \cup ReadPCs \cup InsertPCs]
          /\ lookup \in [Workers -> LookupContext \cup {NULL}]
          /\ insert \in [Workers -> InsertContext \cup {NULL}]
          /\ clearing \in BOOLEAN
          /\ lost = {}
      BY DEF Init
    <2>3. \A w \in Workers : ContextOK(w)
      BY DEF Init, ContextOK, LookupPCs, ReadPCs, InsertPCs
    <2> QED
      BY <2>1, <2>2, <2>3 DEF TypeOK
  <1>2. InsertProgress
    BY DEF Init, InsertProgress, Progress, InsertPCs
  <1>3. HeaderDescribesResponse /\ PublishedBodiesPresent
    BY DEF Init, HeaderDescribesResponse, PublishedBodiesPresent, lookupHeader, Get
  <1>4. PartitionsAreSlices
    BY DEF Init, PartitionsAreSlices, lookupBody, Get
  <1> QED
    BY <1>1, <1>2, <1>3, <1>4 DEF IInv

-----------------------------------------------------------------------------
(* Steps that leave the maps alone keep what is said of the maps.          *)
LEMMA MapsUnchanged ==
  ASSUME IInv, UNCHANGED <<headerMap, bodyMap, lost>>
  PROVE  /\ HeaderDescribesResponse'
         /\ PartitionsAreSlices'
         /\ PublishedBodiesPresent'
  BY DEF IInv, HeaderDescribesResponse, PartitionsAreSlices,
         PublishedBodiesPresent, lookupHeader, lookupBody, Get

(* What getBody hands to its callback is a sequence of bytes.              *)
LEMMA CopiedBufferType ==
  ASSUME NEW body \in Seq(Byte), NEW begin \in Nat, NEW end \in Nat,
         CopyLength(Len(body), begin, end) >= 0
  PROVE  CopiedBuffer(body, begin, end) \in Seq(Byte)
  <1> DEFINE length == CopyLength(Len(body), begin, end)
             offset == begin % BODY_PARTITION_SIZE
  <1>1. offset \in Nat /\ end % BODY_PARTITION_SIZE \in Nat
    BY PartitionSize
  <1>2. length \in Nat
    BY <1>1 DEF CopyLength
  <1>3. \A i \in 1 .. length : offset + i <= Len(body) => body[offset + i] \in Byte
    BY <1>1, <1>2
  <1>4. JUNK \in Byte
    BY DEF Byte
  <1> HIDE DEF length, offset
  <1>5. [i \in 1 .. length |->
           IF offset + i <= Len(body) THEN body[offset + i] ELSE JUNK]
          \in [1 .. length -> Byte]
    BY <1>3, <1>4
  <1> QED
    BY <1>2, <1>5, SeqOfFunction DEF CopiedBuffer, length, offset

(* A step of the lookup context leaves it well-typed.                      *)
LEMMA LookupContextType ==
  ASSUME TypeOK, NEW w \in Workers,
         \/ \E h \in Hashes : MakeLookupContext(w, h)
         \/ GetHeaders(w)
         \/ RequestRange(w)
         \/ GetBody(w)
  PROVE  /\ lookup'[w] \in LookupContext
         /\ pc'[w] \in {"hit"} \cup ReadPCs =>
               /\ lookup'[w].headers \in Responses
               /\ lookup'[w].total_body_size \in Nat
  <1> DEFINE Goal == /\ lookup'[w] \in LookupContext
                     /\ pc'[w] \in {"hit"} \cup ReadPCs =>
                           /\ lookup'[w].headers \in Responses
                           /\ lookup'[w].total_body_size \in Nat
  <1>0. /\ pc \in [Workers -> {"idle"} \cup LookupPCs \cup ReadPCs \cup InsertPCs]
        /\ lookup \in [Workers -> LookupContext \cup {NULL}]
        /\ ContextOK(w)
    BY DEF TypeOK
  <1>1. ASSUME NEW h \in Hashes, MakeLookupContext(w, h) PROVE Goal
    BY <1>0, <1>1 DEF MakeLookupContext, LookupContext, ReadPCs
  <1>2. CASE GetHeaders(w)
    <2>1. pc[w] = "lookup" /\ lookup[w] \in LookupContext
      BY <1>0, <1>2 DEF GetHeaders, ContextOK, LookupPCs
    <2>2. CASE lookupHeader(lookup[w].hash_key) = NULL
      BY <1>0, <1>2, <2>1, <2>2 DEF GetHeaders, ReadPCs
    <2>3. CASE lookupHeader(lookup[w].hash_key) # NULL
      <3>1. lookupHeader(lookup[w].hash_key) \in HeaderEntry
        BY <2>3 DEF TypeOK, lookupHeader, Get
      <3> QED
        BY <1>0, <1>2, <2>1, <2>3, <3>1
        DEF GetHeaders, HeaderEntry, LookupContext
    <2> QED
      BY <2>2, <2>3
  <1>3. CASE RequestRange(w)
    <2>1. /\ lookup[w] \in LookupContext
          /\ lookup[w].headers \in Responses
          /\ lookup[w].total_body_size \in Nat
      BY <1>0, <1>3 DEF RequestRange, ContextOK, LookupPCs, ReadPCs
    <2>2. PICK end \in 1 .. lookup[w].total_body_size :
            \E begin \in 0 .. (end - 1) :
               lookup' = [lookup EXCEPT ![w].begin = begin, ![w].start = begin,
                                        ![w].end = end]
      BY <1>3 DEF RequestRange
    <2>3. PICK begin \in 0 .. (end - 1) :
            lookup'[w] = [lookup[w] EXCEPT !.begin = begin, !.start = begin,
                                           !.end = end]
      BY <1>0, <2>2
    <2>4. end \in Nat /\ begin \in Nat
      BY <2>1, <2>2, <2>3
    <2> QED
      BY <2>1, <2>3, <2>4 DEF LookupContext
  <1>4. CASE GetBody(w)
    <2> DEFINE c    == lookup[w]
               body == lookupBody(c.hash_key, body_index(c.start))
               data == CopiedBuffer(body, c.start, c.end)
    <2>1. /\ c \in LookupContext
          /\ c.headers \in Responses
          /\ c.total_body_size \in Nat
      BY <1>0, <1>4 DEF GetBody, ContextOK, LookupPCs, ReadPCs
    <2>2. CASE UNCHANGED lookup
      BY <2>1, <2>2
    <2>3. CASE /\ body # NULL
               /\ CopyLength(Len(body), c.start, c.end) >= 0
               /\ lookup' = [lookup EXCEPT ![w].full_body = @ \o data,
                                           ![w].start = @ + Len(data)]
      <3>1. body \in Seq(Byte)
        BY <2>3 DEF TypeOK, lookupBody, Get
      <3>2. data \in Seq(Byte)
        BY <2>1, <2>3, <3>1, CopiedBufferType DEF LookupContext
      <3>3. c.full_body \o data \in Seq(Byte) /\ c.start + Len(data) \in Nat
        <4> HIDE DEF data
        <4> QED
          BY <2>1, <3>2 DEF LookupContext
      <3> HIDE DEF data
      <3> QED
        BY <1>0, <2>1, <2>3, <3>3 DEF LookupContext
    <2> QED
      BY <1>4, <2>2, <2>3 DEF GetBody
  <1> QED
    BY <1>1, <1>2, <1>3, <1>4

(* A step of the lookup context.                                           *)
LEMMA LookupStep ==
  ASSUME IInv, NEW w \in Workers,
         \/ \E h \in Hashes : MakeLookupContext(w, h)
         \/ GetHeaders(w)
         \/ RequestRange(w)
         \/ GetBody(w)
  PROVE  IInv'
  <1>0. TypeOK /\ InsertProgress
    BY DEF IInv
  <1>1. /\ UNCHANGED <<headerMap, bodyMap, insert, clearing, lost>>
        /\ pc' \in [Workers -> {"idle"} \cup LookupPCs \cup ReadPCs \cup InsertPCs]
        /\ pc'[w] \in LookupPCs \cup ReadPCs
        /\ \A v \in Workers \ {w} : pc'[v] = pc[v] /\ lookup'[v] = lookup[v]
        /\ lookup' = [v \in Workers |-> lookup'[v]]
    BY <1>0 DEF TypeOK, MakeLookupContext, GetHeaders, RequestRange, GetBody,
           LookupPCs, ReadPCs
  <1>2. /\ lookup'[w] \in LookupContext
        /\ pc'[w] \in {"hit"} \cup ReadPCs =>
              /\ lookup'[w].headers \in Responses
              /\ lookup'[w].total_body_size \in Nat
    BY <1>0, LookupContextType
  <1>3. TypeOK'
    <2>1. lookup' \in [Workers -> LookupContext \cup {NULL}]
      BY <1>0, <1>1, <1>2 DEF TypeOK
    <2>2. ContextOK(w)'
      BY <1>1, <1>2 DEF ContextOK, LookupPCs, ReadPCs, InsertPCs
    <2>3. \A v \in Workers : ContextOK(v)'
      BY <1>0, <1>1, <2>2, FrameContext DEF TypeOK
    <2> QED
      BY <1>0, <1>1, <2>1, <2>3 DEF TypeOK
  <1>4. InsertProgress'
    <2>1. Progress(w)'
      BY <1>1 DEF Progress, LookupPCs, ReadPCs, InsertPCs
    <2> QED
      BY <1>0, <1>1, <2>1, FrameProgress DEF InsertProgress
  <1> QED
    BY <1>1, <1>3, <1>4, MapsUnchanged DEF IInv

-----------------------------------------------------------------------------
(* The steps of the insert context.                                        *)

KeysKept == DOMAIN bodyMap \cup lost \subseteq (DOMAIN bodyMap \cup lost)'

(* A step of worker w that leaves it inserting, with its progress shown,   *)
(* keeps every worker's context well-typed and its progress.               *)
LEMMA InsertFrame ==
  ASSUME TypeOK, InsertProgress, NEW w \in Workers, KeysKept,
         \A v \in Workers \ {w} :
            pc'[v] = pc[v] /\ insert'[v] = insert[v] /\ lookup'[v] = lookup[v],
         pc' = [v \in Workers |-> pc'[v]],
         insert' = [v \in Workers |-> insert'[v]],
         lookup' = [v \in Workers |-> lookup'[v]],
         lookup'[w] \in LookupContext \cup {NULL},
         pc'[w] \in InsertPCs,
         insert'[w] \in InsertContext,
         pc'[w] # "insert" => insert'[w].headers \in Responses,
         Progress(w)'
  PROVE  /\ pc' \in [Workers -> {"idle"} \cup LookupPCs \cup ReadPCs \cup InsertPCs]
         /\ lookup' \in [Workers -> LookupContext \cup {NULL}]
         /\ insert' \in [Workers -> InsertContext \cup {NULL}]
         /\ \A v \in Workers : ContextOK(v)'
         /\ InsertProgress'
  <1>1. ContextOK(w)'
    BY DEF ContextOK, LookupPCs, ReadPCs, InsertPCs
  <1>2. \A v \in Workers : ContextOK(v)'
    BY <1>1, FrameContext DEF TypeOK
  <1>3. InsertProgress'
    BY FrameProgress DEF InsertProgress, KeysKept
  <1>4. /\ pc' \in [Workers -> {"idle"} \cup LookupPCs \cup ReadPCs \cup InsertPCs]
        /\ lookup' \in [Workers -> LookupContext \cup {NULL}]
        /\ insert' \in [Workers -> InsertContext \cup {NULL}]
    BY DEF TypeOK
  <1> QED
    BY <1>2, <1>3, <1>4

(* A header that is visible stays backed by its partitions as long as no   *)
(* body key is forgotten.                                                  *)
LEMMA PublishedKept ==
  ASSUME PublishedBodiesPresent, UNCHANGED headerMap, KeysKept
  PROVE  PublishedBodiesPresent'
  BY DEF PublishedBodiesPresent, KeysKept, lookupHeader, Get

(* Bytes copied behind the bytes of a response that are in the buffer.     *)
LEMMA AppendedBytes ==
  ASSUME NEW r \in Responses, NEW total \in Nat, NEW n \in Nat, NEW size \in Nat,
         NEW buffer, buffer = [i \in 1 .. n |-> <<r, total + i - 1>>]
  PROVE  /\ buffer \in Seq(Byte) /\ Len(buffer) = n
         /\ [i \in 1 .. Len(buffer) + size |->
               IF i \in (n + 1) .. (n + size) THEN <<r, total + i - 1>>
               ELSE IF i <= Len(buffer) THEN buffer[i] ELSE JUNK]
            = [i \in 1 .. (n + size) |-> <<r, total + i - 1>>]
  <1>1. \A i \in 1 .. n : <<r, total + i - 1>> \in Byte
    BY DEF Byte
  <1>2. buffer \in [1 .. n -> Byte]
    BY <1>1
  <1>3. buffer \in Seq(Byte) /\ Len(buffer) = n
    BY <1>2, SeqOfFunction
  <1>4. ASSUME NEW i \in 1 .. (n + size)
        PROVE  (IF i \in (n + 1) .. (n + size) THEN <<r, total + i - 1>>
                ELSE IF i <= Len(buffer) THEN buffer[i] ELSE JUNK)
               = <<r, total + i - 1>>
    BY <1>3
  <1> QED
    BY <1>3, <1>4

(* Consecutive bytes of a response are a sequence of bytes.                *)
LEMMA ResponseBytes ==
  ASSUME NEW r \in Responses, NEW total \in Nat, NEW n \in Nat
  PROVE  [i \in 1 .. n |-> <<r, total + i - 1>>] \in Seq(Byte)
  BY AppendedBytes

(* The fields of a context that is filling its buffer are numbers.         *)
LEMMA FillingTypes ==
  ASSUME NEW c \in InsertContext, Filling(c)
  PROVE  /\ Buffered(c) \in 0 .. (BODY_PARTITION_SIZE - 1)
         /\ Buffered(c) + c.available_buffer_bytes = BODY_PARTITION_SIZE
         /\ c.available_buffer_bytes \in Nat \ {0}
         /\ c.total_body_size \in Nat /\ c.sent \in Nat /\ c.body_order \in Nat
         /\ c.remaining_chunk_size \in Nat /\ c.local_chunk_index \in Nat
         /\ c.chunk_length \in Nat
  <1>1. /\ c.available_buffer_bytes \in Nat
        /\ c.total_body_size \in Nat /\ c.sent \in Nat /\ c.body_order \in Nat
        /\ c.remaining_chunk_size \in Nat /\ c.local_chunk_index \in Nat
        /\ c.chunk_length \in Nat
    BY DEF InsertContext
  <1>2. c.available_buffer_bytes \in 1 .. BODY_PARTITION_SIZE
    BY DEF Filling
  <1>3. /\ Buffered(c) \in 0 .. (BODY_PARTITION_SIZE - 1)
        /\ Buffered(c) + c.available_buffer_bytes = BODY_PARTITION_SIZE
        /\ c.available_buffer_bytes \in Nat \ {0}
    BY <1>2, PartitionSize DEF Buffered
  <1> QED
    BY <1>1, <1>3

(* The fields insertBody updates.                                          *)
Updated(c, total, order, buffer, available, local, remaining) ==
  [c EXCEPT !.total_body_size = total, !.body_order = order,
            !.buffer_vector = buffer, !.available_buffer_bytes = available,
            !.local_chunk_index = local, !.remaining_chunk_size = remaining]

(* copyIntoLocalBuffer appends the next bytes of the response.             *)
LEMMA CopiedBytes ==
  ASSUME NEW c \in InsertContext, c.headers \in Responses, Filling(c),
         NEW size \in Nat
  PROVE  copyIntoLocalBuffer(c, size) =
            [c EXCEPT
              !.buffer_vector = [i \in 1 .. (Buffered(c) + size) |->
                                    <<c.headers, c.total_body_size + i - 1>>],
              !.local_chunk_index = @ + size]
  <1> DEFINE n == Buffered(c)
             total == c.total_body_size
             byte(i) == ChunkByte(c, c.local_chunk_index + i - n - 1)
  <1>1. n \in Nat /\ total \in Nat
    BY FillingTypes, PartitionSize
  <1>2. \A i \in Int : byte(i) = <<c.headers, total + i - 1>>
    <2>1. \A i \in Int : c.sent - c.chunk_length + (c.local_chunk_index + i - n - 1)
                            = total + i - 1
      <3>1. /\ c.sent = total + n + c.remaining_chunk_size
            /\ c.chunk_length = c.local_chunk_index + c.remaining_chunk_size
        BY DEF Filling
      <3>2. /\ c.sent \in Nat /\ c.remaining_chunk_size \in Nat
            /\ c.local_chunk_index \in Nat /\ c.chunk_length \in Nat
        BY FillingTypes
      <3> HIDE DEF n, total
      <3> QED
        BY <1>1, <3>1, <3>2
    <2> QED
      BY <2>1 DEF ChunkByte
  <1>3. c.buffer_vector = [i \in 1 .. n |-> <<c.headers, total + i - 1>>]
    BY DEF Filling
  <1> HIDE DEF n, total, byte
  <1>4. Len(c.buffer_vector) = n
    BY <1>1, <1>3, AppendedBytes
  <1>5. [i \in 1 .. Len(c.buffer_vector) + size |->
           IF i \in (n + 1) .. (n + size) THEN <<c.headers, total + i - 1>>
           ELSE IF i <= Len(c.buffer_vector) THEN c.buffer_vector[i] ELSE JUNK]
        = [i \in 1 .. (n + size) |-> <<c.headers, total + i - 1>>]
    BY <1>1, <1>3, AppendedBytes
  <1>6. [i \in 1 .. Len(c.buffer_vector) + size |->
           IF i \in (n + 1) .. (n + size) THEN byte(i)
           ELSE IF i <= Len(c.buffer_vector) THEN c.buffer_vector[i] ELSE JUNK]
        = [i \in 1 .. (n + size) |-> <<c.headers, total + i - 1>>]
    <2>1. \A i \in 1 .. Len(c.buffer_vector) + size : i \in Int
      BY <1>1, <1>4
    <2> QED
      BY <1>2, <1>5, <2>1
  <1> QED
    BY <1>6 DEF copyIntoLocalBuffer, n, total, byte, Buffered

(* flushBuffer of a buffer that holds partition body_order of a response   *)
(* to its hash.                                                            *)
LEMMA FlushedPartition ==
  ASSUME TypeOK, PartitionsAreSlices, NEW w \in Workers,
         NEW c \in InsertContext,
         flushBuffer(w, c),
         c.headers \in Origin[c.hash_key],
         c.body_order * BODY_PARTITION_SIZE <= BodyLen[c.headers],
         c.buffer_vector = Partition(c.headers, c.body_order)
  PROVE  /\ bodyMap' \in [DOMAIN bodyMap' -> Seq(Byte)]
         /\ DOMAIN bodyMap' \subseteq BodyKeys
         /\ lost' \subseteq BodyKeys
         /\ KeysKept
         /\ BodyKey(c.hash_key, c.body_order) \in DOMAIN bodyMap'
         /\ PartitionsAreSlices'
  <1> DEFINE key == BodyKey(c.hash_key, c.body_order)
  <1>1. /\ c.hash_key \in Hashes /\ c.body_order \in 0 .. INT_MAX
        /\ c.buffer_vector \in Seq(Byte)
    BY DEF InsertContext
  <1>2. /\ bodyMap' = Put(bodyMap, key, c.buffer_vector)
        /\ lost' = lost \ {key}
    BY DEF flushBuffer, insertBody
  <1>3. key \in BodyKeys
    BY <1>1 DEF BodyKeys
  <1>4. /\ bodyMap' \in [DOMAIN bodyMap \cup {key} -> Seq(Byte)]
        /\ DOMAIN bodyMap' = DOMAIN bodyMap \cup {key}
        /\ bodyMap'[key] = c.buffer_vector
        /\ \A k \in DOMAIN bodyMap : k # key => bodyMap'[k] = bodyMap[k]
    <2>1. bodyMap \in [DOMAIN bodyMap -> Seq(Byte)]
      BY DEF TypeOK
    <2> HIDE DEF key
    <2> QED
      BY <1>1, <1>2, <2>1 DEF Put
  <1>5. PartitionsAreSlices'
    <2> SUFFICES ASSUME NEW h \in Hashes, NEW index \in 0 .. INT_MAX,
                        BodyKey(h, index) \in DOMAIN bodyMap',
                        bodyMap'[BodyKey(h, index)] # NULL
                 PROVE  \E r \in Origin[h] :
                          /\ index * BODY_PARTITION_SIZE <= BodyLen[r]
                          /\ bodyMap'[BodyKey(h, index)] = Partition(r, index)
      BY DEF PartitionsAreSlices, lookupBody, Get
    <2>1. CASE BodyKey(h, index) = key
      <3>1. h = c.hash_key /\ index = c.body_order
        BY <1>1, <2>1, HashAssumption, ZenonT(60)
      <3> QED
        BY <1>4, <3>1
    <2>2. CASE BodyKey(h, index) # key
      <3>1. /\ BodyKey(h, index) \in DOMAIN bodyMap
            /\ bodyMap'[BodyKey(h, index)] = bodyMap[BodyKey(h, index)]
        BY <1>4, <2>2
      <3> QED
        BY <3>1 DEF PartitionsAreSlices, lookupBody, Get
    <2> QED
      BY <2>1, <2>2
  <1> QED
    BY <1>2, <1>3, <1>4, <1>5 DEF TypeOK, KeysKept

(* A step of worker w that changes no map and leaves it inserting.         *)
LEMMA LocalInsertStep ==
  ASSUME IInv, NEW w \in Workers,
         UNCHANGED <<headerMap, bodyMap, clearing, lost>>,
         NEW q \in InsertPCs, NEW d \in InsertContext,
         pc' = [pc EXCEPT ![w] = q],
         insert' = [insert EXCEPT ![w] = d],
         lookup' = lookup \/ lookup' = [lookup EXCEPT ![w] = NULL],
         q # "insert" => d.headers \in Responses,
         Progress(w)'
  PROVE  IInv'
  <1>0. TypeOK /\ InsertProgress /\ KeysKept
    BY DEF IInv, KeysKept
  <1>1. /\ \A v \in Workers \ {w} :
              pc'[v] = pc[v] /\ insert'[v] = insert[v] /\ lookup'[v] = lookup[v]
        /\ pc' = [v \in Workers |-> pc'[v]]
        /\ insert' = [v \in Workers |-> insert'[v]]
        /\ lookup' = [v \in Workers |-> lookup'[v]]
        /\ lookup'[w] \in LookupContext \cup {NULL}
        /\ pc'[w] = q /\ insert'[w] = d
    BY <1>0 DEF TypeOK
  <1>2. /\ pc' \in [Workers -> {"idle"} \cup LookupPCs \cup ReadPCs \cup InsertPCs]
        /\ lookup' \in [Workers -> LookupContext \cup {NULL}]
        /\ insert' \in [Workers -> InsertContext \cup {NULL}]
        /\ \A v \in Workers : ContextOK(v)'
        /\ InsertProgress'
    BY <1>0, <1>1, InsertFrame
  <1>3. TypeOK'
    BY <1>0, <1>2 DEF TypeOK
  <1> QED
    BY <1>2, <1>3, MapsUnchanged DEF IInv

(* makeInsertContext: an empty buffer, nothing stored yet.                 *)
LEMMA MakeInsertContextStep ==
  ASSUME IInv, NEW w \in Workers, MakeInsertContext(w)
  PROVE  IInv'
  <1> DEFINE d == [hash_key |-> lookup[w].hash_key, headers |-> NULL,
                   total_body_size |-> 0, body_order |-> 0, buffer_vector |-> <<>>,
                   available_buffer_bytes |-> BODY_PARTITION_SIZE,
                   sent |-> 0, end_stream |-> FALSE, chunk_length |-> 0,
                   local_chunk_index |-> 0, remaining_chunk_size |-> 0]
  <1>1. lookup[w].hash_key \in Hashes
    BY DEF IInv, TypeOK, ContextOK, MakeInsertContext, LookupContext, LookupPCs
  <1>2. d \in InsertContext
    BY <1>1, PartitionSize, ResponseAssumption DEF InsertContext
  <1>3. Filling(d)
    BY PartitionSize DEF Filling, Buffered
  <1>4. /\ insert' = [insert EXCEPT ![w] = d]
        /\ pc' = [pc EXCEPT ![w] = "insert"]
        /\ lookup' = [lookup EXCEPT ![w] = NULL]
        /\ UNCHANGED <<headerMap, bodyMap, clearing, lost>>
    BY DEF MakeInsertContext
  <1>5. d.total_body_size = 0 /\ d.sent = 0
    OBVIOUS
  <1> HIDE DEF d
  <1>6. insert'[w] = d /\ pc'[w] = "insert"
    BY <1>4 DEF IInv, TypeOK
  <1>7. Progress(w)'
    <2>1. \A index \in 0 .. INT_MAX : ~(index * BODY_PARTITION_SIZE < 0)
      BY PartitionSize, ResponseAssumption, Multiples
    <2> QED
      BY <1>3, <1>5, <1>6, <2>1 DEF Progress, Filling, Buffered
  <1> QED
    BY <1>2, <1>4, <1>7, LocalInsertStep DEF InsertPCs

(* insertHeaders fixes the response whose body is to come.                 *)
LEMMA InsertHeadersStep ==
  ASSUME IInv, NEW w \in Workers, InsertHeaders(w)
  PROVE  IInv'
  <1> DEFINE c == insert[w]
  <1>1. /\ pc[w] = "insert" /\ c \in InsertContext /\ Progress(w)
        /\ insert \in [Workers -> InsertContext \cup {NULL}]
        /\ pc \in [Workers -> {"idle"} \cup LookupPCs \cup ReadPCs \cup InsertPCs]
    BY DEF IInv, TypeOK, ContextOK, InsertHeaders, InsertPCs, InsertProgress
  <1>2. PICK r \in Origin[c.hash_key], end_stream \in BOOLEAN :
          /\ end_stream => BodyLen[r] = 0
          /\ insert' = [insert EXCEPT ![w].headers = r]
          /\ pc' = [pc EXCEPT ![w] = IF end_stream THEN "flushHeader" ELSE "ready"]
    BY DEF InsertHeaders
  <1>3. r \in Responses /\ BodyLen[r] \in Nat
    BY <1>1, <1>2, ResponseAssumption DEF InsertContext
  <1> DEFINE d == [c EXCEPT !.headers = r]
             q == IF end_stream THEN "flushHeader" ELSE "ready"
  <1>4. insert' = [insert EXCEPT ![w] = d] /\ pc' = [pc EXCEPT ![w] = q]
    BY <1>1, <1>2
  <1>5. insert'[w] = d /\ pc'[w] = q
    BY <1>1, <1>4
  <1>6. d \in InsertContext /\ d.headers = r
    BY <1>1, <1>3 DEF InsertContext
  <1>7. /\ d.hash_key = c.hash_key /\ d.total_body_size = c.total_body_size
        /\ d.body_order = c.body_order /\ d.sent = c.sent
        /\ d.available_buffer_bytes = c.available_buffer_bytes
        /\ d.buffer_vector = c.buffer_vector
        /\ d.chunk_length = c.chunk_length
        /\ d.local_chunk_index = c.local_chunk_index
        /\ d.remaining_chunk_size = c.remaining_chunk_size
    BY <1>1 DEF InsertContext
  <1>8. /\ Filling(c) /\ c.sent = 0 /\ c.total_body_size = 0
        /\ Buffered(c) = 0 /\ c.remaining_chunk_size = 0
    <2>1. Filling(c) /\ c.sent = 0
      BY <1>1 DEF Progress
    <2>2. /\ Buffered(c) \in Nat /\ c.total_body_size \in Nat
          /\ c.remaining_chunk_size \in Nat
      BY <1>1, <2>1, FillingTypes, PartitionSize
    <2>3. c.sent = c.total_body_size + Buffered(c) + c.remaining_chunk_size
      BY <2>1 DEF Filling
    <2> HIDE DEF c
    <2> QED
      BY <2>1, <2>2, <2>3
  <1>9. Filling(d)
    <2>1. Buffered(d) = 0
      BY <1>7, <1>8 DEF Buffered
    <2>2. c.buffer_vector = <<>>
      BY <1>8 DEF Filling
    <2> HIDE DEF d
    <2>3. d.buffer_vector = [i \in 1 .. Buffered(d) |->
                               <<d.headers, d.total_body_size + i - 1>>]
      BY <1>7, <2>1, <2>2
    <2> QED
      BY <1>7, <1>8, <2>1, <2>3 DEF Filling
  <1>10. Progress(w)'
    <2> HIDE DEF d
    <2>1. /\ q \in {"flushHeader", "ready"}
          /\ q = "flushHeader" => BodyLen[r] = 0
      BY <1>2
    <2>2. (DOMAIN bodyMap \cup lost)' = DOMAIN bodyMap \cup lost
      BY DEF InsertHeaders
    <2>3. \A index \in 0 .. INT_MAX :
             index * BODY_PARTITION_SIZE < d.total_body_size =>
                 BodyKey(d.hash_key, index) \in (DOMAIN bodyMap \cup lost)'
      BY <1>1, <1>7, <2>2 DEF Progress, InsertPCs
    <2>4. r \in Origin[d.hash_key]
      BY <1>2, <1>7
    <2>5. /\ d.sent = 0 /\ d.total_body_size = 0 /\ d.remaining_chunk_size = 0
          /\ 0 <= BodyLen[r]
      BY <1>3, <1>7, <1>8
    <2> HIDE DEF q
    <2> QED
      BY <1>3, <1>5, <1>6, <1>9, <2>1, <2>3, <2>4, <2>5 DEF Progress
  <1> QED
    <2>1. q \in InsertPCs
      BY DEF InsertPCs
    <2>2. UNCHANGED <<headerMap, bodyMap, clearing, lost, lookup>>
      BY DEF InsertHeaders
    <2> HIDE DEF d, q
    <2> QED
      BY <1>3, <1>4, <1>6, <1>10, <2>1, <2>2, LocalInsertStep

(* What is to be shown of a context that goes on filling its buffer.       *)
LEMMA FillingProgress ==
  ASSUME NEW w \in Workers, NEW q \in {"ready", "chunk"}, NEW d \in InsertContext,
         pc'[w] = q, insert'[w] = d, Filling(d),
         d.headers \in Origin[d.hash_key],
         d.sent <= BodyLen[d.headers],
         q = "ready" => d.remaining_chunk_size = 0,
         q = "chunk" /\ d.end_stream => d.sent = BodyLen[d.headers],
         \A index \in 0 .. INT_MAX :
             index * BODY_PARTITION_SIZE < d.total_body_size =>
                 BodyKey(d.hash_key, index) \in (DOMAIN bodyMap \cup lost)'
  PROVE  Progress(w)'
  BY DEF Progress, Filling, Buffered

(* What is known of a worker before it, or the filter, goes on.            *)
LEMMA InsertingWorker ==
  ASSUME IInv, NEW w \in Workers, pc[w] \in {"ready", "chunk"}
  PROVE  LET c == insert[w] IN
         /\ c \in InsertContext /\ c.headers \in Responses
         /\ c.hash_key \in Hashes /\ c.headers \in Origin[c.hash_key]
         /\ BodyLen[c.headers] \in Nat
         /\ Filling(c)
         /\ c.sent \in Nat /\ c.sent <= BodyLen[c.headers]
         /\ pc[w] = "ready" => c.remaining_chunk_size = 0
         /\ pc[w] = "chunk" /\ c.end_stream => c.sent = BodyLen[c.headers]
         /\ \A index \in 0 .. INT_MAX :
               index * BODY_PARTITION_SIZE < c.total_body_size =>
                   BodyKey(c.hash_key, index) \in DOMAIN bodyMap \cup lost
         /\ insert \in [Workers -> InsertContext \cup {NULL}]
         /\ pc \in [Workers -> {"idle"} \cup LookupPCs \cup ReadPCs \cup InsertPCs]
  <1>1. /\ insert[w] \in InsertContext /\ insert[w].headers \in Responses
        /\ insert \in [Workers -> InsertContext \cup {NULL}]
        /\ pc \in [Workers -> {"idle"} \cup LookupPCs \cup ReadPCs \cup InsertPCs]
    BY DEF IInv, TypeOK, ContextOK, InsertPCs
  <1>2. /\ insert[w].hash_key \in Hashes /\ insert[w].sent \in Nat
        /\ BodyLen[insert[w].headers] \in Nat
    BY <1>1, ResponseAssumption DEF InsertContext
  <1>3. Progress(w)
    BY DEF IInv, InsertProgress
  <1> QED
    BY <1>1, <1>2, <1>3 DEF Progress, InsertPCs

(* insertBody is entered with the next chunk of the response.              *)
LEMMA InsertBodyStep ==
  ASSUME IInv, NEW w \in Workers, InsertBody(w)
  PROVE  IInv'
  <1> DEFINE c == insert[w]
  <1>1. pc[w] = "ready" /\ UNCHANGED <<headerMap, bodyMap, lookup, clearing, lost>>
    BY DEF InsertBody
  <1>2. PICK length \in 0 .. (BodyLen[c.headers] - c.sent), end_stream \in BOOLEAN :
          /\ end_stream => c.sent + length = BodyLen[c.headers]
          /\ insert' = [insert EXCEPT ![w].sent = @ + length,
                                      ![w].chunk_length = length,
                                      ![w].remaining_chunk_size = length,
                                      ![w].local_chunk_index = 0,
                                      ![w].end_stream = end_stream]
    BY DEF InsertBody
  <1>3. length \in Nat /\ c.sent + length <= BodyLen[c.headers]
    <2>1. BodyLen[c.headers] \in Nat /\ c.sent \in Nat
      BY <1>1, InsertingWorker
    <2> HIDE DEF c
    <2> QED
      BY <2>1
  <1> DEFINE d == [c EXCEPT !.sent = @ + length, !.chunk_length = length,
                            !.remaining_chunk_size = length,
                            !.local_chunk_index = 0, !.end_stream = end_stream]
  <1>4. /\ insert' = [insert EXCEPT ![w] = d] /\ insert'[w] = d
        /\ pc' = [pc EXCEPT ![w] = "chunk"] /\ pc'[w] = "chunk"
    BY <1>1, <1>2, InsertingWorker, ZenonT(60) DEF InsertBody
  <1>5. c \in InsertContext /\ Filling(c) /\ c.remaining_chunk_size = 0
    BY <1>1, InsertingWorker
  <1>6. /\ d \in InsertContext
        /\ d.headers = c.headers /\ d.hash_key = c.hash_key
        /\ d.total_body_size = c.total_body_size /\ d.body_order = c.body_order
        /\ d.available_buffer_bytes = c.available_buffer_bytes
        /\ d.buffer_vector = c.buffer_vector
        /\ d.sent = c.sent + length /\ d.chunk_length = length
        /\ d.remaining_chunk_size = length /\ d.local_chunk_index = 0
        /\ d.end_stream <=> end_stream
    <2>1. c.sent + length \in Nat
      BY <1>3, <1>5 DEF InsertContext
    <2>2. d \in InsertContext
      BY <1>3, <1>5, <2>1 DEF InsertContext
    <2>3. d.end_stream <=> end_stream
      BY <1>5 DEF InsertContext
    <2> QED
      BY <1>5, <2>2, <2>3 DEF InsertContext
  <1> HIDE DEF d
  <1>7. Filling(d)
    <2>1. Buffered(d) = Buffered(c)
      BY <1>6 DEF Buffered
    <2>2. /\ d.sent = d.total_body_size + Buffered(d) + d.remaining_chunk_size
          /\ d.chunk_length = d.local_chunk_index + d.remaining_chunk_size
          /\ d.chunk_length <= d.sent
      <3>1. c.sent = c.total_body_size + Buffered(c) + c.remaining_chunk_size
        BY <1>5 DEF Filling
      <3>2. c.sent \in Nat /\ c.total_body_size \in Nat /\ Buffered(c) \in Nat
        BY <1>5, FillingTypes, PartitionSize
      <3> HIDE DEF c
      <3> QED
        BY <1>3, <1>5, <1>6, <2>1, <3>1, <3>2
    <2> QED
      BY <1>5, <1>6, <2>1, <2>2 DEF Filling
  <1>8. Progress(w)'
    <2>1. /\ d.headers \in Origin[d.hash_key]
          /\ d.sent <= BodyLen[d.headers]
          /\ d.end_stream => d.sent = BodyLen[d.headers]
      BY <1>1, <1>2, <1>3, <1>6, InsertingWorker
    <2>2. \A index \in 0 .. INT_MAX :
             index * BODY_PARTITION_SIZE < d.total_body_size =>
                 BodyKey(d.hash_key, index) \in (DOMAIN bodyMap \cup lost)'
      BY <1>1, <1>6, InsertingWorker
    <2> QED
      BY <1>4, <1>6, <1>7, <2>1, <2>2, FillingProgress
  <1>9. d.headers \in Responses
    BY <1>1, <1>6, InsertingWorker
  <1> QED
    BY <1>1, <1>4, <1>6, <1>8, <1>9, LocalInsertStep DEF InsertPCs

(* The loop of insertBody keeps the rest of a chunk in the buffer.         *)
LEMMA BufferRestStep ==
  ASSUME IInv, NEW w \in Workers, BufferRest(w)
  PROVE  IInv'
  <1> DEFINE c == insert[w]
             size == c.remaining_chunk_size
             copy == copyIntoLocalBuffer(c, size)
             d == [copy EXCEPT !.available_buffer_bytes = @ - size,
                               !.remaining_chunk_size = 0]
  <1>1. /\ pc[w] = "chunk" /\ UNCHANGED <<headerMap, bodyMap, pc, lookup, clearing, lost>>
        /\ c.available_buffer_bytes > size
        /\ insert' = [insert EXCEPT ![w] = d]
    BY DEF BufferRest
  <1>2. /\ c \in InsertContext /\ Filling(c) /\ c.headers \in Responses
        /\ insert'[w] = d
    BY <1>1, InsertingWorker
  <1>3. /\ size \in Nat /\ Buffered(c) \in Nat /\ c.total_body_size \in Nat
        /\ c.available_buffer_bytes \in Nat /\ c.local_chunk_index \in Nat
        /\ Buffered(c) + c.available_buffer_bytes = BODY_PARTITION_SIZE
        /\ c.chunk_length \in Nat /\ c.sent \in Nat
    BY <1>2, FillingTypes, PartitionSize
  <1> DEFINE buffer == [i \in 1 .. (Buffered(c) + size) |->
                          <<c.headers, c.total_body_size + i - 1>>]
  <1>4. copy = [c EXCEPT !.buffer_vector = buffer, !.local_chunk_index = @ + size]
    BY <1>2, <1>3, CopiedBytes
  <1>5. buffer \in Seq(Byte)
    <2>1. Buffered(c) + size \in Nat
      BY <1>3
    <2> QED
      BY <1>2, <1>3, <2>1, ResponseBytes
  <1> HIDE DEF copy, buffer
  <1>6. /\ d \in InsertContext
        /\ d.headers = c.headers /\ d.hash_key = c.hash_key
        /\ d.total_body_size = c.total_body_size /\ d.body_order = c.body_order
        /\ d.available_buffer_bytes = c.available_buffer_bytes - size
        /\ d.buffer_vector = buffer
        /\ d.sent = c.sent /\ d.chunk_length = c.chunk_length
        /\ d.remaining_chunk_size = 0 /\ d.local_chunk_index = c.local_chunk_index + size
        /\ d.end_stream = c.end_stream
    <2> DEFINE available == c.available_buffer_bytes - size
               local == c.local_chunk_index + size
    <2>1. d = Updated(c, c.total_body_size, c.body_order, buffer, available, local, 0)
      BY <1>2, <1>4 DEF InsertContext, Updated
    <2>2. available \in Nat /\ local \in Nat
      <3> HIDE DEF c, size
      <3> QED
        BY <1>1, <1>3
    <2>3. c.body_order \in 0 .. INT_MAX
      BY <1>2 DEF InsertContext
    <2> HIDE DEF d, c, available, local
    <2>4. d \in InsertContext
      <3>1. c.total_body_size \in Nat /\ c \in InsertContext
        BY <1>2, <1>3
      <3>2. Updated(c, c.total_body_size, c.body_order, buffer, available, local, 0)
              \in InsertContext
        BY <1>5, <2>2, <2>3, <3>1 DEF InsertContext, Updated
      <3> QED
        BY <2>1, <3>2
    <2> QED
      BY <1>2, <2>1, <2>4 DEF InsertContext, Updated, available, local
  <1> HIDE DEF d
  <1>7. Filling(d)
    <2>1. Buffered(d) = Buffered(c) + size
      BY <1>3, <1>6, PartitionSize DEF Buffered
    <2>2. /\ d.available_buffer_bytes \in 1 .. BODY_PARTITION_SIZE
          /\ d.sent = d.total_body_size + Buffered(d) + d.remaining_chunk_size
          /\ d.chunk_length = d.local_chunk_index + d.remaining_chunk_size
          /\ d.chunk_length <= d.sent
      <3>1. /\ c.sent = c.total_body_size + Buffered(c) + size
            /\ c.chunk_length = c.local_chunk_index + size
            /\ c.chunk_length <= c.sent
        BY <1>2 DEF Filling
      <3> HIDE DEF c, size
      <3> QED
        BY <1>1, <1>3, <1>6, <2>1, <3>1, PartitionSize
    <2> QED
      BY <1>2, <1>6, <2>1, <2>2 DEF Filling, buffer
  <1>8. Progress(w)'
    <2>1. /\ d.headers \in Origin[d.hash_key]
          /\ d.sent <= BodyLen[d.headers]
          /\ d.end_stream => d.sent = BodyLen[d.headers]
      BY <1>1, <1>6, InsertingWorker
    <2>2. \A index \in 0 .. INT_MAX :
             index * BODY_PARTITION_SIZE < d.total_body_size =>
                 BodyKey(d.hash_key, index) \in (DOMAIN bodyMap \cup lost)'
      BY <1>1, <1>6, InsertingWorker
    <2> QED
      BY <1>1, <1>2, <1>6, <1>7, <2>1, <2>2, FillingProgress
  <1>9. pc' = [pc EXCEPT ![w] = "chunk"]
    BY <1>1, InsertingWorker
  <1> QED
    BY <1>1, <1>2, <1>6, <1>8, <1>9, LocalInsertStep DEF InsertPCs

(* insertBody returns in the middle of a response.                         *)
LEMMA ChunkReturnStep ==
  ASSUME IInv, NEW w \in Workers, EndChunk(w), ~insert[w].end_stream
  PROVE  IInv'
  <1> DEFINE c == insert[w]
             d == [c EXCEPT !.chunk_length = 0, !.local_chunk_index = 0]
  <1>1. /\ pc[w] = "chunk" /\ UNCHANGED <<headerMap, bodyMap, lookup, clearing, lost>>
        /\ c.remaining_chunk_size = 0
        /\ insert' = [insert EXCEPT ![w].chunk_length = 0, ![w].local_chunk_index = 0]
        /\ pc' = [pc EXCEPT ![w] = "ready"]
    BY DEF EndChunk
  <1>2. /\ c \in InsertContext /\ Filling(c) /\ c.headers \in Responses
        /\ insert' = [insert EXCEPT ![w] = d] /\ insert'[w] = d
        /\ pc'[w] = "ready"
    BY <1>1, InsertingWorker
  <1>3. /\ d \in InsertContext
        /\ d.headers = c.headers /\ d.hash_key = c.hash_key
        /\ d.total_body_size = c.total_body_size /\ d.body_order = c.body_order
        /\ d.available_buffer_bytes = c.available_buffer_bytes
        /\ d.buffer_vector = c.buffer_vector
        /\ d.sent = c.sent /\ d.chunk_length = 0
        /\ d.remaining_chunk_size = 0 /\ d.local_chunk_index = 0
    BY <1>1, <1>2 DEF InsertContext
  <1> HIDE DEF d
  <1>4. Filling(d)
    <2>1. Buffered(d) = Buffered(c)
      BY <1>3 DEF Buffered
    <2>2. c.sent \in Nat
      BY <1>2, FillingTypes
    <2> QED
      BY <1>1, <1>2, <1>3, <2>1, <2>2 DEF Filling
  <1>5. Progress(w)'
    <2>1. /\ d.headers \in Origin[d.hash_key]
          /\ d.sent <= BodyLen[d.headers]
      BY <1>1, <1>3, InsertingWorker
    <2>2. \A index \in 0 .. INT_MAX :
             index * BODY_PARTITION_SIZE < d.total_body_size =>
                 BodyKey(d.hash_key, index) \in (DOMAIN bodyMap \cup lost)'
      BY <1>1, <1>3, InsertingWorker
    <2> QED
      BY <1>2, <1>3, <1>4, <2>1, <2>2, FillingProgress
  <1> QED
    BY <1>1, <1>2, <1>3, <1>5, LocalInsertStep DEF InsertPCs

(* A step of worker w that puts a partition and leaves it inserting.       *)
LEMMA FlushInsertStep ==
  ASSUME IInv, NEW w \in Workers, UNCHANGED <<headerMap, lookup, clearing>>,
         bodyMap' \in [DOMAIN bodyMap' -> Seq(Byte)],
         DOMAIN bodyMap' \subseteq BodyKeys,
         lost' \subseteq BodyKeys,
         KeysKept,
         PartitionsAreSlices',
         NEW q \in InsertPCs, NEW d \in InsertContext,
         pc' = [pc EXCEPT ![w] = q],
         insert' = [insert EXCEPT ![w] = d],
         d.headers \in Responses,
         Progress(w)'
  PROVE  IInv'
  <1>0. /\ TypeOK /\ InsertProgress
        /\ PublishedBodiesPresent /\ HeaderDescribesResponse
    BY DEF IInv
  <1>1. /\ \A v \in Workers \ {w} :
              pc'[v] = pc[v] /\ insert'[v] = insert[v] /\ lookup'[v] = lookup[v]
        /\ pc' = [v \in Workers |-> pc'[v]]
        /\ insert' = [v \in Workers |-> insert'[v]]
        /\ lookup' = [v \in Workers |-> lookup'[v]]
        /\ lookup'[w] \in LookupContext \cup {NULL}
        /\ pc'[w] = q /\ insert'[w] = d
    BY <1>0 DEF TypeOK
  <1>2. /\ pc' \in [Workers -> {"idle"} \cup LookupPCs \cup ReadPCs \cup InsertPCs]
        /\ lookup' \in [Workers -> LookupContext \cup {NULL}]
        /\ insert' \in [Workers -> InsertContext \cup {NULL}]
        /\ \A v \in Workers : ContextOK(v)'
        /\ InsertProgress'
    BY <1>0, <1>1, InsertFrame
  <1>3. TypeOK'
    BY <1>0, <1>2 DEF TypeOK
  <1>4. PublishedBodiesPresent' /\ HeaderDescribesResponse'
    BY <1>0, PublishedKept DEF HeaderDescribesResponse, lookupHeader, Get
  <1> QED
    BY <1>2, <1>3, <1>4 DEF IInv

(* A partition that begins before the end of a body has an int index, and  *)
(* so has the next.                                                        *)
LEMMA OrderBound ==
  ASSUME NEW r \in Responses, NEW order \in Nat,
         order * BODY_PARTITION_SIZE <= BodyLen[r]
  PROVE  order + 1 \in 0 .. INT_MAX
  <1>1. /\ INT_MAX \in Nat /\ BodyLen[r] \in Nat
        /\ BodyLen[r] < INT_MAX * BODY_PARTITION_SIZE
    BY ResponseAssumption
  <1>2. /\ order * BODY_PARTITION_SIZE \in Nat
        /\ INT_MAX * BODY_PARTITION_SIZE \in Nat
    BY <1>1, PartitionSize, Multiples
  <1>3. order * BODY_PARTITION_SIZE < INT_MAX * BODY_PARTITION_SIZE
    BY <1>1, <1>2
  <1>4. order < INT_MAX
    BY <1>1, <1>3, PartitionSize, Multiples
  <1> QED
    BY <1>1, <1>4

(* After the put of partition body_order, every partition up to it is      *)
(* stored.                                                                 *)
LEMMA StoredUpTo ==
  ASSUME KeysKept, NEW hash_key, NEW order \in Nat, NEW total, NEW bytes \in Nat,
         total = order * BODY_PARTITION_SIZE, bytes <= BODY_PARTITION_SIZE,
         \A index \in 0 .. INT_MAX :
             index * BODY_PARTITION_SIZE < total =>
                 BodyKey(hash_key, index) \in DOMAIN bodyMap \cup lost,
         BodyKey(hash_key, order) \in DOMAIN bodyMap',
         NEW index \in 0 .. INT_MAX,
         index * BODY_PARTITION_SIZE < total + bytes
  PROVE  BodyKey(hash_key, index) \in (DOMAIN bodyMap \cup lost)'
  <1>1. index \in Nat
    BY ResponseAssumption
  <1>2. /\ total \in Nat /\ index * BODY_PARTITION_SIZE \in Nat
        /\ BODY_PARTITION_SIZE \in Nat
    BY <1>1, PartitionSize, Multiples
  <1>3. index * BODY_PARTITION_SIZE < order * BODY_PARTITION_SIZE + BODY_PARTITION_SIZE
    BY <1>2
  <1>4. index <= order
    BY <1>1, <1>3, PartitionSize, Multiples
  <1>5. CASE index = order
    BY <1>5
  <1>6. CASE index < order
    <2>1. index * BODY_PARTITION_SIZE < total
      BY <1>1, <1>6, PartitionSize, Multiples
    <2> QED
      BY <2>1 DEF KeysKept
  <1> QED
    BY <1>1, <1>4, <1>5, <1>6

(* The loop of insertBody flushes a full buffer.                           *)
LEMMA FillBufferStep ==
  ASSUME IInv, NEW w \in Workers, FillBuffer(w)
  PROVE  IInv'
  <1> DEFINE c == insert[w]
             size == c.available_buffer_bytes
             P == BODY_PARTITION_SIZE
             total == c.total_body_size
             order == c.body_order
             copy == copyIntoLocalBuffer(c, size)
             e == [copy EXCEPT !.remaining_chunk_size = @ - size,
                               !.available_buffer_bytes = 0]
             d == [e EXCEPT !.total_body_size = @ + (P - e.available_buffer_bytes),
                            !.buffer_vector = <<>>,
                            !.body_order = @ + 1,
                            !.available_buffer_bytes = P]
  <1>1. /\ pc[w] = "chunk" /\ UNCHANGED <<headerMap, pc, lookup, clearing>>
        /\ size <= c.remaining_chunk_size
        /\ flushBuffer(w, e)
        /\ insert' = [insert EXCEPT ![w] = d]
    BY DEF FillBuffer, flushBuffer
  <1>2. /\ c \in InsertContext /\ Filling(c) /\ c.headers \in Responses
        /\ c.headers \in Origin[c.hash_key] /\ c.hash_key \in Hashes
        /\ BodyLen[c.headers] \in Nat /\ c.sent <= BodyLen[c.headers]
        /\ insert'[w] = d
    BY <1>1, InsertingWorker
  <1>3. /\ size \in Nat /\ Buffered(c) \in Nat /\ total \in Nat
        /\ c.local_chunk_index \in Nat /\ c.remaining_chunk_size \in Nat
        /\ Buffered(c) + size = P /\ P \in Nat
        /\ c.chunk_length \in Nat /\ c.sent \in Nat /\ order \in Nat
    BY <1>2, FillingTypes, PartitionSize
  <1>4. /\ total = order * P
        /\ c.sent = total + Buffered(c) + c.remaining_chunk_size
        /\ c.chunk_length = c.local_chunk_index + c.remaining_chunk_size
        /\ c.chunk_length <= c.sent
    BY <1>2 DEF Filling
  <1>5. total + P <= BodyLen[c.headers]
    <2> HIDE DEF c, size, P, total
    <2> QED
      BY <1>1, <1>2, <1>3, <1>4
  <1>6. order + 1 \in 0 .. INT_MAX /\ order \in 0 .. INT_MAX
    <2>1. order * P <= BodyLen[c.headers]
      <3> HIDE DEF c, P, total, order
      <3> QED
        BY <1>2, <1>3, <1>4, <1>5
    <2>2. order + 1 \in 0 .. INT_MAX
      BY <1>2, <1>3, <2>1, OrderBound
    <2> QED
      BY <1>2, <2>2 DEF InsertContext
  <1> DEFINE buffer == [i \in 1 .. P |-> <<c.headers, total + i - 1>>]
             local == c.local_chunk_index + size
             remaining == c.remaining_chunk_size - size
  <1>7. copy = [c EXCEPT !.buffer_vector = buffer, !.local_chunk_index = @ + size]
    BY <1>2, <1>3, CopiedBytes
  <1>8. buffer \in Seq(Byte)
    BY <1>2, <1>3, ResponseBytes
  <1>9. local \in Nat /\ remaining \in Nat
    <2> HIDE DEF c, size
    <2> QED
      BY <1>1, <1>3
  <1> HIDE DEF copy, buffer
  <1>10. e = Updated(c, total, order, buffer, 0, local, remaining)
    BY <1>2, <1>7 DEF InsertContext, Updated
  <1>11. d = Updated(c, total + P, order + 1, <<>>, P, local, remaining)
    <2>1. e.available_buffer_bytes = 0 /\ P - 0 = P
      BY <1>2, <1>3, <1>10 DEF InsertContext, Updated
    <2> HIDE DEF e, P, local, remaining
    <2> QED
      BY <1>2, <1>10, <2>1, ZenonT(60) DEF InsertContext, Updated
  <1> HIDE DEF e, d, local, remaining
  <1>12. e \in InsertContext
    <2>1. Updated(c, total, order, buffer, 0, local, remaining) \in InsertContext
      BY <1>2, <1>3, <1>6, <1>8, <1>9 DEF InsertContext, Updated
    <2> QED
      BY <1>10, <2>1
  <1>13. d \in InsertContext
    <2> DEFINE t == total + P
               o == order + 1
    <2>1. t \in Nat /\ o \in 0 .. INT_MAX /\ <<>> \in Seq(Byte)
      BY <1>3, <1>6
    <2> HIDE DEF t, o
    <2>2. Updated(c, t, o, <<>>, P, local, remaining) \in InsertContext
      BY <1>2, <1>3, <1>9, <2>1 DEF InsertContext, Updated
    <2> QED
      BY <1>11, <2>2 DEF t, o
  <1>14. /\ e.headers = c.headers /\ e.hash_key = c.hash_key
         /\ e.body_order = order /\ e.buffer_vector = buffer
    BY <1>2, <1>10 DEF InsertContext, Updated
  <1>15. /\ d.headers = c.headers /\ d.hash_key = c.hash_key
         /\ d.total_body_size = total + P /\ d.body_order = order + 1
         /\ d.buffer_vector = <<>> /\ d.available_buffer_bytes = P
         /\ d.sent = c.sent /\ d.chunk_length = c.chunk_length
         /\ d.local_chunk_index = local /\ d.remaining_chunk_size = remaining
         /\ d.end_stream = c.end_stream
    BY <1>2, <1>11 DEF InsertContext, Updated
  <1>16. buffer = Partition(c.headers, order)
    <2>1. /\ BodyLen[c.headers] - total >= P
          /\ ~(BodyLen[c.headers] - total < P)
      <3> HIDE DEF c, P, total
      <3> QED
        BY <1>2, <1>3, <1>5
    <2> QED
      BY <1>4, <2>1 DEF Partition, buffer
  <1>17. /\ bodyMap' \in [DOMAIN bodyMap' -> Seq(Byte)]
         /\ DOMAIN bodyMap' \subseteq BodyKeys
         /\ lost' \subseteq BodyKeys
         /\ KeysKept
         /\ BodyKey(c.hash_key, order) \in DOMAIN bodyMap'
         /\ PartitionsAreSlices'
    <2>1. e.body_order * P <= BodyLen[e.headers]
      <3> HIDE DEF c, P, total, order
      <3> QED
        BY <1>2, <1>3, <1>4, <1>5, <1>14
    <2>2. /\ e.headers \in Origin[e.hash_key]
          /\ e.buffer_vector = Partition(e.headers, e.body_order)
      BY <1>2, <1>14, <1>16
    <2>3. TypeOK /\ PartitionsAreSlices
      BY DEF IInv
    <2>4. /\ bodyMap' \in [DOMAIN bodyMap' -> Seq(Byte)]
          /\ DOMAIN bodyMap' \subseteq BodyKeys
          /\ lost' \subseteq BodyKeys
          /\ KeysKept
          /\ BodyKey(e.hash_key, e.body_order) \in DOMAIN bodyMap'
          /\ PartitionsAreSlices'
      BY <1>1, <1>12, <2>1, <2>2, <2>3, FlushedPartition
    <2> QED
      BY <1>14, <2>4
  <1>18. Filling(d)
    <2>1. Buffered(d) = 0
      BY <1>3, <1>15 DEF Buffered
    <2>2. d.buffer_vector = [i \in 1 .. Buffered(d) |->
                               <<d.headers, d.total_body_size + i - 1>>]
      BY <1>15, <2>1
    <2>3. total + P = (order + 1) * P
      BY <1>3, <1>4, PartitionSize, Multiples
    <2>4. /\ c.sent = total + P + 0 + remaining
          /\ c.chunk_length = local + remaining
      <3> HIDE DEF c, P, total, size
      <3> QED
        BY <1>3, <1>4 DEF local, remaining
    <2>5. P \in 1 .. P
      BY PartitionSize
    <2> QED
      BY <1>4, <1>15, <2>1, <2>2, <2>3, <2>4, <2>5 DEF Filling
  <1>19. Progress(w)'
    <2>1. /\ d.headers \in Origin[d.hash_key]
          /\ d.sent <= BodyLen[d.headers]
          /\ d.end_stream => d.sent = BodyLen[d.headers]
      BY <1>1, <1>15, InsertingWorker
    <2>2. ASSUME NEW index \in 0 .. INT_MAX, index * P < total + P
          PROVE  BodyKey(c.hash_key, index) \in (DOMAIN bodyMap \cup lost)'
      <3>1. \A i \in 0 .. INT_MAX :
               i * P < total => BodyKey(c.hash_key, i) \in DOMAIN bodyMap \cup lost
        BY <1>1, InsertingWorker
      <3>2. P <= P
        BY <1>3
      <3> QED
        BY <1>3, <1>4, <1>17, <2>2, <3>1, <3>2, StoredUpTo
    <2> QED
      BY <1>1, <1>2, <1>13, <1>15, <1>18, <2>1, <2>2, FillingProgress
  <1>20. pc' = [pc EXCEPT ![w] = "chunk"] /\ d.headers \in Responses
    BY <1>1, <1>2, <1>15, InsertingWorker
  <1> QED
    BY <1>1, <1>13, <1>17, <1>19, <1>20, FlushInsertStep DEF InsertPCs

(* The last insertBody call flushes what is in the buffer.                 *)
LEMMA LastChunkStep ==
  ASSUME IInv, NEW w \in Workers, EndChunk(w), insert[w].end_stream
  PROVE  IInv'
  <1> DEFINE c == insert[w]
             P == BODY_PARTITION_SIZE
             total == c.total_body_size
             order == c.body_order
             d == [c EXCEPT !.total_body_size = @ + (P - c.available_buffer_bytes),
                            !.buffer_vector = <<>>,
                            !.body_order = @ + 1,
                            !.available_buffer_bytes = P]
  <1>1. /\ pc[w] = "chunk" /\ UNCHANGED <<headerMap, lookup, clearing>>
        /\ c.remaining_chunk_size = 0
        /\ flushBuffer(w, c)
        /\ insert' = [insert EXCEPT ![w] = d]
        /\ pc' = [pc EXCEPT ![w] = "flushHeader"]
    BY DEF EndChunk, flushBuffer
  <1>2. /\ c \in InsertContext /\ Filling(c) /\ c.headers \in Responses
        /\ c.headers \in Origin[c.hash_key] /\ c.hash_key \in Hashes
        /\ BodyLen[c.headers] \in Nat /\ c.sent = BodyLen[c.headers]
        /\ insert'[w] = d /\ pc'[w] = "flushHeader"
    BY <1>1, InsertingWorker
  <1>3. /\ Buffered(c) \in Nat /\ Buffered(c) < P
        /\ total \in Nat /\ P \in Nat /\ order \in Nat
        /\ c.local_chunk_index \in Nat
    BY <1>2, FillingTypes, PartitionSize
  <1>4. /\ total = order * P
        /\ c.sent = total + Buffered(c) + c.remaining_chunk_size
        /\ c.buffer_vector = [i \in 1 .. Buffered(c) |-> <<c.headers, total + i - 1>>]
    BY <1>2 DEF Filling
  <1>5. /\ total + Buffered(c) = BodyLen[c.headers]
        /\ total <= BodyLen[c.headers]
        /\ BodyLen[c.headers] - total = Buffered(c)
    <2>1. c.sent = total + Buffered(c) + c.remaining_chunk_size
      BY <1>4
    <2> HIDE DEF c, P, total
    <2> QED
      BY <1>1, <1>2, <1>3, <2>1
  <1>6. order + 1 \in 0 .. INT_MAX
    <2>1. order * P <= BodyLen[c.headers]
      BY <1>4, <1>5
    <2> QED
      BY <1>2, <1>3, <2>1, OrderBound
  <1>7. c.buffer_vector = Partition(c.headers, order)
    <2> DEFINE rest == BodyLen[c.headers] - total
    <2>1. Partition(c.headers, order) =
            [i \in 1 .. (IF rest < P THEN rest ELSE P) |-> <<c.headers, total + i - 1>>]
      BY <1>4 DEF Partition
    <2>2. (IF rest < P THEN rest ELSE P) = Buffered(c)
      BY <1>3, <1>5
    <2> HIDE DEF c, P, total, rest
    <2> QED
      BY <1>4, <2>1, <2>2
  <1>8. /\ bodyMap' \in [DOMAIN bodyMap' -> Seq(Byte)]
        /\ DOMAIN bodyMap' \subseteq BodyKeys
        /\ lost' \subseteq BodyKeys
        /\ KeysKept
        /\ BodyKey(c.hash_key, order) \in DOMAIN bodyMap'
        /\ PartitionsAreSlices'
    <2>1. order * P <= BodyLen[c.headers]
      BY <1>4, <1>5
    <2>2. TypeOK /\ PartitionsAreSlices
      BY DEF IInv
    <2> QED
      BY <1>1, <1>2, <1>7, <2>1, <2>2, FlushedPartition
  <1> DEFINE t == total + Buffered(c)
             o == order + 1
  <1>9. /\ d \in InsertContext
        /\ d.headers = c.headers /\ d.hash_key = c.hash_key
        /\ d.total_body_size = t
    <2>1. t \in Nat /\ <<>> \in Seq(Byte)
      BY <1>3
    <2>2. d = Updated(c, t, o, <<>>, P, c.local_chunk_index, c.remaining_chunk_size)
      BY <1>2 DEF InsertContext, Updated, Buffered
    <2> HIDE DEF t, o, d
    <2>3. Updated(c, t, o, <<>>, P, c.local_chunk_index, c.remaining_chunk_size)
            \in InsertContext
      <3>1. o \in 0 .. INT_MAX
        BY <1>6 DEF o
      <3> QED
        BY <1>2, <1>3, <2>1, <3>1 DEF InsertContext, Updated
    <2> QED
      BY <1>2, <2>2, <2>3 DEF InsertContext, Updated
  <1> HIDE DEF d
  <1>10. Progress(w)'
    <2>1. ASSUME NEW index \in 0 .. INT_MAX, index * P < total + Buffered(c)
          PROVE  BodyKey(c.hash_key, index) \in (DOMAIN bodyMap \cup lost)'
      <3>1. \A i \in 0 .. INT_MAX :
               i * P < total => BodyKey(c.hash_key, i) \in DOMAIN bodyMap \cup lost
        BY <1>1, InsertingWorker
      <3>2. Buffered(c) <= P
        BY <1>3
      <3> QED
        BY <1>3, <1>4, <1>8, <2>1, <3>1, <3>2, StoredUpTo
    <2> QED
      BY <1>2, <1>5, <1>9, <2>1 DEF Progress
  <1> QED
    BY <1>1, <1>2, <1>8, <1>9, <1>10, FlushInsertStep DEF InsertPCs

(* flushHeader makes the response visible.                                 *)
LEMMA FlushHeaderStep ==
  ASSUME IInv, NEW w \in Workers, FlushHeader(w)
  PROVE  IInv'
  <1> DEFINE c == insert[w]
             key == HeaderKey(c.hash_key)
             entry == [headers |-> c.headers, total_body_size |-> c.total_body_size]
  <1>0. TypeOK /\ InsertProgress
    BY DEF IInv
  <1>1. /\ pc[w] = "flushHeader" /\ headerMap' = Put(headerMap, key, entry)
        /\ pc' = [pc EXCEPT ![w] = "inserted"]
        /\ UNCHANGED <<bodyMap, lookup, insert, clearing, lost>>
    BY DEF FlushHeader, insertHeader
  <1>2. /\ c \in InsertContext /\ c.headers \in Responses
        /\ c.hash_key \in Hashes /\ c.total_body_size \in Nat
    <2>1. c \in InsertContext /\ c.headers \in Responses
      BY <1>0, <1>1 DEF TypeOK, ContextOK, InsertPCs
    <2> QED
      BY <2>1 DEF InsertContext
  <1>3. /\ c.headers \in Origin[c.hash_key]
        /\ c.total_body_size = BodyLen[c.headers]
        /\ \A index \in 0 .. INT_MAX :
              index * BODY_PARTITION_SIZE < c.total_body_size =>
                  BodyKey(c.hash_key, index) \in DOMAIN bodyMap \cup lost
    BY <1>0, <1>1 DEF InsertProgress, Progress, InsertPCs
  <1>4. entry \in HeaderEntry
    BY <1>2 DEF HeaderEntry
  <1>5. entry.headers = c.headers /\ entry.total_body_size = c.total_body_size
    OBVIOUS
  <1> HIDE DEF entry, key
  <1>6. /\ headerMap' \in [DOMAIN headerMap' -> HeaderEntry]
        /\ DOMAIN headerMap' = DOMAIN headerMap \cup {key}
        /\ headerMap'[key] = entry
        /\ \A k \in DOMAIN headerMap : k # key => headerMap'[k] = headerMap[k]
    <2>1. headerMap \in [DOMAIN headerMap -> HeaderEntry]
      BY <1>0 DEF TypeOK
    <2> QED
      BY <1>1, <1>4, <2>1 DEF Put
  <1>7. /\ \A v \in Workers \ {w} : pc'[v] = pc[v] /\ insert'[v] = insert[v]
        /\ pc'[w] = "inserted" /\ pc' = [v \in Workers |-> pc'[v]]
        /\ insert' = [v \in Workers |-> insert'[v]]
        /\ lookup' = [v \in Workers |-> lookup'[v]]
        /\ \A v \in Workers : lookup'[v] = lookup[v]
        /\ lookup'[w] \in LookupContext \cup {NULL}
        /\ insert'[w] = c
        /\ KeysKept
    BY <1>0, <1>1 DEF TypeOK, KeysKept
  <1>8. Progress(w)'
    BY <1>1, <1>3, <1>7 DEF Progress
  <1>9. /\ pc' \in [Workers -> {"idle"} \cup LookupPCs \cup ReadPCs \cup InsertPCs]
        /\ lookup' \in [Workers -> LookupContext \cup {NULL}]
        /\ insert' \in [Workers -> InsertContext \cup {NULL}]
        /\ \A v \in Workers : ContextOK(v)'
        /\ InsertProgress'
    <2>1. pc'[w] \in InsertPCs
      BY <1>7 DEF InsertPCs
    <2> QED
      BY <1>0, <1>2, <1>7, <1>8, <2>1, InsertFrame
  <1>10. TypeOK'
    <2>1. DOMAIN headerMap' \subseteq {HeaderKey(h) : h \in Hashes}
      BY <1>0, <1>2, <1>6 DEF TypeOK, key
    <2> QED
      BY <1>0, <1>1, <1>6, <1>9, <2>1 DEF TypeOK
  <1>11. ASSUME NEW h \in Hashes, lookupHeader(h)' # NULL
         PROVE  \/ /\ h = c.hash_key
                   /\ lookupHeader(h)' = entry
                \/ /\ lookupHeader(h) # NULL
                   /\ lookupHeader(h)' = lookupHeader(h)
    <2>1. HeaderKey(h) \in DOMAIN headerMap' /\ lookupHeader(h)' = headerMap'[HeaderKey(h)]
      BY <1>11 DEF lookupHeader, Get
    <2>2. CASE HeaderKey(h) = key
      BY <1>2, <1>6, <2>1, <2>2, HeaderKeyInjective DEF key
    <2>3. CASE HeaderKey(h) # key
      BY <1>6, <1>11, <2>1, <2>3 DEF lookupHeader, Get
    <2> QED
      BY <2>2, <2>3
  <1>12. HeaderDescribesResponse'
    <2>1. HeaderDescribesResponse
      BY DEF IInv
    <2> QED
      BY <1>3, <1>5, <1>11, <2>1 DEF HeaderDescribesResponse
  <1>13. PublishedBodiesPresent'
    <2>1. PublishedBodiesPresent
      BY DEF IInv
    <2> QED
      BY <1>1, <1>3, <1>5, <1>11, <2>1 DEF PublishedBodiesPresent
  <1>14. PartitionsAreSlices'
    BY <1>1 DEF IInv, PartitionsAreSlices, lookupBody, Get
  <1> QED
    BY <1>9, <1>10, <1>12, <1>13, <1>14 DEF IInv

-----------------------------------------------------------------------------
(* An insert may be dropped at any point.                                  *)
LEMMA ReleaseStep ==
  ASSUME IInv, NEW w \in Workers, Release(w)
  PROVE  IInv'
  <1>0. TypeOK /\ InsertProgress
    BY DEF IInv
  <1>1. /\ UNCHANGED <<headerMap, bodyMap, clearing, lost>>
        /\ \A v \in Workers \ {w} :
              pc'[v] = pc[v] /\ insert'[v] = insert[v] /\ lookup'[v] = lookup[v]
        /\ pc'[w] = "idle"
        /\ pc' \in [Workers -> {"idle"} \cup LookupPCs \cup ReadPCs \cup InsertPCs]
        /\ lookup' \in [Workers -> LookupContext \cup {NULL}]
        /\ insert' \in [Workers -> InsertContext \cup {NULL}]
    BY <1>0 DEF Release, TypeOK
  <1>2. ContextOK(w)' /\ Progress(w)'
    BY <1>1 DEF ContextOK, Progress, LookupPCs, ReadPCs, InsertPCs
  <1>3. TypeOK'
    <2>1. \A v \in Workers : ContextOK(v)'
      BY <1>0, <1>1, <1>2, FrameContext DEF TypeOK
    <2> QED
      BY <1>0, <1>1, <2>1 DEF TypeOK
  <1>4. InsertProgress'
    BY <1>0, <1>1, <1>2, FrameProgress DEF InsertProgress
  <1> QED
    BY <1>1, <1>3, <1>4, MapsUnchanged DEF IInv

(* What a step of the cluster does to the maps: entries leave them, and a  *)
(* body key that leaves is in lost.                                        *)
Shrinks ==
  /\ UNCHANGED <<pc, lookup, insert>>
  /\ DOMAIN headerMap' \subseteq DOMAIN headerMap
  /\ headerMap' = [k \in DOMAIN headerMap' |-> headerMap[k]]
  /\ DOMAIN bodyMap' \subseteq DOMAIN bodyMap
  /\ bodyMap' = [k \in DOMAIN bodyMap' |-> bodyMap[k]]
  /\ DOMAIN bodyMap \subseteq DOMAIN bodyMap' \cup lost'
  /\ lost \subseteq lost' /\ lost' \subseteq lost \cup DOMAIN bodyMap
  /\ clearing' \in BOOLEAN

(* Eviction and clearMaps only remove entries.                             *)
LEMMA ClusterShrinks ==
  ASSUME TypeOK, ClusterStep
  PROVE  Shrinks
  <1>0. /\ headerMap = [k \in DOMAIN headerMap |-> headerMap[k]]
        /\ bodyMap = [k \in DOMAIN bodyMap |-> bodyMap[k]]
        /\ clearing \in BOOLEAN
    BY DEF TypeOK
  <1>1. ASSUME NEW key \in DOMAIN headerMap, EvictHeader(key) PROVE Shrinks
    BY <1>0, <1>1 DEF EvictHeader, Restrict, Shrinks
  <1>2. ASSUME NEW key \in DOMAIN bodyMap, EvictBody(key) PROVE Shrinks
    BY <1>0, <1>2 DEF EvictBody, Restrict, Shrinks
  <1>3. CASE ClearBodyMap
    <2>1. DOMAIN bodyMap' = {} /\ bodyMap' = [k \in DOMAIN bodyMap' |-> bodyMap[k]]
      BY <1>3 DEF ClearBodyMap
    <2> QED
      BY <1>0, <1>3, <2>1 DEF ClearBodyMap, Shrinks
  <1>4. CASE ClearHeaderMap
    <2>1. /\ DOMAIN headerMap' = {}
          /\ headerMap' = [k \in DOMAIN headerMap' |-> headerMap[k]]
      BY <1>4 DEF ClearHeaderMap
    <2>2. /\ UNCHANGED <<pc, lookup, insert>> /\ clearing' \in BOOLEAN
          /\ bodyMap' = bodyMap /\ lost' = lost
      BY <1>4 DEF ClearHeaderMap
    <2> QED
      BY <1>0, <2>1, <2>2 DEF Shrinks
  <1> QED
    BY <1>1, <1>2, <1>3, <1>4 DEF ClusterStep

(* IInv survives the loss of entries.                                      *)
LEMMA ClusterStepInv ==
  ASSUME IInv, ClusterStep
  PROVE  IInv'
  <1>0. TypeOK /\ InsertProgress /\ Shrinks
    BY ClusterShrinks DEF IInv
  <1>1. TypeOK'
    <2>1. /\ headerMap' \in [DOMAIN headerMap' -> HeaderEntry]
          /\ bodyMap' \in [DOMAIN bodyMap' -> Seq(Byte)]
      BY <1>0 DEF TypeOK, Shrinks
    <2>2. \A v \in Workers : ContextOK(v)'
      BY <1>0, FrameContext DEF TypeOK, Shrinks
    <2>3. /\ DOMAIN headerMap' \subseteq {HeaderKey(h) : h \in Hashes}
          /\ DOMAIN bodyMap' \subseteq BodyKeys
          /\ lost' \subseteq BodyKeys
      BY <1>0 DEF TypeOK, Shrinks
    <2> QED
      BY <1>0, <2>1, <2>2, <2>3 DEF TypeOK, Shrinks
  <1>2. InsertProgress'
    BY <1>0, FrameProgress DEF InsertProgress, Shrinks
  <1>3. \A h \in Hashes :
           lookupHeader(h)' # NULL => lookupHeader(h)' = lookupHeader(h)
    BY <1>0 DEF Shrinks, lookupHeader, Get
  <1>4. \A h \in Hashes, index \in 0 .. INT_MAX :
           lookupBody(h, index)' # NULL => lookupBody(h, index)' = lookupBody(h, index)
    BY <1>0 DEF Shrinks, lookupBody, Get
  <1>5. HeaderDescribesResponse'
    BY <1>3 DEF IInv, HeaderDescribesResponse
  <1>6. PartitionsAreSlices'
    BY <1>4 DEF IInv, PartitionsAreSlices
  <1>7. PublishedBodiesPresent'
    BY <1>0, <1>3 DEF IInv, PublishedBodiesPresent, Shrinks
  <1> QED
    BY <1>1, <1>2, <1>5, <1>6, <1>7 DEF IInv

-----------------------------------------------------------------------------
(* IInv is inductive.                                                      *)
LEMMA NextIInv == IInv /\ [Next]_vars => IInv'
  <1> SUFFICES ASSUME IInv, [Next]_vars PROVE IInv'
    OBVIOUS
  <1>1. ASSUME NEW w \in Workers, HandlerStep(w) PROVE IInv'
    <2>1. CASE GetHeaders(w) \/ GetBody(w)
      BY <2>1, LookupStep
    <2>2. CASE FillBuffer(w)
      BY <2>2, FillBufferStep
    <2>3. CASE BufferRest(w)
      BY <2>3, BufferRestStep
    <2>4. CASE EndChunk(w)
      BY <2>4, ChunkReturnStep, LastChunkStep
    <2>5. CASE FlushHeader(w)
      BY <2>5, FlushHeaderStep
    <2> QED
      BY <1>1, <2>1, <2>2, <2>3, <2>4, <2>5 DEF HandlerStep
  <1>2. ASSUME NEW w \in Workers, FilterStep(w) PROVE IInv'
    <2>1. CASE (\E h \in Hashes : MakeLookupContext(w, h)) \/ RequestRange(w)
      BY <2>1, LookupStep
    <2>2. CASE MakeInsertContext(w)
      BY <2>2, MakeInsertContextStep
    <2>3. CASE InsertHeaders(w)
      BY <2>3, InsertHeadersStep
    <2>4. CASE InsertBody(w)
      BY <2>4, InsertBodyStep
    <2>5. CASE Release(w)
      BY <2>5, ReleaseStep
    <2> QED
      BY <1>2, <2>1, <2>2, <2>3, <2>4, <2>5 DEF FilterStep
  <1>3. CASE ClusterStep
    BY <1>3, ClusterStepInv
  <1>4. CASE UNCHANGED vars
    <2>1. /\ UNCHANGED <<headerMap, bodyMap, lost>>
          /\ UNCHANGED <<pc, lookup, insert, clearing>>
      BY <1>4 DEF vars
    <2>2. TypeOK'
      BY <2>1 DEF IInv, TypeOK, ContextOK
    <2>3. InsertProgress'
      BY <2>1, FrameProgress DEF IInv, InsertProgress
    <2> QED
      BY <2>1, <2>2, <2>3, MapsUnchanged DEF IInv
  <1> QED
    BY <1>1, <1>2, <1>3, <1>4 DEF Next

(* Every reachable state satisfies the inductive invariant: no             *)
(* interleaving of inserts, reads, dropped inserts and evictions leaves    *)
(* it.                                                                     *)
THEOREM Invariance == Spec => []IInv
  BY InitIInv, NextIInv, PTL DEF Spec

(* The state of the workers and of the maps is well-typed, so body_order   *)
(* never overflows its int.                                                *)
THEOREM TypeCorrect == Spec => []TypeOK
  <1>1. IInv => TypeOK
    BY DEF IInv
  <1> QED
    BY <1>1, Invariance, PTL

(* What insertBody has stored, buffered and still to copy is always the    *)
(* response as far as it has arrived.                                      *)
THEOREM InsertsProgress == Spec => []InsertProgress
  <1>1. IInv => InsertProgress
    BY DEF IInv
  <1> QED
    BY <1>1, Invariance, PTL

(* A visible header entry describes one whole response to its hash.        *)
THEOREM HeadersDescribe == Spec => []HeaderDescribesResponse
  <1>1. IInv => HeaderDescribesResponse
    BY DEF IInv
  <1> QED
    BY <1>1, Invariance, PTL

(* What is stored under a body key is that partition of a response.        *)
THEOREM BodiesAreSlices == Spec => []PartitionsAreSlices
  <1>1. IInv => PartitionsAreSlices
    BY DEF IInv
  <1> QED
    BY <1>1, Invariance, PTL

(* Under a visible header the body is complete, but for what the cluster   *)
(* has dropped.                                                            *)
THEOREM BodiesPublishedFirst == Spec => []PublishedBodiesPresent
  <1>1. IInv => PublishedBodiesPresent
    BY DEF IInv
  <1> QED
    BY <1>1, Invariance, PTL
=============================================================================

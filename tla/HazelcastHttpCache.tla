-------------------------- MODULE HazelcastHttpCache --------------------------
(***************************************************************************)
(* The cache plugin at work: filter workers that look responses up and     *)
(* insert responses through HazelcastLookupContext and                     *)
(* HazelcastInsertContext, and the two distributed maps they share.        *)
(*                                                                         *)
(* A worker is one Envoy worker thread of some Envoy process; it serves    *)
(* one request at a time.  IMap get and put block the thread and are       *)
(* atomic, so one step of this specification makes at most one map call.   *)
(* Header contents are abstracted to the response they belong to, and a    *)
(* body byte to the response and the offset it comes from.                 *)
(***************************************************************************)
EXTENDS CacheKeys, Functions

CONSTANTS
    Workers,                \* worker threads, of all the Envoy processes
    Hashes,                 \* the stableHashKey values of the requests
    Responses,              \* the responses an upstream may send
    BodyLen,                \* BodyLen[r]: the number of body bytes of r
    Origin,                 \* Origin[h]: the responses to requests of hash h
    body_partition_size,    \* the field of HazelcastConfig, an int64
    DEFAULT_PARTITION_SIZE, \* 1024 in the code
    INT_MAX,                \* the largest value of the int body_order
    JUNK,                   \* a byte read beyond the end of a buffer
    NULL                    \* a null pointer

BODY_PARTITION_SIZE ==
    IF body_partition_size = 0 THEN DEFAULT_PARTITION_SIZE
                               ELSE UInt64(body_partition_size)

ASSUME ConfigAssumption ==
    /\ DEFAULT_PARTITION_SIZE \in 1 .. (UINT64 - 1)
    /\ body_partition_size \in Int
    /\ -UINT64 < 2 * body_partition_size + 1
    /\ 2 * body_partition_size < UINT64

(* No body has so many partitions that the int body_order overflows.       *)
ASSUME ResponseAssumption ==
    /\ INT_MAX \in Nat
    /\ BodyLen \in [Responses -> Nat]
    /\ \A r \in Responses : BodyLen[r] < INT_MAX * BODY_PARTITION_SIZE
    /\ Origin \in [Hashes -> SUBSET Responses]

(* The body keys of distinct partitions are distinct.  This does not hold  *)
(* of every two 64 bit hashes: see module HazelcastCacheEntry.             *)
ASSUME HashAssumption ==
    /\ Hashes \subseteq 0 .. (UINT64 - 1)
    /\ \A g, h \in Hashes : \A i, j \in 0 .. INT_MAX :
          BodyKey(g, i) = BodyKey(h, j) => g = h /\ i = j

VARIABLES
    headerMap,  \* header map: HeaderKey -> HazelcastHeaderEntry
    bodyMap,    \* body map: BodyKey -> body_buffer_ of a HazelcastBodyEntry
    pc,         \* what each worker is doing
    lookup,     \* the lookup context of each worker
    insert,     \* the insert context of each worker
    clearing,   \* clearMaps has cleared the body map, not yet the header map
    lost        \* history: body keys removed by the cluster, not put since

vars == <<headerMap, bodyMap, pc, lookup, insert, clearing, lost>>

-----------------------------------------------------------------------------
(* IMap::get and IMap::put.                                                *)
Get(map, key) == IF key \in DOMAIN map THEN map[key] ELSE NULL

Put(map, key, value) ==
    [k \in DOMAIN map \cup {key} |-> IF k = key THEN value ELSE map[k]]

(* HazelcastHttpCache: the four map accesses of the contexts.              *)
lookupHeader(hash_key) == Get(headerMap, HeaderKey(hash_key))

lookupBody(hash_key, index) == Get(bodyMap, BodyKey(hash_key, index))

insertHeader(hash_key, entry) ==
    headerMap' = Put(headerMap, HeaderKey(hash_key), entry)

insertBody(hash_key, index, buffer) ==
    /\ bodyMap' = Put(bodyMap, BodyKey(hash_key, index), buffer)
    /\ lost' = lost \ {BodyKey(hash_key, index)}

-----------------------------------------------------------------------------
Init ==
    /\ headerMap = <<>>
    /\ bodyMap = <<>>
    /\ pc = [w \in Workers |-> "idle"]
    /\ lookup = [w \in Workers |-> NULL]
    /\ insert = [w \in Workers |-> NULL]
    /\ clearing = FALSE
    /\ lost = {}

-----------------------------------------------------------------------------
(* HazelcastLookupContext.                                                 *)

MakeLookupContext(w, h) ==
    /\ pc[w] = "idle"
    /\ pc' = [pc EXCEPT ![w] = "lookup"]
    /\ lookup' = [lookup EXCEPT ![w] =
          [hash_key |-> h, headers |-> NULL, total_body_size |-> NULL,
           begin |-> 0, end |-> 0, start |-> 0, full_body |-> <<>>]]
    /\ UNCHANGED <<headerMap, bodyMap, insert, clearing, lost>>

(* Mutant: getHeaders does not remember the body size.                     *)
GetHeadersWithoutSize(w) ==
    LET header_entry == lookupHeader(lookup[w].hash_key) IN
    /\ pc[w] = "lookup"
    /\ \/ /\ header_entry # NULL
          /\ lookup' = [lookup EXCEPT ![w].headers = header_entry.headers]
          /\ pc' = [pc EXCEPT ![w] = "hit"]
       \/ /\ header_entry = NULL
          /\ pc' = [pc EXCEPT ![w] = "miss"]
          /\ UNCHANGED lookup
    /\ UNCHANGED <<headerMap, bodyMap, insert, clearing, lost>>

GetHeaders(w) ==
    LET header_entry == lookupHeader(lookup[w].hash_key) IN
    /\ pc[w] = "lookup"
    /\ \/ /\ header_entry # NULL
          /\ lookup' = [lookup EXCEPT
                ![w].headers = header_entry.headers,
                ![w].total_body_size = header_entry.total_body_size]
          /\ pc' = [pc EXCEPT ![w] = "hit"]
       \/ /\ header_entry = NULL
          /\ pc' = [pc EXCEPT ![w] = "miss"]
          /\ UNCHANGED lookup
    /\ UNCHANGED <<headerMap, bodyMap, insert, clearing, lost>>

(* The caller asks for the bytes begin <= i < end of the cached body.      *)
RequestRange(w) ==
    /\ pc[w] = "hit"
    /\ pc' = [pc EXCEPT ![w] = "read"]
    /\ \E end \in 1 .. lookup[w].total_body_size : \E begin \in 0 .. (end - 1) :
          lookup' = [lookup EXCEPT ![w].begin = begin, ![w].start = begin,
                                   ![w].end = end]
    /\ UNCHANGED <<headerMap, bodyMap, insert, clearing, lost>>

body_index(range_begin) == range_begin \div BODY_PARTITION_SIZE

(* Mutant: a range up to the end of its partition takes the first branch.  *)
OneChunkSatisfiesUpTo(range_begin, range_end) ==
    range_end <= (body_index(range_begin) + 1) * BODY_PARTITION_SIZE

(* The bytes lie in one partition: the first branch of getBody.            *)
OneChunkSatisfies(range_begin, range_end) ==
    range_end < (body_index(range_begin) + 1) * BODY_PARTITION_SIZE

(* Mutant: the start of the range is not taken off the partition.          *)
CopyLengthFromStart(size, range_begin, range_end) ==
    IF OneChunkSatisfies(range_begin, range_end)
    THEN range_end % BODY_PARTITION_SIZE
    ELSE size

(* The number of bytes getBody copies out of a partition of this size.     *)
CopyLength(size, range_begin, range_end) ==
    IF OneChunkSatisfies(range_begin, range_end)
    THEN range_end % BODY_PARTITION_SIZE
    ELSE size - (range_begin % BODY_PARTITION_SIZE)

(* The buffer handed to the callback: the partition from the offset on,    *)
(* whatever lies behind it in memory where the partition is shorter.       *)
CopiedBuffer(body, range_begin, range_end) ==
    LET offset == range_begin % BODY_PARTITION_SIZE
    IN  [i \in 1 .. CopyLength(Len(body), range_begin, range_end) |->
            IF offset + i <= Len(body) THEN body[offset + i] ELSE JUNK]

(* A copy that leaves the partition, or whose unsigned length wraps.       *)
ReadsOutside(body, range_begin, range_end) ==
    LET offset == range_begin % BODY_PARTITION_SIZE
        length == CopyLength(Len(body), range_begin, range_end)
    IN  length < 0 \/ offset + length > Len(body)

(* One getBody call for the bytes the caller still misses, and the         *)
(* caller's reaction to the buffer it is given: it asks again, is done, or *)
(* has been given more than it asked for.                                  *)
GetBody(w) ==
    LET c    == lookup[w]
        body == lookupBody(c.hash_key, body_index(c.start))
        data == CopiedBuffer(body, c.start, c.end)
    IN
    /\ pc[w] = "read"
    /\ \/ /\ body = NULL
          /\ pc' = [pc EXCEPT ![w] = "aborted"]
          /\ UNCHANGED lookup
       \/ /\ body # NULL
          /\ CopyLength(Len(body), c.start, c.end) >= 0
          /\ lookup' = [lookup EXCEPT ![w].full_body = @ \o data,
                                      ![w].start = @ + Len(data)]
          /\ pc' = [pc EXCEPT ![w] =
                CASE c.start + Len(data) < c.end -> "read"
                  [] c.start + Len(data) = c.end -> "served"
                  [] OTHER                       -> "oversized"]
       \/ /\ body # NULL
          /\ ReadsOutside(body, c.start, c.end)
          /\ pc' = [pc EXCEPT ![w] = "faulted"]
          /\ UNCHANGED lookup
    /\ UNCHANGED <<headerMap, bodyMap, insert, clearing, lost>>

-----------------------------------------------------------------------------
(* HazelcastInsertContext.                                                 *)

(* makeInsertContext copies the hash key; the lookup is not used again.    *)
MakeInsertContext(w) ==
    /\ pc[w] \in {"hit", "miss"}
    /\ pc' = [pc EXCEPT ![w] = "insert"]
    /\ insert' = [insert EXCEPT ![w] =
          [hash_key |-> lookup[w].hash_key, headers |-> NULL,
           total_body_size |-> 0, body_order |-> 0, buffer_vector |-> <<>>,
           available_buffer_bytes |-> BODY_PARTITION_SIZE,
           sent |-> 0, end_stream |-> FALSE, chunk_length |-> 0,
           local_chunk_index |-> 0, remaining_chunk_size |-> 0]]
    /\ lookup' = [lookup EXCEPT ![w] = NULL]
    /\ UNCHANGED <<headerMap, bodyMap, clearing, lost>>

(* A response without a body ends with its headers: the header is flushed  *)
(* by the next step.                                                       *)
InsertHeaders(w) ==
    /\ pc[w] = "insert"
    /\ \E r \in Origin[insert[w].hash_key], end_stream \in BOOLEAN :
          /\ end_stream => BodyLen[r] = 0
          /\ insert' = [insert EXCEPT ![w].headers = r]
          /\ pc' = [pc EXCEPT ![w] =
                      IF end_stream THEN "flushHeader" ELSE "ready"]
    /\ UNCHANGED <<headerMap, bodyMap, lookup, clearing, lost>>

(* insertBody is called with the next length bytes of the response.        *)
InsertBody(w) ==
    LET c == insert[w] IN
    /\ pc[w] = "ready"
    /\ \E length \in 0 .. (BodyLen[c.headers] - c.sent), end_stream \in BOOLEAN :
          /\ end_stream => c.sent + length = BodyLen[c.headers]
          /\ insert' = [insert EXCEPT ![w].sent = @ + length,
                                      ![w].chunk_length = length,
                                      ![w].remaining_chunk_size = length,
                                      ![w].local_chunk_index = 0,
                                      ![w].end_stream = end_stream]
    /\ pc' = [pc EXCEPT ![w] = "chunk"]
    /\ UNCHANGED <<headerMap, bodyMap, lookup, clearing, lost>>

(* The byte at this index of the chunk being inserted.                     *)
ChunkByte(c, index) == <<c.headers, c.sent - c.chunk_length + index>>

(* Mutant: every copy takes its bytes from the beginning of the chunk.     *)
copyIntoLocalBufferFromStart(c, size) ==
    [c EXCEPT
      !.buffer_vector = @ \o [i \in 1 .. size |-> ChunkByte(c, i - 1)],
      !.local_chunk_index = @ + size]

(* buffer_vector grows by size bytes, and size bytes of the chunk are      *)
(* copied behind the bytes in use.                                         *)
copyIntoLocalBuffer(c, size) ==
    LET buffer_size == BODY_PARTITION_SIZE - c.available_buffer_bytes
    IN  [c EXCEPT
          !.buffer_vector =
              [i \in 1 .. Len(c.buffer_vector) + size |->
                  IF i \in (buffer_size + 1) .. (buffer_size + size)
                  THEN ChunkByte(c, c.local_chunk_index + i - buffer_size - 1)
                  ELSE IF i <= Len(c.buffer_vector) THEN c.buffer_vector[i]
                                                    ELSE JUNK],
          !.local_chunk_index = @ + size]

(* Mutants: a whole partition is added to the size whatever the buffer     *)
(* holds; the flushed bytes stay in the buffer; body_order stays the same. *)
flushBufferWholeSize(w, c) ==
    /\ insertBody(c.hash_key, c.body_order, c.buffer_vector)
    /\ insert' = [insert EXCEPT ![w] =
          [c EXCEPT !.total_body_size = @ + BODY_PARTITION_SIZE,
                    !.buffer_vector = <<>>,
                    !.body_order = @ + 1,
                    !.available_buffer_bytes = BODY_PARTITION_SIZE]]

flushBufferKeepsBytes(w, c) ==
    /\ insertBody(c.hash_key, c.body_order, c.buffer_vector)
    /\ insert' = [insert EXCEPT ![w] =
          [c EXCEPT !.total_body_size =
                        @ + BODY_PARTITION_SIZE - c.available_buffer_bytes,
                    !.body_order = @ + 1,
                    !.available_buffer_bytes = BODY_PARTITION_SIZE]]

flushBufferSameOrder(w, c) ==
    /\ insertBody(c.hash_key, c.body_order, c.buffer_vector)
    /\ insert' = [insert EXCEPT ![w] =
          [c EXCEPT !.total_body_size =
                        @ + BODY_PARTITION_SIZE - c.available_buffer_bytes,
                    !.buffer_vector = <<>>,
                    !.available_buffer_bytes = BODY_PARTITION_SIZE]]

(* flushBuffer: the put into the body map, and the context after it.       *)
flushBuffer(w, c) ==
    LET buffer_size == BODY_PARTITION_SIZE - c.available_buffer_bytes IN
    /\ insertBody(c.hash_key, c.body_order, c.buffer_vector)
    /\ insert' = [insert EXCEPT ![w] =
          [c EXCEPT !.total_body_size = @ + buffer_size,
                    !.buffer_vector = <<>>,
                    !.body_order = @ + 1,
                    !.available_buffer_bytes = BODY_PARTITION_SIZE]]

(* The loop of insertBody: the chunk fills the buffer, which is flushed.   *)
FillBuffer(w) ==
    LET c == insert[w] IN
    /\ pc[w] = "chunk"
    /\ c.remaining_chunk_size > 0
    /\ c.available_buffer_bytes <= c.remaining_chunk_size
    /\ flushBuffer(w, [copyIntoLocalBuffer(c, c.available_buffer_bytes) EXCEPT
                         !.remaining_chunk_size = @ - c.available_buffer_bytes,
                         !.available_buffer_bytes = 0])
    /\ UNCHANGED <<headerMap, pc, lookup, clearing>>

(* The loop of insertBody: the rest of the chunk fits into the buffer.     *)
BufferRest(w) ==
    LET c == insert[w] IN
    /\ pc[w] = "chunk"
    /\ c.remaining_chunk_size > 0
    /\ c.available_buffer_bytes > c.remaining_chunk_size
    /\ insert' = [insert EXCEPT ![w] =
          [copyIntoLocalBuffer(c, c.remaining_chunk_size) EXCEPT
              !.available_buffer_bytes = @ - c.remaining_chunk_size,
              !.remaining_chunk_size = 0]]
    /\ UNCHANGED <<headerMap, bodyMap, pc, lookup, clearing, lost>>

(* After the loop: the last chunk of a stream flushes the buffer, empty or *)
(* not, and goes on to the header; otherwise insertBody returns and its    *)
(* locals are gone.                                                        *)
EndChunk(w) ==
    LET c == insert[w] IN
    /\ pc[w] = "chunk"
    /\ c.remaining_chunk_size = 0
    /\ \/ /\ c.end_stream
          /\ flushBuffer(w, c)
          /\ pc' = [pc EXCEPT ![w] = "flushHeader"]
       \/ /\ ~c.end_stream
          /\ insert' = [insert EXCEPT ![w].chunk_length = 0,
                                      ![w].local_chunk_index = 0]
          /\ pc' = [pc EXCEPT ![w] = "ready"]
          /\ UNCHANGED <<bodyMap, lost>>
    /\ UNCHANGED <<headerMap, lookup, clearing>>

FlushHeader(w) ==
    LET c == insert[w] IN
    /\ pc[w] = "flushHeader"
    /\ insertHeader(c.hash_key, [headers |-> c.headers,
                                 total_body_size |-> c.total_body_size])
    /\ pc' = [pc EXCEPT ![w] = "inserted"]
    /\ UNCHANGED <<bodyMap, lookup, insert, clearing, lost>>

-----------------------------------------------------------------------------
(* The worker lets go of its contexts: the request is over, the stream is  *)
(* reset, a map call throws or the process dies.  Nothing is undone.       *)
Release(w) ==
    /\ pc[w] # "idle"
    /\ pc' = [pc EXCEPT ![w] = "idle"]
    /\ lookup' = [lookup EXCEPT ![w] = NULL]
    /\ insert' = [insert EXCEPT ![w] = NULL]
    /\ UNCHANGED <<headerMap, bodyMap, clearing, lost>>

(* The cluster drops an entry: expiry, eviction, or the loss of a member.  *)
EvictHeader(key) ==
    /\ key \in DOMAIN headerMap
    /\ headerMap' = Restrict(headerMap, DOMAIN headerMap \ {key})
    /\ UNCHANGED <<bodyMap, pc, lookup, insert, clearing, lost>>

EvictBody(key) ==
    /\ key \in DOMAIN bodyMap
    /\ bodyMap' = Restrict(bodyMap, DOMAIN bodyMap \ {key})
    /\ lost' = lost \cup {key}
    /\ UNCHANGED <<headerMap, pc, lookup, insert, clearing>>

(* clearMaps: the body map first, then the header map.                     *)
ClearBodyMap ==
    /\ ~clearing
    /\ bodyMap' = <<>>
    /\ lost' = lost \cup DOMAIN bodyMap
    /\ clearing' = TRUE
    /\ UNCHANGED <<headerMap, pc, lookup, insert>>

ClearHeaderMap ==
    /\ clearing
    /\ headerMap' = <<>>
    /\ clearing' = FALSE
    /\ UNCHANGED <<bodyMap, pc, lookup, insert, lost>>
-----------------------------------------------------------------------------
(* The steps of a worker that is inside a handler of a context.            *)
HandlerStep(w) ==
    \/ GetHeaders(w)
    \/ GetBody(w)
    \/ FillBuffer(w)
    \/ BufferRest(w)
    \/ EndChunk(w)
    \/ FlushHeader(w)

(* What the filter calls next is up to the requests and the responses.     *)
FilterStep(w) ==
    \/ \E h \in Hashes : MakeLookupContext(w, h)
    \/ RequestRange(w)
    \/ MakeInsertContext(w)
    \/ InsertHeaders(w)
    \/ InsertBody(w)
    \/ Release(w)

ClusterStep ==
    \/ \E key \in DOMAIN headerMap : EvictHeader(key)
    \/ \E key \in DOMAIN bodyMap : EvictBody(key)
    \/ ClearBodyMap
    \/ ClearHeaderMap

Next ==
    \/ \E w \in Workers : HandlerStep(w) \/ FilterStep(w)
    \/ ClusterStep

Spec == Init /\ [][Next]_vars

(* A handler that was entered runs on: its map calls block, and return.    *)
FairSpec == Spec /\ \A w \in Workers : WF_vars(HandlerStep(w))
-----------------------------------------------------------------------------
(* The types of the state.                                                 *)

LookupPCs == {"lookup", "miss", "hit"}
ReadPCs   == {"read", "served", "aborted", "oversized", "faulted"}
InsertPCs == {"insert", "ready", "chunk", "flushHeader", "inserted"}

Byte     == (Responses \X Nat) \cup {JUNK}
BodyKeys == {BodyKey(h, i) : h \in Hashes, i \in 0 .. INT_MAX}

HeaderEntry == [headers : Responses, total_body_size : Nat]

(* What a reader has found, asked for and been given.                      *)
ReaderView == [response : Responses, begin : Nat, end : Nat, bytes : Seq(Byte)]

(* A null pointer is told apart from what it may stand in for.             *)
ASSUME NullAssumption ==
    NULL \notin Responses /\ NULL \notin HeaderEntry /\ NULL \notin ReaderView

LookupContext ==
    [hash_key : Hashes, headers : Responses \cup {NULL},
     total_body_size : Nat \cup {NULL}, begin : Nat, end : Nat, start : Nat,
     full_body : Seq(Byte)]

InsertContext ==
    [hash_key : Hashes, headers : Responses \cup {NULL},
     total_body_size : Nat, body_order : 0 .. INT_MAX,
     buffer_vector : Seq(Byte), available_buffer_bytes : Nat,
     sent : Nat, end_stream : BOOLEAN, chunk_length : Nat,
     local_chunk_index : Nat, remaining_chunk_size : Nat]

ContextOK(w) ==
    /\ pc[w] \in LookupPCs \cup ReadPCs => lookup[w] \in LookupContext
    /\ pc[w] \in {"hit"} \cup ReadPCs =>
          /\ lookup[w].headers \in Responses
          /\ lookup[w].total_body_size \in Nat
    /\ pc[w] \in InsertPCs => insert[w] \in InsertContext
    /\ pc[w] \in InsertPCs \ {"insert"} => insert[w].headers \in Responses

(* The maps hold entries of the two entry types under keys of this cache,  *)
(* a worker holds the context of the handler it is in and body_order stays *)
(* an int.                                                                 *)
TypeOK ==
    /\ headerMap \in [DOMAIN headerMap -> HeaderEntry]
    /\ DOMAIN headerMap \subseteq {HeaderKey(h) : h \in Hashes}
    /\ bodyMap \in [DOMAIN bodyMap -> Seq(Byte)]
    /\ DOMAIN bodyMap \subseteq BodyKeys
    /\ lost \subseteq BodyKeys
    /\ clearing \in BOOLEAN
    /\ pc \in [Workers -> {"idle"} \cup LookupPCs \cup ReadPCs \cup InsertPCs]
    /\ lookup \in [Workers -> LookupContext \cup {NULL}]
    /\ insert \in [Workers -> InsertContext \cup {NULL}]
    /\ \A w \in Workers : ContextOK(w)

-----------------------------------------------------------------------------
(* Safety.                                                                 *)

(* A context whose bodies are not all flushed yet.                         *)
Buffered(c) == BODY_PARTITION_SIZE - c.available_buffer_bytes

Filling(c) ==
    /\ c.available_buffer_bytes \in 1 .. BODY_PARTITION_SIZE
    /\ c.total_body_size = c.body_order * BODY_PARTITION_SIZE
    /\ c.buffer_vector = [i \in 1 .. Buffered(c) |->
                             <<c.headers, c.total_body_size + i - 1>>]
    /\ c.sent = c.total_body_size + Buffered(c) + c.remaining_chunk_size
    /\ c.chunk_length = c.local_chunk_index + c.remaining_chunk_size
    /\ c.chunk_length <= c.sent

Progress(w) ==
    LET c == insert[w] IN
    /\ pc[w] \in InsertPCs =>
          \A index \in 0 .. INT_MAX :
              index * BODY_PARTITION_SIZE < c.total_body_size =>
                  BodyKey(c.hash_key, index) \in DOMAIN bodyMap \cup lost
    /\ pc[w] \in InsertPCs \ {"insert"} => c.headers \in Origin[c.hash_key]
    /\ pc[w] \in {"insert", "ready", "chunk"} => Filling(c)
    /\ pc[w] = "insert" => c.sent = 0
    /\ pc[w] = "ready" => c.remaining_chunk_size = 0
    /\ pc[w] \in {"ready", "chunk"} => c.sent <= BodyLen[c.headers]
    /\ pc[w] = "chunk" /\ c.end_stream => c.sent = BodyLen[c.headers]
    /\ pc[w] \in {"flushHeader", "inserted"} =>
          c.total_body_size = BodyLen[c.headers]

(* How far an insert has come.  The partitions before body_order are in    *)
(* the body map, unless the cluster has dropped them; buffer_vector holds  *)
(* the bytes of the response behind them; and they are the bytes of all    *)
(* the chunks so far, but for what the loop of insertBody has still to     *)
(* copy.  Once the bodies are flushed, total_body_size is the body length. *)
InsertProgress == \A w \in Workers : Progress(w)

(* A visible header entry describes one whole response to a request of its *)
(* hash: total_body_size, added up by flushBuffer over all the chunks, is  *)
(* the length of the body whose headers flushHeader stored with it.        *)
HeaderDescribesResponse ==
    \A h \in Hashes :
        lookupHeader(h) # NULL =>
            /\ lookupHeader(h).headers \in Origin[h]
            /\ lookupHeader(h).total_body_size = BodyLen[lookupHeader(h).headers]

(* Partition index of the body of r: its bytes from index times the        *)
(* partition size on, at most one partition size of them.                  *)
Partition(r, index) ==
    LET first == index * BODY_PARTITION_SIZE
        rest  == BodyLen[r] - first
    IN  [i \in 1 .. IF rest < BODY_PARTITION_SIZE THEN rest
                                                  ELSE BODY_PARTITION_SIZE
            |-> <<r, first + i - 1>>]

(* What insertBody puts under (hash, index) is partition index of a        *)
(* response to that hash, whatever chunks the body arrived in, however     *)
(* inserts interleave and wherever they stop.                              *)
PartitionsAreSlices ==
    \A h \in Hashes, index \in 0 .. INT_MAX :
        lookupBody(h, index) # NULL =>
            \E r \in Origin[h] :
                /\ index * BODY_PARTITION_SIZE <= BodyLen[r]
                /\ lookupBody(h, index) = Partition(r, index)

(* The header is put after the bodies: under a visible header every        *)
(* partition its total_body_size speaks of is in the body map, unless the  *)
(* cluster has dropped it since.  getBody relies on it: "Body is expected  *)
(* to reside in the cache".                                                *)
PublishedBodiesPresent ==
    \A h \in Hashes, index \in 0 .. INT_MAX :
        /\ lookupHeader(h) # NULL
        /\ index * BODY_PARTITION_SIZE < lookupHeader(h).total_body_size
        => BodyKey(h, index) \in DOMAIN bodyMap \cup lost

(* The ranges getBody serves exactly: all but those that begin inside a    *)
(* partition and end before the end of that same partition.                *)
ServableRange(c) ==
    c.begin % BODY_PARTITION_SIZE = 0 \/ ~OneChunkSatisfies(c.begin, c.end)

(* A reader of a servable range holds, after each getBody, exactly the     *)
(* bytes from begin on of the response whose headers it was given; when it *)
(* is done they are the whole range.  It is never given bytes of another   *)
(* response, bytes from beyond a buffer, or too many bytes.                *)
ReadsAreExact ==
    \A w \in Workers :
        LET c == lookup[w] IN
        pc[w] \in ReadPCs /\ ServableRange(c) =>
            /\ pc[w] \notin {"oversized", "faulted"}
            /\ c.start <= c.end
            /\ c.full_body = [i \in 1 .. (c.start - c.begin) |->
                                 <<c.headers, c.begin + i - 1>>]

(* "Copy only needed bytes": getBody never gives a reader more bytes than  *)
(* the range it was asked for.                                             *)
OnlyNeededBytes ==
    \A w \in Workers :
        pc[w] \in ReadPCs =>
            Len(lookup[w].full_body) <= lookup[w].end - lookup[w].begin

(* While no insert for a hash is under way, the partitions under it belong *)
(* to the response its header describes.                                   *)
HeaderMatchesBodies ==
    \A h \in Hashes, index \in 0 .. INT_MAX :
        /\ lookupHeader(h) # NULL
        /\ index * BODY_PARTITION_SIZE < lookupHeader(h).total_body_size
        /\ lookupBody(h, index) # NULL
        /\ \A w \in Workers : pc[w] \in InsertPCs => insert[w].hash_key # h
        => lookupBody(h, index) = Partition(lookupHeader(h).headers, index)

-----------------------------------------------------------------------------
(* The inductive invariant of the proofs.                                  *)
IInv ==
    /\ TypeOK
    /\ InsertProgress
    /\ HeaderDescribesResponse
    /\ PartitionsAreSlices
    /\ PublishedBodiesPresent

-----------------------------------------------------------------------------
(* Liveness.                                                               *)

(* The caller that asks getBody again for the bytes it still misses is     *)
(* served or aborted in the end, and the loop of insertBody ends, so that  *)
(* every insertBody call returns.                                          *)
HandlersReturn ==
    \A w \in Workers : []<>(pc[w] \notin {"read", "chunk"})

-----------------------------------------------------------------------------
(* Refinement.                                                             *)

(* A reader who has found a header, but for one whose range is not         *)
(* servable: nothing is promised to it.                                    *)
Reader(w) ==
    LET c == lookup[w] IN
    IF pc[w] = "hit" \/ (pc[w] \in ReadPCs /\ ServableRange(c))
    THEN [response |-> c.headers, begin |-> c.begin, end |-> c.end,
          bytes |-> c.full_body]
    ELSE NULL

Promise == INSTANCE ResponseCache WITH
    Readers <- Workers,
    NONE <- NULL,
    stored <- [h \in Hashes |-> IF lookupHeader(h) = NULL THEN NULL
                                 ELSE lookupHeader(h).headers],
    reader <- [w \in Workers |-> Reader(w)]

(* Where a hash has one response, the contexts and the two maps together   *)
(* are a cache of whole responses: the partitions, the puts that make a    *)
(* response visible one by one, evictions and half-done inserts and clears *)
(* cannot be seen by a reader, except that its read may be aborted.        *)
ImplementsResponseCache == Promise!Spec
=============================================================================

------------------------- MODULE HazelcastCacheEntry -------------------------
(***************************************************************************)
(* The two entry types of the cache on their way through Hazelcast: an     *)
(* entry is written to a data stream by the process that puts it under its *)
(* key, and built again from the stream by the process that gets it; a     *)
(* near cache hands out copies of it.  Names, values and buffers are       *)
(* single values.                                                          *)
(***************************************************************************)
EXTENDS CacheKeys, SequencesExt

CONSTANTS
    Hashes,         \* the hash keys of the requests
    Indexes,        \* partition indexes
    Texts,          \* header names and values
    MinHeaders,     \* bounds: headers of an entry
    MaxHeaders,
    Sizes,          \* body sizes
    Buffers,        \* body buffers
    MaxPuts,        \* bound: entries put
    NULL

ASSUME EntryAssumption ==
    /\ Hashes \cup Sizes \subseteq 0 .. (UINT64 - 1)
    /\ Indexes \subseteq Nat /\ NULL \notin Indexes
    /\ MinHeaders \in Nat /\ MaxHeaders \in Nat /\ MaxPuts \in Nat

HAZELCAST_BODY_TYPE_ID   == 100
HAZELCAST_HEADER_TYPE_ID == 101

(* The entry objects: HazelcastHeaderEntry and HazelcastBodyEntry.         *)
HeaderMaps ==
    {headers \in BoundedSeq([key : Texts, value : Texts], MaxHeaders) :
        Len(headers) >= MinHeaders}

HeaderEntries ==
    [TYPE_ID : {HAZELCAST_HEADER_TYPE_ID}, header_map_ptr : HeaderMaps,
     total_body_size : Sizes]

BodyEntries == [TYPE_ID : {HAZELCAST_BODY_TYPE_ID}, body_buffer_ : Buffers]

(* Where an entry goes: a header is stored by hash, a body by hash and     *)
(* partition index.                                                        *)
HeaderPlaces == [hash_key : Hashes, index : {NULL}]
BodyPlaces   == [hash_key : Hashes, index : Indexes]

VARIABLES
    headerMap,  \* the two maps in the cluster: key -> class id and stream
    bodyMap,
    put,        \* history: the entry put at each place
    place,      \* the place the reading process reads
    result,     \* the object it is given
    pc

vars == <<headerMap, bodyMap, put, place, result, pc>>

Init ==
    /\ headerMap = <<>>
    /\ bodyMap = <<>>
    /\ put = <<>>
    /\ place = NULL
    /\ result = NULL
    /\ pc = "storing"

-----------------------------------------------------------------------------
(* HazelcastHeaderEntry::writeData: the number of headers, each name and   *)
(* value, and the body size as a signed long.                              *)
WriteHeader(e) ==
    LET headers_size == Len(e.header_map_ptr)
    IN  <<headers_size>>
          \o [i \in 1 .. 2 * headers_size |->
                LET header == e.header_map_ptr[(i + 1) \div 2]
                IN  IF i % 2 = 1 THEN header.key ELSE header.value]
          \o <<Int64(e.total_body_size)>>

(* Mutant: the size is not converted back to an unsigned number.           *)
ReadHeaderSigned(e, stream) ==
    LET headers_size == stream[1]
    IN  [e EXCEPT
          !.header_map_ptr = [i \in 1 .. headers_size |->
                [key |-> stream[2 * i], value |-> stream[2 * i + 1]]],
          !.total_body_size = stream[2 * headers_size + 2]]

(* HazelcastHeaderEntry::readData: as many names and values as the stream  *)
(* announces, added to a new map in turn, and the size after them.         *)
ReadHeader(e, stream) ==
    LET headers_size == stream[1]
    IN  [e EXCEPT
          !.header_map_ptr = [i \in 1 .. headers_size |->
                [key |-> stream[2 * i], value |-> stream[2 * i + 1]]],
          !.total_body_size = UInt64(stream[2 * headers_size + 2])]

(* HazelcastBodyEntry::writeData and readData.                             *)
WriteBody(e) == <<e.body_buffer_>>

ReadBody(e, stream) == [e EXCEPT !.body_buffer_ = stream[1]]

(* HazelcastCacheEntrySerializableFactory::create: an object whose fields  *)
(* are still unset, or none for a class id it does not know.               *)
create(classId) ==
    CASE classId = HAZELCAST_BODY_TYPE_ID ->
            [TYPE_ID |-> HAZELCAST_BODY_TYPE_ID, body_buffer_ |-> NULL]
      [] classId = HAZELCAST_HEADER_TYPE_ID ->
            [TYPE_ID |-> HAZELCAST_HEADER_TYPE_ID,
             header_map_ptr |-> NULL, total_body_size |-> NULL]
      [] OTHER -> NULL

-----------------------------------------------------------------------------
(* The serialization service of the client: the class id of the object and *)
(* what its writeData writes; and back, an object of the factory, whose    *)
(* readData reads the stream.                                              *)
Serialized(e) ==
    [classId |-> e.TYPE_ID,
     stream  |-> IF e.TYPE_ID = HAZELCAST_HEADER_TYPE_ID
                 THEN WriteHeader(e) ELSE WriteBody(e)]

Deserialized(data) ==
    LET object == create(data.classId)
    IN  IF object.TYPE_ID = HAZELCAST_HEADER_TYPE_ID
        THEN ReadHeader(object, data.stream)
        ELSE ReadBody(object, data.stream)

(* IMap::put of a new entry.                                               *)
With(map, key, value) ==
    [k \in DOMAIN map \cup {key} |-> IF k = key THEN value ELSE map[k]]

Storing(p, e) ==
    /\ pc = "storing"
    /\ Cardinality(DOMAIN put) < MaxPuts
    /\ p \notin DOMAIN put
    /\ put' = With(put, p, e)
    /\ UNCHANGED <<place, result, pc>>

InsertHeader(p, e) ==
    /\ Storing(p, e)
    /\ headerMap' = With(headerMap, HeaderKey(p.hash_key), Serialized(e))
    /\ UNCHANGED bodyMap

InsertBody(p, e) ==
    /\ Storing(p, e)
    /\ bodyMap' = With(bodyMap, BodyKey(p.hash_key, p.index), Serialized(e))
    /\ UNCHANGED headerMap

Lookup(p) ==
    /\ pc = "storing"
    /\ p \in DOMAIN put
    /\ place' = p
    /\ result' = Deserialized(IF p.index = NULL
                              THEN headerMap[HeaderKey(p.hash_key)]
                              ELSE bodyMap[BodyKey(p.hash_key, p.index)])
    /\ pc' = "read"
    /\ UNCHANGED <<headerMap, bodyMap, put>>

(* The copy constructors.  The one of a header entry adds each header to   *)
(* the map of the new object, which is a null pointer: with a header to    *)
(* copy it faults, without one the copy has no map.                        *)
CopyHeader ==
    /\ pc = "read"
    /\ result.TYPE_ID = HAZELCAST_HEADER_TYPE_ID
    /\ \/ /\ result.header_map_ptr # <<>>
          /\ pc' = "faulted"
          /\ UNCHANGED result
       \/ /\ result.header_map_ptr = <<>>
          /\ pc' = "copied"
          /\ result' = [result EXCEPT !.header_map_ptr = NULL]
    /\ UNCHANGED <<headerMap, bodyMap, put, place>>

CopyBody ==
    /\ pc = "read"
    /\ result.TYPE_ID = HAZELCAST_BODY_TYPE_ID
    /\ pc' = "copied"
    /\ UNCHANGED <<headerMap, bodyMap, put, place, result>>

Next ==
    \/ \E p \in HeaderPlaces, e \in HeaderEntries : InsertHeader(p, e)
    \/ \E p \in BodyPlaces, e \in BodyEntries : InsertBody(p, e)
    \/ \E p \in DOMAIN put : Lookup(p)
    \/ CopyHeader
    \/ CopyBody

Spec == Init /\ [][Next]_vars

-----------------------------------------------------------------------------
(* The hashes in use have the same number of decimal digits.               *)
EqualLengthHashes ==
    \A p, q \in DOMAIN put :
        Len(to_string(p.hash_key)) = Len(to_string(q.hash_key))

(* No entry is stored over another one, whatever the hashes (the ones      *)
(* above INT64_MAX included) and the partition indexes, although nothing   *)
(* separates hash and index in a body key.  Hashes of different lengths    *)
(* may clash: hash 1 at index 10 and hash 11 at index 0 have the key 110.  *)
KeysTellEntriesApart ==
    EqualLengthHashes =>
        Cardinality(DOMAIN headerMap) + Cardinality(DOMAIN bodyMap) =
            Cardinality(DOMAIN put)

(* An entry read from a map is the entry that was put there: its type,     *)
(* every header in its order, repeated names included, and the body size,  *)
(* beyond the range of the signed long it travels in too.                  *)
EntriesSurviveTheMap ==
    pc = "read" /\ EqualLengthHashes => result = put[place]

(* "Hazelcast needs copy constructor in case of Near Cache usage": a copy  *)
(* of an entry is equal to it.                                             *)
CopiesAreEqual ==
    pc \in {"copied", "faulted"} => pc = "copied" /\ result = put[place]
=============================================================================

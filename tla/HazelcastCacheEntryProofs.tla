---------------------- MODULE HazelcastCacheEntryProofs ----------------------
(***************************************************************************)
(* Proofs about HazelcastCacheEntry, for any hashes, indexes, headers and  *)
(* sizes: an entry is read back from its data stream as it was written,    *)
(* and no entry is stored over another one.                                *)
(***************************************************************************)
EXTENDS HazelcastCacheEntry, CacheKeysProofs, FiniteSetTheorems

-----------------------------------------------------------------------------
(* Serialization.  The data stream of a header entry, place by place.      *)
Header == [key : Texts, value : Texts]

Pairs(e) ==
    [i \in 1 .. 2 * Len(e.header_map_ptr) |->
        LET header == e.header_map_ptr[(i + 1) \div 2]
        IN  IF i % 2 = 1 THEN header.key ELSE header.value]

LEMMA HeaderEntryFields ==
    ASSUME NEW e \in HeaderEntries
    PROVE  /\ e.TYPE_ID = HAZELCAST_HEADER_TYPE_ID
           /\ e.total_body_size \in 0 .. (UINT64 - 1)
           /\ Len(e.header_map_ptr) \in Nat
           /\ e.header_map_ptr \in [1 .. Len(e.header_map_ptr) -> Header]
  <1>1. e.TYPE_ID = HAZELCAST_HEADER_TYPE_ID /\ e.total_body_size \in Sizes
        /\ e.header_map_ptr \in HeaderMaps
    BY DEF HeaderEntries
  <1>2. PICK m \in 0 .. MaxHeaders : e.header_map_ptr \in [1 .. m -> Header]
    BY <1>1 DEF HeaderMaps, BoundedSeq, SeqOf, Header
  <1>3. m \in Nat
    BY EntryAssumption
  <1>4. e.header_map_ptr \in Seq(Header) /\ Len(e.header_map_ptr) = m
    BY <1>2, <1>3
  <1> QED BY <1>1, <1>2, <1>3, <1>4, EntryAssumption

(* all is the m elements of rest behind the element of one.                *)
Behind(S, one, rest, m, all) ==
    /\ all \in Seq(S) /\ Len(all) = m + 1
    /\ all[1] = one[1]
    /\ \A i \in 1 .. m : all[i + 1] = rest[i]

LEMMA InFront ==
    ASSUME NEW S, NEW one \in Seq(S), Len(one) = 1,
           NEW m \in Nat, NEW rest \in Seq(S), Len(rest) = m
    PROVE  Behind(S, one, rest, m, one \o rest)
  <1>1. /\ one \o rest \in Seq(S)
        /\ Len(one \o rest) = Len(one) + Len(rest)
        /\ \A i \in 1 .. Len(one) + Len(rest) : (one \o rest)[i] =
               IF i <= Len(one) THEN one[i] ELSE rest[i - Len(one)]
    BY ConcatProperties, Zenon
  <1> DEFINE all == one \o rest
  <1> HIDE DEF all
  <1>2. /\ all \in Seq(S) /\ Len(all) = 1 + m
        /\ \A i \in 1 .. 1 + m : all[i] = IF i <= 1 THEN one[i] ELSE rest[i - 1]
    BY <1>1, Zenon DEF all
  <1>3. all[1] = one[1] /\ 1 + m = m + 1
    BY <1>2
  <1>4. ASSUME NEW i \in 1 .. m PROVE all[i + 1] = rest[i]
    <2>1. i + 1 \in 1 .. 1 + m /\ ~(i + 1 <= 1) /\ (i + 1) - 1 = i
      OBVIOUS
    <2> QED BY <1>2, <2>1, Zenon
  <1> QED BY <1>2, <1>3, <1>4, Zenon DEF all, Behind

LEMMA StreamPlaces ==
    ASSUME NEW e \in HeaderEntries, NEW n, n = Len(e.header_map_ptr)
    PROVE  /\ WriteHeader(e)[1] = n
           /\ \A i \in 1 .. n : /\ WriteHeader(e)[2 * i] = e.header_map_ptr[i].key
                                /\ WriteHeader(e)[2 * i + 1] = e.header_map_ptr[i].value
           /\ WriteHeader(e)[2 * n + 2] = Int64(e.total_body_size)
  <1> DEFINE All == {n, Int64(e.total_body_size)} \cup Texts
             pairs == Pairs(e)
             size == Int64(e.total_body_size)
  <1>0. n \in Nat /\ e.header_map_ptr \in [1 .. n -> Header]
    BY HeaderEntryFields
  <1>1. \A i \in 1 .. 2 * n : (i + 1) \div 2 \in 1 .. n
    BY <1>0
  <1>2. pairs \in [1 .. 2 * n -> All]
    <2>1. \A i \in 1 .. 2 * n : e.header_map_ptr[(i + 1) \div 2] \in Header
      BY <1>0, <1>1
    <2>2. \A i \in 1 .. 2 * n : pairs[i] \in All
      BY <2>1 DEF Pairs, Header
    <2> QED BY <2>2 DEF Pairs
  <1>3. ASSUME NEW i \in 1 .. n
        PROVE  /\ pairs[2 * i - 1] = e.header_map_ptr[i].key
               /\ pairs[2 * i] = e.header_map_ptr[i].value
    <2>1. /\ 2 * i - 1 \in 1 .. 2 * n /\ ((2 * i - 1) + 1) \div 2 = i /\ (2 * i - 1) % 2 = 1
          /\ 2 * i \in 1 .. 2 * n /\ (2 * i + 1) \div 2 = i /\ (2 * i) % 2 = 0
      BY <1>0
    <2> QED BY <2>1 DEF Pairs
  <1>4. WriteHeader(e) = (<<n>> \o pairs) \o <<size>>
    BY Zenon DEF WriteHeader, Pairs
  <1>5. pairs \in Seq(All) /\ Len(pairs) = 2 * n
    <2> HIDE DEF pairs, All
    <2>1. 2 * n \in Nat
      BY <1>0
    <2> QED BY <1>2, <2>1
  <1>6. n \in All /\ size \in All
    OBVIOUS
  <1> HIDE DEF pairs, All, size
  <1>7. /\ WriteHeader(e)[1] = n
        /\ \A i \in 1 .. 2 * n : WriteHeader(e)[i + 1] = pairs[i]
        /\ WriteHeader(e)[2 * n + 2] = size
    <2> DEFINE front == <<n>> \o pairs
    <2>1. <<n>> \in Seq(All) /\ Len(<<n>>) = 1 /\ <<n>>[1] = n
      BY <1>6
    <2>2. <<size>> \in Seq(All) /\ Len(<<size>>) = 1 /\ <<size>>[1] = size
      BY <1>6
    <2>3. /\ front \in Seq(All) /\ Len(front) = 2 * n + 1
          /\ front[1] = n /\ \A i \in 1 .. 2 * n : front[i + 1] = pairs[i]
      <3> DEFINE one == <<n>>
      <3>1. one \in Seq(All) /\ Len(one) = 1 /\ one[1] = n
        BY <2>1
      <3> HIDE DEF one, front
      <3> DEFINE m == 2 * n
      <3>2. m \in Nat /\ Len(pairs) = m
        BY <1>0, <1>5
      <3> HIDE DEF m
      <3>3. Behind(All, one, pairs, m, one \o pairs)
        BY <1>5, <3>1, <3>2, InFront, Zenon
      <3> QED BY <3>1, <3>3, Zenon DEF one, front, m, Behind
    <2> HIDE DEF front
    <2>4. /\ \A i \in 1 .. 2 * n + 1 : (front \o <<size>>)[i] = front[i]
          /\ (front \o <<size>>)[2 * n + 2] = size
      BY <1>0, <2>2, <2>3
    <2>5. WriteHeader(e) = front \o <<size>>
      BY <1>4 DEF front
    <2>6. 1 \in 1 .. 2 * n + 1 /\ \A i \in 1 .. 2 * n : i + 1 \in 1 .. 2 * n + 1
      BY <1>0
    <2> QED BY <2>3, <2>4, <2>5, <2>6
  <1>8. ASSUME NEW i \in 1 .. n
        PROVE  /\ WriteHeader(e)[2 * i] = e.header_map_ptr[i].key
               /\ WriteHeader(e)[2 * i + 1] = e.header_map_ptr[i].value
    <2>1. /\ 2 * i - 1 \in 1 .. 2 * n /\ (2 * i - 1) + 1 = 2 * i
          /\ 2 * i \in 1 .. 2 * n
      BY <1>0
    <2>2. /\ WriteHeader(e)[(2 * i - 1) + 1] = pairs[2 * i - 1]
          /\ WriteHeader(e)[2 * i + 1] = pairs[2 * i]
      BY <1>7, <2>1
    <2> QED BY <1>3, <2>1, <2>2
  <1> QED BY <1>7, <1>8 DEF size


(* What is written is read back.                                           *)
LEMMA HeaderRoundTrip ==
    ASSUME NEW e \in HeaderEntries
    PROVE  Deserialized(Serialized(e)) = e
  <1> DEFINE n == Len(e.header_map_ptr)
             s == WriteHeader(e)
             object == [TYPE_ID |-> HAZELCAST_HEADER_TYPE_ID,
                        header_map_ptr |-> NULL, total_body_size |-> NULL]
             headers == [i \in 1 .. n |-> [key |-> s[2 * i], value |-> s[2 * i + 1]]]
  <1>0. /\ e.TYPE_ID = HAZELCAST_HEADER_TYPE_ID /\ e.total_body_size \in 0 .. (UINT64 - 1)
        /\ n \in Nat /\ e.header_map_ptr \in [1 .. n -> Header]
    BY HeaderEntryFields
  <1>1. /\ s[1] = n /\ s[2 * n + 2] = Int64(e.total_body_size)
        /\ \A i \in 1 .. n : /\ s[2 * i] = e.header_map_ptr[i].key
                             /\ s[2 * i + 1] = e.header_map_ptr[i].value
    BY StreamPlaces
  <1>2. create(HAZELCAST_HEADER_TYPE_ID) = object
    BY DEF create, HAZELCAST_HEADER_TYPE_ID, HAZELCAST_BODY_TYPE_ID
  <1>3. Serialized(e).classId = HAZELCAST_HEADER_TYPE_ID /\ Serialized(e).stream = s
    BY <1>0 DEF Serialized
  <1>4. Deserialized(Serialized(e)) = ReadHeader(object, s)
    <2>1. object.TYPE_ID = HAZELCAST_HEADER_TYPE_ID
      OBVIOUS
    <2> HIDE DEF object, s
    <2> QED BY <1>2, <1>3, <2>1 DEF Deserialized
  <1>5. headers = e.header_map_ptr
    <2> HIDE DEF n, s
    <2>1. \A i \in 1 .. n : e.header_map_ptr[i] \in Header
      BY <1>0
    <2>2. \A i \in 1 .. n : headers[i] = e.header_map_ptr[i]
      BY <1>1, <2>1 DEF Header
    <2> QED BY <1>0, <2>2
  <1>6. UInt64(s[2 * n + 2]) = e.total_body_size
    BY <1>0, <1>1, CastsLoseNothing
  <1>7. ReadHeader(object, s) =
          [object EXCEPT !.header_map_ptr = headers,
                         !.total_body_size = UInt64(s[2 * n + 2])]
    <2> HIDE DEF object, s, n
    <2> QED BY <1>1 DEF ReadHeader
  <1>8. ReadHeader(object, s) =
          [TYPE_ID |-> HAZELCAST_HEADER_TYPE_ID, header_map_ptr |-> e.header_map_ptr,
           total_body_size |-> e.total_body_size]
    <2> HIDE DEF s, n, headers
    <2> QED BY <1>5, <1>6, <1>7
  <1>9. e = [TYPE_ID |-> HAZELCAST_HEADER_TYPE_ID, header_map_ptr |-> e.header_map_ptr,
             total_body_size |-> e.total_body_size]
    BY DEF HeaderEntries
  <1> QED BY <1>4, <1>8, <1>9

LEMMA BodyRoundTrip ==
    ASSUME NEW e \in BodyEntries
    PROVE  Deserialized(Serialized(e)) = e
  <1> DEFINE object == [TYPE_ID |-> HAZELCAST_BODY_TYPE_ID, body_buffer_ |-> NULL]
  <1>0. e.TYPE_ID = HAZELCAST_BODY_TYPE_ID
    BY DEF BodyEntries
  <1>1. HAZELCAST_BODY_TYPE_ID # HAZELCAST_HEADER_TYPE_ID
    BY DEF HAZELCAST_BODY_TYPE_ID, HAZELCAST_HEADER_TYPE_ID
  <1>2. create(HAZELCAST_BODY_TYPE_ID) = object
    BY <1>1 DEF create
  <1>3. /\ Serialized(e).classId = HAZELCAST_BODY_TYPE_ID
        /\ Serialized(e).stream = <<e.body_buffer_>>
    BY <1>0, <1>1 DEF Serialized, WriteBody
  <1>4. Deserialized(Serialized(e)) = ReadBody(object, <<e.body_buffer_>>)
    <2>1. object.TYPE_ID = HAZELCAST_BODY_TYPE_ID
      OBVIOUS
    <2> HIDE DEF object
    <2> QED BY <1>1, <1>2, <1>3, <2>1 DEF Deserialized
  <1>5. ReadBody(object, <<e.body_buffer_>>) =
          [TYPE_ID |-> HAZELCAST_BODY_TYPE_ID, body_buffer_ |-> e.body_buffer_]
    BY DEF ReadBody
  <1>6. e = [TYPE_ID |-> HAZELCAST_BODY_TYPE_ID, body_buffer_ |-> e.body_buffer_]
    BY DEF BodyEntries
  <1> QED BY <1>4, <1>5, <1>6


-----------------------------------------------------------------------------
(* The places of the entries in the two maps.                              *)
KeyOf(p) ==
    IF p.index = NULL THEN HeaderKey(p.hash_key) ELSE BodyKey(p.hash_key, p.index)

HeadersPut == {p \in DOMAIN put : p.index = NULL}
BodiesPut  == {p \in DOMAIN put : p.index # NULL}

PlacesOK ==
    /\ IsFiniteSet(DOMAIN put)
    /\ \A p \in DOMAIN put : \/ p \in HeaderPlaces /\ put[p] \in HeaderEntries
                             \/ p \in BodyPlaces /\ put[p] \in BodyEntries
    /\ DOMAIN headerMap = {KeyOf(p) : p \in HeadersPut}
    /\ DOMAIN bodyMap = {KeyOf(p) : p \in BodiesPut}

StreamAt(p) == IF p.index = NULL THEN headerMap[KeyOf(p)] ELSE bodyMap[KeyOf(p)]

(* Each entry is in its map under its key, where the keys are distinct.    *)
EntriesKept ==
    EqualLengthHashes => \A p \in DOMAIN put : StreamAt(p) = Serialized(put[p])

ResultRead ==
    pc = "read" =>
        /\ place \in DOMAIN put
        /\ EqualLengthHashes => result = put[place]

EntryInv == PlacesOK /\ EntriesKept /\ ResultRead

LEMMA PlaceKinds ==
    /\ \A p \in HeaderPlaces : p.index = NULL /\ p.hash_key \in Hashes
    /\ \A p \in BodyPlaces : p.index # NULL /\ p.index \in Indexes /\ p.hash_key \in Hashes
  BY EntryAssumption DEF HeaderPlaces, BodyPlaces

(* A hash determines the place of its header; a body key its place, where  *)
(* the hashes have the same number of digits.                              *)
LEMMA HeaderPlacesDiffer ==
    ASSUME NEW p \in HeaderPlaces, NEW q \in HeaderPlaces, KeyOf(p) = KeyOf(q)
    PROVE  p = q
  <1>1. /\ p.hash_key \in 0 .. (UINT64 - 1) /\ q.hash_key \in 0 .. (UINT64 - 1)
        /\ HeaderKey(p.hash_key) = HeaderKey(q.hash_key)
    BY PlaceKinds, EntryAssumption DEF KeyOf
  <1>2. p.hash_key = q.hash_key
    BY <1>1, CastsLoseNothing
  <1> QED BY <1>2 DEF HeaderPlaces

LEMMA BodyPlacesDiffer ==
    ASSUME NEW p \in BodyPlaces, NEW q \in BodyPlaces, KeyOf(p) = KeyOf(q),
           Len(to_string(p.hash_key)) = Len(to_string(q.hash_key))
    PROVE  p = q
  <1>1. /\ p.hash_key \in Nat /\ q.hash_key \in Nat /\ p.index \in Nat /\ q.index \in Nat
    <2>1. UINT64 \in Nat
      BY WordAssumption, Zenon
    <2>2. \A h \in Hashes : h \in 0 .. (UINT64 - 1)
      BY EntryAssumption
    <2>3. \A h \in Hashes : h \in Nat
      BY <2>1, <2>2
    <2>4. \A i \in Indexes : i \in Nat
      BY EntryAssumption
    <2> QED BY <2>3, <2>4, PlaceKinds
  <1>2. BodyKey(p.hash_key, p.index) = BodyKey(q.hash_key, q.index)
    BY PlaceKinds DEF KeyOf
  <1>3. p.hash_key = q.hash_key /\ p.index = q.index
    BY <1>1, <1>2, BodyKeysDiffer
  <1> QED BY <1>3 DEF BodyPlaces

LEMMA InitEntry == Init => EntryInv
  <1> SUFFICES ASSUME Init PROVE EntryInv
    OBVIOUS
  <1>1. DOMAIN put = {} /\ DOMAIN headerMap = {} /\ DOMAIN bodyMap = {} /\ pc = "storing"
    BY DEF Init
  <1>2. HeadersPut = {} /\ BodiesPut = {}
    BY <1>1 DEF HeadersPut, BodiesPut
  <1>3. PlacesOK
    BY <1>1, <1>2, FS_EmptySet DEF PlacesOK
  <1> QED BY <1>1, <1>3 DEF EntryInv, EntriesKept, ResultRead

(* A put at a new place.                                                   *)
LEMMA StoringFacts ==
    ASSUME PlacesOK, NEW p, NEW e, Storing(p, e)
    PROVE  /\ DOMAIN put' = DOMAIN put \cup {p} /\ put'[p] = e /\ p \notin DOMAIN put
           /\ \A q \in DOMAIN put : put'[q] = put[q]
           /\ IsFiniteSet(DOMAIN put')
           /\ pc' = "storing"
           /\ EqualLengthHashes' =>
                 /\ EqualLengthHashes
                 /\ \A q \in DOMAIN put :
                       Len(to_string(p.hash_key)) = Len(to_string(q.hash_key))
  <1>1. /\ p \notin DOMAIN put /\ put' = With(put, p, e) /\ pc' = "storing"
    BY DEF Storing
  <1>2. /\ DOMAIN put' = DOMAIN put \cup {p} /\ put'[p] = e
        /\ \A q \in DOMAIN put : put'[q] = put[q]
    BY <1>1 DEF With
  <1>3. IsFiniteSet(DOMAIN put')
    BY <1>2, FS_AddElement DEF PlacesOK
  <1>4. EqualLengthHashes' =>
           /\ EqualLengthHashes
           /\ \A q \in DOMAIN put : Len(to_string(p.hash_key)) = Len(to_string(q.hash_key))
    BY <1>2 DEF EqualLengthHashes
  <1> QED BY <1>1, <1>2, <1>3, <1>4

LEMMA InsertHeaderEntry ==
    ASSUME EntryInv, NEW p \in HeaderPlaces, NEW e \in HeaderEntries, InsertHeader(p, e)
    PROVE  EntryInv'
  <1>0. PlacesOK /\ EntriesKept /\ Storing(p, e) /\ p.index = NULL
    BY PlaceKinds DEF EntryInv, InsertHeader
  <1>1. /\ DOMAIN put' = DOMAIN put \cup {p} /\ put'[p] = e /\ p \notin DOMAIN put
        /\ \A q \in DOMAIN put : put'[q] = put[q]
        /\ IsFiniteSet(DOMAIN put') /\ pc' = "storing"
    BY <1>0, StoringFacts
  <1>2. /\ headerMap' = With(headerMap, KeyOf(p), Serialized(e))
        /\ bodyMap' = bodyMap
    BY <1>0 DEF InsertHeader, KeyOf
  <1>3. /\ DOMAIN headerMap' = DOMAIN headerMap \cup {KeyOf(p)}
        /\ headerMap'[KeyOf(p)] = Serialized(e)
        /\ \A k \in DOMAIN headerMap \ {KeyOf(p)} : headerMap'[k] = headerMap[k]
    BY <1>2 DEF With
  <1>4. HeadersPut' = HeadersPut \cup {p} /\ BodiesPut' = BodiesPut
    BY <1>0, <1>1 DEF HeadersPut, BodiesPut
  <1>5. PlacesOK'
    <2>1. \A q \in DOMAIN put' : \/ q \in HeaderPlaces /\ put'[q] \in HeaderEntries
                                 \/ q \in BodyPlaces /\ put'[q] \in BodyEntries
      BY <1>0, <1>1 DEF PlacesOK
    <2>2. /\ DOMAIN headerMap' = {KeyOf(q) : q \in HeadersPut'}
          /\ DOMAIN bodyMap' = {KeyOf(q) : q \in BodiesPut'}
      BY <1>0, <1>2, <1>3, <1>4 DEF PlacesOK
    <2> QED BY <1>1, <2>1, <2>2 DEF PlacesOK
  <1>6. EntriesKept'
    <2> SUFFICES ASSUME EqualLengthHashes', NEW q \in DOMAIN put'
                 PROVE  StreamAt(q)' = Serialized(put'[q])
      BY DEF EntriesKept
    <2>1. CASE q = p
      BY <1>0, <1>1, <1>3, <2>1 DEF StreamAt
    <2>2. CASE q # p
      <3>1. q \in DOMAIN put /\ put'[q] = put[q] /\ EqualLengthHashes
        BY <1>0, <1>1, <2>2, StoringFacts
      <3>2. StreamAt(q) = Serialized(put[q])
        BY <1>0, <3>1 DEF EntriesKept
      <3>3. CASE q.index = NULL
        <4>1. q \in HeaderPlaces /\ q \in HeadersPut
          BY <1>0, <3>1, <3>3, PlaceKinds DEF PlacesOK, HeadersPut
        <4>2. KeyOf(q) \in DOMAIN headerMap \ {KeyOf(p)}
          BY <1>0, <2>2, <4>1, HeaderPlacesDiffer DEF PlacesOK
        <4> QED BY <1>3, <3>1, <3>2, <3>3, <4>2 DEF StreamAt
      <3>4. CASE q.index # NULL
        BY <1>2, <3>1, <3>2, <3>4 DEF StreamAt
      <3> QED BY <3>3, <3>4
    <2> QED BY <2>1, <2>2
  <1>7. ResultRead'
    BY <1>1 DEF ResultRead
  <1> QED BY <1>5, <1>6, <1>7 DEF EntryInv

LEMMA InsertBodyEntry ==
    ASSUME EntryInv, NEW p \in BodyPlaces, NEW e \in BodyEntries, InsertBody(p, e)
    PROVE  EntryInv'
  <1>0. PlacesOK /\ EntriesKept /\ Storing(p, e) /\ p.index # NULL
    BY PlaceKinds DEF EntryInv, InsertBody
  <1>1. /\ DOMAIN put' = DOMAIN put \cup {p} /\ put'[p] = e /\ p \notin DOMAIN put
        /\ \A q \in DOMAIN put : put'[q] = put[q]
        /\ IsFiniteSet(DOMAIN put') /\ pc' = "storing"
    BY <1>0, StoringFacts
  <1>2. /\ bodyMap' = With(bodyMap, KeyOf(p), Serialized(e))
        /\ headerMap' = headerMap
    BY <1>0 DEF InsertBody, KeyOf
  <1>3. /\ DOMAIN bodyMap' = DOMAIN bodyMap \cup {KeyOf(p)}
        /\ bodyMap'[KeyOf(p)] = Serialized(e)
        /\ \A k \in DOMAIN bodyMap \ {KeyOf(p)} : bodyMap'[k] = bodyMap[k]
    BY <1>2 DEF With
  <1>4. HeadersPut' = HeadersPut /\ BodiesPut' = BodiesPut \cup {p}
    BY <1>0, <1>1 DEF HeadersPut, BodiesPut
  <1>5. PlacesOK'
    <2>1. \A q \in DOMAIN put' : \/ q \in HeaderPlaces /\ put'[q] \in HeaderEntries
                                 \/ q \in BodyPlaces /\ put'[q] \in BodyEntries
      BY <1>0, <1>1 DEF PlacesOK
    <2>2. /\ DOMAIN headerMap' = {KeyOf(q) : q \in HeadersPut'}
          /\ DOMAIN bodyMap' = {KeyOf(q) : q \in BodiesPut'}
      BY <1>0, <1>2, <1>3, <1>4 DEF PlacesOK
    <2> QED BY <1>1, <2>1, <2>2 DEF PlacesOK
  <1>6. EntriesKept'
    <2> SUFFICES ASSUME EqualLengthHashes', NEW q \in DOMAIN put'
                 PROVE  StreamAt(q)' = Serialized(put'[q])
      BY DEF EntriesKept
    <2>1. CASE q = p
      BY <1>0, <1>1, <1>3, <2>1 DEF StreamAt
    <2>2. CASE q # p
      <3>1. /\ q \in DOMAIN put /\ put'[q] = put[q] /\ EqualLengthHashes
            /\ Len(to_string(p.hash_key)) = Len(to_string(q.hash_key))
        BY <1>0, <1>1, <2>2, StoringFacts
      <3>2. StreamAt(q) = Serialized(put[q])
        BY <1>0, <3>1 DEF EntriesKept
      <3>3. CASE q.index # NULL
        <4>1. q \in BodyPlaces /\ q \in BodiesPut
          BY <1>0, <3>1, <3>3, PlaceKinds DEF PlacesOK, BodiesPut
        <4>2. KeyOf(q) \in DOMAIN bodyMap \ {KeyOf(p)}
          BY <1>0, <2>2, <3>1, <4>1, BodyPlacesDiffer DEF PlacesOK
        <4> QED BY <1>3, <3>1, <3>2, <3>3, <4>2 DEF StreamAt
      <3>4. CASE q.index = NULL
        BY <1>2, <3>1, <3>2, <3>4 DEF StreamAt
      <3> QED BY <3>3, <3>4
    <2> QED BY <2>1, <2>2
  <1>7. ResultRead'
    BY <1>1 DEF ResultRead
  <1> QED BY <1>5, <1>6, <1>7 DEF EntryInv


LEMMA LookupEntry ==
    ASSUME EntryInv, NEW p \in DOMAIN put, Lookup(p)
    PROVE  EntryInv'
  <1>0. PlacesOK /\ EntriesKept
    BY DEF EntryInv
  <1>1. /\ place' = p /\ pc' = "read" /\ UNCHANGED <<headerMap, bodyMap, put>>
        /\ result' = Deserialized(StreamAt(p))
    BY DEF Lookup, StreamAt, KeyOf
  <1>2. PlacesOK'
    BY <1>0, <1>1 DEF PlacesOK, HeadersPut, BodiesPut
  <1>3. EntriesKept' /\ (EqualLengthHashes' => EqualLengthHashes)
    BY <1>0, <1>1 DEF EntriesKept, EqualLengthHashes, StreamAt
  <1>4. Deserialized(Serialized(put[p])) = put[p]
    BY <1>0, HeaderRoundTrip, BodyRoundTrip DEF PlacesOK
  <1>5. EqualLengthHashes' => result' = put[p]
    BY <1>0, <1>1, <1>3, <1>4 DEF EntriesKept
  <1>6. ResultRead'
    BY <1>1, <1>5 DEF ResultRead
  <1> QED BY <1>2, <1>3, <1>6 DEF EntryInv

LEMMA CopyEntry ==
    ASSUME EntryInv, CopyHeader \/ CopyBody \/ UNCHANGED vars
    PROVE  EntryInv'
  <1>0. PlacesOK /\ EntriesKept /\ ResultRead
    BY DEF EntryInv
  <1>1. UNCHANGED <<headerMap, bodyMap, put>>
    BY DEF CopyHeader, CopyBody, vars
  <1>2. PlacesOK'
    BY <1>0, <1>1 DEF PlacesOK, HeadersPut, BodiesPut
  <1>3. EntriesKept'
    BY <1>0, <1>1 DEF EntriesKept, EqualLengthHashes, StreamAt
  <1>4. CASE CopyHeader \/ CopyBody
    <2>1. pc' # "read"
      BY <1>4 DEF CopyHeader, CopyBody
    <2> QED BY <1>2, <1>3, <2>1 DEF EntryInv, ResultRead
  <1>5. CASE UNCHANGED vars
    <2>1. ResultRead'
      BY <1>0, <1>5 DEF ResultRead, EqualLengthHashes, vars
    <2> QED BY <1>2, <1>3, <2>1 DEF EntryInv
  <1> QED BY <1>4, <1>5

LEMMA NextEntry == EntryInv /\ [Next]_vars => EntryInv'
  BY InsertHeaderEntry, InsertBodyEntry, LookupEntry, CopyEntry DEF Next

(* Every reachable state satisfies the inductive invariant of the entries: *)
(* what is stored under a key, and what a lookup has read, is what was put *)
(* there.                                                                  *)
THEOREM EntryInvariance == Spec => []EntryInv
  BY InitEntry, NextEntry, PTL DEF Spec

-----------------------------------------------------------------------------
(* As many keys as places, where the keys are distinct.                    *)
LEMMA KeysCount ==
    ASSUME NEW S, IsFiniteSet(S),
           \A p, q \in S : KeyOf(p) = KeyOf(q) => p = q
    PROVE  Cardinality({KeyOf(p) : p \in S}) = Cardinality(S)
  <1> DEFINE T == {KeyOf(p) : p \in S}
             f == [p \in S |-> KeyOf(p)]
  <1>1. f \in [S -> T] /\ \A t \in T : \E p \in S : f[p] = t
    OBVIOUS
  <1>2. \A p, q \in S : f[p] = f[q] => p = q
    OBVIOUS
  <1>3. f \in Bijection(S, T)
    <2> HIDE DEF f, T
    <2> QED BY <1>1, <1>2 DEF Bijection, Injection, Surjection, IsInjective
  <1>4. ExistsBijection(S, T)
    <2> HIDE DEF f, T
    <2> QED BY <1>3 DEF ExistsBijection
  <1> QED BY <1>4, FS_Bijection

(* Where the hashes have the same number of digits, no entry is stored     *)
(* over another one: the two maps have a key for every place put at.       *)
THEOREM KeysApart == Spec => []KeysTellEntriesApart
  <1>1. EntryInv => KeysTellEntriesApart
    <2> SUFFICES ASSUME PlacesOK, EqualLengthHashes
                 PROVE  Cardinality(DOMAIN headerMap) + Cardinality(DOMAIN bodyMap) =
                          Cardinality(DOMAIN put)
      BY DEF EntryInv, KeysTellEntriesApart
    <2>1. /\ \A p \in HeadersPut : p \in HeaderPlaces
          /\ \A p \in BodiesPut : p \in BodyPlaces
      BY PlaceKinds DEF PlacesOK, HeadersPut, BodiesPut
    <2>2. /\ HeadersPut \in SUBSET DOMAIN put /\ BodiesPut \in SUBSET DOMAIN put
          /\ HeadersPut \cup BodiesPut = DOMAIN put /\ HeadersPut \cap BodiesPut = {}
      BY DEF HeadersPut, BodiesPut
    <2>3. IsFiniteSet(HeadersPut) /\ IsFiniteSet(BodiesPut)
      BY <2>2, FS_Subset DEF PlacesOK
    <2>4. Cardinality(DOMAIN headerMap) = Cardinality(HeadersPut)
      <3>1. \A p, q \in HeadersPut : KeyOf(p) = KeyOf(q) => p = q
        BY <2>1, HeaderPlacesDiffer
      <3> QED BY <2>3, <3>1, KeysCount DEF PlacesOK
    <2>5. Cardinality(DOMAIN bodyMap) = Cardinality(BodiesPut)
      <3>1. \A p, q \in BodiesPut : KeyOf(p) = KeyOf(q) => p = q
        BY <2>1, <2>2, BodyPlacesDiffer DEF EqualLengthHashes
      <3> QED BY <2>3, <3>1, KeysCount DEF PlacesOK
    <2>6. Cardinality(DOMAIN put) = Cardinality(HeadersPut) + Cardinality(BodiesPut)
      <3>1. Cardinality(HeadersPut \cup BodiesPut) =
               Cardinality(HeadersPut) + Cardinality(BodiesPut)
        <4>1. Cardinality(HeadersPut \cup BodiesPut) =
                 Cardinality(HeadersPut) + Cardinality(BodiesPut)
                   - Cardinality(HeadersPut \cap BodiesPut)
          BY <2>3, FS_Union
        <4>2. Cardinality(HeadersPut) \in Nat /\ Cardinality(BodiesPut) \in Nat
          BY <2>3, FS_CardinalityType
        <4> QED BY <2>2, <4>1, <4>2, FS_EmptySet
      <3> QED BY <2>2, <3>1
    <2> QED BY <2>4, <2>5, <2>6
  <1> QED BY <1>1, EntryInvariance, PTL

(* An entry read from a map is the entry that was put there, whatever its  *)
(* headers and however large its body: serialization and the casts to and  *)
(* from the signed long lose nothing, and no other entry has its key.      *)
THEOREM EntriesSurvive == Spec => []EntriesSurviveTheMap
  <1>1. EntryInv => EntriesSurviveTheMap
    BY DEF EntryInv, ResultRead, EntriesSurviveTheMap
  <1> QED BY <1>1, EntryInvariance, PTL
=============================================================================

# Verification of the Hazelcast HTTP cache plugin for Envoy

TLA+ specifications, TLC models and TLAPS proofs of the cache plugin in `src/`: a
cache for Envoy's HTTP cache filter that keeps responses in two distributed maps of
a Hazelcast cluster; and of the two concurrent parts of the Hazelcast client in `src/cpp`
whose code is in the repository, its invocation futures and its near cache.

## 1. The system

| Part | Source | State | Operations |
|---|---|---|---|
| Lookup context | `hazelcast_http_cache.cc` 13-86 | hash key, `total_body_size` read by `getHeaders` | `getHeaders`, `getBody`, `getTrailers` (stub) |
| Insert context | `hazelcast_http_cache.cc` 88-189 | `header`, `body_order`, `available_buffer_bytes`, `total_body_size`, `buffer_vector` | `insertHeaders`, `insertBody`, `copyIntoLocalBuffer`, `flushBuffer`, `flushHeader`, `insertTrailers` (stub) |
| Cache object | `hazelcast_http_cache.cc` 192-283 | configuration, the client pointer `hz` | make contexts, four map accesses, `clearMaps`, `connect`, `disconnect`, destructor; `updateHeaders` (stub), `cacheInfo` |
| Factory | `hazelcast_http_cache.cc` 285-307 | the one `cache_` it owns | `getCache`, destruction |
| Keys | `hazelcast_http_cache.cc` 51, 165, 218, 230 | none | int64 header key, decimal body key |
| Entries | `hazelcast_cache_entry.{h,cc}` | headers and body size; body bytes | `writeData`, `readData`, copy constructors, serializable factory |
| Configuration | `hazelcast.proto` | partition size, names, address | none |
| Cluster (external) | Hazelcast client library in `src/cpp` | the header map and the body map | get, put, clear, expiry, loss |
| Invocation future | `AbstractInvocationFuture.h` | the word `state`: nothing, a stack of waiters, or the answer | `get` with and without timeout, `andThen`, `complete`, `cancel` |
| Near cache | `NearCachedClientMapProxy.h`, `InvalidationAwareWrapper.h`, `DefaultNearCache.h`, the record stores | records, marks of keys | `get`, `getAsync`, `getAll`, updates, invalidation events, registration of the listener |
| Filter (external) | not in the repository; calls as in `hazelcast_http_cache_test.cc` | one lookup or insert per request | calls the contexts |

**How they interact.** Every worker thread of every Envoy process calls the contexts
for its own request. The contexts share nothing in memory but the client; all the
sharing is through the two maps, whose `get` and `put` are blocking and atomic one by
one. An insert is a series of body puts followed by one header put. A lookup is one
header get followed by one body get per `getBody` call. Nothing ties these calls
together: there is no lock, no version and no transaction.

Every map call of the client waits on an invocation future. A map may be configured
with a near cache, which `connect()` does not do: the near cache is part of the client
the plugin ships, not of the paths the plugin runs today.

**What is hard about it.** Inserts and lookups of one hash overlap at every map call.
Entries can disappear at any moment. A process can stop between two puts and the
cluster keeps what was put. A body of any length arrives in chunks of any length and
is cut again into partitions. Reads compute an index, an offset and a length from the
range, with unsigned arithmetic. The factory replaces a cache while references to it
and map calls on its client are alive. `PROJECT.json` lists these hazards with the
lines where they bite and the properties that answer them.

## 2. The modules

| Module | What it specifies |
|---|---|
| `CacheKeys` | the integer conversions and the keys of the two maps |
| `CacheKeysProofs` | decimal digits, and when two keys differ |
| `ResponseCache` | abstract: what a cache promises its readers |
| `HazelcastHttpCache` | the core: workers, contexts, the two maps, the cluster; it implements `ResponseCache` for a static origin |
| `MCHazelcastHttpCache` | instances of the core for TLC |
| `HazelcastHttpCacheProofs` | proofs about the core: inserts and what the maps hold |
| `HazelcastHttpCacheReadProofs` | proofs about the core: reads, and the refinement of `ResponseCache` |
| `HazelcastCacheEntry` | entries under their keys, on their way through serialization and copying |
| `HazelcastCacheEntryProofs` | proofs about entries: the round trip and the keys |
| `HazelcastHttpCacheFactory` | the life of a cache object and of its client |
| `HazelcastHttpCacheFactoryProofs` | proofs about the factory |
| `CompletableFuture` | abstract: one answer, given to each waiter at most once |
| `AbstractInvocationFuture` | the future of a call; it implements `CompletableFuture` |
| `AbstractInvocationFutureProofs` | proofs about the future, and the refinement of `CompletableFuture` |
| `MCAbstractInvocationFuture` | instances of the future for TLC |
| `NearCachedClientMapProxy` | a map with a near cache, its threads, events and marks |
| `NearCachedClientMapProxyProofs` | proofs about the near cache |
| `NearCacheGetAll` | `getAll` beside them |
| `MCNearCache` | instances of the near cache for TLC |

### HazelcastHttpCache

A *worker* serves one request at a time. `pc[w]` says which handler it is in, and
`lookup[w]` and `insert[w]` are its contexts with the field names of the code. A step
makes at most one map call. `headerMap` and `bodyMap` are functions whose domain is
the set of keys present. `clearing` is the point between the two clears of
`clearMaps`. `lost` is a history variable: the body keys the cluster has dropped
since they were last put; only properties read it.

A response is a model value `r` with a body length. Byte `i` of its body is the pair
`<<r, i>>`, so a property can tell which bytes of which response a reader holds.
Header contents are the response they belong to. `Origin[h]` is the set of responses
an upstream may give to requests of hash `h`.

| Action | Code |
|---|---|
| `MakeLookupContext`, `GetHeaders` | constructor and `getHeaders` |
| `RequestRange`, `GetBody` | the caller picks a range; one `getBody` call with the callback's effect on the caller |
| `MakeInsertContext`, `InsertHeaders` | constructor and `insertHeaders` |
| `InsertBody` | entry of `insertBody` with a chunk of any length |
| `FillBuffer`, `BufferRest` | the two branches of its loop; the first one flushes the buffer |
| `EndChunk` | what follows the loop: the last flush, or the return |
| `FlushHeader` | `flushHeader` |
| `Release` | the contexts are destroyed, wherever the worker is: request over, stream reset, exception, process death |
| `EvictHeader`, `EvictBody` | the cluster drops an entry |
| `ClearBodyMap`, `ClearHeaderMap` | the two halves of `clearMaps` |

`GetBody` keeps the code's arithmetic, the copy of `range.end() % size` bytes
included. Where the copy leaves the partition the outcome is undefined: the reader
is given `JUNK` bytes or the process faults. Where the unsigned length wraps it
faults. A null body ends the read ("abort lookup").

*Refinement.* `stored` of `ResponseCache` is the response of the header entry present
under a hash; a reader is a worker that holds a header, with its range and the bytes it
was given. A worker whose range is not servable (section 3) maps to no reader. The
puts of an insert are stutters but for the header's.

### HazelcastCacheEntry

Entries are stored one after the other in serialized form, looked up and copied.
Streams are sequences of the values written. Both directions follow the code field by
field, with the hash and the body size converted to signed integers and back. `put` is
a history variable: what was put under which hash and index. The copy constructor of
the header entry works on the null map pointer of the new object, as in the code.

### HazelcastHttpCacheFactory

`caches` and `clients` are all the objects ever constructed; a client is connected, shut
down or freed. `closing` is the cache that `disconnect` or the destructor is at work on.

| Action | Code |
|---|---|
| `GetCache` | `getCache` up to the destructor of the replaced cache |
| `Shutdown`, `Release` | `disconnect`: `hz->shutdown()`, then `hz.release()` |
| `Destroy` | the end of `~HazelcastHttpCache`, where `hz` deletes what it still holds |
| `ConnectAndReturn` | the rest of `getCache`, whose connection may fail |
| `Connect`, `Disconnect` | calls on a returned reference |
| `BeginCall`, `EndCall` | the two ends of a map call of a worker |
| `Exit` | the static factory is destroyed |

A `unique_ptr` that is assigned or destroyed deletes its client (`Deleted`); `release()`
forgets the client without deleting it. Only this order keeps a client alive under a map
call that has begun, and it is why every disconnect leaks one. A call through a reference to a
destroyed or disconnected cache crashes the process. One main thread calls `getCache`,
`connect` and `disconnect`; workers make map calls between any two of their steps, and have
ended when the process exits. `stopped` is a history variable: the caches that a caller has
disconnected.

### AbstractInvocationFuture

Every call of `get`, `andThen`, `complete` or `cancel` is a process. A step makes one
access to shared memory: `state`, the `next` field of a wait node, or the `unparked`
flag of a thread. The stack of waiters is `state` and the `next` fields below it.

| Action | Code |
|---|---|
| `ReadState`, `Register` | `registerWaiter`: the read, and the compare-and-set with its retry |
| `Wake`, `WakeSpuriously`, `Expire` | the loops of the two `get`, `park`, the deadline |
| `Unregister`, `Walk`, `Unlink` | `unregisterWaiter`, node by node |
| `ReadOldState`, `Complete`, `UnblockAll` | `innerComplete` and `unblockAll` |
| `Execute`, `RunCallback` | `unblock` of a callback, `CallbackRunner` |

`UnblockAll` reaches one waiter, as the code does: the `WaitNode` case falls through to
`default`, which returns.

### NearCachedClientMapProxy and NearCacheGetAll

A value is its version, so a record is stale when it differs from `server`. `events` are
the invalidations on their way, in any order, and `sent` the asynchronous updates. The
code of `KeyStateMarker` is not in the repository; its operators are external, a
compare-and-set of the slot of a key, as its interface and its callers ask for. The
marker has as many slots as the map has partitions, so keys share them: `getSlot` is any
function. `crossed` is a history variable: the slots where gets of two keys have held a
mark at once.

`addNearCacheInvalidateListener` logs a registration that throws and goes on. `Init` has
both outcomes; with `listener = "failed"` no event ever comes, records stay stale until they
expire or this client updates them, and no property claims otherwise.

| Action | Code |
|---|---|
| `GetMiss`, `TryMark`, `Fetch` | `getInternal`, `getAsync` and its callback |
| `Put`, `Store` | `tryToPutNearCache`: eviction, then the record |
| `Reset`, `Invalidate`, `RemoveRecord`, `ForceUnmark` | `resetToUnmarkedState` |
| `Update`, `CallServer`, `ReplaceFails`, `UpdateAsync` | the updates, each with its `invalidateNearCache` |
| `HandleEvent`, `HandledEvent` | the event handler: the mark, then the record |
| `LoseListener`, `Register` | a broken connection; `beforeListenerRegister` and `onListenerRegister` |
| `RemoteUpdate`, `ApplyAsync`, `Expire` | other clients, the member, expiry |
| `GetAll`, `MarkAll`, `FetchAll`, `StoreUnmarked`, `StoreThrows` | `getAllInternal`, for one key |

## 3. What the runs show

| Run | Configuration | Expected | What it shows |
|---|---|---|---|
| `static_origin` | `MCStatic` | pass | one response per hash: the cache implements `ResponseCache`, reads of servable ranges are exact, and handlers return |
| `changing_origin` | `MCChanging` | pass | different responses of one hash inserted concurrently and abandoned anywhere: insert bookkeeping, header contents, body slices and publication order hold |
| `entry_round_trip` | `MCEntry` | pass | entries of hashes with equally many digits do not replace each other, and survive serialization |
| `cache_life` | `MCFactory` | pass | no connection without an owner, no client freed under a call, the current cache stays connected |
| `future` | `MCFuture` | pass | no waiter is unlinked by another one, one answer wins, the last waiter is woken, timed gets return; the future implements `CompletableFuture` |
| `near_cache` | `MCNearCache` | pass | with a listener, settled records are the values of the cluster, and in the end all are |
| `unaligned_range` | `MCRange` | violation | "Copy only needed bytes" fails for ranges inside one partition |
| `torn_insert` | `MCTorn` | violation | header and bodies of different responses under one hash |
| `entry_copy` | `MCEntryCopy` | violation | a header entry with a header cannot be copied: the process faults |
| `lost_waiter` | `MCFutureLostWaiter` | violation | of two waiters, the one that registered first is never told |
| `shared_slot` | `MCNearCacheSharedSlot` | violation | a get takes the mark of another key for its own and keeps a value older than the invalidation |
| `near_cache_get_all` | `MCNearCacheGetAll` | violation | `getAll` caches a value older than the invalidation |

`ReadsAreExact` speaks of *servable* ranges: those that begin at a partition boundary
or reach at least to the end of the partition they begin in. The others are the
subject of `unaligned_range`. It holds while a hash has one response; `torn_insert`
shows what happens otherwise.

**A reader that never ends.** `HandlersReturn` also depends on the static origin. Let
the responses be `{r2, r4}` with partitions of 2 bytes, one worker, `INT_MAX = 4` and
`FairSpec`: a shorter response whose insert stops before its header leaves an empty
partition under the header of the longer one. `getBody` then returns 0 bytes, and a
caller that follows "Caller (filter) has to check range and make another getBody
request if needed" asks for ever. The call changes no variable, so TLC prints the loop
as stuttering. The range has to reach the end of that partition: with `{r2, r3}` the
other branch is taken and `HandlersReturn` holds.

**A cache that is replaced.** The second `getCache` destroys the cache the first one
returned by reference, also when its own `connect` fails. In the model a call through
the old reference crashes the process. `ServesUntilReplaced` states what is left.

**Waiters and marks.** `lost_waiter` needs two waiters on one future, for instance a
`getAsync` that registers its callback for the near cache and a caller that waits for
the result. Pipelining and delegating futures add callbacks in the same way.
In `shared_slot` two keys have one slot. An event for all keys resets the slot while a get
of the first key is about to store; a get of the second key marks the slot; and the first
get takes that mark for its own and leaves its old value behind (12 states, two threads).
So `InvalidationsWin`, which is what the comment of `InvalidationAwareWrapper` says, is
false. `RecordsFresh` and `FreshInTheEnd` say the same of slots that are not `crossed`.
With one key per slot no slot ever is.

**Clearing the maps.** `PublishedBodiesPresent` excuses bodies the cluster dropped, and
those `clearMaps` removed. An insert that put bodies before the clear and its header after
it leaves a header without bodies; a reader of it ends at the missing body, as after an
eviction, and `ReadsAreExact` covers that reader.

Body keys are unique only among hashes of equal decimal length: hash 1 at index 10 and
hash 11 at index 0 share the key `110`. Two 64 bit hashes collide so only if one is a
decimal prefix of the other, which is improbable. `entry_copy` is latent, as
`connect()` configures no near cache.

**Bounds.** Partition sizes of 2 and 3 with bodies of 0, 2, 3 and 4 bytes give empty
bodies, bodies equal to and longer than a partition, last partitions that are partly
filled, exact multiples (with the empty entry put at the end) and chunks that span
partitions. Two workers give every pair of overlapping operations; three at once are
covered by the proofs. `INT_MAX` is just large enough for
the partition counts. `UINT64` is 128 or 8: words small enough to reach values above
the signed maximum. `MaxCaches` and `MaxClients` allow replacement after replacement
and reconnection after disconnection. Workers are symmetric in the safety runs; the
liveness runs use no symmetry.

The future has a get, a timed get and a callback, so that a waiter unlinks itself from the
top, the middle or the bottom of the stack, and two answers. Two timed gets that unlink
neighbours at the same time are covered by the proof of `WaitersReachable`. The near cache
has two threads, one key, one update and one lost listener; more keys, and slots that they
share, are covered by the proofs.

**Fairness.** `FairSpec` assumes weak fairness of the steps of a worker that is inside
a handler (`HandlerStep`), one assumption per worker. Handlers run to their end on
their thread and map calls block until they return or throw. In the model a throwing
call is `Release`. The loop over `getBody` belongs to the caller, and its next call is
part of `GetBody`: the filter continues a read it has begun. Nothing is assumed of
the filter's other decisions or of the cluster.

For the future: a thread inside a call is scheduled, deadlines pass, executors run what
they accept, and the invocation is completed, by an answer or its own timeout. A
spurious wake-up is possible and never assumed. For the near cache: calls that have
begun go on, and requests and events arrive unless the connection is lost. Nothing is
assumed of the registration of a listener, which may fail: `FreshInTheEnd` speaks of the
behaviours in which the listener is registered again and again. Updates end because of
the bound `MaxVersion`.

**Deadlock** is checked in the core and the near cache. It is not in the entry and
factory models, where the storing ends and the process exits or crashes, nor in the
future, whose calls are made once each.

## 4. What is proved

Every safety invariant and both refinements that the passing runs check are also
theorems, for every value of the constants. One hypothesis appears in the statements,
where the code needs it: `StaticOrigin` (a hash has at most one response). Section 3 shows
what happens without it.

| Module | Theorem | Statement |
|---|---|---|
| `HazelcastHttpCacheProofs` | `Invariance` | `Spec => []IInv` |
| | `TypeCorrect` | `Spec => []TypeOK` |
| | `InsertsProgress` | `Spec => []InsertProgress` |
| | `HeadersDescribe` | `Spec => []HeaderDescribesResponse` |
| | `BodiesAreSlices` | `Spec => []PartitionsAreSlices` |
| | `BodiesPublishedFirst` | `Spec => []PublishedBodiesPresent` |
| `HazelcastHttpCacheReadProofs` | `ReadInvariance` | `StaticOrigin`: `Spec => []ReadInv` |
| | `ReadsExact` | `StaticOrigin`: `Spec => []ReadsAreExact` |
| | `ResponseCacheImplemented` | `StaticOrigin`: `Spec => ImplementsResponseCache` |
| `CacheKeysProofs` | `BodyKeysDiffer` | hashes of equally many digits: equal body keys, equal hash and index |
| | `CastsLoseNothing` | `HeaderKey` is injective, `UInt64` undoes `Int64` |
| `HazelcastCacheEntryProofs` | `EntryInvariance` | `Spec => []EntryInv` |
| | `KeysApart` | `Spec => []KeysTellEntriesApart` |
| | `EntriesSurvive` | `Spec => []EntriesSurviveTheMap` |
| `HazelcastHttpCacheFactoryProofs` | `FactoryInvariance` | `Spec => []FactoryInv` |
| | `OneOwnedConnection` | `Spec => []ConnectionsOwned` |
| | `CallsAreSafe` | `Spec => []CallsOnLiveClients` |
| | `ReturnedCachesServe` | `Spec => []ServesUntilReplaced` |
| `AbstractInvocationFutureProofs` | `FutureTypes` | `Spec => []TypeOK` |
| | `FirstAnswerStays` | `Spec => []FirstAnswerWins` |
| | `NoWaiterFallsOff` | `Spec => []WaitersReachable` |
| | `FutureImplemented` | `Spec => ImplementsFuture` |
| `NearCachedClientMapProxyProofs` | `NearCacheTypes` | `Spec => []TypeOK` |
| | `MarksGuard` | `Spec => []MarksGuardRecords` |
| | `RecordsStayFresh` | `Spec => []RecordsFresh` |

### Inserts and the maps

`IInv` is the conjunction of the five properties below it. The last three are not
inductive alone: that a flushed buffer is a slice needs to know what the buffer holds,
and that a header tells the truth needs to know what was flushed before it.
`InsertProgress` supplies both. While an insert is filling its buffer,
`total_body_size = body_order * BODY_PARTITION_SIZE`, the buffer holds the bytes that
follow, and these together with the unread rest of the chunk are all the bytes
received so far. There is one lemma per action or group of actions that change the
same variables; the arithmetic facts about multiples of the partition size are lemmas of
their own.

### Reads and the refinement

`ReadInv` says of a lookup context what its stage allows: nothing is read before a
header is found; the header found is a response of the hash, with its length; the range
is within it; and a servable read that is under way has exactly the bytes from `begin`
to `start`, where `start` is the beginning or the end of the range or a partition
boundary. That last clause makes it inductive: the copy of `getBody` is right only where
a read does not begin and end inside one partition, and each call leaves the next one
at a boundary. The step needs `PartitionsAreSlices`, which under a static origin says that
the partition found belongs to the response found earlier, and the lemma
`CopiedBytesExact`, which is the arithmetic of `getBody` over `\div` and `%`.

For the refinement, every action is shown to be one step of `ResponseCache` or a
stutter. The header put is `Store`, the evictions and the second half of `clearMaps` are
`Drop`, a found header is `Find`, the choice of a range is `Ask`, a `getBody` that
copies is `Deliver`, and a worker that finds nothing, is released or asks for a range
that is not servable is `Leave` or a stutter.

### Keys and entries

`to_string` is recursive. What it computes is proved without induction: partial
solutions of the recursion agree and exist up to every number, because the least number
where they did not would be one digit longer than one where they do (`LeastNumber`, from
the well-foundedness of `<`). The same argument shows that digits determine the number.
`BodyKeysDiffer` is then cancellation of equally long prefixes, and justifies the part of
`HashAssumption` about body keys for any hashes of one decimal length.

`EntryInv` adds to the round trip that the keys present are those of the places put at,
and that each place still has its own entry. The serialized header is shown to have its
names and values at the even and odd places of the stream, for any number of headers;
`readData` reads them back from there.

### Factory

`FactoryInv` adds to the properties that the living caches are `cache_` and the one being
closed, that only one of them has a client, and that a destructor past its `disconnect`
has nothing left to delete. From this, no client is ever freed, so none is under a call.
The weight is on `Release`: with `hz.reset()` in its place, or with no release at all, the
invariant fails at that step.

### Future

`AnswerInv` has the types, where each kind of call may be, `FirstAnswerWins`, and that a
callback moves only when there is an answer and a thread unlinks only itself.

`WaitersReachable` is far from inductive: a timed get overwrites a `next` field with
what it read some steps ago, while others register above it or unlink around it, and a
waiter that gave up can be linked in again. `Ordered` says there are *ranks*: each
waiter gets one above all the earlier ones when it registers. Then `state`, every `next`
field and every pair a walking thread remembers lead to a lower rank and past no waiter
that still waits. A step of the stack keeps the ranks or adds one, and a waiter that
waits is on the stack because, among the stacked ones at or above its rank, the one of
least rank must be itself. `next` fields of waiters that have left are covered too:
somebody may still walk through them.

`Promised` is what the refinement needs besides `AnswerInv`: only a call that has
returned has an outcome, and the callback about to be unblocked has not run yet.

### Near cache

`TypeInv` adds to `TypeOK` what each thread holds at each of its steps, and that the
updates sent fit under the bound on versions. `MarksGuardRecords` is inductive with it,
key by key (`KeyInv`), for slots that are not crossed. While a slot is marked, one of the
gets that guard its key holds a value that is fresh or whose mark is about to be taken
away, and a stale record that nothing will remove is left to a get other than that one,
which will find its mark gone and invalidate. Or the mark is that of another key (`Lent`);
then no get of this key is under way and its record is not stale. `RecordsFresh` follows, as
a settled key has no such get.

Slots that are shared make the last case necessary. A slot becomes crossed at the step at
which a get marks it while a get of another key is under way, so a mark for another key
finds no get of this key (`TryMarkKeeps`), and as long as the get of the other key has not
looked at its mark it stays lent (`LentStays`). A slot that is not crossed after a step was
not before it (`ShieldedBefore`), so the invariant can be used.

### Assumptions

- `WordAssumption`: the number of values of the unsigned word is even and positive.
- `ConfigAssumption`, `ResponseAssumption`, `HashAssumption` (core): the partition size
  is a positive word, no body needs more than `INT_MAX` partitions, and the hashes in use
  have distinct body keys.
- `EntryAssumption`: hashes and sizes are words, indexes are natural numbers.
- `CallsAssumption`, `NearCacheAssumption`: kinds of calls do not overlap, every key
  has a slot, bounds are natural numbers.
- `NULL` is none of the values it is told apart from (`NullAssumption` in three modules,
  and part of the two above).

**Only model-checked.** Liveness, which the prover does not cover: `HandlersReturn`,
`LastWaiterTriggered`, `TimedGetsReturn` and `FreshInTheEnd`. The properties of the
violation runs are false and stay with TLC, which finds the counterexamples.

## 5. What is not modelled

- `updateHeaders`, `insertTrailers` and `getTrailers`: stubs.
- `cacheInfo`, the registration and `createEmptyConfigProto`: constants.
- Freshness and vary decisions in `makeLookupResult`: Envoy code outside the repository.
- The rest of the Hazelcast client, and the cluster. Nearly all the lines under
  `src/cpp` are Boost headers, declarations without bodies (services, codecs,
  serialization), getters and setters, and examples. There is no behaviour to translate
  in them, so the share of the repository's lines that the modules cover is small: it is
  all of the plugin's logic and two components of the client.
- Of the near cache: its destruction, statistics, preloading, and a configuration that
  does not invalidate on change. Its size is not bounded by a property: two threads may
  both pass the eviction and store.
- `ClientDelegatingFuture` and `Pipelining`: wrappers that register callbacks.
- The member a body entry is stored on. `src/README.md` 47 says the bodies of a
  response are on one member "using `PartitionAware`"; in the code this is a TODO
  (`hazelcast_cache_entry.h` 97), and nothing in the plugin depends on it.
- Different request keys with the same 64 bit hash: a request is its hash here.
- Different partition sizes in different processes: all workers share one size.
- The overflow of `body_order`, excluded by an assumption.

## 6. Plan

Done: keys, core, entries, factory, invocation future and near cache, with their runs,
refinements and the proofs of all their safety properties.

1. Partition sizes per process, and a restart with another size over the same
   cluster: which reads stay exact, and which properties need a common size.
2. A composition of the factory and the core: workers that hold a reference while the
   cache is replaced, and reads cut short by a disconnect.
3. Request keys as state, to follow two keys with one hash.
4. Proofs: which part of `ReadsAreExact` survives without a static origin.

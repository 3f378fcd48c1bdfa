# TLA+ models of novadb

novadb is a Redis-compatible, disk-backed key-value server (C++ over RocksDB)
with a Redis-Cluster style control plane.  This directory holds the TLA+
specifications of the parts of it whose correctness depends on the order in
which threads, timeouts and messages happen, the TLC configurations that check
them, and `PROJECT.json`, which ties every definition to the source lines it
models.

All paths below are relative to the repository (`src/novadbplus/...`).

## 1. The system and its parts

| Part | Source in this repository | State | Operations | Talks to |
|---|---|---|---|---|
| **Lock manager (MGL)** | `lock/mgl/lock_defines.h`, `lock/mgl/mgl.cpp`, `lock/mgl/mgl_mgr.cpp` | per shard a map target -> `LockSchedCtx` (running list, pending list, per-mode reference counts, mode masks); per `MGLock` target, mode, result, list position | `MGLock::lock`, `waitLock`, `unlock`; `MGLockMgr::lock`, `unlock`, `getLockList`; `LockSchedCtx::lock`, `unlock`, `schedPendingLocks`, `incr/decRunningRef`, `incr/decPendingRef` | every command, migration, GC and index thread takes its locks here |
| **Lock hierarchy** | `lock/lock.h` (declarations) | an `ILock` owns its parent `ILock` and one `MGLock` | `StoresLock`, `StoreLock`, `ChunkLock`, `KeyLock` constructors and destructors, `getParentMode` | lock manager, session |
| **Pessimistic key marks** | `storage/pessimistic.h`, `storage/pessimistic.cpp` | per shard a set of keys under a mutex | `lock`, `unlock`, `isLocked`, `getShard` | storage transactions |
| **Atomic counters** | `utils/atomic_utility.h` | one `std::atomic<T>` | `+=`, `=`, `-`, `++`, `--`, `get`, move/copy construction | statistics of every component |
| **Rate limiter** | `utils/rate_limiter.h` | `_bytesPerSecond`, a RocksDB limiter | `Request`, `SetBytesPerSecond` | migration sender, backup |
| **Wire codecs** | `utils/string.h` | none (pure functions) | `bitsetEncode/Decode`, `bitsetEncodeVec/DecodeVec`, `bitsetStrEncode/Decode`, `CopyUint`, `easyCopy` | migration, cluster state, GC (slot bitmaps on the wire and in the catalog) |
| **Server parameters** | `server/server_params.h` | one typed variable per parameter with check, pre-process and on-update hooks | `set`, `setVar`, `show`, rewrite of the configuration file | `CONFIG SET/GET/REWRITE`, every reader of a parameter |
| **Session commands** | `commands/auth.cpp` (`commands/release.*`, `version.h`: build information) | per session: authenticated flag, database id | `AUTH`, `SELECT` | session, server parameters |
| **Time helpers** | `utils/time.cpp`, `utils/time_record.h` | none | `msToNow`, `sinceEpoch`, epoch conversions | TTL, timeouts |
| **Cluster state, gossip, failover** | not in this repository's `src/` (scenarios in `cluster/cluster_test.cpp`) | node table, slot ownership, epochs | gossip ticks, votes, slot takeover | migration, session routing |
| **Migration manager** | `cluster/migrate_batch.h` (declarations only) | per slot-range task state | PENDING -> SNAPSHOT -> BINLOG -> COMMIT | lock manager, rate limiter, cluster state |
| **GC manager** | `cluster/gc_manager.h` (declarations only) | delete-range tasks | `generateDeleleRangeTask`, range delete | lock manager, cluster state |
| **Index manager, scripting, storage filter** | `server/index_manager.h`, `script/*.h`, `storage/rocks/rocks_kvttlcompactfilter.h` (declarations only) | - | - | - |
| **Server process** | `server/main.cpp` | the global server, the signal dispositions, the pid file | `main`, `setupSignals`, `shutdown` (the handler), `waitForExit` | server parameters, `ServerEntry` |
| **Utilities** | `utils/invariant.h`, `utils/file.h`, `utils/base64.h`, `utils/param_manager.h` | - | assertion macros, file helpers, encodings | - |
| **Tests** | `cluster/cluster_test.cpp`, `commands/command_test.cpp`, `network/worker_pool_test.cpp`, `utils/atomic_utility_test.cpp` | - | scenarios the implementation is tested with | - |

### What makes each part hard

* **Lock manager.**  Many threads lock and unlock the same targets.  A request
  that cannot run waits on a condition variable *with a timeout*; the timeout
  and the grant race, and the code lets a request whose `lock()` returned
  `TIMEOUT` stay in the pending list until its owner calls `unlock()`, where it
  can be granted in between.  Conflicts are decided from a hand-maintained bit
  mask, not from the lists.  Waiters must neither starve nor be overtaken.  A
  context must be erased exactly when its last request leaves.
* **Lock hierarchy.**  Every lock takes intent locks on its ancestors first and
  releases them last; two operations that lock several keys must do so in one
  order or they wait for each other until a timeout.
* **Atomic counters.**  `operator+=` is a relaxed load followed by a relaxed
  store: two concurrent additions can lose one.
* **Wire codecs.**  Decoders read lengths and positions from untrusted bytes;
  the bound checks differ between the forms.
* **Rate limiter.**  `Request` splits a request by a burst it read before the
  loop while `SetBytesPerSecond` changes the limiter, without a mutex.
* **Server parameters.**  `CONFIG SET` runs on the thread of its session,
  without a lock, stores the value and calls the hook afterwards: the hooks
  of two sessions run in any order after their stores.
* **Server process.**  Signals arrive at any statement of `main`; the handler
  uses the global server, the pid file must not outlive the process.

## 2. Modules

| Module | Models | Kind |
|---|---|---|
| `MGLDefines` | `lock_defines.h`, the conflict table and `isConflict` of `mgl_mgr.cpp` | constants and operators |
| `LockSchedCtx` | class `LockSchedCtx`: one operator per member function, from the context it is called on to the context it leaves | operators on a record |
| `MGLockMgr` | classes `MGLock` and `MGLockMgr`: the shard maps, the `MGLock` fields and the control state of every owner thread | state machine |
| `GroupLock` | what a caller may rely on: a FIFO lock held by groups of compatible requests | abstract specification |
| `SessionLocks` | the lock hierarchy of `lock.h` used by sessions, composed with `MGLockMgr` | state machine over an instance of `MGLockMgr` |
| `Atom` | `Atom<T>` of `atomic_utility.h`, every load and store a step | state machine |
| `RateLimiter` | `RateLimiter` of `rate_limiter.h` over the rate and the refill size of the RocksDB limiter | state machine |
| `BitsetCodec` | `bitsetEncode`, `bitsetDecode`, `bitsetEncodeVec`, `bitsetDecodeVec`, `bitsetStrEncode`, `bitsetStrDecode`, `CopyUint` of `string.h`, and the reference definition of a run | RECURSIVE operators |
| `EasyCopy` | the three forms of `easyCopy` of `string.h`: an element and an array appended to a vector, an element read out of a string | operators |
| `BitsetWire` | a sender, a forger and a receiver around the codecs; a writer that puts a record together with `easyCopy` and a reader that takes it apart | state machine |
| `ServerParams` | `BaseVar` and its seven classes, `setVar`, start-up and `CONFIG SET` | state machine |
| `Server` | `main.cpp` (statements of `main`, signals, pid file) and `auth.cpp` (`AUTH`, `SELECT`) | state machine |
| `MCMGLockMgr`, `MCSessionLocks`, `MCAtom`, `MCRateLimiter`, `MCBitsetWire`, `MCServerParams` | values of the constants for TLC | models |

`PROJECT.json` names, for every definition of these modules that models code,
the file and the lines it translates.  Definitions that model code which is
not in this repository (the implementation of `lock.h`, `ServerEntry`,
`server_params.cpp`) follow the design document and are marked
`spec_modelled` there.

### `MGLockMgr` and the code

* `shards[s]` is `_shards[s].map`; a target is in its domain iff the map has
  an entry for it.  `Hash` stands for `std::hash<std::string>`, of which only
  `hash % SHARD_NUM` matters; the target `""` has hash 0 as in `MGLock::lock`.
* A context is the record `[runningModes, pendingModes, runningRefCnt,
  pendingRefCnt, runningList, pendingList]`.  The 16-bit masks are sets of
  modes (bit *m* set iff *m* is in the set); the lists of `MGLock*` are
  sequences of lock identities; the list iterator an `MGLock` remembers is the
  position of that identity.
* `mgl[l]` holds `_target`, `_mode` and `_res` of `MGLock` *l*.
* `pc[l]` is where the owner thread of *l* stands: `idle`, `waiting` (inside
  `waitLock`), `locked` (`lock()` returned `OK`), `timedout` (`lock()` returned
  `TIMEOUT` and `unlock()` has not been called).
* Every `MGLockMgr` call holds the shard mutex from its first to its last
  statement, and the `MGLock` is touched only by its owner and, under that
  mutex, by the manager.  So each call is one action:

| Action | Code |
|---|---|
| `Lock(core, target, mode)` | `MGLock::lock` up to the status test, `MGLockMgr::lock`, `LockSchedCtx::lock` |
| `WaitGranted(core)` | `waitLock` returns `true` (the predicate `_res == OK` holds) |
| `WaitTimeout(core)` | `waitLock` returns `false`; `lock()` returns `TIMEOUT` |
| `Unlock(core)` | `MGLock::unlock`, `MGLockMgr::unlock`, `LockSchedCtx::unlock`, `schedPendingLocks`, erasure of the empty context |

  `Unlock` also returns the `MGLock` to its constructed state: an `ILock` owns
  its `MGLock`, locks it once and destroys it after `unlock()`; the identity is
  then free for the next request.

### `SessionLocks` and the code

`SessionLocks` instantiates `MGLockMgr` (`Mgr == INSTANCE MGLockMgr`) with the
`MGLock`s `Sessions \X (1 .. MaxLocks)` and the targets of a tree: the stores
lock (target `""`), stores, chunks, keys.  Its actions are the manager's
actions conjoined with what the session does around them:

| Action | Code or design |
|---|---|
| `Begin(s, req)` | a command arrives; `Plan` fixes the `MGLock`s it will construct: for every target, in the canonical order, the `Chain` of that lock (the intent mode of `getParentMode` on every level above, from the top, then the target itself) |
| `Acquire(s)` | the constructor of the next `ILock`: `Mgr!Lock` |
| `Granted(s)`, `TimedOut(s)` | `Mgr!WaitGranted`, `Mgr!WaitTimeout`; a timeout fails the command |
| `Finish(s)` | the command has all its locks, runs and ends |
| `Release(s)` | `~ILock` of the youngest lock: `Mgr!Unlock` |
| `Done(s)` | everything is destroyed |

`lock.h` declares the classes and nothing more: every `ILock` has
`std::unique_ptr<ILock> _parent` and `std::unique_ptr<MGLock> _mgl`, and no
constructor takes a parent.  A lock therefore brings its own chain, and a
command on two keys of one chunk asks twice for each of the three intent
locks above them.  The bodies of the constructors and destructors are not among the
sources, so every definition of the module is marked as modelled from the
design in `PROJECT.json`.  `_isRecursive` is declared and used nowhere in the
sources; the model gives it no effect.  The held-lock set of the session,
which `~KeyLock` updates before the lock is released, belongs to the session
and is not modelled.

### `Atom`, `RateLimiter` and the code

Both classes are used by several threads without a mutex, so the unit of
atomicity is one access: a relaxed load, a relaxed store, one
read-modify-write, one call of the RocksDB limiter (which locks itself).

* `Atom`: `Increment`/`Decrement` are the `fetch_add`/`fetch_sub` of
  `operator++`/`--`; `Call` enters `operator+=`, `operator=` or the move
  constructor, `LoadSelf`/`LoadOther` are their loads and
  `AddStore`/`AssignStore`/`MoveStore` their stores.  `applied[a]` is a ghost:
  the value `a` would have if every update took effect.  `T` has `Modulus`
  values and wraps.
* `RateLimiter`: `SetCheck`, `SetLimiter`, `SetField` are the three statements
  of `SetBytesPerSecond` (compare with the field, set the limiter, set the
  field); `RequestBegin` reads the single burst, `RequestChunk` is one turn of
  the loop.  `Init` is the constructor, which takes any rate, zero included.
  Of the RocksDB limiter, which is outside the sources, the model has the
  rate and `SingleBurst(rate) = rate \div Period`, the bytes of one refill
  without a lower bound: a rate below `Period` has a burst of zero.

### `BitsetCodec`, `EasyCopy`, `BitsetWire` and the code

The codecs are operators from a bitmap (the set of its set bits) to a sequence
of bytes or fields and back, written with the loops of the code as RECURSIVE
operators: the same tests, the same early returns, in the same order.  A byte
has `Radix` values, `CopyUint` writes big-endian; a text is the sequence of
its fields and a field the numbers in it, with `NaN` for what `stoul` refuses.
`MaximalRuns` is the reference definition (the maximal runs of a set) the encoders
are compared with.  `BitsetWire` sends what an encoder wrote or what a peer
forged, and the receiver decodes it; `result` keeps the message beside what
the decoder made of it, and `result.overread` counts the bytes
`bitsetDecode` read behind `max_size`.

`bitsetDecode` collects the 16-bit words behind the length (`Words`) and
hands them to `bitsetDecodeVec`, whose loop takes them two by two as pages
(position, length).  Its tests are operators of their own: `StartsBehind`
for `pos <= last_pos`, `PageFits` for the page that would leave the bitset.
`last_pos` is assigned only inside the loop that sets the bits of a page,
so a page of length 0 leaves it where it was.  `Pages` and `PagesAscend`
are the reference definition of the input the decoder must accept: pages
inside the bitset, each starting behind every bit the pages before it set.

`EasyCopy` holds the three forms of `easyCopy` as operators.  A vector or a
string is the sequence of its bytes, a position counts from 0, an element is
its object representation (`sizeof(T)` bytes; the copies never look into
them).  `PutElement` and `PutArray` are the write forms: the test of the
size, `Resized` for `resize`, `Overlay` for `std::copy`, the new position.
The array form tests `*pos + len` (elements) and resizes to
`*pos + len * sizeof(T)` (`ArrayRoom`, bytes), as the code does.
`GetElement` is the read form: `PastEnd` is its only test, the byte at
`size()` is the terminator and what lies behind it is a byte the model
chooses (`junk`).  Every operator also answers with the number of bytes its
copy touched behind the end of the buffer, which the code does not know.

In `BitsetWire` a writer starts from `EmptyBatch` (the vector of a
`MigrateBatch` after its constructor: `reserve` leaves the size 0) and
appends fields with `AddElement` and `AddArray`, one call of `easyCopy`
each.  `SendRecord` puts the first `size` bytes of the vector on the wire,
for every `size` up to its length; `ReadElement` is one call of the read
form for the next element the record was written with, and the reader goes
on whatever the call returned; `RecordDone` starts afresh.  Writer and
reader of a record work only while no bitmap is on its way, so the two
halves of the module do not multiply.

### `ServerParams` and the code

`value[p]` is `*value` of the parameter, `hook` the set of parameters whose
`Onupdate` is not null, `derived[p]` what the hook of `p` last installed in
the component that registered it, `session[c]` the `CONFIG SET` the session
is in between the store and the hook.  `Init` is the constructor of `BaseVar`
(`Onupdate(nullptr)`), `setUpdate(p)` registers a hook, at any moment of
start-up.  `Set` follows `set()` of each class: `check`, the pre-process
function, the number test of `stoll`/`stold`, the range test, the store and
the hook.  The stores convert: `IntVar` stores through `int*` (`ToInt` wraps
to `IntBits` bits), `FloatVar` and `DoubleVar` cast the `long double` of
`stold` (`Narrow` rounds to the next multiple of `Grain[class]` towards zero:
numbers are counts of the smallest step of a `long double`).  `ParseLine` is
one line of the configuration file (`startup = true`) and, like every
`set()`, calls the hook when one is registered; `ConfigSet` is `setVar` with
`startup = false`.

Two assumptions, because the code is outside the sources: hooks are
registered before the server serves sessions (`setUpdate` is an action of
start-up), and a hook reads its parameter and installs what it read in one
step (`Onupdate(c)`).

### `Server` and the code

`mainPc` is the statement `main` is at, in the order `MainSteps` gives:
arguments, `parseFile`, `daemon`, `startup`, `setupSignals`, pid file,
`waitForExit`, removal of the pid file.  `installed` is the set of signals
`sigaction` has run for; `Signal(sig)` does what the disposition of the signal
says at that moment: the default action (the process is killed), `SIG_IGN`, or
the handler `shutdown`, which asks the server to stop.  `StopComplete` is the
end of the teardown `waitForExit` waits for.  `Auth` and `Select` are the
commands of a session with their argument checks (`requirepass` set or not,
number or not, range, cluster mode).

The signals of the model are the five `setupSignals` names.  A signal it does
not name (`SIGKILL`, `SIGQUIT`, a fault) ends the process wherever `main` is,
pid file or not, and no statement of `main` has a say in it: the properties
are about the signals the code handles.  `sigaction` is called with constant,
valid signal numbers, for which it does not fail, so the `INVARIANT` on its
result has no failing branch in the model.  That `waitStopComplete` returns
only after the teardown is the design's, `ServerEntry` being outside the
sources; `WaitForExit` is the two statements of `waitForExit` under it.

## 3. Runs

Run a configuration with `tlc -workers 2 -config <cfg> <module>`.

| Run | Module, configuration | Checks | Result |
|---|---|---|---|
| `mgl_safety` | `MCMGLockMgr`, `MGLockMgrSafety.cfg` | `TypeOK`, `RunningCompatible`, `RefCountsMatchLists`, `StatusMatchesLists`, `EveryEntryHasHolder`, `WaiterServed` | holds |
| `mgl_refines_grouplock` | `MCMGLockMgr`, `MGLockMgrRefine.cfg` | `ImplementsGroupLock` | holds |
| `mgl_promote_on_release` | `MCMGLockMgr`, `MGLockMgrPromote.cfg` | `OldestWaiterConflicts` | **violated** |
| `session_lock_hierarchy` | `MCSessionLocks`, `SessionLocks.cfg` | `TypeOK`, `CoveredAccessExclusive`, `WaitCycleOnlyThroughRetakenIntent` | holds |
| `atom_single_writer` | `MCAtom`, `AtomOwned.cfg` | `TypeOK`, `OwnedAtomExact`, `OnlyStaleStoresLose` | holds |
| `atom_lost_update` | `MCAtom`, `AtomLostUpdate.cfg` | `NoLostUpdate` | **violated** |
| `bitset_round_trip` | `MCBitsetWire`, `BitsetWireRoundTrip.cfg` | `TypeOK`, `EncodersWriteMaximalRuns`, `DecodeInvertsEncode`, `ReadsAtMostTerminator`, `AcceptedPagesAscend`, `AppendStaysInside`, `RecordRoundTrip`, `OverreadStopsAtEnd` | holds |
| `bitset_text_throws` | `MCBitsetWire`, `BitsetWireThrow.cfg` | `TextDecodeReturnsStatus` | **violated** |
| `ratelimiter_request` | `MCRateLimiter`, `RateLimiterSafe.cfg` | `TypeOK` | holds |
| `ratelimiter_burst` | `MCRateLimiter`, `RateLimiterBurst.cfg` | `RequestWithinBurst` | **violated** |
| `params_config_set` | `MCServerParams`, `ServerParams.cfg` | `TypeOK`, `DerivedFollowsValue` | holds |
| `server_lifecycle` | `Server`, `Server.cfg` | `TypeOK`, `PidFileOnlyWhileAlive`, `HandlerFindsServer`, `AbruptEndOnlyBeforeHandlers`, `ShutdownCompletes` | holds |

### What the properties say

Lock manager:

* `RunningCompatible`: the requests that hold a target together are pairwise
  compatible by the design's matrix.  The code decides from the mask and its
  own conflict table; the property is stated on the lists and the matrix.
* `RefCountsMatchLists`: each per-mode count is the number of requests of that
  mode in its list, and a mode is in the mask iff its count is not zero (what
  the `INVARIANT_D`s of the reference-count functions assert).
* `StatusMatchesLists`: the result of an `MGLock` says which list it is in,
  of which target, exactly once.  This is what makes `unlock()` of a request
  that timed out and was granted afterwards remove the right entry.
* `EveryEntryHasHolder`: no target is free while requests wait, and no empty
  context stays in a map.
* `WaiterServed` (liveness): a request that waits stops waiting.
* `ImplementsGroupLock` (refinement): every behaviour of the manager is a
  behaviour of `GroupLock` under the mapping running list -> holders, pending
  list -> queue: requests are granted at once only when nobody waits, waiters
  are admitted from the head of the queue only.
* `OldestWaiterConflicts`: the design's sentence "on each release, pending
  requests are promoted in enqueue order, stopping at the first incompatible
  one" implies that the oldest waiter always conflicts with a holder.

Lock hierarchy:

* `CoveredAccessExclusive`: no session holds a lock at or below the target of
  another session's S or X lock in a conflicting mode, although the manager
  never compares requests for different targets.
* `WaitCycleOnlyThroughRetakenIntent`: in every group of sessions each of
  which waits behind another of the group (as holder or ahead in the queue),
  one session waits for an intent lock it already holds.  The canonical order
  of the keys does what the design says of it, for the locks a command
  names.  It does not reach the chains: the second `KeyLock` of a command
  asks again for the intent locks of the first, `LockSchedCtx::lock` queues
  the request behind a waiting S or X of another session, and that one waits
  for the first intent lock to go.  These wait cycles are reachable in the
  model; only a timeout ends them.
* `TypeOK` includes that a session without a command has no request left in
  the manager, whichever lock of the command timed out.

Counters, limiter, codecs:

* `OwnedAtomExact`: a counter with one writer is exact whatever other threads
  do to the counters it reads.  `OnlyStaleStoresLose` (action property): the
  only step that makes a counter inexact is the store of an `operator+=` or
  move constructor whose load another thread's write has overtaken.
  `NoLostUpdate`: every counter is exact.
* `EncodersWriteMaximalRuns`: both encoders write exactly the maximal runs in
  ascending order.  `DecodeInvertsEncode`: both decoders invert them.
  `TypeOK` of `BitsetWire` includes that no input, forged or not, sets a bit
  outside the bitset.  `ReadsAtMostTerminator`: no forged length makes
  `bitsetDecode` read more than the terminator of its string.
  `AcceptedPagesAscend`: the design asks of the decoder on the cluster bus
  that it tolerate empty runs and reject overlapping ranges.  For every
  message whose claimed length lies inside it, `bitsetDecode` answers with a
  bitmap exactly when the words are whole pages that satisfy `PagesAscend`,
  and the bitmap is the union of the pages.  So an empty page is accepted
  anywhere behind the last bit set and inside the bitset, it constrains no
  page after it, adjacent pages are accepted (input no encoder writes, since
  an encoder would have written one run), and no bit is set by two pages.
  `TextDecodeReturnsStatus`: the text decoder answers with a value or an
  error, never an exception.
* `AppendStaysInside`: a writer that appends to a fresh vector with either
  write form of `easyCopy` never copies behind the end of the vector, and
  its position is the size of the vector.  The test of the array form counts
  elements where the copy counts bytes; for a writer that only appends the
  test is true whenever the array is not empty, so the difference never
  shows.  `RecordRoundTrip`: a record that arrives whole is read back
  element by element as it was written, and the reader ends at the end of
  the string.  `OverreadStopsAtEnd`: a record that arrives cut short makes
  the reader copy from behind the string in one call at most, so at most
  `sizeof(T)` bytes; every later call returns 0.

Parameters and process:

* `DerivedFollowsValue`: when no `CONFIG SET` is between store and hook, the
  component behind every registered hook runs with the value of the
  parameter, whatever the order of the stores and hooks of the sessions was,
  and whether the hook was registered before or after the configuration file
  set the parameter.  `TypeOK` includes that a session is between store and
  hook only for a parameter that has a hook.
* `PidFileOnlyWhileAlive`: the pid file exists only while the process does.
  `HandlerFindsServer`: the handler never runs without a server.
  `AbruptEndOnlyBeforeHandlers`: main starts the server before it installs
  its handlers, so for five `sigaction` calls a served process can be ended
  by the default action of a signal, also by a SIGINT that follows a
  SIGTERM already handled.  The property bounds that window: a process
  whose server ran ends without the teardown only when it was killed before
  the last `sigaction` call; afterwards it ends behind `waitForExit` only.
  `ShutdownCompletes` (liveness): a SIGTERM or SIGINT that reached the handler
  ends the process and removes the pid file.  `TypeOK` of `Server` includes
  that the database of a session is one the server has, and 0 in cluster mode.

### Findings

* **Release does not promote while other holders remain**
  (`lock/mgl/mgl_mgr.cpp:108`, run `mgl_promote_on_release`).
  `LockSchedCtx::unlock` of a holder returns at
  `if (_runningModes != 0) return false;` before `schedPendingLocks()`.  With
  S and IS running and IX waiting, releasing S leaves IX queued although it is
  compatible with the IS that remains.  It is granted when IS leaves too, or
  gives up at its timeout.  Safety and freedom from starvation are not
  affected (`mgl_safety`); the behaviour differs from the written contract.
* **`Atom::operator+=` and the move constructor lose updates**
  (`utils/atomic_utility.h:43`, run `atom_lost_update`).  They are a relaxed
  load and a separate relaxed store; an `operator++` of another thread in
  between is overwritten.  Counters with a single writer are exact
  (`atom_single_writer`).
* **`bitsetStrDecode` throws on a single position out of range**
  (`utils/string.h:243`, run `bitset_text_throws`).  The range form tests
  `end >= size` and returns `ERR_DECODE`; the single form passes the position
  to `std::bitset::set`, which raises `std::out_of_range`.
* **`Request` asks for more than the burst after the rate was lowered**
  (`utils/rate_limiter.h:38`, run `ratelimiter_burst`).  The single burst is
  read once before the loop; the comment above the loop says a request above
  the burst must not reach the limiter.

Observations that hold up and are therefore no findings: `bitsetDecode` reads
one byte behind `max_size` when the claimed length is odd and fills the
buffer, which is the terminator of the `std::string` it is given, and it
accepts such a message when the words before it are valid; `_bytesPerSecond`
and the rate of the limiter can differ after two overlapping
`SetBytesPerSecond`, which only makes a later call with the field's value
return early; the read form of `easyCopy` accepts a position up to and
including `size()` and then copies `sizeof(T)` bytes, so the last call on a
string that is too short returns `sizeof(T)` with the terminator and up to
`sizeof(T) - 1` bytes that are not the string's (the bound of
`OverreadStopsAtEnd` is attained), and a caller that does not compare the
length first cannot tell; between `startup()` and `setupSignals()` a SIGTERM ends a
serving process without teardown.

### Bounds

Every bound is a constant of the configuration; the values are the smallest
with which the cases that matter happen.

* `mgl_safety`: three `MGLock`s, three targets on two shards (`SHARD_NUM = 2`,
  so that two targets share a map and a mutex), all four modes.  Three
  requests give a holder, a waiter behind it and a third that joins either;
  every pair of modes meets.  No symmetry, because the run checks liveness.
* `mgl_refines_grouplock`: four `MGLock`s on one target, `Locks` a symmetry
  set (the code never compares two `MGLock`s).  The `break` of
  `schedPendingLocks` only matters when a waiter stands behind a conflicting
  one while being itself compatible with the holders, which needs a fourth
  request.
* `session_lock_hierarchy`: two sessions, the tree stores - store - chunk -
  {k1, k2}, `MaxLocks = 8` (a command on both keys: two chains of four).
  Commands on one key, on both keys written in either order, on the chunk,
  the store and all stores, each in S and X.  Two sessions and two keys are
  what a wait cycle needs; one node per upper level is enough for an intent
  lock to meet an S or X.  70,325 distinct states.
* `atom_*`: two threads, a counter both write and one only the first writes,
  `Modulus = 4` (additions wrap).
* `bitset_*`: `Size = 5` bits (runs at both ends, in the middle, full and
  empty), `Radix = 3` (so that a 16-bit number has two digits that matter),
  forged binary bodies of up to `MaxBody = 8` bytes with every claimed length,
  forged texts of up to `MaxFields = 3` fields over 0, 1, 4, 5 (inside, last
  bit, size) and an unparsable number.  Records of up to `MaxRecFields = 2`
  fields, a field an element or an array of 0 to `MaxArray = 2` elements,
  elements of `RecWidths = {1, 2}` bytes with byte values `RecBytes = {1, 2}`
  (0 is what `resize` fills in, so a byte that was never written shows), cut
  at every length.  Two fields are what an append after an append needs, two
  widths what tells elements from bytes, two byte values what tells one
  position from another.  The forged bodies hold every page an attacker can
  build from three byte values: empty pages, adjacent ones, pages that
  overlap by one bit, a page that ends on the last bit and one that ends
  behind it.  360,699 distinct states.
* `ratelimiter_*`: two threads, rates 0, 1, 2, 4, 6 with `Period = 2` (bursts
  0 to 3; 1 is the positive rate with a burst of zero), requests of 0 to
  `MaxBytes = 4` bytes (more than one burst).  The initial rate is any of
  them.
* `params_config_set`: one parameter of each class, `IntBits = 3` with an int
  whose upper bound is one above the largest int, `Grain` 2 for `float` and 1
  for `double` (an input of 3 is narrowed by one class and not by the other),
  two sessions, four inputs: a number inside the bounds, one above the
  largest int, a quoted number and a word.  Hooks for the float, the bool and
  the unused parameter, registered at any moment of start-up.  158,208
  distinct states.
* `server_lifecycle`: two sessions, two passwords and none, `DbNum = 2`.

### Fairness

* `MGLockMgr!FairSpec`: weak fairness of `Unlock(core)` and
  `WaitGranted(core)` for every `MGLock`: a thread that holds a lock, or whose
  `lock()` failed, releases it (the `ILock` destructor does), and a notified
  waiter wakes up.  Nothing obliges a thread to request a lock, and no timeout
  has to expire.  The fairness of `Unlock` is written out by the definition of
  `WF` with the guard of `Unlock` as its enabling condition.
* `Server!FairSpec`: `main` executes its next statement, and a server that was
  asked to stop completes its teardown.  No signal has to arrive and no
  session has to send a command.  The process may end, so the run does not
  check for deadlock.
* `Atom`, `BitsetWire`, `RateLimiter`, `ServerParams` and `SessionLocks` are
  checked for safety only and assume no fairness.  For `RateLimiter` and
  `SessionLocks` no fairness of the threads makes every call return: a
  `Request` spins while the burst is zero, and two sessions in a wait cycle
  stay there until a timeout, which nothing obliges to expire within the
  hour it is set to.

### Sensitivity of the properties

For every property of a passing run `PROJECT.json` names, under `mutants`, a
definition of a module and a faulty form of it (defined in the module just
before it, named `<definition>_<fault>`): a dropped guard, a swapped order, an
off-by-one, a missing wake-up, a `resize` that counts elements for bytes.  With the definition replaced by the faulty
form TLC finds the property violated under the same configuration.  A
property for which no fault of the code makes a difference would say nothing
about the code.

## 4. What is not modelled

* **Cluster state, gossip, failover, migration, GC, session router, worker
  pool, index manager, scripting, compaction filter.**  The repository holds
  declarations or tests of them, not their implementation.  A module written
  from the design alone would check the design against itself.
* **`PessimisticShard`.**  Each call is one critical section and no caller is
  in the sources; the check-then-act of a caller is listed as a hazard.
* **Length-prefixed strings, hex, trim, split** and what else `string.h`
  declares: their definitions are not in the sources.  Everything the header
  defines is modelled.
* **`easyCopy` into a vector that is not fresh** (a position set by hand, a
  vector longer than the position): no caller in the sources does it, and
  the writer of the model appends only.
* **Time helpers**: each function of `time.cpp` is one reading of a clock
  and a conversion; there is no state and no step to interleave.  The
  macros of `time_record.h` wrap calls of the lock and storage layers, which
  are not in the sources, and what they measure goes to statistics and a
  log line.  The unsigned difference of two readings of the wall clock is
  listed as a hazard: a property against it would be one that fails as soon
  as the clock is set back, and nothing in the code or the design says what
  a latency is then.
* **The text side of the parameters**: the table of registered parameters,
  `show()`, include files, `rewriteConfig`'s file handling.  `show()` prints
  with `std::to_string`, six decimals for a float or a double: whether the
  file `CONFIG REWRITE` writes gives the values back at the next start-up
  depends on `server_params.cpp`, which is not in the sources.  The wrapped
  value of an `IntVar` behind a `uint32_t` is among the states of the model
  and listed as a hazard; no property is stated of it.
* **The held-lock set of a session** (`~KeyLock`: "remove lock from session
  before that lock has really been unlocked"): the session is not in the
  sources, and C++ runs `~KeyLock` before the `MGLock` of its base is
  destroyed whatever the body does.
* **Range fields of the bitmap text with a missing part** (`"5-"`, `"-5"`):
  the decoder reads `s[1]` of what `stringSplit` returns, and `stringSplit`
  is not in the sources.  Listed as a hazard.
* **Signals the process does not handle, and a failing `sigaction`**: see
  `Server` and the code.
* **Inside the lock manager**: `toString`, `getLockList`, `getShardLocks`
  read and format, one shard mutex after the other.  A reader that keeps its
  report as state beside the lock manager takes `mgl_safety` from 68,641
  distinct states to more than 19 million without an end in fifteen minutes,
  and `mgl_refines_grouplock` past 800 thousand in five; that a report over
  two shards is no snapshot is listed as a hazard without a property.
* **The store of a string parameter as more than one step.**
  `StringVar::set` assigns a `std::string` without a lock; two sessions that
  set the same parameter, or a reader beside a `CONFIG SET`, race on its
  buffer.  What such a race leaves behind is not a text, so the model takes
  the store as one step and explores the interleaving of store and hook;
  the race is listed as a hazard without a property.
* **One configuration for both lock-manager runs.**  Four requests on three
  targets, bounded to three active requests unless all four are on one
  target, with the invariants, `WaiterServed` and `ImplementsGroupLock`
  together: 136,459 distinct states after five minutes with 74,920 still on
  the queue.  The safety and liveness run and the refinement run therefore
  keep their own instances.
* **The rate limiter's two open hazards.**  Two overlapping
  `SetBytesPerSecond` that leave limiter and cached rate apart are among the
  behaviours of the model, but neither code, comment nor test says the two
  agree, so no property demands it.  A `Request` under a burst of zero
  never returns; the model has these behaviours (the constructor takes any
  rate), and whether the RocksDB limiter ever reports such a burst is not in
  the sources, so that `Request` returns is not stated as a property.
* **Three sessions** in `SessionLocks`: the run does not end within five
  minutes, safety only and with the sessions a symmetry set.  The run keeps
  two sessions, which is what a wait cycle needs.
* Assumed from their contracts, not modelled inside: `std::stoll`/`stold`/
  `stoul` (a text is a number or not), `std::atomic`, the condition variable
  of `waitLock`, `rocksdb::GenericRateLimiter`, `sigaction`, `ServerEntry`.

What is left of the sources outside the map is of these kinds: include
lines and declarations of functions defined elsewhere, the formatters
(`toString`, `lockModeRepr`, `operator<<`, `show`), the read-only members of
`Atom` and `ServerParams`, the declarations of `lock.h` and of the members
of `ServerParams`, and the components above.  The hazards `PROJECT.json`
lists without a property each carry the reason: the code that would break
the property is not in the sources, or neither code nor design says what
should hold.

## 5. Plan

Done: the lock manager with its abstract specification, the lock hierarchy
over it, the shared-memory helpers, the slot-bitmap codecs and `easyCopy`
with a record writer and reader, the parameters, the process life cycle and
the session commands present in the sources.

Open, in order:

1. `SessionLocks` against the constructors of `StoreLock`, `ChunkLock` and
   `KeyLock` once they are in the sources: whether anything reuses the
   intent locks a session holds, which would close the wait cycles through a
   retaken intent lock, and the held-lock set of the session.
2. A lock list taken during a multi-key command (`getLockList`), once the
   reader can be given a state small enough: a report of one target instead
   of the whole list.
3. `PessimisticShard` with a caller that tests and marks, if a caller enters
   the sources.
4. From the design document, when implementations are at hand: cluster epochs
   and slot ownership, failover election, the migration state machine, GC
   range generation.

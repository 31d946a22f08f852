# TLA+ models of the zapdb native codec

This directory model-checks `src/pb/types_zap.go`, the hand-written binary
encoding of zapdb's seven record types (KV, KVList, ManifestChange,
ManifestChangeSet, DataKey, Checksum, Match). The encoding is stored on disk
and sent over the wire, so every decoder runs on bytes that may be truncated
or damaged.

## The system and its parts

Each record type implements the Codec Contract of spec §4.1:
- `Size`, `Marshal` and `MarshalToSizedBuffer` encode a record;
- `Unmarshal` decodes bytes into a receiver the caller owns and may reuse;
- `Reset` zeroes the receiver.

The seven layouts (§4.2) are built from the same few parts:
- little-endian fixed-width integers;
- a 4-byte length prefix before each byte field;
- a minimum-length check at the top of `Unmarshal`;
- an `offset+n > len(data)` check before each later read.

Two types are composites. KVList and ManifestChangeSet write a count, then
each child behind a length prefix. KVList also writes a trailing `AllocRef`.
To decode, they call the child's own `Unmarshal`.

The codec's only collaborator is its caller, the storage engine. That caller
is not in this repository. Two things the caller does are modelled from the
spec (§5, §8): it decodes into receivers it reuses, and it hands a KV, after
`KV.Clone()`, to another goroutine that encodes it while the caller keeps
changing its own copy.

`src/y/metrics.go` holds process-wide expvar counters that the engine
increments. The codec does not touch them. Package `init` binds each metric
variable to the expvar registered under its `badger_` name, reusing one that
another package registered first. Afterwards every DB in the process calls
the exported `Num…Add`, `…Set` and `…Get` functions with its own `enabled`
flag.

## Modules

| Module | Models | State and operations |
|---|---|---|
| `WireFormat` | the primitives shared by every type | pure operators; see below |
| `KVCodec` | `KV.Size/Marshal/MarshalToSizedBuffer/Unmarshal/Reset` | pure operators |
| `KVListCodec` | `KVList.*` | pure operators over KVCodec |
| `ManifestCodec` | `ManifestChange.*`, `ManifestChangeSet.*` | pure operators |
| `DataKeyCodec`, `ChecksumCodec`, `MatchCodec` | those types | pure operators |
| `CodecClient` | a caller of one type's codec | the state machine |
| `MCKV`, `MCKVList`, `MCManifest`, `MCDataKey`, `MCChecksum`, `MCMatch` | instantiations | `INSTANCE CodecClient WITH` one type's operators |
| `MCFlat` | DataKey, Checksum and Match together | three `CodecClient` instances over shared variables; the caller's record picks the one that acts |
| `KVHandoff`, `MCKVHandoff` | `KV.Clone` and `KVList.Marshal` run by a writer goroutine | a heap of byte arrays, a caller and a writer |
| `AtomicEncode` | what the hand-off promises | abstract: hand over a KV, then one step that emits its encoding |
| `KVDecodeReuse`, `MCKVDecodeReuse` | `KV.Unmarshal`'s allocation, by a reader reusing its buffer and receiver | a heap of byte arrays, a receiver, kept slices |
| `Metrics`, `MCMetrics` | `src/y/metrics.go` | expvar's registry, the metric variables, the API calls |

### WireFormat

`WireFormat` turns the code's inline offset arithmetic into data. A layout is
a sequence of field descriptors `[name, kind, guarded]`. `guarded` says
whether the code checks `offset+width > len(data)` before it reads the
field's header. The first fields of each type are not guarded; they rely on
the minimum-length check.

`ReadField` is one field read, with its cases in the code's order:
1. the header check, or a panic when the header is unguarded and out of range;
2. the header read;
3. for byte fields, the `offset+n > len(data)` check;
4. `make` and `copy`.

`DecodeFields` is a whole `Unmarshal`. It makes the minimum check, then
reads fields until the first failure. Fields already read stay assigned and
later fields keep the receiver's old values, as in the code.

**Go integer semantics.** These are modelled explicitly:
- `IntBits` is the width of Go's `int` on the build, 32 or 64.
- `GoInt` is `int(Uint32(...))`. On a 32-bit build it goes negative for a
  prefix of 2^31 or more.
- `Exceeds` is `pos+n > len` with 32-bit wraparound.
- A negative or too-large `n` in `make` or in a slice expression is a `Panic`
  outcome.
- TLC's integers are 32-bit:
  - a u32 of 2^31 or more is the model value `Wide`;
  - a u64 or i64 is a pair of int32 words, so it is decoded exactly.

### Codec modules

Each codec module defines a type's field table, its empty record (`Reset`),
its minimum length, `…Marshal` and `…Unmarshal`. The composites keep their
own control flow:
- the count is read and the whole slice is allocated first;
- each child has a header check, a bounds check, and a child `Unmarshal`
  whose error is returned as is;
- `KVList` reads `AllocRef` last.

Modelling choices in the composites:
- A nil `*KV` or `*ManifestChange` is the model value `Nil`.
- The nil slots a failed decode leaves behind are represented by one `Nil`.
  Every operation treats one nil slot and many alike.
- The number of slots allocated is reported as `slots`.
- `KVList.Marshal` ignores the error returned by the child's
  `MarshalToSizedBuffer`, and the model does the same.

### CodecClient

`CodecClient` is a caller with these variables:
- `orig`: the record the caller built;
- `buf`: the buffer it holds;
- `recv`: a reused receiver;
- `recvValid`: false after a failed decode;
- `last`: the last call, with its input bytes and outcome;
- `tampers` and `decodes`: the counters that bound the state space.

Its actions:
- `Construct` builds a record;
- `MarshalRecord` marshals it into `buf`;
- `Truncate(k)` and `Corrupt(i, v)` damage the buffer, as storage or the
  network may;
- `UnmarshalBuffer` decodes into the reused receiver;
- `ResetReceiver` calls `Reset()`;
- `MarshalReceiver` re-marshals a receiver that decoded successfully. A
  receiver whose decode failed is discarded (§7).

CodecClient has no concurrency. The code is single-threaded per call and has
no shared mutable state (§5). What makes the codec hard is not the order of
steps but the space of inputs: every truncation, every corrupted byte, and
every sequence of decodes into the same receiver.

### KVHandoff

`heap` is a sequence of byte arrays; a KV's byte fields hold an index into
it, or `Nil` for a nil slice. So two KVs share a field exactly when they hold
the same index, as Go slices share a backing array.

- **The caller** (spec-modelled; the engine is not in `src/`): `Handoff`
  passes `kv.Clone()` (or `kv` itself, when `UseClone` is false) to the
  writer, and records in `handed` what the KV held at that moment. Then,
  at most `MaxMutations` times, it stores a byte into a field
  (`MutateByte`), points a field at a new array (`Reassign`) or sets
  `Version`.
- **`Clone`** (:645-672) copies each non-nil byte field to a new array, in
  the code's order, and the scalars by value.
- **The writer** runs `KVList.Marshal` of a one-entry list one statement
  group at a time, reading the struct each time as the code does:
  `WSize` (`l.Size()`, `make`, the count), `WEntry` (`kv.Size()`, the
  header, the sub-slice), `WCheck` (the `len(buf) < k.Size()` check of
  `MarshalToSizedBuffer`), `WField` (one field: `Put*` panics on a short
  slice, `copy` truncates) and `WAlloc` (`AllocRef`). `werr` keeps the child
  error `Marshal` drops.

`AtomicEncode` is the abstract specification of the hand-off. It has two
variables: `pending`, the KV handed over, and `sent`, the bytes produced.
`Hand` sets `pending`, and `Emit` sets `sent` to the `KVListMarshal` of
`pending` in one step, under weak fairness. `KVHandoff` instantiates it with
this refinement mapping:
- `pending <- handed`, the KV value at the hand-off;
- `sent <- IF wpc = "done" THEN out ELSE Nil`.

Every writer step but the last maps to a stuttering step.

### KVDecodeReuse

A reader reads each stored record into the same buffer (`Read`), decodes it
into the same `*KV` (`Decode`), and, after a successful decode, keeps slices
of its byte fields (`Retain`). The reader is modelled from §7 and §8.
`Decode` is `KV.Unmarshal` (:146-230) on this heap model:
- the scalars come from `KVUnmarshal`;
- every byte field the code assigns before it returns gets a new array
  (`make` plus `copy`), on success and on failure;
- the other fields keep their arrays.

`Assigned` finds the fields that were assigned by decoding into a receiver
that holds an impossible byte string.

### Metrics

`registry` is expvar's table from name to Var (an Int, or a Map of keys to
Ints or stored Vars); `globals` maps each metric variable to the name it was
bound to. `Foreign` is what another package registered before `init`.
- `InitMetrics` is `init()`: `BindAll` runs `initMetrics` in its order
  through `GetOrCreate`, which reuses a registered Var of the same kind,
  panics (`phase = "panicked"`) on one of the other kind, or registers a
  new one.
- `IntAdd`, `MapAdd`, `MapSet`, `MapGet` are `addInt`, `addToMap`,
  `storeToMap`, `getFromMap` reached through each exported function's
  routing table (`IntAdders`, …); each is one atomic expvar step, and a
  disabled call returns early.
- `own` is a ghost keyed by registered name: what the enabled calls of
  the exported functions named after that metric amount to. Which name a
  function is about is read off its name and the naming convention stated
  above `init()` (`FunctionMetric`), not from the code's two hops
  (function -> package variable -> name). `wantRead` is what a get should
  return from `own`.

## Properties

They are stated once, in `CodecClient`, and checked for every type:

- **TypeOK**: the variables' types. The error outcomes are only `none`,
  errBufferTooSmall, io.ErrShortBuffer and a panic. errInvalidData is never
  returned (§7).
- **RoundTrip** (§8, and unknown-enum round-trip): decoding exactly the
  encoding of the caller's record succeeds and reproduces it field by field.
  This holds even when the receiver holds whatever an earlier, possibly
  failed, decode left there.
- **TruncationSafety** (§8): every strict prefix of an encoding is rejected
  with errBufferTooSmall. It is never accepted and never a panic.
- **NoPanic** (§1, §9): no damaged buffer makes `Unmarshal` panic.
- **DecodeAllocationBounded** (§5): each slot allocated for nested records
  stands for at least 4 bytes of input.

In `KVHandoff`:
- **ImplementsAtomicEncode** (refinement, §8 deep copy): the writer's
  step-by-step `Marshal`, racing the caller, implements `AtomicEncode`.
  - Safety: when the writer is done, `out` is exactly the encoding of the
    KV as the caller held it at hand-off.
  - Liveness: a writer that has a KV gets done, and does not panic.
- **HandoffIsolated** (action property): no step changes what the writer's
  KV reads as, once handed off.
- **ChildErrorPropagates** (§7): a finished `Marshal` had no child error.

In `KVDecodeReuse`:
- **KeptStable** (§8): a slice kept from a decoded KV keeps its contents.
  This holds while the reader reads more records into the same buffer and
  decodes them, successfully or not, into the same receiver.

In `Metrics`:
- **MetricsExact**: after `init`, every `badger_` name's Var holds exactly
  what the enabled calls of the functions named after it amount to, and
  every get returns what the matching set stored. It fails if a function
  passes the wrong package variable, if `initMetrics` binds a variable to
  the wrong name or two variables to one name, or if a disabled call
  counts. Its mutant routes `NumGetsAdd` to `numPuts`.
- **InitNeverPanics**: package `init` completes whatever was registered
  first, as the comments of `getOrCreateInt`/`getOrCreateMap` say ("returns
  an existing ... or creates a new one"). It is checked only in the
  violation run `metrics_foreign_kind`. There, another package has
  registered `badger_size_bytes_lsm` as an Int, and `getOrCreateMap`'s
  unchecked type assertion (:80) panics in two steps.

## Runs

| Run | cfg | Expect | Shows |
|---|---|---|---|
| kv | MCKV.cfg | pass | KV: TypeOK, RoundTrip, TruncationSafety, NoPanic on a 64-bit build |
| kv_int32 | MCKV_Int32.cfg | violation | on a 32-bit build a prefix of `0xFF` high byte panics in `make` (types_zap.go:153-158) |
| kvlist | MCKVList.cfg | pass | the same four for KVList with a nested KV |
| kvlist_int32 | MCKVList_Int32.cfg | violation | on a 32-bit build a count with its top bit set is negative, and `make([]*KV, count)` panics (:283/:286) |
| kvlist_alloc | MCKVList_DecodeAllocationBounded.cfg | violation | a 12-byte input makes `Unmarshal` allocate `count` slots (:286) |
| manifest | MCManifest.cfg | pass | the same four for ManifestChangeSet, with unknown enum values and a negative Id |
| flat | MCFlat.cfg | pass | RoundTrip, TruncationSafety, NoPanic for DataKey, Checksum and Match, in one run over the disjoint union of their three callers |
| kv_handoff | MCKVHandoff.cfg | pass | with `Clone`, the racing writer implements `AtomicEncode`, and its KV never changes |
| kv_handoff_noclone | MCKVHandoff_NoClone.cfg | violation | without `Clone`, a KV grown between `kv.Size()` and `MarshalToSizedBuffer` gives io.ErrShortBuffer, which `Marshal` drops, returning a zeroed entry and nil (:265) |
| kv_decode_reuse | MCKVDecodeReuse.cfg | pass | kept slices survive buffer and receiver reuse, including a failed decode |
| metrics | MCMetrics.cfg | pass | with a same-kind Var registered first, every exported function reaches the metric it is named after |
| metrics_foreign_kind | MCMetrics_ForeignKind.cfg | violation | a Var of the other kind registered first makes `init` panic (:80) |

Every property of a passing run has a mutant in `PROJECT.json`: a variant
operator defined next to the real one that changes it the way a plausible bug
would. The variants are:
- a dropped header check;
- a minimum length one byte short;
- swapped field offsets;
- `AllocRef` written first;
- a bounds check using the offset from before the prefix;
- a field assigned only when non-empty;
- errInvalidData returned instead of errBufferTooSmall;
- a `Clone` that shares `Value`, drops `Meta`, or returns the pointer itself;
- an `Unmarshal` that decodes into the receiver's existing array
  (`append(k.Key[:0], ...)`) instead of a new one;
- `NumGetsAdd` passing `numPuts` to `addInt`.

TLC finds each of these violated under the run's own cfg.

### Bounds

Every bound is named in the MC modules and their cfgs:
- **`MCRecords`**: two records per type. One is the empty record; the other
  sets every field to a non-zero value, including negative 64-bit values and
  unknown enums. Both are needed to tell a field-swap or stale-receiver bug
  apart from a correct decode.
- **`MaxTamper = 1`**: one truncation (to every length) or one byte changed
  (at every position).
- **`CorruptBytes = {0, 33}`**: 0 zeroes a count or length. 33 makes a prefix
  exceed the buffer. The 32-bit run uses 255, which is a negative `int`.
- **`MaxDecodes = 2`**: two decodes, so that a second decode runs into a
  receiver filled by the first.

These bounds reach every branch of every `Unmarshal`:
- the minimum check;
- each header check;
- each content check;
- success.

For `KVHandoff`: one KV with a nil `UserMeta`, one-byte `Key`, `Value` and
`Meta`; mutations of `Value` and `Meta` by a byte store or by reassignment to
an empty or a two-byte array; `MaxMutations = 2`, so a mutation can fall
between any two writer steps, and a grow and a shrink can both happen. For
`Metrics`: one key, one stored Var, deltas ±1, `MaxCalls = 2`: two calls
reach an add followed by a get of the same map, and an enabled call after a
disabled one, for every exported function. For `KVDecodeReuse`: two stored
KVs whose `Key` and `Value` have the same lengths but different bytes, and
one read cut short at `StreamId`, so that a failed decode has already
assigned four byte fields (`Key`, `Value`, `UserMeta`, `Meta`). `MaxReads = 3` allows read, decode, keep, read
and decode again; `MaxRetains = 2`.

`MCManifest_DecodeAllocationBounded.cfg` reproduces, for
`ManifestChangeSet` (:439), the allocation defect the `kvlist_alloc` run
shows. It is not listed as a run of its own, because the code is the same
line for line.

The `kv`, `kvlist` and `manifest` runs use `IntBits = 64`. The 32-bit
conversions of a length or a count are exercised by the violation runs
`kv_int32` (:153) and `kvlist_int32` (:283).

They do not cover several damages to one buffer. A single damage already
reaches each error path, and more damage only repeats them. Runs take 3 s to
2 min each.

### Fairness

The codec runs need none: their properties are safety properties, and every
call terminates in time linear in its input.

`KVHandoff` assumes weak fairness of the writer, `WF_vars(WriterStep)`: a
runnable goroutine is eventually scheduled (Go's scheduler is preemptive) and
no writer step waits on anything. `AtomicEncode` asks for weak fairness of
`Emit`; the refinement check shows that the writer's fairness provides it. The caller gets no fairness: it need never
mutate. `Metrics` has no liveness property.

## Not modelled

- **The dispatch layer and the protobuf backend** (§4.3): not under `src/`.
  A `MarshalAppend` model could only restate §4.3's own sentence, so prefix
  preservation would hold by construction. It is left out until the code is
  available.
- **`uint32(len(x))` truncation** of fields of 4 GiB or more: out of TLC's
  reach.
- **Getters and `String`**: pure reads.
- **The order of two packages' `init`**: if zapdb's `init` runs first, the
  other package's `expvar.NewInt` panics. That code is not in this
  repository.
- **Concurrent writers to one shared counter** from another package: by
  the comment at metrics.go:117 the counters are cumulative for all stores,
  so sharing is intended and not checked.
- **`go.mod` files**: build metadata.

## Limits of the model

Everything in `src/` that changes state is an action or operator of a
module. What is left is listed under "Not modelled" with its reason. Three
further steps were considered and not taken:
- **A `SizeConsistent` property**, `len(Marshal(r)) = Size(r)`: every
  `…Marshal` model allocates `Size()` bytes and fills them. The property
  would hold by the shape of the model, and RoundTrip already fails when a
  size and an encoding disagree.
- **KVList batches of two entries**: the run takes more than nine minutes.
  It reaches no path the one-entry batch misses: entries are rebuilt on
  every decode (the receiver already holds a batch from the previous decode),
  and a failure at a later entry takes the same early return as one at the
  first. What a failed decode leaves in the receiver is not checked: §7
  says such a receiver is discarded, and `MarshalReceiver` only re-marshals
  a receiver whose decode succeeded.
- **Fields of 4 GiB or more**, for the `uint32(len(x))` truncation at :99:
  the model keeps byte fields as explicit sequences. `PutLE` does truncate
  a length to 32 bits, as the code does, but TLC cannot build a sequence
  long enough for that to matter.

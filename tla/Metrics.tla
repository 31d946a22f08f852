------------------------------ MODULE Metrics ------------------------------
(***************************************************************************)
(* The process-wide metrics of src/y/metrics.go.  Package init runs        *)
(* initMetrics once (metricsOnce.Do): each metric variable is bound to the *)
(* expvar registered under its name, reusing one already registered        *)
(* (getOrCreateInt / getOrCreateMap) and panicking in the type assertion   *)
(* when that one has the other kind.  Afterwards any goroutine of any DB   *)
(* calls the exported functions with the DB's `enabled` flag; a disabled   *)
(* call does nothing.  expvar.Int.Add and expvar.Map's operations are      *)
(* atomic, so each call is one step.                                       *)
(*                                                                         *)
(* registry is expvar's name -> Var table.  An Int is [kind |-> "int",     *)
(* val |-> n]; a Map is [kind |-> "map", val |-> key -> entry] where an    *)
(* entry is <<"int", n>> (an *expvar.Int) or <<"var", x>> (a Var stored    *)
(* with Set).                                                              *)
(***************************************************************************)
EXTENDS Integers, Sequences, FiniteSets, TLC

CONSTANTS
  Keys,        \* map keys callers use (level or file names)
  StoredVars,  \* expvar.Var values callers store (model values)
  Deltas,      \* values callers add
  MaxCalls,    \* bound on exported calls
  Foreign,     \* name -> kind of Vars another package registered first
  Nil          \* a nil pointer or nil expvar.Var

VARIABLES
  registry,  \* expvar's registry
  globals,   \* metric variable -> the registered name it points to, or Nil
  phase,     \* "pre" before package init, "ready" after, "panicked"
  own,       \* registered name -> what the exported calls meant for it amount to
  read,      \* the Var the last LSMSizeGet/VlogSizeGet returned
  wantRead,  \* what that call should return from own
  calls      \* exported calls made

vars == <<registry, globals, phase, own, read, wantRead, calls>>

-----------------------------------------------------------------------------
(* initMetrics, in its order: variable, registered name, kind.             *)
MetricTable ==
  << [var |-> "numReadsVlog",        name |-> "badger_read_num_vlog",     kind |-> "int"],
     [var |-> "numBytesReadVlog",    name |-> "badger_read_bytes_vlog",   kind |-> "int"],
     [var |-> "numWritesVlog",       name |-> "badger_write_num_vlog",    kind |-> "int"],
     [var |-> "numBytesVlogWritten", name |-> "badger_write_bytes_vlog",  kind |-> "int"],
     [var |-> "numBytesReadLSM",     name |-> "badger_read_bytes_lsm",    kind |-> "int"],
     [var |-> "numBytesWrittenToL0", name |-> "badger_write_bytes_l0",    kind |-> "int"],
     [var |-> "numBytesCompactionWritten", name |-> "badger_write_bytes_compaction", kind |-> "map"],
     [var |-> "numLSMGets",          name |-> "badger_get_num_lsm",       kind |-> "map"],
     [var |-> "numLSMBloomHits",     name |-> "badger_hit_num_lsm_bloom_filter", kind |-> "map"],
     [var |-> "numMemtableGets",     name |-> "badger_get_num_memtable",  kind |-> "int"],
     [var |-> "numGets",             name |-> "badger_get_num_user",      kind |-> "int"],
     [var |-> "numPuts",             name |-> "badger_put_num_user",      kind |-> "int"],
     [var |-> "numBytesWrittenUser", name |-> "badger_write_bytes_user",  kind |-> "int"],
     [var |-> "numGetsWithResults",  name |-> "badger_get_with_result_num_user", kind |-> "int"],
     [var |-> "numIteratorsCreated", name |-> "badger_iterator_num_user", kind |-> "int"],
     [var |-> "lsmSize",             name |-> "badger_size_bytes_lsm",    kind |-> "map"],
     [var |-> "vlogSize",            name |-> "badger_size_bytes_vlog",   kind |-> "map"],
     [var |-> "pendingWrites",       name |-> "badger_write_pending_num_memtable", kind |-> "map"],
     [var |-> "numCompactionTables", name |-> "badger_compaction_current_num_lsm", kind |-> "int"] >>

MetricVars == {MetricTable[i].var : i \in DOMAIN MetricTable}
KindOf(v) == MetricTable[CHOOSE i \in DOMAIN MetricTable : MetricTable[i].var = v].kind

\* The exported functions and the variable each passes to addInt,
\* addToMap, storeToMap or getFromMap.
IntAdders ==
  [NumIteratorsCreatedAdd |-> "numIteratorsCreated", NumGetsWithResultsAdd |-> "numGetsWithResults",
   NumReadsVlogAdd |-> "numReadsVlog", NumBytesWrittenUserAdd |-> "numBytesWrittenUser",
   NumWritesVlogAdd |-> "numWritesVlog", NumBytesReadsVlogAdd |-> "numBytesReadVlog",
   NumBytesReadsLSMAdd |-> "numBytesReadLSM", NumBytesWrittenVlogAdd |-> "numBytesVlogWritten",
   NumBytesWrittenToL0Add |-> "numBytesWrittenToL0", NumGetsAdd |-> "numGets",
   NumPutsAdd |-> "numPuts", NumMemtableGetsAdd |-> "numMemtableGets",
   NumCompactionTablesAdd |-> "numCompactionTables"]
MapAdders ==
  [NumBytesCompactionWrittenAdd |-> "numBytesCompactionWritten",
   NumLSMBloomHitsAdd |-> "numLSMBloomHits", NumLSMGetsAdd |-> "numLSMGets"]
MapSetters ==
  [LSMSizeSet |-> "lsmSize", VlogSizeSet |-> "vlogSize", PendingWritesSet |-> "pendingWrites"]
MapGetters ==
  [LSMSizeGet |-> "lsmSize", VlogSizeGet |-> "vlogSize"]

\* The registered name each exported function is about, read off the
\* function's name and the naming convention {prefix}_{operation}_
\* {granularity}_{component} stated above init().  It is independent of
\* the two hops the code takes (function -> variable -> name), so the
\* ghost `own` keyed by it tells a call routed to the wrong metric.
FunctionMetric ==
  [NumIteratorsCreatedAdd |-> "badger_iterator_num_user",
   NumGetsWithResultsAdd |-> "badger_get_with_result_num_user",
   NumReadsVlogAdd |-> "badger_read_num_vlog", NumBytesWrittenUserAdd |-> "badger_write_bytes_user",
   NumWritesVlogAdd |-> "badger_write_num_vlog", NumBytesReadsVlogAdd |-> "badger_read_bytes_vlog",
   NumBytesReadsLSMAdd |-> "badger_read_bytes_lsm", NumBytesWrittenVlogAdd |-> "badger_write_bytes_vlog",
   NumBytesWrittenToL0Add |-> "badger_write_bytes_l0", NumGetsAdd |-> "badger_get_num_user",
   NumPutsAdd |-> "badger_put_num_user", NumMemtableGetsAdd |-> "badger_get_num_memtable",
   NumCompactionTablesAdd |-> "badger_compaction_current_num_lsm",
   NumBytesCompactionWrittenAdd |-> "badger_write_bytes_compaction",
   NumLSMBloomHitsAdd |-> "badger_hit_num_lsm_bloom_filter", NumLSMGetsAdd |-> "badger_get_num_lsm",
   LSMSizeSet |-> "badger_size_bytes_lsm", VlogSizeSet |-> "badger_size_bytes_vlog",
   PendingWritesSet |-> "badger_write_pending_num_memtable",
   LSMSizeGet |-> "badger_size_bytes_lsm", VlogSizeGet |-> "badger_size_bytes_vlog"]
MetricNames == {FunctionMetric[f] : f \in DOMAIN FunctionMetric}
NameKind(n) == IF \E f \in DOMAIN IntAdders : FunctionMetric[f] = n THEN "int" ELSE "map"

NewVar(kind) == IF kind = "int" THEN [kind |-> "int", val |-> 0]
                                ELSE [kind |-> "map", val |-> [k \in {} |-> 0]]

\* expvar.Map.Add(key, delta): a missing key gets a new Int; an Int entry
\* is added to; an entry holding another Var is left alone.
MapAddTo(m, k, d) ==
  CASE k \notin DOMAIN m -> [j \in DOMAIN m \cup {k} |-> IF j = k THEN <<"int", d>> ELSE m[j]]
    [] m[k][1] = "int"   -> [m EXCEPT ![k] = <<"int", @[2] + d>>]
    [] OTHER             -> m

\* expvar.Map.Set(key, v)
MapStore(m, k, x) == [j \in DOMAIN m \cup {k} |-> IF j = k THEN <<"var", x>> ELSE m[j]]

\* expvar.Map.Get(key): nil for a missing key.
MapLoad(m, k) == IF k \in DOMAIN m THEN m[k] ELSE Nil
-----------------------------------------------------------------------------
\* Variant for validating InitNeverPanics: expvar.NewInt/NewMap without the
\* expvar.Get lookup; expvar panics on a name registered twice.
GetOrCreateNoLookup(reg, m) ==
  IF m.name \in DOMAIN reg THEN [ok |-> FALSE, reg |-> reg]
  ELSE [ok |-> TRUE, reg |-> reg @@ (m.name :> NewVar(m.kind))]

(* getOrCreateInt / getOrCreateMap for metric m: reuse the Var registered  *)
(* under m's name (the type assertion to expvar.Int panics on a Map,    *)
(* and vice versa), or register a new one.                                 *)
GetOrCreate(reg, m) ==
  CASE m.name \notin DOMAIN reg     -> [ok |-> TRUE, reg |-> reg @@ (m.name :> NewVar(m.kind))]
    [] reg[m.name].kind = m.kind   -> [ok |-> TRUE, reg |-> reg]
    [] OTHER                       -> [ok |-> FALSE, reg |-> reg]

\* initMetrics: every variable bound in order; a panic stops it.
BindAll(reg) ==
  LET RECURSIVE Bind(_, _, _)
      Bind(i, r, g) ==
        IF i > Len(MetricTable) THEN [ok |-> TRUE, reg |-> r, glob |-> g]
        ELSE LET m == MetricTable[i]
                 c == GetOrCreate(r, m)
             IN IF c.ok THEN Bind(i + 1, c.reg, [g EXCEPT ![m.var] = m.name])
                        ELSE [ok |-> FALSE, reg |-> r, glob |-> g]
  IN Bind(1, reg, [v \in MetricVars |-> Nil])

Init ==
  /\ registry = [n \in DOMAIN Foreign |-> NewVar(Foreign[n])]
  /\ globals = [v \in MetricVars |-> Nil]
  /\ phase = "pre"
  /\ own = [n \in MetricNames |-> NewVar(NameKind(n)).val]
  /\ read = Nil
  /\ wantRead = Nil
  /\ calls = 0

\* init(): metricsOnce.Do(initMetrics).
InitMetrics ==
  LET b == BindAll(registry)
  IN /\ phase = "pre"
     /\ registry' = b.reg
     /\ globals' = b.glob
     /\ phase' = IF b.ok THEN "ready" ELSE "panicked"
     /\ UNCHANGED <<own, read, wantRead, calls>>

Call ==
  /\ phase = "ready"
  /\ calls < MaxCalls
  /\ calls' = calls + 1

\* The entry of registry a metric variable points to.
Target(v) == globals[v]

\* Variant for validating MetricsExact: NumGetsAdd passing numPuts to addInt.
IntAddMisrouted(api, enabled, d) ==
  LET v == IF api = "NumGetsAdd" THEN "numPuts" ELSE IntAdders[api]
  IN /\ Call
     /\ registry' = IF enabled THEN [registry EXCEPT ![Target(v)].val = @ + d] ELSE registry
     /\ own' = IF enabled THEN [own EXCEPT ![FunctionMetric[api]] = @ + d] ELSE own
     /\ UNCHANGED <<globals, phase, read, wantRead>>

\* NumGetsAdd(enabled, val) and the other Int adders: addInt.
IntAdd(api, enabled, d) ==
  LET v == IntAdders[api]
  IN /\ Call
     /\ registry' = IF enabled THEN [registry EXCEPT ![Target(v)].val = @ + d] ELSE registry
     /\ own' = IF enabled THEN [own EXCEPT ![FunctionMetric[api]] = @ + d] ELSE own
     /\ UNCHANGED <<globals, phase, read, wantRead>>

\* NumLSMGetsAdd(enabled, key, val) and the other map adders: addToMap.
MapAdd(api, enabled, k, d) ==
  LET v == MapAdders[api]
  IN /\ Call
     /\ registry' = IF enabled THEN [registry EXCEPT ![Target(v)].val = MapAddTo(@, k, d)]
                    ELSE registry
     /\ own' = IF enabled THEN [own EXCEPT ![FunctionMetric[api]] = MapAddTo(@, k, d)] ELSE own
     /\ UNCHANGED <<globals, phase, read, wantRead>>

\* LSMSizeSet(enabled, key, val) and the other setters: storeToMap.
MapSet(api, enabled, k, x) ==
  LET v == MapSetters[api]
  IN /\ Call
     /\ registry' = IF enabled THEN [registry EXCEPT ![Target(v)].val = MapStore(@, k, x)]
                    ELSE registry
     /\ own' = IF enabled THEN [own EXCEPT ![FunctionMetric[api]] = MapStore(@, k, x)] ELSE own
     /\ UNCHANGED <<globals, phase, read, wantRead>>

\* LSMSizeGet(enabled, key), VlogSizeGet: getFromMap, nil when disabled.
MapGet(api, enabled, k) ==
  LET v == MapGetters[api]
  IN /\ Call
     /\ read' = IF enabled THEN MapLoad(registry[Target(v)].val, k) ELSE Nil
     /\ wantRead' = IF enabled THEN MapLoad(own[FunctionMetric[api]], k) ELSE Nil
     /\ UNCHANGED <<registry, globals, phase, own>>

Next ==
  \/ InitMetrics
  \/ \E api \in DOMAIN IntAdders, e \in BOOLEAN, d \in Deltas : IntAdd(api, e, d)
  \/ \E api \in DOMAIN MapAdders, e \in BOOLEAN, k \in Keys, d \in Deltas : MapAdd(api, e, k, d)
  \/ \E api \in DOMAIN MapSetters, e \in BOOLEAN, k \in Keys, x \in StoredVars : MapSet(api, e, k, x)
  \/ \E api \in DOMAIN MapGetters, e \in BOOLEAN, k \in Keys : MapGet(api, e, k)

Spec == Init /\ [][Next]_vars

-----------------------------------------------------------------------------
\* Every badger_ name reads back exactly what the enabled calls of the
\* exported functions named after it amount to: each function reaches its
\* metric through its package variable and initMetrics' binding of that
\* variable, a disabled DB's calls count nowhere, no two metrics share a
\* registered Var, and LSMSizeGet/VlogSizeGet return the Var the matching
\* setter stored.
MetricsExact ==
  phase = "ready" =>
    /\ \A n \in MetricNames : n \in DOMAIN registry /\ registry[n].val = own[n]
    /\ read = wantRead

\* Package init never panics: whatever was registered under a badger_
\* name before, getOrCreateInt/getOrCreateMap "returns an existing" Var
\* or creates one (their comments), so initMetrics completes.
InitNeverPanics == phase # "panicked"
=============================================================================

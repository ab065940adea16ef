# TLA+ models of rir's compiled-variant caching, recording and compiler infrastructure

This directory holds TLA+ models of the code under `src/`, the TLC
configurations that check them, and `PROJECT.json`. `PROJECT.json` lists the
components, runs, mutants, the map from definitions to source lines, the
findings and the hazards.

## 1. Inventory

The repository is a slice of the rir/PIR JIT for GNU R. It also has an early
C prototype of the rir interpreter (`src/rjit`). `spec.md` describes the core:
a context-keyed variant cache, an event recorder/replayer, and an interning
pool. Much of that core is only *declared* in the headers under `src/`. The
bodies live in `.cpp` files that are not part of this slice.

| Component | Source | State | Operations | Body under src/? |
|---|---|---|---|---|
| Deoptless dispatch (OSR continuation cache) | `compiler/osr.cpp`, `runtime/Code.h` (extra pool) | the Code object's extra pool; the DeoptlessDispatchTable found at its last slot (context → Function, at most N entries) | `OSR::deoptlessDispatch`, `OSR::compile`, `Code::addExtraPoolEntry` | yes (the table itself: spec 4.2) |
| Lazy native code of a Code object | `runtime/Code.h` | `lazyCodeHandle_[64]`, `nativeCode_` | `lazyCodeHandle(h)`, `nativeCode()`, `isCompiled()` | yes (`lazyCompile` is not) |
| Event recorder | `recording.h` | `recordings_index_` (hash → index), `fun_recordings_` (name, env, closure, events) | `initOrGetRecording`, `recordCompile`, `recordDeopt`, `reset`, `save` | only `reset`; the rest from spec 4.3 |
| Replayer | `recording.h`, `recording_serialization.h` | recordings loaded from the persisted list; the closures rebuilt from them | `Replay::replay`, `replaySpeculativeContext`, `CodeIndex::locate`, `Event::replay` | declarations; spec 4.4 |
| Intern pool | `utils/UUIDPool.h` | `interned`: UUID → SEXP | `intern`, `readItem`, `writeItem` | declarations; spec 4.5 |
| PIR CFG visitors | `compiler/util/visitor.h` | `cur`, `next`, `todo`, `delayed`, `done` marker | `genericRun` (Depth/Breadth/Random/Lowering, forward/backward, `processNewNodes`), `DominatorTreeVisitor::run` | yes |
| Graphviz printer | `visualization.cpp` | the `seen` set, the emitted dot text | `viz`, `vizv`, `Printer::print` for SEXP, DispatchTable, Code, Function | yes |
| rjit prototype interpreter | `rjit/src/rir/interpreter.c` | `stack_`, `istack_`, constant pool `cp_`, source pool `src_` | `push`/`pop`/`top`, `checkStackSize`, `createPool`/`grow`/`addConstant`/`addSource`, `rirEval_c` | yes (the `#ifdef HAHA` half is dead code) |
| Compiler, optimizer, PIR declarations | `compiler/compiler.h`, `ir/Optimizer.h`, `compiler/pir/pir.h`, `api.h` | none | declarations only | no |

How the components interact:

- **Interpreter and deoptless dispatch.** The interpreter calls
  `OSR::deoptlessDispatch` when a deopt could be avoided. The call finds or
  creates the table in the Code object's extra pool. It then looks the
  continuation context up. On a miss, with room left, it calls `OSR::compile`,
  which builds and deletes a private `pir::Module`.
- **The extra pool is shared state.** `getPromise`, the table and any other
  runtime attachment all append to the same extra pool.
- **Recording is a side channel.** `recordCompile` and `recordDeopt` append
  events to the log of the closure. The log is found by a content hash.
  `save` serialises the logs through the interning serialiser. `Replay`
  rebuilds the closures, injects the recorded speculative contexts into their
  feedback sites and recompiles.
- **The visitors and the printer are graph traversals.** The visitors walk
  PIR basic blocks. The printer walks the R object graph, which may have
  cycles, through its `seen` set.

What is hard:

- **State that is stale when used.** The dispatch table is looked up only in
  the *last* extra-pool slot (`osr.cpp:40-41`).
- **Ordering and loss in replay.** Deopt events name a variant by its index
  in the dispatch table.
- **Traversal under mutation.** `processNewNodes` and the delayed deopt
  branches of the Lowering order.
- **Numeric boundaries.** The 64-byte handle; the stack and pool growth of
  the prototype, with unsigned doubling and off-by-one indices.
- **Concurrency.** There is none in this code: R's evaluator is
  single-threaded, and nothing here takes a lock.

What makes each component correct:

- **Dispatch.** An exact-match hit. At most N variants per table. A context
  once compiled is not compiled again (spec scenario C). A fallback happens
  only when the table is full or the compile failed.
- **Native handle.** Distinct handles stay distinct. `isCompiled` agrees with
  `nativeCode()`.
- **Recorder.** One log per closure hash. Logs are append-only. `reset`
  clears both maps together.
- **Replayer.** A round trip reproduces the recorded (context, speculative
  list) sequence. Replaying twice is deterministic. Unresolved sites are
  skipped.
- **Intern pool.** Equal hashes give one canonical object. A reader with an
  empty pool rebuilds the same object.
- **Visitors.** Every reachable block is visited exactly once, in the
  promised order. A dominator is visited before the blocks it dominates.
- **Printer.** Every reachable node is emitted exactly once, even on cycles.
- **rjit runtime.** Stack writes stay within capacity.
  `constant(addConstant(v)) = v`. Growing a pool preserves its entries.

## 2. Plan

In order of importance:

1. **`DeoptlessDispatch`** (done). The OSR continuation cache of one Code
   object: table lookup at the last extra-pool slot, lazy table creation,
   exact-match dispatch, bounded insert, compile success or failure, and
   other users appending to the extra pool. Checked by `MCDeoptlessDispatch`.
2. **`VersionCache`** (done). The abstract specification of spec 4.1: a
   map context → variant, bounded by N, one compile per context. It is
   stated so that `DeoptlessDispatch`, with the extra pool left alone, is
   shown to refine it via `INSTANCE ... WITH` (cache = the table at the last
   slot).
3. **`Recording`** (done: recorder and replayer in one module). `reset`,
   the event data and the list conversions of
   `recording_serialization.h` from the source; `initOrGetRecording`,
   `recordCompile`, `recordDeopt`, `save` and `Replay::replay` from spec
   4.3-4.4. Checks index consistency and the round trip. Deopt events that
   name a variant by index are modelled and counted (`unresolved`), not yet
   checked by a run.
4. **Replay against `DeoptlessDispatch`** (not done). Replay compiles are a
   plain append to a fresh table; composing them with the dispatch table
   model would check the variant indices of deopt events.
5. **`InternPool`** (done, spec-modelled). Processes that share only the
   stream, with restarts between them. Checks canonical interning.
6. **`CfgVisitor`** (done, with `DominatorTreeVisitor`). `genericRun` over small CFGs as a state
   machine, for all four orders, both `processNewNodes` settings, and a
   predicate that may stop the walk or split a block. Also
   `DominatorTreeVisitor`, with dominance as a RECURSIVE/reachability
   reference definition.
7. **Lazy native code** (done, inside `VizPrinter`). `lazyCodeHandle`,
   `nativeCode`, `isCompiled`, with handles abstracted to empty or set; the
   63-character truncation is not reached.
8. **`VizPrinter`** (done). `Printer::print` as mutually RECURSIVE
   operators that thread `seen`, checked against graph reachability on
   small cyclic heaps.
9. **`RjitEval`, `RjitPool`, `RjitInterp`** (done). The prototype's stack
   with the opcodes of `rirEval_c`, and its pools, with the unsigned width
   as a constant, composed into one interpreter in which `push_` loads
   from the constant pool. Its disagreements became violation runs with
   findings.

## 3. Modules and runs

### DeoptlessDispatch (`DeoptlessDispatch.tla`, `MCDeoptlessDispatch.tla`)

**State.**

- `extraPool`: the Code's extra pool. An entry is `Other` (a promise or
  another attachment) or the index of a dispatch table.
- `tables`: every DeoptlessDispatchTable ever created, each a function
  context → Function or `NoFun`.
- `genLog`: every `OSR::compile` invocation with its outcome. A Function is
  named by its index in `genLog`.
- `result`: the context of the last dispatch and what it returned.

**Actions.**

- `DeoptlessDispatch(x)` is the whole of `osr.cpp:35-60`. It checks the last
  extra-pool entry, creates and appends a table if that entry is not one,
  then looks `x` up. This gives three disjuncts: hit; miss with the table
  full; miss with room. The last one runs `OSR::compile`, whose outcome is a
  nondeterministic `ok`, and on success inserts the result.
- `AddExtraPoolEntry` is any other runtime user of
  `Code::addExtraPoolEntry`.

The table's own `dispatch`/`full`/`insert` (`DeoptlessDispatchTable`, not
under `src/`) follow spec 4.2: exact match and capacity N.

**Bounds.** Two contexts (`x1`, `x2`) and capacity 1, so that hit, full and
compile all happen and a second context is refused. The Code object starts
with one compile-time extra-pool entry. The state constraint allows at most
4 extra-pool slots and 4 compiles. That is enough for: compile, bury the
table, compile again into a second table, and both full and failed compiles
in between.

**Runs.**

- `deoptless_dispatch` (pass) checks:
  - `DispatchExact`: a returned Function was compiled successfully, for
    exactly the context asked for.
  - `TableBound`: no table holds more than `Capacity` variants.
  - `CompiledOncePerTable`: a context is compiled successfully at most once
    per table in existence, so a recompile only ever follows the loss of a
    table.
- `deoptless_recompile` (violation) checks `NoRecompileOfCached`, spec
  scenario C. TLC finds this four-step trace:
  1. Compile `x1`. The table is appended at slot 2.
  2. Another runtime attachment is appended to the extra pool.
  3. Dispatch `x1` again. The last slot is not a table, so a new empty table
     is created.
  4. `x1` is compiled a second time.

  The first table, and every variant it holds, can no longer be reached from
  the Code object.

**Fairness.** None. Every dispatch is driven by the interpreter, and nothing
in the code makes one happen. The properties are safety properties.

### VersionCache and the refinement run (`VersionCache.tla`)

`VersionCache` is the abstract cache of spec 4.1: a map context → variant,
with actions `Hit`, `Refuse` (miss with `Capacity` contexts resident) and
`Compile` (miss with room; the Code Generator succeeds or fails, a success
is cached). `DeoptlessDispatch` instantiates it with
`cache <- ReachableTable`, the table found at the last extra-pool slot
(an empty table when there is none).

- `deoptless_refines_version_cache` (pass) checks `VersionCacheRefined`
  under `DispatchOnlySpec`, the dispatch path with no other user of the
  extra pool. Three contexts and capacity 2, so that a refusal follows two
  cached contexts. It shows that the scenario C violation above comes
  only from other appends to the extra pool, never from the dispatch
  path itself.

### CfgVisitor (`CfgVisitor.tla`, `MCCfgVisitor.tla`)

**State.** `succ` gives each block its two successor slots (`next0`,
`next1`); `deopt` the blocks ending in a `ScheduledDeopt`; every block holds
`NInstrs` instructions `<<bb, i>>`, and `failing` is the set of
instructions the predicate of `check` rejects; `cfg0` the graph when the walk
began (what `CFG` computed for a backward walk). The walk's own state is
`cur`, `todo`, `delayed` and `done` (the `IDMarker`), `visited` records
the blocks handed to the action, and `itrace` the instructions an
instruction action was handed. `conf` is the instantiation:
`ORDER`, `DIR`, `processNewNodes`, run or check, and whether the action
may split an edge.

**Actions.** `DomStep` is one iteration of the loop of
`DominatorTreeVisitor::run` (`visitor.h:361-397`): `DomApply` to `next0`
and `next1` of `cur` pushes a block `cur` dominates on `todo` and any other
on `delayedTodo`, both stacks, and marks it done; the next block is the top
of `todo`, else of `delayedTodo`. Dominance (`Dominates`) is computed from
the input graph: `a` dominates `b` when `b` is unreachable from the start
once `a` is removed. `Step` is one iteration of `while (cur)` in `genericRun`
(`visitor.h:285-309`): call the action or predicate, then `scheduleNext`
before the action (or after it with `processNewNodes`), then choose `next`
from the shortcut, `todo` or `delayed`. `Schedule` is the `schedule`
lambda: skip null and done blocks, delay deopt exits in the Lowering order,
give the first block directly to `next` when `todo` is empty, enqueue the
rest. `Enqueue` is push_back for Breadth/Lowering, push_front for Depth,
and a coin flip for Random, enumerated in `Coins`. The instruction
wrappers of `run` and `check` (`visitor.h:114-206`) are the block action
of every walk whose action does not split edges: `InstrOrder` iterates the
block forward, or through `VisitorHelpers::reverse` for a backward visitor,
`Handed` stops after the first failing instruction (`break`), and `Holds`
is the wrapper's `holds`, the block predicate `genericRun` sees.

**Runs.**

- `visitor_walks` (pass). Every CFG of three blocks (goto, branch or exit
  shapes, any start, any deopt exits, and at most one failing instruction
  among the two of each block) plus one spare block
  for splits. Five instantiations: the Random check forward and backward,
  the Lowering run, split-edge runs with and without
  `processNewNodes`, and the DominatorTreeVisitor. It checks:
  - `VisitedOnce`: no block is visited twice, on any cycle or coin flip.
  - `CheckAgreesWithReachability`: `check` returns true exactly when no
    reachable block fails.
  - `InstrCheckExact`: an instruction action is handed each instruction at
    most once, a block's instructions consecutively and in program order
    (reversed backward); a walk that returned true handed every
    instruction of every reachable block, one that returned false stopped
    right after the first failing instruction.
  - `VisitsExactlyReachable`: a run visits exactly the reachable blocks,
    of the final graph with `processNewNodes`, else of the input graph.
  - `DeoptBlocksLast`: the Lowering order visits deopt exits after every
    other block.
- `visitor_breadth_order` (pass). Every CFG of four blocks from block 1
  (by symmetry of ids), walked by the BreadthFirstVisitor and by the
  DominatorTreeVisitor. `BreadthFirstOrder`: blocks are visited in
  nondecreasing distance, despite the `next` shortcut. Three blocks are too
  few for a level-2 block to overtake a level-1 one, and too few for a
  join block to be found first from a block that does not dominate it, so
  the `delayedTodo` stack is only used here; `VisitedOnce` and
  `VisitsExactlyReachable` are checked on both walks.

**Fairness.** `WF_vars(Next)`: each loop is sequential code and keeps
running while it has a block. No liveness property is checked, because the
mutants of the scheduling would make `visited` grow without bound.

### The rjit interpreter (`RjitEval.tla`, `RjitPool.tla`, `RjitInterp.tla`)

Three modules model `src/rjit/src/rir/interpreter.c`. `RjitEval` is the
operand stack and the opcodes of `rirEval_c`. `RjitPool` is the two pools.
`RjitInterp` composes them into the interpreter: it takes each as a named
`INSTANCE` (`P`, `E`), and each of its actions moves one component and
leaves the other `UNCHANGED`.

**RjitEval state.** `stack_` as `length`, `capacity` and `buf` (the slots
below `capacity`); `frame` the running `rirEval_c` (`bp`, `stackLength`,
`numArgs`); `overflow` records a store at or beyond `capacity`, which is
undefined behaviour; `shadow` is the abstract stack of values pushed.
Actions: `PushCallerArg`; `Enter`, i.e. `checkStackSize(c->stackLength)`
with the doubling loop `NewCap` on a `W`-bit unsigned, then `bp`; one action
per implemented opcode (`PushValue`, `PushInFrame`, `PushArg`, `Force`,
`PopOp`, `Close`, `Ret`). The bytecode is abstracted to the stack effects
the compiler promises: at most `stackLength` values above `bp`, and no pop
below it.

**RjitPool state.** `pool` holds `cp_` and `src_`, each with its R vector,
length, capacity and whether its pointer is still NULL. `added` records the
values whose add completed, `last` the last add and the index it returned,
`rerror` an R error, `crashed` undefined behaviour that ended the process.
`addConstant` and `addSource` (the same code) are `Add`. When
`capacity <= length`, `grow` runs; its copy loop reads one past the old
vector, which crashes or reads garbage that the store then overwrites, and
for capacity 0 the copy's `SET_VECTOR_ELT` raises an R error. Then comes
the store at `length`, `length + 1`, and the return of the new length.

**RjitInterp.** The compiler fills the pools only between evaluations
(`Compile`, guarded by no live frame). `rirEval_c` first loads
`constant(c->src)`: through the NULL `cp_` of the zero-initialised global
this crashes (`P!Crash`), otherwise the stack is entered. `push_` pushes
`readConst(pc)`, the constant named by its operand, so a slot of the stack
may hold `R_NilValue` from a pool slot not yet set. `readImmediate` reads
one `OpcodeT` and widens it: an operand keeps its low `B` bits.

**Bounds (`MCRjitInterp.cfg`).** Two values; pools that start
zero-initialised or from `createPool` of capacity 0, 1 or 2, at most 2 adds
each (enough for two grows); `W = 3`, so the doubling wraps after a few
steps, as it does at 32 bits; stack capacities 0 (the global) and 2;
`stackLength` 1 or 2; 0 or 1 arguments; at most 3 values on the stack;
`B = 1` with operands 0, 1 and 2, so one operand is truncated. Deadlock is
not checked: a crash ends the process.

**Runs.**

- `rjit_interp` (pass, 226k states). `EntriesPreserved`: each pool holds
  exactly the completed adds, in order, across grows and R errors.
  `StackMatchesPushes`: every slot below `length` that lies in the buffer
  holds the value pushed there, constants loaded by `push_` included.
- `rjit_stack_overflow` (violation, on `RjitEval` alone). `WritesInBounds`.
  TLC: capacity 0, enter with `stackLength` 1, push. `checkStackSize` grows
  only while `length + minFree < newCap`, the inverted test. From capacity
  2 the same loop wraps `newCap` to 0 and shrinks the stack.
- `rjit_constant_roundtrip` (violation, on `RjitPool` alone).
  `ConstantRoundTrip`: `constant()` of the index `addConstant` returned
  reads the next slot (`Nil`), not the value.

### InternPool (`InternPool.tla`, `MCInternPool.tla`)

`UUIDPool.h` declares the pool and its operations; their bodies are not
under `src/`, so the module follows the header comments and spec 4.5 (every
definition is marked `spec_modelled`). `heap` is the objects of the running
process (an object's identity is its position, its value a content; two
objects may have equal contents); `interned` maps a UUID to an object;
`stream` is the file `writeItem` writes, which outlives the process;
`results` records the `(argument, result)` of every `intern` and `readItem`
of this process.

**Actions.** `Alloc` builds an object. `Intern` is `intern(e)`: hash, then
`intern(e, uuid)` returns the object interned under the hash or interns its
argument. `writeItem` appends the full structural encoding. `readItem`
builds a new object from an item, then interns it. `Restart` is the process
ending: heap, pool and results are lost, the stream is kept.

**Assumption.** `Hash` is injective on the contents (spec 3: collisions do
not occur). With a `Hash` that maps both contents to one UUID,
`InternCanonical` is violated: the pool hands back an object of the other
content.

**Bounds.** Two contents, four objects per process, three items in the
stream: enough for an object built here and one read back to meet in the
pool, before and after a restart. The run checks deadlock: `Restart` is
always possible once something was built.

**Run.** `intern_pool` (pass). `InternCanonical`: within one process, two
results are the same object exactly when their arguments have equal
content, and each result has its argument's content, whatever mix of
objects built here and items read from a stream an earlier process wrote.

### VizPrinter (`VizPrinter.tla`, `MCVizPrinter.tla`)

**State.** `heap` fixes the fields of five objects: a closure (`BODY`), a
list (its elements), a Code (its bytecode), a Function (whose body is the
Code) and a DispatchTable (its Functions). Any field may point at any of
them, so the heaps include sharing and cycles. `native` is the Code's
`lazyCodeHandle_` and `nativeCode_`. `out` holds the lines of `viz.dot`
written by the last call, abstracted to node, root fill and labelled edge
lines; `roots` and `status` record that call, and `shown` the
`isCompiled()` the printer read.

**Actions.** `VizList` is `viz` on an R list of roots, `VizOne` is
`vizOne`, and `Vizv` is `vizv`, which raises an R error past `MAX_ARGS`
roots. Each builds a new `Printer` and prints every root with
`isRoot = true`. `PrintObj`, `PrintKids` and `PrintCode` are the `print`
overloads as mutually RECURSIVE operators that thread the Printer's
`seen` set. An object's SEXP and its rir object (`Code*`, `Function*`,
`DispatchTable*`) are distinct nodes, as their pointers are.
`PrintCode` is the decoding loop with `prev` and `pprev`: `record_call_`
prints its targets, and `close_` prints the constant of the instruction
two before it. `lazyCodeHandle` and `nativeCode` (with `lazyCompile`, a
success or a failure) change what `isCompiled()` returns. A compiled Code
is printed as one native node; otherwise it is printed as its bytecode.

**Bounds.** Lists and tables of at most one element, bytecode that is
empty, a closure creation or one call with one target, at most two roots,
and `MAX_ARGS = 1`. The last is the same boundary as 16 with fewer roots.
These bounds give every kind of node a path to every other, cycles through
the closure, list and call targets, and a root reached from an earlier
root.

**Runs.**

- `viz_graph` (pass). It checks:
  - `PrintsReachableOnce`: each node reachable from the roots is declared
    exactly once, and no other node is.
  - `EdgesExact`: the edges are exactly the references of the reachable
    nodes, each written once. The body of a `close_` is the closure body.
- `viz_roots_highlighted` (violation). `RootsHighlighted`: TLC finds the
  roots `(Cod, Clo)` where the Code calls the closure. The closure is in
  `seen` before its own turn comes, and `PRINT_HEADER` returns before the
  root fill.

### Recording (`Recording.tla`, `MCRecording.tla`)

**State.** `index` is `recordings_index_` and `funRecs` is
`fun_recordings_`: recordings of a closure key, each with its events.
`feedback` is the live feedback of each closure object, and `table` holds
the contexts of its compiled versions. `snapshot` is the R list last saved.
`loaded`, `replayed` and `unresolved` are the recordings the last replay
read, its compile decisions per key, and its deopts that named no
version. `truth`, `saved` and `expected` are history variables: the
decisions taken while recording, as of now, at the save, and at the save
that was replayed.

**Actions.** `Start`, `Stop` and `Reset` are the R API. `Reset` calls
`Record::reset`. `Observe` is the interpreter changing feedback. `Compile`
adds a version; while recording, it appends a `CompilationEvent` holding a
copy of the feedback, to the recording `initOrGetRecording` finds or
creates for the key. `Deopt` appends a `DeoptEvent` with the version's
index. `Save` is `to_sexp` of the recordings. `Replay` is
`vector_from_sexp` followed by `Replay::replay`: for each recording, a
fresh closure; each compile event injects its feedback and compiles; each
deopt event names a version of the replayed table. The list templates are
instantiated for recordings, events and speculative contexts.

**Bounds.** Three closure objects, two of them the same closure (one
key); one context; two feedback values; at most two events between
resets. Two contexts do not finish in five minutes, and one context
already distinguishes feedback captured at compile time from feedback
read later.

**Runs.** `recording_roundtrip` (pass) checks:

- `IndexConsistent`: every key indexes its own recording, and every
  recording is indexed. This holds across resets and across two objects
  sharing a key.
- `RoundTrip`: a replay reproduces, per closure, the recorded compiles in
  order, each with the feedback seen at the compile.

TLC also reaches `unresolved > 0`, where a closure compiled before
`startRecordings` shifts the index of later versions. No run states this
as a property (see the hazards).

## 4. Not modelled

- **Compiler and optimizer declarations.** `compiler.h`, `Optimizer.h`,
  `pir.h` and `api.h` declare the compiler, optimizer and R API with no
  bodies. Their behaviour enters the models only as the nondeterministic
  outcome of a compile.
- **Dot formatting in `visualization.cpp`.** Labels, shapes and colours are
  layout, and the model keeps only the lines. `printString` is reachable
  only from the `CHARSXP` case, where `STRING_ELT` never yields a `STRSXP`.
  `close_` among the first two instructions dereferences a null `pprev`.
  The model has this crash, but the compiler never emits that code.
- **Recording details.** Event reasons, sites and triggers, closure names
  and environments, the Test and Values speculative contexts, file I/O and
  R serialization of closures are left out. Replay does not record, even
  when a recording session is active.
- **Hashing and R serialization under the intern pool.** `UUID` hashing and
  `WriteItem`/`ReadItem` are abstracted to a content and an injective
  `Hash`; the `ref_table` of shared references is left out.
- **The `#ifdef HAHA` half of `interpreter.c`.** It is never compiled.
- **In `rirEval_c`:** assertion failures (they end the process); `call_`
  and `promise_`, which change nothing yet; `istack_`, which is the same
  code as `stack_` and is never pushed; the byte-level decoding of
  immediates beyond `readImmediate`'s truncation (the widths of `OpcodeT`
  and `Immediate` live in `interpreter.h`, outside the sources, so
  `B` is a constant); the layout helpers of the Code objects.
- **Liveness.** Nothing here runs concurrently and every modelled operation
  is one call that returns, so the only "eventually" the code promises is
  that a visitor walk ends. It does under `WF_vars(Next)` in every explored
  graph, but no mutant of the scheduling makes a finite walk run forever
  (they make `visited` grow without bound instead), so the property is not
  checked.
- **The layout helpers of `interpreter.c`** (`code`, `src`, `function`,
  `next`, `begin`, `end`, `codeAt`). Their units depend on the `Code` and
  `Function` structs of `interpreter.h`, which is not in the sources, and
  the one use in live code (`promise_`) only computes a pointer. The
  pointer arithmetic of `function(c)` is listed as a hazard.
- **Handle lengths of `lazyCodeHandle`.** Handles are empty or set; their
  truncation at 63 characters would show only if two generated handles
  shared a 63-character prefix, and the code that generates them is not in
  the sources.

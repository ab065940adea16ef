-------------------------- MODULE DeoptlessDispatch --------------------------
(***************************************************************************)
(* The deoptless (OSR continuation) dispatch path of one rir::Code object: *)
(* OSR::deoptlessDispatch in src/rir/src/compiler/osr.cpp.                 *)
(*                                                                         *)
(* The Code object keeps runtime attachments in its extra pool             *)
(* (Code::addExtraPoolEntry / getExtraPoolEntry, runtime/Code.h).  The     *)
(* DeoptlessDispatchTable is looked up only in the LAST extra-pool slot;   *)
(* when that slot holds something else a fresh, empty table is created and *)
(* appended.  A table maps a continuation context to the Function compiled *)
(* for it, exact match only, and holds at most Capacity entries (the       *)
(* table itself is not under src/, it is modelled from spec 4.2).          *)
(*                                                                         *)
(* The Code Generator (OSR::compile) is a nondeterministic success or      *)
(* failure; every invocation is logged in genLog, and a Function is named  *)
(* by the index of the compile that produced it.                           *)
(***************************************************************************)
EXTENDS Naturals, Sequences, FiniteSets

CONSTANTS
    Ctxs,        \* continuation contexts (DeoptContext), model values
    Capacity,    \* entries a DeoptlessDispatchTable can hold
    Other,       \* an extra-pool entry that is not a dispatch table
    NoFun,       \* the nullptr Function*
    InitialPool  \* extra-pool entries the Code object was created with

ASSUME Capacity \in Nat \ {0}
ASSUME InitialPool \in Seq({Other})

VARIABLES
    extraPool,   \* the Code's extra pool: Other, or the index of a table
    tables,      \* every DeoptlessDispatchTable created: [Ctxs -> fun]
    genLog,      \* every OSR::compile invocation: [ctx, ok]
    result       \* the last deoptlessDispatch call and what it returned

vars == <<extraPool, tables, genLog, result>>

\* Mutant: create() leaves its slots uninitialised (garbage entries).
EmptyTableUninit == [x \in Ctxs |-> Other]

\* DeoptlessDispatchTable::create: a table with no entries.
EmptyTable == [x \in Ctxs |-> NoFun]

\* Mutant: full() compares with > and lets one context too many in.
FullOffByOne(tbl) == Cardinality({x \in Ctxs : tbl[x] # NoFun}) > Capacity

\* DeoptlessDispatchTable::full: no room for another context.
Full(tbl) == Cardinality({x \in Ctxs : tbl[x] # NoFun}) >= Capacity

\* Mutant: a lookup that falls back to any cached variant (subsumption
\* without checking the contexts are compatible).
TableDispatchAny(tbl, x) ==
    IF tbl[x] # NoFun \/ \A y \in Ctxs : tbl[y] = NoFun THEN tbl[x]
    ELSE tbl[CHOOSE y \in Ctxs : tbl[y] # NoFun]

\* DeoptlessDispatchTable::dispatch: exact match on the context.
TableDispatch(tbl, x) == tbl[x]

\* Mutant: the insert is lost (made on a copy of the table).
TableInsertLost(tbl, x, f) == tbl

\* DeoptlessDispatchTable::insert.
TableInsert(tbl, x, f) == [tbl EXCEPT ![x] = f]

\* Code::getExtraPoolEntry(i): VECTOR_ELT of the extra pool, 0-based; the
\* assert i < extraPoolSize is the caller's duty.
getExtraPoolEntry(pool, i) == pool[i + 1]

\* Mutant: the table is looked for in the first extra-pool slot.
FindTableFirst(pool) ==
    IF Len(pool) > 0 /\ pool[1] # Other THEN pool[1] ELSE 0

\* DeoptlessDispatchTable::check on the last extra-pool entry: the index of
\* the table found there, or 0 when the pool is empty or ends in another
\* kind of entry.
FindTable(pool) ==
    IF Len(pool) > 0 /\ getExtraPoolEntry(pool, Len(pool) - 1) # Other
    THEN getExtraPoolEntry(pool, Len(pool) - 1) ELSE 0

\* OSR::compile: a fresh pir::Module is compiled and deleted; the result is
\* the new Function on success and nullptr on failure.  `ok` is the
\* Code Generator's outcome; the Function is named by its log index.
CompileContinuation(x, ok) ==
    /\ genLog' = Append(genLog, [ctx |-> x, ok |-> ok])

\* Mutant: the compiled Function is used without checking that the
\* compile succeeded.
CompiledFunUnchecked(ok) == Len(genLog) + 1

CompiledFun(ok) == IF ok THEN Len(genLog) + 1 ELSE NoFun

Init ==
    /\ extraPool = InitialPool
    /\ tables = <<>>
    /\ genLog = <<>>
    /\ result = [ctx |-> NoFun, fun |-> NoFun]

(***************************************************************************)
(* OSR::deoptlessDispatch(closure, c, ctx): find or create the table, look *)
(* ctx up; on a miss with room, compile and insert the result if any.      *)
(***************************************************************************)
DeoptlessDispatch(x) ==
    LET found == FindTable(extraPool)
        t     == IF found # 0 THEN found ELSE Len(tables) + 1
        tbl   == IF found # 0 THEN tables[t] ELSE EmptyTable
        tabs  == IF found # 0 THEN tables ELSE Append(tables, EmptyTable)
        hit   == TableDispatch(tbl, x)
    IN  /\ extraPool' = IF found # 0 THEN extraPool ELSE Append(extraPool, t)
        /\ \/ /\ hit # NoFun
              /\ tables' = tabs
              /\ result' = [ctx |-> x, fun |-> hit]
              /\ UNCHANGED genLog
           \/ /\ hit = NoFun
              /\ Full(tbl)
              /\ tables' = tabs
              /\ result' = [ctx |-> x, fun |-> NoFun]
              /\ UNCHANGED genLog
           \/ /\ hit = NoFun
              /\ ~Full(tbl)
              /\ \E ok \in BOOLEAN :
                   /\ CompileContinuation(x, ok)
                   /\ tables' = IF ok
                                THEN [tabs EXCEPT ![t] =
                                        TableInsert(tbl, x, CompiledFun(ok))]
                                ELSE tabs
                   /\ result' = [ctx |-> x, fun |-> CompiledFun(ok)]

(***************************************************************************)
(* Code::addExtraPoolEntry by any other runtime user of the extra pool.    *)
(***************************************************************************)
AddExtraPoolEntry ==
    /\ extraPool' = Append(extraPool, Other)
    /\ UNCHANGED <<tables, genLog, result>>

Next ==
    \/ \E x \in Ctxs : DeoptlessDispatch(x)
    \/ AddExtraPoolEntry

Spec == Init /\ [][Next]_vars

\* The dispatch path alone, with no other user of the extra pool.
DispatchOnlySpec == Init /\ [][\E x \in Ctxs : DeoptlessDispatch(x)]_vars

-----------------------------------------------------------------------------
Funs == 1..Len(genLog)

TypeOK ==
    /\ extraPool \in Seq({Other} \cup (1..Len(tables)))
    /\ tables \in Seq([Ctxs -> Funs \cup {NoFun}])
    /\ genLog \in Seq([ctx : Ctxs, ok : BOOLEAN])
    /\ result \in [ctx : Ctxs \cup {NoFun}, fun : Funs \cup {NoFun}]

(* Exact match (spec 4.1, 4.2): whatever deoptlessDispatch returns was     *)
(* produced by a successful OSR::compile for exactly the context that was  *)
(* asked for, whether it came from the table or from the compile just now. *)
DispatchExact ==
    result.fun # NoFun =>
        /\ genLog[result.fun].ok
        /\ genLog[result.fun].ctx = result.ctx

(* Bounded capacity (spec 4.2): no DeoptlessDispatchTable ever holds more  *)
(* than Capacity continuation variants, however dispatches and failed      *)
(* compiles interleave.                                                    *)
TableBound ==
    \A t \in 1..Len(tables) : Cardinality({x \in Ctxs : tables[t][x] # NoFun}) <= Capacity

(* Single compile per table: a context is compiled successfully at most    *)
(* once per DeoptlessDispatchTable that exists, so a context is recompiled *)
(* only after deoptlessDispatch lost the table that cached it.             *)
CompiledOncePerTable ==
    \A x \in Ctxs :
        Cardinality({i \in Funs : genLog[i].ctx = x /\ genLog[i].ok}) <= Len(tables)

(* Scenario C of the spec: once a continuation context has been compiled   *)
(* for this Code object, dispatching it again returns the cached variant   *)
(* and never invokes the Code Generator a second time with success.        *)
NoRecompileOfCached ==
    \A x \in Ctxs :
        Cardinality({i \in Funs : genLog[i].ctx = x /\ genLog[i].ok}) <= 1

(* Refinement: the table reachable at the Code's last extra-pool slot is  *)
(* the abstract cache of spec 4.1.                                         *)
ReachableTable ==
    IF Len(extraPool) > 0 /\ extraPool[Len(extraPool)] # Other
    THEN tables[extraPool[Len(extraPool)]]
    ELSE EmptyTable

VC == INSTANCE VersionCache WITH cache <- ReachableTable

(* When no other runtime user appends to the extra pool, deoptless        *)
(* dispatch implements the VersionCache specification: hits are exact,     *)
(* the Code Generator runs only on a miss with room, a success is cached   *)
(* and nothing cached is ever dropped.                                     *)
VersionCacheRefined == VC!Spec
=============================================================================

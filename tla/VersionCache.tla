---------------------------- MODULE VersionCache ----------------------------
(***************************************************************************)
(* What a compiled-variant cache promises (spec 4.1 and 4.2): a map from   *)
(* a context to the one variant compiled for it, with at most Capacity     *)
(* resident variants, exact-match lookup, compile only on a miss with      *)
(* room, no negative caching, and no eviction.  A compile is a             *)
(* nondeterministic success or failure logged in genLog; a variant is      *)
(* named by its index in genLog.                                           *)
(***************************************************************************)
EXTENDS Naturals, Sequences, FiniteSets

CONSTANTS Ctxs, Capacity, NoFun

VARIABLES cache, genLog, result

Resident == Cardinality({x \in Ctxs : cache[x] # NoFun})

Init ==
    /\ cache = [x \in Ctxs |-> NoFun]
    /\ genLog = <<>>
    /\ result = [ctx |-> NoFun, fun |-> NoFun]

\* dispatch(context) served from the cache.
Hit(x) ==
    /\ cache[x] # NoFun
    /\ result' = [ctx |-> x, fun |-> cache[x]]
    /\ UNCHANGED <<cache, genLog>>

\* A miss on a full cache falls back to the baseline path.
Refuse(x) ==
    /\ cache[x] = NoFun
    /\ Resident >= Capacity
    /\ result' = [ctx |-> x, fun |-> NoFun]
    /\ UNCHANGED <<cache, genLog>>

\* A miss with room compiles once; success is inserted, failure is not.
Compile(x) ==
    /\ cache[x] = NoFun
    /\ Resident < Capacity
    /\ \E ok \in BOOLEAN :
         LET f == IF ok THEN Len(genLog) + 1 ELSE NoFun
         IN  /\ genLog' = Append(genLog, [ctx |-> x, ok |-> ok])
             /\ cache' = [cache EXCEPT ![x] = f]
             /\ result' = [ctx |-> x, fun |-> f]

Next == \E x \in Ctxs : Hit(x) \/ Refuse(x) \/ Compile(x)

Spec == Init /\ [][Next]_<<cache, genLog, result>>
=============================================================================

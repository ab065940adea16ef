------------------------------- MODULE RjitPool -------------------------------
(***************************************************************************)
(* The constant pool `cp_` and source pool `src_` of the rjit prototype   *)
(* interpreter (src/rjit/src/rir/interpreter.c): grow, addConstant,       *)
(* constant, addSource, source.  A pool is an R list (VECSXP) with a C    *)
(* length and capacity; R index i is element i+1 of `vec`.                *)
(*                                                                         *)
(* R semantics used: Rf_allocVector(VECSXP, n) gives n slots holding      *)
(* R_NilValue; SET_VECTOR_ELT raises an R error, a longjmp out of the     *)
(* whole call, on an index outside the vector; VECTOR_ELT does not check  *)
(* the index, so a load outside the vector is undefined: it yields a      *)
(* Garbage SEXP or the process crashes.  A Pool that is still the         *)
(* zero-initialised global has a NULL pool pointer: any access crashes.   *)
(***************************************************************************)
EXTENDS Naturals, Sequences

CONSTANTS
    Values,     \* SEXPs added, model values
    Nil,        \* R_NilValue
    Garbage,    \* what an unchecked load outside the vector yields
    InitCaps    \* capacities createPool may have been called with

Pools == {"cp", "src"}

VARIABLES
    pool,       \* [Pools -> [null, vec, length, capacity]]
    added,      \* [Pools -> the values whose add completed, in order]
    last,       \* the last completed add: [p, index, value], or NoAdd
    rerror,     \* the last add ended in an R error
    crashed     \* the process died on undefined behaviour

vars == <<pool, added, last, rerror, crashed>>

NoAdd == [p |-> "cp", index |-> 0, value |-> Nil]

\* The global `Pool cp_;` before anything is assigned to it.
ZeroPool == [null |-> TRUE, vec |-> <<>>, length |-> 0, capacity |-> 0]

\* createPool(capacity), as it would be with its missing `return result`.
CreatePool(c) ==
    [null |-> FALSE, vec |-> [i \in 1..c |-> Nil], length |-> 0, capacity |-> c]

\* Mutant: the new vector is allocated with the old capacity `tmp`.
GrowAllocOld(P) == [i \in 1..P.capacity |-> P.vec[i]]

\* Mutant: the transfer loop of grow stops one element early.
GrowCopyShort(P) ==
    [i \in 1..(2 * P.capacity) |->
        IF i < P.capacity THEN P.vec[i] ELSE IF i = P.capacity + 1 THEN Garbage ELSE Nil]

\* grow: a vector of 2*tmp Nil slots into which `for (i = 0; i <= tmp; ++i)`
\* copies the old vector and, at i = tmp, the unchecked load past its end.
GrowCopy(P) ==
    [i \in 1..(2 * P.capacity) |->
        IF i <= P.capacity THEN P.vec[i] ELSE IF i = P.capacity + 1 THEN Garbage ELSE Nil]

\* The store of SET_VECTOR_ELT(pool, length, value) and `length + 1`.
Store(P, v) ==
    [P EXCEPT !.vec = [P.vec EXCEPT ![P.length + 1] = v], !.length = P.length + 1]

\* VECTOR_ELT(pool, index) when it does not crash.
Load(p, i) ==
    IF ~pool[p].null /\ i < Len(pool[p].vec) THEN pool[p].vec[i + 1] ELSE Garbage

constant(i) == Load("cp", i)
source(i) == Load("src", i)

Init ==
    /\ pool \in [Pools -> {ZeroPool} \cup {CreatePool(c) : c \in InitCaps}]
    /\ added = [p \in Pools |-> <<>>]
    /\ last = NoAdd
    /\ rerror = FALSE
    /\ crashed = FALSE

\* The outcome of a completed add of v to pool p, now P.
Completed(p, P, v) ==
    /\ pool' = [pool EXCEPT ![p] = P]
    /\ added' = [added EXCEPT ![p] = Append(@, v)]
    /\ last' = [p |-> p, index |-> P.length, value |-> v]
    /\ rerror' = FALSE
    /\ UNCHANGED crashed

Crash ==
    /\ crashed' = TRUE
    /\ UNCHANGED <<pool, added, last, rerror>>

(***************************************************************************)
(* addConstant(value) / addSource(value) on pool p: grow when             *)
(* capacity <= length, then SET_VECTOR_ELT at length, length + 1, and     *)
(* `return length`.                                                        *)
(***************************************************************************)
Add(p, v) ==
    LET P == pool[p] IN
    /\ ~crashed
    /\ IF P.capacity <= P.length
       THEN \* grow(p): capacity = 2 * tmp, the copy, the load past the end
            \/ Crash
            \/ /\ ~P.null
               /\ IF P.capacity = 0
                  THEN \* SET_VECTOR_ELT(temp, 0, ...) on a vector of length 0
                       /\ rerror' = TRUE
                       /\ UNCHANGED <<pool, added, last, crashed>>
                  ELSE Completed(p, Store([P EXCEPT !.vec = GrowCopy(P),
                                                    !.capacity = 2 * P.capacity], v), v)
       ELSE IF P.null THEN Crash
            ELSE Completed(p, Store(P, v), v)

addConstant(v) == Add("cp", v)
addSource(v) == Add("src", v)

Next ==
    \E v \in Values : addConstant(v) \/ addSource(v)

Spec == Init /\ [][Next]_vars

-----------------------------------------------------------------------------
TypeOK ==
    /\ \A p \in Pools :
         /\ pool[p].vec \in Seq(Values \cup {Nil, Garbage})
         /\ pool[p].length <= pool[p].capacity
         /\ ~pool[p].null => Len(pool[p].vec) = pool[p].capacity
    /\ added \in [Pools -> Seq(Values)]
    /\ rerror \in BOOLEAN /\ crashed \in BOOLEAN

(* Growing never loses a constant: each pool holds, in its first `length` *)
(* slots, exactly the values whose addConstant or addSource completed, in *)
(* the order they were added, across every grow and every add that ended  *)
(* in an R error.                                                          *)
EntriesPreserved ==
    \A p \in Pools :
        /\ pool[p].length = Len(added[p])
        /\ \A i \in 1..Len(added[p]) : pool[p].vec[i] = added[p][i]

(* rirEval_c reads a constant as constant(index) with the index           *)
(* addConstant returned for it: that load gives back the value added.     *)
ConstantRoundTrip ==
    last # NoAdd =>
        (IF last.p = "cp" THEN constant(last.index) ELSE source(last.index)) = last.value
=============================================================================

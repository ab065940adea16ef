------------------------------ MODULE RjitInterp ------------------------------
(***************************************************************************)
(* The rjit prototype interpreter (src/rjit/src/rir/interpreter.c) as one *)
(* system: its constant and source pools (RjitPool) and its operand stack *)
(* (RjitEval).  The compiler fills the pools between evaluations: nothing *)
(* that rirEval_c runs adds to them.  rirEval_c loads `constant(c->src)`  *)
(* on entry, and the opcodes with an operand decode it with               *)
(* readImmediate: push_ loads the constant it names.                       *)
(*                                                                         *)
(* An OpcodeT is B bits wide (a byte, scaled down): readImmediate reads   *)
(* one OpcodeT and casts it, so an operand keeps its low B bits.  A load  *)
(* through the NULL pool of the zero-initialised cp_ crashes.             *)
(***************************************************************************)
EXTENDS Naturals, Sequences

CONSTANTS
    Values, Nil, Garbage,
    PoolCaps,   \* capacities createPool may have been called with
    W,          \* bit width of `unsigned`
    StackCaps,  \* stack_.capacity when the interpreter starts
    StackLens,  \* c->stackLength of the Code objects evaluated
    ArgCounts,  \* numArgs of the calls
    B,          \* bit width of an OpcodeT
    Imms        \* operands the compiler encodes after push_ and pusharg_

VARIABLES
    pool, added, last, rerror, crashed,         \* of RjitPool
    length, capacity, buf, frame, overflow, shadow   \* of RjitEval

poolVars == <<pool, added, last, rerror, crashed>>
stackVars == <<length, capacity, buf, frame, overflow, shadow>>
vars == <<poolVars, stackVars>>

P == INSTANCE RjitPool WITH InitCaps <- PoolCaps
\* A stack slot may hold R_NilValue: the value of a pool slot not yet set.
E == INSTANCE RjitEval WITH InitCaps <- StackCaps, Values <- Values \cup {Nil}

\* readImmediate: `(Immediate)(**pc)`, one OpcodeT widened.
readImmediate(n) == n % (2^B)

\* readConst: constant(readImmediate(pc)).
readConst(n) == P!constant(readImmediate(n))

Init == P!Init /\ E!Init

\* The compiler adds a constant or a source while no rirEval_c runs.
Compile ==
    /\ ~frame.live
    /\ P!Next
    /\ UNCHANGED stackVars

\* The runtime pushes an argument for the call it is about to make.
PushCallerArg(v) ==
    /\ ~crashed
    /\ E!PushCallerArg(v)
    /\ UNCHANGED poolVars

(***************************************************************************)
(* rirEval_c(c, env, numArgs): `call = constant(c->src)`, which crashes   *)
(* on the NULL pool, then checkStackSize and bp (RjitEval's Enter).       *)
(***************************************************************************)
rirEval_c(m, k) ==
    /\ ~crashed /\ ~frame.live /\ k <= length
    /\ \/ pool["cp"].null /\ P!Crash /\ UNCHANGED stackVars
       \/ ~pool["cp"].null /\ E!Enter(m, k) /\ UNCHANGED poolVars

\* push_: push(readConst(&pc)).
PushConst(n) ==
    /\ E!PushInFrame(readConst(n))
    /\ UNCHANGED poolVars

\* pusharg_: n = readImmediate(&pc); assert(n < numArgs); push(at(...)).
PushArg(n) ==
    /\ E!PushArg(readImmediate(n))
    /\ UNCHANGED poolVars

\* The opcodes without an operand, and ldfun_/ldvar_, whose symbol is
\* looked up in the environment: the value found is any value.
Opcode ==
    /\ \/ \E v \in Values : E!PushValue(v) \/ E!Force(v)
       \/ E!PopOp \/ E!Close \/ E!Ret
    /\ UNCHANGED poolVars

Next ==
    \/ Compile
    \/ \E v \in Values : PushCallerArg(v)
    \/ \E m \in StackLens, k \in ArgCounts : rirEval_c(m, k)
    \/ \E n \in Imms : PushConst(n) \/ PushArg(n)
    \/ Opcode

Spec == Init /\ [][Next]_vars

-----------------------------------------------------------------------------
TypeOK == P!TypeOK /\ E!TypeOK

(* The pools lose no constant across grow (RjitPool's EntriesPreserved). *)
EntriesPreserved == P!EntriesPreserved

(* The stack buffer below stack_.length holds what was pushed, constants *)
(* loaded by push_ included (RjitEval's StackMatchesPushes).              *)
StackMatchesPushes == E!StackMatchesPushes
=============================================================================

------------------------------- MODULE RjitEval -------------------------------
(***************************************************************************)
(* The operand stack of the rjit prototype interpreter and the opcodes of *)
(* rirEval_c that use it (src/rjit/src/rir/interpreter.c).                *)
(*                                                                         *)
(* The global `stack_` has push, pop, at and checkStackSize.  rirEval_c   *)
(* is entered by the runtime with numArgs arguments already on the stack; *)
(* it calls checkStackSize(c->stackLength), takes bp = stack_.length and  *)
(* runs opcodes until ret_.  The bytecode is abstracted to the stack      *)
(* effects the compiler promises: at most stackLength values above bp,    *)
(* and no pop below bp.  SEXPs are model values; the value a variable     *)
(* lookup or a forced promise yields is any value.                        *)
(*                                                                         *)
(* `newCap` is an `unsigned`, kept to W bits so that its doubling wraps   *)
(* as it does at 32.  A store at or beyond `capacity` is undefined        *)
(* behaviour: it sets `overflow` and is not kept in `buf`; a load there   *)
(* yields Garbage.                                                         *)
(***************************************************************************)
EXTENDS Naturals, Sequences

CONSTANTS
    Values,     \* SEXPs, model values
    Garbage,    \* what a load outside the buffer yields
    W,          \* bit width of `unsigned`
    InitCaps,   \* stack_.capacity when the interpreter starts
    StackLens,  \* c->stackLength of the Code objects evaluated
    ArgCounts   \* numArgs of the calls

ASSUME W \in Nat \ {0} /\ InitCaps \subseteq 0..(2^W - 1)

VARIABLES
    length, capacity,
    buf,        \* stack_.stack: [0..capacity-1 -> value]
    frame,      \* the running rirEval_c: [bp, room, nargs], or NoFrame
    overflow,   \* some push stored at or beyond capacity
    shadow      \* every value pushed and not popped, in order

vars == <<length, capacity, buf, frame, overflow, shadow>>

NoFrame == [bp |-> 0, room |-> 0, nargs |-> 0, live |-> FALSE]

\* Truncation to `unsigned`.
Unsigned(n) == n % (2^W)

\* The doubling loop of checkStackSize.
RECURSIVE NewCap(_, _)
NewCap(n, need) == IF need < n THEN NewCap(Unsigned(n * 2), need) ELSE n

\* at(index): a load from the stack buffer.
Load(i) == IF i < capacity THEN buf[i] ELSE Garbage

\* Mutant: push stores one slot too high (as top() reads).
StorePastTop(v) ==
    IF length + 1 < capacity
    THEN buf' = [buf EXCEPT ![length + 1] = v] /\ UNCHANGED overflow
    ELSE overflow' = TRUE /\ UNCHANGED buf

\* The store of push(val): stack_.stack[stack_.length] = val.
Store(v) ==
    IF length < capacity
    THEN buf' = [buf EXCEPT ![length] = v] /\ UNCHANGED overflow
    ELSE overflow' = TRUE /\ UNCHANGED buf

Init ==
    /\ capacity \in InitCaps
    /\ length = 0
    /\ buf = [i \in 0..(capacity - 1) |-> Garbage]
    /\ frame = NoFrame
    /\ overflow = FALSE
    /\ shadow = <<>>

(***************************************************************************)
(* The runtime, outside this file, pushes an argument before it calls     *)
(* rirEval_c, into room it has made on the stack.                          *)
(***************************************************************************)
PushCallerArg(v) ==
    /\ ~frame.live
    /\ length < capacity
    /\ Store(v)
    /\ length' = length + 1
    /\ shadow' = Append(shadow, v)
    /\ UNCHANGED <<capacity, frame>>

\* Mutant: checkStackSize sets the new capacity but keeps the old buffer
\* (the `stack_.stack = newStack` assignment forgotten).
EnterKeepBuffer(m, k) ==
    LET nc == NewCap(Unsigned(capacity), length + m)
    IN  /\ ~frame.live
        /\ k <= length
        /\ capacity' = nc
        /\ overflow' = (overflow \/ length > nc)
        /\ frame' = [bp |-> length, room |-> m, nargs |-> k, live |-> TRUE]
        /\ UNCHANGED <<length, shadow, buf>>

(***************************************************************************)
(* Entry of rirEval_c(c, env, numArgs): checkStackSize(c->stackLength),   *)
(* (iCheckStackSize is the same code on istack_), bp = stack_.length.     *)
(* malloc(newCap) and a memcpy of `length` elements, of which those that  *)
(* do not fit are stored past the new buffer.                              *)
(***************************************************************************)
Enter(m, k) ==
    LET nc == NewCap(Unsigned(capacity), length + m)
    IN  /\ ~frame.live
        /\ k <= length
        /\ IF nc # capacity
           THEN /\ buf' = [i \in 0..(nc - 1) |-> IF i < length THEN Load(i) ELSE Garbage]
                /\ capacity' = nc
                /\ overflow' = (overflow \/ length > nc)
           ELSE UNCHANGED <<buf, capacity, overflow>>
        /\ frame' = [bp |-> length, room |-> m, nargs |-> k, live |-> TRUE]
        /\ UNCHANGED <<length, shadow>>

\* One value pushed by the running frame, within its stackLength.
PushInFrame(v) ==
    /\ frame.live
    /\ length < frame.bp + frame.room
    /\ Store(v)
    /\ length' = length + 1
    /\ shadow' = Append(shadow, v)
    /\ UNCHANGED <<capacity, frame>>

\* pop() n times and push r, within the frame.
PopPush(n, r) ==
    /\ frame.live
    /\ length >= frame.bp + n
    /\ length' = length - n + Len(r)
    /\ length' <= frame.bp + frame.room
    /\ IF r = <<>> THEN UNCHANGED <<buf, overflow>>
       ELSE IF length - n < capacity
            THEN buf' = [buf EXCEPT ![length - n] = r[1]] /\ UNCHANGED overflow
            ELSE overflow' = TRUE /\ UNCHANGED buf
    /\ shadow' = SubSeq(shadow, 1, Len(shadow) - n) \o r
    /\ UNCHANGED <<capacity, frame>>

(* push_, ldfun_, ldvar_: push the constant or the variable's value.      *)
PushValue(v) == PushInFrame(v)

(* pusharg_ n: assert(n < numArgs); push(at(bp - numArgs + n)).           *)
PushArg(n) ==
    /\ n < frame.nargs
    /\ PushInFrame(Load(frame.bp - frame.nargs + n))

(* force_: pop a promise, push its value.                                 *)
Force(v) == PopPush(1, <<v>>)

(* pop_: pop().                                                            *)
PopOp == PopPush(1, <<>>)

(* close_: pop body and arglist; the closure is not built yet.            *)
Close == PopPush(2, <<>>)

(* ret_: return pop(); the frame ends and nothing else is popped.         *)
Ret ==
    /\ frame.live
    /\ length > frame.bp
    /\ length' = length - 1
    /\ shadow' = SubSeq(shadow, 1, Len(shadow) - 1)
    /\ frame' = NoFrame
    /\ UNCHANGED <<capacity, buf, overflow>>

Next ==
    \/ \E v \in Values : PushCallerArg(v)
    \/ \E m \in StackLens, k \in ArgCounts : Enter(m, k)
    \/ \E v \in Values : PushValue(v)
    \/ \E n \in ArgCounts : PushArg(n)
    \/ \E v \in Values : Force(v)
    \/ PopOp
    \/ Close
    \/ Ret

Spec == Init /\ [][Next]_vars

-----------------------------------------------------------------------------
TypeOK ==
    /\ length \in Nat
    /\ capacity \in 0..(2^W - 1)
    /\ buf \in [0..(capacity - 1) -> Values \cup {Garbage}]
    /\ shadow \in Seq(Values \cup {Garbage}) /\ Len(shadow) = length
    /\ frame.live => frame.nargs <= frame.bp /\ frame.bp <= length
    /\ overflow \in BOOLEAN

(* Every slot of the stack buffer below stack_.length holds the value     *)
(* pushed there, across the pushes, pops and pusharg_ loads of rirEval_c  *)
(* and the reallocation of checkStackSize.                                *)
StackMatchesPushes ==
    \A i \in 0..(length - 1) : i < capacity => buf[i] = shadow[i + 1]

(* rirEval_c relies on checkStackSize(c->stackLength): a frame that stays *)
(* within its stackLength never stores past the end of the stack buffer.  *)
WritesInBounds == ~overflow
=============================================================================

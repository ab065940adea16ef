------------------------------ MODULE VizPrinter ------------------------------
(***************************************************************************)
(* The Graphviz dump of rir objects, src/rir/src/visualization.cpp: viz, *)
(* vizOne, vizv and the Printer::print overloads for SEXP, DispatchTable, *)
(* Code and Function.                                                     *)
(*                                                                         *)
(* The heap has one object of each kind the printer distinguishes: a      *)
(* closure, a list, and EXTERNALSXPs holding a Code, a Function and a     *)
(* DispatchTable; Leaf stands for any other SEXP.  A printed node is the  *)
(* pair <<object, "s">> for print(SEXP) or <<object, "r">> for the print  *)
(* of the rir object inside it (a Code*, Function* or DispatchTable* is a *)
(* pointer distinct from its SEXP, so `seen` holds both).  The dot text   *)
(* is abstracted to its lines: a node, the fill of a root, an edge with   *)
(* its label.                                                              *)
(***************************************************************************)
EXTENDS Naturals, Sequences, FiniteSets

CONSTANTS
    Clo, Vec, Cod, Fun, Tab,  \* the objects: CLOSXP, VECSXP, Code, Function, DispatchTable
    Leaf,                     \* any other SEXP (a constant, a srcref, ...)
    MAX_ARGS,                 \* the roots vizv accepts
    MaxRoots,                 \* bound on the roots passed
    MaxElems,                 \* bound on the length of the list
    MaxEntries                \* bound on the Functions of the table

Objs == {Clo, Vec, Cod, Fun, Tab}

VARIABLES
    heap,       \* the fields of the objects: see HeapShapes
    out,        \* the lines of viz.dot written by the last call
    roots,      \* the roots of the last call
    status,     \* "idle", "done", "crash" or "error" (an R error)
    native,     \* the Code's lazyCodeHandle_ and nativeCode_
    shown       \* isCompiled() of the Code when viz last printed it

vars == <<heap, out, roots, status, native, shown>>

(***************************************************************************)
(* The lazy native code of the Code object (src/rir/src/runtime/Code.h).   *)
(* A handle is "" (the empty C string) or "h", the name the backend gave   *)
(* the native function (names, and their truncation to 63 characters, are *)
(* abstracted away); nativeCode_ is "null" or "fn".                        *)
(***************************************************************************)
\* lazyCodeHandle_[64] = "\0"; nativeCode_ as the constructor leaves it.
NoNative == [handle |-> "", fn |-> "null"]

\* isCompiled(): *lazyCodeHandle_ != '\0' && nativeCode_ != nullptr.
isCompiled == native.handle # "" /\ native.fn # "null"

\* lazyCodeHandle(h): assert(h != ""), copy at most 63 characters and the
\* terminating NUL into lazyCodeHandle_.
lazyCodeHandle ==
    /\ native' = [native EXCEPT !.handle = "h"]
    /\ UNCHANGED <<heap, out, roots, status, shown>>

\* lazyCompile() (Code.cpp): links the named function into nativeCode_, or
\* fails and leaves it null.
LazyCompile == \E f \in {"null", "fn"} : native' = [native EXCEPT !.fn = f]

\* nativeCode(): nativeCode_ if set; nullptr without a handle; otherwise
\* lazyCompile(), again on every call while it fails.
nativeCode ==
    /\ native.fn = "null"
    /\ native.handle # ""
    /\ LazyCompile
    /\ UNCHANGED <<heap, out, roots, status, shown>>

S(o) == <<o, "s">>
R(o) == <<o, "r">>

\* Bytecode: push_ with its constant, close_, record_call_ with its
\* observed callees.  `body` of close_ is the closure body the compiler
\* pushed two instructions before it; the printer does not read it.
Push(c) == [op |-> "push", c |-> c]
Close(b) == [op |-> "close", body |-> b]
RecordCall(ts) == [op |-> "record_call", targets |-> ts]

\* The sequence emitted for `function(...)`: formals, body, srcref, close_.
ClosureBlock(b) == <<Push(Leaf), Push(b), Push(Leaf), Close(b)>>

SeqsUpTo(X, n) == UNION {[1..k -> X] : k \in 0..n}

HeapShapes ==
    [body : Objs,                    \* BODY of the closure
     elems : SeqsUpTo(Objs, MaxElems), \* the list's elements
     code : {<<>>} \cup {ClosureBlock(b) : b \in Objs}
                   \cup {<<RecordCall(ts)>> : ts \in SeqsUpTo(Objs, 1)},
     entries : SeqsUpTo({Fun}, MaxEntries)]   \* the DispatchTable's Functions

Node(n) == [t |-> "node", n |-> n]
Fill(n) == [t |-> "fill", n |-> n]
Edge(a, b, l) == [t |-> "edge", a |-> a, b |-> b, l |-> l]

\* Mutant: the elements of a list are printed with the overload for rir
\* objects.
SKidsListAsRir(o) ==
    CASE o = Clo -> <<[n |-> S(heap.body), l |-> <<"body">>]>>
      [] o = Vec -> [i \in 1..Len(heap.elems) |-> [n |-> R(heap.elems[i]), l |-> <<"el", i>>]]
      [] o \in {Cod, Fun, Tab} -> <<[n |-> R(o), l |-> <<"rro">>]>>
      [] OTHER -> <<>>

\* The children print(SEXP) visits, with their labels: the body of a
\* closure, the elements of a list, the rir object of an EXTERNALSXP.
SKids(o) ==
    CASE o = Clo -> <<[n |-> S(heap.body), l |-> <<"body">>]>>
      [] o = Vec -> [i \in 1..Len(heap.elems) |-> [n |-> S(heap.elems[i]), l |-> <<"el", i>>]]
      [] o \in {Cod, Fun, Tab} -> <<[n |-> R(o), l |-> <<"rro">>]>>
      [] OTHER -> <<>>

\* print(Function*): its body Code.
FunctionKids == <<[n |-> R(Cod), l |-> <<"code">>]>>

\* print(DispatchTable*): its entries, in order.
TableKids == [i \in 1..Len(heap.entries) |-> [n |-> R(heap.entries[i]), l |-> <<"dt", i>>]]

\* The children of the rir view of an object.
RKids(o) ==
    CASE o = Fun -> FunctionKids
      [] o = Tab -> TableKids
      [] OTHER -> <<>>

\* BC::decodeShallow(pprev).immediateConst() for pprev # nullptr: the
\* constant of the instruction two before close_ (another SEXP when that
\* instruction has no constant).
\* Mutant: the instruction just before close_ is decoded.
BodyOfClosePrev(instrs, prev, pprev) ==
    IF instrs[prev].op # "push" THEN Leaf ELSE instrs[prev].c

BodyOfClose(instrs, prev, pprev) ==
    IF instrs[pprev].op # "push" THEN Leaf ELSE instrs[pprev].c

\* Mutant: `seen` keyed by the object, so a Code* counts as seen once its
\* SEXP was printed.
FirstVisitByObject(n, seen) == \A m \in seen : m[1] # n[1]

\* PRINT_HEADER: seen.insert(arg).second.
FirstVisit(n, seen) == n \notin seen

Emit(st, lines) == [st EXCEPT !.out = @ \o lines]

(***************************************************************************)
(* The printer, as mutually recursive operators threading the Printer's   *)
(* state st = [seen, out, crash].                                          *)
(***************************************************************************)
RECURSIVE PrintObj(_, _, _), PrintKids(_, _, _, _), PrintCode(_, _, _, _, _)

\* print(n, isRoot): PRINT_HEADER, then by the kind of n: the node line
\* (with the fill of a root) and the children; an uncompiled Code writes
\* its record line after the decoding loop.
PrintObj(n, isRoot, st) ==
    IF st.crash \/ ~FirstVisit(n, st.seen) THEN st
    ELSE LET st0 == [st EXCEPT !.seen = @ \cup {n}]
             st1 == Emit(st0, <<Node(n)>> \o (IF isRoot THEN <<Fill(n)>> ELSE <<>>))
         IN  IF n[2] = "s" THEN PrintKids(n, SKids(n[1]), 1, st1)
             ELSE IF n[1] = Cod
                  THEN IF isCompiled THEN st1
                       ELSE LET st2 == PrintCode(n, 1, 0, 0, st0)
                            IN  IF st2.crash THEN st2 ELSE Emit(st2, <<Node(n)>>)
             ELSE PrintKids(n, RKids(n[1]), 1, st1)

\* for each child: name = print(child); f << from -> name [label].
PrintKids(from, kids, i, st) ==
    IF i > Len(kids) \/ st.crash THEN st
    ELSE LET st1 == PrintObj(kids[i].n, FALSE, st)
         IN  PrintKids(from, kids, i + 1,
                       IF st1.crash THEN st1
                       ELSE Emit(st1, <<Edge(from, kids[i].n, kids[i].l)>>))

\* The decoding loop of print(Code*), pc an instruction index with prev and
\* pprev the two before it (0 for nullptr).
PrintCode(n, pc, prev, pprev, st) ==
    LET instrs == heap.code IN
    IF pc > Len(instrs) \/ st.crash THEN st
    ELSE LET ins == instrs[pc]
             st1 ==
               CASE ins.op = "record_call" ->
                      PrintKids(n, [j \in 1..Len(ins.targets) |->
                                      [n |-> S(ins.targets[j]), l |-> <<"oc", pc, j>>]], 1, st)
                 [] ins.op = "close" /\ pprev = 0 -> [st EXCEPT !.crash = TRUE]
                 [] ins.op = "close" ->
                      PrintKids(n, <<[n |-> S(BodyOfClose(instrs, prev, pprev)),
                                      l |-> <<"e", pc>>]>>, 1, st)
                 [] OTHER -> st
         IN  PrintCode(n, pc + 1, pc, prev, st1)

NewPrinter == [seen |-> {}, out |-> <<>>, crash |-> FALSE]

\* viz(varargs): a new Printer, print(VECTOR_ELT(varargs, i), true) for
\* every root, viz.dot rewritten.
RECURSIVE PrintRoots(_, _, _)
PrintRoots(rs, i, st) ==
    IF i > Len(rs) THEN st
    ELSE PrintRoots(rs, i + 1, PrintObj(S(rs[i]), TRUE, st))

Viz(rs) ==
    LET st == PrintRoots(rs, 1, NewPrinter)
    IN  /\ out' = st.out
        /\ roots' = rs
        /\ status' = IF st.crash THEN "crash" ELSE "done"
        /\ shown' = isCompiled
        /\ UNCHANGED <<heap, native>>

RootSeqs == SeqsUpTo(Objs, MaxRoots) \ {<<>>}

Init ==
    /\ heap \in HeapShapes
    /\ out = <<>>
    /\ roots = <<>>
    /\ status = "idle"
    /\ native = NoNative
    /\ shown = FALSE

(* viz from R with a list of roots. *)
VizList == \E rs \in RootSeqs : status # "crash" /\ Viz(rs)

(* vizOne(sexp): viz of a one-element list. *)
VizOne == \E o \in Objs : status # "crash" /\ Viz(<<o>>)

(* vizv(roots, ...): at most MAX_ARGS roots are stored in `compound`; a    *)
(* further one fails the assert, or in a release build SET_VECTOR_ELT     *)
(* raises an R error before anything is printed.                           *)
Vizv ==
    \E rs \in RootSeqs :
        /\ status # "crash"
        /\ IF Len(rs) > MAX_ARGS
           THEN status' = "error" /\ UNCHANGED <<heap, out, roots, native, shown>>
           ELSE Viz(rs)

Next == VizList \/ VizOne \/ Vizv \/ lazyCodeHandle \/ nativeCode

Spec == Init /\ [][Next]_vars

-----------------------------------------------------------------------------
Nodes == {S(o) : o \in Objs \cup {Leaf}} \cup {R(o) : o \in {Cod, Fun, Tab}}

IsLine(x) ==
    \/ x.t \in {"node", "fill"} /\ x.n \in Nodes
    \/ x.t = "edge" /\ x.a \in Nodes /\ x.b \in Nodes

TypeOK ==
    /\ heap \in HeapShapes
    /\ \A i \in 1..Len(out) : IsLine(out[i])
    /\ roots \in Seq(Objs)
    /\ status \in {"idle", "done", "crash", "error"}
    /\ native \in [handle : {"", "h"}, fn : {"null", "fn"}]
    /\ shown \in BOOLEAN

\* What each node references in the heap: what print visits, except that a
\* close_ refers to the body the compiler pushed for it.
RefKids(n) ==
    IF n = R(Cod)
    THEN IF shown THEN {}
         ELSE UNION {CASE heap.code[pc].op = "record_call" ->
                            {[n |-> S(heap.code[pc].targets[j]), l |-> <<"oc", pc, j>>] :
                                j \in 1..Len(heap.code[pc].targets)}
                       [] heap.code[pc].op = "close" ->
                            {[n |-> S(heap.code[pc].body), l |-> <<"e", pc>>]}
                       [] OTHER -> {} : pc \in 1..Len(heap.code)}
    ELSE LET ks == IF n[2] = "s" THEN SKids(n[1]) ELSE RKids(n[1])
         IN  {ks[i] : i \in 1..Len(ks)}

\* The nodes reachable from the roots through RefKids.
RECURSIVE Reach(_)
Reach(X) ==
    LET Y == X \cup UNION {{k.n : k \in RefKids(m)} : m \in X}
    IN  IF Y = X THEN X ELSE Reach(Y)

Reachable == Reach({S(roots[i]) : i \in 1..Len(roots)})

Count(line) == Cardinality({i \in 1..Len(out) : out[i] = line})

(* viz declares every node reachable from its roots exactly once, and no  *)
(* other, on any sharing or cycle of closures, lists, Code and Functions: *)
(* the Printer's `seen` set keeps the SEXP and the rir object inside it   *)
(* apart and stops the recursion on a cycle.                               *)
PrintsReachableOnce ==
    status = "done" =>
        \A n \in Nodes : Count(Node(n)) = IF n \in Reachable THEN 1 ELSE 0

(* viz writes each reference of a reachable node exactly once, to the     *)
(* object it refers to; the body edge of a close_ is found by decoding    *)
(* the instruction two before it.                                          *)
EdgesExact ==
    status = "done" =>
        {out[i] : i \in {j \in 1..Len(out) : out[j].t = "edge"}}
            = UNION {{Edge(a, k.n, k.l) : k \in RefKids(a)} : a \in Reachable}
        /\ \A i, j \in 1..Len(out) : i # j /\ out[i].t = "edge" => out[i] # out[j]

(* viz(varargs) marks every root it is given as a root (the `isRoot`     *)
(* fill), whatever the order of the roots.                                 *)
RootsHighlighted ==
    status = "done" => \A i \in 1..Len(roots) : Count(Fill(S(roots[i]))) = 1
=============================================================================

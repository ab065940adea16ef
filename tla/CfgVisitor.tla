----------------------------- MODULE CfgVisitor -----------------------------
(***************************************************************************)
(* VisitorImplementation<ORDER, DIR, IDMarker>::genericRun of             *)
(* src/rir/src/compiler/util/visitor.h: the worklist walk over PIR basic  *)
(* blocks behind Visitor, BreadthFirstVisitor, DepthFirstVisitor,         *)
(* LoweringVisitor and the backward visitors.                             *)
(*                                                                         *)
(* One step is one iteration of `while (cur)`.  A block has two successor *)
(* slots next0 and next1 (Null when absent); a block in `deopt` ends in a *)
(* ScheduledDeopt and has no successors.  In mode "check" the predicate   *)
(* fails on a block holding an instruction of `failing`, as the          *)
(* instruction wrappers of check() make it; in mode "run" the action      *)
(* returns true and, when split holds, may split one outgoing edge of the *)
(* current block by inserting a fresh block, as PIR passes do.  The       *)
(* template arguments and run's flags are the record `conf`, chosen once. *)
(***************************************************************************)
EXTENDS Naturals, SequencesExt

CONSTANTS
    Configs,          \* the instantiations of genericRun explored: records
                      \* [order, backward, pnn, mode, split], see Config
    BBs,              \* ids of the blocks of the input CFG
    Spare,            \* ids a split may allocate
    StartBBs,         \* the blocks genericRun may be called on
    NInstrs,          \* instructions per block
    Null

\* order: ORDER, or "DomTree" for DominatorTreeVisitor::run; backward: Direction::Backward (walks the precomputed
\* CFG); pnn: the processNewNodes argument of run; mode: "run" (a
\* BBAction) or "check" (a BBActionPredicate); split: whether a run
\* action may split an outgoing edge of cur.
Config == [order : {"Depth", "Breadth", "Random", "Lowering", "DomTree"},
           backward : BOOLEAN, pnn : BOOLEAN,
           mode : {"run", "check"}, split : BOOLEAN]

ASSUME Configs \subseteq Config
ASSUME \A c \in Configs : c.mode = "check" => ~c.pnn /\ ~c.split
ASSUME \A c \in Configs : c.backward => ~c.split
ASSUME \A c \in Configs : c.order = "DomTree" => ~c.backward /\ ~c.pnn /\ c.mode = "run" /\ ~c.split
ASSUME StartBBs \subseteq BBs
ASSUME BBs \cap Spare = {} /\ Null \notin BBs \cup Spare

VARIABLES
    conf,      \* the instantiation of genericRun, fixed for the walk
    succ,      \* next0/next1 of every block: <<s0, s1>>
    deopt,     \* blocks ending in a ScheduledDeopt
    failing,   \* instructions <<bb, i>> on which the predicate is false
    cfg0,      \* the graph when genericRun started (the CFG argument)
    cur, todo, delayed, done,
    visited,   \* the blocks handed to the action, in order
    running,   \* the loop has not returned yet
    returned,  \* the value genericRun returned (TRUE while running)
    itrace     \* the instructions handed to an instruction action, in order

vars == <<conf, succ, deopt, failing, cfg0, cur, todo, delayed, done, visited, running, returned, itrace>>

AllBBs == BBs \cup Spare

\* The block shapes of a PIR CFG: exit, goto, or branch to two blocks.
Shapes(S) == {<<Null, Null>>} \cup {<<a, Null>> : a \in S}
                \cup {<<a, b>> \in S \X S : a # b}

Succs(g, b) == {g[b][i] : i \in 1..2} \ {Null}

\* CFG::immediatePredecessors, in increasing id order.
Preds(g, b) == SetToSortSeq({a \in AllBBs : b \in Succs(g, a)}, <)

\* Mutant: the Breadth order pushes to the front like Depth.
EnqueueFront(q, bb, coin) ==
    IF conf.order = "Lowering" \/ (conf.order = "Random" /\ coin)
    THEN Append(q, bb) ELSE <<bb>> \o q

\* enqueue: push_back for Breadth and Lowering, push_front for Depth, and
\* a coin flip for Random.
Enqueue(q, bb, coin) ==
    IF conf.order \in {"Breadth", "Lowering"} \/ (conf.order = "Random" /\ coin)
    THEN Append(q, bb) ELSE <<bb>> \o q

\* Mutant: schedule forgets its null check.
ScheduleNullable(st, bb, coin) ==
    IF bb \in st.done THEN st
    ELSE LET st1 ==
               IF conf.order = "Lowering" /\ bb \in deopt
               THEN [st EXCEPT !.delayed = Append(@, bb)]
               ELSE IF st.next = Null /\ st.todo = <<>>
                    THEN [st EXCEPT !.next = bb]
                    ELSE [st EXCEPT !.todo = Enqueue(@, bb, coin)]
         IN  [st1 EXCEPT !.done = @ \cup {bb}]

\* Mutant: a block is scheduled without being marked done.
ScheduleUnmarked(st, bb, coin) ==
    IF bb = Null \/ bb \in st.done THEN st
    ELSE IF conf.order = "Lowering" /\ bb \in deopt
         THEN [st EXCEPT !.delayed = Append(@, bb)]
         ELSE IF st.next = Null /\ st.todo = <<>>
              THEN [st EXCEPT !.next = bb]
              ELSE [st EXCEPT !.todo = Enqueue(@, bb, coin)]

\* Mutant: deopt branches are not delayed in the Lowering order.
ScheduleNoDelay(st, bb, coin) ==
    IF bb = Null \/ bb \in st.done THEN st
    ELSE IF st.next = Null /\ st.todo = <<>>
         THEN [st EXCEPT !.next = bb, !.done = @ \cup {bb}]
         ELSE [st EXCEPT !.todo = Enqueue(@, bb, coin), !.done = @ \cup {bb}]

\* The schedule lambda: ignore null and done blocks; delay deopt branches
\* in the Lowering order; the first block found when todo is empty becomes
\* next directly, the others are enqueued; mark the block done.
Schedule(st, bb, coin) ==
    IF bb = Null \/ bb \in st.done THEN st
    ELSE LET st1 ==
               IF conf.order = "Lowering" /\ bb \in deopt
               THEN [st EXCEPT !.delayed = Append(@, bb)]
               ELSE IF st.next = Null /\ st.todo = <<>>
                    THEN [st EXCEPT !.next = bb]
                    ELSE [st EXCEPT !.todo = Enqueue(@, bb, coin)]
         IN  [st1 EXCEPT !.done = @ \cup {bb}]

RECURSIVE ScheduleAll(_, _, _, _)
ScheduleAll(st, bs, coins, i) ==
    IF i > Len(bs) THEN st
    ELSE ScheduleAll(Schedule(st, bs[i], coins[i]), bs, coins, i + 1)

\* Mutant: only the first successor (or predecessor) is scheduled.
ScheduleNextFirstOnly(st, c, g, coins) ==
    IF conf.backward THEN ScheduleAll(st, SubSeq(Preds(cfg0, c), 1, Min({1, Len(Preds(cfg0, c))})), coins, 1)
    ELSE ScheduleAll(st, <<g[c][1]>>, coins, 1)

\* scheduleNext: forward visits next0 then next1 (next1 first when
\* lowering, so that next1 becomes the fallthrough); backward visits the
\* predecessors the CFG argument recorded before the walk started.
ScheduleNext(st, c, g, coins) ==
    IF conf.backward THEN ScheduleAll(st, Preds(cfg0, c), coins, 1)
    ELSE IF conf.order = "Lowering" THEN ScheduleAll(st, <<g[c][2], g[c][1]>>, coins, 1)
    ELSE ScheduleAll(st, <<g[c][1], g[c][2]>>, coins, 1)

\* What the action may do to the graph: nothing, or split one outgoing
\* edge of c by a spare block that then jumps to the old target.
Actions(c, g) ==
    {g} \cup
    IF conf.mode = "run" /\ conf.split
    THEN {[g EXCEPT ![c][i] = f, ![f] = <<g[c][i], Null>>] :
            i \in {j \in 1..2 : g[c][j] # Null},
            f \in {s \in Spare : \A b \in AllBBs : s \notin Succs(g, b)}}
    ELSE {}

\* The block the loop continues with: next, else the front of todo, else
\* the front of delayed, else none.
PickNext(st) ==
    IF st.next # Null THEN st
    ELSE IF st.todo # <<>> THEN [st EXCEPT !.next = Head(st.todo), !.todo = Tail(@)]
    ELSE IF st.delayed # <<>> THEN [st EXCEPT !.next = Head(st.delayed), !.delayed = Tail(@)]
    ELSE st

\* The block the walk started from (code->entry for DominatorTreeVisitor).
Start == IF visited # <<>> THEN visited[1] ELSE cur

\* Blocks reachable from S in graph g without passing through a.
RECURSIVE ReachAvoiding(_, _, _)
ReachAvoiding(g, S, a) ==
    LET S1 == S \cup UNION {Succs(g, x) \ {a} : x \in S}
    IN  IF S1 = S THEN S ELSE ReachAvoiding(g, S1, a)

\* DominanceGraph::dominates(a, b) on the graph the visitor was built for:
\* every path from the entry to b passes through a.
Dominates(a, b) == a = b \/ b \notin ReachAvoiding(cfg0, {Start} \ {a}, a)

\* Mutant: a block pushed on delayedTodo is not marked done.
DomApplyUnmarked(st, c, bb) ==
    IF bb = Null \/ bb \in st.done THEN st
    ELSE IF Dominates(c, bb)
         THEN [st EXCEPT !.todo = <<bb>> \o @, !.done = @ \cup {bb}]
         ELSE [st EXCEPT !.delayed = <<bb>> \o @]

\* Mutant: a block cur does not dominate is marked but never pushed.
DomApplyDropDelayed(st, c, bb) ==
    IF bb = Null \/ bb \in st.done THEN st
    ELSE IF Dominates(c, bb)
         THEN [st EXCEPT !.todo = <<bb>> \o @, !.done = @ \cup {bb}]
         ELSE [st EXCEPT !.done = @ \cup {bb}]

\* The apply lambda of DominatorTreeVisitor::run: ignore null and done
\* blocks; push a block cur dominates on todo, any other on delayedTodo
\* (both stacks); mark it done.
DomApply(st, c, bb) ==
    IF bb = Null \/ bb \in st.done THEN st
    ELSE IF Dominates(c, bb)
         THEN [st EXCEPT !.todo = <<bb>> \o @, !.done = @ \cup {bb}]
         ELSE [st EXCEPT !.delayed = <<bb>> \o @, !.done = @ \cup {bb}]

(***************************************************************************)
(* The instruction visitors: run and check with an InstrAction or an       *)
(* InstrActionPredicate wrap it in a block action that iterates the block  *)
(* (the block forward, VisitorHelpers::reverse of it backward).  A run   *)
(* whose action splits edges is a block visitor, as is the dominator     *)
(* tree visitor.                                                           *)
(***************************************************************************)
InstrVisitor == ~conf.split /\ conf.order # "DomTree"

\* Mutant: the backward wrappers iterate the block forward.
InstrOrderForward(b) == [i \in 1..NInstrs |-> <<b, i>>]

\* The instructions of b in the order the wrapper iterates them.
InstrOrder(b) ==
    LET is == [i \in 1..NInstrs |-> <<b, i>>]
    IN  IF conf.backward THEN Reverse(is) ELSE is

\* Mutant: the wrapper sets holds = false but does not break.
HandedNoBreak(b) == InstrOrder(b)

\* The instructions the wrapper hands to the action: all of them, or up to
\* and including the first on which the predicate returns false (`break`).
Handed(b) ==
    LET is == InstrOrder(b)
        stops == {k \in 1..Len(is) : is[k] \in failing}
    IN  IF stops = {} THEN is ELSE SubSeq(is, 1, Min(stops))

\* The wrapper's `holds`: false when it met a failing instruction.
Holds(b) == \A k \in 1..Len(Handed(b)) : Handed(b)[k] \notin failing

\* The instructions a predicate may reject: at most one per block.
FailingSets ==
    {{<<b, f[b]>> : b \in {c \in BBs : f[c] # 0}} : f \in [BBs -> 0..NInstrs]}

Coins == IF conf.order = "Random" THEN [1..Cardinality(AllBBs) -> BOOLEAN]
         ELSE {[i \in 1..Cardinality(AllBBs) |-> FALSE]}

Init ==
    /\ conf \in Configs
    /\ succ \in [AllBBs -> Shapes(BBs)]
    /\ \A s \in Spare : succ[s] = <<Null, Null>>
    /\ deopt \in SUBSET {b \in BBs : succ[b] = <<Null, Null>>}
    /\ failing \in IF conf.mode = "check" THEN FailingSets ELSE {{}}
    /\ cfg0 = succ
    /\ cur \in StartBBs
    /\ todo = <<>>
    /\ delayed = <<>>
    /\ done = {cur}
    /\ visited = <<>>
    /\ running = TRUE
    /\ returned = TRUE
    /\ itrace = <<>>

(***************************************************************************)
(* One iteration of the genericRun loop.                                   *)
(***************************************************************************)
Step ==
    /\ running
    /\ conf.order # "DomTree"
    /\ \E coins \in Coins :
        LET st0 == [next |-> Null, todo |-> todo, delayed |-> delayed, done |-> done]
            st1 == IF conf.pnn THEN st0 ELSE ScheduleNext(st0, cur, succ, coins)
        IN  /\ visited' = Append(visited, cur)
            /\ itrace' = IF InstrVisitor THEN itrace \o Handed(cur) ELSE itrace
            /\ IF ~Holds(cur)
               THEN /\ running' = FALSE
                    /\ returned' = FALSE
                    /\ UNCHANGED <<succ, cur, todo, delayed, done>>
               ELSE \E g \in Actions(cur, succ) :
                      LET st2 == IF conf.pnn THEN ScheduleNext(st1, cur, g, coins) ELSE st1
                          st3 == PickNext(st2)
                      IN  /\ succ' = g
                          /\ cur' = st3.next
                          /\ todo' = st3.todo
                          /\ delayed' = st3.delayed
                          /\ done' = st3.done
                          /\ running' = (st3.next # Null)
                          /\ returned' = TRUE
    /\ UNCHANGED <<conf, deopt, failing, cfg0>>

(***************************************************************************)
(* One iteration of the loop of DominatorTreeVisitor::run: apply to next0 *)
(* and next1 of cur, action(cur), then the top of todo, else the top of   *)
(* delayedTodo.  The action does not change the graph.                     *)
(***************************************************************************)
DomStep ==
    /\ running
    /\ conf.order = "DomTree"
    /\ LET st0 == [next |-> Null, todo |-> todo, delayed |-> delayed, done |-> done]
           st1 == PickNext(DomApply(DomApply(st0, cur, succ[cur][1]), cur, succ[cur][2]))
       IN  /\ visited' = Append(visited, cur)
           /\ cur' = st1.next
           /\ todo' = st1.todo
           /\ delayed' = st1.delayed
           /\ done' = st1.done
           /\ running' = (st1.next # Null)
    /\ UNCHANGED <<conf, succ, deopt, failing, cfg0, returned, itrace>>

Next == Step \/ DomStep

Spec == Init /\ [][Next]_vars /\ WF_vars(Next)

-----------------------------------------------------------------------------

\* Blocks reachable from b in graph g, following successors (or
\* predecessors for a backward walk); b itself included.
RECURSIVE Reach(_, _)
Reach(g, S) ==
    LET S1 == S \cup UNION {IF conf.backward THEN {a \in AllBBs : x \in Succs(g, a)}
                            ELSE Succs(g, x) : x \in S}
    IN  IF S1 = S THEN S ELSE Reach(g, S1)

\* Blocks at most n forward edges away from Start in the input graph.
RECURSIVE Within(_)
Within(n) ==
    IF n = 0 THEN {Start}
    ELSE Within(n - 1) \cup UNION {Succs(cfg0, x) : x \in Within(n - 1)}

\* Length of the shortest path from Start to b in the input graph.
Dist(b) == CHOOSE k \in 0..Cardinality(AllBBs) :
              b \in Within(k) /\ (k = 0 \/ b \notin Within(k - 1))

TypeOK ==
    /\ conf \in Configs
    /\ succ \in [AllBBs -> Shapes(AllBBs)]
    /\ running => cur \in AllBBs
    /\ todo \in Seq(AllBBs) /\ delayed \in Seq(AllBBs)
    /\ done \subseteq AllBBs
    /\ visited \in Seq(AllBBs)
    /\ running \in BOOLEAN /\ returned \in BOOLEAN
    /\ itrace \in Seq(AllBBs \X (1..NInstrs))

(* The IDMarker makes the walk visit no block twice, whatever the cycles  *)
(* of the graph and the coin flips of the Random order.                   *)
VisitedOnce ==
    \A i, j \in 1..Len(visited) : i < j => visited[i] # visited[j]

(* check() returns true exactly when the predicate holds on every block   *)
(* reachable from the start block, and false as soon as it meets one on   *)
(* which it fails.                                                         *)
CheckAgreesWithReachability ==
    conf.mode = "check" /\ ~running =>
        (returned <=> \A b \in Reach(cfg0, {Start}) : \A i \in 1..NInstrs : <<b, i>> \notin failing)

(* check() and run() with an instruction action: each instruction is     *)
(* handed at most once; a block's instructions are handed consecutively,  *)
(* from its first (its last for a backward visitor) in program order; a  *)
(* walk that returned true handed every instruction of every reachable    *)
(* block and none failed; one that returned false stopped right after the *)
(* first failing instruction it handed.                                   *)
InstrCheckExact ==
    LET n == Len(itrace)
        step == IF conf.backward THEN -1 ELSE 1
        first == IF conf.backward THEN NInstrs ELSE 1
    IN  InstrVisitor =>
        /\ \A k, l \in 1..n : k < l => itrace[k] # itrace[l]
        /\ \A k \in 1..n :
              IF k > 1 /\ itrace[k - 1][1] = itrace[k][1]
              THEN itrace[k][2] = itrace[k - 1][2] + step
              ELSE itrace[k][2] = first
        /\ ~running /\ returned =>
              /\ ToSet(itrace) = Reach(cfg0, {Start}) \X (1..NInstrs)
              /\ ToSet(itrace) \cap failing = {}
        /\ ~running /\ ~returned =>
              /\ itrace[n] \in failing
              /\ \A k \in 1..n - 1 : itrace[k] \notin failing

(* A completed run hands the action exactly the reachable blocks: those   *)
(* of the final graph when processNewNodes schedules after the action,    *)
(* those of the input graph otherwise (blocks added by the action are     *)
(* then never visited).                                                    *)
VisitsExactlyReachable ==
    ~running /\ returned =>
        ToSet(visited) = Reach(IF conf.pnn THEN succ ELSE cfg0, {Start})

(* The Breadth order visits blocks in nondecreasing distance from the     *)
(* start block, despite the `next` shortcut that bypasses todo.           *)
BreadthFirstOrder ==
    conf.order = "Breadth" =>
    \A i \in 1..Len(visited) - 1 : Dist(visited[i]) <= Dist(visited[i + 1])

(* The Lowering order visits every block ending in a ScheduledDeopt after *)
(* all other reachable blocks, so deopt branches are emitted last.        *)
DeoptBlocksLast ==
    conf.order = "Lowering" =>
    \A i, j \in 1..Len(visited) : i < j /\ visited[i] \in deopt => visited[j] \in deopt

=============================================================================

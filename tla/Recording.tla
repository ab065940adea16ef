------------------------------- MODULE Recording -------------------------------
(***************************************************************************)
(* The event recorder and replayer of rir (src/rir/src/recording.h,       *)
(* src/rir/src/recording_serialization.h).  A Record keeps                *)
(* recordings_index_, from a closure's key to an index, and               *)
(* fun_recordings_, the FunRecordings in the order they were created,     *)
(* each with its ordered events.  recordCompile appends a                 *)
(* CompilationEvent holding the context and a SpeculativeContext copied   *)
(* from the closure's live feedback; recordDeopt appends a DeoptEvent     *)
(* naming the variant by its index in the closure's dispatch table.       *)
(* saveRecordings turns the recordings into R lists (to_sexp),            *)
(* replayRecordings reads them back (vector_from_sexp) and re-drives the  *)
(* compiler with the recorded contexts and feedback.                      *)
(*                                                                         *)
(* The bodies of initOrGetRecording, recordCompile, recordDeopt, save and *)
(* Replay::replay are not part of the sources: they are modelled from the *)
(* specification (sections 4.3, 4.4, 5).  A closure's key is its content  *)
(* hash: Key maps the closure objects to it, and two objects may share a  *)
(* key.  Feedback and contexts are model values.                          *)
(***************************************************************************)
EXTENDS Naturals, Sequences, FiniteSets, TLC

CONSTANTS
    Closures,   \* closure objects the evaluator compiles
    Key(_),     \* the key of a closure's recording (its content hash)
    Ctxs,       \* dispatch contexts
    FbVals,     \* values of a call site's feedback (observed callees)
    Nil,        \* R_NilValue, what an R list slot holds before it is set
    MaxEvents   \* bound on the events recorded between two resets

Keys == {Key(c) : c \in Closures}

VARIABLES
    recording,  \* isRecordings()
    index,      \* recordings_index_: a function from some keys to indices
    funRecs,    \* fun_recordings_: a sequence of [key, events]
    feedback,   \* the live feedback of each closure's call site
    table,      \* the contexts of each closure's compiled versions, in order
    truth,      \* the compile decisions taken while recording, per key
    snapshot,   \* {the R list last saved}, or {} before any save
    saved,      \* truth when the snapshot was saved
    loaded,     \* the FunRecordings the last replay read back
    replayed,   \* per key, the compile decisions of the last replay
    expected,   \* `saved` of the snapshot the last replay read
    unresolved  \* deopts of the last replay naming no replayed version

vars == <<recording, index, funRecs, feedback, table, truth, snapshot, saved,
          loaded, replayed, expected, unresolved>>

NoTruth == [k \in Keys |-> <<>>]

-----------------------------------------------------------------------------
(* The data of recording.h. *)

\* SpeculativeContext(callees): the Callees variant, copied by value.
SpeculativeContext(v) == [type |-> "Callees", value |-> v]

\* CompilationEvent(dispatch_context, speculative_contexts).
CompilationEvent(ctx, specs) ==
    [kind |-> "compile", dispatch_context |-> ctx, speculative_contexts |-> specs]

\* DeoptEvent(functionIdx, ...): the reason, site and trigger are left out.
DeoptEvent(idx) == [kind |-> "deopt", functionIdx |-> idx]

\* Mutant: the serialized closure is not stored in the new recording.
FunRecordingNoClosure(k) == [closure |-> Nil, events |-> <<>>]

\* A FunRecording with no events yet; `closure` is the serialized closure,
\* abstracted to its key (name and env are left out).
FunRecording(k) == [closure |-> k, events |-> <<>>]

\* Mutant: only the recordings are cleared, the index is kept.
ResetKeepIndex ==
    /\ funRecs' = <<>>
    /\ UNCHANGED index

\* Record::reset(): recordings_index_.clear(); fun_recordings_.clear().
reset ==
    /\ index' = <<>>
    /\ funRecs' = <<>>

(***************************************************************************)
(* Serialization.  The templates of recording_serialization.h are         *)
(* instantiated for T in {"fun", "event", "spec"}; the element            *)
(* conversions (serialization.cpp is not part of the sources) give an R   *)
(* list with a class attribute for each event and context.                *)
(***************************************************************************)
NoFun == [closure |-> Nil, events |-> <<>>]
NoEvent == [kind |-> "none"]
NoSpec == SpeculativeContext(Nil)

\* A value-initialised T, as std::vector<T>(length) holds before the loop.
ValueInit(t) == CASE t = "fun" -> NoFun [] t = "event" -> NoEvent [] OTHER -> NoSpec

RECURSIVE ToSexpVec(_, _), VectorFromSexp(_, _), ElemToSexp(_, _), ElemFromSexp(_, _)

\* to_sexp(const std::vector<T>&): Rf_allocVector(VECSXP, size) and
\* SET_VECTOR_ELT(vec, i, to_sexp(obj[i])) for every i.
ToSexpVec(obj, t) ==
    [i \in 1..Len(obj) |-> ElemToSexp(t, obj[i])]

\* Mutant: the loop of vector_from_sexp starts at 1, element 0 stays the
\* value-initialised T.
VectorFromSexpFromOne(sexp, t) ==
    [i \in 1..Len(sexp) |-> IF i = 1 THEN ValueInit(t) ELSE ElemFromSexp(t, sexp[i])]

\* vector_from_sexp<T, element_from_sexp>: std::vector<T>(Rf_length(sexp))
\* and vec[i] = element_from_sexp(VECTOR_ELT(sexp, i)) for every i.
VectorFromSexp(sexp, t) ==
    [i \in 1..Len(sexp) |-> ElemFromSexp(t, sexp[i])]

\* to_sexp of a FunRecording, an Event or a SpeculativeContext.
ElemToSexp(t, x) ==
    CASE t = "spec" -> [class |-> "ctx_callees", value |-> x.value]
      [] t = "event" /\ x.kind = "compile" ->
            [class |-> "event_compile", ctx |-> x.dispatch_context,
             specs |-> ToSexpVec(x.speculative_contexts, "spec")]
      [] t = "event" -> [class |-> "event_deopt", idx |-> x.functionIdx]
      [] t = "fun" -> [closure |-> x.closure, events |-> ToSexpVec(x.events, "event")]

\* fun_recorder_from_sexp, event_from_sexp, speculative_context_from_sexp.
ElemFromSexp(t, x) ==
    CASE t = "spec" -> SpeculativeContext(x.value)
      [] t = "event" /\ x.class = "event_compile" ->
            CompilationEvent(x.ctx, VectorFromSexp(x.specs, "spec"))
      [] t = "event" -> DeoptEvent(x.idx)
      [] t = "fun" -> [closure |-> x.closure, events |-> VectorFromSexp(x.events, "event")]

-----------------------------------------------------------------------------
(* The recorder (spec 4.3), driven by the evaluator.                       *)

\* initOrGetRecording(cls): the index of the closure's recording, created
\* and appended to fun_recordings_ on the first observation of its key.
initOrGetRecording(k) ==
    IF k \in DOMAIN index THEN [idx |-> index[k], index |-> index, recs |-> funRecs]
    ELSE [idx |-> Len(funRecs), index |-> index @@ (k :> Len(funRecs)),
          recs |-> Append(funRecs, FunRecording(k))]

\* Append event e to the recording of key k.
RecordEvent(k, e) ==
    LET r == initOrGetRecording(k)
    IN  /\ index' = r.index
        /\ funRecs' = [r.recs EXCEPT ![r.idx + 1].events = Append(@, e)]

EventCount == LET RECURSIVE Sum(_) 
                  Sum(i) == IF i = 0 THEN 0 ELSE Len(funRecs[i].events) + Sum(i - 1)
              IN  Sum(Len(funRecs))

Init ==
    /\ recording = FALSE
    /\ index = <<>>
    /\ funRecs = <<>>
    /\ feedback \in [Closures -> FbVals]
    /\ table = [c \in Closures |-> <<>>]
    /\ truth = NoTruth
    /\ snapshot = {}
    /\ saved = NoTruth
    /\ loaded = <<>>
    /\ replayed = NoTruth
    /\ expected = NoTruth
    /\ unresolved = 0

\* startRecordings() / stopRecordings().
Untouched == <<index, funRecs, feedback, table, truth, snapshot, saved, loaded,
               replayed, expected, unresolved>>

Start == ~recording /\ recording' = TRUE /\ UNCHANGED Untouched
Stop == recording /\ recording' = FALSE /\ UNCHANGED Untouched

\* resetRecordings(): Record::reset() ends the session's recordings.
Reset ==
    /\ reset
    /\ truth' = NoTruth
    /\ UNCHANGED <<recording, feedback, table, snapshot, saved, loaded, replayed, expected, unresolved>>

\* The interpreter updates a call site's feedback.
Observe(c, v) ==
    /\ feedback' = [feedback EXCEPT ![c] = v]
    /\ UNCHANGED <<recording, index, funRecs, table, truth, snapshot, saved, loaded, replayed, expected, unresolved>>

\* A compile of closure c under context x that adds a version, and
\* recordCompile: the feedback is copied into the event at call time.
Compile(c, x) ==
    /\ \A i \in 1..Len(table[c]) : table[c][i] # x
    /\ table' = [table EXCEPT ![c] = Append(@, x)]
    /\ IF recording /\ EventCount < MaxEvents
       THEN /\ RecordEvent(Key(c), CompilationEvent(x, <<SpeculativeContext(feedback[c])>>))
            /\ truth' = [truth EXCEPT ![Key(c)] = Append(@, <<x, feedback[c]>>)]
       ELSE UNCHANGED <<index, funRecs, truth>>
    /\ UNCHANGED <<recording, feedback, snapshot, saved, loaded, replayed, expected, unresolved>>

\* A deopt of the version at index i of c's table (the baseline is 0), and
\* recordDeopt.
Deopt(c, i) ==
    /\ i \in 1..Len(table[c])
    /\ recording /\ EventCount < MaxEvents
    /\ RecordEvent(Key(c), DeoptEvent(i))
    /\ UNCHANGED <<recording, feedback, table, truth, snapshot, saved, loaded, replayed, expected, unresolved>>

\* saveRecordings(): the recordings, in order, as an R list.
Save ==
    /\ snapshot' = {ToSexpVec(funRecs, "fun")}
    /\ saved' = truth
    /\ UNCHANGED <<recording, index, funRecs, feedback, table, truth, loaded, replayed, expected, unresolved>>

-----------------------------------------------------------------------------
(* The replayer (spec 4.4): replayRecordings(recordings).                  *)

\* Replays events evs[i..] of one recording on a freshly deserialized
\* closure whose versions are tbl: a compile event injects its speculative
\* context into the call site and compiles under its context; a deopt event
\* is replayed against the version its index names.
RECURSIVE ReplayEvents(_, _, _, _)
ReplayEvents(evs, i, tbl, acc) ==
    IF i > Len(evs) THEN acc
    ELSE LET e == evs[i] IN
         CASE e.kind = "compile" ->
                ReplayEvents(evs, i + 1, Append(tbl, e.dispatch_context),
                    [acc EXCEPT !.decisions = Append(@, <<e.dispatch_context,
                                                         e.speculative_contexts[1].value>>)])
           [] e.kind = "deopt" ->
                ReplayEvents(evs, i + 1, tbl,
                    [acc EXCEPT !.unresolved = @ + (IF e.functionIdx > Len(tbl) THEN 1 ELSE 0)])
           [] OTHER -> ReplayEvents(evs, i + 1, tbl, acc)

NoOutcome == [decisions |-> <<>>, unresolved |-> 0]

\* The outcome of replaying the recordings in log order.
ReplayAll(recs) ==
    [r \in 1..Len(recs) |-> ReplayEvents(recs[r].events, 1, <<>>, NoOutcome)]

Replay ==
    /\ \E snap \in snapshot :
       LET recs == VectorFromSexp(snap, "fun")
            out == ReplayAll(recs)
            Of(k) == {r \in 1..Len(recs) : recs[r].closure = k}
        IN  /\ loaded' = recs
            /\ expected' = saved
            /\ replayed' = [k \in Keys |->
                               IF Of(k) = {} THEN <<>> ELSE out[CHOOSE r \in Of(k) : TRUE].decisions]
            /\ unresolved' = LET RECURSIVE U(_)
                                  U(r) == IF r = 0 THEN 0 ELSE out[r].unresolved + U(r - 1)
                              IN  U(Len(recs))
    /\ UNCHANGED <<recording, index, funRecs, feedback, table, truth, snapshot, saved>>

Next ==
    \/ Start \/ Stop \/ Reset \/ Save \/ Replay
    \/ \E c \in Closures, v \in FbVals : Observe(c, v)
    \/ \E c \in Closures, x \in Ctxs : Compile(c, x)
    \/ \E c \in Closures, i \in 1..Cardinality(Ctxs) : Deopt(c, i)

Spec == Init /\ [][Next]_vars

-----------------------------------------------------------------------------
Event == [kind : {"compile"}, dispatch_context : Ctxs,
          speculative_contexts : Seq([type : {"Callees"}, value : FbVals])]
         \cup [kind : {"deopt"}, functionIdx : Nat]

TypeOK ==
    /\ recording \in BOOLEAN
    /\ funRecs \in Seq([closure : Keys, events : Seq(Event)])
    /\ loaded \in Seq([closure : Keys, events : Seq(Event)])
    /\ DOMAIN index \subseteq Keys /\ \A k \in DOMAIN index : index[k] \in Nat
    /\ feedback \in [Closures -> FbVals]
    /\ unresolved \in Nat

(* recordings_index_ and fun_recordings_ agree across every sequence of   *)
(* records, resets and closures sharing a key: each key indexes the one   *)
(* recording of that closure, and every recording is indexed.             *)
IndexConsistent ==
    /\ \A k \in DOMAIN index : index[k] < Len(funRecs) /\ funRecs[index[k] + 1].closure = k
    /\ \A i \in 1..Len(funRecs) : funRecs[i].closure \in DOMAIN index

(* Round trip (spec 7): after save, load and replay, every closure is      *)
(* compiled under exactly the contexts it was compiled under while the     *)
(* recording ran, in the same order, each with the feedback it had at the  *)
(* moment of the original compile, whatever the feedback became later.    *)
RoundTrip == replayed = expected
=============================================================================

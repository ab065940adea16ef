------------------------------ MODULE InternPool ------------------------------
(***************************************************************************)
(* The intern pool of rir (src/rir/src/utils/UUIDPool.h) with the stream  *)
(* it writes to and reads from, across process restarts.                   *)
(*                                                                         *)
(* UUIDPool.h declares `interned`, a process-wide map from a UUID to a    *)
(* SEXP, and intern, readItem and writeItem; their bodies are not part of *)
(* the sources.  The model follows the header's comments and the          *)
(* specification (section 4.5): intern hashes the SEXP and returns the    *)
(* SEXP interned under that hash, or interns and returns its argument;    *)
(* readItem deserializes and interns; writeItem writes the full item.     *)
(*                                                                         *)
(* A SEXP is an object of the process heap (its identity is its position) *)
(* holding a structural content; two objects may hold equal contents.     *)
(* The stream is a file: it outlives the process, the heap and the pool   *)
(* do not.                                                                 *)
(***************************************************************************)
EXTENDS Naturals, Sequences, FiniteSets, TLC

CONSTANTS
    Contents,   \* structural values of SEXPs, model values
    Hash(_),    \* the UUID of a content
    MaxObjs,    \* bound on the objects of one process
    MaxItems    \* bound on the items of the stream

\* Spec 3: collisions are assumed not to occur.
ASSUME \A c, d \in Contents : Hash(c) = Hash(d) => c = d

VARIABLES
    heap,       \* the objects of the running process: a sequence of contents
    interned,   \* UUIDPool::interned: a function from some UUIDs to objects
    stream,     \* the items written, in order
    results     \* the intern calls of this process: a set of [in, out]

vars == <<heap, interned, stream, results>>

Objs == 1..MaxObjs

-----------------------------------------------------------------------------
\* Mutant: intern stores and returns its argument without a lookup.
InternNoLookup(o) ==
    [out |-> o, pool |-> [u \in DOMAIN interned \cup {Hash(heap[o])} |->
                             IF u = Hash(heap[o]) THEN o ELSE interned[u]]]

\* intern(e, uuid): the SEXP interned under uuid, or e, which it interns.
InternKnown(o, u) ==
    IF u \in DOMAIN interned
    THEN [out |-> interned[u], pool |-> interned]
    ELSE [out |-> o, pool |-> interned @@ (u :> o)]

\* intern(e): hash the SEXP, then intern(e, uuid).
intern(o) == InternKnown(o, Hash(heap[o]))

\* Mutant: writeItem writes the UUID, a reference into the writer's pool.
EncodeByUUID(o) == Hash(heap[o])

\* writeItem: WriteItem, the full structural encoding.
Encode(o) == heap[o]

-----------------------------------------------------------------------------
Init ==
    /\ heap = <<>>
    /\ interned = <<>>
    /\ stream = <<>>
    /\ results = {}

\* The evaluator builds an object of content c.
Alloc(c) ==
    /\ Len(heap) < MaxObjs
    /\ heap' = Append(heap, c)
    /\ UNCHANGED <<interned, stream, results>>

\* UUIDPool::intern(e) on an object of the process.
Intern(o) ==
    /\ o \in DOMAIN heap
    /\ LET r == intern(o)
       IN  /\ interned' = r.pool
           /\ results' = results \cup {[in |-> o, out |-> r.out]}
    /\ UNCHANGED <<heap, stream>>

\* UUIDPool::writeItem(sexp, ref_table, out).
writeItem(o) ==
    /\ o \in DOMAIN heap
    /\ Len(stream) < MaxItems
    /\ stream' = Append(stream, Encode(o))
    /\ UNCHANGED <<heap, interned, results>>

\* UUIDPool::readItem(ref_table, in) on item i: ReadItem builds a new
\* object from the item, then intern.
readItem(i) ==
    /\ i \in DOMAIN stream
    /\ Len(heap) < MaxObjs
    /\ LET h1 == Append(heap, stream[i])
           r == InternKnown(Len(h1), Hash(stream[i]))
       IN  /\ heap' = h1
           /\ interned' = r.pool
           /\ results' = results \cup {[in |-> Len(h1), out |-> r.out]}
    /\ UNCHANGED stream

\* The process ends and a new one starts: the heap and the pool are gone,
\* the stream remains.
Restart ==
    /\ heap # <<>>
    /\ heap' = <<>>
    /\ interned' = <<>>
    /\ results' = {}
    /\ UNCHANGED stream

Next ==
    \/ \E c \in Contents : Alloc(c)
    \/ \E o \in Objs : Intern(o) \/ writeItem(o)
    \/ \E i \in 1..MaxItems : readItem(i)
    \/ Restart

Spec == Init /\ [][Next]_vars

-----------------------------------------------------------------------------
TypeOK ==
    /\ heap \in Seq(Contents) /\ Len(heap) <= MaxObjs
    /\ \A u \in DOMAIN interned : interned[u] \in DOMAIN heap
    /\ stream \in Seq(Contents)
    /\ \A r \in results : {r.in, r.out} \subseteq DOMAIN heap

(* Interning is idempotent and sound (spec 8, scenario B): within one     *)
(* process, the SEXPs that intern and readItem returned are the same      *)
(* object exactly when their arguments are structurally equal, and each   *)
(* is equal to its argument, whatever mix of objects built here and      *)
(* items read back from a stream written by an earlier process.           *)
InternCanonical ==
    \A r1, r2 \in results :
        /\ heap[r1.out] = heap[r1.in]
        /\ (r1.out = r2.out) <=> (heap[r1.in] = heap[r2.in])

=============================================================================

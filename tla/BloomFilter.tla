---- MODULE BloomFilter ----
(***************************************************************************)
(* bloom/bloom.c: bloom filters in memory, and one file they are saved to  *)
(* and loaded from.  A field of bits is the set of its bits that are set.  *)
(* A write may fail at any of bloom_save's four, and the file is neither   *)
(* truncated first nor put in place afterwards.                            *)
(***************************************************************************)
EXTENDS Integers

CONSTANTS Filters, Elements,
          First, Second,   \* murmurhash2 of an element with the fixed seed, and with the first hash
          Shapes,          \* what bloom_init2 makes of entries and error: [bits, hashes]
          MaxSaves,        \* saves in one behaviour
          None

BLOOM_VERSION_MINOR == 0

\* What an instance has to satisfy.
BloomAssumption ==
    /\ {First, Second} \subseteq [Elements -> Nat]
    /\ Shapes \subseteq [bits : Nat, hashes : 1..255] /\ None \notin Shapes
    /\ MaxSaves \in Nat

VARIABLES
    filter,   \* each filter: ready, its shape, its bits, the minor version that made it
    bloomed,  \* none, foreign, short, or a head and the bytes behind it
    added,    \* history: what a filter has been told to hold
    saved,    \* history: what the file holds since a save that succeeded
    saves,    \* bloom_save has been called so often
    crashed   \* a bit was looked for in a field of none

vars == <<filter, bloomed, added, saved, saves, crashed>>

Unready == [ready |-> FALSE, shape |-> None, bf |-> {}, minor |-> 0]
Bytes(shape) == (shape.bits + 7) \div 8
Within(bf, bytes) == {x \in bf : x < 8 * bytes}

\* The bits of an element.
Bits(shape, e) == {(First[e] + Second[e] * i) % shape.bits : i \in 0..(shape.hashes - 1)}

\* A file made by a program of another minor version.
Made(shape, e) ==
    [head |-> "filter", bytes |-> Bytes(shape), body |-> Bits(shape, e),
     filter |-> [ready |-> TRUE, shape |-> shape, bf |-> {}, minor |-> BLOOM_VERSION_MINOR + 1]]

Init ==
    /\ filter = [f \in Filters |-> Unready]
    /\ \/ bloomed \in {[head |-> "none"], [head |-> "foreign"]} /\ saved = {}
       \/ \E shape \in Shapes, e \in Elements :
            shape.bits > 0 /\ bloomed = Made(shape, e) /\ saved = {e}
    /\ added = [f \in Filters |-> {}] /\ saves = 0 /\ crashed = FALSE

Put(f, new, elements) ==
    /\ filter' = [filter EXCEPT ![f] = new]
    /\ added' = [added EXCEPT ![f] = elements]

\* Parameters out of range, or no memory, leave the structure unready.
bloom_init2(f) ==
    /\ ~filter[f].ready
    /\ \E shape \in Shapes, works \in BOOLEAN :
         Put(f, IF works THEN [ready |-> TRUE, shape |-> shape, bf |-> {}, minor |-> BLOOM_VERSION_MINOR]
                ELSE Unready, {})
    /\ UNCHANGED <<bloomed, saved, saves, crashed>>

bloom_check_add(f, e, add) ==
    IF filter[f].shape.bits = 0
      THEN crashed' = TRUE /\ UNCHANGED <<filter, bloomed, added, saved, saves>>
      ELSE /\ add
           /\ Put(f, [filter[f] EXCEPT !.bf = @ \cup Bits(filter[f].shape, e)], added[f] \cup {e})
           /\ UNCHANGED <<bloomed, saved, saves, crashed>>

bloom_check(f, e) == Bits(filter[f].shape, e) \subseteq filter[f].bf

bloom_add(f, e) == filter[f].ready /\ bloom_check_add(f, e, TRUE)

\* Asking changes nothing, unless it ends the program.
Ask(f, e) == filter[f].ready /\ bloom_check_add(f, e, FALSE)

\* The structure still says how long its field was.
bloom_free(f) ==
    /\ filter[f].ready
    /\ Put(f, [filter[f] EXCEPT !.ready = FALSE, !.bf = {}], {})
    /\ UNCHANGED <<bloomed, saved, saves, crashed>>

bloom_reset(f) ==
    /\ filter[f].ready
    /\ Put(f, [filter[f] EXCEPT !.bf = {}], {})
    /\ UNCHANGED <<bloomed, saved, saves, crashed>>

HasHead == bloomed.head \notin {"none", "foreign", "short"}

\* The four writes reach `bytes` bytes behind the head, or none at all; what
\* lay further back in an older file stays there.
Written(f, bf, head, bytes) ==
    IF ~head THEN IF HasHead THEN bloomed ELSE [head |-> "short"]
    ELSE [head |-> "filter", filter |-> [filter[f] EXCEPT !.bf = {}],
          bytes |-> IF HasHead /\ bloomed.bytes > bytes THEN bloomed.bytes ELSE bytes,
          body |-> Within(bf, bytes)
                     \cup IF HasHead THEN bloomed.body \ Within(bloomed.body, bytes) ELSE {}]

\* What a structure's pointer leads to: once it has been freed, anything.
Memory(f) == IF filter[f].ready THEN {filter[f].bf} ELSE {{}, 0..(filter[f].shape.bits - 1)}

save_behind_old_bits(f) ==
    /\ filter[f].shape # None /\ saves < MaxSaves
    /\ saves' = saves + 1
    /\ LET all == Bytes(filter[f].shape) IN
       \E bf \in Memory(f) :
         bloomed' = IF HasHead THEN [Written(f, bf, TRUE, all) EXCEPT !.body = bloomed.body]
                    ELSE Written(f, bf, TRUE, all)
    /\ saved' = added[f]
    /\ UNCHANGED <<filter, added, crashed>>

\* A structure is saved whether it is ready or not.
bloom_save(f) ==
    /\ filter[f].shape # None /\ saves < MaxSaves
    /\ saves' = saves + 1
    /\ LET all == Bytes(filter[f].shape) IN
       \E bf \in Memory(f), head \in BOOLEAN, bytes \in 0..all :
         /\ head \/ bytes = 0
         /\ bloomed' = Written(f, bf, head, bytes)
         /\ saved' = IF head /\ bytes = all THEN added[f] ELSE IF head THEN {} ELSE saved
    /\ UNCHANGED <<filter, added, crashed>>

\* Of a file with another magic, size or major version, with a head cut short
\* or fewer bytes than its head says, nothing is taken.
Whole == HasHead /\ bloomed.bytes >= Bytes(bloomed.filter.shape)

bloom_load(f) ==
    /\ ~filter[f].ready
    /\ IF Whole
         THEN LET read == [bloomed.filter EXCEPT
                             !.bf = Within(bloomed.body, Bytes(bloomed.filter.shape))] IN
              IF read.ready THEN Put(f, read, saved) ELSE Put(f, [read EXCEPT !.bf = {}], {})
         ELSE Put(f, Unready, {})
    /\ UNCHANGED <<bloomed, saved, saves, crashed>>

Mergeable(dest, src) ==
    /\ filter[dest].ready /\ filter[src].ready
    /\ filter[dest].shape = filter[src].shape /\ filter[dest].minor = filter[src].minor

merge_overwrites(dest, src) ==
    /\ Mergeable(dest, src)
    /\ Put(dest, [filter[dest] EXCEPT !.bf = filter[src].bf], added[dest] \cup added[src])
    /\ UNCHANGED <<bloomed, saved, saves, crashed>>

bloom_merge(dest, src) ==
    /\ Mergeable(dest, src)
    /\ Put(dest, [filter[dest] EXCEPT !.bf = @ \cup filter[src].bf], added[dest] \cup added[src])
    /\ UNCHANGED <<bloomed, saved, saves, crashed>>

Next ==
    /\ ~crashed
    /\ \/ \E f \in Filters : bloom_init2(f) \/ bloom_free(f) \/ bloom_reset(f) \/ bloom_save(f) \/ bloom_load(f)
       \/ \E f \in Filters, e \in Elements : bloom_add(f, e) \/ Ask(f, e)
       \/ \E dest, src \in Filters : dest # src /\ bloom_merge(dest, src)

Spec == Init /\ [][Next]_vars

---------------------------------------------------------------------------
\* Every variable has its type.
TypeOK ==
    /\ \A f \in Filters : /\ filter[f].shape \in Shapes \cup {None}
                          /\ filter[f].ready => filter[f].shape # None
                          /\ \A x \in filter[f].bf : x < 8 * Bytes(filter[f].shape)
    /\ bloomed.head \in {"none", "foreign", "short", "filter"}
    /\ \A f \in Filters : added[f] \subseteq Elements
    /\ saved \subseteq Elements /\ saves \in 0..MaxSaves /\ crashed \in BOOLEAN

\* A filter never denies an element it was given, merged from another filter or
\* loaded from the file of a save that succeeded, whatever was saved there before.
Remembers ==
    \A f \in Filters : filter[f].ready => \A e \in added[f] : bloom_check(f, e)
====

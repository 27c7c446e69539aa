-------------------------------- MODULE NeHash --------------------------------
(***************************************************************************)
(* The hash table (util/neo_hash.c): chains of entries in an array that is *)
(* doubled in place, and the walk over it by keys.  The caller may change  *)
(* the table between two steps of a walk.  A new entry is always allocated:*)
(* without memory the process ends, for the test is of another pointer.    *)
(***************************************************************************)
EXTENDS Integers, Sequences, SequencesExt, FiniteSetsExt

CONSTANTS
  Keys,       \* the keys, compared by comp_func
  HashOf,     \* hash_func: [Keys -> Nat]
  Values,     \* what is stored, call by call: a sequence without NULL
  NULL,       \* no key and no value
  FirstSize   \* the size of a new table (256), a power of 2

VARIABLES
  hash,       \* [size, num, nodes]: chains of [key, value] by bucket
  walk,       \* the caller's walk with ne_hash_next, and what it has been given
  call        \* the last call that changed the table, its answer, and the inserts so far

vars == <<hash, walk, call>>

Bucket(k, size) == HashOf[k] % size
Chain(h, k) == h.nodes[Bucket(k, h.size)]
Place(h, k) == SelectInSeq(Chain(h, k), LAMBDA e : e.key = k)
Has(h, k) == Place(h, k) # 0
LookupIn(h, k) == IF Has(h, k) THEN Chain(h, k)[Place(h, k)].value ELSE NULL
Content == [k \in Keys |-> LookupIn(hash, k)]
-----------------------------------------------------------------------------

(* _hash_resize: each chain keeps its order; what moves to the new half is  *)
(* put in front, one by one.                                                *)
Doubled(h) ==
  LET size == 2 * h.size
      stays(b) == SelectSeq(h.nodes[b], LAMBDA e : Bucket(e.key, size) = b)
      moves(b) == SelectSeq(h.nodes[b], LAMBDA e : Bucket(e.key, size) # b)
  IN  [h EXCEPT !.size = size,
                !.nodes = [b \in 0 .. size - 1 |-> IF b < h.size THEN stays(b) ELSE Reverse(moves(b - h.size))]]
Full(h) == h.size <= h.num
(* The entry is stored and counted, also when the key was there.            *)
Stored(h, k, v) ==
  LET b == Bucket(k, h.size)
      i == Place(h, k)
  IN  [h EXCEPT !.num = @ + 1,
                !.nodes[b] = IF i = 0 THEN Append(@, [key |-> k, value |-> v]) ELSE [@ EXCEPT ![i].value = v]]

(* What changes of the table mean to a walk: a table that grows, and the    *)
(* current key when it goes and comes back, move to where it was or was not. *)
Inserted(k) == [walk EXCEPT !.spoilt = @ \/ hash'.size # hash.size \/ (walk.key = k /\ ~Has(hash, k))]
Removed(k) == [walk EXCEPT !.due = @ \ {k}, !.seen = @ \ {k}, !.restarted = @ \/ walk.key = k]

HashInsert(k) ==
  /\ call.inserts < Len(Values)
  /\ call' = [op |-> "insert", key |-> k, value |-> Values[call.inserts + 1], inserts |-> call.inserts + 1]
  /\ \E h \in {Stored(hash, k, call'.value)} :
       \/ hash' = IF Full(h) THEN Doubled(h) ELSE h
       \/ Full(h) /\ hash' = h       \* realloc fails, and the caller is told; the entry stays
  /\ walk' = Inserted(k)
HashRemove(k) ==
  LET i == Place(hash, k)
      b == Bucket(k, hash.size)
  IN  /\ hash' = IF i = 0 THEN hash ELSE [hash EXCEPT !.nodes[b] = RemoveAt(@, i), !.num = @ - 1]
      /\ call' = [call EXCEPT !.op = "remove", !.key = k, !.value = LookupIn(hash, k)]
      /\ walk' = IF i = 0 THEN walk ELSE Removed(k)
-----------------------------------------------------------------------------
(* ne_hash_next: the entry after that of the key, or the first from the     *)
(* next bucket on; from the key's own bucket on if the key is gone.         *)
FirstFrom(h, b) == LET used == {c \in b .. h.size - 1 : h.nodes[c] # <<>>}
                   IN  IF used = {} THEN NULL ELSE h.nodes[Min(used)][1].key

After(h, k) == IF k = NULL THEN FirstFrom(h, 0)
               ELSE LET i == Place(h, k)
                        b == Bucket(k, h.size)
                    IN  IF i = 0 THEN FirstFrom(h, b)
                        ELSE IF i < Len(Chain(h, k)) THEN Chain(h, k)[i + 1].key
                        ELSE FirstFrom(h, b + 1)
HashNext ==
  /\ ~walk.ended
  /\ \E n \in {After(hash, walk.key)} :
       walk' = IF n = NULL THEN [walk EXCEPT !.ended = TRUE]
               ELSE [walk EXCEPT !.key = n, !.seen = @ \cup {n}, !.twice = @ \/ n \in walk.seen]
  /\ UNCHANGED <<hash, call>>
Fresh(h) == [key |-> NULL, due |-> {k \in Keys : Has(h, k)}, seen |-> {}, twice |-> FALSE,
             restarted |-> FALSE, spoilt |-> FALSE, ended |-> FALSE]
(* ne_hash_destroy, and ne_hash_init again.                                 *)
Empty == [size |-> FirstSize, num |-> 0, nodes |-> [b \in 0 .. FirstSize - 1 |-> <<>>]]
HashDestroy == /\ hash' = Empty
               /\ call' = [call EXCEPT !.op = "destroy", !.key = NULL, !.value = NULL]
               /\ walk' = Fresh(Empty)
StartWalk == /\ walk' = Fresh(hash)
             /\ UNCHANGED <<hash, call>>

Init == /\ hash = Empty
        /\ walk = Fresh(hash)
        /\ call = [op |-> "init", key |-> NULL, value |-> NULL, inserts |-> 0]
Next == HashNext \/ StartWalk \/ HashDestroy \/ \E k \in Keys : HashInsert(k) \/ HashRemove(k)
Spec == Init /\ [][Next]_vars
-----------------------------------------------------------------------------
(* Whatever its chains, its counter and its doublings do, the table is a    *)
(* map: an insert sets just its key, a removal clears just its key and      *)
(* answers with the value that was there, nothing else changes a value.     *)
HashIsMap ==
  [][IF call' = call THEN Content' = Content
     ELSE IF call'.op = "destroy" THEN \A k \in Keys : Content'[k] = NULL
     ELSE IF call'.op = "insert" THEN Content' = [Content EXCEPT ![call'.key] = call'.value]
     ELSE Content' = [Content EXCEPT ![call'.key] = NULL] /\ call'.value = Content[call'.key]]_vars

(* A walk that is over was given every key that was in the table all the    *)
(* time, and none twice -- unless the table has grown meanwhile or its      *)
(* current key has been taken out and put back; a key may come twice once   *)
(* the current key was removed.                                             *)
WalkExact == ~walk.spoilt => /\ walk.ended => walk.due \subseteq walk.seen
                             /\ ~walk.restarted => ~walk.twice
===============================================================================

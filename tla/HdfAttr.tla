------------------------------ MODULE HdfAttr ------------------------------
(* The attribute list of an HDF node (util/neo_hdf.c): a sequence of       *)
(* <<key, value>> pairs, NoValue standing for a NULL value.                *)
EXTENDS Integers, Sequences, SequencesExt

CONSTANT NoValue

KeyAt(attrs, key) == SelectInSeq(attrs, LAMBDA a : a[1] = key)

(* One attribute of _merge_attr's source: it replaces the value of the one *)
(* with its key, or is moved to the end of the destination.                *)
Absorb(dest, a) ==
  LET i == KeyAt(dest, a[1])
  IN  IF i = 0 THEN Append(dest, a) ELSE [dest EXCEPT ![i] = a]

(* As MergeAttr, but replacing the list.                                   *)
ReplaceAttr(dest, src) == src

(* _merge_attr: when the first attribute of the source is moved, the cut   *)
(* of its next pointer, which the loop reads to go on, ends the loop: the  *)
(* others are freed with what is left of the source.                       *)
MergeAttr(dest, src) ==
  IF src # <<>> /\ KeyAt(dest, src[1][1]) = 0 THEN Append(dest, src[1])
  ELSE FoldLeft(Absorb, dest, src)

(* hdf_set_attr on a node that is there: set, add or, with NoValue, delete.*)
SetAttr(attrs, key, value) ==
  LET i == KeyAt(attrs, key)
  IN  CASE i # 0 /\ value # NoValue -> [attrs EXCEPT ![i] = <<key, value>>]
        [] i # 0 /\ value = NoValue -> RemoveAt(attrs, i)
        [] i = 0 /\ value # NoValue -> Append(attrs, <<key, value>>)
        [] OTHER                    -> attrs

(* Deleting a key that a non-empty list does not have falls through to     *)
(* strdup(NULL).                                                           *)
DeletesMissing(attrs, key, value) ==
  attrs # <<>> /\ value = NoValue /\ KeyAt(attrs, key) = 0
=============================================================================

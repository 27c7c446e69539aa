----------------------------- MODULE HdfAsTree -----------------------------
(* The data set of Hdf as the ordered tree of HdfTree that it is to those  *)
(* who use it: a node is known by its path from the top.                   *)
EXTENDS Hdf

RECURSIVE Placed(_, _, _)
Placed(h, c, path) ==
  {<<path, c>>} \cup UNION {Placed(h, k, Append(path, h[k].name)) : k \in ToSet(Kids(h, c))}

Places == Placed(heap, Top, <<>>)

(* What the nodes hold, and in which order they have children.             *)
AsFunction(pairs) == [p \in {x[1] : x \in pairs} |-> (CHOOSE x \in pairs : x[1] = p)[2]]
Held(c) == [value |-> heap[c].value, link |-> heap[c].link]
NamesUnder(c) == LET kids == Kids(heap, c) IN [i \in DOMAIN kids |-> heap[kids[i]].name]
AbstractTree == AsFunction({<<x[1], Held(x[2])>> : x \in Places})
AbstractOrder == AsFunction({<<x[1], NamesUnder(x[2])>> : x \in Places})

T == INSTANCE HdfTree WITH
  tree <- AbstractTree, order <- AbstractOrder, Calls <- UNION Clients, MaxHops <- MaxSteps

(* Lists, caches, hash tables and pointers aside, the data set is the      *)
(* ordered tree of HdfTree: every call changes it as that tree changes.    *)
(* HdfTree has no strings that two nodes share, and no attributes.         *)
Sharing == \E c \in client : c.op = "setcopy" \/ c.attr # <<>>
ImplementsTree == T!TreeInit /\ [][IF Sharing THEN TRUE ELSE T!TreeNext]_(T!treeVars)

(* What hdf_get_obj and the other readers find, by hash, by list and       *)
(* through links, is what the tree has at that name, for every node a      *)
(* client may start from.                                                  *)
ReadsAgree ==
  LET t      == AbstractTree
      places == Places
  IN  \A x \in places, name \in {c.name : c \in client} :
        LET w == Walk(heap, x[2], name)
        IN  IF w = Broken THEN name # <<>> /\ T!Read(t, x[1], name) = T!Loop
            ELSE T!Found(t, x[1], name) = {y[1] : y \in {z \in places : z[2] = w}}
=============================================================================

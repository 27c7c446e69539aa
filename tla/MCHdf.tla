------------------------------- MODULE MCHdf -------------------------------
(* The calls of the runs of Hdf.                                           *)
EXTENDS HdfAsTree

CONSTANTS na, nb, nc

(* Calls of one kind: from the nodes at `ats`, by `names`, with `values`.  *)
Kind(op, ats, names, values) ==
  [op : {op}, at : ats, name : names, value : values, attr : {<<>>}]

None == {NoValue}
Root == {<<>>}
Wide == {<<na>>, <<nb>>, <<nc>>}

(* The last call is not part of the state that decides what comes next.    *)
Seen == <<heap, client, res = "dead">>

(* One level that grows beyond the length at which it gets a hash table.   *)
LevelCalls ==
  Kind("set", Root, Wide \cup {<<na, nb>>, <<nb, Empty>>, <<Empty, na>>}, {<<nc>>})
  \cup Kind("remove", Root, Wide \cup {<<na, nb>>}, None)
  \cup Kind("sort", Root, Root, None)

(* Links, made, crossed, overwritten, left dangling and led in circles,    *)
(* and a start below the top.                                              *)
LinkCalls ==
  Kind("set", Root \cup {<<na>>}, {<<na>>, <<na, nb>>}, {<<nb>>})
  \cup Kind("set", {<<na>>}, Root, {<<nb>>})
  \cup Kind("symlink", Root, {<<na>>, <<nb>>}, {<<>>, <<na>>, <<nb, na>>})
  \cup Kind("node", Root, {<<na>>, <<nb, na>>}, None)
  \cup Kind("remove", Root, {<<na>>, <<nb, na>>}, None)

(* Whole subtrees copied, onto nodes that are there and onto new ones.     *)
CopyCalls ==
  Kind("set", Root, {<<na>>, <<na, nb>>, <<nb, na>>}, {<<nb>>})
  \cup Kind("symlink", Root, {<<na, nb>>}, {<<nb>>})
  \cup Kind("copy", Root, {<<>>, <<nb>>, <<nb, Empty>>}, {<<>>, <<na>>, <<na, nb>>})
  \cup Kind("remove", Root, {<<na>>}, None)

(* Strings that two nodes point to, and attributes.                        *)
ShareCalls ==
  Kind("set", Root, {<<na>>, <<nb>>, <<nc>>}, {NoValue, <<na>>})
  \cup Kind("setcopy", Root, {<<na>>, <<nb>>, <<nb, nc>>}, {<<na>>, <<nb>>, <<nc>>})
  \cup Kind("remove", Root, {<<na>>, <<nb>>, <<nc>>}, None)

Attributes == {<<<<"k", "1">>>>, <<<<"l", "1">>, <<"k", "2">>>>}
AttrCalls ==
  [op : {"set"}, at : Root, name : {<<na>>, <<na, nb>>}, value : {<<na>>}, attr : Attributes]
  \cup [op : {"attr"}, at : Root, name : {<<na>>, <<nc>>}, value : None,
        attr : {<<<<"k", "2">>>>, <<<<"k", NoValue>>>>, <<<<"m", "1">>>>}]
  \cup Kind("remove", Root, {<<na>>}, None)

AllClients == {LevelCalls, LinkCalls, CopyCalls, ShareCalls, AttrCalls}
SharingClients == {ShareCalls}
=============================================================================

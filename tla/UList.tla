-------------------------------- MODULE UList ---------------------------------
(***************************************************************************)
(* The growing list (util/ulist.c): an array of slots, some of them in     *)
(* use, that is enlarged on demand.  Positions count from 0; negative ones *)
(* count from the end.  uListInsert, uListDelete and uListSet do not look  *)
(* for positions before the beginning: the callers here give none.         *)
(***************************************************************************)
EXTENDS Integers, Sequences, SequencesExt, FiniteSetsExt

CONSTANTS
  Items,      \* the pointers that are stored
  Garbage,    \* what a slot holds that was not written since it was allocated
  Rank,       \* the order in which they are sorted: [Items -> Int], one to one
  FirstMax,   \* the size the list is created with (10 when 0 is asked for)
  MaxNum      \* bound on the length of the list

VARIABLES
  ul,         \* [items, num]; max is the number of slots
  call        \* the last call and its answer

uvars == <<ul, call>>

Content == SubSeq(ul.items, 1, ul.num)
Positions == -ul.num .. ul.num
-----------------------------------------------------------------------------
(* check_resize: the slots double, or more when that is not enough.         *)
Resized(items, size) ==
  LET max == Len(items)
      new == IF size > 2 * max THEN size + max ELSE 2 * max
  IN  IF size <= max THEN items ELSE items \o [i \in 1 .. new - max |-> Garbage]
FromEnd(x) == IF x < 0 THEN ul.num + x ELSE x
Did(op, x, v, ok, got) == call' = [op |-> op, x |-> x, v |-> v, ok |-> ok, got |-> got]
Refused(op, x, v) == Did(op, x, v, FALSE, Garbage) /\ UNCHANGED ul
Null == Garbage

(* realloc fails, and nothing has changed.                                  *)
NoMemory == ul.num = Len(ul.items)

ListAppend(v) ==
  \/ NoMemory /\ Refused("append", 0, v)
  \/ /\ ul.num < MaxNum
     /\ ul' = [items |-> [Resized(ul.items, ul.num + 1) EXCEPT ![ul.num + 1] = v], num |-> ul.num + 1]
     /\ Did("append", 0, v, TRUE, Null)
Pop == \/ ul.num = 0 /\ Refused("pop", 0, Null)
       \/ /\ ul.num > 0
          /\ ul' = [ul EXCEPT !.num = @ - 1]
          /\ Did("pop", 0, Null, TRUE, ul.items[ul.num])
(* memmove of the slots from position p on, by one to the right or left.    *)
ShiftRight(items, p, num) == [i \in DOMAIN items |-> IF p + 1 < i /\ i <= num + 1 THEN items[i - 1] ELSE items[i]]
(* Mutant: the last slot of the tail is left where it was.                 *)
ShiftLeftLong(items, p, num) == [i \in DOMAIN items |-> IF p < i /\ i < num - 1 THEN items[i + 1] ELSE items[i]]

ShiftLeft(items, p, num) == [i \in DOMAIN items |-> IF p < i /\ i < num THEN items[i + 1] ELSE items[i]]
Insert(x, v) ==
  LET p == FromEnd(x) IN
  \/ (p >= ul.num \/ NoMemory) /\ Refused("insert", x, v)
  \/ /\ p < ul.num /\ ul.num < MaxNum
     /\ ul' = [items |-> [ShiftRight(Resized(ul.items, ul.num + 1), p, ul.num) EXCEPT ![p + 1] = v], num |-> ul.num + 1]
     /\ Did("insert", x, v, TRUE, Null)
Delete(x) ==
  LET p == FromEnd(x) IN
  \/ p >= ul.num /\ Refused("delete", x, Null)
  \/ /\ p < ul.num
     /\ ul' = [items |-> ShiftLeft(ul.items, p, ul.num), num |-> ul.num - 1]
     /\ Did("delete", x, Null, TRUE, ul.items[p + 1])
Get(x) ==
  LET p == FromEnd(x) IN
  \/ p \notin 0 .. ul.num - 1 /\ Refused("get", x, Null)
  \/ p \in 0 .. ul.num - 1 /\ Did("get", x, Null, TRUE, ul.items[p + 1]) /\ UNCHANGED ul
ListSet(x, v) ==
  \/ x >= ul.num /\ Refused("set", x, v)
  \/ x \in 0 .. ul.num - 1 /\ ul' = [ul EXCEPT !.items[x + 1] = v] /\ Did("set", x, v, TRUE, Null)
(* Every pair of slots from the ends inwards is swapped.                    *)
ListReverse ==
  LET swap(s, i) == [s EXCEPT ![i] = s[ul.num + 1 - i], ![ul.num + 1 - i] = s[i]]
  IN  /\ ul' = [ul EXCEPT !.items = FoldLeft(swap, @, [i \in 1 .. ul.num \div 2 |-> i])]
      /\ Did("reverse", 0, Null, TRUE, Null)
(* uListIndex: the place of the first item that compares equal, or -1.      *)
Index(v) == /\ LET hits == {i \in 1 .. ul.num : ul.items[i] = v}
               IN  Did("index", IF hits = {} THEN -1 ELSE Min(hits) - 1, v, hits # {}, Null)
            /\ UNCHANGED ul

(* uListSort: what qsort promises of the slots that are in use.             *)
SameItems(s, t) == \A v \in Items : Len(SelectSeq(s, LAMBDA w : w = v)) = Len(SelectSeq(t, LAMBDA w : w = v))
InOrder(s) == \A i \in 1 .. Len(s) - 1 : Rank[s[i]] <= Rank[s[i + 1]]
ListSort ==
  /\ \E s \in [1 .. ul.num -> Items] :
       /\ InOrder(s) /\ SameItems(s, Content)
       /\ ul' = [ul EXCEPT !.items = s \o SubSeq(@, ul.num + 1, Len(@))]
  /\ Did("sort", 0, Null, TRUE, Null)
(* uListDestroy, and uListInit again.                                       *)
Empty == [items |-> [i \in 1 .. FirstMax |-> Garbage], num |-> 0]
Destroy == ul' = Empty /\ Did("destroy", 0, Null, TRUE, Null)

Init == /\ ul = Empty
        /\ call = [op |-> "init", x |-> 0, v |-> Null, ok |-> TRUE, got |-> Null]
Next == \/ Pop \/ ListReverse \/ ListSort \/ Destroy
        \/ \E x \in Positions : Delete(x) \/ Get(x)
        \/ \E v \in Items : ListAppend(v) \/ Index(v) \/ \E x \in Positions : Insert(x, v) \/ ListSet(x, v)
Spec == Init /\ [][Next]_uvars
-----------------------------------------------------------------------------
(* What each call promises about the list as a sequence, from the front or  *)
(* from the end; a refused call changes nothing.                            *)
At(x) == (IF x < 0 THEN Len(Content) + x ELSE x) + 1
Promise(c) ==
  CASE ~c.ok \/ c.op = "index" -> Content' = Content
    [] c.op = "append" -> Content' = Append(Content, c.v)
    [] c.op = "pop" -> Content = Append(Content', c.got)
    [] c.op = "insert" -> Content' = InsertAt(Content, At(c.x), c.v)
    [] c.op = "delete" -> Content' = RemoveAt(Content, At(c.x)) /\ c.got = Content[At(c.x)]
    [] c.op = "get" -> Content' = Content /\ c.got = Content[At(c.x)]
    [] c.op = "set" -> Content' = [Content EXCEPT ![At(c.x)] = c.v]
    [] c.op = "reverse" -> Content' = Reverse(Content)
    [] c.op = "sort" -> SameItems(Content', Content) /\ InOrder(Content')
    [] c.op = "destroy" -> Content' = <<>>
    [] OTHER -> FALSE
(* The slots, however they were moved and enlarged, are the sequence the    *)
(* calls promise, and never a slot that nothing was written to.             *)
ListIsSequence == [][Promise(call') /\ Garbage \notin ToSet(Content')]_uvars
===============================================================================

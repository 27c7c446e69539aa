----------------------------- MODULE MCSkipList -----------------------------
(* Instances of SkipList for TLC: who calls what.                          *)
EXTENDS SkipList

CONSTANTS t1, t2, t3, v1, v2

Search == [op : {"search"}, key : Keys, plock : BOOLEAN]
Scan == [op : {"next"}, key : Keys \cup {0}, plock : {FALSE}]
Insert == [op : {"insert"}, key : Keys, value : {v1}]
Change == [op : {"update"}, key : Keys, value : {v1, v2}]
Delete == [op : {"delete"}, key : Keys]

Program(calls1, calls2, calls3) ==
  [t \in Threads |-> CASE t = t1 -> calls1 [] t = t2 -> calls2 [] t = t3 -> calls3]

(* A writer, and a thread that searches, locks values and releases them.   *)
WriterAndReader ==
  Program(Delete \cup {c \in Change : c.key = 1} \cup {c \in Insert : c.key = 2},
          {c \in Search : c.key = 1}, {})

(* Two writers that meet at one key.                                       *)
TwoWriters ==
  Program(Insert \cup Delete, {c \in Insert \cup Delete : c.key = 1}, {})

(* One inserts, one deletes, one searches behind the key that comes and    *)
(* goes.                                                                   *)
ThreeThreads ==
  Program({c \in Insert : c.key < 3}, {c \in Delete : c.key = 1},
          {c \in Search : c.key = 2 /\ ~c.plock})

(* One inserts, one scans with skipNext.                                   *)
InsertAndScan == Program(Insert, Scan, {})

Flushing == {WriterAndReader, TwoWriters}
NotFlushing == {ThreeThreads, InsertAndScan}

(* One inserts and deletes, one scans with skipNext.                       *)
DeleteAndScan == {Program(Insert \cup Delete, Scan, {})}
=============================================================================

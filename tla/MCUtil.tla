-------------------------------- MODULE MCUtil --------------------------------
(* The parts of util/ that neither a template nor a request needs to be     *)
(* understood, each by itself: the version store, the two ends of a         *)
(* connection, threads that register and handle errors, the table store,    *)
(* data sets as text, the hash table, the growing list and string, filters. *)
EXTENDS Rcfs, Errors, TLC

VARIABLES part, end, wire, given,
          table, files, row, cursor, record, doc, source, frames, folder, state, hash, walk, call, ul, listCall,
          str, input, said, calls, failures, held, lent, sub, result, faults

store == vars
net == <<end, wire, given>>
errors == evars
tables == <<table, files, row, cursor, record>>
texts == <<doc, source, frames, folder, state>>
hashes == <<hash, walk, call>>
lists == <<ul, listCall>>
strings == <<str, input, said, calls, failures>>
filters == <<held, lent, sub, result, faults>>
all == <<part, store, net, errors, tables, texts, hashes, lists, strings, filters>>

(* What is saved: texts of one line and of two; and one Meta node.         *)
VersionLines == <<"1", "2", "3">>
Saves == {<<"a">>, <<"b", "b">>}
OneMeta == {<<"m">>}
ASSUME StoreAssumption == RcfsAssumption

(* What the two ends do: values longer than a buffer that cross each other, *)
(* an answer to be read by another call than the one that fits, a NULL.     *)
W(kind, v) == [do |-> "write", kind |-> kind, v |-> v]
R1(kind) == [do |-> "read", kind |-> kind, n |-> 1]
Exchange == [client |-> <<W("int", <<"1", "2">>), W("str", <<"a", ",">>), R1("int"), W("str", <<>>)>>,
             server |-> <<R1("int"), R1("str"), W("int", <<"-", "7">>), R1("str")>>]
Mixed == [client |-> <<R1("line"), R1("raw"), W("int", <<"5">>), R1("str")>>,
          server |-> <<W("line", <<"x">>), R1("int"), W("str", <<"b", "c", "d">>)>>]
N == INSTANCE Net WITH Programs <- {Exchange, Mixed}, BufSize <- 3, WireSize <- 4, MaxDigits <- 4, MaxFaults <- 1

(* Three names, so that one thread registers while another raises.         *)
ErrorNames == <<"InternalPass", "NotFoundError", "IOError">>
ASSUME NamesAssumption == ErrorsAssumption

(* A table with a column and columns to be added, one of a name that has to *)
(* be escaped; each alteration comes between calls on a row.                *)
D == INSTANCE Wdb WITH Names <- {<<"a">>, <<"b", ":">>}, FirstNames <- <<<<"a">>>>, Titles <- {<<"b", ":">>},
                       Keys <- 1 .. 1, Values <- [s |-> {"", "x"}, i |-> {"7"}],
                       MaxAlters <- 2, MaxRowCalls <- 4, MaxOpens <- 1, past <- record

(* Texts with every kind of line, with includes that nest, close a brace or *)
(* never end, and with mistakes in the middle.                              *)
Texts == {
 <<<<"a", ".", "b", " ", "=", " ", "x", " ">>,
   <<"#", "x">>, <<>>,
   <<"c", " ", "[", "a", ",", " ", "b", "=", "d", "]", " ", ":", " ", "a", ".", "b">>,
   <<"a", " ", "{">>,
   <<" ", "d", " ", "[", "c", "=", "\"", "x", "\\", "n", "\"", "]", "<", "<", " ", "E", "O", "M">>,
   <<"x">>, <<"E", "O", "M">>,
   <<" ", "b", " ", ":", "=", " ", "c">>,
   <<" ", "b", "[", "a", "]", " ", "{">>, <<"c", "=", "1">>, <<"}">>,
   <<"}">>>>,
 <<<<"#include", "\"", "f", "\"">>, <<"a", "{">>, <<"hdf", ".", "loadpaths", ".", "b", "=", "p">>,
   <<"#include", "g">>, <<"b", "=", "y">>, <<"}">>, <<"d", "=">>>>,
 <<<<"#include", "g">>, <<"a", "{">>, <<"#include", "g">>>>,
 <<<<"#include", "l">>, <<"a", "=">>>>,
 <<<<"a", "<", "<", "c">>, <<"x">>, <<"E", "O", "M">>, <<" ">>, <<"c">>, <<"b", " ", "{">>,
   <<"c", "<", "<", "b">>, <<"E", "O", "M", " ", "y">>, <<"x">>>>,
 <<<<"a", "=", "x">>, <<"b", ".", "c", ".", ".", "d", "=">>>>,
 <<<<"a", "<", "<", "c">>, <<"E", "O", "M">>, <<"x">>, <<"c">>>>
}
Included == (<<"f">> :> <<<<"c", "=", "x">>>>)
   @@ (<<"p", "/", "g">> :> <<<<"c", "=", "z">>, <<"}">>, <<"d", "=", "z">>>>)
   @@ (<<"l">> :> <<<<"b", "=">>, <<"#include", "l">>>>)
V(v, l, a) == [value |-> v, link |-> l, attrs |-> a]
Values == {V(<<"x", "\n", "E", "O", "M", "\n", "y">>, FALSE, <<>>), V(<<"\n", "E", "O", "M">>, FALSE, <<>>),
  V(<<"E", "O", "M", "\n", "y">>, FALSE, <<>>), V(<<"\n">>, TRUE, <<<<<<"a">>, <<"1">>>>>>),
  V(<<" ", "x", " ">>, FALSE, <<<<<<"c">>, <<"\"", "\\", "\n">>>>, <<<<"b">>, <<"1">>>>>>),
  V(<<"b">>, TRUE, <<>>), V(<<"x", "\n", "y">>, FALSE, <<>>)}
Paths == {<<<<"a">>>>, <<<<"b">>, <<"c">>>>}
T == INSTANCE HdfText WITH LoadPaths <- <<<<"q">>, <<"p">>>>, DumpTypes <- {"dotted", "compact", "pretty"},
                           IncludeMaxDepth <- 2, Rounds <- 2, MaxCrashes <- 1, disk <- folder

(* Three keys that share a bucket until the table grows, in which two of    *)
(* them move; one of the four inserts is then an update.                    *)
H == INSTANCE NeHash WITH Keys <- {"a", "b", "c"}, HashOf <- [a |-> 0, b |-> 4, c |-> 12],
                          Values <- <<"1", "2", "3", "4">>, NULL <- "", FirstSize <- 4
(* A list that is enlarged three times.                                     *)
L == INSTANCE UList WITH Items <- {"a", "b"}, Rank <- [a |-> 1, b |-> 2], Garbage <- "?", FirstMax <- 1, MaxNum <- 5, call <- listCall

(* Pieces that fit and pieces that make a string grow twice, and lines that *)
(* are longer than what fgets is given room for.                            *)
B == INSTANCE StrBuf WITH Pieces <- {<<>>, <<"a">>, <<"a", "b", "a", "b", "a">>},
                          Lines <- {<<>>, <<"a", "\n", "b">>, <<"a", "b", "b", "b", "b", "b", "\n">>},
                          MinSize <- 3, Factor <- 2, LocalSize <- 4, MaxCalls <- 4, MaxFaults <- 1
(* A filter that was created while another one runs.                        *)
F == INSTANCE Filter WITH NumFilters <- 2, MaxFaults <- 1, files <- lent, child <- sub
ASSUME NumbersAssumption == F!FiltersAssumption

MCInit == /\ part \in {"store", "net", "errors", "table", "text", "hash", "list", "string", "filter"}
          /\ Init /\ N!Init /\ ErrorsInit /\ D!Init /\ T!Init /\ H!Init /\ L!Init /\ B!Init /\ F!Init
          /\ part # "net" => given.programs = Mixed
          /\ part # "text" => source.text = <<<<"#include", "l">>, <<"a", "=">>>>
MCNext ==
  /\ UNCHANGED part
  /\ \/ part = "store" /\ Next /\ UNCHANGED <<net, errors, tables, texts, hashes, lists, strings, filters>>
     \/ part = "net" /\ N!Next /\ UNCHANGED <<store, errors, tables, texts, hashes, lists, strings, filters>>
     \/ part = "errors" /\ ErrorsNext /\ UNCHANGED <<store, net, tables, texts, hashes, lists, strings, filters>>
     \/ part = "table" /\ D!Next /\ UNCHANGED <<store, net, errors, texts, hashes, lists, strings, filters>>
     \/ part = "text" /\ T!Next /\ UNCHANGED <<store, net, errors, tables, hashes, lists, strings, filters>>
     \/ part = "hash" /\ H!Next /\ UNCHANGED <<store, net, errors, tables, texts, lists, strings, filters>>
     \/ part = "list" /\ L!Next /\ UNCHANGED <<store, net, errors, tables, texts, hashes, strings, filters>>
     \/ part = "string" /\ B!Next /\ UNCHANGED <<store, net, errors, tables, texts, hashes, lists, filters>>
     \/ part = "filter" /\ F!Next /\ UNCHANGED <<store, net, errors, tables, texts, hashes, lists, strings>>
MCSpec == MCInit /\ [][MCNext]_all
-------------------------------------------------------------------------------
(* A reader gets the values that were written, in order, until one end      *)
(* fails; the two ends never wait for each other; and a descriptor is       *)
(* closed once (ne_net_write, ne_net_read, ne_net_close).  A filter gets    *)
(* the end of its input (filter_create_fd).                                 *)
NetSound == /\ part = "net" => N!StreamExact /\ N!NeverBothWait /\ N!NoDescriptorLost
            /\ part = "filter" => F!FiltersSound

(* A row reads back as it was saved, whatever becomes of the columns beside *)
(* it; and a crash leaves a whole definition, unless a write of it failed   *)
(* or its only copy was being written over (wdbr_save, wdb_column_insert,   *)
(* wdb_save).                                                               *)
TableExact == part = "table" => D!RowsExact /\ D!DefinitionKept

(* What is written reads back as the same data set, and an atomic           *)
(* replacement leaves one text or the other (hdf_dump, hdf_read_file,       *)
(* hdf_write_file_atomic).                                                  *)
TextExact == part = "text" => T!TextExact /\ T!AtomicWhole

(* A hash table is a map that a walk goes through once, a growing list is a *)
(* sequence, and a STRING is the text that was put into it (ne_hash_insert, *)
(* ne_hash_next, uListInsert, uListDelete, string_append, string_readline). *)
ContainersExact == /\ H!HashIsMap /\ L!ListIsSequence
                   /\ [](part = "hash" => H!WalkExact) /\ [](part = "string" => B!TextBuilt)
===============================================================================

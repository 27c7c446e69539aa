# ClearSilver in TLA+

ClearSilver is a template system in C: a library of utilities (`util/`) around
the hierarchical data set HDF, a template engine (`cs/`), a CGI kit (`cgi/`)
and bindings for other languages. This directory holds TLA+ modules of its
core, TLC models of small instances, and theorems that TLAPS checks for all
instances. Paths are relative to the root of the repository.

Contents: [the system](#the-system) · [modules](#modules) ·
[runs](#runs) · [bounds](#bounds-and-why-they-are-enough) ·
[fairness](#fairness) · [proofs](#proofs) · [disagreements](#disagreements-with-comments-and-headers) ·
[not modelled](#what-is-not-modelled) · [plan](#plan)

## The system

### Utilities (`util/`)

| component | state it keeps | operations | what makes it correct |
|---|---|---|---|
| **skip list** `skiplist.c` | levels of items with back pointers of deleted items, value locks per item, deleted items cached until a flush; two mutexes, two conditions, counters `readers`, `cached`, flags `block`, `flushing` | skipSearch, skipNext, skipInsert, skipDelete, skipRelease | a call is an atomic step on a map from keys to values; no item is freed under a search or a value lock; nothing leaks; no wakeup is lost |
| **dictionary** `dict.c` | a skip list of entries by hash, each with a list of items (id, value), a `deleted` mark, one mutex DICT_LOCK | dictSetValue, dictModifyValue, dictSearch, dictNext, dictRemove, dictCleanup, dictReleaseLock | a call is an atomic step on a map from ids to values, although the entry is looked up before the mutex is taken; each entry that was dropped is freed in the end; an iteration goes forward |
| **HDF** `neo_hdf.c` | tree of nodes in ordered lists, per level a cache (`last_hp`, `last_hs`, `last_child`) and above a length a hash table; links, shared strings, attributes | hdf_set_value and its kin, hdf_get_*, hdf_remove_tree, hdf_sort_obj, hdf_copy, hdf_set_symlink, hdf_set_attr, read, write and dump of a text form | the shortcuts never differ from the lists; what is set is read back, across links; a string is freed once and by its owner |
| **hash table** `neo_hash.c` | buckets of chained nodes, size, count | insert, lookup, has_key, remove, next, resize in place | a lookup finds what was inserted before and after a resize; an iteration visits each key once |
| **growing list** `ulist.c` | array, length, capacity | append, insert, delete, get, set, pop, sort, split | index arithmetic at both ends, growth |
| **errors** `neo_err.c` | process-wide lists of error names, `Inited`, `InitLock`, chains of NEOERR | nerr_init, raise, pass, handle, ignore | codes are unique; the lock is released; a chain is freed once |
| **locks** `ulocks.c` | POSIX mutexes and conditions, file locks | mCreate.., cWait, cSignal.., fCreate, fFind, fLock | as POSIX; the file of a lock exists before it is locked |
| **strings** `neo_str.c`, `snprintf.c`, `wildmat.c` | growing STRING | append, escape, unescape | growth, escaping inverts unescaping |
| **automatic escaping** `neo_auto.c` | an HTML parser's state | parse, escape | escapes fit the parser's state |
| **files** `neo_files.c` | none | load, save, mkdirs, listdir, remove | a reader sees the old or the new file |
| **subprocess filters** `filter.c` | none | filter_create_fd, filter_wait | descriptors closed once |
| **network streams** `neo_net.c` | NSOCK: an input and an output buffer, descriptor | connect, accept, read, write, flush, close, netstrings | bytes arrive once and in order, also after a failed write |
| **preforking server** `neo_server.c` | children, accept lock, `ShutdownPending` | nserver_proc_start | the number of children is kept up; SIGTERM ends it |
| **version store** `rcfs.c` | per path a log file `,log`, versions `,n`, a lock file | rcfs_save, rcfs_load, rcfs_listdir | a saved version is loaded as it was saved, also after a crash |
| **table store** `wdb.c` | definition file, Berkeley DB table, cursors | open, alter columns, rows | rows survive changes of columns; definition replaced atomically |
| **dates, random numbers** | cached zone, seed | conversions | — |

### Templates (`cs/csparse.c`)

| component | state it keeps | operations | what makes it correct |
|---|---|---|---|
| **parser** | tree of commands with `next` and `case_0`/`case_1`, stack of open commands, offset into the text, macros | cs_parse_file, cs_parse_string, one handler per command | the tree mirrors the nesting; included files neither close nor leave open what is not theirs |
| **renderer** | scopes of local variables (`parse->locals`), macro depth, the data set | cs_render, one `_eval` per command | scopes are gone when their command ends, also by an error; loops end |
| **automatic escaping state, error messages** | `auto_ctx`, `err_list` | with the commands | — |

### CGI kit (`cgi/`) and the rest

`cgi.c` turns a request into HDF and renders a template with it; `rfc2388.c`
reads multipart bodies through a buffer that is refilled; `html.c` converts
text to HTML. `python/`, `perl/`, `ruby/`, `java/`, `csharp/` wrap the C calls;
`mod_ecs/` runs CGIs inside Apache; `imd/`, `cdbi/`, `scripts/` are programs
around the library.

### How they interact

* `dict.c` keeps its entries in a skip list. It uses the list in two ways: the
  look up before it owns DICT_LOCK is a search beside everything else, all
  changes happen under DICT_LOCK. `Dict` is therefore a model over what
  `SkipMap` promises, and `SkipList` is shown to keep that promise.
* `neo_err.c` is below everything; each call returns an error chain. In the
  models an error is an outcome of a call (`nomem` in `SkipList` and `Dict`; `bad`, `none` and `full` in `Hdf`; `cs.err`,
  `cgi.err` and the like later).
* `neo_hdf.c` keeps nodes of long levels in a table of `neo_hash.c`, used as
  a partial function from names to nodes.
* `csparse.c` and `cgi.c` read and write one HDF of the request; the local
  variables of a template are pointers into that HDF.
* `rcfs.c` and `neo_server.c` use the file locks of `ulocks.c`; `rcfs.c` keeps its
  log in the text form of HDF.
* `cgi.c` and `rfc2388.c` share the record of a request, its open files and its
  data set; `rfc2388.c` keeps the length of a boundary for the life of the process.
* `csparse.c` asks `neo_auto.c` to escape what it outputs, which asks the HTML
  parser (vendored) where in the page it stands.

### What is hard

Threads meet in the skip list and the dictionary (searches without a lock
beside writers, deferred freeing, entries looked up before the mutex is taken),
in `neo_err.c` (initialisation) and in `hdf_write_file_atomic` (a counter).
Processes meet in `rcfs.c`, `neo_server.c` and the files. The rest is
sequential; what is hard there is long sequences of calls that disturb caches
of pointers (HDF), indices and resizes (hash table, list), nesting and early
returns (templates), buffers at their limits (`neo_net.c`, `rfc2388.c`,
`neo_str.c`), and columns that move under rows (`wdb.c`).
`PROJECT.json` lists each hazard with its line and the properties about it.

## Modules

A client of a library is a *program*: for every thread, the set of calls it may
make. `Clients` (or `Programs`, `Requests`) is a set of them, and a variable says which one
a behaviour belongs to. So one run explores several programs and their behaviours
do not mix. Parts that share no state are instances of one MC module in the same way:
the variable `part` says which of them moves, and the others stay at their initial state.

### Threads and data

| module | models | correspondence |
|---|---|---|
| `SkipLock` | `skiplist.c` 70-237: readLock, readUnlock, readBlock, readUnblock, writeLock, writeUnlock, skipWriteUnlock, skipFlushDeleted | The variables are the fields of `skipList_struct`. A section that takes `list->read` and gives it back without waiting is one step. `pc[t]` names the place in the code; a thread in cWait is at `rwait` or `fwait`, a woken one at `rwoken` or `fwoken` until it has the mutex again. `cached` is a counter here. |
| `SkipMap` | what `skiplist.h` promises | a map; each call takes effect in one step between call and return. A search may give any answer that was right at a moment of the call (`seen`). `AllocFirst` says whether memory may run out also for a key that is there. |
| `SkipList` | `skiplist.c` 239-624, each load of a search and each store of a writer one step | `item` is the memory in use, so a step that reads outside `DOMAIN item` is a use of freed memory. `Wild` is what malloc leaves in a pointer. Each action is an action of `SkipLock` and what it does to the list. `deleted` is the set of cached items, since a flush visits all of them. `ImplementsMap` maps the list to `SkipMap` by `Contents`. |
| `Dict` | `dict.c` 142-532 | `entry` holds the entries in memory with their item of the skip list (`linked`, `locks`); calls of the skip list are the steps `SkipMap` promises. `mList` is DICT_LOCK. `me[t]` are the locals of the call. A thread whose search or iteration asked for the lock stays at `held` until it calls dictReleaseLock. |
| `DictMap` | the refinement of `SkipMap` by `Dict`, ids for keys | `Content` reads the values of all ids off the entries. |
| `HdfTree` | what `neo_hdf.h` promises: a tree of named nodes with values, links and an order | `tree` maps paths to values, `order` gives the children of each. |
| `Hdf` | `neo_hdf.c` 59-294, 388-461, 557-1099 | `heap` maps addresses to nodes with the fields of `struct _hdf`. A hash table is the set of the nodes it holds. `shares` is the owner of a string that a node points to and does not own (`alloc_value` 0). A call is one step: the library is not reentrant on one data set. |
| `Loop` | nothing of its own | a loop as its body applied over and over. `Hdf` takes it for every walk (a list, a path with its links) and for `_walk_hdf`, `_set_value` and `_copy_nodes`, so that it needs no recursive operator and can be reasoned about. |
| `HdfAsTree` | the refinement of `HdfTree` by `Hdf` | a node is known by its path from the top (`Places`). |
| `HdfAttr` | `_merge_attr`, `_copy_attr` and hdf_set_attr | an attribute list is a sequence of pairs. |
| `HdfText` | `neo_hdf.c` 1104-1879: hdf_dump in its three shapes, `_hdf_read_string`, includes, hdf_search_path, hdf_write_file, hdf_write_file_atomic | A data set is written by one step per file operation, then read: `frames` is the C stack of `_hdf_read_string` (a brace or a file with what is left of it), one line a step. `folder`/`disk` are the files, with the temporary one. |
| `NeHash` | `neo_hash.c` | buckets as chains; an insert does the chain, the counter (which an update advances too) and the doubling in one step. A walk by ne_hash_next is a client beside inserts and removals. |
| `UList` | `ulist.c` | slots in an array that realloc enlarges; the slots nobody wrote hold `Garbage`. |
| `Errors` | `neo_err.c`: nerr_init by several threads, then raise, pass, handle, ignore | `registry` holds Inited, InitLock, the list of names and the codes; `err[t]` the chain of a thread, `heap` the nodes in use. |
| `StrBuf` | the STRING of `neo_str.c` | buffer, max, len as in the struct; `said` is the text that the calls put together. |

### Files, processes, streams

| module | models | correspondence |
|---|---|---|
| `Rcfs` | `rcfs.c`, with ne_load_file and the file lock it uses | a process is at one of the system calls of rcfs_save, rcfs_load, rcfs_meta_save; a crash may come before any of them and releases the lock; a load reads what stat said a file is long. |
| `Server` | `neo_server.c` | parent and children at their system calls; the accept lock goes with its process; `queue` is the backlog of the listener. |
| `Filter` | `filter.c` | the ends of pipes that each process holds, made one after the other, inherited at fork, closed. |
| `Net` | `neo_net.c` | two NSOCK records with their buffers, between them a wire that takes and gives any part; a program of writes and reads for each. |
| `Wdb` | `wdb.c` | the definition as lines of text, the table in memory, packed rows under disk numbers; one row, one cursor, alterations between their calls, crashes. Berkeley DB is a map. |

### Templates

| module | models | correspondence |
|---|---|---|
| `CsParse` | the parser of `csparse.c`: cs_parse_string_internal, the command handlers, the stack of open commands, includes and evar, macros, escape blocks | the text is chosen while it is read: a step takes any command of the alphabet, or the end. `parse->next` is the place where the next node is linked. |
| `CsExpr` | parse_expr2 | a recursive function on sequences of tokens; `Readings` is the grammar as a set of trees. |
| `CsEval` | arg_eval, eval_expr_*, loop counts, the built-in functions on values | numbers have bounds `INT_MAX`, `LONG_MAX`, `UINT_MAX` at which the code's own checks apply. |
| `CsRender` | render_node and the `_eval` handlers | `cs.frames` is the C stack, `cs.locals` the chain of local maps, which are pointers into the data set or values of their own; the mark of an escape status travels with them. |

### CGI kit and strings

| module | models | correspondence |
|---|---|---|
| `NeoStr`, `NeoAuto` | the escaping and unescaping functions, URL validation, stripping and splitting; neos_auto_escape | functions on sequences of characters; a class of characters that the code treats alike is one character. The HTML parser is an input. |
| `CgiForm` | query strings, forms, cookies, content types, header attributes; white space stripping, encodings, redirects, cookie domains | functions; the forms write into a data set, `HdfSetValue` as hdf_set_value does. |
| `Cgi` | cgi_init, cgi_parse with callbacks, forms, PUT; `rfc2388.c`; cgi_destroy | a step of an upload is one call of `_read_line`, on a buffer with its position, refilled by reads of any length. `cache` is the static length of a boundary. |

`SkipListProofs`, `DictProofs`, `RcfsProofs`, `UtilProofs`, `HdfProofs` and `TemplateProofs`
hold the theorems, `ListLemmas` what they share about sequences and `LoopProofs` what `Loop` computes. The modules `MC...` hold the programs, alphabets and texts of the
runs and the properties about them, with reference definitions written independently of the code
(the grammar of expressions, the tree a text stands for, the parts of a multipart body).

Definitions whose comment starts with *Mutant*, and those named as the `as` of a
mutant in `PROJECT.json`, are wrong on purpose: each property has one that breaks
it.

### What the models abstract

* Skip list: pointers are words that are read and written at once, and stores
  become visible in program order. malloc may fail or hand out a free block; which
  one makes no difference, since blocks differ in nothing else. A thread holds at most one value
  lock. skipFreeList, and lists that are not threaded, are left out.
* Dictionary: the list is what `SkipMap` promises. That holds of its use here:
  searches and insertions by `ImplementsMap` of `SkipList`; skipNext beside
  deletions does not keep the promise (run `skiplist_next`), but entries are
  deleted by dictCleanup only, under DICT_LOCK, and dictNext beside dictCleanup
  is not in the programs. A flush waits for readers only and a reader inside the
  list never waits for DICT_LOCK, so no wait is hidden by taking the list's calls
  as steps. dictModifyValue calls its client's callbacks under DICT_LOCK: each may
  fail, and there may be none to create an item.
* HDF: names are sequences of components and values are opaque, except those of
  links, which are names. A loop that has not ended after `MaxSteps` iterations, as on
  links in a circle, is taken never to return: the call ends in `dead`
  or, when it allocates (a copy into its own descendant), in `full`. Allocation of nodes may fail, that of hash
  tables and strings does not.
* Texts: a word that the code compares as a whole (`#include`, `textarea`, a
  content type, an entity) is one character. Lines are shorter than the fixed buffers
  they are copied to, except in `Cgi` and `StrBuf`, which are about those buffers.
* Expressions: a terminal is its class, since the split only looks at operators and
  groups. Rendering: values are texts of a few characters, names are short paths; an
  operator inside a rendered expression is that of `CsEval`.
* Failing calls: where the error paths of a function close what it had opened and differ in nothing else (filter.c:71-104,
  135-154, neo_net.c:50-269), the closing is part of the failing step.
* Files: a file is the sequence of its lines or blocks. A write that fails leaves a
  part; a crash ends a process between two system calls and loses nothing that was
  written (no model of a crash of the machine).

## Runs

| run | cfg | shows | states |
|---|---|---|---|
| `locks` | Locks | skip list: counters, flags and mutexes consistent with spurious wakeups, no search sleeps for ever, every flush is carried out; dictionary: every call returns | 28 k |
| `skiplock_flush` | SkipLockFlushAlone | *violation*: a search inside the list while items are freed | — |
| `skiplist_flush` | SkipListFlush | no use of freed memory, value locks respected, levels well formed at each store, no item lost, linearizable, with a flush after every deletion | 497 k |
| `skiplist_grow` | SkipListGrow | three threads at once; searches that stand on deleted items; skipNext beside insertions | 359 k |
| `skiplist_next` | SkipListNext | *violation*: skipNext goes back | — |
| `dict` | Dict | without cleanups the dictionary is a map with atomic calls, dictNext goes forward; beside dictCleanup answers are right, marks and locks exact, one entry per hash; callbacks of dictModifyValue that fail | 417 k |
| `dict_set` | DictSet | *violation*: dictSetValue succeeds and stores nothing | — |
| `hdf` | Hdf | lists, cache, hash table and last_child agree; reads and writes agree; the data set is an ordered tree; shared strings and attributes | 27 k |
| `hdf_set_copy` | HdfSetCopy | *violation*: a copied value dangles | — |
| `templates` | Templates | parser, expressions, operators, renderer | 551 k |
| `cgi` | Cgi | requests of all methods, uploads that fail anywhere, forms in pieces; string functions on all short texts; the preforking server | 328 k |
| `util` | Util | version store, filters, streams, errors, table store, text form, hash table, list, STRING | 490 k |

What to look for in them:

* `ImplementsMap` (skip list) is linearizability: `SkipMap` lets an update take
  effect once, between call and return, and a search answer with what was right
  at a moment of its call.
* `MemorySound` is memory safety of the list: nothing is lost, nothing is freed
  that is in use, nothing freed is used. `ListWellFormed` holds at each store; its
  part `PredecessorLinked` is why skipLock validates after it has the mutex: without
  that a store goes into a deleted item and the update is lost.
* `AnswersWereRight` is weaker than `ImplementsMap`, since dictCleanup takes ids
  out that no client removed: a search answers with a value of its time.
* `ImplementsTree` says of each call of `Hdf`, success and failure, what the
  plain tree does; `ReadsAgree` says it of the readers.
* `TreeIsTheText` compares the tree that the parser builds through its one moving
  pointer with the text, included texts and errors among it; `EscapeFollowsNesting` says
  that a command has the escape mode of the block around it. `ParserSound` also holds after an error that an include
  has taken for its missing file, when the tree is no longer the text: no pointer to a node is overwritten.
* `ParseExact` compares the split at the weakest operator with a grammar, `NumbersExact` the
  operators with unbounded integers, and the comparisons with each other.
* `BlocksSound`: as long as no render has failed, the locals and the depth are after any block
  what they were before it. After an error they may not be (csparse.c:3648, 3660), and the property
  says nothing. A parameter that stands for a variable stands for the same one
  during the whole call. `TaintSound` and `NoRawData`: no value of the data set is output
  unescaped under automatic escaping, again until a render fails.
* `RenderEnds`: every render ends, but for a text of `lvar` that comes to be rendered inside itself with
  neither a call nor an iteration in between. No limit counts that; the process dies of its stack.
* `RequestsServed`: the parts of a whole upload arrive as they were sent, unless the length of an earlier
  request's boundary is used; however a request ends, every file is closed once and none stays on the
  disk, but for one whose fdopen failed or whose name found no memory; every request comes to an end, but for a PUT
  that is shorter than it says, and one of these ends may be that a read without a limit overruns the buffer.
  `FormsAreRead`: every variable is there in order. `OutputExact`: what is escaped for URLs, scripts and HTML
  reads back and does not end the place it is put in.
* `StoreSound`: what rcfs_save has promised stays, and loads, which take no lock, give
  whole versions. `TableExact`: rows keep their values while columns move; a whole definition that
  reads back is on the disk at any time, until it is `torn`.
  `TextExact`: a data set reads back from its text. `NetSound`: streams deliver in
  order, the two ends never wait for each other, descriptors are closed. Their exceptions are
  listed below as disagreements, each at its line.

### Bounds and why they are enough

* `SkipLock`: three threads are needed for a searcher, a flusher and a second
  flusher to overlap; a fourth adds nothing new, and the theorems hold for every
  number. `MaxCached` ends the growth of a counter that only matters through its
  comparison with `FlushLimit`.
* `SkipList`: two levels are enough for "linked below, not yet above"; two keys
  (three for scans) for predecessor and successor. Flushes are only in the runs
  with two threads: with three the code frees items under a search
  (`skiplock_flush`), after which no property of the list can hold; with two
  `FlushAlone` is a theorem. The runs with three threads set `FlushLimit` to the
  number of items that can be cached, so nothing is flushed. Two blocks make
  freed memory be used again at once. Spurious wakeups are off for the same
  reason as flushes with three threads.
* `Dict`: ids `a` and `b` fall into one entry, `c` into another. Three cells let
  one entry be in the list, one cached and one new. `FlushLimit` 0 frees entries
  as early as possible. `MaxLocks` ends the growth of locks that dictNext leaves; no theorem needs it.
* `Hdf`: four nodes are a level of three below the top, or two levels. With them every loop that
  ends has ended before `MaxSteps` 16. `HashAt`
  is 0 (5 in the last run), so a level gets its hash table with its second node.
  Calls are chosen by the hazards; names end or begin with an empty component
  where the code has a case for it. The last call is hidden by the view `Seen`: it
  does not decide what comes next. TLC still evaluates action properties on every
  step it generates from a state.
* `HdfText`: values with each of the shapes that the dump and the reader treat
  differently (lines, the terminator inside, blanks, a link, quoted attributes), in three dump shapes,
  written and read twice (`Rounds`); texts with every kind of line and includes that
  nest to the depth limit (`IncludeMaxDepth` 2 for 50), with `hdf.loadpaths` set at the top or below
  the node that an include is read into.
* `NeHash` starts with four buckets, two of three keys move when it doubles. `UList` starts with one slot and
  is enlarged three times. `StrBuf` has buffers of 3 (for 256) that double twice, and
  one allocation that fails, in any call.
* `Net`: buffers of 3 and a wire of 4, so that values and headers are cut at
  every place; one failure. `Rcfs`: two processes, three calls, one crash and one
  failed write between any two steps: enough for a save that meets the leftovers of
  another and a load across both. `Server`: two children in three slots, two deaths, a failing fork, four
  connections of which some cannot be served, and the debug mode with one child. `Filter`: two filters, one failing call. `Errors`: two threads, three names. `Wdb`: two alterations
  or failing saves, and crashes, between up to four calls on one row, one reopening: enough for a save that
  meets the two names that an earlier one left. Titles change first, since they
  commute with the rest; a table that is spoilt is not opened again, since nothing is promised of it.
* `CsParse`: every text of up to five commands (three or four for the larger ones) over six
  alphabets, two texts by one parser, includes nested to a depth of 2. `CsExpr`: five tokens
  (four for what a set assigns to), so that two operators and a group meet. `CsEval`: widths of 2 to 4 bits, at which every
  pair of operands is tried and every check for overflow is reached. `CsRender`: two nested blocks of every kind around every
  pair of commands; limits of 3 on depth and a few iterations; `C_STACK`, the texts of lvar inside one another that
  there is room for, is 7, more than the limits let any other recursion reach.
* `Cgi`: a buffer of 15 characters, so that boundaries are cut at every place and a body may be longer than the buffer;
  Content-Lengths that fit, are too long, 0 or missing; a second request in the same process, whose boundary is at the
  same or the other of two addresses and may be shorter or longer, for what is static. Strings of up to 5 characters of the classes
  that the functions tell apart.
* CHECK_DEADLOCK is off for `Hdf`, where a call that kills the process is
  the end, and for `templates`, `cgi` and `util`, where programs come to their end.

## Fairness

`SkipLock`: weak fairness of the steps of each thread that is in a call. Nothing
is assumed of the order in which a mutex is granted, and a client may stay
outside for ever. Spurious wakeups come to an end: searches that are woken one
after another without cause pass the test of `block` and can keep a waiting
flusher from its signal for ever.

`Dict`: weak fairness of the steps inside a call, among them the client's call of
dictReleaseLock, which dict.h asks for. Strong fairness of taking DICT_LOCK: a
thread that finds it free again and again gets it.

`Server`: weak fairness of the parent and of each child: processes run. Deaths of children and failing forks are bounded
and not forced; connections come as they like.

`CsRender`: weak fairness of the one step there is: a render that can go on does.

That a request ends is an invariant, `RequestEnds` in `RequestsServed`: it takes no more steps than its
length allows. The other modules make safety statements only.

## Proofs

TLAPS checks these theorems. They hold for all sets of threads, keys, ids, values, processes and names,
for all limits and bounds, and for all programs that the assumption of a module admits. What the runs check of
the same properties is in the last column.

| module | theorem | says | run |
|---|---|---|---|
| `SkipListProofs` | `TypeCorrect` | types | |
| | `ReadersAreExact`, `OneFlusherAtATime`, `BlockHasOneOwner` | `ReadersExact`, `OneFlusher`, `BlockOwned` | `locks` |
| | `MutexesHaveOneOwner` | `MutexesOwned` | |
| | `FlushAloneInPair` | `FlushAlone` for at most two threads without spurious wakeups | |
| | `ListFollowsLocks` | the list refines the protocol: `ListSpec => LockSpec` | |
| | `ListFlushesAlone` | `FlushAlone` of the list, for such a pair | `skiplist_flush` |
| | `ListIsWellFormed`, `ListMemoryIsSound` | `ListWellFormed`, `MemorySound`, under `[]FlushAlone` | `skiplist_flush` |
| | `PairIsWellFormed` | both, for such a pair, without the proviso | `skiplist_flush` |
| | `ListIsMap`, `NextIsLarger` | `ImplementsMap`, `NextLarger`, under `[]FlushAlone` and `ScansApart` | `skiplist_flush`, `skiplist_grow` |
| | `PairIsMap` | both, for such a pair, under `ScansApart` only | `skiplist_flush` |
| `DictProofs` | `EntriesAreSound`, `NextIsForward` | `EntriesSound`, `NextForward` | `dict` |
| | `SearchesAreRight`, `DictIsMap` | `AnswersWereRight`, `ImplementsMap` of `DictMap` | `dict` |
| `RcfsProofs` | `StoreIsSound` | `StoreSound` | `util` |
| `HdfProofs` | `HeapIsSound` | `HeapSound` | `hdf` |
| `TemplateProofs` | `ParserIsSound` | `ParserSound` | `templates` |
| | `ParserInvariant` | the pointers of the parser and of its open blocks are empty and apart | |
| `UtilProofs` | `ErrorsAreExact`, `FiltersAreSound` | `ErrorsExact`, `FiltersSound` (a part of `NetSound`) | `util` |

### The protocol of the skip list

The inductive invariant is `LockInv`. None of its
parts is inductive alone: that `flushing` has one owner needs `FlushMarked`, since
the flag is set and cleared under different mutexes and only the local `flush`
tells whose it is; that the test of `flushing` is not passed twice needs
`MutexesOwned`, since it is under `list->write`; `BlockOwned` needs `OneFlusher`,
since readBlock does not test `block`; `ReadersExact` gives that the counter is
positive before it is decremented, which `LockTypeOK` needs. The proof of the step has a
lemma for each action. `FlushAloneInPair` adds `WokenAlone`: a woken flusher was
woken by a search that has left, and with two threads that is the only other one.

### The items of the skip list

The code frees deleted items where it claims that nobody is inside the list. Run
`skiplock_flush` refutes the claim for three threads, so nothing about the list
holds for them without it: the theorems are implications from `[]FlushAlone`. It is
satisfied by every pair of threads, for which it is a theorem, and by every program whose
deletions stay below the flush limit; the runs with two and with three threads are of these kinds.

`ListInv` is `LockInv` and the existence of two ghosts, which the steps of the proof name:
`L[i]` are the items linked on level i, `G` those that a search may stand on or come
to, in the list or deleted and not yet freed. `Levelled` says that each `L[i]` is a chain
in the order of keys from the header to the tail and part of `L[i - 1]`; `Walkable` that
from every item of `G` every pointer leads into `G`, forward into the list or, once
an item is deleted, back to what was before it. `ThreadOK` ties the local variables of each
thread to `G` and `L`: what a search stands on, what an update has saved on each level
(its `save` may be stale while it waits, and is walked forward from), how much of an insertion or deletion is stored. An item
enters `L[0]` at the first publishing store of an insertion and leaves it at the last unlinking store of a deletion:
that store is where the call takes effect for the searches that overlap it.

### The skip list is a map

`MapShape` adds to that `History`, which says of each search what its history variable
`seen` holds: every answer that was right since its call began, the one that is right
now, and the one that it is about to give. The point is where a search stands on an item that was
deleted under it: the items it has passed were smaller than its key at the time, so
what it comes to next in the list is right now, or was while it was on its way.
The list's steps that change `Contents` are then the atomic steps of `SkipMap`, and the others stutter.

This fails for skipNext: it goes on from an item with the key it was given, which may since have been
deleted (run `skiplist_next`) or, when it is overwritten, replaced by another of the
same key. `ScansApart` is the condition that no program calls skipNext beside deletions and overwriting
insertions. The programs of `skiplist_flush` and `skiplist_grow` satisfy it.

### The dictionary

`DictInv` says for each step of a call what the thread holds (`MutexOwned`), where it
stands (`PlaceFits`) and what the one cleanup has seen (`CleanerFits`), that the locks of an entry count
the threads that stand on it, and `Marked`, which is stronger than `DeletedIsMarked`: the mark and the list disagree
at one place only, between dictCleanup's store of the mark and its skipDelete. `MapInv` adds what relates entries to the map
(`Emptied`, `Present`, `StatusFits`) and what a search has seen. `Content` is a function defined by CHOOSE over
items; the lemma on it says that the choice is unique by `OneHome`.

Assumed (`DictAssumption`): in each program at most one thread cleans up, since two cleanups delete
entries that are not theirs (below). `DictIsMap` says that `ImplementsMap` holds and, in
terms of behaviours, that one in which no thread of the program cleans up is a behaviour of `SkipMap`: a cleanup takes ids out that no
client removed, and nothing is claimed of the map beside it. What holds beside a cleanup is `SearchesAreRight`.

### The data set

`Sound` is the inductive invariant of the heap: `IsHeap` (types), `Shape`, `Shortcuts` and `Shares`.
`HeapSound`, which the run checks, follows from it. `Shape` is what a reader of the code would draw:
the children of each node are one list that ends (`Levels`), no node is in two (`Apart`), every node but the top one is in
one (`Placing`), and every set of nodes that has the top one and the children of its members is all of them (`Joins`).
`Joins` is the part a local check would not think of. A pointer structure in which each node has one
parent may still hold a circle that is cut off from the top. A removal frees everything below a node; the list it unlinks the
node from survives because its parent is not below the node, which is what `Joins` gives.

`Shortcuts` says that `last_child` is the last of the list, that the hash table holds the list or is not there, and that
the pair (`last_hp`, `last_hs`) of `_walk_hdf` points into the list or nowhere. The cache is the delicate one: each call that
takes a node out, or makes a list anew, has to leave no pair behind that names a freed node. `Shares` says that a string a node
borrows (`alloc_value` 0) belongs to a node that is there.

There is a lemma for each helper of the code, which says that it takes a sound heap to a sound one and what else its callers rely
on: `Gains` (one node more, and all strings stay with their owners), `Takes` and `Frees` for a removal, `Given` for a
string that is written without a copy. A loop keeps `Sound` since its body does, by the lemmas of `LoopProofs`, whether it
ends within `MaxSteps` or not. The theorem has a step for each call.

Assumed (`HdfAssumption`, evaluated by TLC in run `hdf`): addresses are positive, names of calls are texts, and a copy names its source.

### The template parser

A handler writes its node through `parse->next` without a look at what was there. `ParserInv` says why nothing is lost:
every pointer leads to a node that no other leads to (`Whole`), and `parse->next`
is empty. This is not inductive, since closing a block sends `parse->next` back to a node that was made long before. So
`Nesting` says of each open block which pointers it will go back to (`Waiting`): `next` of its node, or of the first node
of an if with elif, and `case_1` of the last part while an else may come. They are empty and all
different, also from `parse->next`; a new node takes the place of `parse->next`, and what a block waits for
becomes `parse->next` when the block leaves the stack.

After an error `parse->next` may point at anything, and only `Whole` and the limit of includes are kept. An include takes
the error NOT_FOUND of any text below it for its own and the parser goes on: the proof shows that the handlers which raise that
error have not touched the tree, so that `Nesting` holds at that moment too (lemma `SettleKeeps`). Blocks that were left open stay on the
stack, and the block that ends next is one of them; `TreeIsTheText` excepts such texts for that reason, and `ParserSound` does not.

Assumed (`CsParseAssumption`, evaluated by TLC in run `templates`): the limit is a natural number, and the commands of a text are
those of the table `Commands`; any other is `BadTag`.

### The version store

`RcfsInv` says of each process where its call is (`CallFits`), that who is past the lock knows the latest version and
has written what it says (`WriterFits`), that a load knows a version which was the latest
since it began, and its length (`ReaderFits`), that the log lists exactly what was saved, and the
versions hold it. A version number that a failed or dead save left a file under (`remnants`) is excepted until
nothing promises it, and a log that a full disk has cut (`cut`) ends all promises, as in the property.
Assumed (`RcfsAssumption`, evaluated by TLC in run `util`): the lines that list versions are distinct and are no line of a Meta node.

### Errors and filters

`ErrorsInv`: whoever is between mLock and mUnlock holds InitLock, a failure keeps it for ever, and
so one thread registers; it has registered a first part of the names, and all when Inited is set,
after which nothing changes them. A chain is InternalPass up to its last code. The nodes in use are counted by a
set of pairs of a thread and a place.

`FilterInv`: filters are created in their order, an open end is one of a filter that was created, a child inherits the inputs of
earlier filters. That some filter can end then follows from the one created last, which nobody else holds open.
Assumed (`FiltersAssumption`, evaluated by TLC in run `util`): the number of filters is a natural number.

### Model-checked only

* Liveness (`SearchResumes`, `FlushCompletes`, `CallsReturn`, `ConnectionsServed`, `RenderEnds`): out of reach of the prover, as is ENABLED (`NeverBothWait`).
* What recursive definitions compute for every input needs induction over data: `CsExpr`, `NeoStr`, `NeoAuto`, `CgiForm`.
* `HdfTree`, `HdfText`, `CsExpr`, `CsRender` use recursive operators for walks over nodes, texts and nested
  commands, which the prover cannot reason about: `ReadsAgree`, `ImplementsTree` (both in `HdfAsTree`), `TreeIsTheText`,
  `EscapeFollowsNesting`, `BlocksSound`, `TaintSound`,
  `NoRawData`, `TextExact`.
* `Cgi`, `Wdb`, `Net`, `Server`, `NeHash`, `UList`, `StrBuf`: no theorem yet.

## Disagreements with comments and headers

Shown by runs:

* `skiplock_flush`: skiplist.c:227 says that no readers or writers are active
  before the flush; readLock and readBlock wait with `if`.
* `skiplist_next`: skiplist.h:83 says that skipNext finds the next larger key; an
  item deleted under it leads it back.
* `dict_set`: dict.h:120 says that dictSetValue creates what is not there; beside
  dictCleanup it may return STATUS_OK without storing.
* `hdf_set_copy`: neo_hdf.h:417 says that the value is copied; the pointer is.

Met while modelling, without a run. The models do what the code does; where a property
would fail because of it, the property names the exception (`spoilt`, `remnants`, `cut`,
`Ambiguous`, `Kept`, `Starved`, `aborted`, `torn`, `killed`, `left`, `Stale`), or the case is kept out of the programs, as said here.

Dictionary and HDF

* dictCleanup deletes by key (dict.c:371): of two cleanups that stand on one
  emptied entry the slower one deletes an entry that was inserted in between. The
  programs have one cleanup.
* dictNext overwrites the lock it holds when it goes to the next entry
  (dict.c:482), so the entry before stays locked for ever; and it ends at an entry
  that dictRemove has emptied (dict.c:435).
* hdf_set_value by the name of a link replaces the link (neo_hdf.c:796), where
  neo_hdf.h:448 says that any access walks to the destination.
* A link without a value would read as the top node (neo_hdf.c:211-215). No call makes one; the model ends the process there.
* hdf_set_attr with a NULL value, on a node that has attributes but not that one,
  calls strdup(NULL) (neo_hdf.c:456).
* Text form: an attribute "1" reads back empty, since it is dumped as a bare name (:1188,
  :1494); nodes without value, and their attributes, are lost; a value of several lines gains
  a final newline, and one on a link makes it plain; a value that holds its own terminator on the
  first line, before a blank, or at the end of a short value is cut there (:1208); a stray `}` ends an included file
  without an error (:1616), as does the end of a text inside braces.
* A data set that is read stays half changed when the text is bad in the middle (:1769), and
  hdf_write_file truncates the file before it writes (:1293).

Errors, containers, strings

* INTERNAL_ERR_INT is 1, which is the code of the first registered name, NERR_PASS: nerr_handle of
  INTERNAL_ERR_INT takes every passed-on error (neo_err.h:24, neo_err.c:403).
* nerr_init returns with InitLock held when a registration fails (neo_err.c:487-515).
* ne_hash_insert counts updates as entries (neo_hash.c:98), so a table grows early; `_hash_resize`
  turns the order of moved entries around, so a walk across it may skip or repeat keys.
* uListInsert, uListDelete and uListSet do not refuse positions before the beginning (ulist.c:132-203), and
  uListInsert refuses the position after the end. The programs give none before the beginning.
* string_set that runs out of memory leaves length 0 and the old text; a first buffer that cannot be allocated
  leaves `max` set without one (neo_str.c:102-108), which the next call sets anew; string_readline at the end of a file, on a
  new string, leaves a buffer without an end of string (neo_str.c:435-451).
* neos_html_escape drops carriage returns and writes `'` as `&#39;` (neo_str.c:881), which neos_unescape and
  its kin do not read back: what `OutputExact` reads HTML with is what a browser does.
* neos_auto_check_number: its comment allows spaces, and promises once "null" and once "_" for what is no number; the code
  refuses spaces and writes "null" (neo_auto.c:241-311). The empty text and "e" are numbers.
* neos_auto_reset does not clear is_json (neo_auto.h:81 says "Re-initialize"), so a parser that has seen a JSON content type
  keeps its escapes.

Processes and files

* rcfs_save returns with the lock held when the log cannot be read (rcfs.c:145), and opens a version file without truncating
  it (:157): a longer file that a broken save left under that number shows through. Errors of fclose go unnoticed
  (neo_hdf.c:1293); a log cut by a full disk loses versions.
* ne_load_file reads as much as stat said: a load of a version by number, beside its save, may be empty.
* SIGTERM between the test of ShutdownPending and wait3 waits until a child ends (neo_server.c:177). A failing fork ends
  the parent and leaves the children.
* A failed ne_net_flush keeps what it has sent, and ne_net_close sends it again (neo_net.c:401). ne_net_read_line
  leaves the newline in the stream (:442). A NULL is written with a comma that its reader does not take
  (:528). `_ne_net_read_int` compares a byte that was never read at the end of file (:501), and
  a number of 32 digits runs over the end of its buffer (:499-505); no program sends one.
* filter_create_fp loses descriptors and child when fdopen fails (filter.c:198-221); a child holds the inputs of the filters
  created before it.
* wdb_save_defn removes the old definition before it links the new one (wdb.c:468). After the link (:471) both names are one
  file until the new name is removed (:474). When the save ends in between, the next one's fopen for writing (:456) empties the file under
  both names, and no whole definition is left if that save does not finish. When the link fails, only the new name is left, which
  wdb_open never looks at.
* Writes of the definition fail unnoticed: fprintf's results are tested for 0 where a failure is negative (:339-390), a
  write that is found to fail returns success (:401), and fclose is not looked at, so that a cut definition may replace a
  whole one. wdb_save returns STATUS_OK whatever happens (:521-528).
* wdb_column_delete does not index the columns anew (:941);
  an insertion that fails in the middle leaves a column behind (:848); after a crash an unsaved column's disk number is given
  out again; unpack_row reads past a row that is shorter than its columns (:775); a row is
  written without a look at table_version.

Templates

* A set that is refused, on a node of the global data, has by then marked the value as trusted (csparse.c:1064-1099, against the
  comment at :1247). `NoRawData` ends at the first render that fails.
* An each that returns early leaves `parse->locals` on a map of its stack frame (:3648, :3660); the
  depth is not taken back after an error, so later renders of the same parser have less.
* An lvar parses and renders its text without raising the depth that calls and includes are counted by, and without a limit of its own
  (:3192-3281): a text that holds an lvar of itself recurses until the C stack is gone.
* The commands of lvar and linclude texts start with no escape mode (:5267): the mode of a call around them is lost.
* A call of html_escape marks the whole expression as escaped (:2930): `html_escape(a) + b` outputs b as it is.
* An included file may close a block of the file around it (:792).
* A loop variable that its body sets becomes a string that later iterations no longer see (:1109).
* A text number with a leading 0 is octal in an expression and decimal as a variable.

CGI kit

* Callbacks after one that handled the request, and the builtin handler, run as well (cgi.c:821-846).
* The length of a boundary is kept by the address of the boundary (rfc2388.c:246-254): a second request of a process may use the
  length of the first.
* A multipart request without Content-Length reads -1 bytes at a time (rfc2388.c:559, 564, 167-171; the comment at
  :158 expects the length to be there): cgiwrap_read is left to refuse that or to overrun the buffer. A Content-Length of 0 counts as no limit.
* A file whose fdopen fails stays on the disk, closed and unknown to cgi_destroy (rfc2388.c:314-319). One whose name cannot be kept
  is closed by open_upload and again by cgi_destroy, and stays on the disk too (:345-353).
* A short read ends a line (rfc2388.c:158-195), so a boundary that it cuts is not seen; a line that is
  too long may be cut between its carriage return and newline. A body that breaks off is accepted.
* A PUT whose body ends before Content-Length reads for ever (cgi.c:893-906); a
  negative result of cgiwrap_read is given to fwrite as a size (:901), which fails or runs past the buffer.
* A query "?=foo" sets Query._0, where the comment says _1 (cgi.c:311). An empty attribute (";;") in a content type fails the
  assertion of `_header_attr`.

## What is not modelled

`PROJECT.json` lists every component with its status. The hash table, the growing list, errors, the
subprocess filters, the network streams, the preforking server and the version store are modelled with every
operation. The others leave out some call that changes state, named in their notes: mostly the
ones that tear down (skipFreeList, dictDestroy, hdf_destroy) and thin variants of modelled
calls (printf-style setters).

Left out for good: vendored code (`hsregex`, the HTML parser behind automatic escaping, `snprintf.c`,
`wildmat.c`), text formatting (`html.c`, dates), Berkeley DB, the sorting and searching of libc, compression, the language
bindings, the Apache module, example programs, the gallery, generators and scripts. They either keep no state
that a property could be about, or need the API of a program that is not here.

Left out because the code has no defined outcome: positions before the beginning of a list, two cleanups on one dictionary.

Not modelled but within reach: allocation failures in `rfc2388.c` and the renderer; user functions of templates; the cursors
of several rows at once.

## Plan

Done: all modules above, in the order threads, data, files and processes, templates, CGI kit.

Theorems worth proving next, with what stands in the way:

1. `UList`: each call keeps `ListIsSequence`; lemmas on SubSeq and shifted slots. Its reversal is a fold, which needs
   induction and stays with TLC.
2. `Wdb`: the disk numbers of a table are different, then `RowsExact`.
3. `Net`: `NoDescriptorLost`; `Server`: the accept lock has one owner.
4. `StrBuf`: `TextBuilt`, by an invariant on the buffer and its length.

--------------------------------- MODULE Wdb ---------------------------------
(***************************************************************************)
(* The table store of util/wdb.c: a definition file that names the columns *)
(* and a Berkeley DB file of packed rows.  A column has a number on disk,  *)
(* for the life of the table, and a position in the rows in memory.        *)
(*                                                                         *)
(* A program has one table open, one row and one cursor.  table_version is *)
(* a random number: here a row or a cursor is fresh while it is the        *)
(* table's.  Strings are sequences of characters, and so are the lines of  *)
(* the definition, in which the words the code writes are characters too.  *)
(* A field is a string, a number, or "0" for the zero word (NULL and 0).   *)
(***************************************************************************)
EXTENDS Integers, Sequences, SequencesExt, NeoStr

CONSTANTS
  Names,           \* names of columns
  FirstNames,      \* the columns wdb_create is given
  Titles,          \* what the table, its key and its attributes are set to
  Keys,            \* the keys of rows, 1 .. n in the order of the tree
  Values,          \* what fields of each type are set to: [s |-> ..., i |-> ...]
  MaxAlters,       \* bound on the changes to the definition and the failures of a save
  MaxRowCalls,     \* bound on the calls on rows
  MaxOpens         \* bound on the times the table is opened again

VARIABLES
  table,           \* the WDB, or NoTable
  files,           \* the definition, its new copy, whether these are one file, and the rows
  row,             \* the WDBRow the program has, or NoRow
  cursor,          \* the WDBCursor, or NoCursor
  past             \* history: what each row should hold, and the bounds

vars == <<table, files, row, cursor, past>>

NoTable == [open |-> FALSE]
NoRow == [key |-> 0]
NoCursor == [at |-> -1, fresh |-> FALSE]
Missing == <<>>
Numbers == 1 .. 9
Position(t, name) == SelectInSeq(t.cols, LAMBDA c : c.name = name)
HasColumn(t, name) == Position(t, name) # 0 \/ name \in t.orphans
-----------------------------------------------------------------------------
(* wdb_encode_str_alloc, wdb_decode_str_alloc; fprintf and atoi of a number.*)
WdbEncode(s) == Escape(s, {":", "%", " "}, LAMBDA c : <<"%">> \o HexOf(c))
WdbDecode(s) == Unescape(s, "%", FALSE)
Digit(n) == SubSeq(Hex, n + 1, n + 1)
NumberOf(s) == Nibble(s[1])

SaveDefn(t) ==
  <<<<"WDB-VERSION-200006301">>, <<"name", ":">> \o WdbEncode(t.name), <<"key", ":">> \o WdbEncode(t.key),
    <<"ondisk", ":">> \o Digit(t.last), <<"attributes">>>>
  \o [i \in DOMAIN t.attrs |-> WdbEncode(t.attrs[i].k) \o <<":">> \o WdbEncode(t.attrs[i].v)]
  \o <<<<"columns">>>>
  \o [i \in DOMAIN t.cols |-> WdbEncode(t.cols[i].name) \o <<":", t.cols[i].type, ":">> \o Digit(t.cols[i].disk)]

(* wdb_load_defn_v1: one line, in the state the lines before it have left.  *)
Required(d, line, k, v) ==
  IF line = <<"attributes">> THEN [d EXCEPT !.state = "attributes"]
  ELSE IF line = <<"columns">> THEN [d EXCEPT !.state = "columns"]
  ELSE IF v = <<>> THEN [d EXCEPT !.state = "error"]
  ELSE CASE k = <<"name">> -> [d EXCEPT !.t.name = WdbDecode(v)]
         [] k = <<"key">> -> [d EXCEPT !.t.key = WdbDecode(v)]
         [] k = <<"ondisk">> -> [d EXCEPT !.t.last = NumberOf(v)]
         [] OTHER -> d
Attribute(d, line, k, v) ==
  IF line = <<"columns">> THEN [d EXCEPT !.state = "columns"]
  ELSE IF k = line THEN [d EXCEPT !.state = "error"]
  ELSE [d EXCEPT !.t.attrs = Append(@, [k |-> WdbDecode(k), v |-> WdbDecode(v)])]
ColumnLine(d, k, v) ==
  LET disk == NumberOf(SubSeq(v, 3, Len(v)))
      mem == Len(d.t.cols) + 1
  IN  IF v = <<>> \/ disk = 0 THEN [d EXCEPT !.state = "error"]
      ELSE [d EXCEPT !.t.cols = Append(@, [name |-> WdbDecode(k), type |-> v[1], disk |-> disk, mem |-> mem]),
                     !.t.ondisk[disk] = mem]
LoadLine(d, line) ==
  LET colon == SelectInSeq(line, LAMBDA c : c = ":")
      k == IF colon = 0 THEN line ELSE SubSeq(line, 1, colon - 1)
      v == IF colon = 0 THEN <<>> ELSE SubSeq(line, colon + 1, Len(line))
  IN  CASE d.state = "required" -> Required(d, line, k, v)
        [] d.state = "attributes" -> Attribute(d, line, k, v)
        [] d.state = "columns" -> ColumnLine(d, k, v)
        [] OTHER -> d
Empty == [name |-> <<>>, key |-> <<>>, attrs |-> <<>>, cols |-> <<>>, orphans |-> {}, last |-> 0,
          ondisk |-> [n \in Numbers |-> 0]]
LoadDefn(text) ==
  IF text = <<>> \/ Head(text) # <<"WDB-VERSION-200006301">> THEN [state |-> "error", t |-> Empty]
  ELSE Fold(LoadLine, [state |-> "required", t |-> Empty], Tail(text))
-----------------------------------------------------------------------------
(* The file of a definition, with the identities of its columns and what    *)
(* was saved, for the properties.                                           *)
Persistent(t) == [name |-> t.name, key |-> t.key, attrs |-> t.attrs, last |-> t.last,
                  cols |-> [i \in DOMAIN t.cols |-> <<t.cols[i].name, t.cols[i].type, t.cols[i].disk>>]]
Written(t) == [text |-> SaveDefn(t), ids |-> [i \in DOMAIN t.cols |-> t.cols[i].id], was |-> Persistent(t)]
(* wdb_save_defn: a new copy is written, the definition unlinked, the new   *)
(* copy linked in its place and its first name unlinked.  Between the last  *)
(* two steps it has both names: fopen("w") of one cuts the other as well.   *)
Rewritten(new) == [files EXCEPT !.new = new, !.defn = IF files.linked THEN new ELSE @]
Unlinked(new) == [files EXCEPT !.new = new, !.defn = Missing, !.linked = FALSE]
Linked(new) == [files EXCEPT !.new = new, !.defn = new, !.linked = TRUE]
Saved(new) == [files EXCEPT !.defn = new, !.new = Missing, !.linked = FALSE]
HalfSaved(new) == {Rewritten(new), Unlinked(new), Linked(new), Saved(new)}
Cut(t) == {[Written(t) EXCEPT !.text = text] : text \in {<<>>, Front(SaveDefn(t))}}
OnlyCopy == files.linked \/ files.defn = Missing
(* What a save may end in.  A write that fails is not noticed: the cut copy *)
(* takes the place of the definition.  When the encoding of a name fails    *)
(* the new copy is removed; unlink, link and the last unlink may fail.      *)
Outcome(f, dirty, torn) == [files |-> f, dirty |-> dirty, torn |-> torn]
Failures(t) ==
  {Outcome(Saved(new), FALSE, TRUE) : new \in Cut(t)}
  \cup {Outcome([Rewritten(new) EXCEPT !.new = Missing, !.linked = FALSE], TRUE, OnlyCopy) : new \in Cut(t)}
  \cup {Outcome(Rewritten(Written(t)), TRUE, FALSE), Outcome(Unlinked(Written(t)), TRUE, FALSE),
        Outcome(Linked(Written(t)), FALSE, FALSE)}
Outcomes(t) == {Outcome(Saved(Written(t)), FALSE, FALSE)} \cup (IF past.alters < MaxAlters THEN Failures(t) ELSE {})

Stale(r) == IF r = NoRow THEN NoRow ELSE [r EXCEPT !.fresh = FALSE]
Altering == table.open /\ ~past.spoilt /\ past.alters < MaxAlters
Alter(t) == /\ past' = [past EXCEPT !.alters = @ + 1]
            /\ table' = [t EXCEPT !.dirty = TRUE]
            /\ row' = Stale(row)
            /\ cursor' = [cursor EXCEPT !.fresh = FALSE]
            /\ UNCHANGED files
Reindex(cols, ondisk) ==
  [n \in Numbers |-> LET i == SelectInSeq(cols, LAMBDA c : c.disk = n) IN IF i = 0 THEN ondisk[n] ELSE i]
NewColumn(name, type, mem) ==
  [id |-> past.ids + 1, name |-> name, type |-> type, disk |-> table.last, mem |-> mem]

(* wdb_column_insert.                                                       *)
ColumnAppend(name, type) ==
  LET c == NewColumn(name, type, Len(table.cols) + 1) IN
  /\ Altering /\ ~HasColumn(table, name)
  /\ table' = [table EXCEPT !.cols = Append(@, c), !.ondisk[c.disk] = c.mem, !.last = @ + 1, !.dirty = TRUE]
  /\ past' = [past EXCEPT !.alters = @ + 1, !.ids = @ + 1]
  /\ row' = Stale(row) /\ cursor' = [cursor EXCEPT !.fresh = FALSE]
  /\ UNCHANGED files
ColumnInsertOnly(loc, name, type) ==
  LET cols == InsertAt(table.cols, loc + 1, NewColumn(name, type, loc + 1)) IN
  /\ Altering /\ ~HasColumn(table, name) /\ loc < Len(table.cols)
  /\ table' = [table EXCEPT !.cols = cols, !.ondisk[table.last] = loc + 1, !.last = @ + 1, !.dirty = TRUE]
  /\ past' = [past EXCEPT !.alters = @ + 1, !.ids = @ + 1]
  /\ row' = Stale(row) /\ cursor' = [cursor EXCEPT !.fresh = FALSE]
  /\ UNCHANGED files
ColumnInsert(loc, name, type) ==
  LET new == InsertAt(table.cols, loc + 1, NewColumn(name, type, 0))
      cols == [i \in DOMAIN new |-> [new[i] EXCEPT !.mem = i]]
  IN  /\ Altering /\ ~HasColumn(table, name) /\ loc < Len(table.cols)
      /\ table' = [table EXCEPT !.cols = cols, !.ondisk = Reindex(cols, @), !.last = @ + 1, !.dirty = TRUE]
      /\ past' = [past EXCEPT !.alters = @ + 1, !.ids = @ + 1]
      /\ row' = Stale(row) /\ cursor' = [cursor EXCEPT !.fresh = FALSE]
      /\ UNCHANGED files
(* uListInsert refuses the place: the column stays in cols, out of the list.*)
ColumnInsertPastEnd(name) ==
  /\ Altering /\ ~HasColumn(table, name)
  /\ table' = [table EXCEPT !.orphans = @ \cup {name}, !.last = @ + 1]
  /\ past' = [past EXCEPT !.alters = @ + 1]
  /\ UNCHANGED <<files, row, cursor>>

(* wdb_column_update.  The new name is no column's: the column that had it  *)
(* would be freed, and stay in the list.                                    *)
ColumnUpdate(old, new) ==
  LET p == Position(table, old) IN
  /\ Altering /\ HasColumn(table, old) /\ ~HasColumn(table, new)
  /\ Alter(IF p # 0 THEN [table EXCEPT !.cols[p].name = new]
                    ELSE [table EXCEPT !.orphans = (@ \ {old}) \cup {new}])
(* wdb_column_delete leaves the positions of the other columns as they were.*)
ColumnDelete(name) ==
  LET p == Position(table, name) IN
  /\ Altering /\ HasColumn(table, name)
  /\ Alter(IF p # 0 THEN [table EXCEPT !.cols = RemoveAt(@, p), !.stale = TRUE]
                    ELSE [table EXCEPT !.orphans = @ \ {name}])
(* wdb_update, which changes nothing when nothing differs; wdb_attr_set.    *)
Update(name, key) == /\ Altering /\ (table.name # name \/ table.key # key)
                     /\ Alter([table EXCEPT !.name = name, !.key = key])
AttrSet(k, v) ==
  LET p == SelectInSeq(table.attrs, LAMBDA a : a.k = k) IN
  /\ Altering
  /\ table' = [table EXCEPT !.dirty = TRUE, !.attrs = IF p = 0 THEN Append(@, [k |-> k, v |-> v])
                                                               ELSE [@ EXCEPT ![p].v = v]]
  /\ past' = [past EXCEPT !.alters = @ + 1]
  /\ UNCHANGED <<files, row, cursor>>

(* Rows with the number of a column that no definition has: the number will *)
(* be another column's.                                                     *)
Unnamed(f) == \E k \in Keys : \E i \in DOMAIN f.rows[k] :
                f.defn # Missing /\ f.rows[k][i].disk >= f.defn.was.last
(* wdb_save, wdb_destroy, wdb_open; a crash anywhere, in a save too.  The   *)
(* first two return no error of wdb_save_defn.                              *)
Leaves(f, torn, lost, failures) ==
  /\ files' = f
  /\ past' = [past EXCEPT !.torn = @ \/ torn, !.spoilt = @ \/ torn \/ (lost /\ Unnamed(f)), !.alters = @ + failures]
Ends(outcome, lost) == Leaves(outcome.files, outcome.torn, lost, IF outcome.files = Saved(Written(table)) THEN 0 ELSE 1)
Save == /\ table.open /\ table.dirty
        /\ \E outcome \in Outcomes(table) :
             /\ Ends(outcome, FALSE)
             /\ table' = [table EXCEPT !.dirty = outcome.dirty]
             /\ IF outcome.dirty THEN UNCHANGED <<row, cursor>>
                ELSE row' = Stale(row) /\ cursor' = [cursor EXCEPT !.fresh = FALSE]
Gone == table' = NoTable /\ row' = NoRow /\ cursor' = NoCursor
Destroy == /\ table.open
           /\ IF table.dirty THEN \E outcome \in Outcomes(table) : Ends(outcome, TRUE)
              ELSE UNCHANGED <<files, past>>
           /\ Gone
Crash == /\ table.open
         /\ \/ Leaves(files, FALSE, TRUE, 0)
            \/ table.dirty /\ \E new \in Cut(table) : Leaves(Rewritten(new), OnlyCopy, TRUE, 0)
            \/ table.dirty /\ \E f \in HalfSaved(Written(table)) : Leaves(f, FALSE, TRUE, 0)
            \/ table.dirty /\ past.alters < MaxAlters
                /\ \E new \in Cut(table) : \E f \in HalfSaved(new) : Leaves(f, TRUE, TRUE, 1)
         /\ Gone
(* Not once the rows are spoilt, as nothing changes the table after that.   *)
Open == /\ ~table.open /\ ~past.spoilt /\ past.opens < MaxOpens
        /\ files.defn # Missing
        /\ \E d \in {LoadDefn(files.defn.text)} :
             /\ d.state # "error"
             /\ table' = [d.t EXCEPT !.cols = [i \in DOMAIN @ |-> @[i] @@ [id |-> files.defn.ids[i]]]]
                         @@ [open |-> TRUE, dirty |-> FALSE, stale |-> FALSE]
        /\ past' = [past EXCEPT !.opens = @ + 1]
        /\ UNCHANGED <<files, row, cursor>>
-----------------------------------------------------------------------------
(* pack_row and unpack_row.  A string that is not there is packed as the    *)
(* empty one, and the empty one is unpacked as NULL.                        *)
Packed(type, v) == IF type = "s" /\ v = "0" THEN "" ELSE v
Unpacked(type, v) == IF type = "s" /\ v = "" THEN "0" ELSE v
PackRow(t, r) == [i \in 1 .. Min({Len(t.cols), r.count}) |->
                    [disk |-> t.cols[i].disk, type |-> t.cols[i].type, v |-> Packed(t.cols[i].type, r.data[i])]]
AllocRow(t, k) == [key |-> k, count |-> Len(t.cols), data |-> [i \in 1 .. Len(t.cols) + 1 |-> "0"],
                   fresh |-> TRUE, want |-> [c \in {t.cols[i].id : i \in DOMAIN t.cols} |-> "0"]]
UnpackField(r, f, mem) == IF mem \in DOMAIN r.data THEN [r EXCEPT !.data[mem] = Unpacked(f.type, f.v)] ELSE r
Wanted(t, k) == LET r == AllocRow(t, k) IN
  [r EXCEPT !.want = [c \in DOMAIN @ |-> IF c \in DOMAIN past.truth[k] THEN past.truth[k][c] ELSE @[c]]]
Unpack(t, k) == FoldLeft(LAMBDA r, f : UnpackField(r, f, t.ondisk[f.disk]), Wanted(t, k), files.rows[k])
Overruns(t, k) == \E i \in DOMAIN files.rows[k] : t.ondisk[files.rows[k][i].disk] > Len(t.cols) + 1

(* A call on rows: none once they are spoilt, which they are by a call      *)
(* between the deletion of a column and the next open, on a row from before *)
(* an alteration, and on a column that is not in the list.                  *)
Calling(spoils) == /\ table.open /\ ~past.spoilt /\ past.calls < MaxRowCalls
                   /\ past' = [past EXCEPT !.calls = @ + 1, !.spoilt = @ \/ spoils]
RowCreate(k) == /\ Calling(table.stale)
                /\ row' = AllocRow(table, k)
                /\ UNCHANGED <<table, files, cursor>>
RowSet(name, v) ==
  LET p == Position(table, name)
      c == table.cols[p]
  IN  /\ row # NoRow /\ HasColumn(table, name)
      /\ Calling(table.stale \/ p = 0 \/ ~row.fresh)
      /\ row' = IF p = 0 \/ c.mem \notin DOMAIN row.data THEN row
                ELSE [row EXCEPT !.data[c.mem] = v, !.want = (c.id :> v) @@ @]
      /\ UNCHANGED <<table, files, cursor>>
RowSave(insert) ==
  /\ row # NoRow
  /\ insert => files.rows[row.key] = Missing
  /\ table.open /\ ~past.spoilt /\ past.calls < MaxRowCalls
  /\ files' = [files EXCEPT !.rows[row.key] = PackRow(table, row)]
  /\ past' = [past EXCEPT !.calls = @ + 1, !.spoilt = @ \/ table.stale \/ ~row.fresh,
                          !.truth[row.key] = [c \in DOMAIN row.want |-> IF row.want[c] = "" THEN "0" ELSE row.want[c]]]
  /\ UNCHANGED <<table, row, cursor>>
RowLookup(k) == /\ files.rows[k] # Missing
                /\ Calling(table.stale \/ Overruns(table, k))
                /\ row' = Unpack(table, k)
                /\ UNCHANGED <<table, files, cursor>>
RowDelete(k) == /\ files.rows[k] # Missing
                /\ Calling(FALSE)
                /\ files' = [files EXCEPT !.rows[k] = Missing]
                /\ UNCHANGED <<table, row, cursor>>
RowDestroy == /\ row # NoRow /\ row.fresh
              /\ Calling(FALSE)
              /\ row' = NoRow
              /\ UNCHANGED <<table, files, cursor>>

(* wdbc_create; wdbr_next and wdbr_find take the first row from a key on,   *)
(* and refuse a cursor from before an alteration.                           *)
CursorCreate == /\ Calling(FALSE)
                /\ cursor' = [at |-> 0, fresh |-> TRUE]
                /\ UNCHANGED <<table, files, row>>
CursorGet(from) ==
  LET found == {k \in Keys : k >= from /\ files.rows[k] # Missing} IN
  /\ cursor.fresh
  /\ IF found = {} THEN Calling(FALSE) /\ row' = NoRow /\ UNCHANGED cursor
     ELSE /\ Calling(table.stale \/ Overruns(table, Min(found)))
          /\ row' = Unpack(table, Min(found))
          /\ cursor' = [cursor EXCEPT !.at = Min(found)]
  /\ UNCHANGED <<table, files>>
RowNext == CursorGet(cursor.at + 1)
RowFind(k) == CursorGet(k)
-----------------------------------------------------------------------------
(* wdb_create: columns of strings, the definition saved, no rows.           *)
Created ==
  [Empty EXCEPT !.name = Head(FirstNames), !.key = Head(FirstNames), !.last = Len(FirstNames) + 1,
                !.ondisk = [n \in Numbers |-> IF n \in DOMAIN FirstNames THEN n ELSE 0],
                !.cols = [i \in DOMAIN FirstNames |->
                            [id |-> i, name |-> FirstNames[i], type |-> "s", disk |-> i, mem |-> i]]]
  @@ [open |-> TRUE, dirty |-> FALSE, stale |-> FALSE]
Init == /\ table = Created
        /\ files = [defn |-> Written(table), new |-> Missing, linked |-> FALSE, rows |-> [k \in Keys |-> Missing]]
        /\ row = NoRow /\ cursor = NoCursor
        /\ past = [truth |-> [k \in Keys |-> <<>>], ids |-> Len(FirstNames), alters |-> 0, calls |-> 0,
                   opens |-> 0, torn |-> FALSE, spoilt |-> FALSE]
(* The titles change first, to bound the run.                              *)
Alteration ==
  \/ \E n \in Names, type \in DOMAIN Values :
       \/ ColumnAppend(n, type)
       \/ \E loc \in 0 .. 2 : ColumnInsert(loc, n, type)
  \/ \E n \in Names : ColumnInsertPastEnd(n) \/ ColumnDelete(n)
  \/ \E m, n \in Names : ColumnUpdate(m, n)
  \/ past.alters = 0 /\ \E n \in Titles : Update(n, n) \/ AttrSet(n, n)
RowCall ==
  \/ \E k \in Keys : RowCreate(k) \/ RowLookup(k) \/ RowDelete(k) \/ RowFind(k)
  \/ \E n \in Names : \E type \in DOMAIN Values : \E v \in Values[type] :
       Position(table, n) # 0 /\ table.cols[Position(table, n)].type = type /\ RowSet(n, v)
  \/ \E n \in Names : n \in table.orphans /\ RowSet(n, "0")
  \/ RowSave(TRUE) \/ RowSave(FALSE) \/ RowDestroy \/ CursorCreate \/ RowNext
Next == (table.open /\ (Alteration \/ RowCall)) \/ Save \/ Destroy \/ Crash \/ Open
Spec == Init /\ [][Next]_vars
-----------------------------------------------------------------------------
(* Every column of a row shows what was last set in it and saved, under     *)
(* whatever name and wherever in the row the column now is, after columns   *)
(* were added in the middle, the definition was saved and read again, and   *)
(* crashes -- unless a call spoilt it as Calling and Unnamed say, or the    *)
(* definition is torn.                                                      *)
RowsExact ==
  (table.open /\ ~past.spoilt /\ row # NoRow) =>
    \A i \in DOMAIN table.cols : row.fresh => row.data[table.cols[i].mem] = row.want[table.cols[i].id]

(* There is a whole definition on the disk at any time, as the definition   *)
(* or as its new copy, and it reads back as it was saved -- unless it is    *)
(* torn: a write to it failed, or the process died while it wrote over its  *)
(* only copy, which it does when an earlier save ended before the unlink of *)
(* the new copy's name (wdb_save_defn, wdb_load_defn).                      *)
DefinitionKept ==
  past.torn \/ \E f \in {files.defn, files.new} :
    /\ f # Missing
    /\ LET d == LoadDefn(f.text) IN d.state # "error" /\ Persistent(d.t) = f.was

==============================================================================

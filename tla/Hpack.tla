-------------------------------- MODULE Hpack --------------------------------
(***************************************************************************)
(* Header compression (internal/xnet/hpack).  Encoder and decoder each     *)
(* keep a dynamic table, never exchanged but built up from the same        *)
(* instructions: what one block decodes to depends on every block before.  *)
(*                                                                         *)
(* Names and values are opaque: Octets gives the length of each, Coded     *)
(* what its string literal takes on the wire (length prefix and Huffman    *)
(* code or the octets themselves, whichever is shorter).  A header block   *)
(* is the octets of its instructions; an octet of the model names its      *)
(* instruction and its place in it, so a block can be cut anywhere.        *)
(***************************************************************************)
EXTENDS Integers, FiniteSetsExt, SequencesExt

CONSTANTS
    StaticTable,        \* the fields of the static table
    Octets, Coded,
    Overhead,           \* what a table entry counts beyond its octets: 32
    InitialTableSize,   \* 4096
    Uint32Max

HeaderField(n, v) == [name |-> n, value |-> v, sensitive |-> FALSE]

Size(f) == Octets[f.name] + Octets[f.value] + Overhead

totalSize(q) == FoldLeft(LAMBDA n, f : n + Size(f), 0, q)

-----------------------------------------------------------------------------
(* tables.go.  ents[1] is the oldest entry; entry k has the id              *)
(* evictCount + k, which stays its own when older entries go.  The two maps *)
(* to the newest entry of a name, and of a pair, are built by the first     *)
(* search.                                                                  *)

pair(f) == <<f.name, f.value>>
nameKeys(t) == [k \in DOMAIN t.ents |-> t.ents[k].name]
pairKeys(t) == [k \in DOMAIN t.ents |-> pair(t.ents[k])]

headerFieldTable ==
    [ents |-> <<>>, evictCount |-> 0, built |-> FALSE, byName |-> <<>>, byNameValue |-> <<>>]

newest(t, keys) ==
    [x \in {keys[k] : k \in DOMAIN keys} |-> t.evictCount + Max({k \in DOMAIN keys : keys[k] = x})]

buildMaps(t) ==
    IF t.built THEN t
    ELSE [t EXCEPT !.built = TRUE, !.byName = newest(t, nameKeys(t)),
                   !.byNameValue = newest(t, pairKeys(t))]

put(map, x, id) == [y \in DOMAIN map \cup {x} |-> IF y = x THEN id ELSE map[y]]

addEntry(t, f) ==
    LET id == Len(t.ents) + t.evictCount + 1
    IN  [t EXCEPT !.ents = Append(@, f),
                  !.byName = IF t.built THEN put(@, f.name, id) ELSE @,
                  !.byNameValue = IF t.built THEN put(@, pair(f), id) ELSE @]

\* An evicted entry leaves a map only if no newer one has taken its place.
forget(map, t, keys, n) ==
    Restrict(map, {x \in DOMAIN map : ~\E k \in 1..n : x = keys[k] /\ map[x] = t.evictCount + k})

\* Mutant: an evicted entry stays in the maps.
evictOldest_keepsIds(t, n) == [t EXCEPT !.ents = SubSeq(@, n + 1, Len(@)), !.evictCount = @ + n]

evictOldest(t, n) ==
    [t EXCEPT !.ents = SubSeq(@, n + 1, Len(@)), !.evictCount = @ + n,
              !.byName = forget(@, t, nameKeys(t), n),
              !.byNameValue = forget(@, t, pairKeys(t), n)]

\* In a dynamic table index 1 is the newest entry.
idToIndex(t, id) == Len(t.ents) - (id - t.evictCount - 1)

NotFound == [i |-> 0, match |-> FALSE]

search(t, f) ==
    IF ~f.sensitive /\ pair(f) \in DOMAIN t.byNameValue
    THEN [i |-> idToIndex(t, t.byNameValue[pair(f)]), match |-> TRUE]
    ELSE IF f.name \in DOMAIN t.byName
    THEN [i |-> idToIndex(t, t.byName[f.name]), match |-> FALSE]
    ELSE NotFound

searchStatic(f) ==
    LET same  == {k \in DOMAIN StaticTable : pair(StaticTable[k]) = pair(f)}
        named == {k \in DOMAIN StaticTable : StaticTable[k].name = f.name}
    IN  IF ~f.sensitive /\ same # {} THEN [i |-> Max(same), match |-> TRUE]
        ELSE IF named # {} THEN [i |-> Max(named), match |-> FALSE]
        ELSE NotFound

-----------------------------------------------------------------------------
(* hpack.go: dynamicTable *)

dynamicTable(max) ==
    [table |-> headerFieldTable, size |-> 0, maxSize |-> max, allowedMaxSize |-> max]

evict(dt) ==
    LET ents == dt.table.ents
        n    == Min({k \in 0..Len(ents) : dt.size - totalSize(SubSeq(ents, 1, k)) <= dt.maxSize})
    IN  [dt EXCEPT !.size = @ - totalSize(SubSeq(ents, 1, n)), !.table = evictOldest(@, n)]

setMaxSize(dt, v) == evict([dt EXCEPT !.maxSize = v])

add(dt, f) == evict([dt EXCEPT !.table = addEntry(@, f), !.size = @ + Size(f)])

-----------------------------------------------------------------------------
(* encode.go.  An instruction is a table size update, an index, or a        *)
(* literal with its name in place (idx = 0) or by index.                    *)

NewEncoder ==
    [dynTab |-> dynamicTable(InitialTableSize), minSize |-> Uint32Max,
     maxSizeLimit |-> InitialTableSize, tableSizeUpdate |-> FALSE]

TableSize(v) == [op |-> "size", v |-> v]
Indexed(i) == [op |-> "indexed", i |-> i]
Literal(i, f, how) == [op |-> "literal", i |-> i, f |-> f, how |-> how]

typeOf(indexing, sensitive) ==
    IF sensitive THEN "never" ELSE IF indexing THEN "incremental" ELSE "without"

searchTable(e, f) ==
    LET s == searchStatic(f)
        d == search(e.dynTab.table, f)
    IN  IF s.match THEN s
        ELSE IF d.match \/ (s.i = 0 /\ d.i # 0) THEN [d EXCEPT !.i = @ + Len(StaticTable)]
        ELSE s

shouldIndex(e, f) == ~f.sensitive /\ Size(f) <= e.dynTab.maxSize

SetMaxDynamicTableSize(e, v) ==
    LET w == Min({v, e.maxSizeLimit})
    IN  [e EXCEPT !.minSize = Min({@, w}), !.tableSizeUpdate = TRUE, !.dynTab = setMaxSize(@, w)]

SetMaxDynamicTableSizeLimit(e, v) ==
    IF e.dynTab.maxSize > v
    THEN [e EXCEPT !.maxSizeLimit = v, !.tableSizeUpdate = TRUE, !.dynTab = setMaxSize(@, v)]
    ELSE [e EXCEPT !.maxSizeLimit = v]

\* Mutant: only the size now is announced.
sizeUpdates_last(e) == IF e.tableSizeUpdate THEN <<TableSize(e.dynTab.maxSize)>> ELSE <<>>

\* The updates owed to the decoder: the smallest size since the last one, when
\* that is not the size now, and the size now.
sizeUpdates(e) ==
    IF ~e.tableSizeUpdate THEN <<>>
    ELSE (IF e.minSize < e.dynTab.maxSize THEN <<TableSize(e.minSize)>> ELSE <<>>)
           \o <<TableSize(e.dynTab.maxSize)>>

WriteField(e, f) ==
    LET e1 == [e EXCEPT !.tableSizeUpdate = FALSE, !.dynTab.table = buildMaps(@),
                        !.minSize = IF e.tableSizeUpdate THEN Uint32Max ELSE @]
        r  == searchTable(e1, f)
        indexing == shouldIndex(e1, f)
    IN  IF r.match THEN [enc |-> e1, out |-> sizeUpdates(e) \o <<Indexed(r.i)>>]
        ELSE [enc |-> IF indexing THEN [e1 EXCEPT !.dynTab = add(@, f)] ELSE e1,
              out |-> sizeUpdates(e) \o <<Literal(r.i, f, typeOf(indexing, f.sensitive))>>]

\* One header block: the fields of a list, written one after the other.
WriteFields(e, list) ==
    FoldLeft(LAMBDA b, f : LET w == WriteField(b.enc, f)
                           IN  [enc |-> w.enc, out |-> b.out \o w.out],
             [enc |-> e, out |-> <<>>], list)

nameOctets(ins) == IF ins.i = 0 THEN Coded[ins.f.name] ELSE 0

instructionLen(ins) ==
    IF ins.op = "literal" THEN 1 + nameOctets(ins) + Coded[ins.f.value] ELSE 1

block(instructions) ==
    FoldLeft(LAMBDA b, ins : b \o [k \in 1..instructionLen(ins) |-> [ins |-> ins, k |-> k]],
             <<>>, instructions)

-----------------------------------------------------------------------------
(* hpack.go: Decoder.  saved counts the octets of an instruction that is    *)
(* not complete yet.                                                        *)

NewDecoder(max) ==
    [dynTab |-> dynamicTable(max), emitEnabled |-> TRUE, maxStrLen |-> 0,
     saved |-> 0, firstField |-> TRUE]

maxTableIndex(d) == Len(d.dynTab.table.ents) + Len(StaticTable)

at(d, i) ==
    IF i <= Len(StaticTable) THEN StaticTable[i]
    ELSE LET ents == d.dynTab.table.ents IN ents[Len(ents) - (i - Len(StaticTable)) + 1]

Decoded(d, emits) == [d |-> d, emits |-> emits, ok |-> TRUE]
Fails(d) == [d |-> d, emits |-> <<>>, ok |-> FALSE]

tooLong(d, x) == d.maxStrLen # 0 /\ Octets[x] > d.maxStrLen

callEmit(d, f) ==
    IF tooLong(d, f.name) \/ tooLong(d, f.value) THEN Fails(d)
    ELSE Decoded(d, IF d.emitEnabled THEN <<f>> ELSE <<>>)

parseFieldIndexed(d, ins) ==
    IF ins.i = 0 \/ ins.i > maxTableIndex(d) THEN Fails(d)
    ELSE callEmit(d, [at(d, ins.i) EXCEPT !.sensitive = FALSE])

\* Strings nobody wants are skipped, unless they go into the table.
parseFieldLiteral(d, ins) ==
    LET indexed == ins.how = "incremental"
        wantStr == d.emitEnabled \/ indexed
        hf      == [name |-> IF ins.i = 0 THEN ins.f.name ELSE at(d, ins.i).name,
                    value |-> ins.f.value, sensitive |-> FALSE]
        added   == IF indexed THEN [d EXCEPT !.dynTab = add(@, hf)] ELSE d
    IN  IF ins.i > maxTableIndex(d) THEN Fails(d)
        ELSE IF ~wantStr THEN Decoded(d, <<>>)
        ELSE IF (ins.i = 0 /\ tooLong(d, hf.name)) \/ tooLong(d, hf.value) THEN Fails(d)
        ELSE callEmit(added, [hf EXCEPT !.sensitive = ins.how = "never"])

\* Only before the first field, or while there is nothing to evict.
parseDynamicTableSizeUpdate(d, ins) ==
    IF (~d.firstField /\ d.dynTab.size > 0) \/ ins.v > d.dynTab.allowedMaxSize THEN Fails(d)
    ELSE Decoded([d EXCEPT !.dynTab = setMaxSize(@, ins.v)], <<>>)

parseHeaderFieldRepr(d, ins) ==
    CASE ins.op = "size" -> parseDynamicTableSizeUpdate(d, ins)
      [] ins.op = "indexed" -> parseFieldIndexed(d, ins)
      [] OTHER -> parseFieldLiteral(d, ins)

\* A string announced as longer than the limit is refused at its length, before
\* its octets have come.
announcesTooMuch(d, b) ==
    /\ d.maxStrLen # 0 /\ b.ins.op = "literal"
    /\ \/ b.k = 2 /\ b.ins.i = 0 /\ Coded[b.ins.f.name] > d.maxStrLen
       \/ b.k = 2 + nameOctets(b.ins) /\ Coded[b.ins.f.value] > d.maxStrLen

\* Write, one octet of its argument at a time.
WriteOctet(d, b) ==
    IF announcesTooMuch(d, b) THEN Fails(d)
    ELSE IF b.k < instructionLen(b.ins) THEN Decoded([d EXCEPT !.saved = @ + 1], <<>>)
    ELSE LET r == parseHeaderFieldRepr([d EXCEPT !.saved = 0], b.ins)
         IN  [r EXCEPT !.d.firstField = FALSE]

closeFails(d) == d.saved > 0

Close(d) == [d EXCEPT !.saved = 0, !.firstField = IF closeFails(d) THEN @ ELSE TRUE]

=============================================================================

-------------------------- MODULE CanonicalValues ---------------------------
(***************************************************************************)
(* The structured values of canonical identities (runtime contract         *)
(* library): null, string, list, map and set, the framed bytes they are    *)
(* built into, and the decoder that reads such bytes from elsewhere.  Two  *)
(* engines agree on an identity only if a value has one encoding and the   *)
(* decoder takes no other.                                                 *)
(*                                                                         *)
(* Bytes are cells: a tag, a length, a count and a byte of a string are    *)
(* one cell each.  A length stays in its own cell as it stays in its eight *)
(* bytes, and the order of cells is the order of the bytes.                *)
(***************************************************************************)
EXTENDS Integers, SequencesExt

CONSTANTS
  CanonicalTrees,    \* what callers build, legal or not
  CellValues,        \* the cells a damaged frame may hold
  MaxValueDepth,     \* MaxCanonicalValueDepth
  MaxValueNodes,     \* MaxCanonicalValueNodes
  MaxMembers,        \* MaxCanonicalCollectionMembers
  MaxStringCells,    \* MaxCanonicalStringBytes
  MaxKeyCells,       \* MaxCanonicalMapKeyBytes
  MaxValueCells      \* MaxCanonicalValueBytes

VARIABLES
  valueTree, \* the value a caller has
  frame,     \* the bytes that travel
  built,     \* the outcome of building the tree
  parsed     \* the outcome of ParseCanonicalValueEnvelope

canonicalVars == <<valueTree, frame, built, parsed>>

NullTag == 0
StringTag == 1
ListTag == 2
MapTag == 3
SetTag == 4

(* A tree: the text of a string, the keys of a map, the members.           *)
Tree(tag, text, keys, members) ==
  [tag |-> tag, text |-> text, keys |-> keys, members |-> members]

NullTree == Tree(NullTag, <<>>, <<>>, <<>>)
StringTree(text) == Tree(StringTag, text, <<>>, <<>>)

(* The header of a node: tag, length, payload; encodeBytes: length, bytes.        *)
canonicalNode(tag, payload) == <<tag, Len(payload)>> \o payload
Framed(bytes) == <<Len(bytes)>> \o bytes

(* bytes.Compare(a, b) < 0.                                                *)
CellsBefore(a, b) ==
  \E i \in 1..Len(b) :
     /\ i <= Len(a) + 1
     /\ \A j \in 1..(i - 1) : a[j] = b[j]
     /\ i > Len(a) \/ a[i] < b[i]

Sorted(cells) == SortSeq(cells, CellsBefore)

NoValue == [ok |-> FALSE, bytes |-> <<>>, depth |-> 0, nodes |-> 0]
Highest(numbers, floor) == FoldLeft(LAMBDA m, n : IF n > m THEN n ELSE m, floor, numbers)
Total(numbers) == FoldLeft(+, 0, numbers)

(* checkedCanonicalNode *)
checkedCanonicalNode(tag, payload, depth, size) ==
  IF \/ depth > MaxValueDepth \/ size > MaxValueNodes
     \/ Len(canonicalNode(tag, payload)) > MaxValueCells
  THEN NoValue
  ELSE [ok |-> TRUE, bytes |-> canonicalNode(tag, payload), depth |-> depth, nodes |-> size]

(* canonicalCollection: the count and the framed children.                 *)
canonicalCollection(tag, children, depth, size) ==
  checkedCanonicalNode(tag,
    <<Len(children)>> \o FlattenSeq([i \in DOMAIN children |-> Framed(children[i])]),
    depth, size)

CanonicalString(text) ==
  IF Len(text) > MaxStringCells THEN NoValue
  ELSE checkedCanonicalNode(StringTag, text, 1, 1)

Depths(values) == [i \in DOMAIN values |-> values[i].depth + 1]
Sizes(values) == [i \in DOMAIN values |-> values[i].nodes]
Encodings(values) == [i \in DOMAIN values |-> values[i].bytes]

CanonicalList(values) ==
  IF Len(values) > MaxMembers \/ \E i \in DOMAIN values : ~values[i].ok THEN NoValue
  ELSE canonicalCollection(ListTag, Encodings(values),
         Highest(Depths(values), 1), 1 + Total(Sizes(values)))

CanonicalSet(values) ==
  IF \/ Len(values) > MaxMembers
     \/ \E i \in DOMAIN values : ~values[i].ok
     \/ \E i, j \in DOMAIN values : i # j /\ values[i].bytes = values[j].bytes
  THEN NoValue
  ELSE canonicalCollection(SetTag, Sorted(Encodings(values)),
         Highest(Depths(values), 1), 1 + Total(Sizes(values)))

(* A key is encoded as a string node and counts as a node of its own; the  *)
(* entries are put in the order of their encoded keys.                     *)
CanonicalMap(keys, values) ==
  IF \/ Len(keys) > MaxMembers
     \/ \E i, j \in DOMAIN keys : i # j /\ keys[i] = keys[j]
     \/ \E i \in DOMAIN keys : Len(keys[i]) > MaxKeyCells \/ ~values[i].ok
  THEN NoValue
  ELSE LET order == SortSeq([i \in DOMAIN keys |-> i],
                      LAMBDA i, j : CellsBefore(canonicalNode(StringTag, keys[i]), canonicalNode(StringTag, keys[j])))
           entry(i) == Framed(canonicalNode(StringTag, keys[i])) \o Framed(values[i].bytes)
       IN checkedCanonicalNode(MapTag,
            <<Len(keys)>> \o FlattenSeq([i \in DOMAIN order |-> entry(order[i])]),
            Highest(Depths(values), 1), 1 + Len(keys) + Total(Sizes(values)))

(* What a caller gets who builds the tree from its leaves up.              *)
RECURSIVE BuildTree(_)
BuildTree(t) ==
  LET values == [i \in DOMAIN t.members |-> BuildTree(t.members[i])]
  IN CASE t.tag = NullTag   -> [ok |-> TRUE, bytes |-> canonicalNode(NullTag, <<>>), depth |-> 1, nodes |-> 1]
       [] t.tag = StringTag -> CanonicalString(t.text)
       [] t.tag = ListTag   -> CanonicalList(values)
       [] t.tag = SetTag    -> CanonicalSet(values)
       [] t.tag = MapTag    -> CanonicalMap(t.keys, values)
-----------------------------------------------------------------------------
NoChild == [ok |-> FALSE, bytes |-> <<>>, next |-> 0]

(* framedChild: the child that starts behind `offset` cells.               *)
framedChild(payload, offset) ==
  IF Len(payload) - offset < 1 THEN NoChild
  ELSE LET length == payload[offset + 1] IN
       IF length > Len(payload) - offset - 1 \/ length > MaxValueCells THEN NoChild
       ELSE [ok |-> TRUE, bytes |-> SubSeq(payload, offset + 2, offset + 1 + length),
             next |-> offset + 1 + length]

(* allocationPlan, and the count it is asked about.                        *)
Planned(payload, frames) ==
  /\ Len(payload) >= 1
  /\ payload[1] <= MaxMembers
  /\ payload[1] * frames <= Len(payload) - 1

(* The children of a payload, one behind the other; not ok when one is cut *)
(* short or cells are left over.                                           *)
RECURSIVE FramedChildren(_, _, _)
FramedChildren(payload, count, offset) ==
  IF count = 0 THEN [ok |-> offset = Len(payload), items |-> <<>>]
  ELSE LET child == framedChild(payload, offset) IN
       IF ~child.ok THEN [ok |-> FALSE, items |-> <<>>]
       ELSE LET rest == FramedChildren(payload, count - 1, child.next)
            IN [ok |-> rest.ok, items |-> <<child.bytes>> \o rest.items]

(* Mutant of Ascending: equal neighbours pass.                             *)
AscendingLoosely(items) == \A i \in 2..Len(items) : ~CellsBefore(items[i], items[i - 1])

(* validateCanonicalMembers and validateCanonicalMap demand that what they *)
(* read is strictly ascending.                                             *)
Ascending(items) == \A i \in 2..Len(items) : CellsBefore(items[i - 1], items[i])

Every(items, offset) == [i \in 1..(Len(items) \div 2) |-> items[2 * i - offset]]

(* decodeCanonicalNode: the cells it consumes, 0 when it refuses.          *)
RECURSIVE decodeCanonicalNode(_, _)
decodeCanonicalNode(raw, depth) ==
  IF depth > MaxValueDepth \/ Len(raw) < 2 THEN 0
  ELSE LET tag == raw[1]
           length == raw[2]
           payload == SubSeq(raw, 3, 2 + length)
           whole(child) == decodeCanonicalNode(child, depth + 1) = Len(child) /\ child # <<>>
           members(frames) == FramedChildren(payload, payload[1] * frames, 1)
           accepted ==
             CASE tag = NullTag   -> payload = <<>>
               [] tag = StringTag -> Len(payload) <= MaxStringCells
               [] tag \in {ListTag, SetTag} ->
                    /\ Planned(payload, 1)
                    /\ members(1).ok
                    /\ \A i \in DOMAIN members(1).items : whole(members(1).items[i])
                    /\ tag = SetTag => Ascending(members(1).items)
               [] tag = MapTag ->
                    /\ Planned(payload, 2)
                    /\ members(2).ok
                    /\ \A i \in DOMAIN members(2).items : whole(members(2).items[i])
                    /\ \A i \in DOMAIN Every(members(2).items, 1) :
                          LET key == Every(members(2).items, 1)[i]
                          IN key[1] = StringTag /\ Len(key) - 2 <= MaxKeyCells
                    /\ Ascending(Every(members(2).items, 1))
               [] OTHER -> FALSE
       IN IF length > Len(raw) - 2 \/ length > MaxValueCells THEN 0
          ELSE IF accepted THEN 2 + length ELSE 0

(* canonicalMetrics: every frame of a collection is a node, keys included. *)
RECURSIVE canonicalMetrics(_, _)
canonicalMetrics(raw, depth) ==
  IF raw[1] \notin {ListTag, SetTag, MapTag} THEN [depth |-> depth, nodes |-> 1]
  ELSE LET frames == IF raw[1] = MapTag THEN 2 ELSE 1
           items == FramedChildren(SubSeq(raw, 3, 2 + raw[2]), raw[3] * frames, 1).items
           metrics == [i \in DOMAIN items |-> canonicalMetrics(items[i], depth + 1)]
       IN [depth |-> Highest([i \in DOMAIN metrics |-> metrics[i].depth], depth),
           nodes |-> 1 + Total(Sizes(metrics))]

ParseCanonicalValueEnvelope(raw) ==
  LET consumed == decodeCanonicalNode(raw, 1)
      metrics == canonicalMetrics(raw, 1)
  IN IF Len(raw) > MaxValueCells \/ consumed = 0 \/ consumed # Len(raw) THEN NoValue
     ELSE IF metrics.nodes > MaxValueNodes \/ metrics.depth > MaxValueDepth THEN NoValue
     ELSE [ok |-> TRUE, bytes |-> raw, depth |-> metrics.depth, nodes |-> metrics.nodes]

(* Kind, StringValue, Elements and Entries, applied down to the leaves.    *)
RECURSIVE Inspect(_)
Inspect(bytes) ==
  LET tag == bytes[1]
      payload == SubSeq(bytes, 3, Len(bytes))
      frames == IF tag = MapTag THEN 2 ELSE 1
      items == FramedChildren(payload, payload[1] * frames, 1).items
      inner(children) == [i \in DOMAIN children |-> Inspect(children[i])]
  IN CASE tag = NullTag -> NullTree
       [] tag = StringTag -> StringTree(payload)
       [] tag \in {ListTag, SetTag} -> Tree(tag, <<>>, <<>>, inner(items))
       [] tag = MapTag ->
            Tree(tag, <<>>,
                 [i \in DOMAIN Every(items, 1) |-> Inspect(Every(items, 1)[i]).text],
                 inner(Every(items, 0)))
-----------------------------------------------------------------------------
(* Another writer encodes the tree as it stands: unsorted, with duplicates *)
(* or beyond the limits if the tree is so.                                 *)
RECURSIVE Verbatim(_)
Verbatim(t) ==
  LET child(i) == (IF t.tag = MapTag THEN Framed(canonicalNode(StringTag, t.keys[i])) ELSE <<>>)
                  \o Framed(Verbatim(t.members[i]))
  IN CASE t.tag = NullTag   -> canonicalNode(NullTag, <<>>)
       [] t.tag = StringTag -> canonicalNode(StringTag, t.text)
       [] OTHER -> canonicalNode(t.tag, <<Len(t.members)>>
                     \o FlattenSeq([i \in DOMAIN t.members |-> child(i)]))

CanonicalStart(t) ==
  /\ valueTree = t
  /\ frame = <<>>
  /\ built = NoValue
  /\ parsed = NoValue
CanonicalInit == \E t \in CanonicalTrees : CanonicalStart(t)

(* The caller builds its value; the bytes of the value are sent.           *)
BuildValue ==
  /\ frame = <<>>
  /\ built' = BuildTree(valueTree)
  /\ built'.ok
  /\ frame' = built'.bytes
  /\ parsed' = ParseCanonicalValueEnvelope(frame')
  /\ UNCHANGED valueTree

(* The bytes of another writer are sent.                                   *)
SendVerbatim ==
  /\ frame = <<>>
  /\ frame' = Verbatim(valueTree)
  /\ parsed' = ParseCanonicalValueEnvelope(frame')
  /\ UNCHANGED <<valueTree, built>>

(* A cell of what was sent is replaced, dropped or put in twice.           *)
DamageFrame ==
  \E i \in DOMAIN frame :
     /\ valueTree # NullTree
     /\ \/ \E c \in CellValues \ {frame[i]} : frame' = [frame EXCEPT ![i] = c]
        \/ frame' = RemoveAt(frame, i)
        \/ frame' = InsertAt(frame, i, frame[i])
     /\ parsed' = ParseCanonicalValueEnvelope(frame')
     /\ valueTree' = NullTree
     /\ built' = NoValue

CanonicalStops == frame # <<>> /\ valueTree = NullTree /\ UNCHANGED canonicalVars

CanonicalNext == BuildValue \/ SendVerbatim \/ DamageFrame \/ CanonicalStops
-----------------------------------------------------------------------------
(* What the decoder accepts is what a caller would have built: taking the  *)
(* value apart and building it again gives the same bytes, the same depth  *)
(* and the same number of nodes.  No second encoding of a value passes,    *)
(* whether its members are unsorted, repeated or beyond a limit.           *)
DecodedCanonical ==
  parsed.ok => BuildTree(Inspect(parsed.bytes)) = parsed

(* What was built can be read back with the same measures: the two sides   *)
(* apply the same limits.                                                  *)
BuiltDecodes ==
  built.ok => parsed = built

(* The decoder and the constructors of canonical values agree.             *)
CanonicalValuesSafe == DecodedCanonical /\ BuiltDecodes
=============================================================================

--------------------------- MODULE LineageStore ---------------------------
(***************************************************************************)
(* The runtime v2 store: logical states named by what they were derived    *)
(* from, the provenance observed for each, and the physical copies         *)
(* (materializations) recorded of them.  A state identifier is a digest of *)
(* its factory and of every transform after it; here it is that history    *)
(* itself, the sequence <<factory, transform, ...>>, which is what a       *)
(* collision-free digest distinguishes.                                    *)
(*                                                                         *)
(* Every Put is one SQLite transaction over one connection, so it is one   *)
(* step that either adds all of its rows or none.  A listing is read page  *)
(* by page, each page in a transaction of its own: other writers commit    *)
(* between the pages.                                                      *)
(***************************************************************************)
EXTENDS Integers, SequencesExt

CONSTANTS
    Factories,          \* resolved factory identities
    Transforms,         \* resolved transform identities
    Witnesses,          \* provenance documents, by size in bytes
    MaxTransforms,      \* transforms of one recipe or relative lineage
    MatIds, MatSizes,   \* materialization identifiers and record sizes
    MaxMaterialBytes,   \* largest materialization record
    RecordBytes,        \* size of the row of a state, by its last identity
    MaxSemanticBytes,   \* largest provenance document a state may have
    MaxPageBytes,       \* largest page, and most a trace may read
    PageLimit,          \* rows a reader asks for in one page
    MaxDepth,           \* bound: transforms after a factory
    MaxObs              \* bound: observations

(* A page may hold a row, and no record that is admitted is larger than a  *)
(* page.                                                                   *)
ASSUME LineageAssumption ==
    /\ MaxTransforms \in Nat /\ PageLimit \in Nat \ {0}
    /\ Witnesses \subseteq Nat /\ MatSizes \subseteq Nat
    /\ MaxSemanticBytes \in Nat /\ MaxMaterialBytes \in Nat /\ MaxPageBytes \in Nat
    /\ MaxSemanticBytes <= MaxPageBytes /\ MaxMaterialBytes <= MaxPageBytes

VARIABLES
    stored,    \* state identifiers with a row in runtime_v2_states
    obs,       \* provenance observations in insertion order
    mats,      \* materializations in insertion order
    listing    \* the one open listing

lineageVars == <<stored, obs, mats, listing>>

TransformSeqs == BoundedSeq(Transforms, MaxTransforms)
StateIds == {<<f>> \o t : f \in Factories, t \in BoundedSeq(Transforms, MaxDepth)}

(* NewStateID of a factory, and of a transform applied to a parent. *)
FactoryState(f) == <<f>>
Derive(parent, t) == Append(parent, t)
ParentOf(s) == IF Len(s) = 1 THEN <<>> ELSE Front(s)

(* BuildLineage and Extend: the states a recipe or a suffix derives.       *)
Extend(anchor, ts) == [i \in 1..Len(ts) |-> anchor \o SubSeq(ts, 1, i)]
BuildLineage(f, ts) == <<FactoryState(f)>> \o Extend(FactoryState(f), ts)

(* The wire form of a relative lineage: an anchor and, for each step, the  *)
(* transform and the state it claims to have derived.  Decoding derives    *)
(* every step again and follows the chain of parents.                      *)
Decode(wire) ==
    LET claimed(i) == wire.steps[i].state
        before(i) == IF i = 1 THEN wire.anchor ELSE claimed(i - 1)
        sound(i) == /\ Len(claimed(i)) > 1
                    /\ Derive(ParentOf(claimed(i)), wire.steps[i].transform) = claimed(i)
                    /\ ParentOf(claimed(i)) = before(i)
    IN IF \A i \in DOMAIN wire.steps : sound(i)
       THEN <<[i \in DOMAIN wire.steps |-> claimed(i)]>> ELSE <<>>

(* Rows by their position: provenance ascends, materializations descend.   *)
Precedes(kind, a, b) == IF kind = "provenance" THEN a < b ELSE a > b
InOrder(kind, S) ==
    CHOOSE rows \in [1..Cardinality(S) -> S] :
        \A i, j \in DOMAIN rows : i < j => Precedes(kind, rows[i], rows[j])

(***************************************************************************)
(* Writing.                                                                *)
(***************************************************************************)
Observed(s, w) == \E i \in DOMAIN obs : obs[i].state = s /\ obs[i].witness = w

\* Mutant of Admitted.
(* The size of a document is not checked. *)
AdmittedAny(w) == TRUE

(* putRuntimeV2State over the states of one lineage: a row where there is  *)
(* none, and the observation where it is new; a document above the limit   *)
(* fails the transaction, and so does a parent without a row (the foreign  *)
(* key of runtime_v2_states).                                              *)
Admitted(w) == w <= MaxSemanticBytes

PutStates(states, w) ==
    LET new == InOrder("provenance", {i \in DOMAIN states : ~Observed(states[i], w)})
    IN /\ Admitted(w)
       /\ ParentOf(states[1]) = <<>> \/ ParentOf(states[1]) \in stored
       /\ \A i \in 2..Len(states) : ParentOf(states[i]) \in stored \cup ToSet(SubSeq(states, 1, i - 1))
       /\ Len(obs) + Len(new) <= MaxObs
       /\ stored' = stored \cup ToSet(states)
       /\ obs' = obs \o [i \in DOMAIN new |-> [state |-> states[new[i]], witness |-> w]]
       /\ UNCHANGED <<mats, listing>>

PutRecipeLineage(f, ts, w) == PutStates(BuildLineage(f, ts), w)

(* The anchor must have a row.  The lineage itself may be longer than the  *)
(* anchor's allows: the limit is on the suffix alone.                      *)
PutRelativeLineage(anchor, steps, w) ==
    /\ anchor \in stored
    /\ PutStates(steps, w)

(* A lineage that arrives as JSON, perhaps one that names another anchor   *)
(* or has lost a step on the way.                                          *)
Wire(anchor, base, ts, lost) ==
    LET all == [i \in DOMAIN ts |-> [transform |-> ts[i], state |-> Extend(base, ts)[i]]]
    IN [anchor |-> anchor, steps |-> IF lost = 0 THEN all ELSE RemoveAt(all, lost)]

ReceiveLineage(wire, w) ==
    /\ wire.steps # <<>>
    /\ Decode(wire) # <<>>
    /\ PutRelativeLineage(wire.anchor, Decode(wire)[1], w)

(* PutMaterialization: the state must exist, and an identifier used       *)
(* before adds nothing, whether it carries the same value or is refused.   *)
AdmittedMaterial(size) == size <= MaxMaterialBytes

PutMaterialization(id, s, size) ==
    /\ AdmittedMaterial(size)
    /\ s \in stored
    /\ \A i \in DOMAIN mats : mats[i].id # id
    /\ mats' = Append(mats, [id |-> id, state |-> s, witness |-> size])
    /\ UNCHANGED <<stored, obs, listing>>

(***************************************************************************)
(* Reading.                                                                *)
(***************************************************************************)
TotalBytes(sizes) ==
    LET total[n \in 0..Len(sizes)] == IF n = 0 THEN 0 ELSE total[n - 1] + sizes[n]
    IN total[Len(sizes)]

Parents(s, n) == [i \in 1..n |-> SubSeq(s, 1, Len(s) + 1 - i)]

\* Mutant of TraceLineage.
(* One parent too few is followed. *)
TraceLineageShort(s) ==
    LET walked == Min({Len(s), MaxTransforms})
        rows == Parents(s, walked)
    IN IF /\ \A i \in 1..walked : rows[i] \in stored
          /\ TotalBytes([i \in 1..walked |-> RecordBytes[Last(rows[i])]]) <= MaxPageBytes
          /\ ParentOf(rows[walked]) = <<>>
       THEN Reverse(rows) ELSE <<>>

(* TraceLineage: parents are followed row by row, at most MaxTransforms    *)
(* of them and no more bytes than a page, and the answer is reversed;      *)
(* anything else is "corrupt".                                             *)
TraceLineage(s) ==
    LET walked == Min({Len(s), MaxTransforms + 1})
        rows == Parents(s, walked)
    IN IF /\ \A i \in 1..walked : rows[i] \in stored
          /\ TotalBytes([i \in 1..walked |-> RecordBytes[Last(rows[i])]]) <= MaxPageBytes
          /\ ParentOf(rows[walked]) = <<>>
       THEN Reverse(rows) ELSE <<>>

(* The rows of a table a page may hold: ascending after the cursor for     *)
(* provenance, descending before it for materializations, never past the   *)
(* high water mark of the first page.                                      *)
Candidates(l) ==
    LET table == IF l.kind = "provenance" THEN obs ELSE mats
        after(i) == l.first \/ Precedes(l.kind, l.last, i)
    IN InOrder(l.kind, {i \in DOMAIN table : table[i].state = l.state /\ i <= l.high /\ after(i)})

Bytes(table, rows) == TotalBytes([i \in DOMAIN rows |-> table[rows[i]].witness])

(* The longest prefix within the row limit and the byte budget. *)
Page(l) ==
    LET table == IF l.kind = "provenance" THEN obs ELSE mats
        rows == Candidates(l)
        fits == {n \in 0..Min({Len(rows), PageLimit}) :
                     Bytes(table, SubSeq(rows, 1, n)) <= MaxPageBytes}
    IN SubSeq(rows, 1, Max(fits))

HighWater(kind) == Len(IF kind = "provenance" THEN obs ELSE mats)

(* The first page fixes the high water mark.  Ghosts: the rows there were  *)
(* then (due), the rows returned (got), whether a page came back empty.    *)
OpenListing(kind, s) ==
    LET table == IF kind = "provenance" THEN obs ELSE mats
    IN /\ ~listing.open
       /\ s \in stored
       /\ listing' = [open |-> TRUE, kind |-> kind, state |-> s, high |-> HighWater(kind),
                      last |-> 0, first |-> TRUE, got |-> <<>>, empty |-> FALSE,
                      due |-> InOrder(kind, {i \in DOMAIN table : table[i].state = s})]
       /\ UNCHANGED <<stored, obs, mats>>

\* Mutant of NextCursor.
(* Each page takes a high water mark of its own. *)
NextCursorFresh(l, page) ==
    [l EXCEPT !.open = Len(page) < Len(Candidates(l)), !.last = IF page = <<>> THEN 0 ELSE Last(page),
              !.first = FALSE, !.got = l.got \o page, !.high = HighWater(l.kind),
              !.empty = page = <<>> /\ Candidates(l) # <<>>]

(* The cursor of the next page keeps the high water mark and the last row  *)
(* returned; without more rows the listing is over.                        *)
NextCursor(l, page) ==
    [l EXCEPT !.open = Len(page) < Len(Candidates(l)),
              !.last = IF page = <<>> THEN 0 ELSE Last(page),
              !.first = FALSE,
              !.got = l.got \o page,
              !.empty = page = <<>> /\ Candidates(l) # <<>>]

ReadPage ==
    /\ listing.open
    /\ listing' = NextCursor(listing, Page(listing))
    /\ UNCHANGED <<stored, obs, mats>>

(* A reader that stops half way simply does not come back. *)
AbandonListing ==
    /\ listing.open /\ ~listing.first
    /\ listing' = [listing EXCEPT !.open = FALSE, !.got = <<>>, !.due = <<>>]
    /\ UNCHANGED <<stored, obs, mats>>

LineageInit ==
    /\ stored = {}
    /\ obs = <<>>
    /\ mats = <<>>
    /\ listing = [open |-> FALSE, kind |-> "provenance", state |-> <<>>, high |-> 0, last |-> 0,
                  first |-> FALSE, got |-> <<>>, empty |-> FALSE, due |-> <<>>]

LineageNext ==
    \/ \E f \in Factories, ts \in TransformSeqs, w \in Witnesses : PutRecipeLineage(f, ts, w)
    \/ \E a \in stored, b \in stored, ts \in TransformSeqs \ {<<>>}, w \in Witnesses :
           \E lost \in 0..Len(ts) :
              /\ Len(b) + Len(ts) <= MaxDepth + 1
              /\ ReceiveLineage(Wire(a, b, ts, lost), w)
    \/ \E id \in MatIds, s \in stored, size \in MatSizes : PutMaterialization(id, s, size)
    \/ \E kind \in {"provenance", "materializations"}, s \in stored : OpenListing(kind, s)
    \/ ReadPage
    \/ AbandonListing

LineageTypeOK ==
    /\ stored \subseteq StateIds
    /\ \A i \in DOMAIN obs : obs[i].state \in StateIds /\ obs[i].witness \in Witnesses
    /\ \A i \in DOMAIN mats : mats[i].state \in StateIds /\ mats[i].id \in MatIds
    /\ listing.open \in BOOLEAN

(***************************************************************************)
(* Properties.                                                             *)
(***************************************************************************)

(* A listing read to its end has returned, in order and once each, exactly *)
(* the rows its state had when the first page was read, however many were  *)
(* added between the pages; and while it goes on it has returned the first *)
(* of them (ListProvenance, ListMaterializations).                         *)
PagesExact ==
    IF listing.open THEN IsPrefix(listing.got, listing.due) ELSE listing.got = listing.due

(* Every page of an unfinished listing brings at least one row, so that    *)
(* reading on always ends: no admitted record is larger than a page.       *)
PagesAdvance == ~listing.empty

(* The bytes of the rows of a lineage, from the last state to the factory. *)
LineageBytes(s) == TotalBytes([i \in DOMAIN s |-> RecordBytes[s[Len(s) + 1 - i]]])

(* Every stored state traces back to its factory, through exactly the      *)
(* states it was derived from, as long as its whole lineage has no more    *)
(* transforms than one recipe may have and fits a page (TraceLineage).     *)
LineageTraced ==
    \A s \in stored : Len(s) <= MaxTransforms + 1 /\ LineageBytes(s) <= MaxPageBytes =>
        /\ TraceLineage(s) # <<>>
        /\ TraceLineage(s) = [i \in DOMAIN s |-> SubSeq(s, 1, i)]

(* The three of them: what is stored can be traced and listed whole. *)
LineageSafe == PagesExact /\ PagesAdvance /\ LineageTraced
=============================================================================

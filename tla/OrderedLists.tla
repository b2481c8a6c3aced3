---------------------------- MODULE OrderedLists ----------------------------
(***************************************************************************)
(* What platform-test/list.h promises, with sequences in place of          *)
(* pointers: each list head has a sequence of entries, an entry is on one  *)
(* list at most, and every operation moves entries without losing one.     *)
(* A head is stale once its entries were moved away and nobody             *)
(* initialised it again.                                                   *)
(***************************************************************************)
EXTENDS Naturals, SequencesExt

CONSTANTS
  Lists,    \* the list heads
  Entries,  \* the entries
  Key       \* what list_add_order compares

VARIABLES
  seqs,   \* seqs[h]: the entries of list h, first to last
  stale   \* the heads that are no list at present

Linked == UNION {ToSet(seqs[h]) : h \in Lists}

Init ==
  /\ seqs = [h \in Lists |-> <<>>]
  /\ stale = {}

\* A loose entry joins list h at position i.
Insert(e, h, i) ==
  /\ h \notin stale
  /\ e \in Entries \ Linked
  /\ seqs' = [seqs EXCEPT ![h] = InsertAt(@, i, e)]
  /\ UNCHANGED stale

AddFirst(e, h) == Insert(e, h, 1)

AddLast(e, h) == Insert(e, h, Len(seqs[h]) + 1)

\* Behind every entry up to the last one whose key is not greater.
AddSorted(e, h) ==
  \E i \in 1 .. Len(seqs[h]) + 1 :
    /\ \A j \in i .. Len(seqs[h]) : Key[seqs[h][j]] > Key[e]
    /\ i > 1 => Key[seqs[h][i - 1]] <= Key[e]
    /\ Insert(e, h, i)

\* The i-th entry of list g is taken off.
Without(g, i) == [seqs EXCEPT ![g] = RemoveAt(@, i)]

\* An entry leaves its list.
Delete(e) ==
  \E g \in Lists : \E i \in 1 .. Len(seqs[g]) :
    /\ seqs[g][i] = e
    /\ seqs' = Without(g, i)
    /\ UNCHANGED stale

\* All entries leave their list.
DeleteEach(h) ==
  /\ h \notin stale
  /\ seqs' = [seqs EXCEPT ![h] = <<>>]
  /\ UNCHANGED stale

\* An entry moves to the front or to the back of a list.
MoveFirst(e, h) ==
  \E g \in Lists : \E i \in 1 .. Len(seqs[g]) :
    /\ seqs[g][i] = e
    /\ h \notin stale
    /\ seqs' = [Without(g, i) EXCEPT ![h] = <<e>> \o @]
    /\ UNCHANGED stale

MoveLast(e, h) ==
  \E g \in Lists : \E i \in 1 .. Len(seqs[g]) :
    /\ seqs[g][i] = e
    /\ h \notin stale
    /\ seqs' = [Without(g, i) EXCEPT ![h] = Append(@, e)]
    /\ UNCHANGED stale

\* All of l goes before, or after, the entries of h; reinit says whether l is
\* an empty list afterwards.  An empty l stays what it is.
Join(l, h, joined, reinit) ==
  /\ l # h
  /\ {l, h} \cap stale = {}
  /\ seqs' = [seqs EXCEPT ![l] = <<>>, ![h] = joined]
  /\ stale' = IF reinit \/ seqs[l] = <<>> THEN stale ELSE stale \cup {l}

JoinFirst(l, h, reinit) == Join(l, h, seqs[l] \o seqs[h], reinit)

JoinLast(l, h, reinit) == Join(l, h, seqs[h] \o seqs[l], reinit)

\* A loose entry takes the place of a linked one.
Replace(old, new) ==
  /\ old \in Linked
  /\ new \in Entries \ Linked
  /\ seqs' = [h \in Lists |-> ReplaceAll(seqs[h], old, new)]
  /\ UNCHANGED stale

\* Head new, which has no entries, takes over the list of head old.
TakeOver(old, new, reinit) ==
  /\ old # new
  /\ old \notin stale
  /\ seqs[new] = <<>>
  /\ seqs' = [seqs EXCEPT ![old] = <<>>, ![new] = seqs[old]]
  /\ stale' = (stale \ {new}) \cup (IF reinit THEN {} ELSE {old})

\* The first entry becomes the last.
Rotate(h) ==
  /\ h \notin stale
  /\ seqs[h] # <<>>
  /\ seqs' = [seqs EXCEPT ![h] = Append(Tail(@), Head(@))]
  /\ UNCHANGED stale

\* INIT_LIST_HEAD on a head that has no entries.
Initialise(h) ==
  /\ seqs[h] = <<>>
  /\ stale' = stale \ {h}
  /\ UNCHANGED seqs
=============================================================================

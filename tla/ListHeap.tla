------------------------------ MODULE ListHeap ------------------------------
(***************************************************************************)
(* The intrusive doubly linked list of platform-test/list.h as a heap of   *)
(* next and prev pointers.  Each function is an operator on the heap, with *)
(* its stores in the order of the source, because a store may change what  *)
(* the next one reads.  The actions call a function as its contract allows *)
(* it: an entry is added only while it is loose, deleted only while it is  *)
(* linked, and a head is used only while it is a list.                     *)
(***************************************************************************)
EXTENDS Naturals, FiniteSets, SequencesExt

CONSTANTS
  Lists,      \* nodes used as list heads
  Entries,    \* nodes embedded in the structures on the lists
  Key,        \* what the compare function of list_add_order compares
  NextPoison, \* 0xbabebabe
  PrevPoison  \* 0xcafecafe

Nodes == Lists \cup Entries

ASSUME NodesAssumption ==
  /\ Lists \cap Entries = {}
  /\ NextPoison \notin Nodes
  /\ PrevPoison \notin Nodes
  /\ Key \in [Entries -> Nat]
  /\ IsFiniteSet(Nodes)

VARIABLES
  next,  \* next[n]: the next pointer of node n
  prev   \* prev[n]: its prev pointer

vars == <<next, prev>>

Heap == [next |-> next, prev |-> prev]

\* The stores n->next = p and n->prev = p.
SetNext(m, n, p) == [m EXCEPT !.next[n] = p]
SetPrev(m, n, p) == [m EXCEPT !.prev[n] = p]

-----------------------------------------------------------------------------
(* What a walk along the pointers finds *)

\* The node k steps from head along pointers, which are next or prev.
Path(pointers, head) ==
  LET node[k \in 0 .. Cardinality(Nodes)] ==
        IF k = 0 THEN head
        ELSE IF node[k - 1] \in Nodes THEN pointers[node[k - 1]]
             ELSE node[k - 1]
  IN  node

\* The nodes before head comes again: the bodies of list_for_each and
\* list_for_each_entry_reverse run on them.
Walk(pointers, head) ==
  LET node == Path(pointers, head)
      returns == {k \in 1 .. Cardinality(Nodes) : node[k] = head}
  IN  IF returns = {} THEN <<>> ELSE [k \in 1 .. Min(returns) - 1 |-> node[k]]

-----------------------------------------------------------------------------
(* The functions *)

INIT_LIST_HEAD(m, head) == SetNext(SetPrev(m, head, head), head, head)

\* new->prev->next = new, then new->next->prev = new.
LinkNeighbours(m, new) ==
  LET m1 == SetNext(m, m.prev[new], new)
  IN  SetPrev(m1, m1.next[new], new)

list_add(m, new, head) ==
  LinkNeighbours(SetNext(SetPrev(m, new, head), new, m.next[head]), new)

\* Seeded fault: new->next->prev is not set.
list_add_tail_oneway(m, new, head) ==
  LET m1 == SetPrev(SetNext(m, new, head), new, m.prev[head])
  IN  SetNext(m1, m1.prev[new], new)

list_add_tail(m, new, head) ==
  LinkNeighbours(SetPrev(SetNext(m, new, head), new, m.prev[head]), new)

\* Seeded fault: the walk goes on past an entry that compares equal.
OrderPositionStrict(m, new, head) ==
  LET back == Walk(m.prev, head)
      stops == {k \in 1 .. Len(back) : Key[new] > Key[back[k]]}
  IN  IF stops = {} THEN head ELSE back[Min(stops)]

\* The node list_add_order stops at: walking from head->prev backwards, the
\* first entry that compares not greater than new, or the head.
OrderPosition(m, new, head) ==
  LET back == Walk(m.prev, head)
      stops == {k \in 1 .. Len(back) : Key[new] >= Key[back[k]]}
  IN  IF stops = {} THEN head ELSE back[Min(stops)]

list_add_order(m, new, head) == list_add(m, new, OrderPosition(m, new, head))

\* old->prev->next = old->next, then old->next->prev = old->prev.
Unlink(m, old) ==
  LET m1 == SetNext(m, m.prev[old], m.next[old])
  IN  SetPrev(m1, m1.next[old], m1.prev[old])

list_del(m, old) ==
  SetPrev(SetNext(Unlink(m, old), old, NextPoison), old, PrevPoison)

list_del_init(m, old) ==
  SetPrev(SetNext(Unlink(m, old), old, old), old, old)

list_move(m, list, head) == list_add(list_del(m, list), list, head)

list_move_tail(m, list, head) == list_add_tail(list_del(m, list), list, head)

list_empty(m, head) == m.next[head] = head

\* __list_splice: the stores read head->next before it is overwritten.
Splice(m, list, head) ==
  LET m1 == SetNext(m, m.prev[list], m.next[head])
      m2 == SetPrev(m1, m1.next[head], m1.prev[list])
      m3 == SetNext(m2, head, m2.next[list])
  IN  SetPrev(m3, m3.next[list], head)

list_splice(m, list, head) ==
  IF list_empty(m, list) THEN m ELSE Splice(m, list, head)

list_splice_init(m, list, head) ==
  IF list_empty(m, list)
  THEN m
  ELSE INIT_LIST_HEAD(Splice(m, list, head), list)

\* __list_append.
AppendAll(m, list, head) ==
  LET m1 == SetNext(m, m.prev[head], m.next[list])
      m2 == SetPrev(m1, m1.next[list], m1.prev[head])
      m3 == SetPrev(m2, head, m2.prev[list])
  IN  SetNext(m3, m3.prev[list], head)

list_append(m, list, head) ==
  IF list_empty(m, list) THEN m ELSE AppendAll(m, list, head)

list_append_init(m, list, head) ==
  IF list_empty(m, list)
  THEN m
  ELSE INIT_LIST_HEAD(AppendAll(m, list, head), list)

list_is_last(m, list, head) == m.next[list] = head

\* Seeded fault: an empty list passes for singular.
list_is_singular_or_empty(m, head) == m.next[head] = m.prev[head]

list_is_singular(m, head) ==
  ~ list_empty(m, head) /\ m.next[head] = m.prev[head]

list_replace(m, old, new) ==
  LET m1 == SetNext(m, new, m.next[old])
      m2 == SetPrev(m1, m1.next[new], new)
      m3 == SetPrev(m2, new, m2.prev[old])
  IN  SetNext(m3, m3.prev[new], new)

list_replace_init(m, old, new) ==
  INIT_LIST_HEAD(list_replace(m, old, new), old)

list_rotate_left(m, head) ==
  IF list_empty(m, head) THEN m ELSE list_move_tail(m, m.next[head], head)

-----------------------------------------------------------------------------
(* Loops whose body may take the entry it is at off the list *)

\* What a body does to the entry at pos; to is another list.
LoopBody(m, body, pos, to) ==
  CASE body = "del"       -> list_del(m, pos)
    [] body = "move_tail" -> list_move_tail(m, pos, to)
    [] body = "move"      -> list_move(m, pos, to)

\* list_for_each_entry_safe, or with forward FALSE its reverse, after k rounds:
\* n is read before the body runs on pos, and the increment reads the successor
\* of n after it.
SafeLoop(m, forward, head, body, to) ==
  LET Step(heap, n) == IF forward THEN heap.next[n] ELSE heap.prev[n]
      At(heap, pos) == [heap |-> heap, pos |-> pos, n |-> Step(heap, pos)]
      loop[k \in 0 .. Cardinality(Entries)] ==
        IF k = 0 THEN At(m, Step(m, head))
        ELSE LET l == loop[k - 1]
             IN  IF l.pos = head THEN l ELSE At(LoopBody(l.heap, body, l.pos, to), l.n)
  IN  loop

\* The heap when the loop is over.
ForEachSafe(m, forward, head, body, to) ==
  SafeLoop(m, forward, head, body, to)[Cardinality(Entries)].heap

-----------------------------------------------------------------------------
(* The heads and the lists of a state *)

\* A head is a list unless its entries were moved away without initialising
\* it: then it points at a node that does not point back.
IsList(head) == prev[next[head]] = head

stale == {h \in Lists : ~ IsList(h)}

seqs == [h \in Lists |-> IF IsList(h) THEN Walk(next, h) ELSE <<>>]

Linked == UNION {ToSet(seqs[h]) : h \in Lists}

Loose == Entries \ Linked

-----------------------------------------------------------------------------
(* The calls *)

\* Every node was initialised before its first use.
Init ==
  /\ next = [n \in Nodes |-> n]
  /\ prev = [n \in Nodes |-> n]

Becomes(m) ==
  /\ next' = m.next
  /\ prev' = m.prev

Ready == Lists \ stale

CallAdd(e, h) ==
  e \in Loose /\ h \in Ready /\ Becomes(list_add(Heap, e, h))

CallAddTail(e, h) ==
  e \in Loose /\ h \in Ready /\ Becomes(list_add_tail(Heap, e, h))

CallAddOrder(e, h) ==
  e \in Loose /\ h \in Ready /\ Becomes(list_add_order(Heap, e, h))

CallDel(e) == e \in Linked /\ Becomes(list_del(Heap, e))

CallDelInit(e) == e \in Linked /\ Becomes(list_del_init(Heap, e))

CallMove(e, h) ==
  e \in Linked /\ h \in Ready /\ Becomes(list_move(Heap, e, h))

CallMoveTail(e, h) ==
  e \in Linked /\ h \in Ready /\ Becomes(list_move_tail(Heap, e, h))

TwoLists(l, h) == l # h /\ {l, h} \subseteq Ready

CallSplice(l, h) == TwoLists(l, h) /\ Becomes(list_splice(Heap, l, h))

CallSpliceInit(l, h) ==
  TwoLists(l, h) /\ Becomes(list_splice_init(Heap, l, h))

CallAppend(l, h) == TwoLists(l, h) /\ Becomes(list_append(Heap, l, h))

CallAppendInit(l, h) ==
  TwoLists(l, h) /\ Becomes(list_append_init(Heap, l, h))

CallReplace(old, new) ==
  old \in Linked /\ new \in Loose /\ Becomes(list_replace(Heap, old, new))

CallReplaceInit(old, new) ==
  old \in Linked /\ new \in Loose /\ Becomes(list_replace_init(Heap, old, new))

\* The same functions on two heads; new has no entries to lose.
TwoHeads(old, new) == old # new /\ old \in Ready /\ seqs[new] = <<>>

CallReplaceHead(old, new) ==
  TwoHeads(old, new) /\ Becomes(list_replace(Heap, old, new))

CallReplaceHeadInit(old, new) ==
  TwoHeads(old, new) /\ Becomes(list_replace_init(Heap, old, new))

CallRotateLeft(h) == h \in Ready /\ Becomes(list_rotate_left(Heap, h))

\* The three loops that empty a list: delete every entry, or move every entry,
\* from the first to the back or from the last to the front of another list.
CallDelEach(h) == h \in Ready /\ Becomes(ForEachSafe(Heap, TRUE, h, "del", h))

CallMoveEach(l, h) ==
  TwoLists(l, h) /\ Becomes(ForEachSafe(Heap, TRUE, l, "move_tail", h))

CallMoveEachReverse(l, h) ==
  TwoLists(l, h) /\ Becomes(ForEachSafe(Heap, FALSE, l, "move", h))

CallInit(h) == seqs[h] = <<>> /\ Becomes(INIT_LIST_HEAD(Heap, h))

Next ==
  \/ \E e \in Entries, h \in Lists :
       \/ CallAdd(e, h) \/ CallAddTail(e, h) \/ CallAddOrder(e, h)
       \/ CallMove(e, h) \/ CallMoveTail(e, h)
  \/ \E e \in Entries : CallDel(e) \/ CallDelInit(e)
  \/ \E l, h \in Lists :
       \/ CallSplice(l, h) \/ CallSpliceInit(l, h)
       \/ CallAppend(l, h) \/ CallAppendInit(l, h)
       \/ CallReplaceHead(l, h) \/ CallReplaceHeadInit(l, h)
       \/ CallMoveEach(l, h) \/ CallMoveEachReverse(l, h)
  \/ \E old, new \in Entries : CallReplace(old, new) \/ CallReplaceInit(old, new)
  \/ \E h \in Lists : CallRotateLeft(h) \/ CallInit(h) \/ CallDelEach(h)

Spec == Init /\ [][Next]_vars

-----------------------------------------------------------------------------
(* Properties *)

\* The pointers of every list form one ring: the backward walk is the forward
\* walk reversed, and no entry is met on two lists (list.h:25-44, 72-91,
\* 117-179, 200-214).
Rings ==
  \A h \in Lists \ stale :
    /\ Walk(prev, h) = Reverse(Walk(next, h))
    /\ next[prev[h]] = h
    /\ \A g \in Lists \ (stale \cup {h}) :
         ToSet(seqs[g]) \cap ToSet(seqs[h]) = {}

\* The predicates answer from one or two pointers what the whole list says
\* (list.h:110-114, 181-191).
QueriesAgree ==
  \A h \in Lists \ stale :
    /\ list_empty(Heap, h) <=> seqs[h] = <<>>
    /\ list_is_singular(Heap, h) <=> Len(seqs[h]) = 1
    /\ \A e \in ToSet(seqs[h]) :
         list_is_last(Heap, e, h) <=> e = Last(seqs[h])

-----------------------------------------------------------------------------
(* Every function does to the pointers what it promises of the sequences. *)

Promise == INSTANCE OrderedLists

EntryCalls ==
  \A e \in Entries :
    /\ CallDel(e) \/ CallDelInit(e) => Promise!Delete(e)
    /\ \A h \in Lists :
         /\ CallAdd(e, h) => Promise!AddFirst(e, h)
         /\ CallAddTail(e, h) => Promise!AddLast(e, h)
         /\ CallAddOrder(e, h) => Promise!AddSorted(e, h)
         /\ CallMove(e, h) => Promise!MoveFirst(e, h)
         /\ CallMoveTail(e, h) => Promise!MoveLast(e, h)
    /\ \A new \in Entries :
         CallReplace(e, new) \/ CallReplaceInit(e, new)
           => Promise!Replace(e, new)

HeadCalls ==
  \A h \in Lists :
    /\ CallRotateLeft(h) => Promise!Rotate(h) \/ UNCHANGED vars
    /\ CallInit(h) => Promise!Initialise(h)
    /\ CallDelEach(h) => Promise!DeleteEach(h)
    /\ \A l \in Lists :
         /\ CallSplice(l, h) => Promise!JoinFirst(l, h, FALSE)
         /\ CallSpliceInit(l, h) => Promise!JoinFirst(l, h, TRUE)
         /\ CallAppend(l, h) => Promise!JoinLast(l, h, FALSE)
         /\ CallAppendInit(l, h) => Promise!JoinLast(l, h, TRUE)
         /\ CallMoveEach(l, h) => Promise!JoinLast(l, h, TRUE)
         /\ CallMoveEachReverse(l, h) => Promise!JoinFirst(l, h, TRUE)
         /\ CallReplaceHead(l, h) => Promise!TakeOver(l, h, FALSE)
         /\ CallReplaceHeadInit(l, h) => Promise!TakeOver(l, h, TRUE)

\* The initial heap is the initial lists, and each call has the effect of the
\* operation it stands for on the sequences, and no other (list.h:25-228).
ImplementsOrderedLists == Promise!Init /\ [][EntryCalls /\ HeadCalls]_vars
=============================================================================

--------------------------- MODULE ListHeapProofs ---------------------------
(***************************************************************************)
(* The functions of list.h on pointers do what OrderedLists says of        *)
(* sequences, for any number of heads and entries.                         *)
(***************************************************************************)
EXTENDS ListHeap, Integers, FiniteSetTheorems, SequenceTheorems, TLAPS

-----------------------------------------------------------------------------
(* Numbers *)

\* A set of numbers without a least one would, cut off above, map into itself
\* without its greatest one.
LEMMA Least ==
  ASSUME NEW S \in SUBSET Nat, S # {}
  PROVE  \E m \in S : \A k \in S : m <= k
<1> SUFFICES ASSUME \A m \in S : \E k \in S : k < m
             PROVE  FALSE
  OBVIOUS
<1>1. PICK n \in S : TRUE
  OBVIOUS
<1> DEFINE T == {k \in 0 .. n : \E s \in S : s <= k}
           f == [k \in T |-> k - 1]
<1>2. IsFiniteSet(T) /\ n \in T
  <2>1. n \in T /\ T \in SUBSET Nat /\ \A k \in T : k <= n
    BY <1>1
  <2> HIDE DEF T
  <2> QED
    BY <2>1, FS_BoundedSetOfNaturals
<1>3. ASSUME NEW k \in T
      PROVE  k - 1 \in T \ {n}
  <2>1. PICK s \in S : s <= k
    OBVIOUS
  <2>2. PICK r \in S : r < s
    OBVIOUS
  <2> QED
    BY <2>1, <2>2
<1>4. f \in [T -> T \ {n}]
  BY <1>3
<1>5. \A a, b \in T : f[a] = f[b] => a = b
  OBVIOUS
<1> HIDE DEF T, f
<1>6. f \in Injection(T, T \ {n})
  BY <1>4, <1>5 DEF Injection, IsInjective
<1>7. IsFiniteSet(T \ {n}) /\ Cardinality(T \ {n}) = Cardinality(T) - 1
  BY <1>2, FS_RemoveElement
<1>8. Cardinality(T) <= Cardinality(T \ {n})
  BY <1>2, <1>6, <1>7, FS_Injection
<1> QED
  BY <1>2, <1>7, <1>8, FS_CardinalityType

LEMMA MinOf ==
  ASSUME NEW S \in SUBSET Nat, S # {}
  PROVE  Min(S) \in S /\ \A k \in S : Min(S) <= k
BY Least DEF Min

-----------------------------------------------------------------------------
(* Sequences *)

LEMMA InsertOf ==
  ASSUME NEW S, NEW s \in Seq(S), NEW i \in 1 .. Len(s) + 1, NEW e \in S
  PROVE  /\ InsertAt(s, i, e) \in Seq(S)
         /\ Len(InsertAt(s, i, e)) = Len(s) + 1
         /\ \A k \in 1 .. Len(s) + 1 :
              InsertAt(s, i, e)[k] = IF k < i THEN s[k]
                                     ELSE IF k = i THEN e ELSE s[k - 1]
<1> DEFINE a == SubSeq(s, 1, i - 1)
           b == SubSeq(s, i, Len(s))
           c == a \o <<e>>
<1>1. Len(s) \in Nat /\ \A k \in 1 .. Len(s) : s[k] \in S
  BY LenProperties, ElementOfSeq
<1>2. /\ a \in Seq(S) /\ Len(a) = i - 1
      /\ \A k \in 1 .. i - 1 : a[k] = s[k]
  BY <1>1, SubSeqProperties
<1>3. /\ b \in Seq(S) /\ Len(b) = Len(s) - i + 1
      /\ \A k \in 1 .. Len(s) - i + 1 : b[k] = s[i + k - 1]
  BY <1>1, SubSeqProperties
<1>4. <<e>> \in Seq(S) /\ Len(<<e>>) = 1 /\ <<e>>[1] = e
  OBVIOUS
<1> HIDE DEF a, b
<1>5. /\ c \in Seq(S) /\ Len(c) = i
      /\ \A k \in 1 .. i : c[k] = IF k < i THEN s[k] ELSE e
  <2>1. /\ c \in Seq(S) /\ Len(c) = Len(a) + 1
        /\ \A k \in 1 .. Len(a) + 1 :
             c[k] = IF k <= Len(a) THEN a[k] ELSE <<e>>[k - Len(a)]
    BY <1>2, <1>4, ConcatProperties
  <2> QED
    BY <1>1, <1>2, <1>4, <2>1
<1> HIDE DEF c
<1>6. /\ c \o b \in Seq(S) /\ Len(c \o b) = Len(s) + 1
      /\ \A k \in 1 .. Len(s) + 1 :
           (c \o b)[k] = IF k <= i THEN c[k] ELSE b[k - i]
  <2>1. i + (Len(s) - i + 1) = Len(s) + 1
    BY <1>1
  <2> QED
    BY <1>3, <1>5, <2>1, ConcatProperties
<1>7. InsertAt(s, i, e) = c \o b
  BY DEF InsertAt, a, b, c
<1>8. ASSUME NEW k \in 1 .. Len(s) + 1
      PROVE  (c \o b)[k] = IF k < i THEN s[k] ELSE IF k = i THEN e ELSE s[k - 1]
  <2>1. CASE k <= i
    BY <1>1, <1>5, <1>6, <2>1
  <2>2. CASE k > i
    <3>1. k - i \in 1 .. Len(s) - i + 1 /\ i + (k - i) - 1 = k - 1
      BY <1>1, <2>2
    <3>2. ~ (k <= i) /\ ~ (k < i) /\ k # i
      BY <1>1, <2>2
    <3> QED
      BY <1>3, <1>6, <3>1, <3>2
  <2>3. k <= i \/ k > i
    BY <1>1
  <2> QED
    BY <2>1, <2>2, <2>3
<1> QED
  BY <1>6, <1>7, <1>8

LEMMA RemoveOf ==
  ASSUME NEW S, NEW s \in Seq(S), NEW i \in 1 .. Len(s)
  PROVE  /\ RemoveAt(s, i) \in Seq(S)
         /\ Len(RemoveAt(s, i)) = Len(s) - 1
         /\ \A k \in 1 .. Len(s) - 1 :
              RemoveAt(s, i)[k] = IF k < i THEN s[k] ELSE s[k + 1]
<1> DEFINE a == SubSeq(s, 1, i - 1)
           b == SubSeq(s, i + 1, Len(s))
<1>1. Len(s) \in Nat /\ \A k \in 1 .. Len(s) : s[k] \in S
  BY LenProperties, ElementOfSeq
<1>2. /\ a \in Seq(S) /\ Len(a) = i - 1
      /\ \A k \in 1 .. i - 1 : a[k] = s[k]
  BY <1>1, SubSeqProperties
<1>3. /\ b \in Seq(S) /\ Len(b) = Len(s) - i
      /\ \A k \in 1 .. Len(s) - i : b[k] = s[i + k]
  <2>1. /\ b \in Seq(S) /\ Len(b) = IF i + 1 <= Len(s) THEN Len(s) - (i + 1) + 1 ELSE 0
        /\ \A k \in 1 .. Len(s) - (i + 1) + 1 : b[k] = s[i + 1 + k - 1]
    BY <1>1, SubSeqProperties
  <2> QED
    BY <1>1, <2>1
<1> HIDE DEF a, b
<1>6. /\ a \o b \in Seq(S) /\ Len(a \o b) = Len(s) - 1
      /\ \A k \in 1 .. Len(s) - 1 :
           (a \o b)[k] = IF k <= i - 1 THEN a[k] ELSE b[k - (i - 1)]
  <2>1. (i - 1) + (Len(s) - i) = Len(s) - 1
    BY <1>1
  <2>2. /\ a \o b \in Seq(S) /\ Len(a \o b) = Len(a) + Len(b)
        /\ \A k \in 1 .. Len(a) + Len(b) :
             (a \o b)[k] = IF k <= Len(a) THEN a[k] ELSE b[k - Len(a)]
    BY <1>2, <1>3, ConcatProperties
  <2> QED
    BY <1>2, <1>3, <2>1, <2>2
<1>7. RemoveAt(s, i) = a \o b
  BY DEF RemoveAt, a, b
<1>8. ASSUME NEW k \in 1 .. Len(s) - 1
      PROVE  (a \o b)[k] = IF k < i THEN s[k] ELSE s[k + 1]
  <2>1. CASE k < i
    <3>1. k <= i - 1 /\ k \in 1 .. i - 1
      BY <1>1, <2>1
    <3> QED
      BY <1>2, <1>6, <2>1, <3>1
  <2>2. CASE ~ (k < i)
    <3>1. k - (i - 1) \in 1 .. Len(s) - i /\ i + (k - (i - 1)) = k + 1
          /\ ~ (k <= i - 1)
      BY <1>1, <2>2
    <3> QED
      BY <1>3, <1>6, <2>2, <3>1
  <2> QED
    BY <2>1, <2>2
<1> QED
  BY <1>6, <1>7, <1>8
-----------------------------------------------------------------------------
(* Stores *)

\* Every node has both pointers.
IsHeap(m) ==
  /\ m = [next |-> m.next, prev |-> m.prev]
  /\ m.next = [n \in Nodes |-> m.next[n]]
  /\ m.prev = [n \in Nodes |-> m.prev[n]]

LEMMA NextStore ==
  ASSUME NEW m, IsHeap(m), NEW n \in Nodes, NEW p
  PROVE  /\ IsHeap(SetNext(m, n, p))
         /\ SetNext(m, n, p).prev = m.prev
         /\ \A x \in Nodes :
              SetNext(m, n, p).next[x] = IF x = n THEN p ELSE m.next[x]
<1> DEFINE f == m.next
           g == m.prev
<1>1. SetNext(m, n, p) = [next |-> [f EXCEPT ![n] = p], prev |-> g]
  BY DEF SetNext, IsHeap
<1>2. f = [x \in Nodes |-> f[x]] /\ g = [x \in Nodes |-> g[x]]
  BY DEF IsHeap
<1> HIDE DEF f, g
<1> QED
  BY <1>1, <1>2 DEF IsHeap, g, f

LEMMA PrevStore ==
  ASSUME NEW m, IsHeap(m), NEW n \in Nodes, NEW p
  PROVE  /\ IsHeap(SetPrev(m, n, p))
         /\ SetPrev(m, n, p).next = m.next
         /\ \A x \in Nodes :
              SetPrev(m, n, p).prev[x] = IF x = n THEN p ELSE m.prev[x]
<1> DEFINE f == m.next
           g == m.prev
<1>1. SetPrev(m, n, p) = [next |-> f, prev |-> [g EXCEPT ![n] = p]]
  BY DEF SetPrev, IsHeap
<1>2. f = [x \in Nodes |-> f[x]] /\ g = [x \in Nodes |-> g[x]]
  BY DEF IsHeap
<1> HIDE DEF f, g
<1> QED
  BY <1>1, <1>2 DEF IsHeap, g, f

\* Node e comes between p and q.
Inserted(m, r, e, p, q) ==
  /\ IsHeap(r)
  /\ \A x \in Nodes :
       /\ r.next[x] = IF x = p THEN e ELSE IF x = e THEN q ELSE m.next[x]
       /\ r.prev[x] = IF x = q THEN e ELSE IF x = e THEN p ELSE m.prev[x]

LEMMA LinkEffect ==
  ASSUME NEW m, IsHeap(m), NEW e \in Nodes,
         m.next[e] \in Nodes \ {e}, m.prev[e] \in Nodes \ {e}
  PROVE  Inserted(m, LinkNeighbours(m, e), e, m.prev[e], m.next[e])
<1> DEFINE m1 == SetNext(m, m.prev[e], e)
           r == SetPrev(m1, m1.next[e], e)
<1>1. /\ IsHeap(m1) /\ m1.prev = m.prev
      /\ \A x \in Nodes : m1.next[x] = IF x = m.prev[e] THEN e ELSE m.next[x]
  BY NextStore
<1>2. m1.next[e] = m.next[e]
  BY <1>1
<1> HIDE DEF m1
<1>3. /\ IsHeap(r) /\ r.next = m1.next
      /\ \A x \in Nodes : r.prev[x] = IF x = m.next[e] THEN e ELSE m.prev[x]
  BY <1>1, <1>2, PrevStore
<1>4. LinkNeighbours(m, e) = r
  BY DEF LinkNeighbours, r, m1
<1> QED
  BY <1>1, <1>3, <1>4 DEF Inserted

LEMMA AddEffect ==
  ASSUME NEW m, IsHeap(m), NEW e \in Nodes, NEW p \in Nodes \ {e},
         m.next[p] \in Nodes \ {e}
  PROVE  Inserted(m, list_add(m, e, p), e, p, m.next[p])
<1> DEFINE q == m.next[p]
           m1 == SetPrev(m, e, p)
           m2 == SetNext(m1, e, q)
           r == LinkNeighbours(m2, e)
<1>1. /\ IsHeap(m1) /\ m1.next = m.next
      /\ \A x \in Nodes : m1.prev[x] = IF x = e THEN p ELSE m.prev[x]
  BY PrevStore
<1> HIDE DEF m1, q
<1>2. /\ IsHeap(m2) /\ m2.prev = m1.prev
      /\ \A x \in Nodes : m2.next[x] = IF x = e THEN q ELSE m1.next[x]
  BY <1>1, NextStore
<1> HIDE DEF m2
<1>3. m2.next[e] = q /\ m2.prev[e] = p /\ q \in Nodes \ {e}
  BY <1>1, <1>2 DEF q
<1>4. Inserted(m2, r, e, p, q)
  BY <1>2, <1>3, LinkEffect
<1>5. list_add(m, e, p) = r
  BY DEF list_add, r, m2, m1, q
<1>6. Inserted(m, r, e, p, q)
  BY <1>1, <1>2, <1>4 DEF Inserted
<1> QED
  BY <1>5, <1>6 DEF q

LEMMA AddTailEffect ==
  ASSUME NEW m, IsHeap(m), NEW e \in Nodes, NEW q \in Nodes \ {e},
         m.prev[q] \in Nodes \ {e}
  PROVE  Inserted(m, list_add_tail(m, e, q), e, m.prev[q], q)
<1> DEFINE p == m.prev[q]
           m1 == SetNext(m, e, q)
           m2 == SetPrev(m1, e, p)
           r == LinkNeighbours(m2, e)
<1>1. /\ IsHeap(m1) /\ m1.prev = m.prev
      /\ \A x \in Nodes : m1.next[x] = IF x = e THEN q ELSE m.next[x]
  BY NextStore
<1> HIDE DEF m1, p
<1>2. /\ IsHeap(m2) /\ m2.next = m1.next
      /\ \A x \in Nodes : m2.prev[x] = IF x = e THEN p ELSE m1.prev[x]
  BY <1>1, PrevStore
<1> HIDE DEF m2
<1>3. m2.next[e] = q /\ m2.prev[e] = p /\ p \in Nodes \ {e}
  BY <1>1, <1>2 DEF p
<1>4. Inserted(m2, r, e, p, q)
  BY <1>2, <1>3, LinkEffect
<1>5. list_add_tail(m, e, q) = r
  BY DEF list_add_tail, r, m2, m1, p
<1>6. Inserted(m, r, e, p, q)
  BY <1>1, <1>2, <1>4 DEF Inserted
<1> QED
  BY <1>5, <1>6 DEF p

\* Node e is no longer between p and q.
Deleted(m, r, e, p, q) ==
  /\ IsHeap(r)
  /\ \A x \in Nodes \ {e} :
       /\ r.next[x] = IF x = p THEN q ELSE m.next[x]
       /\ r.prev[x] = IF x = q THEN p ELSE m.prev[x]

LEMMA UnlinkEffect ==
  ASSUME NEW m, IsHeap(m), NEW e \in Nodes,
         m.next[e] \in Nodes \ {e}, m.prev[e] \in Nodes \ {e}
  PROVE  Deleted(m, Unlink(m, e), e, m.prev[e], m.next[e])
<1> DEFINE p == m.prev[e]
           q == m.next[e]
           m1 == SetNext(m, p, q)
           r == SetPrev(m1, m1.next[e], m1.prev[e])
<1>1. /\ IsHeap(m1) /\ m1.prev = m.prev
      /\ \A x \in Nodes : m1.next[x] = IF x = p THEN q ELSE m.next[x]
  BY NextStore
<1>2. m1.next[e] = q /\ m1.prev[e] = p
  BY <1>1
<1> HIDE DEF m1
<1>3. /\ IsHeap(r) /\ r.next = m1.next
      /\ \A x \in Nodes : r.prev[x] = IF x = q THEN p ELSE m1.prev[x]
  BY <1>1, <1>2, PrevStore
<1>4. Unlink(m, e) = r
  BY DEF Unlink, r, m1, p, q
<1> QED
  BY <1>1, <1>3, <1>4 DEF Deleted

LEMMA DelEffect ==
  ASSUME NEW m, IsHeap(m), NEW e \in Nodes,
         m.next[e] \in Nodes \ {e}, m.prev[e] \in Nodes \ {e}
  PROVE  /\ Deleted(m, list_del(m, e), e, m.prev[e], m.next[e])
         /\ list_del(m, e).prev[e] = PrevPoison
         /\ Deleted(m, list_del_init(m, e), e, m.prev[e], m.next[e])
         /\ list_del_init(m, e).prev[e] = e
<1> DEFINE u == Unlink(m, e)
<1>1. Deleted(m, u, e, m.prev[e], m.next[e])
  BY UnlinkEffect
<1> HIDE DEF u
<1>2. ASSUME NEW a, NEW b
      PROVE  LET r == SetPrev(SetNext(u, e, a), e, b)
             IN  /\ Deleted(m, r, e, m.prev[e], m.next[e])
                 /\ r.prev[e] = b
  <2> DEFINE v == SetNext(u, e, a)
             r == SetPrev(v, e, b)
  <2>1. /\ IsHeap(v) /\ v.prev = u.prev
        /\ \A x \in Nodes : v.next[x] = IF x = e THEN a ELSE u.next[x]
    BY <1>1, NextStore DEF Deleted
  <2> HIDE DEF v
  <2>2. /\ IsHeap(r) /\ r.next = v.next
        /\ \A x \in Nodes : r.prev[x] = IF x = e THEN b ELSE v.prev[x]
    BY <2>1, PrevStore
  <2> HIDE DEF r
  <2>3. Deleted(m, r, e, m.prev[e], m.next[e]) /\ r.prev[e] = b
    BY <1>1, <2>1, <2>2 DEF Deleted
  <2> QED
    BY <2>3 DEF r, v
<1> QED
  BY <1>2 DEF list_del, list_del_init, u

\* The chain from a to z comes between p and q.
Joined(m, r, a, z, p, q) ==
  /\ IsHeap(r)
  /\ \A x \in Nodes :
       /\ r.next[x] = IF x = p THEN a ELSE IF x = z THEN q ELSE m.next[x]
       /\ r.prev[x] = IF x = a THEN p ELSE IF x = q THEN z ELSE m.prev[x]

LEMMA SpliceEffect ==
  ASSUME NEW m, IsHeap(m), NEW l \in Nodes, NEW h \in Nodes, l # h,
         m.next[l] \in Nodes, m.prev[l] \in Nodes \ {l, h},
         m.next[h] \in Nodes \ {m.next[l]}
  PROVE  Joined(m, Splice(m, l, h), m.next[l], m.prev[l], h, m.next[h])
<1> DEFINE a == m.next[l]
           z == m.prev[l]
           b == m.next[h]
           m1 == SetNext(m, z, b)
           m2 == SetPrev(m1, m1.next[h], m1.prev[l])
           m3 == SetNext(m2, h, m2.next[l])
           r == SetPrev(m3, m3.next[l], h)
<1>1. /\ IsHeap(m1) /\ m1.prev = m.prev
      /\ \A x \in Nodes : m1.next[x] = IF x = z THEN b ELSE m.next[x]
  BY NextStore
<1>2. m1.next[h] = b /\ m1.prev[l] = z /\ m1.next[l] = a
  BY <1>1
<1> HIDE DEF m1
<1>3. /\ IsHeap(m2) /\ m2.next = m1.next
      /\ \A x \in Nodes : m2.prev[x] = IF x = b THEN z ELSE m1.prev[x]
  BY <1>1, <1>2, PrevStore
<1>4. m2.next[l] = a
  BY <1>2, <1>3
<1> HIDE DEF m2
<1>5. /\ IsHeap(m3) /\ m3.prev = m2.prev
      /\ \A x \in Nodes : m3.next[x] = IF x = h THEN a ELSE m2.next[x]
  BY <1>3, <1>4, NextStore
<1>6. m3.next[l] = a
  BY <1>4, <1>5
<1> HIDE DEF m3
<1>7. /\ IsHeap(r) /\ r.next = m3.next
      /\ \A x \in Nodes : r.prev[x] = IF x = a THEN h ELSE m3.prev[x]
  BY <1>5, <1>6, PrevStore
<1>8. Splice(m, l, h) = r
  BY DEF Splice, r, m3, m2, m1, z, b
<1> QED
  BY <1>1, <1>3, <1>5, <1>7, <1>8 DEF Joined

LEMMA AppendEffect ==
  ASSUME NEW m, IsHeap(m), NEW l \in Nodes, NEW h \in Nodes, l # h,
         m.prev[l] \in Nodes, m.next[l] \in Nodes \ {l, h},
         m.prev[h] \in Nodes \ {l, m.prev[l]}
  PROVE  Joined(m, AppendAll(m, l, h), m.next[l], m.prev[l], m.prev[h], h)
<1> DEFINE a == m.next[l]
           z == m.prev[l]
           y == m.prev[h]
           m1 == SetNext(m, y, a)
           m2 == SetPrev(m1, m1.next[l], m1.prev[h])
           m3 == SetPrev(m2, h, m2.prev[l])
           r == SetNext(m3, m3.prev[l], h)
<1>1. /\ IsHeap(m1) /\ m1.prev = m.prev
      /\ \A x \in Nodes : m1.next[x] = IF x = y THEN a ELSE m.next[x]
  BY NextStore
<1>2. m1.next[l] = a /\ m1.prev[h] = y /\ m1.prev[l] = z
  BY <1>1
<1> HIDE DEF m1
<1>3. /\ IsHeap(m2) /\ m2.next = m1.next
      /\ \A x \in Nodes : m2.prev[x] = IF x = a THEN y ELSE m1.prev[x]
  BY <1>1, <1>2, PrevStore
<1>4. m2.prev[l] = z
  BY <1>2, <1>3
<1> HIDE DEF m2
<1>5. /\ IsHeap(m3) /\ m3.next = m2.next
      /\ \A x \in Nodes : m3.prev[x] = IF x = h THEN z ELSE m2.prev[x]
  BY <1>3, <1>4, PrevStore
<1>6. m3.prev[l] = z
  BY <1>4, <1>5
<1> HIDE DEF m3
<1>7. /\ IsHeap(r) /\ r.prev = m3.prev
      /\ \A x \in Nodes : r.next[x] = IF x = z THEN h ELSE m3.next[x]
  BY <1>5, <1>6, NextStore
<1>8. AppendAll(m, l, h) = r
  BY DEF AppendAll, r, m3, m2, m1, a, y
<1> QED
  BY <1>1, <1>3, <1>5, <1>7, <1>8 DEF Joined

\* Unless old points at itself, new comes between the neighbours of old.
LEMMA ReplaceEffect ==
  ASSUME NEW m, IsHeap(m), NEW old \in Nodes, NEW new \in Nodes \ {old},
         m.next[old] \in Nodes \ {old, new}, m.prev[old] \in Nodes \ {new}
  PROVE  Inserted(m, list_replace(m, old, new), new, m.prev[old], m.next[old])
<1> DEFINE p == m.prev[old]
           q == m.next[old]
           m1 == SetNext(m, new, q)
           m2 == SetPrev(m1, m1.next[new], new)
           m3 == SetPrev(m2, new, m2.prev[old])
           r == SetNext(m3, m3.prev[new], new)
<1>1. /\ IsHeap(m1) /\ m1.prev = m.prev
      /\ \A x \in Nodes : m1.next[x] = IF x = new THEN q ELSE m.next[x]
  BY NextStore
<1>2. m1.next[new] = q
  BY <1>1
<1> HIDE DEF m1
<1>3. /\ IsHeap(m2) /\ m2.next = m1.next
      /\ \A x \in Nodes : m2.prev[x] = IF x = q THEN new ELSE m1.prev[x]
  BY <1>1, <1>2, PrevStore
<1>4. m2.prev[old] = p
  BY <1>1, <1>3
<1> HIDE DEF m2
<1>5. /\ IsHeap(m3) /\ m3.next = m2.next
      /\ \A x \in Nodes : m3.prev[x] = IF x = new THEN p ELSE m2.prev[x]
  BY <1>3, <1>4, PrevStore
<1>6. m3.prev[new] = p
  BY <1>5
<1> HIDE DEF m3
<1>7. /\ IsHeap(r) /\ r.prev = m3.prev
      /\ \A x \in Nodes : r.next[x] = IF x = p THEN new ELSE m3.next[x]
  BY <1>5, <1>6, NextStore
<1>8. list_replace(m, old, new) = r
  BY DEF list_replace, r, m3, m2, m1, q
<1> QED
  BY <1>1, <1>3, <1>5, <1>7, <1>8 DEF Inserted

\* An empty head is replaced by one that points at itself, and is no list then.
LEMMA ReplaceEmptyEffect ==
  ASSUME NEW m, IsHeap(m), NEW old \in Nodes, NEW new \in Nodes \ {old},
         m.next[old] = old
  PROVE  LET r == list_replace(m, old, new)
         IN  /\ IsHeap(r)
             /\ \A x \in Nodes :
                  /\ r.next[x] = IF x = new THEN new ELSE m.next[x]
                  /\ r.prev[x] = IF x \in {old, new} THEN new ELSE m.prev[x]
<1> DEFINE m1 == SetNext(m, new, m.next[old])
           m2 == SetPrev(m1, m1.next[new], new)
           m3 == SetPrev(m2, new, m2.prev[old])
           r == SetNext(m3, m3.prev[new], new)
<1>1. /\ IsHeap(m1) /\ m1.prev = m.prev
      /\ \A x \in Nodes : m1.next[x] = IF x = new THEN old ELSE m.next[x]
  BY NextStore
<1>2. m1.next[new] = old
  BY <1>1
<1> HIDE DEF m1
<1>3. /\ IsHeap(m2) /\ m2.next = m1.next
      /\ \A x \in Nodes : m2.prev[x] = IF x = old THEN new ELSE m1.prev[x]
  BY <1>1, <1>2, PrevStore
<1>4. m2.prev[old] = new
  BY <1>3
<1> HIDE DEF m2
<1>5. /\ IsHeap(m3) /\ m3.next = m2.next
      /\ \A x \in Nodes : m3.prev[x] = IF x = new THEN new ELSE m2.prev[x]
  BY <1>3, <1>4, PrevStore
<1>6. m3.prev[new] = new
  BY <1>5
<1> HIDE DEF m3
<1>7. /\ IsHeap(r) /\ r.prev = m3.prev
      /\ \A x \in Nodes : r.next[x] = IF x = new THEN new ELSE m3.next[x]
  BY <1>5, <1>6, NextStore
<1>8. list_replace(m, old, new) = r
  BY DEF list_replace, r, m3, m2, m1
<1> HIDE DEF r
<1>9. /\ IsHeap(r)
      /\ \A x \in Nodes :
           /\ r.next[x] = IF x = new THEN new ELSE m.next[x]
           /\ r.prev[x] = IF x \in {old, new} THEN new ELSE m.prev[x]
  BY <1>1, <1>3, <1>5, <1>7
<1> QED
  BY <1>8, <1>9

LEMMA InitEffect ==
  ASSUME NEW m, IsHeap(m), NEW n \in Nodes
  PROVE  LET r == INIT_LIST_HEAD(m, n)
         IN  /\ IsHeap(r)
             /\ \A x \in Nodes :
                  /\ r.next[x] = IF x = n THEN n ELSE m.next[x]
                  /\ r.prev[x] = IF x = n THEN n ELSE m.prev[x]
<1> DEFINE m1 == SetPrev(m, n, n)
           r == SetNext(m1, n, n)
<1>1. /\ IsHeap(m1) /\ m1.next = m.next
      /\ \A x \in Nodes : m1.prev[x] = IF x = n THEN n ELSE m.prev[x]
  BY PrevStore
<1> HIDE DEF m1
<1>2. /\ IsHeap(r) /\ r.prev = m1.prev
      /\ \A x \in Nodes : r.next[x] = IF x = n THEN n ELSE m1.next[x]
  BY <1>1, NextStore
<1>3. INIT_LIST_HEAD(m, n) = r
  BY DEF INIT_LIST_HEAD, r, m1
<1> QED
  BY <1>1, <1>2, <1>3

-----------------------------------------------------------------------------
(* Rings *)

\* The k-th node of the ring of head h with the entries s; the head is both
\* the node before the first and the node behind the last.
NodeAt(h, s, k) == IF k \in 1 .. Len(s) THEN s[k] ELSE h

\* The pointers of h and of the entries s lead once around, in both directions.
Ring(m, h, s) ==
  \A k \in 0 .. Len(s) :
    /\ m.next[NodeAt(h, s, k)] = NodeAt(h, s, k + 1)
    /\ m.prev[NodeAt(h, s, k + 1)] = NodeAt(h, s, k)

Distinct(s) == \A j, k \in 1 .. Len(s) : s[j] = s[k] => j = k

LEMMA NodeFacts ==
  ASSUME NEW h \in Lists, NEW s \in Seq(Entries)
  PROVE  /\ Len(s) \in Nat
         /\ h \in Nodes /\ h \notin Entries
         /\ \A k \in 1 .. Len(s) : s[k] \in Entries /\ NodeAt(h, s, k) = s[k]
         /\ NodeAt(h, s, 0) = h
         /\ NodeAt(h, s, Len(s) + 1) = h
         /\ \A k \in 0 .. Len(s) + 1 : NodeAt(h, s, k) \in Nodes
         /\ Entries \subseteq Nodes
<1>1. Len(s) \in Nat /\ \A k \in 1 .. Len(s) : s[k] \in Entries
  BY LenProperties, ElementOfSeq
<1> QED
  BY <1>1, NodesAssumption DEF NodeAt, NodesAssumption, Nodes

LEMMA NodesDiffer ==
  ASSUME NEW h \in Lists, NEW s \in Seq(Entries), Distinct(s)
  PROVE  /\ \A j, k \in 0 .. Len(s) :
              NodeAt(h, s, j) = NodeAt(h, s, k) => j = k
         /\ \A j, k \in 1 .. Len(s) + 1 :
              NodeAt(h, s, j) = NodeAt(h, s, k) => j = k
BY NodeFacts DEF NodeAt, Distinct

LEMMA RingInsert ==
  ASSUME NEW m, NEW r, NEW h \in Lists, NEW s \in Seq(Entries), Distinct(s),
         Ring(m, h, s), NEW e \in Entries, \A k \in 1 .. Len(s) : s[k] # e,
         NEW i \in 1 .. Len(s) + 1,
         Inserted(m, r, e, NodeAt(h, s, i - 1), NodeAt(h, s, i))
  PROVE  Ring(r, h, InsertAt(s, i, e))
<1> DEFINE t == InsertAt(s, i, e)
           N(k) == NodeAt(h, s, k)
<1>1. /\ Len(s) \in Nat /\ Len(t) = Len(s) + 1
      /\ \A k \in 1 .. Len(s) + 1 :
           t[k] = IF k < i THEN s[k] ELSE IF k = i THEN e ELSE s[k - 1]
  BY InsertOf, NodeFacts
<1> HIDE DEF t
<1>2. \A k \in 0 .. Len(s) + 2 :
        NodeAt(h, t, k) = IF k < i THEN N(k) ELSE IF k = i THEN e ELSE N(k - 1)
  BY <1>1 DEF NodeAt
<1>3. \A k \in 0 .. Len(s) + 1 : N(k) \in Nodes /\ N(k) # e
  BY NodeFacts DEF NodeAt
<1>4. /\ \A j, k \in 0 .. Len(s) : N(j) = N(k) => j = k
      /\ \A j, k \in 1 .. Len(s) + 1 : N(j) = N(k) => j = k
  BY NodesDiffer
<1>5. \A k \in 0 .. Len(s) : m.next[N(k)] = N(k + 1) /\ m.prev[N(k + 1)] = N(k)
  BY DEF Ring
<1>6. /\ \A x \in Nodes :
           r.next[x] = IF x = N(i - 1) THEN e ELSE IF x = e THEN N(i) ELSE m.next[x]
      /\ \A x \in Nodes :
           r.prev[x] = IF x = N(i) THEN e ELSE IF x = e THEN N(i - 1) ELSE m.prev[x]
      /\ e \in Nodes
  BY NodeFacts DEF Inserted
<1> HIDE DEF N
<1>7. ASSUME NEW k \in 0 .. Len(s) + 1
      PROVE  /\ r.next[NodeAt(h, t, k)] = NodeAt(h, t, k + 1)
             /\ r.prev[NodeAt(h, t, k + 1)] = NodeAt(h, t, k)
  <2>1. CASE k + 1 < i
    <3>1. NodeAt(h, t, k) = N(k) /\ NodeAt(h, t, k + 1) = N(k + 1)
      BY <1>1, <1>2, <2>1
    <3>2. /\ k \in 0 .. Len(s) /\ k # i - 1 /\ i - 1 \in 0 .. Len(s)
          /\ k + 1 \in 1 .. Len(s) + 1 /\ k + 1 # i /\ i \in 1 .. Len(s) + 1
      BY <1>1, <2>1
    <3> QED
      BY <1>3, <1>4, <1>5, <1>6, <3>1, <3>2
  <2>2. CASE k + 1 = i
    <3>1. NodeAt(h, t, k) = N(i - 1) /\ NodeAt(h, t, k + 1) = e
      BY <1>1, <1>2, <2>2
    <3>2. i - 1 \in 0 .. Len(s) + 1 /\ i \in 0 .. Len(s) + 1
      BY <1>1
    <3> QED
      BY <1>3, <1>6, <3>1, <3>2
  <2>3. CASE k = i
    <3>1. NodeAt(h, t, k) = e /\ NodeAt(h, t, k + 1) = N(i)
      BY <1>1, <1>2, <2>3
    <3>2. i - 1 \in 0 .. Len(s) + 1 /\ i \in 0 .. Len(s) + 1
      BY <1>1
    <3> QED
      BY <1>3, <1>6, <3>1, <3>2
  <2>4. CASE k > i
    <3>1. NodeAt(h, t, k) = N(k - 1) /\ NodeAt(h, t, k + 1) = N((k - 1) + 1)
      BY <1>1, <1>2, <2>4
    <3>2. /\ k - 1 \in 0 .. Len(s) /\ k - 1 # i - 1 /\ i - 1 \in 0 .. Len(s)
          /\ (k - 1) + 1 \in 1 .. Len(s) + 1 /\ (k - 1) + 1 # i
          /\ i \in 1 .. Len(s) + 1
      BY <1>1, <2>4
    <3> QED
      BY <1>3, <1>4, <1>5, <1>6, <3>1, <3>2
  <2> QED
    BY <1>1, <2>1, <2>2, <2>3, <2>4
<1> QED
  BY <1>1, <1>7 DEF Ring, t

LEMMA RingDelete ==
  ASSUME NEW m, NEW r, NEW h \in Lists, NEW s \in Seq(Entries), Distinct(s),
         Ring(m, h, s), NEW i \in 1 .. Len(s),
         Deleted(m, r, s[i], NodeAt(h, s, i - 1), NodeAt(h, s, i + 1))
  PROVE  Ring(r, h, RemoveAt(s, i))
<1> DEFINE t == RemoveAt(s, i)
           N(k) == NodeAt(h, s, k)
<1>1. /\ Len(s) \in Nat /\ Len(t) = Len(s) - 1
      /\ \A k \in 1 .. Len(s) - 1 : t[k] = IF k < i THEN s[k] ELSE s[k + 1]
  BY RemoveOf, NodeFacts
<1> HIDE DEF t
<1>2. \A k \in 0 .. Len(s) : NodeAt(h, t, k) = IF k < i THEN N(k) ELSE N(k + 1)
  BY <1>1 DEF NodeAt
<1>3. /\ \A k \in 0 .. Len(s) + 1 : N(k) \in Nodes
      /\ s[i] = N(i)
  BY NodeFacts
<1>4. /\ \A j, k \in 0 .. Len(s) : N(j) = N(k) => j = k
      /\ \A j, k \in 1 .. Len(s) + 1 : N(j) = N(k) => j = k
  BY NodesDiffer
<1>5. \A k \in 0 .. Len(s) : m.next[N(k)] = N(k + 1) /\ m.prev[N(k + 1)] = N(k)
  BY DEF Ring
<1>6. \A x \in Nodes :
        x # N(i) =>
          /\ r.next[x] = IF x = N(i - 1) THEN N(i + 1) ELSE m.next[x]
          /\ r.prev[x] = IF x = N(i + 1) THEN N(i - 1) ELSE m.prev[x]
  BY <1>3 DEF Deleted
<1> HIDE DEF N
<1>7. ASSUME NEW k \in 0 .. Len(s) - 1
      PROVE  /\ r.next[NodeAt(h, t, k)] = NodeAt(h, t, k + 1)
             /\ r.prev[NodeAt(h, t, k + 1)] = NodeAt(h, t, k)
  <2>1. CASE k + 1 < i
    <3>1. NodeAt(h, t, k) = N(k) /\ NodeAt(h, t, k + 1) = N(k + 1)
      BY <1>1, <1>2, <2>1
    <3>2. /\ k \in 0 .. Len(s) /\ k # i - 1 /\ i - 1 \in 0 .. Len(s) /\ k # i
          /\ i \in 0 .. Len(s) /\ k + 1 \in 1 .. Len(s) + 1 /\ k + 1 # i
          /\ i \in 1 .. Len(s) + 1 /\ k + 1 # i + 1 /\ i + 1 \in 1 .. Len(s) + 1
      BY <1>1, <2>1
    <3> QED
      BY <1>3, <1>4, <1>5, <1>6, <3>1, <3>2
  <2>2. CASE k + 1 = i
    <3>1. NodeAt(h, t, k) = N(i - 1) /\ NodeAt(h, t, k + 1) = N(i + 1)
      BY <1>1, <1>2, <2>2
    <3>2. /\ i - 1 \in 0 .. Len(s) + 1 /\ i + 1 \in 0 .. Len(s) + 1
          /\ i - 1 \in 0 .. Len(s) /\ i \in 0 .. Len(s) /\ i - 1 # i
          /\ i + 1 \in 1 .. Len(s) + 1 /\ i \in 1 .. Len(s) + 1 /\ i + 1 # i
      BY <1>1
    <3>3. N(i - 1) # N(i) /\ N(i + 1) # N(i)
      BY <1>4, <3>2
    <3> QED
      BY <1>3, <1>6, <3>1, <3>2, <3>3
  <2>3. CASE k >= i
    <3>1. NodeAt(h, t, k) = N(k + 1) /\ NodeAt(h, t, k + 1) = N((k + 1) + 1)
      BY <1>1, <1>2, <2>3
    <3>2. /\ k + 1 \in 0 .. Len(s) /\ k + 1 # i - 1 /\ i - 1 \in 0 .. Len(s)
          /\ k + 1 # i /\ i \in 0 .. Len(s)
          /\ (k + 1) + 1 \in 1 .. Len(s) + 1 /\ (k + 1) + 1 # i
          /\ i \in 1 .. Len(s) + 1 /\ (k + 1) + 1 # i + 1
          /\ i + 1 \in 1 .. Len(s) + 1
      BY <1>1, <2>3
    <3> QED
      BY <1>3, <1>4, <1>5, <1>6, <3>1, <3>2
  <2> QED
    BY <1>1, <2>1, <2>2, <2>3
<1> QED
  BY <1>1, <1>7 DEF Ring, t

LEMMA RingReplace ==
  ASSUME NEW m, NEW r, NEW h \in Lists, NEW s \in Seq(Entries), Distinct(s),
         Ring(m, h, s), NEW i \in 1 .. Len(s), NEW e \in Entries,
         \A k \in 1 .. Len(s) : s[k] # e,
         Inserted(m, r, e, NodeAt(h, s, i - 1), NodeAt(h, s, i + 1))
  PROVE  Ring(r, h, [s EXCEPT ![i] = e])
<1> DEFINE t == [s EXCEPT ![i] = e]
           N(k) == NodeAt(h, s, k)
<1>1. /\ Len(s) \in Nat /\ Len(t) = Len(s)
      /\ \A k \in 1 .. Len(s) : t[k] = IF k = i THEN e ELSE s[k]
  BY ExceptSeq, NodeFacts
<1> HIDE DEF t
<1>2. \A k \in 0 .. Len(s) + 1 : NodeAt(h, t, k) = IF k = i THEN e ELSE N(k)
  BY <1>1 DEF NodeAt
<1>3. \A k \in 0 .. Len(s) + 1 : N(k) \in Nodes /\ N(k) # e
  BY NodeFacts DEF NodeAt
<1>4. /\ \A j, k \in 0 .. Len(s) : N(j) = N(k) => j = k
      /\ \A j, k \in 1 .. Len(s) + 1 : N(j) = N(k) => j = k
  BY NodesDiffer
<1>5. \A k \in 0 .. Len(s) : m.next[N(k)] = N(k + 1) /\ m.prev[N(k + 1)] = N(k)
  BY DEF Ring
<1>6. /\ \A x \in Nodes :
           r.next[x] = IF x = N(i - 1) THEN e ELSE IF x = e THEN N(i + 1) ELSE m.next[x]
      /\ \A x \in Nodes :
           r.prev[x] = IF x = N(i + 1) THEN e ELSE IF x = e THEN N(i - 1) ELSE m.prev[x]
      /\ e \in Nodes
  BY NodeFacts DEF Inserted
<1> HIDE DEF N
<1>7. ASSUME NEW k \in 0 .. Len(s)
      PROVE  /\ r.next[NodeAt(h, t, k)] = NodeAt(h, t, k + 1)
             /\ r.prev[NodeAt(h, t, k + 1)] = NodeAt(h, t, k)
  <2>1. /\ i - 1 \in 0 .. Len(s) /\ i + 1 \in 1 .. Len(s) + 1
        /\ i - 1 \in 0 .. Len(s) + 1 /\ i + 1 \in 0 .. Len(s) + 1
        /\ k + 1 \in 1 .. Len(s) + 1 /\ k + 1 \in 0 .. Len(s) + 1
        /\ k \in 0 .. Len(s) + 1
    BY <1>1
  <2>2. CASE k # i /\ k + 1 # i
    <3>1. NodeAt(h, t, k) = N(k) /\ NodeAt(h, t, k + 1) = N(k + 1)
      BY <1>2, <2>1, <2>2
    <3>2. k # i - 1 /\ k + 1 # i + 1
      BY <1>1, <2>2
    <3> QED
      BY <1>3, <1>4, <1>5, <1>6, <2>1, <3>1, <3>2
  <2>3. CASE k + 1 = i
    <3>1. NodeAt(h, t, k) = N(i - 1) /\ NodeAt(h, t, k + 1) = e
      BY <1>1, <1>2, <2>1, <2>3
    <3> QED
      BY <1>3, <1>6, <2>1, <3>1
  <2>4. CASE k = i
    <3>1. NodeAt(h, t, k) = e /\ NodeAt(h, t, k + 1) = N(i + 1)
      BY <1>1, <1>2, <2>1, <2>4
    <3> QED
      BY <1>3, <1>6, <2>1, <3>1
  <2> QED
    BY <2>2, <2>3, <2>4
<1> QED
  BY <1>1, <1>7 DEF Ring, t

\* Pointers that stay make a ring that stays.
LEMMA RingFrame ==
  ASSUME NEW m, NEW r, NEW h \in Lists, NEW s \in Seq(Entries),
         Ring(m, h, s),
         \A k \in 0 .. Len(s) :
           /\ r.next[NodeAt(h, s, k)] = m.next[NodeAt(h, s, k)]
           /\ r.prev[NodeAt(h, s, k)] = m.prev[NodeAt(h, s, k)]
  PROVE  Ring(r, h, s)
<1>1. Len(s) \in Nat /\ NodeAt(h, s, 0) = NodeAt(h, s, Len(s) + 1)
  BY NodeFacts
<1>2. ASSUME NEW k \in 0 .. Len(s)
      PROVE  r.prev[NodeAt(h, s, k + 1)] = m.prev[NodeAt(h, s, k + 1)]
  <2>1. CASE k = Len(s)
    BY <1>1, <2>1
  <2>2. CASE k # Len(s)
    <3>1. k + 1 \in 0 .. Len(s)
      BY <1>1, <2>2
    <3> QED
      BY <3>1
  <2> QED
    BY <2>1, <2>2
<1> QED
  BY <1>2 DEF Ring

LEMMA RingEmpty ==
  ASSUME NEW m, NEW h \in Lists
  PROVE  Ring(m, h, <<>>) <=> m.next[h] = h /\ m.prev[h] = h
<1>1. Len(<<>>) = 0 /\ NodeAt(h, <<>>, 0) = h /\ NodeAt(h, <<>>, 1) = h
  BY DEF NodeAt
<1>2. \A k \in 0 .. 0 : k = 0
  OBVIOUS
<1> QED
  BY <1>1, <1>2 DEF Ring

\* Two lists have no node in common.
Apart(s, u) == \A j \in 1 .. Len(s), k \in 1 .. Len(u) : s[j] # u[k]

LEMMA RingPrepend ==
  ASSUME NEW m, NEW r, NEW h \in Lists, NEW s \in Seq(Entries), Distinct(s),
         Ring(m, h, s), NEW l \in Lists, NEW u \in Seq(Entries), Distinct(u),
         Ring(m, l, u), Apart(s, u), Len(u) > 0,
         Joined(m, r, u[1], u[Len(u)], h, NodeAt(h, s, 1))
  PROVE  Ring(r, h, u \o s)
<1> DEFINE t == u \o s
           N(k) == NodeAt(h, s, k)
           a == Len(u)
           b == Len(s)
<1>1. /\ a \in Nat /\ b \in Nat /\ a > 0 /\ Len(t) = a + b
      /\ \A k \in 1 .. a + b : t[k] = IF k <= a THEN u[k] ELSE s[k - a]
  BY ConcatProperties, NodeFacts
<1> HIDE DEF t
<1>2. \A k \in 0 .. a + b + 1 :
        NodeAt(h, t, k) = IF k = 0 THEN h ELSE IF k <= a THEN u[k] ELSE N(k - a)
  BY <1>1 DEF NodeAt
<1>3. /\ \A k \in 0 .. b + 1 : N(k) \in Nodes
      /\ \A k \in 1 .. b : N(k) = s[k]
      /\ \A k \in 1 .. a : u[k] \in Nodes /\ u[k] # h
      /\ \A j \in 1 .. a, k \in 0 .. b + 1 : u[j] # N(k)
      /\ N(0) = h /\ N(b + 1) = h /\ h \in Nodes
  BY NodeFacts DEF NodeAt, Apart
<1>4. /\ \A j, k \in 0 .. b : N(j) = N(k) => j = k
      /\ \A j, k \in 1 .. b + 1 : N(j) = N(k) => j = k
      /\ \A j, k \in 1 .. a : u[j] = u[k] => j = k
  BY NodesDiffer DEF Distinct
<1>5. /\ \A k \in 0 .. b : m.next[N(k)] = N(k + 1) /\ m.prev[N(k + 1)] = N(k)
      /\ \A k \in 1 .. a - 1 : m.next[u[k]] = u[k + 1] /\ m.prev[u[k + 1]] = u[k]
  <2>1. \A k \in 1 .. a - 1 : /\ k \in 0 .. Len(u)
                              /\ NodeAt(l, u, k) = u[k]
                              /\ NodeAt(l, u, k + 1) = u[k + 1]
    BY <1>1 DEF NodeAt
  <2> QED
    BY <2>1 DEF Ring
<1>6. /\ \A x \in Nodes :
           r.next[x] = IF x = h THEN u[1] ELSE IF x = u[a] THEN N(1) ELSE m.next[x]
      /\ \A x \in Nodes :
           r.prev[x] = IF x = u[1] THEN h ELSE IF x = N(1) THEN u[a] ELSE m.prev[x]
  BY DEF Joined
<1> HIDE DEF N, a, b
<1>7. \A x, y \in Nodes :
        m.next[x] = y /\ m.prev[y] = x /\ x # h /\ x # u[a] /\ y # u[1] /\ y # N(1)
          => r.next[x] = y /\ r.prev[y] = x
  BY <1>6
<1>8. ASSUME NEW k \in 0 .. a + b
      PROVE  /\ r.next[NodeAt(h, t, k)] = NodeAt(h, t, k + 1)
             /\ r.prev[NodeAt(h, t, k + 1)] = NodeAt(h, t, k)
  <2>1. CASE k = 0
    <3>1. NodeAt(h, t, k) = h /\ NodeAt(h, t, k + 1) = u[1] /\ 1 \in 1 .. a
      BY <1>1, <1>2, <2>1
    <3> QED
      BY <1>3, <1>6, <3>1
  <2>2. CASE k \in 1 .. a - 1
    <3>1. NodeAt(h, t, k) = u[k] /\ NodeAt(h, t, k + 1) = u[k + 1]
      BY <1>1, <1>2, <2>2
    <3>2. /\ k \in 1 .. a /\ k + 1 \in 1 .. a /\ a \in 1 .. a /\ 1 \in 1 .. a
          /\ k # a /\ k + 1 # 1 /\ 1 \in 0 .. b + 1
      BY <1>1, <2>2
    <3>3. u[k] # h /\ u[k] # u[a] /\ u[k + 1] # u[1] /\ u[k + 1] # N(1)
      BY <1>3, <1>4, <3>2
    <3>4. /\ m.next[u[k]] = u[k + 1] /\ m.prev[u[k + 1]] = u[k]
          /\ u[k] \in Nodes /\ u[k + 1] \in Nodes
      BY <1>3, <1>5, <2>2, <3>2
    <3> QED
      BY <1>7, <3>1, <3>3, <3>4
  <2>3. CASE k = a
    <3>1. NodeAt(h, t, k) = u[a] /\ NodeAt(h, t, k + 1) = N(1)
      BY <1>1, <1>2, <2>3
    <3>2. a \in 1 .. a /\ 1 \in 1 .. a /\ 1 \in 0 .. b + 1
      BY <1>1
    <3> QED
      BY <1>3, <1>6, <3>1, <3>2
  <2>4. CASE k > a
    <3>1. NodeAt(h, t, k) = N(k - a) /\ NodeAt(h, t, k + 1) = N((k - a) + 1)
      BY <1>1, <1>2, <2>4
    <3>2. /\ k - a \in 1 .. b /\ k - a \in 0 .. b /\ 0 \in 0 .. b /\ k - a # 0
          /\ (k - a) + 1 \in 1 .. b + 1 /\ 1 \in 1 .. b + 1 /\ (k - a) + 1 # 1
          /\ k - a \in 0 .. b + 1 /\ (k - a) + 1 \in 0 .. b + 1
          /\ a \in 1 .. a /\ 1 \in 1 .. a
      BY <1>1, <2>4
    <3>3. N(k - a) # h /\ N(k - a) # u[a]
      BY <1>3, <1>4, <3>2
    <3>4. N((k - a) + 1) # u[1] /\ N((k - a) + 1) # N(1)
      BY <1>3, <1>4, <3>2
    <3>5. /\ m.next[N(k - a)] = N((k - a) + 1)
          /\ m.prev[N((k - a) + 1)] = N(k - a)
          /\ N(k - a) \in Nodes /\ N((k - a) + 1) \in Nodes
      BY <1>3, <1>5, <3>2
    <3> QED
      BY <1>7, <3>1, <3>3, <3>4, <3>5
  <2>5. k = 0 \/ k \in 1 .. a - 1 \/ k = a \/ k > a
    BY <1>1
  <2> QED
    BY <2>1, <2>2, <2>3, <2>4, <2>5
<1> QED
  BY <1>1, <1>8 DEF Ring, t, a, b

LEMMA RingAppend ==
  ASSUME NEW m, NEW r, NEW h \in Lists, NEW s \in Seq(Entries), Distinct(s),
         Ring(m, h, s), NEW l \in Lists, NEW u \in Seq(Entries), Distinct(u),
         Ring(m, l, u), Apart(s, u), Len(u) > 0,
         Joined(m, r, u[1], u[Len(u)], NodeAt(h, s, Len(s)), h)
  PROVE  Ring(r, h, s \o u)
<1> DEFINE t == s \o u
           N(k) == NodeAt(h, s, k)
           a == Len(u)
           b == Len(s)
<1>1. /\ a \in Nat /\ b \in Nat /\ a > 0 /\ Len(t) = b + a
      /\ \A k \in 1 .. b + a : t[k] = IF k <= b THEN s[k] ELSE u[k - b]
  BY ConcatProperties, NodeFacts
<1> HIDE DEF t
<1>2. \A k \in 0 .. b + a + 1 :
        NodeAt(h, t, k) = IF k <= b THEN N(k)
                          ELSE IF k <= b + a THEN u[k - b] ELSE h
  BY <1>1 DEF NodeAt
<1>3. /\ \A k \in 0 .. b + 1 : N(k) \in Nodes
      /\ \A k \in 1 .. a : u[k] \in Nodes /\ u[k] # h
      /\ \A j \in 1 .. a, k \in 0 .. b + 1 : u[j] # N(k)
      /\ N(0) = h /\ N(b + 1) = h /\ h \in Nodes
  BY NodeFacts DEF NodeAt, Apart
<1>4. /\ \A j, k \in 0 .. b : N(j) = N(k) => j = k
      /\ \A j, k \in 1 .. b + 1 : N(j) = N(k) => j = k
      /\ \A j, k \in 1 .. a : u[j] = u[k] => j = k
  BY NodesDiffer DEF Distinct
<1>5. /\ \A k \in 0 .. b : m.next[N(k)] = N(k + 1) /\ m.prev[N(k + 1)] = N(k)
      /\ \A k \in 1 .. a - 1 : m.next[u[k]] = u[k + 1] /\ m.prev[u[k + 1]] = u[k]
  <2>1. \A k \in 1 .. a - 1 : /\ k \in 0 .. Len(u)
                              /\ NodeAt(l, u, k) = u[k]
                              /\ NodeAt(l, u, k + 1) = u[k + 1]
    BY <1>1 DEF NodeAt
  <2> QED
    BY <2>1 DEF Ring
<1>6. /\ \A x \in Nodes :
           r.next[x] = IF x = N(b) THEN u[1] ELSE IF x = u[a] THEN h ELSE m.next[x]
      /\ \A x \in Nodes :
           r.prev[x] = IF x = u[1] THEN N(b) ELSE IF x = h THEN u[a] ELSE m.prev[x]
  BY DEF Joined
<1> HIDE DEF N, a, b
<1>7. \A x, y \in Nodes :
        m.next[x] = y /\ m.prev[y] = x /\ x # N(b) /\ x # u[a] /\ y # u[1] /\ y # h
          => r.next[x] = y /\ r.prev[y] = x
  BY <1>6
<1>8. ASSUME NEW k \in 0 .. b + a
      PROVE  /\ r.next[NodeAt(h, t, k)] = NodeAt(h, t, k + 1)
             /\ r.prev[NodeAt(h, t, k + 1)] = NodeAt(h, t, k)
  <2>1. CASE k < b
    <3>1. NodeAt(h, t, k) = N(k) /\ NodeAt(h, t, k + 1) = N(k + 1)
      BY <1>1, <1>2, <2>1
    <3>2. /\ k \in 0 .. b /\ b \in 0 .. b /\ k # b
          /\ k + 1 \in 1 .. b + 1 /\ b + 1 \in 1 .. b + 1 /\ k + 1 # b + 1
          /\ k \in 0 .. b + 1 /\ k + 1 \in 0 .. b + 1
          /\ a \in 1 .. a /\ 1 \in 1 .. a
      BY <1>1, <2>1
    <3>3. N(k) # N(b) /\ N(k) # u[a] /\ N(k + 1) # u[1] /\ N(k + 1) # h
      BY <1>3, <1>4, <3>2
    <3>4. /\ m.next[N(k)] = N(k + 1) /\ m.prev[N(k + 1)] = N(k)
          /\ N(k) \in Nodes /\ N(k + 1) \in Nodes
      BY <1>3, <1>5, <3>2
    <3> QED
      BY <1>7, <3>1, <3>3, <3>4
  <2>2. CASE k = b
    <3>1. NodeAt(h, t, k) = N(b) /\ NodeAt(h, t, k + 1) = u[1]
      BY <1>1, <1>2, <2>2
    <3>2. 1 \in 1 .. a /\ b \in 0 .. b + 1
      BY <1>1
    <3> QED
      BY <1>3, <1>6, <3>1, <3>2
  <2>3. CASE k > b /\ k < b + a
    <3>1. /\ NodeAt(h, t, k) = u[k - b] /\ NodeAt(h, t, k + 1) = u[(k - b) + 1]
      BY <1>1, <1>2, <2>3
    <3>2. /\ k - b \in 1 .. a /\ (k - b) + 1 \in 1 .. a /\ k - b \in 1 .. a - 1
          /\ a \in 1 .. a /\ 1 \in 1 .. a /\ k - b # a /\ (k - b) + 1 # 1
          /\ b \in 0 .. b + 1
      BY <1>1, <2>3
    <3>3. /\ u[k - b] # N(b) /\ u[k - b] # u[a]
          /\ u[(k - b) + 1] # u[1] /\ u[(k - b) + 1] # h
      BY <1>3, <1>4, <3>2
    <3>4. /\ m.next[u[k - b]] = u[(k - b) + 1]
          /\ m.prev[u[(k - b) + 1]] = u[k - b]
          /\ u[k - b] \in Nodes /\ u[(k - b) + 1] \in Nodes
      BY <1>3, <1>5, <3>2
    <3> QED
      BY <1>7, <3>1, <3>3, <3>4
  <2>4. CASE k = b + a
    <3>1. NodeAt(h, t, k) = u[a] /\ NodeAt(h, t, k + 1) = h
      BY <1>1, <1>2, <2>4
    <3>2. a \in 1 .. a /\ 1 \in 1 .. a /\ b \in 0 .. b + 1
      BY <1>1
    <3> QED
      BY <1>3, <1>6, <3>1, <3>2
  <2>5. k < b \/ k = b \/ (k > b /\ k < b + a) \/ k = b + a
    BY <1>1
  <2> QED
    BY <2>1, <2>2, <2>3, <2>4, <2>5
<1> QED
  BY <1>1, <1>8 DEF Ring, t, a, b

\* The entries of one head become those of another.
LEMMA RingTakeOver ==
  ASSUME NEW m, NEW r, NEW h \in Lists, NEW g \in Lists \ {h},
         NEW s \in Seq(Entries), Distinct(s), Len(s) > 0, Ring(m, h, s),
         Inserted(m, r, g, NodeAt(h, s, Len(s)), NodeAt(h, s, 1))
  PROVE  Ring(r, g, s)
<1> DEFINE a == Len(s)
<1>1. /\ a \in Nat /\ a > 0
      /\ \A k \in 1 .. a : s[k] \in Nodes /\ s[k] # g /\ s[k] # h
      /\ g \in Nodes
  BY NodeFacts
<1>2. /\ \A k \in 1 .. a : NodeAt(g, s, k) = s[k] /\ NodeAt(h, s, k) = s[k]
      /\ NodeAt(g, s, 0) = g /\ NodeAt(g, s, a + 1) = g
  BY NodeFacts
<1>3. \A k \in 1 .. a - 1 : m.next[s[k]] = s[k + 1] /\ m.prev[s[k + 1]] = s[k]
  <2>1. \A k \in 1 .. a - 1 : /\ k \in 0 .. Len(s)
                              /\ NodeAt(h, s, k) = s[k]
                              /\ NodeAt(h, s, k + 1) = s[k + 1]
    BY <1>1 DEF NodeAt
  <2> QED
    BY <2>1 DEF Ring
<1>4. NodeAt(h, s, a) = s[a] /\ NodeAt(h, s, 1) = s[1]
  BY <1>1, <1>2
<1>5. /\ \A x \in Nodes :
           r.next[x] = IF x = s[a] THEN g ELSE IF x = g THEN s[1] ELSE m.next[x]
      /\ \A x \in Nodes :
           r.prev[x] = IF x = s[1] THEN g ELSE IF x = g THEN s[a] ELSE m.prev[x]
  BY <1>4 DEF Inserted
<1>6. \A j, k \in 1 .. a : s[j] = s[k] => j = k
  BY DEF Distinct
<1> HIDE DEF a
<1>7. ASSUME NEW k \in 0 .. a
      PROVE  /\ r.next[NodeAt(g, s, k)] = NodeAt(g, s, k + 1)
             /\ r.prev[NodeAt(g, s, k + 1)] = NodeAt(g, s, k)
  <2>0. 1 \in 1 .. a /\ a \in 1 .. a
    BY <1>1
  <2>1. CASE k = 0
    BY <1>1, <1>2, <1>5, <2>0, <2>1
  <2>2. CASE k = a
    BY <1>1, <1>2, <1>5, <2>0, <2>2
  <2>3. CASE k # 0 /\ k # a
    <3>1. k \in 1 .. a - 1 /\ k \in 1 .. a /\ k + 1 \in 1 .. a /\ k + 1 # 1
      BY <1>1, <2>3
    <3>2. s[k] # s[a] /\ s[k + 1] # s[1]
      BY <1>6, <2>0, <2>3, <3>1
    <3> QED
      BY <1>1, <1>2, <1>3, <1>5, <3>1, <3>2
  <2> QED
    BY <2>1, <2>2, <2>3
<1> QED
  BY <1>7 DEF Ring, a

-----------------------------------------------------------------------------
(* Walks *)

\* The recursion of Path has a solution, because it goes down to 0.
LEMMA PathEquation ==
  ASSUME NEW p, NEW h
  PROVE  LET node == Path(p, h)
         IN  node = [k \in 0 .. Cardinality(Nodes) |->
                       IF k = 0 THEN h
                       ELSE IF node[k - 1] \in Nodes THEN p[node[k - 1]]
                            ELSE node[k - 1]]
<1> DEFINE Body(f, k) == IF k = 0 THEN h
                         ELSE IF f[k - 1] \in Nodes THEN p[f[k - 1]] ELSE f[k - 1]
           Solves(f, n) == f = [k \in 0 .. n |-> Body(f, k)]
           Bad == {n \in Nat : ~ \E f : Solves(f, n)}
<1>1. \E f : Solves(f, 0)
  <2> DEFINE f == [k \in 0 .. 0 |-> h]
  <2>1. f = [k \in 0 .. 0 |-> Body(f, k)]
    OBVIOUS
  <2> QED
    BY <2>1
<1>2. ASSUME NEW n \in Nat, NEW f, Solves(f, n)
      PROVE  \E g : Solves(g, n + 1)
  <2> DEFINE last == IF f[n] \in Nodes THEN p[f[n]] ELSE f[n]
             g == [k \in 0 .. n + 1 |-> IF k = n + 1 THEN last ELSE f[k]]
  <2>1. ASSUME NEW k \in 0 .. n + 1
        PROVE  g[k] = Body(g, k)
    <3>1. CASE k = n + 1
      <4>1. g[k - 1] = f[n] /\ k # 0 /\ g[k] = last
        BY <3>1
      <4> QED
        BY <4>1
    <3>2. CASE k # n + 1
      <4>1. k \in 0 .. n /\ f[k] = Body(f, k)
        BY <1>2, <3>2
      <4>2. k # 0 => k - 1 \in 0 .. n + 1 /\ k - 1 # n + 1
        BY <4>1
      <4>3. g[k] = f[k] /\ (k # 0 => g[k - 1] = f[k - 1])
        BY <3>2, <4>2
      <4> QED
        BY <4>1, <4>3
    <3> QED
      BY <3>1, <3>2
  <2>2. g = [k \in 0 .. n + 1 |-> g[k]]
    OBVIOUS
  <2> HIDE DEF g
  <2>3. g = [k \in 0 .. n + 1 |-> Body(g, k)]
    BY <2>1, <2>2
  <2> QED
    BY <2>3
<1> HIDE DEF Solves
<1>3. Bad = {}
  <2> SUFFICES ASSUME Bad # {} PROVE FALSE
    OBVIOUS
  <2>1. PICK n \in Bad : \A k \in Bad : n <= k
    BY Least
  <2>2. n # 0 /\ n - 1 \in Nat /\ n - 1 \notin Bad
    BY <1>1, <2>1
  <2>3. PICK f : Solves(f, n - 1)
    BY <2>2
  <2>4. \E g : Solves(g, (n - 1) + 1)
    BY <1>2, <2>2, <2>3
  <2>5. (n - 1) + 1 = n
    BY <2>1
  <2> QED
    BY <2>1, <2>4, <2>5
<1>4. Cardinality(Nodes) \in Nat
  BY NodesAssumption, FS_CardinalityType DEF NodesAssumption
<1>5. \E f : Solves(f, Cardinality(Nodes))
  BY <1>3, <1>4
<1> QED
  BY <1>5 DEF Path, Solves

LEMMA RoomForList ==
  ASSUME NEW h \in Lists, NEW s \in Seq(Entries), Distinct(s)
  PROVE  /\ Cardinality(Nodes) \in Nat /\ Len(s) + 1 <= Cardinality(Nodes)
         /\ Cardinality(Entries) \in Nat /\ Len(s) <= Cardinality(Entries)
<1>1. IsFiniteSet(Nodes) /\ IsFiniteSet(Entries)
  BY NodesAssumption, FS_Subset DEF NodesAssumption, Nodes
<1>2. Len(s) \in Nat
  BY NodeFacts
<1>3. Len(s) + 1 <= Cardinality(Nodes)
  <2> DEFINE f == [k \in 1 .. Len(s) + 1 |-> NodeAt(h, s, k)]
  <2>1. f \in [1 .. Len(s) + 1 -> Nodes]
    BY <1>2, NodeFacts
  <2>2. \A j, k \in 1 .. Len(s) + 1 : f[j] = f[k] => j = k
    BY NodesDiffer
  <2> HIDE DEF f
  <2>3. f \in Injection(1 .. Len(s) + 1, Nodes)
    BY <2>1, <2>2 DEF Injection, IsInjective
  <2>4. Cardinality(1 .. Len(s) + 1) = Len(s) + 1
    BY <1>2, FS_Interval
  <2> QED
    BY <1>1, <2>3, <2>4, FS_Injection
<1>4. Len(s) <= Cardinality(Entries)
  <2>1. s \in [1 .. Len(s) -> Entries]
    BY LenProperties
  <2>2. s \in Injection(1 .. Len(s), Entries)
    BY <2>1 DEF Injection, IsInjective, Distinct
  <2>3. Cardinality(1 .. Len(s)) = Len(s)
    BY <1>2, FS_Interval
  <2> QED
    BY <1>1, <2>2, <2>3, FS_Injection
<1> QED
  BY <1>1, <1>3, <1>4, FS_CardinalityType

\* A walk along pointers that lead once around finds the entries.
LEMMA WalkAround ==
  ASSUME NEW p, NEW h \in Lists, NEW s \in Seq(Entries), Distinct(s),
         \A k \in 0 .. Len(s) : p[NodeAt(h, s, k)] = NodeAt(h, s, k + 1)
  PROVE  Walk(p, h) = s
<1> DEFINE node == Path(p, h)
           c == Cardinality(Nodes)
           returns == {k \in 1 .. c : node[k] = h}
           Bad == {k \in 0 .. Len(s) + 1 : node[k] # NodeAt(h, s, k)}
<1>1. c \in Nat /\ Len(s) \in Nat /\ Len(s) + 1 <= c
  BY RoomForList, NodeFacts
<1>2. \A k \in 0 .. c :
        node[k] = IF k = 0 THEN h
                  ELSE IF node[k - 1] \in Nodes THEN p[node[k - 1]]
                       ELSE node[k - 1]
  <2> HIDE DEF node
  <2>1. node = [k \in 0 .. Cardinality(Nodes) |->
                  IF k = 0 THEN h
                  ELSE IF node[k - 1] \in Nodes THEN p[node[k - 1]]
                       ELSE node[k - 1]]
    BY PathEquation DEF node
  <2> QED
    BY <2>1
<1> HIDE DEF node, c
<1>3. Bad = {}
  <2> SUFFICES ASSUME Bad # {} PROVE FALSE
    OBVIOUS
  <2>1. Bad \in SUBSET Nat
    BY <1>1
  <2>2. PICK n \in Bad : \A k \in Bad : n <= k
    BY <2>1, Least
  <2>3. n # 0
    BY <1>1, <1>2, NodeFacts
  <2>4. n - 1 \in 0 .. Len(s) /\ n - 1 \notin Bad /\ (n - 1) + 1 = n
    BY <1>1, <2>2, <2>3
  <2>5. node[n - 1] = NodeAt(h, s, n - 1)
    BY <1>1, <2>4
  <2>6. NodeAt(h, s, n - 1) \in Nodes
    BY <1>1, <2>4, NodeFacts
  <2>7. p[NodeAt(h, s, n - 1)] = NodeAt(h, s, n)
    BY <2>4
  <2>8. n \in 0 .. c
    BY <1>1, <2>2
  <2>9. node[n] = NodeAt(h, s, n)
    BY <1>2, <2>3, <2>5, <2>6, <2>7, <2>8
  <2> QED
    BY <2>2, <2>9
<1>4. \A k \in 0 .. Len(s) + 1 : node[k] = NodeAt(h, s, k)
  BY <1>3
<1>5. Len(s) + 1 \in returns /\ \A k \in returns : Len(s) + 1 <= k
  <2>1. Len(s) + 1 \in returns
    BY <1>1, <1>4, NodeFacts
  <2>2. \A k \in 1 .. Len(s) : node[k] # h
    <3>1. \A k \in 1 .. Len(s) : k \in 0 .. Len(s) + 1
      BY <1>1
    <3> QED
      BY <1>4, <3>1, NodeFacts
  <2> QED
    BY <1>1, <2>1, <2>2
<1>6. returns \in SUBSET Nat /\ returns # {}
  BY <1>1, <1>5
<1> HIDE DEF returns
<1>7. Min(returns) \in returns /\ \A k \in returns : Min(returns) <= k
  BY <1>6, MinOf
<1>8. Min(returns) = Len(s) + 1
  <2> DEFINE least == Min(returns)
  <2>1. least \in Nat /\ least <= Len(s) + 1 /\ Len(s) + 1 <= least
    BY <1>5, <1>6, <1>7
  <2> HIDE DEF least
  <2>2. least = Len(s) + 1
    BY <1>1, <2>1
  <2> QED
    BY <2>2 DEF least
<1>9. Walk(p, h) = [k \in 1 .. Len(s) + 1 - 1 |-> node[k]]
  BY <1>6, <1>8 DEF Walk, node, returns, c
<1>10. 1 .. Len(s) + 1 - 1 = 1 .. Len(s)
  BY <1>1
<1>11. \A k \in 1 .. Len(s) : node[k] = s[k]
  <2>1. \A k \in 1 .. Len(s) : k \in 0 .. Len(s) + 1
    BY <1>1
  <2> QED
    BY <1>4, <2>1, NodeFacts
<1>12. s = [k \in 1 .. Len(s) |-> s[k]]
  BY LenProperties
<1> QED
  BY <1>9, <1>10, <1>11, <1>12

LEMMA ReverseOf ==
  ASSUME NEW h \in Lists, NEW s \in Seq(Entries), Distinct(s)
  PROVE  LET r == Reverse(s)
         IN  /\ r \in Seq(Entries) /\ Len(r) = Len(s) /\ Distinct(r)
             /\ \A k \in 0 .. Len(s) + 1 :
                  NodeAt(h, r, k) = NodeAt(h, s, Len(s) + 1 - k)
<1> DEFINE r == Reverse(s)
<1>1. Len(s) \in Nat /\ \A k \in 1 .. Len(s) : s[k] \in Entries
  BY NodeFacts
<1>2. \A k \in 1 .. Len(s) : (Len(s) - k) + 1 \in 1 .. Len(s)
  BY <1>1
<1>3. r = [k \in 1 .. Len(s) |-> s[(Len(s) - k) + 1]]
  BY DEF Reverse
<1>4. r \in Seq(Entries)
  BY <1>1, <1>2, <1>3, IsASeq
<1>5. Len(r) = Len(s)
  BY <1>1, <1>3, <1>4, LenProperties
<1> HIDE DEF r
<1>6. Distinct(r)
  <2> SUFFICES ASSUME NEW j \in 1 .. Len(s), NEW k \in 1 .. Len(s), r[j] = r[k]
               PROVE  j = k
    BY <1>5 DEF Distinct
  <2>1. s[(Len(s) - j) + 1] = s[(Len(s) - k) + 1]
    BY <1>3
  <2>2. (Len(s) - j) + 1 = (Len(s) - k) + 1
    BY <1>2, <2>1 DEF Distinct
  <2> QED
    BY <1>1, <2>2
<1>7. ASSUME NEW k \in 0 .. Len(s) + 1
      PROVE  NodeAt(h, r, k) = NodeAt(h, s, Len(s) + 1 - k)
  <2>1. CASE k \in 1 .. Len(s)
    <3>1. (Len(s) - k) + 1 = Len(s) + 1 - k /\ Len(s) + 1 - k \in 1 .. Len(s)
      <4>1. \A n \in Nat : \A i \in 1 .. n :
              (n - i) + 1 = n + 1 - i /\ n + 1 - i \in 1 .. n
        OBVIOUS
      <4> QED
        BY <1>1, <2>1, <4>1
    <3>2. r[k] = s[Len(s) + 1 - k]
      BY <1>3, <2>1, <3>1
    <3> QED
      BY <1>5, <2>1, <3>1, <3>2 DEF NodeAt
  <2>2. CASE k \notin 1 .. Len(s)
    <3>1. Len(s) + 1 - k \notin 1 .. Len(s)
      BY <1>1, <2>2
    <3> QED
      BY <1>5, <2>2, <3>1 DEF NodeAt
  <2> QED
    BY <2>1, <2>2
<1> QED
  BY <1>4, <1>5, <1>6, <1>7 DEF r

LEMMA WalksOfRing ==
  ASSUME NEW m, NEW h \in Lists, NEW s \in Seq(Entries), Distinct(s),
         Ring(m, h, s)
  PROVE  Walk(m.next, h) = s /\ Walk(m.prev, h) = Reverse(s)
<1> DEFINE r == Reverse(s)
<1>1. Walk(m.next, h) = s
  BY WalkAround DEF Ring
<1>2. /\ r \in Seq(Entries) /\ Len(r) = Len(s) /\ Distinct(r) /\ Len(s) \in Nat
      /\ \A k \in 0 .. Len(s) + 1 :
           NodeAt(h, r, k) = NodeAt(h, s, Len(s) + 1 - k)
  BY ReverseOf, NodeFacts
<1> HIDE DEF r
<1>3. ASSUME NEW k \in 0 .. Len(r)
      PROVE  m.prev[NodeAt(h, r, k)] = NodeAt(h, r, k + 1)
  <2>1. Len(s) - k \in 0 .. Len(s) /\ Len(s) + 1 - k = (Len(s) - k) + 1
        /\ Len(s) + 1 - (k + 1) = Len(s) - k
        /\ k \in 0 .. Len(s) + 1 /\ k + 1 \in 0 .. Len(s) + 1
    BY <1>2
  <2>2. /\ NodeAt(h, r, k) = NodeAt(h, s, (Len(s) - k) + 1)
        /\ NodeAt(h, r, k + 1) = NodeAt(h, s, Len(s) - k)
    BY <1>2, <2>1
  <2> QED
    BY <2>1, <2>2 DEF Ring
<1>4. Walk(m.prev, h) = r
  BY <1>2, <1>3, WalkAround
<1> QED
  BY <1>1, <1>4 DEF r

-----------------------------------------------------------------------------
(* Heaps that represent sequences *)

\* A head that is no list: what it points at does not point back.
StaleHead(m, h) ==
  m.next[h] \in Entries \cup {h} /\ m.prev[m.next[h]] # h

\* The heap m has the lists ss, and the heads st are no lists.
Rep(m, ss, st) ==
  /\ IsHeap(m)
  /\ ss \in [Lists -> Seq(Entries)]
  /\ st \subseteq Lists
  /\ \A h \in Lists : Distinct(ss[h])
  /\ \A g, h \in Lists : g # h => Apart(ss[g], ss[h])
  /\ \A h \in Lists \ st : Ring(m, h, ss[h])
  /\ \A h \in st : StaleHead(m, h) /\ ss[h] = <<>>

\* Entry e is on no list.
Free(e, ss) ==
  e \in Entries /\ \A h \in Lists : \A k \in 1 .. Len(ss[h]) : ss[h][k] # e

Untouched(m, r, x) == r.next[x] = m.next[x] /\ r.prev[x] = m.prev[x]

\* Only the lists of C change, to those of tt: the rings of the others are not
\* written, and no prev pointer comes to lead to a head that is no list.
Edits(m, r, ss, st, C, tt, tu) ==
  /\ IsHeap(r)
  /\ C \subseteq Lists
  /\ tt \in [Lists -> Seq(Entries)]
  /\ tu \subseteq Lists
  /\ \A g \in Lists \ C : tt[g] = ss[g] /\ (g \in tu <=> g \in st)
  /\ \A g \in Lists \ (C \cup st) : \A k \in 0 .. Len(ss[g]) :
       Untouched(m, r, NodeAt(g, ss[g], k))
  /\ \A l \in st \ C :
       /\ r.next[l] = m.next[l]
       /\ \A x \in Nodes : r.prev[x] = l => m.prev[x] = l
  /\ \A h \in C :
       /\ Distinct(tt[h])
       /\ h \in tu => tt[h] = <<>> /\ StaleHead(r, h)
       /\ h \notin tu => Ring(r, h, tt[h])
       /\ \A g \in Lists \ {h} : Apart(tt[h], tt[g])

LEMMA RepEdit ==
  ASSUME NEW m, NEW r, NEW ss, NEW st, NEW C, NEW tt, NEW tu,
         Rep(m, ss, st), Edits(m, r, ss, st, C, tt, tu)
  PROVE  Rep(r, tt, tu)
<1> USE DEF Edits
<1>1. \A h \in Lists : Distinct(tt[h])
  BY DEF Rep
<1>2. ASSUME NEW g \in Lists, NEW h \in Lists, g # h
      PROVE  Apart(tt[g], tt[h])
  <2>1. CASE g \in C
    BY <1>2, <2>1
  <2>2. CASE h \in C
    <3>1. Apart(tt[h], tt[g])
      BY <1>2, <2>2
    <3> QED
      BY <3>1 DEF Apart
  <2>3. CASE g \notin C /\ h \notin C
    BY <1>2, <2>3 DEF Rep
  <2> QED
    BY <2>1, <2>2, <2>3
<1>3. ASSUME NEW h \in Lists \ tu
      PROVE  Ring(r, h, tt[h])
  <2>1. CASE h \in C
    BY <2>1
  <2>2. CASE h \notin C
    <3>1. /\ tt[h] = ss[h] /\ h \in Lists \ (C \cup st) /\ ss[h] \in Seq(Entries)
          /\ Ring(m, h, ss[h])
      BY <2>2 DEF Rep
    <3>2. \A k \in 0 .. Len(ss[h]) : Untouched(m, r, NodeAt(h, ss[h], k))
      BY <3>1
    <3> QED
      BY <3>1, <3>2, RingFrame DEF Untouched
  <2> QED
    BY <2>1, <2>2
<1>4. ASSUME NEW l \in tu
      PROVE  StaleHead(r, l) /\ tt[l] = <<>>
  <2>1. CASE l \in C
    BY <2>1
  <2>2. CASE l \notin C
    <3>1. l \in st \ C /\ tt[l] = <<>> /\ StaleHead(m, l) /\ l \in Nodes
      BY <2>2 DEF Rep, Nodes
    <3>2. m.next[l] \in Nodes
      BY <3>1 DEF StaleHead, Nodes
    <3> QED
      BY <3>1, <3>2 DEF StaleHead
  <2> QED
    BY <2>1, <2>2
<1> QED
  BY <1>1, <1>2, <1>3, <1>4 DEF Rep

\* The ring of a list, as the functions meet it.
LEMMA RingOf ==
  ASSUME NEW m, NEW ss, NEW st, Rep(m, ss, st), NEW h \in Lists
  PROVE  /\ ss[h] \in Seq(Entries) /\ Distinct(ss[h]) /\ Len(ss[h]) \in Nat
         /\ \A k \in 1 .. Len(ss[h]) :
              ss[h][k] \in Entries /\ NodeAt(h, ss[h], k) = ss[h][k]
         /\ NodeAt(h, ss[h], 0) = h
         /\ NodeAt(h, ss[h], Len(ss[h]) + 1) = h
         /\ \A k \in 0 .. Len(ss[h]) + 1 :
              NodeAt(h, ss[h], k) \in Entries \cup {h}
         /\ h \notin st =>
              \A k \in 0 .. Len(ss[h]) :
                /\ m.next[NodeAt(h, ss[h], k)] = NodeAt(h, ss[h], k + 1)
                /\ m.prev[NodeAt(h, ss[h], k + 1)] = NodeAt(h, ss[h], k)
<1>1. ss[h] \in Seq(Entries) /\ Distinct(ss[h]) /\ (h \notin st => Ring(m, h, ss[h]))
  BY DEF Rep
<1>2. \A k \in 0 .. Len(ss[h]) + 1 : NodeAt(h, ss[h], k) \in Entries \cup {h}
  BY <1>1, NodeFacts DEF NodeAt
<1> QED
  BY <1>1, <1>2, NodeFacts DEF Ring

\* The nodes of one list are none of another.
LEMMA RingsApart ==
  ASSUME NEW m, NEW ss, NEW st, Rep(m, ss, st), NEW g \in Lists, NEW h \in Lists,
         g # h
  PROVE  \A j \in 0 .. Len(ss[g]) + 1, k \in 0 .. Len(ss[h]) + 1 :
           NodeAt(g, ss[g], j) # NodeAt(h, ss[h], k)
<1>1. ss[g] \in Seq(Entries) /\ ss[h] \in Seq(Entries) /\ Apart(ss[g], ss[h])
  BY DEF Rep
<1>2. /\ g \notin Entries /\ h \notin Entries
      /\ \A k \in 1 .. Len(ss[g]) : ss[g][k] \in Entries
      /\ \A k \in 1 .. Len(ss[h]) : ss[h][k] \in Entries
  BY <1>1, NodeFacts
<1> QED
  BY <1>1, <1>2 DEF NodeAt, Apart

\* One list changes, and only nodes of W are written, none of another ring.
LEMMA RepOne ==
  ASSUME NEW m, NEW r, NEW ss, NEW st, Rep(m, ss, st), IsHeap(r),
         NEW h \in Lists \ st, NEW t \in Seq(Entries), Distinct(t), Ring(r, h, t),
         \A g \in Lists \ {h} : Apart(t, ss[g]),
         NEW W, \A x \in Nodes \ W : Untouched(m, r, x),
         \A g \in Lists \ {h} : \A k \in 0 .. Len(ss[g]) :
           NodeAt(g, ss[g], k) \notin W,
         \A x \in Nodes : r.prev[x] = m.prev[x] \/ r.prev[x] \notin st
  PROVE  Rep(r, [ss EXCEPT ![h] = t], st)
<1> DEFINE tt == [ss EXCEPT ![h] = t]
<1>1. ss \in [Lists -> Seq(Entries)] /\ st \subseteq Lists
  BY DEF Rep
<1>2. /\ tt \in [Lists -> Seq(Entries)] /\ tt[h] = t
      /\ \A g \in Lists \ {h} : tt[g] = ss[g]
  BY <1>1
<1> HIDE DEF tt
<1>3. ASSUME NEW g \in Lists \ {h}, NEW k \in 0 .. Len(ss[g])
      PROVE  Untouched(m, r, NodeAt(g, ss[g], k))
  <2>1. NodeAt(g, ss[g], k) \in Nodes
    <3>1. ss[g] \in Seq(Entries) /\ Len(ss[g]) \in Nat
      BY <1>1, LenProperties
    <3>2. k \in 0 .. Len(ss[g]) + 1
      BY <3>1
    <3> QED
      BY <3>1, <3>2, NodeFacts
  <2> QED
    BY <2>1
<1>4. ASSUME NEW l \in st
      PROVE  r.next[l] = m.next[l]
  <2>1. l \in Lists \ {h} /\ ss[l] = <<>>
    BY <1>1 DEF Rep
  <2>2. NodeAt(l, ss[l], 0) = l /\ 0 \in 0 .. Len(ss[l])
    BY <2>1 DEF NodeAt
  <2>3. Untouched(m, r, NodeAt(l, ss[l], 0))
    BY <1>3, <2>1, <2>2
  <2> QED
    BY <2>2, <2>3 DEF Untouched
<1>5. Edits(m, r, ss, st, {h}, tt, st)
  <2>1. \A c \in {h} :
          /\ Distinct(tt[c])
          /\ c \in st => tt[c] = <<>> /\ StaleHead(r, c)
          /\ c \notin st => Ring(r, c, tt[c])
          /\ \A g \in Lists \ {c} : Apart(tt[c], tt[g])
    BY <1>2
  <2>2. \A l \in st \ {h} :
          /\ r.next[l] = m.next[l]
          /\ \A x \in Nodes : r.prev[x] = l => m.prev[x] = l
    BY <1>4
  <2> QED
    BY <1>1, <1>2, <1>3, <2>1, <2>2 DEF Edits
<1> QED
  BY <1>5, RepEdit DEF tt

\* What is linked by nobody is in no ring.
LEMMA FreeIsApart ==
  ASSUME NEW ss \in [Lists -> Seq(Entries)], NEW e, Free(e, ss)
  PROVE  \A g \in Lists : \A k \in 0 .. Len(ss[g]) + 1 : NodeAt(g, ss[g], k) # e
<1> SUFFICES ASSUME NEW g \in Lists, NEW k \in 0 .. Len(ss[g]) + 1
             PROVE  NodeAt(g, ss[g], k) # e
  OBVIOUS
<1> QED
  BY NodeFacts DEF NodeAt, Free

LEMMA InsertKeeps ==
  ASSUME NEW s \in Seq(Entries), Distinct(s), NEW e \in Entries,
         \A k \in 1 .. Len(s) : s[k] # e, NEW i \in 1 .. Len(s) + 1
  PROVE  /\ Distinct(InsertAt(s, i, e))
         /\ \A u \in Seq(Entries) :
              Apart(s, u) /\ (\A k \in 1 .. Len(u) : u[k] # e)
                => Apart(InsertAt(s, i, e), u)
<1> DEFINE t == InsertAt(s, i, e)
           from(k) == IF k < i THEN k ELSE k - 1
<1>1. /\ Len(s) \in Nat /\ Len(t) = Len(s) + 1
      /\ \A k \in 1 .. Len(s) + 1 :
           t[k] = IF k < i THEN s[k] ELSE IF k = i THEN e ELSE s[k - 1]
  BY InsertOf, LenProperties
<1> HIDE DEF t
<1>2. t[i] = e
  BY <1>1
<1>3. \A k \in 1 .. Len(s) + 1 :
        k # i => t[k] = s[from(k)] /\ from(k) \in 1 .. Len(s)
  BY <1>1
<1>4. \A j, k \in 1 .. Len(s) + 1 : j # i /\ k # i /\ from(j) = from(k) => j = k
  BY <1>1
<1> HIDE DEF from
<1>5. ASSUME NEW j \in 1 .. Len(s) + 1, NEW k \in 1 .. Len(s) + 1, t[j] = t[k]
      PROVE  j = k
  <2>1. CASE j = i /\ k # i
    BY <1>2, <1>3, <1>5, <2>1
  <2>2. CASE j # i /\ k = i
    BY <1>2, <1>3, <1>5, <2>2
  <2>3. CASE j # i /\ k # i
    BY <1>3, <1>4, <1>5, <2>3 DEF Distinct
  <2> QED
    BY <2>1, <2>2, <2>3
<1>6. ASSUME NEW u \in Seq(Entries), Apart(s, u),
             \A k \in 1 .. Len(u) : u[k] # e
      PROVE  Apart(t, u)
  BY <1>1, <1>2, <1>3, <1>6 DEF Apart
<1> QED
  BY <1>1, <1>5, <1>6 DEF Distinct, t

LEMMA RepInsert ==
  ASSUME NEW m, NEW ss, NEW st, Rep(m, ss, st), NEW r, NEW h \in Lists \ st,
         NEW e, Free(e, ss), NEW i \in 1 .. Len(ss[h]) + 1,
         Inserted(m, r, e, NodeAt(h, ss[h], i - 1), NodeAt(h, ss[h], i))
  PROVE  Rep(r, [ss EXCEPT ![h] = InsertAt(@, i, e)], st)
<1> DEFINE s == ss[h]
           t == InsertAt(s, i, e)
           p == NodeAt(h, s, i - 1)
           q == NodeAt(h, s, i)
<1>1. /\ s \in Seq(Entries) /\ Distinct(s) /\ Ring(m, h, s)
      /\ ss \in [Lists -> Seq(Entries)] /\ st \subseteq Lists
      /\ e \in Entries /\ Len(s) \in Nat
  BY RingOf DEF Rep, Free
<1>2. t \in Seq(Entries)
  BY <1>1, InsertOf
<1>3. Ring(r, h, t)
  BY <1>1, RingInsert DEF Free
<1>4. Distinct(t)
  BY <1>1, InsertKeeps DEF Free
<1>5. \A g \in Lists \ {h} : Apart(t, ss[g])
  <2> SUFFICES ASSUME NEW g \in Lists \ {h} PROVE Apart(t, ss[g])
    OBVIOUS
  <2>1. /\ ss[g] \in Seq(Entries) /\ Apart(s, ss[g])
        /\ \A k \in 1 .. Len(ss[g]) : ss[g][k] # e
    BY DEF Free, Rep
  <2>2. \A k \in 1 .. Len(s) : s[k] # e
    BY DEF Free
  <2> QED
    BY <1>1, <2>1, <2>2, InsertKeeps
<1>6. /\ IsHeap(r) /\ e \in Nodes
      /\ \A x \in Nodes \ {e, p, q} : Untouched(m, r, x)
      /\ \A x \in Nodes : r.prev[x] \in {m.prev[x], e, p}
  BY <1>1 DEF Inserted, Untouched, Nodes
<1>7. i - 1 \in 0 .. Len(s) + 1 /\ i \in 0 .. Len(s) + 1
  BY <1>1
<1>8. p \notin st /\ e \notin st
  <2>1. p \in Entries \cup {h}
    BY <1>7, RingOf
  <2> HIDE DEF p
  <2> QED
    BY <1>1, <2>1, NodesAssumption DEF NodesAssumption
<1>9. ASSUME NEW g \in Lists \ {h}, NEW k \in 0 .. Len(ss[g])
      PROVE  NodeAt(g, ss[g], k) \notin {e, p, q}
  <2>1. k \in 0 .. Len(ss[g]) + 1
    BY RingOf
  <2> QED
    BY <1>1, <1>7, <2>1, RingsApart, FreeIsApart
<1>10. \A x \in Nodes : r.prev[x] = m.prev[x] \/ r.prev[x] \notin st
  BY <1>6, <1>8
<1> HIDE DEF p, q, t
<1>11. Rep(r, [ss EXCEPT ![h] = t], st)
  BY <1>2, <1>3, <1>4, <1>5, <1>6, <1>9, <1>10, RepOne
<1> QED
  BY <1>11 DEF t

LEMMA RemoveKeeps ==
  ASSUME NEW s \in Seq(Entries), Distinct(s), NEW i \in 1 .. Len(s)
  PROVE  /\ Distinct(RemoveAt(s, i))
         /\ \A k \in 1 .. Len(s) - 1 :
              /\ RemoveAt(s, i)[k] # s[i]
              /\ \E j \in 1 .. Len(s) : RemoveAt(s, i)[k] = s[j]
<1> DEFINE t == RemoveAt(s, i)
           from(k) == IF k < i THEN k ELSE k + 1
<1>1. /\ Len(s) \in Nat /\ Len(t) = Len(s) - 1
      /\ \A k \in 1 .. Len(s) - 1 : t[k] = IF k < i THEN s[k] ELSE s[k + 1]
  BY RemoveOf, LenProperties
<1> HIDE DEF t
<1>2. \A k \in 1 .. Len(s) - 1 :
        t[k] = s[from(k)] /\ from(k) \in 1 .. Len(s) /\ from(k) # i
  BY <1>1
<1>3. \A j, k \in 1 .. Len(s) - 1 : from(j) = from(k) => j = k
  BY <1>1
<1> HIDE DEF from
<1>4. Distinct(t)
  BY <1>1, <1>2, <1>3 DEF Distinct
<1>5. \A k \in 1 .. Len(s) - 1 : t[k] # s[i] /\ \E j \in 1 .. Len(s) : t[k] = s[j]
  BY <1>1, <1>2 DEF Distinct
<1> QED
  BY <1>4, <1>5 DEF t

\* An entry leaves its list and is free then.
LEMMA RepDelete ==
  ASSUME NEW m, NEW r, NEW ss, NEW st, Rep(m, ss, st), NEW h \in Lists \ st,
         NEW i \in 1 .. Len(ss[h]),
         Deleted(m, r, ss[h][i], NodeAt(h, ss[h], i - 1), NodeAt(h, ss[h], i + 1)),
         r.prev[ss[h][i]] \notin Lists
  PROVE  /\ Rep(r, [ss EXCEPT ![h] = RemoveAt(@, i)], st)
         /\ Free(ss[h][i], [ss EXCEPT ![h] = RemoveAt(@, i)])
<1> DEFINE s == ss[h]
           t == RemoveAt(s, i)
           e == s[i]
           p == NodeAt(h, s, i - 1)
           q == NodeAt(h, s, i + 1)
<1>1. /\ s \in Seq(Entries) /\ Distinct(s) /\ Ring(m, h, s)
      /\ ss \in [Lists -> Seq(Entries)] /\ st \subseteq Lists
      /\ e \in Entries /\ Len(s) \in Nat
  BY RingOf DEF Rep
<1>2. t \in Seq(Entries) /\ Len(t) = Len(s) - 1
  BY <1>1, RemoveOf
<1>3. Ring(r, h, t)
  BY <1>1, RingDelete
<1>4. /\ Distinct(t)
      /\ \A k \in 1 .. Len(t) : t[k] # e /\ \E j \in 1 .. Len(s) : t[k] = s[j]
  BY <1>1, <1>2, RemoveKeeps
<1>5. \A g \in Lists \ {h} : Apart(s, ss[g])
  BY DEF Rep
<1>6. \A g \in Lists \ {h} : Apart(t, ss[g])
  <2> HIDE DEF t, s
  <2> QED
    BY <1>4, <1>5 DEF Apart
<1>7. /\ IsHeap(r) /\ e \in Nodes
      /\ \A x \in Nodes \ {e, p, q} : Untouched(m, r, x)
      /\ \A x \in Nodes \ {e} : r.prev[x] \in {m.prev[x], p}
  BY <1>1 DEF Deleted, Untouched, Nodes
<1>8. /\ i - 1 \in 0 .. Len(s) + 1 /\ i \in 0 .. Len(s) + 1
      /\ i + 1 \in 0 .. Len(s) + 1
  BY <1>1
<1>9. p \notin st
  <2>1. p \in Entries \cup {h}
    BY <1>8, RingOf
  <2> HIDE DEF p
  <2> QED
    BY <1>1, <2>1, NodesAssumption DEF NodesAssumption
<1>10. ASSUME NEW g \in Lists \ {h}, NEW k \in 0 .. Len(ss[g])
       PROVE  NodeAt(g, ss[g], k) \notin {e, p, q}
  <2>1. k \in 0 .. Len(ss[g]) + 1 /\ e = NodeAt(h, s, i)
    BY RingOf
  <2> QED
    BY <1>1, <1>8, <2>1, RingsApart
<1>11. \A x \in Nodes : r.prev[x] = m.prev[x] \/ r.prev[x] \notin st
  BY <1>1, <1>7, <1>9
<1>12. Free(e, [ss EXCEPT ![h] = t])
  <2>1. \A g \in Lists \ {h} : \A k \in 1 .. Len(ss[g]) : ss[g][k] # e
    BY <1>5 DEF Apart
  <2> HIDE DEF t
  <2>2. \A g \in Lists : [ss EXCEPT ![h] = t][g] = IF g = h THEN t ELSE ss[g]
    BY <1>1
  <2> QED
    BY <1>1, <1>4, <2>1, <2>2 DEF Free
<1> HIDE DEF p, q, t, e
<1>13. Rep(r, [ss EXCEPT ![h] = t], st)
  BY <1>2, <1>3, <1>4, <1>6, <1>7, <1>10, <1>11, RepOne
<1> QED
  BY <1>12, <1>13 DEF t, e

\* A free entry takes the place of a linked one.
LEMMA RepReplace ==
  ASSUME NEW m, NEW r, NEW ss, NEW st, Rep(m, ss, st), NEW h \in Lists \ st,
         NEW i \in 1 .. Len(ss[h]), NEW e, Free(e, ss),
         Inserted(m, r, e, NodeAt(h, ss[h], i - 1), NodeAt(h, ss[h], i + 1))
  PROVE  /\ Rep(r, [ss EXCEPT ![h] = [@ EXCEPT ![i] = e]], st)
         /\ Free(ss[h][i], [ss EXCEPT ![h] = [@ EXCEPT ![i] = e]])
<1> DEFINE s == ss[h]
           t == [s EXCEPT ![i] = e]
           p == NodeAt(h, s, i - 1)
           q == NodeAt(h, s, i + 1)
<1>1. /\ s \in Seq(Entries) /\ Distinct(s) /\ Ring(m, h, s)
      /\ ss \in [Lists -> Seq(Entries)] /\ st \subseteq Lists
      /\ e \in Entries /\ Len(s) \in Nat /\ s[i] \in Entries
      /\ i \in 1 .. Len(s)
      /\ \A k \in 1 .. Len(s) : s[k] # e
  BY RingOf DEF Rep, Free
<1>2. /\ t \in Seq(Entries) /\ Len(t) = Len(s)
      /\ \A k \in 1 .. Len(s) : t[k] = IF k = i THEN e ELSE s[k]
  BY <1>1, ExceptSeq
<1>3. Ring(r, h, t)
  BY <1>1, RingReplace
<1>4. \A g \in Lists \ {h} :
        Apart(s, ss[g]) /\ \A k \in 1 .. Len(ss[g]) : ss[g][k] # e
  BY DEF Rep, Free
<1>5. /\ IsHeap(r) /\ e \in Nodes
      /\ \A x \in Nodes \ {e, p, q} : Untouched(m, r, x)
      /\ \A x \in Nodes : r.prev[x] \in {m.prev[x], e, p}
  BY <1>1 DEF Inserted, Untouched, Nodes
<1>6. i - 1 \in 0 .. Len(s) + 1 /\ i + 1 \in 0 .. Len(s) + 1
  BY <1>1
<1>7. p \notin st /\ e \notin st
  <2>1. p \in Entries \cup {h}
    BY <1>6, RingOf
  <2> HIDE DEF p
  <2> QED
    BY <1>1, <2>1, NodesAssumption DEF NodesAssumption
<1>8. ASSUME NEW g \in Lists \ {h}, NEW k \in 0 .. Len(ss[g])
      PROVE  NodeAt(g, ss[g], k) \notin {e, p, q}
  <2>1. k \in 0 .. Len(ss[g]) + 1
    BY RingOf
  <2> QED
    BY <1>1, <1>6, <2>1, RingsApart, FreeIsApart
<1>9. \A x \in Nodes : r.prev[x] = m.prev[x] \/ r.prev[x] \notin st
  BY <1>5, <1>7
<1> HIDE DEF p, q, t, s
<1>10. Distinct(t) /\ \A k \in 1 .. Len(t) : t[k] # s[i]
  BY <1>1, <1>2 DEF Distinct
<1>11. \A g \in Lists \ {h} : Apart(t, ss[g])
  BY <1>2, <1>4 DEF Apart
<1>12. Rep(r, [ss EXCEPT ![h] = t], st)
  BY <1>2, <1>3, <1>5, <1>8, <1>9, <1>10, <1>11, RepOne
<1>13. Free(s[i], [ss EXCEPT ![h] = t])
  <2>1. \A g \in Lists : [ss EXCEPT ![h] = t][g] = IF g = h THEN t ELSE ss[g]
    BY <1>1
  <2>2. ASSUME NEW g \in Lists \ {h}, NEW k \in 1 .. Len(ss[g])
        PROVE  ss[g][k] # s[i]
    <3>1. Apart(s, ss[g])
      BY <1>4
    <3> QED
      BY <1>1, <3>1 DEF Apart
  <2> QED
    BY <1>1, <1>10, <2>1, <2>2 DEF Free
<1> QED
  BY <1>12, <1>13 DEF t, s

-----------------------------------------------------------------------------
(* Heads that begin or cease to be lists *)

LEMMA HeadInRing ==
  ASSUME NEW ss \in [Lists -> Seq(Entries)], NEW g \in Lists, NEW h \in Lists,
         g # h
  PROVE  \A k \in 0 .. Len(ss[g]) : NodeAt(g, ss[g], k) \in Nodes \ {h}
<1>1. ss[g] \in Seq(Entries) /\ Len(ss[g]) \in Nat
  BY LenProperties
<1>2. \A k \in 0 .. Len(ss[g]) : k \in 0 .. Len(ss[g]) + 1
  BY <1>1
<1>3. h \notin Entries
  BY NodesAssumption DEF NodesAssumption
<1> QED
  BY <1>1, <1>2, <1>3, NodeFacts DEF NodeAt

LEMMA RepInitHead ==
  ASSUME NEW m, NEW ss, NEW st, Rep(m, ss, st), NEW h \in Lists, ss[h] = <<>>
  PROVE  Rep(INIT_LIST_HEAD(m, h), ss, st \ {h})
<1> DEFINE r == INIT_LIST_HEAD(m, h)
<1>1. /\ ss \in [Lists -> Seq(Entries)] /\ st \subseteq Lists /\ IsHeap(m)
      /\ h \in Nodes
  BY DEF Rep, Nodes
<1>2. /\ IsHeap(r)
      /\ \A x \in Nodes : /\ r.next[x] = IF x = h THEN h ELSE m.next[x]
                          /\ r.prev[x] = IF x = h THEN h ELSE m.prev[x]
  BY <1>1, InitEffect
<1> HIDE DEF r
<1>3. Ring(r, h, ss[h])
  BY <1>1, <1>2, RingEmpty
<1>4. ASSUME NEW g \in Lists \ ({h} \cup st), NEW k \in 0 .. Len(ss[g])
      PROVE  Untouched(m, r, NodeAt(g, ss[g], k))
  BY <1>1, <1>2, HeadInRing DEF Untouched
<1>5. ASSUME NEW l \in st \ {h}
      PROVE  /\ r.next[l] = m.next[l]
             /\ \A x \in Nodes : r.prev[x] = l => m.prev[x] = l
  BY <1>1, <1>2 DEF Nodes
<1>6. Edits(m, r, ss, st, {h}, ss, st \ {h})
  <2>1. Distinct(ss[h]) /\ \A g \in Lists \ {h} : Apart(ss[h], ss[g])
    BY DEF Rep
  <2> QED
    BY <1>1, <1>2, <1>3, <1>4, <1>5, <2>1 DEF Edits
<1> QED
  BY <1>6, RepEdit DEF r

LEMMA RepInitFree ==
  ASSUME NEW m, NEW ss, NEW st, Rep(m, ss, st), NEW e, Free(e, ss)
  PROVE  Rep(INIT_LIST_HEAD(m, e), ss, st)
<1> DEFINE r == INIT_LIST_HEAD(m, e)
<1>1. /\ ss \in [Lists -> Seq(Entries)] /\ st \subseteq Lists /\ IsHeap(m)
      /\ e \in Nodes /\ e \notin Lists
  BY NodesAssumption DEF Rep, Nodes, Free, NodesAssumption
<1>2. /\ IsHeap(r)
      /\ \A x \in Nodes : /\ r.next[x] = IF x = e THEN e ELSE m.next[x]
                          /\ r.prev[x] = IF x = e THEN e ELSE m.prev[x]
  BY <1>1, InitEffect
<1> HIDE DEF r
<1>3. ASSUME NEW g \in Lists \ ({} \cup st), NEW k \in 0 .. Len(ss[g])
      PROVE  Untouched(m, r, NodeAt(g, ss[g], k))
  <2>1. k \in 0 .. Len(ss[g]) + 1 /\ ss[g] \in Seq(Entries)
    BY RingOf
  <2>2. NodeAt(g, ss[g], k) \in Nodes /\ NodeAt(g, ss[g], k) # e
    BY <1>1, <2>1, FreeIsApart, NodeFacts
  <2> QED
    BY <1>2, <2>2 DEF Untouched
<1>4. ASSUME NEW l \in st \ {}
      PROVE  /\ r.next[l] = m.next[l]
             /\ \A x \in Nodes : r.prev[x] = l => m.prev[x] = l
  BY <1>1, <1>2 DEF Nodes
<1>5. Edits(m, r, ss, st, {}, ss, st)
  BY <1>1, <1>2, <1>3, <1>4 DEF Edits
<1> QED
  BY <1>5, RepEdit DEF r

\* All of l goes into the ring of h, between two of its nodes, and l still
\* points at its first entry.
Joins(m, r, ss, l, h, i, j, t) ==
  /\ Len(ss[l]) > 0
  /\ i \in 0 .. Len(ss[h]) + 1 /\ j \in 0 .. Len(ss[h]) + 1
  /\ Joined(m, r, ss[l][1], ss[l][Len(ss[l])],
            NodeAt(h, ss[h], i), NodeAt(h, ss[h], j))
  /\ t \in Seq(Entries) /\ Distinct(t) /\ Ring(r, h, t)
  /\ \A g \in Lists : Apart(ss[l], ss[g]) /\ Apart(ss[h], ss[g])
                        => Apart(t, ss[g])

LEMMA RepJoin ==
  ASSUME NEW m, NEW r, NEW ss, NEW st, Rep(m, ss, st), NEW l \in Lists \ st,
         NEW h \in Lists \ st, l # h, NEW i, NEW j, NEW t,
         Joins(m, r, ss, l, h, i, j, t)
  PROVE  Rep(r, [ss EXCEPT ![l] = <<>>, ![h] = t], st \cup {l})
<1> USE DEF Joins
<1> DEFINE u == ss[l]
           tt == [ss EXCEPT ![l] = <<>>, ![h] = t]
           p == NodeAt(h, ss[h], i)
           q == NodeAt(h, ss[h], j)
           a == u[1]
           z == u[Len(u)]
<1>1. /\ ss \in [Lists -> Seq(Entries)] /\ st \subseteq Lists /\ <<>> \in Seq(Entries)
      /\ Len(u) \in Nat
  BY RingOf DEF Rep
<1>2. /\ tt \in [Lists -> Seq(Entries)] /\ tt[l] = <<>> /\ tt[h] = t
      /\ \A g \in Lists \ {l, h} : tt[g] = ss[g]
  BY <1>1
<1>3. /\ 1 \in 1 .. Len(u) /\ Len(u) \in 1 .. Len(u)
      /\ 1 \in 0 .. Len(u) + 1 /\ Len(u) \in 0 .. Len(u) + 1 /\ 0 \in 0 .. Len(u)
  BY <1>1
<1>4. /\ p \in Entries \cup {h} /\ q \in Entries \cup {h}
      /\ a \in Entries /\ z \in Entries
      /\ a = NodeAt(l, u, 1) /\ z = NodeAt(l, u, Len(u))
  BY <1>3, RingOf
<1>5. m.next[l] = a
  <2>1. m.next[NodeAt(l, u, 0)] = NodeAt(l, u, 0 + 1) /\ NodeAt(l, u, 0) = l
    BY <1>3, RingOf
  <2> QED
    BY <1>4, <2>1
<1> HIDE DEF tt
<1>6. ASSUME NEW g \in Lists \ ({l, h} \cup st), NEW k \in 0 .. Len(ss[g])
      PROVE  Untouched(m, r, NodeAt(g, ss[g], k))
  <2> DEFINE x == NodeAt(g, ss[g], k)
  <2>1. k \in 0 .. Len(ss[g]) + 1 /\ ss[g] \in Seq(Entries)
    BY RingOf
  <2>2. x \in Nodes
    BY <2>1, NodeFacts
  <2>3. x # p /\ x # q
    BY <2>1, RingsApart
  <2>4. x # a /\ x # z
    BY <1>3, <1>4, <2>1, RingsApart
  <2> HIDE DEF x, p, q, a, z
  <2>5. Untouched(m, r, x)
    <3>1. Joined(m, r, a, z, p, q)
      BY DEF p, q, a, z
    <3> QED
      BY <2>2, <2>3, <2>4, <3>1 DEF Untouched, Joined
  <2> QED
    BY <2>5 DEF x
<1>7. Joined(m, r, a, z, p, q)
  OBVIOUS
<1>8. ASSUME NEW g \in st
      PROVE  /\ r.next[g] = m.next[g]
             /\ \A x \in Nodes : r.prev[x] = g => m.prev[x] = g
  <2>1. g \in Nodes /\ g \notin Entries /\ g # h
    BY <1>1, NodesAssumption DEF Nodes, NodesAssumption
  <2> HIDE DEF p, q, a, z
  <2> QED
    BY <1>4, <1>7, <2>1 DEF Joined
<1>9. StaleHead(r, l)
  <2>1. l \in Nodes /\ l \notin Entries
    BY NodesAssumption DEF Nodes, NodesAssumption
  <2> HIDE DEF p, q, a, z
  <2>2. r.next[l] = a
    BY <1>4, <1>5, <1>7, <2>1 DEF Joined
  <2>3. r.prev[a] = p
    BY <1>4, <1>7 DEF Joined, Nodes
  <2> QED
    BY <1>4, <2>1, <2>2, <2>3 DEF StaleHead
<1>10. Apart(t, <<>>) /\ \A g \in Lists : Apart(<<>>, tt[g])
  <2>1. 1 .. Len(<<>>) = {}
    OBVIOUS
  <2> QED
    BY <2>1 DEF Apart
<1>11. \A g \in Lists \ {h} : Apart(t, tt[g])
  <2> SUFFICES ASSUME NEW g \in Lists \ {h, l} PROVE Apart(t, ss[g])
    BY <1>2, <1>10
  <2> QED
    BY DEF Rep
<1>12. Edits(m, r, ss, st, {l, h}, tt, st \cup {l})
  <2>1. Distinct(<<>>)
    BY DEF Distinct
  <2>2. IsHeap(r) /\ {l, h} \subseteq Lists /\ st \cup {l} \subseteq Lists
    BY <1>1, <1>7 DEF Joined
  <2>3. \A g \in Lists \ {l, h} : tt[g] = ss[g] /\ (g \in st \cup {l} <=> g \in st)
    BY <1>2
  <2>4. \A g \in {l, h} :
          /\ Distinct(tt[g])
          /\ g \in st \cup {l} => tt[g] = <<>> /\ StaleHead(r, g)
          /\ g \notin st \cup {l} => Ring(r, g, tt[g])
          /\ \A f \in Lists \ {g} : Apart(tt[g], tt[f])
    BY <1>2, <1>9, <1>10, <1>11, <2>1
  <2> HIDE DEF p, q, a, z, u
  <2> QED
    BY <1>2, <1>6, <1>8, <2>2, <2>3, <2>4 DEF Edits
<1> QED
  BY <1>12, RepEdit DEF tt

LEMMA ConcatKeeps ==
  ASSUME NEW s \in Seq(Entries), NEW u \in Seq(Entries), Distinct(s), Distinct(u),
         Apart(s, u)
  PROVE  /\ s \o u \in Seq(Entries)
         /\ Distinct(s \o u)
         /\ \A v : Apart(s, v) /\ Apart(u, v) => Apart(s \o u, v)
<1> DEFINE t == s \o u
<1>1. /\ Len(s) \in Nat /\ Len(u) \in Nat
      /\ t \in Seq(Entries) /\ Len(t) = Len(s) + Len(u)
      /\ \A k \in 1 .. Len(s) + Len(u) :
           t[k] = IF k <= Len(s) THEN s[k] ELSE u[k - Len(s)]
  BY ConcatProperties, LenProperties
<1> HIDE DEF t
<1>2. \A k \in 1 .. Len(s) + Len(u) :
        /\ k <= Len(s) => k \in 1 .. Len(s) /\ t[k] = s[k]
        /\ ~ (k <= Len(s)) => k - Len(s) \in 1 .. Len(u) /\ t[k] = u[k - Len(s)]
  BY <1>1
<1>3. ASSUME NEW j \in 1 .. Len(s) + Len(u), NEW k \in 1 .. Len(s) + Len(u),
             t[j] = t[k]
      PROVE  j = k
  <2>1. CASE j <= Len(s) /\ k <= Len(s)
    BY <1>2, <1>3, <2>1 DEF Distinct
  <2>2. CASE j <= Len(s) /\ ~ (k <= Len(s))
    BY <1>2, <1>3, <2>2 DEF Apart
  <2>3. CASE ~ (j <= Len(s)) /\ k <= Len(s)
    BY <1>2, <1>3, <2>3 DEF Apart
  <2>4. CASE ~ (j <= Len(s)) /\ ~ (k <= Len(s))
    <3>1. j - Len(s) = k - Len(s)
      BY <1>2, <1>3, <2>4 DEF Distinct
    <3> QED
      BY <1>1, <3>1
  <2> QED
    BY <2>1, <2>2, <2>3, <2>4
<1>4. ASSUME NEW v, Apart(s, v), Apart(u, v)
      PROVE  Apart(t, v)
  BY <1>1, <1>2, <1>4 DEF Apart
<1> QED
  BY <1>1, <1>3, <1>4 DEF Distinct, t

\* Head g takes over the list of head h, which is no list afterwards: it still
\* points at the first entry, or at itself while its prev leads to g.
LEMMA RepTakeOver ==
  ASSUME NEW m, NEW r, NEW ss, NEW st, Rep(m, ss, st), NEW h \in Lists \ st,
         NEW g \in Lists \ {h}, ss[g] = <<>>, IsHeap(r), Ring(r, g, ss[h]),
         StaleHead(r, h),
         \A x \in Nodes :
           (\A k \in 0 .. Len(ss[h]) : x # NodeAt(h, ss[h], k)) /\ x # g
             => Untouched(m, r, x),
         \A x \in Nodes : r.prev[x] \in {m.prev[x], g} \cup Entries
  PROVE  Rep(r, [ss EXCEPT ![h] = <<>>, ![g] = ss[h]], (st \ {g}) \cup {h})
<1> DEFINE tt == [ss EXCEPT ![h] = <<>>, ![g] = ss[h]]
           tu == (st \ {g}) \cup {h}
<1>1. /\ ss \in [Lists -> Seq(Entries)] /\ st \subseteq Lists
      /\ <<>> \in Seq(Entries) /\ Len(ss[h]) \in Nat
  BY RingOf DEF Rep
<1>2. /\ tt \in [Lists -> Seq(Entries)] /\ tt[h] = <<>> /\ tt[g] = ss[h]
      /\ \A f \in Lists \ {g, h} : tt[f] = ss[f]
  BY <1>1
<1> HIDE DEF tt
<1>3. ASSUME NEW f \in Lists \ {g, h}, NEW k \in 0 .. Len(ss[f])
      PROVE  Untouched(m, r, NodeAt(f, ss[f], k))
  <2>1. k \in 0 .. Len(ss[f]) + 1
    BY RingOf
  <2>2. \A j \in 0 .. Len(ss[h]) : j \in 0 .. Len(ss[h]) + 1
    BY <1>1
  <2>3. \A j \in 0 .. Len(ss[h]) : NodeAt(f, ss[f], k) # NodeAt(h, ss[h], j)
    BY <2>1, <2>2, RingsApart
  <2>4. NodeAt(f, ss[f], k) \in Nodes \ {g}
    BY <1>1, HeadInRing
  <2> QED
    BY <2>3, <2>4
<1>4. ASSUME NEW l \in st \ {g, h}
      PROVE  /\ r.next[l] = m.next[l]
             /\ \A x \in Nodes : r.prev[x] = l => m.prev[x] = l
  <2>1. l \in Lists \ {g, h} /\ l \notin Entries /\ 0 \in 0 .. Len(ss[l])
        /\ NodeAt(l, ss[l], 0) = l
    <3>1. 0 \in 0 .. Len(ss[l]) /\ NodeAt(l, ss[l], 0) = l
      BY <1>1, RingOf
    <3> QED
      BY <1>1, <3>1, NodesAssumption DEF NodesAssumption
  <2>2. r.next[l] = m.next[l]
    BY <1>3, <2>1 DEF Untouched
  <2> QED
    BY <2>1, <2>2
<1>5. \A f \in Lists : Apart(<<>>, tt[f]) /\ Apart(tt[f], <<>>)
  <2>1. 1 .. Len(<<>>) = {}
    OBVIOUS
  <2> QED
    BY <2>1 DEF Apart
<1>6. \A f \in Lists \ {g} : Apart(ss[h], tt[f])
  <2> SUFFICES ASSUME NEW f \in Lists \ {g, h} PROVE Apart(ss[h], ss[f])
    BY <1>2, <1>5
  <2> QED
    BY DEF Rep
<1>7. Edits(m, r, ss, st, {g, h}, tt, tu)
  <2>1. Distinct(<<>>) /\ Distinct(ss[h])
    BY DEF Distinct, Rep
  <2>2. {g, h} \subseteq Lists /\ tu \subseteq Lists
    BY <1>1
  <2>3. \A f \in Lists \ {g, h} : tt[f] = ss[f] /\ (f \in tu <=> f \in st)
    BY <1>2
  <2>4. \A f \in {g, h} :
          /\ Distinct(tt[f])
          /\ f \in tu => tt[f] = <<>> /\ StaleHead(r, f)
          /\ f \notin tu => Ring(r, f, tt[f])
          /\ \A c \in Lists \ {f} : Apart(tt[f], tt[c])
    BY <1>2, <1>5, <1>6, <2>1
  <2> HIDE DEF tu
  <2> QED
    BY <1>2, <1>3, <1>4, <2>2, <2>3, <2>4 DEF Edits
<1> QED
  BY <1>7, RepEdit DEF tt

-----------------------------------------------------------------------------
(* What each function does to the lists *)

\* The neighbours of the i-th entry, and of the place before it.
LEMMA Neighbours ==
  ASSUME NEW m, NEW ss, NEW st, Rep(m, ss, st), NEW h \in Lists \ st
  PROVE  /\ \A i \in 1 .. Len(ss[h]) + 1 :
              LET p == NodeAt(h, ss[h], i - 1)
                  q == NodeAt(h, ss[h], i)
              IN  m.next[p] = q /\ m.prev[q] = p /\ p \in Nodes /\ q \in Nodes
         /\ \A i \in 1 .. Len(ss[h]) :
              LET p == NodeAt(h, ss[h], i - 1)
                  q == NodeAt(h, ss[h], i + 1)
              IN  /\ m.next[ss[h][i]] = q /\ m.prev[ss[h][i]] = p
                  /\ p \in Nodes \ {ss[h][i]} /\ q \in Nodes \ {ss[h][i]}
<1> DEFINE s == ss[h]
           N(k) == NodeAt(h, s, k)
<1>1. /\ Len(s) \in Nat
      /\ \A k \in 1 .. Len(s) : N(k) = s[k]
      /\ \A k \in 0 .. Len(s) + 1 : N(k) \in Nodes
      /\ \A k \in 0 .. Len(s) : m.next[N(k)] = N(k + 1) /\ m.prev[N(k + 1)] = N(k)
  BY RingOf DEF Nodes
<1>2. /\ \A j, k \in 0 .. Len(s) : N(j) = N(k) => j = k
      /\ \A j, k \in 1 .. Len(s) + 1 : N(j) = N(k) => j = k
  BY RingOf, NodesDiffer
<1> HIDE DEF N, s
<1>3. ASSUME NEW i \in 1 .. Len(s) + 1
      PROVE  /\ m.next[N(i - 1)] = N(i) /\ m.prev[N(i)] = N(i - 1)
             /\ N(i - 1) \in Nodes /\ N(i) \in Nodes
  <2>1. i - 1 \in 0 .. Len(s) /\ (i - 1) + 1 = i /\ i - 1 \in 0 .. Len(s) + 1
        /\ i \in 0 .. Len(s) + 1
    BY <1>1
  <2>2. m.next[N(i - 1)] = N((i - 1) + 1) /\ m.prev[N((i - 1) + 1)] = N(i - 1)
    BY <1>1, <2>1
  <2> QED
    BY <1>1, <2>1, <2>2
<1>4. ASSUME NEW i \in 1 .. Len(s)
      PROVE  /\ m.next[s[i]] = N(i + 1) /\ m.prev[s[i]] = N(i - 1)
             /\ N(i - 1) \in Nodes \ {s[i]} /\ N(i + 1) \in Nodes \ {s[i]}
  <2>1. /\ i \in 0 .. Len(s) /\ i - 1 \in 0 .. Len(s) /\ i - 1 # i
        /\ i \in 1 .. Len(s) + 1 /\ i + 1 \in 1 .. Len(s) + 1 /\ i + 1 # i
        /\ i - 1 \in 0 .. Len(s) + 1 /\ i + 1 \in 0 .. Len(s) + 1
    BY <1>1
  <2>2. N(i) = s[i] /\ N(i - 1) # N(i) /\ N(i + 1) # N(i)
    BY <1>1, <1>2, <2>1
  <2>3. m.next[N(i)] = N(i + 1)
    BY <1>1, <2>1
  <2>4. m.prev[N(i)] = N(i - 1)
    BY <1>3, <2>1
  <2> QED
    BY <1>1, <2>1, <2>2, <2>3, <2>4
<1> QED
  BY <1>3, <1>4 DEF N, s

\* list_add behind any node of the ring, as list_add_order uses it.
LEMMA OpAdd ==
  ASSUME NEW m, NEW ss, NEW st, Rep(m, ss, st), NEW h \in Lists \ st,
         NEW e, Free(e, ss), NEW i \in 1 .. Len(ss[h]) + 1
  PROVE  Rep(list_add(m, e, NodeAt(h, ss[h], i - 1)),
             [ss EXCEPT ![h] = InsertAt(@, i, e)], st)
<1> DEFINE p == NodeAt(h, ss[h], i - 1)
           q == NodeAt(h, ss[h], i)
<1>1. m.next[p] = q /\ p \in Nodes /\ q \in Nodes
  BY Neighbours
<1>2. p # e /\ q # e
  <2>1. i - 1 \in 0 .. Len(ss[h]) + 1 /\ i \in 0 .. Len(ss[h]) + 1
    BY RingOf
  <2>2. ss \in [Lists -> Seq(Entries)]
    BY DEF Rep
  <2> QED
    BY <2>1, <2>2, FreeIsApart
<1>3. e \in Nodes /\ IsHeap(m)
  BY DEF Rep, Free, Nodes
<1> HIDE DEF p, q
<1>4. Inserted(m, list_add(m, e, p), e, p, q)
  BY <1>1, <1>2, <1>3, AddEffect
<1> QED
  BY <1>4, RepInsert DEF p, q

LEMMA OpAddTail ==
  ASSUME NEW m, NEW ss, NEW st, Rep(m, ss, st), NEW h \in Lists \ st,
         NEW e, Free(e, ss)
  PROVE  Rep(list_add_tail(m, e, h),
             [ss EXCEPT ![h] = InsertAt(@, Len(ss[h]) + 1, e)], st)
<1> DEFINE i == Len(ss[h]) + 1
           p == NodeAt(h, ss[h], i - 1)
<1>1. i \in 1 .. Len(ss[h]) + 1 /\ NodeAt(h, ss[h], i) = h
  BY RingOf
<1>2. m.prev[h] = p /\ p \in Nodes /\ h \in Nodes
  BY <1>1, Neighbours
<1>3. p # e /\ h # e
  <2>1. i - 1 \in 0 .. Len(ss[h]) + 1 /\ i \in 0 .. Len(ss[h]) + 1
    BY RingOf
  <2>2. ss \in [Lists -> Seq(Entries)]
    BY DEF Rep
  <2> QED
    BY <1>1, <2>1, <2>2, FreeIsApart
<1>4. e \in Nodes /\ IsHeap(m)
  BY DEF Rep, Free, Nodes
<1> HIDE DEF p, i
<1>5. Inserted(m, list_add_tail(m, e, h), e, p, h)
  BY <1>2, <1>3, <1>4, AddTailEffect
<1>6. Rep(list_add_tail(m, e, h), [ss EXCEPT ![h] = InsertAt(@, i, e)], st)
  BY <1>1, <1>5, RepInsert DEF p
<1> QED
  BY <1>6 DEF i

LEMMA OpDel ==
  ASSUME NEW m, NEW ss, NEW st, Rep(m, ss, st), NEW g \in Lists \ st,
         NEW i \in 1 .. Len(ss[g])
  PROVE  LET e == ss[g][i]
             tt == [ss EXCEPT ![g] = RemoveAt(@, i)]
         IN  /\ Rep(list_del(m, e), tt, st) /\ Rep(list_del_init(m, e), tt, st)
             /\ Free(e, tt)
<1> DEFINE e == ss[g][i]
           tt == [ss EXCEPT ![g] = RemoveAt(@, i)]
           p == NodeAt(g, ss[g], i - 1)
           q == NodeAt(g, ss[g], i + 1)
<1>1. m.next[e] = q /\ m.prev[e] = p /\ p \in Nodes \ {e} /\ q \in Nodes \ {e}
  BY Neighbours
<1>2. e \in Nodes /\ e \notin Lists /\ PrevPoison \notin Lists /\ IsHeap(m)
  BY RingOf, NodesAssumption DEF Rep, Nodes, NodesAssumption
<1> HIDE DEF e, p, q
<1>3. /\ Deleted(m, list_del(m, e), e, p, q)
      /\ list_del(m, e).prev[e] = PrevPoison
      /\ Deleted(m, list_del_init(m, e), e, p, q)
      /\ list_del_init(m, e).prev[e] = e
  BY <1>1, <1>2, DelEffect
<1>4. Rep(list_del(m, e), tt, st) /\ Free(e, tt)
  BY <1>2, <1>3, RepDelete DEF e, p, q
<1>5. Rep(list_del_init(m, e), tt, st)
  BY <1>2, <1>3, RepDelete DEF e, p, q
<1> QED
  BY <1>4, <1>5 DEF e

LEMMA OpReplace ==
  ASSUME NEW m, NEW ss, NEW st, Rep(m, ss, st), NEW g \in Lists \ st,
         NEW i \in 1 .. Len(ss[g]), NEW new, Free(new, ss)
  PROVE  LET tt == [ss EXCEPT ![g] = [@ EXCEPT ![i] = new]]
         IN  /\ Rep(list_replace(m, ss[g][i], new), tt, st)
             /\ Rep(list_replace_init(m, ss[g][i], new), tt, st)
<1> DEFINE old == ss[g][i]
           tt == [ss EXCEPT ![g] = [@ EXCEPT ![i] = new]]
           p == NodeAt(g, ss[g], i - 1)
           q == NodeAt(g, ss[g], i + 1)
           r == list_replace(m, old, new)
<1>1. m.next[old] = q /\ m.prev[old] = p /\ p \in Nodes \ {old} /\ q \in Nodes \ {old}
  BY Neighbours
<1>2. p # new /\ q # new /\ old # new
  <2>1. /\ i - 1 \in 0 .. Len(ss[g]) + 1 /\ i + 1 \in 0 .. Len(ss[g]) + 1
    BY RingOf
  <2>2. ss \in [Lists -> Seq(Entries)]
    BY DEF Rep
  <2> QED
    BY <2>1, <2>2, FreeIsApart DEF Free
<1>3. old \in Nodes /\ new \in Nodes /\ IsHeap(m)
  BY RingOf DEF Rep, Free, Nodes
<1> HIDE DEF old, p, q
<1>4. Inserted(m, r, new, p, q)
  BY <1>1, <1>2, <1>3, ReplaceEffect
<1> HIDE DEF r
<1>5. Rep(r, tt, st) /\ Free(old, tt)
  BY <1>4, RepReplace DEF old, p, q
<1> HIDE DEF tt
<1>6. Rep(INIT_LIST_HEAD(r, old), tt, st)
  BY <1>5, RepInitFree
<1> QED
  BY <1>5, <1>6 DEF list_replace_init, r, old, tt

LEMMA InsertAtEnds ==
  ASSUME NEW s \in Seq(Entries), NEW e \in Entries
  PROVE  /\ InsertAt(s, 1, e) = <<e>> \o s
         /\ InsertAt(s, Len(s) + 1, e) = Append(s, e)
<1>1. Len(s) \in Nat /\ <<e>> \in Seq(Entries) /\ Len(<<e>>) = 1 /\ <<e>>[1] = e
      /\ 1 \in 1 .. Len(s) + 1 /\ Len(s) + 1 \in 1 .. Len(s) + 1
  BY LenProperties
<1>2. InsertAt(s, 1, e) = <<e>> \o s
  <2> DEFINE a == InsertAt(s, 1, e)
             b == <<e>> \o s
  <2>1. /\ a \in Seq(Entries) /\ Len(a) = Len(s) + 1
        /\ \A k \in 1 .. Len(s) + 1 :
             a[k] = IF k < 1 THEN s[k] ELSE IF k = 1 THEN e ELSE s[k - 1]
    BY <1>1, InsertOf
  <2>2. /\ b \in Seq(Entries) /\ Len(b) = 1 + Len(s)
        /\ \A k \in 1 .. 1 + Len(s) :
             b[k] = IF k <= 1 THEN <<e>>[k] ELSE s[k - 1]
    BY <1>1, ConcatProperties
  <2> HIDE DEF a, b
  <2>3. Len(a) = Len(b) /\ \A k \in 1 .. Len(a) : a[k] = b[k]
    BY <1>1, <2>1, <2>2
  <2>4. a = b
    BY <2>1, <2>2, <2>3, SeqEqual
  <2> QED
    BY <2>4 DEF a, b
<1>3. InsertAt(s, Len(s) + 1, e) = Append(s, e)
  <2> DEFINE a == InsertAt(s, Len(s) + 1, e)
             b == Append(s, e)
  <2>1. /\ a \in Seq(Entries) /\ Len(a) = Len(s) + 1
        /\ \A k \in 1 .. Len(s) + 1 :
             a[k] = IF k < Len(s) + 1 THEN s[k]
                    ELSE IF k = Len(s) + 1 THEN e ELSE s[k - 1]
    BY <1>1, InsertOf
  <2>2. /\ b \in Seq(Entries) /\ Len(b) = Len(s) + 1
        /\ \A k \in 1 .. Len(s) : b[k] = s[k]
        /\ b[Len(s) + 1] = e
    BY <1>1, AppendProperties
  <2> HIDE DEF a, b
  <2>3. Len(a) = Len(b) /\ \A k \in 1 .. Len(a) : a[k] = b[k]
    BY <1>1, <2>1, <2>2
  <2>4. a = b
    BY <2>1, <2>2, <2>3, SeqEqual
  <2> QED
    BY <2>4 DEF a, b
<1> QED
  BY <1>2, <1>3

LEMMA OpMove ==
  ASSUME NEW m, NEW ss, NEW st, Rep(m, ss, st), NEW g \in Lists \ st,
         NEW i \in 1 .. Len(ss[g]), NEW h \in Lists \ st
  PROVE  LET e == ss[g][i]
             tt == [ss EXCEPT ![g] = RemoveAt(@, i)]
         IN  /\ Rep(list_move(m, e, h), [tt EXCEPT ![h] = <<e>> \o @], st)
             /\ Rep(list_move_tail(m, e, h), [tt EXCEPT ![h] = Append(@, e)], st)
<1> DEFINE e == ss[g][i]
           tt == [ss EXCEPT ![g] = RemoveAt(@, i)]
           r == list_del(m, e)
<1>1. Rep(r, tt, st) /\ Free(e, tt)
  BY OpDel
<1> HIDE DEF r, tt, e
<1>2. /\ tt[h] \in Seq(Entries) /\ e \in Entries /\ NodeAt(h, tt[h], 0) = h
      /\ 1 \in 1 .. Len(tt[h]) + 1 /\ 1 - 1 = 0
  BY <1>1, RingOf DEF Free
<1>3. Rep(list_add(r, e, NodeAt(h, tt[h], 1 - 1)),
          [tt EXCEPT ![h] = InsertAt(@, 1, e)], st)
  BY <1>1, <1>2, OpAdd
<1>4. Rep(list_add_tail(r, e, h),
          [tt EXCEPT ![h] = InsertAt(@, Len(tt[h]) + 1, e)], st)
  BY <1>1, OpAddTail
<1>5. /\ [tt EXCEPT ![h] = InsertAt(@, 1, e)] = [tt EXCEPT ![h] = <<e>> \o @]
      /\ [tt EXCEPT ![h] = InsertAt(@, Len(tt[h]) + 1, e)]
           = [tt EXCEPT ![h] = Append(@, e)]
  BY <1>2, InsertAtEnds
<1> QED
  BY <1>2, <1>3, <1>4, <1>5 DEF list_move, list_move_tail, r, e, tt

LEMMA EmptyOf ==
  ASSUME NEW m, NEW ss, NEW st, Rep(m, ss, st), NEW h \in Lists \ st
  PROVE  /\ list_empty(m, h) <=> ss[h] = <<>>
         /\ ss[h] # <<>> => Len(ss[h]) > 0
         /\ ss[h] = <<>> => Len(ss[h]) = 0
<1>1. ss[h] \in Seq(Entries) /\ Len(ss[h]) \in Nat /\ NodeAt(h, ss[h], 0) = h
      /\ h \notin Entries /\ 0 \in 0 .. Len(ss[h])
  BY RingOf, NodesAssumption DEF NodesAssumption
<1>2. m.next[h] = NodeAt(h, ss[h], 1)
  <2>1. m.next[NodeAt(h, ss[h], 0)] = NodeAt(h, ss[h], 0 + 1)
    BY <1>1, RingOf
  <2> QED
    BY <1>1, <2>1
<1>3. ss[h] # <<>> => Len(ss[h]) > 0
  BY <1>1, EmptySeq
<1>4. ss[h] # <<>> => NodeAt(h, ss[h], 1) \in Entries
  BY <1>1, <1>3, RingOf
<1>5. Len(<<>>) = 0
  OBVIOUS
<1>6. ss[h] = <<>> => NodeAt(h, ss[h], 1) = h
  BY <1>5 DEF NodeAt
<1> QED
  BY <1>1, <1>2, <1>3, <1>4, <1>5, <1>6 DEF list_empty

\* Joining an empty list changes nothing.
LEMMA NothingToJoin ==
  ASSUME NEW ss \in [Lists -> Seq(Entries)], NEW l \in Lists, NEW h \in Lists,
         ss[l] = <<>>
  PROVE  /\ [ss EXCEPT ![l] = <<>>, ![h] = ss[l] \o ss[h]] = ss
         /\ [ss EXCEPT ![l] = <<>>, ![h] = ss[h] \o ss[l]] = ss
<1>1. ss[l] \o ss[h] = ss[h] /\ ss[h] \o ss[l] = ss[h]
  BY ConcatEmptySeq
<1>2. [ss EXCEPT ![l] = ss[l], ![h] = ss[h]] = ss
  OBVIOUS
<1> QED
  BY <1>1, <1>2

LEMMA OpSplice ==
  ASSUME NEW m, NEW ss, NEW st, Rep(m, ss, st), NEW l \in Lists \ st,
         NEW h \in Lists \ st, l # h
  PROVE  LET tt == [ss EXCEPT ![l] = <<>>, ![h] = ss[l] \o ss[h]]
         IN  /\ Rep(list_splice(m, l, h), tt,
                    IF ss[l] = <<>> THEN st ELSE st \cup {l})
             /\ Rep(list_splice_init(m, l, h), tt, st)
<1> DEFINE s == ss[h]
           u == ss[l]
           t == u \o s
           tt == [ss EXCEPT ![l] = <<>>, ![h] = t]
           r == Splice(m, l, h)
<1>1. ss \in [Lists -> Seq(Entries)] /\ IsHeap(m) /\ l \in Nodes /\ h \in Nodes
  BY DEF Rep, Nodes
<1>2. CASE u = <<>>
  <2>1. list_empty(m, l) /\ tt = ss
    BY <1>1, <1>2, EmptyOf, NothingToJoin
  <2> QED
    BY <1>2, <2>1 DEF list_splice, list_splice_init
<1>3. CASE u # <<>>
  <2>1. ~ list_empty(m, l) /\ Len(u) \in Nat /\ Len(u) > 0
    BY <1>3, EmptyOf, RingOf
  <2>2. /\ s \in Seq(Entries) /\ Distinct(s) /\ Ring(m, h, s)
        /\ u \in Seq(Entries) /\ Distinct(u) /\ Ring(m, l, u)
        /\ Apart(s, u) /\ Apart(u, s) /\ Len(s) \in Nat
    BY RingOf DEF Rep
  <2>3. /\ m.next[l] = u[1] /\ m.prev[l] = u[Len(u)]
        /\ m.next[h] = NodeAt(h, s, 1)
    <3>1. /\ 0 \in 0 .. Len(u) /\ Len(u) \in 0 .. Len(u) /\ 0 \in 0 .. Len(s)
          /\ 1 \in 1 .. Len(u) /\ Len(u) \in 1 .. Len(u) /\ 0 + 1 = 1
      BY <2>1, <2>2
    <3>2. /\ m.next[NodeAt(l, u, 0)] = NodeAt(l, u, 0 + 1)
          /\ m.prev[NodeAt(l, u, Len(u) + 1)] = NodeAt(l, u, Len(u))
          /\ m.next[NodeAt(h, s, 0)] = NodeAt(h, s, 0 + 1)
      BY <3>1, RingOf
    <3>3. /\ NodeAt(l, u, 0) = l /\ NodeAt(l, u, Len(u) + 1) = l
          /\ NodeAt(h, s, 0) = h
          /\ NodeAt(l, u, 1) = u[1] /\ NodeAt(l, u, Len(u)) = u[Len(u)]
      BY <3>1, RingOf
    <3> QED
      BY <3>1, <3>2, <3>3
  <2>4. /\ u[1] \in Entries /\ u[Len(u)] \in Entries
        /\ NodeAt(h, s, 1) \in Entries \cup {h}
        /\ NodeAt(h, s, 1) # u[1] /\ l \notin Entries /\ h \notin Entries
    <3>1. /\ 1 \in 1 .. Len(u) /\ Len(u) \in 1 .. Len(u)
          /\ 1 \in 0 .. Len(u) + 1 /\ 1 \in 0 .. Len(s) + 1
      BY <2>1, <2>2
    <3>2. NodeAt(l, u, 1) = u[1]
      BY <3>1, RingOf
    <3> QED
      BY <3>1, <3>2, RingOf, RingsApart, NodesAssumption DEF NodesAssumption
  <2>5. Joined(m, r, u[1], u[Len(u)], h, NodeAt(h, s, 1))
    <3>1. /\ m.next[l] \in Nodes /\ m.prev[l] \in Nodes \ {l, h}
          /\ m.next[h] \in Nodes \ {m.next[l]}
      BY <1>1, <2>3, <2>4 DEF Nodes
    <3>2. Joined(m, r, m.next[l], m.prev[l], h, m.next[h])
      BY <1>1, <3>1, SpliceEffect
    <3> HIDE DEF r
    <3> QED
      BY <2>3, <3>2
  <2>6. Ring(r, h, t)
    BY <2>1, <2>2, <2>5, RingPrepend
  <2>7. /\ t \in Seq(Entries) /\ Distinct(t)
        /\ \A g \in Lists : Apart(u, ss[g]) /\ Apart(s, ss[g]) => Apart(t, ss[g])
    BY <2>2, ConcatKeeps
  <2>8. Rep(r, tt, st \cup {l})
    <3>1. 0 \in 0 .. Len(ss[h]) + 1 /\ 1 \in 0 .. Len(ss[h]) + 1
          /\ NodeAt(h, ss[h], 0) = h
      BY <2>2, RingOf
    <3>2. Joins(m, r, ss, l, h, 0, 1, t)
      BY <2>1, <2>5, <2>6, <2>7, <3>1 DEF Joins
    <3> HIDE DEF t, r
    <3> QED
      BY <3>2, RepJoin
  <2>9. Rep(INIT_LIST_HEAD(r, l), tt, st)
    <3>1. tt[l] = <<>> /\ (st \cup {l}) \ {l} = st
      BY <1>1
    <3> HIDE DEF r, tt
    <3> QED
      BY <2>8, <3>1, RepInitHead
  <2> QED
    BY <1>3, <2>1, <2>8, <2>9 DEF list_splice, list_splice_init
<1> QED
  BY <1>2, <1>3

LEMMA OpAppend ==
  ASSUME NEW m, NEW ss, NEW st, Rep(m, ss, st), NEW l \in Lists \ st,
         NEW h \in Lists \ st, l # h
  PROVE  LET tt == [ss EXCEPT ![l] = <<>>, ![h] = ss[h] \o ss[l]]
         IN  /\ Rep(list_append(m, l, h), tt,
                    IF ss[l] = <<>> THEN st ELSE st \cup {l})
             /\ Rep(list_append_init(m, l, h), tt, st)
<1> DEFINE s == ss[h]
           u == ss[l]
           t == s \o u
           tt == [ss EXCEPT ![l] = <<>>, ![h] = t]
           r == AppendAll(m, l, h)
<1>1. ss \in [Lists -> Seq(Entries)] /\ IsHeap(m) /\ l \in Nodes /\ h \in Nodes
  BY DEF Rep, Nodes
<1>2. CASE u = <<>>
  <2>1. list_empty(m, l) /\ tt = ss
    BY <1>1, <1>2, EmptyOf, NothingToJoin
  <2> QED
    BY <1>2, <2>1 DEF list_append, list_append_init
<1>3. CASE u # <<>>
  <2>1. ~ list_empty(m, l) /\ Len(u) \in Nat /\ Len(u) > 0
    BY <1>3, EmptyOf, RingOf
  <2>2. /\ s \in Seq(Entries) /\ Distinct(s) /\ Ring(m, h, s)
        /\ u \in Seq(Entries) /\ Distinct(u) /\ Ring(m, l, u)
        /\ Apart(s, u) /\ Apart(u, s) /\ Len(s) \in Nat
    BY RingOf DEF Rep
  <2>3. /\ m.next[l] = u[1] /\ m.prev[l] = u[Len(u)]
        /\ m.prev[h] = NodeAt(h, s, Len(s))
    <3>1. /\ 0 \in 0 .. Len(u) /\ Len(u) \in 0 .. Len(u)
          /\ Len(s) \in 0 .. Len(s)
          /\ 1 \in 1 .. Len(u) /\ Len(u) \in 1 .. Len(u) /\ 0 + 1 = 1
      BY <2>1, <2>2
    <3>2. /\ m.next[NodeAt(l, u, 0)] = NodeAt(l, u, 0 + 1)
          /\ m.prev[NodeAt(l, u, Len(u) + 1)] = NodeAt(l, u, Len(u))
          /\ m.prev[NodeAt(h, s, Len(s) + 1)] = NodeAt(h, s, Len(s))
      BY <3>1, RingOf
    <3>3. /\ NodeAt(l, u, 0) = l /\ NodeAt(l, u, Len(u) + 1) = l
          /\ NodeAt(h, s, Len(s) + 1) = h
          /\ NodeAt(l, u, 1) = u[1] /\ NodeAt(l, u, Len(u)) = u[Len(u)]
      BY <3>1, RingOf
    <3> QED
      BY <3>1, <3>2, <3>3
  <2>4. /\ u[1] \in Entries /\ u[Len(u)] \in Entries
        /\ NodeAt(h, s, Len(s)) \in Entries \cup {h}
        /\ NodeAt(h, s, Len(s)) # u[Len(u)] /\ l \notin Entries /\ h \notin Entries
    <3>1. /\ 1 \in 1 .. Len(u) /\ Len(u) \in 1 .. Len(u)
          /\ Len(u) \in 0 .. Len(u) + 1 /\ Len(s) \in 0 .. Len(s) + 1
      BY <2>1, <2>2
    <3>2. NodeAt(l, u, Len(u)) = u[Len(u)]
      BY <3>1, RingOf
    <3> QED
      BY <3>1, <3>2, RingOf, RingsApart, NodesAssumption DEF NodesAssumption
  <2>5. Joined(m, r, u[1], u[Len(u)], NodeAt(h, s, Len(s)), h)
    BY <1>1, <2>3, <2>4, AppendEffect DEF Nodes
  <2>6. Ring(r, h, t)
    BY <2>1, <2>2, <2>5, RingAppend
  <2>7. /\ t \in Seq(Entries) /\ Distinct(t)
        /\ \A g \in Lists : Apart(u, ss[g]) /\ Apart(s, ss[g]) => Apart(t, ss[g])
    BY <2>2, ConcatKeeps
  <2>8. Rep(r, tt, st \cup {l})
    <3>1. Len(ss[h]) \in 0 .. Len(ss[h]) + 1
          /\ Len(ss[h]) + 1 \in 0 .. Len(ss[h]) + 1
          /\ NodeAt(h, ss[h], Len(ss[h]) + 1) = h
      BY <2>2, RingOf
    <3>2. Joins(m, r, ss, l, h, Len(ss[h]), Len(ss[h]) + 1, t)
      BY <2>1, <2>5, <2>6, <2>7, <3>1 DEF Joins
    <3> HIDE DEF t, r
    <3> QED
      BY <3>2, RepJoin
  <2>9. Rep(INIT_LIST_HEAD(r, l), tt, st)
    <3>1. tt[l] = <<>> /\ (st \cup {l}) \ {l} = st
      BY <1>1
    <3> HIDE DEF r, tt
    <3> QED
      BY <2>8, <3>1, RepInitHead
  <2> QED
    BY <1>3, <2>1, <2>8, <2>9 DEF list_append, list_append_init
<1> QED
  BY <1>2, <1>3

LEMMA OpTakeOver ==
  ASSUME NEW m, NEW ss, NEW st, Rep(m, ss, st), NEW h \in Lists \ st,
         NEW g \in Lists \ {h}, ss[g] = <<>>
  PROVE  LET tt == [ss EXCEPT ![h] = <<>>, ![g] = ss[h]]
         IN  /\ Rep(list_replace(m, h, g), tt, (st \ {g}) \cup {h})
             /\ Rep(list_replace_init(m, h, g), tt, st \ {g})
<1> DEFINE s == ss[h]
           tt == [ss EXCEPT ![h] = <<>>, ![g] = ss[h]]
           r == list_replace(m, h, g)
           tu == (st \ {g}) \cup {h}
<1>1. /\ ss \in [Lists -> Seq(Entries)] /\ IsHeap(m) /\ h \in Nodes /\ g \in Nodes
      /\ h \notin Entries /\ g \notin Entries /\ g # h
  BY NodesAssumption DEF Rep, Nodes, NodesAssumption
<1>2. /\ s \in Seq(Entries) /\ Distinct(s) /\ Ring(m, h, s) /\ Len(s) \in Nat
      /\ NodeAt(h, s, 0) = h /\ 0 \in 0 .. Len(s)
  <2>1. Ring(m, h, s)
    BY DEF Rep
  <2>2. /\ s \in Seq(Entries) /\ Distinct(s) /\ Len(s) \in Nat
        /\ NodeAt(h, s, 0) = h
    BY RingOf
  <2> QED
    BY <2>1, <2>2
<1>3. ASSUME s = <<>> PROVE Rep(r, tt, tu)
  <2>1. m.next[h] = h
    BY <1>3, EmptyOf DEF list_empty
  <2>2. /\ IsHeap(r)
        /\ \A x \in Nodes :
             /\ r.next[x] = IF x = g THEN g ELSE m.next[x]
             /\ r.prev[x] = IF x \in {h, g} THEN g ELSE m.prev[x]
    BY <1>1, <2>1, ReplaceEmptyEffect
  <2> HIDE DEF r, s
  <2>3. Ring(r, g, s)
    BY <1>1, <1>3, <2>2, RingEmpty
  <2>4. StaleHead(r, h)
    BY <1>1, <2>1, <2>2 DEF StaleHead
  <2>5. \A x \in Nodes :
          (\A k \in 0 .. Len(s) : x # NodeAt(h, s, k)) /\ x # g
            => Untouched(m, r, x)
    BY <1>2, <2>2 DEF Untouched
  <2>6. \A x \in Nodes : r.prev[x] \in {m.prev[x], g} \cup Entries
    BY <2>2
  <2> QED
    BY <2>2, <2>3, <2>4, <2>5, <2>6, RepTakeOver DEF s
<1>4. ASSUME s # <<>> PROVE Rep(r, tt, tu)
  <2> DEFINE p == NodeAt(h, s, Len(s))
             q == NodeAt(h, s, 1)
  <2>1. Len(s) > 0
    BY <1>4, EmptyOf
  <2>2. /\ p \in Entries /\ q \in Entries /\ m.next[h] = q /\ m.prev[h] = p
        /\ 1 \in 0 .. Len(s) /\ Len(s) \in 0 .. Len(s)
    <3>1. /\ 1 \in 1 .. Len(s) /\ Len(s) \in 1 .. Len(s) /\ 0 + 1 = 1
          /\ 1 \in 0 .. Len(s) /\ Len(s) \in 0 .. Len(s)
          /\ NodeAt(h, s, Len(s) + 1) = h
      BY <1>2, <2>1, RingOf
    <3>2. p \in Entries /\ q \in Entries
      BY <3>1, RingOf
    <3>3. /\ m.next[NodeAt(h, s, 0)] = NodeAt(h, s, 0 + 1)
          /\ m.prev[NodeAt(h, s, Len(s) + 1)] = NodeAt(h, s, Len(s))
      BY <1>2, <3>1, RingOf
    <3> QED
      BY <1>2, <3>1, <3>2, <3>3
  <2> HIDE DEF p, q
  <2>3. Inserted(m, r, g, p, q)
    <3>1. m.next[h] \in Nodes \ {h, g} /\ m.prev[h] \in Nodes \ {g}
      BY <1>1, <2>2 DEF Nodes
    <3>2. Inserted(m, r, g, m.prev[h], m.next[h])
      BY <1>1, <3>1, ReplaceEffect
    <3> HIDE DEF r
    <3> QED
      BY <2>2, <3>2
  <2> HIDE DEF r
  <2>4. Ring(r, g, s)
    BY <1>2, <2>1, <2>3, RingTakeOver DEF p, q
  <2>5. StaleHead(r, h)
    BY <1>1, <2>2, <2>3 DEF StaleHead, Inserted, Nodes
  <2>6. ASSUME NEW x \in Nodes, x # g,
               \A k \in 0 .. Len(s) : x # NodeAt(h, s, k)
        PROVE  Untouched(m, r, x)
    <3>1. x # p /\ x # q
      BY <2>2, <2>6 DEF p, q
    <3> QED
      BY <2>3, <2>6, <3>1 DEF Untouched, Inserted
  <2>7. \A x \in Nodes : r.prev[x] \in {m.prev[x], g} \cup Entries
    BY <2>2, <2>3 DEF Inserted
  <2> HIDE DEF s
  <2> QED
    BY <2>3, <2>4, <2>5, <2>6, <2>7, RepTakeOver DEF s, Inserted
<1>5. Rep(r, tt, tu)
  BY <1>3, <1>4
<1>6. Rep(INIT_LIST_HEAD(r, h), tt, tu \ {h})
  <2>1. tt[h] = <<>>
    BY <1>1
  <2> HIDE DEF tt, r, tu
  <2> QED
    BY <1>5, <2>1, RepInitHead
<1>7. tu \ {h} = st \ {g}
  OBVIOUS
<1> QED
  BY <1>5, <1>6, <1>7 DEF list_replace_init

\* list_add_order stops before the last entry whose key is not greater.
LEMMA OrderOf ==
  ASSUME NEW m, NEW ss, NEW st, Rep(m, ss, st), NEW h \in Lists \ st,
         NEW e \in Entries
  PROVE  \E i \in 1 .. Len(ss[h]) + 1 :
           /\ \A j \in i .. Len(ss[h]) : Key[ss[h][j]] > Key[e]
           /\ i > 1 => Key[ss[h][i - 1]] <= Key[e]
           /\ OrderPosition(m, e, h) = NodeAt(h, ss[h], i - 1)
<1> DEFINE s == ss[h]
           back == Walk(m.prev, h)
           stops == {k \in 1 .. Len(back) : Key[e] >= Key[back[k]]}
           least == Min(stops)
<1>1. /\ s \in Seq(Entries) /\ Distinct(s) /\ Ring(m, h, s) /\ Len(s) \in Nat
      /\ NodeAt(h, s, 0) = h
      /\ \A k \in 1 .. Len(s) : s[k] \in Entries /\ NodeAt(h, s, k) = s[k]
  <2>1. Ring(m, h, s)
    BY DEF Rep
  <2> QED
    BY <2>1, RingOf
<1>2. back = Reverse(s)
  BY <1>1, WalksOfRing
<1>3. /\ Len(back) = Len(s)
      /\ \A k \in 0 .. Len(s) + 1 :
           NodeAt(h, back, k) = NodeAt(h, s, Len(s) + 1 - k)
  BY <1>1, <1>2, ReverseOf
<1>4. /\ \A n \in Nat : Key[e] >= n \/ n > Key[e]
      /\ \A k \in 1 .. Len(s) : Key[s[k]] \in Nat
      /\ Key[e] \in Nat
  BY <1>1, NodesAssumption DEF NodesAssumption
<1>5. \A n \in Nat : \A k \in 1 .. n :
        n + 1 - k \in 1 .. n /\ k \in 0 .. n + 1 /\ n + 1 - (n + 1 - k) = k
        /\ n + 1 - k \in 0 .. n + 1
  OBVIOUS
<1> HIDE DEF back, s
<1>6. \A k \in 1 .. Len(s) : back[k] = s[Len(s) + 1 - k]
  <2>1. \A k \in 1 .. Len(s) : NodeAt(h, back, k) = back[k]
    BY <1>3 DEF NodeAt
  <2> QED
    BY <1>1, <1>3, <1>5, <2>1
<1>7. \A j \in 1 .. Len(s) :
        Len(s) + 1 - j \notin stops => Key[s[j]] > Key[e]
  <2> SUFFICES ASSUME NEW j \in 1 .. Len(s), Len(s) + 1 - j \notin stops
               PROVE  Key[s[j]] > Key[e]
    OBVIOUS
  <2> DEFINE k == Len(s) + 1 - j
  <2>1. k \in 1 .. Len(s) /\ Len(s) + 1 - k = j
    BY <1>1, <1>5
  <2>2. back[k] = s[j]
    BY <1>6, <2>1
  <2>3. ~ (Key[e] >= Key[s[j]])
    BY <1>3, <2>1, <2>2
  <2> HIDE DEF k
  <2> QED
    BY <1>4, <2>3
<1>8. CASE stops = {}
  <2>1. /\ 1 \in 1 .. Len(s) + 1
        /\ \A j \in 1 .. Len(s) : Key[s[j]] > Key[e]
        /\ OrderPosition(m, e, h) = NodeAt(h, s, 1 - 1)
    BY <1>1, <1>7, <1>8 DEF OrderPosition, back
  <2> QED
    BY <2>1 DEF s
<1>9. CASE stops # {}
  <2>1. stops \in SUBSET Nat
    BY <1>1, <1>3
  <2>2. least \in stops /\ \A k \in stops : least <= k
    <3> HIDE DEF stops
    <3> QED
      BY <1>9, <2>1, MinOf
  <2>3. OrderPosition(m, e, h) = back[least]
    BY <1>9 DEF OrderPosition, back
  <2>4. least \in 1 .. Len(s) /\ Key[e] >= Key[back[least]]
    BY <1>3, <2>2
  <2> HIDE DEF least, stops
  <2> DEFINE i == Len(s) + 2 - least
  <2>5. /\ i \in 1 .. Len(s) + 1 /\ i > 1 /\ i - 1 = Len(s) + 1 - least
        /\ i - 1 \in 1 .. Len(s)
    BY <1>1, <2>4
  <2>6. OrderPosition(m, e, h) = NodeAt(h, s, i - 1) /\ back[least] = s[i - 1]
    BY <1>1, <1>6, <2>3, <2>4, <2>5
  <2>7. Key[s[i - 1]] <= Key[e]
    BY <1>4, <2>4, <2>5, <2>6
  <2>8. \A j \in i .. Len(s) : Key[s[j]] > Key[e]
    <3>1. \A j \in i .. Len(s) :
            j \in 1 .. Len(s) /\ ~ (least <= Len(s) + 1 - j)
      BY <1>1, <2>4
    <3> QED
      BY <1>7, <2>2, <3>1
  <2> HIDE DEF i
  <2> QED
    BY <2>5, <2>6, <2>7, <2>8 DEF s
<1> QED
  BY <1>8, <1>9

LEMMA OpRotate ==
  ASSUME NEW m, NEW ss, NEW st, Rep(m, ss, st), NEW h \in Lists \ st
  PROVE  /\ ss[h] = <<>> => list_rotate_left(m, h) = m
         /\ ss[h] # <<>> => Rep(list_rotate_left(m, h),
                                [ss EXCEPT ![h] = Append(Tail(@), Head(@))], st)
<1> DEFINE s == ss[h]
           e == s[1]
           tt == [ss EXCEPT ![h] = RemoveAt(@, 1)]
<1>1. ss[h] = <<>> => list_rotate_left(m, h) = m
  BY EmptyOf DEF list_rotate_left
<1>2. ASSUME s # <<>>
      PROVE  Rep(list_rotate_left(m, h),
                 [ss EXCEPT ![h] = Append(Tail(@), Head(@))], st)
  <2>1. ~ list_empty(m, h) /\ Len(s) > 0
    BY <1>2, EmptyOf
  <2>2. /\ s \in Seq(Entries) /\ Len(s) \in Nat /\ NodeAt(h, s, 0) = h
        /\ ss \in [Lists -> Seq(Entries)]
    <3>1. ss \in [Lists -> Seq(Entries)]
      BY DEF Rep
    <3> QED
      BY <3>1, RingOf
  <2>3. 1 \in 1 .. Len(s) /\ 0 \in 0 .. Len(s)
    BY <2>1, <2>2
  <2>4. m.next[h] = e
    <3>1. /\ m.next[NodeAt(h, s, 0)] = NodeAt(h, s, 0 + 1)
          /\ NodeAt(h, s, 1) = e
      BY <2>3, RingOf
    <3> QED
      BY <2>2, <3>1
  <2>5. Rep(list_move_tail(m, e, h), [tt EXCEPT ![h] = Append(@, e)], st)
    BY <2>3, OpMove
  <2>6. RemoveAt(s, 1) = Tail(s)
    <3> DEFINE a == RemoveAt(s, 1)
               b == Tail(s)
    <3>1. /\ a \in Seq(Entries) /\ Len(a) = Len(s) - 1
          /\ \A k \in 1 .. Len(s) - 1 : a[k] = IF k < 1 THEN s[k] ELSE s[k + 1]
      BY <2>2, <2>3, RemoveOf
    <3>2. /\ b \in Seq(Entries) /\ Len(b) = Len(s) - 1
          /\ \A k \in 1 .. Len(b) : b[k] = s[k + 1]
      BY <1>2, <2>2, HeadTailProperties
    <3> HIDE DEF a, b
    <3>3. Len(a) = Len(b) /\ \A k \in 1 .. Len(a) : a[k] = b[k]
      BY <2>2, <3>1, <3>2
    <3>4. a = b
      BY <3>1, <3>2, <3>3, SeqEqual
    <3> QED
      BY <3>4 DEF a, b
  <2>7. e = Head(s)
    BY <2>2
  <2>8. [tt EXCEPT ![h] = Append(@, e)] = [ss EXCEPT ![h] = Append(Tail(@), Head(@))]
    <3>1. tt = [ss EXCEPT ![h] = Tail(s)]
      BY <2>2, <2>6
    <3> HIDE DEF e
    <3>2. [tt EXCEPT ![h] = Append(@, e)] = [ss EXCEPT ![h] = Append(Tail(s), e)]
      BY <2>2, <3>1
    <3> QED
      BY <2>2, <2>7, <3>2
  <2> QED
    BY <2>1, <2>4, <2>5, <2>8 DEF list_rotate_left
<1> QED
  BY <1>1, <1>2

-----------------------------------------------------------------------------
(* The loops that empty a list *)

FrontPart(s, k) == SubSeq(s, 1, k)

BackPart(s, k) == SubSeq(s, k + 1, Len(s))

LEMMA Parts ==
  ASSUME NEW s \in Seq(Entries), NEW k \in 0 .. Len(s)
  PROVE  /\ Len(s) \in Nat
         /\ FrontPart(s, k) \in Seq(Entries) /\ Len(FrontPart(s, k)) = k
         /\ \A j \in 1 .. k : FrontPart(s, k)[j] = s[j]
         /\ BackPart(s, k) \in Seq(Entries) /\ Len(BackPart(s, k)) = Len(s) - k
         /\ \A j \in 1 .. Len(s) - k : BackPart(s, k)[j] = s[k + j]
<1>1. Len(s) \in Nat /\ \A j \in 1 .. Len(s) : s[j] \in Entries
  BY LenProperties, ElementOfSeq
<1>2. /\ FrontPart(s, k) \in Seq(Entries) /\ Len(FrontPart(s, k)) = k
      /\ \A j \in 1 .. k : FrontPart(s, k)[j] = s[j]
  <2>1. k \in Int /\ 1 \in Int /\ \A j \in 1 .. k : j \in 1 .. Len(s)
    BY <1>1
  <2> QED
    BY <1>1, <2>1, SubSeqProperties DEF FrontPart
<1>3. /\ BackPart(s, k) \in Seq(Entries) /\ Len(BackPart(s, k)) = Len(s) - k
      /\ \A j \in 1 .. Len(s) - k : BackPart(s, k)[j] = s[k + j]
  BY <1>1, SubSeqProperties DEF BackPart
<1> QED
  BY <1>1, <1>2, <1>3

LEMMA WholeParts ==
  ASSUME NEW s \in Seq(Entries)
  PROVE  /\ FrontPart(s, 0) = <<>> /\ FrontPart(s, Len(s)) = s
         /\ BackPart(s, 0) = s /\ BackPart(s, Len(s)) = <<>>
<1>1. /\ Len(s) \in Nat /\ 0 \in 0 .. Len(s) /\ Len(s) \in 0 .. Len(s)
      /\ Len(s) - 0 = Len(s) /\ Len(s) - Len(s) = 0
  BY LenProperties
<1>2. \A t \in Seq(Entries) : Len(t) = 0 => t = <<>>
  BY EmptySeq
<1>3. FrontPart(s, 0) = <<>>
  BY <1>1, <1>2, Parts
<1>4. BackPart(s, Len(s)) = <<>>
  BY <1>1, <1>2, Parts
<1>5. FrontPart(s, Len(s)) = s
  <2> DEFINE a == FrontPart(s, Len(s))
  <2>1. a \in Seq(Entries) /\ Len(a) = Len(s) /\ \A j \in 1 .. Len(a) : a[j] = s[j]
    BY <1>1, Parts
  <2> HIDE DEF a
  <2>2. a = s
    BY <2>1, SeqEqual
  <2> QED
    BY <2>2 DEF a
<1>6. BackPart(s, 0) = s
  <2> DEFINE a == BackPart(s, 0)
  <2>1. a \in Seq(Entries) /\ Len(a) = Len(s)
        /\ \A j \in 1 .. Len(s) : a[j] = s[0 + j]
    <3>1. a \in Seq(Entries) /\ Len(a) = Len(s) - 0
          /\ \A j \in 1 .. Len(s) - 0 : a[j] = s[0 + j]
      BY <1>1, Parts
    <3> HIDE DEF a
    <3> QED
      BY <1>1, <3>1
  <2> HIDE DEF a
  <2>2. \A j \in 1 .. Len(a) : a[j] = s[j]
    BY <1>1, <2>1
  <2>3. a = s
    BY <2>1, <2>2, SeqEqual
  <2> QED
    BY <2>3 DEF a
<1> QED
  BY <1>3, <1>4, <1>5, <1>6

\* One entry goes from one part to the other.
LEMMA PartsStep ==
  ASSUME NEW s \in Seq(Entries), NEW k \in 0 .. Len(s) - 1, NEW u \in Seq(Entries)
  PROVE  /\ RemoveAt(BackPart(s, k), 1) = BackPart(s, k + 1)
         /\ RemoveAt(FrontPart(s, k + 1), k + 1) = FrontPart(s, k)
         /\ Append(u \o FrontPart(s, k), s[k + 1]) = u \o FrontPart(s, k + 1)
         /\ <<s[k + 1]>> \o (BackPart(s, k + 1) \o u) = BackPart(s, k) \o u
<1> DEFINE n == Len(s)
           f == FrontPart(s, k)
           f1 == FrontPart(s, k + 1)
           b == BackPart(s, k)
           b1 == BackPart(s, k + 1)
           e == s[k + 1]
<1>1. /\ n \in Nat /\ k \in 0 .. n /\ k + 1 \in 0 .. n /\ k + 1 \in 1 .. n
      /\ e \in Entries /\ Len(u) \in Nat
  BY LenProperties, ElementOfSeq
<1>2. /\ f \in Seq(Entries) /\ Len(f) = k
      /\ \A j \in 1 .. k : f[j] = s[j]
      /\ b \in Seq(Entries) /\ Len(b) = n - k
      /\ \A j \in 1 .. n - k : b[j] = s[k + j]
  BY <1>1, Parts
<1>3. /\ f1 \in Seq(Entries) /\ Len(f1) = k + 1
      /\ \A j \in 1 .. k + 1 : f1[j] = s[j]
      /\ b1 \in Seq(Entries) /\ Len(b1) = n - (k + 1)
      /\ \A j \in 1 .. n - (k + 1) : b1[j] = s[k + 1 + j]
  BY <1>1, Parts
<1> HIDE DEF n, f, f1, b, b1, e
<1>4. RemoveAt(b, 1) = b1
  <2> DEFINE a == RemoveAt(b, 1)
  <2>1. 1 \in 1 .. Len(b)
    BY <1>1, <1>2 DEF n
  <2>2. /\ a \in Seq(Entries) /\ Len(a) = Len(b) - 1
        /\ \A j \in 1 .. Len(b) - 1 : a[j] = IF j < 1 THEN b[j] ELSE b[j + 1]
    BY <1>2, <2>1, RemoveOf
  <2> HIDE DEF a
  <2>3. Len(a) = Len(b1)
    BY <1>1, <1>2, <1>3, <2>2
  <2>4. ASSUME NEW j \in 1 .. Len(a)
        PROVE  a[j] = b1[j]
    <3>1. /\ j \in 1 .. Len(b) - 1 /\ ~ (j < 1) /\ j + 1 \in 1 .. n - k
          /\ k + (j + 1) = k + 1 + j /\ j \in 1 .. n - (k + 1)
      BY <1>1, <1>2, <2>2
    <3>2. a[j] = b[j + 1]
      BY <2>2, <3>1
    <3>3. b[j + 1] = s[k + (j + 1)]
      BY <1>2, <3>1
    <3>4. b1[j] = s[k + 1 + j]
      BY <1>3, <3>1
    <3> QED
      BY <3>1, <3>2, <3>3, <3>4
  <2>5. a = b1
    BY <1>3, <2>2, <2>3, <2>4, SeqEqual
  <2> QED
    BY <2>5 DEF a
<1>5. RemoveAt(f1, k + 1) = f
  <2> DEFINE a == RemoveAt(f1, k + 1)
  <2>1. k + 1 \in 1 .. Len(f1)
    BY <1>1, <1>3
  <2>2. /\ a \in Seq(Entries) /\ Len(a) = Len(f1) - 1
        /\ \A j \in 1 .. Len(f1) - 1 :
             a[j] = IF j < k + 1 THEN f1[j] ELSE f1[j + 1]
    BY <1>3, <2>1, RemoveOf
  <2> HIDE DEF a
  <2>3. Len(a) = k /\ Len(a) = Len(f)
    BY <1>1, <1>2, <1>3, <2>2
  <2>4. ASSUME NEW j \in 1 .. Len(a)
        PROVE  a[j] = f[j]
    <3>1. j \in 1 .. Len(f1) - 1 /\ j < k + 1 /\ j \in 1 .. k + 1 /\ j \in 1 .. k
      BY <1>1, <1>3, <2>3
    <3> QED
      BY <1>2, <1>3, <2>2, <3>1
  <2>5. a = f
    BY <1>2, <2>2, <2>3, <2>4, SeqEqual
  <2> QED
    BY <2>5 DEF a
<1>6. Append(u \o f, e) = u \o f1
  <2> DEFINE c == u \o f
             a == Append(c, e)
             d == u \o f1
  <2>1. /\ c \in Seq(Entries) /\ Len(c) = Len(u) + k
        /\ \A j \in 1 .. Len(u) + k :
             c[j] = IF j <= Len(u) THEN u[j] ELSE f[j - Len(u)]
    BY <1>2, ConcatProperties
  <2> HIDE DEF c
  <2>2. /\ a \in Seq(Entries) /\ Len(a) = Len(c) + 1
        /\ \A j \in 1 .. Len(c) : a[j] = c[j]
        /\ a[Len(c) + 1] = e
    <3>1. c \in Seq(Entries) /\ e \in Entries
      BY <1>1, <2>1
    <3> QED
      BY <3>1, AppendProperties
  <2>3. /\ d \in Seq(Entries) /\ Len(d) = Len(u) + (k + 1)
        /\ \A j \in 1 .. Len(u) + (k + 1) :
             d[j] = IF j <= Len(u) THEN u[j] ELSE f1[j - Len(u)]
    <3>1. /\ d \in Seq(Entries) /\ Len(d) = Len(u) + Len(f1)
          /\ \A j \in 1 .. Len(u) + Len(f1) :
               d[j] = IF j <= Len(u) THEN u[j] ELSE f1[j - Len(u)]
      BY <1>3, ConcatProperties
    <3> HIDE DEF d
    <3> QED
      BY <1>3, <3>1
  <2> HIDE DEF a, d
  <2>4. Len(a) = Len(d)
    BY <1>1, <2>1, <2>2, <2>3
  <2>5. ASSUME NEW j \in 1 .. Len(a)
        PROVE  a[j] = d[j]
    <3>1. /\ j \in 1 .. Len(u) + (k + 1)
          /\ j # Len(c) + 1 => j \in 1 .. Len(c) /\ j \in 1 .. Len(u) + k
          /\ j = Len(c) + 1 => ~ (j <= Len(u)) /\ j - Len(u) = k + 1
          /\ k + 1 \in 1 .. k + 1
      BY <1>1, <2>1, <2>2
    <3>2. CASE j = Len(c) + 1
      <4>1. a[j] = e
        BY <2>2, <3>2
      <4>2. d[j] = f1[k + 1]
        BY <2>3, <3>1, <3>2
      <4> QED
        BY <1>3, <3>1, <4>1, <4>2 DEF e
    <3>3. CASE j # Len(c) + 1
      <4>1. ~ (j <= Len(u)) => j - Len(u) \in 1 .. k /\ j - Len(u) \in 1 .. k + 1
        BY <1>1, <3>1, <3>3
      <4> QED
        <5>1. a[j] = c[j]
          BY <2>2, <3>1, <3>3
        <5>2. c[j] = IF j <= Len(u) THEN u[j] ELSE f[j - Len(u)]
          BY <2>1, <3>1, <3>3
        <5>3. d[j] = IF j <= Len(u) THEN u[j] ELSE f1[j - Len(u)]
          BY <2>3, <3>1
        <5> QED
            BY <1>2, <1>3, <4>1, <5>1, <5>2, <5>3
    <3> QED
      BY <3>2, <3>3
  <2>6. a = d
    BY <2>2, <2>3, <2>4, <2>5, SeqEqual
  <2> QED
    BY <2>6 DEF a, c, d
<1>7. <<e>> \o (b1 \o u) = b \o u
  <2> DEFINE c == b1 \o u
             x == <<e>>
             a == x \o c
             d == b \o u
  <2>1. /\ c \in Seq(Entries) /\ Len(c) = Len(b1) + Len(u)
        /\ \A j \in 1 .. Len(b1) + Len(u) :
             c[j] = IF j <= Len(b1) THEN b1[j] ELSE u[j - Len(b1)]
    BY <1>3, ConcatProperties
  <2>2. x \in Seq(Entries) /\ Len(x) = 1 /\ x[1] = e
    BY <1>1
  <2> HIDE DEF c, x
  <2>3. /\ a \in Seq(Entries) /\ Len(a) = Len(x) + Len(c)
        /\ \A j \in 1 .. Len(x) + Len(c) :
             a[j] = IF j <= Len(x) THEN x[j] ELSE c[j - Len(x)]
    <3>1. x \in Seq(Entries) /\ c \in Seq(Entries)
      BY <2>1, <2>2
    <3> QED
      BY <3>1, ConcatProperties
  <2>4. /\ d \in Seq(Entries) /\ Len(d) = Len(b) + Len(u)
        /\ \A j \in 1 .. Len(b) + Len(u) :
             d[j] = IF j <= Len(b) THEN b[j] ELSE u[j - Len(b)]
    BY <1>2, ConcatProperties
  <2> HIDE DEF a, d
  <2>5. Len(a) = Len(d) /\ Len(a) = n - k + Len(u)
    BY <1>1, <1>2, <1>3, <2>1, <2>2, <2>3, <2>4
  <2>6. ASSUME NEW j \in 1 .. Len(a)
        PROVE  a[j] = d[j]
    <3>1. CASE j = 1
      <4>1. /\ j <= Len(x) /\ j <= Len(b) /\ 1 \in 1 .. n - k
            /\ j \in 1 .. Len(x) + Len(c) /\ j \in 1 .. Len(b) + Len(u)
        BY <1>1, <1>2, <2>2, <2>3, <2>4, <2>5, <3>1
      <4>2. a[j] = x[j] /\ d[j] = b[j]
        BY <2>3, <2>4, <4>1
      <4>3. b[1] = s[k + 1]
        BY <1>2, <4>1
      <4> QED
        BY <2>2, <3>1, <4>2, <4>3 DEF e
    <3>2. CASE j # 1 /\ j <= n - k
      <4>1. /\ ~ (j <= Len(x)) /\ j \in 1 .. Len(x) + Len(c) /\ j - Len(x) = j - 1
            /\ j \in 1 .. Len(b) + Len(u) /\ j <= Len(b) /\ j \in 1 .. n - k
            /\ j - 1 \in 1 .. Len(b1) + Len(u) /\ j - 1 <= Len(b1)
            /\ j - 1 \in 1 .. n - (k + 1) /\ k + 1 + (j - 1) = k + j
        BY <1>1, <1>2, <1>3, <2>1, <2>2, <2>3, <2>4, <2>5, <3>2
      <4>2. a[j] = c[j - 1] /\ c[j - 1] = b1[j - 1] /\ b1[j - 1] = s[k + j]
        BY <1>3, <2>1, <2>3, <4>1
      <4>3. d[j] = b[j] /\ b[j] = s[k + j]
        BY <1>2, <2>4, <4>1
      <4> QED
        BY <4>2, <4>3
    <3>3. CASE ~ (j <= n - k)
      <4>1. /\ ~ (j <= Len(x)) /\ j \in 1 .. Len(x) + Len(c) /\ j - Len(x) = j - 1
            /\ j \in 1 .. Len(b) + Len(u) /\ ~ (j <= Len(b))
            /\ j - 1 \in 1 .. Len(b1) + Len(u) /\ ~ (j - 1 <= Len(b1))
            /\ (j - 1) - Len(b1) = j - Len(b)
        BY <1>1, <1>2, <1>3, <2>1, <2>2, <2>3, <2>4, <2>5, <3>3
      <4>2. a[j] = c[j - 1] /\ c[j - 1] = u[(j - 1) - Len(b1)]
        BY <2>1, <2>3, <4>1
      <4>3. d[j] = u[j - Len(b)]
        BY <2>4, <4>1
      <4> QED
        BY <4>1, <4>2, <4>3
    <3> QED
      BY <1>1, <3>1, <3>2, <3>3
  <2>7. a = d
    BY <2>3, <2>4, <2>5, <2>6, SeqEqual
  <2> QED
    BY <2>7 DEF a, c, d, x
<1> QED
  BY <1>4, <1>5, <1>6, <1>7 DEF f, f1, b, b1, e

NextOf(heap, forward, n) == IF forward THEN heap.next[n] ELSE heap.prev[n]

Cursor(heap, forward, pos) ==
  [heap |-> heap, pos |-> pos, n |-> NextOf(heap, forward, pos)]

\* What one more round makes of the rounds f, of which there were k.
Round(f, k, m, forward, head, body, to) ==
  IF k = 0 THEN Cursor(m, forward, NextOf(m, forward, head))
  ELSE IF f[k - 1].pos = head THEN f[k - 1]
       ELSE Cursor(LoopBody(f[k - 1].heap, body, f[k - 1].pos, to), forward,
                   f[k - 1].n)

LEMMA LoopEquation ==
  ASSUME NEW m, NEW forward, NEW head, NEW body, NEW to
  PROVE  LET loop == SafeLoop(m, forward, head, body, to)
         IN  loop = [k \in 0 .. Cardinality(Entries) |->
                       Round(loop, k, m, forward, head, body, to)]
<1> DEFINE Body(f, k) == Round(f, k, m, forward, head, body, to)
           Solves(f, n) == f = [k \in 0 .. n |-> Body(f, k)]
           Bad == {n \in Nat : ~ \E f : Solves(f, n)}
<1>1. /\ \A f, g : Body(f, 0) = Body(g, 0)
      /\ \A f, g : \A k \in Nat \ {0} :
           f[k - 1] = g[k - 1] => Body(f, k) = Body(g, k)
  BY DEF Round
<1> HIDE DEF Body
<1>2. \E f : Solves(f, 0)
  <2> DEFINE f == [k \in 0 .. 0 |-> Body(<<>>, 0)]
  <2>1. \A k \in 0 .. 0 : f[k] = Body(f, k)
    BY <1>1
  <2>2. f = [k \in 0 .. 0 |-> f[k]]
    OBVIOUS
  <2> HIDE DEF f
  <2>3. f = [k \in 0 .. 0 |-> Body(f, k)]
    BY <2>1, <2>2
  <2> QED
    BY <2>3
<1>3. ASSUME NEW n \in Nat, NEW f, Solves(f, n)
      PROVE  \E g : Solves(g, n + 1)
  <2> DEFINE g == [k \in 0 .. n + 1 |-> IF k = n + 1 THEN Body(f, k) ELSE f[k]]
  <2>1. ASSUME NEW k \in 0 .. n + 1
        PROVE  g[k] = Body(g, k)
    <3>1. k # 0 => k \in Nat \ {0} /\ k - 1 \in 0 .. n + 1 /\ k - 1 # n + 1
      OBVIOUS
    <3>2. k # 0 => g[k - 1] = f[k - 1]
      BY <3>1
    <3>3. Body(g, k) = Body(f, k)
      <4> HIDE DEF g
      <4> QED
        BY <1>1, <3>1, <3>2
    <3>4. CASE k = n + 1
      BY <3>3, <3>4
    <3>5. CASE k # n + 1
      <4>1. k \in 0 .. n /\ f[k] = Body(f, k)
        BY <1>3, <3>5
      <4> QED
        BY <3>3, <3>5, <4>1
    <3> QED
      BY <3>4, <3>5
  <2>2. g = [k \in 0 .. n + 1 |-> g[k]]
    OBVIOUS
  <2> HIDE DEF g
  <2>3. g = [k \in 0 .. n + 1 |-> Body(g, k)]
    BY <2>1, <2>2
  <2> QED
    BY <2>3
<1> HIDE DEF Solves
<1>4. Bad = {}
  <2> SUFFICES ASSUME Bad # {} PROVE FALSE
    OBVIOUS
  <2>1. PICK n \in Bad : \A k \in Bad : n <= k
    BY Least
  <2>2. n # 0 /\ n - 1 \in Nat /\ n - 1 \notin Bad
    BY <1>2, <2>1
  <2>3. PICK f : Solves(f, n - 1)
    BY <2>2
  <2>4. \E g : Solves(g, (n - 1) + 1)
    BY <1>3, <2>2, <2>3
  <2>5. (n - 1) + 1 = n
    BY <2>1
  <2> QED
    BY <2>1, <2>4, <2>5
<1>5. Cardinality(Entries) \in Nat
  <2>1. IsFiniteSet(Entries)
    BY NodesAssumption, FS_Subset DEF NodesAssumption, Nodes
  <2> QED
    BY <2>1, FS_CardinalityType
<1>6. \E f : Solves(f, Cardinality(Entries))
  BY <1>4, <1>5
<1> QED
  BY <1>6 DEF SafeLoop, Solves, Body, Round, Cursor, NextOf

\* The loop makes n rounds, the k-th on the entry at[k]; the lists before it are
\* ab[k - 1], and whatever heap has them, the body makes them ab[k], and the
\* entry read before the body runs is the one of the next round.
Rounds(m, forward, head, body, to, at, ab, st, n) ==
  /\ n \in Nat /\ n <= Cardinality(Entries) /\ Cardinality(Entries) \in Nat
  /\ NextOf(m, forward, head) = at[1] /\ at[n + 1] = head
  /\ Rep(m, ab[0], st)
  /\ \A k \in 0 .. n - 1 :
       /\ at[k + 1] # head
       /\ \A heap : Rep(heap, ab[k], st) =>
            /\ NextOf(heap, forward, at[k + 1]) = at[k + 2]
            /\ Rep(LoopBody(heap, body, at[k + 1], to), ab[k + 1], st)

LEMMA LoopRuns ==
  ASSUME NEW m, NEW forward, NEW head, NEW body, NEW to, NEW at, NEW ab, NEW st,
         NEW n, Rounds(m, forward, head, body, to, at, ab, st, n)
  PROVE  Rep(ForEachSafe(m, forward, head, body, to), ab[n], st)
<1> DEFINE loop == SafeLoop(m, forward, head, body, to)
           c == Cardinality(Entries)
           Good(k) == /\ Rep(loop[k].heap, ab[k], st)
                      /\ loop[k].pos = at[k + 1]
                      /\ k < n => loop[k].n = at[k + 2]
           Bad == {k \in 0 .. n : ~ Good(k)}
           Moved == {k \in n .. c : loop[k] # loop[n]}
<1>1. /\ c \in Nat /\ n \in Nat /\ n <= c
      /\ NextOf(m, forward, head) = at[1] /\ at[n + 1] = head
      /\ Rep(m, ab[0], st)
  BY DEF Rounds
<1>2. ASSUME NEW k \in 0 .. n - 1, NEW heap, Rep(heap, ab[k], st)
      PROVE  /\ at[k + 1] # head
             /\ NextOf(heap, forward, at[k + 1]) = at[k + 2]
             /\ Rep(LoopBody(heap, body, at[k + 1], to), ab[k + 1], st)
  BY <1>2 DEF Rounds
<1>3. \A k \in 0 .. c : loop[k] = Round(loop, k, m, forward, head, body, to)
  <2> HIDE DEF loop
  <2>1. loop = [k \in 0 .. Cardinality(Entries) |->
                 Round(loop, k, m, forward, head, body, to)]
    BY LoopEquation DEF loop
  <2> QED
    BY <2>1
<1> HIDE DEF loop, c
<1>4. Good(0)
  <2>1. 0 \in 0 .. c /\ 0 + 1 = 1 /\ 0 + 2 = 2 /\ (0 < n => 0 \in 0 .. n - 1)
    BY <1>1
  <2>2. loop[0] = Cursor(m, forward, at[1])
    BY <1>1, <1>3, <2>1 DEF Round
  <2>3. 0 < n => NextOf(m, forward, at[0 + 1]) = at[0 + 2]
    BY <1>1, <1>2, <2>1
  <2> QED
    BY <1>1, <2>1, <2>2, <2>3 DEF Cursor
<1>5. ASSUME NEW k \in 0 .. n - 1, Good(k)
      PROVE  Good(k + 1)
  <2> DEFINE l == loop[k]
             heap == LoopBody(l.heap, body, l.pos, to)
  <2>1. /\ k + 1 \in 0 .. c /\ k + 1 # 0 /\ (k + 1) - 1 = k /\ k < n
        /\ (k + 1) + 1 = k + 2 /\ (k + 1) + 2 = k + 3
        /\ k + 1 < n => k + 1 \in 0 .. n - 1
    BY <1>1
  <2>2. l.pos = at[k + 1] /\ l.n = at[k + 2] /\ Rep(l.heap, ab[k], st)
    BY <1>5, <2>1
  <2>3. l.pos # head /\ Rep(heap, ab[k + 1], st)
    BY <1>2, <2>2
  <2>4. loop[k + 1] = Cursor(heap, forward, l.n)
    BY <1>3, <2>1, <2>3 DEF Round
  <2> HIDE DEF l, heap
  <2>5. k + 1 < n => NextOf(heap, forward, at[(k + 1) + 1]) = at[(k + 1) + 2]
    BY <1>2, <2>1, <2>3
  <2> QED
    BY <2>1, <2>2, <2>3, <2>4, <2>5 DEF Cursor
<1> HIDE DEF Good
<1>6. Bad = {}
  <2> SUFFICES ASSUME Bad # {} PROVE FALSE
    OBVIOUS
  <2>1. Bad \in SUBSET Nat
    BY <1>1
  <2>2. PICK k \in Bad : \A j \in Bad : k <= j
    BY <2>1, Least
  <2>3. k # 0 /\ k - 1 \in 0 .. n - 1 /\ k - 1 \in 0 .. n /\ (k - 1) + 1 = k
    BY <1>1, <1>4, <2>2
  <2>4. Good(k - 1)
    BY <2>2, <2>3
  <2>5. Good((k - 1) + 1)
    BY <1>5, <2>3, <2>4
  <2> QED
    BY <2>2, <2>3, <2>5
<1>7. Good(n)
  BY <1>1, <1>6
<1>8. Moved = {}
  <2> SUFFICES ASSUME Moved # {} PROVE FALSE
    OBVIOUS
  <2>1. Moved \in SUBSET Nat
    BY <1>1
  <2>2. PICK k \in Moved : \A j \in Moved : k <= j
    BY <2>1, Least
  <2>3. k # n /\ k - 1 \in n .. c /\ ~ (k <= k - 1) /\ k \in 0 .. c /\ k # 0
    BY <1>1, <2>2
  <2>4. loop[k - 1] = loop[n]
    BY <2>2, <2>3
  <2>5. loop[n].pos = head
    BY <1>1, <1>7 DEF Good
  <2>6. loop[k] = loop[k - 1]
    BY <1>3, <2>3, <2>4, <2>5 DEF Round
  <2> QED
    BY <2>2, <2>4, <2>6
<1>9. loop[c] = loop[n]
  BY <1>1, <1>8
<1>10. Rep(loop[c].heap, ab[n], st)
  BY <1>7, <1>9 DEF Good
<1> QED
  BY <1>10 DEF ForEachSafe, loop, c

\* list_for_each_entry_safe with list_del in its body.
LEMMA OpDelEach ==
  ASSUME NEW m, NEW ss, NEW st, Rep(m, ss, st), NEW h \in Lists \ st
  PROVE  Rep(ForEachSafe(m, TRUE, h, "del", h), [ss EXCEPT ![h] = <<>>], st)
<1> DEFINE s == ss[h]
           n == Len(s)
           at == [k \in 0 .. n + 1 |-> NodeAt(h, s, k)]
           ab == [k \in 0 .. n |-> [ss EXCEPT ![h] = BackPart(s, k)]]
<1>1. ss \in [Lists -> Seq(Entries)] /\ Ring(m, h, s)
  BY DEF Rep
<1>2. /\ s \in Seq(Entries) /\ Distinct(s) /\ n \in Nat /\ h \notin Entries
      /\ NodeAt(h, s, 0) = h /\ NodeAt(h, s, n + 1) = h
      /\ \A k \in 1 .. n : s[k] \in Entries /\ NodeAt(h, s, k) = s[k]
  BY RingOf, NodesAssumption DEF NodesAssumption
<1>3. n <= Cardinality(Entries) /\ Cardinality(Entries) \in Nat
  BY <1>2, RoomForList
<1>4. \A k \in 0 .. n + 1 : at[k] = NodeAt(h, s, k)
  OBVIOUS
<1>5. \A k \in 0 .. n : ab[k] = [ss EXCEPT ![h] = BackPart(s, k)]
  OBVIOUS
<1>6. 1 \in 0 .. n + 1 /\ n + 1 \in 0 .. n + 1 /\ 0 \in 0 .. n /\ n \in 0 .. n
      /\ 0 + 1 = 1
  BY <1>2
<1> HIDE DEF at, ab, n
<1>7. NextOf(m, TRUE, h) = at[1] /\ at[n + 1] = h
  <2>1. m.next[NodeAt(h, s, 0)] = NodeAt(h, s, 0 + 1)
    BY <1>1, <1>6 DEF Ring, n
  <2> QED
    BY <1>2, <1>4, <1>6, <2>1 DEF NextOf
<1>8. ab[0] = ss /\ ab[n] = [ss EXCEPT ![h] = <<>>]
  <2>1. BackPart(s, 0) = s /\ BackPart(s, n) = <<>>
    BY <1>2, WholeParts DEF n
  <2>2. ab[0] = [ss EXCEPT ![h] = s] /\ ab[n] = [ss EXCEPT ![h] = <<>>]
    BY <1>5, <1>6, <2>1
  <2>3. [ss EXCEPT ![h] = s] = ss
    BY <1>1
  <2> QED
    BY <2>2, <2>3
<1>9. ASSUME NEW k \in 0 .. n - 1
      PROVE  /\ at[k + 1] # h
             /\ \A heap : Rep(heap, ab[k], st) =>
                  /\ NextOf(heap, TRUE, at[k + 1]) = at[k + 2]
                  /\ Rep(LoopBody(heap, "del", at[k + 1], h), ab[k + 1], st)
  <2> DEFINE u == ab[k]
             b == BackPart(s, k)
  <2>1. /\ k \in 0 .. n /\ k + 1 \in 0 .. n /\ k + 1 \in 1 .. n
        /\ k + 1 \in 0 .. n + 1 /\ k + 2 \in 0 .. n + 1 /\ 1 \in 1 .. n - k
        /\ 1 + 1 = 2
    BY <1>2
  <2>2. at[k + 1] = s[k + 1] /\ at[k + 1] \in Entries /\ at[k + 2] = NodeAt(h, s, k + 2)
    BY <1>2, <1>4, <2>1
  <2>3. u[h] = b /\ u = [ss EXCEPT ![h] = b]
    BY <1>1, <1>5, <2>1
  <2>4. b \in Seq(Entries) /\ Len(b) = n - k /\ b[1] = s[k + 1]
    <3>1. k \in 0 .. Len(s)
      BY <2>1 DEF n
    <3> QED
      BY <1>2, <2>1, <3>1, Parts DEF n
  <2>5. NodeAt(h, b, 2) = NodeAt(h, s, k + 2)
    <3>1. \A j \in 1 .. n - k : b[j] = s[k + j]
      BY <1>2, <2>1, Parts DEF n
    <3>2. 2 \in 1 .. n - k <=> k + 2 \in 1 .. n
      BY <1>2, <2>1
    <3> HIDE DEF b
    <3> QED
      BY <2>4, <3>1, <3>2 DEF NodeAt, n
  <2>6. RemoveAt(b, 1) = BackPart(s, k + 1)
    BY <1>2, <2>1, PartsStep DEF n
  <2>7. ab[k + 1] = [u EXCEPT ![h] = RemoveAt(@, 1)]
    BY <1>1, <1>5, <2>1, <2>3, <2>6
  <2> HIDE DEF u, b
  <2>8. ASSUME NEW heap, Rep(heap, u, st)
        PROVE  /\ NextOf(heap, TRUE, at[k + 1]) = at[k + 2]
               /\ Rep(LoopBody(heap, "del", at[k + 1], h), ab[k + 1], st)
    <3>1. 1 \in 1 .. Len(u[h]) /\ u[h][1] = at[k + 1]
      BY <2>1, <2>2, <2>3, <2>4
    <3>2. heap.next[u[h][1]] = NodeAt(h, u[h], 1 + 1)
      BY <2>8, <3>1, Neighbours
    <3>3. Rep(list_del(heap, u[h][1]), [u EXCEPT ![h] = RemoveAt(@, 1)], st)
      BY <2>8, <3>1, OpDel
    <3> QED
      BY <2>1, <2>2, <2>3, <2>5, <2>7, <3>1, <3>2, <3>3 DEF NextOf, LoopBody
  <2> QED
    BY <1>2, <2>2, <2>8 DEF u
<1>10. Rounds(m, TRUE, h, "del", h, at, ab, st, n)
  BY <1>2, <1>3, <1>7, <1>8, <1>9 DEF Rounds
<1>11. Rep(ForEachSafe(m, TRUE, h, "del", h), ab[n], st)
  BY <1>10, LoopRuns
<1> QED
  BY <1>8, <1>11

\* list_for_each_entry_safe with list_move_tail in its body.
LEMMA OpMoveEach ==
  ASSUME NEW m, NEW ss, NEW st, Rep(m, ss, st), NEW l \in Lists \ st,
         NEW h \in Lists \ st, l # h
  PROVE  Rep(ForEachSafe(m, TRUE, l, "move_tail", h),
             [ss EXCEPT ![l] = <<>>, ![h] = ss[h] \o ss[l]], st)
<1> DEFINE s == ss[l]
           v == ss[h]
           n == Len(s)
           Lists2(a, b) == [ss EXCEPT ![l] = a, ![h] = b]
           at == [k \in 0 .. n + 1 |-> NodeAt(l, s, k)]
           ab == [k \in 0 .. n |-> Lists2(BackPart(s, k), v \o FrontPart(s, k))]
<1>1. ss \in [Lists -> Seq(Entries)] /\ Ring(m, l, s)
  BY DEF Rep
<1>2. /\ s \in Seq(Entries) /\ Distinct(s) /\ n \in Nat /\ l \notin Entries
      /\ NodeAt(l, s, 0) = l /\ NodeAt(l, s, n + 1) = l
      /\ \A k \in 1 .. n : s[k] \in Entries /\ NodeAt(l, s, k) = s[k]
      /\ v \in Seq(Entries)
  BY RingOf, NodesAssumption DEF NodesAssumption
<1>3. n <= Cardinality(Entries) /\ Cardinality(Entries) \in Nat
  BY <1>2, RoomForList
<1>4. \A k \in 0 .. n + 1 : at[k] = NodeAt(l, s, k)
  OBVIOUS
<1>5. \A k \in 0 .. n : ab[k] = Lists2(BackPart(s, k), v \o FrontPart(s, k))
  OBVIOUS
<1>6. 1 \in 0 .. n + 1 /\ n + 1 \in 0 .. n + 1 /\ 0 \in 0 .. n /\ n \in 0 .. n
      /\ 0 + 1 = 1
  BY <1>2
<1>7. /\ \A a, b : /\ Lists2(a, b)[l] = a /\ Lists2(a, b)[h] = b
                   /\ \A c : [Lists2(a, b) EXCEPT ![l] = c][h] = b
      /\ \A a, b, c, d :
           [[Lists2(a, b) EXCEPT ![l] = c] EXCEPT ![h] = d] = Lists2(c, d)
  BY <1>1
<1>8. Lists2(s, v) = ss
  BY <1>1
<1> HIDE DEF at, ab, n
<1>9. NextOf(m, TRUE, l) = at[1] /\ at[n + 1] = l
  <2>1. m.next[NodeAt(l, s, 0)] = NodeAt(l, s, 0 + 1)
    BY <1>1, <1>6 DEF Ring, n
  <2> QED
    BY <1>2, <1>4, <1>6, <2>1 DEF NextOf
<1> HIDE DEF Lists2
<1>10. ab[0] = ss /\ ab[n] = Lists2(<<>>, v \o s)
  <2>1. /\ BackPart(s, 0) = s /\ BackPart(s, n) = <<>>
        /\ FrontPart(s, 0) = <<>> /\ FrontPart(s, n) = s
    BY <1>2, WholeParts DEF n
  <2>2. v \o <<>> = v
    BY <1>2, ConcatEmptySeq
  <2> QED
    BY <1>5, <1>6, <1>8, <2>1, <2>2
<1>11. ASSUME NEW k \in 0 .. n - 1
       PROVE  /\ at[k + 1] # l
              /\ \A heap : Rep(heap, ab[k], st) =>
                   /\ NextOf(heap, TRUE, at[k + 1]) = at[k + 2]
                   /\ Rep(LoopBody(heap, "move_tail", at[k + 1], h), ab[k + 1], st)
  <2> DEFINE u == ab[k]
             b == BackPart(s, k)
             d == v \o FrontPart(s, k)
  <2>1. /\ k \in 0 .. n /\ k + 1 \in 0 .. n /\ k + 1 \in 1 .. n
        /\ k + 1 \in 0 .. n + 1 /\ k + 2 \in 0 .. n + 1 /\ 1 \in 1 .. n - k
        /\ 1 + 1 = 2
    BY <1>2
  <2>2. /\ at[k + 1] = s[k + 1] /\ at[k + 1] \in Entries
        /\ at[k + 2] = NodeAt(l, s, k + 2)
    BY <1>2, <1>4, <2>1
  <2>3. u[l] = b /\ u[h] = d /\ u = Lists2(b, d)
    <3>1. u = Lists2(b, d)
      BY <1>5, <2>1
    <3> HIDE DEF u, b, d
    <3> QED
      BY <1>7, <3>1
  <2>4. b \in Seq(Entries) /\ Len(b) = n - k /\ b[1] = s[k + 1]
    <3>1. k \in 0 .. Len(s)
      BY <2>1 DEF n
    <3> QED
      BY <1>2, <2>1, <3>1, Parts DEF n
  <2>5. NodeAt(l, b, 2) = NodeAt(l, s, k + 2)
    <3>1. \A j \in 1 .. n - k : b[j] = s[k + j]
      BY <1>2, <2>1, Parts DEF n
    <3>2. 2 \in 1 .. n - k <=> k + 2 \in 1 .. n
      BY <1>2, <2>1
    <3> HIDE DEF b
    <3> QED
      BY <2>4, <3>1, <3>2 DEF NodeAt, n
  <2>6. /\ RemoveAt(b, 1) = BackPart(s, k + 1)
        /\ Append(d, s[k + 1]) = v \o FrontPart(s, k + 1)
    BY <1>2, <2>1, PartsStep DEF n
  <2>7. [[u EXCEPT ![l] = RemoveAt(@, 1)] EXCEPT ![h] = Append(@, s[k + 1])]
          = ab[k + 1]
    <3> HIDE DEF u, b, d
    <3> DEFINE x == RemoveAt(b, 1)
               y == Append(d, s[k + 1])
    <3>1. [u EXCEPT ![l] = RemoveAt(@, 1)] = [Lists2(b, d) EXCEPT ![l] = x]
      BY <2>3
    <3>2. [Lists2(b, d) EXCEPT ![l] = x][h] = d
      BY <1>7
    <3>3. ab[k + 1] = Lists2(x, y)
      BY <1>5, <2>1, <2>6
    <3> HIDE DEF x
    <3>4. [[u EXCEPT ![l] = RemoveAt(@, 1)] EXCEPT ![h] = Append(@, s[k + 1])]
            = [[Lists2(b, d) EXCEPT ![l] = x] EXCEPT ![h] = y]
      BY <3>1, <3>2
    <3> HIDE DEF y
    <3> QED
      BY <1>7, <3>3, <3>4
  <2> HIDE DEF u, b, d
  <2>8. ASSUME NEW heap, Rep(heap, u, st)
        PROVE  /\ NextOf(heap, TRUE, at[k + 1]) = at[k + 2]
               /\ Rep(LoopBody(heap, "move_tail", at[k + 1], h), ab[k + 1], st)
    <3>1. 1 \in 1 .. Len(u[l]) /\ u[l][1] = at[k + 1]
      BY <2>1, <2>2, <2>3, <2>4
    <3>2. heap.next[u[l][1]] = NodeAt(l, u[l], 1 + 1)
      BY <2>8, <3>1, Neighbours
    <3>3. Rep(list_move_tail(heap, u[l][1], h),
              [[u EXCEPT ![l] = RemoveAt(@, 1)] EXCEPT ![h] = Append(@, u[l][1])],
              st)
      BY <2>8, <3>1, OpMove
    <3>4. LoopBody(heap, "move_tail", at[k + 1], h)
            = list_move_tail(heap, at[k + 1], h)
      BY DEF LoopBody
    <3> QED
      BY <2>1, <2>2, <2>3, <2>5, <2>7, <3>1, <3>2, <3>3, <3>4 DEF NextOf
  <2> QED
    BY <1>2, <2>2, <2>8 DEF u
<1>12. Rounds(m, TRUE, l, "move_tail", h, at, ab, st, n)
  BY <1>2, <1>3, <1>9, <1>10, <1>11 DEF Rounds
<1>13. Rep(ForEachSafe(m, TRUE, l, "move_tail", h), ab[n], st)
  BY <1>12, LoopRuns
<1> QED
  BY <1>10, <1>13 DEF Lists2

\* list_for_each_entry_safe_reverse with list_move in its body.
LEMMA OpMoveEachReverse ==
  ASSUME NEW m, NEW ss, NEW st, Rep(m, ss, st), NEW l \in Lists \ st,
         NEW h \in Lists \ st, l # h
  PROVE  Rep(ForEachSafe(m, FALSE, l, "move", h),
             [ss EXCEPT ![l] = <<>>, ![h] = ss[l] \o ss[h]], st)
<1> DEFINE s == ss[l]
           v == ss[h]
           n == Len(s)
           Lists2(a, b) == [ss EXCEPT ![l] = a, ![h] = b]
           at == [k \in 0 .. n + 1 |-> NodeAt(l, s, n + 1 - k)]
           ab == [k \in 0 .. n |->
                    Lists2(FrontPart(s, n - k), BackPart(s, n - k) \o v)]
<1>1. ss \in [Lists -> Seq(Entries)] /\ Ring(m, l, s)
  BY DEF Rep
<1>2. /\ s \in Seq(Entries) /\ Distinct(s) /\ n \in Nat /\ l \notin Entries
      /\ NodeAt(l, s, 0) = l /\ NodeAt(l, s, n + 1) = l
      /\ \A k \in 1 .. n : s[k] \in Entries /\ NodeAt(l, s, k) = s[k]
      /\ v \in Seq(Entries)
  BY RingOf, NodesAssumption DEF NodesAssumption
<1>3. n <= Cardinality(Entries) /\ Cardinality(Entries) \in Nat
  BY <1>2, RoomForList
<1>4. \A k \in 0 .. n + 1 : at[k] = NodeAt(l, s, n + 1 - k)
  OBVIOUS
<1>5. \A k \in 0 .. n :
        ab[k] = Lists2(FrontPart(s, n - k), BackPart(s, n - k) \o v)
  OBVIOUS
<1>6. 1 \in 0 .. n + 1 /\ n + 1 \in 0 .. n + 1 /\ 0 \in 0 .. n /\ n \in 0 .. n
      /\ n + 1 - 1 = n /\ n + 1 - (n + 1) = 0 /\ n - 0 = n /\ n - n = 0
  BY <1>2
<1>7. /\ \A a, b : /\ Lists2(a, b)[l] = a /\ Lists2(a, b)[h] = b
                   /\ \A c : [Lists2(a, b) EXCEPT ![l] = c][h] = b
      /\ \A a, b, c, d :
           [[Lists2(a, b) EXCEPT ![l] = c] EXCEPT ![h] = d] = Lists2(c, d)
  BY <1>1
<1>8. Lists2(s, v) = ss
  BY <1>1
<1> HIDE DEF at, ab, n
<1>9. NextOf(m, FALSE, l) = at[1] /\ at[n + 1] = l
  <2>1. m.prev[NodeAt(l, s, n + 1)] = NodeAt(l, s, n)
    BY <1>1, <1>6 DEF Ring, n
  <2> QED
    BY <1>2, <1>4, <1>6, <2>1 DEF NextOf
<1> HIDE DEF Lists2
<1>10. ab[0] = ss /\ ab[n] = Lists2(<<>>, s \o v)
  <2>1. /\ BackPart(s, 0) = s /\ BackPart(s, n) = <<>>
        /\ FrontPart(s, 0) = <<>> /\ FrontPart(s, n) = s
    BY <1>2, WholeParts DEF n
  <2>2. <<>> \o v = v
    BY <1>2, ConcatEmptySeq
  <2> QED
    BY <1>5, <1>6, <1>8, <2>1, <2>2
<1>11. ASSUME NEW k \in 0 .. n - 1
       PROVE  /\ at[k + 1] # l
              /\ \A heap : Rep(heap, ab[k], st) =>
                   /\ NextOf(heap, FALSE, at[k + 1]) = at[k + 2]
                   /\ Rep(LoopBody(heap, "move", at[k + 1], h), ab[k + 1], st)
  <2> DEFINE u == ab[k]
             i == n - k
             b == FrontPart(s, i)
             d == BackPart(s, i) \o v
  <2>1. /\ k \in 0 .. n /\ k + 1 \in 0 .. n
        /\ k + 1 \in 0 .. n + 1 /\ k + 2 \in 0 .. n + 1
        /\ n + 1 - (k + 1) = i /\ n + 1 - (k + 2) = i - 1 /\ n - (k + 1) = i - 1
        /\ i \in 1 .. n /\ i \in 0 .. n /\ i - 1 \in 0 .. n - 1
        /\ i - 1 \in 0 .. n /\ (i - 1) + 1 = i
    BY <1>2
  <2>2. /\ at[k + 1] = s[i] /\ at[k + 1] \in Entries
        /\ at[k + 2] = NodeAt(l, s, i - 1)
    BY <1>2, <1>4, <2>1
  <2>3. u[l] = b /\ u[h] = d /\ u = Lists2(b, d)
    <3>1. u = Lists2(b, d)
      BY <1>5, <2>1
    <3> HIDE DEF u, b, d
    <3> QED
      BY <1>7, <3>1
  <2> HIDE DEF i
  <2>4. b \in Seq(Entries) /\ Len(b) = i /\ \A j \in 1 .. i : b[j] = s[j]
    <3>1. i \in 0 .. Len(s)
      BY <2>1 DEF n
    <3> QED
      BY <1>2, <2>1, <3>1, Parts DEF n
  <2>5. NodeAt(l, b, i - 1) = NodeAt(l, s, i - 1)
    <3>1. i - 1 \in 1 .. i <=> i - 1 \in 1 .. n
      BY <1>2, <2>1
    <3> HIDE DEF b
    <3> QED
      BY <2>4, <3>1 DEF NodeAt, n
  <2>6. /\ RemoveAt(b, i) = FrontPart(s, i - 1)
        /\ <<s[i]>> \o d = BackPart(s, i - 1) \o v
    <3>1. /\ RemoveAt(FrontPart(s, (i - 1) + 1), (i - 1) + 1) = FrontPart(s, i - 1)
          /\ <<s[(i - 1) + 1]>> \o (BackPart(s, (i - 1) + 1) \o v)
               = BackPart(s, i - 1) \o v
      BY <1>2, <2>1, PartsStep DEF n
    <3> QED
      BY <2>1, <3>1
  <2>7. [[u EXCEPT ![l] = RemoveAt(@, i)] EXCEPT ![h] = <<s[i]>> \o @] = ab[k + 1]
    <3> HIDE DEF u, b, d
    <3> DEFINE x == RemoveAt(b, i)
               y == <<s[i]>> \o d
    <3>1. [u EXCEPT ![l] = RemoveAt(@, i)] = [Lists2(b, d) EXCEPT ![l] = x]
      BY <2>3
    <3>2. [Lists2(b, d) EXCEPT ![l] = x][h] = d
      BY <1>7
    <3>3. ab[k + 1] = Lists2(x, y)
      BY <1>5, <2>1, <2>6
    <3> HIDE DEF x
    <3>4. [[u EXCEPT ![l] = RemoveAt(@, i)] EXCEPT ![h] = <<s[i]>> \o @]
            = [[Lists2(b, d) EXCEPT ![l] = x] EXCEPT ![h] = y]
      BY <3>1, <3>2
    <3> HIDE DEF y
    <3> QED
      BY <1>7, <3>3, <3>4
  <2> HIDE DEF u, b, d
  <2>8. ASSUME NEW heap, Rep(heap, u, st)
        PROVE  /\ NextOf(heap, FALSE, at[k + 1]) = at[k + 2]
               /\ Rep(LoopBody(heap, "move", at[k + 1], h), ab[k + 1], st)
    <3>1. i \in 1 .. Len(u[l]) /\ u[l][i] = at[k + 1]
      BY <2>1, <2>2, <2>3, <2>4
    <3>2. heap.prev[u[l][i]] = NodeAt(l, u[l], i - 1)
      BY <2>8, <3>1, Neighbours
    <3>3. Rep(list_move(heap, u[l][i], h),
              [[u EXCEPT ![l] = RemoveAt(@, i)] EXCEPT ![h] = <<u[l][i]>> \o @],
              st)
      BY <2>8, <3>1, OpMove
    <3>4. LoopBody(heap, "move", at[k + 1], h) = list_move(heap, at[k + 1], h)
      BY DEF LoopBody
    <3> QED
      BY <2>1, <2>2, <2>3, <2>5, <2>7, <3>1, <3>2, <3>3, <3>4 DEF NextOf
  <2> QED
    BY <1>2, <2>2, <2>8 DEF u
<1>12. Rounds(m, FALSE, l, "move", h, at, ab, st, n)
  BY <1>2, <1>3, <1>9, <1>10, <1>11 DEF Rounds
<1>13. Rep(ForEachSafe(m, FALSE, l, "move", h), ab[n], st)
  BY <1>12, LoopRuns
<1> QED
  BY <1>10, <1>13 DEF Lists2

-----------------------------------------------------------------------------
(* The calls *)

\* The lists and the heads that are none, as they are read off a heap.
ListsOf(m) ==
  [h \in Lists |-> IF m.prev[m.next[h]] = h THEN Walk(m.next, h) ELSE <<>>]

StaleOf(m) == {h \in Lists : m.prev[m.next[h]] # h}

LEMMA ReadOff ==
  ASSUME NEW m, NEW ss, NEW st, Rep(m, ss, st)
  PROVE  ListsOf(m) = ss /\ StaleOf(m) = st
<1>1. ss \in [Lists -> Seq(Entries)] /\ st \subseteq Lists
  BY DEF Rep
<1>2. ASSUME NEW h \in Lists \ st
      PROVE  m.prev[m.next[h]] = h /\ Walk(m.next, h) = ss[h]
  <2>1. Ring(m, h, ss[h]) /\ ss[h] \in Seq(Entries) /\ Distinct(ss[h])
    BY DEF Rep
  <2>2. NodeAt(h, ss[h], 0) = h /\ 1 \in 1 .. Len(ss[h]) + 1 /\ 1 - 1 = 0
    BY RingOf
  <2>3. m.prev[m.next[h]] = h
    BY <2>2, Neighbours
  <2> QED
    BY <2>1, <2>3, WalksOfRing
<1>3. \A h \in st : m.prev[m.next[h]] # h /\ ss[h] = <<>>
  BY DEF Rep, StaleHead
<1>4. \A h \in Lists : ListsOf(m)[h] = ss[h]
  BY <1>1, <1>2, <1>3 DEF ListsOf
<1>5. ListsOf(m) = [h \in Lists |-> ListsOf(m)[h]] /\ ss = [h \in Lists |-> ss[h]]
  BY <1>1 DEF ListsOf
<1>6. StaleOf(m) = st
  BY <1>1, <1>2, <1>3 DEF StaleOf
<1> QED
  BY <1>4, <1>5, <1>6

\* The pointers hold the lists that the walks find.
ListInv == Rep(Heap, seqs, stale)

\* After a call whose heap has the lists ss, those are the lists.
LEMMA Effect ==
  ASSUME NEW m, NEW ss, NEW st, Rep(m, ss, st), Becomes(m)
  PROVE  ListInv' /\ seqs' = ss /\ stale' = st
<1>1. Heap' = m
  BY DEF Rep, IsHeap, Becomes, Heap
<1>2. seqs' = ListsOf(Heap') /\ stale' = StaleOf(Heap')
  BY DEF seqs, stale, ListsOf, StaleOf, IsList, Heap
<1>3. seqs' = ss /\ stale' = st
  BY <1>1, <1>2, ReadOff
<1> QED
  BY <1>1, <1>3 DEF ListInv

LEMMA InitialLists ==
  ASSUME Init
  PROVE  ListInv /\ seqs = [h \in Lists |-> <<>>] /\ stale = {}
<1> DEFINE ss == [h \in Lists |-> <<>>]
<1>1. /\ IsHeap(Heap) /\ \A n \in Nodes : Heap.next[n] = n /\ Heap.prev[n] = n
  BY DEF Init, Heap, IsHeap, Nodes
<1>2. ss \in [Lists -> Seq(Entries)] /\ \A h \in Lists : ss[h] = <<>>
  BY EmptySeq
<1>3. Distinct(<<>>) /\ Apart(<<>>, <<>>)
  BY DEF Distinct, Apart
<1>4. \A h \in Lists : Ring(Heap, h, <<>>)
  BY <1>1, RingEmpty DEF Nodes
<1> HIDE DEF ss
<1>5. Rep(Heap, ss, {})
  BY <1>1, <1>2, <1>3, <1>4 DEF Rep
<1>6. seqs = ListsOf(Heap) /\ stale = StaleOf(Heap)
  BY DEF seqs, stale, ListsOf, StaleOf, IsList, Heap
<1>7. seqs = ss /\ stale = {}
  BY <1>5, <1>6, ReadOff
<1> QED
  BY <1>5, <1>7 DEF ListInv, ss

LEMMA LinkedAt ==
  ASSUME ListInv
  PROVE  /\ seqs \in [Lists -> Seq(Entries)]
         /\ \A e \in Linked : \E g \in Lists \ stale : \E i \in 1 .. Len(seqs[g]) :
              seqs[g][i] = e
         /\ \A e \in Loose : Free(e, seqs)
<1>1. seqs \in [Lists -> Seq(Entries)]
  BY DEF ListInv, Rep
<1>2. \A g \in Lists : DOMAIN seqs[g] = 1 .. Len(seqs[g])
  BY <1>1, LenProperties
<1>3. ASSUME NEW e \in Linked
      PROVE  \E g \in Lists \ stale : \E i \in 1 .. Len(seqs[g]) : seqs[g][i] = e
  <2>1. PICK g \in Lists : e \in ToSet(seqs[g])
    BY DEF Linked
  <2>2. PICK i \in 1 .. Len(seqs[g]) : seqs[g][i] = e
    BY <1>2, <2>1 DEF ToSet
  <2>3. g \notin stale
    <3>1. Len(<<>>) = 0 /\ ~ \E j \in 1 .. 0 : TRUE
      OBVIOUS
    <3> QED
      BY <2>2, <3>1 DEF ListInv, Rep
  <2> QED
    BY <2>2, <2>3
<1>4. ASSUME NEW e \in Loose
      PROVE  Free(e, seqs)
  <2>1. \A h \in Lists : \A k \in 1 .. Len(seqs[h]) : seqs[h][k] \in Linked
    BY <1>2 DEF Linked, ToSet
  <2> QED
    BY <2>1 DEF Free, Loose
<1> QED
  BY <1>1, <1>3, <1>4

\* The operators on sequences are the same in both modules.
LEMMA SameOperators ==
  /\ \A s, i, e : Promise!InsertAt(s, i, e) = InsertAt(s, i, e)
  /\ \A s, i : Promise!RemoveAt(s, i) = RemoveAt(s, i)
  /\ \A s, old, new : Promise!ReplaceAll(s, old, new) = ReplaceAll(s, old, new)
  /\ Promise!Linked = Linked
<1>1. \A s : Promise!ToSet(s) = ToSet(s)
  BY DEF Promise!ToSet, ToSet
<1>2. Promise!Linked = Linked
  BY <1>1 DEF Promise!Linked, Linked
<1> QED
  BY <1>2 DEF Promise!InsertAt, InsertAt, Promise!RemoveAt, RemoveAt,
              Promise!ReplaceAll, ReplaceAll

USE DEF Ready

LEMMA AddCalls ==
  ASSUME ListInv, NEW e \in Entries, NEW h \in Lists
  PROVE  /\ CallAdd(e, h) => ListInv' /\ Promise!AddFirst(e, h)
         /\ CallAddTail(e, h) => ListInv' /\ Promise!AddLast(e, h)
         /\ CallAddOrder(e, h) => ListInv' /\ Promise!AddSorted(e, h)
<1> USE SameOperators DEF Promise!Insert
<1>1. e \in Loose => Free(e, seqs) /\ e \in Entries \ Promise!Linked
  BY LinkedAt DEF Loose
<1>2. Rep(Heap, seqs, stale)
  BY DEF ListInv
<1>3. ASSUME CallAdd(e, h)
      PROVE  ListInv' /\ Promise!AddFirst(e, h)
  <2>1. e \in Loose /\ h \in Lists \ stale /\ Becomes(list_add(Heap, e, h))
    BY <1>3 DEF CallAdd
  <2>2. NodeAt(h, seqs[h], 0) = h /\ 1 \in 1 .. Len(seqs[h]) + 1 /\ 1 - 1 = 0
    BY <1>2, RingOf
  <2>3. Rep(list_add(Heap, e, h), [seqs EXCEPT ![h] = InsertAt(@, 1, e)], stale)
    BY <1>1, <1>2, <2>1, <2>2, OpAdd
  <2>4. ListInv' /\ seqs' = [seqs EXCEPT ![h] = InsertAt(@, 1, e)] /\ stale' = stale
    BY <2>1, <2>3, Effect
  <2> QED
    BY <1>1, <2>1, <2>4 DEF Promise!AddFirst
<1>4. ASSUME CallAddTail(e, h)
      PROVE  ListInv' /\ Promise!AddLast(e, h)
  <2>1. e \in Loose /\ h \in Lists \ stale /\ Becomes(list_add_tail(Heap, e, h))
    BY <1>4 DEF CallAddTail
  <2>2. Rep(list_add_tail(Heap, e, h),
            [seqs EXCEPT ![h] = InsertAt(@, Len(seqs[h]) + 1, e)], stale)
    BY <1>1, <1>2, <2>1, OpAddTail
  <2>3. /\ ListInv' /\ stale' = stale
        /\ seqs' = [seqs EXCEPT ![h] = InsertAt(@, Len(seqs[h]) + 1, e)]
    BY <2>1, <2>2, Effect
  <2> QED
    BY <1>1, <2>1, <2>3 DEF Promise!AddLast
<1>5. ASSUME CallAddOrder(e, h)
      PROVE  ListInv' /\ Promise!AddSorted(e, h)
  <2>1. /\ e \in Loose /\ h \in Lists \ stale
        /\ Becomes(list_add(Heap, e, OrderPosition(Heap, e, h)))
    BY <1>5 DEF CallAddOrder, list_add_order
  <2>2. PICK i \in 1 .. Len(seqs[h]) + 1 :
          /\ \A j \in i .. Len(seqs[h]) : Key[seqs[h][j]] > Key[e]
          /\ i > 1 => Key[seqs[h][i - 1]] <= Key[e]
          /\ OrderPosition(Heap, e, h) = NodeAt(h, seqs[h], i - 1)
    BY <1>2, <2>1, OrderOf
  <2>3. Rep(list_add(Heap, e, NodeAt(h, seqs[h], i - 1)),
            [seqs EXCEPT ![h] = InsertAt(@, i, e)], stale)
    BY <1>1, <1>2, <2>1, OpAdd
  <2>4. ListInv' /\ seqs' = [seqs EXCEPT ![h] = InsertAt(@, i, e)] /\ stale' = stale
    BY <2>1, <2>2, <2>3, Effect
  <2> QED
    BY <1>1, <2>1, <2>2, <2>4 DEF Promise!AddSorted
<1> QED
  BY <1>3, <1>4, <1>5

LEMMA DeleteCalls ==
  ASSUME ListInv, NEW e \in Entries
  PROVE  CallDel(e) \/ CallDelInit(e) => ListInv' /\ Promise!Delete(e)
<1> SUFFICES ASSUME CallDel(e) \/ CallDelInit(e)
             PROVE  ListInv' /\ Promise!Delete(e)
  OBVIOUS
<1>1. PICK g \in Lists \ stale : \E i \in 1 .. Len(seqs[g]) : seqs[g][i] = e
  BY LinkedAt DEF CallDel, CallDelInit
<1>2. PICK i \in 1 .. Len(seqs[g]) : seqs[g][i] = e
  BY <1>1
<1>3. Becomes(list_del(Heap, e)) \/ Becomes(list_del_init(Heap, e))
  BY DEF CallDel, CallDelInit
<1>4. /\ Rep(list_del(Heap, e), [seqs EXCEPT ![g] = RemoveAt(@, i)], stale)
      /\ Rep(list_del_init(Heap, e), [seqs EXCEPT ![g] = RemoveAt(@, i)], stale)
  BY <1>2, OpDel DEF ListInv
<1>5. ListInv' /\ seqs' = [seqs EXCEPT ![g] = RemoveAt(@, i)] /\ stale' = stale
  BY <1>3, <1>4, Effect
<1> QED
  BY <1>2, <1>5, SameOperators DEF Promise!Delete, Promise!Without

LEMMA MoveCalls ==
  ASSUME ListInv, NEW e \in Entries, NEW h \in Lists
  PROVE  /\ CallMove(e, h) => ListInv' /\ Promise!MoveFirst(e, h)
         /\ CallMoveTail(e, h) => ListInv' /\ Promise!MoveLast(e, h)
<1> SUFFICES ASSUME e \in Linked, h \in Lists \ stale
             PROVE  /\ CallMove(e, h) => ListInv' /\ Promise!MoveFirst(e, h)
                    /\ CallMoveTail(e, h) => ListInv' /\ Promise!MoveLast(e, h)
  BY DEF CallMove, CallMoveTail
<1>1. PICK g \in Lists \ stale : \E i \in 1 .. Len(seqs[g]) : seqs[g][i] = e
  BY LinkedAt
<1>2. PICK i \in 1 .. Len(seqs[g]) : seqs[g][i] = e
  BY <1>1
<1> DEFINE tt == [seqs EXCEPT ![g] = RemoveAt(@, i)]
<1>3. /\ Rep(list_move(Heap, e, h), [tt EXCEPT ![h] = <<e>> \o @], stale)
      /\ Rep(list_move_tail(Heap, e, h), [tt EXCEPT ![h] = Append(@, e)], stale)
  BY <1>2, OpMove DEF ListInv
<1>4. tt = Promise!Without(g, i)
  BY SameOperators DEF Promise!Without
<1> HIDE DEF tt
<1>5. ASSUME CallMove(e, h)
      PROVE  ListInv' /\ Promise!MoveFirst(e, h)
  <2>1. ListInv' /\ seqs' = [tt EXCEPT ![h] = <<e>> \o @] /\ stale' = stale
    BY <1>3, <1>5, Effect DEF CallMove
  <2> QED
    BY <1>2, <1>4, <2>1 DEF Promise!MoveFirst
<1>6. ASSUME CallMoveTail(e, h)
      PROVE  ListInv' /\ Promise!MoveLast(e, h)
  <2>1. ListInv' /\ seqs' = [tt EXCEPT ![h] = Append(@, e)] /\ stale' = stale
    BY <1>3, <1>6, Effect DEF CallMoveTail
  <2> QED
    BY <1>2, <1>4, <2>1 DEF Promise!MoveLast
<1> QED
  BY <1>5, <1>6

\* Every other entry, on this list and on the others, differs from the i-th.
LEMMA ReplacedOnce ==
  ASSUME NEW m, NEW ss, NEW st, Rep(m, ss, st), NEW g \in Lists,
         NEW i \in 1 .. Len(ss[g]), NEW new
  PROVE  [ss EXCEPT ![g] = [@ EXCEPT ![i] = new]]
           = [h \in Lists |-> ReplaceAll(ss[h], ss[g][i], new)]
<1> DEFINE old == ss[g][i]
           tt == [ss EXCEPT ![g] = [@ EXCEPT ![i] = new]]
<1>1. ss \in [Lists -> Seq(Entries)] /\ Distinct(ss[g])
  BY DEF Rep
<1>2. \A h \in Lists : ss[h] = [k \in 1 .. Len(ss[h]) |-> ss[h][k]]
  BY <1>1, LenProperties
<1>3. \A h \in Lists :
        ReplaceAll(ss[h], old, new)
          = [k \in 1 .. Len(ss[h]) |-> IF ss[h][k] = old THEN new ELSE ss[h][k]]
  BY DEF ReplaceAll
<1>4. ASSUME NEW h \in Lists \ {g}
      PROVE  ReplaceAll(ss[h], old, new) = ss[h]
  <2>1. Apart(ss[h], ss[g])
    BY DEF Rep
  <2>2. \A k \in 1 .. Len(ss[h]) : ss[h][k] # old
    BY <2>1 DEF Apart
  <2> HIDE DEF old
  <2> QED
    BY <1>2, <1>3, <2>2
<1>5. ReplaceAll(ss[g], old, new) = [ss[g] EXCEPT ![i] = new]
  <2>1. \A k \in 1 .. Len(ss[g]) : ss[g][k] = old <=> k = i
    BY <1>1 DEF Distinct
  <2>2. [ss[g] EXCEPT ![i] = new]
          = [k \in 1 .. Len(ss[g]) |-> IF k = i THEN new ELSE ss[g][k]]
    BY <1>2
  <2>3. ReplaceAll(ss[g], old, new)
          = [k \in 1 .. Len(ss[g]) |-> IF k = i THEN new ELSE ss[g][k]]
    <3> HIDE DEF old
    <3> QED
      BY <1>3, <2>1
  <2> QED
    BY <2>2, <2>3
<1> HIDE DEF old
<1>6. \A h \in Lists : tt[h] = ReplaceAll(ss[h], old, new)
  BY <1>1, <1>4, <1>5
<1>7. tt = [h \in Lists |-> tt[h]]
  BY <1>1
<1> HIDE DEF tt
<1>8. tt = [h \in Lists |-> ReplaceAll(ss[h], old, new)]
  BY <1>6, <1>7
<1> QED
  BY <1>8 DEF tt, old

LEMMA ReplaceCalls ==
  ASSUME ListInv, NEW old \in Entries, NEW new \in Entries
  PROVE  CallReplace(old, new) \/ CallReplaceInit(old, new)
           => ListInv' /\ Promise!Replace(old, new)
<1> SUFFICES ASSUME CallReplace(old, new) \/ CallReplaceInit(old, new)
             PROVE  ListInv' /\ Promise!Replace(old, new)
  OBVIOUS
<1>1. old \in Linked /\ new \in Loose /\ Free(new, seqs)
  BY LinkedAt DEF CallReplace, CallReplaceInit
<1>2. PICK g \in Lists \ stale : \E i \in 1 .. Len(seqs[g]) : seqs[g][i] = old
  BY <1>1, LinkedAt
<1>3. PICK i \in 1 .. Len(seqs[g]) : seqs[g][i] = old
  BY <1>2
<1> DEFINE tt == [seqs EXCEPT ![g] = [@ EXCEPT ![i] = new]]
<1>4. /\ Rep(list_replace(Heap, old, new), tt, stale)
      /\ Rep(list_replace_init(Heap, old, new), tt, stale)
  BY <1>1, <1>3, OpReplace DEF ListInv
<1>5. tt = [h \in Lists |-> ReplaceAll(seqs[h], old, new)]
  BY <1>3, ReplacedOnce DEF ListInv
<1> HIDE DEF tt
<1>6. /\ Becomes(list_replace(Heap, old, new))
         \/ Becomes(list_replace_init(Heap, old, new))
  BY DEF CallReplace, CallReplaceInit
<1>7. ListInv' /\ seqs' = tt /\ stale' = stale
  BY <1>4, <1>6, Effect
<1> QED
  BY <1>1, <1>5, <1>7, SameOperators DEF Promise!Replace, Loose

LEMMA JoinCalls ==
  ASSUME ListInv, NEW l \in Lists, NEW h \in Lists
  PROVE  /\ CallSplice(l, h) => ListInv' /\ Promise!JoinFirst(l, h, FALSE)
         /\ CallSpliceInit(l, h) => ListInv' /\ Promise!JoinFirst(l, h, TRUE)
         /\ CallAppend(l, h) => ListInv' /\ Promise!JoinLast(l, h, FALSE)
         /\ CallAppendInit(l, h) => ListInv' /\ Promise!JoinLast(l, h, TRUE)
         /\ CallMoveEach(l, h) => ListInv' /\ Promise!JoinLast(l, h, TRUE)
         /\ CallMoveEachReverse(l, h) => ListInv' /\ Promise!JoinFirst(l, h, TRUE)
<1> USE DEF Promise!Join
<1> SUFFICES ASSUME TwoLists(l, h)
             PROVE  /\ CallSplice(l, h) => ListInv' /\ Promise!JoinFirst(l, h, FALSE)
                    /\ CallSpliceInit(l, h) =>
                         ListInv' /\ Promise!JoinFirst(l, h, TRUE)
                    /\ CallAppend(l, h) => ListInv' /\ Promise!JoinLast(l, h, FALSE)
                    /\ CallAppendInit(l, h) =>
                         ListInv' /\ Promise!JoinLast(l, h, TRUE)
                    /\ CallMoveEach(l, h) => ListInv' /\ Promise!JoinLast(l, h, TRUE)
                    /\ CallMoveEachReverse(l, h) =>
                         ListInv' /\ Promise!JoinFirst(l, h, TRUE)
  BY DEF CallSplice, CallSpliceInit, CallAppend, CallAppendInit, CallMoveEach,
         CallMoveEachReverse
<1>1. /\ l \in Lists \ stale /\ h \in Lists \ stale /\ l # h
      /\ Rep(Heap, seqs, stale) /\ {l, h} \cap stale = {}
  BY DEF TwoLists, ListInv
<1> DEFINE first == [seqs EXCEPT ![l] = <<>>, ![h] = seqs[l] \o seqs[h]]
           last == [seqs EXCEPT ![l] = <<>>, ![h] = seqs[h] \o seqs[l]]
           tu == IF seqs[l] = <<>> THEN stale ELSE stale \cup {l}
<1>2. /\ Rep(list_splice(Heap, l, h), first, tu)
      /\ Rep(list_splice_init(Heap, l, h), first, stale)
  BY <1>1, OpSplice
<1>3. /\ Rep(list_append(Heap, l, h), last, tu)
      /\ Rep(list_append_init(Heap, l, h), last, stale)
  BY <1>1, OpAppend
<1>4. Rep(ForEachSafe(Heap, TRUE, l, "move_tail", h), last, stale)
  BY <1>1, OpMoveEach
<1>5. Rep(ForEachSafe(Heap, FALSE, l, "move", h), first, stale)
  BY <1>1, OpMoveEachReverse
<1> HIDE DEF first, last, tu
<1>6. /\ CallSplice(l, h) => ListInv' /\ seqs' = first /\ stale' = tu
      /\ CallSpliceInit(l, h) => ListInv' /\ seqs' = first /\ stale' = stale
  BY <1>2, Effect DEF CallSplice, CallSpliceInit
<1>7. /\ CallAppend(l, h) => ListInv' /\ seqs' = last /\ stale' = tu
      /\ CallAppendInit(l, h) => ListInv' /\ seqs' = last /\ stale' = stale
  BY <1>3, Effect DEF CallAppend, CallAppendInit
<1>8. /\ CallMoveEach(l, h) => ListInv' /\ seqs' = last /\ stale' = stale
      /\ CallMoveEachReverse(l, h) => ListInv' /\ seqs' = first /\ stale' = stale
  BY <1>4, <1>5, Effect DEF CallMoveEach, CallMoveEachReverse
<1>9. /\ seqs' = first /\ stale' = tu => Promise!JoinFirst(l, h, FALSE)
      /\ seqs' = first /\ stale' = stale => Promise!JoinFirst(l, h, TRUE)
  BY <1>1 DEF Promise!JoinFirst, first, tu
<1>10. /\ seqs' = last /\ stale' = tu => Promise!JoinLast(l, h, FALSE)
       /\ seqs' = last /\ stale' = stale => Promise!JoinLast(l, h, TRUE)
  BY <1>1 DEF Promise!JoinLast, last, tu
<1> HIDE DEF Promise!Join
<1> QED
  BY <1>6, <1>7, <1>8, <1>9, <1>10

LEMMA TakeOverCalls ==
  ASSUME ListInv, NEW old \in Lists, NEW new \in Lists
  PROVE  /\ CallReplaceHead(old, new) =>
              ListInv' /\ Promise!TakeOver(old, new, FALSE)
         /\ CallReplaceHeadInit(old, new) =>
              ListInv' /\ Promise!TakeOver(old, new, TRUE)
<1> SUFFICES ASSUME TwoHeads(old, new)
             PROVE  /\ CallReplaceHead(old, new) =>
                         ListInv' /\ Promise!TakeOver(old, new, FALSE)
                    /\ CallReplaceHeadInit(old, new) =>
                         ListInv' /\ Promise!TakeOver(old, new, TRUE)
  BY DEF CallReplaceHead, CallReplaceHeadInit
<1>1. /\ old \in Lists \ stale /\ new \in Lists \ {old} /\ seqs[new] = <<>>
      /\ Rep(Heap, seqs, stale)
  BY DEF TwoHeads, ListInv
<1> DEFINE tt == [seqs EXCEPT ![old] = <<>>, ![new] = seqs[old]]
<1>2. /\ Rep(list_replace(Heap, old, new), tt, (stale \ {new}) \cup {old})
      /\ Rep(list_replace_init(Heap, old, new), tt, stale \ {new})
  BY <1>1, OpTakeOver
<1> HIDE DEF tt
<1>3. CallReplaceHead(old, new) =>
        ListInv' /\ seqs' = tt /\ stale' = (stale \ {new}) \cup {old}
  BY <1>2, Effect DEF CallReplaceHead
<1>4. CallReplaceHeadInit(old, new) =>
        ListInv' /\ seqs' = tt /\ stale' = (stale \ {new}) \cup {}
  BY <1>2, Effect DEF CallReplaceHeadInit
<1> QED
  BY <1>1, <1>3, <1>4 DEF tt, Promise!TakeOver

LEMMA OneHeadCalls ==
  ASSUME ListInv, NEW h \in Lists
  PROVE  /\ CallRotateLeft(h) => /\ ListInv'
                                 /\ Promise!Rotate(h) \/ UNCHANGED vars
         /\ CallInit(h) => ListInv' /\ Promise!Initialise(h)
         /\ CallDelEach(h) => ListInv' /\ Promise!DeleteEach(h)
<1>1. Rep(Heap, seqs, stale)
  BY DEF ListInv
<1>2. ASSUME CallRotateLeft(h)
      PROVE  ListInv' /\ (Promise!Rotate(h) \/ UNCHANGED vars)
  <2>1. h \in Lists \ stale /\ Becomes(list_rotate_left(Heap, h))
    BY <1>2 DEF CallRotateLeft
  <2>2. CASE seqs[h] = <<>>
    <3>1. Becomes(Heap)
      BY <1>1, <2>1, <2>2, OpRotate
    <3>2. UNCHANGED vars
      BY <3>1 DEF Becomes, Heap, vars
    <3> QED
      BY <1>1, <3>1, <3>2, Effect
  <2>3. CASE seqs[h] # <<>>
    <3>1. Rep(list_rotate_left(Heap, h),
              [seqs EXCEPT ![h] = Append(Tail(@), Head(@))], stale)
      BY <1>1, <2>1, <2>3, OpRotate
    <3>2. /\ ListInv' /\ stale' = stale
          /\ seqs' = [seqs EXCEPT ![h] = Append(Tail(@), Head(@))]
      BY <2>1, <3>1, Effect
    <3> QED
      BY <2>1, <2>3, <3>2 DEF Promise!Rotate
  <2> QED
    BY <2>2, <2>3
<1>3. ASSUME CallInit(h)
      PROVE  ListInv' /\ Promise!Initialise(h)
  <2>1. seqs[h] = <<>> /\ Becomes(INIT_LIST_HEAD(Heap, h))
    BY <1>3 DEF CallInit
  <2>2. ListInv' /\ seqs' = seqs /\ stale' = stale \ {h}
    BY <1>1, <2>1, RepInitHead, Effect
  <2> QED
    BY <2>1, <2>2 DEF Promise!Initialise
<1>4. ASSUME CallDelEach(h)
      PROVE  ListInv' /\ Promise!DeleteEach(h)
  <2>1. h \in Lists \ stale /\ Becomes(ForEachSafe(Heap, TRUE, h, "del", h))
    BY <1>4 DEF CallDelEach
  <2>2. ListInv' /\ seqs' = [seqs EXCEPT ![h] = <<>>] /\ stale' = stale
    BY <1>1, <2>1, OpDelEach, Effect
  <2> QED
    BY <2>1, <2>2 DEF Promise!DeleteEach
<1> QED
  BY <1>2, <1>3, <1>4

\* No call breaks the rings: after every list_add, list_del, list_move,
\* list_splice, list_append_init and list_replace the pointers still represent
\* one sequence of entries for each head (list.h:25-228).
THEOREM ListInvInvariance == Spec => []ListInv
<1>1. Init => ListInv
  BY InitialLists
<1>2. ASSUME ListInv, [Next]_vars
      PROVE  ListInv'
  <2>1. CASE Next
    <3>1. ASSUME NEW e \in Entries, NEW h \in Lists,
                 \/ CallAdd(e, h) \/ CallAddTail(e, h) \/ CallAddOrder(e, h)
                 \/ CallMove(e, h) \/ CallMoveTail(e, h)
          PROVE  ListInv'
      BY <1>2, <3>1, AddCalls, MoveCalls
    <3>2. ASSUME NEW e \in Entries, CallDel(e) \/ CallDelInit(e)
          PROVE  ListInv'
      BY <1>2, <3>2, DeleteCalls
    <3>3. ASSUME NEW l \in Lists, NEW h \in Lists,
                 \/ CallSplice(l, h) \/ CallSpliceInit(l, h)
                 \/ CallAppend(l, h) \/ CallAppendInit(l, h)
                 \/ CallReplaceHead(l, h) \/ CallReplaceHeadInit(l, h)
                 \/ CallMoveEach(l, h) \/ CallMoveEachReverse(l, h)
          PROVE  ListInv'
      BY <1>2, <3>3, JoinCalls, TakeOverCalls
    <3>4. ASSUME NEW old \in Entries, NEW new \in Entries,
                 CallReplace(old, new) \/ CallReplaceInit(old, new)
          PROVE  ListInv'
      BY <1>2, <3>4, ReplaceCalls
    <3>5. ASSUME NEW h \in Lists, CallRotateLeft(h) \/ CallInit(h) \/ CallDelEach(h)
          PROVE  ListInv'
      BY <1>2, <3>5, OneHeadCalls
    <3> QED
      BY <2>1, <3>1, <3>2, <3>3, <3>4, <3>5 DEF Next
  <2>2. CASE UNCHANGED vars
    <3>1. Becomes(Heap)
      BY <2>2 DEF Becomes, Heap, vars
    <3> QED
      BY <1>2, <3>1, Effect DEF ListInv
  <2> QED
    BY <1>2, <2>1, <2>2
<1> QED
  BY <1>1, <1>2, PTL DEF Spec

-----------------------------------------------------------------------------
(* The theorems *)

LEMMA RingsOfLists ==
  ASSUME ListInv
  PROVE  Rings
<1>1. Rep(Heap, seqs, stale) /\ Heap.next = next /\ Heap.prev = prev
  BY DEF ListInv, Heap
<1> SUFFICES ASSUME NEW h \in Lists \ stale
             PROVE  /\ Walk(prev, h) = Reverse(Walk(next, h))
                    /\ next[prev[h]] = h
                    /\ \A g \in Lists \ (stale \cup {h}) :
                         ToSet(seqs[g]) \cap ToSet(seqs[h]) = {}
  BY DEF Rings
<1>2. /\ Ring(Heap, h, seqs[h]) /\ seqs[h] \in Seq(Entries) /\ Distinct(seqs[h])
      /\ \A g \in Lists : DOMAIN seqs[g] = 1 .. Len(seqs[g])
      /\ \A g \in Lists \ {h} : Apart(seqs[g], seqs[h])
  BY <1>1, LenProperties DEF Rep
<1>3. Walk(prev, h) = Reverse(Walk(next, h))
  <2>1. Walk(Heap.next, h) = seqs[h] /\ Walk(Heap.prev, h) = Reverse(seqs[h])
    BY <1>2, WalksOfRing
  <2> QED
    BY <1>1, <2>1
<1>4. next[prev[h]] = h
  <2>1. /\ Len(seqs[h]) \in 0 .. Len(seqs[h])
        /\ NodeAt(h, seqs[h], Len(seqs[h]) + 1) = h
    BY <1>1, RingOf
  <2> QED
    BY <1>1, <1>2, <2>1 DEF Ring
<1>5. \A g \in Lists \ (stale \cup {h}) : ToSet(seqs[g]) \cap ToSet(seqs[h]) = {}
  BY <1>2 DEF ToSet, Apart
<1> QED
  BY <1>3, <1>4, <1>5

LEMMA QueriesOfLists ==
  ASSUME ListInv
  PROVE  QueriesAgree
<1> SUFFICES ASSUME NEW h \in Lists \ stale
             PROVE  /\ list_empty(Heap, h) <=> seqs[h] = <<>>
                    /\ list_is_singular(Heap, h) <=> Len(seqs[h]) = 1
                    /\ \A e \in ToSet(seqs[h]) :
                         list_is_last(Heap, e, h) <=> e = Last(seqs[h])
  BY DEF QueriesAgree
<1> DEFINE s == seqs[h]
           n == Len(s)
<1>1. Rep(Heap, seqs, stale)
  BY DEF ListInv
<1>2. /\ s \in Seq(Entries) /\ Distinct(s) /\ n \in Nat
      /\ DOMAIN s = 1 .. n /\ h \notin Entries
      /\ \A k \in 1 .. n : s[k] \in Entries /\ NodeAt(h, s, k) = s[k]
      /\ NodeAt(h, s, 0) = h /\ NodeAt(h, s, n + 1) = h
  BY <1>1, RingOf, LenProperties, NodesAssumption DEF NodesAssumption
<1>3. list_empty(Heap, h) <=> s = <<>>
  BY <1>1, EmptyOf
<1>4. (s = <<>> <=> n = 0) /\ (n # 0 => n \in 1 .. n /\ 1 \in 1 .. n)
  <2>1. (s = <<>> => n = 0) /\ (s # <<>> => n > 0)
    BY <1>1, EmptyOf
  <2> HIDE DEF s
  <2> QED
    BY <1>2, <2>1
<1>5. Heap.next[h] = NodeAt(h, s, 1) /\ Heap.prev[h] = NodeAt(h, s, n)
  <2>1. /\ 0 \in 0 .. n /\ n \in 0 .. n /\ 0 + 1 = 1
        /\ Heap.next[NodeAt(h, s, 0)] = NodeAt(h, s, 0 + 1)
        /\ Heap.prev[NodeAt(h, s, n + 1)] = NodeAt(h, s, n)
    BY <1>1, <1>2, RingOf
  <2> QED
    BY <1>2, <2>1
<1>6. \A i \in 1 .. n : Heap.next[s[i]] = NodeAt(h, s, i + 1)
  BY <1>1, Neighbours
<1> HIDE DEF s
<1>7. list_is_singular(Heap, h) <=> n = 1
  <2>1. CASE n = 0
    BY <1>2, <1>3, <1>4, <2>1 DEF list_is_singular
  <2>2. CASE n # 0
    <3>1. ~ list_empty(Heap, h) /\ n \in 1 .. n /\ 1 \in 1 .. n
      BY <1>3, <1>4, <2>2
    <3>2. Heap.next[h] = s[1] /\ Heap.prev[h] = s[n]
      BY <1>2, <1>5, <3>1
    <3>3. s[1] = s[n] <=> n = 1
      BY <1>2, <3>1 DEF Distinct
    <3> HIDE DEF n
    <3> QED
      BY <3>1, <3>2, <3>3 DEF list_is_singular
  <2> QED
    BY <2>1, <2>2
<1>8. ASSUME NEW i \in 1 .. n
      PROVE  list_is_last(Heap, s[i], h) <=> s[i] = s[n]
  <2>1. n \in 1 .. n /\ (i # n => i + 1 \in 1 .. n)
    <3>1. n \in Nat
      BY <1>2
    <3> HIDE DEF n
    <3> QED
      BY <3>1
  <2>2. ASSUME i # n
        PROVE  Heap.next[s[i]] # h /\ s[i] # s[n]
    <3>1. i + 1 \in 1 .. n
      BY <2>1, <2>2
    <3>2. Heap.next[s[i]] = s[i + 1] /\ s[i + 1] \in Entries
      BY <1>2, <1>6, <3>1
    <3>3. s[i] = s[n] => i = n
      BY <1>2, <2>1 DEF Distinct
    <3> QED
      BY <1>2, <2>2, <3>2, <3>3
  <2>3. i = n => Heap.next[s[i]] = h
    BY <1>2, <1>6
  <2> HIDE DEF n
  <2> QED
    BY <2>2, <2>3 DEF list_is_last
<1>9. \A e \in ToSet(s) : list_is_last(Heap, e, h) <=> e = Last(s)
  BY <1>2, <1>8 DEF ToSet, Last
<1> QED
  BY <1>3, <1>7, <1>9 DEF s

\* Whatever calls are made, a list that is walked backwards is the list walked
\* forwards, reversed, and no entry is on two lists: none of the functions of
\* list.h leaves a pointer behind, for any number of heads and entries.
THEOREM RingsHold == Spec => []Rings
BY ListInvInvariance, RingsOfLists, PTL

\* list_empty, list_is_singular and list_is_last always say what the whole list
\* says.
THEOREM QueriesHold == Spec => []QueriesAgree
BY ListInvInvariance, QueriesOfLists, PTL

\* Every call of a function or of a deletion-safe loop of list.h has the effect
\* on the sequences that its name promises: the pointers implement
\* OrderedLists.
THEOREM ListsRefine == Spec => ImplementsOrderedLists
<1>1. Init => Promise!Init
  BY InitialLists DEF Promise!Init
<1>2. ASSUME ListInv
      PROVE  EntryCalls /\ HeadCalls
  <2>1. EntryCalls
    BY <1>2, AddCalls, DeleteCalls, MoveCalls, ReplaceCalls DEF EntryCalls
  <2>2. HeadCalls
    BY <1>2, JoinCalls, TakeOverCalls, OneHeadCalls DEF HeadCalls
  <2> QED
    BY <2>1, <2>2
<1> QED
  BY <1>1, <1>2, ListInvInvariance, PTL DEF Spec, ImplementsOrderedLists
=============================================================================

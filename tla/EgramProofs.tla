----------------------------- MODULE EgramProofs -----------------------------
(***************************************************************************)
(* The XML parser of the embedded grammar.  First: whatever the grammar,    *)
(* the file and the handlers called, the nodes that the walker has made    *)
(* hang together as one tree (XmlTree).  Then: the handlers come in such   *)
(* an order that none follows a null pointer, if the names of the file fit *)
(* the strings of a tag (NullIsNotFollowed).                               *)
(***************************************************************************)
EXTENDS Egram, SequenceTheorems, WellFoundedInduction, TLAPS

\* A sequence, of whatever.
IsSeq(s) == \E S : s \in Seq(S)

\* A node has its fields, and a walker a sequence of nodes.
IsNode(x) ==
    x = [name |-> x.name, attrs |-> x.attrs, data |-> x.data,
         parent |-> x.parent, first |-> x.first, last |-> x.last, next |-> x.next]
IsWalker(w) ==
    /\ w = [nodes |-> w.nodes, root |-> w.root, cur |-> w.cur, fault |-> w.fault]
    /\ IsSeq(w.nodes)
    /\ \A n \in 1..Len(w.nodes) : IsNode(w.nodes[n])

LEMMA EmptyLinks == IsWalker(EmptyWalker) /\ LinkedAsATree(EmptyWalker)
<1> DEFINE w == EmptyWalker
<1>1. w.nodes \in Seq({}) /\ Len(w.nodes) = 0
  BY DEF EmptyWalker
<1>2. IsWalker(w)
  BY <1>1 DEF EmptyWalker, IsWalker, IsSeq
<1>3. Rooted(w)
  BY <1>1 DEF EmptyWalker, Rooted, NoNode
<1> QED BY <1>1, <1>2, <1>3 DEF LinkedAsATree

\* Appending to a sequence.
LEMMA AppendFacts ==
    ASSUME NEW s, IsSeq(s), NEW x
    PROVE  /\ IsSeq(Append(s, x))
           /\ Len(s) \in Nat
           /\ Len(Append(s, x)) = Len(s) + 1
           /\ \A k \in 1..Len(s) : Append(s, x)[k] = s[k]
           /\ Append(s, x)[Len(s) + 1] = x
<1>1. PICK S : s \in Seq(S)
  BY DEF IsSeq
<1>2. s \in Seq(S \cup {x}) /\ x \in S \cup {x}
  BY <1>1
<1> QED BY <1>2 DEF IsSeq

LEMMA EmptyLength ==
    ASSUME NEW s, IsSeq(s)
    PROVE  s = <<>> <=> Len(s) = 0
<1>1. PICK S : s \in Seq(S)
  BY DEF IsSeq
<1> QED BY <1>1

\* Replacing an element of a sequence.
Put(s, p, x) == [s EXCEPT ![p] = x]

LEMMA PutFacts ==
    ASSUME NEW s, IsSeq(s), NEW p \in 1..Len(s), NEW x
    PROVE  /\ IsSeq(Put(s, p, x))
           /\ Len(Put(s, p, x)) = Len(s)
           /\ \A k \in 1..Len(s) : Put(s, p, x)[k] = IF k = p THEN x ELSE s[k]
<1>1. PICK S : s \in Seq(S)
  BY DEF IsSeq
<1>2. s \in Seq(S \cup {x}) /\ x \in S \cup {x}
  BY <1>1
<1>3. Put(s, p, x) \in Seq(S \cup {x})
  BY <1>2 DEF Put
<1> QED BY <1>2, <1>3 DEF IsSeq, Put

\* What node_add_child changes: links only, of the parent, the child before and
\* the new child.
LEMMA AddChildFacts ==
    ASSUME NEW s, IsSeq(s), NEW p \in 1..Len(s), NEW c \in 1..Len(s), p # c,
           \A k \in 1..Len(s) : IsNode(s[k]),
           s[p].first # NoNode => s[p].last \in 1..Len(s)
    PROVE  LET t == node_add_child(s, p, c)
           IN  /\ IsSeq(t)
               /\ Len(t) = Len(s)
               /\ \A k \in 1..Len(s) :
                     /\ IsNode(t[k])
                     /\ t[k].parent = IF k = c THEN p ELSE s[k].parent
                     /\ t[k].last = IF k = p THEN c ELSE s[k].last
                     /\ t[k].first = IF k = p /\ s[p].first = NoNode THEN c ELSE s[k].first
                     /\ t[k].next = IF k = s[p].last /\ s[p].first # NoNode THEN c ELSE s[k].next
<1> DEFINE t == node_add_child(s, p, c)
           l == s[p].last
           linked == IF s[p].first = NoNode
                     THEN [s EXCEPT ![p].first = c, ![p].last = c]
                     ELSE [s EXCEPT ![l].next = c, ![p].last = c]
<1>1. /\ IsSeq(linked)
      /\ Len(linked) = Len(s)
      /\ \A k \in 1..Len(s) :
            /\ IsNode(linked[k])
            /\ linked[k].parent = s[k].parent
            /\ linked[k].last = IF k = p THEN c ELSE s[k].last
            /\ linked[k].first = IF k = p /\ s[p].first = NoNode THEN c ELSE s[k].first
            /\ linked[k].next = IF k = l /\ s[p].first # NoNode THEN c ELSE s[k].next
  <2>1. CASE s[p].first = NoNode
    <3> DEFINE r == s[p]
               v == [r EXCEPT !.first = c]
               x == [v EXCEPT !.last = c]
    <3>1. IsNode(r)
      OBVIOUS
    <3>2. linked = Put(s, p, x)
      BY <2>1 DEF Put
    <3> HIDE DEF r
    <3>3. IsNode(v) /\ v.first = c /\ v.parent = r.parent /\ v.next = r.next
      BY <3>1 DEF IsNode
    <3> HIDE DEF v
    <3>4. IsNode(x) /\ x.first = v.first /\ x.last = c /\ x.parent = v.parent /\ x.next = v.next
      BY <3>3 DEF IsNode
    <3> HIDE DEF x, linked
    <3>5. /\ IsSeq(linked)
          /\ Len(linked) = Len(s)
          /\ \A k \in 1..Len(s) : linked[k] = IF k = p THEN x ELSE s[k]
      BY <3>2, PutFacts
    <3> QED BY <2>1, <3>3, <3>4, <3>5 DEF r
  <2>2. CASE s[p].first # NoNode
    <3> DEFINE r == s[l]
               x == [r EXCEPT !.next = c]
               u == Put(s, l, x)
               q == u[p]
               y == [q EXCEPT !.last = c]
    <3>1. l \in 1..Len(s) /\ IsNode(r)
      BY <2>2
    <3>2. linked = Put(u, p, y)
      BY <2>2 DEF Put
    <3> HIDE DEF r, l, linked
    <3>3. IsNode(x) /\ x.next = c /\ x.parent = r.parent /\ x.first = r.first /\ x.last = r.last
      BY <3>1 DEF IsNode
    <3> HIDE DEF x
    <3>4. /\ IsSeq(u)
          /\ Len(u) = Len(s)
          /\ \A k \in 1..Len(s) : u[k] = IF k = l THEN x ELSE s[k]
      BY <3>1, PutFacts
    <3>5. IsNode(q)
      BY <3>1, <3>3, <3>4
    <3> HIDE DEF u, q
    <3>6. IsNode(y) /\ y.last = c /\ y.parent = q.parent /\ y.first = q.first /\ y.next = q.next
      BY <3>5 DEF IsNode
    <3> HIDE DEF y
    <3>7. /\ IsSeq(linked)
          /\ Len(linked) = Len(u)
          /\ \A k \in 1..Len(u) : linked[k] = IF k = p THEN y ELSE u[k]
      BY <3>2, <3>4, PutFacts
    <3>8. \A k \in 1..Len(s) :
             /\ IsNode(u[k]) /\ u[k].parent = s[k].parent /\ u[k].first = s[k].first
             /\ u[k].last = s[k].last /\ u[k].next = IF k = l THEN c ELSE s[k].next
      BY <3>1, <3>3, <3>4 DEF r
    <3>9. \A k \in 1..Len(s) :
             /\ IsNode(linked[k]) /\ linked[k].parent = u[k].parent
             /\ linked[k].first = u[k].first /\ linked[k].next = u[k].next
             /\ linked[k].last = IF k = p THEN c ELSE u[k].last
      BY <3>4, <3>6, <3>7, <3>8 DEF q
    <3> QED BY <2>2, <3>4, <3>7, <3>8, <3>9
  <2> QED BY <2>1, <2>2
<1> DEFINE r == linked[c]
           z == [r EXCEPT !.parent = p]
<1>2. t = Put(linked, c, z)
  BY DEF node_add_child, Put
<1> HIDE DEF linked
<1>0. IsNode(r)
  BY <1>1
<1> HIDE DEF r
<1>3. IsNode(z) /\ z.parent = p /\ z.first = r.first /\ z.last = r.last /\ z.next = r.next
  BY <1>0 DEF IsNode
<1> HIDE DEF z, t
<1>4. /\ IsSeq(t)
      /\ Len(t) = Len(s)
      /\ \A k \in 1..Len(s) : t[k] = IF k = c THEN z ELSE linked[k]
  BY <1>1, <1>2, PutFacts
<1>5. /\ IsSeq(t)
      /\ Len(t) = Len(s)
      /\ \A k \in 1..Len(s) :
            /\ IsNode(t[k])
            /\ t[k].parent = IF k = c THEN p ELSE s[k].parent
            /\ t[k].last = IF k = p THEN c ELSE s[k].last
            /\ t[k].first = IF k = p /\ s[p].first = NoNode THEN c ELSE s[k].first
            /\ t[k].next = IF k = s[p].last /\ s[p].first # NoNode THEN c ELSE s[k].next
  BY <1>1, <1>3, <1>4 DEF r
<1> QED BY <1>5 DEF t

\* A walker whose nodes are in order.
Fine(w) == IsWalker(w) /\ LinkedAsATree(w)

Walker(nodes, root, cur, fault) ==
    [nodes |-> nodes, root |-> root, cur |-> cur, fault |-> fault]

LEMMA WalkerFields ==
    ASSUME NEW a, NEW b, NEW c, NEW d
    PROVE  /\ Walker(a, b, c, d).nodes = a
           /\ Walker(a, b, c, d).root = b
           /\ Walker(a, b, c, d).cur = c
           /\ (IsSeq(a) /\ \A n \in 1..Len(a) : IsNode(a[n])) => IsWalker(Walker(a, b, c, d))
BY DEF Walker, IsWalker

\* The first element of a document.
LEMMA FirstNode ==
    ASSUME NEW x, IsNode(x), NEW s, s = <<>>, NEW f,
           x.parent = NoNode, x.first = NoNode, x.last = NoNode, x.next = NoNode
    PROVE  Fine(Walker(Append(s, x), 1, 1, f))
<1> DEFINE g == Append(s, x)
           v == Walker(g, 1, 1, f)
<1>1. IsSeq(s) /\ Len(s) = 0
  <2>1. s \in Seq({})
    OBVIOUS
  <2> QED BY <2>1 DEF IsSeq
<1>2. IsSeq(g) /\ Len(g) = 1 /\ g[1] = x
  <2>1. IsSeq(g)
    BY <1>1, AppendFacts
  <2>2. Len(g) = 1 /\ g[1] = x
    <3>1. g \in Seq({x}) /\ Len(g) = 1
      BY DEF IsSeq
    <3> QED BY <3>1
  <2> QED BY <2>1, <2>2
<1>3. g # <<>>
  BY <1>2
<1> HIDE DEF g
<1>4. IsWalker(v) /\ v.nodes = g /\ v.root = 1 /\ v.cur = 1
  <2>1. \A n \in 1..Len(g) : IsNode(g[n])
    BY <1>2
  <2> QED BY <1>2, <2>1, WalkerFields
<1> HIDE DEF v
<1>10. Len(v.nodes) = 1 /\ v.nodes[1] = x
  BY <1>2, <1>4
<1>9. 1..Len(v.nodes) = {1} /\ v.nodes[1] = x
  BY <1>10
<1>5. Rooted(v)
  BY <1>2, <1>3, <1>4, <1>9 DEF Rooted, NoNode
<1>6. HasChildren(v, 1)
  BY <1>9 DEF HasChildren, NoNode
<1>7. HasSiblings(v, 1)
  BY <1>9 DEF HasSiblings, NoNode
<1>8. LinkedAsATree(v)
  BY <1>5, <1>6, <1>7, <1>9 DEF LinkedAsATree
<1> QED BY <1>4, <1>8 DEF Fine, v, g

\* A further element: the youngest child of the one that is open.
LEMMA FurtherNode ==
    ASSUME NEW w, Fine(w), w.cur # NoNode, NEW x, IsNode(x),
           x.parent = NoNode, x.first = NoNode, x.last = NoNode, x.next = NoNode
    PROVE  Fine(Walker(node_add_child(Append(w.nodes, x), w.cur, Len(w.nodes) + 1),
                       w.root, Len(w.nodes) + 1, w.fault))
<1> DEFINE s == w.nodes
           N == Len(s)
           n == N + 1
           p == w.cur
           g == Append(s, x)
           t == node_add_child(g, p, n)
           v == Walker(t, w.root, n, w.fault)
<1>1. /\ IsSeq(s)
      /\ \A k \in 1..N : IsNode(s[k])
      /\ N \in Nat
  BY AppendFacts DEF Fine, IsWalker
<1>2. /\ IsSeq(g) /\ Len(g) = n
      /\ \A k \in 1..N : g[k] = s[k]
      /\ g[n] = x
  BY <1>1, AppendFacts
<1>3. p \in 1..N /\ w.root = 1
  BY <1>1 DEF Fine, LinkedAsATree, Rooted, NoNode
<1>4. /\ \A k \in 1..N : s[k].parent \in 0..(k - 1) /\ (s[k].parent = NoNode <=> k = 1)
      /\ \A k \in 1..N : HasChildren(w, k) /\ HasSiblings(w, k)
  BY DEF Fine, LinkedAsATree, Rooted
<1> HIDE DEF g
<1>5. \A k \in 1..Len(g) : IsNode(g[k])
  BY <1>1, <1>2
<1>6. s[p].first # NoNode => s[p].last \in 1..N
  BY <1>3, <1>4 DEF HasChildren
<1>7. g[p].first # NoNode => g[p].last \in 1..Len(g)
  BY <1>1, <1>2, <1>3, <1>6
<1>8. p \in 1..Len(g) /\ n \in 1..Len(g) /\ p # n
  BY <1>1, <1>2, <1>3
<1> HIDE DEF n, p
<1>9. /\ IsSeq(t)
      /\ Len(t) = Len(g)
      /\ \A k \in 1..Len(g) :
            /\ IsNode(t[k])
            /\ t[k].parent = IF k = n THEN p ELSE g[k].parent
            /\ t[k].last = IF k = p THEN n ELSE g[k].last
            /\ t[k].first = IF k = p /\ g[p].first = NoNode THEN n ELSE g[k].first
            /\ t[k].next = IF k = g[p].last /\ g[p].first # NoNode THEN n ELSE g[k].next
  BY <1>2, <1>5, <1>7, <1>8, AddChildFacts
<1> HIDE DEF t
<1>10. IsWalker(v) /\ v.nodes = t /\ v.root = w.root /\ v.cur = n
  BY <1>9, WalkerFields
<1> HIDE DEF v
<1>11. n = N + 1 /\ n \in 1..n
  BY <1>1 DEF n
<1> HIDE DEF s, N
<1>12. \A k \in 1..N : /\ t[k].parent = s[k].parent
                       /\ t[k].last = IF k = p THEN n ELSE s[k].last
                       /\ t[k].first = IF k = p /\ s[p].first = NoNode THEN n ELSE s[k].first
                       /\ t[k].next = IF k = s[p].last /\ s[p].first # NoNode THEN n ELSE s[k].next
  BY <1>1, <1>2, <1>3, <1>9, <1>11
<1>13. t[n].parent = p /\ t[n].last = NoNode /\ t[n].first = NoNode
  BY <1>2, <1>8, <1>9
<1>14. t[n].next = NoNode
  BY <1>1, <1>2, <1>3, <1>6, <1>8, <1>9, <1>11
<1>15. \A k \in 1..N : s[k].parent \in 0..(k - 1) /\ s[k].parent \in Nat
  BY <1>4 DEF s, N
<1>16. Rooted(v)
  <2>1. t # <<>>
    BY <1>2, <1>9, <1>1, <1>11
  <2>2. \A k \in 1..n : t[k].parent \in 0..(k - 1) /\ (t[k].parent = NoNode <=> k = 1)
    <3> SUFFICES ASSUME NEW k \in 1..n
                 PROVE  t[k].parent \in 0..(k - 1) /\ (t[k].parent = NoNode <=> k = 1)
      OBVIOUS
    <3>1. CASE k = n
      BY <3>1, <1>1, <1>3, <1>11, <1>13 DEF NoNode
    <3>2. CASE k # n
      BY <3>2, <1>1, <1>4, <1>11, <1>12 DEF s, N
    <3> QED BY <3>1, <3>2
  <2> QED BY <1>1, <1>2, <1>3, <1>9, <1>10, <1>11, <2>1, <2>2 DEF Rooted
<1>17. \A k \in 1..N :
          \/ /\ s[k].first = NoNode /\ s[k].last = NoNode
             /\ \A m \in 1..N : s[m].parent # k
          \/ /\ s[k].first \in 1..N /\ s[s[k].first].parent = k
             /\ s[k].last \in 1..N /\ s[s[k].last].parent = k
             /\ \A m \in 1..N : s[m].parent = k => s[k].first <= m /\ m <= s[k].last
  BY <1>4 DEF HasChildren, s, N
<1>18. \A k \in 1..N :
          \/ /\ s[k].next = NoNode
             /\ \A m \in 1..N : s[m].parent = s[k].parent => m <= k
          \/ /\ s[k].next \in 1..N /\ s[k].next > k /\ s[s[k].next].parent = s[k].parent
             /\ \A m \in 1..N : s[m].parent = s[k].parent /\ m > k => s[k].next <= m
  BY <1>4 DEF HasSiblings, s, N
<1>19. ASSUME NEW k \in 1..n PROVE HasChildren(v, k)
  <2>1. CASE k = n
    BY <1>1, <1>3, <1>11, <1>12, <1>13, <1>15, <1>10, <1>9, <1>2, <2>1 DEF HasChildren, NoNode
  <2>2. CASE k = p
    BY <1>1, <1>3, <1>11, <1>12, <1>13, <1>17, <1>10, <1>9, <1>2, <2>2 DEF HasChildren, NoNode
  <2>3. CASE k # n /\ k # p
    <3>1. k \in 1..N /\ Len(v.nodes) = n /\ v.nodes = t
      BY <1>1, <1>2, <1>9, <1>10, <1>11, <2>3
    <3>2. t[k].first = s[k].first /\ t[k].last = s[k].last
      BY <1>12, <2>3, <3>1
    <3>3. \A m \in 1..n : t[m].parent = k => m \in 1..N /\ s[m].parent = k
      BY <1>1, <1>11, <1>12, <1>13, <2>3
    <3>4. \A m \in 1..N : t[m].parent = s[m].parent /\ m \in 1..n
      BY <1>1, <1>11, <1>12
    <3>5. CASE s[k].first = NoNode /\ s[k].last = NoNode /\ \A m \in 1..N : s[m].parent # k
      BY <3>1, <3>2, <3>3, <3>5 DEF HasChildren
    <3>6. CASE /\ s[k].first \in 1..N /\ s[s[k].first].parent = k
               /\ s[k].last \in 1..N /\ s[s[k].last].parent = k
               /\ \A m \in 1..N : s[m].parent = k => s[k].first <= m /\ m <= s[k].last
      BY <3>1, <3>2, <3>3, <3>4, <3>6 DEF HasChildren
    <3> QED BY <1>17, <3>1, <3>5, <3>6
  <2> QED BY <2>1, <2>2, <2>3
<1>20. ASSUME NEW k \in 1..n PROVE HasSiblings(v, k)
  <2>1. CASE k = n
    BY <1>1, <1>3, <1>11, <1>12, <1>13, <1>14, <1>10, <1>9, <1>2, <2>1 DEF HasSiblings, NoNode
  <2>2. CASE k # n /\ k = s[p].last /\ s[p].first # NoNode
    <3>1. k \in 1..N /\ Len(v.nodes) = n /\ v.nodes = t /\ n > k
      BY <1>1, <1>2, <1>9, <1>10, <1>11, <2>2
    <3>2. t[k].next = n /\ t[k].parent = p /\ s[k].parent = p
      BY <1>3, <1>12, <1>17, <2>2, <3>1 DEF NoNode
    <3>3. \A m \in 1..N : s[m].parent = p => m <= k
      BY <1>3, <1>17, <2>2
    <3>4. \A m \in 1..n : t[m].parent = p /\ m > k => n <= m
      BY <1>1, <1>11, <1>12, <3>1, <3>3
    <3> QED BY <1>11, <1>13, <3>1, <3>2, <3>4 DEF HasSiblings
  <2>3. CASE k # n /\ ~(k = s[p].last /\ s[p].first # NoNode)
    <3>1. k \in 1..N /\ Len(v.nodes) = n /\ v.nodes = t
      BY <1>1, <1>2, <1>9, <1>10, <1>11, <2>3
    <3>2. t[k].next = s[k].next /\ t[k].parent = s[k].parent
      BY <1>12, <2>3, <3>1
    <3>3. \A m \in 1..N : t[m].parent = s[m].parent /\ m \in 1..n
      BY <1>1, <1>11, <1>12
    <3>4. \A m \in 1..n : m \in 1..N \/ m = n
      BY <1>1, <1>11
    <3>5. CASE s[k].next = NoNode /\ \A m \in 1..N : s[m].parent = s[k].parent => m <= k
      <4>1. SUFFICES ASSUME s[k].parent = p PROVE FALSE
        BY <1>13, <3>1, <3>2, <3>3, <3>4, <3>5 DEF HasSiblings
      <4>2. /\ s[p].last \in 1..N /\ s[s[p].last].parent = p /\ k <= s[p].last
            /\ s[p].first # NoNode
        BY <1>1, <1>3, <1>17, <3>1, <4>1 DEF NoNode
      <4>3. s[p].last <= k
        BY <3>5, <4>1, <4>2
      <4> QED BY <1>1, <2>3, <3>1, <4>2, <4>3
    <3>6. CASE /\ s[k].next \in 1..N /\ s[k].next > k /\ s[s[k].next].parent = s[k].parent
               /\ \A m \in 1..N : s[m].parent = s[k].parent /\ m > k => s[k].next <= m
      <4>1. s[k].next \in 1..n /\ t[s[k].next].parent = t[k].parent /\ s[k].next <= n
        BY <1>1, <1>11, <3>2, <3>3, <3>6
      <4> QED BY <3>1, <3>2, <3>3, <3>4, <3>6, <4>1 DEF HasSiblings
    <3> QED BY <1>18, <3>1, <3>5, <3>6
  <2> QED BY <2>1, <2>2, <2>3
<1>21. LinkedAsATree(v)
  BY <1>2, <1>9, <1>10, <1>16, <1>19, <1>20 DEF LinkedAsATree
<1> QED BY <1>10, <1>21 DEF Fine, v, t, g, n, p, s, N

\* The links do not depend on the rest of a walker, nor on where it is.
LEMMA SameLinks ==
    ASSUME NEW w, Fine(w), NEW s, IsSeq(s), Len(s) = Len(w.nodes),
           \A k \in 1..Len(s) : /\ IsNode(s[k])
                                /\ s[k].parent = w.nodes[k].parent
                                /\ s[k].first = w.nodes[k].first
                                /\ s[k].last = w.nodes[k].last
                                /\ s[k].next = w.nodes[k].next,
           NEW c \in 0..Len(s), NEW f
    PROVE  Fine(Walker(s, w.root, c, f))
<1> DEFINE v == Walker(s, w.root, c, f)
<1>1. IsWalker(v) /\ v.nodes = s /\ v.root = w.root /\ v.cur = c
  BY WalkerFields
<1> HIDE DEF v
<1>2. IsSeq(w.nodes) /\ Len(s) \in Nat
  BY AppendFacts DEF Fine, IsWalker
<1>3. s = <<>> <=> w.nodes = <<>>
  BY <1>2, EmptyLength
<1>4. Rooted(v)
  BY <1>1, <1>2, <1>3 DEF Fine, LinkedAsATree, Rooted
<1> DEFINE u == w.nodes
<1>8. v.nodes = s /\ Len(s) = Len(u)
      /\ \A k \in 1..Len(u) : /\ s[k].parent = u[k].parent
                              /\ s[k].first = u[k].first
                              /\ s[k].last = u[k].last
                              /\ s[k].next = u[k].next
  BY <1>1
<1>9. \A k \in 1..Len(u) : HasChildren(w, k) /\ HasSiblings(w, k)
  BY DEF Fine, LinkedAsATree
<1>5. ASSUME NEW k \in 1..Len(s) PROVE HasChildren(v, k)
  <2>1. \/ /\ u[k].first = NoNode /\ u[k].last = NoNode
           /\ \A m \in 1..Len(u) : u[m].parent # k
        \/ /\ u[k].first \in 1..Len(u) /\ u[u[k].first].parent = k
           /\ u[k].last \in 1..Len(u) /\ u[u[k].last].parent = k
           /\ \A m \in 1..Len(u) : u[m].parent = k => u[k].first <= m /\ m <= u[k].last
    BY <1>8, <1>9 DEF HasChildren
  <2> HIDE DEF u
  <2>2. CASE u[k].first = NoNode /\ u[k].last = NoNode /\ \A m \in 1..Len(u) : u[m].parent # k
    BY <1>8, <2>2 DEF HasChildren
  <2>3. CASE /\ u[k].first \in 1..Len(u) /\ u[u[k].first].parent = k
             /\ u[k].last \in 1..Len(u) /\ u[u[k].last].parent = k
             /\ \A m \in 1..Len(u) : u[m].parent = k => u[k].first <= m /\ m <= u[k].last
    BY <1>8, <2>3 DEF HasChildren
  <2> QED BY <2>1, <2>2, <2>3
<1>6. ASSUME NEW k \in 1..Len(s) PROVE HasSiblings(v, k)
  <2>1. \/ /\ u[k].next = NoNode
           /\ \A m \in 1..Len(u) : u[m].parent = u[k].parent => m <= k
        \/ /\ u[k].next \in 1..Len(u) /\ u[k].next > k /\ u[u[k].next].parent = u[k].parent
           /\ \A m \in 1..Len(u) : u[m].parent = u[k].parent /\ m > k => u[k].next <= m
    BY <1>8, <1>9 DEF HasSiblings
  <2> HIDE DEF u
  <2>2. CASE u[k].next = NoNode /\ \A m \in 1..Len(u) : u[m].parent = u[k].parent => m <= k
    BY <1>8, <2>2 DEF HasSiblings
  <2>3. CASE /\ u[k].next \in 1..Len(u) /\ u[k].next > k /\ u[u[k].next].parent = u[k].parent
             /\ \A m \in 1..Len(u) : u[m].parent = u[k].parent /\ m > k => u[k].next <= m
    BY <1>8, <2>3 DEF HasSiblings
  <2> QED BY <2>1, <2>2, <2>3
<1>7. LinkedAsATree(v)
  BY <1>1, <1>4, <1>5, <1>6 DEF LinkedAsATree
<1> QED BY <1>1, <1>7 DEF Fine, v

\* startElement, charDatahandler and endElement leave the links in order.
LEMMA StartFine ==
    ASSUME NEW w, Fine(w), NEW name, NEW attrs
    PROVE  Fine(startElement(w, name, attrs))
<1> DEFINE x == new_node(name, attrs)
           n == Len(w.nodes) + 1
<1>1. /\ IsNode(x)
      /\ x.parent = NoNode /\ x.first = NoNode /\ x.last = NoNode /\ x.next = NoNode
  BY DEF new_node, IsNode
<1>2. w = Walker(w.nodes, w.root, w.cur, w.fault)
  BY DEF Fine, IsWalker, Walker
<1> HIDE DEF x
<1>3. CASE name = Null
  <2>1. startElement(w, name, attrs) = Walker(w.nodes, w.root, w.cur, TRUE)
    BY <1>2, <1>3 DEF startElement, Walker
  <2>2. IsSeq(w.nodes) /\ (\A k \in 1..Len(w.nodes) : IsNode(w.nodes[k]))
        /\ w.cur \in 0..Len(w.nodes)
    BY DEF Fine, IsWalker, LinkedAsATree, Rooted
  <2> QED BY <2>1, <2>2, SameLinks
<1>4. CASE name # Null /\ w.root = NoNode
  <2>1. w.nodes = <<>> /\ n = 1
    BY <1>4 DEF Fine, LinkedAsATree, Rooted, NoNode
  <2>2. startElement(w, name, attrs) = Walker(Append(w.nodes, x), n, n, w.fault)
    BY <1>2, <1>4 DEF startElement, Walker, x
  <2> QED BY <1>1, <2>1, <2>2, FirstNode
<1>5. CASE name # Null /\ w.root # NoNode /\ w.cur = NoNode
  BY <1>5 DEF startElement
<1>6. CASE name # Null /\ w.root # NoNode /\ w.cur # NoNode
  <2>1. startElement(w, name, attrs)
          = Walker(node_add_child(Append(w.nodes, x), w.cur, n), w.root, n, w.fault)
    BY <1>2, <1>6 DEF startElement, Walker, x
  <2> QED BY <1>1, <1>6, <2>1, FurtherNode
<1> QED BY <1>3, <1>4, <1>5, <1>6

LEMMA FieldsKept ==
    ASSUME NEW w, Fine(w)
    PROVE  /\ w = Walker(w.nodes, w.root, w.cur, w.fault)
           /\ IsSeq(w.nodes) /\ Len(w.nodes) \in Nat
           /\ \A k \in 1..Len(w.nodes) : IsNode(w.nodes[k])
           /\ w.cur \in 0..Len(w.nodes)
<1>1. w = Walker(w.nodes, w.root, w.cur, w.fault) /\ IsSeq(w.nodes)
  BY DEF Fine, IsWalker, Walker
<1>2. Len(w.nodes) \in Nat
  BY <1>1, AppendFacts
<1> QED BY <1>1, <1>2 DEF Fine, IsWalker, LinkedAsATree, Rooted

LEMMA SameNodes ==
    ASSUME NEW w, Fine(w), NEW c \in 0..Len(w.nodes), NEW f
    PROVE  Fine(Walker(w.nodes, w.root, c, f))
<1> DEFINE s == w.nodes
<1>1. IsSeq(s) /\ Len(s) = Len(w.nodes) /\ c \in 0..Len(s)
  BY FieldsKept
<1>2. \A k \in 1..Len(s) : /\ IsNode(s[k])
                           /\ s[k].parent = w.nodes[k].parent
                           /\ s[k].first = w.nodes[k].first
                           /\ s[k].last = w.nodes[k].last
                           /\ s[k].next = w.nodes[k].next
  BY FieldsKept
<1>3. ASSUME NEW u, u = s PROVE Fine(Walker(u, w.root, c, f))
  <2>1. IsSeq(u) /\ Len(u) = Len(w.nodes) /\ c \in 0..Len(u)
    BY <1>1, <1>3
  <2>2. \A k \in 1..Len(u) : /\ IsNode(u[k])
                             /\ u[k].parent = w.nodes[k].parent
                             /\ u[k].first = w.nodes[k].first
                             /\ u[k].last = w.nodes[k].last
                             /\ u[k].next = w.nodes[k].next
    BY <1>2, <1>3
  <2> QED BY <2>1, <2>2, SameLinks
<1> QED BY <1>3

LEMMA CharFine ==
    ASSUME NEW w, Fine(w), NEW s
    PROVE  Fine(charDatahandler(w, s))
<1>1. CASE Blank(s)
  BY <1>1 DEF charDatahandler
<1>2. CASE ~Blank(s) /\ w.cur = NoNode
  <2>1. w = Walker(w.nodes, w.root, w.cur, w.fault)
    BY FieldsKept
  <2>2. charDatahandler(w, s) = Walker(w.nodes, w.root, w.cur, TRUE)
    BY <1>2, <2>1 DEF charDatahandler, Walker
  <2>3. w.cur \in 0..Len(w.nodes)
    BY FieldsKept
  <2>4. Fine(Walker(w.nodes, w.root, w.cur, TRUE))
    BY <2>3, SameNodes
  <2> QED BY <2>2, <2>4
<1>3. CASE ~Blank(s) /\ w.cur # NoNode
  <2> DEFINE p == w.cur
             r == w.nodes[p]
             d == r.data \o s
             x == [r EXCEPT !.data = d]
             t == Put(w.nodes, p, x)
  <2>1. w = Walker(w.nodes, w.root, w.cur, w.fault)
    BY FieldsKept
  <2>2. charDatahandler(w, s) = Walker(t, w.root, w.cur, w.fault)
    <3>1. charDatahandler(w, s) = [w EXCEPT !.nodes[w.cur].data = @ \o s]
      BY <1>3 DEF charDatahandler
    <3>2. [w EXCEPT !.nodes[w.cur].data = @ \o s] = [w EXCEPT !.nodes = t]
      BY DEF Put
    <3> HIDE DEF t
    <3>3. [w EXCEPT !.nodes = t] = Walker(t, w.root, w.cur, w.fault)
      BY <2>1 DEF Walker
    <3> QED BY <3>1, <3>2, <3>3
  <2>3. p \in 1..Len(w.nodes)
    BY <1>3, FieldsKept DEF NoNode
  <2>4. IsNode(r)
    BY <2>3, FieldsKept
  <2> HIDE DEF r, d
  <2>5. IsNode(x) /\ x.parent = r.parent /\ x.first = r.first /\ x.last = r.last /\ x.next = r.next
    BY <2>4 DEF IsNode
  <2> HIDE DEF x
  <2>6. IsSeq(t) /\ Len(t) = Len(w.nodes)
        /\ \A k \in 1..Len(w.nodes) : t[k] = IF k = p THEN x ELSE w.nodes[k]
    BY <2>3, FieldsKept, PutFacts
  <2> HIDE DEF t
  <2>7. \A k \in 1..Len(t) : /\ IsNode(t[k])
                             /\ t[k].parent = w.nodes[k].parent
                             /\ t[k].first = w.nodes[k].first
                             /\ t[k].last = w.nodes[k].last
                             /\ t[k].next = w.nodes[k].next
    BY <2>5, <2>6, FieldsKept DEF r
  <2>8. w.cur \in 0..Len(t)
    BY <2>6, FieldsKept
  <2>9. Fine(Walker(t, w.root, w.cur, w.fault))
    BY <2>6, <2>7, <2>8, SameLinks
  <2> QED BY <2>2, <2>9
<1> QED BY <1>1, <1>2, <1>3

LEMMA EndFine ==
    ASSUME NEW w, Fine(w)
    PROVE  Fine(endElement(w))
<1>0. w = Walker(w.nodes, w.root, w.cur, w.fault)
  BY FieldsKept
<1>1. CASE w.cur = NoNode
  <2>1. endElement(w) = Walker(w.nodes, w.root, w.cur, TRUE)
    BY <1>0, <1>1 DEF endElement, Walker
  <2>2. w.cur \in 0..Len(w.nodes)
    BY FieldsKept
  <2>3. Fine(Walker(w.nodes, w.root, w.cur, TRUE))
    BY <2>2, SameNodes
  <2> QED BY <2>1, <2>3
<1>2. CASE w.cur # NoNode
  <2> DEFINE c == w.nodes[w.cur].parent
  <2>1. endElement(w) = Walker(w.nodes, w.root, c, w.fault)
    BY <1>0, <1>2 DEF endElement, Walker
  <2>2. w.cur \in 1..Len(w.nodes) /\ Len(w.nodes) \in Nat
    BY <1>2, FieldsKept DEF NoNode
  <2>3. c \in 0..(w.cur - 1)
    BY <2>2 DEF Fine, LinkedAsATree, Rooted
  <2>4. c \in 0..Len(w.nodes)
    BY <2>2, <2>3
  <2> HIDE DEF c
  <2> QED BY <2>1, <2>4, SameNodes
<1> QED BY <1>1, <1>2

\* Whichever handler the parser calls.
LEMMA WalkedFine ==
    ASSUME NEW w, Fine(w), NEW c, NEW h, NEW s
    PROVE  Fine(Walked(w, c, h, s))
<1>1. CASE h = "got_tag_open"
  BY <1>1, StartFine DEF Walked
<1>2. CASE h = "concat_tag_value"
  BY <1>2, CharFine DEF Walked
<1>3. CASE h = "got_tag_close"
  BY <1>3, EndFine DEF Walked
<1>4. CASE h \notin {"got_tag_open", "concat_tag_value", "got_tag_close"}
  BY <1>4 DEF Walked
<1> QED BY <1>1, <1>2, <1>3, <1>4

\* Whatever a file holds, and wherever its parsing stops or fails, the nodes made
\* so far are one tree (node_add_child of xml.c under the handlers that
\* process_line calls before an alternative is known to be the right one).
THEOREM XmlTree == Spec => []DomIsATree
<1> DEFINE Inv == Fine(walker)
<1>1. Init => Inv
  BY EmptyLinks DEF Init, Fine
<1>2. Inv /\ [Next]_vars => Inv'
  <2> SUFFICES ASSUME Inv, [Next]_vars
               PROVE  Inv'
    OBVIOUS
  <2>1. walker' = walker \/ walker' = EmptyWalker
        \/ \E h, s : walker' = Walked(walker, parse', h, s)
    <3>1. CASE UNCHANGED vars
      BY <3>1 DEF vars
    <3>2. CASE ReadToken
      <4>1. \/ \E r : Handle(SymbolOf(Top).h, r.value)
            \/ UNCHANGED walker
        BY <3>2 DEF ReadToken
      <4> QED BY <4>1 DEF Handle
    <3>3. CASE EnterChoice
      BY <3>3 DEF EnterChoice
    <3>4. CASE LineMatches
      BY <3>4 DEF LineMatches, Handle
    <3>5. CASE LineMisses
      BY <3>5 DEF LineMisses
    <3>6. CASE EndParse
      BY <3>6 DEF EndParse
    <3>7. CASE \E s \in Sources[loads + 1] : ReadFile(s) \/ TooLong(s) \/ ReadFails(s)
      BY <3>7 DEF ReadFile, TooLong, ReadFails
    <3> QED BY <3>1, <3>2, <3>3, <3>4, <3>5, <3>6, <3>7 DEF Next, Step
  <2>2. Fine(EmptyWalker)
    BY EmptyLinks DEF Fine
  <2> QED BY <2>1, <2>2, WalkedFine
<1>3. Inv => DomIsATree
  BY DEF Fine, DomIsATree
<1> QED BY <1>1, <1>2, <1>3, PTL DEF Spec

------------------------------------------------------------------------------
(* The grammar, as far as the handlers depend on it: which symbols have    *)
(* one, and which lines are tried from where.                              *)

Kinds == {"const", "any_but", "alphanum", "whitespace", "attr_val"}
IsToken(t) == t.kind \in Kinds /\ Len(t.lit) \in Nat

\* Symbol i of the line, if it is a token, is one with a handler that belongs
\* there.
TokenIs(line, i) ==
    LET s == Lines[line][i]
    IN  s.term =>
          /\ IsToken(s.token)
          /\ s.h = "got_tag_open" => line = "rule_xml_tag_end_full" /\ i = 1
          /\ s.h = "concat_tag_value" => line = "tag_value_line"
          /\ s.h = "do_tag_reset" => line = "rule_xml_tag" /\ i = 2
          /\ s.h = "set_tag_name" =>
                 (line = "rule_xml_tag" /\ i = 3) \/ (line = "rule_xml_tag_end_full" /\ i = 4)
          /\ s.h # "got_tag_close"

\* Where a line is tried from, if it is choice a of symbol i of another one.
CallOf(line, i, a, x) ==
    /\ x \in DOMAIN Lines \ {"rule_xml_document"}
    /\ x = "rule_xml_tag" =>
          /\ a = 1
          /\ line = "recourse_tag_line" \/ (line = "rule_xml_document" /\ i = 3)
    /\ x = "rule_xml_tag_end_full" <=> line = "rule_xml_tag" /\ i = 6 /\ a = 1
    /\ x = "rule_xml_tag_end_empty" <=> line = "rule_xml_tag" /\ i = 6 /\ a = 2
    /\ x \in {"tag_value_line", "recourse_tag_line"} =>
          line = "rule_xml_tag_end_full" /\ i = 2
    /\ line = "rule_xml_tag" /\ i = 4 => x = "attr_line"

ChoiceIs(line, i) ==
    LET s == Lines[line][i]
    IN  ~s.term => /\ Len(s.elems) \in 1..2
                   /\ \A a \in 1..Len(s.elems) : CallOf(line, i, a, s.elems[a])

SymbolIs(line, i) ==
    /\ TokenIs(line, i)
    /\ ChoiceIs(line, i)

LineIs(line) ==
    /\ Len(Lines[line]) \in Nat
    /\ \A i \in 1..Len(Lines[line]) : SymbolIs(line, i)

LEMMA LineNames ==
    DOMAIN Lines = {"attr_line",
        "tag_value_line",
        "comment_content_line",
        "comment_content_dash_escaped_line",
        "comment_line",
        "recourse_tag_line",
        "rule_xml_tag_end_full",
        "rule_xml_tag_end_empty",
        "rule_xml_tag",
        "xml_header",
        "rule_xml_document"}
  BY DEF Lines

LEMMA Tokens ==
    /\ IsToken(alphanum) /\ IsToken(whitespace) /\ IsToken(attr_val)
    /\ \A s : Len(s) \in Nat => IsToken(Literal(s)) /\ IsToken(AnyBut(s))
  BY DEF IsToken, Kinds, alphanum, whitespace, attr_val, Literal, AnyBut

LEMMA Grammar == \A line \in DOMAIN Lines : LineIs(line)
<1>1. LineIs("attr_line")
  <2>1. Lines["attr_line"] = <<TOKEN_MO(whitespace), TOKEN_H(alphanum, "set_attr_name"),
          TOKEN(Literal(<<"=">>)), TOKEN_H(attr_val, "set_attr_value")>>
    BY DEF Lines
  <2>2. SymbolIs("attr_line", 1)
    BY <2>1, Tokens DEF TOKEN_MO, Terminal, SymbolIs, TokenIs, ChoiceIs
  <2>3. SymbolIs("attr_line", 2)
    BY <2>1, Tokens DEF TOKEN_H, Terminal, SymbolIs, TokenIs, ChoiceIs
  <2>4. SymbolIs("attr_line", 3)
    BY <2>1, Tokens DEF TOKEN, Terminal, SymbolIs, TokenIs, ChoiceIs
  <2>5. SymbolIs("attr_line", 4)
    BY <2>1, Tokens DEF TOKEN_H, Terminal, SymbolIs, TokenIs, ChoiceIs
  <2> QED BY <2>1, <2>2, <2>3, <2>4, <2>5 DEF LineIs
<1>2. LineIs("tag_value_line")
  <2>1. Lines["tag_value_line"] = <<TOKEN_MOH(AnyBut(<<"&", "<">>), "concat_tag_value")>>
    BY DEF Lines
  <2>2. SymbolIs("tag_value_line", 1)
    BY <2>1, Tokens DEF TOKEN_MOH, Terminal, SymbolIs, TokenIs, ChoiceIs
  <2> QED BY <2>1, <2>2 DEF LineIs
<1>3. LineIs("comment_content_line")
  <2>1. Lines["comment_content_line"] = <<TOKEN_MO(AnyBut(<<"-">>))>>
    BY DEF Lines
  <2>2. SymbolIs("comment_content_line", 1)
    BY <2>1, Tokens DEF TOKEN_MO, Terminal, SymbolIs, TokenIs, ChoiceIs
  <2> QED BY <2>1, <2>2 DEF LineIs
<1>4. LineIs("comment_content_dash_escaped_line")
  <2>1. Lines["comment_content_dash_escaped_line"] = <<TOKEN_O(Literal(<<"-">>)), TOKEN_MO(AnyBut(<<"-">>))>>
    BY DEF Lines
  <2>2. SymbolIs("comment_content_dash_escaped_line", 1)
    BY <2>1, Tokens DEF TOKEN_O, Terminal, SymbolIs, TokenIs, ChoiceIs
  <2>3. SymbolIs("comment_content_dash_escaped_line", 2)
    BY <2>1, Tokens DEF TOKEN_MO, Terminal, SymbolIs, TokenIs, ChoiceIs
  <2> QED BY <2>1, <2>2, <2>3 DEF LineIs
<1>5. LineIs("comment_line")
  <2>1. Lines["comment_line"] = <<TOKEN_MO(whitespace), TOKEN(Literal(<<"<", "!", "-", "-">>)),
          NONTERM_MO(comment_value_pack), TOKEN(Literal(<<"-", "-", ">">>))>>
    BY DEF Lines
  <2>2. SymbolIs("comment_line", 1)
    BY <2>1, Tokens DEF TOKEN_MO, Terminal, SymbolIs, TokenIs, ChoiceIs
  <2>3. SymbolIs("comment_line", 2)
    BY <2>1, Tokens DEF TOKEN, Terminal, SymbolIs, TokenIs, ChoiceIs
  <2>4. SymbolIs("comment_line", 3)
    BY <2>1, LineNames DEF NONTERM_MO, comment_value_pack, Nonterminal, SymbolIs, TokenIs, ChoiceIs, CallOf
  <2>5. SymbolIs("comment_line", 4)
    BY <2>1, Tokens DEF TOKEN, Terminal, SymbolIs, TokenIs, ChoiceIs
  <2> QED BY <2>1, <2>2, <2>3, <2>4, <2>5 DEF LineIs
<1>6. LineIs("recourse_tag_line")
  <2>1. Lines["recourse_tag_line"] = <<NONTERM_MO(tag_pack)>>
    BY DEF Lines
  <2>2. SymbolIs("recourse_tag_line", 1)
    BY <2>1, LineNames DEF NONTERM_MO, tag_pack, Nonterminal, SymbolIs, TokenIs, ChoiceIs, CallOf
  <2> QED BY <2>1, <2>2 DEF LineIs
<1>7. LineIs("rule_xml_tag_end_full")
  <2>1. Lines["rule_xml_tag_end_full"] = <<TOKEN_H(Literal(<<">">>), "got_tag_open"), NONTERM_MO(content_pack),
          TOKEN(Literal(<<"<", "/">>)), TOKEN_H(alphanum, "set_tag_name"),
          TOKEN(Literal(<<">">>))>>
    BY DEF Lines
  <2>2. SymbolIs("rule_xml_tag_end_full", 1)
    BY <2>1, Tokens DEF TOKEN_H, Terminal, SymbolIs, TokenIs, ChoiceIs
  <2>3. SymbolIs("rule_xml_tag_end_full", 2)
    <3> DEFINE s == Lines["rule_xml_tag_end_full"][2]
    <3>1. s = Nonterminal(content_pack, TRUE, TRUE)
      BY <2>1 DEF NONTERM_MO
    <3>2. ~s.term /\ s.elems = <<"tag_value_line", "recourse_tag_line">>
      BY <3>1 DEF Nonterminal, content_pack
    <3>3. Len(s.elems) = 2
      BY <3>2
    <3>4. \A a \in 1..2 : CallOf("rule_xml_tag_end_full", 2, a, s.elems[a])
      BY <3>2, LineNames DEF CallOf
    <3> QED BY <3>2, <3>3, <3>4 DEF SymbolIs, TokenIs, ChoiceIs
  <2>4. SymbolIs("rule_xml_tag_end_full", 3)
    BY <2>1, Tokens DEF TOKEN, Terminal, SymbolIs, TokenIs, ChoiceIs
  <2>5. SymbolIs("rule_xml_tag_end_full", 4)
    BY <2>1, Tokens DEF TOKEN_H, Terminal, SymbolIs, TokenIs, ChoiceIs
  <2>6. SymbolIs("rule_xml_tag_end_full", 5)
    BY <2>1, Tokens DEF TOKEN, Terminal, SymbolIs, TokenIs, ChoiceIs
  <2> QED BY <2>1, <2>2, <2>3, <2>4, <2>5, <2>6 DEF LineIs
<1>8. LineIs("rule_xml_tag_end_empty")
  <2>1. Lines["rule_xml_tag_end_empty"] = <<TOKEN(Literal(<<"/", ">">>))>>
    BY DEF Lines
  <2>2. SymbolIs("rule_xml_tag_end_empty", 1)
    BY <2>1, Tokens DEF TOKEN, Terminal, SymbolIs, TokenIs, ChoiceIs
  <2> QED BY <2>1, <2>2 DEF LineIs
<1>9. LineIs("rule_xml_tag")
  <2>1. Lines["rule_xml_tag"] = <<TOKEN_MO(whitespace), TOKEN_H(Literal(<<"<">>), "do_tag_reset"),
          TOKEN_H(alphanum, "set_tag_name"), NONTERM_MO(<<"attr_line">>),
          TOKEN_MO(whitespace), NONTERM(tag_end_pack)>>
    BY DEF Lines
  <2>2. SymbolIs("rule_xml_tag", 1)
    BY <2>1, Tokens DEF TOKEN_MO, Terminal, SymbolIs, TokenIs, ChoiceIs
  <2>3. SymbolIs("rule_xml_tag", 2)
    BY <2>1, Tokens DEF TOKEN_H, Terminal, SymbolIs, TokenIs, ChoiceIs
  <2>4. SymbolIs("rule_xml_tag", 3)
    BY <2>1, Tokens DEF TOKEN_H, Terminal, SymbolIs, TokenIs, ChoiceIs
  <2>5. SymbolIs("rule_xml_tag", 4)
    BY <2>1, LineNames DEF NONTERM_MO, Nonterminal, SymbolIs, TokenIs, ChoiceIs, CallOf
  <2>6. SymbolIs("rule_xml_tag", 5)
    BY <2>1, Tokens DEF TOKEN_MO, Terminal, SymbolIs, TokenIs, ChoiceIs
  <2>7. SymbolIs("rule_xml_tag", 6)
    BY <2>1, LineNames DEF NONTERM, tag_end_pack, Nonterminal, SymbolIs, TokenIs, ChoiceIs, CallOf
  <2> QED BY <2>1, <2>2, <2>3, <2>4, <2>5, <2>6, <2>7 DEF LineIs
<1>10. LineIs("xml_header")
  <2>1. Lines["xml_header"] = <<TOKEN_MO(whitespace), TOKEN(Literal(<<"<", "?", "xml">>)),
          NONTERM_MO(<<"attr_line">>), TOKEN_MO(whitespace),
          TOKEN(Literal(<<"?", ">">>))>>
    BY DEF Lines
  <2>2. SymbolIs("xml_header", 1)
    BY <2>1, Tokens DEF TOKEN_MO, Terminal, SymbolIs, TokenIs, ChoiceIs
  <2>3. SymbolIs("xml_header", 2)
    BY <2>1, Tokens DEF TOKEN, Terminal, SymbolIs, TokenIs, ChoiceIs
  <2>4. SymbolIs("xml_header", 3)
    BY <2>1, LineNames DEF NONTERM_MO, Nonterminal, SymbolIs, TokenIs, ChoiceIs, CallOf
  <2>5. SymbolIs("xml_header", 4)
    BY <2>1, Tokens DEF TOKEN_MO, Terminal, SymbolIs, TokenIs, ChoiceIs
  <2>6. SymbolIs("xml_header", 5)
    BY <2>1, Tokens DEF TOKEN, Terminal, SymbolIs, TokenIs, ChoiceIs
  <2> QED BY <2>1, <2>2, <2>3, <2>4, <2>5, <2>6 DEF LineIs
<1>11. LineIs("rule_xml_document")
  <2>1. Lines["rule_xml_document"] = <<NONTERM_O(<<"xml_header">>), NONTERM_MO(<<"comment_line">>),
          NONTERM_O(tag_pack)>>
    BY DEF Lines
  <2>2. SymbolIs("rule_xml_document", 1)
    BY <2>1, LineNames DEF NONTERM_O, Nonterminal, SymbolIs, TokenIs, ChoiceIs, CallOf
  <2>3. SymbolIs("rule_xml_document", 2)
    BY <2>1, LineNames DEF NONTERM_MO, Nonterminal, SymbolIs, TokenIs, ChoiceIs, CallOf
  <2>4. SymbolIs("rule_xml_document", 3)
    BY <2>1, LineNames DEF NONTERM_O, tag_pack, Nonterminal, SymbolIs, TokenIs, ChoiceIs, CallOf
  <2> QED BY <2>1, <2>2, <2>3, <2>4 DEF LineIs
<1> QED BY LineNames, <1>1, <1>2, <1>3, <1>4, <1>5, <1>6, <1>7, <1>8, <1>9, <1>10, <1>11
LEMMA GrammarFlags ==
    /\ Len(Lines["rule_xml_document"]) = 3
    /\ Len(Lines["rule_xml_tag"]) = 6
    /\ Len(Lines["rule_xml_tag_end_full"]) = 5
    /\ Len(Lines["rule_xml_tag_end_empty"]) = 1
    /\ ~Lines["rule_xml_document"][3].many
    /\ \A i \in 1..3 : LET s == Lines["rule_xml_document"][i] IN ~s.term /\ s.optional
    /\ \A i \in 1..6 : LET s == Lines["rule_xml_tag"][i] IN
          /\ s.term <=> i \notin {4, 6}
          /\ s.many <=> i \in {1, 4, 5}
          /\ s.optional <=> i \in {1, 4, 5}
          /\ i \in {1, 5} => s.h = "none"
    /\ Len(Lines["rule_xml_tag"][6].elems) = 2
    /\ Lines["rule_xml_tag"][2].h = "do_tag_reset"
    /\ Lines["rule_xml_tag"][3].h = "set_tag_name"
    /\ Lines["rule_xml_tag"][3].token = alphanum
    /\ LET s == Lines["rule_xml_tag_end_full"][1] IN
          s.term /\ ~s.many /\ ~s.optional /\ s.h = "got_tag_open" /\ s.token = Literal(<<">">>)
    /\ \A i \in 1..5 : Lines["rule_xml_tag_end_full"][i].term <=> i # 2
    /\ LET s == Lines["rule_xml_tag_end_empty"][1] IN
          s.term /\ ~s.many /\ ~s.optional /\ s.h = "none" /\ s.token = Literal(<<"/", ">">>)
    /\ \A i \in 1..Len(Lines["attr_line"]) : Lines["attr_line"][i].term
    /\ \A i \in 1..Len(Lines["tag_value_line"]) : Lines["tag_value_line"][i].term
<1>1. Lines["rule_xml_tag"] = <<TOKEN_MO(whitespace), TOKEN_H(Literal(<<"<">>), "do_tag_reset"),
          TOKEN_H(alphanum, "set_tag_name"), NONTERM_MO(<<"attr_line">>),
          TOKEN_MO(whitespace), NONTERM(tag_end_pack)>>
  BY DEF Lines
<1>2. Lines["rule_xml_tag_end_full"] = <<TOKEN_H(Literal(<<">">>), "got_tag_open"),
          NONTERM_MO(content_pack), TOKEN(Literal(<<"<", "/">>)),
          TOKEN_H(alphanum, "set_tag_name"), TOKEN(Literal(<<">">>))>>
  BY DEF Lines
<1>3. Lines["rule_xml_tag_end_empty"] = <<TOKEN(Literal(<<"/", ">">>))>>
  BY DEF Lines
<1>4. Lines["rule_xml_document"] = <<NONTERM_O(<<"xml_header">>), NONTERM_MO(<<"comment_line">>),
          NONTERM_O(tag_pack)>>
  BY DEF Lines
<1>5. Lines["attr_line"] = <<TOKEN_MO(whitespace), TOKEN_H(alphanum, "set_attr_name"),
          TOKEN(Literal(<<"=">>)), TOKEN_H(attr_val, "set_attr_value")>>
  BY DEF Lines
<1>6. Lines["tag_value_line"] = <<TOKEN_MOH(AnyBut(<<"&", "<">>), "concat_tag_value")>>
  BY DEF Lines
<1>11. /\ Len(Lines["rule_xml_tag"]) = 6
       /\ \A i \in 1..6 : LET s == Lines["rule_xml_tag"][i] IN
             /\ s.term <=> i \notin {4, 6}
             /\ s.many <=> i \in {1, 4, 5}
             /\ s.optional <=> i \in {1, 4, 5}
             /\ i \in {1, 5} => s.h = "none"
       /\ Len(Lines["rule_xml_tag"][6].elems) = 2
       /\ Lines["rule_xml_tag"][2].h = "do_tag_reset"
       /\ Lines["rule_xml_tag"][3].h = "set_tag_name"
       /\ Lines["rule_xml_tag"][3].token = alphanum
  BY <1>1 DEF TOKEN_MO, TOKEN_H, NONTERM_MO, NONTERM, Terminal, Nonterminal, tag_end_pack
<1>12. /\ Len(Lines["rule_xml_tag_end_full"]) = 5
       /\ LET s == Lines["rule_xml_tag_end_full"][1] IN
             s.term /\ ~s.many /\ ~s.optional /\ s.h = "got_tag_open" /\ s.token = Literal(<<">">>)
       /\ \A i \in 1..5 : Lines["rule_xml_tag_end_full"][i].term <=> i # 2
  BY <1>2 DEF TOKEN, TOKEN_H, NONTERM_MO, Terminal, Nonterminal
<1>13. /\ Len(Lines["rule_xml_tag_end_empty"]) = 1
       /\ LET s == Lines["rule_xml_tag_end_empty"][1] IN
             s.term /\ ~s.many /\ ~s.optional /\ s.h = "none" /\ s.token = Literal(<<"/", ">">>)
  BY <1>3 DEF TOKEN, Terminal
<1>14. /\ Len(Lines["rule_xml_document"]) = 3
       /\ ~Lines["rule_xml_document"][3].many
       /\ \A i \in 1..3 : LET s == Lines["rule_xml_document"][i] IN ~s.term /\ s.optional
  BY <1>4 DEF NONTERM_O, NONTERM_MO, Nonterminal
<1>15. \A i \in 1..Len(Lines["attr_line"]) : Lines["attr_line"][i].term
  BY <1>5 DEF TOKEN_MO, TOKEN_H, TOKEN, Terminal
<1>16. \A i \in 1..Len(Lines["tag_value_line"]) : Lines["tag_value_line"][i].term
  BY <1>6 DEF TOKEN_MOH, Terminal
<1> QED BY <1>11, <1>12, <1>13, <1>14, <1>15, <1>16

------------------------------------------------------------------------------
(* The calls of process_line.                                              *)

IsFrame(f) ==
    /\ f = [line |-> f.line, i |-> f.i, alt |-> f.alt, pos |-> f.pos,
            hit |-> f.hit, some |-> f.some, dead |-> f.dead]
    /\ f.line \in DOMAIN Lines
    /\ f.i \in 1..Len(Lines[f.line]) + 1
    /\ f.pos \in Nat \ {0}

LEMMA FrameFacts ==
    ASSUME NEW f, IsFrame(f), f.i <= Len(Lines[f.line]), NEW p \in Nat \ {0}
    PROVE  /\ IsFrame(AfterMatch(f, p))
           /\ AfterMatch(f, p).line = f.line
           /\ AfterMatch(f, p).pos = p
           /\ AfterMatch(f, p).i = IF SymbolOf(f).many THEN f.i ELSE f.i + 1
           /\ IsFrame(AfterMiss(f))
           /\ AfterMiss(f).line = f.line
           /\ AfterMiss(f).pos = f.pos
           /\ ~AfterMiss(f).hit
           /\ AfterMiss(f).some => f.some
           /\ AfterMiss(f).i = IF SymbolOf(f).optional THEN f.i + 1 ELSE f.i
           /\ ~SymbolOf(f).optional => AfterMiss(f).dead
<1>0. Len(Lines[f.line]) \in Nat
  BY Grammar DEF IsFrame, LineIs
<1>1. (f.some \/ SymbolOf(f).many) \in BOOLEAN /\ (f.some /\ SymbolOf(f).many) \in BOOLEAN
  OBVIOUS
<1>2. /\ f = [line |-> f.line, i |-> f.i, alt |-> f.alt, pos |-> f.pos,
               hit |-> f.hit, some |-> f.some, dead |-> f.dead]
      /\ f.line \in DOMAIN Lines /\ f.pos \in Nat \ {0}
      /\ f.i \in 1..Len(Lines[f.line]) /\ f.i + 1 \in 1..Len(Lines[f.line]) + 1
      /\ f.i \in 1..Len(Lines[f.line]) + 1
  BY <1>0 DEF IsFrame
<1>3. ASSUME NEW i \in 1..Len(Lines[f.line]) + 1, NEW q \in Nat \ {0}, NEW h, NEW s, NEW d
      PROVE  LET g == [line |-> f.line, i |-> i, alt |-> 0, pos |-> q, hit |-> h, some |-> s, dead |-> d]
             IN  IsFrame(g) /\ g.line = f.line /\ g.i = i /\ g.pos = q
                 /\ g.hit = h /\ g.some = s /\ g.dead = d
  BY <1>2 DEF IsFrame
<1>4. ASSUME NEW s \in BOOLEAN, s = (f.some \/ SymbolOf(f).many)
      PROVE  AfterMatch(f, p) = [line |-> f.line, i |-> IF SymbolOf(f).many THEN f.i ELSE f.i + 1,
                                 alt |-> 0, pos |-> p, hit |-> TRUE, some |-> s, dead |-> f.dead]
  <2>1. AfterMatch(f, p) = [f EXCEPT !.pos = p, !.alt = 0, !.hit = TRUE,
                                     !.i = IF SymbolOf(f).many THEN f.i ELSE f.i + 1,
                                     !.some = s]
    BY <1>4 DEF AfterMatch
  <2> QED BY <1>2, <2>1
<1>5. /\ IsFrame(AfterMatch(f, p))
      /\ AfterMatch(f, p).line = f.line
      /\ AfterMatch(f, p).pos = p
      /\ AfterMatch(f, p).i = IF SymbolOf(f).many THEN f.i ELSE f.i + 1
  <2>1. PICK s \in BOOLEAN : s = (f.some \/ SymbolOf(f).many)
    BY <1>1
  <2>2. AfterMatch(f, p) = [line |-> f.line, i |-> IF SymbolOf(f).many THEN f.i ELSE f.i + 1,
                            alt |-> 0, pos |-> p, hit |-> TRUE, some |-> s, dead |-> f.dead]
    BY <1>4, <2>1
  <2>3. (IF SymbolOf(f).many THEN f.i ELSE f.i + 1) \in 1..Len(Lines[f.line]) + 1
    BY <1>2
  <2> QED BY <1>3, <2>2, <2>3
<1>6. CASE SymbolOf(f).optional
  <2>1. AfterMiss(f) = [line |-> f.line, i |-> f.i + 1, alt |-> 0, pos |-> f.pos,
                        hit |-> FALSE, some |-> f.some, dead |-> f.dead]
    BY <1>2, <1>6 DEF AfterMiss
  <2>2. /\ IsFrame(AfterMiss(f)) /\ AfterMiss(f).line = f.line /\ AfterMiss(f).pos = f.pos
        /\ AfterMiss(f).hit = FALSE /\ AfterMiss(f).some = f.some /\ AfterMiss(f).i = f.i + 1
    BY <1>2, <1>3, <2>1
  <2> QED BY <1>5, <1>6, <2>2
<1>7. CASE ~SymbolOf(f).optional
  <2>1. PICK s \in BOOLEAN : s = (f.some /\ SymbolOf(f).many)
    BY <1>1
  <2>2. AfterMiss(f) = [f EXCEPT !.dead = TRUE, !.alt = 0, !.hit = FALSE, !.some = s]
    BY <1>7, <2>1 DEF AfterMiss
  <2>3. AfterMiss(f) = [line |-> f.line, i |-> f.i, alt |-> 0, pos |-> f.pos,
                        hit |-> FALSE, some |-> s, dead |-> TRUE]
    BY <1>2, <2>2
  <2>4. /\ IsFrame(AfterMiss(f)) /\ AfterMiss(f).line = f.line /\ AfterMiss(f).pos = f.pos
        /\ AfterMiss(f).hit = FALSE /\ AfterMiss(f).some = s /\ AfterMiss(f).i = f.i
        /\ AfterMiss(f).dead = TRUE
    BY <1>2, <1>3, <2>3
  <2> QED BY <1>5, <1>7, <2>1, <2>4
<1> QED BY <1>6, <1>7

LEMMA CallFacts ==
    ASSUME NEW line \in DOMAIN Lines, NEW p \in Nat \ {0}
    PROVE  /\ IsFrame(Call(line, p))
           /\ Call(line, p).line = line /\ Call(line, p).i = 1 /\ Call(line, p).pos = p
           /\ ~Call(line, p).hit /\ ~Call(line, p).some /\ ~Call(line, p).dead
<1>1. Len(Lines[line]) \in Nat
  BY Grammar DEF LineIs
<1> QED BY <1>1 DEF Call, IsFrame

\* A call that tries another choice.
LEMMA TriesFacts ==
    ASSUME NEW f, IsFrame(f), NEW a
    PROVE  LET g == [f EXCEPT !.alt = a]
           IN  /\ IsFrame(g) /\ g.alt = a
               /\ g.line = f.line /\ g.i = f.i /\ g.pos = f.pos
               /\ g.hit = f.hit /\ g.some = f.some /\ g.dead = f.dead
  BY DEF IsFrame

------------------------------------------------------------------------------
(* The stack of calls.                                                     *)

\* t has n elements, and the first m of them in common with s.
Agrees(t, n, s, m) ==
    /\ IsSeq(t)
    /\ Len(t) = n
    /\ \A k \in 1..m : t[k] = s[k]

LEMMA FirstOnes ==
    ASSUME NEW s, IsSeq(s), NEW n \in Nat, n <= Len(s)
    PROVE  Agrees(SubSeq(s, 1, n), n, s, n)
<1>1. PICK S : s \in Seq(S)
  BY DEF IsSeq
<1>2. Len(s) \in Nat /\ 1 \in Int /\ n \in Int /\ \A k \in 1..n : s[k] \in S
  BY <1>1
<1>3. /\ SubSeq(s, 1, n) \in Seq(S)
      /\ Len(SubSeq(s, 1, n)) = IF 1 <= n THEN n - 1 + 1 ELSE 0
      /\ \A k \in 1..n - 1 + 1 : SubSeq(s, 1, n)[k] = s[1 + k - 1]
  BY <1>2, SubSeqProperties
<1> DEFINE t == SubSeq(s, 1, n)
<1> HIDE DEF t
<1>4. t \in Seq(S) /\ Len(t) = n
  BY <1>3 DEF t
<1>5. \A k \in 1..n : t[k] = s[1 + k - 1] /\ 1 + k - 1 = k
  BY <1>3 DEF t
<1>6. IsSeq(t)
  BY <1>4 DEF IsSeq
<1>7. Agrees(t, n, s, n)
  BY <1>4, <1>5, <1>6 DEF Agrees
<1> QED BY <1>7 DEF t

LEMMA FrontFacts ==
    ASSUME NEW s, IsSeq(s), Len(s) > 0
    PROVE  Agrees(Front(s), Len(s) - 1, s, Len(s) - 1) /\ Len(s) - 1 \in Nat
<1>1. Len(s) - 1 \in Nat /\ Len(s) - 1 <= Len(s)
  <2>1. Len(s) \in Nat
    BY AppendFacts
  <2> QED BY <2>1
<1> QED BY <1>1, FirstOnes DEF Front

LEMMA OneMore ==
    ASSUME NEW s, IsSeq(s), NEW x
    PROVE  Agrees(Append(s, x), Len(s) + 1, s, Len(s)) /\ Append(s, x)[Len(s) + 1] = x
  BY AppendFacts DEF Agrees

LEMMA TwoMore ==
    ASSUME NEW s, IsSeq(s), NEW x, NEW y
    PROVE  /\ Agrees(s \o <<x, y>>, Len(s) + 2, s, Len(s))
           /\ (s \o <<x, y>>)[Len(s) + 1] = x
           /\ (s \o <<x, y>>)[Len(s) + 2] = y
<1>1. PICK S : s \in Seq(S)
  BY DEF IsSeq
<1> DEFINE T == S \cup {x, y}
           e == <<x, y>>
<1>2. s \in Seq(T) /\ e \in Seq(T) /\ Len(e) = 2 /\ e[1] = x /\ e[2] = y
  BY <1>1
<1> HIDE DEF T, e
<1>3. /\ s \o e \in Seq(T)
      /\ Len(s \o e) = Len(s) + 2
      /\ \A k \in 1..Len(s) : (s \o e)[k] = s[k]
      /\ (s \o e)[Len(s) + 1] = e[1]
      /\ (s \o e)[Len(s) + 2] = e[2]
  <2>1. /\ s \o e \in Seq(T)
        /\ Len(s \o e) = Len(s) + Len(e)
        /\ \A i \in 1..Len(s) + Len(e) : (s \o e)[i] = IF i <= Len(s) THEN s[i] ELSE e[i - Len(s)]
    BY <1>2, ConcatProperties
  <2>2. Len(s) \in Nat
    BY <1>2
  <2> QED BY <1>2, <2>1, <2>2
<1> QED BY <1>2, <1>3 DEF IsSeq, e, Agrees

\* What the steps of process_line do to the stack: the top call goes on; it
\* tries a choice; it returns to its caller; its caller tries the next choice.
GoesOn(s, x) == Append(Front(s), x)
Tries(s, c, x) == Front(s) \o <<c, x>>
Returns(s, c) == Append(Front(Front(s)), c)
TriesNext(s, c, x) == Front(Front(s)) \o <<c, x>>

LEMMA StackOps ==
    ASSUME NEW s, IsSeq(s), NEW n \in Nat, n > 0, Len(s) = n, NEW c, NEW x
    PROVE  /\ Last(s) = s[n]
           /\ Agrees(GoesOn(s, x), n, s, n - 1)
           /\ GoesOn(s, x)[n] = x
           /\ Agrees(Tries(s, c, x), n + 1, s, n - 1)
           /\ Tries(s, c, x)[n] = c
           /\ Tries(s, c, x)[n + 1] = x
<1> DEFINE f == Front(s)
<1>1. Agrees(f, n - 1, s, n - 1)
  BY FrontFacts
<1> HIDE DEF f
<1>2. IsSeq(f) /\ Len(f) = n - 1 /\ \A k \in 1..n - 1 : f[k] = s[k]
  BY <1>1 DEF Agrees
<1>3. Agrees(Append(f, x), n, f, n - 1) /\ Append(f, x)[n] = x
  <2>1. Agrees(Append(f, x), Len(f) + 1, f, Len(f)) /\ Append(f, x)[Len(f) + 1] = x
    BY <1>2, OneMore
  <2>2. Len(f) = n - 1 /\ Len(f) + 1 = n
    BY <1>2
  <2> QED BY <2>1, <2>2
<1>4. Agrees(f \o <<c, x>>, n + 1, f, n - 1)
      /\ (f \o <<c, x>>)[n] = c /\ (f \o <<c, x>>)[n + 1] = x
  <2>1. /\ Agrees(f \o <<c, x>>, Len(f) + 2, f, Len(f))
        /\ (f \o <<c, x>>)[Len(f) + 1] = c /\ (f \o <<c, x>>)[Len(f) + 2] = x
    BY <1>2, TwoMore
  <2>2. Len(f) = n - 1 /\ Len(f) + 1 = n /\ Len(f) + 2 = n + 1
    BY <1>2
  <2> HIDE DEF Agrees
  <2> DEFINE t == f \o <<c, x>>
  <2> HIDE DEF t
  <2>3. Agrees(t, Len(f) + 2, f, Len(f)) /\ t[Len(f) + 1] = c /\ t[Len(f) + 2] = x
    BY <2>1 DEF t
  <2>4. Agrees(t, n + 1, f, n - 1) /\ t[n] = c /\ t[n + 1] = x
    BY <2>2, <2>3
  <2> QED BY <2>4 DEF t
<1> DEFINE t == f \o <<c, x>>
           u == Append(f, x)
<1>5. t = Tries(s, c, x) /\ u = GoesOn(s, x)
  BY DEF Tries, GoesOn, f
<1> HIDE DEF t, u
<1>6. Agrees(t, n + 1, s, n - 1) /\ t[n] = c /\ t[n + 1] = x
  BY <1>2, <1>4 DEF Agrees, t
<1>7. Agrees(u, n, s, n - 1) /\ u[n] = x
  BY <1>2, <1>3 DEF Agrees, u
<1> QED BY <1>5, <1>6, <1>7 DEF Last

LEMMA CallerOps ==
    ASSUME NEW s, IsSeq(s), NEW n \in Nat, n > 1, Len(s) = n, NEW c, NEW x
    PROVE  /\ Last(Front(s)) = s[n - 1]
           /\ Agrees(Returns(s, c), n - 1, s, n - 2)
           /\ Returns(s, c)[n - 1] = c
           /\ Agrees(TriesNext(s, c, x), n, s, n - 2)
           /\ TriesNext(s, c, x)[n - 1] = c
           /\ TriesNext(s, c, x)[n] = x
<1> DEFINE f == Front(s)
           m == n - 1
<1>1. Agrees(f, n - 1, s, n - 1)
  BY FrontFacts
<1> HIDE DEF f
<1>2. IsSeq(f) /\ Len(f) = m /\ m \in Nat /\ m > 0 /\ \A k \in 1..m : f[k] = s[k]
  BY <1>1 DEF Agrees
<1>3. m + 1 = n /\ m - 1 = n - 2 /\ \A k \in 1..n - 2 : k \in 1..m
  OBVIOUS
<1> HIDE DEF m
<1>4. /\ Last(f) = f[m]
      /\ Agrees(GoesOn(f, c), m, f, m - 1)
      /\ GoesOn(f, c)[m] = c
      /\ Agrees(Tries(f, c, x), m + 1, f, m - 1)
      /\ Tries(f, c, x)[m] = c
      /\ Tries(f, c, x)[m + 1] = x
  BY <1>2, StackOps
<1> DEFINE u == GoesOn(f, c)
           v == Tries(f, c, x)
<1>5. Returns(s, c) = u /\ TriesNext(s, c, x) = v
  BY DEF Returns, GoesOn, TriesNext, Tries, f
<1>6. Agrees(u, m, s, m - 1) /\ u[m] = c /\ Last(f) = s[m]
  BY <1>2, <1>3, <1>4 DEF Agrees
<1>7. Agrees(v, m + 1, s, m - 1) /\ v[m] = c /\ v[m + 1] = x
  BY <1>2, <1>3, <1>4 DEF Agrees
<1> HIDE DEF u, v
<1>8. Agrees(u, n - 1, s, n - 2) /\ u[n - 1] = c /\ Last(f) = s[n - 1]
  BY <1>3, <1>6 DEF m
<1>9. Agrees(v, n, s, n - 2) /\ v[n - 1] = c /\ v[n] = x
  BY <1>3, <1>7 DEF m
<1> QED BY <1>5, <1>8, <1>9 DEF f

\* Call f was made by c, for the choice that c tries.
Nests(f, c) ==
    /\ c.i \in 1..Len(Lines[c.line]) /\ ~c.dead
    /\ ~SymbolOf(c).term
    /\ c.alt \in 1..Len(SymbolOf(c).elems)
    /\ f.line = SymbolOf(c).elems[c.alt]

Stacked(st) ==
    /\ IsSeq(st)
    /\ \A k \in 1..Len(st) : IsFrame(st[k])
    /\ Len(st) > 0 => st[1].line = "rule_xml_document"
    /\ \A k \in 2..Len(st) : Nests(st[k], st[k - 1])

\* Call m goes on, and may make another one.
LEMMA StackedAgain ==
    ASSUME NEW st, Stacked(st), NEW m \in 1..Len(st), NEW t, NEW l \in {m, m + 1},
           Agrees(t, l, st, m - 1), IsFrame(t[m]), t[m].line = st[m].line,
           l = m + 1 => IsFrame(t[m + 1]) /\ Nests(t[m + 1], t[m])
    PROVE  Stacked(t)
<1>1. /\ IsSeq(t) /\ Len(t) = l /\ m \in Nat /\ m > 0 /\ Len(st) \in Nat
      /\ \A k \in 1..m - 1 : t[k] = st[k] /\ k \in 1..Len(st)
  <2>1. Len(st) \in Nat
    BY AppendFacts DEF Stacked
  <2> QED BY <2>1 DEF Agrees
<1>2. \A k \in 1..l : IsFrame(t[k])
  <2> SUFFICES ASSUME NEW k \in 1..l PROVE IsFrame(t[k])
    OBVIOUS
  <2>1. k \in 1..m - 1 \/ k = m \/ (l = m + 1 /\ k = m + 1)
    BY <1>1
  <2> QED BY <1>1, <2>1 DEF Stacked
<1>3. t[1].line = "rule_xml_document"
  <2>1. m = 1 \/ 1 \in 1..m - 1
    BY <1>1
  <2> QED BY <1>1, <2>1 DEF Stacked
<1>4. \A k \in 2..l : Nests(t[k], t[k - 1])
  <2> SUFFICES ASSUME NEW k \in 2..l PROVE Nests(t[k], t[k - 1])
    OBVIOUS
  <2>1. k \in 2..m - 1 \/ (k = m /\ m > 1) \/ (l = m + 1 /\ k = m + 1)
    BY <1>1
  <2>2. CASE k \in 2..m - 1
    <3>1. t[k] = st[k] /\ t[k - 1] = st[k - 1] /\ k \in 2..Len(st)
      BY <1>1, <2>2
    <3> QED BY <3>1 DEF Stacked
  <2>3. CASE k = m /\ m > 1
    <3>1. t[k].line = st[k].line /\ t[k - 1] = st[k - 1] /\ k \in 2..Len(st)
      BY <1>1, <2>3
    <3>2. Nests(st[k], st[k - 1])
      BY <3>1 DEF Stacked
    <3> QED BY <3>1, <3>2 DEF Nests
  <2>4. CASE l = m + 1 /\ k = m + 1
    <3>1. k - 1 = m
      BY <1>1, <2>4
    <3> QED BY <2>4, <3>1
  <2> QED BY <2>1, <2>2, <2>3, <2>4
<1> QED BY <1>1, <1>2, <1>3, <1>4 DEF Stacked

\* Where a call of a line may be.
LEMMA Callers ==
    ASSUME NEW st, Stacked(st), NEW k \in 2..Len(st)
    PROVE  /\ IsFrame(st[k]) /\ IsFrame(st[k - 1])
           /\ Nests(st[k], st[k - 1])
           /\ CallOf(st[k - 1].line, st[k - 1].i, st[k - 1].alt, st[k].line)
<1>1. Len(st) \in Nat
  BY AppendFacts DEF Stacked
<1>2. k \in 1..Len(st) /\ k - 1 \in 1..Len(st)
  BY <1>1
<1>3. IsFrame(st[k]) /\ IsFrame(st[k - 1]) /\ Nests(st[k], st[k - 1])
  BY <1>2 DEF Stacked
<1>4. LineIs(st[k - 1].line)
  BY <1>3, Grammar DEF IsFrame
<1>5. ChoiceIs(st[k - 1].line, st[k - 1].i)
  BY <1>3, <1>4 DEF LineIs, SymbolIs, Nests
<1>6. CallOf(st[k - 1].line, st[k - 1].i, st[k - 1].alt, st[k].line)
  BY <1>3, <1>5 DEF ChoiceIs, Nests, SymbolOf
<1> QED BY <1>3, <1>6

InTag(st, k) == k \in 1..Len(st) /\ st[k].line = "rule_xml_tag"
IsEnd(f) == f.line \in {"rule_xml_tag_end_full", "rule_xml_tag_end_empty"}

LEMMA EndPlace ==
    ASSUME NEW st, Stacked(st), NEW k \in 1..Len(st), IsEnd(st[k])
    PROVE  /\ k > 2
           /\ InTag(st, k - 1)
           /\ st[k - 1].i = 6 /\ ~st[k - 1].dead
           /\ st[k - 1].alt = IF st[k].line = "rule_xml_tag_end_full" THEN 1 ELSE 2
<1>1. k \in Nat /\ Len(st) \in Nat
  BY AppendFacts DEF Stacked
<1>2. k # 1
  BY DEF Stacked, IsEnd
<1>3. k \in 2..Len(st)
  BY <1>1, <1>2
<1>4. CallOf(st[k - 1].line, st[k - 1].i, st[k - 1].alt, st[k].line) /\ Nests(st[k], st[k - 1])
  BY <1>3, Callers
<1>5. st[k - 1].line = "rule_xml_tag" /\ st[k - 1].i = 6 /\ ~st[k - 1].dead
      /\ st[k - 1].alt = IF st[k].line = "rule_xml_tag_end_full" THEN 1 ELSE 2
  BY <1>4 DEF CallOf, IsEnd, Nests
<1>6. k - 1 # 1
  BY <1>5, <1>3 DEF Stacked
<1> QED BY <1>1, <1>3, <1>5, <1>6 DEF InTag

LEMMA ContentPlace ==
    ASSUME NEW st, Stacked(st), NEW k \in 1..Len(st),
           st[k].line \in {"tag_value_line", "recourse_tag_line"}
    PROVE  /\ k > 3
           /\ st[k - 1].line = "rule_xml_tag_end_full" /\ st[k - 1].i = 2
           /\ InTag(st, k - 2) /\ st[k - 2].i = 6
<1>1. k \in Nat /\ Len(st) \in Nat
  BY AppendFacts DEF Stacked
<1>2. k # 1
  BY DEF Stacked
<1>3. k \in 2..Len(st)
  BY <1>1, <1>2
<1>4. CallOf(st[k - 1].line, st[k - 1].i, st[k - 1].alt, st[k].line)
  BY <1>3, Callers
<1>5. st[k - 1].line = "rule_xml_tag_end_full" /\ st[k - 1].i = 2
  BY <1>4 DEF CallOf
<1>6. k - 1 \in 1..Len(st) /\ k - 1 - 1 = k - 2
  BY <1>1, <1>3
<1>7. k - 1 > 2 /\ InTag(st, k - 1 - 1) /\ st[k - 1 - 1].i = 6
  BY <1>5, <1>6, EndPlace DEF IsEnd
<1> QED BY <1>1, <1>5, <1>6, <1>7

LEMMA TagPlace ==
    ASSUME NEW st, Stacked(st), NEW k, InTag(st, k)
    PROVE  \/ k = 2 /\ st[1].i = 3
           \/ /\ k > 4
              /\ st[k - 1].line = "recourse_tag_line"
              /\ st[k - 2].line = "rule_xml_tag_end_full" /\ st[k - 2].i = 2
              /\ InTag(st, k - 3) /\ st[k - 3].i = 6
<1>1. k \in Nat /\ k \in 1..Len(st) /\ Len(st) \in Nat /\ st[k].line = "rule_xml_tag"
  BY AppendFacts DEF Stacked, InTag
<1>2. k # 1
  BY <1>1 DEF Stacked
<1>3. k \in 2..Len(st)
  BY <1>1, <1>2
<1>4. CallOf(st[k - 1].line, st[k - 1].i, st[k - 1].alt, st[k].line)
  BY <1>3, Callers
<1>5. \/ st[k - 1].line = "recourse_tag_line"
      \/ st[k - 1].line = "rule_xml_document" /\ st[k - 1].i = 3
  BY <1>1, <1>4 DEF CallOf
<1>6. CASE st[k - 1].line = "recourse_tag_line"
  <2>1. k - 1 \in 1..Len(st) /\ k - 1 - 1 = k - 2 /\ k - 1 - 2 = k - 3
    BY <1>1, <1>3
  <2>2. /\ k - 1 > 3
        /\ st[k - 1 - 1].line = "rule_xml_tag_end_full" /\ st[k - 1 - 1].i = 2
        /\ InTag(st, k - 1 - 2) /\ st[k - 1 - 2].i = 6
    BY <1>6, <2>1, ContentPlace
  <2> QED BY <1>1, <1>6, <2>1, <2>2
<1>7. CASE st[k - 1].line = "rule_xml_document" /\ st[k - 1].i = 3
  <2>1. k = 2 \/ k - 1 \in 2..Len(st)
    BY <1>1, <1>3
  <2>2. k - 1 \notin 2..Len(st)
    <3>1. SUFFICES ASSUME k - 1 \in 2..Len(st) PROVE FALSE
      OBVIOUS
    <3>2. CallOf(st[k - 1 - 1].line, st[k - 1 - 1].i, st[k - 1 - 1].alt, st[k - 1].line)
      BY <3>1, Callers
    <3> QED BY <1>7, <3>2 DEF CallOf
  <2> QED BY <1>7, <2>1, <2>2
<1> QED BY <1>5, <1>6, <1>7

\* A tag whose beginning the walker has seen, and not its end,
Opened(st, k) ==
    /\ InTag(st, k)
    /\ \/ st[k].i = 7
       \/ /\ k < Len(st)
          /\ st[k + 1].line = "rule_xml_tag_end_full" /\ st[k + 1].i > 1

\* and one that the walker may still see.
ReadsIn(text, lit, p) == IsPrefix(lit, SubSeq(text, p, Len(text)))

Unopened(text, st, k) ==
    /\ InTag(st, k)
    /\ ~st[k].dead /\ st[k].i < 7
    /\ \/ k = Len(st)
       \/ st[k + 1].line = "attr_line"
       \/ st[k + 1].line = "rule_xml_tag_end_full" /\ st[k + 1].i = 1
       \/ st[k + 1].line = "rule_xml_tag_end_empty" /\ ~ReadsIn(text, <<">">>, st[k].pos)

LEMMA UnopenedAtTop ==
    ASSUME NEW text, NEW st, Stacked(st), NEW k, Unopened(text, st, k)
    PROVE  k = Len(st) \/ k = Len(st) - 1
<1>1. k \in Nat /\ k \in 1..Len(st) /\ Len(st) \in Nat
  BY AppendFacts DEF Stacked, InTag, Unopened
<1> SUFFICES ASSUME k # Len(st), k # Len(st) - 1 PROVE FALSE
  OBVIOUS
<1> DEFINE f == st[k + 1]
<1>2. k + 1 \in 1..Len(st) /\ k + 2 \in 2..Len(st) /\ k + 2 - 1 = k + 1
  BY <1>1
<1>3. ASSUME NEW j \in 2..Len(st), j = k + 2 PROVE Nests(st[j], f)
  <2>1. Nests(st[j], st[j - 1]) /\ j - 1 = k + 1
    BY <1>1, <1>3 DEF Stacked
  <2> QED BY <2>1
<1>4. Nests(st[k + 2], f) /\ IsFrame(f)
  BY <1>2, <1>3 DEF Stacked
<1>5. ~Lines[f.line][f.i].term /\ f.i \in 1..Len(Lines[f.line])
  BY <1>4 DEF Nests, SymbolOf
<1>6. \/ f.line = "attr_line"
      \/ f.line = "rule_xml_tag_end_full" /\ f.i = 1
      \/ f.line = "rule_xml_tag_end_empty"
  BY DEF Unopened
<1> HIDE DEF f
<1>7. CASE f.line = "attr_line"
  BY <1>5, <1>7, GrammarFlags
<1>8. CASE f.line = "rule_xml_tag_end_full" /\ f.i = 1
  BY <1>5, <1>8, GrammarFlags
<1>9. CASE f.line = "rule_xml_tag_end_empty"
  <2>1. f.i = 1
    BY <1>5, <1>9, GrammarFlags
  <2> QED BY <1>5, <1>9, <2>1, GrammarFlags
<1> QED BY <1>6, <1>7, <1>8, <1>9

\* Above a tag that is not the outermost there is an opened one.
LEMMA OpenedAbove ==
    ASSUME NEW st, Stacked(st), NEW k, InTag(st, k), k # 2
    PROVE  k > 4 /\ Opened(st, k - 3)
<1>1. k \in Nat /\ k \in 1..Len(st) /\ Len(st) \in Nat
  BY AppendFacts DEF Stacked, InTag
<1>2. /\ k > 4
      /\ st[k - 2].line = "rule_xml_tag_end_full" /\ st[k - 2].i = 2
      /\ InTag(st, k - 3)
  BY TagPlace
<1>3. k - 3 < Len(st) /\ k - 3 + 1 = k - 2
  BY <1>1, <1>2
<1> QED BY <1>2, <1>3 DEF Opened

LEMMA TagsApart ==
    ASSUME NEW st, Stacked(st), NEW k, NEW m, InTag(st, k), InTag(st, m), k < m
    PROVE  k <= m - 3
<1>1. k \in Nat /\ m \in Nat
  BY DEF InTag
<1>2. InTag(st, k) /\ k # 1
  BY TagPlace
<1>3. m = 2 \/ (m > 4 /\ st[m - 1].line = "recourse_tag_line"
                /\ st[m - 2].line = "rule_xml_tag_end_full")
  BY TagPlace
<1>4. k # m - 1 /\ k # m - 2
  BY <1>1, <1>2, <1>3 DEF InTag
<1> QED BY <1>1, <1>4

------------------------------------------------------------------------------
(* How deep the walker is: the elements from the root to the open one.     *)

Path(w, p, d) ==
    /\ p \in [1..d -> 1..Len(w.nodes)]
    /\ p[d] = w.cur
    /\ \A j \in 2..d : w.nodes[p[j]].parent = p[j - 1]
HasDepth(w, d) == d = 0 \/ \E p : Path(w, p, d)

LEMMA DeepIsOpen ==
    ASSUME NEW w, Fine(w), NEW d \in Nat \ {0}, HasDepth(w, d)
    PROVE  w.cur # NoNode /\ w.root # NoNode
<1>1. PICK p : Path(w, p, d)
  BY DEF HasDepth
<1>2. p[d] \in 1..Len(w.nodes) /\ w.cur = p[d]
  BY <1>1 DEF Path
<1>3. Len(w.nodes) \in Nat /\ Len(w.nodes) # 0
  BY <1>2, FieldsKept
<1>4. w.nodes # <<>>
  BY <1>3, FieldsKept, EmptyLength
<1> QED BY <1>2, <1>4 DEF Fine, LinkedAsATree, Rooted, NoNode

\* The nodes that are there keep their parents.
SameParents(v, w) ==
    /\ Len(w.nodes) <= Len(v.nodes)
    /\ \A k \in 1..Len(w.nodes) : v.nodes[k].parent = w.nodes[k].parent

LEMMA PathHere ==
    ASSUME NEW w, NEW v, NEW d \in Nat, HasDepth(w, d), v.cur = w.cur, SameParents(v, w),
           Len(w.nodes) \in Nat, Len(v.nodes) \in Nat
    PROVE  HasDepth(v, d)
<1>1. CASE d = 0
  BY <1>1 DEF HasDepth
<1>2. CASE d # 0
  <2>1. PICK p : Path(w, p, d)
    BY <1>2 DEF HasDepth
  <2>2. p \in [1..d -> 1..Len(v.nodes)]
    BY <2>1 DEF Path, SameParents
  <2>3. ASSUME NEW j \in 2..d PROVE v.nodes[p[j]].parent = p[j - 1]
    <3>1. p[j] \in 1..Len(w.nodes) /\ w.nodes[p[j]].parent = p[j - 1]
      BY <2>1 DEF Path
    <3> QED BY <3>1 DEF SameParents
  <2>4. p[d] = v.cur
    BY <2>1 DEF Path
  <2>5. Path(v, p, d)
    BY <2>2, <2>3, <2>4 DEF Path
  <2> QED BY <2>5 DEF HasDepth
<1> QED BY <1>1, <1>2

LEMMA PathDown ==
    ASSUME NEW w, NEW v, NEW d \in Nat \ {0}, HasDepth(w, d), SameParents(v, w),
           Len(w.nodes) \in Nat, Len(v.nodes) = Len(w.nodes) + 1,
           v.cur = Len(w.nodes) + 1, v.nodes[v.cur].parent = w.cur
    PROVE  HasDepth(v, d + 1)
<1>1. PICK p : Path(w, p, d)
  BY DEF HasDepth
<1> DEFINE n == Len(w.nodes) + 1
           q == [j \in 1..d + 1 |-> IF j = d + 1 THEN n ELSE p[j]]
<1>2. \A j \in 1..d : q[j] = p[j] /\ p[j] \in 1..Len(w.nodes)
  BY <1>1 DEF Path
<1>3. q[d + 1] = n
  OBVIOUS
<1>4. q \in [1..d + 1 -> 1..Len(v.nodes)]
  <2>1. \A j \in 1..d + 1 : j = d + 1 \/ j \in 1..d
    OBVIOUS
  <2>2. n \in 1..Len(v.nodes) /\ \A k \in 1..Len(w.nodes) : k \in 1..Len(v.nodes)
    OBVIOUS
  <2>3. \A j \in 1..d + 1 : (IF j = d + 1 THEN n ELSE p[j]) \in 1..Len(v.nodes)
    <3> HIDE DEF n
    <3> QED BY <1>2, <2>1, <2>2
  <2> HIDE DEF n
  <2> QED BY <2>3
<1> HIDE DEF q
<1>5. \A j \in 2..d + 1 : v.nodes[q[j]].parent = q[j - 1]
  <2> SUFFICES ASSUME NEW j \in 2..d + 1 PROVE v.nodes[q[j]].parent = q[j - 1]
    OBVIOUS
  <2>1. CASE j = d + 1
    <3>1. q[j] = v.cur /\ j - 1 = d /\ q[d] = p[d] /\ p[d] = w.cur
      BY <1>1, <1>2, <1>3, <2>1 DEF Path
    <3> QED BY <3>1
  <2>2. CASE j # d + 1
    <3>1. j \in 2..d /\ j \in 1..d /\ j - 1 \in 1..d
      BY <2>2
    <3>2. w.nodes[p[j]].parent = p[j - 1] /\ p[j] \in 1..Len(w.nodes)
      BY <1>1, <1>2, <3>1 DEF Path
    <3>3. v.nodes[p[j]].parent = w.nodes[p[j]].parent
      BY <3>2 DEF SameParents
    <3> QED BY <1>2, <3>1, <3>2, <3>3
  <2> QED BY <2>1, <2>2
<1>6. Path(v, q, d + 1)
  BY <1>3, <1>4, <1>5 DEF Path
<1> QED BY <1>6 DEF HasDepth

LEMMA PathUp ==
    ASSUME NEW w, NEW v, NEW d \in Nat \ {0}, HasDepth(w, d), v.nodes = w.nodes,
           v.cur = w.nodes[w.cur].parent
    PROVE  HasDepth(v, d - 1)
<1>1. PICK p : Path(w, p, d)
  BY DEF HasDepth
<1>2. CASE d = 1
  BY <1>2 DEF HasDepth
<1>3. CASE d # 1
  <2> DEFINE q == [j \in 1..d - 1 |-> p[j]]
  <2>1. d \in 2..d /\ \A j \in 1..d - 1 : j \in 1..d
    BY <1>3
  <2>2. q \in [1..d - 1 -> 1..Len(v.nodes)] /\ \A j \in 1..d - 1 : q[j] = p[j]
    BY <1>1, <2>1 DEF Path
  <2> HIDE DEF q
  <2>3. q[d - 1] = v.cur
    BY <1>1, <1>3, <2>1, <2>2 DEF Path
  <2>4. \A j \in 2..d - 1 : v.nodes[q[j]].parent = q[j - 1]
    BY <1>1, <2>2 DEF Path
  <2>5. Path(v, q, d - 1)
    BY <2>2, <2>3, <2>4 DEF Path
  <2> QED BY <2>5 DEF HasDepth
<1> QED BY <1>2, <1>3

\* The handlers, when what they need is there.
LEMMA StartRoot ==
    ASSUME NEW w, Fine(w), w.root = NoNode, NEW name, name # Null, NEW attrs
    PROVE  LET v == startElement(w, name, attrs)
           IN  v.fault = w.fault /\ HasDepth(v, 1)
<1> DEFINE x == new_node(name, attrs)
           t == Append(w.nodes, x)
           v == startElement(w, name, attrs)
<1>1. w = Walker(w.nodes, w.root, w.cur, w.fault) /\ IsSeq(w.nodes)
  BY FieldsKept
<1>2. w.nodes = <<>>
  BY DEF Fine, LinkedAsATree, Rooted, NoNode
<1>3. IsSeq(t) /\ Len(t) = 1
  <2>1. Len(w.nodes) = 0
    BY <1>1, <1>2, EmptyLength
  <2> QED BY <1>1, <2>1, AppendFacts
<1>4. v = Walker(t, 1, 1, w.fault)
  <2>1. Len(w.nodes) + 1 = 1
    BY <1>1, <1>2, EmptyLength
  <2> QED BY <1>1, <2>1 DEF startElement, Walker
<1> HIDE DEF t, v
<1>5. v.nodes = t /\ v.cur = 1 /\ v.fault = w.fault
  BY <1>4 DEF Walker
<1> DEFINE p == [j \in 1..1 |-> 1]
<1>6. p \in [1..1 -> 1..Len(v.nodes)] /\ p[1] = v.cur
  <2>1. 1 \in 1..1 /\ v.cur = 1 /\ 1 \in 1..Len(v.nodes)
    <3>1. v.nodes = t /\ Len(t) = 1 /\ v.cur = 1
      BY <1>3, <1>5
    <3>2. Len(v.nodes) = 1
      BY <3>1
    <3>3. 1 \in 1..1
      OBVIOUS
    <3> QED BY <3>1, <3>2, <3>3
  <2>2. p[1] = 1
    BY <2>1
  <2>3. p \in [1..1 -> 1..Len(v.nodes)]
    BY <2>1
  <2> QED BY <2>1, <2>2, <2>3
<1> HIDE DEF p
<1>7. Path(v, p, 1)
  BY <1>6 DEF Path
<1> QED BY <1>5, <1>7 DEF HasDepth, v

LEMMA StartChild ==
    ASSUME NEW w, Fine(w), NEW d \in Nat \ {0}, HasDepth(w, d), NEW name, name # Null, NEW attrs
    PROVE  LET v == startElement(w, name, attrs)
           IN  v.fault = w.fault /\ v.root = w.root /\ HasDepth(v, d + 1)
<1> DEFINE x == new_node(name, attrs)
           n == Len(w.nodes) + 1
           g == Append(w.nodes, x)
           t == node_add_child(g, w.cur, n)
           v == startElement(w, name, attrs)
<1>1. /\ w = Walker(w.nodes, w.root, w.cur, w.fault)
      /\ IsSeq(w.nodes) /\ Len(w.nodes) \in Nat
      /\ \A k \in 1..Len(w.nodes) : IsNode(w.nodes[k])
  BY FieldsKept
<1>2. w.cur # NoNode /\ w.root # NoNode
  BY DeepIsOpen
<1>3. v = Walker(t, w.root, n, w.fault)
  BY <1>1, <1>2 DEF startElement, Walker
<1>4. w.cur \in 1..Len(w.nodes)
  BY <1>2, FieldsKept DEF NoNode
<1>5. IsNode(x)
  BY DEF new_node, IsNode
<1> HIDE DEF x
<1>6. /\ IsSeq(g) /\ Len(g) = n /\ g[n] = x
      /\ \A k \in 1..Len(w.nodes) : g[k] = w.nodes[k]
  BY <1>1, AppendFacts
<1> HIDE DEF g
<1>7. \A k \in 1..Len(g) : IsNode(g[k])
  BY <1>1, <1>5, <1>6
<1>8. w.nodes[w.cur].first # NoNode => w.nodes[w.cur].last \in 1..Len(w.nodes)
  BY <1>4 DEF Fine, LinkedAsATree, HasChildren
<1>9. g[w.cur].first # NoNode => g[w.cur].last \in 1..Len(g)
  BY <1>1, <1>4, <1>6, <1>8
<1>10. w.cur \in 1..Len(g) /\ n \in 1..Len(g) /\ w.cur # n
  BY <1>1, <1>4, <1>6
<1>11. /\ Len(t) = Len(g)
       /\ \A k \in 1..Len(g) : t[k].parent = IF k = n THEN w.cur ELSE g[k].parent
  <2> HIDE DEF n
  <2> QED BY <1>6, <1>7, <1>9, <1>10, AddChildFacts
<1> HIDE DEF t, v
<1>12. v.nodes = t /\ v.root = w.root /\ v.cur = n /\ v.fault = w.fault
  BY <1>3 DEF Walker
<1>13. SameParents(v, w)
  BY <1>1, <1>6, <1>11, <1>12 DEF SameParents
<1>14. v.nodes[v.cur].parent = w.cur /\ Len(v.nodes) = Len(w.nodes) + 1
  BY <1>6, <1>10, <1>11, <1>12
<1> QED BY <1>1, <1>12, <1>13, <1>14, PathDown DEF v

LEMMA CharDeep ==
    ASSUME NEW w, Fine(w), NEW d \in Nat \ {0}, HasDepth(w, d), NEW s
    PROVE  LET v == charDatahandler(w, s)
           IN  v.fault = w.fault /\ v.root = w.root /\ HasDepth(v, d)
<1> DEFINE v == charDatahandler(w, s)
           p == w.cur
           x == [w.nodes[p] EXCEPT !.data = @ \o s]
           t == Put(w.nodes, p, x)
<1>1. CASE Blank(s)
  BY <1>1 DEF charDatahandler
<1>2. CASE ~Blank(s)
  <2>1. /\ w = Walker(w.nodes, w.root, w.cur, w.fault)
        /\ IsSeq(w.nodes) /\ Len(w.nodes) \in Nat
        /\ \A k \in 1..Len(w.nodes) : IsNode(w.nodes[k])
    BY FieldsKept
  <2>2. w.cur # NoNode /\ p \in 1..Len(w.nodes)
    BY DeepIsOpen, FieldsKept DEF NoNode
  <2>3. v = [w EXCEPT !.nodes[w.cur].data = @ \o s]
    BY <1>2, <2>2 DEF charDatahandler
  <2>4. [w EXCEPT !.nodes[w.cur].data = @ \o s] = [w EXCEPT !.nodes = t]
    BY DEF Put
  <2>5. x.parent = w.nodes[p].parent
    <3>1. IsNode(w.nodes[p])
      BY <2>1, <2>2
    <3> QED BY <3>1 DEF IsNode
  <2> HIDE DEF x
  <2>6. Len(t) = Len(w.nodes) /\ \A k \in 1..Len(w.nodes) : t[k] = IF k = p THEN x ELSE w.nodes[k]
    BY <2>1, <2>2, PutFacts
  <2> HIDE DEF t, v
  <2>7. v = Walker(t, w.root, w.cur, w.fault)
    BY <2>1, <2>3, <2>4 DEF Walker
  <2>8. v.nodes = t /\ v.root = w.root /\ v.cur = w.cur /\ v.fault = w.fault
    BY <2>7 DEF Walker
  <2>9. SameParents(v, w)
    BY <2>1, <2>5, <2>6, <2>8 DEF SameParents
  <2>10. HasDepth(v, d)
    BY <2>1, <2>6, <2>8, <2>9, PathHere
  <2> QED BY <2>8, <2>10 DEF v
<1> QED BY <1>1, <1>2

LEMMA EndDeep ==
    ASSUME NEW w, Fine(w), NEW d \in Nat \ {0}, HasDepth(w, d)
    PROVE  LET v == endElement(w)
           IN  v.fault = w.fault /\ v.root = w.root /\ HasDepth(v, d - 1)
<1> DEFINE v == endElement(w)
           c == w.nodes[w.cur].parent
<1>1. w = Walker(w.nodes, w.root, w.cur, w.fault)
  BY FieldsKept
<1>2. w.cur # NoNode
  BY DeepIsOpen
<1>3. v = Walker(w.nodes, w.root, c, w.fault)
  BY <1>1, <1>2 DEF endElement, Walker
<1> HIDE DEF v, c
<1>4. v.nodes = w.nodes /\ v.cur = c /\ v.root = w.root /\ v.fault = w.fault
  BY <1>3 DEF Walker
<1>5. HasDepth(v, d - 1)
  BY <1>4, PathUp DEF c
<1> QED BY <1>4, <1>5 DEF v

------------------------------------------------------------------------------
(* Tokens.                                                                 *)

LEMMA LeastNat ==
    ASSUME NEW T \in SUBSET Nat, T # {}
    PROVE  \E x \in T : \A y \in T : x <= y
<1> DEFINE R == OpToRel(<, Nat)
<1>1. IsWellFoundedOn(R, Nat)
  BY NatLessThanWellFounded DEF OpToRel
<1>2. PICK x \in T : \A y \in T : ~(<<y, x>> \in R)
  <2> HIDE DEF R
  <2> QED BY <1>1, WFMin
<1>3. \A y \in T : ~(y < x)
  BY <1>2 DEF OpToRel
<1>4. \A y \in T : x <= y
  BY <1>3
<1> QED BY <1>4

LEMMA RunIsLong ==
    ASSUME IsSeq(content), NEW p \in 1..Len(content) + 1, NEW stops
    PROVE  RunLength(p, stops) \in Nat
<1> DEFINE found == {k \in p..Len(content) : content[k] \in stops}
<1>1. Len(content) \in Nat /\ p \in Nat
  BY AppendFacts
<1>2. found \in SUBSET Nat /\ \A k \in found : k \in Nat /\ k >= p
  BY <1>1
<1>3. CASE found = {}
  BY <1>1, <1>3 DEF RunLength
<1>4. CASE found # {}
  <2>1. \E x \in found : \A y \in found : x <= y
    BY <1>2, <1>4, LeastNat
  <2>2. Min(found) \in found
    <3> HIDE DEF found
    <3> QED BY <2>1 DEF Min
  <2>3. RunLength(p, stops) = Min(found) - p
    BY <1>4 DEF RunLength
  <2> QED BY <1>1, <1>2, <2>2, <2>3
<1> QED BY <1>3, <1>4

\* A match moves on, or stays.
LEMMA TokenMoves ==
    ASSUME IsSeq(content), NEW p \in 1..Len(content), NEW token, IsToken(token),
           NEW r, r = read_token(token, p), r.hit
    PROVE  r.n \in Nat
<1>1. p \in 1..Len(content) + 1 /\ p + 1 \in 1..Len(content) + 1
  <2>1. Len(content) \in Nat
    BY AppendFacts
  <2> QED BY <2>1
<1>2. \A n, v : Hit(n, v).n = n /\ ~Missed.hit
  BY DEF Hit, Missed
<1>3. CASE token.kind = "const"
  <2>1. r = read_token_const(token.lit, p)
    BY <1>3 DEF read_token
  <2>2. r = Hit(Len(token.lit), token.lit)
    BY <1>2, <2>1 DEF read_token_const
  <2> QED BY <1>2, <2>2 DEF IsToken
<1>4. CASE token.kind = "any_but"
  <2>1. r = read_any_but(token.lit, p)
    BY <1>4 DEF read_token
  <2> DEFINE n == RunLength(p, Range(token.lit))
  <2>2. n \in Nat
    BY <1>1, RunIsLong
  <2>3. r = Hit(n, SubSeq(content, p, p + n - 1))
    BY <1>2, <2>1 DEF read_any_but
  <2> HIDE DEF n
  <2> QED BY <1>2, <2>2, <2>3
<1>5. CASE token.kind = "alphanum"
  <2>1. r = read_token_alphanum(p)
    BY <1>5 DEF read_token
  <2> DEFINE n == RunLength(p, Range(content) \ Words)
  <2>2. n \in Nat
    BY <1>1, RunIsLong
  <2>3. r = Hit(n, SubSeq(content, p, p + n - 1))
    BY <1>2, <2>1 DEF read_token_alphanum
  <2> HIDE DEF n
  <2> QED BY <1>2, <2>2, <2>3
<1>6. CASE token.kind = "whitespace"
  <2>1. r = read_token_whitespace(p)
    BY <1>6 DEF read_token
  <2>2. r = Hit(1, <<Space>>)
    BY <1>2, <2>1 DEF read_token_whitespace
  <2> QED BY <1>2, <2>2
<1>7. CASE token.kind = "attr_val"
  <2>1. r = read_attr_val(p)
    BY <1>7 DEF read_token
  <2> DEFINE n == RunLength(p + 1, {Quote})
             value == SubSeq(content, p + 1, p + n)
  <2>2. n \in Nat
    BY <1>1, RunIsLong
  <2>3. r = Hit(n + 2, value)
    BY <1>2, <2>1 DEF read_attr_val
  <2> HIDE DEF n, value
  <2> QED BY <1>2, <2>2, <2>3
<1> QED BY <1>3, <1>4, <1>5, <1>6, <1>7 DEF IsToken, Kinds

LEMMA LiteralHit ==
    ASSUME NEW p, NEW s, NEW r, r = read_token(Literal(s), p), r.hit
    PROVE  ReadsIn(content, s, p)
<1>1. r = read_token_const(s, p)
  BY DEF read_token, Literal
<1> QED BY <1>1 DEF read_token_const, ReadsIn, Missed

LEMMA NameHit ==
    ASSUME NEW p, NEW r, r = read_token(alphanum, p)
    PROVE  r = read_token_alphanum(p)
  BY DEF read_token, alphanum

\* No place in the input is both the end of an opening tag and that of an
\* empty one.
LEMMA OneEnd ==
    ASSUME NEW text, NEW p, ReadsIn(text, <<">">>, p), ReadsIn(text, <<"/", ">">>, p)
    PROVE  FALSE
<1> DEFINE u == SubSeq(text, p, Len(text))
           a == <<">">>
           b == <<"/", ">">>
<1>1. IsPrefix(a, u) /\ IsPrefix(b, u)
  BY DEF ReadsIn
<1>2. Len(a) = 1 /\ Len(b) = 2 /\ a[1] = ">" /\ b[1] = "/" /\ a[1] # b[1]
  OBVIOUS
<1> HIDE DEF a, b, u
<1>3. SubSeq(a, 1, 1) = SubSeq(u, 1, 1) /\ SubSeq(b, 1, 2) = SubSeq(u, 1, 2)
  BY <1>1, <1>2 DEF IsPrefix
<1>4. ASSUME NEW s, NEW n \in {1, 2} PROVE SubSeq(s, 1, n)[1] = s[1]
  <2> DEFINE S == {s[1], s[2]}
  <2>1. 1 \in Int /\ n \in Int /\ \A i \in 1..n : s[i] \in S
    OBVIOUS
  <2> HIDE DEF S
  <2>2. \A i \in 1..n - 1 + 1 : SubSeq(s, 1, n)[i] = s[1 + i - 1]
    BY <2>1, SubSeqProperties
  <2>3. 1 \in 1..n - 1 + 1 /\ 1 + 1 - 1 = 1
    OBVIOUS
  <2> QED BY <2>2, <2>3
<1>5. SubSeq(a, 1, 1)[1] = a[1] /\ SubSeq(u, 1, 1)[1] = u[1]
      /\ SubSeq(b, 1, 2)[1] = b[1] /\ SubSeq(u, 1, 2)[1] = u[1]
  BY <1>4
<1> QED BY <1>2, <1>3, <1>5

------------------------------------------------------------------------------
(* The tag being read.                                                     *)

IsParse(c) ==
    c = [tagname |-> c.tagname, attrs |-> c.attrs, attrs_num |-> c.attrs_num, used |-> c.used]

LEMMA ParsedFacts ==
    ASSUME NEW c, IsParse(c), NEW h, NEW s
    PROVE  /\ IsParse(Parsed(c, h, s))
           /\ h # "set_tag_name" => Parsed(c, h, s).tagname = c.tagname
           /\ h = "set_tag_name" => Parsed(c, h, s).tagname = place_str(c, s)
           /\ h = "do_tag_reset" => Parsed(c, h, s).used = 0
           /\ h = "none" => Parsed(c, h, s) = c
<1>1. CASE h = "do_tag_reset"
  BY <1>1 DEF Parsed, do_tag_reset, IsParse
<1>2. CASE h = "set_tag_name"
  BY <1>2 DEF Parsed, IsParse
<1>3. CASE h = "set_attr_name"
  <2> DEFINE a == [c.attrs EXCEPT ![c.attrs_num].name = place_str(c, s)]
  <2>1. Parsed(c, h, s) = [c EXCEPT !.attrs = a, !.used = Taken(c, s)]
    BY <1>3 DEF Parsed
  <2> HIDE DEF a
  <2> QED BY <1>3, <2>1 DEF IsParse
<1>4. CASE h = "set_attr_value"
  <2> DEFINE a == [c.attrs EXCEPT ![c.attrs_num].value = place_str(c, s)]
  <2>1. Parsed(c, h, s) = [c EXCEPT !.attrs = a, !.used = Taken(c, s)]
    BY <1>4 DEF Parsed
  <2> HIDE DEF a
  <2> QED BY <1>4, <2>1 DEF IsParse
<1>5. CASE h = "accept_attr"
  BY <1>5 DEF Parsed, IsParse
<1>6. CASE h = "got_tag_open"
  <2> DEFINE a == [c.attrs EXCEPT ![c.attrs_num].value = Null]
  <2>1. Parsed(c, h, s) = [c EXCEPT !.attrs = a]
    BY <1>6 DEF Parsed
  <2> HIDE DEF a
  <2> QED BY <1>6, <2>1 DEF IsParse
<1>7. CASE h \notin {"do_tag_reset", "set_tag_name", "set_attr_name", "set_attr_value",
                     "accept_attr", "got_tag_open"}
  BY <1>7 DEF Parsed
<1> QED BY <1>1, <1>2, <1>3, <1>4, <1>5, <1>6, <1>7

\* A name that fits an empty buffer is stored.
LEMMA NameStored ==
    ASSUME NEW c, c.used = 0, NEW s, place_str(NewParse, s) # Null
    PROVE  place_str(c, s) # Null
<1>1. NewParse.used = 0
  BY DEF NewParse
<1> QED BY <1>1 DEF place_str, Fits

------------------------------------------------------------------------------
(* The parser, the walker and the stack of calls go together.              *)

\* The end of a tag is tried where the tag stands, and has matched its first
\* token there if it went on.
FirstOf(line) == IF line = "rule_xml_tag_end_full" THEN <<">">> ELSE <<"/", ">">>
EndReads(text, f, c) ==
    IsEnd(f) => IF f.i = 1 THEN ~f.hit /\ ~f.some /\ f.pos = c.pos
                ELSE ReadsIn(text, FirstOf(f.line), c.pos)
EndsRead(text, st) == \A k \in 2..Len(st) : EndReads(text, st[k], st[k - 1])

\* A tag that is not opened yet has, after its name, a name, and is the root if
\* it is the outermost one.
Named(text, st, c, w) ==
    \A k \in 1..Len(st) : Unopened(text, st, k) =>
        /\ st[k].i = 3 => c.used = 0
        /\ st[k].i > 3 => c.tagname # Null
        /\ k = 2 => w.root = NoNode

\* Before a document's tag there is no root.
Rootless(st, w) ==
    Len(st) > 0 /\ (st[1].i < 3 \/ (st[1].i = 3 /\ Len(st) = 1)) => w.root = NoNode

\* The walker is as deep as the innermost opened tag is.
IsDeep(st, w, d) ==
    /\ HasDepth(w, d)
    /\ \A k \in 1..Len(st) : Opened(st, k) => k + 1 <= 3 * d
Deep(st, w) == \E d \in Nat : IsDeep(st, w, d)

Sound(text, st, c, w) ==
    /\ IsSeq(text)
    /\ Stacked(st)
    /\ EndsRead(text, st)
    /\ IsParse(c)
    /\ Named(text, st, c, w)
    /\ Fine(w) /\ ~w.fault
    /\ Rootless(st, w)
    /\ Deep(st, w)

LEMMA EndsAgain ==
    ASSUME NEW text, NEW st, IsSeq(st), EndsRead(text, st), NEW m \in 1..Len(st), NEW t,
           NEW l \in {m, m + 1}, Agrees(t, l, st, m - 1),
           m > 1 => EndReads(text, t[m], st[m - 1]),
           l = m + 1 => EndReads(text, t[m + 1], t[m])
    PROVE  EndsRead(text, t)
<1>1. /\ Len(t) = l /\ m \in Nat /\ m > 0 /\ Len(st) \in Nat
      /\ \A k \in 1..m - 1 : t[k] = st[k]
  BY AppendFacts DEF Agrees
<1> SUFFICES ASSUME NEW k \in 2..l PROVE EndReads(text, t[k], t[k - 1])
  BY <1>1 DEF EndsRead
<1>2. k \in 2..m - 1 \/ (k = m /\ m > 1) \/ (l = m + 1 /\ k = m + 1)
  BY <1>1
<1>3. CASE k \in 2..m - 1
  <2>1. t[k] = st[k] /\ t[k - 1] = st[k - 1] /\ k \in 2..Len(st)
    BY <1>1, <1>3
  <2> QED BY <2>1 DEF EndsRead
<1>4. CASE k = m /\ m > 1
  <2>1. t[m - 1] = st[m - 1]
    BY <1>1, <1>4
  <2> QED BY <1>4, <2>1
<1>5. CASE l = m + 1 /\ k = m + 1
  <2>1. k - 1 = m
    BY <1>1, <1>5
  <2> QED BY <1>5, <2>1
<1> QED BY <1>2, <1>3, <1>4, <1>5

\* The tags that are open do not change below the call that goes on.
LEMMA OpenedAgain ==
    ASSUME NEW st, Stacked(st), NEW m \in 1..Len(st), NEW t,
           NEW l \in {m, m + 1}, Agrees(t, l, st, m - 1), t[m].line = st[m].line,
           l = m + 1 => t[m + 1].i = 1,
           NEW k \in 1..l, Opened(t, k)
    PROVE  \/ k \in 1..Len(st) /\ Opened(st, k)
           \/ k = m /\ t[m].i = 7 /\ InTag(st, m)
           \/ /\ k = m - 1 /\ InTag(st, k)
              /\ st[m].line = "rule_xml_tag_end_full" /\ st[m].i <= 1 /\ t[m].i > 1
<1>1. /\ IsSeq(t) /\ Len(t) = l /\ m \in Nat /\ m > 0 /\ Len(st) \in Nat /\ k \in Nat
      /\ \A j \in 1..m - 1 : t[j] = st[j] /\ j \in 1..Len(st)
  BY AppendFacts DEF Agrees, Stacked
<1>2. /\ t[k].line = "rule_xml_tag"
      /\ \/ t[k].i = 7
         \/ k < l /\ t[k + 1].line = "rule_xml_tag_end_full" /\ t[k + 1].i > 1
  BY <1>1 DEF Opened, InTag
<1>3. CASE k \in 1..m - 2
  <2>1. t[k] = st[k] /\ t[k + 1] = st[k + 1] /\ k < Len(st) /\ k \in 1..Len(st)
    BY <1>1, <1>3
  <2> QED BY <1>2, <2>1 DEF Opened, InTag
<1>4. CASE k = m - 1
  <2>1. t[k] = st[k] /\ k \in 1..Len(st) /\ k + 1 = m /\ k < Len(st)
    BY <1>1, <1>4
  <2>2. InTag(st, k)
    BY <1>2, <2>1 DEF InTag
  <2>3. CASE st[k].i = 7
    BY <2>1, <2>2, <2>3 DEF Opened
  <2>4. CASE st[m].line = "rule_xml_tag_end_full" /\ t[m].i > 1
    <3>1. IsFrame(st[m])
      BY DEF Stacked
    <3>2. st[m].i <= 1 \/ st[m].i > 1
      <4>1. Len(Lines[st[m].line]) \in Nat
        BY <3>1, Grammar DEF IsFrame, LineIs
      <4> QED BY <3>1, <4>1 DEF IsFrame
    <3>3. st[m].i > 1 => Opened(st, k)
      BY <2>1, <2>2, <2>4 DEF Opened
    <3> QED BY <1>4, <2>1, <2>2, <2>4, <3>2, <3>3
  <2> QED BY <1>2, <2>1, <2>3, <2>4
<1>5. CASE k = m
  <2>1. ~(k < l /\ t[k + 1].i > 1)
    BY <1>1, <1>5
  <2> QED BY <1>2, <1>5, <2>1 DEF InTag
<1>6. CASE k = m + 1
  <2>1. t[k].i = 1 /\ ~(k < l)
    BY <1>1, <1>6
  <2> QED BY <1>2, <2>1
<1> QED BY <1>1, <1>3, <1>4, <1>5, <1>6

\* got_tag_open of a tag.
LEMMA OpensTag ==
    ASSUME NEW text, NEW st, NEW c, NEW w, Sound(text, st, c, w),
           NEW k \in 1..Len(st), Unopened(text, st, k), st[k].i > 3, NEW attrs
    PROVE  LET v == startElement(w, c.tagname, attrs)
           IN  /\ Fine(v) /\ ~v.fault
               /\ k # 2 => v.root = w.root
               /\ k = 2 => st[1].i = 3
               /\ \E d \in Nat : IsDeep(st, v, d) /\ k + 1 <= 3 * d
<1> DEFINE v == startElement(w, c.tagname, attrs)
<1>1. c.tagname # Null /\ (k = 2 => w.root = NoNode) /\ InTag(st, k)
  BY DEF Sound, Named, Unopened
<1>2. Fine(v)
  BY StartFine DEF Sound
<1>3. k \in Nat /\ Stacked(st) /\ Len(st) \in Nat
  BY AppendFacts DEF Sound, Stacked
<1>4. CASE k = 2
  <2>1. v.fault = w.fault /\ HasDepth(v, 1)
    BY <1>1, <1>4, StartRoot DEF Sound
  <2>2. st[1].i = 3
    <3>1. (k = 2 /\ st[1].i = 3) \/ k > 4
      BY <1>1, <1>3, TagPlace
    <3> QED BY <1>4, <3>1
  <2>3. PICK d \in Nat : IsDeep(st, w, d)
    BY DEF Sound, Deep
  <2>4. d = 0
    <3>1. SUFFICES ASSUME d # 0 PROVE FALSE
      OBVIOUS
    <3> QED BY <1>1, <1>4, <2>3, <3>1, DeepIsOpen DEF IsDeep, Sound
  <2>5. IsDeep(st, v, 1)
    BY <2>1, <2>3, <2>4 DEF IsDeep
  <2> QED BY <1>2, <1>4, <2>1, <2>2, <2>5 DEF Sound
<1>5. CASE k # 2
  <2>1. k > 4 /\ Opened(st, k - 3)
    BY <1>1, <1>3, <1>5, OpenedAbove
  <2>2. PICK d \in Nat : IsDeep(st, w, d)
    BY DEF Sound, Deep
  <2>3. k - 3 + 1 <= 3 * d
    <3>1. k - 3 \in 1..Len(st)
      BY <1>3, <2>1
    <3> QED BY <2>1, <2>2, <3>1 DEF IsDeep
  <2>4. d \in Nat \ {0}
    BY <1>3, <2>1, <2>3
  <2>5. v.fault = w.fault /\ v.root = w.root /\ HasDepth(v, d + 1)
    BY <1>1, <2>2, <2>4, StartChild DEF Sound, IsDeep
  <2>6. k + 1 <= 3 * (d + 1) /\ \A j \in 1..Len(st) : j + 1 <= 3 * d => j + 1 <= 3 * (d + 1)
    BY <1>3, <2>3
  <2>7. IsDeep(st, v, d + 1)
    BY <2>2, <2>5, <2>6 DEF IsDeep
  <2> QED BY <1>2, <1>5, <2>5, <2>6, <2>7 DEF Sound
<1> QED BY <1>4, <1>5

\* concat_tag_value in a tag.
LEMMA DataInTag ==
    ASSUME NEW text, NEW st, NEW c, NEW w, Sound(text, st, c, w),
           NEW k \in 1..Len(st), Opened(st, k), NEW s
    PROVE  LET v == charDatahandler(w, s)
           IN  /\ Fine(v) /\ ~v.fault
               /\ v.root = w.root
               /\ \E d \in Nat : IsDeep(st, v, d)
<1>1. PICK d \in Nat : IsDeep(st, w, d)
  BY DEF Sound, Deep
<1>2. d \in Nat \ {0}
  BY <1>1 DEF IsDeep
<1> DEFINE v == charDatahandler(w, s)
<1>3. Fine(w) /\ ~w.fault /\ HasDepth(w, d)
  BY <1>1 DEF Sound, IsDeep
<1>4. Fine(v)
  BY <1>3, CharFine
<1>5. v.fault = w.fault /\ v.root = w.root /\ HasDepth(v, d)
  BY <1>2, <1>3, CharDeep
<1>6. IsDeep(st, v, d)
  BY <1>1, <1>5 DEF IsDeep
<1> QED BY <1>3, <1>4, <1>5, <1>6

\* got_tag_close of a tag, which the others that are open are above.
LEMMA ClosesTag ==
    ASSUME NEW text, NEW st, NEW c, NEW w, Sound(text, st, c, w),
           NEW k \in 1..Len(st), Opened(st, k)
    PROVE  LET v == endElement(w)
           IN  /\ Fine(v) /\ ~v.fault
               /\ v.root = w.root
               /\ \E d \in Nat : /\ HasDepth(v, d)
                                 /\ \A j \in 1..k - 1 : Opened(st, j) => j + 1 <= 3 * d
<1>1. PICK d \in Nat : IsDeep(st, w, d)
  BY DEF Sound, Deep
<1>2. k + 1 <= 3 * d
  BY <1>1 DEF IsDeep
<1>3. d \in Nat \ {0} /\ d - 1 \in Nat
  BY <1>2
<1> DEFINE v == endElement(w)
<1>4. Fine(w) /\ ~w.fault /\ HasDepth(w, d)
  BY <1>1 DEF Sound, IsDeep
<1>5. Fine(v)
  BY <1>4, EndFine
<1>6. v.fault = w.fault /\ v.root = w.root /\ HasDepth(v, d - 1)
  BY <1>3, <1>4, EndDeep
<1>7. ASSUME NEW j \in 1..k - 1, Opened(st, j) PROVE j + 1 <= 3 * (d - 1)
  <2>1. Stacked(st) /\ InTag(st, j) /\ InTag(st, k) /\ j < k
    BY <1>7 DEF Sound, Opened
  <2>2. j <= k - 3
    BY <2>1, TagsApart
  <2> QED BY <1>2, <2>2
<1> QED BY <1>3, <1>4, <1>5, <1>6, <1>7

\* The symbols of a tag and of its ends.
LEMMA SymbolFlags ==
    ASSUME NEW f, IsFrame(f), f.i <= Len(Lines[f.line])
    PROVE  /\ TokenIs(f.line, f.i)
           /\ f.i \in Nat /\ f.i > 0
           /\ f.line = "rule_xml_tag" =>
                /\ f.i \in 1..6
                /\ SymbolOf(f).term <=> f.i \notin {4, 6}
                /\ SymbolOf(f).many <=> f.i \in {1, 4, 5}
                /\ SymbolOf(f).optional <=> f.i \in {1, 4, 5}
                /\ f.i \in {1, 5} => SymbolOf(f).h = "none"
                /\ f.i = 2 => SymbolOf(f).h = "do_tag_reset"
                /\ f.i = 3 => SymbolOf(f).h = "set_tag_name" /\ SymbolOf(f).token = alphanum
           /\ f.line = "rule_xml_tag_end_full" =>
                /\ f.i \in 1..5
                /\ SymbolOf(f).term <=> f.i # 2
                /\ f.i = 1 => /\ ~SymbolOf(f).many /\ ~SymbolOf(f).optional
                              /\ SymbolOf(f).h = "got_tag_open"
                              /\ SymbolOf(f).token = Literal(<<">">>)
           /\ f.line = "rule_xml_tag_end_empty" =>
                /\ f.i = 1 /\ SymbolOf(f).term
                /\ ~SymbolOf(f).many /\ ~SymbolOf(f).optional
                /\ SymbolOf(f).token = Literal(<<"/", ">">>)
                /\ SymbolOf(f).h = "none"
           /\ f.line = "rule_xml_document" =>
                /\ f.i \in 1..3 /\ ~SymbolOf(f).term /\ SymbolOf(f).optional
                /\ f.i = 3 => ~SymbolOf(f).many
           /\ f.line \in {"attr_line", "tag_value_line"} => SymbolOf(f).term
<1>1. Len(Lines[f.line]) \in Nat /\ LineIs(f.line) /\ f.i \in 1..Len(Lines[f.line])
  BY Grammar DEF IsFrame, LineIs
<1>2. TokenIs(f.line, f.i) /\ f.i \in Nat /\ f.i > 0
  BY <1>1 DEF LineIs, SymbolIs
<1>3. CASE f.line = "rule_xml_tag"
  <2>1. f.i \in 1..6 /\ SymbolOf(f) = Lines["rule_xml_tag"][f.i]
    BY <1>1, <1>3, GrammarFlags DEF SymbolOf
  <2> QED BY <1>2, <1>3, <2>1, GrammarFlags
<1>4. CASE f.line = "rule_xml_tag_end_full"
  <2>1. f.i \in 1..5 /\ SymbolOf(f) = Lines["rule_xml_tag_end_full"][f.i]
    BY <1>1, <1>4, GrammarFlags DEF SymbolOf
  <2> QED BY <1>2, <1>4, <2>1, GrammarFlags
<1>5. CASE f.line = "rule_xml_tag_end_empty"
  <2>1. f.i = 1 /\ SymbolOf(f) = Lines["rule_xml_tag_end_empty"][1]
    BY <1>1, <1>5, GrammarFlags DEF SymbolOf
  <2> QED BY <1>2, <1>5, <2>1, GrammarFlags
<1>6. CASE f.line = "rule_xml_document"
  <2>1. f.i \in 1..3 /\ SymbolOf(f) = Lines["rule_xml_document"][f.i]
    BY <1>1, <1>6, GrammarFlags DEF SymbolOf
  <2> QED BY <1>2, <1>6, <2>1, GrammarFlags
<1>7. CASE f.line \in {"attr_line", "tag_value_line"}
  <2>1. SymbolOf(f).term
    BY <1>1, <1>7, GrammarFlags DEF SymbolOf
  <2> QED BY <1>2, <1>7, <2>1
<1>8. CASE f.line \notin {"rule_xml_tag", "rule_xml_tag_end_full", "rule_xml_tag_end_empty",
                          "rule_xml_document", "attr_line", "tag_value_line"}
  BY <1>2, <1>8
<1> QED BY <1>3, <1>4, <1>5, <1>6, <1>7, <1>8

LEMMA StillDeep ==
    ASSUME NEW st, NEW t, NEW w, Deep(st, w),
           \A k \in 1..Len(t) : Opened(t, k) => k \in 1..Len(st) /\ Opened(st, k)
    PROVE  Deep(t, w)
  BY DEF Deep, IsDeep

\* A token that does not match.
LEMMA MissSound ==
    ASSUME NEW text, NEW st, NEW c, NEW w, Sound(text, st, c, w),
           NEW n \in Nat, n > 0, Len(st) = n, NEW f, f = st[n],
           f.i <= Len(Lines[f.line]), SymbolOf(f).term
    PROVE  Sound(text, GoesOn(st, AfterMiss(f)), c, w)
<1> DEFINE x == AfterMiss(f)
           t == GoesOn(st, x)
<1>1. IsFrame(f) /\ IsSeq(st) /\ Stacked(st) /\ n \in 1..Len(st)
  BY DEF Sound, Stacked
<1>2. /\ IsFrame(x) /\ x.line = f.line /\ x.pos = f.pos
      /\ ~x.hit /\ (x.some => f.some)
      /\ x.i = IF SymbolOf(f).optional THEN f.i + 1 ELSE f.i
      /\ ~SymbolOf(f).optional => x.dead
  BY <1>1, FrameFacts DEF IsFrame
<1> HIDE DEF x
<1>3. Agrees(t, n, st, n - 1) /\ t[n] = x
  BY <1>1, StackOps
<1> HIDE DEF t
<1>4. Len(t) = n /\ \A k \in 1..n - 1 : t[k] = st[k]
  BY <1>3 DEF Agrees
<1>5. Stacked(t)
  BY <1>1, <1>2, <1>3, StackedAgain
<1>6. f.i \in Nat /\ f.i > 0 /\ x.i \in Nat /\ x.i >= f.i
  BY <1>1, <1>2, SymbolFlags
<1>7. EndsRead(text, t)
  <2>1. ASSUME n > 1 PROVE EndReads(text, x, st[n - 1])
    <3>1. EndReads(text, f, st[n - 1])
      BY <1>1, <2>1 DEF Sound, EndsRead
    <3>2. IsEnd(f) /\ f.i = 1 => ~SymbolOf(f).optional
      BY <1>1, SymbolFlags DEF IsEnd
    <3> QED BY <1>2, <1>6, <3>1, <3>2 DEF EndReads, IsEnd
  <2> QED BY <1>1, <1>3, <2>1, EndsAgain DEF Sound
<1>8. ASSUME NEW k \in 1..n, Unopened(text, t, k)
      PROVE  /\ Unopened(text, st, k)
             /\ t[k].i # 3 \/ k < n
             /\ t[k].i > 3 => st[k].i > 3
  <2>1. k = n \/ k = n - 1
    BY <1>4, <1>5, <1>8, UnopenedAtTop
  <2>2. CASE k = n
    <3>1. f.line = "rule_xml_tag" /\ ~x.dead
      BY <1>2, <1>3, <1>8, <2>2 DEF Unopened, InTag
    <3>2. SymbolOf(f).optional /\ f.i \in {1, 5}
      BY <1>1, <1>2, <3>1, SymbolFlags
    <3>3. ~f.dead
      BY <1>2, <3>1, <3>2 DEF x, AfterMiss, IsFrame
    <3> QED BY <1>1, <1>2, <1>3, <2>2, <3>1, <3>2, <3>3 DEF Unopened, InTag
  <2>3. CASE k = n - 1 /\ k # n
    <3>1. t[k] = st[k] /\ k + 1 = n /\ k \in 1..Len(st)
      BY <1>4, <2>3
    <3>2. f.line = "rule_xml_tag_end_full" /\ x.i = 1 => f.i = 1
      BY <1>6
    <3> QED BY <1>2, <1>3, <1>4, <1>8, <2>3, <3>1, <3>2 DEF Unopened, InTag
  <2> QED BY <2>1, <2>2, <2>3
<1>9. Named(text, t, c, w)
  <2> SUFFICES ASSUME NEW k \in 1..n, Unopened(text, t, k)
               PROVE  /\ t[k].i = 3 => c.used = 0
                      /\ t[k].i > 3 => c.tagname # Null
                      /\ k = 2 => w.root = NoNode
    BY <1>4 DEF Named
  <2>1. /\ st[k].i = 3 => c.used = 0
        /\ st[k].i > 3 => c.tagname # Null
        /\ k = 2 => w.root = NoNode
    BY <1>8 DEF Sound, Named
  <2>2. k < n => t[k] = st[k]
    BY <1>4
  <2> QED BY <1>8, <2>1, <2>2
<1>10. Rootless(t, w)
  <2>1. n = 1 => f.line = "rule_xml_document"
    BY <1>1 DEF Stacked
  <2>2. n # 1
    BY <1>1, <2>1, SymbolFlags
  <2>3. t[1] = st[1]
    BY <1>4, <2>2
  <2> QED BY <1>4, <2>3 DEF Sound, Rootless
<1>11. Deep(t, w)
  <2>1. ASSUME NEW k \in 1..n, Opened(t, k) PROVE k \in 1..Len(st) /\ Opened(st, k)
    <3>1. \/ k \in 1..Len(st) /\ Opened(st, k)
          \/ k = n /\ x.i = 7 /\ InTag(st, n)
          \/ f.line = "rule_xml_tag_end_full" /\ f.i <= 1 /\ x.i > 1
      BY <1>1, <1>2, <1>3, <2>1, OpenedAgain
    <3>2. ~(x.i = 7 /\ InTag(st, n))
      BY <1>1, <1>2, SymbolFlags DEF InTag
    <3>3. ~(f.line = "rule_xml_tag_end_full" /\ f.i <= 1 /\ x.i > 1)
      BY <1>1, <1>2, <1>6, SymbolFlags
    <3> QED BY <3>1, <3>2, <3>3
  <2> QED BY <1>4, <2>1, StillDeep DEF Sound
<1> QED BY <1>5, <1>7, <1>9, <1>10, <1>11 DEF Sound, t, x

\* A token that matches, and its handler.
LEMMA HitSound ==
    ASSUME NEW text, NEW st, NEW c, NEW w, Sound(text, st, c, w),
           NEW n \in Nat, n > 0, Len(st) = n, NEW f, f = st[n],
           f.i <= Len(Lines[f.line]), ~f.dead, SymbolOf(f).term,
           NEW q \in Nat \ {0}, NEW s,
           \A lit : SymbolOf(f).token = Literal(lit) => ReadsIn(text, lit, f.pos),
           SymbolOf(f).token = alphanum => place_str(NewParse, s) # Null
    PROVE  LET h == SymbolOf(f).h
               e == Parsed(c, h, s)
           IN  Sound(text, GoesOn(st, AfterMatch(f, q)), e, Walked(w, e, h, s))
<1> DEFINE x == AfterMatch(f, q)
           t == GoesOn(st, x)
           h == SymbolOf(f).h
           e == Parsed(c, h, s)
           v == Walked(w, e, h, s)
<1>1. IsFrame(f) /\ IsSeq(st) /\ Stacked(st) /\ n \in 1..Len(st)
  BY DEF Sound, Stacked
<1>2. /\ IsFrame(x) /\ x.line = f.line
      /\ x.i = IF SymbolOf(f).many THEN f.i ELSE f.i + 1
  BY <1>1, FrameFacts DEF IsFrame
<1> HIDE DEF x
<1>3. Agrees(t, n, st, n - 1) /\ t[n] = x
  BY <1>1, StackOps
<1> HIDE DEF t
<1>4. Len(t) = n /\ \A k \in 1..n - 1 : t[k] = st[k]
  BY <1>3 DEF Agrees
<1>5. Stacked(t)
  BY <1>1, <1>2, <1>3, StackedAgain
<1>6. f.i \in Nat /\ f.i > 0 /\ x.i \in Nat /\ x.i >= f.i
  BY <1>1, <1>2, SymbolFlags
<1>7. n > 1
  <2>1. n = 1 => f.line = "rule_xml_document"
    BY <1>1 DEF Stacked
  <2> QED BY <1>1, <2>1, SymbolFlags
<1>8. t[1] = st[1]
  BY <1>4, <1>7
<1>9. /\ h = "got_tag_open" => f.line = "rule_xml_tag_end_full" /\ f.i = 1
      /\ h = "concat_tag_value" => f.line = "tag_value_line"
      /\ h = "do_tag_reset" => f.line = "rule_xml_tag" /\ f.i = 2
      /\ h = "set_tag_name" =>
             (f.line = "rule_xml_tag" /\ f.i = 3) \/ (f.line = "rule_xml_tag_end_full" /\ f.i = 4)
      /\ h # "got_tag_close"
  BY <1>1, SymbolFlags DEF TokenIs, SymbolOf
<1>10. /\ IsParse(e)
       /\ h # "set_tag_name" => e.tagname = c.tagname
       /\ h = "set_tag_name" => e.tagname = place_str(c, s)
       /\ h = "do_tag_reset" => e.used = 0
       /\ h = "none" => e = c
  BY ParsedFacts DEF Sound
<1>11. v = CASE h = "got_tag_open" -> startElement(w, e.tagname, AttrsOf(e))
             [] h = "concat_tag_value" -> charDatahandler(w, s)
             [] OTHER -> w
  BY <1>9 DEF Walked
<1> HIDE DEF h, e, v
<1>12. EndsRead(text, t)
  <2>1. ASSUME n > 1 PROVE EndReads(text, x, st[n - 1])
    <3>1. EndReads(text, f, st[n - 1])
      BY <1>1, <2>1 DEF Sound, EndsRead
    <3>2. SUFFICES ASSUME IsEnd(f)
                   PROVE  x.i # 1 /\ ReadsIn(text, FirstOf(f.line), st[n - 1].pos)
      BY <1>2 DEF EndReads, IsEnd
    <3>3. CASE f.i = 1
      <4>1. ~SymbolOf(f).many /\ SymbolOf(f).token = Literal(FirstOf(f.line))
        BY <1>1, <3>2, <3>3, SymbolFlags DEF IsEnd, FirstOf
      <4>2. f.pos = st[n - 1].pos
        BY <3>1, <3>2, <3>3 DEF EndReads
      <4> QED BY <1>2, <3>3, <4>1, <4>2
    <3>4. CASE f.i # 1
      BY <1>6, <3>1, <3>2, <3>4 DEF EndReads
    <3> QED BY <3>3, <3>4
  <2> QED BY <1>1, <1>3, <2>1, EndsAgain DEF Sound
\* A tag that is not opened yet was not before.
<1>13. ASSUME NEW k \in 1..n, Unopened(text, t, k)
       PROVE  /\ Unopened(text, st, k)
              /\ k = n => f.line = "rule_xml_tag"
              /\ k < n => /\ t[k] = st[k] /\ st[k].i > 3
                          /\ h \notin {"got_tag_open", "concat_tag_value", "do_tag_reset",
                                       "set_tag_name"}
  <2>1. k = n \/ k = n - 1
    BY <1>4, <1>5, <1>13, UnopenedAtTop
  <2>2. CASE k = n
    <3>1. f.line = "rule_xml_tag"
      BY <1>2, <1>3, <1>13, <2>2 DEF Unopened, InTag
    <3>2. f.i < 7
      BY <1>1, <3>1, SymbolFlags
    <3> QED BY <1>1, <2>2, <3>1, <3>2 DEF Unopened, InTag
  <2>3. CASE k = n - 1 /\ k # n
    <3>1. t[k] = st[k] /\ k + 1 = n /\ k \in 1..Len(st) /\ k < n
      BY <1>4, <2>3
    <3>2. /\ st[k].line = "rule_xml_tag" /\ ~st[k].dead /\ st[k].i < 7
          /\ \/ f.line = "attr_line"
             \/ f.line = "rule_xml_tag_end_full" /\ x.i = 1
             \/ f.line = "rule_xml_tag_end_empty" /\ ~ReadsIn(text, <<">">>, st[k].pos)
      BY <1>2, <1>3, <1>4, <1>13, <2>3, <3>1 DEF Unopened, InTag
    <3>3. ~(f.line = "rule_xml_tag_end_full" /\ x.i = 1)
      BY <1>1, <1>2, <1>6, SymbolFlags
    <3>4. Unopened(text, st, k)
      BY <3>1, <3>2, <3>3 DEF Unopened, InTag
    <3>5. st[k].i \in {4, 6}
      <4>1. n \in 2..Len(st) /\ n - 1 = k
        BY <1>7, <2>3
      <4>2. Nests(st[n], st[n - 1]) /\ IsFrame(st[n - 1])
        BY <1>1, <4>1, Callers
      <4> QED BY <3>2, <4>1, <4>2, SymbolFlags DEF Nests
    <3> QED BY <1>9, <3>1, <3>2, <3>3, <3>4, <3>5, <2>3
  <2> QED BY <2>1, <2>2, <2>3
<1>14. Named(text, t, e, v)
  <2> SUFFICES ASSUME NEW k \in 1..n, Unopened(text, t, k)
               PROVE  /\ t[k].i = 3 => e.used = 0
                      /\ t[k].i > 3 => e.tagname # Null
                      /\ k = 2 => v.root = NoNode
    BY <1>4 DEF Named
  <2>1. /\ st[k].i = 3 => c.used = 0
        /\ st[k].i > 3 => c.tagname # Null
        /\ k = 2 => w.root = NoNode
    BY <1>13 DEF Sound, Named
  <2>2. CASE k < n
    BY <1>10, <1>11, <1>13, <2>1, <2>2
  <2>3. CASE k = n
    <3>1. /\ f.i \in {1, 2, 3, 5}
          /\ SymbolOf(f).many <=> f.i \in {1, 5}
          /\ f.i \in {1, 5} => h = "none"
          /\ f.i = 2 => h = "do_tag_reset"
          /\ f.i = 3 => h = "set_tag_name" /\ SymbolOf(f).token = alphanum
      BY <1>1, <1>13, <2>3, SymbolFlags DEF h
    <3>2. v = w
      BY <1>11, <3>1
    <3>3. t[k].i = x.i /\ st[k].i = f.i
      BY <1>3, <2>3
    <3>4. x.i = 3 => f.i = 2
      BY <1>2, <3>1
    <3>5. x.i > 3 => f.i = 3 \/ f.i = 5
      BY <1>2, <3>1
    <3>6. f.i = 3 => e.tagname # Null
      BY <1>10, <2>1, <3>1, <3>3, NameStored
    <3> QED BY <1>10, <2>1, <3>1, <3>2, <3>3, <3>4, <3>5, <3>6
  <2> QED BY <2>2, <2>3
\* The walker.
<1>15. /\ Fine(v) /\ ~v.fault
       /\ v.root = w.root \/ (st[1].i = 3 /\ n > 1)
       /\ \E d \in Nat : /\ IsDeep(st, v, d)
                         /\ h = "got_tag_open" => n - 1 + 1 <= 3 * d
  <2>1. CASE h = "got_tag_open"
    <3>1. f.line = "rule_xml_tag_end_full" /\ f.i = 1
      BY <1>9, <2>1
    <3>2. /\ n - 1 \in 1..Len(st) /\ InTag(st, n - 1) /\ st[n - 1].i = 6 /\ ~st[n - 1].dead
      BY <1>1, <1>7, <3>1, EndPlace DEF IsEnd
    <3>3. Unopened(text, st, n - 1)
      <4>1. n - 1 + 1 = n
        OBVIOUS
      <4> QED BY <3>1, <3>2, <4>1 DEF Unopened
    <3>4. v = startElement(w, c.tagname, AttrsOf(e))
      BY <1>10, <1>11, <2>1
    <3>5. /\ Fine(v) /\ ~v.fault
          /\ n - 1 # 2 => v.root = w.root
          /\ n - 1 = 2 => st[1].i = 3
          /\ \E d \in Nat : IsDeep(st, v, d) /\ n - 1 + 1 <= 3 * d
      BY <3>2, <3>3, <3>4, OpensTag
    <3> QED BY <1>7, <3>5
  <2>2. CASE h = "concat_tag_value"
    <3>1. f.line = "tag_value_line"
      BY <1>9, <2>2
    <3>2. /\ n > 3 /\ st[n - 1].line = "rule_xml_tag_end_full" /\ st[n - 1].i = 2
          /\ InTag(st, n - 2)
      BY <1>1, <3>1, ContentPlace
    <3>3. n - 2 \in 1..Len(st) /\ Opened(st, n - 2)
      <4>1. n - 2 + 1 = n - 1 /\ n - 2 < n
        OBVIOUS
      <4> QED BY <3>2, <4>1 DEF Opened, InTag
    <3>4. v = charDatahandler(w, s)
      BY <1>11, <2>2
    <3>5. /\ Fine(v) /\ ~v.fault /\ v.root = w.root
          /\ \E d \in Nat : IsDeep(st, v, d)
      BY <3>3, <3>4, DataInTag
    <3> QED BY <2>2, <3>5
  <2>3. CASE h \notin {"got_tag_open", "concat_tag_value"}
    BY <1>11, <2>3 DEF Sound, Deep
  <2> QED BY <2>1, <2>2, <2>3
<1>16. Rootless(t, v)
  BY <1>4, <1>7, <1>8, <1>15 DEF Sound, Rootless
<1>17. Deep(t, v)
  <2>1. PICK d \in Nat : /\ IsDeep(st, v, d)
                         /\ h = "got_tag_open" => n - 1 + 1 <= 3 * d
    BY <1>15
  <2>2. ASSUME NEW k \in 1..n, Opened(t, k) PROVE k + 1 <= 3 * d
    <3>1. \/ k \in 1..Len(st) /\ Opened(st, k)
          \/ k = n /\ x.i = 7 /\ InTag(st, n)
          \/ k = n - 1 /\ f.line = "rule_xml_tag_end_full" /\ f.i <= 1 /\ x.i > 1
      BY <1>1, <1>2, <1>3, <2>2, OpenedAgain
    <3>2. ~(x.i = 7 /\ InTag(st, n))
      BY <1>1, <1>2, SymbolFlags DEF InTag
    <3>3. f.line = "rule_xml_tag_end_full" /\ f.i <= 1 => h = "got_tag_open"
      BY <1>1, <1>6, SymbolFlags DEF h
    <3> QED BY <2>1, <3>1, <3>2, <3>3 DEF IsDeep
  <2> QED BY <1>4, <2>1, <2>2 DEF Deep, IsDeep
<1>18. Sound(text, t, e, v)
  BY <1>5, <1>10, <1>12, <1>14, <1>15, <1>16, <1>17 DEF Sound
<1> QED BY <1>18 DEF t, x, e, v, h

\* The first choice of a symbol is tried.
LEMMA EnterSound ==
    ASSUME NEW text, NEW st, NEW c, NEW w, Sound(text, st, c, w),
           NEW n \in Nat, n > 0, Len(st) = n, NEW f, f = st[n],
           f.i <= Len(Lines[f.line]), ~f.dead, ~SymbolOf(f).term
    PROVE  Sound(text, Tries(st, [f EXCEPT !.alt = 1], Call(SymbolOf(f).elems[1], f.pos)), c, w)
<1> DEFINE x == [f EXCEPT !.alt = 1]
           line == SymbolOf(f).elems[1]
           y == Call(line, f.pos)
           t == Tries(st, x, y)
<1>1. IsFrame(f) /\ IsSeq(st) /\ Stacked(st) /\ n \in 1..Len(st)
  BY DEF Sound, Stacked
<1>2. /\ IsFrame(x) /\ x.alt = 1
      /\ x.line = f.line /\ x.i = f.i /\ x.pos = f.pos
      /\ x.hit = f.hit /\ x.some = f.some /\ x.dead = f.dead
  BY <1>1, TriesFacts
<1> HIDE DEF x
<1>3. f.i \in 1..Len(Lines[f.line]) /\ f.pos \in Nat \ {0} /\ LineIs(f.line)
  <2>1. Len(Lines[f.line]) \in Nat /\ LineIs(f.line)
    BY <1>1, Grammar DEF IsFrame, LineIs
  <2> QED BY <1>1, <2>1 DEF IsFrame
<1>4. 1 \in 1..Len(SymbolOf(f).elems) /\ CallOf(f.line, f.i, 1, line)
  <2>1. Len(SymbolOf(f).elems) \in 1..2
        /\ \A a \in 1..Len(SymbolOf(f).elems) : CallOf(f.line, f.i, a, SymbolOf(f).elems[a])
    BY <1>3 DEF LineIs, SymbolIs, ChoiceIs, SymbolOf
  <2> QED BY <2>1
<1> HIDE DEF line
<1>5. line \in DOMAIN Lines
  BY <1>4 DEF CallOf
<1>6. /\ IsFrame(y) /\ y.line = line /\ y.i = 1 /\ y.pos = f.pos
      /\ ~y.hit /\ ~y.some
  BY <1>3, <1>5, CallFacts
<1>7. Nests(y, x)
  <2>1. SymbolOf(x) = SymbolOf(f)
    BY <1>2 DEF SymbolOf
  <2> QED BY <1>2, <1>3, <1>4, <1>6, <2>1 DEF Nests, line
<1> HIDE DEF y
<1>8. Agrees(t, n + 1, st, n - 1) /\ t[n] = x /\ t[n + 1] = y
  BY <1>1, StackOps
<1> HIDE DEF t
<1>9. Len(t) = n + 1 /\ \A k \in 1..n - 1 : t[k] = st[k]
  BY <1>8 DEF Agrees
<1>10. Stacked(t)
  BY <1>1, <1>2, <1>6, <1>7, <1>8, StackedAgain
<1>11. EndsRead(text, t)
  <2>1. ASSUME n > 1 PROVE EndReads(text, x, st[n - 1])
    <3>1. EndReads(text, f, st[n - 1])
      BY <1>1, <2>1 DEF Sound, EndsRead
    <3> QED BY <1>2, <3>1 DEF EndReads, IsEnd
  <2>2. EndReads(text, y, x)
    BY <1>2, <1>6 DEF EndReads
  <2> QED BY <1>1, <1>8, <2>1, <2>2, EndsAgain DEF Sound
<1>12. t[1].i = st[1].i
  <2>1. n = 1 \/ t[1] = st[1]
    BY <1>9
  <2> QED BY <1>2, <1>8, <2>1
<1>13. Named(text, t, c, w)
  <2> SUFFICES ASSUME NEW k \in 1..n + 1, Unopened(text, t, k)
               PROVE  /\ t[k].i = 3 => c.used = 0
                      /\ t[k].i > 3 => c.tagname # Null
                      /\ k = 2 => w.root = NoNode
    BY <1>9 DEF Named
  <2>1. k = n \/ k = n + 1
    BY <1>9, <1>10, UnopenedAtTop
  <2>2. CASE k = n
    <3>1. f.line = "rule_xml_tag"
      BY <1>2, <1>8, <2>2 DEF Unopened, InTag
    <3>2. f.i < 7
      BY <1>1, <3>1, SymbolFlags
    <3>3. Unopened(text, st, k)
      BY <1>1, <2>2, <3>1, <3>2 DEF Unopened, InTag
    <3>4. st[k].i = t[k].i
      BY <1>2, <1>8, <2>2
    <3> QED BY <1>1, <2>2, <3>3, <3>4 DEF Sound, Named
  <2>3. CASE k = n + 1
    <3>1. t[k].i = 1
      BY <1>6, <1>8, <2>3
    <3>2. ASSUME k = 2 PROVE w.root = NoNode
      <4>1. (k = 2 /\ t[1].i = 3) \/ k > 4
        BY <1>10, TagPlace DEF Unopened
      <4>2. n = 1 /\ st[1].i = 3
        BY <1>12, <2>3, <3>2, <4>1
      <4> QED BY <4>2 DEF Sound, Rootless
    <3> QED BY <3>1, <3>2
  <2> QED BY <2>1, <2>2, <2>3
<1>14. Rootless(t, w)
  BY <1>9, <1>12 DEF Sound, Rootless
<1>15. Deep(t, w)
  <2>1. ASSUME NEW k \in 1..n + 1, Opened(t, k) PROVE k \in 1..Len(st) /\ Opened(st, k)
    <3>1. \/ k \in 1..Len(st) /\ Opened(st, k)
          \/ k = n /\ x.i = 7 /\ InTag(st, n)
          \/ f.i <= 1 /\ x.i > 1
      BY <1>1, <1>2, <1>6, <1>8, <2>1, OpenedAgain
    <3>2. ~(x.i = 7 /\ InTag(st, n))
      BY <1>1, <1>2, SymbolFlags DEF InTag
    <3> QED BY <1>2, <1>3, <3>1, <3>2
  <2> QED BY <1>9, <2>1, StillDeep DEF Sound
<1> QED BY <1>10, <1>11, <1>13, <1>14, <1>15 DEF Sound, t, x, y, line

\* The caller of the top call: it is at a choice, and of the lines that have
\* one it may be a tag, the end of one, or the document.
LEMMA CallerFlags ==
    ASSUME NEW st, Stacked(st), NEW n \in Nat, n > 1, Len(st) = n, NEW g, g = st[n - 1]
    PROVE  /\ n - 1 \in 1..Len(st) /\ n \in 1..Len(st)
           /\ IsFrame(g) /\ IsFrame(st[n]) /\ Nests(st[n], g)
           /\ CallOf(g.line, g.i, g.alt, st[n].line)
           /\ g.i \in 1..Len(Lines[g.line]) /\ g.i <= Len(Lines[g.line]) /\ ~g.dead
           /\ g.i \in Nat /\ g.i > 0
           /\ g.line = "rule_xml_tag" => g.i \in {4, 6}
           /\ g.line = "rule_xml_tag_end_full" => g.i = 2
           /\ g.line \notin {"rule_xml_tag_end_empty", "attr_line"}
<1>1. n \in 2..Len(st) /\ n - 1 \in 1..Len(st) /\ n \in 1..Len(st)
  OBVIOUS
<1>2. /\ IsFrame(g) /\ IsFrame(st[n]) /\ Nests(st[n], g)
      /\ CallOf(g.line, g.i, g.alt, st[n].line)
  BY <1>1, Callers
<1>3. g.i \in 1..Len(Lines[g.line]) /\ ~g.dead /\ ~SymbolOf(g).term
  BY <1>2 DEF Nests
<1>4. Len(Lines[g.line]) \in Nat
  BY <1>2, Grammar DEF IsFrame, LineIs
<1>5. g.i <= Len(Lines[g.line]) /\ g.i \in Nat /\ g.i > 0
  BY <1>3, <1>4
<1>6. /\ g.line = "rule_xml_tag" => g.i \in {4, 6}
      /\ g.line = "rule_xml_tag_end_full" => g.i = 2
      /\ g.line \notin {"rule_xml_tag_end_empty", "attr_line"}
  BY <1>2, <1>3, <1>5, SymbolFlags
<1> QED BY <1>1, <1>2, <1>3, <1>5, <1>6

\* The caller goes on after its symbol: at the next one, or at the same again.
\* What is so when x, the caller going on, is the top call of t.
Returned(text, st, n, g, x, t) ==
    /\ Len(t) = n - 1 /\ t[n - 1] = x /\ \A k \in 1..n - 2 : t[k] = st[k]
    /\ Stacked(t)
    /\ EndsRead(text, t)
    /\ \A k \in 1..n - 1 : Unopened(text, t, k) =>
          k = n - 1 /\ g.line = "rule_xml_tag" /\ ~x.dead /\ x.i < 7
    /\ \A k \in 1..n - 1 : Opened(t, k) =>
          Opened(st, k) \/ (k = n - 1 /\ g.line = "rule_xml_tag" /\ x.i = 7)
    /\ t[1].i < 3 \/ (t[1].i = 3 /\ n - 1 = 1) =>
          st[1].i < 3 \/ (n - 1 = 1 /\ g = st[1] /\ x = t[1] /\ g.i = 3 /\ x.i = 3)

LEMMA ReturnFacts ==
    ASSUME NEW text, NEW st, NEW c, NEW w, Sound(text, st, c, w),
           NEW n \in Nat, n > 1, Len(st) = n, NEW g, g = st[n - 1],
           NEW x, IsFrame(x), x.line = g.line, x.i \in {g.i, g.i + 1}
    PROVE  Returned(text, st, n, g, x, Returns(st, x))
<1> DEFINE t == Returns(st, x)
           m == n - 1
<1>1. IsSeq(st) /\ Stacked(st)
  BY DEF Sound, Stacked
<1>2. /\ m \in 1..Len(st)
      /\ IsFrame(g) /\ g.i \in Nat /\ g.i > 0
      /\ g.line = "rule_xml_tag" => g.i \in {4, 6}
      /\ g.line = "rule_xml_tag_end_full" => g.i = 2
      /\ g.line \notin {"rule_xml_tag_end_empty", "attr_line"}
  BY <1>1, CallerFlags
<1>3. Agrees(t, m, st, m - 1) /\ t[m] = x
  <2>1. Agrees(t, n - 1, st, n - 2) /\ t[n - 1] = x
    BY <1>1, CallerOps
  <2>2. n - 2 = m - 1
    OBVIOUS
  <2> HIDE DEF t
  <2> QED BY <2>1, <2>2
<1> HIDE DEF t
<1>4. Len(t) = m /\ (\A k \in 1..m - 1 : t[k] = st[k]) /\ m \in Nat /\ m > 0 /\ m - 1 = n - 2
  BY <1>3 DEF Agrees
<1>5. g = st[m]
  OBVIOUS
<1> HIDE DEF m
<1>6. Stacked(t)
  BY <1>1, <1>2, <1>3, <1>5, StackedAgain
<1>7. EndsRead(text, t)
  <2>1. ASSUME m > 1 PROVE EndReads(text, x, st[m - 1])
    <3>1. m \in 2..Len(st)
      BY <1>2, <1>4, <2>1
    <3>2. EndReads(text, g, st[m - 1])
      BY <1>5, <3>1 DEF Sound, EndsRead
    <3> QED BY <1>2, <3>2 DEF EndReads, IsEnd
  <2> QED BY <1>1, <1>2, <1>3, <2>1, EndsAgain DEF Sound
<1>8. ASSUME NEW k \in 1..m, Unopened(text, t, k)
      PROVE  k = m /\ g.line = "rule_xml_tag" /\ ~x.dead /\ x.i < 7
  <2>1. k = m \/ k = m - 1
    BY <1>4, <1>6, <1>8, UnopenedAtTop
  <2>2. CASE k = m
    BY <1>3, <1>8, <2>2 DEF Unopened, InTag
  <2>3. CASE k = m - 1 /\ k # m
    <3>1. k + 1 = m /\ t[k + 1] = x
      BY <1>3, <1>4, <2>3
    <3>2. \/ x.line = "attr_line"
          \/ x.line = "rule_xml_tag_end_full" /\ x.i = 1
          \/ x.line = "rule_xml_tag_end_empty"
      BY <1>4, <1>8, <2>3, <3>1 DEF Unopened
    <3> QED BY <1>2, <3>2
  <2> QED BY <2>1, <2>2, <2>3
<1>9. ASSUME NEW k \in 1..m, Opened(t, k)
      PROVE  Opened(st, k) \/ (k = m /\ g.line = "rule_xml_tag" /\ x.i = 7)
  <2>1. \/ k \in 1..Len(st) /\ Opened(st, k)
        \/ k = m /\ x.i = 7 /\ InTag(st, m)
        \/ g.line = "rule_xml_tag_end_full" /\ g.i <= 1
    BY <1>1, <1>2, <1>3, <1>4, <1>5, <1>9, OpenedAgain
  <2> QED BY <1>2, <1>5, <2>1 DEF InTag
<1>10. ASSUME t[1].i < 3 \/ (t[1].i = 3 /\ m = 1)
       PROVE  st[1].i < 3 \/ (m = 1 /\ g = st[1] /\ x = t[1] /\ g.i = 3 /\ x.i = 3)
  <2>1. CASE m = 1
    BY <1>2, <1>3, <1>5, <1>10, <2>1
  <2>2. CASE m # 1
    <3>1. t[1] = st[1]
      BY <1>4, <2>2
    <3> QED BY <1>10, <2>2, <3>1
  <2> QED BY <2>1, <2>2
<1> QED BY <1>3, <1>4, <1>6, <1>7, <1>8, <1>9, <1>10 DEF Returned, t, m

\* No choice is left.
LEMMA GiveUpSound ==
    ASSUME NEW text, NEW st, NEW c, NEW w, Sound(text, st, c, w),
           NEW n \in Nat, n > 1, Len(st) = n, NEW g, g = st[n - 1]
    PROVE  Sound(text, Returns(st, AfterMiss(g)), c, w)
<1> DEFINE x == AfterMiss(g)
           t == Returns(st, x)
<1>1. Stacked(st)
  BY DEF Sound
<1>2. /\ n - 1 \in 1..Len(st)
      /\ IsFrame(g) /\ g.i <= Len(Lines[g.line]) /\ g.i \in Nat /\ ~g.dead
      /\ g.line = "rule_xml_tag" => g.i \in {4, 6}
      /\ CallOf(g.line, g.i, g.alt, st[n].line)
  BY <1>1, CallerFlags
<1>3. /\ IsFrame(x) /\ x.line = g.line
      /\ x.i = IF SymbolOf(g).optional THEN g.i + 1 ELSE g.i
      /\ ~SymbolOf(g).optional => x.dead
  BY <1>2, FrameFacts DEF IsFrame
<1> HIDE DEF x
<1>4. /\ Len(t) = n - 1 /\ t[n - 1] = x /\ \A k \in 1..n - 2 : t[k] = st[k]
      /\ Stacked(t)
      /\ EndsRead(text, t)
      /\ \A k \in 1..n - 1 : Unopened(text, t, k) =>
            k = n - 1 /\ g.line = "rule_xml_tag" /\ ~x.dead /\ x.i < 7
      /\ \A k \in 1..n - 1 : Opened(t, k) =>
            Opened(st, k) \/ (k = n - 1 /\ g.line = "rule_xml_tag" /\ x.i = 7)
      /\ t[1].i < 3 \/ (t[1].i = 3 /\ n - 1 = 1) =>
            st[1].i < 3 \/ (n - 1 = 1 /\ g = st[1] /\ x = t[1] /\ g.i = 3 /\ x.i = 3)
  <2>1. x.i \in {g.i, g.i + 1}
    BY <1>3
  <2>2. Returned(text, st, n, g, x, t)
    BY <1>3, <2>1, ReturnFacts
  <2> QED BY <2>2 DEF Returned
<1> HIDE DEF t
<1>5. g.line = "rule_xml_tag" => (SymbolOf(g).optional <=> g.i = 4)
  BY <1>2, SymbolFlags
<1>6. Named(text, t, c, w)
  <2> SUFFICES ASSUME NEW k \in 1..n - 1, Unopened(text, t, k)
               PROVE  /\ t[k].i = 3 => c.used = 0
                      /\ t[k].i > 3 => c.tagname # Null
                      /\ k = 2 => w.root = NoNode
    BY <1>4 DEF Named
  <2>1. k = n - 1 /\ g.line = "rule_xml_tag" /\ ~x.dead
    BY <1>4
  <2>2. g.i = 4 /\ x.i = 5
    BY <1>2, <1>3, <1>5, <2>1
  <2>3. st[n].line = "attr_line"
    BY <1>2, <2>1, <2>2 DEF CallOf
  <2>4. Unopened(text, st, k)
    <3>1. k + 1 = n
      BY <2>1
    <3> QED BY <1>2, <2>1, <2>2, <2>3, <3>1 DEF Unopened, InTag
  <2>5. t[k].i = 5 /\ st[k].i = 4
    BY <1>4, <2>1, <2>2
  <2> QED BY <1>2, <2>1, <2>4, <2>5 DEF Sound, Named
<1>7. Rootless(t, w)
  <2>1. ~(n - 1 = 1 /\ g = st[1] /\ g.i = 3 /\ x.i = 3)
    <3>1. SUFFICES ASSUME g = st[1], g.i = 3, x.i = 3 PROVE FALSE
      OBVIOUS
    <3>2. g.line = "rule_xml_document"
      BY <1>1, <3>1 DEF Stacked
    <3>3. SymbolOf(g).optional
      BY <1>2, <3>2, SymbolFlags
    <3> QED BY <1>3, <3>1, <3>3
  <2> QED BY <1>4, <2>1 DEF Sound, Rootless
<1>8. Deep(t, w)
  <2>1. ASSUME NEW k \in 1..n - 1, Opened(t, k) PROVE k \in 1..Len(st) /\ Opened(st, k)
    <3>1. ~(g.line = "rule_xml_tag" /\ x.i = 7)
      BY <1>2, <1>3, <1>5
    <3> QED BY <1>4, <2>1, <3>1
  <2> QED BY <1>4, <2>1, StillDeep DEF Sound
<1> QED BY <1>4, <1>6, <1>7, <1>8 DEF Sound, t, x

\* The next choice is tried.
LEMMA NextChoiceSound ==
    ASSUME NEW text, NEW st, NEW c, NEW w, Sound(text, st, c, w),
           NEW n \in Nat, n > 1, Len(st) = n, NEW g, g = st[n - 1],
           NEW a, a = g.alt + 1, a <= Len(SymbolOf(g).elems)
    PROVE  Sound(text, TriesNext(st, [g EXCEPT !.alt = a], Call(SymbolOf(g).elems[a], g.pos)), c, w)
<1> DEFINE x == [g EXCEPT !.alt = a]
           line == SymbolOf(g).elems[a]
           y == Call(line, g.pos)
           t == TriesNext(st, x, y)
           m == n - 1
           f == st[n]
<1>1. IsSeq(st) /\ Stacked(st)
  BY DEF Sound, Stacked
<1>2. /\ m \in 1..Len(st) /\ n \in 1..Len(st)
      /\ IsFrame(g) /\ IsFrame(f) /\ Nests(f, g)
      /\ CallOf(g.line, g.i, g.alt, f.line)
      /\ g.i \in 1..Len(Lines[g.line]) /\ g.i <= Len(Lines[g.line]) /\ ~g.dead
      /\ g.i \in Nat /\ g.i > 0
      /\ g.line = "rule_xml_tag" => g.i \in {4, 6}
      /\ g.line = "rule_xml_tag_end_full" => g.i = 2
  BY <1>1, CallerFlags
<1>3. /\ IsFrame(x) /\ x.alt = a
      /\ x.line = g.line /\ x.i = g.i /\ x.pos = g.pos
      /\ x.hit = g.hit /\ x.some = g.some /\ x.dead = g.dead
  BY <1>2, TriesFacts
<1> HIDE DEF x
<1>4. g.alt \in Nat /\ g.alt > 0 /\ a \in 1..Len(SymbolOf(g).elems) /\ a > 1 /\ a \in Nat
      /\ Len(SymbolOf(g).elems) \in 1..2
      /\ CallOf(g.line, g.i, a, line)
  <2>1. LineIs(g.line)
    BY <1>2, Grammar DEF IsFrame
  <2>2. Len(SymbolOf(g).elems) \in 1..2
        /\ \A b \in 1..Len(SymbolOf(g).elems) : CallOf(g.line, g.i, b, SymbolOf(g).elems[b])
    BY <1>2, <2>1 DEF LineIs, SymbolIs, ChoiceIs, SymbolOf, Nests
  <2>3. g.alt \in 1..Len(SymbolOf(g).elems)
    BY <1>2 DEF Nests
  <2>4. a \in 1..Len(SymbolOf(g).elems) /\ a > 1 /\ g.alt \in Nat /\ g.alt > 0 /\ a \in Nat
    BY <2>2, <2>3
  <2> QED BY <2>2, <2>4
<1>5. a = 2 /\ g.alt = 1
  BY <1>4
<1> HIDE DEF line
<1>6. line \in DOMAIN Lines /\ g.pos \in Nat \ {0}
  BY <1>2, <1>4 DEF CallOf, IsFrame
<1>7. /\ IsFrame(y) /\ y.line = line /\ y.i = 1 /\ y.pos = g.pos
      /\ ~y.hit /\ ~y.some
  BY <1>6, CallFacts
<1>8. Nests(y, x)
  <2>1. SymbolOf(x) = SymbolOf(g)
    BY <1>3 DEF SymbolOf
  <2> QED BY <1>2, <1>3, <1>4, <1>7, <2>1 DEF Nests, line
<1> HIDE DEF y
<1>9. Agrees(t, m + 1, st, m - 1) /\ t[m] = x /\ t[m + 1] = y
  <2>1. Agrees(t, n, st, n - 2) /\ t[n - 1] = x /\ t[n] = y
    BY <1>1, CallerOps
  <2>2. n - 2 = m - 1 /\ m + 1 = n
    OBVIOUS
  <2> HIDE DEF t
  <2> QED BY <2>1, <2>2
<1> HIDE DEF t
<1>10. Len(t) = n /\ (\A k \in 1..m - 1 : t[k] = st[k]) /\ m \in Nat /\ m > 0 /\ m + 1 = n
  BY <1>9 DEF Agrees
<1>11. g = st[m]
  OBVIOUS
<1> HIDE DEF m, f
<1>12. Stacked(t)
  BY <1>1, <1>2, <1>3, <1>7, <1>8, <1>9, <1>11, StackedAgain
<1>13. EndsRead(text, t)
  <2>1. ASSUME m > 1 PROVE EndReads(text, x, st[m - 1])
    <3>1. m \in 2..Len(st)
      BY <1>2, <1>10, <2>1
    <3>2. EndReads(text, g, st[m - 1])
      BY <1>11, <3>1 DEF Sound, EndsRead
    <3> QED BY <1>3, <3>2 DEF EndReads, IsEnd
  <2>2. EndReads(text, y, x)
    BY <1>3, <1>7 DEF EndReads
  <2> QED BY <1>1, <1>2, <1>9, <2>1, <2>2, EndsAgain DEF Sound
<1>14. t[1].i = st[1].i
  <2>1. m = 1 \/ t[1] = st[1]
    BY <1>10
  <2> QED BY <1>3, <1>9, <1>11, <2>1
<1>15. Named(text, t, c, w)
  <2> SUFFICES ASSUME NEW k \in 1..n, Unopened(text, t, k)
               PROVE  /\ t[k].i = 3 => c.used = 0
                      /\ t[k].i > 3 => c.tagname # Null
                      /\ k = 2 => w.root = NoNode
    BY <1>10 DEF Named
  <2>1. k = m \/ k = m + 1
    BY <1>10, <1>12, UnopenedAtTop
  <2>2. k # m + 1
    <3>1. line # "rule_xml_tag"
      BY <1>4, <1>5 DEF CallOf
    <3> QED BY <1>7, <1>9, <3>1 DEF Unopened, InTag
  <2>3. k = m /\ t[k] = x /\ k + 1 = n /\ k < n
    BY <1>9, <1>10, <2>1, <2>2
  <2>4. g.line = "rule_xml_tag" /\ g.i \in {4, 6}
    BY <1>2, <1>3, <2>3 DEF Unopened, InTag
  <2>5. Unopened(text, st, k)
    <3>1. CASE g.i = 4
      <4>1. f.line = "attr_line"
        BY <1>2, <2>4, <3>1 DEF CallOf
      <4> QED BY <1>2, <1>11, <2>3, <2>4, <3>1, <4>1 DEF Unopened, InTag, f
    <3>2. CASE g.i = 6
      <4>1. line = "rule_xml_tag_end_empty" /\ f.line = "rule_xml_tag_end_full"
        BY <1>2, <1>4, <1>5, <2>4, <3>2 DEF CallOf
      <4>2. ~ReadsIn(text, <<">">>, g.pos)
        <5>1. t[k + 1].line = "rule_xml_tag_end_empty" /\ k # Len(t)
          BY <1>7, <1>9, <1>10, <2>3, <4>1
        <5> QED BY <1>3, <2>3, <5>1 DEF Unopened
      <4>3. EndReads(text, f, g)
        <5>1. n \in 2..Len(st) /\ n - 1 = m
          BY <1>2, <1>10
        <5> QED BY <1>11, <5>1 DEF Sound, EndsRead, f
      <4>4. f.i = 1
        BY <4>1, <4>2, <4>3 DEF EndReads, IsEnd, FirstOf
      <4> QED BY <1>2, <1>11, <2>3, <2>4, <3>2, <4>1, <4>4 DEF Unopened, InTag, f
    <3> QED BY <2>4, <3>1, <3>2
  <2>6. t[k].i = st[k].i
    BY <1>3, <1>11, <2>3
  <2> QED BY <1>2, <2>3, <2>5, <2>6 DEF Sound, Named
<1>16. Rootless(t, w)
  BY <1>10, <1>14 DEF Sound, Rootless
<1>17. Deep(t, w)
  <2>1. ASSUME NEW k \in 1..n, Opened(t, k) PROVE k \in 1..Len(st) /\ Opened(st, k)
    <3>1. \/ k \in 1..Len(st) /\ Opened(st, k)
          \/ k = m /\ x.i = 7 /\ InTag(st, m)
          \/ g.i <= 1 /\ x.i > 1
      BY <1>1, <1>2, <1>3, <1>7, <1>9, <1>10, <1>11, <2>1, OpenedAgain
    <3>2. ~(x.i = 7 /\ InTag(st, m))
      BY <1>2, <1>3, <1>11 DEF InTag
    <3> QED BY <1>2, <1>3, <3>1, <3>2
  <2> QED BY <1>10, <2>1, StillDeep DEF Sound
<1> QED BY <1>12, <1>13, <1>15, <1>16, <1>17 DEF Sound, t, x, y, line

\* Which lines have a handler at their end.
LEMMA EndHandlers ==
    ASSUME NEW line
    PROVE  /\ AtEndOf(line) = "got_tag_open" <=> line = "rule_xml_tag_end_empty"
           /\ AtEndOf(line) = "got_tag_close" <=> line = "rule_xml_tag"
           /\ AtEndOf(line) \in {"none", "accept_attr", "got_tag_open", "got_tag_close"}
<1>1. CASE line = "attr_line"
  BY <1>1 DEF AtEndOf
<1>2. CASE line = "rule_xml_tag_end_empty"
  BY <1>2 DEF AtEndOf
<1>3. CASE line = "rule_xml_tag"
  BY <1>3 DEF AtEndOf
<1>4. CASE line \notin {"attr_line", "rule_xml_tag_end_empty", "rule_xml_tag"}
  BY <1>4 DEF AtEndOf
<1> QED BY <1>1, <1>2, <1>3, <1>4

\* A line matches, and its handler is called if its end was reached.
LEMMA MatchSound ==
    ASSUME NEW text, NEW st, NEW c, NEW w, Sound(text, st, c, w),
           NEW n \in Nat, n > 1, Len(st) = n, NEW f, f = st[n], NEW g, g = st[n - 1],
           f.hit \/ f.some,
           NEW h, h = IF f.i > Len(Lines[f.line]) THEN AtEndOf(f.line) ELSE "none"
    PROVE  LET e == Parsed(c, h, <<>>)
           IN  Sound(text, Returns(st, AfterMatch(g, f.pos)), e, Walked(w, e, h, <<>>))
<1> DEFINE x == AfterMatch(g, f.pos)
           t == Returns(st, x)
           e == Parsed(c, h, <<>>)
           v == Walked(w, e, h, <<>>)
<1>1. Stacked(st)
  BY DEF Sound
<1>2. /\ n - 1 \in 1..Len(st) /\ n \in 1..Len(st)
      /\ IsFrame(g) /\ IsFrame(f) /\ g.i <= Len(Lines[g.line]) /\ g.i \in Nat /\ ~g.dead
      /\ g.line = "rule_xml_tag" => g.i \in {4, 6}
      /\ CallOf(g.line, g.i, g.alt, f.line)
  BY <1>1, CallerFlags
<1>3. /\ IsFrame(x) /\ x.line = g.line
      /\ x.i = IF SymbolOf(g).many THEN g.i ELSE g.i + 1
  BY <1>2, FrameFacts DEF IsFrame
<1> HIDE DEF x
<1>4. /\ Len(t) = n - 1 /\ t[n - 1] = x /\ \A k \in 1..n - 2 : t[k] = st[k]
      /\ Stacked(t)
      /\ EndsRead(text, t)
      /\ \A k \in 1..n - 1 : Unopened(text, t, k) =>
            k = n - 1 /\ g.line = "rule_xml_tag" /\ ~x.dead /\ x.i < 7
      /\ \A k \in 1..n - 1 : Opened(t, k) =>
            Opened(st, k) \/ (k = n - 1 /\ g.line = "rule_xml_tag" /\ x.i = 7)
      /\ t[1].i < 3 \/ (t[1].i = 3 /\ n - 1 = 1) =>
            st[1].i < 3 \/ (n - 1 = 1 /\ g = st[1] /\ x = t[1] /\ g.i = 3 /\ x.i = 3)
  <2>1. x.i \in {g.i, g.i + 1}
    BY <1>3
  <2>2. Returned(text, st, n, g, x, t)
    BY <1>3, <2>1, ReturnFacts
  <2> QED BY <2>2 DEF Returned
<1> HIDE DEF t
<1>5. g.line = "rule_xml_tag" => (SymbolOf(g).many <=> g.i = 4)
  BY <1>2, SymbolFlags
\* The end of a tag matches only if its first token did.
<1>6. IsEnd(f) => f.i # 1 /\ f.i \in Nat /\ ReadsIn(text, FirstOf(f.line), g.pos)
  <2>1. n \in 2..Len(st)
    BY <1>2
  <2>2. EndReads(text, f, g)
    BY <2>1 DEF Sound, EndsRead
  <2>3. Len(Lines[f.line]) \in Nat
    BY <1>2, Grammar DEF IsFrame, LineIs
  <2>4. f.i \in Nat
    BY <1>2, <2>3 DEF IsFrame
  <2> QED BY <2>2, <2>4 DEF EndReads
<1>7. f.i > 0 /\ f.i \in Nat /\ Len(Lines[f.line]) \in Nat /\ f.i <= Len(Lines[f.line]) + 1
  <2>1. Len(Lines[f.line]) \in Nat
    BY <1>2, Grammar DEF IsFrame, LineIs
  <2> QED BY <1>2, <2>1 DEF IsFrame
<1>8. /\ h = "got_tag_open" => f.line = "rule_xml_tag_end_empty"
      /\ h = "got_tag_close" => f.line = "rule_xml_tag" /\ f.i = 7
      /\ h \in {"none", "accept_attr", "got_tag_open", "got_tag_close"}
  <2>1. CASE f.i > Len(Lines[f.line])
    <3>1. h = AtEndOf(f.line)
      BY <2>1
    <3>2. f.line = "rule_xml_tag" => f.i = 7
      <4> SUFFICES ASSUME f.line = "rule_xml_tag" PROVE f.i = 7
        OBVIOUS
      <4>1. Len(Lines[f.line]) = 6
        BY GrammarFlags
      <4> QED BY <1>7, <2>1, <4>1
    <3> QED BY <3>1, <3>2, EndHandlers
  <2>2. CASE ~(f.i > Len(Lines[f.line]))
    BY <2>2
  <2> QED BY <2>1, <2>2
<1>9. f.line = "rule_xml_tag_end_empty" => h = "got_tag_open"
  <2> SUFFICES ASSUME f.line = "rule_xml_tag_end_empty" PROVE h = "got_tag_open"
    OBVIOUS
  <2>1. Len(Lines["rule_xml_tag_end_empty"]) = 1
    BY GrammarFlags
  <2>2. f.i > Len(Lines[f.line])
    BY <1>6, <1>7, <2>1 DEF IsEnd
  <2>3. h = AtEndOf(f.line)
    BY <2>2
  <2> QED BY <2>3, EndHandlers
<1>10. IsParse(e) /\ e.tagname = c.tagname
  BY <1>8, ParsedFacts DEF Sound
<1>11. v = CASE h = "got_tag_open" -> startElement(w, e.tagname, AttrsOf(e))
             [] h = "got_tag_close" -> endElement(w)
             [] OTHER -> w
  BY <1>8 DEF Walked
<1> HIDE DEF e, v
\* The walker.
<1>12. /\ Fine(v) /\ ~v.fault
       /\ v.root = w.root \/ (st[1].i = 3 /\ n - 1 # 1)
       /\ h \notin {"got_tag_open", "got_tag_close"} => v = w
       /\ \E d \in Nat : /\ HasDepth(v, d)
                         /\ \A k \in 1..n - 1 : Opened(st, k) => k + 1 <= 3 * d
                         /\ h = "got_tag_open" => n - 1 + 1 <= 3 * d
  <2>1. CASE h = "got_tag_open"
    <3>1. f.line = "rule_xml_tag_end_empty"
      BY <1>8, <2>1
    <3>2. /\ n - 1 \in 1..Len(st) /\ InTag(st, n - 1) /\ st[n - 1].i = 6 /\ ~st[n - 1].dead
          /\ n > 2
      BY <1>1, <1>2, <3>1, EndPlace DEF IsEnd
    <3>3. ReadsIn(text, <<"/", ">">>, g.pos)
      BY <1>6, <3>1 DEF IsEnd, FirstOf
    <3>4. ~ReadsIn(text, <<">">>, g.pos)
      BY <3>3, OneEnd
    <3>5. Unopened(text, st, n - 1)
      <4>1. n - 1 + 1 = n
        OBVIOUS
      <4> QED BY <3>1, <3>2, <3>4, <4>1 DEF Unopened
    <3>6. v = startElement(w, c.tagname, AttrsOf(e))
      BY <1>10, <1>11, <2>1
    <3>7. /\ Fine(v) /\ ~v.fault
          /\ n - 1 # 2 => v.root = w.root
          /\ n - 1 = 2 => st[1].i = 3
          /\ \E d \in Nat : IsDeep(st, v, d) /\ n - 1 + 1 <= 3 * d
      BY <3>2, <3>5, <3>6, OpensTag
    <3>8. \E d \in Nat : /\ HasDepth(v, d)
                         /\ \A k \in 1..n - 1 : Opened(st, k) => k + 1 <= 3 * d
                         /\ h = "got_tag_open" => n - 1 + 1 <= 3 * d
      BY <3>7 DEF IsDeep
    <3> QED BY <2>1, <3>2, <3>7, <3>8
  <2>2. CASE h = "got_tag_close"
    <3>1. Opened(st, n)
      BY <1>2, <1>8, <2>2 DEF Opened, InTag
    <3>2. v = endElement(w)
      BY <1>11, <2>2
    <3>3. /\ Fine(v) /\ ~v.fault /\ v.root = w.root
          /\ \E d \in Nat : /\ HasDepth(v, d)
                            /\ \A k \in 1..n - 1 : Opened(st, k) => k + 1 <= 3 * d
      BY <1>2, <3>1, <3>2, ClosesTag
    <3> QED BY <2>2, <3>3
  <2>3. CASE h \notin {"got_tag_open", "got_tag_close"}
    <3>1. v = w
      BY <1>11, <2>3
    <3>2. PICK d \in Nat : IsDeep(st, w, d)
      BY DEF Sound, Deep
    <3>3. \A k \in 1..n - 1 : Opened(st, k) => k + 1 <= 3 * d
      BY <3>2 DEF IsDeep
    <3> QED BY <2>3, <3>1, <3>2, <3>3 DEF Sound, IsDeep
  <2> QED BY <2>1, <2>2, <2>3
<1>13. Named(text, t, e, v)
  <2> SUFFICES ASSUME NEW k \in 1..n - 1, Unopened(text, t, k)
               PROVE  /\ t[k].i = 3 => e.used = 0
                      /\ t[k].i > 3 => e.tagname # Null
                      /\ k = 2 => v.root = NoNode
    BY <1>4 DEF Named
  <2>1. k = n - 1 /\ g.line = "rule_xml_tag" /\ x.i < 7
    BY <1>4
  <2>2. g.i = 4 /\ x.i = 4
    BY <1>2, <1>3, <1>5, <2>1
  <2>3. f.line = "attr_line"
    BY <1>2, <2>1, <2>2 DEF CallOf
  <2>4. Unopened(text, st, k)
    <3>1. k + 1 = n
      BY <2>1
    <3> QED BY <1>2, <2>1, <2>2, <2>3, <3>1 DEF Unopened, InTag
  <2>5. t[k].i = 4 /\ st[k].i = 4
    BY <1>4, <2>1, <2>2
  <2>6. v = w
    BY <1>8, <1>12, <2>3
  <2> QED BY <1>2, <1>10, <2>1, <2>4, <2>5, <2>6 DEF Sound, Named
<1>14. Rootless(t, v)
  <2>1. ~(n - 1 = 1 /\ g = st[1] /\ g.i = 3 /\ x.i = 3)
    <3>1. SUFFICES ASSUME g = st[1], g.i = 3, x.i = 3 PROVE FALSE
      OBVIOUS
    <3>2. g.line = "rule_xml_document"
      BY <1>1, <3>1 DEF Stacked
    <3>3. ~SymbolOf(g).many
      BY <1>2, <3>1, <3>2, SymbolFlags
    <3> QED BY <1>3, <3>1, <3>3
  <2>2. SUFFICES ASSUME t[1].i < 3 \/ (t[1].i = 3 /\ n - 1 = 1) PROVE v.root = NoNode
    BY <1>4 DEF Rootless
  <2>3. st[1].i < 3
    BY <1>4, <2>1, <2>2
  <2>4. w.root = NoNode
    BY <1>2, <2>3 DEF Sound, Rootless
  <2>5. st[1].i # 3
    BY <2>3
  <2> QED BY <1>12, <2>4, <2>5
<1>15. Deep(t, v)
  <2>1. PICK d \in Nat : /\ HasDepth(v, d)
                         /\ \A k \in 1..n - 1 : Opened(st, k) => k + 1 <= 3 * d
                         /\ h = "got_tag_open" => n - 1 + 1 <= 3 * d
    BY <1>12
  <2>2. ASSUME NEW k \in 1..n - 1, Opened(t, k) PROVE k + 1 <= 3 * d
    <3>1. CASE Opened(st, k)
      BY <2>1, <3>1
    <3>2. CASE k = n - 1 /\ g.line = "rule_xml_tag" /\ x.i = 7
      <4>1. g.i = 6
        BY <1>2, <1>3, <3>2
      <4>2. IsEnd(f)
        <5>1. g.alt \in 1..2
          <6>1. Nests(f, g)
            BY <1>1, CallerFlags
          <6>2. Len(SymbolOf(g).elems) = 2
            BY <3>2, <4>1, GrammarFlags DEF SymbolOf
          <6> QED BY <6>1, <6>2 DEF Nests
        <5> QED BY <1>2, <3>2, <4>1, <5>1 DEF CallOf, IsEnd
      <4>3. CASE f.line = "rule_xml_tag_end_full"
        <5>1. f.i > 1 /\ k + 1 = n /\ k < n
          BY <1>6, <1>7, <3>2, <4>2
        <5>2. Opened(st, k)
          BY <1>2, <3>2, <4>3, <5>1 DEF Opened, InTag
        <5> QED BY <2>1, <5>2
      <4>4. CASE f.line = "rule_xml_tag_end_empty"
        BY <1>9, <2>1, <3>2, <4>4
      <4> QED BY <4>2, <4>3, <4>4 DEF IsEnd
    <3> QED BY <1>4, <2>2, <3>1, <3>2
  <2> QED BY <1>4, <2>1, <2>2 DEF Deep, IsDeep
<1>16. Sound(text, t, e, v)
  BY <1>4, <1>10, <1>12, <1>13, <1>14, <1>15 DEF Sound
<1> QED BY <1>16 DEF t, x, e, v

------------------------------------------------------------------------------
(* No null pointer is followed.                                            *)

\* Every name in the buffer fits the strings of a tag.  Nothing in the code sees
\* to that: a file may hold longer names, and set_tag_name (egram_xml.c:52) goes
\* on without one.
NamesFit ==
    \A p \in DOMAIN content :
        LET r == read_token_alphanum(p)
        IN  r.hit => place_str(NewParse, r.value) # Null

ParserInv ==
    /\ Sound(content, stack, parse, walker)
    /\ Parsing <=> stack # <<>>

LEMMA IdleSound ==
    ASSUME NEW text, IsSeq(text), NEW c, IsParse(c), NEW w, Fine(w), ~w.fault
    PROVE  Sound(text, <<>>, c, w)
<1> DEFINE st == <<>>
<1>1. IsSeq(st) /\ Len(st) = 0
  <2>1. st \in Seq({})
    OBVIOUS
  <2> QED BY <2>1 DEF IsSeq
<1> HIDE DEF st
<1>2. Stacked(st)
  BY <1>1 DEF Stacked
<1>3. EndsRead(text, st) /\ Named(text, st, c, w) /\ Rootless(st, w)
  BY <1>1 DEF EndsRead, Named, Rootless
<1>4. Deep(st, w)
  <2>1. IsDeep(st, w, 0)
    BY <1>1 DEF IsDeep, HasDepth
  <2> QED BY <2>1 DEF Deep
<1>5. Sound(text, st, c, w)
  BY <1>2, <1>3, <1>4 DEF Sound
<1> QED BY <1>5 DEF st

LEMMA StartSound ==
    ASSUME NEW text, IsSeq(text), NEW c, IsParse(c)
    PROVE  Sound(text, <<Call("rule_xml_document", 1)>>, c, EmptyWalker)
<1> DEFINE x == Call("rule_xml_document", 1)
           st == <<x>>
           w == EmptyWalker
<1>1. "rule_xml_document" \in DOMAIN Lines
  BY LineNames
<1>2. IsFrame(x) /\ x.line = "rule_xml_document" /\ x.i = 1
  BY <1>1, CallFacts
<1> HIDE DEF x
<1>3. IsSeq(st) /\ Len(st) = 1 /\ st[1] = x
  <2>1. st \in Seq({x})
    OBVIOUS
  <2> QED BY <2>1 DEF IsSeq
<1> HIDE DEF st
<1>4. Stacked(st)
  BY <1>2, <1>3 DEF Stacked
<1>5. EndsRead(text, st)
  BY <1>3 DEF EndsRead
<1>6. \A k \in 1..Len(st) : ~InTag(st, k)
  BY <1>2, <1>3 DEF InTag
<1>7. Named(text, st, c, w)
  BY <1>6 DEF Named, Unopened
<1>8. Fine(w) /\ ~w.fault /\ w.root = NoNode
  BY EmptyLinks DEF Fine, EmptyWalker
<1>9. Rootless(st, w)
  BY <1>8 DEF Rootless
<1>10. Deep(st, w)
  <2>1. IsDeep(st, w, 0)
    BY <1>6 DEF IsDeep, HasDepth, Opened
  <2> QED BY <2>1 DEF Deep
<1>11. Sound(text, st, c, w)
  BY <1>4, <1>5, <1>7, <1>8, <1>9, <1>10 DEF Sound
<1> QED BY <1>11 DEF st, x

LEMMA FirstParse == IsParse(NewParse)
  BY DEF IsParse, NewParse

\* What the buffer holds is a sequence, whatever was read into it.
LEMMA OverwrittenSeq ==
    ASSUME IsSeq(content), NEW s, IsSeq(s)
    PROVE  IsSeq(Overwritten(s))
<1>1. PICK S : s \in Seq(S)
  BY DEF IsSeq
<1>2. PICK T : content \in Seq(T)
  BY DEF IsSeq
<1>3. s \in Seq(S \cup T) /\ Len(s) \in Nat /\ Len(content) \in Nat
  BY <1>1, <1>2
<1> DEFINE u == SubSeq(content, Len(s) + 1, Len(content))
<1>4. u \in Seq(S \cup T)
  <2> DEFINE a == Len(s) + 1
             b == Len(content)
  <2>1. a \in Int /\ b \in Int /\ a > 0
    BY <1>3
  <2>2. \A i \in a..b : content[i] \in S \cup T
    BY <1>2, <1>3
  <2> HIDE DEF a, b
  <2>3. SubSeq(content, a, b) \in Seq(S \cup T)
    BY <2>1, <2>2, SubSeqProperties
  <2> QED BY <2>3 DEF a, b
<1> HIDE DEF u
<1>5. s \o u \in Seq(S \cup T)
  BY <1>3, <1>4
<1> QED BY <1>5 DEF Overwritten, IsSeq, u

LEMMA TextSeq ==
    ASSUME loads \in Nat, loads < Len(Sources), NEW s \in Sources[loads + 1]
    PROVE  IsSeq(s.text)
<1>1. loads + 1 \in DOMAIN Sources
  BY EgramAssumption
<1>2. s.text \in Seq(Range(s.text))
  BY <1>1, EgramAssumption
<1> QED BY <1>2 DEF IsSeq

LEMMA PartSeq ==
    ASSUME NEW s, IsSeq(s), NEW n \in Nat, n <= Len(s)
    PROVE  IsSeq(SubSeq(s, 1, n))
  BY FirstOnes DEF Agrees

LEMMA CallerLengths ==
    ASSUME NEW s, IsSeq(s), NEW n \in Nat, n > 1, Len(s) = n, NEW c, NEW x
    PROVE  Len(Returns(s, c)) = n - 1 /\ Len(TriesNext(s, c, x)) = n
<1> DEFINE t == Returns(s, c)
           u == TriesNext(s, c, x)
<1>1. Agrees(t, n - 1, s, n - 2)
  BY CallerOps
<1>2. Agrees(u, n, s, n - 2)
  BY CallerOps
<1> HIDE DEF t, u
<1>3. Len(t) = n - 1 /\ Len(u) = n
  BY <1>1, <1>2 DEF Agrees
<1> QED BY <1>3 DEF t, u

\* One step of process_line.
LEMMA StepSound ==
    ASSUME Sound(content, stack, parse, walker), Parsing <=> stack # <<>>, NamesFit, Step
    PROVE  ParserInv'
<1> DEFINE n == Len(stack)
           f == stack[n]
           g == stack[n - 1]
<1>1. Parsing /\ stack # <<>> /\ content' = content
  BY DEF Step, ReadToken, EnterChoice, LineMatches, LineMisses, EndParse
<1>2. IsSeq(stack) /\ Stacked(stack) /\ IsSeq(content)
  BY DEF Sound, Stacked
<1>3. n \in Nat /\ n > 0
  BY <1>1, <1>2, EmptyLength, AppendFacts
<1>4. n \in 1..Len(stack) /\ Top = f
  BY <1>3 DEF Top, Last
<1>5. IsFrame(f)
  BY <1>2, <1>4 DEF Stacked
<1>6. Len(stack) > 1 => Caller = g
  BY <1>2, <1>3, CallerOps DEF Caller, Below
<1>7. Going(Top) => f.i <= Len(Lines[f.line]) /\ ~f.dead /\ f.pos \in 1..Len(content)
  <2>1. Len(Lines[f.line]) \in Nat /\ Len(content) \in Nat
    BY <1>2, <1>5, Grammar, AppendFacts DEF IsFrame, LineIs
  <2> QED BY <1>4, <1>5, <2>1 DEF Going, AtEnd, IsFrame
<1> HIDE DEF n, f, g
\* While a call is on the stack, parsing goes on.
<1>8. ASSUME Sound(content, stack', parse', walker'), Len(stack') # 0, verdict' = verdict
      PROVE  ParserInv'
  <2>1. stack' # <<>>
    <3>1. IsSeq(stack')
      BY <1>8 DEF Sound, Stacked
    <3> QED BY <1>8, <3>1, EmptyLength
  <2> QED BY <1>1, <1>8, <2>1 DEF ParserInv, Parsing
<1>9. CASE ReadToken
  <2>1. f.i <= Len(Lines[f.line]) /\ ~f.dead /\ f.pos \in 1..Len(content) /\ SymbolOf(f).term
    BY <1>4, <1>7, <1>9 DEF ReadToken
  <2>2. IsToken(SymbolOf(f).token)
    BY <1>5, <2>1, SymbolFlags DEF TokenIs, SymbolOf
  <2> DEFINE r == read_token(SymbolOf(f).token, f.pos)
  <2>3. \/ /\ r.hit
           /\ Handle(SymbolOf(f).h, r.value)
           /\ stack' = GoesOn(stack, AfterMatch(f, f.pos + r.n))
        \/ /\ ~r.hit
           /\ stack' = GoesOn(stack, AfterMiss(f))
           /\ UNCHANGED <<parse, walker>>
    BY <1>4, <1>9 DEF ReadToken, GoesOn, Below
  <2>4. \A x : Len(GoesOn(stack, x)) = n
    BY <1>2, <1>3, StackOps DEF n, Agrees
  <2>5. verdict' = verdict
    BY <1>9 DEF ReadToken
  <2>6. CASE r.hit /\ Handle(SymbolOf(f).h, r.value)
              /\ stack' = GoesOn(stack, AfterMatch(f, f.pos + r.n))
    <3>1. r.n \in Nat
      BY <1>2, <2>1, <2>2, <2>6, TokenMoves
    <3>2. f.pos + r.n \in Nat \ {0}
      BY <2>1, <3>1
    <3>3. \A lit : SymbolOf(f).token = Literal(lit) => ReadsIn(content, lit, f.pos)
      BY <2>6, LiteralHit
    <3>4. SymbolOf(f).token = alphanum => place_str(NewParse, r.value) # Null
      <4>1. f.pos \in DOMAIN content
        <5>1. PICK S : content \in Seq(S)
          BY <1>2 DEF IsSeq
        <5> QED BY <2>1, <5>1
      <4> QED BY <2>6, <4>1, NameHit DEF NamesFit
    <3> DEFINE h == SymbolOf(f).h
               e == Parsed(parse, h, r.value)
    <3>5. Sound(content, GoesOn(stack, AfterMatch(f, f.pos + r.n)), e, Walked(walker, e, h, r.value))
      BY <1>3, <2>1, <3>2, <3>3, <3>4, HitSound DEF n, f
    <3>6. parse' = e /\ walker' = Walked(walker, e, h, r.value)
      BY <2>6 DEF Handle
    <3> QED BY <1>3, <1>8, <2>4, <2>5, <2>6, <3>5, <3>6
  <2>7. CASE ~r.hit /\ stack' = GoesOn(stack, AfterMiss(f)) /\ UNCHANGED <<parse, walker>>
    <3>1. Sound(content, GoesOn(stack, AfterMiss(f)), parse, walker)
      BY <1>3, <2>1, MissSound DEF n, f
    <3> QED BY <1>3, <1>8, <2>4, <2>5, <2>7, <3>1
  <2> QED BY <2>3, <2>6, <2>7
<1>10. CASE EnterChoice
  <2>1. f.i <= Len(Lines[f.line]) /\ ~f.dead /\ ~SymbolOf(f).term
    BY <1>4, <1>7, <1>10 DEF EnterChoice
  <2>2. stack' = Tries(stack, [f EXCEPT !.alt = 1], Call(SymbolOf(f).elems[1], f.pos))
    BY <1>4, <1>10 DEF EnterChoice, Tries, Below
  <2>3. Sound(content, Tries(stack, [f EXCEPT !.alt = 1], Call(SymbolOf(f).elems[1], f.pos)),
              parse, walker)
    BY <1>3, <2>1, EnterSound DEF n, f
  <2>4. \A c, x : Len(Tries(stack, c, x)) = n + 1
    BY <1>2, <1>3, StackOps DEF n, Agrees
  <2>5. parse' = parse /\ walker' = walker /\ verdict' = verdict
    BY <1>10 DEF EnterChoice
  <2> QED BY <1>3, <1>8, <2>2, <2>3, <2>4, <2>5
<1>11. CASE LineMatches
  <2>1. n > 1 /\ Caller = g /\ (f.hit \/ f.some)
    BY <1>4, <1>6, <1>11 DEF LineMatches, Matches, n
  <2> DEFINE h == IF f.i > Len(Lines[f.line]) THEN AtEndOf(f.line) ELSE "none"
             e == Parsed(parse, h, <<>>)
  <2>2. Handle(h, <<>>) /\ stack' = Returns(stack, AfterMatch(g, f.pos)) /\ verdict' = verdict
    BY <1>4, <1>11, <2>1 DEF LineMatches, AtEnd, Returns, Below
  <2>3. Sound(content, Returns(stack, AfterMatch(g, f.pos)), e, Walked(walker, e, h, <<>>))
    BY <1>3, <2>1, MatchSound DEF n, f, g
  <2>4. \A c : Len(Returns(stack, c)) = n - 1
    BY <1>2, <1>3, <2>1, CallerLengths DEF n
  <2>5. parse' = e /\ walker' = Walked(walker, e, h, <<>>)
    BY <2>2 DEF Handle
  <2> HIDE DEF h, e
  <2> QED BY <1>3, <1>8, <2>1, <2>2, <2>3, <2>4, <2>5
<1>12. CASE LineMisses
  <2>1. n > 1 /\ Caller = g
    BY <1>6, <1>12 DEF LineMisses, n
  <2> DEFINE elems == SymbolOf(g).elems
             a == g.alt + 1
  <2>2. stack' = Front(Below) \o
                      IF a <= Len(elems)
                      THEN <<[g EXCEPT !.alt = a], Call(elems[a], g.pos)>>
                      ELSE <<AfterMiss(g)>>
    BY <1>12, <2>1 DEF LineMisses
  <2>5. parse' = parse /\ walker' = walker /\ verdict' = verdict
    BY <1>12 DEF LineMisses
  <2>3. CASE a <= Len(elems)
    <3> DEFINE t == TriesNext(stack, [g EXCEPT !.alt = a], Call(elems[a], g.pos))
    <3>1. stack' = t
      BY <2>2, <2>3 DEF TriesNext, Below
    <3>2. Sound(content, t, parse, walker)
      BY <1>3, <2>1, <2>3, NextChoiceSound DEF n, g
    <3>3. Len(t) = n
      BY <1>2, <1>3, <2>1, CallerLengths DEF n
    <3> HIDE DEF t
    <3>4. Sound(content, stack', parse', walker') /\ Len(stack') # 0
      BY <1>3, <2>5, <3>1, <3>2, <3>3
    <3> QED BY <1>8, <2>5, <3>4
  <2>4. CASE ~(a <= Len(elems))
    <3>1. stack' = Front(Below) \o <<AfterMiss(g)>>
      BY <2>2, <2>4
    <3>2. stack' = Returns(stack, AfterMiss(g))
      <4>1. IsSeq(Front(Below))
        <5>1. Agrees(Front(stack), n - 1, stack, n - 1)
          BY <1>2, <1>3, FrontFacts DEF n
        <5>2. IsSeq(Front(stack)) /\ Len(Front(stack)) > 0
          BY <1>3, <2>1, <5>1 DEF Agrees
        <5> QED BY <5>2, FrontFacts DEF Below, Agrees
      <4>2. PICK S : Front(Below) \in Seq(S)
        BY <4>1 DEF IsSeq
      <4> DEFINE T == S \cup {AfterMiss(g)}
      <4>3. Front(Below) \in Seq(T) /\ AfterMiss(g) \in T
        BY <4>2
      <4>4. Append(Front(Below), AfterMiss(g)) = Front(Below) \o <<AfterMiss(g)>>
        <5> HIDE DEF T
        <5> QED BY <4>3, AppendIsConcat
      <4> QED BY <3>1, <4>4 DEF Returns, Below
    <3>3. Sound(content, Returns(stack, AfterMiss(g)), parse, walker)
      BY <1>3, <2>1, GiveUpSound DEF n, g
    <3>4. Len(Returns(stack, AfterMiss(g))) = n - 1
      BY <1>2, <1>3, <2>1, CallerLengths DEF n
    <3>5. Sound(content, stack', parse', walker') /\ Len(stack') # 0
      BY <1>3, <2>1, <2>5, <3>2, <3>3, <3>4
    <3> QED BY <1>8, <2>5, <3>5
  <2> QED BY <2>3, <2>4
<1>13. CASE EndParse
  <2>1. stack' = <<>> /\ parse' = parse /\ walker' = walker
        /\ verdict' \in {"xml_e_ok", "xml_e_dom_parsing"}
    BY <1>13 DEF EndParse
  <2>2. Sound(content, <<>>, parse, walker)
    BY IdleSound DEF Sound
  <2> QED BY <1>1, <2>1, <2>2 DEF ParserInv, Parsing
<1> QED BY <1>9, <1>10, <1>11, <1>12, <1>13 DEF Step

\* No handler follows a null pointer as long as names fit: data and ends of tags
\* come while an element is open, and a tag is opened once, after its name and
\* before its end (process_line of egram.c with the handlers of egram_xml.c and
\* parser_egram.c), whatever alternatives were tried and given up before.
THEOREM NullIsNotFollowed == Spec /\ []NamesFit => []NoNullIsFollowed
<1> DEFINE Counted == ParserInv /\ loads \in Nat
<1>1. Init => Counted
  <2> SUFFICES ASSUME Init PROVE Counted
    OBVIOUS
  <2>1. IsSeq(<<>>)
    <3>1. <<>> \in Seq({})
      OBVIOUS
    <3> QED BY <3>1 DEF IsSeq
  <2>2. Fine(EmptyWalker) /\ ~EmptyWalker.fault
    BY EmptyLinks DEF Fine, EmptyWalker
  <2>3. Sound(<<>>, <<>>, NewParse, EmptyWalker)
    BY <2>1, <2>2, FirstParse, IdleSound
  <2> QED BY <2>3 DEF Init, ParserInv, Parsing
<1>2. Counted /\ NamesFit /\ [Next]_vars => Counted'
  <2> SUFFICES ASSUME Counted, NamesFit, [Next]_vars
               PROVE  Counted'
    OBVIOUS
  <2>1. CASE UNCHANGED vars
    BY <2>1 DEF vars, ParserInv, Parsing
  <2>2. CASE Step
    <3>1. ParserInv'
      BY <2>2, StepSound DEF ParserInv
    <3>2. loads' = loads
      BY <2>2 DEF Step, ReadToken, EnterChoice, LineMatches, LineMisses, EndParse
    <3> QED BY <3>1, <3>2
  <2>3. CASE ~Parsing /\ loads < Len(Sources)
             /\ \E s \in Sources[loads + 1] : ReadFile(s) \/ TooLong(s) \/ ReadFails(s)
    <3>1. PICK s \in Sources[loads + 1] : ReadFile(s) \/ TooLong(s) \/ ReadFails(s)
      BY <2>3
    <3>2. stack = <<>> /\ loads' = loads + 1 /\ IsSeq(s.text) /\ IsSeq(content) /\ IsParse(parse)
      BY <2>3, <3>1, TextSeq DEF ParserInv, Sound, ReadFile, TooLong, ReadFails, Opens
    <3>3. Fine(EmptyWalker) /\ ~EmptyWalker.fault
      BY EmptyLinks DEF Fine, EmptyWalker
    <3>4. parse' = parse /\ walker' = EmptyWalker
      BY <3>1 DEF ReadFile, TooLong, ReadFails
    <3>5. CASE ReadFile(s)
      <4>1. IsSeq(Overwritten(s.text))
        BY <3>2, OverwrittenSeq
      <4> DEFINE first == <<Call("rule_xml_document", 1)>>
      <4>2. Sound(Overwritten(s.text), first, parse, EmptyWalker)
        BY <3>2, <4>1, StartSound
      <4>3. first # <<>>
        OBVIOUS
      <4> HIDE DEF first
      <4>4. content' = Overwritten(s.text) /\ stack' = first /\ verdict' = "parsing"
        BY <3>5 DEF ReadFile, first
      <4> QED BY <3>2, <3>4, <4>2, <4>3, <4>4 DEF ParserInv, Parsing
    <3>6. CASE TooLong(s) \/ ReadFails(s)
      <4>1. stack' = <<>> /\ verdict' # "parsing"
        BY <3>2, <3>6 DEF TooLong, ReadFails
      <4>2. IsSeq(content')
        <5>1. CASE TooLong(s)
          <6>1. IsSeq(SubSeq(s.text, 1, MAX_XML_FILE_SIZE))
            BY <3>2, <5>1, EgramAssumption, PartSeq DEF TooLong
          <6> QED BY <3>2, <5>1, <6>1, OverwrittenSeq DEF TooLong
        <5>2. CASE ReadFails(s) /\ content' = content
          BY <3>2, <5>2
        <5>3. ASSUME NEW k \in 0..MAX_XML_FILE_SIZE, k <= Len(s.text),
                     content' = Overwritten(SubSeq(s.text, 1, k))
              PROVE  IsSeq(content')
          <6>1. IsSeq(SubSeq(s.text, 1, k))
            BY <3>2, <5>3, EgramAssumption, PartSeq
          <6> QED BY <3>2, <5>3, <6>1, OverwrittenSeq
        <5>4. Len(s.text) \in Nat
          BY <3>2, AppendFacts
        <5> QED BY <3>6, <5>1, <5>2, <5>3, <5>4 DEF ReadFails
      <4>3. Sound(content', <<>>, parse, EmptyWalker)
        BY <3>2, <3>3, <4>2, IdleSound
      <4> QED BY <3>2, <3>4, <4>1, <4>3 DEF ParserInv, Parsing
    <3> QED BY <3>1, <3>5, <3>6
  <2> QED BY <2>1, <2>2, <2>3 DEF Next
<1>3. Counted => NoNullIsFollowed
  BY DEF ParserInv, Sound, NoNullIsFollowed
<1> QED BY <1>1, <1>2, <1>3, PTL DEF Spec
==============================================================================

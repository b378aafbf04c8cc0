--------------------------------- MODULE Dom ---------------------------------
(***************************************************************************)
(* The document tree of xml/xml.c and the walker of xml/egram/             *)
(* parser_egram.c that builds it from a parser's calls.  A node is its     *)
(* place in the order of creation; 0 is a null pointer.  A string is a     *)
(* sequence of lexemes, and the empty one stands for data that is not set. *)
(*                                                                         *)
(* A walker is [nodes, root, cur, fault]: fault is set when a handler      *)
(* would follow a null pointer.                                            *)
(***************************************************************************)
EXTENDS Naturals, Sequences

CONSTANTS Null,         \* a string that could not be stored
          Space         \* the lexeme for a blank, a tab or a line end

NoNode == 0

EmptyWalker == [nodes |-> <<>>, root |-> NoNode, cur |-> NoNode, fault |-> FALSE]

new_node(name, attrs) ==
    [name |-> name, attrs |-> attrs, data |-> <<>>,
     parent |-> NoNode, first |-> NoNode, last |-> NoNode, next |-> NoNode]

\* As if a further child were linked to the first one.
FirstLink_node_add_child(nodes, p, c) ==
    LET linked == IF nodes[p].first = NoNode
                  THEN [nodes EXCEPT ![p].first = c, ![p].last = c]
                  ELSE [nodes EXCEPT ![nodes[p].first].next = c, ![p].last = c]
    IN  [linked EXCEPT ![c].parent = p]

node_add_child(nodes, p, c) ==
    LET linked == IF nodes[p].first = NoNode
                  THEN [nodes EXCEPT ![p].first = c, ![p].last = c]
                  ELSE [nodes EXCEPT ![nodes[p].last].next = c, ![p].last = c]
    IN  [linked EXCEPT ![c].parent = p]

\* A second root is dropped; without a name there is nothing to copy.
startElement(w, name, attrs) ==
    LET n == Len(w.nodes) + 1
        grown == Append(w.nodes, new_node(name, attrs))
    IN  IF name = Null THEN [w EXCEPT !.fault = TRUE]
        ELSE IF w.root = NoNode
        THEN [w EXCEPT !.nodes = grown, !.root = n, !.cur = n]
        ELSE IF w.cur = NoNode THEN w
        ELSE [w EXCEPT !.nodes = node_add_child(grown, w.cur, n), !.cur = n]

Blank(s) == \A i \in DOMAIN s : s[i] = Space

\* What is not blank is appended, whatever came between.
charDatahandler(w, s) ==
    IF Blank(s) THEN w
    ELSE IF w.cur = NoNode THEN [w EXCEPT !.fault = TRUE]
    ELSE [w EXCEPT !.nodes[w.cur].data = @ \o s]

endElement(w) ==
    IF w.cur = NoNode THEN [w EXCEPT !.fault = TRUE]
    ELSE [w EXCEPT !.cur = w.nodes[w.cur].parent]
------------------------------------------------------------------------------
\* The links of a walker's nodes are those of one tree: the root is the only
\* node without a parent, and a parent is older than its children;
Rooted(w) ==
    /\ w.root = IF w.nodes = <<>> THEN NoNode ELSE 1
    /\ w.cur \in 0..Len(w.nodes)
    /\ \A n \in 1..Len(w.nodes) : /\ w.nodes[n].parent \in 0..(n - 1)
                                  /\ w.nodes[n].parent = NoNode <=> n = 1

\* the first and the last child of n are the oldest and the youngest one;
HasChildren(w, n) ==
    LET first == w.nodes[n].first
        last == w.nodes[n].last
    IN  \/ /\ first = NoNode /\ last = NoNode
           /\ \A k \in 1..Len(w.nodes) : w.nodes[k].parent # n
        \/ /\ first \in 1..Len(w.nodes) /\ w.nodes[first].parent = n
           /\ last \in 1..Len(w.nodes) /\ w.nodes[last].parent = n
           /\ \A k \in 1..Len(w.nodes) : w.nodes[k].parent = n => first <= k /\ k <= last

\* and from one child the chain of siblings goes on to the next younger one.
HasSiblings(w, n) ==
    LET next == w.nodes[n].next
        among == w.nodes[n].parent
    IN  \/ /\ next = NoNode
           /\ \A k \in 1..Len(w.nodes) : w.nodes[k].parent = among => k <= n
        \/ /\ next \in 1..Len(w.nodes) /\ next > n /\ w.nodes[next].parent = among
           /\ \A k \in 1..Len(w.nodes) : w.nodes[k].parent = among /\ k > n => next <= k

LinkedAsATree(w) ==
    /\ Rooted(w)
    /\ \A n \in 1..Len(w.nodes) : HasChildren(w, n) /\ HasSiblings(w, n)
==============================================================================

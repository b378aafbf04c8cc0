---------------------------- MODULE LoadingProofs ----------------------------
(***************************************************************************)
(* Proofs about what loading makes of documents.  TransitionLists, for any *)
(* machine: whatever its from attributes, no transition gets lost; and if  *)
(* they are disjoint, groups of states keep apart and lists are in         *)
(* document order.  FlowRegistry, for any files: what flows are made of is *)
(* well founded.  Loader, for any document: the tables hold what their own *)
(* nodes say, and complete documents are loaded whole.                     *)
(*                                                                         *)
(* The three share nothing but this module, and have names of their own    *)
(* for their initial states, next-state relations and specifications.      *)
(***************************************************************************)
EXTENDS TransitionLists, FlowRegistry, Loader, WellFoundedInduction, TLAPS

-----------------------------------------------------------------------------
(* Types.                                                                  *)

\* The state of a list under construction is well formed (TypeOK).
THEOREM ListsTypes == ListsSpec => []TypeOK
<1>1. ListsInit => TypeOK
  <2>1. SUFFICES ASSUME ListsInit PROVE TypeOK
    OBVIOUS
  <2>2. 1 \in Transitions
    BY ListsAssumption, SMT DEF Transitions
  <2>3. from[1] \in Seq(States)
    BY <2>1, <2>2, ListsAssumption DEF ListsInit
  <2>4. Len(from[1]) \in Nat
    BY <2>3
  <2>5. QED
    BY <2>1, <2>2, <2>4, ListsAssumption, SMT DEF ListsInit, TypeOK, Transitions, NoNode
<1>2. TypeOK /\ [ListsNext]_listsVars => TypeOK'
  <2>1. SUFFICES ASSUME TypeOK, [ListsNext]_listsVars PROVE TypeOK'
    OBVIOUS
  <2>2. \A u \in Transitions : Len(from[u]) \in Nat
    BY <2>1, ListsAssumption, SMT DEF TypeOK
  <2> USE ListsAssumption DEF TypeOK, Transitions, NoNode
  <2>3. CASE AddFirst
    BY <2>1, <2>2, <2>3, SMT DEF AddFirst, Adding, Source, NextName
  <2>4. CASE BeginWalk
    <3>1. Source \in States
      BY <2>1, <2>4, SMT DEF BeginWalk, Adding, Source
    <3>2. QED
      BY <2>1, <2>4, <3>1, SMT DEF BeginWalk, Adding
  <2>5. CASE Walk
    BY <2>1, <2>5, SMT DEF Walk
  <2>6. CASE Link
    BY <2>1, <2>2, <2>6, SMT DEF Link, NextName
  <2>7. CASE NextTransition
    <3>1. t + 1 <= N => 1 <= Len(from[t + 1]) + 1
      BY <2>1, <2>2, <2>7, SMT DEF NextTransition
    <3>2. n = NoNode
      BY <2>1, <2>2, <2>7, SMT DEF NextTransition
    <3>3. QED
      BY <2>1, <2>7, <3>1, <3>2, SMT DEF NextTransition
  <2>8. CASE UNCHANGED listsVars
    BY <2>1, <2>8 DEF listsVars
  <2>9. QED
    BY <2>1, <2>3, <2>4, <2>5, <2>6, <2>7, <2>8 DEF ListsNext
<1>3. QED
  BY <1>1, <1>2, PTL DEF ListsSpec

-----------------------------------------------------------------------------
(* Nothing is lost.  Besides the property itself, a walk is on the list it *)
(* walks: that makes the end it links to an end of that list.              *)

Walking == n # NoNode => \A C \in SUBSET Transitions : Holds(C, Source) => n \in C

LostInv == NothingLost /\ Walking

\* The list of a state and the end that is written to: what holds the longer
\* list holds the shorter one.
LEMMA LinkHolds ==
    ASSUME TypeOK, Link, NEW s \in States, NEW C \in SUBSET Transitions, Holds(C, s)'
    PROVE  Holds(C, s)
  BY SMT DEF TypeOK, Link, Holds, NoNode, Transitions

LEMMA AddFirstHolds ==
    ASSUME TypeOK, AddFirst, NEW s \in States, NEW C \in SUBSET Transitions, Holds(C, s)'
    PROVE  Holds(C, s)
  BY SMT DEF TypeOK, AddFirst, Adding, Source, Holds, NoNode, Transitions

\* What is added after a step that treats a name.
LEMMA AddedNext ==
    ASSUME TypeOK, Adding, NextName, UNCHANGED <<from, t>>,
           NEW u \in Transitions, NEW s \in States, Added(u, s)'
    PROVE  Added(u, s) \/ (u = t /\ s = Source)
  BY SMT DEF TypeOK, Adding, NextName, Added, Source, Transitions

LEMMA AddedSame ==
    ASSUME TypeOK, NextTransition, NEW u \in Transitions, NEW s \in States, Added(u, s)'
    PROVE  Added(u, s)
<1>1. \A v \in Transitions : from[v] \in Seq(States)
  BY ListsAssumption DEF TypeOK
<1>2. PICK j \in DOMAIN from[u] : from[u][j] = s /\ (u < t + 1 \/ (u = t + 1 /\ j < 1))
  BY DEF NextTransition, Added
<1>3. j \in 1..Len(from[u]) /\ Len(from[u]) \in Nat
  BY <1>1
<1>4. u = t => j < k
  BY <1>3, SMT DEF TypeOK, NextTransition, Transitions
<1>5. QED
  BY <1>2, <1>3, <1>4, SMT DEF TypeOK, Added, Transitions

\* Whatever is appended to whichever list, every transition that was added to
\* the list of a state is still found on it (NothingLost).
THEOREM ListsNothingLost == ListsSpec => []NothingLost
<1>1. ListsInit => LostInv
  <2>1. SUFFICES ASSUME ListsInit PROVE LostInv
    OBVIOUS
  <2>2. ASSUME NEW u \in Transitions, NEW s \in States PROVE ~Added(u, s)
    <3>1. from[u] \in Seq(States)
      BY <2>1, ListsAssumption DEF ListsInit
    <3>2. \A j \in DOMAIN from[u] : ~(j < 1)
      BY <3>1
    <3>3. QED
      BY <2>1, <3>2, SMT DEF ListsInit, Added, Transitions
  <2>3. QED
    BY <2>1, <2>2 DEF ListsInit, LostInv, NothingLost, Walking
<1>2. TypeOK /\ LostInv /\ [ListsNext]_listsVars => LostInv'
  <2>1. SUFFICES ASSUME TypeOK, NothingLost, Walking, [ListsNext]_listsVars
                 PROVE  NothingLost' /\ Walking'
    BY DEF LostInv
  <2>2. CASE AddFirst
    <3>1. Adding /\ NextName /\ UNCHANGED <<from, t, next>>
      BY <2>2 DEF AddFirst
    <3>2. ASSUME NEW s \in States, NEW u \in Transitions, Added(u, s)',
                 NEW C \in SUBSET Transitions, Holds(C, s)'
          PROVE  u \in C
      <4>1. CASE Added(u, s)
        BY <2>1, <2>2, <3>2, <4>1, AddFirstHolds DEF NothingLost
      <4>2. CASE u = t /\ s = Source
        <5>1. head'[s] = t /\ t # NoNode
          BY <2>1, <2>2, <3>2, <4>2, SMT DEF TypeOK, AddFirst, NoNode, Transitions
        <5>2. QED
          BY <3>2, <4>2, <5>1 DEF Holds
      <4>3. QED
        BY <2>1, <3>1, <3>2, <4>1, <4>2, AddedNext
    <3>3. n' = NoNode
      BY <3>1 DEF NextName
    <3>4. QED
      BY <3>2, <3>3 DEF NothingLost, Walking
  <2>3. CASE Link
    <3>1. Adding /\ NextName /\ UNCHANGED <<from, t, head>>
      BY <2>1, <2>3 DEF Link, Adding, TypeOK
    <3>2. ASSUME NEW s \in States, NEW u \in Transitions, Added(u, s)',
                 NEW C \in SUBSET Transitions, Holds(C, s)'
          PROVE  u \in C
      <4>0. Holds(C, s)
        BY <2>1, <2>3, <3>2, LinkHolds
      <4>1. CASE Added(u, s)
        BY <2>1, <3>2, <4>0, <4>1 DEF NothingLost
      <4>2. CASE u = t /\ s = Source
        <5>1. n \in C
          BY <2>1, <2>3, <4>0, <4>2 DEF Walking, Link
        <5>2. next'[n] = t /\ t # NoNode
          BY <2>1, <2>3, <3>2, <4>2, SMT DEF TypeOK, Link, NoNode, Transitions
        <5>3. QED
          BY <3>2, <4>2, <5>1, <5>2 DEF Holds
      <4>3. QED
        BY <2>1, <3>1, <3>2, <4>1, <4>2, AddedNext
    <3>3. n' = NoNode
      BY <3>1 DEF NextName
    <3>4. QED
      BY <3>2, <3>3 DEF NothingLost, Walking
  <2>4. CASE BeginWalk
    BY <2>1, <2>4 DEF BeginWalk, NothingLost, Walking, Holds, Added, Source
  <2>5. CASE Walk
    BY <2>1, <2>5 DEF Walk, NothingLost, Walking, Holds, Added, Source
  <2>6. CASE NextTransition
    <3>1. UNCHANGED <<from, head, next, n>>
      BY <2>6 DEF NextTransition
    <3>2. NothingLost'
      <4>1. ASSUME NEW s \in States, NEW u \in Transitions, Added(u, s)',
                   NEW C \in SUBSET Transitions, Holds(C, s)'
            PROVE  u \in C
        <5>1. Added(u, s)
          BY <2>1, <2>6, <4>1, AddedSame
        <5>2. Holds(C, s)
          BY <3>1, <4>1 DEF Holds
        <5>3. QED
          BY <2>1, <4>1, <5>1, <5>2 DEF NothingLost
      <4>2. QED
        BY <4>1 DEF NothingLost
    <3>3. n = NoNode
      <4>1. t \in Transitions => Len(from[t]) \in Nat
        BY <2>1, ListsAssumption, SMT DEF TypeOK
      <4>2. QED
        BY <2>1, <2>6, <4>1, SMT DEF TypeOK, NextTransition, NoNode, Transitions
    <3>4. QED
      BY <3>1, <3>2, <3>3 DEF Walking
  <2>7. CASE UNCHANGED listsVars
    BY <2>1, <2>7 DEF listsVars, NothingLost, Walking, Holds, Added, Source
  <2>8. QED
    BY <2>1, <2>2, <2>3, <2>4, <2>5, <2>6, <2>7 DEF ListsNext
<1>3. LostInv => NothingLost
  BY DEF LostInv
<1>4. QED
  BY <1>1, <1>2, <1>3, ListsTypes, PTL DEF ListsSpec

-----------------------------------------------------------------------------
(* Disjoint from attributes.  A node of a state's list belongs to a state  *)
(* that is together with it; and until a transition with several sources   *)
(* is added to the state (Joined), to no other state than itself.  So that *)
(* transition is on none of the lists it is yet to be appended to.         *)

InGroup(v, s) == \E r \in Sources(v) : Together(s, r)

Joined(s) == \E u \in Transitions : Len(from[u]) > 1 /\ Added(u, s)

AddedSomewhere(u) == \E r \in States : Added(u, r)

NodesAdded ==
    /\ \A s \in States : head[s] # NoNode => Added(head[s], s)
    /\ \A u \in Transitions : next[u] # NoNode => AddedSomewhere(next[u])
    /\ n # NoNode => AddedSomewhere(n)

NextOwn == \A u \in Transitions, s \in States :
    next[u] # NoNode /\ Sources(u) = {s} /\ ~Joined(s) => Sources(next[u]) = {s}

ApartInv ==
    /\ NodesAdded
    /\ GroupsKeepApart
    /\ DocumentOrder
    /\ Disjoint /\ n # NoNode => InGroup(n, Source)
    /\ Disjoint => NextOwn
    /\ Disjoint /\ n # NoNode /\ ~Joined(Source) => Sources(n) = {Source}

LEMMA FromFacts ==
    ASSUME TypeOK, NEW u \in Transitions
    PROVE  /\ Len(from[u]) \in Nat
           /\ DOMAIN from[u] = 1..Len(from[u])
           /\ \A j \in DOMAIN from[u] : from[u][j] \in States
<1>1. from[u] \in Seq(States)
  BY ListsAssumption DEF TypeOK
<1>2. QED
  BY <1>1

LEMMA SourceFacts ==
    ASSUME TypeOK, Adding
    PROVE  /\ t \in Transitions /\ t # NoNode
           /\ k \in DOMAIN from[t]
           /\ Source \in States
           /\ Source \in Sources(t)
<1>1. t \in Transitions /\ t # NoNode
  BY SMT DEF TypeOK, Adding, Transitions, NoNode
<1>2. k \in DOMAIN from[t]
  BY <1>1, FromFacts, SMT DEF TypeOK, Adding
<1>3. QED
  BY <1>1, <1>2, FromFacts DEF Source, Sources

LEMMA AddedSources ==
    ASSUME NEW u, NEW s, Added(u, s)
    PROVE  s \in Sources(u)
  BY DEF Added, Sources

LEMMA SingleSource ==
    ASSUME TypeOK, NEW u \in Transitions, NEW s \in Sources(u), ~(Len(from[u]) > 1)
    PROVE  Sources(u) = {s}
<1>1. PICK j \in DOMAIN from[u] : from[u][j] = s
  BY DEF Sources
<1>2. \A i \in DOMAIN from[u] : i = j
  BY <1>1, FromFacts, SMT
<1>3. QED
  BY <1>1, <1>2 DEF Sources

LEMMA SeveralSources ==
    ASSUME TypeOK, Disjoint, NEW u \in Transitions, Len(from[u]) > 1, NEW s
    PROVE  Sources(u) # {s}
<1>1. 1 \in DOMAIN from[u] /\ 2 \in DOMAIN from[u]
  BY FromFacts, SMT
<1>2. from[u][1] # from[u][2]
  BY <1>1, SMT DEF Disjoint
<1>3. QED
  BY <1>1, <1>2 DEF Sources

LEMMA TwoSources ==
    ASSUME TypeOK, NEW u \in Transitions, NEW s \in Sources(u), NEW r \in Sources(u), s # r
    PROVE  Len(from[u]) > 1
<1>1. CASE Len(from[u]) > 1
  BY <1>1
<1>2. CASE ~(Len(from[u]) > 1)
  BY <1>2, SingleSource
<1>3. QED
  BY <1>1, <1>2

\* Under disjoint attributes a state is named by one transition with several
\* sources at most.
LEMMA OneJoins ==
    ASSUME Disjoint, NEW u \in Transitions, NEW v \in Transitions,
           Len(from[u]) > 1, Len(from[v]) > 1, NEW s \in Sources(u), s \in Sources(v)
    PROVE  u = v
  BY DEF Disjoint

LEMMA TogetherTransitive ==
    ASSUME TypeOK, Disjoint, NEW s, NEW r, NEW q, Together(s, r), Together(r, q)
    PROVE  Together(s, q)
<1>1. CASE s = r \/ r = q
  BY <1>1
<1>2. CASE s # r /\ r # q
  <2>1. PICK u \in Transitions : {s, r} \subseteq Sources(u)
    BY <1>2 DEF Together
  <2>2. PICK v \in Transitions : {r, q} \subseteq Sources(v)
    BY <1>2 DEF Together
  <2>3. Len(from[u]) > 1 /\ Len(from[v]) > 1
    BY <1>2, <2>1, <2>2, TwoSources
  <2>4. u = v
    BY <2>1, <2>2, <2>3, OneJoins
  <2>5. QED
    BY <2>1, <2>2, <2>4 DEF Together
<1>3. QED
  BY <1>1, <1>2

LEMMA AddedOnce ==
    ASSUME TypeOK, Disjoint, Adding
    PROVE  ~Added(t, Source)
<1>1. SUFFICES ASSUME NEW j \in DOMAIN from[t], from[t][j] = from[t][k], j < k
               PROVE  FALSE
  BY SourceFacts, SMT DEF Added, Source, Transitions
<1>2. j = k
  BY <1>1, SourceFacts DEF Disjoint
<1>3. QED
  BY <1>1, <1>2, SMT DEF TypeOK

\* The step that treats a name adds t to that state, and nothing else.
LEMMA AddedAfter ==
    ASSUME TypeOK, Adding, NextName, UNCHANGED <<from, t>>,
           NEW u \in Transitions, NEW s \in States
    PROVE  Added(u, s)' <=> Added(u, s) \/ (u = t /\ s = Source)
<1>1. Added(u, s) => Added(u, s)'
  BY FromFacts, SMT DEF TypeOK, NextName, Added
<1>2. u = t /\ s = Source => Added(u, s)'
  BY SourceFacts, SMT DEF TypeOK, NextName, Added, Source
<1>3. QED
  BY <1>1, <1>2, AddedNext

LEMMA JoinedAfter ==
    ASSUME TypeOK, Adding, NextName, UNCHANGED <<from, t>>, NEW s \in States
    PROVE  Joined(s)' <=> Joined(s) \/ (s = Source /\ Len(from[t]) > 1)
<1>1. Joined(s)' <=> \E u \in Transitions : Len(from[u]) > 1 /\ Added(u, s)'
  BY DEF Joined
<1>2. QED
  BY <1>1, AddedAfter, SourceFacts DEF Joined

\* What does not depend on the progress of loading.
LEMMA FromSame ==
    ASSUME UNCHANGED from
    PROVE  /\ Disjoint' <=> Disjoint
           /\ \A u : Sources(u)' = Sources(u)
           /\ \A s, r : Together(s, r)' <=> Together(s, r)
           /\ \A u, s : InGroup(u, s)' <=> InGroup(u, s)
  BY DEF Disjoint, Sources, Together, InGroup

\* What only depends on the names treated so far.
LEMMA ProgressSame ==
    ASSUME UNCHANGED <<from, t, k>>
    PROVE  /\ Source' = Source
           /\ \A u, s : Added(u, s)' <=> Added(u, s)
           /\ \A s : Joined(s)' <=> Joined(s)
<1>1. Source' = Source /\ \A u, s : Added(u, s)' <=> Added(u, s)
  BY DEF Source, Added
<1>2. QED
  BY <1>1 DEF Joined

\* The node that gets t as its successor is another, and older.
LEMMA LinkedToNewer ==
    ASSUME TypeOK, ApartInv, Disjoint, Link
    PROVE  n < t
<1>1. Adding /\ n \in Transitions
  BY DEF Link, TypeOK, Adding
<1>2. PICK r \in States : Added(n, r)
  BY DEF ApartInv, NodesAdded, AddedSomewhere, Link
<1>3. n < t \/ n = t
  BY <1>2 DEF Added
<1>4. ASSUME n = t PROVE FALSE
  <2>1. CASE Len(from[t]) > 1
    <3>1. ASSUME NEW u \in Transitions, Len(from[u]) > 1, Added(u, Source) PROVE FALSE
      <4>1. u = t
        BY <1>1, <2>1, <3>1, AddedSources, SourceFacts, OneJoins
      <4>2. QED
        BY <1>1, <3>1, <4>1, AddedOnce
    <3>2. Sources(n) = {Source}
      BY <3>1 DEF ApartInv, Joined, Link
    <3>3. QED
      BY <1>1, <1>4, <2>1, <3>2, SeveralSources
  <2>2. CASE ~(Len(from[t]) > 1)
    <3>1. \A j \in DOMAIN from[t] : ~(j < k)
      BY <1>1, <2>2, SourceFacts, FromFacts, SMT
    <3>2. QED
      BY <1>1, <1>2, <1>4, <3>1, SMT DEF Added, Transitions
  <2>3. QED
    BY <2>1, <2>2
<1>5. QED
  BY <1>3, <1>4

-----------------------------------------------------------------------------
(* Every step preserves ApartInv.                                          *)

LEMMA AddFirstApart == TypeOK /\ ApartInv /\ AddFirst => ApartInv'
<1>1. SUFFICES ASSUME TypeOK, ApartInv, AddFirst PROVE ApartInv'
  OBVIOUS
<1>2. Adding /\ NextName /\ UNCHANGED <<from, next, t>> /\ n' = NoNode
  BY <1>1 DEF AddFirst, NextName
<1>3. \A u \in Transitions, s \in States : Added(u, s) => Added(u, s)'
  BY <1>1, <1>2, AddedAfter
<1>4. \A s \in States : Joined(s) => Joined(s)'
  BY <1>1, <1>2, JoinedAfter
<1>5. NodesAdded'
  <2>1. ASSUME NEW s \in States, head'[s] # NoNode PROVE Added(head[s], s)'
    <3>1. CASE s = Source
      <4>1. head'[s] = t
        BY <1>1, <3>1, <2>1 DEF AddFirst, TypeOK
      <4>2. QED
        BY <1>1, <1>2, <3>1, <4>1, AddedAfter, SourceFacts
    <3>2. CASE s # Source
      <4>1. head'[s] = head[s]
        BY <1>1, <3>2 DEF AddFirst, TypeOK
      <4>2. head[s] \in Transitions /\ Added(head[s], s)
        BY <1>1, <2>1, <4>1 DEF ApartInv, NodesAdded, TypeOK
      <4>3. QED
        BY <1>2, <1>3, <4>1, <4>2 DEF Added
    <3>3. QED
      BY <3>1, <3>2
  <2>2. ASSUME NEW u \in Transitions, next[u] # NoNode PROVE AddedSomewhere(next[u])'
    BY <1>1, <1>2, <1>3, <2>2 DEF ApartInv, NodesAdded, AddedSomewhere, TypeOK
  <2>3. QED
    BY <1>2, <2>1, <2>2 DEF NodesAdded
<1>6. GroupsKeepApart' /\ DocumentOrder'
  BY <1>1, <1>2, FromSame DEF ApartInv, GroupsKeepApart, DocumentOrder
<1>7. (Disjoint => NextOwn)'
  BY <1>1, <1>2, <1>4, FromSame DEF ApartInv, NextOwn
<1>8. QED
  BY <1>2, <1>5, <1>6, <1>7 DEF ApartInv

\* What the new node brings to the list of a group.
LEMMA LinkOwn ==
    ASSUME TypeOK, ApartInv, Link, Disjoint, NEW s \in States, Sources(n) = {s},
           ~Joined(s), ~(s = Source /\ Len(from[t]) > 1)
    PROVE  Sources(t) = {s}
<1>1. Adding /\ n # NoNode
  BY DEF Link, Adding, TypeOK
<1>2. Together(Source, s)
  BY <1>1 DEF ApartInv, InGroup
<1>3. CASE s = Source
  BY <1>1, <1>3, SourceFacts, SingleSource
<1>4. CASE s # Source
  <2>1. PICK v \in Transitions : {Source, s} \subseteq Sources(v)
    BY <1>2, <1>4 DEF Together
  <2>2. Len(from[v]) > 1
    BY <1>4, <2>1, TwoSources
  <2>3. CASE Joined(Source)
    <3>1. PICK u \in Transitions : Len(from[u]) > 1 /\ Added(u, Source)
      BY <2>3 DEF Joined
    <3>2. u = v
      BY <2>1, <2>2, <3>1, AddedSources, OneJoins
    <3>3. v # t
      BY <1>1, <3>1, <3>2, AddedOnce
    <3>4. v < t
      BY <3>1, <3>2, <3>3 DEF Added
    <3>5. Added(v, s)
      BY <2>1, <3>4 DEF Added, Sources
    <3>6. QED
      BY <2>2, <3>5 DEF Joined
  <2>4. CASE ~Joined(Source)
    BY <1>1, <1>4, <2>4 DEF ApartInv
  <2>5. QED
    BY <2>3, <2>4
<1>5. QED
  BY <1>3, <1>4

LEMMA LinkApart == TypeOK /\ ApartInv /\ Link => ApartInv'
<1>1. SUFFICES ASSUME TypeOK, ApartInv, Link PROVE ApartInv'
  OBVIOUS
<1>2. Adding /\ NextName /\ UNCHANGED <<from, head, t>> /\ n' = NoNode
  BY <1>1 DEF Link, NextName, Adding, TypeOK
<1>3. n \in Transitions
  BY <1>1 DEF Link, TypeOK
<1>4. \A u \in Transitions : next'[u] = IF u = n THEN t ELSE next[u]
  BY <1>1, <1>3 DEF Link, TypeOK
<1>5. \A u \in Transitions, s \in States : Added(u, s) => Added(u, s)'
  BY <1>1, <1>2, AddedAfter
<1>6. NodesAdded'
  <2>1. ASSUME NEW s \in States, head[s] # NoNode PROVE Added(head[s], s)'
    <3>1. head[s] \in Transitions /\ Added(head[s], s)
      BY <1>1, <2>1 DEF ApartInv, NodesAdded, TypeOK
    <3>2. QED
      BY <1>2, <1>5, <3>1 DEF Added
  <2>2. ASSUME NEW u \in Transitions, next'[u] # NoNode PROVE AddedSomewhere(next[u])'
    <3>1. CASE u = n
      <4>1. next'[u] = t
        BY <1>4, <3>1
      <4>3. Source \in States
        BY <1>1, <1>2, SourceFacts
      <4>4. \A s \in States : Added(t, s)' = Added(next[u], s)'
        BY <1>2, <4>1 DEF Added
      <4>5. \E s \in States : Added(t, s)'
        <5>1. \A s \in States : Added(t, s)' <=> Added(t, s) \/ s = Source
          BY <1>1, <1>2, AddedAfter, SourceFacts
        <5>2. QED
          BY <4>3, <5>1
      <4>6. QED
        BY <4>4, <4>5 DEF AddedSomewhere
    <3>2. CASE u # n
      <4>1. next'[u] = next[u] /\ next[u] \in Transitions
        BY <1>1, <1>4, <2>2, <3>2 DEF TypeOK
      <4>2. PICK r \in States : Added(next[u], r)
        BY <1>1, <2>2, <4>1 DEF ApartInv, NodesAdded, AddedSomewhere
      <4>3. QED
        BY <1>2, <1>5, <4>1, <4>2 DEF AddedSomewhere, Added
    <3>3. QED
      BY <3>1, <3>2
  <2>3. QED
    BY <1>2, <2>1, <2>2 DEF NodesAdded
<1>7. GroupsKeepApart'
  <2>1. SUFFICES ASSUME Disjoint, NEW u \in Transitions, next'[u] # NoNode
                 PROVE  \E s \in Sources(u), r \in Sources(next'[u]) : Together(s, r)
    BY <1>2, FromSame DEF GroupsKeepApart
  <2>2. CASE u = n
    <3>1. PICK s \in Sources(n) : Together(Source, s)
      BY <1>1, <2>1 DEF ApartInv, InGroup, Link
    <3>2. Together(s, Source)
      BY <3>1 DEF Together
    <3>3. QED
      BY <1>1, <1>2, <1>4, <2>1, <2>2, <3>2, SourceFacts
  <2>3. CASE u # n
    BY <1>1, <1>4, <2>1, <2>3 DEF ApartInv, GroupsKeepApart
  <2>4. QED
    BY <2>2, <2>3
<1>8. DocumentOrder'
  BY <1>1, <1>2, <1>4, FromSame, LinkedToNewer DEF ApartInv, DocumentOrder
<1>9. (Disjoint => NextOwn)'
  <2>1. SUFFICES ASSUME Disjoint, NEW u \in Transitions, NEW s \in States,
                        next'[u] # NoNode, Sources(u) = {s}, ~Joined(s)'
                 PROVE  Sources(next'[u]) = {s}
    BY <1>2, FromSame DEF NextOwn
  <2>2. ~Joined(s) /\ ~(s = Source /\ Len(from[t]) > 1)
    BY <1>1, <1>2, <2>1, JoinedAfter
  <2>3. CASE u = n
    BY <1>1, <1>4, <2>1, <2>2, <2>3, LinkOwn
  <2>4. CASE u # n
    BY <1>1, <1>4, <2>1, <2>2, <2>4 DEF ApartInv, NextOwn
  <2>5. QED
    BY <2>3, <2>4
<1>10. QED
  BY <1>2, <1>6, <1>7, <1>8, <1>9 DEF ApartInv

LEMMA BeginApart == TypeOK /\ ApartInv /\ BeginWalk => ApartInv'
<1>1. SUFFICES ASSUME TypeOK, ApartInv, BeginWalk PROVE ApartInv'
  OBVIOUS
<1>2. Adding /\ UNCHANGED <<from, head, next, t, k>> /\ n' = head[Source] /\ n' # NoNode
  BY <1>1 DEF BeginWalk
<1>3. Source \in States /\ n' \in Transitions /\ Added(n', Source)
  BY <1>1, <1>2, SourceFacts DEF ApartInv, NodesAdded, TypeOK
<1>4. Source \in Sources(n') /\ Together(Source, Source)
  BY <1>3, AddedSources DEF Together
<1>5. ~Joined(Source) => Sources(n') = {Source}
  BY <1>1, <1>3, <1>4, SingleSource DEF Joined
<1>6. (Disjoint /\ n # NoNode => InGroup(n, Source))'
  BY <1>2, <1>4 DEF InGroup, Sources, Together, Source
<1>7. NodesAdded'
  BY <1>1, <1>2, <1>3 DEF ApartInv, NodesAdded, AddedSomewhere, Added
<1>8. (Disjoint /\ n # NoNode /\ ~Joined(Source) => Sources(n) = {Source})'
  BY <1>2, <1>5 DEF Joined, Added, Sources, Source
<1>9. GroupsKeepApart' /\ DocumentOrder' /\ (Disjoint => NextOwn)'
  <2>1. GroupsKeepApart' /\ DocumentOrder'
    BY <1>1, <1>2, FromSame DEF ApartInv, GroupsKeepApart, DocumentOrder
  <2>2. (Disjoint => NextOwn)'
    BY <1>1, <1>2, FromSame, ProgressSame DEF ApartInv, NextOwn
  <2>3. QED
    BY <2>1, <2>2
<1>10. QED
  BY <1>6, <1>7, <1>8, <1>9 DEF ApartInv

LEMMA WalkApart == TypeOK /\ ApartInv /\ Walk => ApartInv'
<1>1. SUFFICES ASSUME TypeOK, ApartInv, Walk PROVE ApartInv'
  OBVIOUS
<1>2. UNCHANGED <<from, head, next, t, k>> /\ n' = next[n] /\ n' # NoNode /\ n # NoNode
  BY <1>1 DEF Walk
<1>3. Adding /\ n \in Transitions /\ n' \in Transitions
  BY <1>1, <1>2 DEF TypeOK, Adding
<1>4. ASSUME Disjoint PROVE InGroup(n', Source)
  <2>1. PICK r \in Sources(n) : Together(Source, r)
    BY <1>1, <1>2, <1>4 DEF ApartInv, InGroup
  <2>2. PICK s \in Sources(n), q \in Sources(n') : Together(s, q)
    BY <1>1, <1>2, <1>3, <1>4 DEF ApartInv, GroupsKeepApart
  <2>3. Together(r, s)
    BY <1>3, <2>1, <2>2 DEF Together
  <2>4. Together(Source, q)
    BY <1>1, <1>4, <2>1, <2>2, <2>3, TogetherTransitive
  <2>5. QED
    BY <2>4 DEF InGroup
<1>5. ASSUME Disjoint, ~Joined(Source) PROVE Sources(n') = {Source}
  <2>1. Sources(n) = {Source} /\ Source \in States
    BY <1>1, <1>2, <1>3, <1>5, SourceFacts DEF ApartInv
  <2>2. QED
    BY <1>1, <1>2, <1>3, <1>5, <2>1 DEF ApartInv, NextOwn
<1>6. (Disjoint /\ n # NoNode => InGroup(n, Source))'
  <2>1. Disjoint' <=> Disjoint
    BY <1>2, FromSame
  <2>2. InGroup(n, Source)' <=> InGroup(n', Source)
    BY <1>2 DEF InGroup, Sources, Together, Source
  <2>3. QED
    BY <1>4, <2>1, <2>2
<1>7. NodesAdded'
  BY <1>1, <1>2, <1>3 DEF ApartInv, NodesAdded, AddedSomewhere, Added
<1>8. (Disjoint /\ n # NoNode /\ ~Joined(Source) => Sources(n) = {Source})'
  <2>1. Disjoint' <=> Disjoint
    BY <1>2, FromSame
  <2>2. Joined(Source)' <=> Joined(Source)
    BY <1>2 DEF Joined, Added, Source
  <2>3. Sources(n)' = Sources(n') /\ Source' = Source
    BY <1>2 DEF Sources, Source
  <2>4. QED
    BY <1>5, <2>1, <2>2, <2>3
<1>9. GroupsKeepApart' /\ DocumentOrder' /\ (Disjoint => NextOwn)'
  <2>1. GroupsKeepApart' /\ DocumentOrder'
    BY <1>1, <1>2, FromSame DEF ApartInv, GroupsKeepApart, DocumentOrder
  <2>2. (Disjoint => NextOwn)'
    BY <1>1, <1>2, FromSame, ProgressSame DEF ApartInv, NextOwn
  <2>3. QED
    BY <2>1, <2>2
<1>10. QED
  BY <1>6, <1>7, <1>8, <1>9 DEF ApartInv

LEMMA NextTransitionApart == TypeOK /\ ApartInv /\ NextTransition => ApartInv'
<1>1. SUFFICES ASSUME TypeOK, ApartInv, NextTransition PROVE ApartInv'
  OBVIOUS
<1>2. UNCHANGED <<from, head, next, n>>
  BY <1>1 DEF NextTransition
<1>3. n' = NoNode
  <2>1. t \in Transitions
    BY <1>1, SMT DEF TypeOK, NextTransition, Transitions
  <2>2. QED
    BY <1>1, <2>1, FromFacts, SMT DEF TypeOK, NextTransition, NoNode
<1>4. \A u \in Transitions, s \in States : Added(u, s) => Added(u, s)'
  BY <1>1, SMT DEF TypeOK, NextTransition, Added, Transitions
<1>5. \A s \in States : Joined(s) => Joined(s)'
  BY <1>2, <1>4 DEF Joined
<1>6. NodesAdded'
  <2>1. ASSUME NEW s \in States, head[s] # NoNode PROVE Added(head[s], s)'
    <3>1. head[s] \in Transitions /\ Added(head[s], s)
      BY <1>1, <2>1 DEF ApartInv, NodesAdded, TypeOK
    <3>2. QED
      BY <1>2, <1>4, <3>1 DEF Added
  <2>2. ASSUME NEW u \in Transitions, next[u] # NoNode PROVE AddedSomewhere(next[u])'
    <3>1. next[u] \in Transitions
      BY <1>1, <2>2 DEF TypeOK
    <3>2. PICK r \in States : Added(next[u], r)
      BY <1>1, <2>2 DEF ApartInv, NodesAdded, AddedSomewhere
    <3>3. QED
      BY <1>2, <1>4, <3>1, <3>2 DEF AddedSomewhere, Added
  <2>3. QED
    BY <1>2, <1>3, <2>1, <2>2 DEF NodesAdded, Added, AddedSomewhere
<1>7. GroupsKeepApart' /\ DocumentOrder'
  BY <1>1, <1>2, FromSame DEF ApartInv, GroupsKeepApart, DocumentOrder
<1>8. (Disjoint => NextOwn)'
  BY <1>1, <1>2, <1>5, FromSame DEF ApartInv, NextOwn
<1>9. QED
  BY <1>3, <1>6, <1>7, <1>8 DEF ApartInv

LEMMA ListsApart == ListsSpec => []ApartInv
<1>1. ListsInit => ApartInv
  BY SMT DEF ListsInit, ApartInv, NodesAdded, GroupsKeepApart, DocumentOrder, NextOwn, NoNode, Transitions
<1>2. TypeOK /\ ApartInv /\ [ListsNext]_listsVars => ApartInv'
  <2>1. TypeOK /\ ApartInv /\ UNCHANGED listsVars => ApartInv'
    <3>1. SUFFICES ASSUME ApartInv, UNCHANGED listsVars PROVE ApartInv'
      OBVIOUS
    <3>2. UNCHANGED <<from, head, next, t, k, n>>
      BY <3>1 DEF listsVars
    <3>3. NodesAdded'
      BY <3>1, <3>2 DEF ApartInv, NodesAdded, AddedSomewhere, Added
    <3>4. GroupsKeepApart' /\ DocumentOrder'
      BY <3>1, <3>2, FromSame DEF ApartInv, GroupsKeepApart, DocumentOrder
    <3>5. (Disjoint => NextOwn)'
      BY <3>1, <3>2, FromSame, ProgressSame DEF ApartInv, NextOwn
    <3>6. (Disjoint /\ n # NoNode => InGroup(n, Source))'
      BY <3>1, <3>2, FromSame DEF ApartInv, InGroup, Sources, Together, Source
    <3>7. (Disjoint /\ n # NoNode /\ ~Joined(Source) => Sources(n) = {Source})'
      <4>1. Joined(Source)' <=> Joined(Source)
        BY <3>2 DEF Joined, Added, Source
      <4>2. Sources(n)' = Sources(n) /\ Source' = Source
        BY <3>2 DEF Sources, Source
      <4>3. QED
        BY <3>1, <3>2, <4>1, <4>2, FromSame DEF ApartInv
    <3>8. QED
      BY <3>3, <3>4, <3>5, <3>6, <3>7 DEF ApartInv
  <2>2. QED
    BY <2>1, AddFirstApart, LinkApart, BeginApart, WalkApart, NextTransitionApart DEF ListsNext
<1>3. QED
  BY <1>1, <1>2, ListsTypes, PTL DEF ListsSpec

\* With disjoint from attributes, only states that have a transition in common
\* try each other's transitions (GroupsKeepApart).
THEOREM ListsGroups == ListsSpec => []GroupsKeepApart
<1>1. ApartInv => GroupsKeepApart
  BY DEF ApartInv
<1>2. QED
  BY <1>1, ListsApart, PTL

\* With disjoint from attributes, the lists are in document order, and so
\* without a cycle (DocumentOrder).
THEOREM ListsOrder == ListsSpec => []DocumentOrder
<1>1. ApartInv => DocumentOrder
  BY DEF ApartInv
<1>2. QED
  BY <1>1, ListsApart, PTL

-----------------------------------------------------------------------------
(* The registry of flows, for any files, however they import and name each *)
(* other.                                                                  *)

Paths == [array : Nat, string : Seq(Files)]

Entries == [path : Paths, file : Files, rv : {"ok", "loaderr"}, uses : SUBSET Nat]

Calls == [path : Paths, file : Files, next : Nat \ {0}, errs : Nat]

RegistryTypeOK ==
    /\ reg \in Seq(Entries)
    /\ stack \in Seq(Calls)
    /\ told \in Seq([rv : {"ok", "loaderr"}, flow : BOOLEAN])
    /\ imports \in [Files -> Seq(Files)]

Least(S) == S # {} => \E m \in S : \A j \in S : m <= j

\* Whatever a search of the list looks for, if an entry matches, one is first:
\* the list grows an entry at a time, at its end.
FirstInv(r) == \A T \in SUBSET DOMAIN r : Least(T)

Earlier(r) == \A j \in DOMAIN r : \A m \in r[j].uses : m < j

\* What a step does to the registry: nothing, or an entry at its end.
Grows(r, s) ==
    \/ s = r
    \/ \E e \in Entries : s = Append(r, e) /\ \A m \in e.uses : m <= Len(r)

-----------------------------------------------------------------------------
LEMMA GrownEntry ==
    ASSUME NEW r \in Seq(Entries), NEW e \in Entries, NEW s, s = Append(r, e)
    PROVE  /\ s \in Seq(Entries)
           /\ DOMAIN r = 1..Len(r) /\ Len(r) \in Nat
           /\ DOMAIN s = 1..(Len(r) + 1)
           /\ \A j \in DOMAIN r : s[j] = r[j]
           /\ s[Len(r) + 1] = e
  OBVIOUS

LEMMA FirstGrows ==
    ASSUME NEW r \in Seq(Entries), NEW s, Grows(r, s), FirstInv(r)
    PROVE  FirstInv(s)
<1>1. CASE s = r
  BY <1>1
<1>2. ASSUME NEW e \in Entries, s = Append(r, e), NEW T \in SUBSET DOMAIN s PROVE Least(T)
  <2>1. /\ DOMAIN r = 1..Len(r) /\ Len(r) \in Nat
        /\ DOMAIN s = 1..(Len(r) + 1)
    BY <1>2, GrownEntry
  <2> DEFINE U == T \cap DOMAIN r
  <2>2. T \subseteq U \cup {Len(r) + 1}
    BY <2>1
  <2>3. CASE U = {}
    BY <2>1, <2>2, <2>3 DEF Least
  <2>4. CASE U # {}
    <3>1. PICK m \in U : \A j \in U : m <= j
      BY <2>4 DEF FirstInv, Least
    <3>2. m <= Len(r) + 1 /\ m \in T
      BY <2>1, <3>1
    <3> QED
      BY <2>2, <3>1, <3>2 DEF Least
  <2> QED
    BY <2>3, <2>4
<1> QED
  BY <1>1, <1>2 DEF Grows, FirstInv

LEMMA FirstFound ==
    ASSUME FirstInv(reg), NEW S \in SUBSET DOMAIN reg, S # {}
    PROVE  FirstOf(S) \in S
<1>1. FirstOf(S) = CHOOSE l \in S : \A j \in S : l <= j
  BY DEF FirstOf
<1>2. \E l \in S : \A j \in S : l <= j
  BY DEF FirstInv, Least
<1> QED
  BY <1>1, <1>2

LEMMA EarlierGrows ==
    ASSUME NEW r \in Seq(Entries), NEW s, Grows(r, s), Earlier(r)
    PROVE  Earlier(s)
<1>1. CASE s = r
  BY <1>1
<1>2. ASSUME NEW e \in Entries, s = Append(r, e), \A m \in e.uses : m <= Len(r),
             NEW j \in DOMAIN s, NEW m \in s[j].uses
      PROVE  m < j
  <2>1. /\ DOMAIN r = 1..Len(r) /\ Len(r) \in Nat
        /\ DOMAIN s = 1..(Len(r) + 1)
        /\ \A l \in DOMAIN r : s[l] = r[l]
        /\ s[Len(r) + 1] = e
    BY <1>2, GrownEntry
  <2>2. CASE j \in DOMAIN r
    BY <1>2, <2>1, <2>2 DEF Earlier
  <2>3. CASE j \notin DOMAIN r
    <3>1. j = Len(r) + 1
      BY <2>1, <2>3
    <3>2. m \in e.uses /\ e.uses \subseteq Nat
      BY <1>2, <2>1, <3>1 DEF Entries
    <3>3. m \in Nat /\ m <= Len(r)
      BY <1>2, <3>2
    <3> QED
      BY <2>1, <3>1, <3>3
  <2> QED
    BY <2>2, <2>3
<1> QED
  BY <1>1, <1>2 DEF Grows, Earlier

-----------------------------------------------------------------------------
LEMMA CallsChange ==
    ASSUME NEW c \in Calls
    PROVE  /\ [c EXCEPT !.next = @ + 1] \in Calls
           /\ \A b \in BOOLEAN : [c EXCEPT !.errs = IF b THEN @ ELSE @ + 1] \in Calls
  BY DEF Calls

LEMMA ReturnEffect ==
    ASSUME told \in Seq([rv : {"ok", "loaderr"}, flow : BOOLEAN]),
           NEW rv \in {"ok", "loaderr"}, NEW flow \in BOOLEAN, NEW callers \in Seq(Calls),
           Return(rv, flow, callers)
    PROVE  /\ stack' \in Seq(Calls)
           /\ told' \in Seq([rv : {"ok", "loaderr"}, flow : BOOLEAN])
<1>1. CASE callers = <<>>
  <2>1. told' = Append(told, [rv |-> rv, flow |-> flow]) /\ stack' = <<>>
    BY <1>1 DEF Return
  <2> QED
    BY <2>1
<1>2. CASE callers # <<>>
  <2>1. Len(callers) \in DOMAIN callers
    BY <1>2
  <2>2. callers[Len(callers)] \in Calls
    BY <2>1
  <2>3. stack' = [callers EXCEPT ![Len(callers)].errs = IF rv = "ok" THEN @ ELSE @ + 1]
    BY <1>2 DEF Return
  <2> DEFINE c == [callers[Len(callers)] EXCEPT !.errs = IF rv = "ok" THEN @ ELSE @ + 1]
  <2>4. c \in Calls
    BY <2>2, CallsChange
  <2>5. stack' = [callers EXCEPT ![Len(callers)] = c]
    BY <2>3
  <2> HIDE DEF c
  <2>6. stack' \in Seq(Calls)
    BY <2>1, <2>4, <2>5
  <2> QED
    BY <1>2, <2>6 DEF Return
<1> QED
  BY <1>1, <1>2

LEMMA LoadEffect ==
    ASSUME RegistryTypeOK, FirstInv(reg), NEW path \in Paths, NEW f \in Files, NEW callers \in Seq(Calls),
           NEW mem, Load(path, f, callers, mem), UNCHANGED imports
    PROVE  RegistryTypeOK' /\ Grows(reg, reg')
<1>0. /\ reg \in Seq(Entries) /\ stack \in Seq(Calls)
      /\ told \in Seq([rv : {"ok", "loaderr"}, flow : BOOLEAN])
  BY DEF RegistryTypeOK
<1> DEFINE j == FindByPath(path, mem)
<1>1. ASSUME j # 0, Return(reg[j].rv, FALSE, callers), UNCHANGED reg
      PROVE  RegistryTypeOK' /\ Grows(reg, reg')
  <2>1. Return(reg[j].rv, FALSE, callers) /\ UNCHANGED reg
    BY <1>1
  <2>2. reg[j].rv \in {"ok", "loaderr"}
    <3> DEFINE S == {l \in DOMAIN reg : TextOf(reg[l].path, mem) = TextOf(path, mem)}
    <3>1. j = FirstOf(S)
      BY DEF FindByPath
    <3>2. S # {} /\ S \in SUBSET DOMAIN reg
      BY <1>1, <3>1 DEF FirstOf
    <3>3. j \in DOMAIN reg
      BY <3>1, <3>2, FirstFound
    <3> HIDE DEF j
    <3>4. reg[j] \in Entries
      BY <1>0, <3>3
    <3> QED
      BY <3>4 DEF Entries
  <2> QED
    BY <1>0, <2>1, <2>2, ReturnEffect DEF RegistryTypeOK, Grows
<1>2. ASSUME Register(path, f, "loaderr", {}), Return("loaderr", FALSE, callers)
      PROVE  RegistryTypeOK' /\ Grows(reg, reg')
  <2> DEFINE e == [path |-> path, file |-> f, rv |-> "loaderr", uses |-> {}]
  <2>1. e \in Entries /\ e.uses = {} /\ reg' = Append(reg, e)
    BY <1>2 DEF Register, Entries
  <2> HIDE DEF e
  <2>2. reg' \in Seq(Entries) /\ Grows(reg, reg')
    BY <1>0, <2>1, GrownEntry DEF Grows
  <2> QED
    BY <1>0, <1>2, <2>2, ReturnEffect DEF RegistryTypeOK
<1>3. ASSUME stack' = Append(callers, [path |-> path, file |-> f, next |-> 1, errs |-> 0]),
             UNCHANGED <<reg, told>>
      PROVE  RegistryTypeOK' /\ Grows(reg, reg')
  <2>1. [path |-> path, file |-> f, next |-> 1, errs |-> 0] \in Calls
    BY DEF Calls
  <2> QED
    BY <1>0, <1>3, <2>1 DEF RegistryTypeOK, Grows
<1>4. ASSUME NEW how, Crash(how)
      PROVE  RegistryTypeOK' /\ Grows(reg, reg')
  BY <1>4 DEF Crash, RegistryTypeOK, Grows
<1> HIDE DEF j
<1>5. \/ \E how : Crash(how)
      \/ j # 0 /\ Return(reg[j].rv, FALSE, callers) /\ UNCHANGED reg
      \/ Register(path, f, "loaderr", {}) /\ Return("loaderr", FALSE, callers)
      \/ /\ stack' = Append(callers, [path |-> path, file |-> f, next |-> 1, errs |-> 0])
         /\ UNCHANGED <<reg, told>>
  BY DEF Load, j
<1> QED
  BY <1>1, <1>2, <1>3, <1>4, <1>5

\* What a function is resolved to is in the registry when its flow comes there.
LEMMA ResolvedBefore ==
    ASSUME RegistryTypeOK, FirstInv(reg), NEW f \in Files,
           NEW m \in Resolved(f)
    PROVE  m \in Nat /\ m <= Len(reg)
<1>1. PICK u \in Uses[f] : m = FindHandler(u)
  BY DEF Resolved
<1>2. m # 0
  BY DEF Resolved
<1> DEFINE S == {l \in DOMAIN reg : reg[l].rv = "ok" /\ reg[l].file = u}
<1>3. m = FirstOf(S)
  BY <1>1 DEF FindHandler
<1>4. S # {} /\ S \in SUBSET DOMAIN reg
  BY <1>2, <1>3 DEF FirstOf
<1>5. m \in DOMAIN reg
  BY <1>3, <1>4, FirstFound
<1>6. DOMAIN reg = 1..Len(reg) /\ Len(reg) \in Nat
  BY DEF RegistryTypeOK
<1> QED
  BY <1>5, <1>6

LEMMA RegistryStep ==
    ASSUME RegistryTypeOK, FirstInv(reg), [RegistryNext]_registryVars
    PROVE  RegistryTypeOK' /\ Grows(reg, reg')
<1>0. /\ reg \in Seq(Entries) /\ stack \in Seq(Calls)
      /\ told \in Seq([rv : {"ok", "loaderr"}, flow : BOOLEAN])
      /\ imports \in [Files -> Seq(Files)]
  BY DEF RegistryTypeOK
<1>1. CASE TaskLoad
  <2> DEFINE f == Tasks[Len(told) + 1]
  <2>1. Len(told) < Len(Tasks) /\ Load(String(f), f, <<>>, arrays)
    BY <1>1 DEF TaskLoad
  <2>0. UNCHANGED imports
    BY <1>1 DEF TaskLoad
  <2>2. f \in Files
    <3>1. Tasks \in Seq(Files) /\ Len(told) \in Nat
      BY <1>0, RegistryAssumption
    <3>2. Len(told) + 1 \in 1..Len(Tasks)
      BY <2>1, <3>1
    <3> QED
      BY <3>1, <3>2
  <2>3. String(f) \in Paths /\ <<>> \in Seq(Calls)
    BY <2>2 DEF String, Paths
  <2> HIDE DEF f
  <2> QED
    BY <2>0, <2>1, <2>2, <2>3, LoadEffect
<1>2. CASE Import
  <2> DEFINE d == Len(stack)
             f == imports[Top.file][Top.next]
             callers == Imported
             mem == [arrays EXCEPT ![d] = Append(@, f)]
  <2>1. /\ stack # <<>> /\ Top.next <= Len(imports[Top.file])
        /\ Load(Array(d), f, callers, mem)
    BY <1>2 DEF Import, Importing
  <2>0. UNCHANGED imports
    BY <1>2 DEF Import
  <2>2. d \in DOMAIN stack /\ d \in Nat /\ Top \in Calls
    BY <1>0, <2>1 DEF Top
  <2>3. f \in Files
    <3>1. imports[Top.file] \in Seq(Files) /\ Top.next \in Nat \ {0}
      BY <1>0, <2>2 DEF Calls
    <3> QED
      BY <2>1, <3>1
  <2>4. Array(d) \in Paths
    BY <2>2 DEF Array, Paths
  <2>5. callers \in Seq(Calls)
    <3>1. [Top EXCEPT !.next = @ + 1] \in Calls
      BY <2>2, CallsChange
    <3>2. callers = [stack EXCEPT ![d] = [Top EXCEPT !.next = @ + 1]]
      BY DEF Top, Imported
    <3> HIDE DEF callers
    <3> QED
      BY <1>0, <2>2, <3>1, <3>2
  <2> HIDE DEF d, f, callers, mem
  <2> QED
    BY <2>0, <2>1, <2>3, <2>4, <2>5, LoadEffect
<1>3. CASE Finish
  <2> DEFINE rv == Outcome
             callers == SubSeq(stack, 1, Len(stack) - 1)
             e == [path |-> Top.path, file |-> Top.file, rv |-> rv,
                   uses |-> Resolved(Top.file)]
  <2>1. /\ stack # <<>> /\ reg' = Append(reg, e) /\ Return(rv, rv = "ok", callers)
        /\ UNCHANGED imports
    BY <1>3 DEF Finish, Finishing, Register
  <2>2. Top \in Calls
    BY <1>0, <2>1 DEF Top
  <2>3. Top.path \in Paths /\ Top.file \in Files
    BY <2>2 DEF Calls
  <2>4. \A m \in Resolved(Top.file) : m \in Nat /\ m <= Len(reg)
    BY <2>3, ResolvedBefore
  <2>5. rv \in {"ok", "loaderr"} /\ (rv = "ok") \in BOOLEAN
    BY DEF Outcome
  <2>6. e \in Entries /\ e.uses = Resolved(Top.file)
    BY <2>3, <2>4, <2>5 DEF Entries
  <2>7. callers \in Seq(Calls)
    BY <1>0
  <2> HIDE DEF rv, callers, e
  <2>8. reg' \in Seq(Entries) /\ Grows(reg, reg')
    BY <1>0, <2>1, <2>4, <2>6, GrownEntry DEF Grows
  <2> QED
    BY <1>0, <2>1, <2>5, <2>7, <2>8, ReturnEffect DEF RegistryTypeOK
<1>4. CASE FinishNothing
  BY <1>4 DEF FinishNothing, Crash, RegistryTypeOK, Grows
<1>5. CASE UNCHANGED registryVars
  BY <1>5 DEF registryVars, RegistryTypeOK, Grows
<1> QED
  BY <1>1, <1>2, <1>3, <1>4, <1>5 DEF RegistryNext

\* Whatever files import and name each other, also in circles, and whatever
\* answers the registry gives by mistake: a flow is only made of flows that
\* were there before it, so that none contains itself (load_func, flow_reg_add
\* at the end of flow_load).
THEOREM RegistryIsWellFounded == RegistrySpec => []NoFlowContainsItself
<1> DEFINE Inv == RegistryTypeOK /\ FirstInv(reg) /\ Earlier(reg)
<1>1. RegistryInit => Inv
  <2> SUFFICES ASSUME RegistryInit PROVE Inv
    OBVIOUS
  <2>1. reg = <<>> /\ stack = <<>> /\ told = <<>> /\ imports \in [Files -> Seq(Files)]
    BY RegistryAssumption DEF RegistryInit
  <2>2. FirstInv(reg) /\ Earlier(reg)
    BY <2>1 DEF FirstInv, Least, Earlier
  <2> QED
    BY <2>1, <2>2 DEF RegistryTypeOK
<1>2. Inv /\ [RegistryNext]_registryVars => Inv'
  <2> SUFFICES ASSUME Inv, [RegistryNext]_registryVars PROVE Inv'
    OBVIOUS
  <2>1. RegistryTypeOK' /\ Grows(reg, reg') /\ reg \in Seq(Entries)
    BY RegistryStep DEF RegistryTypeOK
  <2>2. FirstInv(reg') /\ Earlier(reg')
    BY <2>1, FirstGrows, EarlierGrows
  <2> QED
    BY <2>1, <2>2
<1>3. Inv => NoFlowContainsItself
  BY DEF Earlier, NoFlowContainsItself
<1> QED
  BY <1>1, <1>2, <1>3, PTL DEF RegistrySpec

-----------------------------------------------------------------------------
(* Sequences put together of sequences.  FlattenSeq and ConnectAll choose a *)
(* recursive function; that there is one, and only one, is an induction    *)
(* over the numbers in a set (EveryNat).                                   *)

LEMMA EveryNat ==
    ASSUME NEW T, 0 \in T, \A i \in Nat : i \in T => i + 1 \in T
    PROVE  Nat \subseteq T
<1> DEFINE R == OpToRel(<, Nat)
           U == Nat \ T
<1>1. IsWellFoundedOn(R, Nat)
  BY NatLessThanWellFounded DEF OpToRel
<1>2. SUFFICES ASSUME U # {} PROVE FALSE
  OBVIOUS
<1>3. PICK x \in U : \A y \in U : ~(<<y, x>> \in R)
  <2>1. U \subseteq Nat
    OBVIOUS
  <2> HIDE DEF R, U
  <2> QED BY <1>1, <1>2, <2>1, WFMin
<1>4. \A y \in U : ~(y < x)
  BY <1>3 DEF OpToRel
<1>5. x # 0 /\ x \in Nat
  OBVIOUS
<1>6. x - 1 \in Nat /\ x - 1 \notin U
  BY <1>4, <1>5
<1> QED BY <1>5, <1>6

\* The function FlattenSeq chooses, up to m.
FlatTo(ss, m, f) == f = [i \in 1..m |-> IF i = 1 THEN ss[i] ELSE f[i - 1] \o ss[i]]

LEMMA FlatAt ==
    ASSUME NEW ss, NEW m \in Nat, NEW f, FlatTo(ss, m, f), NEW i \in 1..m
    PROVE  f[i] = IF i = 1 THEN ss[i] ELSE f[i - 1] \o ss[i]
<1> DEFINE h == [j \in 1..m |-> IF j = 1 THEN ss[j] ELSE f[j - 1] \o ss[j]]
<1>1. f = h
  BY DEF FlatTo
<1>2. h[i] = IF i = 1 THEN ss[i] ELSE f[i - 1] \o ss[i]
  OBVIOUS
<1> HIDE DEF h
<1> QED BY <1>1, <1>2

LEMMA FlatExists ==
    ASSUME NEW ss, NEW l \in Nat
    PROVE  \E f : FlatTo(ss, l, f)
<1> DEFINE T == {m \in Nat : \E f : FlatTo(ss, m, f)}
<1>1. 0 \in T
  <2>1. FlatTo(ss, 0, [i \in 1..0 |-> 0])
    BY DEF FlatTo
  <2> QED BY <2>1
<1>2. ASSUME NEW m \in Nat, m \in T PROVE m + 1 \in T
  <2>1. PICK f : FlatTo(ss, m, f)
    BY <1>2
  <2>2. f = [i \in 1..m |-> IF i = 1 THEN ss[i] ELSE f[i - 1] \o ss[i]]
    BY <2>1 DEF FlatTo
  <2> DEFINE g == [i \in 1..m + 1 |-> IF i <= m THEN f[i]
                                      ELSE IF i = 1 THEN ss[i] ELSE f[i - 1] \o ss[i]]
  <2>3. ASSUME NEW i \in 1..m + 1
        PROVE  g[i] = IF i = 1 THEN ss[i] ELSE g[i - 1] \o ss[i]
    <3>1. i # 1 => i - 1 \in 1..m
      OBVIOUS
    <3>2. i # 1 => g[i - 1] = f[i - 1]
      BY <3>1
    <3>3. CASE i \in 1..m
      <4>1. g[i] = f[i]
        BY <3>3
      <4>2. f[i] = IF i = 1 THEN ss[i] ELSE f[i - 1] \o ss[i]
        BY <2>2, <3>3
      <4> HIDE DEF g
      <4> QED BY <4>1, <4>2, <3>2
    <3>4. CASE i = m + 1
      <4>1. g[i] = IF i = 1 THEN ss[i] ELSE f[i - 1] \o ss[i]
        BY <3>4
      <4> HIDE DEF g
      <4> QED BY <4>1, <3>2
    <3> QED BY <3>3, <3>4
  <2>4. FlatTo(ss, m + 1, g)
    <3>1. g = [i \in 1..m + 1 |-> g[i]]
      OBVIOUS
    <3> HIDE DEF g
    <3> QED BY <2>3, <3>1 DEF FlatTo
  <2> QED BY <2>4
<1> HIDE DEF T
<1>3. Nat \subseteq T
  BY <1>1, <1>2, EveryNat
<1> QED BY <1>3 DEF T

Alike(ss, rr, l) == \A i \in 1..l : ss[i] = rr[i]

LEMMA FlatUnique ==
    ASSUME NEW ss, NEW rr, NEW l \in Nat, NEW m \in Nat, NEW f, NEW g,
           FlatTo(ss, l, f), FlatTo(rr, m, g), l <= m,
           Alike(ss, rr, l)
    PROVE  Alike(f, g, l)
<1> DEFINE T == {i \in Nat : i \in 1..l => f[i] = g[i]}
<1>1. 0 \in T
  OBVIOUS
<1>2. ASSUME NEW i \in Nat, i \in T PROVE i + 1 \in T
  <2>1. SUFFICES ASSUME i + 1 \in 1..l PROVE f[i + 1] = g[i + 1]
    OBVIOUS
  <2>2. f[i + 1] = IF i + 1 = 1 THEN ss[i + 1] ELSE f[i] \o ss[i + 1]
    <3>1. i + 1 - 1 = i
      OBVIOUS
    <3> QED BY <2>1, <3>1, FlatAt
  <2>3. g[i + 1] = IF i + 1 = 1 THEN rr[i + 1] ELSE g[i] \o rr[i + 1]
    <3>1. i + 1 - 1 = i /\ i + 1 \in 1..m
      BY <2>1
    <3> QED BY <3>1, FlatAt
  <2>4. i # 0 => f[i] = g[i]
    BY <1>2, <2>1
  <2>5. ss[i + 1] = rr[i + 1]
    BY <2>1 DEF Alike
  <2> QED BY <2>2, <2>3, <2>4, <2>5
<1> HIDE DEF T
<1>3. Nat \subseteq T
  BY <1>1, <1>2, EveryNat
<1> QED BY <1>3 DEF T, Alike

LEMMA NoneInside ==
    ASSUME NEW S, NEW s \in Seq(S), Len(s) = 0
    PROVE  s = <<>>
OBVIOUS

LEMMA FlattenIs ==
    ASSUME NEW ss, Len(ss) \in Nat, Len(ss) # 0
    PROVE  \E f : FlatTo(ss, Len(ss), f) /\ FlattenSeq(ss) = f[Len(ss)]
<1> DEFINE f == CHOOSE g : FlatTo(ss, Len(ss), g)
<1>1. FlatTo(ss, Len(ss), f)
  BY FlatExists
<1>2. FlattenSeq(ss) = f[Len(ss)]
  BY DEF FlattenSeq, FlatTo
<1> QED BY <1>1, <1>2

LEMMA FlattenAppended ==
    ASSUME NEW T, NEW ss \in Seq(Seq(T)), NEW x \in Seq(T), FlattenSeq(ss) \in Seq(T),
           NEW rr, NEW l \in Nat, l = Len(ss), NEW m \in Nat, m = l + 1, Len(rr) = m,
           rr[m] = x, \A i \in 1..l : ss[i] = rr[i]
    PROVE  FlattenSeq(rr) = FlattenSeq(ss) \o x
<1>1. m # 0 /\ m \in 1..m /\ m - 1 = l /\ l <= m
  OBVIOUS
<1>2. PICK g : FlatTo(rr, m, g) /\ FlattenSeq(rr) = g[m]
  BY <1>1, FlattenIs
<1>3. g[m] = IF m = 1 THEN rr[m] ELSE g[l] \o rr[m]
  <2>1. g[m] = IF m = 1 THEN rr[m] ELSE g[m - 1] \o rr[m]
    BY <1>1, <1>2, FlatAt
  <2> QED BY <1>1, <2>1
<1>4. CASE l = 0
  <2>1. FlattenSeq(ss) = <<>>
    <3>1. ss = <<>> /\ Len(ss) = 0
      BY <1>4, NoneInside
    <3> QED BY <3>1, Zenon DEF FlattenSeq
  <2>2. FlattenSeq(rr) = x
    BY <1>2, <1>3, <1>4
  <2>3. <<>> \o x = x
    OBVIOUS
  <2> QED BY <2>1, <2>2, <2>3
<1>5. CASE l # 0
  <2>1. PICK f : FlatTo(ss, l, f) /\ FlattenSeq(ss) = f[l]
    BY <1>5, FlattenIs
  <2>2. Alike(f, g, l)
    <3>1. Alike(ss, rr, l)
      BY DEF Alike
    <3> QED BY <1>1, <1>2, <2>1, <3>1, FlatUnique, SMT
  <2>3. f[l] = g[l]
    BY <1>5, <2>2 DEF Alike
  <2> QED BY <1>2, <1>3, <1>5, <2>1, <2>3
<1> QED BY <1>4, <1>5

LEMMA FlattenGrows ==
    ASSUME NEW T, NEW ss \in Seq(Seq(T)), NEW x \in Seq(T), FlattenSeq(ss) \in Seq(T)
    PROVE  /\ FlattenSeq(Append(ss, x)) = FlattenSeq(ss) \o x
           /\ FlattenSeq(Append(ss, x)) \in Seq(T)
<1> DEFINE rr == Append(ss, x)
<1>1. /\ Len(ss) \in Nat /\ Len(rr) = Len(ss) + 1 /\ rr[Len(ss) + 1] = x
      /\ \A i \in 1..Len(ss) : ss[i] = rr[i]
  OBVIOUS
<1>2. PICK l \in Nat, m \in Nat : l = Len(ss) /\ m = l + 1
  BY <1>1
<1> HIDE DEF rr
<1>3. FlattenSeq(rr) = FlattenSeq(ss) \o x
  <2>1. Len(rr) = m /\ rr[m] = x /\ \A i \in 1..l : ss[i] = rr[i]
    BY <1>1, <1>2
  <2> QED BY <1>2, <2>1, FlattenAppended
<1> QED BY <1>3 DEF rr

LEMMA FlattenNone == FlattenSeq(<<>>) = <<>>
BY DEF FlattenSeq

LEMMA FlattenType ==
    ASSUME NEW T, NEW ss \in Seq(Seq(T))
    PROVE  FlattenSeq(ss) \in Seq(T)
<1> DEFINE U == {i \in Nat : i <= Len(ss) => FlattenSeq(SubSeq(ss, 1, i)) \in Seq(T)}
<1>1. 0 \in U
  <2>1. SubSeq(ss, 1, 0) = <<>>
    OBVIOUS
  <2>2. FlattenSeq(SubSeq(ss, 1, 0)) \in Seq(T)
    <3>1. FlattenSeq(SubSeq(ss, 1, 0)) = <<>>
      BY <2>1, FlattenNone, Zenon
    <3>2. <<>> \in Seq(T)
      OBVIOUS
    <3> QED BY <3>1, <3>2, Zenon
  <2> QED BY <2>2
<1>2. ASSUME NEW i \in Nat, i \in U PROVE i + 1 \in U
  <2>1. SUFFICES ASSUME i + 1 <= Len(ss) PROVE FlattenSeq(SubSeq(ss, 1, i + 1)) \in Seq(T)
    OBVIOUS
  <2> DEFINE rr == SubSeq(ss, 1, i)
  <2>2. rr \in Seq(Seq(T)) /\ SubSeq(ss, 1, i + 1) = Append(rr, ss[i + 1]) /\ ss[i + 1] \in Seq(T)
    BY <2>1
  <2>3. FlattenSeq(rr) \in Seq(T)
    BY <1>2, <2>1
  <2> HIDE DEF rr
  <2> QED BY <2>2, <2>3, FlattenGrows
<1> HIDE DEF U
<1>3. Len(ss) \in U
  BY <1>1, <1>2, EveryNat
<1>4. SubSeq(ss, 1, Len(ss)) = ss
  OBVIOUS
<1>5. FlattenSeq(SubSeq(ss, 1, Len(ss))) \in Seq(T)
  BY <1>3 DEF U
<1> QED BY <1>4, <1>5

-----------------------------------------------------------------------------
(* At: some elements of a sequence.                                        *)

Parts(s, places) == [j \in DOMAIN s |-> IF j \in places THEN <<s[j]>> ELSE <<>>]

LEMMA AppendIs ==
    ASSUME NEW S, NEW s \in Seq(S), NEW e \in S
    PROVE  /\ DOMAIN Append(s, e) = 1..Len(s) + 1 /\ Append(s, e)[Len(s) + 1] = e
           /\ \A j \in 1..Len(s) : Append(s, e)[j] = s[j]
           /\ Append(s, e) = [j \in DOMAIN Append(s, e) |-> Append(s, e)[j]]
<1>1. /\ DOMAIN Append(s, e) = 1..Len(s) + 1 /\ Append(s, e)[Len(s) + 1] = e
      /\ \A j \in 1..Len(s) : Append(s, e)[j] = s[j]
  OBVIOUS
<1>2. Append(s, e) \in Seq(S)
  OBVIOUS
<1>3. ASSUME NEW f \in Seq(S) PROVE f = [j \in DOMAIN f |-> f[j]]
  OBVIOUS
<1>4. Append(s, e) = [j \in DOMAIN Append(s, e) |-> Append(s, e)[j]]
  BY <1>2, <1>3, Zenon
<1> QED BY <1>1, <1>4

\* A function that is a sequence and one value behind it.
LEMMA AppendedIs ==
    ASSUME NEW S, NEW a \in Seq(S), NEW y \in S, NEW r,
           r = [j \in DOMAIN r |-> r[j]], DOMAIN r = 1..Len(a) + 1,
           r[Len(a) + 1] = y, \A j \in 1..Len(a) : r[j] = a[j]
    PROVE  r = Append(a, y)
<1> DEFINE f == Append(a, y)
<1>1. /\ DOMAIN f = 1..Len(a) + 1 /\ f[Len(a) + 1] = y
      /\ \A j \in 1..Len(a) : f[j] = a[j]
      /\ f = [j \in DOMAIN f |-> f[j]]
  BY AppendIs
<1> HIDE DEF f
<1>2. Len(a) \in Nat
  OBVIOUS
<1>3. \A j \in 1..Len(a) + 1 : r[j] = f[j]
  BY <1>1, <1>2
<1>4. r = f
  BY <1>1, <1>3
<1> QED BY <1>4 DEF f

LEMMA PartsGrow ==
    ASSUME NEW T, NEW s \in Seq(T), NEW x \in T, NEW places
    PROVE  /\ Parts(s, places) \in Seq(Seq(T))
           /\ Parts(Append(s, x), places)
                 = Append(Parts(s, places), IF Len(s) + 1 \in places THEN <<x>> ELSE <<>>)
<1> DEFINE ss == Parts(s, places)
           y == IF Len(s) + 1 \in places THEN <<x>> ELSE <<>>
           rr == Parts(Append(s, x), places)
<1>1. y \in Seq(T) /\ <<x>> \in Seq(T) /\ <<>> \in Seq(T)
  OBVIOUS
<1>2. DOMAIN s = 1..Len(s) /\ Len(s) \in Nat /\ \A j \in DOMAIN s : s[j] \in T
  OBVIOUS
<1>3. ss \in [1..Len(s) -> Seq(T)]
  BY <1>1, <1>2 DEF Parts
<1>4. ss \in Seq(Seq(T)) /\ Len(ss) = Len(s)
  <2> HIDE DEF ss
  <2>1. ss \in Seq(Seq(T))
    BY <1>2, <1>3
  <2>2. DOMAIN ss = 1..Len(s)
    BY <1>3
  <2> QED BY <1>2, <2>1, <2>2
<1>5. DOMAIN Append(s, x) = 1..Len(s) + 1 /\ Append(s, x)[Len(s) + 1] = x
      /\ \A j \in 1..Len(s) : Append(s, x)[j] = s[j]
  BY <1>2
<1>6. DOMAIN rr = 1..Len(s) + 1 /\ rr[Len(s) + 1] = y
      /\ \A j \in 1..Len(s) : rr[j] = ss[j]
  BY <1>2, <1>5 DEF Parts
<1>7. rr = [j \in DOMAIN rr |-> rr[j]]
  BY DEF Parts
<1> HIDE DEF ss, y, rr
<1>8. DOMAIN rr = 1..Len(ss) + 1 /\ rr[Len(ss) + 1] = y /\ \A j \in 1..Len(ss) : rr[j] = ss[j]
  BY <1>4, <1>6
<1>9. rr = Append(ss, y)
  BY <1>1, <1>4, <1>7, <1>8, AppendedIs
<1> QED BY <1>4, <1>9 DEF ss, y, rr

LEMMA AtIsFlat == \A s, places : At(s, places) = FlattenSeq(Parts(s, places))
BY DEF At, Parts

\* Of one element more, At has one more if its place is among the places.
LEMMA AtGrows ==
    ASSUME NEW T, NEW s \in Seq(T), NEW x \in T, NEW places
    PROVE  /\ At(s, places) \in Seq(T)
           /\ At(Append(s, x), places)
                 = IF Len(s) + 1 \in places THEN Append(At(s, places), x) ELSE At(s, places)
<1> DEFINE ss == Parts(s, places)
           y == IF Len(s) + 1 \in places THEN <<x>> ELSE <<>>
           a == FlattenSeq(ss)
<1>1. ss \in Seq(Seq(T)) /\ Parts(Append(s, x), places) = Append(ss, y)
  BY PartsGrow
<1>2. y \in Seq(T)
  OBVIOUS
<1>3. a \in Seq(T)
  <2> HIDE DEF ss
  <2> QED BY <1>1, FlattenType
<1>4. FlattenSeq(Append(ss, y)) = a \o y
  <2> HIDE DEF ss, y
  <2> QED BY <1>1, <1>2, <1>3, FlattenGrows
<1>5. a \o y = IF Len(s) + 1 \in places THEN Append(a, x) ELSE a
  <2> HIDE DEF a
  <2>1. a \o <<x>> = Append(a, x) /\ a \o <<>> = a
    BY <1>3
  <2> QED BY <2>1
<1> QED BY <1>1, <1>3, <1>4, <1>5, AtIsFlat

LEMMA AtSame ==
    ASSUME NEW s, NEW I, NEW J, \A j \in DOMAIN s : j \in I <=> j \in J
    PROVE  At(s, I) = At(s, J)
<1>1. Parts(s, I) = Parts(s, J)
  BY DEF Parts
<1> QED BY <1>1, AtIsFlat

\* One more element, with the places among the others the same.
LEMMA AtOneMore ==
    ASSUME NEW T, NEW s \in Seq(T), NEW x \in T, NEW I, NEW J,
           \A j \in 1..Len(s) : j \in I <=> j \in J
    PROVE  At(Append(s, x), J) = IF Len(s) + 1 \in J THEN Append(At(s, I), x) ELSE At(s, I)
<1>1. At(s, I) = At(s, J)
  <2>1. DOMAIN s = 1..Len(s)
    OBVIOUS
  <2> QED BY <2>1, AtSame
<1> QED BY <1>1, AtGrows

LEMMA AtNothing == \A places : At(<<>>, places) = <<>>
<1> SUFFICES ASSUME NEW places PROVE At(<<>>, places) = <<>>
  OBVIOUS
<1>1. Parts(<<>>, places) = <<>>
  BY DEF Parts
<1> QED BY <1>1, AtIsFlat, FlattenNone

LEMMA PrefixFacts ==
    ASSUME NEW T, NEW s \in Seq(T)
    PROVE  /\ Len(s) \in Nat /\ DOMAIN s = 1..Len(s)
           /\ SubSeq(s, 1, 0) = <<>>
           /\ SubSeq(s, 1, Len(s)) = s
           /\ \A m \in Nat : m + 1 <= Len(s) =>
                 /\ s[m + 1] \in T
                 /\ SubSeq(s, 1, m) \in Seq(T) /\ Len(SubSeq(s, 1, m)) = m
                 /\ \A j \in 1..m : SubSeq(s, 1, m)[j] = s[j]
                 /\ SubSeq(s, 1, m + 1) = Append(SubSeq(s, 1, m), s[m + 1])
OBVIOUS

LEMMA AtPrefix ==
    ASSUME NEW T, NEW s \in Seq(T), NEW places, NEW m \in Nat, m + 1 <= Len(s)
    PROVE  At(SubSeq(s, 1, m + 1), places)
              = IF m + 1 \in places THEN Append(At(SubSeq(s, 1, m), places), s[m + 1])
                ELSE At(SubSeq(s, 1, m), places)
<1> DEFINE r == SubSeq(s, 1, m)
<1>1. r \in Seq(T) /\ Len(r) = m /\ s[m + 1] \in T /\ SubSeq(s, 1, m + 1) = Append(r, s[m + 1])
  BY PrefixFacts
<1> HIDE DEF r
<1>2. PICK x \in T : x = s[m + 1]
  BY <1>1
<1>3. At(Append(r, x), places)
         = IF m + 1 \in places THEN Append(At(r, places), x) ELSE At(r, places)
  BY <1>1, AtGrows
<1> QED BY <1>1, <1>2, <1>3 DEF r

\* What the elements are.
LEMMA AtElements ==
    ASSUME NEW T, NEW s \in Seq(T), NEW places
    PROVE  At(s, places) \in Seq({s[i] : i \in places \cap DOMAIN s})
<1> DEFINE U == {s[i] : i \in places \cap DOMAIN s}
           ss == Parts(s, places)
<1>1. DOMAIN s = 1..Len(s) /\ Len(s) \in Nat
  OBVIOUS
<1>2. ASSUME NEW j \in DOMAIN s
      PROVE  (IF j \in places THEN <<s[j]>> ELSE <<>>) \in Seq(U)
  <2>1. CASE j \in places
    <3>1. s[j] \in U
      BY <1>2, <2>1
    <3> HIDE DEF U
    <3> QED BY <2>1, <3>1
  <2>2. CASE j \notin places
    BY <2>2
  <2> QED BY <2>1, <2>2
<1>3. ss \in [1..Len(s) -> Seq(U)]
  <2> HIDE DEF U
  <2> QED BY <1>1, <1>2 DEF Parts
<1>4. ss \in Seq(Seq(U))
  <2> HIDE DEF ss, U
  <2> QED BY <1>1, <1>3
<1> HIDE DEF ss, U
<1>5. FlattenSeq(ss) \in Seq(U)
  BY <1>4, FlattenType
<1> QED BY <1>5, AtIsFlat DEF ss, U

LEMMA AtElementAt ==
    ASSUME NEW T, NEW s \in Seq(T), NEW places, NEW j \in DOMAIN At(s, places)
    PROVE  \E i \in places \cap DOMAIN s : At(s, places)[j] = s[i]
<1> DEFINE U == {s[i] : i \in places \cap DOMAIN s}
           a == At(s, places)
<1>1. a \in Seq(U)
  BY AtElements
<1>2. a[j] \in U
  <2>1. j \in DOMAIN a
    OBVIOUS
  <2> HIDE DEF a, U
  <2> QED BY <1>1, <2>1
<1> QED BY <1>2

\* There are none if and only if no place is one of the sequence.
LEMMA AtNone ==
    ASSUME NEW T, NEW s \in Seq(T), NEW places
    PROVE  At(s, places) = <<>> <=> \A i \in DOMAIN s : i \notin places
<1>1. ASSUME \A i \in DOMAIN s : i \notin places PROVE At(s, places) = <<>>
  <2>1. {s[i] : i \in places \cap DOMAIN s} = {}
    BY <1>1
  <2>2. At(s, places) \in Seq({})
    BY <2>1, AtElements
  <2> DEFINE a == At(s, places)
  <2>3. Len(a) = 0
    <3>1. Len(a) \in Nat /\ DOMAIN a = 1..Len(a) /\ \A j \in DOMAIN a : a[j] \in {}
      <4>1. a \in Seq({})
        BY <2>2
      <4> HIDE DEF a
      <4> QED BY <4>1
    <3> HIDE DEF a
    <3>2. 1 \notin DOMAIN a
      BY <3>1
    <3> QED BY <3>1, <3>2
  <2> QED BY <2>2, <2>3, NoneInside
<1>2. ASSUME NEW i \in DOMAIN s, i \in places PROVE At(s, places) # <<>>
  <2> DEFINE U == {m \in Nat : i <= m /\ m <= Len(s) => At(SubSeq(s, 1, m), places) # <<>>}
  <2>0. Len(s) \in Nat /\ i \in 1..Len(s) /\ SubSeq(s, 1, Len(s)) = s
    BY PrefixFacts
  <2>1. 0 \in U
    BY <2>0
  <2>2. ASSUME NEW m \in Nat, m \in U PROVE m + 1 \in U
    <3>1. SUFFICES ASSUME i <= m + 1, m + 1 <= Len(s)
                   PROVE  At(SubSeq(s, 1, m + 1), places) # <<>>
      OBVIOUS
    <3> DEFINE b == At(SubSeq(s, 1, m), places)
    <3>2. At(SubSeq(s, 1, m + 1), places)
             = IF m + 1 \in places THEN Append(b, s[m + 1]) ELSE b
      BY <3>1, AtPrefix
    <3>3. SubSeq(s, 1, m) \in Seq(T) /\ s[m + 1] \in T
      BY <3>1, PrefixFacts
    <3>4. b \in Seq(T)
      BY <3>3, AtGrows
    <3>5. Append(b, s[m + 1]) # <<>>
      <4> HIDE DEF b
      <4> QED BY <3>3, <3>4
    <3>6. m + 1 \notin places => b # <<>>
      <4>1. m + 1 \notin places => i <= m
        BY <1>2, <2>0, <3>1
      <4> QED BY <2>2, <2>0, <3>1, <4>1
    <3> HIDE DEF b
    <3> QED BY <3>2, <3>5, <3>6
  <2> HIDE DEF U
  <2>3. Len(s) \in U
    BY <2>0, <2>1, <2>2, EveryNat
  <2>4. At(SubSeq(s, 1, Len(s)), places) # <<>>
    BY <2>0, <2>3 DEF U
  <2> QED BY <2>0, <2>4
<1> QED BY <1>1, <1>2

-----------------------------------------------------------------------------
(* Lists of connections.                                                   *)

\* The list up to NULL are the names of this tag, whatever an earlier tag left.
LEMMA UpToNullIsAlias ==
    ASSUME NEW W, NEW alias \in Seq(W), NEW list \in Seq(W \cup {None}), None \notin W
    PROVE  /\ UpToNull(Tokens(alias, list)) = alias
           /\ Tokens(alias, list) \in Seq(W \cup {None})
           /\ \A j \in DOMAIN alias : Tokens(alias, list)[j] = alias[j]
<1> DEFINE r == SubSeq(list, Len(alias) + 2, Len(list))
           q == Tokens(alias, list)
           a == Len(alias)
           V == W \cup {None}
<1>1. r \in Seq(V) /\ alias \in Seq(V) /\ <<None>> \in Seq(V) /\ a \in Nat
  <2>1. alias \in Seq(V) /\ <<None>> \in Seq(V) /\ a \in Nat
    OBVIOUS
  <2>2. a + 2 \in Nat \ {0}
    BY <2>1
  <2> HIDE DEF a
  <2>3. SubSeq(list, a + 2, Len(list)) \in Seq(V)
    BY <2>2
  <2> QED BY <2>1, <2>3 DEF a
<1>2. q = alias \o <<None>> \o r
  BY DEF Tokens
<1> HIDE DEF r, V
<1>3. /\ q \in Seq(V) /\ Len(q) = a + 1 + Len(r)
      /\ q[a + 1] = None /\ \A j \in 1..a : q[j] = alias[j]
  <2> HIDE DEF q
  <2> QED BY <1>1, <1>2
<1>4. Len(r) \in Nat /\ \A j \in 1..a : alias[j] # None
  <2>1. \A j \in 1..a : alias[j] \in W
    OBVIOUS
  <2> QED BY <1>1, <2>1
<1> DEFINE I == {i \in 1..Len(q) : q[i] = None}
<1>5. a + 1 \in I /\ \A i \in I : a + 1 <= i /\ I \subseteq Nat
  <2> HIDE DEF q, a
  <2>1. a + 1 \in I
    BY <1>1, <1>3, <1>4
  <2>2. ASSUME NEW i \in I PROVE a + 1 <= i
    BY <1>1, <1>3, <1>4, <2>2
  <2> QED BY <2>1, <2>2
<1>6. Min(I) = a + 1
  <2> HIDE DEF I, a
  <2> QED BY <1>1, <1>5 DEF Min
<1>8. UpToNull(q) = SubSeq(q, 1, a)
  <2> HIDE DEF q, a
  <2>2. UpToNull(q) = SubSeq(q, 1, (IF I # {} THEN Min(I) ELSE 0) - 1)
    BY Zenon DEF UpToNull, SelectInSeq
  <2>3. I # {}
    BY <1>5
  <2> HIDE DEF I
  <2>4. (IF I # {} THEN Min(I) ELSE 0) - 1 = a
    BY <1>1, <1>6, <2>3
  <2> QED BY <2>2, <2>4, Zenon
<1>9. SubSeq(q, 1, a) = alias
  <2>0. q \in Seq(V) /\ Len(q) = Len(alias) + 1 + Len(r) /\ \A j \in 1..Len(alias) : q[j] = alias[j]
    BY <1>3
  <2> HIDE DEF q
  <2> DEFINE p == SubSeq(q, 1, Len(alias))
  <2>1. p \in Seq(V) /\ Len(p) = Len(alias) /\ \A j \in 1..Len(alias) : p[j] = alias[j]
    BY <2>0, <1>4
  <2> HIDE DEF p
  <2>2. p = alias
    BY <2>1, <1>1
  <2> QED BY <2>2 DEF p
<1>10. DOMAIN alias = 1..a
  OBVIOUS
<1> QED BY <1>3, <1>8, <1>9, <1>10 DEF V

\* What func_load_connections adds for a tag: as read alone.
Accs(P, W) == [pairs : Seq(P), list : Seq(W \cup {None})]
NamesIn(spec, W) ==
    spec.data # None => Attr(spec, "alias") = TooLong \/ Attr(spec, "alias") \in Seq(W)

LEMMA ConnectionAdded ==
    ASSUME NEW P, NEW W, None \notin W, NEW acc \in Accs(P, W),
           NEW spec, PairsOf(spec) \in Seq(P), NamesIn(spec, W)
    PROVE  /\ AddConnection(acc, spec) \in Accs(P, W)
           /\ AddConnection(acc, spec).pairs = acc.pairs \o PairsOf(spec)
<1> DEFINE alias == Attr(spec, "alias")
           list == Tokens(alias, acc.list)
           V == W \cup {None}
<1>0. acc.pairs \in Seq(P) /\ acc.list \in Seq(V) /\ acc.pairs \o <<>> = acc.pairs
      /\ acc = [pairs |-> acc.pairs, list |-> acc.list]
  BY DEF Accs
<1>1. CASE spec.data = None \/ alias = TooLong
  <2>1. AddConnection(acc, spec) = acc /\ PairsOf(spec) = <<>>
    BY <1>1 DEF AddConnection, PairsOf
  <2> QED BY <1>0, <2>1
<1>2. CASE spec.data # None /\ alias # TooLong
  <2>0. alias \in Seq(W)
    BY <1>2 DEF NamesIn
  <2>1. CASE Len(alias) = 1
    <3>1. AddConnection(acc, spec) = [acc EXCEPT !.pairs = Append(@, <<alias[1], spec.data>>)]
      BY <1>2, <2>1 DEF AddConnection
    <3>2. PairsOf(spec) = <<  <<alias[1], spec.data>> >>
      <4>1. DOMAIN alias = 1..1
        BY <2>0, <2>1
      <4> DEFINE h == [j \in DOMAIN alias |->
                  <<alias[j], IF Len(alias) > 1 THEN Expand(spec.data, alias[j]) ELSE spec.data>>]
      <4>2. PairsOf(spec) = h
        BY <1>2, Zenon DEF PairsOf
      <4>3. h = [j \in 1..1 |-> <<alias[1], spec.data>>]
        <5> HIDE DEF alias
        <5>1. ~(Len(alias) > 1)
          BY <2>1
        <5> QED BY <4>1, <5>1
      <4>4. [j \in 1..1 |-> <<alias[1], spec.data>>] = <<  <<alias[1], spec.data>> >>
        OBVIOUS
      <4> QED BY <4>2, <4>3, <4>4, Zenon
    <3> DEFINE e == <<alias[1], spec.data>>
               ps == acc.pairs
               ls == acc.list
    <3>3. e \in P
      <4> HIDE DEF e
      <4>1. <<e>> \in Seq(P)
        BY <3>2 DEF e
      <4> QED BY <4>1
    <3>4. AddConnection(acc, spec) = [pairs |-> Append(ps, e), list |-> ls]
      BY <3>1 DEF Accs
    <3>5. PairsOf(spec) = <<e>> /\ ps \in Seq(P) /\ ls \in Seq(V)
      BY <3>2, <1>0
    <3> HIDE DEF e, ps, V, ls
    <3>6. Append(ps, e) = ps \o <<e>> /\ Append(ps, e) \in Seq(P)
      BY <3>3, <3>5
    <3>7. AddConnection(acc, spec).pairs = ps \o PairsOf(spec)
      BY <3>4, <3>5, <3>6
    <3>8. AddConnection(acc, spec) \in [pairs : Seq(P), list : Seq(V)]
      BY <3>4, <3>5, <3>6
    <3> QED BY <3>7, <3>8 DEF ps, V, Accs
  <2>2. CASE Len(alias) # 1
    <3> DEFINE ps == acc.pairs
               up == [j \in DOMAIN UpToNull(list) |-> <<list[j], Expand(spec.data, list[j])>>]
    <3>1. AddConnection(acc, spec) = [list |-> list, pairs |-> ps \o up]
      BY <1>2, <2>2 DEF AddConnection
    <3>2. UpToNull(list) = alias /\ list \in Seq(V) /\ \A j \in DOMAIN alias : list[j] = alias[j]
      BY <1>0, <2>0, UpToNullIsAlias
    <3>3. up = [j \in DOMAIN alias |-> <<alias[j], Expand(spec.data, alias[j])>>]
      <4> HIDE DEF list
      <4> QED BY <3>2
    <3>4. up = PairsOf(spec)
      <4> DEFINE h == [j \in DOMAIN alias |->
                  <<alias[j], IF Len(alias) > 1 THEN Expand(spec.data, alias[j]) ELSE spec.data>>]
      <4>1. PairsOf(spec) = h
        BY <1>2, Zenon DEF PairsOf
      <4>2. ASSUME NEW j \in DOMAIN alias PROVE Len(alias) > 1
        <5>1. DOMAIN alias = 1..Len(alias) /\ Len(alias) \in Nat
          <6> HIDE DEF alias
          <6> QED BY <2>0
        <5> HIDE DEF alias
        <5> QED BY <2>2, <4>2, <5>1
      <4>3. h = [j \in DOMAIN alias |-> <<alias[j], Expand(spec.data, alias[j])>>]
        BY <4>2
      <4> HIDE DEF h, up
      <4> QED BY <3>3, <4>1, <4>3
    <3>5. ps \in Seq(P) /\ PairsOf(spec) \in Seq(P)
      BY <1>0
    <3> HIDE DEF ps, up, V, list
    <3>6. ps \o up \in Seq(P)
      BY <3>4, <3>5
    <3>7. AddConnection(acc, spec).pairs = ps \o PairsOf(spec)
      BY <3>1, <3>4
    <3>8. AddConnection(acc, spec) \in [pairs : Seq(P), list : Seq(V)]
      BY <3>1, <3>2, <3>6
    <3> QED BY <3>7, <3>8 DEF ps, V, Accs
  <2> QED BY <2>1, <2>2
<1> QED BY <1>1, <1>2

NoneYet == [pairs |-> <<>>, list |-> <<>>]
AccBody(specs, f, j) == IF j = 0 THEN NoneYet ELSE AddConnection(f[j - 1], specs[j])
AccTo(specs, m, f) == f = [j \in 0..m |-> AccBody(specs, f, j)]

LEMMA AccAt ==
    ASSUME NEW specs, NEW m \in Nat, NEW f, AccTo(specs, m, f), NEW j \in 0..m
    PROVE  f[j] = AccBody(specs, f, j)
<1> DEFINE h == [i \in 0..m |-> AccBody(specs, f, i)]
<1>1. f = h
  BY DEF AccTo
<1>2. h[j] = AccBody(specs, f, j)
  OBVIOUS
<1> HIDE DEF h
<1> QED BY <1>1, <1>2

LEMMA AccExists ==
    ASSUME NEW specs, NEW l \in Nat
    PROVE  \E f : AccTo(specs, l, f)
<1> DEFINE T == {m \in Nat : \E f : AccTo(specs, m, f)}
<1>1. 0 \in T
  <2> DEFINE g == [j \in 0..0 |-> NoneYet]
  <2>1. g = [j \in 0..0 |-> AccBody(specs, g, j)]
    BY DEF AccBody
  <2>2. AccTo(specs, 0, g)
    <3> HIDE DEF g
    <3> QED BY <2>1 DEF AccTo
  <2> QED BY <2>2
<1>2. ASSUME NEW m \in Nat, m \in T PROVE m + 1 \in T
  <2>1. PICK f : AccTo(specs, m, f)
    BY <1>2
  <2> DEFINE g == [j \in 0..m + 1 |-> IF j <= m THEN f[j] ELSE AccBody(specs, f, j)]
  <2>2. ASSUME NEW j \in 0..m + 1 PROVE g[j] = AccBody(specs, g, j)
    <3>1. g[j] = AccBody(specs, f, j)
      <4>1. CASE j <= m
        <5>1. j \in 0..m /\ g[j] = f[j]
          BY <4>1
        <5> HIDE DEF g
        <5> QED BY <5>1, <2>1, AccAt
      <4>2. CASE ~(j <= m)
        BY <4>2
      <4> QED BY <4>1, <4>2
    <3>2. j # 0 => g[j - 1] = f[j - 1]
      OBVIOUS
    <3> HIDE DEF g
    <3> QED BY <3>1, <3>2 DEF AccBody
  <2>3. AccTo(specs, m + 1, g)
    <3>1. g = [j \in 0..m + 1 |-> g[j]]
      OBVIOUS
    <3> HIDE DEF g
    <3> QED BY <2>2, <3>1 DEF AccTo
  <2> QED BY <2>3
<1> HIDE DEF T
<1>3. Nat \subseteq T
  BY <1>1, <1>2, EveryNat
<1> QED BY <1>3 DEF T

LEMMA ConnectAllIs ==
    ASSUME NEW specs, Len(specs) \in Nat
    PROVE  \E f : AccTo(specs, Len(specs), f) /\ ConnectAll(specs) = f[Len(specs)].pairs
<1> DEFINE f == CHOOSE g : AccTo(specs, Len(specs), g)
<1>1. AccTo(specs, Len(specs), f)
  BY AccExists
<1>2. ConnectAll(specs) = f[Len(specs)].pairs
  BY DEF ConnectAll, AccTo, AccBody, NoneYet
<1> QED BY <1>1, <1>2

\* What a spec can be read to.
CanBeRead(spec) ==
    /\ IsNode(spec)
    /\ spec.data # None => Attr(spec, "alias") # None

LEMMA PairsOfIsSeq ==
    ASSUME NEW spec, CanBeRead(spec)
    PROVE  PairsOf(spec) \in Seq(Range(PairsOf(spec)))
<1> DEFINE alias == Attr(spec, "alias")
           h == [j \in DOMAIN alias |->
                  <<alias[j], IF Len(alias) > 1 THEN Expand(spec.data, alias[j]) ELSE spec.data>>]
<1>1. CASE spec.data = None \/ alias = TooLong
  <2>1. PairsOf(spec) = <<>>
    BY <1>1 DEF PairsOf
  <2> QED BY <2>1
<1>2. CASE spec.data # None /\ alias # TooLong
  <2>1. PairsOf(spec) = h
    BY <1>2, Zenon DEF PairsOf
  <2>2. alias \in Seq(Range(alias))
    BY <1>2 DEF CanBeRead, IsNode
  <2>3. DOMAIN h = 1..Len(alias) /\ Len(alias) \in Nat /\ h = [j \in DOMAIN h |-> h[j]]
    <3>1. DOMAIN alias = 1..Len(alias) /\ Len(alias) \in Nat
      <4> HIDE DEF alias
      <4> QED BY <2>2
    <3> QED BY <3>1
  <2> HIDE DEF h, alias
  <2>4. h \in Seq(Range(h))
    BY <2>3 DEF Range
  <2> QED BY <2>1, <2>4
<1> QED BY <1>1, <1>2

\* The list of names that all tags write to does not show: the connections of
\* the tags are as if each had been read alone.
\* The connections of any number of tags: each as read alone.
LEMMA ConnectionsAre ==
    ASSUME NEW T, NEW specs \in Seq(T), \A j \in DOMAIN specs : CanBeRead(specs[j])
    PROVE  ConnectAll(specs) = Pairs(specs)
<1> DEFINE P == UNION {Range(PairsOf(specs[j])) : j \in DOMAIN specs}
           names(j) == Attr(specs[j], "alias")
           W == UNION {Range(names(j)) : j \in {i \in DOMAIN specs :
                                                  names(i) \notin {None, TooLong}}}
           A == Accs(P, W)
           pp == [j \in DOMAIN specs |-> PairsOf(specs[j])]
           l == Len(specs)
<1>1. l \in Nat /\ DOMAIN specs = 1..l
  OBVIOUS
<1>2. ASSUME NEW j \in DOMAIN specs PROVE PairsOf(specs[j]) \in Seq(P)
  <2>1. PairsOf(specs[j]) \in Seq(Range(PairsOf(specs[j])))
    BY PairsOfIsSeq
  <2>2. Range(PairsOf(specs[j])) \subseteq P
    OBVIOUS
  <2> HIDE DEF P
  <2> DEFINE r == Range(PairsOf(specs[j]))
             s == PairsOf(specs[j])
  <2>3. s \in Seq(r) /\ r \subseteq P
    BY <2>1, <2>2
  <2> HIDE DEF r, s
  <2>4. s \in Seq(P)
    BY <2>3
  <2> QED BY <2>4 DEF s
<1>3. ASSUME NEW j \in DOMAIN specs
      PROVE  NamesIn(specs[j], W)
  <2>1. SUFFICES ASSUME specs[j].data # None, names(j) # TooLong
                 PROVE  names(j) \in Seq(W)
    BY DEF NamesIn
  <2>2. names(j) \notin {None, TooLong} /\ names(j) \in Seq(Range(names(j)))
    BY <2>1 DEF CanBeRead, IsNode
  <2>3. Range(names(j)) \subseteq W
    BY <2>2
  <2> DEFINE r == Range(names(j))
             s == names(j)
  <2>4. s \in Seq(r) /\ r \subseteq W
    BY <2>2, <2>3
  <2> HIDE DEF r, s, W
  <2>5. s \in Seq(W)
    BY <2>4
  <2> QED BY <2>5 DEF s
<1>4. None \notin W
  BY DEF CanBeRead, IsNode
<1>5. pp \in Seq(Seq(P))
  <2> HIDE DEF P
  <2>1. pp \in [1..l -> Seq(P)]
    BY <1>1, <1>2
  <2> HIDE DEF pp
  <2> QED BY <1>1, <2>1
<1>6. PICK f : AccTo(specs, l, f) /\ ConnectAll(specs) = f[l].pairs
  BY <1>1, ConnectAllIs
<1> DEFINE U == {m \in Nat : m <= l =>
                    /\ f[m] \in A
                    /\ f[m].pairs = FlattenSeq(SubSeq(pp, 1, m))}
<1>7. 0 \in U
  <2>1. f[0] = NoneYet
    BY <1>1, <1>6, AccAt DEF AccBody
  <2>2. NoneYet \in A /\ NoneYet.pairs = <<>>
    BY DEF NoneYet, Accs
  <2>3. SubSeq(pp, 1, 0) = <<>>
    <3> HIDE DEF pp
    <3> QED BY <1>5
  <2>4. FlattenSeq(SubSeq(pp, 1, 0)) = <<>>
    BY <2>3, FlattenNone, Zenon
  <2> QED BY <2>1, <2>2, <2>4
<1>8. ASSUME NEW m \in Nat, m \in U PROVE m + 1 \in U
  <2>1. SUFFICES ASSUME m + 1 <= l
                 PROVE  /\ f[m + 1] \in A
                        /\ f[m + 1].pairs = FlattenSeq(SubSeq(pp, 1, m + 1))
    OBVIOUS
  <2>2. f[m] \in A /\ f[m].pairs = FlattenSeq(SubSeq(pp, 1, m))
    BY <1>1, <1>8, <2>1
  <2>3. m + 1 \in DOMAIN specs /\ m + 1 \in 0..l /\ m + 1 # 0 /\ m + 1 - 1 = m
    BY <1>1, <2>1
  <2> DEFINE spec == specs[m + 1]
             acc == f[m]
             q == SubSeq(pp, 1, m)
  <2>4. f[m + 1] = AddConnection(acc, spec)
    <3>1. f[m + 1] = AccBody(specs, f, m + 1)
      BY <1>1, <1>6, <2>3, AccAt
    <3> QED BY <2>3, <3>1 DEF AccBody
  <2>5. PairsOf(spec) \in Seq(P)
    BY <1>2, <2>3
  <2>6. NamesIn(spec, W)
    BY <1>3, <2>3
  <2>7. pp[m + 1] = PairsOf(spec) /\ Len(pp) = l
    <3>1. DOMAIN pp = 1..l
      BY <1>1
    <3>2. Len(pp) = l
      <4> HIDE DEF pp
      <4> QED BY <1>1, <1>5, <3>1
    <3> QED BY <2>3, <3>2
  <2> HIDE DEF spec, P, W, pp
  <2>8. /\ AddConnection(acc, spec) \in A
        /\ AddConnection(acc, spec).pairs = acc.pairs \o PairsOf(spec)
    <3>1. acc \in A
      BY <2>2
    <3> HIDE DEF acc
    <3> QED BY <1>4, <2>5, <2>6, <3>1, ConnectionAdded
  <2>9. q \in Seq(Seq(P)) /\ SubSeq(pp, 1, m + 1) = Append(q, PairsOf(spec))
    BY <1>5, <2>1, <2>7, PrefixFacts
  <2>10. FlattenSeq(SubSeq(pp, 1, m + 1)) = FlattenSeq(q) \o PairsOf(spec)
    <3>1. FlattenSeq(q) \in Seq(P)
      <4> HIDE DEF q
      <4> QED BY <2>9, FlattenType
    <3>2. FlattenSeq(Append(q, PairsOf(spec))) = FlattenSeq(q) \o PairsOf(spec)
      <4> HIDE DEF q
      <4> QED BY <2>5, <2>9, <3>1, FlattenGrows
    <3> QED BY <2>9, <3>2
  <2> QED BY <2>2, <2>4, <2>8, <2>10
<1> HIDE DEF U
<1>9. l \in U
  BY <1>1, <1>7, <1>8, EveryNat
<1>10. f[l].pairs = FlattenSeq(SubSeq(pp, 1, l))
  BY <1>1, <1>9 DEF U
<1>11. SubSeq(pp, 1, l) = pp
  <2>1. Len(pp) = l
    <3>1. DOMAIN pp = 1..l
      BY <1>1
    <3> HIDE DEF pp
    <3> QED BY <1>1, <1>5, <3>1
  <2> HIDE DEF pp, P
  <2> QED BY <1>5, <2>1, PrefixFacts
<1> QED BY <1>6, <1>10, <1>11 DEF Pairs

-----------------------------------------------------------------------------
(* Nodes and their children.                                               *)

IsTop(nd) == IsNode(nd) /\ AreNodes(nd.subs) /\ \A c \in Range(nd.subs) : AreNodes(c.subs)

LEMMA ChildrenFacts ==
    ASSUME NEW nd, AreNodes(nd.subs), NEW tag
    PROVE  /\ Children(nd, tag) \in Seq(Range(nd.subs))
           /\ \A j \in DOMAIN Children(nd, tag) :
                 /\ IsNode(Children(nd, tag)[j])
                 /\ \E i \in DOMAIN nd.subs :
                       nd.subs[i].tag = tag /\ Children(nd, tag)[j] = nd.subs[i]
<1>1. nd.subs \in Seq(Range(nd.subs)) /\ \A c \in Range(nd.subs) : IsNode(c)
  BY DEF AreNodes
<1>2. Children(nd, tag) = At(nd.subs, Tagged(nd.subs, {tag}))
  BY DEF Children
<1>3. Children(nd, tag) \in Seq(Range(nd.subs))
  <2> DEFINE T == Range(nd.subs)
             s == nd.subs
             I == Tagged(nd.subs, {tag})
             U == {s[i] : i \in I \cap DOMAIN s}
  <2>1. At(s, I) \in Seq(U)
    <3>1. s \in Seq(T)
      BY <1>1
    <3> HIDE DEF s, T, I
    <3> QED BY <3>1, AtElements
  <2>2. U \subseteq T
    BY DEF Range
  <2> HIDE DEF s, T, I, U
  <2>3. At(s, I) \in Seq(T)
    BY <2>1, <2>2
  <2> QED BY <2>3, <1>2 DEF s, T, I
<1>4. ASSUME NEW j \in DOMAIN Children(nd, tag)
      PROVE  \E i \in DOMAIN nd.subs : nd.subs[i].tag = tag /\ Children(nd, tag)[j] = nd.subs[i]
  <2> DEFINE s == nd.subs
             I == Tagged(nd.subs, {tag})
  <2>1. PICK i \in I \cap DOMAIN s : At(s, I)[j] = s[i]
    <3>1. j \in DOMAIN At(s, I) /\ s \in Seq(Range(s))
      BY <1>1, <1>2
    <3> HIDE DEF s, I
    <3> QED BY <3>1, AtElementAt
  <2> QED BY <1>2, <2>1 DEF Tagged
<1>5. ASSUME NEW j \in DOMAIN Children(nd, tag) PROVE IsNode(Children(nd, tag)[j])
  BY <1>1, <1>4 DEF Range
<1> QED BY <1>3, <1>4, <1>5

LEMMA HeadIs ==
    ASSUME NEW S, NEW s \in Seq(S), s # <<>>
    PROVE  Head(s) = s[1] /\ 1 \in DOMAIN s /\ Last(s) = s[Len(s)] /\ Len(s) \in DOMAIN s
           /\ Head(s) \in S /\ Last(s) \in S
BY DEF Last

LEMMA ChildFound ==
    ASSUME NEW nd, AreNodes(nd.subs), NEW tag
    PROVE  /\ FindChild(nd, tag) = None <=> Children(nd, tag) = <<>>
           /\ Children(nd, tag) # <<>> =>
                 /\ FindChild(nd, tag) = Head(Children(nd, tag))
                 /\ IsNode(FindChild(nd, tag))
                 /\ FindChild(nd, tag) \in Range(nd.subs)
                 /\ FindChild(nd, tag) \in ToSet(Children(nd, tag))
<1> DEFINE cs == Children(nd, tag)
<1>1. cs \in Seq(Range(nd.subs)) /\ \A j \in DOMAIN cs : IsNode(cs[j])
  BY ChildrenFacts
<1>2. CASE cs = <<>>
  BY <1>2 DEF FindChild
<1>3. CASE cs # <<>>
  <2>1. FindChild(nd, tag) = Head(cs)
    BY <1>3 DEF FindChild
  <2>2. Head(cs) = cs[1] /\ 1 \in DOMAIN cs /\ Head(cs) \in Range(nd.subs)
    <3> HIDE DEF cs
    <3> QED BY <1>1, <1>3, HeadIs
  <2>3. IsNode(Head(cs))
    BY <1>1, <2>2
  <2>4. Head(cs) \in ToSet(cs)
    BY <2>2 DEF ToSet
  <2>5. Head(cs) # None
    BY <2>3 DEF IsNode
  <2> HIDE DEF cs
  <2> QED BY <1>3, <2>1, <2>2, <2>3, <2>4, <2>5 DEF cs
<1> QED BY <1>2, <1>3

LEMMA ConnectionsLoaded ==
    ASSUME NEW nd, AreNodes(nd.subs), NEW tag, NEW spec,
           ~LoadConnections(nd, tag, spec).crash
    PROVE  LoadConnections(nd, tag, spec).spec
              = IF Children(nd, tag) = <<>> THEN spec ELSE Pairs(Children(nd, tag))
<1> DEFINE specs == Children(nd, tag)
<1>1. specs \in Seq(Range(nd.subs)) /\ \A j \in DOMAIN specs : IsNode(specs[j])
  BY ChildrenFacts
<1>2. \A j \in DOMAIN specs : specs[j].data # None => Attr(specs[j], "alias") # None
  BY DEF LoadConnections
<1>3. LoadConnections(nd, tag, spec).spec = IF specs = <<>> THEN spec ELSE ConnectAll(specs)
  BY DEF LoadConnections
<1>4. ConnectAll(specs) = Pairs(specs)
  <2>1. \A j \in DOMAIN specs : CanBeRead(specs[j])
    BY <1>1, <1>2 DEF CanBeRead
  <2> HIDE DEF specs
  <2> QED BY <1>1, <2>1, ConnectionsAre
<1> QED BY <1>3, <1>4

\* Tags that all have an alias are read without a crash.
LEMMA ConnectionsComplete ==
    ASSUME NEW nd, AreNodes(nd.subs), NEW tag, NEW spec,
           \A j \in DOMAIN nd.subs : nd.subs[j].tag = tag => Given(nd.subs[j], {"alias"})
    PROVE  ~LoadConnections(nd, tag, spec).crash
<1>1. \A j \in DOMAIN Children(nd, tag) : Attr(Children(nd, tag)[j], "alias") # None
  BY ChildrenFacts DEF Given
<1> QED BY <1>1 DEF LoadConnections

-----------------------------------------------------------------------------
(* Tasks and bridges.                                                      *)

TaskFields == {"name", "priority", "type", "config", "clk", "period", "input",
               "ins", "outs", "ebr"}

TaskLike(s) == DOMAIN s = TaskFields /\ s = [x \in TaskFields |-> s[x]]

\* Only the fields of the clock differ.
ClockDiffers(s, r) ==
    TaskLike(r) /\ \A x \in TaskFields \ {"clk", "period", "input"} : r[x] = s[x]

LEMMA ErrNums ==
    ASSUME NEW nd
    PROVE  /\ \A x : Missing(nd, x) \in {0, 1} /\ (Missing(nd, x) = 0 <=> Attr(nd, x) # None)
           /\ \A x : ErrNum(nd, <<x>>) = Missing(nd, x)
           /\ \A x, y : ErrNum(nd, <<x, y>>) = Missing(nd, y)
           /\ \A x : Attr(nd, x) # None => Number(nd, x) = Attr(nd, x)
BY DEF Missing, ErrNum, Number, Last

\* The clock method of a task or a bridge, whatever is in its slot.
LEMMA ClockRead ==
    ASSUME NEW nd, NEW s, TaskLike(s)
    PROVE  /\ LoadClockMethod(nd, s).err \in {0, 1}
           /\ LoadClockMethod(nd, s).err = 0 <=> ClockIsComplete(nd)
           /\ ClockDiffers(s, LoadClockMethod(nd, s).slot)
           /\ LoadClockMethod(nd, s).err = 0 =>
                 Clock(LoadClockMethod(nd, s).slot) = ClockAsWritten(nd)
<1> DEFINE m == Attr(nd, "clk_method")
           r == LoadClockMethod(nd, s)
<1>0. /\ None \notin ClkMethods
      /\ \A x : Missing(nd, x) \in {0, 1} /\ (Missing(nd, x) = 0 <=> Attr(nd, x) # None)
      /\ \A x, y : ErrNum(nd, <<x, y>>) = Missing(nd, y)
      /\ \A x : Attr(nd, x) # None => Number(nd, x) = Attr(nd, x)
  BY LoaderAssumption, ErrNums
<1>1. CASE m = None
  <2>1. r = [slot |-> s, err |-> 1]
    BY <1>0, <1>1 DEF LoadClockMethod
  <2>2. ~ClockIsComplete(nd)
    BY <1>0, <1>1 DEF ClockIsComplete, ClkMethods
  <2> QED BY <2>1, <2>2 DEF ClockDiffers
<1>2. CASE m # None /\ m \notin ClkMethods
  <2>1. r = [slot |-> [s EXCEPT !.clk = "none"], err |-> 1]
    BY <1>2 DEF LoadClockMethod
  <2>2. ~ClockIsComplete(nd)
    BY <1>2 DEF ClockIsComplete, ClkMethods
  <2>3. ClockDiffers(s, [s EXCEPT !.clk = "none"])
    BY DEF ClockDiffers, TaskLike, TaskFields
  <2> QED BY <2>1, <2>2, <2>3
<1>3. CASE m = "freerun"
  <2>1. r = [slot |-> [s EXCEPT !.clk = "freerun"], err |-> 0]
    BY <1>0, <1>3 DEF LoadClockMethod, ClkMethods
  <2>2. ClockIsComplete(nd)
    BY <1>3 DEF ClockIsComplete
  <2>3. ClockDiffers(s, [s EXCEPT !.clk = "freerun"]) /\ [s EXCEPT !.clk = "freerun"].clk = "freerun"
    BY DEF ClockDiffers, TaskLike, TaskFields
  <2> DEFINE q == [s EXCEPT !.clk = "freerun"]
  <2>4. r.slot = q /\ r.err = 0 /\ q.clk = "freerun" /\ ClockDiffers(s, q)
    BY <2>1, <2>3
  <2> HIDE DEF q, r
  <2>5. Clock(q) = <<"freerun">> /\ ClockAsWritten(nd) = <<"freerun">>
    BY <1>3, <2>4 DEF Clock, ClockAsWritten
  <2> QED BY <2>2, <2>4, <2>5 DEF r
<1>4. CASE m = "timer"
  <2> DEFINE q == [s EXCEPT !.clk = "timer", !.period = Number(nd, "clk_period")]
  <2>1. r = [slot |-> q, err |-> Missing(nd, "clk_period")]
    BY <1>0, <1>4 DEF LoadClockMethod, ClkMethods
  <2>2. ClockIsComplete(nd) <=> Attr(nd, "clk_period") # None
    BY <1>4 DEF ClockIsComplete, Given
  <2>3. ClockDiffers(s, q) /\ q.clk = "timer" /\ q.period = Number(nd, "clk_period")
    BY DEF ClockDiffers, TaskLike, TaskFields
  <2> HIDE DEF q
  <2>4. Clock(r.slot) = <<"timer", Number(nd, "clk_period")>>
        /\ ClockAsWritten(nd) = <<"timer", Attr(nd, "clk_period")>>
    BY <1>4, <2>1, <2>3 DEF Clock, ClockAsWritten
  <2>5. r.err \in {0, 1} /\ r.slot = q
        /\ (r.err = 0 <=> Attr(nd, "clk_period") # None)
    BY <1>0, <2>1
  <2> HIDE DEF r
  <2>6. r.err = 0 => Clock(r.slot) = ClockAsWritten(nd)
    BY <1>0, <2>4, <2>5
  <2> QED BY <2>2, <2>3, <2>5, <2>6 DEF r
<1>5. CASE m = "inp_upd"
  <2> DEFINE q == [s EXCEPT !.clk = "inp_upd", !.input = Attr(nd, "clk_input_path")]
  <2>1. r = [slot |-> q, err |-> Missing(nd, "clk_input_path")]
    BY <1>0, <1>5 DEF LoadClockMethod, ClkMethods
  <2>2. ClockIsComplete(nd) <=> Attr(nd, "clk_input_path") # None
    BY <1>5 DEF ClockIsComplete, Given
  <2>3. ClockDiffers(s, q) /\ q.clk = "inp_upd" /\ q.input = Attr(nd, "clk_input_path")
    BY DEF ClockDiffers, TaskLike, TaskFields
  <2> HIDE DEF q
  <2>4. Clock(r.slot) = <<"inp_upd", Attr(nd, "clk_input_path")>>
        /\ ClockAsWritten(nd) = <<"inp_upd", Attr(nd, "clk_input_path")>>
    BY <1>5, <2>1, <2>3 DEF Clock, ClockAsWritten
  <2>5. r.err \in {0, 1} /\ r.slot = q
        /\ (r.err = 0 <=> Attr(nd, "clk_input_path") # None)
    BY <1>0, <2>1
  <2> HIDE DEF r
  <2> QED BY <2>2, <2>3, <2>4, <2>5 DEF r
<1> QED BY <1>1, <1>2, <1>3, <1>4, <1>5 DEF ClkMethods

\* The attributes of a task, whatever is in its slot.
LEMMA TaskAttrsRead ==
    ASSUME NEW nd, NEW s, TaskLike(s)
    PROVE  LET r == LoadTaskAttrs(nd, s) IN
           /\ TaskLike(r.slot) /\ r.slot.ins = s.ins /\ r.slot.outs = s.outs
           /\ r.err \in Nat
           /\ r.err = 0 <=> Attr(nd, "type") \in TaskTypes /\ ClockIsComplete(nd)
           /\ r.err = 0 =>
                 /\ r.slot.type = Attr(nd, "type")
                 /\ r.slot.name = Attr(nd, "name") /\ r.slot.priority = Number(nd, "priority")
                 /\ r.slot.config = Path(Attr(nd, "config"))
                 /\ Clock(r.slot) = ClockAsWritten(nd)
<1> DEFINE r == LoadTaskAttrs(nd, s)
           type == Attr(nd, "type")
           named == [s EXCEPT !.name = Attr(nd, "name"), !.priority = Number(nd, "priority")]
           kind == IF type \in TaskTypes THEN type ELSE "unknown"
           typed == [named EXCEPT !.config = Path(Attr(nd, "config")),
                                  !.type = IF type = None THEN @ ELSE kind]
           clocked == LoadClockMethod(nd, typed)
<1>1. /\ r.slot = clocked.slot
      /\ r.err = ErrNum(nd, <<"config", "type">>)
                    + (IF type # None /\ type \notin TaskTypes THEN 1 ELSE 0) + clocked.err
  BY DEF LoadTaskAttrs, LoadNameAndPriority
<1>2. TaskLike(named) /\ named.name = Attr(nd, "name") /\ named.priority = Number(nd, "priority")
      /\ named.ins = s.ins /\ named.outs = s.outs
  BY DEF TaskLike, TaskFields
<1>3. /\ TaskLike(typed) /\ typed.name = named.name /\ typed.priority = named.priority
      /\ typed.ins = named.ins /\ typed.outs = named.outs
      /\ typed.config = Path(Attr(nd, "config"))
      /\ type # None => typed.type = kind
  <2> HIDE DEF named, kind
  <2> QED BY <1>2 DEF TaskLike, TaskFields
<1> HIDE DEF named, typed
<1>4. /\ clocked.err \in {0, 1}
      /\ clocked.err = 0 <=> ClockIsComplete(nd)
      /\ ClockDiffers(typed, clocked.slot)
      /\ clocked.err = 0 => Clock(clocked.slot) = ClockAsWritten(nd)
  BY <1>3, ClockRead
<1>5. ErrNum(nd, <<"config", "type">>) \in {0, 1}
      /\ (ErrNum(nd, <<"config", "type">>) = 0 <=> type # None)
  BY ErrNums
<1>6. None \notin TaskTypes
  BY LoaderAssumption
<1> HIDE DEF clocked, r
<1>7. r.err \in Nat
      /\ (r.err = 0 <=> type # None /\ ~(type # None /\ type \notin TaskTypes) /\ clocked.err = 0)
  <2> HIDE DEF type
  <2> QED BY <1>1, <1>4, <1>5
<1>8. r.err = 0 <=> type \in TaskTypes /\ ClockIsComplete(nd)
  BY <1>4, <1>6, <1>7
<1>9. /\ TaskLike(clocked.slot) /\ clocked.slot.ins = s.ins /\ clocked.slot.outs = s.outs
      /\ clocked.slot.type = typed.type /\ clocked.slot.name = typed.name
      /\ clocked.slot.priority = typed.priority /\ clocked.slot.config = typed.config
  BY <1>2, <1>3, <1>4 DEF ClockDiffers, TaskFields
<1>10. r.err = 0 => typed.type = type /\ clocked.err = 0
  BY <1>3, <1>6, <1>7
<1>11. r.err = 0 =>
          /\ r.slot.type = Attr(nd, "type")
          /\ r.slot.name = Attr(nd, "name") /\ r.slot.priority = Number(nd, "priority")
          /\ r.slot.config = Path(Attr(nd, "config"))
          /\ Clock(r.slot) = ClockAsWritten(nd)
  BY <1>1, <1>2, <1>3, <1>4, <1>9, <1>10
<1> QED BY <1>1, <1>7, <1>8, <1>9, <1>11 DEF r

\* The lists of connections are only set in a slot that is taken.
Fresh(s) == TaskLike(s) /\ s.ins = None /\ s.outs = None

\* load_task: it errs exactly for what cannot be loaded, and takes from the slot
\* nothing that an earlier node wrote there.
LEMMA TaskRead ==
    ASSUME NEW nd, IsTop(nd), nd.tag = "task", NEW s, Fresh(s)
    PROVE  LET r == LoadTask(nd, s) IN
           /\ r.err \in Nat /\ (r.err = 0 <=> Loadable(nd))
           /\ r.err # 0 => ~r.crash /\ Fresh(r.slot)
           /\ r.err = 0 /\ ~r.crash => UsedOfTask(r.slot) = TaskAsWritten(nd)
           /\ Complete(nd) => ~r.crash /\ r.err = 0
<1> DEFINE r == LoadTask(nd, s)
           attrs == LoadTaskAttrs(nd, s)
           conn == FindChild(nd, "connect")
           ins == LoadConnections(conn, "in", attrs.slot.ins)
           outs == LoadConnections(conn, "out", attrs.slot.outs)
           wires == Head(Children(nd, "connect"))
<1>1. /\ TaskLike(attrs.slot) /\ attrs.slot.ins = None /\ attrs.slot.outs = None
      /\ attrs.err \in Nat
      /\ attrs.err = 0 <=> Attr(nd, "type") \in TaskTypes /\ ClockIsComplete(nd)
      /\ attrs.err = 0 =>
            /\ attrs.slot.type = Attr(nd, "type")
            /\ attrs.slot.name = Attr(nd, "name") /\ attrs.slot.priority = Number(nd, "priority")
            /\ attrs.slot.config = Path(Attr(nd, "config"))
            /\ Clock(attrs.slot) = ClockAsWritten(nd)
  BY TaskAttrsRead DEF Fresh
<1>2. Loadable(nd) <=> attrs.err = 0
  <2> HIDE DEF attrs
  <2> QED BY <1>1 DEF Loadable
<1>3. Complete(nd) => Loadable(nd) /\ Children(nd, "connect") # <<>>
  BY DEF Complete, Tags
<1>4. CASE attrs.err > 0
  <2>1. r = [slot |-> attrs.slot, err |-> attrs.err, crash |-> FALSE]
    <3> HIDE DEF ins, outs, conn
    <3> QED BY <1>4, <1>1 DEF LoadTask
  <2> HIDE DEF r, attrs
  <2> QED BY <1>1, <1>2, <1>3, <1>4, <2>1 DEF Fresh, r
<1>5. CASE attrs.err = 0 /\ conn = None
  <2>1. r = [slot |-> attrs.slot, err |-> 0, crash |-> TRUE]
    <3> HIDE DEF ins, outs
    <3> QED BY <1>5 DEF LoadTask
  <2>2. Children(nd, "connect") = <<>>
    BY <1>5, ChildFound DEF IsTop
  <2> HIDE DEF r, attrs
  <2> QED BY <1>2, <1>3, <1>5, <2>1, <2>2 DEF r
<1>6. CASE attrs.err = 0 /\ conn # None
  <2> DEFINE slot == [attrs.slot EXCEPT !.ins = ins.spec, !.outs = outs.spec]
  <2>1. r = [slot |-> slot, err |-> 0, crash |-> ins.crash \/ outs.crash]
    <3> HIDE DEF ins, outs, conn
    <3>1. ~(attrs.err > 0)
      BY <1>6
    <3> QED BY <1>6, <3>1 DEF LoadTask, ins, outs, conn
  <2>2. /\ conn = wires /\ AreNodes(conn.subs) /\ Children(nd, "connect") # <<>>
        /\ conn \in ToSet(Children(nd, "connect"))
    BY <1>6, ChildFound DEF IsTop
  <2>3. Complete(nd) => ~ins.crash /\ ~outs.crash
    <3>1. SUFFICES ASSUME Complete(nd) PROVE ~ins.crash /\ ~outs.crash
      OBVIOUS
    <3>2. \A j \in DOMAIN conn.subs :
              conn.subs[j].tag \in {"in", "out", "source"} => Given(conn.subs[j], {"alias"})
      BY <2>2, <3>1 DEF Complete
    <3> HIDE DEF conn
    <3>3. ~ins.crash
      BY <2>2, <3>2, ConnectionsComplete
    <3>4. ~outs.crash
      BY <2>2, <3>2, ConnectionsComplete
    <3> QED BY <3>3, <3>4
  <2>4. ASSUME ~ins.crash, ~outs.crash
        PROVE  /\ ins.spec = ConnectionsAsWritten(nd, "in")
               /\ outs.spec = ConnectionsAsWritten(nd, "out")
    <3>1. ins.spec = IF Children(conn, "in") = <<>> THEN None ELSE Pairs(Children(conn, "in"))
      <4> HIDE DEF conn
      <4> QED BY <1>1, <2>2, <2>4, ConnectionsLoaded
    <3>2. outs.spec = IF Children(conn, "out") = <<>> THEN None ELSE Pairs(Children(conn, "out"))
      <4> HIDE DEF conn
      <4> QED BY <1>1, <2>2, <2>4, ConnectionsLoaded
    <3> QED BY <2>2, <3>1, <3>2 DEF ConnectionsAsWritten
  <2>5. /\ slot.ins = ins.spec /\ slot.outs = outs.spec /\ slot.type = Attr(nd, "type")
        /\ slot.name = Attr(nd, "name") /\ slot.priority = Number(nd, "priority")
        /\ slot.config = Path(Attr(nd, "config")) /\ Clock(slot) = Clock(attrs.slot)
    <3> HIDE DEF ins, outs, attrs
    <3>1. /\ slot.ins = ins.spec /\ slot.outs = outs.spec
          /\ \A x \in TaskFields \ {"ins", "outs"} : slot[x] = attrs.slot[x]
      BY <1>1 DEF TaskLike, TaskFields
    <3> HIDE DEF slot
    <3>2. slot.clk = attrs.slot.clk /\ slot.period = attrs.slot.period /\ slot.input = attrs.slot.input
      BY <3>1 DEF TaskFields
    <3> QED BY <1>1, <1>6, <3>1, <3>2 DEF TaskFields, Clock
  <2>6. ASSUME ~ins.crash, ~outs.crash PROVE UsedOfTask(slot) = TaskAsWritten(nd)
    <3>1. slot.type # "ebr"
      BY <1>1, <1>6, <2>5 DEF TaskTypes
    <3> HIDE DEF slot, ins, outs
    <3>2. UsedOfTask(slot)
             = [of |-> <<slot.type, slot.name, slot.priority>>, clock |-> Clock(slot),
                data |-> <<slot.config, slot.ins, slot.outs>>]
      BY <3>1 DEF UsedOfTask
    <3>3. TaskAsWritten(nd)
             = [clock |-> ClockAsWritten(nd),
                of |-> <<Attr(nd, "type"), Attr(nd, "name"), Number(nd, "priority")>>,
                data |-> <<Path(Attr(nd, "config")), ConnectionsAsWritten(nd, "in"),
                           ConnectionsAsWritten(nd, "out")>>]
      BY DEF TaskAsWritten
    <3> QED BY <1>1, <1>6, <2>4, <2>5, <2>6, <3>2, <3>3
  <2>7. r.err = 0 /\ r.slot = slot /\ (~r.crash <=> ~ins.crash /\ ~outs.crash)
    <3> HIDE DEF slot, ins, outs, r
    <3> QED BY <2>1
  <2>8. r.err \in Nat /\ ~(r.err # 0)
    BY <2>7
  <2>9. Loadable(nd)
    BY <1>2, <1>6
  <2>10. ~r.crash => UsedOfTask(r.slot) = TaskAsWritten(nd)
    BY <2>6, <2>7
  <2>11. Complete(nd) => ~r.crash
    BY <2>3, <2>7
  <2> HIDE DEF r
  <2> QED BY <2>7, <2>8, <2>9, <2>10, <2>11, Zenon DEF r
<1> QED BY <1>1, <1>4, <1>5, <1>6

\* ebr_load_task: the same.
LEMMA BridgeRead ==
    ASSUME NEW nd, IsTop(nd), nd.tag = "bridge", NEW s, Fresh(s), NEW made
    PROVE  LET r == LoadBridge(nd, s, made) IN
           /\ r.err \in Nat /\ (r.err = 0 <=> Loadable(nd))
           /\ r.err # 0 /\ ~r.crash => Fresh(r.slot)
           /\ r.err = 0 /\ ~r.crash => UsedOfTask(r.slot) = TaskAsWritten(nd)
           /\ Complete(nd) => ~r.crash /\ r.err = 0
<1> DEFINE r == LoadBridge(nd, s, made)
           ebr == [s EXCEPT !.type = "ebr"]
           named == [ebr EXCEPT !.name = Attr(nd, "name"), !.priority = Number(nd, "priority")]
           nerr == Missing(nd, "priority")
           clocked == LoadClockMethod(nd, named)
           sources == LoadConnections(nd, "source", None)
           specs == Children(nd, "source")
           refused == nerr + clocked.err > 0
<1>1. /\ TaskLike(named) /\ named.type = "ebr" /\ named.name = Attr(nd, "name")
      /\ named.priority = Number(nd, "priority") /\ named.ins = None /\ named.outs = None
  BY DEF Fresh, TaskLike, TaskFields
<1>2. /\ nerr \in {0, 1} /\ (nerr = 0 <=> Attr(nd, "priority") # None)
      /\ ErrNum(nd, <<"name", "priority">>) = nerr
      /\ ErrNum(nd, <<"to">>) \in {0, 1} /\ (ErrNum(nd, <<"to">>) = 0 <=> Attr(nd, "to") # None)
  BY ErrNums
<1>3. LoadNameAndPriority(nd, ebr) = [slot |-> named, err |-> nerr]
  BY <1>2 DEF LoadNameAndPriority
<1> HIDE DEF named, ebr
<1>4. /\ clocked.err \in {0, 1}
      /\ clocked.err = 0 <=> ClockIsComplete(nd)
      /\ ClockDiffers(named, clocked.slot)
      /\ clocked.err = 0 => Clock(clocked.slot) = ClockAsWritten(nd)
  BY <1>1, ClockRead
<1>5. /\ Fresh(clocked.slot) /\ clocked.slot.type = "ebr"
      /\ clocked.slot.name = Attr(nd, "name") /\ clocked.slot.priority = Number(nd, "priority")
  BY <1>1, <1>4 DEF ClockDiffers, Fresh, TaskFields
<1>6. AreNodes(nd.subs)
  BY DEF IsTop
<1>7. /\ sources.err \in {0, 1}
      /\ sources.err = 0 <=> specs # <<>> /\ Given(Last(specs), {"alias"})
  <2>1. sources.err = IF specs = <<>> THEN 1 ELSE ErrNum(Last(specs), <<"alias">>)
    BY DEF LoadConnections
  <2>2. ErrNum(Last(specs), <<"alias">>) \in {0, 1}
        /\ (ErrNum(Last(specs), <<"alias">>) = 0 <=> Attr(Last(specs), "alias") # None)
    BY ErrNums
  <2> HIDE DEF sources, specs
  <2> QED BY <2>1, <2>2 DEF Given
<1>8. ~sources.crash /\ specs # <<>> => sources.spec = Pairs(specs)
  BY <1>6, ConnectionsLoaded
<1>9. Complete(nd) => Loadable(nd) /\ ~sources.crash
  <2>1. SUFFICES ASSUME Complete(nd) PROVE Loadable(nd) /\ ~sources.crash
    OBVIOUS
  <2>2. Loadable(nd)
    BY <2>1 DEF Complete, Tags
  <2>3. \A j \in DOMAIN nd.subs :
            nd.subs[j].tag \in {"in", "out", "source"} => Given(nd.subs[j], {"alias"})
    BY <2>1 DEF Complete
  <2>4. ~sources.crash
    BY <1>6, <2>3, ConnectionsComplete
  <2> QED BY <2>2, <2>4
<1>10. Loadable(nd) <=> ~refused /\ ErrNum(nd, <<"to">>) + sources.err = 0
  <2>1. Loadable(nd) <=> /\ Attr(nd, "priority") # None /\ Attr(nd, "to") # None
                         /\ ClockIsComplete(nd) /\ specs # <<>>
                         /\ Given(Last(specs), {"alias"})
    BY DEF Loadable, Given
  <2> HIDE DEF sources, specs, clocked, nerr
  <2> QED BY <1>2, <1>4, <1>7, <2>1
<1>11. /\ r.slot = IF refused THEN clocked.slot
                  ELSE [clocked.slot EXCEPT !.ebr = [dst |-> Attr(nd, "to"), bridge |-> made,
                                                     sources |-> sources.spec]]
       /\ r.err = IF refused THEN nerr + clocked.err ELSE ErrNum(nd, <<"to">>) + sources.err
       /\ r.crash = (~refused /\ sources.crash)
  <2> DEFINE first == LoadNameAndPriority(nd, ebr)
             second == LoadClockMethod(nd, first.slot)
  <2>1. first.slot = named /\ first.err = nerr
    <3> HIDE DEF nerr
    <3> QED BY <1>3
  <2>2. second = clocked
    <3> HIDE DEF first
    <3> QED BY <2>1
  <2>3. r = [crash |-> ~(first.err + second.err > 0) /\ sources.crash,
             err |-> IF first.err + second.err > 0 THEN first.err + second.err
                     ELSE ErrNum(nd, <<"to">>) + sources.err,
             slot |-> IF first.err + second.err > 0 THEN second.slot
                      ELSE [second.slot EXCEPT !.ebr = [dst |-> Attr(nd, "to"), bridge |-> made,
                                                        sources |-> sources.spec]]]
    BY DEF LoadBridge, ebr
  <2> HIDE DEF r, first, second, sources, clocked, nerr
  <2>4. r = [crash |-> ~refused /\ sources.crash,
             err |-> IF refused THEN nerr + clocked.err ELSE ErrNum(nd, <<"to">>) + sources.err,
             slot |-> IF refused THEN clocked.slot
                      ELSE [clocked.slot EXCEPT !.ebr = [dst |-> Attr(nd, "to"), bridge |-> made,
                                                         sources |-> sources.spec]]]
    BY <2>1, <2>2, <2>3, Zenon
  <2> HIDE DEF refused
  <2>5. r.crash = (~refused /\ sources.crash)
    BY <2>4, Zenon
  <2>6. /\ r.slot = IF refused THEN clocked.slot
                  ELSE [clocked.slot EXCEPT !.ebr = [dst |-> Attr(nd, "to"), bridge |-> made,
                                                     sources |-> sources.spec]]
        /\ r.err = IF refused THEN nerr + clocked.err ELSE ErrNum(nd, <<"to">>) + sources.err
    BY <2>4, Zenon
  <2> QED BY <2>5, <2>6
<1>12. CASE refused
  <2>1. r.slot = clocked.slot /\ r.err = nerr + clocked.err /\ r.err \in Nat
        /\ r.err # 0 /\ ~Loadable(nd)
    <3> HIDE DEF r, clocked, nerr, sources
    <3>1. r.slot = clocked.slot /\ r.err = nerr + clocked.err
      <4> HIDE DEF refused
      <4> QED BY <1>11, <1>12
    <3>2. ~Loadable(nd)
      <4> HIDE DEF refused
      <4> QED BY <1>10, <1>12, Zenon
    <3>3. nerr + clocked.err \in Nat /\ nerr + clocked.err # 0
      <4> HIDE DEF sources
      <4> QED BY <1>2, <1>4, <1>12
    <3> QED BY <3>1, <3>2, <3>3
  <2>2. ~r.crash
    <3> HIDE DEF r, sources, refused
    <3> QED BY <1>11, <1>12, Zenon
  <2> HIDE DEF r
  <2> QED BY <1>5, <1>9, <2>1, <2>2 DEF r
<1>13. CASE ~refused
  <2> DEFINE e == [dst |-> Attr(nd, "to"), bridge |-> made, sources |-> sources.spec]
             q == [clocked.slot EXCEPT !.ebr = e]
  <2>1. r.slot = q /\ r.err = ErrNum(nd, <<"to">>) + sources.err /\ (~r.crash <=> ~sources.crash)
    <3> HIDE DEF r, clocked, nerr, sources
    <3> QED BY <1>11, <1>13
  <2>2. r.err \in Nat /\ (r.err = 0 <=> Loadable(nd))
    <3> HIDE DEF r, clocked, nerr, sources
    <3> QED BY <1>2, <1>7, <1>10, <1>13, <2>1
  <2>3. /\ q.ebr = e /\ TaskLike(q)
        /\ \A x \in TaskFields \ {"ebr"} : q[x] = clocked.slot[x]
    <3> HIDE DEF e, clocked
    <3> QED BY <1>5 DEF Fresh, TaskLike, TaskFields
  <2> HIDE DEF q
  <2>4. Fresh(q) /\ q.type = "ebr" /\ q.name = Attr(nd, "name") /\ q.priority = Number(nd, "priority")
        /\ Clock(q) = Clock(clocked.slot)
    <3> HIDE DEF clocked
    <3> QED BY <1>5, <2>3 DEF Fresh, TaskFields, Clock
  <2>5. ASSUME r.err = 0, ~r.crash PROVE UsedOfTask(q) = TaskAsWritten(nd)
    <3>1. clocked.err = 0
      <4> HIDE DEF clocked, nerr
      <4> QED BY <1>2, <1>4, <1>13
    <3>2. specs # <<>> /\ ~sources.crash
      <4> HIDE DEF r, sources, specs
      <4>1. sources.err = 0
        BY <1>2, <1>7, <2>1, <2>5
      <4> QED BY <1>7, <2>1, <2>5, <4>1
    <3>3. sources.spec = Pairs(specs)
      BY <1>8, <3>2
    <3>4. Clock(q) = ClockAsWritten(nd)
      BY <1>4, <2>4, <3>1
    <3>5. q.ebr.dst = Attr(nd, "to") /\ q.ebr.sources = Pairs(specs)
      <4> HIDE DEF sources
      <4> QED BY <2>3, <3>3
    <3>6. UsedOfTask(q) = [of |-> <<q.type, q.name, q.priority>>, clock |-> Clock(q),
                           data |-> <<q.ebr.dst, q.ebr.sources>>]
      BY <2>4 DEF UsedOfTask
    <3>7. TaskAsWritten(nd)
             = [clock |-> ClockAsWritten(nd),
                of |-> <<"ebr", Attr(nd, "name"), Number(nd, "priority")>>,
                data |-> <<Attr(nd, "to"), Pairs(specs)>>]
      BY DEF TaskAsWritten
    <3> HIDE DEF specs
    <3> QED BY <2>4, <3>4, <3>5, <3>6, <3>7
  <2>6. Complete(nd) => ~r.crash /\ r.err = 0
    BY <1>9, <2>1, <2>2
  <2> HIDE DEF r
  <2>7. r.err = 0 /\ ~r.crash => UsedOfTask(r.slot) = TaskAsWritten(nd)
    BY <2>1, <2>5
  <2>8. Fresh(r.slot)
    BY <2>1, <2>4
  <2> QED BY <2>2, <2>6, <2>7, <2>8, Zenon DEF r
<1> QED BY <1>12, <1>13

-----------------------------------------------------------------------------
(* Busses.                                                                 *)

DirOf(dir) == <<Attr(dir, "name"), Number(dir, "eq_channel")>>
DirEntries(s) == [j \in DOMAIN s |-> DirOf(s[j])]
NamedIn(dirs) == {i \in DOMAIN dirs : Attr(dirs[i], "name") # None}

LEMMA EntriesGrow ==
    ASSUME NEW T, NEW s \in Seq(T), NEW x \in T
    PROVE  /\ DirEntries(s) \in Seq({DirOf(y) : y \in T})
           /\ DirEntries(Append(s, x)) = Append(DirEntries(s), DirOf(x))
<1> DEFINE D == {DirOf(y) : y \in T}
           a == DirEntries(s)
           y == DirOf(x)
           r == DirEntries(Append(s, x))
<1>1. DOMAIN s = 1..Len(s) /\ Len(s) \in Nat /\ \A j \in DOMAIN s : s[j] \in T
  OBVIOUS
<1>2. y \in D
  OBVIOUS
<1>3. a \in [1..Len(s) -> D]
  <2>1. \A j \in DOMAIN s : DirOf(s[j]) \in D
    BY <1>1
  <2> HIDE DEF D
  <2> QED BY <1>1, <2>1 DEF DirEntries
<1>4. a \in Seq(D) /\ Len(a) = Len(s)
  <2> HIDE DEF a, D
  <2>1. a \in Seq(D)
    BY <1>1, <1>3
  <2>2. DOMAIN a = 1..Len(s)
    BY <1>3
  <2> QED BY <1>1, <2>1, <2>2
<1>5. DOMAIN Append(s, x) = 1..Len(s) + 1 /\ Append(s, x)[Len(s) + 1] = x
      /\ \A j \in 1..Len(s) : Append(s, x)[j] = s[j]
  BY <1>1
<1>6. DOMAIN r = 1..Len(s) + 1 /\ r[Len(s) + 1] = y
      /\ \A j \in 1..Len(s) : r[j] = a[j]
  BY <1>1, <1>5 DEF DirEntries
<1>7. r = [j \in DOMAIN r |-> r[j]]
  BY DEF DirEntries
<1> HIDE DEF a, y, r, D
<1>8. DOMAIN r = 1..Len(a) + 1 /\ r[Len(a) + 1] = y /\ \A j \in 1..Len(a) : r[j] = a[j]
  BY <1>4, <1>6
<1>9. r = Append(a, y)
  BY <1>2, <1>4, <1>7, <1>8, AppendedIs
<1> QED BY <1>4, <1>9 DEF a, y, r, D

LEMMA LoadDirsIs == \A dirs : LoadDirs(dirs) = DirEntries(At(dirs, NamedIn(dirs)))
<1> SUFFICES ASSUME NEW dirs PROVE LoadDirs(dirs) = DirEntries(At(dirs, NamedIn(dirs)))
  OBVIOUS
<1>1. \A i : ErrNum(dirs[i], <<"name">>) = 0 <=> Attr(dirs[i], "name") # None
  BY ErrNums
<1>2. {i \in DOMAIN dirs : ErrNum(dirs[i], <<"name">>) = 0} = NamedIn(dirs)
  BY <1>1 DEF NamedIn
<1> QED BY <1>2 DEF LoadDirs, DirEntries, DirOf

\* Of a directory more only its name and its channel are taken, if it has a name.
LEMMA DirsGrow ==
    ASSUME NEW T, NEW dirs \in Seq(T), NEW x \in T
    PROVE  /\ LoadDirs(dirs) \in Seq({DirOf(y) : y \in T})
           /\ LoadDirs(Append(dirs, x))
                 = IF Attr(x, "name") # None THEN Append(LoadDirs(dirs), DirOf(x))
                   ELSE LoadDirs(dirs)
<1> DEFINE I == NamedIn(dirs)
           J == NamedIn(Append(dirs, x))
           a == At(dirs, I)
<1>1. /\ DOMAIN Append(dirs, x) = 1..Len(dirs) + 1 /\ Append(dirs, x)[Len(dirs) + 1] = x
      /\ \A j \in 1..Len(dirs) : Append(dirs, x)[j] = dirs[j]
      /\ DOMAIN dirs = 1..Len(dirs) /\ Len(dirs) \in Nat
  OBVIOUS
<1>2. \A j \in 1..Len(dirs) : j \in I <=> j \in J
  <2>1. DOMAIN Append(dirs, x) = 1..Len(dirs) + 1
    BY <1>1
  <2> QED BY <1>1, <2>1 DEF NamedIn
<1>3. Len(dirs) + 1 \in J <=> Attr(x, "name") # None
  BY <1>1 DEF NamedIn
<1> HIDE DEF I, J
<1>4. At(Append(dirs, x), J) = IF Len(dirs) + 1 \in J THEN Append(a, x) ELSE a
  BY <1>2, AtOneMore
<1>5. a \in Seq(T)
  BY AtGrows
<1> HIDE DEF a
<1>6. DirEntries(a) \in Seq({DirOf(y) : y \in T}) /\ DirEntries(Append(a, x)) = Append(DirEntries(a), DirOf(x))
  BY <1>5, EntriesGrow
<1>7. LoadDirs(dirs) = DirEntries(a) /\ LoadDirs(Append(dirs, x)) = DirEntries(At(Append(dirs, x), J))
  BY LoadDirsIs DEF a, I, J
<1>8. CASE Attr(x, "name") # None
  <2>1. At(Append(dirs, x), J) = Append(a, x)
    BY <1>3, <1>4, <1>8
  <2> QED BY <1>6, <1>7, <1>8, <2>1
<1>9. CASE Attr(x, "name") = None
  <2>1. At(Append(dirs, x), J) = a
    BY <1>3, <1>4, <1>9
  <2> QED BY <1>6, <1>7, <1>9, <2>1
<1> QED BY <1>8, <1>9

DirPart(nd) == IF nd.tag = "dir" /\ Attr(nd, "name") # None THEN <<DirOf(nd)>> ELSE <<>>
DirParts(s) == [j \in DOMAIN s |-> DirPart(s[j])]

LEMMA DirPartsGrow ==
    ASSUME NEW T, NEW s \in Seq(T), NEW x \in T
    PROVE  /\ DirParts(s) \in Seq(Seq({DirOf(y) : y \in T}))
           /\ DirParts(Append(s, x)) = Append(DirParts(s), DirPart(x))
           /\ DirPart(x) \in Seq({DirOf(y) : y \in T})
<1> DEFINE D == Seq({DirOf(y) : y \in T})
           a == DirParts(s)
           y == DirPart(x)
           r == DirParts(Append(s, x))
<1>0. ASSUME NEW z \in T PROVE DirPart(z) \in D
  <2> DEFINE E == {DirOf(q) : q \in T}
             e == DirOf(z)
  <2>1. e \in E
    OBVIOUS
  <2> HIDE DEF E, e
  <2>2. <<e>> \in Seq(E) /\ <<>> \in Seq(E)
    BY <2>1
  <2> QED BY <2>2 DEF E, e, DirPart
<1>1. DOMAIN s = 1..Len(s) /\ Len(s) \in Nat /\ \A j \in DOMAIN s : s[j] \in T
  OBVIOUS
<1>2. y \in D
  BY <1>0
<1>3. a \in [1..Len(s) -> D]
  <2>1. \A j \in DOMAIN s : DirPart(s[j]) \in D
    BY <1>0, <1>1
  <2> HIDE DEF D
  <2> QED BY <1>1, <2>1 DEF DirParts
<1>4. a \in Seq(D) /\ Len(a) = Len(s)
  <2> HIDE DEF a, D
  <2>1. a \in Seq(D)
    BY <1>1, <1>3
  <2>2. DOMAIN a = 1..Len(s)
    BY <1>3
  <2> QED BY <1>1, <2>1, <2>2
<1>5. DOMAIN Append(s, x) = 1..Len(s) + 1 /\ Append(s, x)[Len(s) + 1] = x
      /\ \A j \in 1..Len(s) : Append(s, x)[j] = s[j]
  BY <1>1
<1>6. DOMAIN r = 1..Len(s) + 1 /\ r[Len(s) + 1] = y
      /\ \A j \in 1..Len(s) : r[j] = a[j]
  BY <1>1, <1>5 DEF DirParts
<1>7. r = [j \in DOMAIN r |-> r[j]]
  BY DEF DirParts
<1> HIDE DEF a, y, r, D
<1>8. DOMAIN r = 1..Len(a) + 1 /\ r[Len(a) + 1] = y /\ \A j \in 1..Len(a) : r[j] = a[j]
  BY <1>4, <1>6
<1>9. r = Append(a, y)
  BY <1>2, <1>4, <1>7, <1>8, AppendedIs
<1> QED BY <1>2, <1>4, <1>9 DEF a, y, r, D

\* The directories of a bus are those of its children that have a name.
LEMMA DirsAre ==
    ASSUME NEW T, NEW s \in Seq(T)
    PROVE  LoadDirs(At(s, Tagged(s, {"dir"}))) = FlattenSeq(DirParts(s))
<1> DEFINE I == Tagged(s, {"dir"})
           D == {DirOf(y) : y \in T}
           U == {m \in Nat : m <= Len(s) =>
                    LoadDirs(At(SubSeq(s, 1, m), I)) = FlattenSeq(DirParts(SubSeq(s, 1, m)))}
<1>0. Len(s) \in Nat /\ DOMAIN s = 1..Len(s) /\ SubSeq(s, 1, Len(s)) = s /\ SubSeq(s, 1, 0) = <<>>
  BY PrefixFacts
<1>1. 0 \in U
  <2>1. NamedIn(<<>>) = {}
    BY DEF NamedIn
  <2>2. DirEntries(<<>>) = <<>> /\ DirParts(<<>>) = <<>>
    BY DEF DirEntries, DirParts
  <2>3. LoadDirs(At(<<>>, I)) = <<>>
    <3>1. At(<<>>, I) = <<>> /\ At(<<>>, NamedIn(<<>>)) = <<>>
      BY AtNothing
    <3> HIDE DEF I
    <3> QED BY <2>2, <3>1, LoadDirsIs
  <2>4. LoadDirs(At(SubSeq(s, 1, 0), I)) = FlattenSeq(DirParts(SubSeq(s, 1, 0)))
    <3> HIDE DEF I
    <3> QED BY <1>0, <2>2, <2>3, FlattenNone, Zenon
  <2> QED BY <2>4
<1>2. ASSUME NEW m \in Nat, m \in U PROVE m + 1 \in U
  <2>1. SUFFICES ASSUME m + 1 <= Len(s)
                 PROVE  LoadDirs(At(SubSeq(s, 1, m + 1), I)) = FlattenSeq(DirParts(SubSeq(s, 1, m + 1)))
    OBVIOUS
  <2> DEFINE r == SubSeq(s, 1, m)
             a == At(r, I)
  <2>2. PICK x \in T : x = s[m + 1]
    BY <2>1, PrefixFacts
  <2>3. r \in Seq(T) /\ SubSeq(s, 1, m + 1) = Append(r, x) /\ Len(r) = m
    BY <2>1, <2>2, PrefixFacts
  <2>4. m + 1 \in I <=> x.tag = "dir"
    BY <1>0, <2>1, <2>2 DEF Tagged
  <2>5. LoadDirs(a) = FlattenSeq(DirParts(r))
    BY <1>2, <1>0, <2>1
  <2> HIDE DEF I, r
  <2>6. At(Append(r, x), I) = IF m + 1 \in I THEN Append(a, x) ELSE a
    BY <2>3, AtGrows
  <2>7. a \in Seq(T)
    BY <2>3, AtGrows
  <2> HIDE DEF a
  <2>8. /\ LoadDirs(a) \in Seq(D)
        /\ LoadDirs(Append(a, x)) = IF Attr(x, "name") # None THEN Append(LoadDirs(a), DirOf(x))
                                    ELSE LoadDirs(a)
    BY <2>7, DirsGrow
  <2> DEFINE ss == DirParts(r)
             y == DirPart(x)
  <2>9. ss \in Seq(Seq(D)) /\ DirParts(Append(r, x)) = Append(ss, y) /\ y \in Seq(D)
    BY <2>3, DirPartsGrow
  <2> DEFINE u == LoadDirs(a)
  <2>10. u \in Seq(D) /\ u = FlattenSeq(ss)
    BY <2>5, <2>8
  <2> HIDE DEF ss, y, u, D
  <2>11. FlattenSeq(Append(ss, y)) = u \o y
    <3>1. FlattenSeq(ss) \in Seq(D)
      BY <2>10
    <3>2. FlattenSeq(Append(ss, y)) = FlattenSeq(ss) \o y
      BY <2>9, <3>1, FlattenGrows
    <3> QED BY <2>10, <3>2
  <2>12. LoadDirs(At(Append(r, x), I)) = u \o y
    <3> DEFINE e == DirOf(x)
    <3>1. u \o <<e>> = Append(u, e) /\ u \o <<>> = u
      <4> HIDE DEF e
      <4> QED BY <2>10
    <3>2. CASE x.tag = "dir" /\ Attr(x, "name") # None
      <4>1. y = <<e>>
        BY <3>2 DEF y, DirPart
      <4>2. LoadDirs(At(Append(r, x), I)) = Append(u, e)
        <5>1. At(Append(r, x), I) = Append(a, x)
          BY <2>4, <2>6, <3>2
        <5> QED BY <2>8, <3>2, <5>1 DEF u
      <4> HIDE DEF e
      <4> QED BY <3>1, <4>1, <4>2
    <3>3. CASE ~(x.tag = "dir" /\ Attr(x, "name") # None)
      <4>1. y = <<>>
        BY <3>3 DEF y, DirPart
      <4>2. LoadDirs(At(Append(r, x), I)) = u
        <5>1. CASE x.tag = "dir"
          <6>1. At(Append(r, x), I) = Append(a, x)
            BY <2>4, <2>6, <5>1
          <6> QED BY <2>8, <3>3, <5>1, <6>1 DEF u
        <5>2. CASE x.tag # "dir"
          <6>1. At(Append(r, x), I) = a
            BY <2>4, <2>6, <5>2
          <6> QED BY <6>1 DEF u
        <5> QED BY <5>1, <5>2
      <4> HIDE DEF e
      <4> QED BY <3>1, <4>1, <4>2
    <3> QED BY <3>2, <3>3
  <2> QED BY <2>3, <2>9, <2>11, <2>12, Zenon DEF r
<1> HIDE DEF U
<1>3. Len(s) \in U
  BY <1>0, <1>1, <1>2, EveryNat
<1>4. LoadDirs(At(SubSeq(s, 1, Len(s)), I)) = FlattenSeq(DirParts(SubSeq(s, 1, Len(s))))
  BY <1>0, <1>3 DEF U
<1> QED BY <1>0, <1>4

BusFields == {"name", "max_topics", "eq_channel", "dirs", "evq"}
BusLike(s) == DOMAIN s = BusFields /\ s = [x \in BusFields |-> s[x]]

\* load_bus, whatever is in the slot; the queue counts only if there is one.
LEMMA BusRead ==
    ASSUME NEW nd, IsTop(nd), nd.tag = "bus", NEW s, BusLike(s)
    PROVE  LET r == LoadBus(nd, s) IN
           /\ r.err \in Nat /\ (r.err = 0 <=> Loadable(nd))
           /\ BusLike(r.slot)
           /\ UsedOfBus(r.slot, nd) = BusAsWritten(nd)
<1> DEFINE r == LoadBus(nd, s)
           queue == FindChild(nd, "event_queue")
           first == Head(Children(nd, "event_queue"))
           dirs == LoadDirs(Children(nd, "dir"))
           bus == [s EXCEPT !.name = Attr(nd, "name"), !.max_topics = Number(nd, "max_topics"),
                            !.eq_channel = Number(nd, "eq_channel"), !.dirs = dirs]
           evq == <<Number(first, "size"), Number(first, "buffer_size")>>
           queued == Children(nd, "event_queue") # <<>>
           slot == IF queued THEN [bus EXCEPT !.evq = evq] ELSE bus
           err == IF queued THEN ErrNum(first, <<"size", "buffer_size">>)
                  ELSE ErrNum(nd, <<"name", "max_topics">>)
<1>1. AreNodes(nd.subs)
  BY DEF IsTop
<1>2. (queue = None <=> ~queued) /\ (queued => queue = first)
  BY <1>1, ChildFound
<1>3. r.slot = slot /\ r.err = err
  <2> DEFINE b == bus
             w == ErrNum(nd, <<"name", "max_topics">>)
  <2>1. r = IF queue = None THEN [slot |-> b, err |-> w]
            ELSE [slot |-> [b EXCEPT !.evq = <<Number(queue, "size"), Number(queue, "buffer_size")>>],
                  err |-> ErrNum(queue, <<"size", "buffer_size">>)]
    BY DEF LoadBus
  <2>2. slot = (IF queued THEN [b EXCEPT !.evq = evq] ELSE b)
        /\ err = IF queued THEN ErrNum(first, <<"size", "buffer_size">>) ELSE w
    OBVIOUS
  <2> HIDE DEF r, queue, queued, first, b, slot, err, w
  <2> QED BY <1>2, <2>1, <2>2
<1>4. err \in Nat /\ (err = 0 <=> Loadable(nd))
  <2>1. Loadable(nd) <=> IF queued THEN Attr(first, "buffer_size") # None
                         ELSE Attr(nd, "max_topics") # None
    BY DEF Loadable, Given
  <2>2. /\ ErrNum(first, <<"size", "buffer_size">>) \in {0, 1}
        /\ ErrNum(first, <<"size", "buffer_size">>) = 0 <=> Attr(first, "buffer_size") # None
        /\ ErrNum(nd, <<"name", "max_topics">>) \in {0, 1}
        /\ ErrNum(nd, <<"name", "max_topics">>) = 0 <=> Attr(nd, "max_topics") # None
    BY ErrNums
  <2> HIDE DEF first, queued
  <2> QED BY <2>1, <2>2
<1>5. dirs = FlattenSeq(DirParts(nd.subs))
  BY <1>1, DirsAre DEF AreNodes, Children
<1>6. /\ BusLike(slot)
      /\ slot.name = Attr(nd, "name") /\ slot.max_topics = Number(nd, "max_topics")
      /\ slot.eq_channel = Number(nd, "eq_channel") /\ slot.dirs = dirs
      /\ queued => slot.evq = evq
  <2> HIDE DEF dirs, evq, queued
  <2> QED BY DEF BusLike, BusFields
<1>7. UsedOfBus(slot, nd) = BusAsWritten(nd)
  <2> DEFINE e == IF Children(nd, "event_queue") = <<>> THEN <<>> ELSE evq
             w == [name |-> Attr(nd, "name"), max_topics |-> Number(nd, "max_topics"),
                   eq_channel |-> Number(nd, "eq_channel"), dirs |-> dirs, evq |-> e]
             g == IF Children(nd, "event_queue") = <<>> THEN <<>> ELSE slot.evq
  <2>1. BusAsWritten(nd) = w
    <3>1. dirs = FlattenSeq([j \in DOMAIN nd.subs |->
                  IF nd.subs[j].tag = "dir" /\ Attr(nd.subs[j], "name") # None
                  THEN << <<Attr(nd.subs[j], "name"), Number(nd.subs[j], "eq_channel")>> >>
                  ELSE <<>>])
      BY <1>5 DEF DirParts, DirPart, DirOf
    <3> HIDE DEF dirs
    <3> QED BY <3>1 DEF BusAsWritten
  <2>2. UsedOfBus(slot, nd) = [slot EXCEPT !.evq = g]
    <3> HIDE DEF slot
    <3> QED BY DEF UsedOfBus
  <2>3. g = e
    BY <1>6
  <2> HIDE DEF slot, dirs, e, g
  <2>4. [slot EXCEPT !.evq = e] = w
    BY <1>6 DEF BusLike, BusFields
  <2> QED BY <2>1, <2>2, <2>3, <2>4
<1> HIDE DEF r, slot, err
<1> QED BY <1>3, <1>4, <1>6, <1>7 DEF r

-----------------------------------------------------------------------------
(* Services.                                                               *)

\* load_service writes all of its slot.
LEMMA ServiceRead ==
    ASSUME NEW nd, IsTop(nd), nd.tag = "service", NEW s
    PROVE  LET r == LoadService(nd, s) IN
           /\ r.err \in Nat /\ (r.err = 0 <=> Loadable(nd))
           /\ r.slot = ServiceAsWritten(nd)
<1> DEFINE r == LoadService(nd, s)
           Refused == {j \in DOMAIN nd.subs : ParamsErr(nd.subs[j]) > 0}
           a == At(nd.subs, Refused)
           e == ErrNum(nd, <<"name", "type">>)
<1>1. r.slot = ServiceAsWritten(nd) /\ r.err = e + Len(a)
  BY DEF LoadService, ServiceAsWritten, Params
<1>2. nd.subs \in Seq(Range(nd.subs))
  BY DEF IsTop, AreNodes
<1>3. Len(a) \in Nat /\ (Len(a) = 0 <=> \A j \in DOMAIN nd.subs : j \notin Refused)
  <2>1. a \in Seq(Range(nd.subs))
    <3>1. CASE Range(nd.subs) = {}
      <4>1. a \in Seq({nd.subs[i] : i \in Refused \cap DOMAIN nd.subs})
        BY <1>2, AtElements
      <4>2. {nd.subs[i] : i \in Refused \cap DOMAIN nd.subs} \subseteq Range(nd.subs)
        BY DEF Range
      <4> HIDE DEF a, Refused
      <4> QED BY <4>1, <4>2
    <3>2. CASE Range(nd.subs) # {}
      <4>1. PICK x : x \in Range(nd.subs)
        BY <3>2
      <4> QED BY <1>2, <4>1, AtGrows
    <3> QED BY <3>1, <3>2
  <2>2. a = <<>> <=> \A j \in DOMAIN nd.subs : j \notin Refused
    BY <1>2, AtNone
  <2> HIDE DEF a, Refused
  <2>3. Len(a) \in Nat /\ (Len(a) = 0 <=> a = <<>>)
    BY <2>1
  <2> QED BY <2>2, <2>3
<1>4. \A c : ParamsErr(c) > 0 <=> ~Given(c, DOMAIN c.attrs)
  BY DEF ParamsErr, Given, Attr
<1>5. e \in {0, 1} /\ (e = 0 <=> Attr(nd, "type") # None)
  BY ErrNums
<1>6. Loadable(nd) <=> e = 0 /\ \A j \in DOMAIN nd.subs : j \notin Refused
  <2>1. Loadable(nd) <=> /\ Attr(nd, "type") # None
                         /\ \A j \in DOMAIN nd.subs : Given(nd.subs[j], DOMAIN nd.subs[j].attrs)
    BY DEF Loadable, Given
  <2>2. \A j \in DOMAIN nd.subs : j \notin Refused <=> Given(nd.subs[j], DOMAIN nd.subs[j].attrs)
    BY <1>4
  <2> HIDE DEF e, Refused
  <2> QED BY <1>5, <2>1, <2>2
<1> HIDE DEF r, e, a, Refused
<1>7. r.err \in Nat /\ (r.err = 0 <=> e = 0 /\ Len(a) = 0)
  BY <1>1, <1>3, <1>5
<1> QED BY <1>1, <1>3, <1>6, <1>7 DEF r

-----------------------------------------------------------------------------
(* The tables.  They hold the loadable nodes among those read, unless      *)
(* reading one crashed.                                                    *)

IsSeq(s) == s \in Seq(Range(s))

LoadedUpTo(m, tags) ==
    At(SubSeq(doc.nodes, 1, m), {i \in Tagged(doc.nodes, tags) : Loadable(doc.nodes[i])})

TasksMatch(s, ns) ==
    IsSeq(s) /\ Len(s) = Len(ns) /\ \A j \in 1..Len(s) : UsedOfTask(s[j]) = TaskAsWritten(ns[j])
BussesMatch(s, ns) ==
    IsSeq(s) /\ Len(s) = Len(ns) /\ \A j \in 1..Len(s) : UsedOfBus(s[j], ns[j]) = BusAsWritten(ns[j])
ServicesMatch(s, ns) ==
    IsSeq(s) /\ Len(s) = Len(ns) /\ \A j \in 1..Len(s) : s[j] = ServiceAsWritten(ns[j])

TablesMatch ==
    result # "crash" =>
        /\ TasksMatch(tasks, LoadedUpTo(read, {"task", "bridge"}))
        /\ BussesMatch(busses, LoadedUpTo(read, {"bus"}))
        /\ ServicesMatch(services, LoadedUpTo(read, {"service"}))

LoaderTypeOK ==
    /\ doc \in Documents
    /\ read \in 0..Len(doc.nodes)
    /\ result \in {"none", "loading", "ok", "loaderr", "crash"}
    /\ Fresh(freeTask) /\ BusLike(freeBus)
    /\ IsSeq(tasks) /\ IsSeq(busses) /\ IsSeq(services)

Whole == doc.parses /\ doc.root = "swsys" /\ \A i \in DOMAIN doc.nodes : Complete(doc.nodes[i])

NodesUpTo(m) == At(SubSeq(doc.nodes, 1, m), Tagged(doc.nodes, Tags))

WholeInv ==
    /\ result = "ok" => read = Len(doc.nodes)
    /\ Whole =>
          /\ result \in {"none", "loading", "ok"}
          /\ Len(busses) + Len(tasks) + Len(services) = Len(NodesUpTo(read))

LEMMA SeqMore ==
    ASSUME NEW s, IsSeq(s), NEW e
    PROVE  /\ IsSeq(Append(s, e)) /\ Len(s) \in Nat /\ Len(Append(s, e)) = Len(s) + 1
           /\ Append(s, e)[Len(s) + 1] = e
           /\ \A j \in 1..Len(s) : Append(s, e)[j] = s[j]
<1> DEFINE S == Range(s) \cup {e}
           r == Append(s, e)
<1>1. s \in Seq(S)
  <2>1. s \in Seq(Range(s))
    BY DEF IsSeq
  <2> QED BY <2>1
<1>2. e \in S
  OBVIOUS
<1> HIDE DEF S
<1>3. r \in Seq(S) /\ Len(s) \in Nat /\ Len(r) = Len(s) + 1 /\ DOMAIN r = 1..Len(s) + 1
      /\ r[Len(s) + 1] = e /\ \A j \in 1..Len(s) : r[j] = s[j]
  BY <1>1, <1>2
<1>4. IsSeq(r)
  <2> HIDE DEF r
  <2>1. \A j \in DOMAIN r : r[j] \in Range(r)
    BY DEF Range
  <2>2. DOMAIN r = 1..Len(r) /\ Len(r) \in Nat
    BY <1>3
  <2>3. \A S2 : (\A j \in 1..Len(r) : r[j] \in S2) => r \in Seq(S2)
    BY <1>3, <2>2
  <2> QED BY <2>1, <2>2, <2>3 DEF IsSeq
<1> QED BY <1>3, <1>4

LEMMA TasksMatchMore ==
    ASSUME NEW s, NEW T, NEW ns \in Seq(T), TasksMatch(s, ns),
           NEW slot, NEW nd \in T, UsedOfTask(slot) = TaskAsWritten(nd)
    PROVE  TasksMatch(Append(s, slot), Append(ns, nd))
<1> DEFINE r == Append(s, slot)
           rs == Append(ns, nd)
<1>1. /\ IsSeq(s) /\ Len(s) = Len(ns)
      /\ \A j \in 1..Len(s) : UsedOfTask(s[j]) = TaskAsWritten(ns[j])
  BY DEF TasksMatch
<1>2. /\ IsSeq(r) /\ Len(s) \in Nat /\ Len(r) = Len(s) + 1 /\ r[Len(s) + 1] = slot
      /\ \A j \in 1..Len(s) : r[j] = s[j]
  BY <1>1, SeqMore
<1>3. Len(rs) = Len(ns) + 1 /\ rs[Len(ns) + 1] = nd /\ \A j \in 1..Len(ns) : rs[j] = ns[j]
  OBVIOUS
<1> HIDE DEF r, rs
<1>4. ASSUME NEW j \in 1..Len(r) PROVE UsedOfTask(r[j]) = TaskAsWritten(rs[j])
  <2>1. CASE j \in 1..Len(s)
    BY <1>1, <1>2, <1>3, <2>1
  <2>2. CASE j = Len(s) + 1
    BY <1>1, <1>2, <1>3, <2>2
  <2> QED BY <1>2, <2>1, <2>2
<1>5. TasksMatch(r, rs)
  BY <1>1, <1>2, <1>3, <1>4 DEF TasksMatch
<1> QED BY <1>5 DEF r, rs

LEMMA BussesMatchMore ==
    ASSUME NEW s, NEW T, NEW ns \in Seq(T), BussesMatch(s, ns),
           NEW slot, NEW nd \in T, UsedOfBus(slot, nd) = BusAsWritten(nd)
    PROVE  BussesMatch(Append(s, slot), Append(ns, nd))
<1> DEFINE r == Append(s, slot)
           rs == Append(ns, nd)
<1>1. /\ IsSeq(s) /\ Len(s) = Len(ns)
      /\ \A j \in 1..Len(s) : UsedOfBus(s[j], ns[j]) = BusAsWritten(ns[j])
  BY DEF BussesMatch
<1>2. /\ IsSeq(r) /\ Len(s) \in Nat /\ Len(r) = Len(s) + 1 /\ r[Len(s) + 1] = slot
      /\ \A j \in 1..Len(s) : r[j] = s[j]
  BY <1>1, SeqMore
<1>3. Len(rs) = Len(ns) + 1 /\ rs[Len(ns) + 1] = nd /\ \A j \in 1..Len(ns) : rs[j] = ns[j]
  OBVIOUS
<1> HIDE DEF r, rs
<1>4. ASSUME NEW j \in 1..Len(r) PROVE UsedOfBus(r[j], rs[j]) = BusAsWritten(rs[j])
  <2>1. CASE j \in 1..Len(s)
    BY <1>1, <1>2, <1>3, <2>1
  <2>2. CASE j = Len(s) + 1
    BY <1>1, <1>2, <1>3, <2>2
  <2> QED BY <1>2, <2>1, <2>2
<1>5. BussesMatch(r, rs)
  BY <1>1, <1>2, <1>3, <1>4 DEF BussesMatch
<1> QED BY <1>5 DEF r, rs

LEMMA ServicesMatchMore ==
    ASSUME NEW s, NEW T, NEW ns \in Seq(T), ServicesMatch(s, ns),
           NEW slot, NEW nd \in T, slot = ServiceAsWritten(nd)
    PROVE  ServicesMatch(Append(s, slot), Append(ns, nd))
<1> DEFINE r == Append(s, slot)
           rs == Append(ns, nd)
<1>1. /\ IsSeq(s) /\ Len(s) = Len(ns)
      /\ \A j \in 1..Len(s) : s[j] = ServiceAsWritten(ns[j])
  BY DEF ServicesMatch
<1>2. /\ IsSeq(r) /\ Len(s) \in Nat /\ Len(r) = Len(s) + 1 /\ r[Len(s) + 1] = slot
      /\ \A j \in 1..Len(s) : r[j] = s[j]
  BY <1>1, SeqMore
<1>3. Len(rs) = Len(ns) + 1 /\ rs[Len(ns) + 1] = nd /\ \A j \in 1..Len(ns) : rs[j] = ns[j]
  OBVIOUS
<1> HIDE DEF r, rs
<1>4. ASSUME NEW j \in 1..Len(r) PROVE r[j] = ServiceAsWritten(rs[j])
  <2>1. CASE j \in 1..Len(s)
    BY <1>1, <1>2, <1>3, <2>1
  <2>2. CASE j = Len(s) + 1
    BY <1>1, <1>2, <1>3, <2>2
  <2> QED BY <1>2, <2>1, <2>2
<1>5. ServicesMatch(r, rs)
  BY <1>1, <1>2, <1>3, <1>4 DEF ServicesMatch
<1> QED BY <1>5 DEF r, rs

\* One node more has been read.
LEMMA OneNodeMore ==
    ASSUME doc \in Documents, read \in Nat, read < Len(doc.nodes)
    PROVE  /\ IsTop(Node) /\ Node \in Range(doc.nodes) /\ read + 1 \in DOMAIN doc.nodes
           /\ \A tags :
                 /\ LoadedUpTo(read, tags) \in Seq(Range(doc.nodes))
                 /\ LoadedUpTo(read + 1, tags)
                       = IF Node.tag \in tags /\ Loadable(Node)
                         THEN Append(LoadedUpTo(read, tags), Node) ELSE LoadedUpTo(read, tags)
           /\ NodesUpTo(read) \in Seq(Range(doc.nodes))
           /\ NodesUpTo(read + 1) = IF Node.tag \in Tags THEN Append(NodesUpTo(read), Node)
                                    ELSE NodesUpTo(read)
<1> DEFINE nodes == doc.nodes
           R == Range(doc.nodes)
<1>1. /\ nodes \in Seq(R) /\ \A x \in R : IsNode(x)
      /\ \A x \in R : AreNodes(x.subs) /\ \A c \in Range(x.subs) : AreNodes(c.subs)
  BY LoaderAssumption DEF AreNodes
<1>2. read + 1 \in DOMAIN nodes /\ read + 1 <= Len(nodes) /\ Node = nodes[read + 1]
  <2> HIDE DEF R
  <2>1. DOMAIN nodes = 1..Len(nodes) /\ Len(nodes) \in Nat
    BY <1>1
  <2> QED BY <2>1 DEF Node
<1>3. Node \in R
  BY <1>2 DEF Range
<1>4. IsTop(Node)
  BY <1>1, <1>3 DEF IsTop
<1> HIDE DEF R, nodes
<1>5. ASSUME NEW places
      PROVE  /\ At(SubSeq(nodes, 1, read), places) \in Seq(R)
             /\ At(SubSeq(nodes, 1, read + 1), places)
                   = IF read + 1 \in places THEN Append(At(SubSeq(nodes, 1, read), places), Node)
                     ELSE At(SubSeq(nodes, 1, read), places)
  <2>1. SubSeq(nodes, 1, read) \in Seq(R)
    BY <1>1, <1>2, PrefixFacts
  <2>2. At(SubSeq(nodes, 1, read), places) \in Seq(R)
    <3> DEFINE r == SubSeq(nodes, 1, read)
    <3> HIDE DEF r
    <3>1. At(r, places) \in Seq(R)
      BY <1>3, <2>1, AtGrows DEF r
    <3> QED BY <3>1 DEF r
  <2>3. At(SubSeq(nodes, 1, read + 1), places)
           = IF read + 1 \in places THEN Append(At(SubSeq(nodes, 1, read), places), nodes[read + 1])
             ELSE At(SubSeq(nodes, 1, read), places)
    BY <1>1, <1>2, AtPrefix
  <2> QED BY <1>2, <2>2, <2>3
<1>6. ASSUME NEW tags
      PROVE  read + 1 \in {i \in Tagged(nodes, tags) : Loadable(nodes[i])}
                <=> Node.tag \in tags /\ Loadable(Node)
  BY <1>2 DEF Tagged
<1>7. read + 1 \in Tagged(nodes, Tags) <=> Node.tag \in Tags
  BY <1>2 DEF Tagged
<1>8. ASSUME NEW tags
      PROVE  /\ LoadedUpTo(read, tags) \in Seq(R)
             /\ LoadedUpTo(read + 1, tags)
                   = IF Node.tag \in tags /\ Loadable(Node)
                     THEN Append(LoadedUpTo(read, tags), Node) ELSE LoadedUpTo(read, tags)
  BY <1>5, <1>6 DEF LoadedUpTo, nodes
<1>9. /\ NodesUpTo(read) \in Seq(R)
      /\ NodesUpTo(read + 1) = IF Node.tag \in Tags THEN Append(NodesUpTo(read), Node)
                               ELSE NodesUpTo(read)
  BY <1>5, <1>7 DEF NodesUpTo, nodes
<1> QED BY <1>2, <1>3, <1>4, <1>8, <1>9 DEF R, nodes

LEMMA LoaderStart == LoaderInit => LoaderTypeOK /\ TablesMatch /\ WholeInv
<1> SUFFICES ASSUME LoaderInit PROVE LoaderTypeOK /\ TablesMatch /\ WholeInv
  OBVIOUS
<1>1. /\ doc \in Documents /\ result = "none" /\ read = 0
      /\ busses = <<>> /\ tasks = <<>> /\ services = <<>>
      /\ freeBus = ZeroBus /\ freeTask = ZeroTask
  BY DEF LoaderInit
<1>2. IsSeq(<<>>) /\ Len(<<>>) = 0
  BY DEF IsSeq
<1>3. doc.nodes \in Seq(Range(doc.nodes))
  BY <1>1, LoaderAssumption DEF AreNodes
<1>4. 0 \in 0..Len(doc.nodes) /\ SubSeq(doc.nodes, 1, 0) = <<>>
  <2> DEFINE R == Range(doc.nodes)
             nodes == doc.nodes
  <2> HIDE DEF R, nodes
  <2>1. nodes \in Seq(R)
    BY <1>3 DEF R, nodes
  <2>2. 0 \in 0..Len(nodes) /\ SubSeq(nodes, 1, 0) = <<>>
    BY <2>1
  <2> QED BY <2>2 DEF nodes
<1>5. Fresh(ZeroTask) /\ BusLike(ZeroBus)
  BY DEF Fresh, TaskLike, TaskFields, ZeroTask, BusLike, BusFields, ZeroBus
<1>6. LoaderTypeOK
  BY <1>1, <1>2, <1>4, <1>5, Zenon DEF LoaderTypeOK
<1>7. (\A tags : LoadedUpTo(0, tags) = <<>>) /\ NodesUpTo(0) = <<>>
  BY <1>4, AtNothing DEF LoadedUpTo, NodesUpTo
<1>8. TasksMatch(<<>>, <<>>) /\ BussesMatch(<<>>, <<>>) /\ ServicesMatch(<<>>, <<>>)
  BY <1>2 DEF TasksMatch, BussesMatch, ServicesMatch
<1>9. TablesMatch
  BY <1>1, <1>7, <1>8 DEF TablesMatch
<1>10. Len(busses) + Len(tasks) + Len(services) = Len(NodesUpTo(0))
  BY <1>1, <1>2, <1>7
<1>11. WholeInv
  BY <1>1, <1>10 DEF WholeInv
<1> QED BY <1>6, <1>9, <1>11

\* The inductive invariant.
LoaderInv == LoaderTypeOK /\ TablesMatch /\ WholeInv

\* What reading a node has to keep up.
LEMMA NodeRead ==
    ASSUME LoaderInv, NEW tags, ReadNode(tags)
    PROVE  /\ result = "loading" /\ Node.tag \in tags
           /\ doc' = doc /\ read' = read + 1 /\ read' \in 0..Len(doc.nodes)
           /\ IsTop(Node) /\ Node \in Range(doc.nodes)
           /\ (Whole <=> Whole') /\ (Whole => Complete(Node))
           /\ \A ts : /\ LoadedUpTo(read, ts) \in Seq(Range(doc.nodes))
                      /\ LoadedUpTo(read, ts)'
                            = IF Node.tag \in ts /\ Loadable(Node)
                              THEN Append(LoadedUpTo(read, ts), Node) ELSE LoadedUpTo(read, ts)
           /\ NodesUpTo(read) \in Seq(Range(doc.nodes))
           /\ NodesUpTo(read)' = IF Node.tag \in Tags THEN Append(NodesUpTo(read), Node)
                                 ELSE NodesUpTo(read)
<1>1. /\ result = "loading" /\ read < Len(doc.nodes) /\ Node.tag \in tags
      /\ read' = read + 1 /\ doc' = doc
  BY DEF ReadNode, Node
<1>2. doc \in Documents /\ read \in 0..Len(doc.nodes)
  BY DEF LoaderInv, LoaderTypeOK
<1>3. Len(doc.nodes) \in Nat
  <2>1. doc.nodes \in Seq(Range(doc.nodes))
    BY <1>2, LoaderAssumption DEF AreNodes
  <2> DEFINE nodes == doc.nodes
             R == Range(doc.nodes)
  <2> HIDE DEF nodes, R
  <2>2. nodes \in Seq(R)
    BY <2>1 DEF nodes, R
  <2> QED BY <2>2 DEF nodes
<1>4. read \in Nat /\ read + 1 \in 0..Len(doc.nodes)
  BY <1>1, <1>2, <1>3
<1>5. /\ IsTop(Node) /\ Node \in Range(doc.nodes) /\ read + 1 \in DOMAIN doc.nodes
      /\ \A ts :
            /\ LoadedUpTo(read, ts) \in Seq(Range(doc.nodes))
            /\ LoadedUpTo(read + 1, ts)
                  = IF Node.tag \in ts /\ Loadable(Node)
                    THEN Append(LoadedUpTo(read, ts), Node) ELSE LoadedUpTo(read, ts)
      /\ NodesUpTo(read) \in Seq(Range(doc.nodes))
      /\ NodesUpTo(read + 1) = IF Node.tag \in Tags THEN Append(NodesUpTo(read), Node)
                               ELSE NodesUpTo(read)
  BY <1>1, <1>2, <1>4, OneNodeMore
<1>6. /\ \A ts : LoadedUpTo(read, ts)' = LoadedUpTo(read + 1, ts)
      /\ NodesUpTo(read)' = NodesUpTo(read + 1)
  BY <1>1 DEF LoadedUpTo, NodesUpTo
<1>7. (Whole <=> Whole') /\ (Whole => Complete(Node))
  BY <1>1, <1>5 DEF Whole, Node
<1> QED BY <1>1, <1>4, <1>5, <1>6, <1>7

LEMMA LenMore ==
    ASSUME NEW S, NEW s \in Seq(S), NEW x \in S
    PROVE  Len(Append(s, x)) = Len(s) + 1 /\ Len(s) \in Nat
OBVIOUS

\* What reading one node may leave alone, but for those of the table it is for.
LEMMA NotForThem ==
    ASSUME LoaderInv, NEW tags, ReadNode(tags), NEW ts, Node.tag \notin ts \/ ~Loadable(Node)
    PROVE  LoadedUpTo(read, ts)' = LoadedUpTo(read, ts)
BY NodeRead

LEMMA ReadBusStep == LoaderInv /\ ReadBus => LoaderInv'
<1> SUFFICES ASSUME LoaderInv, ReadBus PROVE LoaderInv'
  OBVIOUS
<1> DEFINE r == LoadBus(Node, freeBus)
           ns == LoadedUpTo(read, {"bus"})
           R == Range(doc.nodes)
<1>1. /\ ReadNode({"bus"}) /\ UNCHANGED <<result, tasks, services, freeTask, freeService>>
      /\ busses' = (IF r.err = 0 THEN Append(busses, r.slot) ELSE busses)
      /\ freeBus' = IF r.err = 0 THEN ZeroBus ELSE r.slot
  BY DEF ReadBus
<1>2. /\ result = "loading" /\ Node.tag = "bus" /\ doc' = doc
      /\ read' = read + 1 /\ read' \in 0..Len(doc.nodes)
      /\ IsTop(Node) /\ Node \in R /\ (Whole <=> Whole') /\ (Whole => Complete(Node))
      /\ ns \in Seq(R) /\ ns' = IF Loadable(Node) THEN Append(ns, Node) ELSE ns
      /\ NodesUpTo(read) \in Seq(R) /\ NodesUpTo(read)' = Append(NodesUpTo(read), Node)
  <2>1. "bus" \in Tags
    BY DEF Tags
  <2> QED BY <1>1, <2>1, NodeRead
<1>3. /\ LoaderTypeOK /\ TablesMatch /\ WholeInv /\ BusLike(freeBus)
      /\ IsSeq(busses) /\ IsSeq(tasks) /\ IsSeq(services)
  BY DEF LoaderInv, LoaderTypeOK
<1>4. /\ r.err \in Nat /\ (r.err = 0 <=> Loadable(Node)) /\ BusLike(r.slot)
      /\ UsedOfBus(r.slot, Node) = BusAsWritten(Node)
  BY <1>2, <1>3, BusRead
<1>5. /\ LoadedUpTo(read, {"task", "bridge"})' = LoadedUpTo(read, {"task", "bridge"})
      /\ LoadedUpTo(read, {"service"})' = LoadedUpTo(read, {"service"})
  <2>1. Node.tag \notin {"task", "bridge"} /\ Node.tag \notin {"service"}
    BY <1>2
  <2> QED BY <1>1, <2>1, NotForThem
<1> HIDE DEF r, ns, R
<1>6. LoaderTypeOK'
  <2>1. BusLike(ZeroBus)
    BY DEF BusLike, BusFields, ZeroBus
  <2>2. BusLike(freeBus')
    BY <1>1, <1>4, <2>1
  <2>3. IsSeq(busses')
    BY <1>1, <1>3, SeqMore
  <2> QED BY <1>1, <1>2, <1>3, <2>2, <2>3 DEF LoaderTypeOK
<1>7. TablesMatch'
  <2>1. /\ TasksMatch(tasks, LoadedUpTo(read, {"task", "bridge"})) /\ BussesMatch(busses, ns)
        /\ ServicesMatch(services, LoadedUpTo(read, {"service"}))
    BY <1>2, <1>3 DEF TablesMatch, ns
  <2>2. BussesMatch(busses', ns')
    <3>1. CASE r.err = 0
      <4>1. busses' = Append(busses, r.slot) /\ ns' = Append(ns, Node)
        BY <1>1, <1>2, <1>4, <3>1
      <4> QED BY <1>2, <1>4, <2>1, <4>1, BussesMatchMore
    <3>2. CASE r.err # 0
      BY <1>1, <1>2, <1>4, <2>1, <3>2
    <3> QED BY <3>1, <3>2
  <2> QED BY <1>1, <1>5, <2>1, <2>2 DEF TablesMatch, ns
<1>8. WholeInv'
  <2>1. SUFFICES ASSUME Whole'
                 PROVE  Len(busses') + Len(tasks) + Len(services) = Len(NodesUpTo(read)')
    BY <1>1, <1>2 DEF WholeInv
  <2>2. Complete(Node) /\ Len(busses) + Len(tasks) + Len(services) = Len(NodesUpTo(read))
    BY <1>2, <1>3, <2>1 DEF WholeInv
  <2>3. r.err = 0
    BY <1>2, <1>4, <2>2 DEF Complete, Tags
  <2>4. Len(busses') = Len(busses) + 1 /\ Len(busses) \in Nat /\ Len(tasks) \in Nat
        /\ Len(services) \in Nat
    BY <1>1, <1>3, <2>3, SeqMore
  <2>5. Len(NodesUpTo(read)') = Len(NodesUpTo(read)) + 1
    BY <1>2, LenMore
  <2> QED BY <2>2, <2>4, <2>5
<1> QED BY <1>6, <1>7, <1>8 DEF LoaderInv

LEMMA ReadServiceStep == LoaderInv /\ ReadService => LoaderInv'
<1> SUFFICES ASSUME LoaderInv, ReadService PROVE LoaderInv'
  OBVIOUS
<1> DEFINE r == LoadService(Node, freeService)
           ns == LoadedUpTo(read, {"service"})
           R == Range(doc.nodes)
<1>1. /\ ReadNode({"service"}) /\ UNCHANGED <<result, busses, tasks, freeBus, freeTask>>
      /\ services' = IF r.err = 0 THEN Append(services, r.slot) ELSE services
  BY DEF ReadService
<1>2. /\ result = "loading" /\ Node.tag = "service" /\ doc' = doc
      /\ read' = read + 1 /\ read' \in 0..Len(doc.nodes)
      /\ IsTop(Node) /\ Node \in R /\ (Whole <=> Whole') /\ (Whole => Complete(Node))
      /\ ns \in Seq(R) /\ ns' = IF Loadable(Node) THEN Append(ns, Node) ELSE ns
      /\ NodesUpTo(read) \in Seq(R) /\ NodesUpTo(read)' = Append(NodesUpTo(read), Node)
  <2>1. "service" \in Tags
    BY DEF Tags
  <2> QED BY <1>1, <2>1, NodeRead
<1>3. /\ LoaderTypeOK /\ TablesMatch /\ WholeInv
      /\ IsSeq(busses) /\ IsSeq(tasks) /\ IsSeq(services)
  BY DEF LoaderInv, LoaderTypeOK
<1>4. r.err \in Nat /\ (r.err = 0 <=> Loadable(Node)) /\ r.slot = ServiceAsWritten(Node)
  BY <1>2, ServiceRead
<1>5. /\ LoadedUpTo(read, {"task", "bridge"})' = LoadedUpTo(read, {"task", "bridge"})
      /\ LoadedUpTo(read, {"bus"})' = LoadedUpTo(read, {"bus"})
  <2>1. Node.tag \notin {"task", "bridge"} /\ Node.tag \notin {"bus"}
    BY <1>2
  <2> QED BY <1>1, <2>1, NotForThem
<1> HIDE DEF r, ns, R
<1>6. LoaderTypeOK'
  <2>1. IsSeq(services')
    BY <1>1, <1>3, SeqMore
  <2> QED BY <1>1, <1>2, <1>3, <2>1 DEF LoaderTypeOK
<1>7. TablesMatch'
  <2>1. /\ TasksMatch(tasks, LoadedUpTo(read, {"task", "bridge"}))
        /\ BussesMatch(busses, LoadedUpTo(read, {"bus"})) /\ ServicesMatch(services, ns)
    BY <1>2, <1>3 DEF TablesMatch, ns
  <2>2. ServicesMatch(services', ns')
    <3>1. CASE r.err = 0
      <4>1. services' = Append(services, r.slot) /\ ns' = Append(ns, Node)
        BY <1>1, <1>2, <1>4, <3>1
      <4> QED BY <1>2, <1>4, <2>1, <4>1, ServicesMatchMore
    <3>2. CASE r.err # 0
      BY <1>1, <1>2, <1>4, <2>1, <3>2
    <3> QED BY <3>1, <3>2
  <2> QED BY <1>1, <1>5, <2>1, <2>2 DEF TablesMatch, ns
<1>8. WholeInv'
  <2>1. SUFFICES ASSUME Whole'
                 PROVE  Len(busses) + Len(tasks) + Len(services') = Len(NodesUpTo(read)')
    BY <1>1, <1>2 DEF WholeInv
  <2>2. Complete(Node) /\ Len(busses) + Len(tasks) + Len(services) = Len(NodesUpTo(read))
    BY <1>2, <1>3, <2>1 DEF WholeInv
  <2>3. r.err = 0
    BY <1>2, <1>4, <2>2 DEF Complete, Tags
  <2>4. Len(services') = Len(services) + 1 /\ Len(busses) \in Nat /\ Len(tasks) \in Nat
        /\ Len(services) \in Nat
    BY <1>1, <1>3, <2>3, SeqMore
  <2>5. Len(NodesUpTo(read)') = Len(NodesUpTo(read)) + 1
    BY <1>2, LenMore
  <2> QED BY <2>2, <2>4, <2>5
<1> QED BY <1>6, <1>7, <1>8 DEF LoaderInv

\* A task or a bridge: r is what its loader leaves.
LEMMA TakeTaskStep ==
    ASSUME LoaderInv, NEW tags, tags \subseteq {"task", "bridge"}, ReadNode(tags),
           NEW r, TakeTask(r),
           r.err \in Nat, r.err = 0 <=> Loadable(Node),
           r.err # 0 /\ ~r.crash => Fresh(r.slot),
           r.err = 0 /\ ~r.crash => UsedOfTask(r.slot) = TaskAsWritten(Node),
           Complete(Node) => ~r.crash /\ r.err = 0
    PROVE  LoaderInv'
<1> DEFINE ns == LoadedUpTo(read, {"task", "bridge"})
           R == Range(doc.nodes)
<1>1. /\ result' = (IF r.crash THEN "crash" ELSE result)
      /\ r.crash => UNCHANGED <<tasks, freeTask>>
      /\ ~r.crash => /\ tasks' = IF r.err = 0 THEN Append(tasks, r.slot) ELSE tasks
                     /\ freeTask' = IF r.err = 0 THEN ZeroTask ELSE r.slot
      /\ UNCHANGED <<busses, services, freeBus, freeService>>
  BY DEF TakeTask
<1>2. /\ result = "loading" /\ Node.tag \in {"task", "bridge"} /\ doc' = doc
      /\ read' = read + 1 /\ read' \in 0..Len(doc.nodes)
      /\ IsTop(Node) /\ Node \in R /\ (Whole <=> Whole') /\ (Whole => Complete(Node))
      /\ ns \in Seq(R) /\ ns' = IF Loadable(Node) THEN Append(ns, Node) ELSE ns
      /\ NodesUpTo(read) \in Seq(R) /\ NodesUpTo(read)' = Append(NodesUpTo(read), Node)
  <2>1. Node.tag \in {"task", "bridge"}
    BY NodeRead
  <2>2. Node.tag \in Tags
    BY <2>1 DEF Tags
  <2> QED BY <2>1, <2>2, NodeRead
<1>3. /\ LoaderTypeOK /\ TablesMatch /\ WholeInv /\ Fresh(freeTask)
      /\ IsSeq(busses) /\ IsSeq(tasks) /\ IsSeq(services)
  BY DEF LoaderInv, LoaderTypeOK
<1>4. /\ LoadedUpTo(read, {"bus"})' = LoadedUpTo(read, {"bus"})
      /\ LoadedUpTo(read, {"service"})' = LoadedUpTo(read, {"service"})
  <2>1. Node.tag \notin {"bus"} /\ Node.tag \notin {"service"}
    BY <1>2
  <2> QED BY <2>1, NotForThem
<1> HIDE DEF ns, R
<1>5. LoaderTypeOK'
  <2>1. Fresh(ZeroTask)
    BY DEF Fresh, TaskLike, TaskFields, ZeroTask
  <2>2. Fresh(freeTask')
    BY <1>1, <1>3, <2>1
  <2>3. IsSeq(tasks')
    <3>1. IsSeq(Append(tasks, r.slot))
      BY <1>3, SeqMore
    <3> QED BY <1>1, <1>3, <3>1
  <2>4. result' \in {"none", "loading", "ok", "loaderr", "crash"}
    BY <1>1, <1>2
  <2> QED BY <1>1, <1>2, <1>3, <2>2, <2>3, <2>4 DEF LoaderTypeOK
<1>6. TablesMatch'
  <2>1. SUFFICES ASSUME ~r.crash PROVE TablesMatch'
    BY <1>1 DEF TablesMatch
  <2>2. /\ TasksMatch(tasks, ns) /\ BussesMatch(busses, LoadedUpTo(read, {"bus"}))
        /\ ServicesMatch(services, LoadedUpTo(read, {"service"}))
    BY <1>2, <1>3 DEF TablesMatch, ns
  <2>3. TasksMatch(tasks', ns')
    <3>1. CASE r.err = 0
      <4>1. tasks' = Append(tasks, r.slot) /\ ns' = Append(ns, Node)
            /\ UsedOfTask(r.slot) = TaskAsWritten(Node)
        BY <1>1, <1>2, <2>1, <3>1
      <4> QED BY <1>2, <2>2, <4>1, TasksMatchMore
    <3>2. CASE r.err # 0
      BY <1>1, <1>2, <2>1, <2>2, <3>2
    <3> QED BY <3>1, <3>2
  <2> QED BY <1>1, <1>4, <2>2, <2>3 DEF TablesMatch, ns
<1>7. WholeInv'
  <2>0. result' # "ok"
    BY <1>1, <1>2
  <2>1. SUFFICES ASSUME Whole'
                 PROVE  /\ result' \in {"none", "loading", "ok"}
                        /\ Len(busses') + Len(tasks') + Len(services') = Len(NodesUpTo(read)')
    BY <2>0 DEF WholeInv
  <2>2. Complete(Node) /\ Len(busses) + Len(tasks) + Len(services) = Len(NodesUpTo(read))
    BY <1>2, <1>3, <2>1 DEF WholeInv
  <2>3. r.err = 0 /\ ~r.crash
    BY <2>2
  <2>4. Len(tasks') = Len(tasks) + 1 /\ Len(busses) \in Nat /\ Len(tasks) \in Nat
        /\ Len(services) \in Nat
    BY <1>1, <1>3, <2>3, SeqMore
  <2>5. Len(NodesUpTo(read)') = Len(NodesUpTo(read)) + 1
    BY <1>2, LenMore
  <2> QED BY <1>1, <1>2, <2>2, <2>3, <2>4, <2>5
<1> QED BY <1>5, <1>6, <1>7 DEF LoaderInv

LEMMA LoaderStep == LoaderInv /\ [LoaderNext]_loaderVars => LoaderInv'
<1> SUFFICES ASSUME LoaderInv, [LoaderNext]_loaderVars PROVE LoaderInv'
  OBVIOUS
<1>1. /\ LoaderTypeOK /\ TablesMatch /\ WholeInv /\ Fresh(freeTask)
      /\ doc \in Documents /\ read \in 0..Len(doc.nodes)
  BY DEF LoaderInv, LoaderTypeOK
<1>2. CASE Refuse
  <2>1. /\ result' = "loaderr" /\ ~Whole'
        /\ UNCHANGED <<doc, read, busses, tasks, services, freeBus, freeTask>>
        /\ result = "none"
    BY <1>2 DEF Refuse, Whole
  <2>2. LoaderTypeOK'
    BY <1>1, <2>1 DEF LoaderTypeOK
  <2>3. TablesMatch'
    BY <1>1, <2>1 DEF TablesMatch, LoadedUpTo
  <2>4. WholeInv'
    BY <2>1 DEF WholeInv
  <2> QED BY <2>2, <2>3, <2>4 DEF LoaderInv
<1>3. CASE Begin
  <2>1. /\ result' = "loading" /\ result = "none" /\ (Whole <=> Whole')
        /\ UNCHANGED <<doc, read, busses, tasks, services, freeBus, freeTask>>
    BY <1>3 DEF Begin, Whole
  <2>2. LoaderTypeOK'
    BY <1>1, <2>1 DEF LoaderTypeOK
  <2>3. TablesMatch'
    BY <1>1, <2>1 DEF TablesMatch, LoadedUpTo
  <2>4. WholeInv'
    BY <1>1, <2>1 DEF WholeInv, NodesUpTo
  <2> QED BY <2>2, <2>3, <2>4 DEF LoaderInv
<1>4. CASE ReadBus
  BY <1>4, ReadBusStep
<1>5. CASE ReadTask
  <2> DEFINE r == LoadTask(Node, freeTask)
  <2>1. ReadNode({"task"}) /\ TakeTask(r)
    BY <1>5 DEF ReadTask
  <2>2. IsTop(Node) /\ Node.tag = "task"
    BY <2>1, NodeRead
  <2>3. /\ r.err \in Nat /\ (r.err = 0 <=> Loadable(Node))
        /\ r.err # 0 => ~r.crash /\ Fresh(r.slot)
        /\ r.err = 0 /\ ~r.crash => UsedOfTask(r.slot) = TaskAsWritten(Node)
        /\ Complete(Node) => ~r.crash /\ r.err = 0
    BY <1>1, <2>2, TaskRead
  <2> HIDE DEF r
  <2> QED BY <2>1, <2>3, TakeTaskStep
<1>6. CASE ReadBridge
  <2>1. PICK made \in BOOLEAN : TakeTask(LoadBridge(Node, freeTask, made))
    BY <1>6 DEF ReadBridge
  <2> DEFINE r == LoadBridge(Node, freeTask, made)
  <2>2. ReadNode({"bridge"}) /\ TakeTask(r)
    BY <1>6, <2>1 DEF ReadBridge
  <2>3. IsTop(Node) /\ Node.tag = "bridge"
    BY <2>2, NodeRead
  <2>4. /\ r.err \in Nat /\ (r.err = 0 <=> Loadable(Node))
        /\ r.err # 0 /\ ~r.crash => Fresh(r.slot)
        /\ r.err = 0 /\ ~r.crash => UsedOfTask(r.slot) = TaskAsWritten(Node)
        /\ Complete(Node) => ~r.crash /\ r.err = 0
    BY <1>1, <2>3, BridgeRead
  <2> HIDE DEF r
  <2> QED BY <2>2, <2>4, TakeTaskStep
<1>7. CASE ReadService
  BY <1>7, ReadServiceStep
<1>8. CASE SkipNode
  <2>1. /\ ReadNode({Node.tag}) /\ Node.tag \notin Tags
        /\ UNCHANGED <<result, busses, tasks, services, freeBus, freeTask, freeService>>
    BY <1>8 DEF SkipNode
  <2>2. /\ result = "loading" /\ doc' = doc /\ read' \in 0..Len(doc.nodes)
        /\ (Whole <=> Whole') /\ NodesUpTo(read)' = NodesUpTo(read)
    BY <2>1, NodeRead
  <2>3. /\ LoadedUpTo(read, {"task", "bridge"})' = LoadedUpTo(read, {"task", "bridge"})
        /\ LoadedUpTo(read, {"bus"})' = LoadedUpTo(read, {"bus"})
        /\ LoadedUpTo(read, {"service"})' = LoadedUpTo(read, {"service"})
    <3>1. Node.tag \notin {"task", "bridge"} /\ Node.tag \notin {"bus"} /\ Node.tag \notin {"service"}
      BY <2>1 DEF Tags
    <3> QED BY <2>1, <3>1, NotForThem
  <2>4. LoaderTypeOK'
    BY <1>1, <2>1, <2>2 DEF LoaderTypeOK
  <2>5. TablesMatch'
    BY <1>1, <2>1, <2>3 DEF TablesMatch
  <2>6. WholeInv'
    BY <1>1, <2>1, <2>2 DEF WholeInv
  <2> QED BY <2>4, <2>5, <2>6 DEF LoaderInv
<1>9. CASE End
  <2>1. /\ result' = "ok" /\ result = "loading" /\ read = Len(doc.nodes) /\ (Whole <=> Whole')
        /\ UNCHANGED <<doc, read, busses, tasks, services, freeBus, freeTask>>
    BY <1>9 DEF End, Whole
  <2>2. LoaderTypeOK'
    BY <1>1, <2>1 DEF LoaderTypeOK
  <2>3. TablesMatch'
    BY <1>1, <2>1 DEF TablesMatch, LoadedUpTo
  <2>4. WholeInv'
    BY <1>1, <2>1 DEF WholeInv, NodesUpTo
  <2> QED BY <2>2, <2>3, <2>4 DEF LoaderInv
<1>10. CASE UNCHANGED loaderVars
  <2>1. /\ UNCHANGED <<doc, result, read, busses, tasks, services, freeBus, freeTask>>
        /\ (Whole <=> Whole')
    BY <1>10 DEF loaderVars, Whole
  <2>2. LoaderTypeOK'
    BY <1>1, <2>1 DEF LoaderTypeOK
  <2>3. TablesMatch'
    BY <1>1, <2>1 DEF TablesMatch, LoadedUpTo
  <2>4. WholeInv'
    BY <1>1, <2>1 DEF WholeInv, NodesUpTo
  <2> QED BY <2>2, <2>3, <2>4 DEF LoaderInv
<1> QED BY <1>2, <1>3, <1>4, <1>5, <1>6, <1>7, <1>8, <1>9, <1>10 DEF LoaderNext

LEMMA LoaderAlways == LoaderSpec => []LoaderInv
<1>1. LoaderInit => LoaderInv
  BY LoaderStart DEF LoaderInv
<1> QED BY <1>1, LoaderStep, PTL DEF LoaderSpec

\* For any documents that are trees of nodes, however their attributes are
\* missing or repeated, and whichever nodes are refused: LoadedAsWritten
\* (swsys_load and the loaders of a bus, a task, a bridge and a service).
THEOREM TablesAreAsWritten == LoaderSpec => []LoadedAsWritten
<1>1. LoaderInv => LoadedAsWritten
  <2> SUFFICES ASSUME LoaderInv, result \in {"loading", "ok"} PROVE LoadedAsWritten
    BY DEF LoadedAsWritten
  <2> DEFINE Loaded(tags) == LoadedUpTo(read, tags)
             ofTask == Loaded({"task", "bridge"})
             ofBus == Loaded({"bus"})
             ofService == Loaded({"service"})
  <2>1. TasksMatch(tasks, ofTask) /\ BussesMatch(busses, ofBus) /\ ServicesMatch(services, ofService)
    BY DEF LoaderInv, TablesMatch
  <2>2. doc \in Documents /\ doc.nodes \in Seq(Range(doc.nodes)) /\ read \in 0..Len(doc.nodes)
    BY LoaderAssumption DEF LoaderInv, LoaderTypeOK, AreNodes
  <2>3. \A tags : DOMAIN Loaded(tags) = 1..Len(Loaded(tags))
    <3> SUFFICES ASSUME NEW tags PROVE DOMAIN Loaded(tags) = 1..Len(Loaded(tags))
      OBVIOUS
    <3> DEFINE nodes == doc.nodes
               R == Range(doc.nodes)
               I == {i \in Tagged(doc.nodes, tags) : Loadable(doc.nodes[i])}
               s == SubSeq(nodes, 1, read)
               a == At(s, I)
    <3> HIDE DEF nodes, R, I
    <3>1. s \in Seq(R)
      <4>1. nodes \in Seq(R) /\ read \in 0..Len(nodes)
        BY <2>2 DEF nodes, R
      <4> QED BY <4>1
    <3> HIDE DEF s
    <3> DEFINE S == {s[i] : i \in I \cap DOMAIN s}
    <3>2. a \in Seq(S)
      BY <3>1, AtElements
    <3> HIDE DEF a, S
    <3>3. DOMAIN a = 1..Len(a)
      BY <3>2
    <3> QED BY <3>3 DEF a, s, I, nodes, LoadedUpTo
  <2>4. \A x : IsSeq(x) => DOMAIN x = 1..Len(x)
    BY DEF IsSeq
  <2> HIDE DEF Loaded
  <2>5. [j \in DOMAIN tasks |-> UsedOfTask(tasks[j])]
           = [j \in DOMAIN ofTask |-> TaskAsWritten(ofTask[j])]
    <3>1. DOMAIN tasks = 1..Len(tasks) /\ DOMAIN ofTask = 1..Len(tasks)
      BY <2>1, <2>3, <2>4 DEF TasksMatch
    <3>2. \A j \in 1..Len(tasks) : UsedOfTask(tasks[j]) = TaskAsWritten(ofTask[j])
      BY <2>1 DEF TasksMatch
    <3> HIDE DEF ofTask
    <3> QED BY <3>1, <3>2
  <2>6. services = [j \in DOMAIN ofService |-> ServiceAsWritten(ofService[j])]
    <3>1. /\ DOMAIN services = 1..Len(services) /\ DOMAIN ofService = 1..Len(services)
          /\ services = [j \in DOMAIN services |-> services[j]]
      <4>1. services \in Seq(Range(services))
        BY <2>1 DEF ServicesMatch, IsSeq
      <4>2. \A S, x : x \in Seq(S) => x = [j \in DOMAIN x |-> x[j]]
        OBVIOUS
      <4>3. services = [j \in DOMAIN services |-> services[j]]
        BY <4>1, <4>2, Zenon
      <4> QED BY <2>1, <2>3, <2>4, <4>3 DEF ServicesMatch
    <3>2. \A j \in 1..Len(services) : services[j] = ServiceAsWritten(ofService[j])
      BY <2>1 DEF ServicesMatch
    <3> HIDE DEF ofService
    <3> QED BY <3>1, <3>2
  <2>7. /\ Len(busses) = Len(ofBus)
        /\ [j \in DOMAIN busses |-> UsedOfBus(busses[j], ofBus[j])]
              = [j \in DOMAIN ofBus |-> BusAsWritten(ofBus[j])]
    <3>1. DOMAIN busses = 1..Len(busses) /\ DOMAIN ofBus = 1..Len(busses) /\ Len(busses) = Len(ofBus)
      BY <2>1, <2>3, <2>4 DEF BussesMatch
    <3>2. \A j \in 1..Len(busses) : UsedOfBus(busses[j], ofBus[j]) = BusAsWritten(ofBus[j])
      BY <2>1 DEF BussesMatch
    <3> HIDE DEF ofBus
    <3> QED BY <3>1, <3>2
  <2> QED BY <2>5, <2>6, <2>7 DEF LoadedAsWritten, LoadedUpTo, Loaded
<1> QED BY <1>1, LoaderAlways, PTL

\* For any such documents: WholeDocumentsLoadWhole (nothing that is complete
\* is refused or makes swsys_load crash, and none of it is lost).
THEOREM WholeIsLoadedWhole == LoaderSpec => []WholeDocumentsLoadWhole
<1>1. LoaderInv => WholeDocumentsLoadWhole
  <2> SUFFICES ASSUME LoaderInv, Whole
               PROVE  /\ result \in {"none", "loading", "ok"}
                      /\ result = "ok" => Len(busses) + Len(tasks) + Len(services)
                                             = Len(NodesOf(doc, Tags))
    BY DEF WholeDocumentsLoadWhole, Whole
  <2>1. /\ result \in {"none", "loading", "ok"}
        /\ result = "ok" => read = Len(doc.nodes)
        /\ Len(busses) + Len(tasks) + Len(services) = Len(NodesUpTo(read))
    BY DEF LoaderInv, WholeInv
  <2>2. SubSeq(doc.nodes, 1, Len(doc.nodes)) = doc.nodes
    <3>1. doc.nodes \in Seq(Range(doc.nodes))
      BY LoaderAssumption DEF LoaderInv, LoaderTypeOK, AreNodes
    <3> QED BY <3>1, PrefixFacts
  <2>3. read = Len(doc.nodes) => NodesUpTo(read) = NodesOf(doc, Tags)
    BY <2>2 DEF NodesUpTo, NodesOf
  <2> QED BY <2>1, <2>3
<1> QED BY <1>1, LoaderAlways, PTL
=============================================================================

-------------------------- MODULE TransitionLists ---------------------------
(***************************************************************************)
(* How the transitions of a machine get into the lists of its states       *)
(* (load_transition in fsminst/fsminst_parser_xml.c, fsm_add_transition    *)
(* and ADD_TO_LIST in fsminst/fsmlib/fsm.c).  A transition is one object   *)
(* with one next pointer, and is appended to the list of every state its   *)
(* from attribute names: lists that got a common transition are one from   *)
(* there on.                                                               *)
(*                                                                         *)
(* Transitions have a condition and a known target here.  Without, the     *)
(* pointer that load_transition appends is uninitialised.                  *)
(***************************************************************************)
EXTENDS Naturals, Sequences

CONSTANTS States,
          N,       \* how many transitions the machine has, in document order
          Configs  \* their from attributes

Transitions == 1..N
NoNode == 0

ASSUME ListsAssumption ==
    /\ N \in Nat \ {0}
    /\ Configs \subseteq [Transitions -> Seq(States)]

VARIABLES from, \* the from attributes
          head, \* state_t.active_transitions
          next, \* transition_t.next
          t,    \* the transition being loaded, N + 1 when all are
          k,    \* the name of its from attribute that is being treated
          n     \* the list node ADD_TO_LIST has come to, NoNode before

listsVars == <<from, head, next, t, k, n>>

TypeOK ==
    /\ from \in Configs
    /\ head \in [States -> Transitions \cup {NoNode}]
    /\ next \in [Transitions -> Transitions \cup {NoNode}]
    /\ t \in 1..N + 1
    /\ k \in Nat \ {0}
    /\ t <= N => k <= Len(from[t]) + 1
    /\ n \in Transitions \cup {NoNode}
    /\ n # NoNode => t <= N /\ k <= Len(from[t])

ListsInit ==
    /\ from \in Configs
    /\ head = [s \in States |-> NoNode]
    /\ next = [u \in Transitions |-> NoNode]
    /\ t = 1
    /\ k = 1
    /\ n = NoNode

-----------------------------------------------------------------------------
Adding == t <= N /\ k <= Len(from[t])

\* The state whose list the transition is added to.
Source == from[t][k]

\* The next name of the from attribute; the loop variable n is gone.
NextName == k' = k + 1 /\ n' = NoNode

\* The list is empty.
AddFirst ==
    /\ Adding
    /\ n = NoNode
    /\ head[Source] = NoNode
    /\ head' = [head EXCEPT ![Source] = t]
    /\ NextName
    /\ UNCHANGED <<from, next, t>>

BeginWalk ==
    /\ Adding
    /\ n = NoNode
    /\ head[Source] # NoNode
    /\ n' = head[Source]
    /\ UNCHANGED <<from, head, next, t, k>>

\* As if the loop did not move on.
StandingWalk ==
    /\ n # NoNode
    /\ next[n] # NoNode
    /\ n' = head[Source]
    /\ UNCHANGED <<from, head, next, t, k>>

Walk ==
    /\ n # NoNode
    /\ next[n] # NoNode
    /\ n' = next[n]
    /\ UNCHANGED <<from, head, next, t, k>>

\* As if new nodes went in front of the list.
PrependingLink ==
    /\ n # NoNode
    /\ next[n] = NoNode
    /\ head' = [head EXCEPT ![Source] = t]
    /\ next' = [next EXCEPT ![t] = head[Source]]
    /\ NextName
    /\ UNCHANGED <<from, t>>

Link ==
    /\ n # NoNode
    /\ next[n] = NoNode
    /\ next' = [next EXCEPT ![n] = t]
    /\ NextName
    /\ UNCHANGED <<from, head, t>>

NextTransition ==
    /\ t <= N
    /\ k > Len(from[t])
    /\ t' = t + 1
    /\ k' = 1
    /\ UNCHANGED <<from, head, next, n>>

ListsNext == AddFirst \/ BeginWalk \/ Walk \/ Link \/ NextTransition

ListsSpec == ListsInit /\ [][ListsNext]_listsVars

ListsFairSpec == ListsSpec /\ WF_listsVars(ListsNext)

-----------------------------------------------------------------------------
(* Properties.                                                             *)

Sources(u) == {from[u][j] : j \in DOMAIN from[u]}

\* Transition u has been added to the list of state s.
Added(u, s) == \E j \in DOMAIN from[u] : from[u][j] = s /\ (u < t \/ (u = t /\ j < k))

\* C holds the list of s: what a walk along it meets is in C.
Holds(C, s) ==
    /\ head[s] # NoNode => head[s] \in C
    /\ \A u \in C : next[u] # NoNode => next[u] \in C

\* A transition that was added to the list of a state is found there ever
\* after, whatever is added to that and other lists and however they share
\* their nodes (ADD_TO_LIST only writes to the end of a list).
NothingLost ==
    \A s \in States, u \in Transitions : Added(u, s) =>
        \A C \in SUBSET Transitions : Holds(C, s) => u \in C

\* No state is named twice by a from attribute, nor by two that name others too.
Disjoint ==
    /\ \A u \in Transitions : \A i, j \in DOMAIN from[u] : from[u][i] = from[u][j] => i = j
    /\ \A u, v \in Transitions :
          u # v /\ Len(from[u]) > 1 /\ Len(from[v]) > 1 => Sources(u) \cap Sources(v) = {}

Together(s, r) == s = r \/ \E u \in Transitions : {s, r} \subseteq Sources(u)

\* If so, only states that have a transition in common get to try each other's
\* transitions; without such transitions each state tries its own only.
GroupsKeepApart ==
    Disjoint => \A u \in Transitions : next[u] # NoNode =>
        \E s \in Sources(u), r \in Sources(next[u]) : Together(s, r)

\* If so, a state tries its transitions in the order of the document, which is
\* their priority in fsm_do_update, and trying them comes to an end.
DocumentOrder == Disjoint => \A u \in Transitions : next[u] # NoNode => next[u] > u

\* If so, loading the machine ends.
MachineLoadingEnds == Disjoint => <>(t = N + 1)
=============================================================================

------------------------- MODULE MCTransitionLists --------------------------
(***************************************************************************)
(* TransitionLists for every machine of three states and four transitions  *)
(* from one or two states each, the same state twice included.             *)
(***************************************************************************)
EXTENDS TransitionLists

FromAttributes == UNION {[1..l -> States] : l \in 1..2}
AllConfigs == [1..N -> FromAttributes]
=============================================================================

----------------------------- MODULE IbrProofs -----------------------------
(***************************************************************************)
(* Proofs about the interface bridges for every number of processes, every *)
(* message, bus and pool, and any number of datagrams and updates.         *)
(***************************************************************************)
EXTENDS IbrProcess, TLAPS

\* Where the field after the first n of process p begins.
EndOf(p, n) == IF n = 0 THEN 0 ELSE dstMsg[p][n].offset + dstMsg[p][n].width

\* The first n fields of process p are those of its message, end to end.
LaidOut(p, n) ==
    /\ Len(dstMsg[p]) = n
    /\ \A j \in 1..n : /\ dstMsg[p][j].name = Msg(p)[j].name
                       /\ dstMsg[p][j].width = Msg(p)[j].width
                       /\ dstMsg[p][j].offset = EndOf(p, j - 1)
    /\ size[p] = EndOf(p, n)

MsgInv ==
    /\ phase = "load" =>
         /\ k <= Len(Msg(i)) + 1
         /\ LaidOut(i, k - 1)
         /\ offset = size[i]
         /\ \A q \in 1..i - 1 : LaidOut(q, Len(Msg(q)))
         /\ \A q \in i + 1..N : dstMsg[q] = <<>> /\ size[q] = 0
    /\ phase \in {"inputs", "bridge", "run"} => \A q \in Procs : LaidOut(q, Len(Msg(q)))

\* Bridge b has the topics of the first n fields of process p that are there,
\* and lies within them if none is wider than its field.
BridgeOf(b, p, n) ==
    /\ {b.topics[t].name : t \in DOMAIN b.topics}
         = {x \in Names : /\ sys.topic[x].kind = "value"
                          /\ \E f \in 1..n : dstMsg[p][f].name = x}
    /\ \A t \in DOMAIN b.topics : b.topics[t].offset + b.topics[t].width <= b.size
    /\ (\A f \in 1..n : sys.topic[dstMsg[p][f].name].kind = "value" =>
                           sys.topic[dstMsg[p][f].name].width <= dstMsg[p][f].width)
         => b.size <= EndOf(p, n)

SourceInv ==
    /\ phase = "load" => errs = 0
    /\ phase \in {"load", "inputs", "bridge"} => \A q \in i..N : descr[q] = 0 \/ phase = "load"
    /\ phase = "load" => \A q \in Procs : descr[q] = 0
    /\ phase \in {"inputs", "bridge"} /\ errs = 0 => \A q \in 1..i - 1 : descr[q] # 0
    /\ phase = "run" => \A q \in Procs : descr[q] # 0
    /\ \A q \in Procs : ~IsUdp(q) /\ descr[q] # 0 =>
          /\ descr[q] \in DOMAIN bridges
          /\ TheBridge(q).topics # <<>>
          /\ BridgeOf(TheBridge(q), q, Len(dstMsg[q]))
          /\ \A r \in Procs : ~IsUdp(r) /\ descr[r] = descr[q] => r = q
    /\ phase = "bridge" => /\ ~IsUdp(i)
                           /\ k <= Len(dstMsg[i]) + 1
                           /\ BridgeOf(br, i, k - 1)

LayoutInv == LayoutTypeOK /\ MsgInv /\ SourceInv

-----------------------------------------------------------------------------
LEMMA AppendFacts ==
    ASSUME NEW S, NEW s \in Seq(S), NEW e \in S
    PROVE  /\ Append(s, e) \in Seq(S)
           /\ Len(s) \in Nat /\ Len(Append(s, e)) = Len(s) + 1
           /\ DOMAIN s = 1..Len(s) /\ DOMAIN Append(s, e) = 1..Len(s) + 1
           /\ \A j \in DOMAIN s : Append(s, e)[j] = s[j]
           /\ Append(s, e)[Len(s) + 1] = e
OBVIOUS

LEMMA SeqFacts ==
    ASSUME NEW S, NEW s \in Seq(S)
    PROVE  /\ Len(s) \in Nat
           /\ DOMAIN s = 1..Len(s)
           /\ \A j \in 1..Len(s) : s[j] \in S
OBVIOUS

LEMMA SysFacts ==
    ASSUME sys \in Setups
    PROVE  /\ \A p \in Procs : /\ Msg(p) \in Seq([name : Names, width : Widths])
                               /\ Len(Msg(p)) \in Nat
                               /\ DOMAIN Msg(p) = 1..Len(Msg(p))
                               /\ \A j \in 1..Len(Msg(p)) : /\ Msg(p)[j].name \in Names
                                                            /\ Msg(p)[j].width \in Widths
                               /\ Cfg(p).src \in {"udp", "func_br"}
           /\ \A x \in Names : /\ sys.topic[x].kind \in {"none", "value", "other"}
                               /\ sys.topic[x].width \in Widths
<1>1. /\ sys.proc \in [Procs -> ProcCfg]
      /\ sys.topic \in [Names -> TopicCfg]
  BY LayoutAssumption
<1>2. \A p \in Procs : sys.proc[p] \in ProcCfg
  BY <1>1
<1>3. \A p \in Procs : /\ Msg(p) \in Seq([name : Names, width : Widths])
                       /\ Cfg(p).src \in {"udp", "func_br"}
  BY <1>2 DEF ProcCfg, Msg, Cfg
<1>4. \A x \in Names : sys.topic[x] \in TopicCfg
  BY <1>1
<1>5. \A x \in Names : /\ sys.topic[x].kind \in {"none", "value", "other"}
                       /\ sys.topic[x].width \in Widths
  BY <1>4 DEF TopicCfg
<1>6. \A p \in Procs : /\ Len(Msg(p)) \in Nat
                       /\ DOMAIN Msg(p) = 1..Len(Msg(p))
                       /\ \A j \in 1..Len(Msg(p)) : /\ Msg(p)[j].name \in Names
                                                    /\ Msg(p)[j].width \in Widths
  <2> TAKE p \in Procs
  <2> DEFINE F == [name : Names, width : Widths]
  <2>1. Msg(p) \in Seq(F)
    BY <1>3
  <2>2. /\ Len(Msg(p)) \in Nat
        /\ DOMAIN Msg(p) = 1..Len(Msg(p))
        /\ \A j \in 1..Len(Msg(p)) : Msg(p)[j] \in F
    <3> HIDE DEF F
    <3> QED BY <2>1, SeqFacts
  <2> QED BY <2>2
<1> QED BY <1>3, <1>5, <1>6

LEMMA LayoutInitially == LayoutInit => LayoutInv
<1> SUFFICES ASSUME LayoutInit PROVE LayoutInv
  OBVIOUS
<1> USE DEF LayoutInit
<1>0. 1 \in Procs /\ N \in Nat
  BY LayoutAssumption DEF Procs
<1>1. LayoutTypeOK
  BY <1>0, LayoutAssumption DEF LayoutTypeOK, Bridge, NoBridge, Placed
<1>2. MsgInv
  BY <1>0, SysFacts DEF MsgInv, LaidOut, EndOf, Procs
<1>3. SourceInv
  BY <1>0 DEF SourceInv, Procs
<1> QED BY <1>1, <1>2, <1>3 DEF LayoutInv

\* What has been laid out stays while nobody adds a field.
LEMMA LaidOutStays ==
    ASSUME NEW p, NEW n \in Nat, LaidOut(p, n),
           sys' = sys, dstMsg'[p] = dstMsg[p], size'[p] = size[p]
    PROVE  LaidOut(p, n)'
BY DEF LaidOut, EndOf, Msg

LEMMA BridgeOfStays ==
    ASSUME NEW b, NEW p, NEW n \in Nat, BridgeOf(b, p, n),
           sys' = sys, dstMsg'[p] = dstMsg[p]
    PROVE  /\ {b.topics[t].name : t \in DOMAIN b.topics}
                = {x \in Names : /\ sys'.topic[x].kind = "value"
                                 /\ \E f \in 1..n : dstMsg'[p][f].name = x}
           /\ \A t \in DOMAIN b.topics : b.topics[t].offset + b.topics[t].width <= b.size
           /\ (\A f \in 1..n : sys'.topic[dstMsg'[p][f].name].kind = "value" =>
                              sys'.topic[dstMsg'[p][f].name].width <= dstMsg'[p][f].width)
                => b.size <= EndOf(p, n)'
BY DEF BridgeOf, EndOf

\* The sources of all processes stay if their bridges and messages do.
LEMMA SourcesStay ==
    ASSUME LayoutInv, sys' = sys, dstMsg' = dstMsg, bridges' = bridges, descr' = descr
    PROVE  \A q \in Procs : (~IsUdp(q) /\ descr[q] # 0)' =>
              (/\ descr[q] \in DOMAIN bridges
               /\ TheBridge(q).topics # <<>>
               /\ BridgeOf(TheBridge(q), q, Len(dstMsg[q]))
               /\ \A r \in Procs : ~IsUdp(r) /\ descr[r] = descr[q] => r = q)'
<1> SUFFICES ASSUME NEW q \in Procs, (~IsUdp(q) /\ descr[q] # 0)'
             PROVE  (/\ descr[q] \in DOMAIN bridges
                     /\ TheBridge(q).topics # <<>>
                     /\ BridgeOf(TheBridge(q), q, Len(dstMsg[q]))
                     /\ \A r \in Procs : ~IsUdp(r) /\ descr[r] = descr[q] => r = q)'
  OBVIOUS
<1>1. ~IsUdp(q) /\ descr[q] # 0
  BY DEF IsUdp, Cfg
<1>2. /\ descr[q] \in DOMAIN bridges
      /\ TheBridge(q).topics # <<>>
      /\ BridgeOf(TheBridge(q), q, Len(dstMsg[q]))
      /\ \A r \in Procs : ~IsUdp(r) /\ descr[r] = descr[q] => r = q
  BY <1>1 DEF LayoutInv, SourceInv
<1> QED BY <1>2 DEF IsUdp, Cfg, TheBridge, BridgeOf, EndOf

LEMMA LoadFieldStep == LayoutInv /\ LoadField => LayoutInv'
<1> SUFFICES ASSUME LayoutInv, LoadField PROVE LayoutInv'
  OBVIOUS
<1>a. /\ phase = "load" /\ k <= Len(Msg(i))
      /\ errs' = errs /\ descr' = descr /\ bridges' = bridges /\ i' = i /\ sys' = sys
      /\ br' = br /\ srcMsg' = srcMsg
  BY DEF LoadField
<1>b. LayoutTypeOK /\ MsgInv /\ SourceInv
  BY DEF LayoutInv
<1>c. /\ sys \in Setups /\ N \in Nat \ {0} /\ k \in Nat \ {0} /\ i \in 1..N + 1 /\ i # N + 1
  BY <1>a, <1>b, LayoutAssumption DEF LayoutTypeOK
<1>d. i \in Procs
  BY <1>c DEF Procs
<1>e. k \in 1..Len(Msg(i)) /\ Len(Msg(i)) \in Nat
  BY <1>a, <1>c, <1>d, SysFacts
<1>f. errs = 0 /\ \A q \in Procs : descr[q] = 0
  BY <1>a, <1>b DEF SourceInv
<1>0. /\ LayoutTypeOK /\ MsgInv /\ SourceInv /\ phase = "load"
      /\ N \in Nat \ {0} /\ i \in Procs /\ k \in 1..Len(Msg(i)) /\ sys \in Setups
      /\ Len(Msg(i)) \in Nat
      /\ \A q \in Procs : descr[q] = 0
      /\ errs = 0 /\ errs' = errs /\ descr' = descr /\ bridges' = bridges /\ i' = i /\ sys' = sys
      /\ br' = br /\ srcMsg' = srcMsg
  BY <1>a, <1>b, <1>c, <1>d, <1>e, <1>f
<1>1. CASE phase' = "refused"
  <2>1. UNCHANGED <<dstMsg, size, offset, k>>
    BY <1>1, <1>0 DEF LoadField, Known
  <2>2. LayoutTypeOK'
    BY <1>0, <1>1, <2>1 DEF LayoutTypeOK
  <2>3. MsgInv' /\ SourceInv'
    BY <1>0, <1>1, <2>1 DEF MsgInv, SourceInv
  <2> QED BY <2>2, <2>3 DEF LayoutInv
<1>2. CASE phase' # "refused"
  <2>0. PICK p \in Procs, n \in 1..Len(Msg(i)) : p = i /\ n = k
    BY <1>0
  <2>f. PICK f : f = Msg(i)[k]
    OBVIOUS
  <2>n. PICK new : new = [name |-> f.name, width |-> f.width, offset |-> offset]
    OBVIOUS
  <2>1. /\ dstMsg' = [dstMsg EXCEPT ![p] = Append(@, new)]
        /\ offset' = offset + f.width
        /\ size' = [size EXCEPT ![p] = offset']
        /\ k' = n + 1 /\ i' = p /\ phase' = phase
    BY <1>0, <1>2, <2>0, <2>f, <2>n DEF LoadField, Add
  <2>2. f.width \in Nat /\ f.name \in Names /\ offset \in Nat
    BY <1>0, <2>f, SysFacts DEF Widths, LayoutTypeOK
  <2>a. new \in Placed
    BY <2>n, <2>2 DEF Placed, Widths
  <2>b. new.name = f.name /\ new.width = f.width /\ new.offset = offset
    BY <2>n
  <2>3. dstMsg[p] \in Seq(Placed) /\ dstMsg \in [Procs -> Seq(Placed)] /\ size \in [Procs -> Nat]
    BY <1>0 DEF LayoutTypeOK
  <2>4. /\ Append(dstMsg[p], new) \in Seq(Placed)
        /\ Len(Append(dstMsg[p], new)) = Len(dstMsg[p]) + 1
        /\ \A j \in 1..Len(dstMsg[p]) : Append(dstMsg[p], new)[j] = dstMsg[p][j]
        /\ Append(dstMsg[p], new)[Len(dstMsg[p]) + 1] = new
    BY <2>a, <2>3, AppendFacts
  <2>5. /\ dstMsg'[p] = Append(dstMsg[p], new) /\ size'[p] = offset + f.width
        /\ \A q \in Procs \ {p} : dstMsg'[q] = dstMsg[q] /\ size'[q] = size[q]
    BY <2>1, <2>3
  <2>6. LayoutTypeOK'
    <3>1. dstMsg' \in [Procs -> Seq(Placed)]
      BY <2>1, <2>3, <2>4
    <3>2. offset' \in Nat /\ size' \in [Procs -> Nat] /\ k' \in Nat \ {0}
      BY <2>1, <2>2, <2>3
    <3> QED BY <1>0, <2>1, <3>1, <3>2 DEF LayoutTypeOK
  <2>7. LaidOut(p, n - 1) /\ offset = size[p]
    BY <1>0, <2>0 DEF MsgInv
  <2>8. /\ Len(dstMsg[p]) = n - 1 /\ offset = EndOf(p, n - 1)
        /\ \A j \in 1..n - 1 : /\ dstMsg[p][j].name = Msg(p)[j].name
                               /\ dstMsg[p][j].width = Msg(p)[j].width
                               /\ dstMsg[p][j].offset = EndOf(p, j - 1)
    BY <2>7 DEF LaidOut
  <2>9. Len(dstMsg'[p]) = n /\ dstMsg'[p][n] = new
        /\ \A j \in 1..n - 1 : dstMsg'[p][j] = dstMsg[p][j]
    BY <2>4, <2>5, <2>8, <1>0
  <2>10. \A j \in 1..n : EndOf(p, j - 1)' = EndOf(p, j - 1)
    BY <2>9, <1>0 DEF EndOf
  <2>11. EndOf(p, n)' = offset + f.width
    BY <2>9, <2>b DEF EndOf
  <2>m. Msg(p)' = Msg(p) /\ Msg(p)[n] = f
    BY <1>0, <2>0, <2>f DEF Msg
  <2>12. \A j \in 1..n : /\ dstMsg'[p][j].name = Msg(p)'[j].name
                         /\ dstMsg'[p][j].width = Msg(p)'[j].width
                         /\ dstMsg'[p][j].offset = EndOf(p, j - 1)'
    <3> TAKE j \in 1..n
    <3>2. CASE j = n
      BY <3>2, <2>m, <2>b, <2>8, <2>9, <2>10, <1>0
    <3>3. CASE j \in 1..n - 1
      BY <3>3, <2>m, <2>8, <2>9, <2>10, <1>0
    <3> QED BY <3>2, <3>3, <1>0
  <2>13. LaidOut(p, n)'
    BY <2>5, <2>9, <2>11, <2>12, <1>0 DEF LaidOut
  <2>14. MsgInv'
    <3>1. k' <= Len(Msg(p)') + 1 /\ k' - 1 = n /\ offset' = size'[p]
      BY <1>0, <2>0, <2>1, <2>m, <2>5
    <3>2. \A q \in 1..p - 1 : LaidOut(q, Len(Msg(q)))'
      <4> TAKE q \in 1..p - 1
      <4>1. q \in Procs \ {p} /\ LaidOut(q, Len(Msg(q))) /\ Len(Msg(q)) \in Nat
        BY <1>0, <2>0, SysFacts DEF MsgInv, Procs
      <4>2. dstMsg'[q] = dstMsg[q] /\ size'[q] = size[q]
        BY <4>1, <2>5
      <4> QED BY <4>1, <4>2, <1>0 DEF LaidOut, EndOf, Msg
    <3>3. \A q \in p + 1..N : dstMsg'[q] = <<>> /\ size'[q] = 0
      BY <1>0, <2>0, <2>5 DEF MsgInv, Procs
    <3>4. LaidOut(i, k - 1)'
      BY <2>13, <2>1, <3>1 DEF LaidOut, EndOf, Msg
    <3> QED BY <3>1, <3>2, <3>3, <3>4, <2>0, <2>1, <1>0 DEF MsgInv, Msg
  <2>15. SourceInv'
    BY <1>0, <2>1 DEF SourceInv
  <2> QED BY <2>6, <2>14, <2>15 DEF LayoutInv
<1> QED BY <1>1, <1>2

\* Once loaded, messages keep their layout.
LEMMA MessagesStay ==
    ASSUME LayoutInv, phase \in {"inputs", "bridge", "run"}, phase' # "load",
           sys' = sys, dstMsg' = dstMsg, size' = size
    PROVE  MsgInv'
BY DEF LayoutInv, MsgInv, LaidOut, EndOf, Msg

LEMMA MessageLoadedStep == LayoutInv /\ MessageLoaded => LayoutInv'
<1> SUFFICES ASSUME LayoutInv, MessageLoaded PROVE LayoutInv'
  OBVIOUS
<1>1. /\ phase = "load" /\ k > Len(Msg(i)) /\ k' = 1 /\ offset' = 0
      /\ UNCHANGED <<sys, errs, dstMsg, srcMsg, size, br, bridges, descr>>
  BY DEF MessageLoaded
<1>2. LayoutTypeOK /\ MsgInv /\ SourceInv
  BY DEF LayoutInv
<1>3. /\ sys \in Setups /\ N \in Nat \ {0} /\ k \in Nat \ {0} /\ i \in 1..N
  BY <1>1, <1>2, LayoutAssumption DEF LayoutTypeOK
<1>4. \/ i < N /\ i' = i + 1 /\ phase' = "load"
      \/ i = N /\ i' = 1 /\ phase' = "inputs"
  BY <1>1, <1>3 DEF MessageLoaded
<1>5. LayoutTypeOK'
  BY <1>1, <1>2, <1>3, <1>4 DEF LayoutTypeOK
<1>6. \A q \in Procs : Len(Msg(q)) \in Nat
  BY <1>3, SysFacts
<1>7. k - 1 = Len(Msg(i)) /\ LaidOut(i, Len(Msg(i)))
  BY <1>1, <1>2, <1>3, <1>6 DEF MsgInv, Procs
<1>8. \A q \in 1..i : LaidOut(q, Len(Msg(q)))'
  <2> TAKE q \in 1..i
  <2>1. LaidOut(q, Len(Msg(q)))
    BY <1>1, <1>2, <1>3, <1>7 DEF MsgInv
  <2> QED BY <2>1, <1>1 DEF LaidOut, EndOf, Msg
<1>9. MsgInv'
  <2>1. CASE i < N /\ i' = i + 1 /\ phase' = "load"
    <3>1. i + 1 \in Procs /\ dstMsg[i + 1] = <<>> /\ size[i + 1] = 0
      BY <2>1, <1>1, <1>2, <1>3 DEF MsgInv, Procs
    <3>2. LaidOut(i, k - 1)'
      BY <3>1, <1>1, <2>1 DEF LaidOut, EndOf
    <3>3. k' <= Len(Msg(i)') + 1
      BY <3>1, <1>1, <2>1, <1>6 DEF Msg
    <3>4. \A q \in i' + 1..N : dstMsg'[q] = <<>> /\ size'[q] = 0
      BY <1>1, <1>2, <1>3, <2>1 DEF MsgInv
    <3>5. i' - 1 = i /\ offset' = size'[i']
      BY <3>1, <1>1, <1>3, <2>1
    <3> QED BY <2>1, <3>2, <3>3, <3>4, <3>5, <1>8 DEF MsgInv
  <2>2. CASE i = N /\ i' = 1 /\ phase' = "inputs"
    BY <2>2, <1>8 DEF MsgInv, Procs
  <2> QED BY <1>4, <2>1, <2>2
<1>10. SourceInv'
  <2>1. errs' = 0 /\ \A q \in Procs : descr'[q] = 0
    BY <1>1, <1>2 DEF SourceInv
  <2>2. \A q \in i'..N : q \in Procs
    BY <1>3, <1>4 DEF Procs
  <2>3. i' = 1 \/ phase' = "load"
    BY <1>4
  <2>4. phase' \in {"load", "inputs"}
    BY <1>4
  <2> QED BY <2>1, <2>2, <2>3, <2>4 DEF SourceInv
<1> QED BY <1>5, <1>9, <1>10 DEF LayoutInv

\* What a step past process i leaves to show.
LEMMA NextInputStep ==
    ASSUME LayoutInv, phase \in {"inputs", "bridge"}, i \in Procs,
           NEW failed \in BOOLEAN, NextInput(failed),
           sys' = sys, dstMsg' = dstMsg, size' = size,
           LayoutTypeOK',
           \A q \in Procs \ {i} : descr'[q] = descr[q],
           failed \/ descr'[i] # 0,
           \A q \in Procs : (~IsUdp(q) /\ descr[q] # 0)' =>
              (/\ descr[q] \in DOMAIN bridges
               /\ TheBridge(q).topics # <<>>
               /\ BridgeOf(TheBridge(q), q, Len(dstMsg[q]))
               /\ \A r \in Procs : ~IsUdp(r) /\ descr[r] = descr[q] => r = q)'
    PROVE  LayoutInv'
<1>1. i' = i + 1 /\ phase' = "inputs" /\ errs' = errs + (IF failed THEN 1 ELSE 0)
  BY DEF NextInput
<1>2. LayoutTypeOK /\ MsgInv /\ SourceInv /\ errs \in Nat /\ N \in Nat
  BY LayoutAssumption DEF LayoutInv, LayoutTypeOK
<1>3. MsgInv'
  BY <1>1, MessagesStay
<1>4. \A q \in i'..N : descr'[q] = 0
  BY <1>1, <1>2 DEF SourceInv, Procs
<1>5. errs' = 0 => \A q \in 1..i' - 1 : descr'[q] # 0
  <2> SUFFICES ASSUME errs' = 0, NEW q \in 1..i' - 1 PROVE descr'[q] # 0
    OBVIOUS
  <2>1. ~failed /\ errs = 0
    BY <1>1, <1>2
  <2>2. CASE q = i
    BY <2>1, <2>2
  <2>3. CASE q # i
    <3>1. q \in 1..i - 1 /\ q \in Procs \ {i}
      BY <1>1, <1>2, <2>3 DEF Procs
    <3> QED BY <3>1, <2>1, <1>2 DEF SourceInv
  <2> QED BY <2>2, <2>3
<1>6. SourceInv'
  BY <1>1, <1>4, <1>5 DEF SourceInv
<1> QED BY <1>3, <1>6 DEF LayoutInv

LEMMA InputFacts ==
    ASSUME LayoutInv, phase \in {"inputs", "bridge"}, i <= N
    PROVE  /\ LayoutTypeOK /\ MsgInv /\ SourceInv
           /\ i \in Procs /\ N \in Nat /\ sys \in Setups
           /\ Cfg(i).src \in {"udp", "func_br"}
           /\ LaidOut(i, Len(Msg(i))) /\ Len(Msg(i)) \in Nat /\ Len(dstMsg[i]) = Len(Msg(i))
           /\ i + 1 \in 1..N + 1
<1>1. LayoutTypeOK /\ MsgInv /\ SourceInv
  BY DEF LayoutInv
<1>2. i \in Procs /\ N \in Nat /\ sys \in Setups
  BY <1>1, LayoutAssumption DEF LayoutTypeOK, Procs
<1>3. Cfg(i).src \in {"udp", "func_br"} /\ Len(Msg(i)) \in Nat
  BY <1>2, SysFacts
<1>4. LaidOut(i, Len(Msg(i)))
  BY <1>1, <1>2 DEF MsgInv
<1>5. Len(dstMsg[i]) = Len(Msg(i))
  BY <1>4 DEF LaidOut
<1> QED BY <1>1, <1>2, <1>3, <1>4, <1>5 DEF Procs

\* What is known of the bridge of a process depends on no more than this.
LEMMA SameBridge ==
    ASSUME NEW q, NEW b, sys' = sys, dstMsg' = dstMsg, TheBridge(q)' = b,
           BridgeOf(b, q, Len(dstMsg[q]))
    PROVE  BridgeOf(TheBridge(q), q, Len(dstMsg[q]))'
<1>1. \A n : EndOf(q, n)' = EndOf(q, n)
  BY DEF EndOf
<1>2. /\ {TheBridge(q).topics[t].name : t \in DOMAIN TheBridge(q).topics}'
           = {b.topics[t].name : t \in DOMAIN b.topics}
  OBVIOUS
<1>3. {x \in Names : /\ sys.topic[x].kind = "value"
                     /\ \E f \in 1..Len(dstMsg[q]) : dstMsg[q][f].name = x}'
        = {x \in Names : /\ sys.topic[x].kind = "value"
                         /\ \E f \in 1..Len(dstMsg[q]) : dstMsg[q][f].name = x}
  OBVIOUS
<1>4. (\A t \in DOMAIN TheBridge(q).topics :
          TheBridge(q).topics[t].offset + TheBridge(q).topics[t].width <= TheBridge(q).size)'
  BY DEF BridgeOf
<1>5. ((\A f \in 1..Len(dstMsg[q]) : sys.topic[dstMsg[q][f].name].kind = "value" =>
                           sys.topic[dstMsg[q][f].name].width <= dstMsg[q][f].width)
         => TheBridge(q).size <= EndOf(q, Len(dstMsg[q])))'
  BY <1>1 DEF BridgeOf
<1> QED BY <1>2, <1>3, <1>4, <1>5 DEF BridgeOf

LEMMA OpenSocketStep == LayoutInv /\ OpenSocket => LayoutInv'
<1> SUFFICES ASSUME LayoutInv, OpenSocket PROVE LayoutInv'
  OBVIOUS
<1>1. /\ phase = "inputs" /\ i <= N /\ Cfg(i).src = "udp"
      /\ UNCHANGED <<sys, k, dstMsg, srcMsg, size, offset, br, bridges>>
  BY DEF OpenSocket
<1>2. /\ LayoutTypeOK /\ i \in Procs /\ i + 1 \in 1..N + 1
  BY <1>1, InputFacts
<1>3. PICK failed \in BOOLEAN : /\ NextInput(failed)
                                /\ descr' = IF failed THEN descr ELSE [descr EXCEPT ![i] = 1]
  BY DEF OpenSocket
<1>4. LayoutTypeOK'
  BY <1>1, <1>2, <1>3 DEF LayoutTypeOK, NextInput
<1>5. \A q \in Procs \ {i} : descr'[q] = descr[q]
  BY <1>3
<1>6. failed \/ descr'[i] # 0
  BY <1>2, <1>3 DEF LayoutTypeOK
<1>7. \A q \in Procs : (~IsUdp(q) /\ descr[q] # 0)' =>
        (/\ descr[q] \in DOMAIN bridges
         /\ TheBridge(q).topics # <<>>
         /\ BridgeOf(TheBridge(q), q, Len(dstMsg[q]))
         /\ \A r \in Procs : ~IsUdp(r) /\ descr[r] = descr[q] => r = q)'
  <2> SUFFICES ASSUME NEW q \in Procs, (~IsUdp(q) /\ descr[q] # 0)'
               PROVE  (/\ descr[q] \in DOMAIN bridges
                       /\ TheBridge(q).topics # <<>>
                       /\ BridgeOf(TheBridge(q), q, Len(dstMsg[q]))
                       /\ \A r \in Procs : ~IsUdp(r) /\ descr[r] = descr[q] => r = q)'
    OBVIOUS
  <2>1. q # i /\ ~IsUdp(q) /\ descr[q] # 0 /\ descr'[q] = descr[q]
    BY <1>1, <1>5 DEF IsUdp, Cfg
  <2>2. /\ descr[q] \in DOMAIN bridges
        /\ TheBridge(q).topics # <<>>
        /\ BridgeOf(TheBridge(q), q, Len(dstMsg[q]))
        /\ \A r \in Procs : ~IsUdp(r) /\ descr[r] = descr[q] => r = q
    BY <2>1 DEF LayoutInv, SourceInv
  <2>3. (\A r \in Procs : ~IsUdp(r) /\ descr[r] = descr[q] => r = q)'
    BY <2>1, <2>2, <1>1, <1>5 DEF IsUdp, Cfg
  <2>4. TheBridge(q)' = TheBridge(q)
    BY <2>1, <1>1 DEF TheBridge
  <2>5. BridgeOf(TheBridge(q), q, Len(dstMsg[q]))'
    BY <2>2, <2>4, <1>1, SameBridge
  <2>6. descr'[q] \in DOMAIN bridges' /\ TheBridge(q)'.topics # <<>>
    BY <2>1, <2>2, <2>4, <1>1
  <2> QED BY <2>3, <2>5, <2>6
<1> QED BY <1>1, <1>2, <1>3, <1>4, <1>5, <1>6, <1>7, NextInputStep

LEMMA BeginBridgeStep == LayoutInv /\ BeginBridge => LayoutInv'
<1> SUFFICES ASSUME LayoutInv, BeginBridge PROVE LayoutInv'
  OBVIOUS
<1>1. /\ phase = "inputs" /\ i <= N /\ Cfg(i).src = "func_br"
      /\ br' = NoBridge /\ offset' = 0 /\ k' = 1
      /\ UNCHANGED <<sys, dstMsg, srcMsg, size, bridges, descr>>
  BY DEF BeginBridge
<1>2. /\ LayoutTypeOK /\ i \in Procs /\ i + 1 \in 1..N + 1 /\ SourceInv
      /\ Len(dstMsg[i]) \in Nat
  BY <1>1, InputFacts
<1>3. br' \in Bridge
  BY <1>1 DEF NoBridge, Bridge
<1>4. CASE NextInput(TRUE)
  <2>1. LayoutTypeOK'
    BY <1>1, <1>2, <1>3, <1>4 DEF LayoutTypeOK, NextInput
  <2> QED BY <1>1, <1>2, <1>4, <2>1, NextInputStep, SourcesStay
<1>5. CASE phase' = "bridge" /\ UNCHANGED <<i, errs>>
  <2>1. LayoutTypeOK'
    BY <1>1, <1>2, <1>3, <1>5 DEF LayoutTypeOK, Procs
  <2>2. MsgInv'
    BY <1>1, <1>5, MessagesStay
  <2>3. SourceInv'
    <3>1. (\A q \in Procs : ~IsUdp(q) /\ descr[q] # 0 =>
              (/\ descr[q] \in DOMAIN bridges
               /\ TheBridge(q).topics # <<>>
               /\ BridgeOf(TheBridge(q), q, Len(dstMsg[q]))
               /\ \A r \in Procs : ~IsUdp(r) /\ descr[r] = descr[q] => r = q))'
      BY <1>1, SourcesStay
    <3>2. ~IsUdp(i)' /\ k' <= Len(dstMsg[i])' + 1
      BY <1>1, <1>2, <1>5 DEF IsUdp, Cfg
    <3>3. BridgeOf(br, i, k - 1)'
      BY <1>1, <1>5 DEF BridgeOf, NoBridge, EndOf
    <3> QED BY <1>1, <1>2, <1>5, <3>1, <3>2, <3>3 DEF SourceInv
  <2> QED BY <2>1, <2>2, <2>3 DEF LayoutInv
<1> QED BY <1>4, <1>5 DEF BeginBridge

LEMMA BridgeFieldStep == LayoutInv /\ BridgeField => LayoutInv'
<1> SUFFICES ASSUME LayoutInv, BridgeField PROVE LayoutInv'
  OBVIOUS
<1>1. /\ phase = "bridge" /\ k <= Len(dstMsg[i])
      /\ UNCHANGED <<sys, dstMsg, size, bridges, descr>>
  BY DEF BridgeField
<1>2. LayoutTypeOK /\ SourceInv /\ i <= N
  BY <1>1, LayoutAssumption DEF LayoutInv, LayoutTypeOK
<1>3. /\ i \in Procs /\ i + 1 \in 1..N + 1 /\ sys \in Setups /\ N \in Nat
      /\ LaidOut(i, Len(Msg(i))) /\ Len(Msg(i)) \in Nat /\ Len(dstMsg[i]) = Len(Msg(i))
  BY <1>1, <1>2, InputFacts
<1>4. k \in 1..Len(dstMsg[i]) /\ BridgeOf(br, i, k - 1) /\ ~IsUdp(i) /\ k \in Nat
  BY <1>1, <1>2, <1>3 DEF SourceInv, LayoutTypeOK
<1>5. PICK f, t, width :
         /\ f = dstMsg[i][k] /\ t = sys.topic[f.name]
         /\ width = IF t.kind = "none" THEN f.width ELSE t.width
  OBVIOUS
<1>6. f \in Placed /\ f.name \in Names /\ f.width \in Nat /\ f.offset \in Nat
  <2>1. dstMsg[i] \in Seq(Placed)
    BY <1>2, <1>3 DEF LayoutTypeOK
  <2>2. f \in Placed
    BY <2>1, <1>4, <1>5, SeqFacts
  <2> QED BY <2>2 DEF Placed, Widths
<1>7. t.kind \in {"none", "value", "other"} /\ t.width \in Nat /\ width \in Nat
  BY <1>3, <1>5, <1>6, SysFacts DEF Widths
<1>8. CASE t.kind = "other"
  <2>1. NextInput(TRUE) /\ UNCHANGED <<k, offset, br, srcMsg>>
    BY <1>5, <1>8 DEF BridgeField
  <2>2. LayoutTypeOK'
    BY <1>1, <1>2, <1>3, <2>1 DEF LayoutTypeOK, NextInput
  <2> QED BY <1>1, <1>3, <2>1, <2>2, NextInputStep, SourcesStay
<1>9. CASE t.kind # "other"
  <2> PICK fields : fields = [name |-> f.name, width |-> width, offset |-> offset]
    OBVIOUS
  <2> PICK topic : topic = [name |-> f.name, width |-> width, offset |-> br.size]
    OBVIOUS
  <2>1. /\ srcMsg' = [srcMsg EXCEPT ![i] = Append(@, fields)]
        /\ offset' = offset + width /\ k' = k + 1
        /\ br' = IF t.kind = "none" THEN br
                 ELSE [topics |-> Append(br.topics, topic), size |-> br.size + width]
        /\ UNCHANGED <<phase, i, errs>>
    BY <1>5, <1>9 DEF BridgeField, Add
  <2>2. br.topics \in Seq(Placed) /\ br.size \in Nat /\ offset \in Nat /\ br \in Bridge
    BY <1>2 DEF LayoutTypeOK, Bridge
  <2>3. fields \in Placed /\ topic \in Placed
    BY <1>6, <1>7, <2>2 DEF Placed, Widths
  <2>4. /\ Append(br.topics, topic) \in Seq(Placed)
        /\ DOMAIN br.topics = 1..Len(br.topics) /\ Len(br.topics) \in Nat
        /\ DOMAIN Append(br.topics, topic) = 1..Len(br.topics) + 1
        /\ \A j \in 1..Len(br.topics) : Append(br.topics, topic)[j] = br.topics[j]
        /\ Append(br.topics, topic)[Len(br.topics) + 1] = topic
        /\ \A j \in 1..Len(br.topics) : br.topics[j] \in Placed
    BY <2>2, <2>3, AppendFacts, SeqFacts
  <2>5. br' \in Bridge
    <3>1. [topics |-> Append(br.topics, topic), size |-> br.size + width] \in Bridge
      BY <1>7, <2>2, <2>4 DEF Bridge
    <3> QED BY <2>1, <2>2, <3>1
  <2>6. LayoutTypeOK'
    <3>1. Append(srcMsg[i], fields) \in Seq(Placed)
      BY <1>2, <1>3, <2>3, AppendFacts DEF LayoutTypeOK
    <3>2. srcMsg' \in [Procs -> Seq(Placed)]
      BY <1>2, <2>1, <3>1 DEF LayoutTypeOK
    <3>3. offset' \in Nat /\ k' \in Nat \ {0}
      BY <1>4, <1>7, <2>1, <2>2
    <3> QED BY <1>1, <1>2, <2>1, <2>5, <3>2, <3>3 DEF LayoutTypeOK
  <2>7. BridgeOf(br, i, k - 1)
    BY <1>4
  <2>8. EndOf(i, k - 1) = f.offset /\ EndOf(i, k) = f.offset + f.width
    BY <1>3, <1>4, <1>5 DEF LaidOut, EndOf
  <2>9. BridgeOf(br', i, k)
    <3>1. CASE t.kind = "none"
      <4>1. br' = br
        BY <2>1, <3>1
      <4>2. {x \in Names : /\ sys.topic[x].kind = "value"
                           /\ \E g \in 1..k - 1 : dstMsg[i][g].name = x}
              = {x \in Names : /\ sys.topic[x].kind = "value"
                               /\ \E g \in 1..k : dstMsg[i][g].name = x}
        BY <1>4, <1>5, <3>1
      <4>3. (\A g \in 1..k : sys.topic[dstMsg[i][g].name].kind = "value" =>
                           sys.topic[dstMsg[i][g].name].width <= dstMsg[i][g].width)
              => br.size <= EndOf(i, k)
        <5>1. br.size <= EndOf(i, k - 1) => br.size <= EndOf(i, k)
          BY <2>2, <2>8, <1>6
        <5> QED BY <5>1, <2>7, <1>4 DEF BridgeOf
      <4> QED BY <2>7, <4>1, <4>2, <4>3 DEF BridgeOf
    <3>2. CASE t.kind = "value"
      <4>1. br'.topics = Append(br.topics, topic) /\ br'.size = br.size + width /\ width = t.width
        BY <2>1, <3>2, <1>5
      <4>2. topic.name = f.name /\ topic.width = width /\ topic.offset = br.size
        OBVIOUS
      <4>3. {br'.topics[s].name : s \in DOMAIN br'.topics}
              = {br.topics[s].name : s \in DOMAIN br.topics} \cup {f.name}
        <5>1. \A s \in 1..Len(br.topics) : br'.topics[s].name = br.topics[s].name
          BY <2>4, <4>1
        <5>2. br'.topics[Len(br.topics) + 1].name = f.name
          BY <2>4, <4>1, <4>2
        <5>3. DOMAIN br'.topics = 1..Len(br.topics) + 1 /\ DOMAIN br.topics = 1..Len(br.topics)
          BY <2>4, <4>1
        <5>4. 1..Len(br.topics) + 1 = (1..Len(br.topics)) \cup {Len(br.topics) + 1}
          BY <2>4
        <5> QED BY <5>1, <5>2, <5>3, <5>4
      <4>4. {x \in Names : /\ sys.topic[x].kind = "value"
                           /\ \E g \in 1..k : dstMsg[i][g].name = x}
              = {x \in Names : /\ sys.topic[x].kind = "value"
                               /\ \E g \in 1..k - 1 : dstMsg[i][g].name = x} \cup {f.name}
        <5>1. 1..k = (1..k - 1) \cup {k}
          BY <1>4
        <5> QED BY <5>1, <1>5, <1>6, <3>2
      <4>5. \A s \in DOMAIN br'.topics : br'.topics[s].offset + br'.topics[s].width <= br'.size
        <5> TAKE s \in DOMAIN br'.topics
        <5>1. CASE s \in 1..Len(br.topics)
          <6>1. br'.topics[s] = br.topics[s] /\ br.topics[s] \in Placed
            BY <5>1, <2>4, <4>1
          <6>2. br.topics[s].offset + br.topics[s].width <= br.size
            BY <5>1, <2>4, <2>7 DEF BridgeOf
          <6>3. br.topics[s].offset \in Nat /\ br.topics[s].width \in Nat
            BY <6>1 DEF Placed, Widths
          <6> QED BY <6>1, <6>2, <6>3, <4>1, <1>7, <2>2
        <5>2. CASE s = Len(br.topics) + 1
          BY <5>2, <2>4, <4>1, <4>2, <1>7, <2>2
        <5> QED BY <5>1, <5>2, <2>4, <4>1
      <4>6. (\A g \in 1..k : sys.topic[dstMsg[i][g].name].kind = "value" =>
                           sys.topic[dstMsg[i][g].name].width <= dstMsg[i][g].width)
              => br'.size <= EndOf(i, k)
        <5> SUFFICES ASSUME \A g \in 1..k : sys.topic[dstMsg[i][g].name].kind = "value" =>
                               sys.topic[dstMsg[i][g].name].width <= dstMsg[i][g].width
                     PROVE  br'.size <= EndOf(i, k)
          OBVIOUS
        <5>1. t.width <= f.width
          BY <1>4, <1>5, <3>2
        <5>2. br.size <= EndOf(i, k - 1)
          BY <2>7, <1>4 DEF BridgeOf
        <5> QED BY <5>1, <5>2, <2>8, <4>1, <1>6, <1>7, <2>2
      <4> QED BY <2>7, <4>3, <4>4, <4>5, <4>6 DEF BridgeOf
    <3> QED BY <1>7, <1>9, <3>1, <3>2
  <2>10. SourceInv'
    <3>1. (\A q \in Procs : ~IsUdp(q) /\ descr[q] # 0 =>
              (/\ descr[q] \in DOMAIN bridges
               /\ TheBridge(q).topics # <<>>
               /\ BridgeOf(TheBridge(q), q, Len(dstMsg[q]))
               /\ \A r \in Procs : ~IsUdp(r) /\ descr[r] = descr[q] => r = q))'
      BY <1>1, SourcesStay
    <3>2. ~IsUdp(i)' /\ k' <= Len(dstMsg[i])' + 1
      BY <1>1, <1>3, <1>4, <2>1 DEF IsUdp, Cfg
    <3>3. BridgeOf(br, i, k - 1)'
      <4>1. k' - 1 = k /\ i' = i
        BY <1>4, <2>1
      <4> QED BY <4>1, <2>9, <1>1 DEF BridgeOf, EndOf
    <3> QED BY <1>1, <1>2, <2>1, <3>1, <3>2, <3>3 DEF SourceInv
  <2>11. MsgInv'
    BY <1>1, <2>1, MessagesStay
  <2> QED BY <2>6, <2>10, <2>11 DEF LayoutInv
<1> QED BY <1>8, <1>9

LEMMA EndBridgeStep == LayoutInv /\ EndBridge => LayoutInv'
<1> SUFFICES ASSUME LayoutInv, EndBridge PROVE LayoutInv'
  OBVIOUS
<1>1. /\ phase = "bridge" /\ k > Len(dstMsg[i])
      /\ UNCHANGED <<sys, k, dstMsg, srcMsg, size, offset, br>>
  BY DEF EndBridge
<1>2. LayoutTypeOK /\ SourceInv /\ i <= N
  BY <1>1, LayoutAssumption DEF LayoutInv, LayoutTypeOK
<1>3. /\ i \in Procs /\ i + 1 \in 1..N + 1 /\ Len(dstMsg[i]) \in Nat
  BY <1>1, <1>2, InputFacts
<1>4. /\ BridgeOf(br, i, k - 1) /\ ~IsUdp(i) /\ k - 1 = Len(dstMsg[i])
  BY <1>1, <1>2, <1>3 DEF SourceInv, LayoutTypeOK
<1>5. CASE br.topics = <<>>
  <2>1. NextInput(TRUE) /\ UNCHANGED <<bridges, descr>>
    BY <1>5 DEF EndBridge
  <2>2. LayoutTypeOK'
    BY <1>1, <1>2, <1>3, <2>1 DEF LayoutTypeOK, NextInput
  <2> QED BY <1>1, <1>3, <2>1, <2>2, NextInputStep, SourcesStay
<1>6. CASE br.topics # <<>>
  <2>1. /\ NextInput(FALSE) /\ bridges' = Append(bridges, br)
        /\ descr' = [descr EXCEPT ![i] = Len(bridges')]
    BY <1>6 DEF EndBridge
  <2>2. bridges \in Seq(Bridge) /\ br \in Bridge /\ descr \in [Procs -> Nat]
    BY <1>2 DEF LayoutTypeOK
  <2>3. /\ bridges' \in Seq(Bridge) /\ Len(bridges) \in Nat
        /\ DOMAIN bridges = 1..Len(bridges) /\ DOMAIN bridges' = 1..Len(bridges) + 1
        /\ \A j \in 1..Len(bridges) : bridges'[j] = bridges[j]
        /\ bridges'[Len(bridges) + 1] = br /\ Len(bridges') = Len(bridges) + 1
    BY <2>1, <2>2, AppendFacts
  <2>4. descr'[i] = Len(bridges) + 1 /\ \A q \in Procs \ {i} : descr'[q] = descr[q]
    BY <1>3, <2>1, <2>2, <2>3
  <2>5. LayoutTypeOK'
    <3>1. descr' \in [Procs -> Nat]
      <4>1. Len(bridges') \in Nat
        BY <2>3
      <4> QED BY <2>1, <2>2, <4>1
    <3>2. errs' = errs /\ phase' = "inputs" /\ i' = i + 1
      BY <1>2, <2>1 DEF NextInput, LayoutTypeOK
    <3> QED BY <1>1, <1>2, <1>3, <2>3, <3>1, <3>2 DEF LayoutTypeOK
  <2>6. \A q \in Procs : (~IsUdp(q) /\ descr[q] # 0)' =>
          (/\ descr[q] \in DOMAIN bridges
           /\ TheBridge(q).topics # <<>>
           /\ BridgeOf(TheBridge(q), q, Len(dstMsg[q]))
           /\ \A r \in Procs : ~IsUdp(r) /\ descr[r] = descr[q] => r = q)'
    <3> SUFFICES ASSUME NEW q \in Procs, (~IsUdp(q) /\ descr[q] # 0)'
                 PROVE  (/\ descr[q] \in DOMAIN bridges
                         /\ TheBridge(q).topics # <<>>
                         /\ BridgeOf(TheBridge(q), q, Len(dstMsg[q]))
                         /\ \A r \in Procs : ~IsUdp(r) /\ descr[r] = descr[q] => r = q)'
      OBVIOUS
    <3>0. \A r \in Procs \ {i} : ~IsUdp(r) /\ descr[r] # 0 => descr[r] \in 1..Len(bridges)
      BY <1>2, <2>3 DEF SourceInv
    <3>1. CASE q = i
      <4>1. TheBridge(q)' = br
        BY <2>3, <2>4, <3>1 DEF TheBridge
      <4>2. BridgeOf(TheBridge(q), q, Len(dstMsg[q]))'
        <5>1. BridgeOf(br, i, Len(dstMsg[i]))
          BY <1>4
        <5>2. /\ sys' = sys /\ br' = br
              /\ dstMsg' = dstMsg /\ Len(dstMsg'[q]) = Len(dstMsg[i])
          BY <1>1, <3>1
        <5> QED BY <5>1, <5>2, <4>1, <3>1, SameBridge
      <4>3. (\A r \in Procs : ~IsUdp(r) /\ descr[r] = descr[q] => r = q)'
        <5> SUFFICES ASSUME NEW r \in Procs, (~IsUdp(r) /\ descr[r] = descr[q])', r # i
                     PROVE FALSE
          BY <3>1
        <5>1. ~IsUdp(r) /\ descr[r] = Len(bridges) + 1 /\ descr[r] # 0
          BY <1>1, <2>3, <2>4, <3>1 DEF IsUdp, Cfg
        <5> QED BY <5>1, <3>0, <2>3
      <4> QED BY <1>6, <2>3, <2>4, <3>1, <4>1, <4>2, <4>3
    <3>2. CASE q # i
      <4>1. ~IsUdp(q) /\ descr[q] # 0 /\ descr'[q] = descr[q]
        BY <1>1, <2>4, <3>2 DEF IsUdp, Cfg
      <4>2. /\ descr[q] \in 1..Len(bridges)
            /\ TheBridge(q).topics # <<>>
            /\ BridgeOf(TheBridge(q), q, Len(dstMsg[q]))
            /\ \A r \in Procs : ~IsUdp(r) /\ descr[r] = descr[q] => r = q
        BY <4>1, <1>2, <2>3 DEF SourceInv
      <4>3. TheBridge(q)' = TheBridge(q)
        BY <4>1, <4>2, <2>3 DEF TheBridge
      <4>4. BridgeOf(TheBridge(q), q, Len(dstMsg[q]))'
        <5>1. sys' = sys /\ dstMsg' = dstMsg
          BY <1>1
        <5> QED BY <5>1, <4>2, <4>3, SameBridge
      <4>5. (\A r \in Procs : ~IsUdp(r) /\ descr[r] = descr[q] => r = q)'
        <5> SUFFICES ASSUME NEW r \in Procs, (~IsUdp(r) /\ descr[r] = descr[q])'
                     PROVE  r = q
          OBVIOUS
        <5>1. r # i
          BY <4>1, <4>2, <2>3, <2>4
        <5>2. ~IsUdp(r) /\ descr[r] = descr[q]
          BY <5>1, <4>1, <2>4, <1>1 DEF IsUdp, Cfg
        <5> QED BY <5>2, <4>2
      <4> QED BY <2>3, <4>1, <4>2, <4>3, <4>4, <4>5
    <3> QED BY <3>1, <3>2
  <2>7. FALSE \/ descr'[i] # 0
    BY <2>3, <2>4
  <2> QED BY <1>1, <1>3, <2>1, <2>4, <2>5, <2>6, <2>7, NextInputStep
<1> QED BY <1>5, <1>6

LEMMA EndInputsStep == LayoutInv /\ EndInputs => LayoutInv'
<1> SUFFICES ASSUME LayoutInv, EndInputs PROVE LayoutInv'
  OBVIOUS
<1>1. /\ phase = "inputs" /\ i = N + 1
      /\ phase' = IF errs = 0 THEN "run" ELSE "refused"
      /\ UNCHANGED <<sys, i, k, errs, dstMsg, srcMsg, size, offset, br, bridges, descr>>
  BY DEF EndInputs
<1>2. LayoutTypeOK /\ SourceInv /\ N \in Nat
  BY LayoutAssumption DEF LayoutInv
<1>3. LayoutTypeOK'
  BY <1>1, <1>2 DEF LayoutTypeOK
<1>4. MsgInv'
  BY <1>1, MessagesStay
<1>5. (\A q \in Procs : ~IsUdp(q) /\ descr[q] # 0 =>
              (/\ descr[q] \in DOMAIN bridges
               /\ TheBridge(q).topics # <<>>
               /\ BridgeOf(TheBridge(q), q, Len(dstMsg[q]))
               /\ \A r \in Procs : ~IsUdp(r) /\ descr[r] = descr[q] => r = q))'
  BY <1>1, SourcesStay
<1>6. phase' = "run" => \A q \in Procs : descr'[q] # 0
  BY <1>1, <1>2 DEF SourceInv, Procs
<1>7. SourceInv'
  BY <1>1, <1>5, <1>6 DEF SourceInv
<1> QED BY <1>3, <1>4, <1>7 DEF LayoutInv

LEMMA LayoutStutters == LayoutInv /\ UNCHANGED layout => LayoutInv'
<1> SUFFICES ASSUME LayoutInv, UNCHANGED layout PROVE LayoutInv'
  OBVIOUS
<1>1. /\ sys' = sys /\ phase' = phase /\ i' = i /\ k' = k /\ errs' = errs
      /\ dstMsg' = dstMsg /\ srcMsg' = srcMsg /\ size' = size /\ offset' = offset
      /\ br' = br /\ bridges' = bridges /\ descr' = descr
  BY DEF layout
<1>2. LayoutTypeOK'
  BY <1>1 DEF LayoutInv, LayoutTypeOK
<1>3. \A p, n : LaidOut(p, n)' <=> LaidOut(p, n)
  BY <1>1 DEF LaidOut, EndOf, Msg
<1>4. MsgInv'
  BY <1>1, <1>3 DEF LayoutInv, MsgInv, Msg
<1>5. (\A q \in Procs : ~IsUdp(q) /\ descr[q] # 0 =>
              (/\ descr[q] \in DOMAIN bridges
               /\ TheBridge(q).topics # <<>>
               /\ BridgeOf(TheBridge(q), q, Len(dstMsg[q]))
               /\ \A r \in Procs : ~IsUdp(r) /\ descr[r] = descr[q] => r = q))'
  BY <1>1, SourcesStay DEF LayoutInv
<1>6. phase = "bridge" => /\ ~IsUdp(i)' /\ k' <= Len(dstMsg'[i']) + 1
                          /\ BridgeOf(br, i, k - 1)'
  BY <1>1 DEF LayoutInv, SourceInv, IsUdp, Cfg, BridgeOf, EndOf
<1>7. SourceInv'
  BY <1>1, <1>5, <1>6 DEF LayoutInv, SourceInv
<1> QED BY <1>2, <1>4, <1>7 DEF LayoutInv

LEMMA LayoutSteps == LayoutInv /\ [LayoutNext]_layout => LayoutInv'
<1>1. LayoutInv /\ UNCHANGED layout => LayoutInv'
  BY LayoutStutters
<1> QED BY <1>1, LoadFieldStep, MessageLoadedStep, OpenSocketStep, BeginBridgeStep,
           BridgeFieldStep, EndBridgeStep, EndInputsStep DEF LayoutNext
-----------------------------------------------------------------------------
(* The threads.                                                            *)

\* One message sent for each item taken, but for the one in hand (or lost).
ThreadInv ==
    /\ phase # "run" => spilt = {}
    /\ \A p \in Procs :
         /\ pc[p] = "new" => sent[p] = <<>>
         /\ pc[p] = "wait" => ~IsUdp(p)
         /\ pc[p] = "read" => ~IsUdp(p) /\ at[p] \in 1..Len(TheBridge(p).topics)
         /\ taken[p] = IF pc[p] \in {"send", "ended"} THEN Len(sent[p]) + 1 ELSE Len(sent[p])
         /\ \A n \in 1..Len(sent[p]) : sent[p][n].item = n

IInv == LayoutInv /\ TypeOK /\ ThreadInv

threads == <<pc, src, dst, at, seen, spilt, ver, came, taken, sent>>

LEMMA InitInv == Init => IInv
<1> SUFFICES ASSUME Init PROVE IInv
  OBVIOUS
<1> USE DEF Init
<1>1. LayoutInv /\ LayoutTypeOK
  BY LayoutInitially DEF LayoutInv
<1>2. TypeOK
  BY <1>1 DEF TypeOK
<1>3. ThreadInv
  BY DEF ThreadInv
<1> QED BY <1>1, <1>2, <1>3 DEF IInv

\* The layout is made before the first thread runs.
LEMMA LayoutFirst ==
    ASSUME IInv, LayoutNext
    PROVE  /\ phase # "run" /\ spilt = {}
           /\ \A p \in Procs : /\ pc[p] = "new" /\ sent[p] = <<>> /\ taken[p] = 0
                               /\ IsUdp(p)' = IsUdp(p)
<1>1. phase # "run" /\ sys' = sys
  BY DEF LayoutNext, LoadField, MessageLoaded, OpenSocket, BeginBridge, BridgeField, EndBridge,
         EndInputs
<1>2. \A p \in Procs : pc[p] = "new"
  BY <1>1 DEF IInv, TypeOK
<1>3. \A p \in Procs : sent[p] = <<>> /\ taken[p] = 0
  <2> TAKE p \in Procs
  <2>1. sent[p] = <<>> /\ taken[p] = Len(sent[p])
    BY <1>2 DEF IInv, ThreadInv
  <2> QED BY <2>1
<1> QED BY <1>1, <1>2, <1>3 DEF IInv, ThreadInv, IsUdp, Cfg

LEMMA LayoutStepInv == IInv /\ LayoutStep => IInv'
<1> SUFFICES ASSUME IInv, LayoutStep PROVE IInv'
  OBVIOUS
<1>1. LayoutNext /\ UNCHANGED threads
  BY DEF LayoutStep, threads
<1>2. LayoutInv' /\ LayoutTypeOK'
  BY <1>1, LayoutSteps DEF IInv, LayoutInv
<1>3. TypeOK'
  <2>1. \A p \in Procs : (/\ pc[p] = "new" /\ sent[p] = <<>> /\ taken[p] = 0)'
    BY <1>1, LayoutFirst DEF threads
  <2>2. \A p \in Procs : (sent[p] \in Seq([item : Nat, bytes : [Positions(p) -> Cell]]))'
    <3>1. \A S : <<>> \in Seq(S)
      OBVIOUS
    <3> QED BY <2>1, <3>1, Zenon
  <2>3. \A p \in Procs : (IsUdp(p) => taken[p] <= Len(came[p]))'
    BY <1>1, LayoutFirst DEF IInv, TypeOK, threads
  <2> QED BY <1>1, <1>2, <2>1, <2>2, <2>3 DEF IInv, TypeOK, threads
<1>4. ThreadInv'
  BY <1>1, LayoutFirst DEF ThreadInv, threads
<1> QED BY <1>2, <1>3, <1>4 DEF IInv

\* What the threads read of the layout stays.
LEMMA Frame ==
    ASSUME IInv, UNCHANGED layout
    PROVE  /\ LayoutInv' /\ LayoutTypeOK' /\ phase' = phase /\ sys' = sys /\ size' = size
           /\ dstMsg' = dstMsg /\ descr' = descr
           /\ \A p : /\ IsUdp(p)' = IsUdp(p) /\ TheBridge(p)' = TheBridge(p)
                     /\ Positions(p)' = Positions(p) /\ Cfg(p)' = Cfg(p)
  BY LayoutStutters DEF IInv, LayoutInv, layout, IsUdp, Cfg, TheBridge, Positions

\* A process that neither sends nor moves its thread disturbs nothing.
LEMMA UpdateInv ==
    ASSUME IInv, NEW x \in Names, Update(x)
    PROVE  IInv'
<1>1. /\ ver' = [ver EXCEPT ![x] = @ + 1]
      /\ UNCHANGED <<layout, pc, src, dst, at, seen, spilt, came, taken, sent>>
  BY DEF Update
<1>2. TypeOK'
  <2>1. ver' \in [Names -> Nat]
    BY <1>1 DEF IInv, TypeOK
  <2> QED BY <1>1, <2>1, Frame DEF IInv, TypeOK
<1>3. ThreadInv'
  BY <1>1, Frame DEF IInv, ThreadInv
<1> QED BY <1>1, <1>2, <1>3, Frame DEF IInv

LEMMA ArriveInv ==
    ASSUME IInv, NEW p \in Procs, Arrive(p)
    PROVE  IInv'
<1>1. /\ UNCHANGED <<layout, pc, src, dst, at, seen, spilt, ver, taken, sent>>
  BY DEF Arrive
<1>2. PICK l \in Lengths : came' = [came EXCEPT ![p] = Append(@, l)]
  BY DEF Arrive
<1>3. /\ came \in [Procs -> Seq(Nat)] /\ l \in Nat /\ came[p] \in Seq(Nat)
      /\ taken \in [Procs -> Nat]
  BY ProcessAssumption DEF IInv, TypeOK
<1>4. /\ Append(came[p], l) \in Seq(Nat)
      /\ Len(came[p]) \in Nat /\ Len(Append(came[p], l)) = Len(came[p]) + 1
  BY <1>3, AppendFacts
<1>5. came' \in [Procs -> Seq(Nat)]
  BY <1>2, <1>3, <1>4
<1>6. \A q \in Procs : IsUdp(q) => taken[q] <= Len(came'[q])
  BY <1>2, <1>3, <1>4 DEF IInv, TypeOK
<1>7. TypeOK'
  BY <1>1, <1>5, <1>6, Frame DEF IInv, TypeOK
<1>8. ThreadInv'
  BY <1>1, Frame DEF IInv, ThreadInv
<1> QED BY <1>1, <1>7, <1>8, Frame DEF IInv

LEMMA StartThreadInv ==
    ASSUME IInv, NEW p \in Procs, StartThread(p)
    PROVE  IInv'
<1>1. /\ phase = "run" /\ pc[p] = "new"
      /\ UNCHANGED <<layout, at, seen, spilt, ver, came, taken, sent>>
      /\ \/ /\ pc' = [pc EXCEPT ![p] = "recv"]
            /\ src' = [src EXCEPT ![p] = [b \in Positions(p) |-> Zero]]
            /\ dst' = [dst EXCEPT ![p] = [b \in Positions(p) |-> Zero]]
         \/ pc' = [pc EXCEPT ![p] = "absent"] /\ UNCHANGED <<src, dst>>
  BY DEF StartThread
<1>2. Zero \in Cell
  BY DEF Zero, Cell
<1>3. TypeOK'
  <2>1. pc' \in [Procs -> {"new", "absent", "recv", "wait", "read", "send", "ended"}]
    BY <1>1 DEF IInv, TypeOK
  <2>2. \A q \in Procs : pc'[q] \in {"recv", "wait", "read", "send", "ended"} =>
            src'[q] \in [Positions(q) -> Cell] /\ dst'[q] \in [Positions(q) -> Cell]
    <3> SUFFICES ASSUME NEW q \in Procs,
                        pc'[q] \in {"recv", "wait", "read", "send", "ended"}
                 PROVE  src'[q] \in [Positions(q) -> Cell] /\ dst'[q] \in [Positions(q) -> Cell]
      OBVIOUS
    <3>1. DOMAIN pc = Procs /\ DOMAIN src = Procs /\ DOMAIN dst = Procs
      BY DEF IInv, TypeOK
    <3>2. CASE q = p
      BY <1>1, <1>2, <3>1, <3>2
    <3>3. CASE q # p
      BY <1>1, <3>1, <3>3 DEF IInv, TypeOK
    <3> QED BY <3>2, <3>3
  <2>3. DOMAIN src' = Procs /\ DOMAIN dst' = Procs
    BY <1>1 DEF IInv, TypeOK
  <2> QED BY <1>1, <2>1, <2>2, <2>3, Frame DEF IInv, TypeOK
<1>4. ThreadInv'
  <2>1. \A q \in Procs \ {p} : pc'[q] = pc[q]
    BY <1>1 DEF IInv, TypeOK
  <2>2. pc'[p] \in {"recv", "absent"}
    BY <1>1 DEF IInv, TypeOK
  <2> QED BY <1>1, <2>1, <2>2, Frame DEF IInv, ThreadInv
<1> QED BY <1>1, <1>3, <1>4, Frame DEF IInv

LEMMA ReceiveInv ==
    ASSUME IInv, NEW p \in Procs, ReceiveDatagram(p)
    PROVE  IInv'
<1>1. /\ pc[p] = "recv" /\ IsUdp(p) /\ taken[p] < Len(came[p])
      /\ taken' = [taken EXCEPT ![p] = @ + 1]
      /\ src' = [src EXCEPT ![p] =
                 [b \in Positions(p) |-> IF b < came[p][taken'[p]] THEN NetByte(taken'[p], b)
                                                                   ELSE @[b]]]
      /\ pc' = [pc EXCEPT ![p] = "send"]
      /\ UNCHANGED <<layout, dst, at, seen, spilt, ver, came, sent>>
  BY DEF ReceiveDatagram
<1>2. /\ taken \in [Procs -> Nat] /\ pc \in [Procs -> {"new", "absent", "recv", "wait", "read", "send", "ended"}]
      /\ src[p] \in [Positions(p) -> Cell] /\ dst[p] \in [Positions(p) -> Cell]
      /\ DOMAIN src = Procs /\ phase = "run" /\ came[p] \in Seq(Nat)
  BY <1>1 DEF IInv, TypeOK
<1>3. /\ taken'[p] = taken[p] + 1 /\ taken'[p] \in Nat /\ Len(came[p]) \in Nat
      /\ \A q \in Procs \ {p} : taken'[q] = taken[q]
  BY <1>1, <1>2
<1>4. \A b \in Positions(p) : NetByte(taken'[p], b) \in Cell
  BY <1>3 DEF NetByte, Cell, Positions
<1>5. /\ src'[p] \in [Positions(p) -> Cell]
      /\ DOMAIN src' = Procs
      /\ \A q \in Procs \ {p} : src'[q] = src[q]
  BY <1>1, <1>2, <1>4
<1>6. \A q \in Procs : IsUdp(q) => taken'[q] <= Len(came[q])
  BY <1>1, <1>2, <1>3 DEF IInv, TypeOK
<1>7. TypeOK'
  BY <1>1, <1>2, <1>3, <1>5, <1>6, Frame DEF IInv, TypeOK
<1>8. ThreadInv'
  BY <1>1, <1>2, <1>3, Frame DEF IInv, TypeOK, ThreadInv
<1> QED BY <1>1, <1>7, <1>8, Frame DEF IInv

\* The bridge of a process, once all have their sources.
LEMMA BridgeFacts ==
    ASSUME IInv, NEW p \in Procs, phase = "run", ~IsUdp(p)
    PROVE  LET topics == TheBridge(p).topics IN
           /\ TheBridge(p) \in Bridge
           /\ Len(topics) \in Nat \ {0}
           /\ DOMAIN topics = 1..Len(topics)
           /\ \A j \in 1..Len(topics) : /\ topics[j].name \in Names
                                        /\ topics[j].width \in Nat
                                        /\ topics[j].offset \in Nat
<1>1. LayoutTypeOK /\ SourceInv
  BY DEF IInv, LayoutInv
<1>2. descr[p] \in DOMAIN bridges /\ TheBridge(p).topics # <<>>
  BY <1>1 DEF SourceInv
<1>3. TheBridge(p) \in Bridge
  BY <1>1, <1>2 DEF TheBridge, LayoutTypeOK
<1>4. TheBridge(p).topics \in Seq(Placed)
  BY <1>3 DEF Bridge
<1>5. /\ Len(TheBridge(p).topics) \in Nat
      /\ DOMAIN TheBridge(p).topics = 1..Len(TheBridge(p).topics)
      /\ \A j \in 1..Len(TheBridge(p).topics) : TheBridge(p).topics[j] \in Placed
  BY <1>4, SeqFacts
<1>6. Len(TheBridge(p).topics) # 0
  BY <1>2, <1>4
<1> QED BY <1>3, <1>5, <1>6 DEF Placed, Widths

LEMMA BeginWaitInv ==
    ASSUME IInv, NEW p \in Procs, BeginWait(p)
    PROVE  IInv'
<1>1. /\ pc[p] = "recv" /\ ~IsUdp(p)
      /\ pc' = [pc EXCEPT ![p] = "wait"]
      /\ seen' = seen \/ seen' = [seen EXCEPT ![p] = ver[ClockTopic(p)]]
      /\ UNCHANGED <<layout, src, dst, at, spilt, ver, came, taken, sent>>
  BY DEF BeginWait
<1>2. phase = "run"
  BY <1>1 DEF IInv, TypeOK
<1>3. ClockTopic(p) \in Names
  BY <1>1, <1>2, BridgeFacts DEF ClockTopic, Last
<1>4. seen' \in [Procs -> Nat]
  BY <1>1, <1>3 DEF IInv, TypeOK
<1>5. TypeOK'
  BY <1>1, <1>2, <1>4, Frame DEF IInv, TypeOK
<1>6. ThreadInv'
  BY <1>1, <1>2, Frame DEF IInv, TypeOK, ThreadInv
<1> QED BY <1>1, <1>5, <1>6, Frame DEF IInv

LEMMA AwaitInv ==
    ASSUME IInv, NEW p \in Procs, AwaitUpdate(p)
    PROVE  IInv'
<1>1. /\ pc[p] = "wait"
      /\ seen' = [seen EXCEPT ![p] = ver[ClockTopic(p)]]
      /\ at' = [at EXCEPT ![p] = 1]
      /\ pc' = [pc EXCEPT ![p] = "read"]
      /\ UNCHANGED <<layout, src, dst, spilt, ver, came, taken, sent>>
  BY DEF AwaitUpdate
<1>2. phase = "run" /\ ~IsUdp(p)
  BY <1>1 DEF IInv, TypeOK, ThreadInv
<1>3. Len(TheBridge(p).topics) \in Nat \ {0} /\ ClockTopic(p) \in Names
  BY <1>2, BridgeFacts DEF ClockTopic, Last
<1>4. ver[ClockTopic(p)] \in Nat
  BY <1>3 DEF IInv, TypeOK
<1>5. TypeOK'
  BY <1>1, <1>2, <1>4, Frame DEF IInv, TypeOK
<1>6. ThreadInv'
  <2>1. \A q \in Procs \ {p} : pc'[q] = pc[q] /\ at'[q] = at[q]
    BY <1>1 DEF IInv, TypeOK
  <2>2. pc'[p] = "read" /\ at'[p] = 1 /\ 1 \in 1..Len(TheBridge(p).topics)
    BY <1>1, <1>3 DEF IInv, TypeOK
  <2> QED BY <1>1, <1>2, <2>1, <2>2, Frame DEF IInv, ThreadInv
<1> QED BY <1>1, <1>5, <1>6, Frame DEF IInv

LEMMA ReadInv ==
    ASSUME IInv, NEW p \in Procs, ReadTopic(p)
    PROVE  IInv'
<1> DEFINE t == TheBridge(p).topics[at[p]]
           full == [b \in Positions(p) |->
                       IF b >= t.offset /\ b < t.offset + t.width
                       THEN TopicByte(t.name, ver[t.name], b - t.offset) ELSE src[p][b]]
<1>1. /\ pc[p] = "read"
      /\ src' = [src EXCEPT ![p] = full]
      /\ spilt' \in {spilt, spilt \cup {p}}
      /\ \/ at' = [at EXCEPT ![p] = @ + 1] /\ at[p] < Len(TheBridge(p).topics) /\ UNCHANGED <<pc, taken>>
         \/ /\ pc' = [pc EXCEPT ![p] = "send"]
            /\ taken' = [taken EXCEPT ![p] = @ + 1]
            /\ UNCHANGED at
      /\ UNCHANGED <<layout, dst, seen, ver, came, sent>>
  BY DEF ReadTopic, IInv, TypeOK
<1>2. /\ pc \in [Procs -> {"new", "absent", "recv", "wait", "read", "send", "ended"}]
      /\ src[p] \in [Positions(p) -> Cell] /\ dst[p] \in [Positions(p) -> Cell]
      /\ DOMAIN src = Procs /\ phase = "run" /\ at \in [Procs -> Nat]
      /\ taken \in [Procs -> Nat] /\ ver \in [Names -> Nat]
  BY <1>1 DEF IInv, TypeOK
<1>3. ~IsUdp(p) /\ at[p] \in 1..Len(TheBridge(p).topics)
  BY <1>1 DEF IInv, ThreadInv
<1>4. t.name \in Names /\ t.offset \in Nat /\ t.width \in Nat /\ Len(TheBridge(p).topics) \in Nat
  BY <1>2, <1>3, BridgeFacts
<1>5. \A b \in Positions(p) : full[b] \in Cell
  <2> TAKE b \in Positions(p)
  <2>1. b \in Nat
    BY DEF Positions
  <2>2. CASE b >= t.offset /\ b < t.offset + t.width
    <3>1. TopicByte(t.name, ver[t.name], b - t.offset) \in Cell
      <4>1. b - t.offset \in Nat /\ ver[t.name] \in Nat
        BY <2>1, <2>2, <1>2, <1>4
      <4> HIDE DEF t
      <4> QED BY <1>4, <4>1 DEF TopicByte, Cell
    <3> QED BY <2>2, <3>1
  <2>3. CASE ~(b >= t.offset /\ b < t.offset + t.width)
    BY <2>3, <1>2
  <2> QED BY <2>2, <2>3
<1>6. full \in [Positions(p) -> Cell]
  BY <1>5
<1>7. /\ src'[p] \in [Positions(p) -> Cell]
      /\ DOMAIN src' = Procs
      /\ \A q \in Procs \ {p} : src'[q] = src[q]
  <2> HIDE DEF full
  <2> QED BY <1>1, <1>2, <1>6
<1> HIDE DEF t, full
<1>8. TypeOK'
  <2>1. \A q \in Procs : pc'[q] \in {"recv", "wait", "read", "send", "ended"} => 
            src'[q] \in [Positions(q) -> Cell] /\ dst[q] \in [Positions(q) -> Cell]
    BY <1>1, <1>2, <1>7 DEF IInv, TypeOK
  <2>2. spilt' \subseteq Procs /\ at' \in [Procs -> Nat] /\ taken' \in [Procs -> Nat]
    <3>1. spilt' \subseteq Procs
      BY <1>1 DEF IInv, TypeOK
    <3>2. at[p] + 1 \in Nat /\ taken[p] + 1 \in Nat
      BY <1>2
    <3> QED BY <1>1, <1>2, <3>1, <3>2
  <2>3. \A q \in Procs : IsUdp(q) => taken'[q] = taken[q]
    BY <1>1, <1>2, <1>3
  <2>4. pc' \in [Procs -> {"new", "absent", "recv", "wait", "read", "send", "ended"}]
    BY <1>1, <1>2
  <2> QED BY <1>1, <1>2, <1>7, <2>1, <2>2, <2>3, <2>4, Frame DEF IInv, TypeOK
<1>9. ThreadInv'
  <2>1. \A q \in Procs \ {p} : pc'[q] = pc[q] /\ at'[q] = at[q] /\ taken'[q] = taken[q]
    BY <1>1, <1>2
  <2>2. \/ pc'[p] = "read" /\ at'[p] \in 1..Len(TheBridge(p).topics) /\ taken'[p] = taken[p]
        \/ pc'[p] = "send" /\ taken'[p] = taken[p] + 1
    BY <1>1, <1>2, <1>3, <1>4
  <2>3. (\A q \in Procs :
           /\ pc[q] = "new" => sent[q] = <<>>
           /\ pc[q] = "wait" => ~IsUdp(q)
           /\ pc[q] = "read" => ~IsUdp(q) /\ at[q] \in 1..Len(TheBridge(q).topics)
           /\ taken[q] = IF pc[q] \in {"send", "ended"} THEN Len(sent[q]) + 1 ELSE Len(sent[q])
           /\ \A n \in 1..Len(sent[q]) : sent[q][n].item = n)'
    <3> SUFFICES ASSUME NEW q \in Procs
                 PROVE  (/\ pc[q] = "new" => sent[q] = <<>>
                         /\ pc[q] = "wait" => ~IsUdp(q)
                         /\ pc[q] = "read" => ~IsUdp(q) /\ at[q] \in 1..Len(TheBridge(q).topics)
                         /\ taken[q] = IF pc[q] \in {"send", "ended"} THEN Len(sent[q]) + 1
                                                                      ELSE Len(sent[q])
                         /\ \A n \in 1..Len(sent[q]) : sent[q][n].item = n)'
      OBVIOUS
    <3>0. /\ UNCHANGED <<layout, sent>>
          /\ sent[q]' = sent[q] /\ IsUdp(q)' = IsUdp(q) /\ TheBridge(q)' = TheBridge(q)
      BY <1>1, Frame
    <3>1. CASE q = p
      <4>1. taken[p] = Len(sent[p]) /\ \A n \in 1..Len(sent[p]) : sent[p][n].item = n
        BY <1>1 DEF IInv, ThreadInv
      <4> QED BY <2>2, <3>0, <3>1, <4>1, <1>3
    <3>2. CASE q # p
      BY <2>1, <3>0, <3>2 DEF IInv, ThreadInv
    <3> QED BY <3>1, <3>2
  <2>4. phase' = "run"
    BY <1>1, <1>2, Frame
  <2> QED BY <2>3, <2>4 DEF ThreadInv
<1> QED BY <1>1, <1>8, <1>9, Frame DEF IInv

LEMMA ReadFailsInv ==
    ASSUME IInv, NEW p \in Procs, ReadFails(p)
    PROVE  IInv'
<1>1. /\ pc[p] = "read" /\ pc' = [pc EXCEPT ![p] = "recv"]
      /\ UNCHANGED <<layout, src, dst, at, seen, spilt, ver, came, taken, sent>>
  BY DEF ReadFails
<1>2. TypeOK'
  BY <1>1, Frame DEF IInv, TypeOK
<1>3. ThreadInv'
  BY <1>1, Frame DEF IInv, TypeOK, ThreadInv
<1> QED BY <1>1, <1>2, <1>3, Frame DEF IInv

LEMMA SendInv ==
    ASSUME IInv, NEW p \in Procs, Send(p)
    PROVE  IInv'
<1> DEFINE item == [item |-> taken[p], bytes |-> src[p]]
           S(q) == [item : Nat, bytes : [Positions(q) -> Cell]]
<1>1. /\ pc[p] = "send" /\ dst' = [dst EXCEPT ![p] = src[p]]
      /\ UNCHANGED <<layout, src, at, seen, spilt, ver, came, taken>>
  BY DEF Send
<1>2. /\ pc \in [Procs -> {"new", "absent", "recv", "wait", "read", "send", "ended"}]
      /\ src[p] \in [Positions(p) -> Cell] /\ DOMAIN dst = Procs /\ DOMAIN src = Procs
      /\ phase = "run" /\ taken[p] \in Nat /\ sent[p] \in Seq(S(p))
  BY <1>1 DEF IInv, TypeOK
<1>3. dst'[p] = src[p] /\ DOMAIN dst' = Procs /\ \A q \in Procs \ {p} : dst'[q] = dst[q]
  BY <1>1, <1>2
<1>4. \/ pc' = [pc EXCEPT ![p] = "recv"] /\ sent' = [sent EXCEPT ![p] = Append(@, item)]
      \/ pc' = [pc EXCEPT ![p] = "ended"] /\ sent' = sent
  BY <1>3 DEF Send
<1>5. item \in S(p)
  BY <1>2
<1>6. taken[p] = Len(sent[p]) + 1 /\ \A n \in 1..Len(sent[p]) : sent[p][n].item = n
  BY <1>1 DEF IInv, ThreadInv
<1>7. /\ Append(sent[p], item) \in Seq(S(p)) /\ Len(sent[p]) \in Nat
      /\ Len(Append(sent[p], item)) = Len(sent[p]) + 1
      /\ \A n \in 1..Len(sent[p]) + 1 : Append(sent[p], item)[n].item = n
  <2>1. /\ Append(sent[p], item) \in Seq(S(p)) /\ Len(sent[p]) \in Nat
        /\ Len(Append(sent[p], item)) = Len(sent[p]) + 1 /\ DOMAIN sent[p] = 1..Len(sent[p])
        /\ \A j \in DOMAIN sent[p] : Append(sent[p], item)[j] = sent[p][j]
        /\ Append(sent[p], item)[Len(sent[p]) + 1] = item
    <3> HIDE DEF item, S
    <3> QED BY <1>2, <1>5, AppendFacts
  <2>2. item.item = Len(sent[p]) + 1
    BY <1>6
  <2> QED BY <2>1, <2>2, <1>6
<1>8. DOMAIN sent = Procs
  BY DEF IInv, TypeOK
<1> HIDE DEF item
<1>9. TypeOK'
  <2>1. \A q \in Procs : pc'[q] \in {"recv", "wait", "read", "send", "ended"} => 
            src[q] \in [Positions(q) -> Cell] /\ dst'[q] \in [Positions(q) -> Cell]
    BY <1>1, <1>2, <1>3, <1>4 DEF IInv, TypeOK
  <2>2. pc' \in [Procs -> {"new", "absent", "recv", "wait", "read", "send", "ended"}]
    BY <1>2, <1>4
  <2>3. \A q \in Procs : sent'[q] \in Seq(S(q))
    BY <1>4, <1>7, <1>8 DEF IInv, TypeOK
  <2>4. DOMAIN sent' = Procs
    BY <1>4, <1>8
  <2>5. (\A q \in Procs : sent[q] \in Seq([item : Nat, bytes : [Positions(q) -> Cell]]))'
    BY <1>1, <2>3, Frame
  <2> QED BY <1>1, <1>2, <1>3, <2>1, <2>2, <2>4, <2>5, Frame DEF IInv, TypeOK
<1>10. ThreadInv'
  <2>1. \A q \in Procs \ {p} : pc'[q] = pc[q] /\ sent'[q] = sent[q]
    BY <1>2, <1>4, <1>8
  <2>2. \/ pc'[p] = "recv" /\ sent'[p] = Append(sent[p], item)
        \/ pc'[p] = "ended" /\ sent'[p] = sent[p]
    BY <1>2, <1>4, <1>8
  <2>3. \/ Len(sent'[p]) = taken[p] /\ pc'[p] = "recv"
        \/ Len(sent'[p]) = Len(sent[p]) /\ pc'[p] = "ended"
    <3>1. CASE sent'[p] = sent[p] /\ pc'[p] = "ended"
      BY <3>1
    <3>2. CASE sent'[p] = Append(sent[p], item) /\ pc'[p] = "recv"
      <4>1. Len(Append(sent[p], item)) = taken[p]
        BY <1>6, <1>7
      <4> QED BY <3>2, <4>1
    <3> QED BY <2>2, <3>1, <3>2
  <2>4. \A n \in 1..Len(sent'[p]) : sent'[p][n].item = n
    <3>1. CASE sent'[p] = sent[p]
      BY <3>1, <1>6
    <3>2. CASE sent'[p] = Append(sent[p], item)
      BY <3>2, <1>7
    <3> QED BY <2>2, <3>1, <3>2
  <2> QED BY <1>1, <1>2, <1>6, <2>1, <2>3, <2>4, Frame DEF IInv, ThreadInv
<1> QED BY <1>1, <1>9, <1>10, Frame DEF IInv

LEMMA StutterInv ==
    ASSUME IInv, UNCHANGED vars
    PROVE  IInv'
<1>1. UNCHANGED <<layout, pc, src, dst, at, seen, spilt, ver, came, taken, sent>>
  BY DEF vars
<1>2. TypeOK'
  BY <1>1, Frame DEF IInv, TypeOK
<1>3. ThreadInv'
  BY <1>1, Frame DEF IInv, ThreadInv
<1> QED BY <1>1, <1>2, <1>3, Frame DEF IInv

LEMMA StepInv == IInv /\ [Next]_vars => IInv'
  BY LayoutStepInv, UpdateInv, ArriveInv, StartThreadInv, ReceiveInv, BeginWaitInv,
     AwaitInv, ReadInv, ReadFailsInv, SendInv, StutterInv DEF Next, Loop

LEMMA Invariance == Spec => []IInv
  BY InitInv, StepInv, PTL DEF Spec

\* Messages, buffers, bridges and what was sent have their types: in particular
\* no conversion reads or writes outside the buffers of its process.
THEOREM IbrTypes == Spec => []TypeOK
<1>1. IInv => TypeOK
  BY DEF IInv
<1> QED BY <1>1, Invariance, PTL

\* A bridge writes behind the buffer of its process only if a topic is wider
\* than the field of its name (ibr.c:173 does not compare the sizes).
THEOREM IbrSpills == Spec => []SpillsOnlyIfWider
<1>1. Init => SpillsOnlyIfWider
  BY DEF Init, SpillsOnlyIfWider
<1>2. IInv /\ SpillsOnlyIfWider /\ [Next]_vars => SpillsOnlyIfWider'
  <2> SUFFICES ASSUME IInv, SpillsOnlyIfWider, [Next]_vars PROVE SpillsOnlyIfWider'
    OBVIOUS
  <2>1. CASE LayoutStep
    <3>1. spilt' = {}
      BY <2>1, LayoutFirst DEF LayoutStep
    <3> QED BY <3>1 DEF SpillsOnlyIfWider
  <2>2. CASE spilt' = spilt /\ UNCHANGED layout
    BY <2>2, Frame DEF SpillsOnlyIfWider
  <2>3. ASSUME NEW p \in Procs, ReadTopic(p), spilt' # spilt
        PROVE  SpillsOnlyIfWider'
    <3> DEFINE t == TheBridge(p).topics[at[p]]
    <3>1. /\ pc[p] = "read" /\ spilt' = spilt \cup {p} /\ UNCHANGED layout
          /\ t.offset + t.width > size[p]
      BY <2>3 DEF ReadTopic
    <3>2. phase = "run" /\ ~IsUdp(p) /\ at[p] \in 1..Len(TheBridge(p).topics)
      BY <3>1 DEF IInv, TypeOK, ThreadInv
    <3>3. /\ BridgeOf(TheBridge(p), p, Len(dstMsg[p])) /\ LaidOut(p, Len(Msg(p)))
          /\ sys \in Setups
      BY <3>2 DEF IInv, LayoutInv, LayoutTypeOK, SourceInv, MsgInv
    <3>4. /\ size[p] = EndOf(p, Len(dstMsg[p])) /\ TheBridge(p).size \in Nat
          /\ size[p] \in Nat /\ t.offset \in Nat /\ t.width \in Nat
          /\ at[p] \in DOMAIN TheBridge(p).topics
      BY <3>2, <3>3, BridgeFacts DEF LaidOut, Bridge, IInv, LayoutInv, LayoutTypeOK
    <3>5. t.offset + t.width <= TheBridge(p).size
      BY <3>3, <3>4 DEF BridgeOf
    <3>6. PICK f \in 1..Len(dstMsg[p]) : ~(sys.topic[dstMsg[p][f].name].kind = "value" =>
                           sys.topic[dstMsg[p][f].name].width <= dstMsg[p][f].width)
      <4> HIDE DEF t
      <4> QED BY <3>1, <3>3, <3>4, <3>5 DEF BridgeOf
    <3>7. /\ f \in DOMAIN dstMsg[p] /\ dstMsg[p][f].name \in Names
          /\ dstMsg[p][f].width \in Nat
      <4>1. dstMsg[p] \in Seq(Placed)
        BY DEF IInv, LayoutInv, LayoutTypeOK
      <4>2. f \in DOMAIN dstMsg[p] /\ dstMsg[p][f] \in Placed
        BY <4>1, SeqFacts
      <4> QED BY <4>2 DEF Placed, Widths
    <3>8. sys.topic[dstMsg[p][f].name].width > dstMsg[p][f].width
      BY <3>3, <3>6, <3>7, SysFacts DEF Widths
    <3> QED BY <3>1, <3>6, <3>7, <3>8, Frame DEF SpillsOnlyIfWider
  <2>4. LayoutStep \/ (spilt' = spilt /\ UNCHANGED layout)
          \/ \E p \in Procs : ReadTopic(p) /\ UNCHANGED layout /\ spilt' # spilt
    BY DEF Next, Loop, Update, Arrive, StartThread, ReceiveDatagram, BeginWait, AwaitUpdate,
           ReadTopic, ReadFails, Send, vars
  <2> QED BY <2>1, <2>2, <2>3, <2>4
<1> QED BY <1>1, <1>2, Invariance, PTL DEF Spec

-----------------------------------------------------------------------------
(* What a message from a socket consists of.                               *)

\* Each cell is of the newest of the first n datagrams that reaches so far.
Filled(p, cells, n) ==
    \A b \in Positions(p) :
        \/ /\ \A m \in 1..n : ~(came[p][m] > b)
           /\ cells[b] = Zero
        \/ \E m \in 1..n : /\ came[p][m] > b
                           /\ \A l \in 1..n : came[p][l] > b => l <= m
                           /\ cells[b] = NetByte(m, b)

NewestInv ==
    \A p \in Procs : IsUdp(p) =>
        /\ pc[p] \in {"recv", "send"} => Filled(p, src[p], taken[p])
        /\ \A j \in DOMAIN sent[p] : Filled(p, sent[p][j].bytes, sent[p][j].item)

LEMMA NewestMeansFilled == NewestInv => NewestLongEnough
<1> SUFFICES ASSUME NewestInv, NEW p \in Procs, NEW j \in DOMAIN sent[p], NEW b \in Positions(p),
                    IsUdp(p)
             PROVE  LET n == sent[p][j].item
                        reach == {m \in 1..n : came[p][m] > b}
                    IN  \/ reach = {} /\ sent[p][j].bytes[b] = Zero
                        \/ \E m \in reach : /\ \A l \in reach : l <= m
                                            /\ sent[p][j].bytes[b] = NetByte(m, b)
  BY DEF NewestLongEnough
<1>1. Filled(p, sent[p][j].bytes, sent[p][j].item)
  BY DEF NewestInv
<1> QED BY <1>1 DEF Filled

LEMMA ItemsAreOld ==
    ASSUME IInv, NEW p \in Procs
    PROVE  /\ taken[p] \in Nat
           /\ \A j \in DOMAIN sent[p] : sent[p][j].item \in 1..taken[p]
<1>1. /\ taken[p] \in Nat /\ sent[p] \in Seq([item : Nat, bytes : [Positions(p) -> Cell]])
  BY DEF IInv, TypeOK
<1>2. Len(sent[p]) \in Nat /\ DOMAIN sent[p] = 1..Len(sent[p])
  BY <1>1
<1>3. Len(sent[p]) <= taken[p] /\ \A n \in 1..Len(sent[p]) : sent[p][n].item = n
  BY <1>2 DEF IInv, ThreadInv
<1> QED BY <1>1, <1>2, <1>3

LEMMA NewestStep == IInv /\ NewestInv /\ [Next]_vars => NewestInv'
<1> SUFFICES ASSUME IInv, NewestInv, [Next]_vars PROVE NewestInv'
  OBVIOUS
<1>1. CASE LayoutStep
  <2>1. \A p \in Procs : (pc[p] = "new" /\ sent[p] = <<>>)'
    BY <1>1, LayoutFirst DEF LayoutStep
  <2> QED BY <2>1 DEF NewestInv
<1>2. ASSUME NEW p \in Procs, Arrive(p) PROVE NewestInv'
  <2>1. /\ UNCHANGED <<layout, pc, src, taken, sent>>
        /\ \E l \in Lengths : came' = [came EXCEPT ![p] = Append(@, l)]
    BY <1>2 DEF Arrive
  <2>2. PICK l \in Lengths : came' = [came EXCEPT ![p] = Append(@, l)]
    BY <2>1
  <2>3. \A q \in Procs : \A m \in 1..Len(came[q]) : came'[q][m] = came[q][m]
    <3>1. came \in [Procs -> Seq(Nat)] /\ l \in Nat
      BY ProcessAssumption DEF IInv, TypeOK
    <3>2. \A m \in 1..Len(came[p]) : Append(came[p], l)[m] = came[p][m]
      BY <3>1, AppendFacts
    <3> QED BY <2>2, <3>1, <3>2
  <2>4. /\ \A q \in Procs : IsUdp(q)' = IsUdp(q) /\ Positions(q)' = Positions(q)
        /\ src' = src /\ taken' = taken /\ sent' = sent /\ pc' = pc
    BY <2>1, Frame
  <2>5. SUFFICES ASSUME NEW q \in Procs, IsUdp(q)
                 PROVE  (/\ pc[q] \in {"recv", "send"} => Filled(q, src[q], taken[q])
                         /\ \A j \in DOMAIN sent[q] : Filled(q, sent[q][j].bytes, sent[q][j].item))'
    BY <2>4 DEF NewestInv
  <2>6. /\ taken[q] \in Nat /\ Len(came[q]) \in Nat /\ taken[q] <= Len(came[q])
        /\ \A j \in DOMAIN sent[q] : sent[q][j].item \in 1..taken[q]
    <3>1. came[q] \in Seq(Nat) /\ taken[q] <= Len(came[q])
      BY <2>5 DEF IInv, TypeOK
    <3> QED BY <3>1, ItemsAreOld
  <2>7. \A m \in 1..taken[q] : came'[q][m] = came[q][m]
    BY <2>3, <2>6
  <2>8. \A j \in DOMAIN sent[q] : \A m \in 1..sent[q][j].item : came'[q][m] = came[q][m]
    BY <2>3, <2>6
  <2>9. (pc[q] \in {"recv", "send"} => Filled(q, src[q], taken[q]))'
    BY <2>4, <2>5, <2>7 DEF NewestInv, Filled
  <2>10. (\A j \in DOMAIN sent[q] : Filled(q, sent[q][j].bytes, sent[q][j].item))'
    BY <2>4, <2>5, <2>8 DEF NewestInv, Filled
  <2> QED BY <2>9, <2>10
<1>3. ASSUME NEW p \in Procs, ReceiveDatagram(p) PROVE NewestInv'
  <2> DEFINE n == taken[p] + 1
  <2>1. /\ pc[p] = "recv" /\ IsUdp(p) /\ taken[p] < Len(came[p])
        /\ taken' = [taken EXCEPT ![p] = @ + 1]
        /\ src' = [src EXCEPT ![p] =
                 [b \in Positions(p) |-> IF b < came[p][taken'[p]] THEN NetByte(taken'[p], b)
                                                                   ELSE @[b]]]
        /\ pc' = [pc EXCEPT ![p] = "send"]
        /\ UNCHANGED <<layout, came, sent>>
    BY <1>3 DEF ReceiveDatagram
  <2>2. /\ taken \in [Procs -> Nat] /\ DOMAIN src = Procs /\ came[p] \in Seq(Nat)
        /\ DOMAIN pc = Procs
    BY DEF IInv, TypeOK
  <2>3. n \in Nat /\ taken'[p] = n /\ n \in 1..Len(came[p])
    BY <2>1, <2>2
  <2>4. came[p][n] \in Nat
    BY <2>2, <2>3
  <2>5. \A b \in Positions(p) : src'[p][b] = IF b < came[p][n] THEN NetByte(n, b) ELSE src[p][b]
    BY <2>1, <2>2, <2>3
  <2>6. Filled(p, src'[p], n)
    <3> SUFFICES ASSUME NEW b \in Positions(p)
                 PROVE  \/ /\ \A m \in 1..n : ~(came[p][m] > b)
                           /\ src'[p][b] = Zero
                        \/ \E m \in 1..n : /\ came[p][m] > b
                                           /\ \A l \in 1..n : came[p][l] > b => l <= m
                                           /\ src'[p][b] = NetByte(m, b)
      BY DEF Filled
    <3>1. b \in Int /\ taken[p] \in Nat
      BY <2>2 DEF Positions, IInv, LayoutInv, LayoutTypeOK
    <3>2. CASE b < came[p][n]
      <4>1. n \in 1..n /\ came[p][n] > b /\ \A l \in 1..n : l <= n
        BY <2>3, <2>4, <3>1, <3>2
      <4> QED BY <4>1, <3>2, <2>5
    <3>3. CASE ~(b < came[p][n])
      <4>1. src'[p][b] = src[p][b] /\ ~(came[p][n] > b)
        BY <3>3, <2>5, <2>4, <3>1
      <4>2. 1..n = 1..taken[p] \cup {n}
        BY <3>1
      <4>3. Filled(p, src[p], taken[p])
        BY <2>1 DEF NewestInv
      <4> QED BY <4>1, <4>2, <4>3 DEF Filled
    <3> QED BY <3>2, <3>3
  <2>7. /\ \A q \in Procs \ {p} : src'[q] = src[q] /\ taken'[q] = taken[q] /\ pc'[q] = pc[q]
        /\ pc'[p] = "send" /\ sent' = sent /\ came' = came
        /\ \A q \in Procs : IsUdp(q)' = IsUdp(q) /\ Positions(q)' = Positions(q)
    BY <2>1, <2>2, Frame
  <2> QED BY <2>3, <2>6, <2>7 DEF NewestInv, Filled
<1>4. ASSUME NEW p \in Procs, Send(p) PROVE NewestInv'
  <2> DEFINE item == [item |-> taken[p], bytes |-> src[p]]
             S == [item : Nat, bytes : [Positions(p) -> Cell]]
  <2>1. /\ pc[p] = "send" /\ dst' = [dst EXCEPT ![p] = src[p]]
        /\ \/ /\ sent' = [sent EXCEPT ![p] = Append(@, [item |-> taken[p], bytes |-> dst'[p]])]
              /\ pc' = [pc EXCEPT ![p] = "recv"]
           \/ pc' = [pc EXCEPT ![p] = "ended"] /\ UNCHANGED sent
        /\ UNCHANGED <<layout, src, came, taken>>
    BY <1>4 DEF Send
  <2>2. /\ DOMAIN dst = Procs /\ DOMAIN sent = Procs /\ DOMAIN pc = Procs
        /\ taken[p] \in Nat /\ src[p] \in [Positions(p) -> Cell] /\ sent[p] \in Seq(S)
    BY <2>1 DEF IInv, TypeOK
  <2>3. /\ dst'[p] = src[p] /\ item \in S /\ came' = came /\ taken' = taken /\ src' = src
        /\ \A q \in Procs : IsUdp(q)' = IsUdp(q) /\ Positions(q)' = Positions(q)
    BY <2>1, <2>2, Frame
  <2>4. /\ \A q \in Procs \ {p} : sent'[q] = sent[q] /\ pc'[q] = pc[q]
        /\ pc'[p] \in {"recv", "ended"}
        /\ sent'[p] \in {sent[p], Append(sent[p], item)}
    BY <2>1, <2>2, <2>3
  <2>5. \A j \in DOMAIN sent'[p] : \/ j \in DOMAIN sent[p] /\ sent'[p][j] = sent[p][j]
                                   \/ sent'[p][j] = item
    <3>1. CASE sent'[p] = sent[p]
      BY <3>1
    <3>2. CASE sent'[p] = Append(sent[p], item)
      <4> HIDE DEF item, S
      <4>1. /\ DOMAIN sent[p] = 1..Len(sent[p]) /\ Len(sent[p]) \in Nat
            /\ DOMAIN sent'[p] = 1..Len(sent[p]) + 1
            /\ \A j \in DOMAIN sent[p] : sent'[p][j] = sent[p][j]
            /\ sent'[p][Len(sent[p]) + 1] = item
        BY <3>2, <2>2, <2>3, AppendFacts
      <4> QED BY <4>1
    <3> QED BY <2>4, <3>1, <3>2
  <2>6. IsUdp(p) => /\ Filled(p, src[p], taken[p])
                    /\ \A j \in DOMAIN sent'[p] : Filled(p, sent'[p][j].bytes, sent'[p][j].item)
    <3> SUFFICES ASSUME IsUdp(p)
                 PROVE  /\ Filled(p, src[p], taken[p])
                        /\ \A j \in DOMAIN sent'[p] : Filled(p, sent'[p][j].bytes, sent'[p][j].item)
      OBVIOUS
    <3>1. /\ Filled(p, src[p], taken[p])
          /\ \A j \in DOMAIN sent[p] : Filled(p, sent[p][j].bytes, sent[p][j].item)
      BY <2>1 DEF NewestInv
    <3>2. item.item = taken[p] /\ item.bytes = src[p]
      OBVIOUS
    <3> HIDE DEF item
    <3> QED BY <2>5, <3>1, <3>2
  <2> SUFFICES ASSUME NEW q \in Procs, IsUdp(q)
               PROVE  (/\ pc[q] \in {"recv", "send"} => Filled(q, src[q], taken[q])
                       /\ \A j \in DOMAIN sent[q] : Filled(q, sent[q][j].bytes, sent[q][j].item))'
    BY <2>3 DEF NewestInv
  <2>7. CASE q = p
    <3> HIDE DEF item, S
    <3>1. /\ Filled(p, src[p], taken[p])'
      BY <2>3, <2>6, <2>7 DEF Filled
    <3>2. (\A j \in DOMAIN sent[p] : Filled(p, sent[p][j].bytes, sent[p][j].item))'
      BY <2>3, <2>6, <2>7 DEF Filled
    <3> QED BY <3>1, <3>2, <2>7
  <2>8. CASE q # p
    BY <2>3, <2>4, <2>8 DEF NewestInv, Filled
  <2> QED BY <2>7, <2>8
<1>5. ASSUME NEW p \in Procs, StartThread(p) PROVE NewestInv'
  <2>1. /\ pc[p] = "new" /\ UNCHANGED <<layout, came, taken, sent>>
        /\ \/ /\ pc' = [pc EXCEPT ![p] = "recv"]
              /\ src' = [src EXCEPT ![p] = [b \in Positions(p) |-> Zero]]
           \/ pc' = [pc EXCEPT ![p] = "absent"] /\ src' = src
    BY <1>5 DEF StartThread
  <2>2. taken[p] = 0 /\ DOMAIN src = Procs /\ DOMAIN pc = Procs
    BY <2>1 DEF IInv, TypeOK, ThreadInv
  <2>3. Filled(p, [b \in Positions(p) |-> Zero], taken[p])
    BY <2>2 DEF Filled
  <2>4. /\ \A q \in Procs \ {p} : src'[q] = src[q] /\ pc'[q] = pc[q]
        /\ pc'[p] = "absent" \/ src'[p] = [b \in Positions(p) |-> Zero]
        /\ pc'[p] \in {"recv", "absent"}
        /\ \A q \in Procs : IsUdp(q)' = IsUdp(q) /\ Positions(q)' = Positions(q)
        /\ taken' = taken /\ sent' = sent /\ came' = came
    BY <2>1, <2>2, Frame
  <2> QED BY <2>3, <2>4 DEF NewestInv, Filled
<1>6. ASSUME NEW p \in Procs, BeginWait(p) \/ AwaitUpdate(p) \/ ReadTopic(p) \/ ReadFails(p)
      PROVE  NewestInv'
  <2>1. /\ UNCHANGED <<layout, came, sent>> /\ ~IsUdp(p)
        /\ \A q \in Procs \ {p} : src'[q] = src[q] /\ pc'[q] = pc[q] /\ taken'[q] = taken[q]
    BY <1>6 DEF BeginWait, AwaitUpdate, ReadTopic, ReadFails, IInv, TypeOK, ThreadInv
  <2>2. \A q \in Procs : IsUdp(q)' = IsUdp(q) /\ Positions(q)' = Positions(q)
    BY <2>1, Frame
  <2> QED BY <2>1, <2>2 DEF NewestInv, Filled
<1>7. CASE UNCHANGED vars \/ \E x \in Names : Update(x)
  <2>1. UNCHANGED <<layout, pc, src, came, taken, sent>>
    BY <1>7 DEF Update, vars
  <2>2. \A q \in Procs : IsUdp(q)' = IsUdp(q) /\ Positions(q)' = Positions(q)
    BY <2>1, Frame
  <2> QED BY <2>1, <2>2 DEF NewestInv, Filled
<1> QED BY <1>1, <1>2, <1>3, <1>4, <1>5, <1>6, <1>7 DEF Next, Loop

\* A message from a socket is, byte for byte, the newest datagram received that
\* had that byte (drv_udp_recv into the buffer of the last time), whatever the
\* lengths, and however datagrams are lost, repeated or reordered on the way.
THEOREM IbrNewest == Spec => []NewestLongEnough
<1>1. Init => NewestInv
  BY DEF Init, NewestInv
<1> QED BY <1>1, Invariance, NewestStep, NewestMeansFilled, PTL DEF Spec

-----------------------------------------------------------------------------
(* The processes implement Relay.                                          *)

Pending(p) == [n \in 1 .. ItemsCome(p) + 1 - FirstPending(p) |-> FirstPending(p) - 1 + n]
Delivered(p) == [n \in DOMAIN sent[p] |-> sent[p][n].item]
Up == IF phase = "refused" THEN {} ELSE {p \in Procs : pc[p] \notin {"absent", "ended"}}

\* A run of numbers with one more at its end, and without its first.
LEMMA RunFacts ==
    ASSUME NEW a \in Int, NEW n \in Nat
    PROVE  LET run(c, m) == [j \in 1..m |-> c + j] IN
           /\ run(a, n) \in Seq(Int) /\ Len(run(a, n)) = n
           /\ Append(run(a, n), a + n + 1) = run(a, n + 1)
           /\ n # 0 => /\ run(a, n) # <<>>
                       /\ Head(run(a, n)) = a + 1
                       /\ Tail(run(a, n)) = run(a + 1, n - 1)
<1> DEFINE run(c, m) == [j \in 1..m |-> c + j]
<1>1. run(a, n) \in Seq(Int) /\ Len(run(a, n)) = n
  OBVIOUS
<1>2. Append(run(a, n), a + n + 1) = run(a, n + 1)
  OBVIOUS
<1>3. ASSUME n # 0
      PROVE  /\ run(a, n) # <<>>
             /\ Head(run(a, n)) = a + 1
             /\ Tail(run(a, n)) = run(a + 1, n - 1)
  BY <1>3
<1> QED BY <1>1, <1>2, <1>3

LEMMA PendingFacts ==
    ASSUME IInv, NEW p \in Procs
    PROVE  /\ ItemsCome(p) \in Nat /\ FirstPending(p) \in Nat \ {0} /\ taken[p] \in Nat
           /\ ItemsCome(p) + 1 - FirstPending(p) \in Nat
           /\ pc[p] = "send" => ItemsCome(p) + 1 - FirstPending(p) # 0
<1>1. taken[p] \in Nat /\ Len(came[p]) \in Nat /\ (IsUdp(p) => taken[p] <= Len(came[p]))
  <2>1. came[p] \in Seq(Nat)
    BY DEF IInv, TypeOK
  <2> QED BY <2>1 DEF IInv, TypeOK
<1>2. pc[p] = "send" => taken[p] # 0
  <2>1. sent[p] \in Seq([item : Nat, bytes : [Positions(p) -> Cell]])
    BY DEF IInv, TypeOK
  <2>2. Len(sent[p]) \in Nat
    BY <2>1
  <2> QED BY <2>2 DEF IInv, ThreadInv
<1> QED BY <1>1, <1>2 DEF ItemsCome, FirstPending

\* A step that leaves what the relays are seen by.
LEMMA Unseen ==
    ASSUME \A q \in Procs : /\ ItemsCome(q)' = ItemsCome(q) /\ FirstPending(q)' = FirstPending(q)
                            /\ sent'[q] = sent[q],
           Up' = Up
    PROVE  UNCHANGED R!vars
<1>1. \A q \in Procs : Pending(q)' = Pending(q) /\ Delivered(q)' = Delivered(q)
  BY DEF Pending, Delivered
<1>2. [q \in Procs |-> ItemsCome(q)]' = [q \in Procs |-> ItemsCome(q)]
  OBVIOUS
<1>3. [q \in Procs |-> Pending(q)]' = [q \in Procs |-> Pending(q)]
  BY <1>1
<1>4. [q \in Procs |-> Delivered(q)]' = [q \in Procs |-> Delivered(q)]
  BY <1>1
<1> QED BY <1>2, <1>3, <1>4 DEF R!vars, Pending, Delivered, Up

LEMMA Accepts ==
    ASSUME IInv, NEW p \in Procs,
           \A q \in Procs : /\ ItemsCome(q)' = ItemsCome(q) + (IF q = p THEN 1 ELSE 0)
                            /\ FirstPending(q)' = FirstPending(q)
                            /\ sent'[q] = sent[q],
           Up' = Up
    PROVE  R!Accept(p)
<1> DEFINE accepted == [q \in Procs |-> ItemsCome(q)]
           pending == [q \in Procs |-> Pending(q)]
<1>1. \A q \in Procs : /\ ItemsCome(q) \in Nat /\ FirstPending(q) - 1 \in Int
                       /\ ItemsCome(q) + 1 - FirstPending(q) \in Nat
  BY PendingFacts
<1>0. /\ ItemsCome(p)' = ItemsCome(p) + 1 /\ FirstPending(p)' = FirstPending(p)
      /\ \A q \in Procs \ {p} : ItemsCome(q)' = ItemsCome(q) /\ FirstPending(q)' = FirstPending(q)
  <2>1. \A q \in Procs \ {p} : ItemsCome(q)' = ItemsCome(q) + 0
    OBVIOUS
  <2> QED BY <1>1, <2>1
<1>2. accepted' = [accepted EXCEPT ![p] = @ + 1]
  BY <1>0
<1>3. Pending(p)' = Append(Pending(p), ItemsCome(p) + 1)
  <2> DEFINE run(c, m) == [j \in 1..m |-> c + j]
  <2>1. PICK a, n : a = FirstPending(p) - 1 /\ n = ItemsCome(p) + 1 - FirstPending(p)
    OBVIOUS
  <2>2. a \in Int /\ n \in Nat /\ a + n + 1 = ItemsCome(p) + 1
    <3>1. FirstPending(p) \in Nat /\ ItemsCome(p) \in Nat
      BY PendingFacts
    <3> QED BY <1>1, <2>1, <3>1
  <2>3. Pending(p) = run(a, n)
    BY <2>1 DEF Pending
  <2>4. Pending(p)' = run(a, n + 1)
    <3>1. (ItemsCome(p) + 1 - FirstPending(p))' = n + 1 /\ FirstPending(p)' - 1 = a
      <4>1. FirstPending(p) \in Nat /\ ItemsCome(p) \in Nat
        BY PendingFacts
      <4> QED BY <1>0, <2>1, <4>1
    <3> QED BY <3>1 DEF Pending
  <2>5. Append(run(a, n), a + n + 1) = run(a, n + 1)
    BY <2>2, RunFacts
  <2> QED BY <2>2, <2>3, <2>4, <2>5
<1>4. \A q \in Procs \ {p} : Pending(q)' = Pending(q)
  BY <1>0 DEF Pending
<1>5. pending' = [pending EXCEPT ![p] = Append(@, accepted[p] + 1)]
  BY <1>3, <1>4
<1>6. [q \in Procs |-> Delivered(q)]' = [q \in Procs |-> Delivered(q)]
  BY DEF Delivered
<1> QED BY <1>2, <1>5, <1>6 DEF R!Accept, Pending, Delivered, Up

LEMMA Delivers ==
    ASSUME IInv, NEW p \in Procs, NEW item,
           pc[p] = "send", item.item = taken[p], phase = "run",
           sent' = [sent EXCEPT ![p] = Append(@, item)],
           \A q \in Procs : /\ ItemsCome(q)' = ItemsCome(q)
                            /\ FirstPending(q)' = FirstPending(q) + (IF q = p THEN 1 ELSE 0),
           sent[p] \in Seq([item : Nat, bytes : [Positions(p) -> Cell]]),
           item \in [item : Nat, bytes : [Positions(p) -> Cell]],
           DOMAIN sent = Procs,
           Up' = Up
    PROVE  R!Deliver(p)
<1> DEFINE accepted == [q \in Procs |-> ItemsCome(q)]
           pending == [q \in Procs |-> Pending(q)]
           delivered == [q \in Procs |-> Delivered(q)]
<1>1. /\ \A q \in Procs : /\ ItemsCome(q) \in Nat /\ FirstPending(q) - 1 \in Int
                          /\ ItemsCome(q) + 1 - FirstPending(q) \in Nat
      /\ ItemsCome(p) + 1 - FirstPending(p) # 0
  BY PendingFacts
<1>0. /\ FirstPending(p)' = FirstPending(p) + 1
      /\ \A q \in Procs \ {p} : FirstPending(q)' = FirstPending(q)
  <2>1. /\ \A q \in Procs \ {p} : FirstPending(q)' = FirstPending(q) + 0
        /\ \A q \in Procs : FirstPending(q) \in Int
    BY PendingFacts
  <2> QED BY <2>1
<1>2. accepted' = accepted
  OBVIOUS
<1>3. /\ Pending(p) # <<>> /\ Head(Pending(p)) = taken[p]
      /\ Pending(p)' = Tail(Pending(p))
  <2> DEFINE run(c, m) == [j \in 1..m |-> c + j]
  <2>1. PICK a, n : a = FirstPending(p) - 1 /\ n = ItemsCome(p) + 1 - FirstPending(p)
    OBVIOUS
  <2>2. a \in Int /\ n \in Nat /\ n # 0 /\ a + 1 = taken[p]
    <3>1. FirstPending(p) = taken[p] /\ taken[p] \in Nat
      BY PendingFacts DEF FirstPending
    <3> QED BY <1>1, <2>1, <3>1
  <2>3. Pending(p) = run(a, n)
    BY <2>1 DEF Pending
  <2>4. Pending(p)' = run(a + 1, n - 1)
    <3>1. (ItemsCome(p) + 1 - FirstPending(p))' = n - 1 /\ FirstPending(p)' - 1 = a + 1
      <4>1. FirstPending(p) \in Nat /\ ItemsCome(p) \in Nat
        BY PendingFacts
      <4> QED BY <1>0, <2>1, <4>1
    <3> QED BY <3>1 DEF Pending
  <2>5. run(a, n) # <<>> /\ Head(run(a, n)) = a + 1 /\ Tail(run(a, n)) = run(a + 1, n - 1)
    BY <2>2, RunFacts
  <2> QED BY <2>2, <2>3, <2>4, <2>5
<1>4. \A q \in Procs \ {p} : Pending(q)' = Pending(q)
  BY <1>0 DEF Pending
<1>5. pending' = [pending EXCEPT ![p] = Tail(@)]
  BY <1>3, <1>4
<1>6. Delivered(p)' = Append(Delivered(p), taken[p])
  <2>1. /\ Len(sent[p]) \in Nat /\ DOMAIN sent[p] = 1..Len(sent[p])
        /\ DOMAIN sent'[p] = 1..Len(sent[p]) + 1
        /\ \A j \in DOMAIN sent[p] : sent'[p][j] = sent[p][j]
        /\ sent'[p][Len(sent[p]) + 1] = item
    <3> DEFINE S == [item : Nat, bytes : [Positions(p) -> Cell]]
    <3>1. sent'[p] = Append(sent[p], item) /\ sent[p] \in Seq(S) /\ item \in S
      OBVIOUS
    <3> HIDE DEF S
    <3> QED BY <3>1, AppendFacts
  <2>2. PICK L \in Nat : L = Len(sent[p])
    BY <2>1
  <2>3. Delivered(p) = [n \in 1..L |-> sent[p][n].item]
    BY <2>1, <2>2 DEF Delivered
  <2>4. Delivered(p)' = [n \in 1..L + 1 |-> IF n = L + 1 THEN taken[p] ELSE sent[p][n].item]
    BY <2>1, <2>2 DEF Delivered
  <2> HIDE DEF delivered
  <2>5. Append([n \in 1..L |-> sent[p][n].item], taken[p])
          = [n \in 1..L + 1 |-> IF n = L + 1 THEN taken[p] ELSE sent[p][n].item]
    <3>1. \A n \in 1..L : sent[p][n].item \in Nat
      <4>1. /\ sent[p] \in Seq([item : Nat, bytes : [Positions(p) -> Cell]])
            /\ DOMAIN sent[p] = 1..L
        BY <2>1, <2>2
      <4>2. \A n \in 1..L : sent[p][n] \in [item : Nat, bytes : [Positions(p) -> Cell]]
        <5> DEFINE S == [item : Nat, bytes : [Positions(p) -> Cell]]
        <5>1. sent[p] \in Seq(S)
          BY <4>1
        <5> HIDE DEF S
        <5>2. \A n \in 1..L : sent[p][n] \in S
          BY <5>1, <2>2, SeqFacts
        <5> QED BY <5>2 DEF S
      <4> QED BY <4>2
    <3>2. taken[p] \in Nat
      BY PendingFacts
    <3> QED BY <3>1, <3>2
  <2> QED BY <2>3, <2>4, <2>5
<1>7. \A q \in Procs \ {p} : Delivered(q)' = Delivered(q)
  BY DEF Delivered
<1>8. delivered' = [delivered EXCEPT ![p] = Append(@, Head(pending[p]))]
  BY <1>3, <1>6, <1>7
<1>9. p \in Up
  BY DEF Up
<1> QED BY <1>2, <1>3, <1>5, <1>8, <1>9 DEF R!Deliver, Pending, Delivered, Up

LEMMA Stops ==
    ASSUME IInv, NEW these \in SUBSET Up, NEW losers \in SUBSET these, these # {},
           Up' = Up \ these,
           \A q \in losers : q \in Procs /\ pc[q] = "send",
           \A q \in Procs : /\ ItemsCome(q)' = ItemsCome(q)
                            /\ FirstPending(q)' = FirstPending(q) + (IF q \in losers THEN 1 ELSE 0)
                            /\ sent'[q] = sent[q]
    PROVE  R!Stop(these, losers)
<1>1. \A q \in Procs : /\ ItemsCome(q) \in Nat /\ FirstPending(q) - 1 \in Int
                       /\ ItemsCome(q) + 1 - FirstPending(q) \in Nat
                       /\ q \in losers => ItemsCome(q) + 1 - FirstPending(q) # 0
  BY PendingFacts
<1>0. /\ \A q \in Procs : q \in losers => FirstPending(q)' = FirstPending(q) + 1
      /\ \A q \in Procs \ losers : FirstPending(q)' = FirstPending(q)
  <2>1. /\ \A q \in Procs \ losers : FirstPending(q)' = FirstPending(q) + 0
        /\ \A q \in Procs : FirstPending(q) \in Int
    BY PendingFacts
  <2> QED BY <2>1
<1>2. [q \in Procs |-> ItemsCome(q)]' = [q \in Procs |-> ItemsCome(q)]
  OBVIOUS
<1>3. ASSUME NEW q \in losers
      PROVE  Pending(q) # <<>> /\ Pending(q)' = Tail(Pending(q))
  <2> DEFINE run(c, m) == [j \in 1..m |-> c + j]
  <2>0. q \in Procs
    OBVIOUS
  <2>1. PICK a, n : a = FirstPending(q) - 1 /\ n = ItemsCome(q) + 1 - FirstPending(q)
    OBVIOUS
  <2>2. a \in Int /\ n \in Nat /\ n # 0
    BY <1>1, <2>0, <2>1
  <2>3. Pending(q) = run(a, n)
    BY <2>1 DEF Pending
  <2>4. Pending(q)' = run(a + 1, n - 1)
    <3>1. (ItemsCome(q) + 1 - FirstPending(q))' = n - 1 /\ FirstPending(q)' - 1 = a + 1
      <4>1. FirstPending(q) \in Nat /\ ItemsCome(q) \in Nat
        BY <2>0, PendingFacts
      <4>2. FirstPending(q)' = FirstPending(q) + 1 /\ ItemsCome(q)' = ItemsCome(q)
        BY <1>0, <2>0
      <4> QED BY <2>1, <4>1, <4>2
    <3> QED BY <3>1 DEF Pending
  <2>5. run(a, n) # <<>> /\ Tail(run(a, n)) = run(a + 1, n - 1)
    BY <2>2, RunFacts
  <2> QED BY <2>3, <2>4, <2>5
<1>4. \A q \in Procs \ losers : Pending(q)' = Pending(q)
  BY <1>0 DEF Pending
<1>5. [q \in Procs |-> Pending(q)]'
        = [q \in Procs |-> IF q \in losers THEN Tail(Pending(q)) ELSE Pending(q)]
  BY <1>3, <1>4
<1>6. [q \in Procs |-> Delivered(q)]' = [q \in Procs |-> Delivered(q)]
  BY DEF Delivered
<1>7. \A q \in losers : q \in Procs
  OBVIOUS
<1> QED BY <1>2, <1>3, <1>5, <1>6, <1>7 DEF R!Stop, Pending, Delivered, Up

LEMMA RelayInitially == Init => R!Init
<1> SUFFICES ASSUME Init PROVE R!Init
  OBVIOUS
<1>1. \A p \in Procs : /\ ItemsCome(p) = 0 /\ FirstPending(p) = 1
                       /\ Pending(p) = <<>> /\ Delivered(p) = <<>>
  <2> TAKE p \in Procs
  <2>1. ItemsCome(p) = 0 /\ FirstPending(p) = 1
    BY DEF Init, ItemsCome, FirstPending
  <2>2. Pending(p) = <<>>
    BY <2>1 DEF Pending
  <2>3. Delivered(p) = <<>>
    BY DEF Init, Delivered
  <2> QED BY <2>1, <2>2, <2>3
<1>2. Up = Procs
  BY DEF Init, LayoutInit, Up
<1>3. [p \in Procs |-> ItemsCome(p)] = [p \in Procs |-> 0]
  BY <1>1
<1>4. [p \in Procs |-> Pending(p)] = [p \in Procs |-> <<>>]
  BY <1>1
<1>5. [p \in Procs |-> Delivered(p)] = [p \in Procs |-> <<>>]
  BY <1>1
<1> QED BY <1>2, <1>3, <1>4, <1>5 DEF R!Init, Pending, Delivered, Up

\* Each step of the processes is one of the relays, or unseen.
LEMMA RelayStep == IInv /\ [Next]_vars => [R!Next]_(R!vars)
<1> SUFFICES ASSUME IInv, [Next]_vars PROVE R!Next \/ UNCHANGED R!vars
  OBVIOUS
<1> USE DEF ItemsCome, FirstPending
<1>0. DOMAIN pc = Procs /\ DOMAIN taken = Procs /\ DOMAIN sent = Procs
  BY DEF IInv, TypeOK
<1>1. CASE LayoutStep
  <2>1. /\ \A q \in Procs : /\ pc[q] = "new" /\ IsUdp(q)' = IsUdp(q)
        /\ UNCHANGED <<pc, came, taken, sent>> /\ Procs # {}
    BY <1>1, LayoutFirst, LayoutAssumption DEF LayoutStep, Procs
  <2>2. \A q \in Procs : /\ ItemsCome(q)' = ItemsCome(q) /\ FirstPending(q)' = FirstPending(q)
                         /\ sent'[q] = sent[q]
    BY <2>1
  <2>3. CASE phase # "refused" /\ phase' = "refused"
    <3>1. Up = Procs /\ Up' = {}
      BY <2>1, <2>3 DEF Up
    <3>2. \A q \in Procs : FirstPending(q)' = FirstPending(q) + (IF q \in {} THEN 1 ELSE 0)
      <4>1. \A q \in Procs : FirstPending(q) \in Nat
        BY PendingFacts
      <4> HIDE DEF FirstPending
      <4> QED BY <2>2, <4>1
    <3> PICK all : all = Up
      OBVIOUS
    <3>3. R!Stop(all, {})
      <4> HIDE DEF FirstPending, ItemsCome
      <4>1. Up' = Up \ all /\ all # {} /\ all \in SUBSET Up /\ {} \in SUBSET all
        BY <2>1, <3>1
      <4> QED BY <2>2, <3>2, <4>1, Stops
    <3>4. all \in SUBSET Up /\ {} \in SUBSET all
      OBVIOUS
    <3> QED BY <3>3, <3>4 DEF R!Next, Up
  <2>4. CASE ~(phase # "refused" /\ phase' = "refused")
    <3>1. phase # "refused"
      BY <1>1 DEF LayoutStep, LayoutNext, LoadField, MessageLoaded, OpenSocket, BeginBridge,
                  BridgeField, EndBridge, EndInputs
    <3>2. Up' = Up
      BY <2>1, <2>4, <3>1 DEF Up
    <3> QED BY <2>2, <3>2, Unseen
  <2> QED BY <2>3, <2>4
<1>2. ASSUME NEW p \in Procs, Arrive(p) PROVE R!Next
  <2>1. /\ IsUdp(p) /\ UNCHANGED <<layout, pc, taken, sent>>
    BY <1>2 DEF Arrive
  <2>2. PICK l \in Lengths : came' = [came EXCEPT ![p] = Append(@, l)]
    BY <1>2 DEF Arrive
  <2>3. /\ came \in [Procs -> Seq(Nat)] /\ l \in Nat
    BY ProcessAssumption DEF IInv, TypeOK
  <2>4. Len(came[p]) \in Nat /\ Len(Append(came[p], l)) = Len(came[p]) + 1
    BY <2>3, AppendFacts
  <2>5. /\ Len(came'[p]) = Len(came[p]) + 1
        /\ \A q \in Procs \ {p} : came'[q] = came[q]
    BY <2>2, <2>3, <2>4
  <2>6. \A q \in Procs : /\ ItemsCome(q)' = ItemsCome(q) + (IF q = p THEN 1 ELSE 0)
                         /\ FirstPending(q)' = FirstPending(q)
                         /\ sent'[q] = sent[q]
    <3>1. \A q \in Procs : ItemsCome(q) \in Nat /\ IsUdp(q)' = IsUdp(q)
      BY <2>1, PendingFacts, Frame
    <3>2. ItemsCome(p)' = ItemsCome(p) + 1
      BY <2>1, <2>5, <3>1
    <3>3. \A q \in Procs \ {p} : ItemsCome(q)' = ItemsCome(q)
      BY <2>1, <2>5, <3>1
    <3>4. \A q \in Procs : FirstPending(q)' = FirstPending(q) /\ sent'[q] = sent[q]
      BY <2>1
    <3> HIDE DEF ItemsCome, FirstPending
    <3> QED BY <3>1, <3>2, <3>3, <3>4
  <2>7. Up' = Up
    BY <2>1, Frame DEF Up
  <2>8. R!Accept(p)
    <3> HIDE DEF ItemsCome, FirstPending
    <3> QED BY <2>6, <2>7, Accepts
  <2> QED BY <2>8 DEF R!Next
<1>3. ASSUME NEW p \in Procs, StartThread(p) PROVE R!Next \/ UNCHANGED R!vars
  <2>1. /\ phase = "run" /\ pc[p] = "new" /\ pc' \in {[pc EXCEPT ![p] = "recv"], [pc EXCEPT ![p] = "absent"]}
        /\ UNCHANGED <<layout, came, taken, sent>>
    BY <1>3 DEF StartThread
  <2>2. /\ phase' = "run" /\ \A q \in Procs : IsUdp(q)' = IsUdp(q)
        /\ \A q \in Procs \ {p} : pc'[q] = pc[q]
        /\ pc'[p] \in {"recv", "absent"}
    BY <1>0, <2>1, Frame
  <2>3. \A q \in Procs : /\ ItemsCome(q)' = ItemsCome(q) /\ FirstPending(q)' = FirstPending(q)
                         /\ sent'[q] = sent[q]
    BY <2>1, <2>2
  <2>4. CASE pc'[p] = "recv"
    <3>1. Up' = Up
      BY <2>1, <2>2, <2>4 DEF Up
    <3> QED BY <2>3, <3>1, Unseen
  <2>5. CASE pc'[p] = "absent"
    <3>1. Up' = Up \ {p} /\ p \in Up
      BY <2>1, <2>2, <2>5 DEF Up
    <3>2. \A q \in Procs : FirstPending(q)' = FirstPending(q) + (IF q \in {} THEN 1 ELSE 0)
      <4>1. \A q \in Procs : FirstPending(q) \in Nat
        BY PendingFacts
      <4> HIDE DEF FirstPending
      <4> QED BY <2>3, <4>1
    <3>3. R!Stop({p}, {})
      <4> HIDE DEF FirstPending, ItemsCome
      <4> QED BY <2>3, <3>1, <3>2, Stops
    <3>4. {p} \in SUBSET Up /\ {} \in SUBSET {p}
      BY <3>1
    <3> QED BY <3>3, <3>4 DEF R!Next, Up
  <2> QED BY <2>2, <2>4, <2>5
<1>4. ASSUME NEW p \in Procs, ReceiveDatagram(p) PROVE UNCHANGED R!vars
  <2>1. /\ pc[p] = "recv" /\ IsUdp(p) /\ taken' = [taken EXCEPT ![p] = @ + 1]
        /\ pc' = [pc EXCEPT ![p] = "send"]
        /\ UNCHANGED <<layout, came, sent>>
    BY <1>4 DEF ReceiveDatagram
  <2>2. /\ \A q \in Procs : IsUdp(q)' = IsUdp(q)
        /\ \A q \in Procs \ {p} : pc'[q] = pc[q] /\ taken'[q] = taken[q]
        /\ pc'[p] = "send" /\ taken'[p] = taken[p] + 1
    BY <1>0, <2>1, Frame
  <2>3. \A q \in Procs : /\ ItemsCome(q)' = ItemsCome(q) /\ FirstPending(q)' = FirstPending(q)
                         /\ sent'[q] = sent[q]
    BY <2>1, <2>2
  <2>4. Up' = Up
    BY <2>1, <2>2, Frame DEF Up
  <2> QED BY <2>3, <2>4, Unseen
<1>5. ASSUME NEW p \in Procs, BeginWait(p) \/ AwaitUpdate(p) \/ ReadFails(p)
      PROVE  UNCHANGED R!vars
  <2>1. /\ pc[p] \in {"recv", "wait", "read"}
        /\ \E to \in {"recv", "wait", "read"} : pc' = [pc EXCEPT ![p] = to]
        /\ UNCHANGED <<layout, came, taken, sent>>
    BY <1>5 DEF BeginWait, AwaitUpdate, ReadFails
  <2>2. /\ \A q \in Procs : IsUdp(q)' = IsUdp(q)
        /\ \A q \in Procs \ {p} : pc'[q] = pc[q]
        /\ pc'[p] \in {"recv", "wait", "read"}
    BY <1>0, <2>1, Frame
  <2>3. \A q \in Procs : /\ ItemsCome(q)' = ItemsCome(q) /\ FirstPending(q)' = FirstPending(q)
                         /\ sent'[q] = sent[q]
    BY <2>1, <2>2
  <2>4. Up' = Up
    BY <2>1, <2>2, Frame DEF Up
  <2> QED BY <2>3, <2>4, Unseen
<1>6. ASSUME NEW p \in Procs, ReadTopic(p) PROVE R!Next \/ UNCHANGED R!vars
  <2>1. /\ pc[p] = "read" /\ ~IsUdp(p)
        /\ \/ UNCHANGED <<pc, taken>>
           \/ pc' = [pc EXCEPT ![p] = "send"] /\ taken' = [taken EXCEPT ![p] = @ + 1]
        /\ UNCHANGED <<layout, came, sent>>
    BY <1>6 DEF ReadTopic, IInv, ThreadInv
  <2>2. \A q \in Procs : IsUdp(q)' = IsUdp(q)
    BY <2>1, Frame
  <2>3. CASE UNCHANGED <<pc, taken>>
    <3>1. \A q \in Procs : /\ ItemsCome(q)' = ItemsCome(q) /\ FirstPending(q)' = FirstPending(q)
                           /\ sent'[q] = sent[q]
      BY <2>1, <2>2, <2>3
    <3>2. Up' = Up
      BY <2>1, <2>3, Frame DEF Up
    <3> QED BY <3>1, <3>2, Unseen
  <2>4. CASE pc' = [pc EXCEPT ![p] = "send"] /\ taken' = [taken EXCEPT ![p] = @ + 1]
    <3>1. /\ \A q \in Procs \ {p} : pc'[q] = pc[q] /\ taken'[q] = taken[q]
          /\ pc'[p] = "send" /\ taken'[p] = taken[p] + 1
      BY <1>0, <2>4
    <3>2. \A q \in Procs : FirstPending(q)' = FirstPending(q) /\ sent'[q] = sent[q]
      BY <2>1, <3>1
    <3>3. \A q \in Procs \ {p} : ItemsCome(q)' = ItemsCome(q)
      BY <2>1, <2>2, <3>1
    <3>4. ItemsCome(p)' = ItemsCome(p) + 1
      BY <2>1, <2>2, <3>1
    <3>5. \A q \in Procs : /\ ItemsCome(q)' = ItemsCome(q) + (IF q = p THEN 1 ELSE 0)
                           /\ FirstPending(q)' = FirstPending(q)
                           /\ sent'[q] = sent[q]
      <4>1. \A q \in Procs : ItemsCome(q) \in Nat
        BY PendingFacts
      <4> HIDE DEF ItemsCome, FirstPending
      <4> QED BY <3>2, <3>3, <3>4, <4>1
    <3>6. Up' = Up
      BY <2>1, <3>1, Frame DEF Up
    <3>7. R!Accept(p)
      <4> HIDE DEF ItemsCome, FirstPending
      <4> QED BY <3>5, <3>6, Accepts
    <3> QED BY <3>7 DEF R!Next
  <2> QED BY <2>1, <2>3, <2>4
<1>7. ASSUME NEW p \in Procs, Send(p) PROVE R!Next
  <2> DEFINE item == [item |-> taken[p], bytes |-> src[p]]
  <2>1. /\ pc[p] = "send" /\ dst' = [dst EXCEPT ![p] = src[p]]
        /\ \/ /\ sent' = [sent EXCEPT ![p] = Append(@, [item |-> taken[p], bytes |-> dst'[p]])]
              /\ pc' = [pc EXCEPT ![p] = "recv"]
           \/ pc' = [pc EXCEPT ![p] = "ended"] /\ sent' = sent
        /\ UNCHANGED <<layout, came, taken>>
    BY <1>7 DEF Send
  <2>2. /\ DOMAIN dst = Procs /\ phase = "run" /\ taken[p] \in Nat
        /\ src[p] \in [Positions(p) -> Cell]
        /\ sent[p] \in Seq([item : Nat, bytes : [Positions(p) -> Cell]])
    BY <2>1 DEF IInv, TypeOK
  <2>3. /\ \A q \in Procs : IsUdp(q)' = IsUdp(q)
        /\ \A q \in Procs \ {p} : pc'[q] = pc[q]
        /\ phase' = "run" /\ dst'[p] = src[p] /\ pc'[p] \in {"recv", "ended"}
    BY <1>0, <2>1, <2>2, Frame
  <2>4. /\ \A q \in Procs : ItemsCome(q)' = ItemsCome(q)
        /\ \A q \in Procs \ {p} : FirstPending(q)' = FirstPending(q)
        /\ FirstPending(p)' = FirstPending(p) + 1
    BY <2>1, <2>2, <2>3
  <2>5. \A q \in Procs : /\ ItemsCome(q)' = ItemsCome(q)
                         /\ FirstPending(q)' = FirstPending(q) + (IF q = p THEN 1 ELSE 0)
                         /\ FirstPending(q)' = FirstPending(q) + (IF q \in {p} THEN 1 ELSE 0)
    <3>1. \A q \in Procs : FirstPending(q) \in Nat
      BY PendingFacts
    <3> HIDE DEF ItemsCome, FirstPending
    <3> QED BY <2>4, <3>1
  <2>6. CASE sent' = [sent EXCEPT ![p] = Append(@, item)] /\ pc' = [pc EXCEPT ![p] = "recv"]
    <3>1. Up' = Up
      BY <1>0, <2>1, <2>2, <2>3, <2>6 DEF Up
    <3>2. item.item = taken[p] /\ item \in [item : Nat, bytes : [Positions(p) -> Cell]]
      BY <2>2
    <3>3. R!Deliver(p)
      <4> HIDE DEF ItemsCome, FirstPending, item
      <4> QED BY <1>0, <2>1, <2>2, <2>5, <2>6, <3>1, <3>2, Delivers
    <3> QED BY <3>3 DEF R!Next
  <2>7. CASE sent' = sent /\ pc' = [pc EXCEPT ![p] = "ended"]
    <3>1. Up' = Up \ {p} /\ p \in Up
      BY <1>0, <2>1, <2>2, <2>3, <2>7 DEF Up
    <3>2. R!Stop({p}, {p})
      <4> HIDE DEF ItemsCome, FirstPending
      <4> QED BY <2>1, <2>5, <2>7, <3>1, Stops
    <3>3. {p} \in SUBSET Up /\ {p} \in SUBSET {p}
      BY <3>1
    <3> QED BY <3>2, <3>3 DEF R!Next, Up
  <2> QED BY <2>1, <2>3, <2>6, <2>7
<1>8. CASE UNCHANGED vars \/ \E x \in Names : Update(x)
  <2>1. UNCHANGED <<layout, pc, came, taken, sent>>
    BY <1>8 DEF Update, vars
  <2>2. \A q \in Procs : IsUdp(q)' = IsUdp(q)
    BY <2>1, Frame
  <2>3. \A q \in Procs : /\ ItemsCome(q)' = ItemsCome(q) /\ FirstPending(q)' = FirstPending(q)
                         /\ sent'[q] = sent[q]
    BY <2>1, <2>2
  <2>4. Up' = Up
    BY <2>1, Frame DEF Up
  <2> QED BY <2>3, <2>4, Unseen
<1> QED BY <1>1, <1>2, <1>3, <1>4, <1>5, <1>6, <1>7, <1>8 DEF Next, Loop

\* Whatever comes, whichever calls fail, and however many processes there are,
\* each hands on what it is given once and in order until it stops, and stops
\* with the loss of the item in hand at most (the loop of ibr_process).
THEOREM IbrRelay == Spec => IsARelay
<1>1. Spec => R!Init /\ [][R!Next]_(R!vars)
  BY RelayInitially, RelayStep, Invariance, PTL DEF Spec
<1> QED BY <1>1 DEF IsARelay, R!Spec
-----------------------------------------------------------------------------
(***************************************************************************)
(* Where the topics of a bridge are.  The definitions take the values of   *)
(* variables as arguments: c is sys, dest and source are the fields of     *)
(* dst_msg and src_msg of one process, b its bridge, and n the number of   *)
(* fields that create_bridge has dealt with.                               *)
(***************************************************************************)
Missing(c, f) == c.topic[f.name].kind = "none"
Whole(c, f) == c.topic[f.name].kind = "value" /\ c.topic[f.name].width = f.width
WidthIn(c, f) == IF Missing(c, f) THEN f.width ELSE c.topic[f.name].width
EndIn(fields, n) == IF n = 0 THEN 0 ELSE fields[n].offset + fields[n].width

\* src_msg follows dst_msg, and lies like it up to the first topic that is not
\* as wide as its field.
Follows(c, dest, source, n) ==
    /\ Len(source) = n
    /\ \A j \in 1..n :
          /\ source[j].name = dest[j].name
          /\ source[j].width = WidthIn(c, dest[j])
          /\ (\A g \in 1..j : Whole(c, dest[g])) => source[j].offset = dest[j].offset
    /\ (\A g \in 1..n : Whole(c, dest[g])) => EndIn(source, n) = EndIn(dest, n)

\* The bridge's topics are those of fields, each where src_msg says, up to the
\* first one that is missing; none begins before the end of an earlier one.
Arranged(c, dest, source, b, n) ==
    /\ \A t \in 1..Len(b.topics) : \E f \in 1..n : b.topics[t].name = dest[f].name
    /\ \A t \in 1..Len(b.topics), f \in 1..n : b.topics[t].name = dest[f].name =>
          /\ b.topics[t].width = source[f].width
          /\ (\A g \in 1..f : ~Missing(c, dest[g])) => b.topics[t].offset = source[f].offset
    /\ \A t \in 1..Len(b.topics) : \A u \in 1..t - 1 :
          b.topics[u].offset + b.topics[u].width <= b.topics[t].offset
    /\ \A t \in 1..Len(b.topics) : b.topics[t].offset + b.topics[t].width <= b.size
    /\ (\A g \in 1..n : ~Missing(c, dest[g])) => b.size = EndIn(source, n)

\* A message has a field of a name once, and all of its fields within its size.
FieldsInv ==
    \A p \in Procs : \A f \in 1..Len(dstMsg[p]) :
        /\ dstMsg[p][f].offset + dstMsg[p][f].width <= size[p]
        /\ \A g \in 1..Len(dstMsg[p]) : dstMsg[p][g].name = dstMsg[p][f].name => g = f

PlacesInv ==
    /\ phase = "load" => \A q \in Procs : srcMsg[q] = <<>>
    /\ phase = "inputs" => \A q \in i..N : srcMsg[q] = <<>>
    /\ phase = "bridge" =>
          /\ \A q \in i + 1..N : srcMsg[q] = <<>>
          /\ offset = EndIn(srcMsg[i], k - 1)
          /\ Follows(sys, dstMsg[i], srcMsg[i], k - 1)
          /\ Arranged(sys, dstMsg[i], srcMsg[i], br, k - 1)
    /\ \A q \in Procs : ~IsUdp(q) /\ descr[q] # 0 =>
          /\ Follows(sys, dstMsg[q], srcMsg[q], Len(dstMsg[q]))
          /\ Arranged(sys, dstMsg[q], srcMsg[q], TheBridge(q), Len(dstMsg[q]))

ArrangedInv == FieldsInv /\ PlacesInv

\* The cells, m of them, hold one version of each of the first n topics, whole
\* (as far as the cells go).
Holds(topics, version, m, cells, n) ==
    \A t \in 1..n : \E v \in 0..version[topics[t].name] : \A b \in 0..topics[t].width - 1 :
        topics[t].offset + b < m =>
            cells[topics[t].offset + b] = TopicByte(topics[t].name, v, b)

Carries(p, cells, n) == Holds(TheBridge(p).topics, ver, size[p], cells, n)

CarriesInv ==
    \A p \in Procs : ~IsUdp(p) =>
        /\ pc[p] = "read" => Carries(p, src[p], at[p] - 1)
        /\ pc[p] = "send" => Carries(p, src[p], Len(TheBridge(p).topics))
        /\ \A j \in 1..Len(sent[p]) : Carries(p, sent[p][j].bytes, Len(TheBridge(p).topics))

LEMMA FollowsExtends ==
    ASSUME NEW c, NEW dest, NEW source \in Seq(Placed), NEW n \in Nat,
           NEW new \in Placed, Follows(c, dest, source, n),
           new.name = dest[n + 1].name, new.width = WidthIn(c, dest[n + 1]),
           new.offset = EndIn(source, n), dest[n + 1].offset = EndIn(dest, n)
    PROVE  /\ Follows(c, dest, Append(source, new), n + 1)
           /\ EndIn(Append(source, new), n + 1) = new.offset + new.width
<1> DEFINE more == Append(source, new)
<1>1. /\ Len(source) = n /\ Len(more) = n + 1 /\ more[n + 1] = new
      /\ \A j \in 1..n : more[j] = source[j]
  BY AppendFacts DEF Follows
<1> HIDE DEF more
<1>2. EndIn(more, n + 1) = new.offset + new.width
  BY <1>1 DEF EndIn
<1>3. ASSUME \A g \in 1..n + 1 : Whole(c, dest[g])
      PROVE  /\ new.offset = dest[n + 1].offset
             /\ EndIn(more, n + 1) = EndIn(dest, n + 1)
  <2>1. EndIn(source, n) = EndIn(dest, n)
    BY <1>3 DEF Follows
  <2>2. new.width = dest[n + 1].width
    BY <1>3 DEF Whole, WidthIn
  <2> QED BY <2>1, <2>2, <1>2 DEF EndIn
<1>4. ASSUME NEW j \in 1..n + 1
      PROVE  /\ more[j].name = dest[j].name
             /\ more[j].width = WidthIn(c, dest[j])
             /\ (\A g \in 1..j : Whole(c, dest[g])) => more[j].offset = dest[j].offset
  <2>1. CASE j = n + 1
    BY <2>1, <1>1, <1>3
  <2>2. CASE j \in 1..n
    BY <2>2, <1>1 DEF Follows
  <2> QED BY <2>1, <2>2
<1>5. Follows(c, dest, more, n + 1)
  BY <1>1, <1>3, <1>4 DEF Follows
<1> QED BY <1>2, <1>5 DEF more

\* A topic that is not there adds a field to src_msg and nothing to the bridge.
LEMMA ArrangedWithout ==
    ASSUME NEW c, NEW dest, NEW source \in Seq(Placed), NEW b, NEW n \in Nat, NEW new \in Placed,
           Len(source) = n, Len(b.topics) \in Nat, Arranged(c, dest, source, b, n),
           Missing(c, dest[n + 1]),
           \A f \in 1..n : dest[f].name # dest[n + 1].name
    PROVE  Arranged(c, dest, Append(source, new), b, n + 1)
<1> DEFINE more == Append(source, new)
<1>1. \A j \in 1..n : more[j] = source[j]
  BY AppendFacts
<1> HIDE DEF more
<1>2. \A t \in 1..Len(b.topics) : \E f \in 1..n : b.topics[t].name = dest[f].name
  BY DEF Arranged
<1>3. ASSUME NEW t \in 1..Len(b.topics), NEW f \in 1..n + 1, b.topics[t].name = dest[f].name
      PROVE  /\ b.topics[t].width = more[f].width
             /\ (\A g \in 1..f : ~Missing(c, dest[g])) => b.topics[t].offset = more[f].offset
  <2>1. f \in 1..n
    BY <1>2, <1>3
  <2> QED BY <2>1, <1>1, <1>3 DEF Arranged
<1>4. \A t \in 1..Len(b.topics) : \E f \in 1..n + 1 : b.topics[t].name = dest[f].name
  BY <1>2
<1>5. ~ \A g \in 1..n + 1 : ~Missing(c, dest[g])
  OBVIOUS
<1>6. Arranged(c, dest, more, b, n + 1)
  BY <1>3, <1>4, <1>5 DEF Arranged
<1> QED BY <1>6 DEF more

\* A topic that is there goes behind the others.
LEMMA ArrangedWith ==
    ASSUME NEW c, NEW dest, NEW source \in Seq(Placed), NEW b \in Bridge, NEW n \in Nat,
           NEW new \in Placed, NEW topic \in Placed, NEW d,
           Len(source) = n, Arranged(c, dest, source, b, n),
           \A f \in 1..n : dest[f].name # dest[n + 1].name,
           new.name = dest[n + 1].name, new.offset = EndIn(source, n),
           topic.name = new.name, topic.width = new.width, topic.offset = b.size,
           d.topics = Append(b.topics, topic), d.size = b.size + new.width
    PROVE  Arranged(c, dest, Append(source, new), d, n + 1)
<1> DEFINE more == Append(source, new)
           m == Len(b.topics)
<1>1. /\ \A j \in 1..n : more[j] = source[j]
      /\ more[n + 1] = new
  BY AppendFacts
<1>2. /\ m \in Nat /\ Len(d.topics) = m + 1 /\ d.topics[m + 1] = topic
      /\ \A t \in 1..m : d.topics[t] = b.topics[t] /\ b.topics[t] \in Placed
      /\ b.size \in Nat
  <2>1. b.topics \in Seq(Placed) /\ b.size \in Nat
    BY DEF Bridge
  <2> QED BY <2>1, AppendFacts, SeqFacts
<1> HIDE DEF more, m
<1>3. \A t \in 1..m : /\ b.topics[t].offset \in Nat /\ b.topics[t].width \in Nat
                      /\ b.topics[t].offset + b.topics[t].width <= b.size
                      /\ \E f \in 1..n : b.topics[t].name = dest[f].name
  BY <1>2 DEF Placed, Widths, Arranged, m
<1>w. new.width \in Nat /\ new.offset \in Nat
  BY DEF Placed, Widths
<1>4. \A t \in 1..m + 1 : \E f \in 1..n + 1 : d.topics[t].name = dest[f].name
  <2> TAKE t \in 1..m + 1
  <2>1. CASE t = m + 1
    BY <2>1, <1>2
  <2>2. CASE t \in 1..m
    BY <2>2, <1>2, <1>3
  <2> QED BY <2>1, <2>2, <1>2
<1>5. ASSUME NEW t \in 1..m + 1, NEW f \in 1..n + 1, d.topics[t].name = dest[f].name
      PROVE  /\ d.topics[t].width = more[f].width
             /\ (\A g \in 1..f : ~Missing(c, dest[g])) => d.topics[t].offset = more[f].offset
  <2>1. CASE t = m + 1
    <3>1. f = n + 1
      <4>1. dest[f].name = dest[n + 1].name
        BY <1>2, <1>5, <2>1
      <4> QED BY <4>1
    <3>2. (\A g \in 1..f : ~Missing(c, dest[g])) => b.size = EndIn(source, n)
      BY <3>1 DEF Arranged
    <3> QED BY <2>1, <3>1, <3>2, <1>1, <1>2
  <2>2. CASE t \in 1..m
    <3>1. f \in 1..n
      BY <2>2, <1>2, <1>3, <1>5
    <3>2. b.topics[t].name = dest[f].name
      BY <2>2, <1>2, <1>5
    <3>3. /\ b.topics[t].width = source[f].width
          /\ (\A g \in 1..f : ~Missing(c, dest[g])) => b.topics[t].offset = source[f].offset
      BY <2>2, <3>1, <3>2 DEF Arranged, m
    <3>4. more[f] = source[f] /\ d.topics[t] = b.topics[t]
      BY <2>2, <3>1, <1>1, <1>2
    <3> QED BY <3>3, <3>4
  <2> QED BY <2>1, <2>2, <1>2
<1>6. ASSUME NEW t \in 1..m + 1
      PROVE  /\ d.topics[t].offset + d.topics[t].width <= d.size
             /\ \A u \in 1..t - 1 : d.topics[u].offset + d.topics[u].width <= d.topics[t].offset
  <2>1. CASE t = m + 1
    <3>1. d.topics[t].offset = b.size /\ d.topics[t].width = new.width
      BY <2>1, <1>2
    <3>2. \A u \in 1..t - 1 : d.topics[u] = b.topics[u] /\ u \in 1..m
      BY <2>1, <1>2
    <3>3. \A u \in 1..t - 1 : b.topics[u].offset + b.topics[u].width <= b.size
      BY <3>2, <1>3
    <3> QED BY <3>1, <3>2, <3>3, <1>2, <1>w
  <2>2. CASE t \in 1..m
    <3>1. \A u \in 1..t - 1 : u \in 1..m
      BY <2>2, <1>2
    <3>2. d.topics[t].offset + d.topics[t].width <= d.size
      <4>1. d.topics[t] = b.topics[t] /\ b.topics[t].offset + b.topics[t].width <= b.size
        BY <2>2, <1>2, <1>3
      <4>2. b.topics[t].offset + b.topics[t].width \in Nat
        BY <2>2, <1>3
      <4> QED BY <4>1, <4>2, <1>2, <1>w
    <3> QED BY <2>2, <3>1, <3>2, <1>2 DEF Arranged, m
  <2> QED BY <2>1, <2>2, <1>2
<1>7. (\A g \in 1..n + 1 : ~Missing(c, dest[g])) => d.size = EndIn(more, n + 1)
  <2>1. EndIn(more, n + 1) = new.offset + new.width
    BY <1>1 DEF EndIn
  <2>2. (\A g \in 1..n + 1 : ~Missing(c, dest[g])) => b.size = EndIn(source, n)
    BY DEF Arranged
  <2> QED BY <2>1, <2>2
<1>8. Arranged(c, dest, more, d, n + 1)
  BY <1>2, <1>4, <1>5, <1>6, <1>7 DEF Arranged, m
<1> QED BY <1>8 DEF more

LEMMA FieldsStep == LayoutInv /\ FieldsInv /\ [LayoutNext]_layout => FieldsInv'
<1> SUFFICES ASSUME LayoutInv, FieldsInv, [LayoutNext]_layout PROVE FieldsInv'
  OBVIOUS
<1>1. CASE dstMsg' = dstMsg /\ size' = size
  BY <1>1 DEF FieldsInv
<1>2. CASE LoadField /\ ~(dstMsg' = dstMsg /\ size' = size)
  <2>1. /\ phase = "load" /\ ~Known(dstMsg[i], Msg(i)[k].name)
        /\ dstMsg' = [dstMsg EXCEPT ![i] = Add(@, Msg(i)[k].name, Msg(i)[k].width)]
        /\ offset' = offset + Msg(i)[k].width
        /\ size' = [size EXCEPT ![i] = offset']
        /\ k <= Len(Msg(i))
    BY <1>2 DEF LoadField
  <2>2. LayoutTypeOK /\ MsgInv /\ sys \in Setups /\ i \in 1..N + 1 /\ k \in Nat \ {0} /\ i # N + 1
    BY <2>1 DEF LayoutInv, LayoutTypeOK
  <2>3. i \in Procs
    BY <2>2, LayoutAssumption DEF Procs
  <2>4. /\ offset \in Nat /\ offset = size[i] /\ dstMsg[i] \in Seq(Placed)
        /\ dstMsg \in [Procs -> Seq(Placed)] /\ size \in [Procs -> Nat]
    BY <2>1, <2>2, <2>3 DEF MsgInv, LayoutTypeOK
  <2>5. Msg(i)[k].name \in Names /\ Msg(i)[k].width \in Nat
    BY <2>1, <2>2, <2>3, SysFacts DEF Widths
  <2> PICK new : new = [name |-> Msg(i)[k].name, width |-> Msg(i)[k].width, offset |-> offset]
    OBVIOUS
  <2>6. /\ new \in Placed /\ new.name = Msg(i)[k].name
        /\ new.offset = offset /\ new.width = Msg(i)[k].width
    BY <2>4, <2>5 DEF Placed, Widths
  <2>7. /\ dstMsg'[i] = Append(dstMsg[i], new)
        /\ size'[i] = offset + new.width
        /\ \A p \in Procs \ {i} : dstMsg'[p] = dstMsg[p] /\ size'[p] = size[p]
    BY <2>1, <2>3, <2>4, <2>6 DEF Add
  <2>8. PICK m \in Nat : /\ Len(dstMsg[i]) = m /\ Len(dstMsg'[i]) = m + 1
                         /\ dstMsg'[i][m + 1] = new
                         /\ \A j \in 1..m : dstMsg'[i][j] = dstMsg[i][j] /\ dstMsg[i][j] \in Placed
                         /\ DOMAIN dstMsg[i] = 1..m
    <3>1. Len(dstMsg[i]) \in Nat /\ DOMAIN dstMsg[i] = 1..Len(dstMsg[i])
      BY <2>4, SeqFacts
    <3>2. \A j \in 1..Len(dstMsg[i]) : dstMsg[i][j] \in Placed
      BY <2>4, SeqFacts
    <3>3. /\ Len(dstMsg'[i]) = Len(dstMsg[i]) + 1
          /\ dstMsg'[i][Len(dstMsg[i]) + 1] = new
          /\ \A j \in 1..Len(dstMsg[i]) : dstMsg'[i][j] = dstMsg[i][j]
      BY <2>4, <2>6, <2>7, AppendFacts
    <3> QED BY <3>1, <3>2, <3>3
  <2>9. \A j \in 1..m : /\ dstMsg[i][j].name # new.name
                        /\ dstMsg[i][j].offset + dstMsg[i][j].width <= size[i]
                        /\ dstMsg[i][j].offset \in Nat /\ dstMsg[i][j].width \in Nat
    BY <2>1, <2>3, <2>6, <2>8 DEF Known, FieldsInv, Placed, Widths
  <2>10. ASSUME NEW f \in 1..m + 1
         PROVE  /\ dstMsg'[i][f].offset + dstMsg'[i][f].width <= size'[i]
                /\ \A g \in 1..m + 1 : dstMsg'[i][g].name = dstMsg'[i][f].name => g = f
    <3>1. CASE f = m + 1
      <4>1. \A g \in 1..m + 1 : g # m + 1 => g \in 1..m
        OBVIOUS
      <4> QED BY <3>1, <4>1, <2>4, <2>5, <2>6, <2>7, <2>8, <2>9
    <3>2. CASE f \in 1..m
      <4>1. dstMsg'[i][f].offset + dstMsg'[i][f].width <= size'[i]
        <5>1. dstMsg'[i][f] = dstMsg[i][f]
          BY <3>2, <2>8
        <5>2. dstMsg[i][f].offset + dstMsg[i][f].width <= offset
          BY <3>2, <2>4, <2>9
        <5>3. dstMsg[i][f].offset + dstMsg[i][f].width \in Nat
          BY <3>2, <2>9
        <5>4. size'[i] = offset + new.width /\ new.width \in Nat
          BY <2>5, <2>6, <2>7
        <5> QED BY <5>1, <5>2, <5>3, <5>4, <2>4
      <4>2. ASSUME NEW g \in 1..m + 1, dstMsg'[i][g].name = dstMsg'[i][f].name
            PROVE  g = f
        <5>1. g \in 1..m
          BY <4>2, <3>2, <2>8, <2>9
        <5> QED BY <5>1, <4>2, <3>2, <2>3, <2>8 DEF FieldsInv
      <4> QED BY <4>1, <4>2
    <3> QED BY <3>1, <3>2
  <2>11. ASSUME NEW p \in Procs, NEW f \in 1..Len(dstMsg'[p])
         PROVE  /\ dstMsg'[p][f].offset + dstMsg'[p][f].width <= size'[p]
                /\ \A g \in 1..Len(dstMsg'[p]) : dstMsg'[p][g].name = dstMsg'[p][f].name => g = f
    <3>1. CASE p = i
      BY <3>1, <2>8, <2>10
    <3>2. CASE p # i
      BY <3>2, <2>7 DEF FieldsInv
    <3> QED BY <3>1, <3>2
  <2> QED BY <2>11 DEF FieldsInv
<1> QED BY <1>1, <1>2 DEF LayoutNext, layout, MessageLoaded, OpenSocket, BeginBridge, BridgeField,
                          EndBridge, EndInputs

\* A process that has its bridge keeps it, and what is known of it.
LEMMA SettledStay ==
    ASSUME PlacesInv, NEW q \in Procs, ~IsUdp(q), descr[q] # 0, descr[q] \in DOMAIN bridges,
           sys' = sys, dstMsg' = dstMsg, srcMsg'[q] = srcMsg[q], descr'[q] = descr[q],
           bridges'[descr[q]] = bridges[descr[q]]
    PROVE  /\ Follows(sys, dstMsg[q], srcMsg[q], Len(dstMsg[q]))'
           /\ Arranged(sys, dstMsg[q], srcMsg[q], TheBridge(q), Len(dstMsg[q]))'
<1>1. /\ Follows(sys, dstMsg[q], srcMsg[q], Len(dstMsg[q]))
      /\ Arranged(sys, dstMsg[q], srcMsg[q], TheBridge(q), Len(dstMsg[q]))
  BY DEF PlacesInv
<1>2. TheBridge(q)' = TheBridge(q)
  BY DEF TheBridge
<1> QED BY <1>1, <1>2

\* The steps that give no process a bridge and add no field to a src_msg.
LEMMA PlacesKept ==
    ASSUME LayoutInv, PlacesInv, sys' = sys, dstMsg' = dstMsg, srcMsg' = srcMsg,
           bridges' = bridges,
           \A q \in Procs : (~IsUdp(q) /\ descr[q] # 0)' => descr'[q] = descr[q]
    PROVE  (\A q \in Procs : ~IsUdp(q) /\ descr[q] # 0 =>
              /\ Follows(sys, dstMsg[q], srcMsg[q], Len(dstMsg[q]))
              /\ Arranged(sys, dstMsg[q], srcMsg[q], TheBridge(q), Len(dstMsg[q])))'
<1> SUFFICES ASSUME NEW q \in Procs, (~IsUdp(q) /\ descr[q] # 0)'
             PROVE  (/\ Follows(sys, dstMsg[q], srcMsg[q], Len(dstMsg[q]))
                     /\ Arranged(sys, dstMsg[q], srcMsg[q], TheBridge(q), Len(dstMsg[q])))'
  OBVIOUS
<1>1. ~IsUdp(q) /\ descr[q] # 0 /\ descr'[q] = descr[q]
  BY DEF IsUdp, Cfg
<1>2. descr[q] \in DOMAIN bridges
  BY <1>1 DEF LayoutInv, SourceInv
<1> QED BY <1>1, <1>2, SettledStay

LEMMA NothingArranged ==
    ASSUME NEW c, NEW dest
    PROVE  Follows(c, dest, <<>>, 0) /\ Arranged(c, dest, <<>>, NoBridge, 0)
BY DEF Follows, Arranged, NoBridge, EndIn

LEMMA PlacesBridgeField ==
    ASSUME LayoutInv, FieldsInv, PlacesInv, BridgeField
    PROVE  PlacesInv'
<1>1. /\ phase = "bridge" /\ k <= Len(dstMsg[i])
      /\ UNCHANGED <<sys, dstMsg, size, bridges, descr>>
  BY DEF BridgeField
<1>2. LayoutTypeOK /\ SourceInv /\ i <= N
  BY <1>1, LayoutAssumption DEF LayoutInv, LayoutTypeOK
<1>3. /\ i \in Procs /\ i + 1 \in 1..N + 1 /\ N \in Nat /\ sys \in Setups
      /\ LaidOut(i, Len(Msg(i))) /\ Len(Msg(i)) \in Nat /\ Len(dstMsg[i]) = Len(Msg(i))
  BY <1>1, <1>2, InputFacts
<1>4. k \in 1..Len(dstMsg[i]) /\ k \in Nat /\ descr[i] = 0
  BY <1>1, <1>2, <1>3 DEF LayoutTypeOK, SourceInv
<1>5. PICK f, t, width :
         /\ f = dstMsg[i][k] /\ t = sys.topic[f.name]
         /\ width = IF t.kind = "none" THEN f.width ELSE t.width
  OBVIOUS
<1>6. f \in Placed /\ f.name \in Names /\ f.width \in Nat
  <2>1. dstMsg[i] \in Seq(Placed)
    BY <1>2, <1>3 DEF LayoutTypeOK
  <2>2. f \in Placed
    BY <2>1, <1>4, <1>5, SeqFacts
  <2> QED BY <2>2 DEF Placed, Widths
<1>7. t.kind \in {"none", "value", "other"} /\ width \in Nat
  BY <1>3, <1>5, <1>6, SysFacts DEF Widths
<1>8. /\ offset = EndIn(srcMsg[i], k - 1)
      /\ Follows(sys, dstMsg[i], srcMsg[i], k - 1)
      /\ Arranged(sys, dstMsg[i], srcMsg[i], br, k - 1)
      /\ \A q \in i + 1..N : srcMsg[q] = <<>>
  BY <1>1 DEF PlacesInv
<1>9. CASE t.kind = "other"
  <2>1. NextInput(TRUE) /\ UNCHANGED srcMsg
    BY <1>5, <1>9 DEF BridgeField
  <2>2. i' = i + 1 /\ phase' = "inputs"
    BY <2>1 DEF NextInput
  <2>3. (\A q \in Procs : ~IsUdp(q) /\ descr[q] # 0 =>
              /\ Follows(sys, dstMsg[q], srcMsg[q], Len(dstMsg[q]))
              /\ Arranged(sys, dstMsg[q], srcMsg[q], TheBridge(q), Len(dstMsg[q])))'
    BY <1>1, <2>1, PlacesKept
  <2> QED BY <1>8, <2>1, <2>2, <2>3 DEF PlacesInv
<1>10. CASE t.kind # "other"
  <2> PICK new : new = [name |-> f.name, width |-> width, offset |-> offset]
    OBVIOUS
  <2> PICK topic : topic = [name |-> f.name, width |-> width, offset |-> br.size]
    OBVIOUS
  <2>1. /\ srcMsg' = [srcMsg EXCEPT ![i] = Append(@, new)]
        /\ offset' = offset + width /\ k' = k + 1
        /\ br' = IF t.kind = "none" THEN br
                 ELSE [topics |-> Append(br.topics, topic), size |-> br.size + width]
        /\ UNCHANGED <<phase, i, errs>>
    BY <1>5, <1>10 DEF BridgeField, Add
  <2>2. /\ br.topics \in Seq(Placed) /\ br.size \in Nat /\ offset \in Nat /\ br \in Bridge
        /\ srcMsg[i] \in Seq(Placed) /\ Len(br.topics) \in Nat /\ srcMsg \in [Procs -> Seq(Placed)]
    BY <1>2, <1>3 DEF LayoutTypeOK, Bridge
  <2>3. new \in Placed /\ topic \in Placed
    BY <1>6, <1>7, <2>2 DEF Placed, Widths
  <2>4. /\ new.name = f.name /\ new.width = width /\ new.offset = offset
        /\ topic.name = f.name /\ topic.width = width /\ topic.offset = br.size
    OBVIOUS
  <2> PICK n \in Nat : n = k - 1
    BY <1>4
  <2>5. n + 1 = k /\ dstMsg[i][n + 1] = f /\ Len(srcMsg[i]) = n
    BY <1>4, <1>5, <1>8 DEF Follows
  <2>6. srcMsg'[i] = Append(srcMsg[i], new) /\ \A q \in Procs \ {i} : srcMsg'[q] = srcMsg[q]
    BY <1>3, <2>1, <2>2
  <2>7. \A g \in 1..n : dstMsg[i][g].name # f.name
    BY <1>3, <1>4, <1>5, <2>5 DEF FieldsInv
  <2>8. f.offset = EndIn(dstMsg[i], n)
    BY <1>3, <1>4, <1>5, <2>5 DEF LaidOut, EndOf, EndIn
  <2>9. width = WidthIn(sys, f)
    BY <1>5 DEF WidthIn, Missing
  <2>10. /\ Follows(sys, dstMsg[i], srcMsg'[i], n + 1)
         /\ EndIn(srcMsg'[i], n + 1) = offset + width
    <3>1. Follows(sys, dstMsg[i], srcMsg[i], n) /\ new.offset = EndIn(srcMsg[i], n)
      BY <1>8, <2>4
    <3>2. new.name = dstMsg[i][n + 1].name /\ new.width = WidthIn(sys, dstMsg[i][n + 1])
      BY <2>4, <2>5, <2>9
    <3>3. dstMsg[i][n + 1].offset = EndIn(dstMsg[i], n)
      BY <2>5, <2>8
    <3>4. /\ Follows(sys, dstMsg[i], Append(srcMsg[i], new), n + 1)
          /\ EndIn(Append(srcMsg[i], new), n + 1) = new.offset + new.width
      <4>1. srcMsg[i] \in Seq(Placed) /\ new \in Placed /\ n \in Nat
        BY <2>2, <2>3
      <4> QED BY <4>1, <3>1, <3>2, <3>3, FollowsExtends, Zenon
    <3> QED BY <2>4, <2>6, <3>4
  <2>11. Arranged(sys, dstMsg[i], srcMsg'[i], br', n + 1)
    <3>1. CASE t.kind = "none"
      <4>1. br' = br /\ Missing(sys, dstMsg[i][n + 1])
        BY <2>1, <2>5, <3>1, <1>5 DEF Missing
      <4>2. Arranged(sys, dstMsg[i], srcMsg[i], br, n)
        BY <1>8
      <4> QED BY <4>1, <4>2, <2>2, <2>3, <2>5, <2>6, <2>7, ArrangedWithout
    <3>2. CASE t.kind # "none"
      <4>1. br'.topics = Append(br.topics, topic) /\ br'.size = br.size + new.width
        BY <2>1, <2>4, <3>2
      <4>2. Arranged(sys, dstMsg[i], srcMsg[i], br, n) /\ new.offset = EndIn(srcMsg[i], n)
        BY <1>8, <2>4
      <4> QED BY <4>1, <4>2, <2>2, <2>3, <2>4, <2>5, <2>6, <2>7, ArrangedWith
    <3> QED BY <3>1, <3>2
  <2>12. (\A q \in Procs : ~IsUdp(q) /\ descr[q] # 0 =>
              /\ Follows(sys, dstMsg[q], srcMsg[q], Len(dstMsg[q]))
              /\ Arranged(sys, dstMsg[q], srcMsg[q], TheBridge(q), Len(dstMsg[q])))'
    <3> SUFFICES ASSUME NEW q \in Procs, (~IsUdp(q) /\ descr[q] # 0)'
                 PROVE  (/\ Follows(sys, dstMsg[q], srcMsg[q], Len(dstMsg[q]))
                         /\ Arranged(sys, dstMsg[q], srcMsg[q], TheBridge(q), Len(dstMsg[q])))'
      OBVIOUS
    <3>1. ~IsUdp(q) /\ descr[q] # 0 /\ descr'[q] = descr[q] /\ q # i
      BY <1>1, <1>4 DEF IsUdp, Cfg
    <3>2. descr[q] \in DOMAIN bridges /\ srcMsg'[q] = srcMsg[q]
      BY <3>1, <2>6, <1>2 DEF SourceInv
    <3> QED BY <1>1, <3>1, <3>2, SettledStay
  <2>13. phase' = "bridge" /\ i' = i /\ k' - 1 = n + 1
    BY <1>1, <2>1, <2>5
  <2>14. \A q \in i' + 1..N : srcMsg'[q] = <<>>
    BY <1>3, <1>8, <2>6, <2>13 DEF Procs
  <2>15. offset' = EndIn(srcMsg'[i'], k' - 1)
    BY <2>1, <2>10, <2>13
  <2>16. Follows(sys', dstMsg'[i'], srcMsg'[i'], k' - 1)
    BY <1>1, <2>10, <2>13
  <2>17. Arranged(sys', dstMsg'[i'], srcMsg'[i'], br', k' - 1)
    BY <1>1, <2>11, <2>13
  <2> QED BY <2>12, <2>13, <2>14, <2>15, <2>16, <2>17 DEF PlacesInv
<1> QED BY <1>9, <1>10

LEMMA PlacesEndBridge ==
    ASSUME LayoutInv, PlacesInv, EndBridge
    PROVE  PlacesInv'
<1>1. /\ phase = "bridge" /\ k > Len(dstMsg[i])
      /\ UNCHANGED <<sys, k, dstMsg, srcMsg, size, offset, br>>
  BY DEF EndBridge
<1>2. LayoutTypeOK /\ SourceInv /\ i <= N
  BY <1>1, LayoutAssumption DEF LayoutInv, LayoutTypeOK
<1>3. /\ i \in Procs /\ N \in Nat /\ Len(dstMsg[i]) \in Nat /\ k - 1 = Len(dstMsg[i])
  BY <1>1, <1>2, InputFacts DEF SourceInv, LayoutTypeOK
<1>4. /\ Follows(sys, dstMsg[i], srcMsg[i], k - 1)
      /\ Arranged(sys, dstMsg[i], srcMsg[i], br, k - 1)
      /\ \A q \in i + 1..N : srcMsg[q] = <<>>
  BY <1>1 DEF PlacesInv
<1>5. i' = i + 1 /\ phase' = "inputs"
  BY DEF EndBridge, NextInput
<1>6. CASE br.topics = <<>>
  <2>1. UNCHANGED <<bridges, descr>>
    BY <1>6 DEF EndBridge
  <2>2. (\A q \in Procs : ~IsUdp(q) /\ descr[q] # 0 =>
              /\ Follows(sys, dstMsg[q], srcMsg[q], Len(dstMsg[q]))
              /\ Arranged(sys, dstMsg[q], srcMsg[q], TheBridge(q), Len(dstMsg[q])))'
    BY <1>1, <2>1, PlacesKept
  <2> QED BY <1>1, <1>4, <1>5, <2>2 DEF PlacesInv
<1>7. CASE br.topics # <<>>
  <2>1. bridges' = Append(bridges, br) /\ descr' = [descr EXCEPT ![i] = Len(bridges')]
    BY <1>7 DEF EndBridge
  <2>2. bridges \in Seq(Bridge) /\ br \in Bridge /\ descr \in [Procs -> Nat]
    BY <1>2 DEF LayoutTypeOK
  <2>3. /\ Len(bridges) \in Nat /\ Len(bridges') = Len(bridges) + 1
        /\ \A j \in DOMAIN bridges : bridges'[j] = bridges[j]
        /\ bridges'[Len(bridges) + 1] = br
    BY <2>1, <2>2, AppendFacts
  <2>4. descr'[i] = Len(bridges) + 1 /\ \A q \in Procs \ {i} : descr'[q] = descr[q]
    BY <1>3, <2>1, <2>2, <2>3
  <2>5. (\A q \in Procs : ~IsUdp(q) /\ descr[q] # 0 =>
              /\ Follows(sys, dstMsg[q], srcMsg[q], Len(dstMsg[q]))
              /\ Arranged(sys, dstMsg[q], srcMsg[q], TheBridge(q), Len(dstMsg[q])))'
    <3> SUFFICES ASSUME NEW q \in Procs, (~IsUdp(q) /\ descr[q] # 0)'
                 PROVE  (/\ Follows(sys, dstMsg[q], srcMsg[q], Len(dstMsg[q]))
                         /\ Arranged(sys, dstMsg[q], srcMsg[q], TheBridge(q), Len(dstMsg[q])))'
      OBVIOUS
    <3>1. CASE q = i
      <4>1. TheBridge(q)' = br
        BY <2>3, <2>4, <3>1 DEF TheBridge
      <4>2. Len(dstMsg[q])' = k - 1 /\ dstMsg'[q] = dstMsg[i] /\ srcMsg'[q] = srcMsg[i] /\ sys' = sys
        BY <1>1, <1>3, <3>1
      <4> QED BY <4>1, <4>2, <1>4
    <3>2. CASE q # i
      <4>1. ~IsUdp(q) /\ descr[q] # 0 /\ descr'[q] = descr[q]
        BY <1>1, <2>4, <3>2 DEF IsUdp, Cfg
      <4>2. descr[q] \in DOMAIN bridges
        BY <4>1, <1>2 DEF SourceInv
      <4> QED BY <1>1, <2>3, <4>1, <4>2, SettledStay
    <3> QED BY <3>1, <3>2
  <2> QED BY <1>1, <1>4, <1>5, <2>5 DEF PlacesInv
<1> QED BY <1>6, <1>7

LEMMA PlacesStep == LayoutInv /\ FieldsInv /\ PlacesInv /\ [LayoutNext]_layout => PlacesInv'
<1> SUFFICES ASSUME LayoutInv, FieldsInv, PlacesInv, [LayoutNext]_layout PROVE PlacesInv'
  OBVIOUS
<1> DEFINE Settled == \A q \in Procs : ~IsUdp(q) /\ descr[q] # 0 =>
              /\ Follows(sys, dstMsg[q], srcMsg[q], Len(dstMsg[q]))
              /\ Arranged(sys, dstMsg[q], srcMsg[q], TheBridge(q), Len(dstMsg[q]))
<1>0. LayoutTypeOK /\ SourceInv /\ N \in Nat \ {0}
  BY LayoutAssumption DEF LayoutInv
<1>1. CASE LoadField
  <2>1. phase = "load" /\ phase' \in {"load", "refused"} /\ UNCHANGED <<sys, srcMsg, descr>>
    BY <1>1 DEF LoadField
  <2> QED BY <2>1, <1>0 DEF PlacesInv, SourceInv
<1>2. CASE MessageLoaded
  <2>1. /\ phase = "load" /\ phase' \in {"load", "inputs"} /\ UNCHANGED <<sys, srcMsg, descr>>
        /\ i' \in 1..N + 1
    BY <1>2, <1>0 DEF MessageLoaded, LayoutTypeOK
  <2>2. \A q \in i'..N : q \in Procs
    BY <2>1, <1>0 DEF Procs
  <2> QED BY <2>1, <2>2, <1>0 DEF PlacesInv, SourceInv
<1>3. CASE OpenSocket
  <2>1. /\ phase = "inputs" /\ i <= N /\ IsUdp(i) /\ i' = i + 1 /\ phase' = "inputs"
        /\ UNCHANGED <<sys, dstMsg, srcMsg, bridges>>
    BY <1>3 DEF OpenSocket, NextInput, IsUdp
  <2>2. i \in Procs
    BY <2>1, InputFacts
  <2>3. \A q \in Procs \ {i} : descr'[q] = descr[q]
    BY <1>3, <1>0 DEF OpenSocket, LayoutTypeOK
  <2>4. \A q \in Procs : (~IsUdp(q) /\ descr[q] # 0)' => descr'[q] = descr[q]
    BY <2>1, <2>3 DEF IsUdp, Cfg
  <2>5. Settled'
    BY <2>1, <2>4, PlacesKept
  <2>6. \A q \in i'..N : srcMsg'[q] = <<>>
    BY <2>1, <2>2, <1>0 DEF PlacesInv, Procs
  <2> QED BY <2>1, <2>5, <2>6 DEF PlacesInv
<1>4. CASE BeginBridge
  <2>1. /\ phase = "inputs" /\ i <= N /\ br' = NoBridge /\ offset' = 0 /\ k' = 1
        /\ UNCHANGED <<sys, dstMsg, srcMsg, bridges, descr>>
        /\ \/ i' = i + 1 /\ phase' = "inputs"
           \/ i' = i /\ phase' = "bridge"
    BY <1>4 DEF BeginBridge, NextInput
  <2>2. i \in Procs
    BY <2>1, InputFacts
  <2>3. Settled'
    BY <2>1, PlacesKept
  <2>4. srcMsg[i] = <<>> /\ \A q \in i + 1..N : srcMsg[q] = <<>>
    BY <2>1, <2>2, <1>0 DEF PlacesInv, Procs
  <2>5. CASE i' = i + 1 /\ phase' = "inputs"
    BY <2>1, <2>3, <2>4, <2>5 DEF PlacesInv
  <2>6. CASE i' = i /\ phase' = "bridge"
    <3>1. k' - 1 = 0 /\ srcMsg'[i'] = <<>> /\ offset' = EndIn(srcMsg'[i'], k' - 1)
      BY <2>1, <2>4, <2>6 DEF EndIn
    <3>2. /\ Follows(sys', dstMsg'[i'], srcMsg'[i'], k' - 1)
          /\ Arranged(sys', dstMsg'[i'], srcMsg'[i'], br', k' - 1)
      BY <2>1, <3>1, NothingArranged
    <3> QED BY <2>1, <2>3, <2>4, <2>6, <3>1, <3>2 DEF PlacesInv
  <2> QED BY <2>1, <2>5, <2>6
<1>5. CASE EndInputs
  <2>1. /\ phase' \in {"run", "refused"}
        /\ UNCHANGED <<sys, dstMsg, srcMsg, bridges, descr>>
    BY <1>5 DEF EndInputs
  <2> QED BY <2>1, PlacesKept DEF PlacesInv
<1>6. CASE UNCHANGED layout
  <2>1. /\ sys' = sys /\ phase' = phase /\ i' = i /\ k' = k /\ offset' = offset
        /\ dstMsg' = dstMsg /\ srcMsg' = srcMsg /\ br' = br /\ bridges' = bridges /\ descr' = descr
    BY <1>6 DEF layout
  <2>2. Settled'
    BY <2>1, PlacesKept
  <2> QED BY <2>1, <2>2 DEF PlacesInv
<1> QED BY <1>1, <1>2, <1>3, <1>4, <1>5, <1>6, PlacesBridgeField, PlacesEndBridge DEF LayoutNext

LEMMA ArrangedInitially == LayoutInit => ArrangedInv
<1> SUFFICES ASSUME LayoutInit PROVE ArrangedInv
  OBVIOUS
<1>1. FieldsInv
  BY DEF LayoutInit, FieldsInv
<1>2. PlacesInv
  BY DEF LayoutInit, PlacesInv
<1> QED BY <1>1, <1>2 DEF ArrangedInv

LEMMA ArrangedInvariance == Spec => []ArrangedInv
<1>1. Init => ArrangedInv
  BY ArrangedInitially DEF Init
<1>2. IInv /\ ArrangedInv /\ [Next]_vars => ArrangedInv'
  <2> SUFFICES ASSUME IInv, ArrangedInv, [Next]_vars PROVE ArrangedInv'
    OBVIOUS
  <2>1. [LayoutNext]_layout
    BY DEF Next, LayoutStep, Update, Arrive, StartThread, Loop, ReceiveDatagram, BeginWait,
           AwaitUpdate, ReadTopic, ReadFails, Send, vars
  <2>2. FieldsInv' /\ PlacesInv'
    BY <2>1, FieldsStep, PlacesStep DEF IInv, ArrangedInv
  <2> QED BY <2>2 DEF ArrangedInv
<1> QED BY <1>1, <1>2, Invariance, PTL DEF Spec

\* OwnBridges, for every number of processes, every message, bus and pool: the
\* threads start only with a source each, and a bridge of one's own that has
\* just the topics that the message has fields for, each where src_msg says it
\* is, up to the first one that is missing (ibr_init_inputs, create_bridge).
THEOREM IbrBridges == Spec => []OwnBridges
<1>1. IInv /\ ArrangedInv => OwnBridges
  <2> SUFFICES ASSUME IInv, ArrangedInv, phase = "run", NEW p \in Procs
               PROVE  /\ descr[p] # 0
                      /\ ~IsUdp(p) =>
                         /\ descr[p] \in DOMAIN bridges
                         /\ {TheBridge(p).topics[t].name : t \in DOMAIN TheBridge(p).topics}
                              = {x \in Names : /\ sys.topic[x].kind = "value"
                                               /\ \E f \in DOMAIN Msg(p) : Msg(p)[f].name = x}
                         /\ \A q \in Procs : ~IsUdp(q) /\ descr[q] = descr[p] => q = p
                         /\ \A f \in DOMAIN srcMsg[p], t \in DOMAIN TheBridge(p).topics :
                               TheBridge(p).topics[t].name = srcMsg[p][f].name =>
                                  \/ TheBridge(p).topics[t] = srcMsg[p][f]
                                  \/ \E g \in 1..f : sys.topic[srcMsg[p][g].name].kind = "none"
    BY DEF OwnBridges
  <2>1. LayoutTypeOK /\ MsgInv /\ SourceInv /\ PlacesInv /\ sys \in Setups
    BY DEF IInv, LayoutInv, LayoutTypeOK, ArrangedInv
  <2>2. descr[p] # 0
    BY <2>1 DEF SourceInv
  <2>3. ASSUME ~IsUdp(p)
        PROVE  /\ descr[p] \in DOMAIN bridges
               /\ \A q \in Procs : ~IsUdp(q) /\ descr[q] = descr[p] => q = p
               /\ BridgeOf(TheBridge(p), p, Len(dstMsg[p]))
               /\ Follows(sys, dstMsg[p], srcMsg[p], Len(dstMsg[p]))
               /\ Arranged(sys, dstMsg[p], srcMsg[p], TheBridge(p), Len(dstMsg[p]))
    BY <2>1, <2>2, <2>3 DEF SourceInv, PlacesInv
  <2>4. /\ Len(dstMsg[p]) = Len(Msg(p)) /\ DOMAIN Msg(p) = 1..Len(Msg(p)) /\ Len(Msg(p)) \in Nat
        /\ \A f \in 1..Len(Msg(p)) : dstMsg[p][f].name = Msg(p)[f].name
    BY <2>1, SysFacts DEF MsgInv, LaidOut
  <2>5. ASSUME ~IsUdp(p)
        PROVE  {TheBridge(p).topics[t].name : t \in DOMAIN TheBridge(p).topics}
                  = {x \in Names : /\ sys.topic[x].kind = "value"
                                   /\ \E f \in DOMAIN Msg(p) : Msg(p)[f].name = x}
    <3>1. {TheBridge(p).topics[t].name : t \in DOMAIN TheBridge(p).topics}
             = {x \in Names : /\ sys.topic[x].kind = "value"
                              /\ \E f \in 1..Len(dstMsg[p]) : dstMsg[p][f].name = x}
      BY <2>3, <2>5 DEF BridgeOf
    <3> QED BY <3>1, <2>4
  <2>6. ASSUME ~IsUdp(p), NEW f \in DOMAIN srcMsg[p], NEW t \in DOMAIN TheBridge(p).topics,
               TheBridge(p).topics[t].name = srcMsg[p][f].name,
               ~ \E g \in 1..f : sys.topic[srcMsg[p][g].name].kind = "none"
        PROVE  TheBridge(p).topics[t] = srcMsg[p][f]
    <3>1. srcMsg[p] \in Seq(Placed) /\ TheBridge(p) \in Bridge
      BY <2>1, <2>3, <2>6 DEF LayoutTypeOK, TheBridge
    <3>2. TheBridge(p).topics \in Seq(Placed)
      BY <3>1 DEF Bridge
    <3>3. /\ srcMsg[p][f] \in Placed /\ TheBridge(p).topics[t] \in Placed
          /\ t \in 1..Len(TheBridge(p).topics) /\ f \in 1..Len(dstMsg[p])
      BY <2>3, <2>6, <3>1, <3>2, SeqFacts DEF Follows
    <3>4. \A g \in 1..f : g \in 1..Len(dstMsg[p]) /\ srcMsg[p][g].name = dstMsg[p][g].name
      BY <2>3, <2>4, <2>6, <3>3 DEF Follows
    <3>5. \A g \in 1..f : ~Missing(sys, dstMsg[p][g])
      BY <2>6, <3>4 DEF Missing
    <3>6. TheBridge(p).topics[t].name = dstMsg[p][f].name
      BY <2>6, <3>3, <2>3 DEF Follows
    <3>7. /\ TheBridge(p).topics[t].width = srcMsg[p][f].width
          /\ TheBridge(p).topics[t].offset = srcMsg[p][f].offset
      BY <2>3, <2>6, <3>3, <3>5, <3>6 DEF Arranged
    <3> QED BY <2>6, <3>3, <3>7 DEF Placed
  <2> QED BY <2>2, <2>3, <2>5, <2>6
<1> QED BY <1>1, Invariance, ArrangedInvariance, PTL
-----------------------------------------------------------------------------
(* What a message from a bridge consists of.                               *)

LEMMA HoldsLater ==
    ASSUME NEW topics, NEW version, NEW later, NEW m, NEW cells, NEW n \in Nat,
           Holds(topics, version, m, cells, n),
           \A t \in 1..n : /\ version[topics[t].name] \in Nat /\ later[topics[t].name] \in Nat
                           /\ version[topics[t].name] <= later[topics[t].name]
    PROVE  Holds(topics, later, m, cells, n)
<1> SUFFICES ASSUME NEW t \in 1..n
             PROVE  \E v \in 0..later[topics[t].name] : \A b \in 0..topics[t].width - 1 :
                       topics[t].offset + b < m =>
                          cells[topics[t].offset + b] = TopicByte(topics[t].name, v, b)
  BY DEF Holds
<1>1. PICK v \in 0..version[topics[t].name] : \A b \in 0..topics[t].width - 1 :
         topics[t].offset + b < m =>
            cells[topics[t].offset + b] = TopicByte(topics[t].name, v, b)
  BY DEF Holds
<1>2. v \in 0..later[topics[t].name]
  OBVIOUS
<1> QED BY <1>1, <1>2

LEMMA Below ==
    ASSUME NEW o \in Nat, NEW w \in Nat, NEW b \in 0..w - 1, NEW m \in Nat, NEW end \in Nat,
           o + b < m, o + w <= end
    PROVE  o + b \in 0..m - 1 /\ o + b < end
OBVIOUS

\* Reading one more topic disturbs none of those before it.
LEMMA HoldsRead ==
    ASSUME NEW topics \in Seq(Placed), NEW version \in [Names -> Nat], NEW m \in Nat, NEW cells,
           NEW n \in Nat, n + 1 <= Len(topics), NEW more,
           Holds(topics, version, m, cells, n),
           \A u \in 1..n : topics[u].offset + topics[u].width <= topics[n + 1].offset,
           \A b \in 0..m - 1 :
              more[b] = IF b >= topics[n + 1].offset /\ b < topics[n + 1].offset + topics[n + 1].width
                        THEN TopicByte(topics[n + 1].name, version[topics[n + 1].name],
                                       b - topics[n + 1].offset)
                        ELSE cells[b]
    PROVE  Holds(topics, version, m, more, n + 1)
<1>1. \A t \in 1..n + 1 : /\ topics[t].name \in Names /\ topics[t].offset \in Nat
                          /\ topics[t].width \in Nat
  <2>1. \A t \in 1..n + 1 : topics[t] \in Placed
    BY SeqFacts
  <2> QED BY <2>1 DEF Placed, Widths
<1> SUFFICES ASSUME NEW t \in 1..n + 1
             PROVE  \E v \in 0..version[topics[t].name] : \A b \in 0..topics[t].width - 1 :
                       topics[t].offset + b < m =>
                          more[topics[t].offset + b] = TopicByte(topics[t].name, v, b)
  BY DEF Holds
<1>2. CASE t = n + 1
  <2> DEFINE v == version[topics[t].name]
  <2>1. v \in 0..v
    BY <1>1
  <2>2. ASSUME NEW b \in 0..topics[t].width - 1, topics[t].offset + b < m
        PROVE  more[topics[t].offset + b] = TopicByte(topics[t].name, v, b)
    <3> PICK c : c = topics[t].offset + b
      OBVIOUS
    <3>1. c \in 0..m - 1 /\ c >= topics[t].offset /\ c < topics[t].offset + topics[t].width
          /\ c - topics[t].offset = b
      BY <1>1, <2>2
    <3> HIDE DEF v
    <3>2. more[c] = TopicByte(topics[t].name, version[topics[t].name], c - topics[t].offset)
      BY <3>1, <1>2
    <3> QED BY <3>1, <3>2 DEF v
  <2> QED BY <2>1, <2>2
<1>3. CASE t \in 1..n
  <2>1. PICK v \in 0..version[topics[t].name] : \A b \in 0..topics[t].width - 1 :
           topics[t].offset + b < m =>
              cells[topics[t].offset + b] = TopicByte(topics[t].name, v, b)
    BY <1>3 DEF Holds
  <2>2. ASSUME NEW b \in 0..topics[t].width - 1, topics[t].offset + b < m
        PROVE  more[topics[t].offset + b] = TopicByte(topics[t].name, v, b)
    <3> PICK c : c = topics[t].offset + b
      OBVIOUS
    <3>1. c \in 0..m - 1 /\ c < topics[n + 1].offset
      <4>1. topics[t].offset + topics[t].width <= topics[n + 1].offset
        BY <1>3
      <4>2. topics[t].offset \in Nat /\ topics[t].width \in Nat /\ topics[n + 1].offset \in Nat
        BY <1>1
      <4> QED BY <4>1, <4>2, <2>2, Below
    <3>2. more[c] = cells[c]
      <4>1. ~(c >= topics[n + 1].offset)
        BY <3>1, <1>1
      <4> QED BY <3>1, <4>1
    <3> QED BY <3>2, <2>1, <2>2
  <2> QED BY <2>1, <2>2
<1> QED BY <1>2, <1>3

\* The topics of a bridge, once the threads run.
LEMMA TopicFacts ==
    ASSUME IInv, ArrangedInv, phase = "run", NEW p \in Procs, ~IsUdp(p)
    PROVE  LET topics == TheBridge(p).topics IN
           /\ topics \in Seq(Placed)
           /\ Len(topics) \in Nat \ {0}
           /\ \A t \in 1..Len(topics) : topics[t].name \in Names
           /\ \A t \in 1..Len(topics) : \A u \in 1..t - 1 :
                 topics[u].offset + topics[u].width <= topics[t].offset
<1>1. /\ TheBridge(p) \in Bridge /\ Len(TheBridge(p).topics) \in Nat \ {0}
      /\ \A t \in 1..Len(TheBridge(p).topics) : TheBridge(p).topics[t].name \in Names
  BY BridgeFacts
<1>2. TheBridge(p).topics \in Seq(Placed)
  BY <1>1 DEF Bridge
<1>3. descr[p] # 0
  BY DEF IInv, LayoutInv, SourceInv
<1>4. Arranged(sys, dstMsg[p], srcMsg[p], TheBridge(p), Len(dstMsg[p]))
  BY <1>3 DEF ArrangedInv, PlacesInv
<1> QED BY <1>1, <1>2, <1>4 DEF Arranged

LEMMA CarriesUpdate ==
    ASSUME IInv, ArrangedInv, CarriesInv, NEW x \in Names, Update(x)
    PROVE  CarriesInv'
<1>1. /\ phase = "run" /\ ver' = [ver EXCEPT ![x] = @ + 1]
      /\ UNCHANGED <<layout, pc, src, at, sent>>
  BY DEF Update
<1>2. \A y \in Names : ver[y] \in Nat /\ ver'[y] \in Nat /\ ver[y] <= ver'[y]
  BY <1>1 DEF IInv, TypeOK
<1> SUFFICES ASSUME NEW p \in Procs, ~IsUdp(p)
             PROVE  (/\ pc[p] = "read" => Carries(p, src[p], at[p] - 1)
                     /\ pc[p] = "send" => Carries(p, src[p], Len(TheBridge(p).topics))
                     /\ \A j \in 1..Len(sent[p]) :
                           Carries(p, sent[p][j].bytes, Len(TheBridge(p).topics)))'
  BY <1>1, Frame DEF CarriesInv
<1> DEFINE topics == TheBridge(p).topics
<1>3. /\ Len(topics) \in Nat /\ \A t \in 1..Len(topics) : topics[t].name \in Names
  BY <1>1, TopicFacts
<1>4. TheBridge(p)' = TheBridge(p) /\ size' = size
  BY <1>1, Frame
<1>5. ASSUME NEW cells, NEW n \in Nat, n <= Len(topics), Holds(topics, ver, size[p], cells, n)
      PROVE  Holds(topics, ver', size[p], cells, n)
  <2>1. \A t \in 1..n : t \in 1..Len(topics)
    BY <1>3, <1>5
  <2>2. \A t \in 1..n : /\ ver[topics[t].name] \in Nat /\ ver'[topics[t].name] \in Nat
                        /\ ver[topics[t].name] <= ver'[topics[t].name]
    BY <2>1, <1>2, <1>3
  <2> HIDE DEF topics
  <2> QED BY <2>2, <1>5, HoldsLater
<1>6. pc[p] = "read" => at[p] - 1 \in Nat /\ at[p] - 1 <= Len(topics)
  BY <1>3 DEF IInv, ThreadInv
<1>7. /\ pc[p] = "read" => Holds(topics, ver, size[p], src[p], at[p] - 1)
      /\ pc[p] = "send" => Holds(topics, ver, size[p], src[p], Len(topics))
      /\ \A j \in 1..Len(sent[p]) : Holds(topics, ver, size[p], sent[p][j].bytes, Len(topics))
  BY DEF CarriesInv, Carries
<1> HIDE DEF topics
<1>8. /\ pc[p] = "read" => Holds(topics, ver', size[p], src[p], at[p] - 1)
      /\ pc[p] = "send" => Holds(topics, ver', size[p], src[p], Len(topics))
      /\ \A j \in 1..Len(sent[p]) : Holds(topics, ver', size[p], sent[p][j].bytes, Len(topics))
  BY <1>3, <1>5, <1>6, <1>7
<1> QED BY <1>1, <1>4, <1>8 DEF topics, Carries

LEMMA CarriesRead ==
    ASSUME IInv, ArrangedInv, CarriesInv, NEW p \in Procs, ReadTopic(p)
    PROVE  CarriesInv'
<1> DEFINE topics == TheBridge(p).topics
           t == topics[at[p]]
<1>1. /\ pc[p] = "read"
      /\ src' = [src EXCEPT ![p] =
                    [b \in Positions(p) |->
                       IF b >= t.offset /\ b < t.offset + t.width
                       THEN TopicByte(t.name, ver[t.name], b - t.offset) ELSE @[b]]]
      /\ \/ at' = [at EXCEPT ![p] = @ + 1] /\ at[p] < Len(topics) /\ UNCHANGED <<pc, taken>>
         \/ at[p] >= Len(topics) /\ pc' = [pc EXCEPT ![p] = "send"] /\ UNCHANGED at
      /\ UNCHANGED <<layout, ver, sent>>
  <2>1. pc[p] = "read"
    BY DEF ReadTopic
  <2>2. at[p] \in Nat /\ Len(topics) \in Nat
    BY <2>1, BridgeFacts DEF IInv, TypeOK, ThreadInv
  <2> QED BY <2>2 DEF ReadTopic
<1>2. /\ phase = "run" /\ ~IsUdp(p) /\ at[p] \in 1..Len(topics)
      /\ DOMAIN src = Procs /\ DOMAIN pc = Procs /\ DOMAIN at = Procs
      /\ ver \in [Names -> Nat] /\ size[p] \in Nat
  BY <1>1 DEF IInv, TypeOK, ThreadInv, LayoutTypeOK
<1>3. /\ topics \in Seq(Placed) /\ Len(topics) \in Nat \ {0}
      /\ \A u \in 1..at[p] - 1 : topics[u].offset + topics[u].width <= t.offset
  BY <1>2, TopicFacts
<1>4. /\ \A b \in 0..size[p] - 1 :
            src'[p][b] = IF b >= t.offset /\ b < t.offset + t.width
                         THEN TopicByte(t.name, ver[t.name], b - t.offset) ELSE src[p][b]
      /\ \A q \in Procs \ {p} : src'[q] = src[q] /\ pc'[q] = pc[q] /\ at'[q] = at[q]
  BY <1>1, <1>2 DEF Positions
<1>5. PICK n \in Nat : n + 1 = at[p] /\ n = at[p] - 1
  BY <1>2
<1>6. Holds(topics, ver, size[p], src[p], n)
  BY <1>1, <1>2, <1>5 DEF CarriesInv, Carries
<1>7. Holds(topics, ver, size[p], src'[p], n + 1)
  <2>1. n + 1 <= Len(topics)
    BY <1>2, <1>3, <1>5
  <2> DEFINE d == topics[n + 1]
  <2>2. \A u \in 1..n : topics[u].offset + topics[u].width <= d.offset
    BY <1>3, <1>5
  <2>3. \A b \in 0..size[p] - 1 :
            src'[p][b] = IF b >= d.offset /\ b < d.offset + d.width
                         THEN TopicByte(d.name, ver[d.name], b - d.offset) ELSE src[p][b]
    BY <1>4, <1>5
  <2> HIDE DEF topics
  <2> QED BY <1>2, <1>3, <1>6, <2>1, <2>2, <2>3, HoldsRead
<1>8. /\ \A q : TheBridge(q)' = TheBridge(q) /\ IsUdp(q)' = IsUdp(q)
      /\ size' = size /\ ver' = ver /\ sent' = sent
  BY <1>1, Frame
<1> HIDE DEF t
<1> SUFFICES ASSUME NEW q \in Procs, ~IsUdp(q)
             PROVE  (/\ pc[q] = "read" => Carries(q, src[q], at[q] - 1)
                     /\ pc[q] = "send" => Carries(q, src[q], Len(TheBridge(q).topics))
                     /\ \A j \in 1..Len(sent[q]) :
                           Carries(q, sent[q][j].bytes, Len(TheBridge(q).topics)))'
  BY <1>8 DEF CarriesInv
<1>9. CASE q = p
  <2>1. pc'[p] = "read" => at'[p] - 1 = n + 1
    BY <1>1, <1>2, <1>5
  <2>2. pc'[p] = "send" => n + 1 = Len(topics)
    BY <1>1, <1>2, <1>3, <1>5
  <2>3. \A j \in 1..Len(sent[p]) : Holds(topics, ver, size[p], sent[p][j].bytes, Len(topics))
    BY <1>2 DEF CarriesInv, Carries
  <2> QED BY <1>7, <1>8, <1>9, <2>1, <2>2, <2>3 DEF Carries
<1>10. CASE q # p
  BY <1>4, <1>8, <1>10 DEF CarriesInv, Carries
<1> QED BY <1>9, <1>10

LEMMA CarriesSend ==
    ASSUME IInv, CarriesInv, NEW p \in Procs, Send(p)
    PROVE  CarriesInv'
<1> DEFINE item == [item |-> taken[p], bytes |-> src[p]]
           S == [item : Nat, bytes : [Positions(p) -> Cell]]
<1>1. /\ pc[p] = "send" /\ dst' = [dst EXCEPT ![p] = src[p]]
      /\ \/ /\ sent' = [sent EXCEPT ![p] = Append(@, [item |-> taken[p], bytes |-> dst'[p]])]
            /\ pc' = [pc EXCEPT ![p] = "recv"]
         \/ pc' = [pc EXCEPT ![p] = "ended"] /\ UNCHANGED sent
      /\ UNCHANGED <<layout, src, at, ver>>
  BY DEF Send
<1>2. /\ DOMAIN dst = Procs /\ DOMAIN sent = Procs /\ DOMAIN pc = Procs
      /\ taken[p] \in Nat /\ src[p] \in [Positions(p) -> Cell] /\ sent[p] \in Seq(S)
  BY <1>1 DEF IInv, TypeOK
<1>3. dst'[p] = src[p] /\ item \in S
  BY <1>1, <1>2
<1>4. /\ \A q \in Procs \ {p} : sent'[q] = sent[q] /\ pc'[q] = pc[q]
      /\ pc'[p] \in {"recv", "ended"}
      /\ sent'[p] \in {sent[p], Append(sent[p], item)}
  BY <1>1, <1>2, <1>3
<1>5. \A j \in 1..Len(sent'[p]) : \/ j \in 1..Len(sent[p]) /\ sent'[p][j] = sent[p][j]
                                  \/ sent'[p][j].bytes = src[p]
  <2>1. CASE sent'[p] = sent[p]
    BY <2>1
  <2>2. CASE sent'[p] = Append(sent[p], item)
    <3>1. item.bytes = src[p]
      OBVIOUS
    <3> HIDE DEF item, S
    <3>2. /\ DOMAIN sent[p] = 1..Len(sent[p]) /\ Len(sent[p]) \in Nat
          /\ Len(sent'[p]) = Len(sent[p]) + 1
          /\ \A j \in DOMAIN sent[p] : sent'[p][j] = sent[p][j]
          /\ sent'[p][Len(sent[p]) + 1] = item
      BY <2>2, <1>2, <1>3, AppendFacts
    <3> QED BY <3>1, <3>2
  <2> QED BY <1>4, <2>1, <2>2
<1> HIDE DEF item, S
<1>6. /\ \A q : TheBridge(q)' = TheBridge(q) /\ IsUdp(q)' = IsUdp(q)
      /\ size' = size /\ ver' = ver /\ src' = src /\ at' = at
  BY <1>1, Frame
<1> SUFFICES ASSUME NEW q \in Procs, ~IsUdp(q)
             PROVE  (/\ pc[q] = "read" => Carries(q, src[q], at[q] - 1)
                     /\ pc[q] = "send" => Carries(q, src[q], Len(TheBridge(q).topics))
                     /\ \A j \in 1..Len(sent[q]) :
                           Carries(q, sent[q][j].bytes, Len(TheBridge(q).topics)))'
  BY <1>6 DEF CarriesInv
<1>7. CASE q = p
  <2> DEFINE m == Len(TheBridge(p).topics)
  <2>1. /\ Carries(p, src[p], m)
        /\ \A j \in 1..Len(sent[p]) : Carries(p, sent[p][j].bytes, m)
    BY <1>1, <1>7 DEF CarriesInv
  <2>2. \A j \in 1..Len(sent'[p]) : Carries(p, sent'[p][j].bytes, m)
    BY <1>5, <2>1
  <2> QED BY <1>4, <1>6, <1>7, <2>2 DEF Carries
<1>8. CASE q # p
  BY <1>4, <1>6, <1>8 DEF CarriesInv, Carries
<1> QED BY <1>7, <1>8

LEMMA CarriesStep == IInv /\ ArrangedInv /\ CarriesInv /\ [Next]_vars => CarriesInv'
<1> SUFFICES ASSUME IInv, ArrangedInv, CarriesInv, [Next]_vars PROVE CarriesInv'
  OBVIOUS
<1>1. CASE LayoutStep
  <2>1. \A p \in Procs : (pc[p] = "new" /\ sent[p] = <<>>)'
    BY <1>1, LayoutFirst DEF LayoutStep
  <2> QED BY <2>1 DEF CarriesInv
<1>2. ASSUME UNCHANGED <<layout, ver, sent>>,
             NEW p \in Procs,
             \A q \in Procs \ {p} : src'[q] = src[q] /\ pc'[q] = pc[q] /\ at'[q] = at[q],
             \/ IsUdp(p)
             \/ pc'[p] \notin {"read", "send"}
             \/ pc'[p] = "read" /\ at'[p] = 1
      PROVE  CarriesInv'
  <2>1. /\ \A q : TheBridge(q)' = TheBridge(q) /\ IsUdp(q)' = IsUdp(q)
        /\ size' = size /\ ver' = ver /\ sent' = sent
    BY <1>2, Frame
  <2> SUFFICES ASSUME NEW q \in Procs, ~IsUdp(q)
               PROVE  (/\ pc[q] = "read" => Carries(q, src[q], at[q] - 1)
                       /\ pc[q] = "send" => Carries(q, src[q], Len(TheBridge(q).topics))
                       /\ \A j \in 1..Len(sent[q]) :
                             Carries(q, sent[q][j].bytes, Len(TheBridge(q).topics)))'
    BY <2>1 DEF CarriesInv
  <2>2. \A j \in 1..Len(sent[q]) : Carries(q, sent[q][j].bytes, Len(TheBridge(q).topics))'
    BY <2>1 DEF CarriesInv, Carries
  <2>3. CASE q = p
    BY <1>2, <2>1, <2>2, <2>3 DEF Carries, Holds
  <2>4. CASE q # p
    BY <1>2, <2>1, <2>2, <2>4 DEF CarriesInv, Carries
  <2> QED BY <2>3, <2>4
<1>3. DOMAIN pc = Procs /\ DOMAIN src = Procs /\ DOMAIN at = Procs
  BY DEF IInv, TypeOK
<1>4. ASSUME NEW p \in Procs,
             \/ Arrive(p) \/ StartThread(p) \/ ReceiveDatagram(p)
             \/ BeginWait(p) \/ AwaitUpdate(p) \/ ReadFails(p)
      PROVE  CarriesInv'
  <2>1. CASE Arrive(p)
    <3>1. /\ UNCHANGED <<layout, ver, sent>> /\ IsUdp(p)
          /\ \A q \in Procs \ {p} : src'[q] = src[q] /\ pc'[q] = pc[q] /\ at'[q] = at[q]
      BY <2>1, <1>3 DEF Arrive
    <3> QED BY <3>1, <1>2
  <2>2. CASE StartThread(p)
    <3>1. /\ UNCHANGED <<layout, ver, sent>> /\ pc'[p] \notin {"read", "send"}
          /\ \A q \in Procs \ {p} : src'[q] = src[q] /\ pc'[q] = pc[q] /\ at'[q] = at[q]
      BY <2>2, <1>3 DEF StartThread
    <3> QED BY <3>1, <1>2
  <2>3. CASE ReceiveDatagram(p)
    <3>1. /\ UNCHANGED <<layout, ver, sent>> /\ IsUdp(p)
          /\ \A q \in Procs \ {p} : src'[q] = src[q] /\ pc'[q] = pc[q] /\ at'[q] = at[q]
      BY <2>3, <1>3 DEF ReceiveDatagram
    <3> QED BY <3>1, <1>2
  <2>4. CASE AwaitUpdate(p)
    BY <2>4, <1>2, <1>3 DEF AwaitUpdate
  <2>5. CASE BeginWait(p) \/ ReadFails(p)
    <3>1. /\ UNCHANGED <<layout, ver, sent>> /\ pc'[p] \notin {"read", "send"}
          /\ \A q \in Procs \ {p} : src'[q] = src[q] /\ pc'[q] = pc[q] /\ at'[q] = at[q]
      BY <2>5, <1>3 DEF BeginWait, ReadFails
    <3> QED BY <3>1, <1>2
  <2> QED BY <1>4, <2>1, <2>2, <2>3, <2>4, <2>5
<1>5. CASE UNCHANGED vars
  <2>1. UNCHANGED <<layout, pc, src, at, ver, sent>>
    BY <1>5 DEF vars
  <2>2. \A q : TheBridge(q)' = TheBridge(q) /\ IsUdp(q)' = IsUdp(q)
    BY <2>1, Frame
  <2>3. size' = size
    BY <2>1, Frame
  <2> QED BY <2>1, <2>2, <2>3 DEF CarriesInv, Carries
<1> QED BY <1>1, <1>4, <1>5, CarriesUpdate, CarriesRead, CarriesSend DEF Next, Loop

LEMMA CarriesInvariance == Spec => []CarriesInv
<1>1. Init => CarriesInv
  BY DEF Init, CarriesInv
<1> QED BY <1>1, Invariance, ArrangedInvariance, CarriesStep, PTL DEF Spec

\* FieldsInPlace, for every message, bus and pool, and any number of updates at
\* any moment: in a message made by a bridge, a field whose topic and those of
\* all fields before it fit holds one value of its topic, whole, and nothing of
\* another (create_bridge lays src_msg out like dst_msg, eswb_bridge_read reads
\* the topics one behind the other, and conv_exec copies).
THEOREM IbrFields == Spec => []FieldsInPlace
<1>1. IInv /\ ArrangedInv /\ CarriesInv => FieldsInPlace
  <2> SUFFICES ASSUME IInv, ArrangedInv, CarriesInv, NEW p \in Procs,
                      NEW j \in DOMAIN sent[p], NEW f \in DOMAIN dstMsg[p],
                      ~IsUdp(p), \A g \in 1..f : Fits(dstMsg[p][g])
               PROVE  \E v \in 0..ver[dstMsg[p][f].name] : \A b \in 0..dstMsg[p][f].width - 1 :
                         sent[p][j].bytes[dstMsg[p][f].offset + b]
                            = TopicByte(dstMsg[p][f].name, v, b)
    BY DEF FieldsInPlace
  <2> DEFINE topics == TheBridge(p).topics
             field == dstMsg[p][f]
  <2>1. LayoutTypeOK /\ MsgInv /\ SourceInv /\ FieldsInv /\ PlacesInv
    BY DEF IInv, LayoutInv, ArrangedInv
  <2>2. /\ sent[p] \in Seq([item : Nat, bytes : [Positions(p) -> Cell]])
        /\ dstMsg[p] \in Seq(Placed) /\ size[p] \in Nat
    BY <2>1 DEF IInv, TypeOK, LayoutTypeOK
  <2>3. phase = "run" /\ j \in 1..Len(sent[p])
    <3>1. sent[p] # <<>> /\ j \in 1..Len(sent[p])
      BY <2>2
    <3> QED BY <3>1 DEF IInv, TypeOK, ThreadInv
  <2>4. f \in 1..Len(dstMsg[p]) /\ field \in Placed /\ Len(dstMsg[p]) \in Nat
    BY <2>2, SeqFacts
  <2>5. /\ field.name \in Names /\ field.width \in Nat /\ field.offset \in Nat
        /\ field.offset + field.width <= size[p]
    BY <2>1, <2>4 DEF Placed, Widths, FieldsInv
  <2>6. /\ BridgeOf(TheBridge(p), p, Len(dstMsg[p]))
        /\ Follows(sys, dstMsg[p], srcMsg[p], Len(dstMsg[p]))
        /\ Arranged(sys, dstMsg[p], srcMsg[p], TheBridge(p), Len(dstMsg[p]))
    <3>1. descr[p] # 0
      BY <2>1, <2>3 DEF SourceInv
    <3> QED BY <2>1, <3>1 DEF SourceInv, PlacesInv
  <2>7. /\ sys.topic[field.name].kind = "value"
        /\ sys.topic[field.name].width = field.width
        /\ \A g \in 1..f : Whole(sys, dstMsg[p][g]) /\ ~Missing(sys, dstMsg[p][g])
    <3>1. Fits(field)
      BY <2>4
    <3> QED BY <3>1 DEF Fits, Whole, Missing
  <2>8. PICK t \in 1..Len(topics) : topics[t].name = field.name
    <3>1. field.name \in {x \in Names : /\ sys.topic[x].kind = "value"
                                        /\ \E g \in 1..Len(dstMsg[p]) : dstMsg[p][g].name = x}
      BY <2>4, <2>5, <2>7
    <3>2. field.name \in {topics[t].name : t \in DOMAIN topics}
      BY <3>1, <2>6 DEF BridgeOf
    <3>3. DOMAIN topics = 1..Len(topics)
      BY <2>3, BridgeFacts
    <3> QED BY <3>2, <3>3
  <2>9. topics[t].width = field.width /\ topics[t].offset = field.offset
    <3>1. /\ topics[t].width = srcMsg[p][f].width
          /\ topics[t].offset = srcMsg[p][f].offset
      BY <2>4, <2>6, <2>7, <2>8 DEF Arranged
    <3>2. srcMsg[p][f].width = WidthIn(sys, field) /\ srcMsg[p][f].offset = field.offset
      BY <2>4, <2>6, <2>7 DEF Follows
    <3>3. WidthIn(sys, field) = field.width
      BY <2>4, <2>7 DEF WidthIn, Missing
    <3> QED BY <3>1, <3>2, <3>3
  <2>10. Holds(topics, ver, size[p], sent[p][j].bytes, Len(topics))
    BY <2>3 DEF CarriesInv, Carries
  <2> HIDE DEF topics, field
  <2>11. PICK v \in 0..ver[field.name] : \A b \in 0..field.width - 1 :
            field.offset + b < size[p] =>
               sent[p][j].bytes[field.offset + b] = TopicByte(field.name, v, b)
    BY <2>8, <2>9, <2>10 DEF Holds
  <2>12. \A b \in 0..field.width - 1 : field.offset + b < size[p]
    BY <2>2, <2>5
  <2> QED BY <2>11, <2>12 DEF field
<1> QED BY <1>1, Invariance, ArrangedInvariance, CarriesInvariance, PTL
=============================================================================

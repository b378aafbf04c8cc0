----------------------------- MODULE IbrProcess -----------------------------
(***************************************************************************)
(* The threads of an interface bridge: each receives a message from its    *)
(* source, converts it (conv_exec copies) and sends it, for ever.  Sources *)
(* are a UDP socket or a bridge over topics, destinations a UDP socket or  *)
(* a topic.  A buffer is a function from positions to cells; a cell names  *)
(* the byte it holds: of which datagram, or of which version of which      *)
(* topic.                                                                  *)
(***************************************************************************)
EXTENDS IbrLayout

CONSTANTS Capacity,  \* datagrams a socket keeps
          Lengths,   \* lengths of the datagrams that may arrive
          Forgetful, \* processes for which eswb_get_update may ignore an update
                     \* that came before it was called
          MaxItems,  \* bound: datagrams that arrive at a socket, reads of a bridge
          MaxUpdates \* bound: updates of a topic

ASSUME ProcessAssumption ==
    /\ Lengths \subseteq Nat /\ Capacity \in Nat /\ Forgetful \subseteq Procs
    /\ MaxItems \in Nat /\ MaxUpdates \in Nat

VARIABLES
    pc,       \* "new", "absent" (not created), "recv", "wait" (in eswb_get_update),
              \* "read", "send", "ended"
    src, dst, \* src_buf and dst_buf
    at,       \* the topic eswb_bridge_read has come to
    seen,     \* update of the clocking topic a process last woke for
    spilt,    \* processes whose bridge wrote behind the end of src_buf
    ver,      \* how many updates each topic has had
    came,     \* came[p][n]: length of the n-th datagram the socket has kept
    taken,    \* items received; the last one is in src_buf when pc is "send"
    sent      \* what each process has sent, with the item it was of

vars == <<layout, pc, src, dst, at, seen, spilt, ver, came, taken, sent>>

Zero == [of |-> "zero", n |-> 0, byte |-> 0]
\* Byte b of datagram n, of version n of topic x.
NetByte(n, b) == [of |-> "net", n |-> n, byte |-> b]
TopicByte(x, n, b) == [of |-> x, n |-> n, byte |-> b]
Cell == [of : {"zero", "net"} \cup Names, n : Nat, byte : Nat]

Positions(p) == 0 .. size[p] - 1
TheBridge(p) == bridges[descr[p]]
IsUdp(p) == Cfg(p).src = "udp"
Last(s) == s[Len(s)]

TypeOK ==
    /\ LayoutTypeOK
    /\ pc \in [Procs -> {"new", "absent", "recv", "wait", "read", "send", "ended"}]
    /\ \A p \in Procs : pc[p] # "new" => phase = "run"
    /\ DOMAIN src = Procs /\ DOMAIN dst = Procs /\ DOMAIN sent = Procs
    /\ \A p \in Procs : pc[p] \in {"recv", "wait", "read", "send", "ended"} =>
          /\ src[p] \in [Positions(p) -> Cell]
          /\ dst[p] \in [Positions(p) -> Cell]
    /\ at \in [Procs -> Nat]
    /\ seen \in [Procs -> Nat]
    /\ spilt \subseteq Procs
    /\ ver \in [Names -> Nat]
    /\ came \in [Procs -> Seq(Nat)]
    /\ taken \in [Procs -> Nat]
    /\ \A p \in Procs : IsUdp(p) => taken[p] <= Len(came[p])
    /\ \A p \in Procs : sent[p] \in Seq([item : Nat, bytes : [Positions(p) -> Cell]])

Init ==
    /\ LayoutInit
    /\ pc = [p \in Procs |-> "new"]
    /\ src = [p \in Procs |-> <<>>]
    /\ dst = [p \in Procs |-> <<>>]
    /\ at = [p \in Procs |-> 0]
    /\ seen = [p \in Procs |-> 0]
    /\ spilt = {}
    /\ ver = [x \in Names |-> 0]
    /\ came = [p \in Procs |-> <<>>]
    /\ taken = [p \in Procs |-> 0]
    /\ sent = [p \in Procs |-> <<>>]

-----------------------------------------------------------------------------
(* The surroundings: whoever sends datagrams, and the tasks that update    *)
(* topics.                                                                 *)

\* A datagram reaches the socket and finds room.  Only a bound socket (udp://*)
\* is one that datagrams are addressed to.  What is lost, repeated or overtaken
\* on the way shows only in which datagrams come, and in what order.
Arrive(p) ==
    /\ IsUdp(p) /\ descr[p] # 0 /\ Cfg(p).srcAny
    /\ Len(came[p]) < MaxItems
    /\ Len(came[p]) - taken[p] < Capacity
    /\ \E l \in Lengths : came' = [came EXCEPT ![p] = Append(@, l)]
    /\ UNCHANGED <<layout, pc, src, dst, at, seen, spilt, ver, taken, sent>>

Update(x) ==
    /\ phase = "run"
    /\ sys.topic[x].kind = "value"
    /\ ver[x] < MaxUpdates
    /\ ver' = [ver EXCEPT ![x] = @ + 1]
    /\ UNCHANGED <<layout, pc, src, dst, at, seen, spilt, came, taken, sent>>

-----------------------------------------------------------------------------
(* ibr_exec and the loop of ibr_process.  A receive that fails is tried    *)
(* again at once and changes nothing.                                      *)

\* pthread_create and the buffers; a thread that is not created is only logged.
StartThread(p) ==
    /\ phase = "run" /\ pc[p] = "new"
    /\ \A q \in 1..p - 1 : pc[q] # "new"
    /\ \/ /\ pc' = [pc EXCEPT ![p] = "recv"]
          /\ src' = [src EXCEPT ![p] = [b \in Positions(p) |-> Zero]]
          /\ dst' = [dst EXCEPT ![p] = [b \in Positions(p) |-> Zero]]
       \/ /\ pc' = [pc EXCEPT ![p] = "absent"]
          /\ UNCHANGED <<src, dst>>
    /\ UNCHANGED <<layout, at, seen, spilt, ver, came, taken, sent>>

\* As if what does not match in length were not passed on.
MatchingReceive(p) ==
    /\ pc[p] = "recv" /\ IsUdp(p)
    /\ taken[p] < Len(came[p])
    /\ taken' = [taken EXCEPT ![p] = @ + 1]
    /\ src' = [src EXCEPT ![p] =
                 [b \in Positions(p) |-> IF b < came[p][taken'[p]] THEN NetByte(taken'[p], b)
                                                                   ELSE @[b]]]
    /\ pc' = [pc EXCEPT ![p] = IF came[p][taken'[p]] >= size[p] THEN "send" ELSE @]
    /\ UNCHANGED <<layout, dst, at, seen, spilt, ver, came, sent>>

\* As if the buffer were cleared before each receive.
ClearingReceive(p) ==
    /\ pc[p] = "recv" /\ IsUdp(p)
    /\ taken[p] < Len(came[p])
    /\ taken' = [taken EXCEPT ![p] = @ + 1]
    /\ src' = [src EXCEPT ![p] =
                 [b \in Positions(p) |-> IF b < came[p][taken'[p]] THEN NetByte(taken'[p], b)
                                                                   ELSE Zero]]
    /\ pc' = [pc EXCEPT ![p] = "send"]
    /\ UNCHANGED <<layout, dst, at, seen, spilt, ver, came, sent>>

\* drv_udp_recv: the oldest datagram; what is longer than the message is cut,
\* what is shorter leaves the rest of the buffer alone.
ReceiveDatagram(p) ==
    /\ pc[p] = "recv" /\ IsUdp(p)
    /\ taken[p] < Len(came[p])
    /\ taken' = [taken EXCEPT ![p] = @ + 1]
    /\ src' = [src EXCEPT ![p] =
                 [b \in Positions(p) |-> IF b < came[p][taken'[p]] THEN NetByte(taken'[p], b)
                                                                   ELSE @[b]]]
    /\ pc' = [pc EXCEPT ![p] = "send"]
    /\ UNCHANGED <<layout, dst, at, seen, spilt, ver, came, sent>>

ClockTopic(p) == Last(TheBridge(p).topics).name

\* drv_eswb_bridge_recv: the call of eswb_get_update of the last topic.
BeginWait(p) ==
    /\ pc[p] = "recv" /\ ~IsUdp(p)
    /\ pc' = [pc EXCEPT ![p] = "wait"]
    /\ \/ UNCHANGED seen
       \/ p \in Forgetful /\ seen' = [seen EXCEPT ![p] = ver[ClockTopic(p)]]
    /\ UNCHANGED <<layout, src, dst, at, spilt, ver, came, taken, sent>>

\* It returns eswb_e_ok.
AwaitUpdate(p) ==
    /\ pc[p] = "wait"
    /\ ver[ClockTopic(p)] > seen[p]
    /\ seen' = [seen EXCEPT ![p] = ver[ClockTopic(p)]]
    /\ at' = [at EXCEPT ![p] = 1]
    /\ pc' = [pc EXCEPT ![p] = "read"]
    /\ UNCHANGED <<layout, src, dst, spilt, ver, came, taken, sent>>

\* eswb_bridge_read, one topic after the other, each to its place in the buffer
\* (as far as the buffer goes: it is as long as the message).
ReadTopic(p) ==
    /\ pc[p] = "read"
    /\ LET t == TheBridge(p).topics[at[p]] IN
       /\ src' = [src EXCEPT ![p] =
                    [b \in Positions(p) |->
                       IF b >= t.offset /\ b < t.offset + t.width
                       THEN TopicByte(t.name, ver[t.name], b - t.offset) ELSE @[b]]]
       /\ spilt' = IF t.offset + t.width > size[p] THEN spilt \cup {p} ELSE spilt
    /\ IF at[p] < Len(TheBridge(p).topics)
       THEN at' = [at EXCEPT ![p] = @ + 1] /\ UNCHANGED <<pc, taken>>
       ELSE /\ pc' = [pc EXCEPT ![p] = "send"]
            /\ taken' = [taken EXCEPT ![p] = @ + 1]
            /\ UNCHANGED at
    /\ UNCHANGED <<layout, dst, seen, ver, came, sent>>

\* A topic that nobody has updated yet may refuse to be read; the receive has
\* failed, and what woke it is spent.
ReadFails(p) ==
    /\ pc[p] = "read"
    /\ ver[TheBridge(p).topics[at[p]].name] = 0
    /\ pc' = [pc EXCEPT ![p] = "recv"]
    /\ UNCHANGED <<layout, src, dst, at, seen, spilt, ver, came, taken, sent>>

\* As if a send that fails were left at that ("TODO ?", ibr_process.c:460).
CarelessSend(p) ==
    /\ pc[p] = "send"
    /\ dst' = [dst EXCEPT ![p] = src[p]]
    /\ \/ /\ ~(Cfg(p).dst = "udp" /\ Cfg(p).dstAny)
          /\ sent' = [sent EXCEPT ![p] = Append(@, [item |-> taken[p], bytes |-> dst'[p]])]
       \/ UNCHANGED sent
    /\ pc' = [pc EXCEPT ![p] = "recv"]
    /\ UNCHANGED <<layout, src, at, seen, spilt, ver, came, taken>>

\* As if updates were waited for from the end of the send on.
ForgetfulSend(p) ==
    /\ pc[p] = "send"
    /\ dst' = [dst EXCEPT ![p] = src[p]]
    /\ \/ /\ ~(Cfg(p).dst = "udp" /\ Cfg(p).dstAny)
          /\ sent' = [sent EXCEPT ![p] = Append(@, [item |-> taken[p], bytes |-> dst'[p]])]
          /\ pc' = [pc EXCEPT ![p] = "recv"]
       \/ /\ pc' = [pc EXCEPT ![p] = "ended"]
          /\ UNCHANGED sent
    /\ seen' = [seen EXCEPT ![p] = IF IsUdp(p) THEN @ ELSE ver[ClockTopic(p)]]
    /\ UNCHANGED <<layout, src, at, spilt, ver, came, taken>>

\* conv_exec and send.  A send that fails ends the thread; on a socket that was
\* bound and not connected, as udp://* is, it always fails.
Send(p) ==
    /\ pc[p] = "send"
    /\ dst' = [dst EXCEPT ![p] = src[p]]
    /\ \/ /\ ~(Cfg(p).dst = "udp" /\ Cfg(p).dstAny)
          /\ sent' = [sent EXCEPT ![p] = Append(@, [item |-> taken[p], bytes |-> dst'[p]])]
          /\ pc' = [pc EXCEPT ![p] = "recv"]
       \/ /\ pc' = [pc EXCEPT ![p] = "ended"]
          /\ UNCHANGED sent
    /\ UNCHANGED <<layout, src, at, seen, spilt, ver, came, taken>>

-----------------------------------------------------------------------------
LayoutStep ==
    /\ LayoutNext
    /\ UNCHANGED <<pc, src, dst, at, seen, spilt, ver, came, taken, sent>>

Loop(p) == \/ ReceiveDatagram(p) \/ BeginWait(p) \/ AwaitUpdate(p) \/ ReadTopic(p)
           \/ ReadFails(p) \/ Send(p)

Next == \/ LayoutStep
        \/ \E x \in Names : Update(x)
        \/ \E p \in Procs : Arrive(p) \/ StartThread(p) \/ Loop(p)

Spec == Init /\ [][Next]_vars

\* Threads run; whether anything comes for them is up to others.
FairSpec ==
    /\ Spec
    /\ WF_vars(LayoutStep)
    /\ \A p \in Procs : WF_vars(StartThread(p)) /\ WF_vars(Loop(p))

-----------------------------------------------------------------------------
(* Properties.                                                             *)

\* A bridge's items are its complete reads; a socket's what it has kept.
ItemsCome(p) == IF IsUdp(p) THEN Len(came[p]) ELSE taken[p]
FirstPending(p) == IF pc[p] = "send" THEN taken[p] ELSE taken[p] + 1

R == INSTANCE Relay
       WITH Relays <- Procs,
            accepted <- [p \in Procs |-> ItemsCome(p)],
            pending <- [p \in Procs |-> [n \in 1 .. ItemsCome(p) + 1 - FirstPending(p) |->
                                            FirstPending(p) - 1 + n]],
            delivered <- [p \in Procs |-> [n \in DOMAIN sent[p] |-> sent[p][n].item]],
            up <- IF phase = "refused" THEN {}
                  ELSE {p \in Procs : pc[p] \notin {"absent", "ended"}}

\* Each process is a relay: it hands on everything it is given, once and in
\* order, until it stops, and then loses at most what it had in hand (the loop of
\* ibr_process, whatever comes and whichever calls fail).
IsARelay == R!Spec

\* What a socket has kept is sent, or the process has stopped (it stops only
\* when a send fails, and a failing receive does not stop it).
RelayDelivers == R!Delivery(1..MaxItems)

\* A message sent consists, byte for byte, of the newest datagram received that
\* was long enough to have that byte (drv_udp_recv fills the buffer of the last
\* time).  With datagrams at least as long as the message, it is the newest one.
NewestLongEnough ==
    \A p \in Procs : \A j \in DOMAIN sent[p] : \A b \in Positions(p) :
        IsUdp(p) =>
          LET n == sent[p][j].item
              reach == {m \in 1..n : came[p][m] > b}
          IN  \/ reach = {} /\ sent[p][j].bytes[b] = Zero
              \/ \E m \in reach : /\ \A l \in reach : l <= m
                                  /\ sent[p][j].bytes[b] = NetByte(m, b)

\* A topic as wide as the field of its name.
Fits(f) == sys.topic[f.name].kind = "value" /\ sys.topic[f.name].width = f.width

\* In a message made by a bridge, a field holds one value of the topic of its
\* name, whole, if that topic and those of all fields before it are there and are
\* as wide as their fields.  (Behind a topic that is missing everything moves up.)
FieldsInPlace ==
    \A p \in Procs : \A j \in DOMAIN sent[p] : \A f \in DOMAIN dstMsg[p] :
        ~IsUdp(p) /\ (\A g \in 1..f : Fits(dstMsg[p][g])) =>
            \E v \in 0..ver[dstMsg[p][f].name] : \A b \in 0..dstMsg[p][f].width - 1 :
                sent[p][j].bytes[dstMsg[p][f].offset + b] = TopicByte(dstMsg[p][f].name, v, b)

\* The bridge writes past the end of the message's buffer only if a topic is
\* wider than its field (nobody compares the sizes, ibr.c:173).
SpillsOnlyIfWider ==
    \A p \in spilt : \E f \in DOMAIN dstMsg[p] :
        /\ sys.topic[dstMsg[p][f].name].kind = "value"
        /\ sys.topic[dstMsg[p][f].name].width > dstMsg[p][f].width

\* The threads start only with a source each, and a bridge of one's own that has
\* just the topics that the message has fields for, though all take theirs from
\* one pool and a creation may fail half-way.  src_msg says where a topic is in
\* the bridge's buffer, up to the first one that is missing.
OwnBridges ==
    phase = "run" =>
        \A p \in Procs :
            /\ descr[p] # 0
            /\ ~IsUdp(p) =>
                 /\ descr[p] \in DOMAIN bridges
                 /\ {TheBridge(p).topics[t].name : t \in DOMAIN TheBridge(p).topics}
                      = {x \in Names : /\ sys.topic[x].kind = "value"
                                       /\ \E f \in DOMAIN Msg(p) : Msg(p)[f].name = x}
                 /\ \A q \in Procs : ~IsUdp(q) /\ descr[q] = descr[p] => q = p
                 /\ \A f \in DOMAIN srcMsg[p], t \in DOMAIN TheBridge(p).topics :
                       TheBridge(p).topics[t].name = srcMsg[p][f].name =>
                          \/ TheBridge(p).topics[t] = srcMsg[p][f]
                          \/ \E g \in 1..f : sys.topic[srcMsg[p][g].name].kind = "none"

\* If the bus does not forget updates for a process, an update of the topic that
\* clocks its bridge, when all its topics have values, is in a message sooner or
\* later, it or a newer one, or the process stops: also one that comes while the
\* process reads or sends.  (The topic must have its place in the message, which
\* wider ones before it may have taken.)
UpdateIsForwarded ==
    \A p \in Procs \ Forgetful, n \in 1..MaxUpdates :
        (/\ pc[p] \in {"recv", "wait", "read", "send"} /\ ~IsUdp(p)
         /\ seen[p] < n /\ ver[ClockTopic(p)] >= n
         /\ \A t \in DOMAIN TheBridge(p).topics : ver[TheBridge(p).topics[t].name] > 0
         /\ Last(TheBridge(p).topics).offset < size[p] /\ Last(TheBridge(p).topics).width > 0)
        ~> (\/ pc[p] = "ended"
            \/ ~IsUdp(p) /\ \E j \in DOMAIN sent[p] : \E b \in Positions(p) :
                  sent[p][j].bytes[b].of = ClockTopic(p) /\ sent[p][j].bytes[b].n >= n)
=============================================================================

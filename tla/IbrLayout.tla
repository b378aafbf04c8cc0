----------------------------- MODULE IbrLayout -----------------------------
(***************************************************************************)
(* How the processes of an interface bridge (ibr/) come by the layout of   *)
(* what they carry: fields are added to a message one by one when the      *)
(* configuration is loaded, and, for a process whose source is a bridge,   *)
(* to the layout of the source when the bridge is created, one field for   *)
(* each topic named like a field of the message.  What the bridge itself   *)
(* makes of its topics (its buffer) is external code: it reads them one    *)
(* behind the other.  Widths are in units of the smallest field.           *)
(*                                                                         *)
(* No process here has a func:// source (drv_eswb_proclaim and             *)
(* drv_eswb_recv of ibr.c:136-160): the ibr would proclaim that topic      *)
(* itself, so that no task could update it.  What it does to the start of  *)
(* a system is in Startup.                                                 *)
(***************************************************************************)
EXTENDS Integers, Sequences

CONSTANTS N,          \* processes of the ibr tasks, in the order of set-up
          Names,      \* names of fields, and of topics below the input path
          Setups,     \* configurations, each with the topics it meets
          MAX_BRIDGES \* the pool, shared by all ibr tasks (5 in the code)

Procs == 1..N
Widths == Nat \* an array may have no elements

\* A process, but for func:// sources: the drivers of its ends, whether a udp:// host is "*" (the socket
\* is bound and not connected), and the fields of its message.
ProcCfg == [src : {"udp", "func_br"}, srcAny : BOOLEAN,
            dst : {"udp", "func"}, dstAny : BOOLEAN,
            msg : Seq([name : Names, width : Widths])]

\* Topics that are not there, of a type a bridge can hold, of another type.
TopicCfg == [kind : {"none", "value", "other"}, width : Widths]

ASSUME LayoutAssumption ==
    /\ N \in Nat \ {0}
    /\ Setups \subseteq [proc : [Procs -> ProcCfg], topic : [Names -> TopicCfg]]
    /\ MAX_BRIDGES \in Nat

VARIABLES
    sys,     \* the configuration
    phase,   \* "load", "inputs", "bridge" (in create_bridge), "run", "refused"
    i, k,    \* the process being set up and the field it has come to
    errs,    \* err_cnt of ibr_init_inputs
    dstMsg,  \* dst_msg of each process: its fields and their offsets
    srcMsg,  \* src_msg of each process, made by create_bridge
    size,    \* dst_msg->size
    offset,  \* the running offset of load_msg and create_bridge
    br,      \* the bridge being created: its topics and buffer2post_size
    bridges, \* the pool
    descr    \* src.descr: the place in the pool; 1 for a socket; 0 for nothing

layout == <<sys, phase, i, k, errs, dstMsg, srcMsg, size, offset, br, bridges, descr>>

Cfg(p) == sys.proc[p]
Msg(p) == sys.proc[p].msg
NoBridge == [topics |-> <<>>, size |-> 0]

Placed == [name : Names, width : Widths, offset : Nat]
Bridge == [topics : Seq(Placed), size : Nat]

LayoutTypeOK ==
    /\ sys \in Setups
    /\ phase \in {"load", "inputs", "bridge", "run", "refused"}
    /\ i \in 1..N + 1 /\ k \in Nat \ {0} /\ errs \in Nat /\ offset \in Nat
    /\ i = N + 1 => phase \in {"inputs", "run", "refused"}
    /\ dstMsg \in [Procs -> Seq(Placed)]
    /\ srcMsg \in [Procs -> Seq(Placed)]
    /\ size \in [Procs -> Nat]
    /\ br \in Bridge
    /\ bridges \in Seq(Bridge)
    /\ descr \in [Procs -> Nat]

LayoutInit ==
    /\ sys \in Setups
    /\ phase = "load" /\ i = 1 /\ k = 1 /\ errs = 0 /\ offset = 0
    /\ dstMsg = [p \in Procs |-> <<>>]
    /\ srcMsg = [p \in Procs |-> <<>>]
    /\ size = [p \in Procs |-> 0]
    /\ br = NoBridge
    /\ bridges = <<>>
    /\ descr = [p \in Procs |-> 0]

-----------------------------------------------------------------------------
(* load_msg: the fields of the message of process i.                       *)

\* ibr_add_field: a name once, the running offset, the size so far.
Add(fields, name, width) == Append(fields, [name |-> name, width |-> width, offset |-> offset])
Known(fields, name) == \E j \in DOMAIN fields : fields[j].name = name

LoadField ==
    /\ phase = "load" /\ k <= Len(Msg(i))
    /\ LET f == Msg(i)[k] IN
       IF Known(dstMsg[i], f.name)
       THEN /\ phase' = "refused" \* ibr_exist: the configuration does not load
            /\ UNCHANGED <<k, dstMsg, offset, size>>
       ELSE /\ dstMsg' = [dstMsg EXCEPT ![i] = Add(@, f.name, f.width)]
            /\ offset' = offset + f.width
            /\ size' = [size EXCEPT ![i] = offset']
            /\ k' = k + 1
            /\ UNCHANGED phase
    /\ UNCHANGED <<sys, i, errs, srcMsg, br, bridges, descr>>

\* As if the offset of the last message went on.
RunOnMessageLoaded ==
    /\ phase = "load" /\ k > Len(Msg(i))
    /\ k' = 1
    /\ IF i < N THEN i' = i + 1 /\ UNCHANGED phase
                ELSE i' = 1 /\ phase' = "inputs"
    /\ UNCHANGED <<sys, errs, dstMsg, srcMsg, size, offset, br, bridges, descr>>

MessageLoaded ==
    /\ phase = "load" /\ k > Len(Msg(i))
    /\ k' = 1 /\ offset' = 0
    /\ IF i < N THEN i' = i + 1 /\ UNCHANGED phase
                ELSE i' = 1 /\ phase' = "inputs"
    /\ UNCHANGED <<sys, errs, dstMsg, srcMsg, size, br, bridges, descr>>

-----------------------------------------------------------------------------
(* ibr_init_inputs: the source of process i.  A failure is counted and the *)
(* loop goes on.                                                           *)

NextInput(failed) ==
    /\ i' = i + 1
    /\ errs' = errs + (IF failed THEN 1 ELSE 0)
    /\ phase' = "inputs"

\* drv_udp_connect; opening, binding or connecting the socket may fail.
OpenSocket ==
    /\ phase = "inputs" /\ i <= N /\ Cfg(i).src = "udp"
    /\ \/ NextInput(TRUE) /\ UNCHANGED descr
       \/ NextInput(FALSE) /\ descr' = [descr EXCEPT ![i] = 1]
    /\ UNCHANGED <<sys, k, dstMsg, srcMsg, size, offset, br, bridges>>

\* As if a bridge began with the topics of the one before.
UnclearedBeginBridge ==
    /\ phase = "inputs" /\ i <= N /\ Cfg(i).src = "func_br"
    /\ offset' = 0 /\ k' = 1
    /\ IF Len(bridges) >= MAX_BRIDGES
       THEN NextInput(TRUE)
       ELSE phase' = "bridge" /\ UNCHANGED <<i, errs>>
    /\ UNCHANGED <<sys, dstMsg, srcMsg, size, br, bridges, descr>>

\* create_bridge up to its loop.
BeginBridge ==
    /\ phase = "inputs" /\ i <= N /\ Cfg(i).src = "func_br"
    /\ br' = NoBridge /\ offset' = 0 /\ k' = 1
    /\ IF Len(bridges) >= MAX_BRIDGES
       THEN NextInput(TRUE)
       ELSE phase' = "bridge" /\ UNCHANGED <<i, errs>>
    /\ UNCHANGED <<sys, dstMsg, srcMsg, size, bridges, descr>>

\* One field: eswb_bridge_add_topic, then the field of src_msg that the topic's
\* type asks for; a topic that is not there leaves a dummy of the field's size
\* in src_msg, and nothing in the bridge.
BridgeField ==
    /\ phase = "bridge" /\ k <= Len(dstMsg[i])
    /\ LET f == dstMsg[i][k]
           t == sys.topic[f.name]
           width == IF t.kind = "none" THEN f.width ELSE t.width
       IN  IF t.kind = "other"
           THEN NextInput(TRUE) /\ UNCHANGED <<k, offset, br, srcMsg>>
           ELSE /\ srcMsg' = [srcMsg EXCEPT ![i] = Add(@, f.name, width)]
                /\ offset' = offset + width
                /\ k' = k + 1
                /\ br' = IF t.kind = "none" THEN br
                         ELSE [topics |-> Append(br.topics,
                                   [name |-> f.name, width |-> width, offset |-> br.size]),
                               size |-> br.size + width]
                /\ UNCHANGED <<phase, i, errs>>
    /\ UNCHANGED <<sys, dstMsg, size, bridges, descr>>

\* As if the place were taken before the bridge is known to be of use.
HastyEndBridge ==
    /\ phase = "bridge" /\ k > Len(dstMsg[i])
    /\ bridges' = Append(bridges, br)
    /\ IF br.topics = <<>>
       THEN NextInput(FALSE) /\ UNCHANGED descr
       ELSE /\ NextInput(FALSE)
            /\ descr' = [descr EXCEPT ![i] = Len(bridges')]
    /\ UNCHANGED <<sys, k, dstMsg, srcMsg, size, offset, br>>

\* The end of create_bridge: no topic at all is an error.
EndBridge ==
    /\ phase = "bridge" /\ k > Len(dstMsg[i])
    /\ IF br.topics = <<>>
       THEN NextInput(TRUE) /\ UNCHANGED <<bridges, descr>>
       ELSE /\ NextInput(FALSE)
            /\ bridges' = Append(bridges, br)
            /\ descr' = [descr EXCEPT ![i] = Len(bridges')]
    /\ UNCHANGED <<sys, k, dstMsg, srcMsg, size, offset, br>>

\* The system starts if no source failed.
EndInputs ==
    /\ phase = "inputs" /\ i = N + 1
    /\ phase' = IF errs = 0 THEN "run" ELSE "refused"
    /\ UNCHANGED <<sys, i, k, errs, dstMsg, srcMsg, size, offset, br, bridges, descr>>

LayoutNext == \/ LoadField \/ MessageLoaded
              \/ OpenSocket \/ BeginBridge \/ BridgeField \/ EndBridge \/ EndInputs
=============================================================================

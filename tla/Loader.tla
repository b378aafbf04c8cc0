------------------------------- MODULE Loader -------------------------------
(***************************************************************************)
(* swsys_load (swsys/swsys_parser_xml.c, ebr/ebr_parser_xml.c and          *)
(* function/common_parser_xml.c): the nodes under the root of the system's *)
(* document become busses, tasks and services, one after another.          *)
(*                                                                         *)
(* A node is read into the first free slot of its table, and the slot is   *)
(* taken only if the node was read without error; what a refused node      *)
(* wrote stays in the slot for the next node.  GET_ATTR_AND_PROCESS_ERR    *)
(* assigns the counter of errors and does not add to it, so of several     *)
(* attributes read in a row only the last one counts.                      *)
(*                                                                         *)
(* A node is [tag, attrs, data, subs]; an attribute that is there but      *)
(* cannot be used (empty, not a number) has the value None, as it reads    *)
(* the same as a missing one.  An alias is the sequence of its names, or   *)
(* TooLong (MAX_ATTR_STR_LEN); data is [text, tail], where the tail may be *)
(* the macro "$alias".  Memory is always there.                            *)
(***************************************************************************)
EXTENDS Naturals, Sequences, SequencesExt

CONSTANTS Documents,   \* what the file may hold: [parses, root, nodes]
          RootDir,     \* swsys_root_dir, None if there is none
          None,        \* NULL
          TooLong,
          MaxTasks, MaxBusses, MaxServices

\* The elements of s at these places, in their order.
At(s, places) == FlattenSeq([k \in DOMAIN s |-> IF k \in places THEN <<s[k]>> ELSE <<>>])

Tagged(s, tags) == {k \in DOMAIN s : s[k].tag \in tags}
NodesOf(d, tags) == At(d.nodes, Tagged(d.nodes, tags))

\* The tables are of a fixed size, and swsys_load does not look at it.
ASSUME TablesAreLargeEnough ==
    \A d \in Documents : /\ Len(NodesOf(d, {"task", "bridge"})) < MaxTasks
                         /\ Len(NodesOf(d, {"bus"})) < MaxBusses
                         /\ Len(NodesOf(d, {"service"})) < MaxServices

VARIABLES doc,        \* the document
          result,     \* "none", "loading", "ok", "loaderr" or "crash"
          read,       \* how many nodes have been read
          busses, tasks, services,            \* the slots taken
          freeBus, freeTask, freeService      \* the slot after them

loaderVars == <<doc, result, read, busses, tasks, services, freeBus, freeTask, freeService>>

ZeroBus == [name |-> None, max_topics |-> 0, eq_channel |-> 0, dirs |-> <<>>, evq |-> <<0, 0>>]

ZeroTask == [name |-> None, priority |-> 0, type |-> "flow", config |-> None,
             clk |-> "none", period |-> 0, input |-> None,
             ins |-> None, outs |-> None, ebr |-> None]

ZeroService == [name |-> None, type |-> None, priority |-> 0, resources |-> <<>>]

LoaderInit ==
    /\ doc \in Documents
    /\ result = "none"
    /\ read = 0
    /\ busses = <<>> /\ tasks = <<>> /\ services = <<>>
    /\ freeBus = ZeroBus /\ freeTask = ZeroTask /\ freeService = ZeroService

-----------------------------------------------------------------------------
(* Attributes and children of a node.                                      *)

Attr(n, a) == IF a \in DOMAIN n.attrs THEN n.attrs[a] ELSE None
Number(n, a) == IF Attr(n, a) = None THEN 0 ELSE Attr(n, a)

Missing(n, a) == IF Attr(n, a) = None THEN 1 ELSE 0

\* What the counter holds after reading these attributes in a row.
ErrNum(n, attrs) == Missing(n, Last(attrs))

Children(n, tag) == At(n.subs, Tagged(n.subs, {tag}))
FindChild(n, tag) == IF Children(n, tag) = <<>> THEN None ELSE Head(Children(n, tag))

\* A node, and the names of its alias if it has one.
IsNode(n) ==
    /\ n # None
    /\ Attr(n, "alias") \notin {None, TooLong} =>
          /\ Attr(n, "alias") \in Seq(Range(Attr(n, "alias")))
          /\ None \notin Range(Attr(n, "alias"))

AreNodes(s) == s \in Seq(Range(s)) /\ \A n \in Range(s) : IsNode(n)

TaskTypes == {"flow", "fsm", "ibr", "arbitrary"}
ClkMethods == {"freerun", "timer", "inp_upd"}

ASSUME LoaderAssumption ==
    /\ None \notin TaskTypes \cup ClkMethods \cup {TooLong}
    /\ \A d \in Documents :
          /\ AreNodes(d.nodes)
          /\ \A n \in Range(d.nodes) :
                AreNodes(n.subs) /\ \A c \in Range(n.subs) : AreNodes(c.subs)

-----------------------------------------------------------------------------
(* Lists of connections.                                                   *)

\* As if nothing were written behind the names.
UnendedTokens(alias, list) ==
    alias \o IF Len(list) <= Len(alias) THEN <<None>> ELSE SubSeq(list, Len(alias) + 1, Len(list))

\* tokenize: the names go into a list that an earlier tag may have used, and
\* NULL behind them.
Tokens(alias, list) == alias \o <<None>> \o SubSeq(list, Len(alias) + 2, Len(list))
UpToNull(list) == SubSeq(list, 1, SelectInSeq(list, LAMBDA x : x = None) - 1)

\* parse_and_process_spec.
Expand(data, name) == IF data.tail = "$alias" THEN [data EXCEPT !.tail = name] ELSE data

AddConnection(acc, n) ==
    LET alias == Attr(n, "alias")
        list == Tokens(alias, acc.list)
    IN  CASE n.data = None -> acc
          [] n.data # None /\ alias = TooLong -> acc
          [] n.data # None /\ alias # TooLong /\ Len(alias) = 1 ->
                [acc EXCEPT !.pairs = Append(@, <<alias[1], n.data>>)]
          [] OTHER ->
                [list |-> list,
                 pairs |-> acc.pairs \o [k \in DOMAIN UpToNull(list) |->
                                            <<list[k], Expand(n.data, list[k])>>]]

ConnectAll(specs) ==
    LET acc[k \in 0..Len(specs)] ==
            IF k = 0 THEN [pairs |-> <<>>, list |-> <<>>]
            ELSE AddConnection(acc[k - 1], specs[k])
    IN  acc[Len(specs)].pairs

\* func_load_connections; a value without an alias is a null pointer in
\* xml_list_from_attr_size.
LoadConnections(n, tag, spec) ==
    LET specs == Children(n, tag)
        crash == \E k \in DOMAIN specs : specs[k].data # None /\ Attr(specs[k], "alias") = None
    IN  [crash |-> crash,
         err |-> IF specs = <<>> THEN 1 ELSE ErrNum(Last(specs), <<"alias">>),
         spec |-> IF specs = <<>> \/ crash THEN spec
                  ELSE ConnectAll(specs)]

-----------------------------------------------------------------------------
(* The loaders: the slot they leave, and the errors they count.            *)

\* load_dir: the entry of a refused dir is written again by the next one.
LoadDirs(dirs) ==
    LET named == At(dirs, {k \in DOMAIN dirs : ErrNum(dirs[k], <<"name">>) = 0})
    IN  [k \in DOMAIN named |-> <<Attr(named[k], "name"), Number(named[k], "eq_channel")>>]

LoadBus(n, slot) ==
    LET queue == FindChild(n, "event_queue")
        bus == [slot EXCEPT !.name = Attr(n, "name"), !.max_topics = Number(n, "max_topics"),
                            !.eq_channel = Number(n, "eq_channel"), !.dirs = LoadDirs(Children(n, "dir"))]
    IN  IF queue = None
        THEN [slot |-> bus, err |-> ErrNum(n, <<"name", "max_topics">>)]
        ELSE [slot |-> [bus EXCEPT !.evq = <<Number(queue, "size"), Number(queue, "buffer_size")>>],
              err |-> ErrNum(queue, <<"size", "buffer_size">>)]

LoadNameAndPriority(n, slot) ==
    [slot |-> [slot EXCEPT !.name = Attr(n, "name"), !.priority = Number(n, "priority")],
     err |-> ErrNum(n, <<"name", "priority">>)]

LoadClockMethod(n, slot) ==
    LET method == Attr(n, "clk_method")
        clk == IF method \in ClkMethods THEN method ELSE "none"
    IN  CASE method = None -> [slot |-> slot, err |-> 1]
          [] method # None /\ clk = "none" -> [slot |-> [slot EXCEPT !.clk = clk], err |-> 1]
          [] clk = "freerun" -> [slot |-> [slot EXCEPT !.clk = clk], err |-> 0]
          [] clk = "timer" -> [slot |-> [slot EXCEPT !.clk = clk, !.period = Number(n, "clk_period")],
                               err |-> ErrNum(n, <<"clk_method", "clk_period">>)]
          [] clk = "inp_upd" -> [slot |-> [slot EXCEPT !.clk = clk, !.input = Attr(n, "clk_input_path")],
                                 err |-> ErrNum(n, <<"clk_method", "clk_input_path">>)]

Path(cfg) == IF RootDir # None /\ cfg # None THEN <<RootDir, cfg>> ELSE cfg

\* load_task up to the connections: the error of the config replaces what name
\* and priority counted, that of the type replaces the config's.
LoadTaskAttrs(n, slot) ==
    LET named == LoadNameAndPriority(n, slot).slot
        type == Attr(n, "type")
        typed == [named EXCEPT !.config = Path(Attr(n, "config")),
                               !.type = IF type = None THEN @
                                        ELSE IF type \in TaskTypes THEN type ELSE "unknown"]
        clocked == LoadClockMethod(n, typed)
    IN  [slot |-> clocked.slot,
         err |-> ErrNum(n, <<"config", "type">>)
                 + (IF type # None /\ type \notin TaskTypes THEN 1 ELSE 0)
                 + clocked.err]

\* As if a task without inputs or without outputs were refused.
PickyLoadTask(n, slot) ==
    LET attrs == LoadTaskAttrs(n, slot)
        conn == FindChild(n, "connect")
        ins == LoadConnections(conn, "in", attrs.slot.ins)
        outs == LoadConnections(conn, "out", attrs.slot.outs)
    IN  IF attrs.err > 0 \/ conn = None
        THEN [slot |-> attrs.slot, err |-> attrs.err, crash |-> attrs.err = 0]
        ELSE [slot |-> [attrs.slot EXCEPT !.ins = ins.spec, !.outs = outs.spec],
              err |-> ins.err + outs.err,
              crash |-> ins.crash \/ outs.crash]

\* load_task: xml_node_child_is_unique goes on from the first "connect"
\* without asking whether there is one; what the loaders of the connections
\* return is not looked at.
LoadTask(n, slot) ==
    LET attrs == LoadTaskAttrs(n, slot)
        conn == FindChild(n, "connect")
        ins == LoadConnections(conn, "in", attrs.slot.ins)
        outs == LoadConnections(conn, "out", attrs.slot.outs)
    IN  CASE attrs.err > 0 -> [slot |-> attrs.slot, err |-> attrs.err, crash |-> FALSE]
          [] attrs.err = 0 /\ conn = None -> [slot |-> attrs.slot, err |-> 0, crash |-> TRUE]
          [] OTHER -> [slot |-> [attrs.slot EXCEPT !.ins = ins.spec, !.outs = outs.spec],
                       err |-> 0,
                       crash |-> ins.crash \/ outs.crash]

\* ebr_load_task; made says whether eswb_bridge_create succeeded, an error of
\* which is replaced by that of the attribute "to".
LoadBridge(n, slot, made) ==
    LET named == LoadNameAndPriority(n, [slot EXCEPT !.type = "ebr"])
        clocked == LoadClockMethod(n, named.slot)
        sources == LoadConnections(n, "source", None)
        refused == named.err + clocked.err > 0
    IN  [crash |-> ~refused /\ sources.crash,
         err |-> IF refused THEN named.err + clocked.err ELSE ErrNum(n, <<"to">>) + sources.err,
         slot |-> IF refused THEN clocked.slot
                  ELSE [clocked.slot EXCEPT !.ebr = [dst |-> Attr(n, "to"), bridge |-> made,
                                                     sources |-> sources.spec]]]

\* func_load_attrs_as_params.
Params(n) == n.attrs
ParamsErr(n) == IF \E a \in DOMAIN n.attrs : n.attrs[a] = None THEN 1 ELSE 0

LoadService(n, slot) ==
    [slot |-> [name |-> Attr(n, "name"), type |-> Attr(n, "type"), priority |-> Number(n, "priority"),
               resources |-> [k \in DOMAIN n.subs |-> <<n.subs[k].tag, Params(n.subs[k])>>]],
     err |-> ErrNum(n, <<"name", "type">>)
             + Len(At(n.subs, {k \in DOMAIN n.subs : ParamsErr(n.subs[k]) > 0}))]

-----------------------------------------------------------------------------
(* swsys_load.                                                             *)

\* The file does not parse, or its root is another tag.
Refuse ==
    /\ result = "none"
    /\ ~doc.parses \/ doc.root # "swsys"
    /\ result' = "loaderr"
    /\ UNCHANGED <<doc, read, busses, tasks, services, freeBus, freeTask, freeService>>

Begin ==
    /\ result = "none"
    /\ doc.parses /\ doc.root = "swsys"
    /\ result' = "loading"
    /\ UNCHANGED <<doc, read, busses, tasks, services, freeBus, freeTask, freeService>>

ReadNode(tags) ==
    /\ result = "loading"
    /\ read < Len(doc.nodes)
    /\ doc.nodes[read + 1].tag \in tags
    /\ read' = read + 1
    /\ UNCHANGED doc

Node == doc.nodes[read + 1]

ReadBus ==
    LET bus == LoadBus(Node, freeBus) IN
    /\ ReadNode({"bus"})
    /\ busses' = IF bus.err = 0 THEN Append(busses, bus.slot) ELSE busses
    /\ freeBus' = IF bus.err = 0 THEN ZeroBus ELSE bus.slot
    /\ UNCHANGED <<result, tasks, services, freeTask, freeService>>

TakeTask(task) ==
    /\ result' = IF task.crash THEN "crash" ELSE result
    /\ IF task.crash THEN UNCHANGED <<tasks, freeTask>>
       ELSE /\ tasks' = IF task.err = 0 THEN Append(tasks, task.slot) ELSE tasks
            /\ freeTask' = IF task.err = 0 THEN ZeroTask ELSE task.slot
    /\ UNCHANGED <<busses, services, freeBus, freeService>>

ReadTask == ReadNode({"task"}) /\ TakeTask(LoadTask(Node, freeTask))

ReadBridge ==
    /\ ReadNode({"bridge"})
    /\ \E made \in BOOLEAN : TakeTask(LoadBridge(Node, freeTask, made))

ReadService ==
    LET service == LoadService(Node, freeService) IN
    /\ ReadNode({"service"})
    /\ services' = IF service.err = 0 THEN Append(services, service.slot) ELSE services
    /\ freeService' = IF service.err = 0 THEN ZeroService ELSE service.slot
    /\ UNCHANGED <<result, busses, tasks, freeBus, freeTask>>

Tags == {"bus", "task", "bridge", "service"}

SkipNode ==
    /\ read < Len(doc.nodes) /\ Node.tag \notin Tags
    /\ ReadNode({Node.tag})
    /\ UNCHANGED <<result, busses, tasks, services, freeBus, freeTask, freeService>>

\* No error of a node reaches the caller.
End ==
    /\ result = "loading" /\ read = Len(doc.nodes)
    /\ result' = "ok"
    /\ UNCHANGED <<doc, read, busses, tasks, services, freeBus, freeTask, freeService>>

LoaderNext == Refuse \/ Begin \/ ReadBus \/ ReadTask \/ ReadBridge \/ ReadService \/ SkipNode \/ End

LoaderSpec == LoaderInit /\ [][LoaderNext]_loaderVars

-----------------------------------------------------------------------------
(* What a reader of the document expects, and the start-up finds.          *)

Clock(s) == CASE s.clk = "timer" -> <<s.clk, s.period>>
              [] s.clk = "inp_upd" -> <<s.clk, s.input>>
              [] OTHER -> <<s.clk>>

\* The fields of a slot that its kind of task uses.
UsedOfTask(s) ==
    [of |-> <<s.type, s.name, s.priority>>, clock |-> Clock(s),
     data |-> IF s.type = "ebr" THEN <<s.ebr.dst, s.ebr.sources>> ELSE <<s.config, s.ins, s.outs>>]

UsedOfBus(s, n) ==
    [s EXCEPT !.evq = IF Children(n, "event_queue") = <<>> THEN <<>> ELSE @]

\* Every name of every alias with its value; names of a list replace the macro.
PairsOf(spec) ==
    LET alias == Attr(spec, "alias") IN
    IF spec.data = None \/ alias = TooLong THEN <<>>
    ELSE [j \in DOMAIN alias |->
             <<alias[j], IF Len(alias) > 1 THEN Expand(spec.data, alias[j]) ELSE spec.data>>]

Pairs(specs) == FlattenSeq([k \in DOMAIN specs |-> PairsOf(specs[k])])

ClockAsWritten(n) == CASE Attr(n, "clk_method") = "timer" -> <<"timer", Attr(n, "clk_period")>>
                       [] Attr(n, "clk_method") = "inp_upd" -> <<"inp_upd", Attr(n, "clk_input_path")>>
                       [] OTHER -> <<Attr(n, "clk_method")>>

ConnectionsAsWritten(n, tag) ==
    LET specs == Children(Head(Children(n, "connect")), tag)
    IN  IF specs = <<>> THEN None ELSE Pairs(specs)

TaskAsWritten(n) ==
    [clock |-> ClockAsWritten(n),
     of |-> <<IF n.tag = "bridge" THEN "ebr" ELSE Attr(n, "type"),
              Attr(n, "name"), Number(n, "priority")>>,
     data |-> IF n.tag = "bridge" THEN <<Attr(n, "to"), Pairs(Children(n, "source"))>>
              ELSE <<Path(Attr(n, "config")), ConnectionsAsWritten(n, "in"),
                     ConnectionsAsWritten(n, "out")>>]

BusAsWritten(n) ==
    [name |-> Attr(n, "name"), max_topics |-> Number(n, "max_topics"),
     eq_channel |-> Number(n, "eq_channel"),
     dirs |-> FlattenSeq([k \in DOMAIN n.subs |->
                  IF n.subs[k].tag = "dir" /\ Attr(n.subs[k], "name") # None
                  THEN << <<Attr(n.subs[k], "name"), Number(n.subs[k], "eq_channel")>> >>
                  ELSE <<>>]),
     evq |-> IF Children(n, "event_queue") = <<>> THEN <<>>
             ELSE LET queue == Head(Children(n, "event_queue"))
                  IN  <<Number(queue, "size"), Number(queue, "buffer_size")>>]

ServiceAsWritten(n) ==
    [name |-> Attr(n, "name"), type |-> Attr(n, "type"), priority |-> Number(n, "priority"),
     resources |-> [k \in DOMAIN n.subs |-> <<n.subs[k].tag, n.subs[k].attrs>>]]

Given(n, attrs) == \A a \in attrs : Attr(n, a) # None

ClockIsComplete(n) == /\ Attr(n, "clk_method") \in {"freerun", "timer", "inp_upd"}
                      /\ Attr(n, "clk_method") = "timer" => Given(n, {"clk_period"})
                      /\ Attr(n, "clk_method") = "inp_upd" => Given(n, {"clk_input_path"})

\* What a node needs to be loaded: less than what the messages call mandatory.
Loadable(n) ==
    CASE n.tag = "task" -> Attr(n, "type") \in TaskTypes /\ ClockIsComplete(n)
      [] n.tag = "bridge" -> /\ Given(n, {"priority", "to"}) /\ ClockIsComplete(n)
                             /\ Children(n, "source") # <<>>
                             /\ Given(Last(Children(n, "source")), {"alias"})
      [] n.tag = "service" -> /\ Given(n, {"type"})
                              /\ \A k \in DOMAIN n.subs : Given(n.subs[k], DOMAIN n.subs[k].attrs)
      [] n.tag = "bus" -> IF Children(n, "event_queue") = <<>> THEN Given(n, {"max_topics"})
                          ELSE Given(Head(Children(n, "event_queue")), {"buffer_size"})
      [] OTHER -> FALSE

\* A node with everything its loader asks for.
Complete(n) ==
    /\ n.tag \in Tags => Loadable(n) /\ Given(n, {"name"})
    /\ n.tag \in {"task", "bridge"} => Given(n, {"priority"})
    /\ n.tag = "task" => Given(n, {"config"}) /\ Children(n, "connect") # <<>>
    /\ \A c \in {n} \cup ToSet(Children(n, "connect")) : \A k \in DOMAIN c.subs :
            c.subs[k].tag \in {"in", "out", "source"} => Given(c.subs[k], {"alias"})
    /\ n.tag = "bus" => /\ Given(n, {"max_topics"})
                        /\ \A k \in DOMAIN n.subs : Given(n.subs[k], DOMAIN n.subs[k].attrs)

\* The tables hold the loadable nodes read so far, in their order and each with
\* what its own node says: nothing a refused node left in a slot, or a longer
\* list of aliases in the list of names, is used as part of another one.  (A
\* bus without an event queue is the exception: it takes over the queue of a
\* refused bus before it, as only load_bus with a queue writes evq_size.)
LoadedAsWritten ==
    result \in {"loading", "ok"} =>
        LET Loaded(tags) == At(SubSeq(doc.nodes, 1, read),
                               {k \in Tagged(doc.nodes, tags) : Loadable(doc.nodes[k])})
            busNodes == Loaded({"bus"})
        IN  /\ Len(busses) = Len(busNodes)
            /\ [k \in DOMAIN tasks |-> UsedOfTask(tasks[k])]
                  = [k \in DOMAIN Loaded({"task", "bridge"}) |->
                        TaskAsWritten(Loaded({"task", "bridge"})[k])]
            /\ services = [k \in DOMAIN Loaded({"service"}) |->
                               ServiceAsWritten(Loaded({"service"})[k])]
            /\ [k \in DOMAIN busses |-> UsedOfBus(busses[k], busNodes[k])]
                  = [k \in DOMAIN busNodes |-> BusAsWritten(busNodes[k])]

\* A document whose nodes are complete loads without a crash, and every node
\* of it, whether or not it has inputs, outputs or an event queue.
WholeDocumentsLoadWhole ==
    doc.parses /\ doc.root = "swsys" /\ (\A k \in DOMAIN doc.nodes : Complete(doc.nodes[k])) =>
        /\ result \in {"none", "loading", "ok"}
        /\ result = "ok" => Len(busses) + Len(tasks) + Len(services) = Len(NodesOf(doc, Tags))
=============================================================================

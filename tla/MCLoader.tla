------------------------------ MODULE MCLoader ------------------------------
(***************************************************************************)
(* Loader on every document of up to three nodes out of these: of every    *)
(* kind a complete one, and ones that lack what is read first, in the      *)
(* middle or last.                                                         *)
(***************************************************************************)
EXTENDS Loader, TLC

CONSTANT MaxNodes

Tag(tag, attrs, data, subs) == [tag |-> tag, attrs |-> attrs, data |-> data, subs |-> subs]
Leaf(tag, attrs) == Tag(tag, attrs, None, <<>>)
Conn(tag, alias, text, tail) ==
    Tag(tag, "alias" :> alias, [text |-> text, tail |-> tail], <<>>)

Without(n, as) == [n EXCEPT !.attrs = [a \in DOMAIN @ \ as |-> @[a]]]

-----------------------------------------------------------------------------
Lists == <<Conn("in", <<"x", "y", "z">>, "/nav/", "$alias"),
           Conn("in", <<"v">>, "/vel", "$alias"),
           Conn("out", <<"p">>, "/pos", ""),
           Conn("in", <<"u", "w">>, "/cmd/", "$alias"),
           Conn("in", TooLong, "/all/", "$alias"),
           Leaf("in", "alias" :> <<"n">>)>>

Connect(subs) == Tag("connect", <<>>, None, subs)

Task == Tag("task", ("name" :> "gen") @@ ("priority" :> 5) @@ ("config" :> "gen.xml")
                    @@ ("type" :> "flow") @@ ("clk_method" :> "timer") @@ ("clk_period" :> 500),
            None, <<Connect(Lists), Connect(<<>>)>>)

Clocked == Tag("task", ("name" :> "mode") @@ ("priority" :> 4) @@ ("config" :> "mode.xml")
                       @@ ("type" :> "fsm") @@ ("clk_method" :> "inp_upd")
                       @@ ("clk_input_path" :> "/gen"),
               None, <<Connect(<<Conn("out", <<"m">>, "/mode", "")>>)>>)

Freerun == [Without(Clocked, {"clk_input_path"}) EXCEPT !.attrs.clk_method = "freerun"]

Bridge == Tag("bridge", ("name" :> "br") @@ ("priority" :> 3) @@ ("clk_method" :> "freerun")
                        @@ ("to" :> "/out"),
              None, <<Conn("source", <<"p", "q">>, "/nav/", "$alias"), Leaf("note", <<>>)>>)

Tasks == {Task, Clocked, Freerun, Without(Task, {"type"}), Without(Task, {"clk_period"}),
          Without(Freerun, {"name", "config", "priority"}),
          [Clocked EXCEPT !.attrs.type = "hwbridge"],
          [Clocked EXCEPT !.attrs.clk_method = "always"],
          [Task EXCEPT !.subs = <<>>],
          [Task EXCEPT !.subs[1].subs[2].attrs = <<>>]}

Bridges == {Bridge, Without(Bridge, {"priority"}), Without(Bridge, {"clk_method"}),
            Without(Bridge, {"to"}), [Bridge EXCEPT !.subs = <<>>],
            [Bridge EXCEPT !.subs[1].attrs = <<>>]}

-----------------------------------------------------------------------------
Dirs == <<Leaf("dir", ("name" :> "in") @@ ("eq_channel" :> 1)),
          Leaf("dir", "eq_channel" :> 2),
          Leaf("dir", "name" :> "out")>>

Bus == Tag("bus", ("name" :> "nav") @@ ("max_topics" :> 256) @@ ("eq_channel" :> 1),
           None, <<Dirs[1], Dirs[3]>>)

Queued == [Bus EXCEPT !.subs = Append(Dirs, Leaf("event_queue", ("size" :> 64) @@ ("buffer_size" :> 512)))]

Busses == {Bus, Queued, Without(Bus, {"name"}), Without(Bus, {"max_topics"}),
           [Queued EXCEPT !.subs[4].attrs = "size" :> 64]}

Service == Tag("service", ("name" :> "link") @@ ("type" :> "sdtl") @@ ("priority" :> 2),
               None, <<Leaf("media", "path" :> "/dev"), Leaf("channel", <<>>)>>)

Services == {Service, Without(Service, {"name", "priority"}), Without(Service, {"type"}),
             [Service EXCEPT !.subs[1].attrs.path = None]}

-----------------------------------------------------------------------------
Nodes == Tasks \cup Bridges \cup Busses \cup Services \cup {Leaf("note", <<>>)}

Document(ns) == [parses |-> TRUE, root |-> "swsys", nodes |-> ns]

AllDocuments == {Document(ns) : ns \in UNION {[1..k -> Nodes] : k \in 0..MaxNodes}}
                \cup {[Document(<<Task>>) EXCEPT !.parses = FALSE],
                      [Document(<<Task>>) EXCEPT !.root = "flow"]}
=============================================================================

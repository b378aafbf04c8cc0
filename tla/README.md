# Formal models of c-atom

c-atom executes control systems that are described in XML: *flows* of atomic
functions, hierarchical *state machines* and *bridges* run as tasks of one
process and exchange data over the ESWB bus. This directory holds TLA+ models of
its core, the configurations that model-check them with TLC, and proofs checked
by TLAPS.

    tlc -workers 2 -config MCFsm.cfg MCFsm      # a run
    tlapm FsmProofs.tla                         # a proof

`PROJECT.json` lists the components, runs, findings, hazards and theorems, and
names the source lines behind every definition.

## 1. Inventory

| Component | State | Operations | Talks to |
|---|---|---|---|
| **swsys start-up** (`swsys/swsys.c`, `catom.c`) | `swsys_t`: busses, tasks, services; per phase an error count | `swsys_init`, the phases `swsys_call_*`, `swsys_call_exec` | every function's handler; ESWB proclaims and connections |
| **task loops** (`task()` in `swsys.c`) | the loop, `clk_input_tds` | free run, timer, wait for an update; execute | ESWB, the task's function |
| **flows** (`flow/flow.c`) | inner bus, batch of functions, input and output bridges | `flow_init*`, `flow_exec` | atomic functions, ESWB |
| **fsm instances** (`fsminst/`) | symbols, machines, conditions' memories, clocks | `fsm_exec`, `fsm_do_update`, `fsm_transition` | ESWB, clock mux, expression interpreter |
| **fsm loading** (`fsminst_parser_xml.c`) | lists of transitions | `load_fsm`, `load_state`, `load_transition` | XML nodes |
| **clock mux** (`fsmlib/clk`) | `status_reg`, mutex, condition variable | `clk_mux_emit_edge`, `clk_cycle`, `clear_status` | emitting threads, one cycle thread |
| **flow registry** (`flow/flow_parser_xml.c`) | list of attempts by path | `flow_load`, `import_flow`, `flow_reg_*` | files, the flow tasks |
| **bus bridges** (`ebr/ebr.c`) | topic descriptors | connect, proclaim, copy | ESWB |
| **interface bridges** (`ibr/`) | messages, conversions, process threads, bridge pool | `ibr_*init*`, the receive-convert-send loop | drivers (UDP, functions), ESWB |
| **swsys loading** (`swsys_parser_xml.c`, `ebr_parser_xml.c`, `common_parser_xml.c`) | tables of fixed size, a slot behind each | `swsys_load` and a loader per kind of node | XML nodes |
| **services** (`swsys_services.c`) | none of its own | start SDTL and replication | ESWB threads |
| **atomic functions** (`atomics/core`) | per function | `*_exec` | inputs and outputs |
| **expressions** (`fsmlib/eint`, `fsm_interpr.c`) | AST, instructions, registers, symbol table | parse, `instr_compile_ast`, `instr_queue_exec` | conditions and actions of machines |
| **XML** (`xml/xml.c`, `xml/egram`) | a static buffer and parser; the tree | `egram_parse_from_file`, the walk over the grammar, its handlers; lookups | loaders |
| **expat** (`xml/expat`, vendored) | - | a second parser, linked by a test only | - |
| **generator** (`tools/fspecgen.py`) | none | writes the functions' bus access | atomic functions |
| **ESWB** (`eswb`, an empty submodule) | topics | proclaim, connect, read, update, wait | everyone |

How they interact. `main` loads a configuration and brings it up in phases, each
over all the tasks (load and init, params, outputs, inputs, pre-exec). From then
on every task is a thread of its own that waits for its clock - nothing, a timer,
or the update of a topic - and executes its function, which reads topics, computes
and updates topics. There is no other communication: all ordering between tasks
comes from who waits for whose update.

What is hard here, and what makes each part correct:

- *Interleaving of executions.* An execution is many separate bus operations. How
  torn, old or out of order can the inputs of a function be? (Dataflow)
- *Memory in conditions.* `timeout` and `trueduring` keep moments between
  evaluations, machines are nested, left in the middle and entered again. Do they
  measure what they claim to? (Fsm)
- *Start-up order and failures.* Proclaims must precede connections, failures are
  counted across loops, the calling thread runs the last task. Can a task run in a
  system that is not ready? Is a good system accepted? (Startup)
- *Mutex and condition variable without a predicate.* What is lost? (ClkMux)
- *A compiler with fixed tables.* Registers live as long as the instance and are
  used again by every evaluation: is a result what the text says, each time? Is a
  script accepted exactly when it makes sense and fits? (Eint)
- *Pointers kept too long and shared.* The registry's paths (FlowRegistry), a
  transition in several lists (TransitionLists).
- *Buffers used again.* A process of an interface bridge receives every message into
  one buffer, whatever its length; its layout is computed in two places that never
  compare notes. Which bytes of what is sent are from when, and what is lost?
  (IbrLayout, IbrProcess)
- *Effects before decisions.* The grammar's handlers run as symbols match, before
  the alternative is known to be right, over a buffer that still holds the last file.
  Is what comes out a tree, the document's tree, and does parsing end? (Dom, Egram)
- *Errors that are counted and forgotten.* A node that does not load leaves what it
  wrote in the slot the next one is loaded into. (Loader)

The hazards are in `PROJECT.json`, at their lines, with the properties that would
catch them. Without a property, and for lack of one worth its run, remain: the state
symbol of a machine is named after the machine, so that machines of one name share it
(fsm.c:268); leaving a host state does not run the exit code of the nested machine's
state (fsm.c:371); || binds tighter than && (parser.y:66); a function without a spec
ends its batch without an error (flow_parser_xml.c:24).

## 2. Modules

Proof modules and MC modules extend the module they are about. Definitions whose
comment begins with *As if* are not part of a specification: each is the form a
definition takes with a plausible bug, and shows that a property notices it.

### Dataflow (`swsys.c` task, `flow.c` flow_exec, `fsminst.c` fsm_exec, generated `*_exec`)

A task's execution is a program `Prog[t]` of bus operations: a `call` (an atomic
function, a bridge, the fsm), its reads, its writes. `mode` and `pc` are where the
thread is; `seen` is the update it last woke for. A value is abstracted to a stamp,
the newest cycle of each task that it was computed from, which is all that
freshness and ordering can depend on; what functions compute is left out. `BeginWait`,
`Wake`, `WaitFails` and `Tick` are the clocking methods; `Call`, `Read`, `Write` are
one bus operation each. ESWB is external and known only from its use: `Forgetful`
is the set of tasks for which `eswb_get_update` may miss an update that came before it
was called. The safety properties are proved for any such set; that every update
reaches the output is claimed of the other tasks.

### Fsm (`fsmlib/fsm.c`, `fsminst.c`)

`at` is where `fsm_exec` stands (which top-level machine, which machine of the
hierarchy, which transition of the list), so that time and nothing else passes
between any two steps of a scan. `FireTransition` is `fsm_transition` in the order
of its calls: `Exchange` (exit, enter, clocks), `MoveTo` with the reset of a nested
machine, `ActivateTransitions`, `Actualize`. Moments are kept as ages that saturate,
so that runs have no time horizon. A transition back to the same state activates its
timeouts afresh, as fsm_transition does for every new state, so that what is promised of
a state with a timeout (TimeoutMovesMachine) is that it is left or entered anew, not that
it is left. Actions other than clocks assign symbols that no
modelled condition reads. A transition has one source here; TransitionLists shows
what loading makes of those with several.

### Startup (`swsys.c`, `catom.c`, the init handlers of flow, fsm, ebr, ibr)

`pc` and `i` are the phase and the task it has come to. `owner` and `links` are
what is proclaimed and connected. `InitOutputs` and `InitInputs` are the handlers
with the differences between kinds: an ebr connects its sources while outputs are
proclaimed, an ibr's bridge does with what there is, a func source is proclaimed.
`MayFail` adds one nondeterministic failure for whatever a call may fail with by
itself. Such a failure is counted (`broken`), except that a flow for which
`eswb_bridge_create` fails logs that and goes on (flow.c:183-187): `skipped` are the topics
it runs without. Connections to a name the function does not have (`strays`) are passed
over too. So a flow is only promised the topics that are neither, and a system with
strays is accepted. Loops, counters, early returns and the end of the process are kept.

### ClkMux (`fsmlib/clk/clk.c`, `porting/linux.c`)

One action per line that touches shared state: emitters lock, broadcast, set the
bit and unlock; the cycle thread looks at the register *without* the mutex, locks,
waits (which releases the mutex), wakes and processes. Wake-ups may be spurious.

### FlowRegistry (`flow/flow_parser_xml.c`, `swsys.c` task_load)

The recursion of `flow_load` through `import_flow` as an explicit stack. Records
keep paths by pointer, so `path` is a string of its own or *the array of a depth*,
and what records compare as changes when the array does. What a fresh array holds
behind the directory is a choice (`Residues`), as `strncpy` leaves it unterminated.
Files may import themselves and each other in circles (`Graphs`), and the stack holds
`Depths` calls, at least as many as there are files: one call more is a crash. So is a
file without `<spec>` (before the imports) or without `<functions>` (after them), where
the loader follows a null node; other faults are counted.

### TransitionLists (`fsminst_parser_xml.c` load_transition, `ADD_TO_LIST`)

One `next` pointer per transition, one `head` per state, and the walk to the end of
a list node by node, so that a list that has become a cycle shows as a walk that
does not end.

### Eint (`fsmlib/eint/instr.c`, `fsm_interpr.c`)

A script is its syntax tree, as the sequence of its nodes in the order
`_instr_compile_ast` visits them: a node has its children before it, and what stands
between them is under it. `IsTree` admits the trees that the productions of parser.y
make, and what they make only: statements assign, commas are between arguments or
between expressions at the top, nothing else assigns. One action per class of node compiles the next
one (`CompileConst`, `CompileOperator`, `CompileFlow`, `CompileReference`,
`CompileAssignment`, `CompileCall`); what a node leaves behind is in `below`. A
`result_reg_t *` is a number: the registers first, then one cell per symbol, so that
an operand is a register or a variable as in the code. `AddComputation` keeps the
order of the checks in `instr_add_basics` and `allocate_register`, of which the first
refuses and the second answers a null pointer (`crashed`). `Begin` is an execution of
the fsm that has updated its symbols and reaches the script, `ExecuteHandler` and
`ExecuteCall` are one instruction each, `FinishCondition` and `FinishAction` the two
readings of the result. Both operands of && and || are evaluated, as in the code. Bools are
the ints they are kept in (`boolval_t`); the symbols may hold others than 0 and 1.

Abstractions: floats are kept in halves, which have all that truncation and mixed
arithmetic depend on; plus and minus stand for four arithmetic operators and > and >=
for four comparisons, as their rows in `cast_rules_table` are alike; strings are left
out; timeout and trueduring answer any bool here (their clocks are in Fsm).
Arguments are passed by position and their types are checked by nobody: a call
records the numbers given. Fewer than a function expects are accepted too, and are null
when it runs.

The meaning of a script is defined from the tree alone, knowing nothing of registers,
instructions and cast rules, and is what the compiled script is compared with.
`StaticType` tells types. `Told` tells, node by node, the values, what was asked in calls
and the symbols, for any tree, symbols to begin with and answers of the calls;
`Meaning` is what it tells of the evaluation that was made.

### Relay, IbrLayout, IbrProcess (`ibr/ibr.c`, `ibr_msg.c`, `ibr_process.c`)

*Relay* is what the processes of an interface bridge promise to someone who sees only
what goes in and out: each hands on what it has accepted, once and in order, until it
stops for good, and then at most the item in hand is lost.

*IbrLayout* is the set-up. `LoadField` and `MessageLoaded` are `load_msg` with
`ibr_add_field` and its running offset; `OpenSocket`, `BeginBridge`, `BridgeField`,
`EndBridge` are `ibr_init_inputs` with `create_bridge`: a field of the message for
each topic, in a bridge from one pool for all ibr tasks. `dstMsg` and `srcMsg` are the
two layouts, `size` is `dst_msg->size`, by which all buffers are allocated.

*IbrProcess* extends it by the threads. A buffer is a function from positions to
cells, and a cell names the byte it holds - of which datagram, or which version of
which topic - which is all that a property about messages depends on.
`ReceiveDatagram`, `BeginWait`, `AwaitUpdate`, `ReadTopic`, `ReadFails` and `Send` are the
loop; the bridge of ESWB reads its topics one behind the other and is woken by its last
one only. As in Dataflow, `Forgetful` is the set of processes for which `eswb_get_update`
may miss an update that came before it was called. The safety properties and the
refinement of Relay hold for any such set, and are proved; UpdateIsForwarded is claimed of
the others, and without that assumption it would be false: an update that comes while the
process reads or sends would wait for the next one.
Surroundings: datagrams `Arrive` (those lost, repeated or overtaken are those that do
not, or come again, or in another order), receives and sends fail. Conversion copies, as
no rule is ever put into the conversion queue (ibr.c). Arrays of no elements are allowed
for, as ibr_parser_xml.c:38 does not refuse them. Not modelled are the threads of processes
with a func:// source (`drv_eswb_recv`): the ibr proclaims that topic itself, so that no
task can update it and the thread waits, unless someone outside the tasks (a
replication service) updates it. What such a source does to the start is in Startup.

### Dom, Egram, Documents (`xml/xml.c`, `xml/egram/`)

*Dom* is the walker of `parser_egram.c` on the nodes of `xml.c`, as operators on a
record: `startElement`, `endElement`, `charDatahandler`, each with the pointers it
follows (`fault` is set when one is null). *Egram* is the grammar of `egram_xml.c` as
a table of lines of symbols, and the walk of `process_line` over it with an explicit
stack of calls; `ReadToken`, `EnterChoice`, `LineMatches` and `LineMisses` are what a
call does next. Handlers take effect at once (`Handle`). `parse` and `content` are
static in the code and survive a file; `ReadFile` overwrites the beginning of
`content` only, as does a read that fails after some chunks (`ReadFails`). A file is a sequence of lexemes: punctuation, blanks and words.
A value longer than a token's buffer is a miss (`t_overflow`), and so is one without a
closing quote (`t_more`); names, texts and comments
are not compared with that buffer (tokenize.c:50, :65), and what longer ones overwrite is left out.

*Documents* says what a whole document is and which elements it means, without a parser:
pieces (header, comment, tag, attribute, `>`, `/>`, text, closing tag) in an order that is
allowed. A *reading* goes over the pieces once and keeps the text so far, the path of open
elements and the nodes. It is the reference for WellFormedIsParsed.

### Loader (`swsys_parser_xml.c`, `ebr_parser_xml.c`, `common_parser_xml.c`)

One action per kind of node; `freeBus`, `freeTask`, `freeService` are the slots behind
the tables, which a refused node may have written. `ErrNum` is the macro
`GET_ATTR_AND_PROCESS_ERR`, which *assigns* the counter, so that of several attributes
read in a row the last one counts. Lists of connections keep the array of names that
`func_load_connections` uses again for every tag. What a document says (`TaskAsWritten`
and so on) is defined apart, without slots, counters and arrays.

## 3. Runs

| Run | What it asks | Instance |
|---|---|---|
| `dataflow` | how torn, old, unordered inputs can be; updates reach the output | the shape of `tests/mvp/mvp_swsys.xml`: a timer-driven flow with a feedback loop, an fsm and a flow clocked by it, the bus forgetting updates for the flow; 2 cycles |
| `fsm` | timing, nesting, progress | two top-level machines, one nested, every kind of condition, a timeout behind a transition back to the same state; ages to 2 |
| `startup` | readiness, acceptance, reasons to end, progress | four tasks of four kinds in all 24 orders, ten configurations, with failures |
| `clk` | what a sleeper misses, edges are served | three sources, four emissions |
| `clk_level` | *violated*: levels are served | two sources, three emissions |
| `flow_registry` | no recursion, an end | three tasks, four files, five ways to import each other of which three have a circle, any file unreadable, faulty or incomplete |
| `flow_imports` | *violated*: answers are of the file asked for | two tasks, terminated arrays |
| `eint` | results, assignments and arguments are what the text says; accepted when sensible and small enough | 2884 trees over an int, a float, a bool, an undefined name, timeout and trueduring, each evaluated again and again with eight sets of values |
| `ibr` | what a message consists of, whose bridge a process reads, and that the processes are a Relay | three processes between sockets or from bridges, a pool of two, sockets that keep two datagrams, three items, two updates, the bus forgetting them for one process |
| `xml` | the tree is one, is the document's, and parsing ends | two files after each other, the second any document of up to three pieces inside the root, whole, with `&`, or cut off anywhere; one with a value that is too long |
| `load` | the tables hold what the document says | 18281 documents: up to three nodes out of 26, complete and lacking something |
| `transition_lists` | what lists contain, their order, an end | every machine with three states and four transitions from one or two states |

Findings (each a run that TLC finds violated):

1. **A level raised at the wrong moment is not served** (`clk_level`). `clk_mux_point`
   looks at `status_reg` before it takes the mutex (clk.c:58), and the wait has no
   predicate. `MissedOnlyAfterCheck`, which holds, says that this window is the only one.
2. **Imports are compared through an array that is written again** (`flow_imports`).
   The registry answers for one file with another.

Seen while modelling, without a run of their own:

- *Flows.* A second task with a configuration that was loaded before is told "ok" and
  gets no flow (flow_parser_xml.c:162, `Load`). Files that import each other in a circle
  are loaded until the stack ends (`Load`, "overflow"), and a file without `<spec>` or
  `<functions>` brings the process down (flow_parser_xml.c:204, :232).
- *Start-up.* A func:// source cannot be connected to: ibr.c:148-160 proclaims any
  source whose driver can proclaim, so a topic that a task produces is proclaimed
  twice and the start is refused; `Consistent` therefore takes it for a producer.
  A flow runs without the topics whose bridge could not be created, and nobody learns of
  a connection to a name its function does not have (flow.c:183-193). It keeps an
  entry for each, in an array that is as long as the list (flow.c:178), so that flow_exec hands a
  bridge that does not exist, or one without a topic, to eswb_bridge_update (flow.c:382);
  what ESWB does with it is not known here, and not modelled. A flow that declares
  inputs and is given no `<in>` passes a null list on (flow.c:175).
- *Expressions.* A text that does not parse brings the process down, as the compiler
  descends into a null tree before the branch that would tolerate it (instr.c:506); so
  does a script with more than twenty constants, operators and calls (instr.c:361), and
  a function called with too few arguments reads a null register. `OutcomeIsDeserved`
  names these as the only ways to crash.
- *Interface bridges.* A failing send ends the thread without a word (ibr_process.c:457),
  a failing receive is tried again at once and for ever. A datagram that is too short
  leaves the tail of an earlier one, and all of it is sent. `udp://*` as a destination
  is bound and never connected, so that its first send fails. A topic that is missing
  moves the later fields up; widths of topics and fields are compared by nobody.
- *XML.* A comment before the root makes any root accepted, a broken one too, with
  the elements that were tried twice in the tree twice. A file cut off between tokens
  is accepted. Names of closing tags are not compared, `&` never parses, what
  follows the root is ignored, and behind a shorter file stands the rest of a longer
  one. Strings of a tag that do not fit their buffer end its attributes silently.
- *Loading.* As the counter of errors is assigned, a task without a name, a priority or
  a config, a bus without a name and a service without one are accepted after the message
  that the attribute is mandatory; an error of `eswb_bridge_create` is forgotten
  (ebr_parser_xml.c:62-65). A task without `<connect>`, or a connection with a value and
  no alias, follows a null pointer (xml.c:280, :112). A bus without an event queue
  takes over that of a refused bus before it. `$alias` is only replaced in lists. No
  error of a node reaches the caller of `swsys_load`.

Bounds and why they are enough. *Dataflow*: in two cycles a task that waits is overtaken
by an execution of its producer, which shows torn, merged and missed updates; the
proofs remove the bound. *Fsm*: two is the longest duration, so that "not yet",
"just" and "long ago" differ; ages saturate, so runs are unbounded in time. *Startup*:
four tasks are one of each kind, in all orders; what is faulty is one thing at a time:
a second producer, none, a clock nobody sets, strays among inputs and outputs, a func
source of another's topic and of its own.
*ClkMux*: two emissions race the check and the wait, a third follows. *FlowRegistry*:
depth three exercises an array reused by a later call of the same depth; the stack
holds as many calls as there are files, the least that is enough without a circle.
*TransitionLists*: sharing needs two transitions with a common state, closing a
cycle three. *Eint*: six registers, four instructions and three arguments (twenty,
twenty and six in the code) let scripts of up to five operators fit, just fit and not
fit; every operator meets every pair of types, and the values differ in sign, in
having a fraction and in being equal to others. *IbrProcess*: datagrams are shorter than
the message, as long and longer; with three of them in a socket for two, one is lost,
one waits during a send and one overwrites another's bytes; a pool of two meets three
bridges (five and six in the code), and two topics meet a message of two fields in
every combination of missing, of another type, narrower and wider. *Egram*: three
pieces inside the root give siblings, nesting, text before and after a child, empty
elements and comments; texts may be blank, and files with a header end in a line break;
the tag buffer of 13 fits, just fits and does not fit. Files
are never exactly as long as the buffer, and have fewer attributes than there are
slots, as the code writes one behind the last. *Loader*: a leftover needs a refused node
and one after it in the same table, and a third node shows that it does not go further;
documents fit the tables (`TablesAreLargeEnough`), whose size the code does not look at.

Fairness and its justification. Threads that can run do run (weak fairness of each
thread's steps): the code runs on preemptive POSIX threads. Taking a mutex has strong
fairness in ClkMux only, as other threads hold it for a few instructions. Timers are
not fair in Dataflow (no promise that another cycle begins); in Fsm time passes and
the task is clocked again and again, since progress of a machine is only claimed of a
task that is executed. The threads of IbrProcess and sequential code (Egram,
FlowRegistry, TransitionLists) go on; datagrams and updates need not come. No failing step is fair, nor is a spurious wake-up.

Deadlock is checked in `clk*` and `fsm`, which never stop. The other systems may stop:
cycles are bounded and waits may wait for ever (Dataflow), the process ends (Startup),
loading is done (FlowRegistry, TransitionLists, Loader, Egram), a script is refused
(Eint), the threads of a bridge end or wait for ever (IbrProcess).

## 4. Proofs

All theorems hold for every value of the constants that meets the named assumptions.
LoadingProofs extends three modules and FsmProofs two, whose specifications therefore have
names of their own (`ListsSpec`, `RegistrySpec`, `LoaderSpec`, `MuxSpec`).

| Module | Proved as `Spec => [](...)` | Assumptions beyond types |
|---|---|---|
| DataflowProofs | TypeOK, PublishSkew, BatchOrder, ClockedFreshness, CausalReads | `SingleWriter` |
| EintProofs | TypeOK, RegistersFlowForward, EvaluatesAsWritten, OutcomeIsDeserved | - |
| EgramProofs | DomIsATree, NoNullIsFollowed | NoNullIsFollowed: `NamesFit`, as a hypothesis that holds throughout |
| DocumentsProofs | WellFormedIsParsed | `WholeAreDocuments`: a file said to be whole is a document as Documents has it |
| FsmProofs | TypeOK, TimeoutsMeasureEntry, TrueDuringCountsReadings, OneMovePerExecution, HostIsCurrent, NestedStartsAfresh, StateVarIsState; EndIsFinal as an action property | `TreeAssumption` |
| FsmProofs (ClkMux) | MuxTypeOK, DriverExclusion, MissedOnlyAfterCheck | - |
| IbrProofs | TypeOK, SpillsOnlyIfWider, NewestLongEnough, OwnBridges, FieldsInPlace; IsARelay (the refinement of Relay) | - |
| StartupProofs | TypeOK, RunsOnlyWhenReady, SingleProducer, RunnersAreFed, ConsistentIsAccepted, EndsForAReason | - |
| LoadingProofs (TransitionLists) | TypeOK, NothingLost, GroupsKeepApart, DocumentOrder | the last two: `Disjoint`, as a hypothesis in the property |
| LoadingProofs (FlowRegistry) | NoFlowContainsItself | - |
| LoadingProofs (Loader) | LoadedAsWritten, WholeDocumentsLoadWhole | `LoaderAssumption`: documents are three levels of nodes, an alias is a list of names |

`SingleWriter` is what Startup proves of a system that runs (SingleProducer).
`TreeAssumption` holds for what the loader builds from machines whose transitions
have one source each: every load makes a new machine, so no machine is the top-level
one of two tasks, and `_begin_` and `_end_`, which fsm_create makes itself, host none.
`NamesFit` says that the names in the parser's buffer fit the strings of a tag. The
code does not see to that: set_tag_name (egram_xml.c:52) has a `TODO handle error`
where place_str answers a null pointer, MAX_TAG_BUFFER is 512 and a file may have 10240
characters. It holds of every file read in the run `xml`.
`WholeAreDocuments` says of the files what `whole` means; that the files of the run are
such documents is checked there, of every one (`WholeDocumentsAreRead`), against a second
way to say it (`Elements`: the elements from the nesting of the pieces). A document may
have any number of elements at any depth, with text in several places, comments, blanks
around attributes, any closing names and anything behind the root. It has no `<` or `&`
in its texts, no two dashes in a row in a comment, one text between two tags, fewer
attributes in a tag than there are slots (the code writes one behind the last), and
names, texts and comments no longer than a token's buffer; only the name of a tag has to
fit the tag's strings. Lexemes are told apart as in the grammar: words are not marks, and a blank
is neither (`EgramAssumption`).
That machines nest without cycles is not assumed: what an execution reaches follows
from each machine having one host.

The arguments:

- **ClkMux.** `MutexInv`: who is inside holds the mutex. `WindowInv`: while the cycle
  thread is between its look at the register and its wake-up, every raised bit was
  raised after the look, or a broadcast is under way, or it has been woken.
- **Dataflow.** None of the properties is inductive. `WriteInv` fixes the stamp of
  each output of a task relative to where in its program it is: what is already
  written in this execution carries `cyc`, the rest `cyc - 1`. `RunInv` says what the
  call in progress has computed from, `SeenInv` bounds the update woken for. The
  heart is `PublicInv`: nothing anywhere - on the bus, in a read, in a computation -
  carries data of a task newer than what that task has published first. CausalReads
  follows, as the chain along which data arrived does not matter.
- **Fsm.** `ScanInv` (a scan under way is not of a machine that has ended) and
  `OwnerInv` (machines stay in their own states) carry the step lemmas; firing a
  transition has one lemma on its effect, and each property one step lemma. The three
  properties about an execution as a whole need to know which machines it has been
  through, which no variable says: `RoundInv` claims a set D of them (`Visited`). They
  are those each of which it was led to by a top-level machine or by a host in D; as a
  machine has one host, an execution never comes back to one in D, so that it moves at
  most once (`Moved`). The conditions of reachable machines (`Live`) count rightly, or
  are still to be tried after the false reading (`CountsRightly`, `Pending`); a machine
  that is not reachable is reset before it counts again.
- **Startup.** The invariant ties `passed` to the phase and the index while the error
  count is zero; what is proclaimed and linked is then known for all tasks that passed.
  What is skipped is known to be a flow's, with a reason of its own (`FedInv`), and who owns
  a topic is known from `OwnerInv`. For ConsistentIsAccepted, `TakenInv` says that topics
  are taken in the outputs phase by the tasks it has come to, and func sources in the inputs
  phase, hence a consistent task finds its outputs free and its inputs supplied, and no
  error is counted (`FaultlessInv`).
- **Eint.** What is in `below` are cells that exist, registers only up to the last one
  allocated (`BelowInv`), and every instruction names such cells and writes a
  variable or a register of its own, newer than the ones it reads (`InstrInv`). With
  the bounds on the queues, that makes the types and the order of registers inductive.
  EvaluatesAsWritten is the correctness of a compiler, in two halves that meet in
  `Code`: which node each instruction is for, in increasing order and missing none that
  computes, with that node's operands where `below` says they are (`Implements`), its
  constants in registers that no instruction writes (`HoldsLeaf`). Compiling a node extends
  that by one instruction or by none (`CodeWith`, `CodeWithout`). Executing keeps it and
  makes `RunAt` true one instruction further: the registers written so far hold the
  values of their nodes, the variables and the calls are as they are told of the node
  executed last. Three facts carry that. A handler computes what its operator means,
  for each row of the table (`HandlerTells`, `AssignmentTells`). A variable is read as an
  operand when the instruction runs, not where it stands in the text: nothing is assigned
  between an expression and what it is part of, as the grammar has statements at the top
  only (`NothingAssigned`; `OperandValue`). And answers to come do not change what has
  been told (`ToldStays`). That `Told` and `Leaves`, which are recursive functions, exist at
  all is proved by the least place at which they would not (`ToldExists`,
  `LeavesExist`); with that, one unfolds at each node and no other induction is needed.
  For OutcomeIsDeserved, `SenseSoFar` says of the nodes compiled so far that their types,
  told from the tree, are those of their cells, and that the queues are exactly as long as
  these nodes need: `CountTo` counts those that take a register or an instruction. A node
  that finds no row, no room or too many arguments then shows a script that makes no
  sense or needs too much (`OperatorSense`, `NeedsMore`), and at the last node the counts
  are those of the script (`SenseOfAll`). What the table accepts is compared with the
  rules of `TypeTold` in both directions (`RowFacts`, `RowExists`).
- **Ibr.** `LayoutInv` says of what is loaded that its fields lie behind one another
  and end at `size`, and of what is being created how far it has come (`LaidOut`,
  `BridgeOf`): from it, a bridge reads past its buffer only if a topic is wider than
  its field. `ThreadInv` ties the number of items taken to the number sent and the
  place in the loop; what a position of `src_buf` holds is fixed by the datagrams
  that had that position (`Filled`), hence NewestLongEnough. Under the mapping that
  takes what sockets keep and what is in hand for pending, every step is one of
  Relay or a stutter. For OwnBridges and FieldsInPlace, `ArrangedInv` says how the
  layout that connecting the inputs writes to `src_msg` agrees with the message asked
  for and with the topics of the bridge (`Follows`, `Arranged`: the same places up to
  the first missing topic), and `CarriesInv` that what is being read, converted or sent
  holds a version of each topic whole, as far as the buffer goes.
- **Egram.** DomIsATree is inductive once typing is added (`Fine`), as it is stated by
  the order of creation: a parent is older than its children, `first` and `last` are the
  oldest and newest nodes with that parent, `next` the oldest of the newer ones. The
  node that is linked is the newest of all, and its links follow (`FirstNode`,
  `FurtherNode`). The grammar does not matter: every handler keeps `Fine`, in whatever
  order and how often it is called.
  NoNullIsFollowed is about that order, hence about the grammar. `Grammar` and
  `GrammarFlags` say what a line tries and which of its symbols have a handler, by
  cases over all symbols; `Stacked` that calls nest as the grammar says. `Sound` relates
  the stack, the text, the parser and the walker: an `Opened` tag on the stack is one
  that has been through `>` or `/>`; one that is not has its name stored, once it read
  it (`Named`); the walker is at least as deep as there are opened tags on the stack, and
  it may be deeper, by what alternatives given up have opened (`Deep`). A tag that opens
  adds one to both, its closing takes one from both, data comes in an opened tag only.
  The difficulty is that a tag could be opened twice, by `>` whose line then fails and by
  `/>`; it is not, because both ends read at the same place and no text has both there
  (`EndsRead`, `OneEnd`). Tags stand in every third place of the stack (`TagPlace`,
  `TagsApart`), so that "as deep as there are opened tags" is a bound on the places of
  the opened ones (`IsDeep`) and nothing has to be counted.
  WellFormedIsParsed is proved by running the parser along a document. A step is the only
  one there is; `Only(a, b)` says so of two configurations, `Reaches` of a chain of them, which
  contains no time: so what process_line comes to is a theorem about constants, drawn
  lemma by lemma from single symbols (`TakeOnce`, `Enter`, `ReturnOnce`), over lines, to
  whole pieces. Between pieces the parser is in a zone: before the root, in the header,
  in a tag that d elements are open around, in the text of the d-th element, between its
  tags and comments, behind the root. Zones say what is on the stack at any depth (`Base`,
  by induction on d), including the blanks that alternatives already tried have read and
  given back (`Pending`). `PieceIsRead` leads from the zone of a reading to that of the
  next one, together with what the walker has built (`Follows`: node by node what the
  reading says, and the open path as parents) and what the slots of the tag hold
  (`TagIs`, up to the first attribute that did not fit: `Keeps`); an induction on the
  number of pieces gives `WholeIsRead`. The invariant is then short: while a whole
  document is being parsed, what is here `Reaches` an end whose nodes mirror the
  document's (`WillRead`). A step takes the first link off the chain, the last one is the
  verdict; a new file starts a chain whatever buffer, slots and stack it finds, which is
  where do_tag_reset is needed.
- **FlowRegistry.** The code keeps no order; it follows from the list growing at its
  end only. `FirstInv`: whatever a search looks for, if an entry matches, there is a
  first (an induction on the list's length, made by the steps of the system). What a
  lookup answers is then an entry that exists, older than the flow being built
  (`Earlier`).
- **TransitionLists.** `NothingLost` is inductive only together with the walk being on
  the list it walks: then the end it links to is an end of that list. The other two
  hold as, with `Disjoint`, a walk never meets the transition that is being added.

- **Loader.** `LoaderInv`: the tables match the loadable nodes among those read
  (`TablesMatch`), the free slot of the tasks has no lists of connections in it (`Fresh`: they
  are written only just before a slot is taken, which is why nobody has to clear them), and of
  a document of complete nodes as many slots are taken as nodes of their kinds were read
  (`WholeInv`). What a step needs is one lemma per loader (`BusRead`, `TaskRead`,
  `BridgeRead`, `ServiceRead`): *whatever* is in the slot, a loader errs exactly for a
  node that is not loadable, and what is used of the slot it leaves is what the node says.
  The rest is about sequences of any length. That the list of names may be used again for
  every tag is `UpToNullIsAlias`, and that the connections of a tag are then those of each of
  its nodes, as read alone, `ConnectionsAre`. These are inductions over a document's data.

Induction over data: the library's induction theorems take an operator, which the
provers cannot instantiate. Stated for sets it is within reach (`EveryNat`: a set that
holds 0 and the successor of each of its numbers holds all; drawn from WFMin, as
`LeastNat` in EintProofs; `EveryNumber` in DocumentsProofs), and what a recursive function computes for every input can be
proved once its existence is (`FlatExists`, `AccExists`, `ToldExists`).

Only model-checked: all liveness (progress of updates, timeouts, edges, loading,
start, delivery, parsing), which the provers do not reach; and AcceptedIsAPart (Egram),
about files that are damaged: the chain of WellFormedIsParsed follows what a document says,
and what a damaged file says, and which of its alternatives were tried and given up, has no
definition apart from the parser's own.
Type invariants,
DriverExclusion, RegistersFlowForward, StateVarIsState, EndIsFinal, SingleProducer and
GroupsKeepApart are proved and no longer checked by a run.

## 5. Not modelled, and why

- expat: some 16000 lines of the tree are this vendored parser, which only the test of
  the grammar links, as a second opinion. The lines that are modelled are a third of
  the others.
- What atomic functions compute: floating point, each a function of its inputs,
  parameters and at most one number it remembers.
- The lexer of expressions and how its parser resolves precedence (Eint starts from the
  tree), and the text that the code generator writes: sequential and pure. The symbol table is given, not built.
- The inside of a flow's initialisation (its bus, its parameters, how it finds its
  functions); fields of an ibr message as XML nodes; states, variables and actions of a
  machine as XML nodes.
- Services: they start or fail; their work is in ESWB, which is not in the tree.
- Memory: allocations succeed, and the memory behind a table is not modelled.
- Registration of clocks, which precedes the cycle; enabling and disabling them only
  sets a flag that nothing reads.

## 6. Plan

1. *(done)* ClkMux, Dataflow, Fsm, Startup: the running system and how it gets there.
2. *(done)* TransitionLists, FlowRegistry, Loader, Egram: what loading builds; Eint:
   what scripts do.
3. *(done)* IbrLayout and IbrProcess, and Relay, which they implement.
4. *(done)* Proofs: FieldsInPlace and OwnBridges; OneMovePerExecution, HostIsCurrent
   and TrueDuringCountsReadings; NoFlowContainsItself; ConsistentIsAccepted;
   NoNullIsFollowed; that evaluating does what the tree says (EvaluatesAsWritten)
   and that scripts are refused for a reason (OutcomeIsDeserved); that a loaded slot is
   its own node's (LoadedAsWritten, WholeDocumentsLoadWhole); that parsing takes
   documents for what they are (WellFormedIsParsed). *(open)* AcceptedIsAPart.
5. *(done)* Bridges of a flow that are not created and not missed (Startup), files that
   import each other in a circle or lack a section (FlowRegistry). *(open)* The rest of a
   flow's initialisation: how it looks its functions up.
6. Further abstract specifications: a machine as what its host sees (Fsm implements
   it), Startup as "refused or ready".

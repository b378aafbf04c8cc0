---------------------------- MODULE FlowRegistry ----------------------------
(***************************************************************************)
(* Loading flows by path (flow/flow_parser_xml.c): flow_load answers from  *)
(* the registry if the path was tried before; otherwise it parses the      *)
(* file, loads the flows it imports by calling itself, resolves the        *)
(* functions it names against the registry, and registers the outcome.     *)
(*                                                                         *)
(* The registry keeps the path by pointer.  The path of a task is a string *)
(* of its own; the path of an import is the array flow_root_path of the    *)
(* importing call, to which every import appends its file name.  A text is *)
(* the directory (the same for all, left out) and the names appended to    *)
(* it.  The array is not terminated when it is made (strncpy), and lies on *)
(* the stack, at the same place for every call of the same depth: what     *)
(* follows the directory is whatever was there.                            *)
(*                                                                         *)
(* Files may import each other in a circle ("TODO prevent importing from   *)
(* circle dependances", line 57); calls that go deeper than the stack holds*)
(* crash the process.  So does a file without a <spec> or <functions>.     *)
(***************************************************************************)
EXTENDS Naturals, Sequences, FiniteSets

CONSTANTS Files,     \* flow files, each declaring a flow of its name
          Graphs,    \* what files may import: for each, files in order
          Uses,      \* the flows a file's functions name (by_spec)
          Tasks,     \* the config files of the flow tasks, in order
          Garbage,   \* what else may be on the stack
          Residues,  \* what a new array may hold behind the directory: "none"
                     \* if it happens to be terminated, "old", "garbage"
          Depths     \* the calls of flow_load the stack holds

ASSUME RegistryAssumption ==
    /\ IsFiniteSet(Files)
    /\ Graphs \subseteq [Files -> Seq(Files)]
    /\ Uses \in [Files -> SUBSET Files]
    /\ Tasks \in Seq(Files)
    /\ Garbage \notin Files
    /\ Residues \subseteq {"none", "old", "garbage"}
    /\ Depths \in Nat /\ Cardinality(Files) <= Depths

\* A file that does not parse (or is no flow), that has an error of its own, that
\* lacks a section without which loading crashes, and one without fault.
Contents == {"unparsable", "faulty", "noSpec", "noFunctions", "sound"}

VARIABLES imports,   \* the files each file imports
          content,   \* what each file contains, of Contents
          reg,       \* the list flow_reg_root
          stack,     \* the calls of flow_load that go on
          arrays,    \* flow_root_path of the call of each depth
          told,      \* what each task got: its flow_load's result, and the flow
          crashed,   \* how the process crashed: "no", "null", "overflow"
          answers    \* history: answers from the registry, with the file meant

registryVars == <<imports, content, reg, stack, arrays, told, crashed, answers>>

Text == Seq(Files \cup {Garbage})

\* A pointer to a path: a string of its own, or the array of a depth.
String(f) == [array |-> 0, string |-> <<f>>]
Array(d) == [array |-> d, string |-> <<>>]

RegistryInit ==
    /\ imports \in Graphs
    /\ content \in [Files -> Contents]
    /\ reg = <<>>
    /\ stack = <<>>
    /\ arrays = [d \in 1..Depths |-> <<>>]
    /\ told = <<>>
    /\ crashed = "no"
    /\ answers = {}

-----------------------------------------------------------------------------
TextOf(path, mem) == IF path.array = 0 THEN path.string ELSE mem[path.array]

\* flow_reg_find_by_path, and flow_reg_find_handler: the first that matches.
FirstOf(S) == IF S = {} THEN 0 ELSE CHOOSE k \in S : \A j \in S : k <= j

FindByPath(path, mem) ==
    FirstOf({k \in DOMAIN reg : TextOf(reg[k].path, mem) = TextOf(path, mem)})

FindHandler(f) == FirstOf({k \in DOMAIN reg : reg[k].rv = "ok" /\ reg[k].file = f})

\* flow_reg_add: no test for uniqueness.
Register(path, file, rv, uses) ==
    reg' = Append(reg, [path |-> path, file |-> file, rv |-> rv, uses |-> uses])

\* The result of flow_load goes to task_load or to import_flow.
Return(rv, flow, callers) ==
    IF callers = <<>>
    THEN told' = Append(told, [rv |-> rv, flow |-> flow]) /\ stack' = <<>>
    ELSE /\ stack' = [callers EXCEPT ![Len(callers)].errs = IF rv = "ok" THEN @ ELSE @ + 1]
         /\ UNCHANGED told

\* The rest of a path of file names behind the directory is a file, if it is a
\* single name.
Readable(text, f) == text = <<f>> /\ content[f] # "unparsable"

\* strncpy writes the directory and no end of the string.
Residue(r, old) ==
    CASE r = "none" -> <<>>
      [] r = "old" -> old
      [] r = "garbage" -> <<Garbage>>

Crash(how) == crashed' = how /\ UNCHANGED <<reg, stack, arrays, told, answers>>

\* flow_load of path, by which the caller means file f: no room for the call, an
\* answer from the registry (which leaves *flow_rv alone), a file that does not
\* load, one that crashes the process, or a call that goes on with the imports.
Load(path, f, callers, mem) ==
    LET fits == Len(callers) < Depths
        k == FindByPath(path, mem)
        read == k = 0 /\ Readable(TextOf(path, mem), f)
    IN  \/ /\ ~fits
           /\ Crash("overflow")
        \/ /\ fits /\ k # 0
           /\ answers' = answers \cup {<<f, reg[k].file>>}
           /\ Return(reg[k].rv, FALSE, callers)
           /\ arrays' = mem
           /\ UNCHANGED <<reg, crashed>>
        \/ /\ fits /\ k = 0 /\ ~read
           /\ Register(path, f, "loaderr", {})
           /\ Return("loaderr", FALSE, callers)
           /\ arrays' = mem
           /\ UNCHANGED <<answers, crashed>>
        \/ /\ fits /\ read /\ content[f] = "noSpec"
           /\ Crash("null")
        \/ /\ fits /\ read /\ content[f] # "noSpec"
           /\ stack' = Append(callers, [path |-> path, file |-> f, next |-> 1, errs |-> 0])
           /\ \E r \in Residues :
                 arrays' = [mem EXCEPT ![Len(stack')] = Residue(r, @)]
           /\ UNCHANGED <<reg, told, answers, crashed>>

-----------------------------------------------------------------------------
\* task_load of the next flow task.
TaskLoad ==
    /\ crashed = "no"
    /\ stack = <<>>
    /\ Len(told) < Len(Tasks)
    /\ LET f == Tasks[Len(told) + 1] IN Load(String(f), f, <<>>, arrays)
    /\ UNCHANGED <<imports, content>>

Top == stack[Len(stack)]

\* The call on top of the stack has a file left to import.
Importing ==
    /\ crashed = "no"
    /\ stack # <<>>
    /\ Top.next <= Len(imports[Top.file])

\* The call after its next import has returned.
Imported == [stack EXCEPT ![Len(stack)].next = @ + 1]

\* As if it handed down the path it was called with.
SelfishImport ==
    /\ Importing
    /\ Load(Top.path, Top.file, Imported, arrays)
    /\ UNCHANGED <<imports, content>>

\* import_flow: append the file name, and load the result.
Import ==
    /\ Importing
    /\ LET d == Len(stack)
           f == imports[Top.file][Top.next]
       IN  Load(Array(d), f, Imported, [arrays EXCEPT ![d] = Append(@, f)])
    /\ UNCHANGED <<imports, content>>

\* load_func for every function of the file; one not found counts as no error.
Resolved(f) == {FindHandler(u) : u \in Uses[f]} \ {0}

\* All imports have returned.
Finishing ==
    /\ crashed = "no"
    /\ stack # <<>>
    /\ Top.next > Len(imports[Top.file])

Outcome == IF Top.errs > 0 \/ content[Top.file] = "faulty" THEN "loaderr" ELSE "ok"

\* As if the flow were registered before its functions are resolved.
EarlyFinish ==
    /\ Finishing
    /\ content[Top.file] # "noFunctions"
    /\ LET early == IF Outcome = "ok" /\ Top.file \in Uses[Top.file] THEN {Len(reg) + 1} ELSE {}
       IN  Register(Top.path, Top.file, Outcome, Resolved(Top.file) \cup early)
    /\ Return(Outcome, Outcome = "ok", SubSeq(stack, 1, Len(stack) - 1))
    /\ arrays' \in {arrays, [arrays EXCEPT ![Len(stack)] = <<Garbage>>]}
    /\ UNCHANGED <<imports, content, crashed, answers>>

\* The functions, flow_reg_add and the return, after which the array is
\* anybody's.
Finish ==
    /\ Finishing
    /\ content[Top.file] # "noFunctions"
    /\ Register(Top.path, Top.file, Outcome, Resolved(Top.file))
    /\ Return(Outcome, Outcome = "ok", SubSeq(stack, 1, Len(stack) - 1))
    /\ arrays' \in {arrays, [arrays EXCEPT ![Len(stack)] = <<Garbage>>]}
    /\ UNCHANGED <<imports, content, crashed, answers>>

\* The functions of a file without <functions> are counted.
FinishNothing ==
    /\ Finishing
    /\ content[Top.file] = "noFunctions"
    /\ Crash("null")
    /\ UNCHANGED <<imports, content>>

Done == stack = <<>> /\ Len(told) = Len(Tasks)

RegistryNext == TaskLoad \/ Import \/ Finish \/ FinishNothing

RegistrySpec == RegistryInit /\ [][RegistryNext]_registryVars

RegistryFairSpec == RegistrySpec /\ WF_registryVars(RegistryNext)

-----------------------------------------------------------------------------
(* Properties.                                                             *)

\* No flow contains itself, directly or through others, however files import
\* and name each other: what a function is resolved to was registered earlier.
NoFlowContainsItself == \A k \in DOMAIN reg : \A j \in reg[k].uses : j < k

\* Files that can be read import each other in a circle: from each of a set of
\* them an import leads back into the set.
Circular ==
    \E C \in SUBSET {f \in Files : content[f] \notin {"unparsable", "noSpec"}} \ {{}} :
        \A f \in C : \E k \in DOMAIN imports[f] : imports[f][k] \in C

\* Loading comes to an end, with an answer for every task or by a crash.  The
\* calls run into the end of the stack only if files import each other in a
\* circle, whatever the registry answers and whatever paths the arrays hold; a
\* circle through a file that does not load does no harm.
LoadingEnds ==
    <>(\/ Done
       \/ crashed = "null" /\ \E f \in Files : content[f] \in {"noSpec", "noFunctions"}
       \/ crashed = "overflow" /\ Circular)

\* "already have attempt to load, returning same error" (flow_parser_xml.c:164):
\* an answer from the registry is of an attempt to load the file that is meant.
AnswersAreOfTheFile == \A a \in answers : a[1] = a[2]
=============================================================================

-------------------------------- MODULE Egram --------------------------------
(***************************************************************************)
(* How a configuration file becomes a tree: xml/egram/parser_egram.c reads *)
(* it into a static buffer, and xml/egram/lib/egram.c walks the grammar of *)
(* xml/egram/egram_xml.c over the buffer, calling the handlers of the      *)
(* symbols that match at once: what an alternative did before it turned    *)
(* out wrong stays done.  The parser and the buffer are static: both       *)
(* survive a file.                                                         *)
(*                                                                         *)
(* A file is a sequence of lexemes: punctuation, blanks, and words that    *)
(* stand for names, attribute values and text.                             *)
(***************************************************************************)
EXTENDS Dom, FiniteSetsExt, SequencesExt

CONSTANTS Words,        \* lexemes made of letters, digits and underscores
          Sources,      \* Sources[k]: the files that may be read k-th, each
                        \* [text, nodes, whole, plain]: what it holds, the elements
                        \* of the document that all (whole) or a part of it is,
                        \* and that no comment comes before the root (plain)
          MAX_ATTRS,    \* slots for attributes (files stay below)
          MAX_TAG_BUFFER,     \* what the strings of one tag may take
          MAX_TOKEN_LEN,      \* the longest value of an attribute
          MAX_XML_FILE_SIZE,  \* the static buffer
          Chunk               \* one read

\* What the grammar names, as far as it is neither a word nor a blank.
Quote == "\""
Marks == {"<", ">", "/", "=", Quote, "-", "!", "?", "&"}

ASSUME EgramAssumption ==
    /\ MAX_XML_FILE_SIZE \in Nat /\ Chunk \in Nat \ {0}
    /\ MAX_ATTRS \in Nat \ {0} /\ MAX_TAG_BUFFER \in Nat /\ MAX_TOKEN_LEN \in Nat
    /\ Words \cap Marks = {} /\ Space \notin Words \cup Marks
    /\ Sources \in Seq(Range(Sources))
    /\ \A k \in DOMAIN Sources : \A s \in Sources[k] : s.text \in Seq(Range(s.text))

VARIABLES content,      \* file_content up to its first zero byte
          source,       \* the file that was read last
          loads,        \* how many were
          parse,        \* egram4xml_parse_state_t, static
          walker,       \* xml_dom_walker_state_t, one per file
          stack,        \* the calls of process_line
          verdict       \* what xml_parse_from_file returned

vars == <<content, source, loads, parse, walker, stack, verdict>>
------------------------------------------------------------------------------
\* The grammar.  A symbol is a token or a choice of lines, perhaps repeated
\* (many) or absent (optional), with the handler to call.
Terminal(token, many, optional, h) ==
    [term |-> TRUE, token |-> token, elems |-> <<>>,
     many |-> many, optional |-> optional, h |-> h]
Nonterminal(elems, many, optional) ==
    [term |-> FALSE, token |-> <<>>, elems |-> elems,
     many |-> many, optional |-> optional, h |-> "none"]

TOKEN(t) == Terminal(t, FALSE, FALSE, "none")
TOKEN_H(t, h) == Terminal(t, FALSE, FALSE, h)
TOKEN_O(t) == Terminal(t, FALSE, TRUE, "none")
TOKEN_MO(t) == Terminal(t, TRUE, TRUE, "none")
TOKEN_MOH(t, h) == Terminal(t, TRUE, TRUE, h)
NONTERM(elems) == Nonterminal(elems, FALSE, FALSE)
NONTERM_O(elems) == Nonterminal(elems, FALSE, TRUE)
NONTERM_MO(elems) == Nonterminal(elems, TRUE, TRUE)

\* A token is a literal or one of four kinds.
Literal(s) == [kind |-> "const", lit |-> s]
AnyBut(s) == [kind |-> "any_but", lit |-> s]
alphanum == [kind |-> "alphanum", lit |-> <<>>]
whitespace == [kind |-> "whitespace", lit |-> <<>>]
attr_val == [kind |-> "attr_val", lit |-> <<>>]

tag_pack == <<"rule_xml_tag", "comment_line">>
content_pack == <<"tag_value_line", "recourse_tag_line">>
tag_end_pack == <<"rule_xml_tag_end_full", "rule_xml_tag_end_empty">>
comment_value_pack == <<"comment_content_line", "comment_content_dash_escaped_line">>

Lines ==
    [attr_line |->
        <<TOKEN_MO(whitespace), TOKEN_H(alphanum, "set_attr_name"),
          TOKEN(Literal(<<"=">>)), TOKEN_H(attr_val, "set_attr_value")>>,
     tag_value_line |->
        <<TOKEN_MOH(AnyBut(<<"&", "<">>), "concat_tag_value")>>,
     comment_content_line |->
        <<TOKEN_MO(AnyBut(<<"-">>))>>,
     comment_content_dash_escaped_line |->
        <<TOKEN_O(Literal(<<"-">>)), TOKEN_MO(AnyBut(<<"-">>))>>,
     comment_line |->
        <<TOKEN_MO(whitespace), TOKEN(Literal(<<"<", "!", "-", "-">>)),
          NONTERM_MO(comment_value_pack), TOKEN(Literal(<<"-", "-", ">">>))>>,
     recourse_tag_line |->
        <<NONTERM_MO(tag_pack)>>,
     rule_xml_tag_end_full |->
        <<TOKEN_H(Literal(<<">">>), "got_tag_open"), NONTERM_MO(content_pack),
          TOKEN(Literal(<<"<", "/">>)), TOKEN_H(alphanum, "set_tag_name"),
          TOKEN(Literal(<<">">>))>>,
     rule_xml_tag_end_empty |->
        <<TOKEN(Literal(<<"/", ">">>))>>,
     rule_xml_tag |->
        <<TOKEN_MO(whitespace), TOKEN_H(Literal(<<"<">>), "do_tag_reset"),
          TOKEN_H(alphanum, "set_tag_name"), NONTERM_MO(<<"attr_line">>),
          TOKEN_MO(whitespace), NONTERM(tag_end_pack)>>,
     xml_header |->
        <<TOKEN_MO(whitespace), TOKEN(Literal(<<"<", "?", "xml">>)),
          NONTERM_MO(<<"attr_line">>), TOKEN_MO(whitespace),
          TOKEN(Literal(<<"?", ">">>))>>,
     rule_xml_document |->
        <<NONTERM_O(<<"xml_header">>), NONTERM_MO(<<"comment_line">>),
          NONTERM_O(tag_pack)>>]

\* As if the rule of a whole closing tag ended the element too.
Eager_AtEndOf(line) ==
    CASE line = "attr_line" -> "accept_attr"
      [] line = "rule_xml_tag_end_empty" -> "got_tag_open"
      [] line \in {"rule_xml_tag", "rule_xml_tag_end_full"} -> "got_tag_close"
      [] OTHER -> "none"

\* What is called when a line has been matched to its end.
AtEndOf(line) ==
    CASE line = "attr_line" -> "accept_attr"
      [] line = "rule_xml_tag_end_empty" -> "got_tag_open"
      [] line = "rule_xml_tag" -> "got_tag_close"
      [] OTHER -> "none"
------------------------------------------------------------------------------
\* Tokens.  What reading one at p gives: nothing, or n lexemes and the value the
\* handler gets.
Missed == [hit |-> FALSE, n |-> 0, value |-> <<>>]
Hit(n, value) == [hit |-> TRUE, n |-> n, value |-> value]

\* How many lexemes from p on satisfy none of the stops.
RunLength(p, stops) ==
    LET found == {k \in p..Len(content) : content[k] \in stops}
    IN  IF found = {} THEN Len(content) + 1 - p ELSE Min(found) - p

read_token_const(lit, p) ==
    IF IsPrefix(lit, SubSeq(content, p, Len(content))) THEN Hit(Len(lit), lit) ELSE Missed

read_token_whitespace(p) ==
    IF content[p] = Space THEN Hit(1, <<Space>>) ELSE Missed

\* As if no text at all were a match as well.
Empty_read_any_but(lit, p) ==
    LET n == RunLength(p, Range(lit)) IN Hit(n, SubSeq(content, p, p + n - 1))

read_any_but(lit, p) ==
    LET n == RunLength(p, Range(lit))
    IN  IF n > 0 THEN Hit(n, SubSeq(content, p, p + n - 1)) ELSE Missed

\* A name that the input ends with wants more and is a miss.
read_token_alphanum(p) ==
    LET n == RunLength(p, Range(content) \ Words)
    IN  IF n > 0 /\ p + n <= Len(content)
        THEN Hit(n, SubSeq(content, p, p + n - 1)) ELSE Missed

\* A value is a miss when it is too long for the token's buffer, and when its
\* closing quote is missing.  (Texts and names are not compared with the buffer;
\* what longer ones overwrite is left out.)
read_attr_val(p) ==
    LET n == RunLength(p + 1, {Quote})
    IN  IF content[p] = Quote /\ n <= MAX_TOKEN_LEN /\ p + 1 + n <= Len(content)
        THEN Hit(n + 2, SubSeq(content, p + 1, p + n)) ELSE Missed

read_token(token, p) ==
    CASE token.kind = "const" -> read_token_const(token.lit, p)
      [] token.kind = "any_but" -> read_any_but(token.lit, p)
      [] token.kind = "alphanum" -> read_token_alphanum(p)
      [] token.kind = "whitespace" -> read_token_whitespace(p)
      [] token.kind = "attr_val" -> read_attr_val(p)
------------------------------------------------------------------------------
\* Handlers.  Strings of a tag share one buffer; one that does not fit is null.
NoAttr == [name |-> Null, value |-> Null]
NewParse == [tagname |-> Null, attrs |-> [i \in 0..(MAX_ATTRS - 1) |-> NoAttr],
             attrs_num |-> 0, used |-> 0]

Fits(c, s) == c.used + Len(s) + 1 <= MAX_TAG_BUFFER
place_str(c, s) == IF Fits(c, s) THEN s ELSE Null
Taken(c, s) == IF Fits(c, s) THEN c.used + Len(s) + 1 ELSE c.used

\* As if a tag took over the attributes before it.
Heaping_do_tag_reset(c) == [c EXCEPT !.used = 0]

do_tag_reset(c) == [c EXCEPT !.attrs_num = 0, !.used = 0]

Parsed(c, h, s) ==
    CASE h = "do_tag_reset" -> do_tag_reset(c)
      [] h = "set_tag_name" ->
            [c EXCEPT !.tagname = place_str(c, s), !.used = Taken(c, s)]
      [] h = "set_attr_name" ->
            [c EXCEPT !.attrs[c.attrs_num].name = place_str(c, s), !.used = Taken(c, s)]
      [] h = "set_attr_value" ->
            [c EXCEPT !.attrs[c.attrs_num].value = place_str(c, s), !.used = Taken(c, s)]
      [] h = "accept_attr" -> [c EXCEPT !.attrs_num = @ + 1]
      [] h = "got_tag_open" -> [c EXCEPT !.attrs[c.attrs_num].value = Null]
      [] OTHER -> c

\* The list a tag is started with ends at the first slot without a name or a
\* value.
AttrsOf(c) ==
    LET ends == {i \in DOMAIN c.attrs : c.attrs[i].name = Null \/ c.attrs[i].value = Null}
    IN  [i \in 1..Min(ends) |-> c.attrs[i - 1]]

Walked(w, c, h, s) ==
    CASE h = "got_tag_open" -> startElement(w, c.tagname, AttrsOf(c))
      [] h = "concat_tag_value" -> charDatahandler(w, s)
      [] h = "got_tag_close" -> endElement(w)
      [] OTHER -> w

Handle(h, s) == /\ parse' = Parsed(parse, h, s)
                /\ walker' = Walked(walker, parse', h, s)
------------------------------------------------------------------------------
\* process_line.  A call is at symbol i of its line, of which it tries choice
\* alt, and has matched what is before pos; hit is the last result, some that a
\* repeated symbol has matched, dead that a symbol it needs is not there.
Call(line, pos) ==
    [line |-> line, i |-> 1, alt |-> 0, pos |-> pos,
     hit |-> FALSE, some |-> FALSE, dead |-> FALSE]

AtEnd(f) == f.i > Len(Lines[f.line])
Going(f) == f.pos <= Len(content) /\ ~AtEnd(f) /\ ~f.dead
SymbolOf(f) == Lines[f.line][f.i]

\* A line counts as matched when its last symbol was, or any repeated one, the
\* input having ended anywhere.
Matches(f) == f.hit \/ f.some

AfterMatch(f, pos) ==
    [f EXCEPT !.pos = pos, !.alt = 0, !.hit = TRUE,
              !.i = IF SymbolOf(f).many THEN @ ELSE @ + 1,
              !.some = @ \/ SymbolOf(f).many]

\* As if a repeated symbol before the one that is missing made the line match.
Lenient_AfterMiss(f) ==
    IF SymbolOf(f).optional THEN [f EXCEPT !.i = @ + 1, !.alt = 0, !.hit = FALSE]
    ELSE [f EXCEPT !.dead = TRUE, !.alt = 0, !.hit = FALSE]

AfterMiss(f) ==
    IF SymbolOf(f).optional THEN [f EXCEPT !.i = @ + 1, !.alt = 0, !.hit = FALSE]
    ELSE [f EXCEPT !.dead = TRUE, !.alt = 0, !.hit = FALSE,
                   !.some = @ /\ SymbolOf(f).many]

Top == Last(stack)
Below == Front(stack)
Caller == Last(Below)
Parsing == verdict = "parsing"

ReadToken ==
    /\ Parsing /\ Going(Top) /\ SymbolOf(Top).term
    /\ \E r \in {read_token(SymbolOf(Top).token, Top.pos)} :
          \/ /\ r.hit
             /\ Handle(SymbolOf(Top).h, r.value)
             /\ stack' = Append(Below, AfterMatch(Top, Top.pos + r.n))
          \/ /\ ~r.hit
             /\ stack' = Append(Below, AfterMiss(Top))
             /\ UNCHANGED <<parse, walker>>
    /\ UNCHANGED <<content, source, loads, verdict>>

EnterChoice ==
    /\ Parsing /\ Going(Top) /\ ~SymbolOf(Top).term
    /\ stack' = Below \o <<[Top EXCEPT !.alt = 1],
                           Call(SymbolOf(Top).elems[1], Top.pos)>>
    /\ UNCHANGED <<content, source, loads, parse, walker, verdict>>

\* The line is matched, to its end or to the end of the input.
LineMatches ==
    /\ Parsing /\ ~Going(Top) /\ Matches(Top) /\ Len(stack) > 1
    /\ Handle(IF AtEnd(Top) THEN AtEndOf(Top.line) ELSE "none", <<>>)
    /\ stack' = Append(Front(Below), AfterMatch(Caller, Top.pos))
    /\ UNCHANGED <<content, source, loads, verdict>>

\* The next choice is tried from where this one began, if there is one.
LineMisses ==
    /\ Parsing /\ ~Going(Top) /\ ~Matches(Top) /\ Len(stack) > 1
    /\ LET elems == SymbolOf(Caller).elems
           n == Caller.alt + 1
       IN  stack' = Front(Below) \o
                      IF n <= Len(elems)
                      THEN <<[Caller EXCEPT !.alt = n], Call(elems[n], Caller.pos)>>
                      ELSE <<AfterMiss(Caller)>>
    /\ UNCHANGED <<content, source, loads, parse, walker, verdict>>

\* rule_xml_document has no handler at its end.
EndParse ==
    /\ Parsing /\ ~Going(Top) /\ Len(stack) = 1
    /\ verdict' = IF Matches(Top) THEN "xml_e_ok" ELSE "xml_e_dom_parsing"
    /\ stack' = <<>>
    /\ UNCHANGED <<content, source, loads, parse, walker>>
------------------------------------------------------------------------------
\* A caller asks for a file while no other is being parsed.  load_file neither
\* ends the text with a zero nor clears what was there.
Overwritten(s) == s \o SubSeq(content, Len(s) + 1, Len(content))

Opens(s) == loads' = loads + 1 /\ source' = s

\* parse is not touched: the parser is initialised once per process.
ReadFile(s) ==
    /\ Opens(s) /\ Len(s.text) < MAX_XML_FILE_SIZE
    /\ content' = Overwritten(s.text)
    /\ walker' = EmptyWalker
    /\ stack' = <<Call("rule_xml_document", 1)>>
    /\ verdict' = "parsing"
    /\ UNCHANGED parse

\* The reads stop after the one that goes past the end of the buffer.
TooLong(s) ==
    /\ Opens(s) /\ Len(s.text) > MAX_XML_FILE_SIZE
    /\ content' = Overwritten(SubSeq(s.text, 1, MAX_XML_FILE_SIZE))
    /\ verdict' = "xml_e_nomem"
    /\ walker' = EmptyWalker
    /\ UNCHANGED <<parse, stack>>

\* The file cannot be opened, or a read of it fails, after any number of chunks.
ReadFails(s) ==
    /\ Opens(s)
    /\ \/ /\ verdict' \in {"xml_e_no_file", "xml_e_nomem", "xml_e_file_read"}
          /\ UNCHANGED content
       \/ /\ \E n \in 0..MAX_XML_FILE_SIZE :
                /\ n = Len(s.text) \/ (n < Len(s.text) /\ n % Chunk = 0)
                /\ content' = Overwritten(SubSeq(s.text, 1, n))
          /\ verdict' = "xml_e_file_read"
    /\ walker' = EmptyWalker
    /\ UNCHANGED <<parse, stack>>

Init ==
    /\ content = <<>>
    /\ source = [text |-> <<>>, nodes |-> <<>>, whole |-> FALSE, plain |-> FALSE]
    /\ loads = 0
    /\ parse = NewParse
    /\ walker = EmptyWalker
    /\ stack = <<>>
    /\ verdict = "none"

Step == ReadToken \/ EnterChoice \/ LineMatches \/ LineMisses \/ EndParse

Next ==
    \/ Step
    \/ /\ ~Parsing /\ loads < Len(Sources)
       /\ \E s \in Sources[loads + 1] : ReadFile(s) \/ TooLong(s) \/ ReadFails(s)

Spec == Init /\ [][Next]_vars
FairSpec == Spec /\ WF_vars(Step)
------------------------------------------------------------------------------
(* Properties. *)

\* No handler follows a null pointer, whatever else the file holds as long as its
\* names fit the strings of a tag (set_tag_name, egram_xml.c:52, does not look):
\* character data and ends of tags come while an element is open
\* (parser_egram.c:74,95), and a tag that is started has a name (xml_strdup of
\* new_node).
NoNullIsFollowed == ~walker.fault

\* Whatever the parser has seen, right or wrong, the nodes hang together: a
\* failed alternative leaves nodes behind but no broken link (node_add_child).
DomIsATree == LinkedAsATree(walker)

Content(node) == [name |-> node.name, attrs |-> node.attrs,
                  data |-> node.data, parent |-> node.parent]

\* The attributes of a tag whose strings fit, up to the first that does not:
\* what the name and the first k attributes take.
TagBytes(node) ==
    LET bytes[k \in 0..Len(node.attrs)] ==
            IF k = 0 THEN Len(node.name) + 1
            ELSE bytes[k - 1] + Len(node.attrs[k].name) + Len(node.attrs[k].value) + 2
    IN  bytes
Kept(node) ==
    LET n == Max({k \in 0..Len(node.attrs) : TagBytes(node)[k] <= MAX_TAG_BUFFER})
    IN  [node EXCEPT !.attrs = SubSeq(@, 1, n)]

\* A whole document is accepted and its tree is the document's: every element
\* once, in order, under its parent, with its own attributes (as many as the tag
\* buffer holds) and its text, whatever file came before and whatever it left
\* in the static buffer and parser (the do_tag_reset of egram_xml.c and the end
\* of rule_xml_document after one root see to that).
WellFormedIsParsed ==
    verdict \in {"xml_e_ok", "xml_e_dom_parsing"} /\ source.whole =>
        /\ verdict = "xml_e_ok"
        /\ Len(walker.nodes) = Len(source.nodes)
        /\ \A i \in DOMAIN walker.nodes : Content(walker.nodes[i]) = Kept(source.nodes[i])

\* A file that ends early or holds what the grammar has no symbol for may be
\* accepted, but nothing in its tree is wrong: each node is the document's, with
\* all its attributes and no more than its text.  Without a leading comment,
\* which accepts any root, and without the rest of a longer file behind it.
AcceptedIsAPart ==
    verdict = "xml_e_ok" /\ source.plain /\ content = source.text =>
        /\ Len(walker.nodes) <= Len(source.nodes)
        /\ \A i \in DOMAIN walker.nodes :
              LET seen == walker.nodes[i]
                  meant == Kept(source.nodes[i])
              IN  /\ seen.name = meant.name /\ seen.attrs = meant.attrs
                  /\ seen.parent = meant.parent /\ IsPrefix(seen.data, meant.data)

\* Every parse ends, with a verdict: no repeated symbol matches for ever, and
\* every failed choice is given up (process_line loops while it matches).
ParsingEnds == Parsing ~> ~Parsing
==============================================================================

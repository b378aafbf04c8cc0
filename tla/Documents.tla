------------------------------ MODULE Documents ------------------------------
(***************************************************************************)
(* What a whole document is, without a parser: pieces in an order that is  *)
(* allowed.  A reading of the pieces says, after each of them, what text   *)
(* there is and which elements it means; it goes over the pieces once and  *)
(* takes nothing back, as the parser of Egram does.                        *)
(***************************************************************************)
EXTENDS Egram

Gap(n) == [i \in 1..n |-> Space]

\* The text of a piece.  Between "tag" and "open" (or "empty") there may be
\* attributes; the name that closes an element may be any: the parser does not
\* compare it.
TextOf(p) ==
    CASE p.k = "header" -> <<"<", "?", "xml">>
      [] p.k = "header_end" -> Gap(p.gap) \o <<"?", ">">>
      [] p.k = "comment" -> <<"<", "!", "-", "-">> \o p.s \o <<"-", "-", ">">>
      [] p.k = "tag" -> <<"<">> \o p.name
      [] p.k = "attr" -> Gap(p.gap) \o p.name \o <<"=", Quote>> \o p.value \o <<Quote>>
      [] p.k = "open" -> Gap(p.gap) \o <<">">>
      [] p.k = "empty" -> Gap(p.gap) \o <<"/", ">">>
      [] p.k = "text" -> p.s
      [] p.k = "close" -> <<"<", "/">> \o p.name \o <<">">>

\* Where a reading is: it has read nothing (start), or is in the header, before
\* the root (prolog), in a tag, in an element (content), there right after a
\* text (said), or behind the root (end).  path: the elements that are open, the
\* root first; tag: the name and the attributes of the tag being read.
Begun == [text |-> <<>>, at |-> "start", tag |-> [name |-> <<>>, attrs |-> <<>>],
          nodes |-> <<>>, path |-> <<>>]

\* What a token takes is as long as its buffer at most.
IsName(s) == s \in Seq(Words) /\ s # <<>> /\ s # Null /\ Len(s) <= MAX_TOKEN_LEN
IsString(s) == s \in Seq(Range(s)) /\ s # Null /\ Len(s) <= MAX_TOKEN_LEN

\* What may follow what.  A text goes on to the next piece, a blank one may come
\* before the root; a comment has no two dashes in a row.
Allowed(m, p) ==
    CASE p.k = "header" -> m.at = "start"
      [] p.k = "header_end" -> m.at = "header" /\ p.gap \in Nat
      [] p.k = "comment" ->
            /\ m.at \in {"start", "prolog", "content", "said"}
            /\ IsString(p.s)
            /\ \A i \in DOMAIN p.s : p.s[i] = "-" => i < Len(p.s) /\ p.s[i + 1] # "-"
      [] p.k = "tag" ->
            /\ m.at \in {"start", "prolog", "content", "said"}
            /\ IsName(p.name) /\ Len(p.name) + 1 <= MAX_TAG_BUFFER
      [] p.k = "attr" ->
            /\ m.at \in {"header", "tag"} /\ Len(m.tag.attrs) + 1 < MAX_ATTRS
            /\ p.gap \in Nat \ {0}
            /\ IsName(p.name) /\ IsString(p.value) /\ Quote \notin Range(p.value)
      [] p.k \in {"open", "empty"} -> m.at = "tag" /\ p.gap \in Nat
      [] p.k = "text" ->
            /\ m.at = "content" \/ (m.at \in {"start", "prolog"} /\ Blank(p.s))
            /\ IsString(p.s) /\ p.s # <<>> /\ Range(p.s) \cap {"<", "&"} = {}
      [] p.k = "close" -> m.at \in {"content", "said"} /\ IsName(p.name)
      [] OTHER -> FALSE

Element(m) == [name |-> m.tag.name, attrs |-> m.tag.attrs, data |-> <<>>,
               parent |-> IF m.path = <<>> THEN NoNode ELSE Last(m.path)]

TagAfter(m, p) ==
    CASE p.k = "tag" -> [name |-> p.name, attrs |-> <<>>]
      [] p.k = "attr" ->
            [m.tag EXCEPT !.attrs = Append(@, [name |-> p.name, value |-> p.value])]
      [] OTHER -> m.tag

NodesAfter(m, p) ==
    CASE p.k \in {"open", "empty"} -> Append(m.nodes, Element(m))
      [] p.k = "text" /\ ~Blank(p.s) -> [m.nodes EXCEPT ![Last(m.path)].data = @ \o p.s]
      [] OTHER -> m.nodes

PathAfter(m, p) ==
    CASE p.k = "open" -> Append(m.path, Len(m.nodes) + 1)
      [] p.k = "close" -> Front(m.path)
      [] OTHER -> m.path

Outside(m, p) == PathAfter(m, p) = <<>>
AtAfter(m, p) ==
    CASE p.k \in {"header", "tag"} -> p.k
      [] p.k = "attr" -> m.at
      [] p.k \in {"empty", "close"} /\ Outside(m, p) -> "end"
      [] p.k \in {"header_end", "comment", "text"} /\ Outside(m, p) -> "prolog"
      [] p.k = "text" /\ ~Outside(m, p) -> "said"
      [] OTHER -> "content"

After(m, p) == [text |-> m.text \o TextOf(p), at |-> AtAfter(m, p), tag |-> TagAfter(m, p),
                nodes |-> NodesAfter(m, p), path |-> PathAfter(m, p)]

\* m[k] is the reading of the first k of n pieces.
IsReading(ps, n, m) ==
    /\ m[0] = Begun
    /\ \A k \in 1..n : Allowed(m[k - 1], ps[k]) /\ m[k] = After(m[k - 1], ps[k])
    /\ m[n].at = "end"

\* What follows the root, a line break or whatever, is not read.
IsDocument(text, nodes) ==
    \E n \in Nat : \E ps, m, rest :
        /\ IsReading(ps, n, m) /\ m[n].nodes = nodes
        /\ rest \in Seq(Range(rest)) /\ text = m[n].text \o rest

WholeAreDocuments ==
    \A k \in DOMAIN Sources : \A s \in Sources[k] : s.whole => IsDocument(s.text, s.nodes)
==============================================================================

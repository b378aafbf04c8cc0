-------------------------------- MODULE MCXml --------------------------------
(***************************************************************************)
(* Documents for Egram.  A document is written as the sequence of its      *)
(* pieces; the elements it has follow from the pieces, and so does its     *)
(* text.  Files are whole documents, documents cut off anywhere, and       *)
(* documents with a character the grammar has no symbol for.               *)
(***************************************************************************)
EXTENDS Documents

Names == {"a", "b", "x", "y", "v", "w", "t", "xml"}

Open(name, attrs) == [k |-> "open", name |-> <<name>>, attrs |-> attrs]
Empty(name, attrs) == [k |-> "empty", name |-> <<name>>, attrs |-> attrs]
Close == [k |-> "close"]
Text(s) == [k |-> "text", s |-> s]
Comment(s) == [k |-> "comment", s |-> s]
Header == [k |-> "header"]
Attr(n, v) == [name |-> <<n>>, value |-> v]

Short == <<Attr("x", <<"v">>)>>
Long == <<Attr("x", <<"v">>), Attr("y", <<"v", " ", "w", ">">>), Attr("y", <<>>)>>

\* How deep the pieces are nested after the first k of them.
Depth(ps, k) ==
    Cardinality({i \in 1..k : ps[i].k = "open"}) - Cardinality({i \in 1..k : ps[i].k = "close"})
Nested(ps) ==
    /\ \A k \in 1..(Len(ps) - 1) : Depth(ps, k) > 0
    /\ Depth(ps, Len(ps)) = 0

\* The opening piece of the element that piece i is in.
Around(ps, i) ==
    LET opens == {j \in 1..(i - 1) : ps[j].k = "open" /\ Depth(ps, j - 1) < Depth(ps, i - 1)
                                      /\ \A m \in j..(i - 1) : Depth(ps, m) >= Depth(ps, i - 1)}
    IN  IF opens = {} THEN 0 ELSE Max(opens)

IsElement(p) == p.k \in {"open", "empty"}
NumberOf(ps, j) == Cardinality({i \in 1..j : IsElement(ps[i])})

Elements(ps) ==
    LET places == SetToSortSeq({i \in DOMAIN ps : IsElement(ps[i])}, <)
        texts(j) == SelectSeq([i \in 1..Len(ps) |->
                        IF ps[i].k = "text" /\ Around(ps, i) = j /\ ~Blank(ps[i].s)
                        THEN ps[i].s ELSE <<>>], LAMBDA s : s # <<>>)
    IN  [n \in DOMAIN places |->
            [name |-> ps[places[n]].name, attrs |-> ps[places[n]].attrs,
             data |-> IF ps[places[n]].k = "open" THEN FlattenSeq(texts(places[n])) ELSE <<>>,
             parent |-> LET a == Around(ps, places[n])
                        IN  IF a = 0 THEN 0 ELSE NumberOf(ps, a)]]

AttrsText(attrs) ==
    FlattenSeq([i \in DOMAIN attrs |->
        <<" ">> \o attrs[i].name \o <<"=", "\"">> \o attrs[i].value \o <<"\"">>])

Written(ps, i) ==
    CASE ps[i].k = "open" -> <<"<">> \o ps[i].name \o AttrsText(ps[i].attrs) \o <<">">>
      [] ps[i].k = "empty" -> <<"<">> \o ps[i].name \o AttrsText(ps[i].attrs) \o <<" ", "/", ">">>
      [] ps[i].k = "close" -> <<"<", "/">> \o ps[Around(ps, i)].name \o <<">">>
      [] ps[i].k = "text" -> ps[i].s
      [] ps[i].k = "comment" -> <<"<", "!", "-", "-">> \o ps[i].s \o <<"-", "-", ">">>
      [] ps[i].k = "header" -> <<"<", "?", "xml">> \o AttrsText(Short) \o <<"?", ">">>

FileOf(prolog, ps) ==
    [text |-> FlattenSeq([i \in DOMAIN prolog |-> Written(prolog, i)])
                \o FlattenSeq([i \in DOMAIN ps |-> Written(ps, i)])
                \o (IF prolog = <<>> THEN <<>> ELSE <<" ">>),
     nodes |-> Elements(ps),
     whole |-> \A i \in DOMAIN ps : ps[i].k = "text" => "&" \notin Range(ps[i].s),
     plain |-> \A i \in DOMAIN prolog : prolog[i].k # "comment"]

\* The same pieces, as Documents has them.
AttrPieces(attrs) ==
    [i \in DOMAIN attrs |-> [k |-> "attr", gap |-> 1, name |-> attrs[i].name, value |-> attrs[i].value]]
Parts(ps, i) ==
    CASE ps[i].k = "open" -> <<[k |-> "tag", name |-> ps[i].name]>> \o AttrPieces(ps[i].attrs)
                                \o <<[k |-> "open", gap |-> 0]>>
      [] ps[i].k = "empty" -> <<[k |-> "tag", name |-> ps[i].name]>> \o AttrPieces(ps[i].attrs)
                                \o <<[k |-> "empty", gap |-> 1]>>
      [] ps[i].k = "close" -> <<[k |-> "close", name |-> ps[Around(ps, i)].name]>>
      [] ps[i].k = "header" -> <<[k |-> "header"]>> \o AttrPieces(Short)
                                \o <<[k |-> "header_end", gap |-> 0]>>
      [] OTHER -> <<ps[i]>>
PartsOf(prolog, ps) == FlattenSeq([i \in DOMAIN prolog |-> Parts(prolog, i)])
                          \o FlattenSeq([i \in DOMAIN ps |-> Parts(ps, i)])

\* Every document here is one of Documents, and what Documents takes it to mean,
\* piece by piece, is what Elements says.
IsReadAs(f, parts) ==
    LET m[k \in 0..Len(parts)] == IF k = 0 THEN Begun ELSE After(m[k - 1], parts[k])
        n == Len(parts)
    IN  IsReading(parts, n, m) /\ IsPrefix(m[n].text, f.text) /\ m[n].nodes = f.nodes

CutOff(f) == {[f EXCEPT !.text = SubSeq(@, 1, n), !.whole = FALSE] : n \in 0..(Len(f.text) - 1)}

Prologs == {<<>>, <<Header>>, <<Header, Text(<<" ">>), Comment(<<"<", "a", ">", "-", "t">>)>>}

Cut == {<<Open("b", Short), Text(<<" ", "t">>), Close>>,
        <<Empty("b", <<>>), Open("b", <<>>), Comment(<<"-", "t">>), Text(<<"t">>), Close>>}

\* Documents of at most Pieces pieces under one root, a text in one piece.
CONSTANT Pieces
PieceSet == {Open("b", <<>>), Close, Empty("b", Short), Text(<<" ", "t">>), Text(<<" ">>),
             Comment(<<"-", "t">>), Text(<<"&">>)}
InOnePiece(ps) ==
    \A i \in 2..Len(ps) : ps[i].k = "text" /\ ps[i - 1].k = "text" => ps[i].s = <<"&">>
Roots == {Open("a", <<>>), Open("a", Long)}
Bodies == {ps \in UNION {[1..n -> PieceSet] : n \in 0..Pieces} :
              InOnePiece(ps) /\ Nested(<<Open("a", <<>>)>> \o ps \o <<Close>>)}
Documents == {FileOf(pr, <<r>> \o ps \o <<Close>>) : pr \in Prologs, r \in Roots, ps \in Bodies}

ASSUME WholeDocumentsAreRead ==
    \A pr \in Prologs, r \in Roots, ps \in Bodies :
        LET f == FileOf(pr, <<r>> \o ps \o <<Close>>)
        IN  f.whole => IsReadAs(f, PartsOf(pr, <<r>> \o ps \o <<Close>>))

\* A value that the buffer of a token does not hold.
TooLongAValue ==
    [FileOf(<<>>, <<Empty("a", <<Attr("x", [i \in 1..MAX_TOKEN_LEN + 1 |-> "v"])>>)>>)
         EXCEPT !.whole = FALSE]

Whole == {f \in Documents : f.whole}
Damaged == (Documents \ Whole) \cup UNION {CutOff(f) : f \in
               {FileOf(pr, <<Open("a", Short)>> \o ps \o <<Close>>) : pr \in Prologs, ps \in Cut}}
           \cup {TooLongAValue}

Earlier == {FileOf(<<Header>>, <<Open("a", Long), Empty("b", Short), Close>>),
            FileOf(<<>>, <<Open("a", Short), Open("b", Short), Text(<<"&">>), Close, Close>>)}

TwoFiles == <<Earlier, Whole \cup Damaged>>
==============================================================================

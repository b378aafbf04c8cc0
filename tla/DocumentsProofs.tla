--------------------------- MODULE DocumentsProofs ---------------------------
(***************************************************************************)
(* A whole document is read as what it means, whichever document it is,    *)
(* whatever files came before and however they ended (WholeIsParsed).      *)
(*                                                                         *)
(* The argument: on a whole document every step of process_line is the     *)
(* only one there is (Only, Reaches), so what it comes to can be followed  *)
(* without time, piece by piece: a zone says where the parser is between   *)
(* two pieces (Before, InHeader, InATag, InText, InMarkup, Behind), and    *)
(* each piece leads from the zone of the reading before it to the zone of  *)
(* the reading after it (PieceIsRead).  Beside the zones go what the       *)
(* walker has built (Follows) and what is in the slots of the tag (TagIs). *)
(***************************************************************************)
EXTENDS Documents, EgramProofs

------------------------------------------------------------------------------
(* What follows what.  A config is what one step of process_line changes.  *)

Config(st, c, w) == [stack |-> st, parse |-> c, walker |-> w]
Here == Config(stack, parse, walker)

\* b is all that a step can make of a.
OnlyRead(a, b) ==
    LET f == Last(a.stack)
        below == Front(a.stack)
        h == SymbolOf(f).h
    IN  /\ Going(f) /\ SymbolOf(f).term
        /\ LET r == read_token(SymbolOf(f).token, f.pos) IN
           /\ r.hit => b = Config(Append(below, AfterMatch(f, f.pos + r.n)),
                                  Parsed(a.parse, h, r.value),
                                  Walked(a.walker, Parsed(a.parse, h, r.value), h, r.value))
           /\ ~r.hit => b = Config(Append(below, AfterMiss(f)), a.parse, a.walker)
OnlyEnter(a, b) ==
    LET f == Last(a.stack)
    IN  /\ Going(f) /\ ~SymbolOf(f).term
        /\ b = Config(Front(a.stack) \o <<[f EXCEPT !.alt = 1],
                                          Call(SymbolOf(f).elems[1], f.pos)>>,
                      a.parse, a.walker)
OnlyMatch(a, b) ==
    LET f == Last(a.stack)
        g == Last(Front(a.stack))
        h == IF AtEnd(f) THEN AtEndOf(f.line) ELSE "none"
    IN  /\ ~Going(f) /\ Matches(f) /\ Len(a.stack) \in Nat /\ Len(a.stack) > 1
        /\ b = Config(Append(Front(Front(a.stack)), AfterMatch(g, f.pos)),
                      Parsed(a.parse, h, <<>>), Walked(a.walker, Parsed(a.parse, h, <<>>), h, <<>>))
OnlyMiss(a, b) ==
    LET f == Last(a.stack)
        g == Last(Front(a.stack))
        elems == SymbolOf(g).elems
        n == g.alt + 1
    IN  /\ ~Going(f) /\ ~Matches(f) /\ Len(a.stack) \in Nat /\ Len(a.stack) > 1
        /\ b = Config(Front(Front(a.stack)) \o
                          IF n <= Len(elems)
                          THEN <<[g EXCEPT !.alt = n], Call(elems[n], g.pos)>>
                          ELSE <<AfterMiss(g)>>,
                      a.parse, a.walker)
Only(a, b) == OnlyRead(a, b) \/ OnlyEnter(a, b) \/ OnlyMatch(a, b) \/ OnlyMiss(a, b)

LEMMA OnlyStays ==
    ASSUME content' = content
    PROVE  \A a, b : Only(a, b) => Only(a, b)'
<1> SUFFICES ASSUME NEW a, NEW b
             PROVE  Only(a, b) => Only(a, b)'
  OBVIOUS
<1>1. \A f : Going(f)' <=> Going(f)
  BY DEF Going
<1>2. \A token, p : read_token(token, p)' = read_token(token, p)
  BY DEF read_token, read_token_const, read_any_but, read_token_alphanum, read_token_whitespace,
         read_attr_val, RunLength
<1>3. OnlyRead(a, b) => OnlyRead(a, b)'
  BY <1>1, <1>2 DEF OnlyRead
<1>4. OnlyEnter(a, b) => OnlyEnter(a, b)'
  BY <1>1 DEF OnlyEnter
<1>5. OnlyMatch(a, b) => OnlyMatch(a, b)'
  BY <1>1 DEF OnlyMatch
<1>6. OnlyMiss(a, b) => OnlyMiss(a, b)'
  BY <1>1 DEF OnlyMiss
<1> QED BY <1>3, <1>4, <1>5, <1>6 DEF Only

\* Which step it is follows from the call on top.
LEMMA StepKind ==
    ASSUME Step, Len(stack) \in Nat
    PROVE  /\ Going(Top) /\ SymbolOf(Top).term => ReadToken
           /\ Going(Top) /\ ~SymbolOf(Top).term => EnterChoice
           /\ ~Going(Top) /\ Len(stack) > 1 /\ Matches(Top) => LineMatches
           /\ ~Going(Top) /\ Len(stack) > 1 /\ ~Matches(Top) => LineMisses
           /\ ~Going(Top) /\ Len(stack) = 1 => EndParse
<1>1. ReadToken => Going(Top) /\ SymbolOf(Top).term
  BY DEF ReadToken
<1>2. EnterChoice => Going(Top) /\ ~SymbolOf(Top).term
  BY DEF EnterChoice
<1>3. LineMatches => ~Going(Top) /\ Len(stack) > 1 /\ Matches(Top)
  BY DEF LineMatches
<1>4. LineMisses => ~Going(Top) /\ Len(stack) > 1 /\ ~Matches(Top)
  BY DEF LineMisses
<1>5. EndParse => ~Going(Top) /\ Len(stack) = 1
  BY DEF EndParse
<1>6. ~(Len(stack) > 1 /\ Len(stack) = 1)
  OBVIOUS
<1> QED BY <1>1, <1>2, <1>3, <1>4, <1>5, <1>6 DEF Step

LEMMA OnlyStep ==
    ASSUME NEW b, Only(Here, b), Step, Len(stack) \in Nat
    PROVE  Here' = b /\ UNCHANGED <<content, source, verdict>>
<1>1. Here.stack = stack /\ Here.parse = parse /\ Here.walker = walker
  BY DEF Here, Config
<1>2. CASE OnlyRead(Here, b)
  <2>1. Going(Top) /\ SymbolOf(Top).term
    BY <1>1, <1>2 DEF OnlyRead, Top
  <2> DEFINE r == read_token(SymbolOf(Top).token, Top.pos)
             h == SymbolOf(Top).h
  <2>2. /\ r.hit => b = Config(Append(Below, AfterMatch(Top, Top.pos + r.n)),
                               Parsed(parse, h, r.value),
                               Walked(walker, Parsed(parse, h, r.value), h, r.value))
        /\ ~r.hit => b = Config(Append(Below, AfterMiss(Top)), parse, walker)
    BY <1>1, <1>2 DEF OnlyRead, Top, Below
  <2>3. ReadToken
    BY <2>1, StepKind
  <2>4. \/ /\ r.hit
           /\ Handle(h, r.value)
           /\ stack' = Append(Below, AfterMatch(Top, Top.pos + r.n))
        \/ /\ ~r.hit
           /\ stack' = Append(Below, AfterMiss(Top))
           /\ UNCHANGED <<parse, walker>>
    BY <2>3 DEF ReadToken
  <2>6. Here' = Config(stack', parse', walker')
    BY DEF Here, Config
  <2>7. UNCHANGED <<content, source, verdict>>
    BY <2>3 DEF ReadToken
  <2>8. CASE r.hit
    BY <2>2, <2>4, <2>6, <2>7, <2>8 DEF Handle
  <2>9. CASE ~r.hit
    BY <2>2, <2>4, <2>6, <2>7, <2>9
  <2> QED BY <2>8, <2>9
<1>3. CASE OnlyEnter(Here, b)
  <2>1. Going(Top) /\ ~SymbolOf(Top).term
    BY <1>1, <1>3 DEF OnlyEnter, Top
  <2>2. EnterChoice
    BY <2>1, StepKind
  <2>3. b = Config(Below \o <<[Top EXCEPT !.alt = 1], Call(SymbolOf(Top).elems[1], Top.pos)>>,
                   parse, walker)
    BY <1>1, <1>3 DEF OnlyEnter, Top, Below
  <2>5. Here' = Config(stack', parse', walker')
    BY DEF Here, Config
  <2> QED BY <2>2, <2>3, <2>5 DEF EnterChoice
<1>4. CASE OnlyMatch(Here, b)
  <2>1. ~Going(Top) /\ Matches(Top) /\ Len(stack) > 1
    BY <1>1, <1>4 DEF OnlyMatch, Top
  <2>2. LineMatches
    BY <2>1, StepKind
  <2> DEFINE h == IF AtEnd(Top) THEN AtEndOf(Top.line) ELSE "none"
  <2>3. b = Config(Append(Front(Below), AfterMatch(Caller, Top.pos)), Parsed(parse, h, <<>>),
                   Walked(walker, Parsed(parse, h, <<>>), h, <<>>))
    BY <1>1, <1>4 DEF OnlyMatch, Top, Below, Caller
  <2>4. Handle(h, <<>>) /\ stack' = Append(Front(Below), AfterMatch(Caller, Top.pos))
        /\ UNCHANGED <<content, source, loads, verdict>>
    BY <2>2 DEF LineMatches
  <2>5. Here' = Config(stack', parse', walker')
    BY DEF Here, Config
  <2> QED BY <2>3, <2>4, <2>5 DEF Handle
<1>5. CASE OnlyMiss(Here, b)
  <2>1. ~Going(Top) /\ ~Matches(Top) /\ Len(stack) > 1
    BY <1>1, <1>5 DEF OnlyMiss, Top
  <2>2. LineMisses
    BY <2>1, StepKind
  <2>3. b = Config(Front(Below) \o
                          IF Caller.alt + 1 <= Len(SymbolOf(Caller).elems)
                          THEN <<[Caller EXCEPT !.alt = Caller.alt + 1],
                                 Call(SymbolOf(Caller).elems[Caller.alt + 1], Caller.pos)>>
                          ELSE <<AfterMiss(Caller)>>,
                      parse, walker)
    BY <1>1, <1>5 DEF OnlyMiss, Top, Below, Caller
  <2>5. Here' = Config(stack', parse', walker')
    BY DEF Here, Config
  <2> QED BY <2>2, <2>3, <2>5 DEF LineMisses
<1> QED BY <1>2, <1>3, <1>4, <1>5 DEF Only

\* A way from a to b on which every step is the only one.
IsWay(tr, n, a, b) ==
    /\ tr[0] = a /\ tr[n] = b
    /\ \A i \in 0..n - 1 : Only(tr[i], tr[i + 1])
Reaches(a, b) == \E n \in Nat : \E tr : IsWay(tr, n, a, b)

LEMMA ReachesSelf == ASSUME NEW a PROVE Reaches(a, a)
<1> DEFINE tr == [i \in 0..0 |-> a]
<1>1. tr[0] = a /\ 0..0 - 1 = {}
  OBVIOUS
<1> HIDE DEF tr
<1>2. IsWay(tr, 0, a, a)
  BY <1>1 DEF IsWay
<1> QED BY <1>2 DEF Reaches

LEMMA ReachesOn ==
    ASSUME NEW a, NEW b, NEW c, Reaches(a, b), Only(b, c)
    PROVE  Reaches(a, c)
<1>1. PICK n \in Nat : \E tr : IsWay(tr, n, a, b)
  BY DEF Reaches
<1>2. PICK tr : IsWay(tr, n, a, b)
  BY <1>1
<1> DEFINE u == [i \in 0..n + 1 |-> IF i <= n THEN tr[i] ELSE c]
<1>3. /\ u[n + 1] = c /\ u[0] = tr[0] /\ u[n] = tr[n]
      /\ \A i \in 0..n - 1 : u[i] = tr[i] /\ u[i + 1] = tr[i + 1]
      /\ \A i \in 0..n : i \in 0..n - 1 \/ i = n
  OBVIOUS
<1>4. n + 1 - 1 = n /\ n + 1 \in Nat
  OBVIOUS
<1> HIDE DEF u
<1>5. \A i \in 0..n : Only(u[i], u[i + 1])
  BY <1>2, <1>3 DEF IsWay
<1>6. IsWay(u, n + 1, a, c)
  BY <1>2, <1>3, <1>4, <1>5 DEF IsWay
<1> QED BY <1>4, <1>6 DEF Reaches

LEMMA ReachesFirst ==
    ASSUME NEW a, NEW b, Reaches(a, b), a # b
    PROVE  \E c : Only(a, c) /\ Reaches(c, b)
<1>1. PICK n \in Nat : \E tr : IsWay(tr, n, a, b)
  BY DEF Reaches
<1>2. PICK tr : IsWay(tr, n, a, b)
  BY <1>1
<1>3. n # 0
  BY <1>2 DEF IsWay
<1> DEFINE u == [i \in 0..n - 1 |-> tr[i + 1]]
<1>4. /\ n - 1 \in Nat /\ 0 \in 0..n - 1 /\ 0 + 1 = 1
      /\ u[0] = tr[1] /\ u[n - 1] = tr[n]
      /\ \A i \in 0..n - 1 - 1 : /\ u[i] = tr[i + 1] /\ u[i + 1] = tr[i + 1 + 1]
                                 /\ i + 1 \in 0..n - 1
  BY <1>3
<1> HIDE DEF u
<1>5. IsWay(u, n - 1, tr[1], b)
  BY <1>2, <1>4 DEF IsWay
<1>6. Only(a, tr[1])
  BY <1>2, <1>4 DEF IsWay
<1> QED BY <1>4, <1>5, <1>6 DEF Reaches

LEMMA ReachesStays ==
    ASSUME content' = content, NEW a, NEW b, Reaches(a, b)
    PROVE  Reaches(a, b)'
<1>1. PICK n \in Nat : \E tr : IsWay(tr, n, a, b)
  BY DEF Reaches
<1>2. PICK tr : IsWay(tr, n, a, b)
  BY <1>1
<1>3. \A x, y : Only(x, y) => Only(x, y)'
  BY OnlyStays
<1>4. IsWay(tr, n, a, b)'
  BY <1>2, <1>3 DEF IsWay
<1> QED BY <1>4 DEF Reaches

------------------------------------------------------------------------------
(* The steps, by what the symbol of the call on top is.                    *)

\* A call that can still match, and a config with it on top.  hit and some are
\* "yes" or "no".
At(line, i, alt, p, hit, some) ==
    [line |-> line, i |-> i, alt |-> alt, pos |-> p, hit |-> (hit = "yes"),
     some |-> (some = "yes"), dead |-> FALSE]
On(st, f, c, w) == Config(Append(st, f), c, w)

LEMMA CallAt == ASSUME NEW line, NEW p PROVE Call(line, p) = At(line, 1, 0, p, "no", "no")
  BY DEF Call, At

LEMMA OnFacts ==
    ASSUME NEW st, IsSeq(st), NEW f, NEW c, NEW w
    PROVE  LET a == On(st, f, c, w)
           IN  /\ a.parse = c /\ a.walker = w
               /\ Last(a.stack) = f /\ Front(a.stack) = st
               /\ Len(a.stack) = Len(st) + 1 /\ Len(st) \in Nat
<1>1. PICK T : st \in Seq(T)
  BY DEF IsSeq
<1>2. st \in Seq(T \cup {f}) /\ f \in T \cup {f}
  BY <1>1
<1> DEFINE s == Append(st, f)
<1>3. Len(st) \in Nat /\ Len(s) = Len(st) + 1 /\ s[Len(s)] = f /\ s \in Seq(T \cup {f})
  BY <1>2
<1>4. Last(s) = f
  BY <1>3 DEF Last
<1>5. Front(s) = st
  <2> HIDE DEF s
  <2>1. IsSeq(s) /\ Len(s) > 0
    BY <1>3 DEF IsSeq
  <2>2. Agrees(Front(s), Len(s) - 1, s, Len(s) - 1)
    BY <2>1, FrontFacts
  <2>3. IsSeq(Front(s)) /\ Len(Front(s)) = Len(st) /\ \A k \in 1..Len(st) : Front(s)[k] = s[k]
    BY <1>3, <2>2 DEF Agrees
  <2>4. \A k \in 1..Len(st) : s[k] = st[k]
    BY <1>2 DEF s
  <2>5. PICK U : Front(s) \in Seq(U)
    BY <2>3 DEF IsSeq
  <2> QED BY <2>3, <2>4, <2>5, <1>1
<1>6. On(st, f, c, w).stack = s /\ On(st, f, c, w).parse = c /\ On(st, f, c, w).walker = w
  BY DEF On, Config
<1> HIDE DEF s
<1> QED BY <1>3, <1>4, <1>5, <1>6

IsCall(line, i) == Len(Lines[line]) \in Nat /\ i \in 1..Len(Lines[line])

LEMMA AtGoes ==
    ASSUME NEW line, NEW i, IsCall(line, i), NEW alt, NEW p \in Nat, p <= Len(content),
           NEW hit, NEW some
    PROVE  Going(At(line, i, alt, p, hit, some))
<1>1. ~(i > Len(Lines[line]))
  BY DEF IsCall
<1> DEFINE f == At(line, i, alt, p, hit, some)
<1>2. f.line = line /\ f.i = i /\ f.pos = p /\ f.dead = FALSE
  BY DEF At
<1> HIDE DEF f
<1>3. Going(f)
  BY <1>1, <1>2 DEF Going, AtEnd
<1> QED BY <1>3 DEF f

\* What a symbol is: tried once or again and again, one that may be absent or
\* must be there; a token or a choice.
Single(line, i) == Lines[line][i].many = FALSE
Repeated(line, i) == Lines[line][i].many = TRUE
Optional(line, i) == Lines[line][i].optional = TRUE
Required(line, i) == Lines[line][i].optional = FALSE /\ Lines[line][i].many = FALSE
Token(line, i, t, h) ==
    LET s == Lines[line][i] IN s.term /\ s.token = t /\ s.h = h
Choice(line, i, elems) ==
    LET s == Lines[line][i] IN ~s.term /\ s.elems = elems /\ Len(elems) \in Nat

LEMMA AtMatched ==
    ASSUME NEW line, NEW i, NEW alt, NEW p, NEW hit, NEW some, NEW q
    PROVE  LET f == At(line, i, alt, p, hit, some)
           IN  /\ Single(line, i) => AfterMatch(f, q) = At(line, i + 1, 0, q, "yes", some)
               /\ Repeated(line, i) => AfterMatch(f, q) = At(line, i, 0, q, "yes", "yes")
<1> DEFINE f == At(line, i, alt, p, hit, some)
<1>1. SymbolOf(f) = Lines[line][i] /\ f.i = i /\ f.some = (some = "yes")
  BY DEF At, SymbolOf
<1>2. ASSUME Single(line, i) PROVE AfterMatch(f, q) = At(line, i + 1, 0, q, "yes", some)
  <2>1. AfterMatch(f, q) = [f EXCEPT !.pos = q, !.alt = 0, !.hit = TRUE, !.i = i + 1,
                                     !.some = (some = "yes")]
    BY <1>1, <1>2 DEF AfterMatch, Single
  <2> QED BY <2>1 DEF At
<1>3. ASSUME Repeated(line, i) PROVE AfterMatch(f, q) = At(line, i, 0, q, "yes", "yes")
  <2>1. AfterMatch(f, q) = [f EXCEPT !.pos = q, !.alt = 0, !.hit = TRUE, !.i = i, !.some = TRUE]
    BY <1>1, <1>3 DEF AfterMatch, Repeated
  <2> QED BY <2>1 DEF At
<1> QED BY <1>2, <1>3

LEMMA AtSkipped ==
    ASSUME NEW line, NEW i, NEW alt, NEW p, NEW hit, NEW some, Optional(line, i)
    PROVE  AfterMiss(At(line, i, alt, p, hit, some)) = At(line, i + 1, 0, p, "no", some)
<1> DEFINE f == At(line, i, alt, p, hit, some)
<1>1. SymbolOf(f) = Lines[line][i] /\ f.i = i /\ f.some = (some = "yes")
  BY DEF At, SymbolOf
<1>2. AfterMiss(f) = [f EXCEPT !.i = i + 1, !.alt = 0, !.hit = FALSE]
  BY <1>1 DEF AfterMiss, Optional
<1> QED BY <1>2 DEF At

\* A call that misses what it needs is dead.
Dead(f) == f.dead = TRUE /\ f.hit = FALSE /\ f.some = FALSE

LEMMA AtDead ==
    ASSUME NEW line, NEW i, NEW alt, NEW p, NEW hit, NEW some, Required(line, i)
    PROVE  Dead(AfterMiss(At(line, i, alt, p, hit, some)))
<1> DEFINE f == At(line, i, alt, p, hit, some)
<1>1. SymbolOf(f) = Lines[line][i] /\ f.i = i /\ f.some = (some = "yes")
  BY DEF At, SymbolOf
<1>2. AfterMiss(f) = [f EXCEPT !.dead = TRUE, !.alt = 0, !.hit = FALSE, !.some = FALSE]
  BY <1>1 DEF AfterMiss, Required
<1> QED BY <1>2 DEF At, Dead

\* A token that is there, in a symbol that is tried once
LEMMA TakeOnce ==
    ASSUME NEW a, NEW st, IsSeq(st), NEW line, NEW i, IsCall(line, i), NEW alt,
           NEW p \in Nat, p <= Len(content), NEW hit, NEW some, NEW c, NEW w,
           Reaches(a, On(st, At(line, i, alt, p, hit, some), c, w)),
           NEW t, NEW h, Token(line, i, t, h), Single(line, i), NEW n \in Nat, NEW v, read_token(t, p) = Hit(n, v)
    PROVE  Reaches(a, On(st, At(line, i + 1, 0, p + n, "yes", some),
                         Parsed(c, h, v), Walked(w, Parsed(c, h, v), h, v)))
<1> DEFINE f == At(line, i, alt, p, hit, some)
           b == On(st, f, c, w)
           r == Hit(n, v)
           g == At(line, i + 1, 0, p + n, "yes", some)
           d == On(st, g, Parsed(c, h, v), Walked(w, Parsed(c, h, v), h, v))
<1>1. Going(f) /\ SymbolOf(f) = Lines[line][i] /\ f.pos = p
  BY AtGoes DEF At, SymbolOf
<1>2. SymbolOf(f).term /\ SymbolOf(f).token = t /\ SymbolOf(f).h = h
      /\ AfterMatch(f, p + n) = g
  <2>1. SymbolOf(f).term /\ SymbolOf(f).token = t /\ SymbolOf(f).h = h
    BY <1>1 DEF Token
  <2>2. AfterMatch(f, p + n) = g
    BY AtMatched
  <2> QED BY <2>1, <2>2
<1>3. r.hit /\ r.n = n /\ r.value = v /\ read_token(SymbolOf(f).token, f.pos) = r
  BY <1>1, <1>2 DEF Hit
<1>4. b.parse = c /\ b.walker = w /\ Last(b.stack) = f /\ Front(b.stack) = st
  BY OnFacts
<1>5. Reaches(a, b)
  OBVIOUS
<1>6. d = Config(Append(st, AfterMatch(f, f.pos + r.n)), Parsed(c, h, r.value),
                 Walked(w, Parsed(c, h, r.value), h, r.value))
  BY <1>1, <1>2, <1>3 DEF On
<1> HIDE DEF f, b, r, g, d
<1>7. OnlyRead(b, d)
  BY <1>1, <1>2, <1>3, <1>4, <1>6 DEF OnlyRead
<1>8. Reaches(a, d)
  BY <1>5, <1>7, ReachesOn DEF Only
<1> QED BY <1>8 DEF d, g

\* or as often as it is there.
LEMMA TakeAgain ==
    ASSUME NEW a, NEW st, IsSeq(st), NEW line, NEW i, IsCall(line, i), NEW alt,
           NEW p \in Nat, p <= Len(content), NEW hit, NEW some, NEW c, NEW w,
           Reaches(a, On(st, At(line, i, alt, p, hit, some), c, w)),
           NEW t, NEW h, Token(line, i, t, h), Repeated(line, i), NEW n \in Nat, NEW v, read_token(t, p) = Hit(n, v)
    PROVE  Reaches(a, On(st, At(line, i, 0, p + n, "yes", "yes"),
                         Parsed(c, h, v), Walked(w, Parsed(c, h, v), h, v)))
<1> DEFINE f == At(line, i, alt, p, hit, some)
           b == On(st, f, c, w)
           r == Hit(n, v)
           g == At(line, i, 0, p + n, "yes", "yes")
           d == On(st, g, Parsed(c, h, v), Walked(w, Parsed(c, h, v), h, v))
<1>1. Going(f) /\ SymbolOf(f) = Lines[line][i] /\ f.pos = p
  BY AtGoes DEF At, SymbolOf
<1>2. SymbolOf(f).term /\ SymbolOf(f).token = t /\ SymbolOf(f).h = h
      /\ AfterMatch(f, p + n) = g
  <2>1. SymbolOf(f).term /\ SymbolOf(f).token = t /\ SymbolOf(f).h = h
    BY <1>1 DEF Token
  <2>2. AfterMatch(f, p + n) = g
    BY AtMatched
  <2> QED BY <2>1, <2>2
<1>3. r.hit /\ r.n = n /\ r.value = v /\ read_token(SymbolOf(f).token, f.pos) = r
  BY <1>1, <1>2 DEF Hit
<1>4. b.parse = c /\ b.walker = w /\ Last(b.stack) = f /\ Front(b.stack) = st
  BY OnFacts
<1>5. Reaches(a, b)
  OBVIOUS
<1>6. d = Config(Append(st, AfterMatch(f, f.pos + r.n)), Parsed(c, h, r.value),
                 Walked(w, Parsed(c, h, r.value), h, r.value))
  BY <1>1, <1>2, <1>3 DEF On
<1> HIDE DEF f, b, r, g, d
<1>7. OnlyRead(b, d)
  BY <1>1, <1>2, <1>3, <1>4, <1>6 DEF OnlyRead
<1>8. Reaches(a, d)
  BY <1>5, <1>7, ReachesOn DEF Only
<1> QED BY <1>8 DEF d, g

\* A token that is not there, in a symbol that may be absent
LEMMA SkipToken ==
    ASSUME NEW a, NEW st, IsSeq(st), NEW line, NEW i, IsCall(line, i), NEW alt,
           NEW p \in Nat, p <= Len(content), NEW hit, NEW some, NEW c, NEW w,
           Reaches(a, On(st, At(line, i, alt, p, hit, some), c, w)),
           NEW t, NEW h, Token(line, i, t, h), Optional(line, i), read_token(t, p) = Missed
    PROVE  Reaches(a, On(st, At(line, i + 1, 0, p, "no", some), c, w))
<1> DEFINE f == At(line, i, alt, p, hit, some)
           b == On(st, f, c, w)
           g == At(line, i + 1, 0, p, "no", some)
           d == On(st, g, c, w)
<1>1. Going(f) /\ SymbolOf(f) = Lines[line][i] /\ f.pos = p
  BY AtGoes DEF At, SymbolOf
<1>2. SymbolOf(f).term /\ SymbolOf(f).token = t /\ AfterMiss(f) = g
  <2>1. SymbolOf(f).term /\ SymbolOf(f).token = t
    BY <1>1 DEF Token
  <2>2. AfterMiss(f) = g
    BY AtSkipped
  <2> QED BY <2>1, <2>2
<1>3. ~Missed.hit /\ read_token(SymbolOf(f).token, f.pos) = Missed
  BY <1>1, <1>2 DEF Missed
<1>4. b.parse = c /\ b.walker = w /\ Last(b.stack) = f /\ Front(b.stack) = st
  BY OnFacts
<1>5. Reaches(a, b)
  OBVIOUS
<1>6. d = Config(Append(st, AfterMiss(f)), c, w)
  BY <1>2 DEF On
<1> HIDE DEF f, b, g, d
<1>7. OnlyRead(b, d)
  BY <1>1, <1>2, <1>3, <1>4, <1>6 DEF OnlyRead
<1>8. Reaches(a, d)
  BY <1>5, <1>7, ReachesOn DEF Only
<1> QED BY <1>8 DEF d, g

\* The call on top of st has not matched and goes no further.
Fails(a, st, c, w) == \E f : Reaches(a, On(st, f, c, w)) /\ ~Going(f) /\ ~Matches(f)

\* or in one that has to be there.
LEMMA MissToken ==
    ASSUME NEW a, NEW st, IsSeq(st), NEW line, NEW i, IsCall(line, i), NEW alt,
           NEW p \in Nat, p <= Len(content), NEW hit, NEW some, NEW c, NEW w,
           Reaches(a, On(st, At(line, i, alt, p, hit, some), c, w)),
           NEW t, NEW h, Token(line, i, t, h), Required(line, i), read_token(t, p) = Missed
    PROVE  Fails(a, st, c, w)
<1> DEFINE f == At(line, i, alt, p, hit, some)
           b == On(st, f, c, w)
           g == AfterMiss(f)
           d == On(st, g, c, w)
<1>1. Going(f) /\ SymbolOf(f) = Lines[line][i] /\ f.pos = p
  BY AtGoes DEF At, SymbolOf
<1>2. SymbolOf(f).term /\ SymbolOf(f).token = t
      /\ Dead(g)
  <2>1. SymbolOf(f).term /\ SymbolOf(f).token = t
    BY <1>1 DEF Token
  <2>2. Dead(g)
    BY AtDead
  <2> QED BY <2>1, <2>2
<1>3. ~Missed.hit /\ read_token(SymbolOf(f).token, f.pos) = Missed
  BY <1>1, <1>2 DEF Missed
<1>4. b.parse = c /\ b.walker = w /\ Last(b.stack) = f /\ Front(b.stack) = st
  BY OnFacts
<1>5. Reaches(a, b)
  OBVIOUS
<1>6. d = Config(Append(st, AfterMiss(f)), c, w)
  BY DEF On
<1> HIDE DEF f, b, d
<1>7. OnlyRead(b, d)
  BY <1>1, <1>2, <1>3, <1>4, <1>6 DEF OnlyRead
<1>8. Reaches(a, d)
  BY <1>5, <1>7, ReachesOn DEF Only
<1> HIDE DEF g
<1>9. ~Going(g) /\ ~Matches(g)
  BY <1>2 DEF Going, Matches, Dead
<1> QED BY <1>8, <1>9 DEF d, Fails

------------------------------------------------------------------------------
(* How a step changes the top of the stack of calls.                       *)

LEMMA TwoOnTop ==
    ASSUME NEW st, IsSeq(st), NEW g, NEW f
    PROVE  IsSeq(Append(st, g)) /\ st \o <<g, f>> = Append(Append(st, g), f)
<1>1. PICK T : st \in Seq(T)
  BY DEF IsSeq
<1> DEFINE U == T \cup {f, g}
<1>2. st \in Seq(U) /\ f \in U /\ g \in U
  BY <1>1
<1> HIDE DEF U
<1>3. Append(st, g) \in Seq(U) /\ <<g, f>> \in Seq(U)
  BY <1>2
<1>4. <<g, f>> = Append(<<g>>, f) /\ <<g>> \in Seq(U)
  BY <1>2
<1>5. Append(Append(st, g), f) = st \o <<g>> \o <<f>>
  BY <1>2, <1>3, AppendIsConcat
<1>6. <<g, f>> = <<g>> \o <<f>> /\ <<f>> \in Seq(U)
  <2>1. <<f>> \in Seq(U)
    BY <1>2
  <2>2. Append(<<g>>, f) = <<g>> \o <<f>>
    BY <1>2, <1>4, AppendIsConcat
  <2> QED BY <1>4, <2>1, <2>2
<1>7. st \o (<<g>> \o <<f>>) = st \o <<g>> \o <<f>>
  BY <1>2, <1>4, <1>6
<1> QED BY <1>3, <1>5, <1>6, <1>7 DEF IsSeq

LEMMA PushFacts ==
    ASSUME NEW st, IsSeq(st), NEW x
    PROVE  /\ IsSeq(Append(st, x)) /\ Len(st) \in Nat /\ Len(Append(st, x)) = Len(st) + 1
           /\ Last(Append(st, x)) = x /\ Front(Append(st, x)) = st
<1> DEFINE b == On(st, x, 0, 0)
<1>1. b.stack = Append(st, x)
  BY DEF On, Config
<1>2. Last(b.stack) = x /\ Front(b.stack) = st /\ Len(b.stack) = Len(st) + 1 /\ Len(st) \in Nat
  BY OnFacts
<1> HIDE DEF b
<1>3. IsSeq(Append(st, x))
  BY AppendFacts
<1> QED BY <1>1, <1>2, <1>3

LEMMA OnTwo ==
    ASSUME NEW st, IsSeq(st), NEW g, NEW f, NEW c, NEW w
    PROVE  LET b == On(Append(st, g), f, c, w)
           IN  /\ b.parse = c /\ b.walker = w
               /\ Last(b.stack) = f /\ Last(Front(b.stack)) = g /\ Front(Front(b.stack)) = st
               /\ Len(b.stack) \in Nat /\ Len(b.stack) > 1
<1> DEFINE s == Append(st, g)
<1>2. IsSeq(s) /\ Last(s) = g /\ Front(s) = st /\ Len(st) \in Nat /\ Len(s) = Len(st) + 1
  BY PushFacts
<1> HIDE DEF s
<1> DEFINE t == Append(s, f)
<1>3. IsSeq(t) /\ Last(t) = f /\ Front(t) = s /\ Len(t) = Len(s) + 1
  BY <1>2, PushFacts
<1> DEFINE b == On(s, f, c, w)
<1>4. b.parse = c /\ b.walker = w /\ b.stack = t
  BY DEF On, Config
<1> HIDE DEF b, t
<1>5. /\ b.parse = c /\ b.walker = w
      /\ Last(b.stack) = f /\ Last(Front(b.stack)) = g /\ Front(Front(b.stack)) = st
      /\ Len(b.stack) \in Nat /\ Len(b.stack) > 1
  BY <1>2, <1>3, <1>4
<1> QED BY <1>5 DEF b, s

LEMMA TwoConfig ==
    ASSUME NEW st, IsSeq(st), NEW g, NEW f, NEW c, NEW w
    PROVE  On(Append(st, g), f, c, w) = Config(st \o <<g, f>>, c, w)
<1>1. st \o <<g, f>> = Append(Append(st, g), f)
  BY TwoOnTop
<1> QED BY <1>1 DEF On

LEMMA OneConfig ==
    ASSUME NEW st, IsSeq(st), NEW g, NEW c, NEW w
    PROVE  On(st, g, c, w) = Config(st \o <<g>>, c, w)
<1>1. PICK T : st \in Seq(T)
  BY DEF IsSeq
<1>2. st \in Seq(T \cup {g}) /\ g \in T \cup {g}
  BY <1>1
<1>3. Append(st, g) = st \o <<g>>
  BY <1>2, AppendIsConcat
<1> QED BY <1>3 DEF On

LEMMA AtTries ==
    ASSUME NEW line, NEW i, NEW alt, NEW p, NEW hit, NEW some, NEW n
    PROVE  [At(line, i, alt, p, hit, some) EXCEPT !.alt = n] = At(line, i, n, p, hit, some)
<1> DEFINE f == At(line, i, alt, p, hit, some)
           g == [f EXCEPT !.alt = n]
<1>1. f = [line |-> line, i |-> i, alt |-> alt, pos |-> p, hit |-> f.hit, some |-> f.some, dead |-> f.dead]
      /\ f.hit = (hit = "yes") /\ f.some = (some = "yes") /\ f.dead = FALSE
  BY DEF At
<1> HIDE DEF f
<1>2. g = [line |-> line, i |-> i, alt |-> n, pos |-> p, hit |-> f.hit, some |-> f.some, dead |-> f.dead]
  BY <1>1
<1> HIDE DEF g
<1>3. g = At(line, i, n, p, hit, some)
  BY <1>1, <1>2 DEF At
<1> QED BY <1>3 DEF g, f

\* A choice: its first line is tried
LEMMA Enter ==
    ASSUME NEW a, NEW st, IsSeq(st), NEW line, NEW i, IsCall(line, i), NEW alt,
           NEW p \in Nat, p <= Len(content), NEW hit, NEW some, NEW c, NEW w,
           Reaches(a, On(st, At(line, i, alt, p, hit, some), c, w)),
           NEW elems, Choice(line, i, elems)
    PROVE  Reaches(a, On(Append(st, At(line, i, 1, p, hit, some)),
                         At(elems[1], 1, 0, p, "no", "no"), c, w))
<1> DEFINE f == At(line, i, alt, p, hit, some)
           b == On(st, f, c, w)
           g == At(line, i, 1, p, hit, some)
           x == At(elems[1], 1, 0, p, "no", "no")
           d == On(Append(st, g), x, c, w)
<1>1. Going(f) /\ SymbolOf(f) = Lines[line][i] /\ f.pos = p
  BY AtGoes DEF At, SymbolOf
<1>2. ~SymbolOf(f).term /\ SymbolOf(f).elems = elems
  BY <1>1 DEF Choice
<1>3. [f EXCEPT !.alt = 1] = g /\ Call(elems[1], p) = x
  BY AtTries, CallAt
<1>4. b.parse = c /\ b.walker = w /\ Last(b.stack) = f /\ Front(b.stack) = st
  BY OnFacts
<1>5. Reaches(a, b)
  OBVIOUS
<1>6. d = Config(st \o <<g, x>>, c, w)
  <2> HIDE DEF g, x
  <2> QED BY TwoConfig
<1> HIDE DEF f, b, g, x, d
<1>7. OnlyEnter(b, d)
  BY <1>1, <1>2, <1>3, <1>4, <1>6 DEF OnlyEnter
<1>8. Reaches(a, d)
  BY <1>5, <1>7, ReachesOn DEF Only
<1> QED BY <1>8 DEF d, g, x

\* then the next.
LEMMA TryNext ==
    ASSUME NEW a, NEW st, IsSeq(st), NEW line, NEW i, NEW alt \in Nat,
           NEW p, NEW hit, NEW some, NEW c, NEW w,
           Fails(a, Append(st, At(line, i, alt, p, hit, some)), c, w),
           NEW elems, Choice(line, i, elems), alt + 1 <= Len(elems)
    PROVE  Reaches(a, On(Append(st, At(line, i, alt + 1, p, hit, some)),
                         At(elems[alt + 1], 1, 0, p, "no", "no"), c, w))
<1> DEFINE g == At(line, i, alt, p, hit, some)
           h == At(line, i, alt + 1, p, hit, some)
           x == At(elems[alt + 1], 1, 0, p, "no", "no")
           d == On(Append(st, h), x, c, w)
<1>1. PICK f : Reaches(a, On(Append(st, g), f, c, w)) /\ ~Going(f) /\ ~Matches(f)
  BY DEF Fails
<1> DEFINE b == On(Append(st, g), f, c, w)
<1>2. SymbolOf(g).elems = elems /\ g.alt = alt /\ g.pos = p
  BY DEF Choice, At, SymbolOf
<1>3. [g EXCEPT !.alt = alt + 1] = h /\ Call(elems[alt + 1], p) = x
  BY AtTries, CallAt
<1>5. b.parse = c /\ b.walker = w /\ Last(b.stack) = f /\ Last(Front(b.stack)) = g
      /\ Front(Front(b.stack)) = st /\ Len(b.stack) \in Nat /\ Len(b.stack) > 1
  BY OnTwo
<1>6. d = Config(st \o <<h, x>>, c, w)
  <2> HIDE DEF h, x
  <2> QED BY TwoConfig
<1>7. Reaches(a, b)
  BY <1>1
<1> HIDE DEF b, g, h, x, d
<1>8. OnlyMiss(b, d)
  BY <1>1, <1>2, <1>3, <1>5, <1>6 DEF OnlyMiss
<1>9. Reaches(a, d)
  BY <1>7, <1>8, ReachesOn DEF Only
<1> QED BY <1>9 DEF d, h, x

\* With the last line the choice is given up, if it may be absent,
LEMMA GiveUp ==
    ASSUME NEW a, NEW st, IsSeq(st), NEW line, NEW i, NEW alt \in Nat,
           NEW p, NEW hit, NEW some, NEW c, NEW w,
           Fails(a, Append(st, At(line, i, alt, p, hit, some)), c, w),
           NEW elems, Choice(line, i, elems), alt = Len(elems), Optional(line, i)
    PROVE  Reaches(a, On(st, At(line, i + 1, 0, p, "no", some), c, w))
<1> DEFINE g == At(line, i, alt, p, hit, some)
           h == At(line, i + 1, 0, p, "no", some)
           d == On(st, h, c, w)
<1>1. PICK f : Reaches(a, On(Append(st, g), f, c, w)) /\ ~Going(f) /\ ~Matches(f)
  BY DEF Fails
<1> DEFINE b == On(Append(st, g), f, c, w)
<1>2. SymbolOf(g).elems = elems /\ g.alt = alt
  BY DEF Choice, At, SymbolOf
<1>3. AfterMiss(g) = h
  BY AtSkipped
<1>5. b.parse = c /\ b.walker = w /\ Last(b.stack) = f /\ Last(Front(b.stack)) = g
      /\ Front(Front(b.stack)) = st /\ Len(b.stack) \in Nat /\ Len(b.stack) > 1
  BY OnTwo
<1>6. d = Config(st \o <<h>>, c, w)
  <2> HIDE DEF h
  <2> QED BY OneConfig
<1>7. Reaches(a, b)
  BY <1>1
<1>10. ~(alt + 1 <= Len(elems))
  OBVIOUS
<1> HIDE DEF b, g, h, d
<1>8. OnlyMiss(b, d)
  BY <1>1, <1>2, <1>3, <1>5, <1>6, <1>10 DEF OnlyMiss
<1>9. Reaches(a, d)
  BY <1>7, <1>8, ReachesOn DEF Only
<1> QED BY <1>9 DEF d, h

\* A line that is matched to its end: its handler is called, and the caller goes
\* on,
Ended(line) == Len(Lines[line]) + 1
LEMMA Return ==
    ASSUME NEW a, NEW st, IsSeq(st), NEW line, NEW i, NEW alt, NEW q, NEW hit, NEW some,
           NEW sub, Len(Lines[sub]) \in Nat, NEW p, NEW subhit, NEW subsome, NEW c, NEW w,
           subhit = "yes" \/ subsome = "yes",
           Reaches(a, On(Append(st, At(line, i, alt, q, hit, some)),
                         At(sub, Ended(sub), 0, p, subhit, subsome), c, w)),
           NEW next,
           AfterMatch(At(line, i, alt, q, hit, some), p) = next
    PROVE  LET h == AtEndOf(sub)
           IN  Reaches(a, On(st, next, Parsed(c, h, <<>>), Walked(w, Parsed(c, h, <<>>), h, <<>>)))
<1> DEFINE g == At(line, i, alt, q, hit, some)
           f == At(sub, Ended(sub), 0, p, subhit, subsome)
           b == On(Append(st, g), f, c, w)
           h == AtEndOf(sub)
           e == Parsed(c, h, <<>>)
           d == On(st, next, e, Walked(w, e, h, <<>>))
<1>1. AtEnd(f) /\ Matches(f) /\ f.pos = p /\ f.line = sub
  <2>1. f.line = sub /\ f.i = Ended(sub) /\ f.pos = p /\ f.hit = (subhit = "yes")
        /\ f.some = (subsome = "yes")
    BY DEF At
  <2> HIDE DEF f
  <2>2. Ended(sub) > Len(Lines[sub])
    BY DEF Ended
  <2> QED BY <2>1, <2>2 DEF AtEnd, Matches
<1>5. b.parse = c /\ b.walker = w /\ Last(b.stack) = f /\ Last(Front(b.stack)) = g
      /\ Front(Front(b.stack)) = st /\ Len(b.stack) \in Nat /\ Len(b.stack) > 1
  BY OnTwo
<1>6. d = Config(Append(st, AfterMatch(g, p)), e, Walked(w, e, h, <<>>))
  BY DEF On
<1>7. Reaches(a, b)
  OBVIOUS
<1> HIDE DEF b, g, f, d, e
<1>8. OnlyMatch(b, d)
  BY <1>1, <1>5, <1>6 DEF OnlyMatch, Going, e
<1>9. Reaches(a, d)
  BY <1>7, <1>8, ReachesOn DEF Only
<1> QED BY <1>9 DEF d, e

\* past the choice,
LEMMA ReturnOnce ==
    ASSUME NEW a, NEW st, IsSeq(st), NEW line, NEW i, NEW alt, NEW q, NEW hit, NEW some,
           NEW sub, Len(Lines[sub]) \in Nat, NEW p, NEW subhit, NEW subsome, NEW c, NEW w,
           subhit = "yes" \/ subsome = "yes",
           Reaches(a, On(Append(st, At(line, i, alt, q, hit, some)),
                         At(sub, Ended(sub), 0, p, subhit, subsome), c, w)),
           Single(line, i)
    PROVE  LET h == AtEndOf(sub)
           IN  Reaches(a, On(st, At(line, i + 1, 0, p, "yes", some),
                             Parsed(c, h, <<>>), Walked(w, Parsed(c, h, <<>>), h, <<>>)))
<1>1. AfterMatch(At(line, i, alt, q, hit, some), p) = At(line, i + 1, 0, p, "yes", some)
  BY AtMatched
<1> DEFINE next == At(line, i + 1, 0, p, "yes", some)
<1> HIDE DEF next
<1>2. AfterMatch(At(line, i, alt, q, hit, some), p) = next
  BY <1>1 DEF next
<1>3. LET h == AtEndOf(sub)
      IN  Reaches(a, On(st, next, Parsed(c, h, <<>>), Walked(w, Parsed(c, h, <<>>), h, <<>>)))
  BY <1>2, Return
<1> QED BY <1>3 DEF next

\* or to try it again.
LEMMA ReturnAgain ==
    ASSUME NEW a, NEW st, IsSeq(st), NEW line, NEW i, NEW alt, NEW q, NEW hit, NEW some,
           NEW sub, Len(Lines[sub]) \in Nat, NEW p, NEW subhit, NEW subsome, NEW c, NEW w,
           subhit = "yes" \/ subsome = "yes",
           Reaches(a, On(Append(st, At(line, i, alt, q, hit, some)),
                         At(sub, Ended(sub), 0, p, subhit, subsome), c, w)),
           Repeated(line, i)
    PROVE  LET h == AtEndOf(sub)
           IN  Reaches(a, On(st, At(line, i, 0, p, "yes", "yes"),
                             Parsed(c, h, <<>>), Walked(w, Parsed(c, h, <<>>), h, <<>>)))
<1>1. AfterMatch(At(line, i, alt, q, hit, some), p) = At(line, i, 0, p, "yes", "yes")
  BY AtMatched
<1> DEFINE next == At(line, i, 0, p, "yes", "yes")
<1> HIDE DEF next
<1>2. AfterMatch(At(line, i, alt, q, hit, some), p) = next
  BY <1>1 DEF next
<1>3. LET h == AtEndOf(sub)
      IN  Reaches(a, On(st, next, Parsed(c, h, <<>>), Walked(w, Parsed(c, h, <<>>), h, <<>>)))
  BY <1>2, Return
<1> QED BY <1>3 DEF next

\* A line of which nothing was there fails at its end.
LEMMA NothingMatched ==
    ASSUME NEW a, NEW st, NEW sub, Len(Lines[sub]) \in Nat, NEW p, NEW c, NEW w,
           Reaches(a, On(st, At(sub, Ended(sub), 0, p, "no", "no"), c, w))
    PROVE  Fails(a, st, c, w)
<1> DEFINE f == At(sub, Ended(sub), 0, p, "no", "no")
<1>1. f.line = sub /\ f.i = Ended(sub) /\ f.hit = FALSE /\ f.some = FALSE
  BY DEF At
<1>2. Ended(sub) > Len(Lines[sub])
  BY DEF Ended
<1>3. Reaches(a, On(st, f, c, w))
  OBVIOUS
<1> HIDE DEF f
<1>4. ~Going(f) /\ ~Matches(f)
  BY <1>1, <1>2 DEF Going, AtEnd, Matches
<1> QED BY <1>3, <1>4 DEF Fails

------------------------------------------------------------------------------
(* What the input holds at a place, and what a token makes of it.          *)

Shows(p, s) ==
    /\ p \in Nat \ {0} /\ IsSeq(s) /\ p + Len(s) <= Len(content) + 1
    /\ \A i \in 1..Len(s) : content[p + i - 1] = s[i]

LEMMA RunExact ==
    ASSUME IsSeq(content), NEW p \in Nat \ {0}, NEW n \in Nat, p + n <= Len(content), NEW stops,
           \A k \in p..(p + n - 1) : content[k] \notin stops, content[p + n] \in stops
    PROVE  RunLength(p, stops) = n
<1> DEFINE found == {k \in p..Len(content) : content[k] \in stops}
<1>1. Len(content) \in Nat
  BY AppendFacts
<1>2. p + n \in found
  BY <1>1
<1>3. \A k \in found : k \in Nat /\ k >= p + n
  BY <1>1
<1>4. found # {}
  BY <1>2
<1>5. Min(found) = p + n
  <2>1. \A x \in found : (\A y \in found : x <= y) => x = p + n
    BY <1>2, <1>3
  <2>2. \A y \in found : p + n <= y
    BY <1>3
  <2> HIDE DEF found
  <2> QED BY <1>2, <2>1, <2>2 DEF Min
<1>6. RunLength(p, stops) = Min(found) - p
  BY <1>4 DEF RunLength
<1> HIDE DEF found
<1> QED BY <1>5, <1>6

LEMMA ShownPart ==
    ASSUME IsSeq(content), NEW p, NEW s, Shows(p, s)
    PROVE  SubSeq(content, p, p + Len(s) - 1) = s
<1>1. PICK S : content \in Seq(S)
  BY DEF IsSeq
<1>2. PICK T : s \in Seq(T)
  BY DEF IsSeq, Shows
<1> DEFINE a == p
           b == p + Len(s) - 1
<1>3. a \in Int /\ b \in Int /\ Len(s) \in Nat /\ b - a + 1 = Len(s)
  BY <1>2 DEF Shows
<1>4. \A i \in a..b : content[i] \in S
  BY <1>1, <1>3 DEF Shows
<1>5. /\ SubSeq(content, a, b) \in Seq(S)
      /\ Len(SubSeq(content, a, b)) = Len(s)
      /\ \A i \in 1..Len(s) : SubSeq(content, a, b)[i] = content[a + i - 1]
  <2> HIDE DEF a, b
  <2>1. \A i \in 1..(b - a + 1) : SubSeq(content, a, b)[i] = content[a + i - 1]
    BY <1>3, <1>4, SubSeqProperties
  <2>2. SubSeq(content, a, b) \in Seq(S)
    BY <1>3, <1>4, SubSeqProperties
  <2>3. Len(SubSeq(content, a, b)) = IF a <= b THEN b - a + 1 ELSE 0
    BY <1>3, <1>4, SubSeqProperties
  <2> QED BY <1>3, <2>1, <2>2, <2>3
<1> DEFINE t == SubSeq(content, a, b)
<1>6. \A i \in 1..Len(s) : t[i] = s[i]
  BY <1>5 DEF Shows
<1>7. t \in Seq(S) /\ Len(t) = Len(s)
  BY <1>5
<1> HIDE DEF t
<1>8. t = s
  BY <1>2, <1>6, <1>7
<1> QED BY <1>8 DEF t

LEMMA TailIs ==
    ASSUME IsSeq(content), NEW p \in Nat \ {0}, p <= Len(content)
    PROVE  LET t == SubSeq(content, p, Len(content))
           IN  /\ IsSeq(t) /\ Len(t) = Len(content) - p + 1
               /\ \A i \in 1..Len(t) : t[i] = content[p + i - 1]
<1>1. PICK S : content \in Seq(S)
  BY DEF IsSeq
<1> DEFINE a == p
           b == Len(content)
           t == SubSeq(content, a, b)
<1>2. a \in Int /\ b \in Int /\ a <= b /\ \A i \in a..b : content[i] \in S
  BY <1>1
<1>3. t \in Seq(S) /\ Len(t) = b - a + 1 /\ \A i \in 1..(b - a + 1) : t[i] = content[a + i - 1]
  <2> HIDE DEF a, b
  <2> QED BY <1>2, SubSeqProperties
<1> QED BY <1>3 DEF IsSeq

LEMMA FirstElems ==
    ASSUME NEW t, IsSeq(t), NEW n \in Nat, n <= Len(t)
    PROVE  LET u == SubSeq(t, 1, n)
           IN  IsSeq(u) /\ Len(u) = n /\ \A i \in 1..n : u[i] = t[i]
<1>1. PICK S : t \in Seq(S)
  BY DEF IsSeq
<1> DEFINE u == SubSeq(t, 1, n)
<1>2. \A i \in 1..n : t[i] \in S
  BY <1>1
<1>3. u \in Seq(S) /\ Len(u) = IF 1 <= n THEN n - 1 + 1 ELSE 0
  BY <1>2, SubSeqProperties
<1>4. \A i \in 1..(n - 1 + 1) : u[i] = t[1 + i - 1]
  BY <1>2, SubSeqProperties
<1> HIDE DEF u
<1>5. Len(u) = n /\ \A i \in 1..n : u[i] = t[i]
  BY <1>3, <1>4
<1> QED BY <1>3, <1>5 DEF IsSeq, u

LEMMA SameSeq ==
    ASSUME NEW s, IsSeq(s), NEW t, IsSeq(t), Len(s) = Len(t), \A i \in 1..Len(s) : s[i] = t[i]
    PROVE  s = t
<1>1. PICK S : s \in Seq(S)
  BY DEF IsSeq
<1>2. PICK T : t \in Seq(T)
  BY DEF IsSeq
<1> QED BY <1>1, <1>2

LEMMA PrefixOf ==
    ASSUME NEW s, IsSeq(s), NEW t, IsSeq(t)
    PROVE  IsPrefix(s, t) <=> Len(s) <= Len(t) /\ \A i \in 1..Len(s) : s[i] = t[i]
<1>1. Len(s) \in Nat /\ Len(t) \in Nat
  BY AppendFacts
<1> DEFINE n == Len(s)
           u == SubSeq(s, 1, n)
           v == SubSeq(t, 1, n)
<1>2. IsPrefix(s, t) <=> n <= Len(t) /\ u = v
  BY DEF IsPrefix
<1>3. IsSeq(u) /\ Len(u) = n /\ \A i \in 1..n : u[i] = s[i]
  BY <1>1, FirstElems
<1>4. ASSUME n <= Len(t) PROVE IsSeq(v) /\ Len(v) = n /\ \A i \in 1..n : v[i] = t[i]
  BY <1>1, <1>4, FirstElems
<1> HIDE DEF u, v
<1>5. ASSUME n <= Len(t) PROVE u = v <=> \A i \in 1..n : s[i] = t[i]
  BY <1>3, <1>4, <1>5, SameSeq
<1> QED BY <1>2, <1>5

LEMMA ConstHit ==
    ASSUME IsSeq(content), NEW p, NEW s, Shows(p, s), Len(s) > 0
    PROVE  read_token(Literal(s), p) = Hit(Len(s), s)
<1> DEFINE t == SubSeq(content, p, Len(content))
<1>1. Len(s) \in Nat /\ Len(content) \in Nat /\ p \in Nat \ {0} /\ IsSeq(s) /\ p + Len(s) <= Len(content) + 1
      /\ \A i \in 1..Len(s) : content[p + i - 1] = s[i]
  BY AppendFacts DEF Shows
<1>2. IsSeq(t) /\ Len(t) = Len(content) - p + 1 /\ \A i \in 1..Len(t) : t[i] = content[p + i - 1]
  BY <1>1, TailIs
<1> HIDE DEF t
<1>3. Len(s) <= Len(t) /\ \A i \in 1..Len(s) : s[i] = t[i]
  BY <1>1, <1>2
<1>4. IsPrefix(s, t)
  BY <1>1, <1>2, <1>3, PrefixOf
<1>5. read_token_const(s, p) = Hit(Len(s), s)
  BY <1>4 DEF read_token_const, t
<1> QED BY <1>5 DEF read_token, Literal

LEMMA CharRead ==
    ASSUME IsSeq(content), NEW p \in 1..Len(content), NEW x, content[p] = x
    PROVE  read_token(Literal(<<x>>), p) = Hit(1, <<x>>)
<1> DEFINE s == <<x>>
<1>1. Len(s) = 1 /\ s[1] = x /\ IsSeq(s) /\ Len(s) > 0
  <2>1. s \in Seq({x}) /\ Len(s) = 1
    OBVIOUS
  <2> QED BY <2>1 DEF IsSeq
<1> HIDE DEF s
<1>2. Len(content) \in Nat
  BY AppendFacts
<1>3. p \in Nat \ {0} /\ p + 1 <= Len(content) + 1 /\ p + 1 - 1 = p
  BY <1>2
<1>4. Shows(p, s)
  BY <1>1, <1>3 DEF Shows
<1>5. read_token(Literal(s), p) = Hit(Len(s), s)
  BY <1>1, <1>4, ConstHit
<1> QED BY <1>1, <1>5 DEF s

LEMMA ConstMiss ==
    ASSUME IsSeq(content), NEW p \in Nat \ {0}, NEW s, IsSeq(s),
           NEW j \in 1..Len(s), p + j - 1 <= Len(content), content[p + j - 1] # s[j]
    PROVE  read_token(Literal(s), p) = Missed
<1> DEFINE t == SubSeq(content, p, Len(content))
<1>1. Len(s) \in Nat /\ Len(content) \in Nat /\ p <= Len(content) /\ j \in Nat /\ j >= 1
  BY AppendFacts
<1>2. IsSeq(t) /\ Len(t) = Len(content) - p + 1 /\ \A i \in 1..Len(t) : t[i] = content[p + i - 1]
  BY <1>1, TailIs
<1> HIDE DEF t
<1>3. j \in 1..Len(t) /\ t[j] # s[j]
  BY <1>1, <1>2
<1>4. ~IsPrefix(s, t)
  BY <1>2, <1>3, PrefixOf
<1>5. read_token_const(s, p) = Missed
  BY <1>4 DEF read_token_const, t
<1> QED BY <1>5 DEF read_token, Literal

LEMMA SpaceHit ==
    ASSUME NEW p, content[p] = Space
    PROVE  read_token(whitespace, p) = Hit(1, <<Space>>)
  BY DEF read_token, whitespace, read_token_whitespace

LEMMA SpaceMiss ==
    ASSUME NEW p, content[p] # Space
    PROVE  read_token(whitespace, p) = Missed
  BY DEF read_token, whitespace, read_token_whitespace

LEMMA RangeOf ==
    ASSUME NEW s, IsSeq(s)
    PROVE  /\ \A i \in 1..Len(s) : s[i] \in Range(s)
           /\ \A x \in Range(s) : \E i \in 1..Len(s) : x = s[i]
<1>1. PICK S : s \in Seq(S)
  BY DEF IsSeq
<1>2. DOMAIN s = 1..Len(s)
  BY <1>1
<1> QED BY <1>2 DEF Range

LEMMA NameRead ==
    ASSUME IsSeq(content), NEW p, NEW s, Shows(p, s), Len(s) > 0, \A i \in 1..Len(s) : s[i] \in Words,
           p + Len(s) <= Len(content), content[p + Len(s)] \notin Words
    PROVE  read_token(alphanum, p) = Hit(Len(s), s)
<1> DEFINE stops == Range(content) \ Words
           n == Len(s)
           r == RunLength(p, stops)
<1>1. n \in Nat /\ p \in Nat \ {0} /\ p + n \in 1..Len(content)
  BY AppendFacts DEF Shows
<1>2. \A k \in p..(p + n - 1) : content[k] \notin stops
  <2> SUFFICES ASSUME NEW k \in p..(p + n - 1) PROVE content[k] \notin stops
    OBVIOUS
  <2>1. k - p + 1 \in 1..n /\ p + (k - p + 1) - 1 = k
    BY <1>1
  <2>2. content[k] = s[k - p + 1]
    BY <2>1 DEF Shows
  <2> QED BY <2>1, <2>2
<1>3. content[p + n] \in stops
  BY <1>1, RangeOf
<1>4. r = n
  <2> HIDE DEF stops
  <2> QED BY <1>1, <1>2, <1>3, RunExact
<1>5. SubSeq(content, p, p + n - 1) = s
  BY ShownPart
<1>6. read_token_alphanum(p) = Hit(n, s)
  <2> HIDE DEF n
  <2>1. r > 0 /\ p + r <= Len(content) /\ SubSeq(content, p, p + r - 1) = s
    BY <1>1, <1>4, <1>5 DEF n
  <2> QED BY <1>4, <2>1 DEF read_token_alphanum
<1> QED BY <1>6 DEF read_token, alphanum

LEMMA RunNone ==
    ASSUME IsSeq(content), NEW p \in 1..Len(content), NEW stops, content[p] \in stops
    PROVE  RunLength(p, stops) = 0
<1>1. p \in Nat \ {0} /\ 0 \in Nat /\ p + 0 <= Len(content) /\ content[p + 0] \in stops
  BY AppendFacts
<1>2. \A k \in p..(p + 0 - 1) : content[k] \notin stops
  BY <1>1
<1> QED BY <1>1, <1>2, RunExact

LEMMA NameMissed ==
    ASSUME IsSeq(content), NEW p \in 1..Len(content), content[p] \notin Words
    PROVE  read_token(alphanum, p) = Missed
<1>1. content[p] \in Range(content) \ Words
  BY RangeOf
<1>2. RunLength(p, Range(content) \ Words) = 0
  BY <1>1, RunNone
<1>3. read_token_alphanum(p) = Missed
  BY <1>2 DEF read_token_alphanum
<1> QED BY <1>3 DEF read_token, alphanum

LEMMA TextRead ==
    ASSUME IsSeq(content), NEW p, NEW s, Shows(p, s), Len(s) > 0, NEW lit,
           \A i \in 1..Len(s) : s[i] \notin Range(lit),
           p + Len(s) <= Len(content), content[p + Len(s)] \in Range(lit)
    PROVE  read_token(AnyBut(lit), p) = Hit(Len(s), s)
<1> DEFINE stops == Range(lit)
           n == Len(s)
           r == RunLength(p, stops)
<1>1. n \in Nat /\ p \in Nat \ {0} /\ p + n \in 1..Len(content)
  BY AppendFacts DEF Shows
<1>2. \A k \in p..(p + n - 1) : content[k] \notin stops
  <2> SUFFICES ASSUME NEW k \in p..(p + n - 1) PROVE content[k] \notin stops
    OBVIOUS
  <2>1. k - p + 1 \in 1..n /\ p + (k - p + 1) - 1 = k
    BY <1>1
  <2>2. content[k] = s[k - p + 1]
    BY <2>1 DEF Shows
  <2> QED BY <2>1, <2>2
<1>4. r = n
  <2> HIDE DEF stops
  <2> QED BY <1>1, <1>2, RunExact DEF stops
<1>5. SubSeq(content, p, p + n - 1) = s
  BY ShownPart
<1>6. read_any_but(lit, p) = Hit(n, s)
  <2> HIDE DEF n
  <2>1. r > 0 /\ SubSeq(content, p, p + r - 1) = s
    BY <1>1, <1>4, <1>5 DEF n
  <2> QED BY <1>4, <2>1 DEF read_any_but
<1> QED BY <1>6 DEF read_token, AnyBut

LEMMA TextMissed ==
    ASSUME IsSeq(content), NEW p \in 1..Len(content), NEW lit, content[p] \in Range(lit)
    PROVE  read_token(AnyBut(lit), p) = Missed
<1>2. RunLength(p, Range(lit)) = 0
  BY RunNone
<1>3. read_any_but(lit, p) = Missed
  BY <1>2 DEF read_any_but
<1> QED BY <1>3 DEF read_token, AnyBut

LEMMA ValueRead ==
    ASSUME IsSeq(content), NEW p \in Nat \ {0}, NEW s, content[p] = Quote, Shows(p + 1, s),
           Len(s) <= MAX_TOKEN_LEN, \A i \in 1..Len(s) : s[i] # Quote,
           p + 1 + Len(s) <= Len(content), content[p + 1 + Len(s)] = Quote
    PROVE  read_token(attr_val, p) = Hit(Len(s) + 2, s)
<1> DEFINE stops == {Quote}
           q == p + 1
           n == Len(s)
           r == RunLength(q, stops)
<1>1. n \in Nat /\ q \in Nat \ {0} /\ q + n \in 1..Len(content) /\ q + n - 1 = p + n
  <2>1. IsSeq(s)
    BY DEF Shows
  <2>2. n \in Nat /\ Len(content) \in Nat
    BY <2>1, AppendFacts
  <2> QED BY <2>2
<1>2. \A k \in q..(q + n - 1) : content[k] \notin stops
  <2> SUFFICES ASSUME NEW k \in q..(q + n - 1) PROVE content[k] \notin stops
    OBVIOUS
  <2> DEFINE j == k - q + 1
  <2>1. j \in 1..n /\ q + j - 1 = k
    BY <1>1
  <2> HIDE DEF j, q
  <2>2. content[q + j - 1] = s[j]
    BY <2>1 DEF Shows, q
  <2> QED BY <2>1, <2>2
<1>4. r = n
  <2>1. content[q + n] \in stops
    BY <1>1
  <2> HIDE DEF stops
  <2> QED BY <1>1, <1>2, <2>1, RunExact
<1>5. SubSeq(content, q, p + n) = s
  BY <1>1, ShownPart
<1>6. read_attr_val(p) = Hit(n + 2, s)
  <2>1. p + 1 + r <= Len(content) /\ SubSeq(content, p + 1, p + r) = s
    BY <1>1, <1>4, <1>5
  <2>2. r <= MAX_TOKEN_LEN
    BY <1>4
  <2> HIDE DEF n, r
  <2> QED BY <1>4, <2>1, <2>2 DEF read_attr_val, r
<1> QED BY <1>6 DEF read_token, attr_val

\* A text is its parts, one after the other.
LEMMA ShowsParts ==
    ASSUME NEW p, NEW s, IsSeq(s), NEW t, IsSeq(t), Shows(p, s \o t)
    PROVE  Shows(p, s) /\ Shows(p + Len(s), t)
<1>1. PICK S : s \in Seq(S)
  BY DEF IsSeq
<1>2. PICK T : t \in Seq(T)
  BY DEF IsSeq
<1>3. s \in Seq(S \cup T) /\ t \in Seq(S \cup T)
  BY <1>1, <1>2
<1> DEFINE m == Len(s)
           n == Len(t)
           u == s \o t
<1>4. m \in Nat /\ n \in Nat /\ Len(u) = m + n
  BY <1>3
<1>5. \A i \in 1..m : u[i] = s[i]
  BY <1>3
<1>6. \A i \in 1..n : u[m + i] = t[i]
  BY <1>3
<1>7. p \in Nat \ {0} /\ p + (m + n) <= Len(content) + 1 /\ \A i \in 1..(m + n) : content[p + i - 1] = u[i]
  BY <1>4 DEF Shows
<1> HIDE DEF u
<1>8. \A i \in 1..m : content[p + i - 1] = s[i]
  BY <1>4, <1>5, <1>7
<1>9. \A i \in 1..n : content[p + m + i - 1] = t[i]
  <2> SUFFICES ASSUME NEW i \in 1..n PROVE content[p + m + i - 1] = t[i]
    OBVIOUS
  <2> DEFINE k == m + i
  <2>1. k \in 1..(m + n) /\ p + k - 1 = p + m + i - 1
    BY <1>4, <1>7
  <2> HIDE DEF k
  <2>2. content[p + k - 1] = u[k]
    BY <1>7, <2>1
  <2> QED BY <1>6, <2>1, <2>2 DEF k
<1>10. Len(content) + 1 >= p + m + n => Len(content) + 1 >= p + m
  <2>1. Len(content) \in Nat \/ Len(content) \notin Nat
    OBVIOUS
  <2> QED BY <1>4, <1>7
<1> HIDE DEF m, n
<1>11. p + m \in Nat \ {0} /\ p + m + n = p + (m + n)
  BY <1>4, <1>7
<1> QED BY <1>4, <1>7, <1>8, <1>9, <1>10, <1>11 DEF Shows, m, n

------------------------------------------------------------------------------
(* The grammar again, symbol by symbol: a token or a choice that is needed, *)
(* that may be absent, or that is matched as often as it is there.          *)

Need(line, i, t, h) == IsCall(line, i) /\ Token(line, i, t, h) /\ Single(line, i) /\ Required(line, i)
Maybe(line, i, t, h) == IsCall(line, i) /\ Token(line, i, t, h) /\ Single(line, i) /\ Optional(line, i)
Often(line, i, t, h) == IsCall(line, i) /\ Token(line, i, t, h) /\ Repeated(line, i) /\ Optional(line, i)
NeedOf(line, i, elems) ==
    IsCall(line, i) /\ Choice(line, i, elems) /\ Single(line, i) /\ Required(line, i)
MaybeOf(line, i, elems) ==
    IsCall(line, i) /\ Choice(line, i, elems) /\ Single(line, i) /\ Optional(line, i)
OftenOf(line, i, elems) ==
    IsCall(line, i) /\ Choice(line, i, elems) /\ Repeated(line, i) /\ Optional(line, i)

LEMMA Symbols ==
    ASSUME NEW line, NEW i, IsCall(line, i)
    PROVE  /\ \A t : Lines[line][i] = TOKEN(t) => Need(line, i, t, "none")
           /\ \A t, h : Lines[line][i] = TOKEN_H(t, h) => Need(line, i, t, h)
           /\ \A t : Lines[line][i] = TOKEN_O(t) => Maybe(line, i, t, "none")
           /\ \A t : Lines[line][i] = TOKEN_MO(t) => Often(line, i, t, "none")
           /\ \A t, h : Lines[line][i] = TOKEN_MOH(t, h) => Often(line, i, t, h)
           /\ \A e : Lines[line][i] = NONTERM(e) /\ Len(e) \in Nat => NeedOf(line, i, e)
           /\ \A e : Lines[line][i] = NONTERM_O(e) /\ Len(e) \in Nat => MaybeOf(line, i, e)
           /\ \A e : Lines[line][i] = NONTERM_MO(e) /\ Len(e) \in Nat => OftenOf(line, i, e)
<1> DEFINE s == Lines[line][i]
<1>1. \A t : s = TOKEN(t) => Need(line, i, t, "none")
  BY DEF TOKEN, Terminal, Need, Token, Single, Required
<1>2. \A t, h : s = TOKEN_H(t, h) => Need(line, i, t, h)
  BY DEF TOKEN_H, Terminal, Need, Token, Single, Required
<1>3. \A t : s = TOKEN_O(t) => Maybe(line, i, t, "none")
  BY DEF TOKEN_O, Terminal, Maybe, Token, Single, Optional
<1>4. \A t : s = TOKEN_MO(t) => Often(line, i, t, "none")
  BY DEF TOKEN_MO, Terminal, Often, Token, Repeated, Optional
<1>5. \A t, h : s = TOKEN_MOH(t, h) => Often(line, i, t, h)
  BY DEF TOKEN_MOH, Terminal, Often, Token, Repeated, Optional
<1>6. \A e : s = NONTERM(e) /\ Len(e) \in Nat => NeedOf(line, i, e)
  BY DEF NONTERM, Nonterminal, NeedOf, Choice, Single, Required
<1>7. \A e : s = NONTERM_O(e) /\ Len(e) \in Nat => MaybeOf(line, i, e)
  BY DEF NONTERM_O, Nonterminal, MaybeOf, Choice, Single, Optional
<1>8. \A e : s = NONTERM_MO(e) /\ Len(e) \in Nat => OftenOf(line, i, e)
  BY DEF NONTERM_MO, Nonterminal, OftenOf, Choice, Repeated, Optional
<1> HIDE DEF s
<1> QED BY <1>1, <1>2, <1>3, <1>4, <1>5, <1>6, <1>7, <1>8 DEF s

LEMMA AttrSymbols ==
    /\ Len(Lines["attr_line"]) = 4 /\ Ended("attr_line") = 5
    /\ Often("attr_line", 1, whitespace, "none")
    /\ Need("attr_line", 2, alphanum, "set_attr_name")
    /\ Need("attr_line", 3, Literal(<<"=">>), "none")
    /\ Need("attr_line", 4, attr_val, "set_attr_value")
<1> DEFINE L == Lines["attr_line"]
<1>1. L = <<TOKEN_MO(whitespace),
           TOKEN_H(alphanum, "set_attr_name"),
           TOKEN(Literal(<<"=">>)),
           TOKEN_H(attr_val, "set_attr_value")>>
  BY DEF Lines
<1>2. Len(L) = 4 /\ L[1] = TOKEN_MO(whitespace) /\ L[2] = TOKEN_H(alphanum, "set_attr_name") /\ L[3] = TOKEN(Literal(<<"=">>)) /\ L[4] = TOKEN_H(attr_val, "set_attr_value")
  BY <1>1
<1> HIDE DEF L
<1>3. \A i \in 1..4 : IsCall("attr_line", i)
  BY <1>2 DEF IsCall, L
<1>4. Often("attr_line", 1, whitespace, "none")
  BY <1>2, <1>3, Symbols DEF L
<1>5. Need("attr_line", 2, alphanum, "set_attr_name")
  BY <1>2, <1>3, Symbols DEF L
<1>6. Need("attr_line", 3, Literal(<<"=">>), "none")
  BY <1>2, <1>3, Symbols DEF L
<1>7. Need("attr_line", 4, attr_val, "set_attr_value")
  BY <1>2, <1>3, Symbols DEF L
<1>8. Ended("attr_line") = 5
  BY <1>2 DEF Ended, L
<1> QED BY <1>2, <1>4, <1>5, <1>6, <1>7, <1>8 DEF L

LEMMA ValueSymbols ==
    /\ Len(Lines["tag_value_line"]) = 1 /\ Ended("tag_value_line") = 2
    /\ Often("tag_value_line", 1, AnyBut(<<"&", "<">>), "concat_tag_value")
<1> DEFINE L == Lines["tag_value_line"]
<1>1. L = <<TOKEN_MOH(AnyBut(<<"&", "<">>), "concat_tag_value")>>
  BY DEF Lines
<1>2. Len(L) = 1 /\ L[1] = TOKEN_MOH(AnyBut(<<"&", "<">>), "concat_tag_value")
  BY <1>1
<1> HIDE DEF L
<1>3. \A i \in 1..1 : IsCall("tag_value_line", i)
  BY <1>2 DEF IsCall, L
<1>4. Often("tag_value_line", 1, AnyBut(<<"&", "<">>), "concat_tag_value")
  BY <1>2, <1>3, Symbols DEF L
<1>5. Ended("tag_value_line") = 2
  BY <1>2 DEF Ended, L
<1> QED BY <1>2, <1>4, <1>5 DEF L

LEMMA BodySymbols ==
    /\ Len(Lines["comment_content_line"]) = 1 /\ Ended("comment_content_line") = 2
    /\ Often("comment_content_line", 1, AnyBut(<<"-">>), "none")
<1> DEFINE L == Lines["comment_content_line"]
<1>1. L = <<TOKEN_MO(AnyBut(<<"-">>))>>
  BY DEF Lines
<1>2. Len(L) = 1 /\ L[1] = TOKEN_MO(AnyBut(<<"-">>))
  BY <1>1
<1> HIDE DEF L
<1>3. \A i \in 1..1 : IsCall("comment_content_line", i)
  BY <1>2 DEF IsCall, L
<1>4. Often("comment_content_line", 1, AnyBut(<<"-">>), "none")
  BY <1>2, <1>3, Symbols DEF L
<1>5. Ended("comment_content_line") = 2
  BY <1>2 DEF Ended, L
<1> QED BY <1>2, <1>4, <1>5 DEF L

LEMMA DashSymbols ==
    /\ Len(Lines["comment_content_dash_escaped_line"]) = 2 /\ Ended("comment_content_dash_escaped_line") = 3
    /\ Maybe("comment_content_dash_escaped_line", 1, Literal(<<"-">>), "none")
    /\ Often("comment_content_dash_escaped_line", 2, AnyBut(<<"-">>), "none")
<1> DEFINE L == Lines["comment_content_dash_escaped_line"]
<1>1. L = <<TOKEN_O(Literal(<<"-">>)),
           TOKEN_MO(AnyBut(<<"-">>))>>
  BY DEF Lines
<1>2. Len(L) = 2 /\ L[1] = TOKEN_O(Literal(<<"-">>)) /\ L[2] = TOKEN_MO(AnyBut(<<"-">>))
  BY <1>1
<1> HIDE DEF L
<1>3. \A i \in 1..2 : IsCall("comment_content_dash_escaped_line", i)
  BY <1>2 DEF IsCall, L
<1>4. Maybe("comment_content_dash_escaped_line", 1, Literal(<<"-">>), "none")
  BY <1>2, <1>3, Symbols DEF L
<1>5. Often("comment_content_dash_escaped_line", 2, AnyBut(<<"-">>), "none")
  BY <1>2, <1>3, Symbols DEF L
<1>6. Ended("comment_content_dash_escaped_line") = 3
  BY <1>2 DEF Ended, L
<1> QED BY <1>2, <1>4, <1>5, <1>6 DEF L

LEMMA CommentSymbols ==
    /\ Len(Lines["comment_line"]) = 4 /\ Ended("comment_line") = 5
    /\ Often("comment_line", 1, whitespace, "none")
    /\ Need("comment_line", 2, Literal(<<"<", "!", "-", "-">>), "none")
    /\ OftenOf("comment_line", 3, comment_value_pack)
    /\ Need("comment_line", 4, Literal(<<"-", "-", ">">>), "none")
<1> DEFINE L == Lines["comment_line"]
<1>1. L = <<TOKEN_MO(whitespace),
           TOKEN(Literal(<<"<", "!", "-", "-">>)),
           NONTERM_MO(comment_value_pack),
           TOKEN(Literal(<<"-", "-", ">">>))>>
  BY DEF Lines
<1>2. Len(L) = 4 /\ L[1] = TOKEN_MO(whitespace) /\ L[2] = TOKEN(Literal(<<"<", "!", "-", "-">>)) /\ L[3] = NONTERM_MO(comment_value_pack) /\ L[4] = TOKEN(Literal(<<"-", "-", ">">>))
  BY <1>1
<1> HIDE DEF L
<1>3. \A i \in 1..4 : IsCall("comment_line", i)
  BY <1>2 DEF IsCall, L
<1>4. Often("comment_line", 1, whitespace, "none")
  BY <1>2, <1>3, Symbols DEF L
<1>5. Need("comment_line", 2, Literal(<<"<", "!", "-", "-">>), "none")
  BY <1>2, <1>3, Symbols DEF L
<1>6. OftenOf("comment_line", 3, comment_value_pack)
  <2>1. Len(comment_value_pack) \in Nat
    BY DEF comment_value_pack
  <2> QED BY <1>2, <1>3, <2>1, Symbols DEF L
<1>7. Need("comment_line", 4, Literal(<<"-", "-", ">">>), "none")
  BY <1>2, <1>3, Symbols DEF L
<1>8. Ended("comment_line") = 5
  BY <1>2 DEF Ended, L
<1> QED BY <1>2, <1>4, <1>5, <1>6, <1>7, <1>8 DEF L

LEMMA RecourseSymbols ==
    /\ Len(Lines["recourse_tag_line"]) = 1 /\ Ended("recourse_tag_line") = 2
    /\ OftenOf("recourse_tag_line", 1, tag_pack)
<1> DEFINE L == Lines["recourse_tag_line"]
<1>1. L = <<NONTERM_MO(tag_pack)>>
  BY DEF Lines
<1>2. Len(L) = 1 /\ L[1] = NONTERM_MO(tag_pack)
  BY <1>1
<1> HIDE DEF L
<1>3. \A i \in 1..1 : IsCall("recourse_tag_line", i)
  BY <1>2 DEF IsCall, L
<1>4. OftenOf("recourse_tag_line", 1, tag_pack)
  <2>1. Len(tag_pack) \in Nat
    BY DEF tag_pack
  <2> QED BY <1>2, <1>3, <2>1, Symbols DEF L
<1>5. Ended("recourse_tag_line") = 2
  BY <1>2 DEF Ended, L
<1> QED BY <1>2, <1>4, <1>5 DEF L

LEMMA FullSymbols ==
    /\ Len(Lines["rule_xml_tag_end_full"]) = 5 /\ Ended("rule_xml_tag_end_full") = 6
    /\ Need("rule_xml_tag_end_full", 1, Literal(<<">">>), "got_tag_open")
    /\ OftenOf("rule_xml_tag_end_full", 2, content_pack)
    /\ Need("rule_xml_tag_end_full", 3, Literal(<<"<", "/">>), "none")
    /\ Need("rule_xml_tag_end_full", 4, alphanum, "set_tag_name")
    /\ Need("rule_xml_tag_end_full", 5, Literal(<<">">>), "none")
<1> DEFINE L == Lines["rule_xml_tag_end_full"]
<1>1. L = <<TOKEN_H(Literal(<<">">>), "got_tag_open"),
           NONTERM_MO(content_pack),
           TOKEN(Literal(<<"<", "/">>)),
           TOKEN_H(alphanum, "set_tag_name"),
           TOKEN(Literal(<<">">>))>>
  BY DEF Lines
<1>2. Len(L) = 5 /\ L[1] = TOKEN_H(Literal(<<">">>), "got_tag_open") /\ L[2] = NONTERM_MO(content_pack) /\ L[3] = TOKEN(Literal(<<"<", "/">>)) /\ L[4] = TOKEN_H(alphanum, "set_tag_name") /\ L[5] = TOKEN(Literal(<<">">>))
  BY <1>1
<1> HIDE DEF L
<1>3. \A i \in 1..5 : IsCall("rule_xml_tag_end_full", i)
  BY <1>2 DEF IsCall, L
<1>4. Need("rule_xml_tag_end_full", 1, Literal(<<">">>), "got_tag_open")
  BY <1>2, <1>3, Symbols DEF L
<1>5. OftenOf("rule_xml_tag_end_full", 2, content_pack)
  <2>1. Len(content_pack) \in Nat
    BY DEF content_pack
  <2> QED BY <1>2, <1>3, <2>1, Symbols DEF L
<1>6. Need("rule_xml_tag_end_full", 3, Literal(<<"<", "/">>), "none")
  BY <1>2, <1>3, Symbols DEF L
<1>7. Need("rule_xml_tag_end_full", 4, alphanum, "set_tag_name")
  BY <1>2, <1>3, Symbols DEF L
<1>8. Need("rule_xml_tag_end_full", 5, Literal(<<">">>), "none")
  BY <1>2, <1>3, Symbols DEF L
<1>9. Ended("rule_xml_tag_end_full") = 6
  BY <1>2 DEF Ended, L
<1> QED BY <1>2, <1>4, <1>5, <1>6, <1>7, <1>8, <1>9 DEF L

LEMMA EmptySymbols ==
    /\ Len(Lines["rule_xml_tag_end_empty"]) = 1 /\ Ended("rule_xml_tag_end_empty") = 2
    /\ Need("rule_xml_tag_end_empty", 1, Literal(<<"/", ">">>), "none")
<1> DEFINE L == Lines["rule_xml_tag_end_empty"]
<1>1. L = <<TOKEN(Literal(<<"/", ">">>))>>
  BY DEF Lines
<1>2. Len(L) = 1 /\ L[1] = TOKEN(Literal(<<"/", ">">>))
  BY <1>1
<1> HIDE DEF L
<1>3. \A i \in 1..1 : IsCall("rule_xml_tag_end_empty", i)
  BY <1>2 DEF IsCall, L
<1>4. Need("rule_xml_tag_end_empty", 1, Literal(<<"/", ">">>), "none")
  BY <1>2, <1>3, Symbols DEF L
<1>5. Ended("rule_xml_tag_end_empty") = 2
  BY <1>2 DEF Ended, L
<1> QED BY <1>2, <1>4, <1>5 DEF L

LEMMA TagSymbols ==
    /\ Len(Lines["rule_xml_tag"]) = 6 /\ Ended("rule_xml_tag") = 7
    /\ Often("rule_xml_tag", 1, whitespace, "none")
    /\ Need("rule_xml_tag", 2, Literal(<<"<">>), "do_tag_reset")
    /\ Need("rule_xml_tag", 3, alphanum, "set_tag_name")
    /\ OftenOf("rule_xml_tag", 4, <<"attr_line">>)
    /\ Often("rule_xml_tag", 5, whitespace, "none")
    /\ NeedOf("rule_xml_tag", 6, tag_end_pack)
<1> DEFINE L == Lines["rule_xml_tag"]
<1>1. L = <<TOKEN_MO(whitespace),
           TOKEN_H(Literal(<<"<">>), "do_tag_reset"),
           TOKEN_H(alphanum, "set_tag_name"),
           NONTERM_MO(<<"attr_line">>),
           TOKEN_MO(whitespace),
           NONTERM(tag_end_pack)>>
  BY DEF Lines
<1>2. Len(L) = 6 /\ L[1] = TOKEN_MO(whitespace) /\ L[2] = TOKEN_H(Literal(<<"<">>), "do_tag_reset") /\ L[3] = TOKEN_H(alphanum, "set_tag_name") /\ L[4] = NONTERM_MO(<<"attr_line">>) /\ L[5] = TOKEN_MO(whitespace) /\ L[6] = NONTERM(tag_end_pack)
  BY <1>1
<1> HIDE DEF L
<1>3. \A i \in 1..6 : IsCall("rule_xml_tag", i)
  BY <1>2 DEF IsCall, L
<1>4. Often("rule_xml_tag", 1, whitespace, "none")
  BY <1>2, <1>3, Symbols DEF L
<1>5. Need("rule_xml_tag", 2, Literal(<<"<">>), "do_tag_reset")
  BY <1>2, <1>3, Symbols DEF L
<1>6. Need("rule_xml_tag", 3, alphanum, "set_tag_name")
  BY <1>2, <1>3, Symbols DEF L
<1>7. OftenOf("rule_xml_tag", 4, <<"attr_line">>)
  <2>1. Len(<<"attr_line">>) \in Nat
    OBVIOUS
  <2> QED BY <1>2, <1>3, <2>1, Symbols DEF L
<1>8. Often("rule_xml_tag", 5, whitespace, "none")
  BY <1>2, <1>3, Symbols DEF L
<1>9. NeedOf("rule_xml_tag", 6, tag_end_pack)
  <2>1. Len(tag_end_pack) \in Nat
    BY DEF tag_end_pack
  <2> QED BY <1>2, <1>3, <2>1, Symbols DEF L
<1>10. Ended("rule_xml_tag") = 7
  BY <1>2 DEF Ended, L
<1> QED BY <1>2, <1>4, <1>5, <1>6, <1>7, <1>8, <1>9, <1>10 DEF L

LEMMA HeaderSymbols ==
    /\ Len(Lines["xml_header"]) = 5 /\ Ended("xml_header") = 6
    /\ Often("xml_header", 1, whitespace, "none")
    /\ Need("xml_header", 2, Literal(<<"<", "?", "xml">>), "none")
    /\ OftenOf("xml_header", 3, <<"attr_line">>)
    /\ Often("xml_header", 4, whitespace, "none")
    /\ Need("xml_header", 5, Literal(<<"?", ">">>), "none")
<1> DEFINE L == Lines["xml_header"]
<1>1. L = <<TOKEN_MO(whitespace),
           TOKEN(Literal(<<"<", "?", "xml">>)),
           NONTERM_MO(<<"attr_line">>),
           TOKEN_MO(whitespace),
           TOKEN(Literal(<<"?", ">">>))>>
  BY DEF Lines
<1>2. Len(L) = 5 /\ L[1] = TOKEN_MO(whitespace) /\ L[2] = TOKEN(Literal(<<"<", "?", "xml">>)) /\ L[3] = NONTERM_MO(<<"attr_line">>) /\ L[4] = TOKEN_MO(whitespace) /\ L[5] = TOKEN(Literal(<<"?", ">">>))
  BY <1>1
<1> HIDE DEF L
<1>3. \A i \in 1..5 : IsCall("xml_header", i)
  BY <1>2 DEF IsCall, L
<1>4. Often("xml_header", 1, whitespace, "none")
  BY <1>2, <1>3, Symbols DEF L
<1>5. Need("xml_header", 2, Literal(<<"<", "?", "xml">>), "none")
  BY <1>2, <1>3, Symbols DEF L
<1>6. OftenOf("xml_header", 3, <<"attr_line">>)
  <2>1. Len(<<"attr_line">>) \in Nat
    OBVIOUS
  <2> QED BY <1>2, <1>3, <2>1, Symbols DEF L
<1>7. Often("xml_header", 4, whitespace, "none")
  BY <1>2, <1>3, Symbols DEF L
<1>8. Need("xml_header", 5, Literal(<<"?", ">">>), "none")
  BY <1>2, <1>3, Symbols DEF L
<1>9. Ended("xml_header") = 6
  BY <1>2 DEF Ended, L
<1> QED BY <1>2, <1>4, <1>5, <1>6, <1>7, <1>8, <1>9 DEF L

LEMMA DocumentSymbols ==
    /\ Len(Lines["rule_xml_document"]) = 3 /\ Ended("rule_xml_document") = 4
    /\ MaybeOf("rule_xml_document", 1, <<"xml_header">>)
    /\ OftenOf("rule_xml_document", 2, <<"comment_line">>)
    /\ MaybeOf("rule_xml_document", 3, tag_pack)
<1> DEFINE L == Lines["rule_xml_document"]
<1>1. L = <<NONTERM_O(<<"xml_header">>),
           NONTERM_MO(<<"comment_line">>),
           NONTERM_O(tag_pack)>>
  BY DEF Lines
<1>2. Len(L) = 3 /\ L[1] = NONTERM_O(<<"xml_header">>) /\ L[2] = NONTERM_MO(<<"comment_line">>) /\ L[3] = NONTERM_O(tag_pack)
  BY <1>1
<1> HIDE DEF L
<1>3. \A i \in 1..3 : IsCall("rule_xml_document", i)
  BY <1>2 DEF IsCall, L
<1>4. MaybeOf("rule_xml_document", 1, <<"xml_header">>)
  <2>1. Len(<<"xml_header">>) \in Nat
    OBVIOUS
  <2> QED BY <1>2, <1>3, <2>1, Symbols DEF L
<1>5. OftenOf("rule_xml_document", 2, <<"comment_line">>)
  <2>1. Len(<<"comment_line">>) \in Nat
    OBVIOUS
  <2> QED BY <1>2, <1>3, <2>1, Symbols DEF L
<1>6. MaybeOf("rule_xml_document", 3, tag_pack)
  <2>1. Len(tag_pack) \in Nat
    BY DEF tag_pack
  <2> QED BY <1>2, <1>3, <2>1, Symbols DEF L
<1>7. Ended("rule_xml_document") = 4
  BY <1>2 DEF Ended, L
<1> QED BY <1>2, <1>4, <1>5, <1>6, <1>7 DEF L

------------------------------------------------------------------------------
(* What process_line makes of the parts of a document.                     *)

LEMMA EveryNumber ==
    ASSUME NEW S, 0 \in S, \A n \in Nat : n \in S => n + 1 \in S
    PROVE  \A n \in Nat : n \in S
<1> DEFINE T == {n \in Nat : n \notin S}
<1> SUFFICES ASSUME T # {} PROVE FALSE
  OBVIOUS
<1>1. PICK x \in T : \A y \in T : x <= y
  BY LeastNat
<1>2. x \in Nat /\ x \notin S /\ x # 0
  BY <1>1
<1>3. x - 1 \in Nat /\ x - 1 + 1 = x /\ ~(x <= x - 1)
  BY <1>2
<1>4. x - 1 \in S
  BY <1>1, <1>3
<1> QED BY <1>2, <1>3, <1>4

LEMMA NoHandler ==
    ASSUME NEW c, NEW w, NEW v
    PROVE  Parsed(c, "none", v) = c /\ Walked(w, c, "none", v) = w
  BY DEF Parsed, Walked

LEMMA NotWalked ==
    ASSUME NEW h, h \notin {"got_tag_open", "concat_tag_value", "got_tag_close"},
           NEW c, NEW w, NEW v
    PROVE  Walked(w, c, h, v) = w
  BY DEF Walked

LEMMA ConcatFacts ==
    ASSUME NEW s, IsSeq(s), NEW t, IsSeq(t)
    PROVE  IsSeq(s \o t) /\ Len(s) \in Nat /\ Len(t) \in Nat /\ Len(s \o t) = Len(s) + Len(t)
<1>1. PICK S : s \in Seq(S)
  BY DEF IsSeq
<1>2. PICK T : t \in Seq(T)
  BY DEF IsSeq
<1>3. s \in Seq(S \cup T) /\ t \in Seq(S \cup T)
  BY <1>1, <1>2
<1>4. s \o t \in Seq(S \cup T) /\ Len(s \o t) = Len(s) + Len(t)
  BY <1>3
<1> QED BY <1>3, <1>4 DEF IsSeq

LEMMA ConcatSeq == ASSUME NEW s, IsSeq(s), NEW t, IsSeq(t) PROVE IsSeq(s \o t)
  BY ConcatFacts
LEMMA ConcatLen == ASSUME NEW s, IsSeq(s), NEW t, IsSeq(t) PROVE Len(s \o t) = Len(s) + Len(t)
  BY ConcatFacts
LEMMA LenNat == ASSUME NEW s, IsSeq(s) PROVE Len(s) \in Nat
  BY AppendFacts

LEMMA GapFacts ==
    ASSUME NEW g \in Nat
    PROVE  IsSeq(Gap(g)) /\ Len(Gap(g)) = g /\ \A i \in 1..g : Gap(g)[i] = Space
<1>1. Gap(g) \in Seq({Space}) /\ Len(Gap(g)) = g /\ \A i \in 1..g : Gap(g)[i] = Space
  BY DEF Gap
<1> QED BY <1>1 DEF IsSeq

\* Blanks, and then something else.
Blanks(p, g) ==
    /\ p \in Nat \ {0} /\ g \in Nat /\ p + g <= Len(content)
    /\ \A k \in p..(p + g - 1) : content[k] = Space
    /\ content[p + g] # Space

LEMMA GapIsBlanks ==
    ASSUME NEW p, NEW g \in Nat, Shows(p, Gap(g)), p + g <= Len(content), content[p + g] # Space
    PROVE  Blanks(p, g)
<1>1. p \in Nat \ {0}
  BY DEF Shows
<1>2. ASSUME NEW k \in p..(p + g - 1) PROVE content[k] = Space
  <2> DEFINE j == k - p + 1
  <2>1. j \in 1..g /\ p + j - 1 = k
    BY <1>1
  <2> HIDE DEF j
  <2>2. content[p + j - 1] = Gap(g)[j]
    BY <2>1, GapFacts DEF Shows
  <2> QED BY <2>1, <2>2, GapFacts
<1> QED BY <1>1, <1>2 DEF Blanks

LEMMA SkipBlanks ==
    ASSUME IsSeq(content), NEW a, NEW st, IsSeq(st), NEW line, NEW i,
           Often(line, i, whitespace, "none"), NEW alt, NEW p, NEW g, Blanks(p, g),
           NEW hit, NEW some, NEW c, NEW w,
           Reaches(a, On(st, At(line, i, alt, p, hit, some), c, w))
    PROVE  \E x : Reaches(a, On(st, At(line, i + 1, 0, p + g, "no", x), c, w))
<1> DEFINE Got(k) == \E b, h, x : Reaches(a, On(st, At(line, i, b, p + k, h, x), c, w))
           S == {k \in Nat : k <= g => Got(k)}
<1>1. p \in Nat \ {0} /\ g \in Nat /\ p + g <= Len(content) /\ Len(content) \in Nat /\ p + 0 = p
  BY AppendFacts DEF Blanks
<1>2. 0 \in S
  BY <1>1
<1>3. ASSUME NEW k \in Nat, k \in S PROVE k + 1 \in S
  <2> SUFFICES ASSUME k + 1 <= g PROVE Got(k + 1)
    OBVIOUS
  <2>1. Got(k)
    BY <1>1, <1>3
  <2>2. PICK b, h, x : Reaches(a, On(st, At(line, i, b, p + k, h, x), c, w))
    BY <2>1
  <2> DEFINE q == p + k
  <2>3. q \in Nat /\ q <= Len(content) /\ q + 1 = p + (k + 1) /\ q \in p..(p + g - 1)
    BY <1>1
  <2>4. read_token(whitespace, q) = Hit(1, <<Space>>)
    BY <2>3, SpaceHit DEF Blanks
  <2>5. Reaches(a, On(st, At(line, i, b, q, h, x), c, w))
    BY <2>2
  <2> HIDE DEF q
  <2>6. Reaches(a, On(st, At(line, i, 0, q + 1, "yes", "yes"), Parsed(c, "none", <<Space>>),
                      Walked(w, Parsed(c, "none", <<Space>>), "none", <<Space>>)))
    BY <2>3, <2>4, <2>5, TakeAgain DEF Often
  <2>7. Reaches(a, On(st, At(line, i, 0, q + 1, "yes", "yes"), c, w))
    BY <2>6, NoHandler
  <2> QED BY <2>3, <2>7
<1>4. g \in S
  <2> HIDE DEF S
  <2> QED BY <1>1, <1>2, <1>3, EveryNumber
<1>5. PICK b, h, x : Reaches(a, On(st, At(line, i, b, p + g, h, x), c, w))
  BY <1>1, <1>4
<1>6. p + g \in Nat
  BY <1>1
<1>7. read_token(whitespace, p + g) = Missed
  BY SpaceMiss DEF Blanks
<1>8. Reaches(a, On(st, At(line, i + 1, 0, p + g, "no", x), c, w))
  BY <1>1, <1>5, <1>6, <1>7, SkipToken DEF Often
<1> QED BY <1>8

------------------------------------------------------------------------------
(* Blanks, names and marks.                                                *)

IsWords(s) == IsSeq(s) /\ Len(s) > 0 /\ \A i \in 1..Len(s) : s[i] \in Words

LEMMA NotWords ==
    /\ Space \notin Words /\ "=" \notin Words /\ "<" \notin Words /\ ">" \notin Words /\ "/" \notin Words
    /\ "!" \notin Words /\ "?" \notin Words /\ "-" \notin Words /\ Quote \notin Words
<1>1. \A x \in Marks : x \notin Words
  BY EgramAssumption
<1> QED BY <1>1, EgramAssumption DEF Marks

LEMMA NotSpace ==
    /\ Space # "=" /\ Space # "<" /\ Space # ">" /\ Space # "/" /\ Space # "!" /\ Space # "?"
    /\ Space # "-" /\ Space # Quote /\ Space # "&"
<1>1. \A x \in Marks : x # Space
  BY EgramAssumption
<1> QED BY <1>1 DEF Marks

LEMMA OneShown ==
    ASSUME NEW p, NEW x, Shows(p, <<x>>)
    PROVE  p \in Nat \ {0} /\ p <= Len(content) /\ content[p] = x
<1>1. Len(<<x>>) = 1 /\ <<x>>[1] = x
  OBVIOUS
<1>2. p \in Nat \ {0} /\ p + 1 <= Len(content) + 1 /\ content[p + 1 - 1] = x
  <2> DEFINE s == <<x>>
  <2>1. Len(s) = 1 /\ s[1] = x /\ Shows(p, s)
    BY <1>1
  <2> HIDE DEF s
  <2> QED BY <2>1 DEF Shows
<1>3. p + 1 - 1 = p
  BY <1>2
<1> QED BY <1>2, <1>3

LEMMA TwoShown ==
    ASSUME NEW p, NEW x, NEW y, Shows(p, <<x, y>>)
    PROVE  p \in Nat \ {0} /\ content[p] = x /\ content[p + 1] = y
<1> DEFINE s == <<x, y>>
<1>1. Len(s) = 2 /\ s[1] = x /\ s[2] = y /\ Shows(p, s)
  OBVIOUS
<1> HIDE DEF s
<1>2. p \in Nat \ {0} /\ content[p + 1 - 1] = x /\ content[p + 2 - 1] = y
  BY <1>1 DEF Shows
<1>3. p + 1 - 1 = p /\ p + 2 - 1 = p + 1
  BY <1>2
<1> QED BY <1>2, <1>3

LEMMA ShortSeqs ==
    /\ \A x : IsSeq(<<x>>) /\ Len(<<x>>) = 1
    /\ \A x, y : IsSeq(<<x, y>>) /\ Len(<<x, y>>) = 2
    /\ \A x, y, z : IsSeq(<<x, y, z>>) /\ Len(<<x, y, z>>) = 3
    /\ \A x, y, z, u : IsSeq(<<x, y, z, u>>) /\ Len(<<x, y, z, u>>) = 4
<1>1. \A x : <<x>> \in Seq({x}) /\ Len(<<x>>) = 1
  OBVIOUS
<1>2. \A x, y : <<x, y>> \in Seq({x, y}) /\ Len(<<x, y>>) = 2
  OBVIOUS
<1>3. \A x, y, z : <<x, y, z>> \in Seq({x, y, z}) /\ Len(<<x, y, z>>) = 3
  OBVIOUS
<1>4. \A x, y, z, u : <<x, y, z, u>> \in Seq({x, y, z, u}) /\ Len(<<x, y, z, u>>) = 4
  OBVIOUS
<1> QED BY <1>1, <1>2, <1>3, <1>4 DEF IsSeq

AttrName(g, n) == Gap(g) \o n
AttrSign(g, n) == AttrName(g, n) \o <<"=", Quote>>
AttrHead(g, n, v) == AttrSign(g, n) \o v
AttrText(g, n, v) == AttrHead(g, n, v) \o <<Quote>>

LEMMA AttrLengths ==
    ASSUME NEW g \in Nat, NEW n, IsSeq(n), NEW v, IsSeq(v)
    PROVE  /\ IsSeq(AttrName(g, n)) /\ IsSeq(AttrSign(g, n)) /\ IsSeq(AttrHead(g, n, v))
           /\ IsSeq(AttrText(g, n, v))
           /\ Len(AttrName(g, n)) = g + Len(n) /\ Len(AttrSign(g, n)) = g + Len(n) + 2
           /\ Len(AttrHead(g, n, v)) = g + Len(n) + 2 + Len(v)
           /\ Len(AttrText(g, n, v)) = g + Len(n) + Len(v) + 3
<1> DEFINE e == <<"=", Quote>>
           f == <<Quote>>
<1>1. IsSeq(Gap(g)) /\ Len(Gap(g)) = g /\ IsSeq(e) /\ Len(e) = 2 /\ IsSeq(f) /\ Len(f) = 1
  BY GapFacts, ShortSeqs
<1>2. Len(n) \in Nat /\ Len(v) \in Nat
  BY LenNat
<1> HIDE DEF e, f
<1>3. IsSeq(AttrName(g, n))
  BY <1>1, ConcatSeq DEF AttrName
<1>4. Len(AttrName(g, n)) = g + Len(n)
  BY <1>1, ConcatLen DEF AttrName
<1>5. AttrSign(g, n) = AttrName(g, n) \o e
  BY DEF AttrSign, e
<1>6. IsSeq(AttrSign(g, n))
  BY <1>1, <1>3, <1>5, ConcatSeq
<1>7. Len(AttrSign(g, n)) = Len(AttrName(g, n)) + 2
  BY <1>1, <1>3, <1>5, ConcatLen
<1>8. IsSeq(AttrHead(g, n, v))
  BY <1>6, ConcatSeq DEF AttrHead
<1>9. Len(AttrHead(g, n, v)) = Len(AttrSign(g, n)) + Len(v)
  BY <1>6, ConcatLen DEF AttrHead
<1>10. AttrText(g, n, v) = AttrHead(g, n, v) \o f
  BY DEF AttrText, f
<1>11. IsSeq(AttrText(g, n, v))
  BY <1>1, <1>8, <1>10, ConcatSeq
<1>12. Len(AttrText(g, n, v)) = Len(AttrHead(g, n, v)) + 1
  BY <1>1, <1>8, <1>10, ConcatLen
<1> QED BY <1>2, <1>3, <1>4, <1>6, <1>7, <1>8, <1>9, <1>11, <1>12

LEMMA AttrParts ==
    ASSUME NEW p, NEW g \in Nat, NEW n, IsSeq(n), NEW v, IsSeq(v), Shows(p, AttrText(g, n, v))
    PROVE  /\ Shows(p, Gap(g)) /\ Shows(p + g, n)
           /\ content[p + g + Len(n)] = "=" /\ content[p + g + Len(n) + 1] = Quote
           /\ Shows(p + g + Len(n) + 2, v)
           /\ content[p + g + Len(n) + 2 + Len(v)] = Quote
<1> DEFINE t1 == AttrName(g, n)
           t2 == AttrSign(g, n)
           t3 == AttrHead(g, n, v)
<1>1. /\ IsSeq(t1) /\ IsSeq(t2) /\ IsSeq(t3)
      /\ Len(t1) = g + Len(n) /\ Len(t2) = g + Len(n) + 2
      /\ Len(t3) = g + Len(n) + 2 + Len(v)
  BY AttrLengths
<1>2. Len(n) \in Nat /\ Len(v) \in Nat
  BY LenNat
<1>4. Shows(p, t3 \o <<Quote>>)
  BY DEF AttrText
<1>5. Shows(p, t3) /\ Shows(p + Len(t3), <<Quote>>)
  <2> HIDE DEF t3
  <2> QED BY <1>1, <1>4, ShortSeqs, ShowsParts
<1>6. Shows(p, t2) /\ Shows(p + Len(t2), v)
  <2>1. Shows(p, t2 \o v)
    BY <1>5 DEF AttrHead
  <2> HIDE DEF t2
  <2> QED BY <1>1, <2>1, ShowsParts
<1>7. Shows(p, t1) /\ Shows(p + Len(t1), <<"=", Quote>>)
  <2>1. Shows(p, t1 \o <<"=", Quote>>)
    BY <1>6 DEF AttrSign
  <2> HIDE DEF t1
  <2> QED BY <1>1, <2>1, ShortSeqs, ShowsParts
<1>8. Shows(p, Gap(g)) /\ Shows(p + g, n)
  <2>1. Shows(p, Gap(g) \o n)
    BY <1>7 DEF AttrName
  <2>2. IsSeq(Gap(g)) /\ Len(Gap(g)) = g
    BY GapFacts
  <2> QED BY <2>1, <2>2, ShowsParts
<1> HIDE DEF t1, t2, t3
<1>9. p \in Nat
  BY <1>8 DEF Shows
<1>10. content[p + Len(t1)] = "=" /\ content[p + Len(t1) + 1] = Quote
  BY <1>7, TwoShown
<1>11. content[p + Len(t3)] = Quote
  BY <1>5, OneShown
<1>12. p + Len(t1) = p + g + Len(n) /\ p + Len(t1) + 1 = p + g + Len(n) + 1
       /\ p + Len(t2) = p + g + Len(n) + 2 /\ p + Len(t3) = p + g + Len(n) + 2 + Len(v)
  BY <1>1, <1>2, <1>9
<1> QED BY <1>6, <1>8, <1>10, <1>11, <1>12

\* An attribute
AttrParsed(c, n, v) ==
    Parsed(Parsed(Parsed(c, "set_attr_name", n), "set_attr_value", v), "accept_attr", <<>>)

LEMMA AttrRead ==
    ASSUME IsSeq(content), NEW a, NEW st, IsSeq(st), NEW line, NEW i, OftenOf(line, i, <<"attr_line">>),
           NEW alt, NEW p, NEW hit, NEW some, NEW c, NEW w,
           Reaches(a, On(st, At(line, i, alt, p, hit, some), c, w)),
           NEW g \in Nat, NEW n, IsWords(n), NEW v, IsSeq(v), Len(v) <= MAX_TOKEN_LEN,
           \A k \in 1..Len(v) : v[k] # Quote, Shows(p, AttrText(g, n, v))
    PROVE  Reaches(a, On(st, At(line, i, 0, p + Len(AttrText(g, n, v)), "yes", "yes"),
                         AttrParsed(c, n, v), w))
<1> DEFINE s == Append(st, At(line, i, 1, p, hit, some))
           q1 == p + g
           q2 == q1 + Len(n)
           q3 == q2 + 1
           q4 == q3 + (Len(v) + 2)
           c1 == Parsed(c, "set_attr_name", n)
           c2 == Parsed(c1, "set_attr_value", v)
<1>1. IsSeq(n) /\ Len(n) \in Nat /\ Len(n) > 0 /\ Len(v) \in Nat /\ Len(content) \in Nat
  BY AppendFacts DEF IsWords
<1>2. /\ Shows(p, Gap(g)) /\ Shows(q1, n) /\ content[q2] = "=" /\ content[q3] = Quote
      /\ Shows(q3 + 1, v) /\ content[q3 + 1 + Len(v)] = Quote
  <2>1. p \in Nat
    BY DEF Shows
  <2>2. q3 + 1 = p + g + Len(n) + 2
    BY <1>1, <2>1
  <2> QED BY <1>1, <2>2, AttrParts
<1>3. /\ p \in Nat \ {0} /\ q1 \in Nat \ {0} /\ q2 \in Nat \ {0} /\ q3 \in Nat \ {0} /\ q4 = p + (g + Len(n) + Len(v) + 3)
      /\ p <= Len(content) /\ q1 <= Len(content) /\ q2 <= Len(content) /\ q3 <= Len(content)
      /\ q3 + 1 + Len(v) <= Len(content)
  <2>1. p \in Nat \ {0} /\ p + Len(AttrText(g, n, v)) <= Len(content) + 1
    BY DEF Shows
  <2>2. Len(AttrText(g, n, v)) = g + Len(n) + Len(v) + 3
    BY <1>1, AttrLengths
  <2> HIDE DEF c1, c2, s
  <2> QED BY <1>1, <2>1, <2>2
<1>4. IsSeq(s)
  BY PushFacts
<1>5. Reaches(a, On(s, At("attr_line", 1, 0, p, "no", "no"), c, w))
  <2> DEFINE e == <<"attr_line">>
  <2>1. e[1] = "attr_line" /\ OftenOf(line, i, e)
    OBVIOUS
  <2> HIDE DEF e
  <2>2. Reaches(a, On(s, At(e[1], 1, 0, p, "no", "no"), c, w))
    BY <1>3, <2>1, Enter DEF OftenOf
  <2> QED BY <2>1, <2>2
<1>6. Blanks(p, g)
  <2>1. content[q1] \in Words
    <3>1. content[q1 + 1 - 1] = n[1] /\ n[1] \in Words
      BY <1>1, <1>2 DEF Shows, IsWords
    <3>2. q1 + 1 - 1 = q1
      BY <1>3
    <3> QED BY <3>1, <3>2
  <2> QED BY <1>2, <1>3, <2>1, NotWords, GapIsBlanks
<1> HIDE DEF s, q1
<1>7. PICK x : Reaches(a, On(s, At("attr_line", 2, 0, q1, "no", x), c, w))
  <2>1. Often("attr_line", 1, whitespace, "none")
    BY AttrSymbols
  <2>2. \E x : Reaches(a, On(s, At("attr_line", 1 + 1, 0, p + g, "no", x), c, w))
    BY <1>4, <1>5, <1>6, <2>1, SkipBlanks
  <2> QED BY <2>2 DEF q1
<1> HIDE DEF q2
<1>8. Reaches(a, On(s, At("attr_line", 3, 0, q2, "yes", x), c1, w))
  <2>1. Need("attr_line", 2, alphanum, "set_attr_name")
    BY AttrSymbols
  <2>2. read_token(alphanum, q1) = Hit(Len(n), n)
    BY <1>1, <1>2, <1>3, NotWords, NameRead DEF IsWords, q2
  <2>3. Reaches(a, On(s, At("attr_line", 2 + 1, 0, q1 + Len(n), "yes", x), c1,
                      Walked(w, c1, "set_attr_name", n)))
    BY <1>1, <1>3, <1>4, <1>7, <2>1, <2>2, TakeOnce DEF Need
  <2>4. Walked(w, c1, "set_attr_name", n) = w
    BY NotWalked
  <2> QED BY <2>3, <2>4 DEF q2
<1> HIDE DEF q3, c1
<1>9. Reaches(a, On(s, At("attr_line", 4, 0, q3, "yes", x), c1, w))
  <2>1. Need("attr_line", 3, Literal(<<"=">>), "none")
    BY AttrSymbols
  <2> DEFINE lit == <<"=">>
  <2>2. read_token(Literal(lit), q2) = Hit(1, lit)
    <3>1. q2 \in 1..Len(content)
      BY <1>1, <1>3
    <3> QED BY <1>2, <3>1, CharRead
  <2> HIDE DEF lit
  <2>3. Need("attr_line", 3, Literal(lit), "none")
    BY <2>1 DEF lit
  <2>4. Reaches(a, On(s, At("attr_line", 3 + 1, 0, q2 + 1, "yes", x), Parsed(c1, "none", lit),
                      Walked(w, Parsed(c1, "none", lit), "none", lit)))
    BY <1>3, <1>4, <1>8, <2>2, <2>3, TakeOnce DEF Need
  <2> QED BY <2>4, NoHandler DEF q3
<1> HIDE DEF q4, c2
<1>10. Reaches(a, On(s, At("attr_line", 5, 0, q4, "yes", x), c2, w))
  <2>1. Need("attr_line", 4, attr_val, "set_attr_value")
    BY AttrSymbols
  <2>2. read_token(attr_val, q3) = Hit(Len(v) + 2, v)
    BY <1>2, <1>3, ValueRead
  <2> DEFINE m == Len(v) + 2
  <2>5. m \in Nat
    BY <1>1
  <2> HIDE DEF m
  <2>6. read_token(attr_val, q3) = Hit(m, v)
    BY <2>2 DEF m
  <2>7. Reaches(a, On(s, At("attr_line", 4 + 1, 0, q3 + m, "yes", x), Parsed(c1, "set_attr_value", v),
                      Walked(w, Parsed(c1, "set_attr_value", v), "set_attr_value", v)))
    BY <1>3, <1>4, <1>9, <2>1, <2>5, <2>6, TakeOnce DEF Need
  <2>3. Reaches(a, On(s, At("attr_line", 4 + 1, 0, q3 + (Len(v) + 2), "yes", x), c2,
                      Walked(w, c2, "set_attr_value", v)))
    BY <2>7 DEF m, c2
  <2>4. Walked(w, c2, "set_attr_value", v) = w
    BY NotWalked
  <2> QED BY <2>3, <2>4 DEF q4
<1>11. Reaches(a, On(st, At(line, i, 0, q4, "yes", "yes"), Parsed(c2, "accept_attr", <<>>), w))
  <2>1. Ended("attr_line") = 5 /\ Len(Lines["attr_line"]) \in Nat /\ AtEndOf("attr_line") = "accept_attr"
    BY AttrSymbols DEF AtEndOf
  <2>2. Reaches(a, On(Append(st, At(line, i, 1, p, hit, some)),
                      At("attr_line", Ended("attr_line"), 0, q4, "yes", x), c2, w))
    BY <1>10, <2>1 DEF s
  <2>3. Repeated(line, i)
    BY DEF OftenOf
  <2> DEFINE h == AtEndOf("attr_line")
             e == Parsed(c2, h, <<>>)
  <2>4. Reaches(a, On(st, At(line, i, 0, q4, "yes", "yes"), e, Walked(w, e, h, <<>>)))
    BY <2>1, <2>2, <2>3, ReturnAgain
  <2>5. e = Parsed(c2, "accept_attr", <<>>) /\ Walked(w, e, h, <<>>) = w
    BY <2>1, NotWalked
  <2> QED BY <2>4, <2>5
<1>12. q4 = p + Len(AttrText(g, n, v))
  <2>1. Len(AttrText(g, n, v)) = g + Len(n) + Len(v) + 3
    BY <1>1, AttrLengths
  <2> QED BY <1>3, <2>1
<1> QED BY <1>11, <1>12 DEF AttrParsed, c2, c1

------------------------------------------------------------------------------
(* Attributes, the header and comments.                                    *)

LEMMA PassToken ==
    ASSUME NEW a, NEW st, IsSeq(st), NEW line, NEW i, NEW t, Need(line, i, t, "none"), NEW alt,
           NEW p \in Nat, p <= Len(content), NEW hit, NEW some, NEW c, NEW w,
           Reaches(a, On(st, At(line, i, alt, p, hit, some), c, w)),
           NEW n \in Nat, NEW v, read_token(t, p) = Hit(n, v)
    PROVE  Reaches(a, On(st, At(line, i + 1, 0, p + n, "yes", some), c, w))
<1>1. Reaches(a, On(st, At(line, i + 1, 0, p + n, "yes", some), Parsed(c, "none", v),
                    Walked(w, Parsed(c, "none", v), "none", v)))
  BY TakeOnce DEF Need
<1> QED BY <1>1, NoHandler

\* and the end of the attributes.
LEMMA AttrsEnd ==
    ASSUME IsSeq(content), NEW a, NEW st, IsSeq(st), NEW line, NEW i \in Nat,
           OftenOf(line, i, <<"attr_line">>), Often(line, i + 1, whitespace, "none"),
           NEW alt, NEW p, NEW hit, NEW some, NEW c, NEW w,
           Reaches(a, On(st, At(line, i, alt, p, hit, some), c, w)),
           NEW g, Blanks(p, g), content[p + g] \notin Words
    PROVE  \E x : Reaches(a, On(st, At(line, i + 2, 0, p + g, "no", x), c, w))
<1> DEFINE f == At(line, i, 1, p, hit, some)
           s == Append(st, f)
           e == <<"attr_line">>
<1>1. p \in Nat \ {0} /\ g \in Nat /\ p + g <= Len(content) /\ Len(content) \in Nat /\ p <= Len(content)
      /\ p + g \in Nat /\ p + g \in 1..Len(content)
  BY LenNat DEF Blanks
<1>2. IsSeq(s)
  BY PushFacts
<1>3. e[1] = "attr_line" /\ OftenOf(line, i, e) /\ Len(e) = 1
  OBVIOUS
<1> HIDE DEF e
<1>4. Reaches(a, On(s, At("attr_line", 1, 0, p, "no", "no"), c, w))
  <2>2. Reaches(a, On(s, At(e[1], 1, 0, p, "no", "no"), c, w))
    BY <1>1, <1>3, Enter DEF OftenOf
  <2> QED BY <1>3, <2>2
<1> HIDE DEF s
<1>5. PICK x : Reaches(a, On(s, At("attr_line", 2, 0, p + g, "no", x), c, w))
  <2>1. Often("attr_line", 1, whitespace, "none")
    BY AttrSymbols
  <2>2. \E x : Reaches(a, On(s, At("attr_line", 1 + 1, 0, p + g, "no", x), c, w))
    BY <1>2, <1>4, <2>1, SkipBlanks
  <2> QED BY <2>2
<1>6. Fails(a, s, c, w)
  <2>1. Need("attr_line", 2, alphanum, "set_attr_name")
    BY AttrSymbols
  <2>2. read_token(alphanum, p + g) = Missed
    BY <1>1, NameMissed
  <2> QED BY <1>1, <1>2, <1>5, <2>1, <2>2, MissToken DEF Need
<1>7. Reaches(a, On(st, At(line, i + 1, 0, p, "no", some), c, w))
  <2>1. Fails(a, Append(st, At(line, i, 1, p, hit, some)), c, w)
    BY <1>6 DEF s
  <2> QED BY <1>3, <2>1, GiveUp DEF OftenOf
<1>8. \E x1 : Reaches(a, On(st, At(line, i + 1 + 1, 0, p + g, "no", x1), c, w))
  BY <1>7, SkipBlanks
<1>9. i + 1 + 1 = i + 2
  OBVIOUS
<1> QED BY <1>8, <1>9

\* A comment that is not there,
CommentMark == <<"<", "!", "-", "-">>
TagMark == <<"<">>
HeaderMark == <<"<", "?", "xml">>

LEMMA Marked ==
    /\ IsSeq(CommentMark) /\ Len(CommentMark) = 4
    /\ CommentMark[1] = "<" /\ CommentMark[2] = "!" /\ CommentMark[3] = "-" /\ CommentMark[4] = "-"
    /\ IsSeq(TagMark) /\ Len(TagMark) = 1 /\ TagMark[1] = "<"
    /\ IsSeq(HeaderMark) /\ Len(HeaderMark) = 3
    /\ HeaderMark[1] = "<" /\ HeaderMark[2] = "?" /\ HeaderMark[3] = "xml"
<1>1. CommentMark \in Seq({"<", "!", "-"}) /\ TagMark \in Seq({"<"}) /\ HeaderMark \in Seq({"<", "?", "xml"})
  BY DEF CommentMark, TagMark, HeaderMark
<1>2. /\ Len(CommentMark) = 4
      /\ CommentMark[1] = "<" /\ CommentMark[2] = "!" /\ CommentMark[3] = "-" /\ CommentMark[4] = "-"
  BY DEF CommentMark
<1>3. /\ Len(TagMark) = 1 /\ TagMark[1] = "<"
      /\ Len(HeaderMark) = 3
      /\ HeaderMark[1] = "<" /\ HeaderMark[2] = "?" /\ HeaderMark[3] = "xml"
  BY DEF TagMark, HeaderMark
<1> QED BY <1>1, <1>2, <1>3 DEF IsSeq

\* The input does not go on with the mark.
Differs(p, mark) == \E j \in 1..Len(mark) : p + j - 1 <= Len(content) /\ content[p + j - 1] # mark[j]

LEMMA MarkMissed ==
    ASSUME IsSeq(content), NEW p \in Nat \ {0}, NEW mark, IsSeq(mark), Differs(p, mark)
    PROVE  read_token(Literal(mark), p) = Missed
<1>1. PICK j \in 1..Len(mark) : p + j - 1 <= Len(content) /\ content[p + j - 1] # mark[j]
  BY DEF Differs
<1> QED BY <1>1, ConstMiss

\* A line that begins with blanks and a mark fails where the mark is not there.
LEMMA MarkedLineMissed ==
    ASSUME IsSeq(content), NEW a, NEW st, IsSeq(st), NEW line, NEW mark, IsSeq(mark), NEW h,
           Often(line, 1, whitespace, "none"), Need(line, 2, Literal(mark), h),
           NEW alt, NEW p, NEW hit, NEW some, NEW c, NEW w,
           Reaches(a, On(st, At(line, 1, alt, p, hit, some), c, w)),
           NEW g, Blanks(p, g), Differs(p + g, mark)
    PROVE  Fails(a, st, c, w)
<1>1. p \in Nat \ {0} /\ g \in Nat /\ p + g <= Len(content) /\ p + g \in Nat \ {0}
  BY DEF Blanks
<1>2. PICK x : Reaches(a, On(st, At(line, 2, 0, p + g, "no", x), c, w))
  <2>1. \E x : Reaches(a, On(st, At(line, 1 + 1, 0, p + g, "no", x), c, w))
    BY SkipBlanks
  <2> QED BY <2>1
<1>3. read_token(Literal(mark), p + g) = Missed
  BY <1>1, MarkMissed
<1> QED BY <1>1, <1>2, <1>3, MissToken DEF Need

\* Text up to the next dash
DashSet == <<"-">>

LEMMA DashSetIs == IsSeq(DashSet) /\ Range(DashSet) = {"-"}
<1>1. DashSet \in Seq({"-"}) /\ Len(DashSet) = 1 /\ DashSet[1] = "-"
  BY DEF DashSet
<1>2. IsSeq(DashSet)
  BY <1>1 DEF IsSeq
<1>3. 1 \in 1..Len(DashSet) /\ \A i \in 1..Len(DashSet) : i = 1
  BY <1>1
<1>4. \A x \in Range(DashSet) : x = "-"
  BY <1>1, <1>2, <1>3, RangeOf
<1>5. "-" \in Range(DashSet)
  BY <1>1, <1>2, <1>3, RangeOf
<1> QED BY <1>2, <1>4, <1>5

RunTo(r, n) ==
    /\ r \in Nat \ {0} /\ n \in Nat \ {0} /\ r + n <= Len(content) /\ content[r + n] = "-"
    /\ \A k \in r..(r + n - 1) : content[k] # "-"

LEMMA NextDash ==
    ASSUME NEW r \in Nat \ {0}, content[r] # "-", NEW e \in Nat, e > r, e <= Len(content),
           content[e] = "-", Len(content) \in Nat
    PROVE  \E n : RunTo(r, n) /\ r + n <= e
<1> DEFINE T == {k \in Nat : k > r /\ k <= e /\ content[k] = "-"}
<1>1. e \in T
  OBVIOUS
<1>2. T \in SUBSET Nat /\ T # {}
  BY <1>1
<1>3. PICK x \in T : \A y \in T : x <= y
  <2> HIDE DEF T
  <2> QED BY <1>2, LeastNat
<1> DEFINE n == x - r
<1>4. n \in Nat \ {0} /\ r + n = x /\ x <= e /\ x <= Len(content)
  BY <1>3
<1>5. ASSUME NEW k \in r..(x - 1) PROVE content[k] # "-"
  <2>1. k \in Nat /\ k < x /\ k <= e /\ (k = r \/ k > r)
    BY <1>4
  <2>2. CASE k = r
    BY <2>2
  <2>3. CASE k > r
    <3> SUFFICES ASSUME content[k] = "-" PROVE FALSE
      OBVIOUS
    <3>1. k \in T
      BY <2>1, <2>3
    <3>2. x <= k
      BY <1>3, <3>1
    <3> QED BY <2>1, <1>4, <3>2
  <2> QED BY <2>1, <2>2, <2>3
<1>6. content[x] = "-"
  BY <1>3
<1> HIDE DEF T, n
<1>7. RunTo(r, n)
  BY <1>4, <1>5, <1>6 DEF RunTo
<1> QED BY <1>4, <1>7

LEMMA RunTaken ==
    ASSUME IsSeq(content), NEW a, NEW st, IsSeq(st), NEW line, NEW i,
           Often(line, i, AnyBut(DashSet), "none"), NEW alt,
           NEW r, NEW n, RunTo(r, n), NEW hit, NEW some, NEW c, NEW w,
           Reaches(a, On(st, At(line, i, alt, r, hit, some), c, w))
    PROVE  Reaches(a, On(st, At(line, i + 1, 0, r + n, "no", "yes"), c, w))
<1>1. r \in Nat \ {0} /\ n \in Nat \ {0} /\ r + n <= Len(content) /\ content[r + n] = "-"
      /\ Len(content) \in Nat /\ r <= Len(content) /\ r + n \in Nat /\ r + n \in 1..Len(content)
  BY LenNat DEF RunTo
<1> DEFINE v == SubSeq(content, r, r + n - 1)
<1>2. read_token(AnyBut(DashSet), r) = Hit(n, v)
  <2>1. RunLength(r, {"-"}) = n
    BY <1>1, RunExact DEF RunTo
  <2>2. RunLength(r, Range(DashSet)) = n /\ n > 0
    BY <1>1, <2>1, DashSetIs
  <2> HIDE DEF v
  <2>3. read_any_but(DashSet, r) = Hit(n, v)
    BY <2>2 DEF read_any_but, v
  <2> QED BY <2>3 DEF read_token, AnyBut
<1> HIDE DEF v
<1>3. Reaches(a, On(st, At(line, i, 0, r + n, "yes", "yes"), Parsed(c, "none", v),
                    Walked(w, Parsed(c, "none", v), "none", v)))
  BY <1>1, <1>2, TakeAgain DEF Often
<1>4. Reaches(a, On(st, At(line, i, 0, r + n, "yes", "yes"), c, w))
  BY <1>3, NoHandler
<1>5. read_token(AnyBut(DashSet), r + n) = Missed
  BY <1>1, DashSetIs, TextMissed
<1> QED BY <1>1, <1>4, <1>5, SkipToken DEF Often

LEMMA RunMissed ==
    ASSUME IsSeq(content), NEW a, NEW st, IsSeq(st), NEW line, NEW i,
           Often(line, i, AnyBut(DashSet), "none"), NEW alt,
           NEW r \in 1..Len(content), content[r] = "-", NEW hit, NEW some, NEW c, NEW w,
           Reaches(a, On(st, At(line, i, alt, r, hit, some), c, w))
    PROVE  Reaches(a, On(st, At(line, i + 1, 0, r, "no", some), c, w))
<1>1. r \in Nat /\ r <= Len(content)
  BY LenNat
<1>2. read_token(AnyBut(DashSet), r) = Missed
  BY DashSetIs, TextMissed
<1> QED BY <1>1, <1>2, SkipToken DEF Often

CommentTries(st, alt, r, hit, some) == Append(st, At("comment_line", 3, alt, r, hit, some))

LEMMA BodySymbol == Often("comment_content_line", 1, AnyBut(DashSet), "none")
  BY BodySymbols DEF DashSet
LEMMA DashSymbol ==
    /\ Maybe("comment_content_dash_escaped_line", 1, Literal(DashSet), "none")
    /\ Often("comment_content_dash_escaped_line", 2, AnyBut(DashSet), "none")
  BY DashSymbols DEF DashSet
LEMMA CommentChoice ==
    /\ OftenOf("comment_line", 3, comment_value_pack) /\ Len(comment_value_pack) = 2
    /\ comment_value_pack[1] = "comment_content_line"
    /\ comment_value_pack[2] = "comment_content_dash_escaped_line"
  BY CommentSymbols DEF comment_value_pack

LEMMA BodyTried ==
    ASSUME IsSeq(content), NEW a, NEW st, IsSeq(st), NEW alt,
           NEW r \in 1..Len(content), NEW hit, NEW some, NEW c, NEW w,
           Reaches(a, On(st, At("comment_line", 3, alt, r, hit, some), c, w))
    PROVE  Reaches(a, On(CommentTries(st, 1, r, hit, some),
                         At("comment_content_line", 1, 0, r, "no", "no"), c, w))
<1>1. r \in Nat /\ r <= Len(content)
  BY LenNat
<1> DEFINE e == comment_value_pack
<1>2. OftenOf("comment_line", 3, e) /\ e[1] = "comment_content_line"
  BY CommentChoice
<1> HIDE DEF e
<1>3. Reaches(a, On(Append(st, At("comment_line", 3, 1, r, hit, some)), At(e[1], 1, 0, r, "no", "no"), c, w))
  BY <1>1, <1>2, Enter DEF OftenOf
<1> QED BY <1>2, <1>3 DEF CommentTries

\* A dash is left to the second line of the choice.
LEMMA DashTried ==
    ASSUME IsSeq(content), NEW a, NEW st, IsSeq(st), NEW alt,
           NEW r \in 1..Len(content), content[r] = "-", NEW hit, NEW some, NEW c, NEW w,
           Reaches(a, On(st, At("comment_line", 3, alt, r, hit, some), c, w))
    PROVE  Reaches(a, On(CommentTries(st, 2, r, hit, some),
                         At("comment_content_dash_escaped_line", 2, 0, r + 1, "yes", "no"), c, w))
<1> DEFINE s1 == CommentTries(st, 1, r, hit, some)
           s2 == CommentTries(st, 2, r, hit, some)
           e == comment_value_pack
           dash == "comment_content_dash_escaped_line"
<1>1. r \in Nat /\ r <= Len(content)
  BY LenNat
<1>2. IsSeq(s1) /\ IsSeq(s2)
  BY PushFacts DEF CommentTries
<1>3. Reaches(a, On(s1, At("comment_content_line", 1, 0, r, "no", "no"), c, w))
  BY BodyTried
<1>4. OftenOf("comment_line", 3, e) /\ e[1] = "comment_content_line" /\ e[2] = dash /\ Len(e) = 2
  BY CommentChoice
<1>5. Often("comment_content_line", 1, AnyBut(DashSet), "none")
  BY BodySymbol
<1> HIDE DEF s1, s2, e, dash
<1>6. Fails(a, s1, c, w)
  <2>1. Reaches(a, On(s1, At("comment_content_line", 1 + 1, 0, r, "no", "no"), c, w))
    BY <1>2, <1>3, <1>5, RunMissed
  <2>2. Ended("comment_content_line") = 2 /\ Len(Lines["comment_content_line"]) \in Nat
    BY BodySymbols
  <2>3. Reaches(a, On(s1, At("comment_content_line", Ended("comment_content_line"), 0, r, "no", "no"), c, w))
    BY <2>1, <2>2
  <2> QED BY <2>2, <2>3, NothingMatched
<1>7. Reaches(a, On(s2, At(dash, 1, 0, r, "no", "no"), c, w))
  <2>1. Fails(a, Append(st, At("comment_line", 3, 1, r, hit, some)), c, w)
    BY <1>6 DEF s1, CommentTries
  <2>2. 1 \in Nat /\ 1 + 1 <= Len(e) /\ 1 + 1 = 2
    BY <1>4
  <2>3. Reaches(a, On(Append(st, At("comment_line", 3, 1 + 1, r, hit, some)),
                      At(e[1 + 1], 1, 0, r, "no", "no"), c, w))
    BY <1>4, <2>1, <2>2, TryNext DEF OftenOf
  <2> QED BY <1>4, <2>2, <2>3 DEF s2, CommentTries
<1>8. read_token(Literal(DashSet), r) = Hit(1, DashSet)
  BY CharRead DEF DashSet
<1>9. Maybe(dash, 1, Literal(DashSet), "none")
  BY DashSymbol DEF dash
<1>10. Reaches(a, On(s2, At(dash, 1 + 1, 0, r + 1, "yes", "no"), Parsed(c, "none", DashSet),
                    Walked(w, Parsed(c, "none", DashSet), "none", DashSet)))
  BY <1>1, <1>2, <1>7, <1>8, <1>9, TakeOnce DEF Maybe
<1>11. Reaches(a, On(s2, At(dash, 2, 0, r + 1, "yes", "no"), c, w))
  BY <1>10, NoHandler
<1> QED BY <1>11 DEF s2, dash

LEMMA BodyReturns ==
    ASSUME NEW a, NEW st, IsSeq(st), NEW sub,
           sub \in {"comment_content_line", "comment_content_dash_escaped_line"},
           NEW alt, NEW r, NEW hit, NEW some, NEW q, NEW subhit, NEW c, NEW w,
           Reaches(a, On(CommentTries(st, alt, r, hit, some), At(sub, Ended(sub), 0, q, subhit, "yes"), c, w))
    PROVE  Reaches(a, On(st, At("comment_line", 3, 0, q, "yes", "yes"), c, w))
<1>1. Len(Lines[sub]) \in Nat /\ AtEndOf(sub) = "none"
  BY BodySymbols, DashSymbols DEF AtEndOf
<1>2. Repeated("comment_line", 3)
  BY CommentSymbols DEF OftenOf
<1>3. Reaches(a, On(Append(st, At("comment_line", 3, alt, r, hit, some)),
                    At(sub, Ended(sub), 0, q, subhit, "yes"), c, w))
  BY DEF CommentTries
<1> DEFINE h == AtEndOf(sub)
<1>4. Reaches(a, On(st, At("comment_line", 3, 0, q, "yes", "yes"), Parsed(c, h, <<>>),
                    Walked(w, Parsed(c, h, <<>>), h, <<>>)))
  BY <1>1, <1>2, <1>3, ReturnAgain
<1> QED BY <1>1, <1>4, NoHandler

EndMark == <<"-", "-", ">">>
IsBody(s) == IsSeq(s) /\ \A i \in 1..Len(s) : s[i] = "-" => i < Len(s) /\ s[i + 1] # "-"

LEMMA EndMarked ==
    IsSeq(EndMark) /\ Len(EndMark) = 3 /\ EndMark[1] = "-" /\ EndMark[2] = "-" /\ EndMark[3] = ">"
<1>1. EndMark \in Seq({"-", ">"})
  BY DEF EndMark
<1>2. Len(EndMark) = 3 /\ EndMark[1] = "-" /\ EndMark[2] = "-" /\ EndMark[3] = ">"
  BY DEF EndMark
<1> QED BY <1>1, <1>2 DEF IsSeq

LEMMA ShownAt ==
    ASSUME NEW p, NEW s, Shows(p, s), NEW i \in 1..Len(s)
    PROVE  content[p + i - 1] = s[i]
  BY DEF Shows

\* One round over the body: a text without dashes, or a dash and a text.
LEMMA BodyRound ==
    ASSUME IsSeq(content), NEW q, NEW s, IsBody(s), Shows(q, s), Shows(q + Len(s), EndMark),
           NEW j \in Nat, j < Len(s), NEW a, NEW st, IsSeq(st), NEW alt, NEW hit, NEW some, NEW c, NEW w,
           Reaches(a, On(st, At("comment_line", 3, alt, q + j, hit, some), c, w))
    PROVE  \E k \in Nat : /\ j < k /\ k <= Len(s)
                          /\ Reaches(a, On(st, At("comment_line", 3, 0, q + k, "yes", "yes"), c, w))
<1> DEFINE r == q + j
           e == q + Len(s)
<1>1. q \in Nat \ {0} /\ Len(s) \in Nat /\ Len(content) \in Nat /\ IsSeq(s)
  BY LenNat DEF Shows
<1>2. e + 3 <= Len(content) + 1
  BY EndMarked DEF Shows
<1>3. content[e] = "-"
  <2>1. content[e + 1 - 1] = EndMark[1]
    <3>1. 1 \in 1..Len(EndMark) /\ Shows(e, EndMark)
      BY EndMarked
    <3> HIDE DEF e
    <3> QED BY <3>1, ShownAt
  <2> QED BY <1>1, <2>1, EndMarked
<1>4. r \in Nat \ {0} /\ e \in Nat /\ e > r /\ e <= Len(content) /\ r \in 1..Len(content)
      /\ r + 1 \in Nat \ {0} /\ j + 1 \in 1..Len(s)
  BY <1>1, <1>2
<1>5. content[r] = s[j + 1]
  <2>1. content[q + (j + 1) - 1] = s[j + 1]
    BY <1>4, ShownAt
  <2>2. q + (j + 1) - 1 = r
    BY <1>1
  <2> QED BY <2>1, <2>2
<1>6. CASE content[r] # "-"
  <2>1. PICK n : RunTo(r, n) /\ r + n <= e
    BY <1>1, <1>3, <1>4, <1>6, NextDash
  <2>2. Reaches(a, On(CommentTries(st, 1, r, hit, some),
                      At("comment_content_line", 1, 0, r, "no", "no"), c, w))
    BY <1>4, BodyTried
  <2>3. IsSeq(CommentTries(st, 1, r, hit, some))
    BY PushFacts DEF CommentTries
  <2>4. Often("comment_content_line", 1, AnyBut(DashSet), "none") /\ Ended("comment_content_line") = 2
    BY BodySymbol, BodySymbols
  <2> HIDE DEF r, e
  <2>5. Reaches(a, On(CommentTries(st, 1, r, hit, some),
                      At("comment_content_line", 1 + 1, 0, r + n, "no", "yes"), c, w))
    BY <2>1, <2>2, <2>3, <2>4, RunTaken
  <2>6. Reaches(a, On(CommentTries(st, 1, r, hit, some),
                      At("comment_content_line", Ended("comment_content_line"), 0, r + n, "no", "yes"), c, w))
    BY <2>4, <2>5
  <2>7. Reaches(a, On(st, At("comment_line", 3, 0, r + n, "yes", "yes"), c, w))
    BY <2>6, BodyReturns
  <2>8. n \in Nat \ {0}
    BY <2>1 DEF RunTo
  <2>9. j + n \in Nat /\ j < j + n /\ j + n <= Len(s) /\ q + (j + n) = r + n
    BY <1>1, <2>1, <2>8 DEF r, e
  <2> QED BY <2>7, <2>9
<1>7. CASE content[r] = "-"
  <2>1. j + 1 < Len(s) /\ s[j + 2] # "-"
    <3>1. j + 1 + 1 = j + 2
      OBVIOUS
    <3> QED BY <1>4, <1>5, <1>7, <3>1 DEF IsBody
  <2> DEFINE r1 == r + 1
  <2>2. content[r1] = s[j + 2]
    <3>1. j + 2 \in 1..Len(s)
      BY <1>1, <2>1
    <3>2. content[q + (j + 2) - 1] = s[j + 2]
      BY <3>1, ShownAt
    <3>3. q + (j + 2) - 1 = r1
      BY <1>1
    <3> QED BY <3>2, <3>3
  <2>3. r1 \in Nat \ {0} /\ e > r1
    BY <1>1, <1>4, <2>1
  <2>4. content[r1] # "-"
    BY <2>1, <2>2
  <2>5. Reaches(a, On(CommentTries(st, 2, r, hit, some),
                      At("comment_content_dash_escaped_line", 2, 0, r1, "yes", "no"), c, w))
    BY <1>4, <1>7, DashTried
  <2> HIDE DEF r1
  <2>6. PICK n : RunTo(r1, n) /\ r1 + n <= e
    BY <1>1, <1>3, <1>4, <2>3, <2>4, NextDash
  <2>7. IsSeq(CommentTries(st, 2, r, hit, some))
    BY PushFacts DEF CommentTries
  <2>8. Often("comment_content_dash_escaped_line", 2, AnyBut(DashSet), "none")
        /\ Ended("comment_content_dash_escaped_line") = 3
    BY DashSymbol, DashSymbols
  <2> HIDE DEF r, e
  <2>9. Reaches(a, On(CommentTries(st, 2, r, hit, some),
                      At("comment_content_dash_escaped_line", 2 + 1, 0, r1 + n, "no", "yes"), c, w))
    BY <2>5, <2>6, <2>7, <2>8, RunTaken
  <2>10. Reaches(a, On(CommentTries(st, 2, r, hit, some),
                      At("comment_content_dash_escaped_line", Ended("comment_content_dash_escaped_line"),
                         0, r1 + n, "no", "yes"), c, w))
    BY <2>8, <2>9
  <2>11. Reaches(a, On(st, At("comment_line", 3, 0, r1 + n, "yes", "yes"), c, w))
    BY <2>10, BodyReturns
  <2>12. n \in Nat \ {0}
    BY <2>6 DEF RunTo
  <2> DEFINE k == j + 1 + n
  <2>13. k \in Nat /\ j < k /\ k <= Len(s) /\ q + k = r1 + n
    BY <1>1, <2>6, <2>12 DEF r, e, r1
  <2> HIDE DEF k
  <2> QED BY <2>11, <2>13
<1> QED BY <1>6, <1>7

\* The end of the body, which a dash begins,
LEMMA BodyEnds ==
    ASSUME IsSeq(content), NEW r, Shows(r, EndMark),
           NEW a, NEW st, IsSeq(st), NEW alt, NEW hit, NEW some, NEW c, NEW w,
           Reaches(a, On(st, At("comment_line", 3, alt, r, hit, some), c, w))
    PROVE  Reaches(a, On(st, At("comment_line", 5, 0, r + 3, "yes", some), c, w))
<1> DEFINE r1 == r + 1
           s2 == CommentTries(st, 2, r, hit, some)
           dash == "comment_content_dash_escaped_line"
           e == comment_value_pack
<1>1. r \in Nat \ {0} /\ r + 3 <= Len(content) + 1 /\ Len(content) \in Nat
      /\ \A i \in 1..3 : content[r + i - 1] = EndMark[i]
  BY LenNat, EndMarked DEF Shows
<1>2. content[r] = "-" /\ content[r1] = "-"
  <2>1. content[r + 1 - 1] = "-" /\ content[r + 2 - 1] = "-"
    BY <1>1, EndMarked
  <2>2. r + 1 - 1 = r /\ r + 2 - 1 = r1
    BY <1>1
  <2> QED BY <2>1, <2>2
<1>3. r \in 1..Len(content) /\ r1 \in 1..Len(content) /\ r <= Len(content) /\ r \in Nat
  BY <1>1
<1>4. Reaches(a, On(s2, At(dash, 2, 0, r1, "yes", "no"), c, w))
  BY <1>2, <1>3, DashTried
<1>5. IsSeq(s2)
  BY PushFacts DEF CommentTries
<1>6. Often(dash, 2, AnyBut(DashSet), "none") /\ Ended(dash) = 3 /\ Len(Lines[dash]) \in Nat
  BY DashSymbol, DashSymbols
<1> HIDE DEF r1, s2, dash
<1>7. Reaches(a, On(s2, At(dash, 2 + 1, 0, r1, "no", "no"), c, w))
  BY <1>2, <1>3, <1>4, <1>5, <1>6, RunMissed
<1>8. Fails(a, s2, c, w)
  <2>1. Reaches(a, On(s2, At(dash, Ended(dash), 0, r1, "no", "no"), c, w))
    BY <1>6, <1>7
  <2> QED BY <1>6, <2>1, NothingMatched
<1>9. OftenOf("comment_line", 3, e) /\ Len(e) = 2
  BY CommentChoice
<1> HIDE DEF e
<1>10. Reaches(a, On(st, At("comment_line", 4, 0, r, "no", some), c, w))
  <2>1. Fails(a, Append(st, At("comment_line", 3, 2, r, hit, some)), c, w)
    BY <1>8 DEF s2, CommentTries
  <2>2. Reaches(a, On(st, At("comment_line", 3 + 1, 0, r, "no", some), c, w))
    BY <1>9, <2>1, GiveUp DEF OftenOf
  <2> QED BY <2>2
<1>11. Need("comment_line", 4, Literal(EndMark), "none")
  BY CommentSymbols DEF EndMark
<1>12. read_token(Literal(EndMark), r) = Hit(3, EndMark)
  <2>1. read_token(Literal(EndMark), r) = Hit(Len(EndMark), EndMark)
    <3>1. Len(EndMark) > 0
      BY EndMarked
    <3> QED BY <3>1, ConstHit
  <2> QED BY <2>1, EndMarked
<1>13. Reaches(a, On(st, At("comment_line", 4 + 1, 0, r + 3, "yes", some), c, w))
  BY <1>3, <1>10, <1>11, <1>12, PassToken
<1> QED BY <1>13

\* and the whole comment.
LEMMA CommentRead ==
    ASSUME IsSeq(content), NEW a, NEW st, IsSeq(st), NEW alt, NEW p, NEW hit, NEW some, NEW c, NEW w,
           Reaches(a, On(st, At("comment_line", 1, alt, p, hit, some), c, w)),
           NEW g, Blanks(p, g), NEW s, IsBody(s),
           Shows(p + g, CommentMark), Shows(p + g + 4, s), Shows(p + g + 4 + Len(s), EndMark)
    PROVE  \E x : Reaches(a, On(st, At("comment_line", 5, 0, p + g + 4 + Len(s) + 3, "yes", x), c, w))
<1> DEFINE q == p + g + 4
<1>1. p \in Nat \ {0} /\ g \in Nat /\ p + g <= Len(content) /\ p + g \in Nat /\ q \in Nat /\ Len(s) \in Nat
      /\ IsSeq(s)
  BY LenNat DEF Blanks, IsBody
<1>2. PICK x : Reaches(a, On(st, At("comment_line", 2, 0, p + g, "no", x), c, w))
  <2>1. Often("comment_line", 1, whitespace, "none")
    BY CommentSymbols
  <2>2. \E x : Reaches(a, On(st, At("comment_line", 1 + 1, 0, p + g, "no", x), c, w))
    BY <2>1, SkipBlanks
  <2> QED BY <2>2
<1>3. Reaches(a, On(st, At("comment_line", 3, 0, q, "yes", x), c, w))
  <2>1. Need("comment_line", 2, Literal(CommentMark), "none")
    BY CommentSymbols DEF CommentMark
  <2>2. read_token(Literal(CommentMark), p + g) = Hit(4, CommentMark)
    <3>1. Len(CommentMark) > 0
      BY Marked
    <3>2. read_token(Literal(CommentMark), p + g) = Hit(Len(CommentMark), CommentMark)
      BY <3>1, ConstHit
    <3> QED BY <3>2, Marked
  <2>3. Reaches(a, On(st, At("comment_line", 2 + 1, 0, p + g + 4, "yes", x), c, w))
    BY <1>1, <1>2, <2>1, <2>2, PassToken
  <2> QED BY <2>3
<1>4. Shows(q, s) /\ Shows(q + Len(s), EndMark)
  OBVIOUS
<1> HIDE DEF q
<1> DEFINE Got(k) == \E h, y, b : Reaches(a, On(st, At("comment_line", 3, b, q + k, h, y), c, w))
           S == {n \in Nat : n <= Len(s) => \E k \in Nat : n <= k /\ k <= Len(s) /\ Got(k)}
<1>5. 0 \in S
  <2>1. q + 0 = q
    BY <1>1
  <2>2. Got(0)
    BY <1>3, <2>1
  <2> HIDE DEF Got
  <2> QED BY <1>1, <2>2
<1>6. ASSUME NEW n \in Nat, n \in S PROVE n + 1 \in S
  <2> SUFFICES ASSUME n + 1 <= Len(s)
               PROVE  \E k \in Nat : n + 1 <= k /\ k <= Len(s) /\ Got(k)
    OBVIOUS
  <2>1. n <= Len(s)
    BY <1>1
  <2>2. PICK k \in Nat : n <= k /\ k <= Len(s) /\ Got(k)
    BY <1>6, <2>1
  <2>3. CASE k = n
    <3>1. PICK h, y, b : Reaches(a, On(st, At("comment_line", 3, b, q + k, h, y), c, w))
      BY <2>2
    <3>2. k < Len(s)
      BY <1>1, <2>3
    <3>3. \E m \in Nat : /\ k < m /\ m <= Len(s)
                         /\ Reaches(a, On(st, At("comment_line", 3, 0, q + m, "yes", "yes"), c, w))
      BY <1>4, <3>1, <3>2, BodyRound
    <3>4. PICK m \in Nat : /\ k < m /\ m <= Len(s)
                           /\ Reaches(a, On(st, At("comment_line", 3, 0, q + m, "yes", "yes"), c, w))
      BY <3>3
    <3>5. Got(m)
      BY <3>4
    <3>6. n + 1 <= m
      BY <2>3, <3>4
    <3> QED BY <3>4, <3>5, <3>6
  <2>4. CASE k # n
    <3>1. n + 1 <= k
      BY <2>2, <2>4
    <3> QED BY <2>2, <3>1
  <2> QED BY <2>3, <2>4
<1>7. \A n \in Nat : n \in S
  <2> HIDE DEF S
  <2> QED BY <1>5, <1>6, EveryNumber
<1>8. \E k \in Nat : Len(s) <= k /\ k <= Len(s) /\ Got(k)
  <2> HIDE DEF Got
  <2> QED BY <1>1, <1>7
<1>9. Got(Len(s))
  <2>1. \A k \in Nat : Len(s) <= k /\ k <= Len(s) => k = Len(s)
    BY <1>1
  <2> HIDE DEF Got
  <2> QED BY <1>8, <2>1
<1>10. PICK h, y, b : Reaches(a, On(st, At("comment_line", 3, b, q + Len(s), h, y), c, w))
  BY <1>9
<1>11. Reaches(a, On(st, At("comment_line", 5, 0, q + Len(s) + 3, "yes", y), c, w))
  BY <1>4, <1>10, BodyEnds
<1> QED BY <1>11 DEF q

\* The beginning of a tag
TagParsed(c, s) == Parsed(do_tag_reset(c), "set_tag_name", s)

LEMMA ResetParsed == ASSUME NEW c, NEW v PROVE Parsed(c, "do_tag_reset", v) = do_tag_reset(c)
  BY DEF Parsed

LEMMA MarkTaken ==
    ASSUME IsSeq(content), NEW a, NEW st, IsSeq(st), NEW alt, NEW p, NEW hit, NEW some, NEW c, NEW w,
           Reaches(a, On(st, At("rule_xml_tag", 1, alt, p, hit, some), c, w)),
           NEW g, Blanks(p, g), content[p + g] = "<"
    PROVE  \E x : Reaches(a, On(st, At("rule_xml_tag", 3, 0, p + g + 1, "yes", x), do_tag_reset(c), w))
<1>1. p + g \in 1..Len(content) /\ p + g \in Nat /\ p + g <= Len(content)
  BY LenNat DEF Blanks
<1>2. Often("rule_xml_tag", 1, whitespace, "none") /\ Need("rule_xml_tag", 2, Literal(<<"<">>), "do_tag_reset")
  BY TagSymbols
<1>3. PICK x : Reaches(a, On(st, At("rule_xml_tag", 1 + 1, 0, p + g, "no", x), c, w))
  BY <1>2, SkipBlanks
<1>4. Reaches(a, On(st, At("rule_xml_tag", 2, 0, p + g, "no", x), c, w))
  BY <1>3
<1>5. read_token(Literal(<<"<">>), p + g) = Hit(1, <<"<">>)
  BY <1>1, CharRead
<1> DEFINE e == Parsed(c, "do_tag_reset", <<"<">>)
<1>6. Reaches(a, On(st, At("rule_xml_tag", 2 + 1, 0, p + g + 1, "yes", x),
                    e, Walked(w, e, "do_tag_reset", <<"<">>)))
  BY <1>1, <1>2, <1>4, <1>5, TakeOnce DEF Need
<1>7. e = do_tag_reset(c) /\ Walked(w, e, "do_tag_reset", <<"<">>) = w
  BY ResetParsed, NotWalked
<1> HIDE DEF e
<1> QED BY <1>6, <1>7

LEMMA TagBegun ==
    ASSUME IsSeq(content), NEW a, NEW st, IsSeq(st), NEW alt, NEW p, NEW hit, NEW some, NEW c, NEW w,
           Reaches(a, On(st, At("rule_xml_tag", 1, alt, p, hit, some), c, w)),
           NEW g, Blanks(p, g), content[p + g] = "<", NEW s, IsWords(s), Shows(p + g + 1, s),
           p + g + 1 + Len(s) <= Len(content), content[p + g + 1 + Len(s)] \notin Words
    PROVE  \E x : Reaches(a, On(st, At("rule_xml_tag", 4, 0, p + g + 1 + Len(s), "yes", x),
                                TagParsed(c, s), w))
<1> DEFINE q == p + g + 1
<1>1. q \in Nat /\ q <= Len(content) /\ Len(s) \in Nat /\ Len(s) > 0 /\ \A i \in 1..Len(s) : s[i] \in Words
  BY LenNat DEF Blanks, IsWords
<1>2. PICK x : Reaches(a, On(st, At("rule_xml_tag", 3, 0, q, "yes", x), do_tag_reset(c), w))
  BY MarkTaken
<1>3. Need("rule_xml_tag", 3, alphanum, "set_tag_name")
  BY TagSymbols
<1>4. read_token(alphanum, q) = Hit(Len(s), s)
  BY <1>1, NameRead
<1> DEFINE e == Parsed(do_tag_reset(c), "set_tag_name", s)
<1> HIDE DEF q
<1>5. Reaches(a, On(st, At("rule_xml_tag", 3 + 1, 0, q + Len(s), "yes", x),
                    e, Walked(w, e, "set_tag_name", s)))
  BY <1>1, <1>2, <1>3, <1>4, TakeOnce DEF Need
<1>6. e = TagParsed(c, s) /\ Walked(w, e, "set_tag_name", s) = w
  BY NotWalked DEF TagParsed
<1> HIDE DEF e
<1>7. Reaches(a, On(st, At("rule_xml_tag", 4, 0, q + Len(s), "yes", x), TagParsed(c, s), w))
  BY <1>5, <1>6
<1> QED BY <1>7 DEF q

\* and what looks like one, but has no name.
LEMMA TagMissed ==
    ASSUME IsSeq(content), NEW a, NEW st, IsSeq(st), NEW alt, NEW p, NEW hit, NEW some, NEW c, NEW w,
           Reaches(a, On(st, At("rule_xml_tag", 1, alt, p, hit, some), c, w)),
           NEW g, Blanks(p, g), content[p + g] = "<",
           p + g + 1 <= Len(content), content[p + g + 1] \notin Words
    PROVE  Fails(a, st, do_tag_reset(c), w)
<1> DEFINE q == p + g + 1
<1>1. q \in Nat /\ q \in 1..Len(content)
  BY LenNat DEF Blanks
<1>2. PICK x : Reaches(a, On(st, At("rule_xml_tag", 3, 0, q, "yes", x), do_tag_reset(c), w))
  BY MarkTaken
<1>3. Need("rule_xml_tag", 3, alphanum, "set_tag_name")
  BY TagSymbols
<1>4. read_token(alphanum, q) = Missed
  BY <1>1, NameMissed
<1> HIDE DEF q
<1> QED BY <1>1, <1>2, <1>3, <1>4, MissToken DEF Need

------------------------------------------------------------------------------
\* The header
LEMMA HeaderBegun ==
    ASSUME IsSeq(content), NEW a, NEW st, IsSeq(st), NEW alt, NEW p, NEW hit, NEW some, NEW c, NEW w,
           Reaches(a, On(st, At("xml_header", 1, alt, p, hit, some), c, w)), Shows(p, HeaderMark)
    PROVE  \E x : Reaches(a, On(st, At("xml_header", 3, 0, p + 3, "yes", x), c, w))
<1>1. p \in Nat /\ p \in 1..Len(content) /\ content[p] = "<"
  <2>1. 1 \in 1..Len(HeaderMark) /\ Len(HeaderMark) = 3 /\ HeaderMark[1] = "<"
    BY Marked
  <2>2. content[p + 1 - 1] = "<"
    BY <2>1, ShownAt
  <2>3. p \in Nat \ {0} /\ p + 3 <= Len(content) + 1 /\ Len(content) \in Nat
    BY <2>1, LenNat DEF Shows
  <2>4. p + 1 - 1 = p
    BY <2>3
  <2> QED BY <2>2, <2>3, <2>4
<1>2. Blanks(p, 0)
  <2>1. content[p + 0] # Space
    BY <1>1, NotSpace
  <2> QED BY <1>1, <2>1 DEF Blanks
<1>3. Often("xml_header", 1, whitespace, "none") /\ Need("xml_header", 2, Literal(HeaderMark), "none")
  BY HeaderSymbols DEF HeaderMark
<1>4. PICK x : Reaches(a, On(st, At("xml_header", 1 + 1, 0, p + 0, "no", x), c, w))
  BY <1>2, <1>3, SkipBlanks
<1>5. Reaches(a, On(st, At("xml_header", 2, 0, p, "no", x), c, w))
  BY <1>1, <1>4
<1>6. read_token(Literal(HeaderMark), p) = Hit(3, HeaderMark)
  <2>1. Len(HeaderMark) > 0 /\ Len(HeaderMark) = 3
    BY Marked
  <2>2. read_token(Literal(HeaderMark), p) = Hit(Len(HeaderMark), HeaderMark)
    BY <2>1, ConstHit
  <2> QED BY <2>1, <2>2
<1>7. p <= Len(content)
  BY <1>1, LenNat
<1>8. ASSUME NEW n \in Nat, NEW v, read_token(Literal(HeaderMark), p) = Hit(n, v)
      PROVE  Reaches(a, On(st, At("xml_header", 2 + 1, 0, p + n, "yes", x), c, w))
  BY <1>1, <1>3, <1>5, <1>7, <1>8, PassToken
<1>9. Reaches(a, On(st, At("xml_header", 2 + 1, 0, p + 3, "yes", x), c, w))
  BY <1>6, <1>8
<1> QED BY <1>9

HeaderTail == <<"?", ">">>
LEMMA HeaderEnd ==
    ASSUME IsSeq(content), NEW a, NEW st, IsSeq(st), NEW alt, NEW p, NEW hit, NEW some, NEW c, NEW w,
           Reaches(a, On(st, At("xml_header", 3, alt, p, hit, some), c, w)),
           NEW g, Blanks(p, g), Shows(p + g, HeaderTail)
    PROVE  \E x : Reaches(a, On(st, At("xml_header", 6, 0, p + g + 2, "yes", x), c, w))
<1> DEFINE q == p + g
<1>1. q \in Nat /\ q <= Len(content)
  BY DEF Blanks
<1>2. content[q] = "?" /\ IsSeq(HeaderTail) /\ Len(HeaderTail) = 2 /\ Len(HeaderTail) > 0
  BY TwoShown, ShortSeqs DEF HeaderTail
<1>3. content[p + g] \notin Words
  BY <1>2, NotWords
<1>4. OftenOf("xml_header", 3, <<"attr_line">>) /\ Often("xml_header", 3 + 1, whitespace, "none")
      /\ Need("xml_header", 5, Literal(HeaderTail), "none")
  BY HeaderSymbols DEF HeaderTail
<1>5. PICK x : Reaches(a, On(st, At("xml_header", 3 + 2, 0, p + g, "no", x), c, w))
  BY <1>3, <1>4, AttrsEnd
<1>6. Reaches(a, On(st, At("xml_header", 5, 0, q, "no", x), c, w))
  BY <1>5
<1>7. read_token(Literal(HeaderTail), q) = Hit(2, HeaderTail)
  <2>1. Shows(q, HeaderTail)
    OBVIOUS
  <2> QED BY <1>2, <2>1, ConstHit
<1> HIDE DEF q
<1>8. Reaches(a, On(st, At("xml_header", 5 + 1, 0, q + 2, "yes", x), c, w))
  BY <1>1, <1>4, <1>6, <1>7, PassToken
<1> QED BY <1>8 DEF q

------------------------------------------------------------------------------
(* Text in an element                                                      *)

MarkupSet == <<"&", "<">>
LEMMA MarkupSetIs == IsSeq(MarkupSet) /\ Range(MarkupSet) = {"&", "<"}
<1>1. MarkupSet \in Seq({"&", "<"}) /\ DOMAIN MarkupSet = {1, 2} /\ MarkupSet[1] = "&" /\ MarkupSet[2] = "<"
  BY DEF MarkupSet
<1> QED BY <1>1 DEF IsSeq, Range

LEMMA ContentChoice ==
    /\ OftenOf("rule_xml_tag_end_full", 2, content_pack) /\ Len(content_pack) = 2
    /\ content_pack[1] = "tag_value_line" /\ content_pack[2] = "recourse_tag_line"
  BY FullSymbols DEF content_pack

LEMMA ValueSymbol ==
    /\ Often("tag_value_line", 1, AnyBut(MarkupSet), "concat_tag_value")
    /\ Ended("tag_value_line") = 2 /\ Len(Lines["tag_value_line"]) \in Nat
  BY ValueSymbols DEF MarkupSet

InFull(st, alt, p, hit, some) == Append(st, At("rule_xml_tag_end_full", 2, alt, p, hit, some))

LEMMA ValueTried ==
    ASSUME IsSeq(content), NEW a, NEW st, IsSeq(st), NEW alt, NEW p \in Nat, p <= Len(content),
           NEW hit, NEW some, NEW c, NEW w,
           Reaches(a, On(st, At("rule_xml_tag_end_full", 2, alt, p, hit, some), c, w))
    PROVE  Reaches(a, On(InFull(st, 1, p, hit, some), At("tag_value_line", 1, 0, p, "no", "no"), c, w))
<1> DEFINE e == content_pack
<1>1. OftenOf("rule_xml_tag_end_full", 2, e) /\ e[1] = "tag_value_line"
  BY ContentChoice
<1> HIDE DEF e
<1>2. Reaches(a, On(Append(st, At("rule_xml_tag_end_full", 2, 1, p, hit, some)),
                    At(e[1], 1, 0, p, "no", "no"), c, w))
  BY <1>1, Enter DEF OftenOf
<1> QED BY <1>1, <1>2 DEF InFull

LEMMA ValueSkipped ==
    ASSUME IsSeq(content), NEW a, NEW st, IsSeq(st), NEW p \in 1..Len(content), content[p] = "<",
           NEW hit, NEW some, NEW c, NEW w,
           Reaches(a, On(st, At("tag_value_line", 1, 0, p, hit, some), c, w))
    PROVE  Reaches(a, On(st, At("tag_value_line", Ended("tag_value_line"), 0, p, "no", some), c, w))
<1>1. p \in Nat /\ p <= Len(content)
  BY LenNat
<1>2. read_token(AnyBut(MarkupSet), p) = Missed
  <2>1. content[p] \in Range(MarkupSet)
    BY MarkupSetIs
  <2> QED BY <2>1, TextMissed
<1>3. Reaches(a, On(st, At("tag_value_line", 1 + 1, 0, p, "no", some), c, w))
  BY <1>1, <1>2, ValueSymbol, SkipToken DEF Often
<1> QED BY <1>3, ValueSymbol

LEMMA TextTaken ==
    ASSUME IsSeq(content), NEW a, NEW st, IsSeq(st), NEW alt, NEW p, NEW hit, NEW some, NEW c, NEW w,
           Reaches(a, On(st, At("rule_xml_tag_end_full", 2, alt, p, hit, some), c, w)),
           NEW s, Shows(p, s), Len(s) > 0, \A i \in 1..Len(s) : s[i] \notin {"&", "<"},
           p + Len(s) <= Len(content), content[p + Len(s)] = "<"
    PROVE  Reaches(a, On(st, At("rule_xml_tag_end_full", 2, 0, p + Len(s), "yes", "yes"),
                         c, charDatahandler(w, s)))
<1> DEFINE q == p + Len(s)
           t == InFull(st, 1, p, hit, some)
           v == charDatahandler(w, s)
<1>1. p \in Nat \ {0} /\ Len(s) \in Nat /\ IsSeq(s) /\ p <= Len(content) /\ q \in Nat /\ q \in 1..Len(content)
  BY LenNat DEF Shows
<1>2. Reaches(a, On(t, At("tag_value_line", 1, 0, p, "no", "no"), c, w))
  BY <1>1, ValueTried
<1>3. IsSeq(t)
  BY PushFacts DEF InFull
<1>4. read_token(AnyBut(MarkupSet), p) = Hit(Len(s), s)
  <2>1. \A i \in 1..Len(s) : s[i] \notin Range(MarkupSet)
    BY MarkupSetIs
  <2>2. content[p + Len(s)] \in Range(MarkupSet)
    BY MarkupSetIs
  <2> QED BY <2>1, <2>2, TextRead
<1> DEFINE e == Parsed(c, "concat_tag_value", s)
<1> HIDE DEF t
<1>5. Reaches(a, On(t, At("tag_value_line", 1, 0, p + Len(s), "yes", "yes"),
                    e, Walked(w, e, "concat_tag_value", s)))
  <2> HIDE DEF e, q, v
  <2>1. Reaches(a, On(t, At("tag_value_line", 1, 0, p + Len(s), "yes", "yes"),
                    Parsed(c, "concat_tag_value", s), Walked(w, Parsed(c, "concat_tag_value", s), "concat_tag_value", s)))
    BY <1>1, <1>2, <1>3, <1>4, ValueSymbol, TakeAgain DEF Often
  <2> QED BY <2>1 DEF e
<1>6. e = c /\ Walked(w, e, "concat_tag_value", s) = v
  BY DEF Parsed, Walked
<1> HIDE DEF e, v
<1>7. Reaches(a, On(t, At("tag_value_line", 1, 0, q, "yes", "yes"), c, v))
  BY <1>5, <1>6
<1>8. content[q] = "<"
  OBVIOUS
<1> HIDE DEF q
<1>9. Reaches(a, On(t, At("tag_value_line", Ended("tag_value_line"), 0, q, "no", "yes"), c, v))
  BY <1>1, <1>3, <1>7, <1>8, ValueSkipped
<1>10. AtEndOf("tag_value_line") = "none" /\ Repeated("rule_xml_tag_end_full", 2)
  BY ContentChoice DEF AtEndOf, OftenOf
<1>11. Reaches(a, On(st, At("rule_xml_tag_end_full", 2, 0, q, "yes", "yes"),
                     Parsed(c, "none", <<>>), Walked(v, Parsed(c, "none", <<>>), "none", <<>>)))
  <2>1. Reaches(a, On(Append(st, At("rule_xml_tag_end_full", 2, 1, p, hit, some)),
                      At("tag_value_line", Ended("tag_value_line"), 0, q, "no", "yes"), c, v))
    BY <1>9 DEF t, InFull
  <2> QED BY <1>10, <2>1, ValueSymbol, ReturnAgain
<1>12. Reaches(a, On(st, At("rule_xml_tag_end_full", 2, 0, q, "yes", "yes"), c, v))
  BY <1>11, NoHandler
<1> QED BY <1>12 DEF q, v

\* Where there is none, a tag or a comment is tried.
LEMMA NotText ==
    ASSUME IsSeq(content), NEW a, NEW st, IsSeq(st), NEW alt, NEW p \in 1..Len(content), content[p] = "<",
           NEW hit, NEW some, NEW c, NEW w,
           Reaches(a, On(st, At("rule_xml_tag_end_full", 2, alt, p, hit, some), c, w))
    PROVE  Reaches(a, On(InFull(st, 2, p, hit, some), At("recourse_tag_line", 1, 0, p, "no", "no"), c, w))
<1> DEFINE t == InFull(st, 1, p, hit, some)
           e == content_pack
<1>1. p \in Nat /\ p <= Len(content)
  BY LenNat
<1>2. Reaches(a, On(t, At("tag_value_line", 1, 0, p, "no", "no"), c, w))
  BY <1>1, ValueTried
<1>3. IsSeq(t)
  BY PushFacts DEF InFull
<1> HIDE DEF t
<1>4. Reaches(a, On(t, At("tag_value_line", Ended("tag_value_line"), 0, p, "no", "no"), c, w))
  BY <1>2, <1>3, ValueSkipped
<1>5. Fails(a, t, c, w)
  BY <1>4, ValueSymbol, NothingMatched
<1>6. Fails(a, Append(st, At("rule_xml_tag_end_full", 2, 1, p, hit, some)), c, w)
  BY <1>5 DEF t, InFull
<1>7. Choice("rule_xml_tag_end_full", 2, e) /\ 1 + 1 <= Len(e) /\ e[1 + 1] = "recourse_tag_line"
  BY ContentChoice DEF OftenOf
<1> HIDE DEF e
<1>8. Reaches(a, On(Append(st, At("rule_xml_tag_end_full", 2, 1 + 1, p, hit, some)),
                    At(e[1 + 1], 1, 0, p, "no", "no"), c, w))
  BY <1>6, <1>7, TryNext
<1> QED BY <1>7, <1>8 DEF InFull

------------------------------------------------------------------------------
(* Tags and comments in an element                                         *)

TagChoice(line, i) == Choice(line, i, tag_pack) /\ IsCall(line, i) /\ Optional(line, i)
LEMMA TagChoices ==
    /\ TagChoice("recourse_tag_line", 1) /\ TagChoice("rule_xml_document", 3)
    /\ Repeated("recourse_tag_line", 1) /\ Single("rule_xml_document", 3)
    /\ Len(tag_pack) = 2 /\ tag_pack[1] = "rule_xml_tag" /\ tag_pack[2] = "comment_line"
<1>1. /\ Len(tag_pack) = 2 /\ tag_pack[1] = "rule_xml_tag" /\ tag_pack[2] = "comment_line"
  BY DEF tag_pack
<1> QED BY <1>1, RecourseSymbols, DocumentSymbols DEF TagChoice, OftenOf, MaybeOf

LEMMA TagTried ==
    ASSUME IsSeq(content), NEW a, NEW st, IsSeq(st), NEW line, NEW i, TagChoice(line, i), NEW alt,
           NEW p \in Nat, p <= Len(content), NEW hit, NEW some, NEW c, NEW w,
           Reaches(a, On(st, At(line, i, alt, p, hit, some), c, w))
    PROVE  Reaches(a, On(Append(st, At(line, i, 1, p, hit, some)),
                         At("rule_xml_tag", 1, 0, p, "no", "no"), c, w))
<1> DEFINE e == tag_pack
<1>1. Choice(line, i, e) /\ IsCall(line, i) /\ e[1] = "rule_xml_tag"
  BY TagChoices DEF TagChoice
<1> HIDE DEF e
<1>2. Reaches(a, On(Append(st, At(line, i, 1, p, hit, some)), At(e[1], 1, 0, p, "no", "no"), c, w))
  BY <1>1, Enter
<1> QED BY <1>1, <1>2

LEMMA CommentTried ==
    ASSUME IsSeq(content), NEW a, NEW st, IsSeq(st), NEW line, NEW i, TagChoice(line, i),
           NEW p \in Nat, p <= Len(content), NEW hit, NEW some, NEW c, NEW w,
           Fails(a, Append(st, At(line, i, 1, p, hit, some)), c, w)
    PROVE  Reaches(a, On(Append(st, At(line, i, 2, p, hit, some)),
                         At("comment_line", 1, 0, p, "no", "no"), c, w))
<1> DEFINE e == tag_pack
<1>1. Choice(line, i, e) /\ e[1 + 1] = "comment_line" /\ 1 + 1 <= Len(e)
  BY TagChoices DEF TagChoice
<1> HIDE DEF e
<1>2. Reaches(a, On(Append(st, At(line, i, 1 + 1, p, hit, some)), At(e[1 + 1], 1, 0, p, "no", "no"), c, w))
  BY <1>1, TryNext
<1> QED BY <1>1, <1>2

\* No tag begins here: there is none, or the one that is open ends.
NoTag(q) == content[q] # "<" \/ (q + 1 <= Len(content) /\ content[q + 1] \in {"/", "!"})

LEMMA NotATag ==
    ASSUME IsSeq(content), NEW a, NEW st, IsSeq(st), NEW p, NEW c, NEW w,
           Reaches(a, On(st, At("rule_xml_tag", 1, 0, p, "no", "no"), c, w)),
           NEW g, Blanks(p, g), NoTag(p + g)
    PROVE  \E e \in {c, do_tag_reset(c)} : Fails(a, st, e, w)
<1>1. p + g \in Nat /\ p + g <= Len(content) /\ p + g + 1 - 1 = p + g
  BY DEF Blanks
<1>2. CASE content[p + g] # "<"
  <2>1. Often("rule_xml_tag", 1, whitespace, "none") /\ Need("rule_xml_tag", 2, Literal(TagMark), "do_tag_reset")
    BY TagSymbols DEF TagMark
  <2>2. Differs(p + g, TagMark)
    <3>1. 1 \in 1..Len(TagMark) /\ TagMark[1] = "<"
      BY Marked
    <3> QED BY <1>1, <1>2, <3>1 DEF Differs
  <2>3. IsSeq(TagMark)
    BY Marked
  <2>4. Fails(a, st, c, w)
    BY <2>1, <2>2, <2>3, MarkedLineMissed
  <2> QED BY <2>4
<1>3. CASE content[p + g] = "<"
  <2>1. p + g + 1 <= Len(content) /\ content[p + g + 1] \in {"/", "!"}
    BY <1>3 DEF NoTag
  <2>2. content[p + g + 1] \notin Words
    BY <2>1, NotWords
  <2>3. Fails(a, st, do_tag_reset(c), w)
    BY <1>3, <2>1, <2>2, TagMissed
  <2> QED BY <2>3
<1> QED BY <1>2, <1>3

LEMMA NotAComment ==
    ASSUME IsSeq(content), NEW a, NEW st, IsSeq(st), NEW p, NEW c, NEW w,
           Reaches(a, On(st, At("comment_line", 1, 0, p, "no", "no"), c, w)),
           NEW g, Blanks(p, g), Differs(p + g, CommentMark)
    PROVE  Fails(a, st, c, w)
<1>1. Often("comment_line", 1, whitespace, "none") /\ Need("comment_line", 2, Literal(CommentMark), "none")
  BY CommentSymbols DEF CommentMark
<1>2. IsSeq(CommentMark)
  BY Marked
<1> QED BY <1>1, <1>2, MarkedLineMissed

LEMMA CommentDiffers ==
    ASSUME NEW q \in Nat, q <= Len(content),
           \/ content[q] # "<"
           \/ q + 1 <= Len(content) /\ content[q + 1] # "!"
    PROVE  Differs(q, CommentMark)
<1>1. Len(CommentMark) = 4 /\ CommentMark[1] = "<" /\ CommentMark[2] = "!"
  BY Marked
<1>2. CASE content[q] # "<"
  <2>1. q + 1 - 1 = q /\ 1 \in 1..Len(CommentMark)
    BY <1>1
  <2> QED BY <1>1, <1>2, <2>1 DEF Differs
<1>3. CASE q + 1 <= Len(content) /\ content[q + 1] # "!"
  <2>1. q + 2 - 1 = q + 1 /\ 2 \in 1..Len(CommentMark)
    BY <1>1
  <2> QED BY <1>1, <1>3, <2>1 DEF Differs
<1> QED BY <1>2, <1>3

\* Neither a tag nor a comment
LEMMA NoMoreTags ==
    ASSUME IsSeq(content), NEW a, NEW st, IsSeq(st), NEW alt, NEW p, NEW hit, NEW some, NEW c, NEW w,
           Reaches(a, On(st, At("recourse_tag_line", 1, alt, p, hit, some), c, w)),
           NEW g, Blanks(p, g), NoTag(p + g), Differs(p + g, CommentMark)
    PROVE  \E e \in {c, do_tag_reset(c)} :
               Reaches(a, On(st, At("recourse_tag_line", Ended("recourse_tag_line"), 0, p, "no", some), e, w))
<1> DEFINE s == Append(st, At("recourse_tag_line", 1, 1, p, hit, some))
           t == Append(st, At("recourse_tag_line", 1, 2, p, hit, some))
<1>1. p \in Nat /\ p <= Len(content)
  BY LenNat DEF Blanks
<1>2. TagChoice("recourse_tag_line", 1)
  BY TagChoices
<1>3. Reaches(a, On(s, At("rule_xml_tag", 1, 0, p, "no", "no"), c, w))
  BY <1>1, <1>2, TagTried
<1>4. IsSeq(s) /\ IsSeq(t)
  BY PushFacts
<1>5. PICK e \in {c, do_tag_reset(c)} : Fails(a, s, e, w)
  <2> HIDE DEF s
  <2> QED BY <1>3, <1>4, NotATag
<1>6. Reaches(a, On(t, At("comment_line", 1, 0, p, "no", "no"), e, w))
  BY <1>1, <1>2, <1>5, CommentTried
<1>7. Fails(a, t, e, w)
  <2> HIDE DEF t
  <2> QED BY <1>4, <1>6, NotAComment
<1> DEFINE u == tag_pack
<1>8. Choice("recourse_tag_line", 1, u) /\ 2 = Len(u) /\ Optional("recourse_tag_line", 1)
      /\ Ended("recourse_tag_line") = 1 + 1
  BY TagChoices, RecourseSymbols DEF TagChoice
<1> HIDE DEF u
<1>9. Reaches(a, On(st, At("recourse_tag_line", 1 + 1, 0, p, "no", some), e, w))
  BY <1>7, <1>8, GiveUp
<1> QED BY <1>8, <1>9

\* A comment
LEMMA CommentMarkShown ==
    ASSUME IsSeq(content), NEW q, Shows(q, CommentMark)
    PROVE  /\ q \in Nat \ {0} /\ q + 4 <= Len(content) + 1
           /\ content[q] = "<" /\ content[q + 1] = "!"
<1>1. Len(CommentMark) = 4 /\ CommentMark[1] = "<" /\ CommentMark[2] = "!"
  BY Marked
<1>2. q \in Nat \ {0} /\ q + 4 <= Len(content) + 1
  BY <1>1 DEF Shows
<1>3. content[q + 1 - 1] = "<" /\ content[q + 2 - 1] = "!"
  <2>1. 1 \in 1..Len(CommentMark) /\ 2 \in 1..Len(CommentMark)
    BY <1>1
  <2> QED BY <1>1, <2>1, ShownAt
<1>4. q + 1 - 1 = q /\ q + 2 - 1 = q + 1
  BY <1>2
<1> QED BY <1>2, <1>3, <1>4

CommentShown(q, s) ==
    IsBody(s) /\ Shows(q, CommentMark) /\ Shows(q + 4, s) /\ Shows(q + 4 + Len(s), EndMark)
AfterComment(q, s) == q + 4 + Len(s) + 3

LEMMA CommentPassed ==
    ASSUME IsSeq(content), NEW a, NEW st, IsSeq(st), NEW alt, NEW p, NEW hit, NEW some, NEW c, NEW w,
           Reaches(a, On(st, At("recourse_tag_line", 1, alt, p, hit, some), c, w)),
           NEW g, Blanks(p, g), NEW s, CommentShown(p + g, s)
    PROVE  Reaches(a, On(st, At("recourse_tag_line", 1, 0, AfterComment(p + g, s), "yes", "yes"),
                         do_tag_reset(c), w))
<1> DEFINE r == Append(st, At("recourse_tag_line", 1, 1, p, hit, some))
           t == Append(st, At("recourse_tag_line", 1, 2, p, hit, some))
           e == do_tag_reset(c)
           q == AfterComment(p + g, s)
<1>1. p \in Nat /\ p <= Len(content)
  BY LenNat DEF Blanks
<1>2. TagChoice("recourse_tag_line", 1) /\ Repeated("recourse_tag_line", 1)
  BY TagChoices
<1>3. Reaches(a, On(r, At("rule_xml_tag", 1, 0, p, "no", "no"), c, w))
  BY <1>1, <1>2, TagTried
<1>4. IsSeq(r) /\ IsSeq(t)
  BY PushFacts
<1>5. Fails(a, r, e, w)
  <2>1. /\ content[p + g] = "<" /\ content[p + g + 1] = "!"
        /\ p + g + 1 <= Len(content) /\ content[p + g + 1] \notin Words
    <3>1. /\ p + g \in Nat \ {0} /\ p + g + 4 <= Len(content) + 1
          /\ content[p + g] = "<" /\ content[p + g + 1] = "!"
      BY CommentMarkShown DEF CommentShown
    <3> QED BY <3>1, NotWords, LenNat
  <2> HIDE DEF r
  <2> QED BY <1>3, <1>4, <2>1, TagMissed
<1> HIDE DEF e
<1>6. Reaches(a, On(t, At("comment_line", 1, 0, p, "no", "no"), e, w))
  BY <1>1, <1>2, <1>5, CommentTried
<1>7. PICK x : Reaches(a, On(t, At("comment_line", 5, 0, q, "yes", x), e, w))
  <2> HIDE DEF t
  <2> QED BY <1>4, <1>6, CommentRead DEF CommentShown, AfterComment
<1> HIDE DEF q
<1>8. /\ Ended("comment_line") = 5 /\ Len(Lines["comment_line"]) \in Nat
      /\ AtEndOf("comment_line") = "none"
  BY CommentSymbols DEF AtEndOf
<1>9. Reaches(a, On(t, At("comment_line", Ended("comment_line"), 0, q, "yes", x), e, w))
  BY <1>7, <1>8
<1>10. Reaches(a, On(st, At("recourse_tag_line", 1, 0, q, "yes", "yes"),
                     Parsed(e, "none", <<>>), Walked(w, Parsed(e, "none", <<>>), "none", <<>>)))
  BY <1>2, <1>8, <1>9, ReturnAgain
<1>11. Reaches(a, On(st, At("recourse_tag_line", 1, 0, q, "yes", "yes"), e, w))
  BY <1>10, NoHandler
<1> QED BY <1>11 DEF e, q

------------------------------------------------------------------------------
(* The end of an opening tag, and the end of an element                    *)

TagOf(c) == Parsed(c, "got_tag_open", <<>>)
Started(w, c) == startElement(w, TagOf(c).tagname, AttrsOf(TagOf(c)))

LEMMA OpenHandled ==
    ASSUME NEW c, NEW w, NEW v
    PROVE  Parsed(c, "got_tag_open", v) = TagOf(c) /\ Walked(w, TagOf(c), "got_tag_open", v) = Started(w, c)
  BY DEF Parsed, Walked, TagOf, Started

LEMMA EndChoice ==
    /\ NeedOf("rule_xml_tag", 6, tag_end_pack) /\ Len(tag_end_pack) = 2
    /\ tag_end_pack[1] = "rule_xml_tag_end_full" /\ tag_end_pack[2] = "rule_xml_tag_end_empty"
  BY TagSymbols DEF tag_end_pack

InTagEnd(st, alt, p, hit, some) == Append(st, At("rule_xml_tag", 6, alt, p, hit, some))

LEMMA EndTried ==
    ASSUME IsSeq(content), NEW a, NEW st, IsSeq(st), NEW alt, NEW p, NEW hit, NEW some, NEW c, NEW w,
           Reaches(a, On(st, At("rule_xml_tag", 4, alt, p, hit, some), c, w)),
           NEW g, Blanks(p, g), content[p + g] \notin Words
    PROVE  \E x : Reaches(a, On(InTagEnd(st, 1, p + g, "no", x),
                                At("rule_xml_tag_end_full", 1, 0, p + g, "no", "no"), c, w))
<1> DEFINE e == tag_end_pack
           q == p + g
<1>1. q \in Nat /\ q <= Len(content)
  BY LenNat DEF Blanks
<1>2. OftenOf("rule_xml_tag", 4, <<"attr_line">>) /\ Often("rule_xml_tag", 4 + 1, whitespace, "none")
  BY TagSymbols
<1>3. PICK x : Reaches(a, On(st, At("rule_xml_tag", 4 + 2, 0, p + g, "no", x), c, w))
  BY <1>2, AttrsEnd
<1>4. Reaches(a, On(st, At("rule_xml_tag", 6, 0, q, "no", x), c, w))
  BY <1>3
<1>5. IsCall("rule_xml_tag", 6) /\ Choice("rule_xml_tag", 6, e) /\ e[1] = "rule_xml_tag_end_full"
  BY EndChoice DEF NeedOf
<1> HIDE DEF e, q
<1>6. Reaches(a, On(Append(st, At("rule_xml_tag", 6, 1, q, "no", x)), At(e[1], 1, 0, q, "no", "no"), c, w))
  BY <1>1, <1>4, <1>5, Enter
<1> QED BY <1>5, <1>6 DEF InTagEnd, q

\* An element with content is started.
LEMMA TagOpens ==
    ASSUME IsSeq(content), NEW a, NEW st, IsSeq(st), NEW alt, NEW p, NEW hit, NEW some, NEW c, NEW w,
           Reaches(a, On(st, At("rule_xml_tag", 4, alt, p, hit, some), c, w)),
           NEW g, Blanks(p, g), content[p + g] = ">"
    PROVE  \E x : Reaches(a, On(InTagEnd(st, 1, p + g, "no", x),
                                At("rule_xml_tag_end_full", 2, 0, p + g + 1, "yes", "no"),
                                TagOf(c), Started(w, c)))
<1> DEFINE q == p + g
<1>1. q \in Nat /\ q \in 1..Len(content) /\ q <= Len(content) /\ content[q] = ">"
  BY LenNat DEF Blanks
<1>2. content[p + g] \notin Words
  BY NotWords
<1>3. PICK x : Reaches(a, On(InTagEnd(st, 1, p + g, "no", x),
                             At("rule_xml_tag_end_full", 1, 0, p + g, "no", "no"), c, w))
  BY <1>2, EndTried
<1> DEFINE t == InTagEnd(st, 1, p + g, "no", x)
<1>4. IsSeq(t)
  BY PushFacts DEF InTagEnd
<1>5. Need("rule_xml_tag_end_full", 1, Literal(<<">">>), "got_tag_open")
  BY FullSymbols
<1>6. read_token(Literal(<<">">>), q) = Hit(1, <<">">>)
  BY <1>1, CharRead
<1>7. Reaches(a, On(t, At("rule_xml_tag_end_full", 1, 0, q, "no", "no"), c, w))
  BY <1>3
<1> HIDE DEF t, q
<1> DEFINE e == Parsed(c, "got_tag_open", <<">">>)
<1>8. Reaches(a, On(t, At("rule_xml_tag_end_full", 1 + 1, 0, q + 1, "yes", "no"),
                    e, Walked(w, e, "got_tag_open", <<">">>)))
  BY <1>1, <1>4, <1>5, <1>6, <1>7, TakeOnce DEF Need
<1>9. e = TagOf(c) /\ Walked(w, e, "got_tag_open", <<">">>) = Started(w, c)
  BY OpenHandled
<1> HIDE DEF e
<1>10. Reaches(a, On(t, At("rule_xml_tag_end_full", 2, 0, q + 1, "yes", "no"), TagOf(c), Started(w, c)))
  BY <1>8, <1>9
<1> QED BY <1>10 DEF t, q

\* or one without.
EmptyMark == <<"/", ">">>
LEMMA TagIsEmpty ==
    ASSUME IsSeq(content), NEW a, NEW st, IsSeq(st), NEW alt, NEW p, NEW hit, NEW some, NEW c, NEW w,
           Reaches(a, On(st, At("rule_xml_tag", 4, alt, p, hit, some), c, w)),
           NEW g, Blanks(p, g), Shows(p + g, EmptyMark)
    PROVE  \E x : Reaches(a, On(st, At("rule_xml_tag", 7, 0, p + g + 2, "yes", x),
                                TagOf(c), Started(w, c)))
<1> DEFINE q == p + g
           pack == tag_end_pack
<1>1. q \in Nat \ {0} /\ q \in 1..Len(content) /\ q <= Len(content) /\ content[q] = "/"
      /\ IsSeq(EmptyMark) /\ Len(EmptyMark) = 2 /\ Len(EmptyMark) > 0
  BY LenNat, TwoShown, ShortSeqs DEF Blanks, EmptyMark
<1>2. content[p + g] \notin Words
  BY <1>1, NotWords
<1>3. PICK x : Reaches(a, On(InTagEnd(st, 1, p + g, "no", x),
                             At("rule_xml_tag_end_full", 1, 0, p + g, "no", "no"), c, w))
  BY <1>2, EndTried
<1> DEFINE t == InTagEnd(st, 1, q, "no", x)
           u == InTagEnd(st, 2, q, "no", x)
<1>4. IsSeq(t) /\ IsSeq(u)
  BY PushFacts DEF InTagEnd
<1>5. Need("rule_xml_tag_end_full", 1, Literal(<<">">>), "got_tag_open")
  BY FullSymbols
<1>6. read_token(Literal(<<">">>), q) = Missed
  <2>1. q + 1 - 1 = q /\ content[q] # ">" /\ 1 \in 1..Len(<<">">>) /\ IsSeq(<<">">>) /\ <<">">>[1] = ">"
    BY <1>1, ShortSeqs
  <2> HIDE DEF q
  <2> QED BY <1>1, <2>1, ConstMiss
<1>7. Reaches(a, On(t, At("rule_xml_tag_end_full", 1, 0, q, "no", "no"), c, w))
  BY <1>3
<1>8. Shows(q, EmptyMark)
  OBVIOUS
<1> HIDE DEF t, u, q
<1>9. Fails(a, t, c, w)
  BY <1>1, <1>4, <1>5, <1>6, <1>7, MissToken DEF Need
<1>10. Fails(a, Append(st, At("rule_xml_tag", 6, 1, q, "no", x)), c, w)
  BY <1>9 DEF t, InTagEnd
<1>11. Choice("rule_xml_tag", 6, pack) /\ 1 + 1 <= Len(pack) /\ pack[1 + 1] = "rule_xml_tag_end_empty"
  BY EndChoice DEF NeedOf
<1> HIDE DEF pack
<1>12. Reaches(a, On(Append(st, At("rule_xml_tag", 6, 1 + 1, q, "no", x)), At(pack[1 + 1], 1, 0, q, "no", "no"), c, w))
  BY <1>10, <1>11, TryNext
<1>13. Reaches(a, On(u, At("rule_xml_tag_end_empty", 1, 0, q, "no", "no"), c, w))
  BY <1>11, <1>12 DEF u, InTagEnd
<1>14. /\ Need("rule_xml_tag_end_empty", 1, Literal(EmptyMark), "none")
       /\ Ended("rule_xml_tag_end_empty") = 1 + 1 /\ Len(Lines["rule_xml_tag_end_empty"]) \in Nat
       /\ AtEndOf("rule_xml_tag_end_empty") = "got_tag_open"
  BY EmptySymbols DEF EmptyMark, AtEndOf
<1>15. read_token(Literal(EmptyMark), q) = Hit(2, EmptyMark)
  <2>1. read_token(Literal(EmptyMark), q) = Hit(Len(EmptyMark), EmptyMark)
    BY <1>1, <1>8, ConstHit
  <2> QED BY <1>1, <2>1
<1>16. Reaches(a, On(u, At("rule_xml_tag_end_empty", 1 + 1, 0, q + 2, "yes", "no"), c, w))
  BY <1>1, <1>4, <1>13, <1>14, <1>15, PassToken
<1>17. Reaches(a, On(Append(st, At("rule_xml_tag", 6, 2, q, "no", x)),
                     At("rule_xml_tag_end_empty", Ended("rule_xml_tag_end_empty"), 0, q + 2, "yes", "no"), c, w))
  BY <1>14, <1>16 DEF u, InTagEnd
<1>18. Single("rule_xml_tag", 6)
  BY EndChoice DEF NeedOf
<1> DEFINE e == Parsed(c, "got_tag_open", <<>>)
<1>19. Reaches(a, On(st, At("rule_xml_tag", 6 + 1, 0, q + 2, "yes", x), e, Walked(w, e, "got_tag_open", <<>>)))
  BY <1>14, <1>17, <1>18, ReturnOnce
<1>20. e = TagOf(c) /\ Walked(w, e, "got_tag_open", <<>>) = Started(w, c)
  BY OpenHandled
<1> HIDE DEF e
<1>21. Reaches(a, On(st, At("rule_xml_tag", 7, 0, q + 2, "yes", x), TagOf(c), Started(w, c)))
  BY <1>19, <1>20
<1> QED BY <1>21 DEF q

\* Where tags and comments end, text is tried again.
LEMMA TextAgain ==
    ASSUME IsSeq(content), NEW a, NEW st, IsSeq(st), NEW q, NEW qhit, NEW qsome,
           NEW alt, NEW p, NEW hit, NEW c, NEW w,
           Reaches(a, On(InFull(st, 2, q, qhit, qsome), At("recourse_tag_line", 1, alt, p, hit, "yes"), c, w)),
           NEW g, Blanks(p, g), NoTag(p + g), Differs(p + g, CommentMark)
    PROVE  \E e \in {c, do_tag_reset(c)} :
               Reaches(a, On(st, At("rule_xml_tag_end_full", 2, 0, p, "yes", "yes"), e, w))
<1> DEFINE t == InFull(st, 2, q, qhit, qsome)
<1>1. IsSeq(t)
  BY PushFacts DEF InFull
<1> HIDE DEF t
<1>2. PICK e \in {c, do_tag_reset(c)} :
          Reaches(a, On(t, At("recourse_tag_line", Ended("recourse_tag_line"), 0, p, "no", "yes"), e, w))
  <2>1. Reaches(a, On(t, At("recourse_tag_line", 1, alt, p, hit, "yes"), c, w))
    BY DEF t
  <2> QED BY <1>1, <2>1, NoMoreTags
<1>3. /\ Len(Lines["recourse_tag_line"]) \in Nat /\ AtEndOf("recourse_tag_line") = "none"
      /\ Repeated("rule_xml_tag_end_full", 2)
  BY RecourseSymbols, ContentChoice DEF AtEndOf, OftenOf
<1>4. Reaches(a, On(Append(st, At("rule_xml_tag_end_full", 2, 2, q, qhit, qsome)),
                    At("recourse_tag_line", Ended("recourse_tag_line"), 0, p, "no", "yes"), e, w))
  BY <1>2 DEF t, InFull
<1>5. Reaches(a, On(st, At("rule_xml_tag_end_full", 2, 0, p, "yes", "yes"),
                    Parsed(e, "none", <<>>), Walked(w, Parsed(e, "none", <<>>), "none", <<>>)))
  BY <1>3, <1>4, ReturnAgain
<1>6. Reaches(a, On(st, At("rule_xml_tag_end_full", 2, 0, p, "yes", "yes"), e, w))
  BY <1>5, NoHandler
<1> QED BY <1>6

CloseMark == <<"<", "/">>
LEMMA CloseMarkShown ==
    ASSUME IsSeq(content), NEW p, Shows(p, CloseMark)
    PROVE  /\ p \in Nat \ {0} /\ p + 2 <= Len(content) + 1 /\ p \in 1..Len(content) /\ p + 1 <= Len(content)
           /\ content[p] = "<" /\ content[p + 1] = "/"
           /\ Blanks(p, 0) /\ NoTag(p + 0) /\ Differs(p + 0, CommentMark)
<1>1. p \in Nat \ {0} /\ content[p] = "<" /\ content[p + 1] = "/"
  BY TwoShown DEF CloseMark
<1>2. p + 2 <= Len(content) + 1 /\ Len(content) \in Nat
  <2>1. Len(CloseMark) = 2
    BY ShortSeqs DEF CloseMark
  <2> QED BY <2>1, LenNat DEF Shows
<1>3. p \in 1..Len(content) /\ p + 1 <= Len(content) /\ p + 0 = p /\ p <= Len(content)
  BY <1>1, <1>2
<1>4. Blanks(p, 0)
  BY <1>1, <1>3, NotSpace DEF Blanks
<1>5. NoTag(p)
  BY <1>1, <1>3 DEF NoTag
<1>6. Differs(p, CommentMark)
  <2>1. content[p + 1] # "!"
    BY <1>1
  <2> QED BY <1>1, <1>3, <2>1, CommentDiffers
<1> QED BY <1>1, <1>2, <1>3, <1>4, <1>5, <1>6

\* The content of an element ends where its end begins,
LEMMA ContentEnds ==
    ASSUME IsSeq(content), NEW a, NEW st, IsSeq(st), NEW alt, NEW p, NEW hit, NEW some, NEW c, NEW w,
           Reaches(a, On(st, At("rule_xml_tag_end_full", 2, alt, p, hit, some), c, w)),
           Shows(p, CloseMark)
    PROVE  \E e \in {c, do_tag_reset(c)} :
               Reaches(a, On(st, At("rule_xml_tag_end_full", 3, 0, p, "no", some), e, w))
<1> DEFINE t == InFull(st, 2, p, hit, some)
           u == content_pack
<1>1. /\ p \in Nat \ {0} /\ p \in 1..Len(content) /\ content[p] = "<"
      /\ Blanks(p, 0) /\ NoTag(p + 0) /\ Differs(p + 0, CommentMark)
  BY CloseMarkShown
<1>2. Reaches(a, On(t, At("recourse_tag_line", 1, 0, p, "no", "no"), c, w))
  BY <1>1, NotText
<1>3. IsSeq(t)
  BY PushFacts DEF InFull
<1> HIDE DEF t
<1>4. PICK e \in {c, do_tag_reset(c)} :
          Reaches(a, On(t, At("recourse_tag_line", Ended("recourse_tag_line"), 0, p, "no", "no"), e, w))
  BY <1>1, <1>2, <1>3, NoMoreTags
<1>5. Len(Lines["recourse_tag_line"]) \in Nat
  BY RecourseSymbols
<1>6. Fails(a, Append(st, At("rule_xml_tag_end_full", 2, 2, p, hit, some)), e, w)
  <2>1. Fails(a, t, e, w)
    BY <1>4, <1>5, NothingMatched
  <2> QED BY <2>1 DEF t, InFull
<1>7. Choice("rule_xml_tag_end_full", 2, u) /\ 2 = Len(u) /\ Optional("rule_xml_tag_end_full", 2)
  BY ContentChoice DEF OftenOf
<1> HIDE DEF u
<1>8. Reaches(a, On(st, At("rule_xml_tag_end_full", 2 + 1, 0, p, "no", some), e, w))
  BY <1>6, <1>7, GiveUp
<1> QED BY <1>8

\* and the element with that.
CloseShown(p, n) ==
    /\ Shows(p, CloseMark) /\ IsWords(n) /\ Shows(p + 2, n)
    /\ p + 2 + Len(n) <= Len(content) /\ content[p + 2 + Len(n)] = ">"
AfterClose(p, n) == p + 2 + Len(n) + 1

LEMMA ElementEnds ==
    ASSUME IsSeq(content), NEW a, NEW st, IsSeq(st), NEW q, NEW qhit, NEW qsome,
           NEW alt, NEW p, NEW hit, NEW some, NEW c, NEW w,
           Reaches(a, On(InTagEnd(st, 1, q, qhit, qsome),
                         At("rule_xml_tag_end_full", 2, alt, p, hit, some), c, w)),
           NEW n, CloseShown(p, n)
    PROVE  \E e \in {c, do_tag_reset(c)} :
               Reaches(a, On(st, At("rule_xml_tag", 7, 0, AfterClose(p, n), "yes", qsome),
                             Parsed(e, "set_tag_name", n), w))
<1> DEFINE t == InTagEnd(st, 1, q, qhit, qsome)
           full == "rule_xml_tag_end_full"
           r == p + 2
           z == p + 2 + Len(n)
<1>1. /\ p \in Nat /\ p <= Len(content) /\ r \in Nat /\ r <= Len(content) /\ Len(n) \in Nat
      /\ z \in Nat /\ z \in 1..Len(content) /\ z <= Len(content) /\ Len(n) > 0
      /\ \A i \in 1..Len(n) : n[i] \in Words
  <2>1. /\ p \in Nat \ {0} /\ p \in 1..Len(content) /\ IsSeq(n) /\ Len(n) > 0 /\ Len(content) \in Nat
        /\ z <= Len(content) /\ \A i \in 1..Len(n) : n[i] \in Words
    BY CloseMarkShown, LenNat DEF CloseShown, IsWords
  <2>2. Len(n) \in Nat
    BY <2>1, LenNat
  <2> QED BY <2>1, <2>2
<1>2. IsSeq(t)
  BY PushFacts DEF InTagEnd
<1>3. Reaches(a, On(t, At(full, 2, alt, p, hit, some), c, w))
  OBVIOUS
<1> HIDE DEF t
<1>4. Shows(p, CloseMark) /\ Shows(r, n) /\ content[z] = ">" /\ z = r + Len(n)
  BY DEF CloseShown
<1>5. PICK e \in {c, do_tag_reset(c)} : Reaches(a, On(t, At(full, 3, 0, p, "no", some), e, w))
  BY <1>2, <1>3, <1>4, ContentEnds
<1>6. /\ Need(full, 3, Literal(CloseMark), "none") /\ Need(full, 4, alphanum, "set_tag_name")
      /\ Need(full, 5, Literal(<<">">>), "none") /\ Ended(full) = 5 + 1 /\ Len(Lines[full]) \in Nat
      /\ AtEndOf(full) = "none"
  BY FullSymbols DEF CloseMark, AtEndOf
<1>7. read_token(Literal(CloseMark), p) = Hit(2, CloseMark)
  <2>1. Len(CloseMark) = 2 /\ Len(CloseMark) > 0
    BY ShortSeqs DEF CloseMark
  <2>2. read_token(Literal(CloseMark), p) = Hit(Len(CloseMark), CloseMark)
    BY <1>4, <2>1, ConstHit
  <2> QED BY <2>1, <2>2
<1> HIDE DEF full, z
<1>8. Reaches(a, On(t, At(full, 3 + 1, 0, r, "yes", some), e, w))
  <2>1. Reaches(a, On(t, At(full, 3 + 1, 0, p + 2, "yes", some), e, w))
    BY <1>1, <1>2, <1>5, <1>6, <1>7, PassToken
  <2> QED BY <2>1
<1>9. read_token(alphanum, r) = Hit(Len(n), n)
  <2>1. r + Len(n) <= Len(content) /\ content[r + Len(n)] \notin Words
    BY <1>1, <1>4, NotWords
  <2> HIDE DEF r
  <2> QED BY <1>1, <1>4, <2>1, NameRead
<1> HIDE DEF r
<1> DEFINE d == Parsed(e, "set_tag_name", n)
<1>10. Reaches(a, On(t, At(full, 4 + 1, 0, r + Len(n), "yes", some), d, Walked(w, d, "set_tag_name", n)))
  <2>1. Reaches(a, On(t, At(full, 4, 0, r, "yes", some), e, w))
    BY <1>8
  <2> QED BY <1>1, <1>2, <1>6, <1>9, <2>1, TakeOnce DEF Need
<1>11. Walked(w, d, "set_tag_name", n) = w
  BY NotWalked
<1> HIDE DEF d
<1>12. Reaches(a, On(t, At(full, 5, 0, z, "yes", some), d, w))
  BY <1>4, <1>10, <1>11
<1>13. read_token(Literal(<<">">>), z) = Hit(1, <<">">>)
  BY <1>1, <1>4, CharRead
<1>14. Reaches(a, On(t, At(full, 5 + 1, 0, z + 1, "yes", some), d, w))
  BY <1>1, <1>2, <1>6, <1>12, <1>13, PassToken
<1>15. Reaches(a, On(Append(st, At("rule_xml_tag", 6, 1, q, qhit, qsome)),
                     At(full, Ended(full), 0, z + 1, "yes", some), d, w))
  BY <1>6, <1>14 DEF t, InTagEnd
<1>16. Single("rule_xml_tag", 6)
  BY EndChoice DEF NeedOf
<1>17. Reaches(a, On(st, At("rule_xml_tag", 6 + 1, 0, z + 1, "yes", qsome),
                     Parsed(d, "none", <<>>), Walked(w, Parsed(d, "none", <<>>), "none", <<>>)))
  BY <1>6, <1>15, <1>16, ReturnOnce
<1>18. Reaches(a, On(st, At("rule_xml_tag", 7, 0, z + 1, "yes", qsome), d, w))
  BY <1>17, NoHandler
<1> QED BY <1>18 DEF d, z, AfterClose

\* Its caller goes on: the content around it, or the document.
LEMMA TagReturns ==
    ASSUME NEW a, NEW st, IsSeq(st), NEW q, NEW qhit, NEW qsome, NEW p, NEW some, NEW c, NEW w
    PROVE  /\ Reaches(a, On(Append(st, At("recourse_tag_line", 1, 1, q, qhit, qsome)),
                            At("rule_xml_tag", 7, 0, p, "yes", some), c, w))
              => Reaches(a, On(st, At("recourse_tag_line", 1, 0, p, "yes", "yes"), c, endElement(w)))
           /\ Reaches(a, On(Append(st, At("rule_xml_document", 3, 1, q, qhit, qsome)),
                            At("rule_xml_tag", 7, 0, p, "yes", some), c, w))
              => Reaches(a, On(st, At("rule_xml_document", 4, 0, p, "yes", qsome), c, endElement(w)))
<1> DEFINE tag == "rule_xml_tag"
           e == Parsed(c, "got_tag_close", <<>>)
<1>1. Ended(tag) = 7 /\ Len(Lines[tag]) \in Nat /\ AtEndOf(tag) = "got_tag_close"
  BY TagSymbols DEF AtEndOf
<1>2. e = c /\ Walked(w, e, "got_tag_close", <<>>) = endElement(w)
  BY DEF Parsed, Walked
<1>3. Repeated("recourse_tag_line", 1) /\ Single("rule_xml_document", 3)
  BY TagChoices
<1> HIDE DEF e, tag
<1>4. ASSUME Reaches(a, On(Append(st, At("recourse_tag_line", 1, 1, q, qhit, qsome)),
                            At(tag, 7, 0, p, "yes", some), c, w))
      PROVE  Reaches(a, On(st, At("recourse_tag_line", 1, 0, p, "yes", "yes"), c, endElement(w)))
  <2>1. Reaches(a, On(Append(st, At("recourse_tag_line", 1, 1, q, qhit, qsome)),
                            At(tag, Ended(tag), 0, p, "yes", some), c, w))
    BY <1>1, <1>4
  <2>2. Reaches(a, On(st, At("recourse_tag_line", 1, 0, p, "yes", "yes"),
            Parsed(c, "got_tag_close", <<>>),
            Walked(w, Parsed(c, "got_tag_close", <<>>), "got_tag_close", <<>>)))
    BY <1>1, <1>3, <2>1, ReturnAgain
  <2> QED BY <1>2, <2>2 DEF e
<1>5. ASSUME Reaches(a, On(Append(st, At("rule_xml_document", 3, 1, q, qhit, qsome)),
                            At(tag, 7, 0, p, "yes", some), c, w))
      PROVE  Reaches(a, On(st, At("rule_xml_document", 4, 0, p, "yes", qsome), c, endElement(w)))
  <2>1. Reaches(a, On(Append(st, At("rule_xml_document", 3, 1, q, qhit, qsome)),
                            At(tag, Ended(tag), 0, p, "yes", some), c, w))
    BY <1>1, <1>5
  <2>2. Reaches(a, On(st, At("rule_xml_document", 3 + 1, 0, p, "yes", qsome),
            Parsed(c, "got_tag_close", <<>>),
            Walked(w, Parsed(c, "got_tag_close", <<>>), "got_tag_close", <<>>)))
    BY <1>1, <1>3, <2>1, ReturnOnce
  <2> QED BY <1>2, <2>2 DEF e
<1> QED BY <1>4, <1>5 DEF tag

------------------------------------------------------------------------------
(* Where the parser is between two pieces of a document.                   *)

DocCall(f) == \E p, h, s : f = At("rule_xml_document", 3, 1, p, h, s)
TagCall(f) == \E p, h, s : f = At("rule_xml_tag", 6, 1, p, h, s)
FullCall(f) == \E p, h, s : f = At("rule_xml_tag_end_full", 2, 2, p, h, s)
RecourseCall(f) == \E p, h, s : f = At("recourse_tag_line", 1, 1, p, h, s)

\* bs[d] is what the tag of an element lies on that d - 1 others are open around.
IsDocBase(b) == \E f : DocCall(f) /\ b = Append(<<>>, f)
IsNextBase(b, c) ==
    \E x, y, z : TagCall(x) /\ FullCall(y) /\ RecourseCall(z) /\ c = Append(Append(Append(b, x), y), z)
Bases(bs, d) ==
    /\ IsDocBase(bs[1])
    /\ \A j \in 1..d : IsSeq(bs[j])
    /\ \A j \in 1..(d - 1) : IsNextBase(bs[j], bs[j + 1])
Base(b, d) == d \in Nat \ {0} /\ \E bs : Bases(bs, d) /\ bs[d] = b

LEMMA EmptyIsSeq == IsSeq(<<>>)
  BY <<>> \in Seq({}) DEF IsSeq

LEMMA BaseSeq == ASSUME NEW b, NEW d, Base(b, d) PROVE IsSeq(b)
  BY DEF Base, Bases

LEMMA BaseOne ==
    ASSUME NEW f, DocCall(f) PROVE Base(Append(<<>>, f), 1)
<1> DEFINE b == Append(<<>>, f)
           bs == [j \in 1..1 |-> b]
<1>1. IsSeq(b)
  BY EmptyIsSeq, PushFacts
<1>2. bs[1] = b /\ IsDocBase(b)
  BY DEF IsDocBase
<1>3. Bases(bs, 1)
  <2>1. \A j \in 1..1 : j = 1
    OBVIOUS
  <2>2. 1..(1 - 1) = {}
    OBVIOUS
  <2> HIDE DEF bs, b
  <2> QED BY <1>1, <1>2, <2>1, <2>2 DEF Bases
<1> QED BY <1>2, <1>3 DEF Base

LEMMA AreBases ==
    ASSUME NEW t, NEW n, IsDocBase(t[1]), \A j \in 1..n : IsSeq(t[j]),
           \A j \in 1..(n - 1) : IsNextBase(t[j], t[j + 1])
    PROVE  Bases(t, n)
  BY DEF Bases

LEMMA BaseDown ==
    ASSUME NEW b, NEW d, Base(b, d), NEW c, IsNextBase(b, c)
    PROVE  Base(c, d + 1)
<1>1. d \in Nat \ {0}
  BY DEF Base
<1>2. PICK ks : Bases(ks, d) /\ ks[d] = b
  BY DEF Base
<1> DEFINE cs == [j \in 1..(d + 1) |-> IF j = d + 1 THEN c ELSE ks[j]]
<1>3. cs[d + 1] = c /\ \A j \in 1..d : cs[j] = ks[j]
  BY <1>1
<1>4. IsSeq(c)
  <2>1. PICK x, y, z : c = Append(Append(Append(b, x), y), z)
    BY DEF IsNextBase
  <2>2. IsSeq(b)
    BY BaseSeq
  <2>3. IsSeq(Append(b, x))
    BY <2>2, PushFacts
  <2>4. IsSeq(Append(Append(b, x), y))
    BY <2>3, PushFacts
  <2> QED BY <2>1, <2>4, PushFacts
<1> HIDE DEF cs
<1>5. Bases(cs, d + 1)
  <2>1. 1 \in 1..d /\ IsDocBase(cs[1])
    BY <1>1, <1>2, <1>3 DEF Bases
  <2>2. ASSUME NEW j \in 1..(d + 1) PROVE IsSeq(cs[j])
    <3>1. j \in 1..d \/ j = d + 1
      BY <1>1
    <3> QED BY <1>2, <1>3, <1>4, <3>1 DEF Bases
  <2>3. ASSUME NEW j \in 1..((d + 1) - 1) PROVE IsNextBase(cs[j], cs[j + 1])
    <3>1. CASE j = d
      <4>1. d \in 1..d
        BY <1>1
      <4> QED BY <1>2, <1>3, <3>1, <4>1
    <3>2. CASE j # d
      <4>1. j \in 1..d /\ j + 1 \in 1..d /\ j \in 1..(d - 1)
        BY <1>1, <3>2
      <4> QED BY <1>2, <1>3, <4>1 DEF Bases
    <3> QED BY <3>1, <3>2
  <2> QED BY <2>1, <2>2, <2>3, AreBases
<1> QED BY <1>1, <1>3, <1>5 DEF Base

LEMMA BaseUp ==
    ASSUME NEW c, NEW d, Base(c, d)
    PROVE  \/ d = 1 /\ IsDocBase(c)
           \/ d > 1 /\ \E b : Base(b, d - 1) /\ IsNextBase(b, c)
<1>1. d \in Nat \ {0}
  BY DEF Base
<1>2. PICK bs : Bases(bs, d) /\ bs[d] = c
  BY DEF Base
<1>3. CASE d = 1
  BY <1>2, <1>3 DEF Bases
<1>4. CASE d # 1
  <2>1. d - 1 \in Nat \ {0} /\ d - 1 \in 1..(d - 1) /\ d - 1 + 1 = d /\ d > 1
    BY <1>1, <1>4
  <2>2. IsNextBase(bs[d - 1], c)
    BY <1>2, <2>1 DEF Bases
  <2>3. Bases(bs, d - 1)
    <3>1. \A j \in 1..(d - 1) : j \in 1..d
      BY <1>1
    <3>2. \A j \in 1..(d - 1 - 1) : j \in 1..(d - 1)
      BY <1>1
    <3> QED BY <1>2, <3>1, <3>2 DEF Bases
  <2>4. Base(bs[d - 1], d - 1)
    BY <2>1, <2>3 DEF Base
  <2> QED BY <2>1, <2>2, <2>4
<1> QED BY <1>3, <1>4

\* Before the root, in the header, in a tag that d elements are open around, in
\* the text of the d-th, between its tags and comments, and behind the root.
Before(a, i, p, c, w) ==
    \E alt, h, s : Reaches(a, On(<<>>, At("rule_xml_document", i, alt, p, h, s), c, w))
InHeader(a, p, c, w) ==
    \E q, qh, qs, alt, h, s :
        Reaches(a, On(Append(<<>>, At("rule_xml_document", 1, 1, q, qh, qs)),
                      At("xml_header", 3, alt, p, h, s), c, w))
InATag(a, d, p, c, w) ==
    \E b, alt, h, s : Base(b, d + 1) /\ Reaches(a, On(b, At("rule_xml_tag", 4, alt, p, h, s), c, w))
InText(a, d, p, c, w) ==
    \E b, x, alt, h, s :
        /\ Base(b, d) /\ TagCall(x)
        /\ Reaches(a, On(Append(b, x), At("rule_xml_tag_end_full", 2, alt, p, h, s), c, w))
InMarkup(a, d, p, c, w) ==
    \E b, x, y, alt, h :
        /\ Base(b, d) /\ TagCall(x) /\ FullCall(y)
        /\ Reaches(a, On(Append(Append(b, x), y), At("recourse_tag_line", 1, alt, p, h, "yes"), c, w))
Behind(a, p, c, w) ==
    \E s : Reaches(a, On(<<>>, At("rule_xml_document", 4, 0, p, "yes", s), c, w))

\* The header begins, goes on and ends.
LEMMA HeaderChoice ==
    /\ MaybeOf("rule_xml_document", 1, <<"xml_header">>) /\ Len(<<"xml_header">>) = 1
    /\ <<"xml_header">>[1] = "xml_header"
  BY DocumentSymbols

LEMMA HeaderTried ==
    ASSUME IsSeq(content), NEW a, NEW p \in Nat, p <= Len(content), NEW alt, NEW h, NEW s, NEW c, NEW w,
           Reaches(a, On(<<>>, At("rule_xml_document", 1, alt, p, h, s), c, w))
    PROVE  Reaches(a, On(Append(<<>>, At("rule_xml_document", 1, 1, p, h, s)),
                         At("xml_header", 1, 0, p, "no", "no"), c, w))
<1> DEFINE e == <<"xml_header">>
           o == <<>>
<1>1. IsCall("rule_xml_document", 1) /\ Choice("rule_xml_document", 1, e) /\ e[1] = "xml_header" /\ IsSeq(o)
  BY HeaderChoice, EmptyIsSeq DEF MaybeOf
<1> HIDE DEF e, o
<1>2. Reaches(a, On(o, At("rule_xml_document", 1, alt, p, h, s), c, w))
  BY DEF o
<1>3. Reaches(a, On(Append(o, At("rule_xml_document", 1, 1, p, h, s)), At(e[1], 1, 0, p, "no", "no"), c, w))
  BY <1>1, <1>2, Enter
<1> QED BY <1>1, <1>3 DEF o

LEMMA HeaderStarts ==
    ASSUME IsSeq(content), NEW a, NEW p, NEW c, NEW w, Before(a, 1, p, c, w), Shows(p, HeaderMark)
    PROVE  InHeader(a, p + 3, c, w)
<1>1. PICK alt, h, s : Reaches(a, On(<<>>, At("rule_xml_document", 1, alt, p, h, s), c, w))
  BY DEF Before
<1> DEFINE t == Append(<<>>, At("rule_xml_document", 1, 1, p, h, s))
<1>2. p \in Nat /\ p <= Len(content)
  <2>1. Len(HeaderMark) = 3
    BY Marked
  <2> QED BY <2>1, LenNat DEF Shows
<1>3. Reaches(a, On(t, At("xml_header", 1, 0, p, "no", "no"), c, w))
  BY <1>1, <1>2, HeaderTried
<1>4. IsSeq(t)
  BY EmptyIsSeq, PushFacts
<1>5. \E x : Reaches(a, On(t, At("xml_header", 3, 0, p + 3, "yes", x), c, w))
  <2> HIDE DEF t
  <2> QED BY <1>3, <1>4, HeaderBegun
<1> QED BY <1>5 DEF InHeader

LEMMA HeaderStops ==
    ASSUME IsSeq(content), NEW a, NEW p, NEW c, NEW w, InHeader(a, p, c, w),
           NEW g, Blanks(p, g), Shows(p + g, HeaderTail)
    PROVE  Before(a, 2, p + g + 2, c, w)
<1>1. PICK q, qh, qs, alt, h, s :
          Reaches(a, On(Append(<<>>, At("rule_xml_document", 1, 1, q, qh, qs)),
                      At("xml_header", 3, alt, p, h, s), c, w))
  BY DEF InHeader
<1> DEFINE t == Append(<<>>, At("rule_xml_document", 1, 1, q, qh, qs))
           z == p + g + 2
<1>2. IsSeq(t)
  BY EmptyIsSeq, PushFacts
<1>3. PICK x : Reaches(a, On(t, At("xml_header", 6, 0, z, "yes", x), c, w))
  <2> HIDE DEF t
  <2>1. Reaches(a, On(t, At("xml_header", 3, alt, p, h, s), c, w))
    BY <1>1 DEF t
  <2> QED BY <1>2, <2>1, HeaderEnd
<1>4. Ended("xml_header") = 6 /\ Len(Lines["xml_header"]) \in Nat /\ AtEndOf("xml_header") = "none"
      /\ Single("rule_xml_document", 1)
  BY HeaderSymbols, HeaderChoice DEF AtEndOf, MaybeOf
<1> HIDE DEF z
<1> DEFINE o == <<>>
<1>5. IsSeq(o)
  BY EmptyIsSeq
<1> HIDE DEF o
<1>6. Reaches(a, On(Append(o, At("rule_xml_document", 1, 1, q, qh, qs)),
                    At("xml_header", Ended("xml_header"), 0, z, "yes", x), c, w))
  BY <1>3, <1>4 DEF o
<1>7. Reaches(a, On(o, At("rule_xml_document", 1 + 1, 0, z, "yes", qs),
                    Parsed(c, "none", <<>>), Walked(w, Parsed(c, "none", <<>>), "none", <<>>)))
  BY <1>4, <1>5, <1>6, ReturnOnce
<1>8. Reaches(a, On(o, At("rule_xml_document", 2, 0, z, "yes", qs), c, w))
  BY <1>7, NoHandler
<1> QED BY <1>8 DEF Before, o, z

AttrShown(p, g, n, v) ==
    /\ g \in Nat /\ IsWords(n)
    /\ IsSeq(v) /\ Len(v) <= MAX_TOKEN_LEN /\ \A k \in 1..Len(v) : v[k] # Quote
    /\ Shows(p, AttrText(g, n, v))
AfterAttr(p, g, n, v) == p + Len(AttrText(g, n, v))

LEMMA HeaderAttr ==
    ASSUME IsSeq(content), NEW a, NEW p, NEW c, NEW w, InHeader(a, p, c, w),
           NEW g, NEW n, NEW v, AttrShown(p, g, n, v)
    PROVE  InHeader(a, AfterAttr(p, g, n, v), AttrParsed(c, n, v), w)
<1>1. PICK q, qh, qs, alt, h, s :
          Reaches(a, On(Append(<<>>, At("rule_xml_document", 1, 1, q, qh, qs)),
                      At("xml_header", 3, alt, p, h, s), c, w))
  BY DEF InHeader
<1> DEFINE t == Append(<<>>, At("rule_xml_document", 1, 1, q, qh, qs))
<1>2. IsSeq(t)
  BY EmptyIsSeq, PushFacts
<1> HIDE DEF t
<1>3. Reaches(a, On(t, At("xml_header", 3, alt, p, h, s), c, w))
  BY <1>1 DEF t
<1>4. OftenOf("xml_header", 3, <<"attr_line">>)
  BY HeaderSymbols
<1>5. Reaches(a, On(t, At("xml_header", 3, 0, AfterAttr(p, g, n, v), "yes", "yes"), AttrParsed(c, n, v), w))
  BY <1>2, <1>3, <1>4, AttrRead DEF AttrShown, AfterAttr
<1> QED BY <1>5 DEF InHeader, t

LEMMA TagAttr ==
    ASSUME IsSeq(content), NEW a, NEW d, NEW p, NEW c, NEW w, InATag(a, d, p, c, w),
           NEW g, NEW n, NEW v, AttrShown(p, g, n, v)
    PROVE  InATag(a, d, AfterAttr(p, g, n, v), AttrParsed(c, n, v), w)
<1>1. PICK b, alt, h, s : Base(b, d + 1) /\ Reaches(a, On(b, At("rule_xml_tag", 4, alt, p, h, s), c, w))
  BY DEF InATag
<1>2. OftenOf("rule_xml_tag", 4, <<"attr_line">>) /\ IsSeq(b)
  BY <1>1, TagSymbols, BaseSeq
<1>3. Reaches(a, On(b, At("rule_xml_tag", 4, 0, AfterAttr(p, g, n, v), "yes", "yes"), AttrParsed(c, n, v), w))
  BY <1>1, <1>2, AttrRead DEF AttrShown, AfterAttr
<1> QED BY <1>1, <1>3 DEF InATag

\* A tag is there, with this name.
TagShown(q, s) ==
    /\ q \in Nat \ {0} /\ content[q] = "<" /\ IsWords(s) /\ Shows(q + 1, s)
    /\ q + 1 + Len(s) <= Len(content) /\ content[q + 1 + Len(s)] \notin Words
AfterTag(q, s) == q + 1 + Len(s)

LEMMA TagShownFacts ==
    ASSUME IsSeq(content), NEW q, NEW s, TagShown(q, s)
    PROVE  /\ q \in Nat \ {0} /\ q + 1 <= Len(content) /\ content[q] = "<" /\ content[q + 1] \in Words
           /\ q \in 1..Len(content)
<1>1. IsSeq(s) /\ Len(s) > 0 /\ Len(s) \in Nat /\ s[1] \in Words /\ 1 \in 1..Len(s)
  <2>1. IsSeq(s) /\ Len(s) > 0 /\ \A i \in 1..Len(s) : s[i] \in Words
    BY DEF TagShown, IsWords
  <2>2. Len(s) \in Nat
    BY <2>1, LenNat
  <2> QED BY <2>1, <2>2
<1>2. q \in Nat \ {0} /\ q + 1 + Len(s) <= Len(content) /\ content[q] = "<" /\ Len(content) \in Nat
      /\ Shows(q + 1, s)
  BY LenNat DEF TagShown
<1>3. content[q + 1 + 1 - 1] = s[1]
  BY <1>1, <1>2, ShownAt
<1>4. q + 1 + 1 - 1 = q + 1
  BY <1>2
<1> QED BY <1>1, <1>2, <1>3, <1>4

LEMMA TagDiffers ==
    ASSUME IsSeq(content), NEW q, NEW s, TagShown(q, s)
    PROVE  Differs(q, CommentMark) /\ Differs(q, HeaderMark)
<1>1. q \in Nat \ {0} /\ q + 1 <= Len(content) /\ content[q + 1] \in Words
  BY TagShownFacts
<1>2. content[q + 1] # "!" /\ content[q + 1] # "?"
  BY <1>1, NotWords
<1>3. Differs(q, CommentMark)
  BY <1>1, <1>2, CommentDiffers
<1>4. Differs(q, HeaderMark)
  <2>1. q + 2 - 1 = q + 1 /\ 2 \in 1..Len(HeaderMark) /\ HeaderMark[2] = "?"
    BY <1>1, Marked
  <2> QED BY <1>1, <1>2, <2>1 DEF Differs
<1> QED BY <1>3, <1>4

\* Without a header
LEMMA NoHeader ==
    ASSUME IsSeq(content), NEW a, NEW p, NEW c, NEW w, Before(a, 1, p, c, w),
           NEW g, Blanks(p, g), Differs(p + g, HeaderMark)
    PROVE  Before(a, 2, p, c, w)
<1>1. PICK alt, h, s : Reaches(a, On(<<>>, At("rule_xml_document", 1, alt, p, h, s), c, w))
  BY DEF Before
<1> DEFINE o == <<>>
           t == Append(o, At("rule_xml_document", 1, 1, p, h, s))
           e == <<"xml_header">>
<1>2. p \in Nat /\ p <= Len(content) /\ IsSeq(o)
  BY LenNat, EmptyIsSeq DEF Blanks
<1>3. Reaches(a, On(t, At("xml_header", 1, 0, p, "no", "no"), c, w))
  BY <1>1, <1>2, HeaderTried
<1>4. IsSeq(t)
  BY EmptyIsSeq, PushFacts
<1>5. Often("xml_header", 1, whitespace, "none") /\ Need("xml_header", 2, Literal(HeaderMark), "none")
      /\ IsSeq(HeaderMark)
  BY HeaderSymbols, Marked DEF HeaderMark
<1> HIDE DEF t
<1>6. Fails(a, t, c, w)
  BY <1>3, <1>4, <1>5, MarkedLineMissed
<1>7. Choice("rule_xml_document", 1, e) /\ 1 = Len(e) /\ Optional("rule_xml_document", 1)
  BY HeaderChoice DEF MaybeOf
<1> HIDE DEF e, o
<1>8. Reaches(a, On(o, At("rule_xml_document", 1 + 1, 0, p, "no", s), c, w))
  <2>1. Fails(a, Append(o, At("rule_xml_document", 1, 1, p, h, s)), c, w)
    BY <1>6 DEF t
  <2> QED BY <1>2, <1>7, <2>1, GiveUp
<1> QED BY <1>8 DEF Before, o

LEMMA PrologTried ==
    ASSUME IsSeq(content), NEW a, NEW p \in Nat, p <= Len(content), NEW alt, NEW h, NEW s, NEW c, NEW w,
           Reaches(a, On(<<>>, At("rule_xml_document", 2, alt, p, h, s), c, w))
    PROVE  Reaches(a, On(Append(<<>>, At("rule_xml_document", 2, 1, p, h, s)),
                         At("comment_line", 1, 0, p, "no", "no"), c, w))
<1> DEFINE e == <<"comment_line">>
           o == <<>>
<1>1. IsCall("rule_xml_document", 2) /\ Choice("rule_xml_document", 2, e) /\ e[1] = "comment_line" /\ IsSeq(o)
  BY DocumentSymbols, EmptyIsSeq DEF OftenOf
<1> HIDE DEF e, o
<1>2. Reaches(a, On(o, At("rule_xml_document", 2, alt, p, h, s), c, w))
  BY DEF o
<1>3. Reaches(a, On(Append(o, At("rule_xml_document", 2, 1, p, h, s)), At(e[1], 1, 0, p, "no", "no"), c, w))
  BY <1>1, <1>2, Enter
<1> QED BY <1>1, <1>3 DEF o

\* a comment before the root
LEMMA CommentDiffersHeader ==
    ASSUME IsSeq(content), NEW q, NEW s, CommentShown(q, s)
    PROVE  Differs(q, HeaderMark)
<1>1. q \in Nat \ {0} /\ q + 4 <= Len(content) + 1 /\ content[q + 1] = "!" /\ Len(content) \in Nat
  BY CommentMarkShown, LenNat DEF CommentShown
<1>2. q + 2 - 1 = q + 1 /\ 2 \in 1..Len(HeaderMark) /\ HeaderMark[2] = "?" /\ q + 1 <= Len(content)
  BY <1>1, Marked
<1> QED BY <1>1, <1>2 DEF Differs

LEMMA PrologComment ==
    ASSUME IsSeq(content), NEW a, NEW p, NEW c, NEW w, Before(a, 2, p, c, w),
           NEW g, Blanks(p, g), NEW s, CommentShown(p + g, s)
    PROVE  Before(a, 2, AfterComment(p + g, s), c, w)
<1>1. PICK alt, h, x : Reaches(a, On(<<>>, At("rule_xml_document", 2, alt, p, h, x), c, w))
  BY DEF Before
<1> DEFINE o == <<>>
           t == Append(o, At("rule_xml_document", 2, 1, p, h, x))
           q == AfterComment(p + g, s)
<1>2. p \in Nat /\ p <= Len(content) /\ IsSeq(o)
  BY LenNat, EmptyIsSeq DEF Blanks
<1>3. Reaches(a, On(t, At("comment_line", 1, 0, p, "no", "no"), c, w))
  BY <1>1, <1>2, PrologTried
<1>4. IsSeq(t)
  BY EmptyIsSeq, PushFacts
<1> HIDE DEF t
<1>5. PICK y : Reaches(a, On(t, At("comment_line", 5, 0, q, "yes", y), c, w))
  BY <1>3, <1>4, CommentRead DEF CommentShown, AfterComment
<1> HIDE DEF q, o
<1>6. /\ Ended("comment_line") = 5 /\ Len(Lines["comment_line"]) \in Nat
      /\ AtEndOf("comment_line") = "none" /\ Repeated("rule_xml_document", 2)
  BY CommentSymbols, DocumentSymbols DEF AtEndOf, OftenOf
<1>7. Reaches(a, On(Append(o, At("rule_xml_document", 2, 1, p, h, x)),
                    At("comment_line", Ended("comment_line"), 0, q, "yes", y), c, w))
  BY <1>5, <1>6 DEF t
<1>8. Reaches(a, On(o, At("rule_xml_document", 2, 0, q, "yes", "yes"),
                    Parsed(c, "none", <<>>), Walked(w, Parsed(c, "none", <<>>), "none", <<>>)))
  BY <1>2, <1>6, <1>7, ReturnAgain
<1>9. Reaches(a, On(o, At("rule_xml_document", 2, 0, q, "yes", "yes"), c, w))
  BY <1>8, NoHandler
<1> QED BY <1>9 DEF Before, o, q

\* or the tag of the root.
LEMMA RootTag ==
    ASSUME IsSeq(content), NEW a, NEW p, NEW c, NEW w, Before(a, 2, p, c, w),
           NEW g, Blanks(p, g), NEW s, TagShown(p + g, s)
    PROVE  InATag(a, 0, AfterTag(p + g, s), TagParsed(c, s), w)
<1>1. PICK alt, h, x : Reaches(a, On(<<>>, At("rule_xml_document", 2, alt, p, h, x), c, w))
  BY DEF Before
<1> DEFINE o == <<>>
           t == Append(o, At("rule_xml_document", 2, 1, p, h, x))
           e == <<"comment_line">>
<1>2. p \in Nat /\ p <= Len(content) /\ IsSeq(o)
  BY LenNat, EmptyIsSeq DEF Blanks
<1>3. Reaches(a, On(t, At("comment_line", 1, 0, p, "no", "no"), c, w))
  BY <1>1, <1>2, PrologTried
<1>4. IsSeq(t)
  BY EmptyIsSeq, PushFacts
<1> HIDE DEF t
<1>5. Fails(a, t, c, w)
  <2>1. Differs(p + g, CommentMark)
    BY TagDiffers
  <2> QED BY <1>3, <1>4, <2>1, NotAComment
<1>6. Choice("rule_xml_document", 2, e) /\ 1 = Len(e) /\ Optional("rule_xml_document", 2)
  BY DocumentSymbols DEF OftenOf
<1> HIDE DEF e, o
<1>7. Reaches(a, On(o, At("rule_xml_document", 2 + 1, 0, p, "no", x), c, w))
  <2>1. Fails(a, Append(o, At("rule_xml_document", 2, 1, p, h, x)), c, w)
    BY <1>5 DEF t
  <2> QED BY <1>2, <1>6, <2>1, GiveUp
<1>8. Reaches(a, On(o, At("rule_xml_document", 3, 0, p, "no", x), c, w))
  BY <1>7
<1> DEFINE f == At("rule_xml_document", 3, 1, p, "no", x)
           b == Append(<<>>, f)
<1>9. Reaches(a, On(Append(o, f), At("rule_xml_tag", 1, 0, p, "no", "no"), c, w))
  <2>1. TagChoice("rule_xml_document", 3)
    BY TagChoices
  <2> QED BY <1>2, <1>8, <2>1, TagTried
<1>10. Base(b, 1) /\ IsSeq(b) /\ 0 + 1 = 1
  <2>1. DocCall(f)
    BY DEF DocCall
  <2>2. Base(b, 1)
    <3> HIDE DEF f
    <3> QED BY <2>1, BaseOne
  <2> HIDE DEF b
  <2> QED BY <2>2, BaseSeq
<1>11. Reaches(a, On(b, At("rule_xml_tag", 1, 0, p, "no", "no"), c, w))
  BY <1>9 DEF o
<1> HIDE DEF b
<1>12. \E y : Reaches(a, On(b, At("rule_xml_tag", 4, 0, p + g + 1 + Len(s), "yes", y), TagParsed(c, s), w))
  BY <1>10, <1>11, TagBegun DEF TagShown
<1> QED BY <1>10, <1>12 DEF InATag, AfterTag

\* Text, which the content of an element begins with and goes on with
LEMMA ContentText ==
    ASSUME IsSeq(content), NEW a, NEW d, NEW p, NEW c, NEW w, InText(a, d, p, c, w),
           NEW s, Shows(p, s), Len(s) > 0, \A i \in 1..Len(s) : s[i] \notin {"&", "<"},
           p + Len(s) <= Len(content), content[p + Len(s)] = "<"
    PROVE  InText(a, d, p + Len(s), c, charDatahandler(w, s))
<1>1. PICK b, x, alt, h, y :
          /\ Base(b, d) /\ TagCall(x)
          /\ Reaches(a, On(Append(b, x), At("rule_xml_tag_end_full", 2, alt, p, h, y), c, w))
  BY DEF InText
<1> DEFINE t == Append(b, x)
<1>2. IsSeq(t)
  <2>1. IsSeq(b)
    BY <1>1, BaseSeq
  <2> QED BY <2>1, PushFacts
<1>3. Reaches(a, On(t, At("rule_xml_tag_end_full", 2, alt, p, h, y), c, w))
  BY <1>1
<1> HIDE DEF t
<1>4. Reaches(a, On(t, At("rule_xml_tag_end_full", 2, 0, p + Len(s), "yes", "yes"), c, charDatahandler(w, s)))
  BY <1>2, <1>3, TextTaken
<1> QED BY <1>1, <1>4 DEF InText, t

\* after its tags and comments.
LEMMA MarkupToText ==
    ASSUME IsSeq(content), NEW a, NEW d, NEW p, NEW c, NEW w, InMarkup(a, d, p, c, w),
           NEW g, Blanks(p, g), NoTag(p + g), Differs(p + g, CommentMark)
    PROVE  \E e \in {c, do_tag_reset(c)} : InText(a, d, p, e, w)
<1>1. PICK b, x, y, alt, h :
          /\ Base(b, d) /\ TagCall(x) /\ FullCall(y)
          /\ Reaches(a, On(Append(Append(b, x), y), At("recourse_tag_line", 1, alt, p, h, "yes"), c, w))
  BY DEF InMarkup
<1> DEFINE t == Append(b, x)
<1>2. IsSeq(t)
  <2>1. IsSeq(b)
    BY <1>1, BaseSeq
  <2> QED BY <2>1, PushFacts
<1>3. PICK q, qh, qs : y = At("rule_xml_tag_end_full", 2, 2, q, qh, qs)
  BY <1>1 DEF FullCall
<1>4. Reaches(a, On(InFull(t, 2, q, qh, qs), At("recourse_tag_line", 1, alt, p, h, "yes"), c, w))
  BY <1>1, <1>3 DEF InFull
<1> HIDE DEF t
<1>5. PICK e \in {c, do_tag_reset(c)} :
          Reaches(a, On(t, At("rule_xml_tag_end_full", 2, 0, p, "yes", "yes"), e, w))
  BY <1>2, <1>4, TextAgain
<1>6. InText(a, d, p, e, w)
  BY <1>1, <1>5 DEF InText, t
<1> QED BY <1>6

\* A tag or a comment may come after a text or after another one.
InRecourse(a, d, p, c, w) ==
    \E b, x, y, alt, h, s :
        /\ Base(b, d) /\ TagCall(x) /\ FullCall(y)
        /\ Reaches(a, On(Append(Append(b, x), y), At("recourse_tag_line", 1, alt, p, h, s), c, w))

LEMMA MarkupToRecourse ==
    ASSUME NEW a, NEW d, NEW p, NEW c, NEW w, InMarkup(a, d, p, c, w)
    PROVE  InRecourse(a, d, p, c, w)
<1>1. PICK b, x, y, alt, h :
          /\ Base(b, d) /\ TagCall(x) /\ FullCall(y)
          /\ Reaches(a, On(Append(Append(b, x), y), At("recourse_tag_line", 1, alt, p, h, "yes"), c, w))
  BY DEF InMarkup
<1> QED BY <1>1 DEF InRecourse

LEMMA TextToRecourse ==
    ASSUME IsSeq(content), NEW a, NEW d, NEW p \in 1..Len(content), NEW c, NEW w, InText(a, d, p, c, w),
           content[p] = "<"
    PROVE  InRecourse(a, d, p, c, w)
<1>1. PICK b, x, alt, h, s :
          /\ Base(b, d) /\ TagCall(x)
          /\ Reaches(a, On(Append(b, x), At("rule_xml_tag_end_full", 2, alt, p, h, s), c, w))
  BY DEF InText
<1> DEFINE t == Append(b, x)
           y == At("rule_xml_tag_end_full", 2, 2, p, h, s)
<1>2. IsSeq(t)
  <2>1. IsSeq(b)
    BY <1>1, BaseSeq
  <2> QED BY <2>1, PushFacts
<1>3. Reaches(a, On(t, At("rule_xml_tag_end_full", 2, alt, p, h, s), c, w))
  BY <1>1
<1> HIDE DEF t
<1>4. Reaches(a, On(InFull(t, 2, p, h, s), At("recourse_tag_line", 1, 0, p, "no", "no"), c, w))
  BY <1>2, <1>3, NotText
<1>5. FullCall(y)
  BY DEF FullCall
<1>6. Reaches(a, On(Append(Append(b, x), y), At("recourse_tag_line", 1, 0, p, "no", "no"), c, w))
  BY <1>4 DEF t, InFull
<1> HIDE DEF y
<1> QED BY <1>1, <1>5, <1>6 DEF InRecourse

LEMMA ContentComment ==
    ASSUME IsSeq(content), NEW a, NEW d, NEW p, NEW c, NEW w, InRecourse(a, d, p, c, w),
           NEW g, Blanks(p, g), NEW s, CommentShown(p + g, s)
    PROVE  InMarkup(a, d, AfterComment(p + g, s), do_tag_reset(c), w)
<1>1. PICK b, x, y, alt, h, z :
          /\ Base(b, d) /\ TagCall(x) /\ FullCall(y)
          /\ Reaches(a, On(Append(Append(b, x), y), At("recourse_tag_line", 1, alt, p, h, z), c, w))
  BY DEF InRecourse
<1> DEFINE t == Append(Append(b, x), y)
<1>2. IsSeq(t)
  <2>1. IsSeq(b)
    BY <1>1, BaseSeq
  <2>2. IsSeq(Append(b, x))
    BY <2>1, PushFacts
  <2> QED BY <2>2, PushFacts
<1>3. Reaches(a, On(t, At("recourse_tag_line", 1, alt, p, h, z), c, w))
  BY <1>1
<1> HIDE DEF t
<1>4. Reaches(a, On(t, At("recourse_tag_line", 1, 0, AfterComment(p + g, s), "yes", "yes"), do_tag_reset(c), w))
  BY <1>2, <1>3, CommentPassed
<1> QED BY <1>1, <1>4 DEF InMarkup, t

LEMMA ContentTag ==
    ASSUME IsSeq(content), NEW a, NEW d, NEW p, NEW c, NEW w, InRecourse(a, d, p, c, w),
           NEW g, Blanks(p, g), NEW s, TagShown(p + g, s)
    PROVE  InATag(a, d, AfterTag(p + g, s), TagParsed(c, s), w)
<1>1. PICK b, x, y, alt, h, z :
          /\ Base(b, d) /\ TagCall(x) /\ FullCall(y)
          /\ Reaches(a, On(Append(Append(b, x), y), At("recourse_tag_line", 1, alt, p, h, z), c, w))
  BY DEF InRecourse
<1> DEFINE t == Append(Append(b, x), y)
           f == At("recourse_tag_line", 1, 1, p, h, z)
           u == Append(t, f)
<1>2. IsSeq(t)
  <2>1. IsSeq(b)
    BY <1>1, BaseSeq
  <2>2. IsSeq(Append(b, x))
    BY <2>1, PushFacts
  <2> QED BY <2>2, PushFacts
<1>3. IsNextBase(b, u)
  <2>1. RecourseCall(f)
    BY DEF RecourseCall
  <2> HIDE DEF f
  <2> QED BY <1>1, <2>1 DEF IsNextBase
<1>4. p \in Nat /\ p <= Len(content)
  BY LenNat DEF Blanks
<1>5. Reaches(a, On(t, At("recourse_tag_line", 1, alt, p, h, z), c, w))
  BY <1>1
<1> HIDE DEF t
<1>6. Reaches(a, On(u, At("rule_xml_tag", 1, 0, p, "no", "no"), c, w))
  <2>1. TagChoice("recourse_tag_line", 1)
    BY TagChoices
  <2> QED BY <1>2, <1>4, <1>5, <2>1, TagTried
<1>7. Base(u, d + 1) /\ IsSeq(u)
  <2> HIDE DEF u
  <2>1. Base(u, d + 1)
    BY <1>1, <1>3, BaseDown
  <2> QED BY <2>1, BaseSeq
<1> HIDE DEF u
<1>8. \E k : Reaches(a, On(u, At("rule_xml_tag", 4, 0, p + g + 1 + Len(s), "yes", k), TagParsed(c, s), w))
  BY <1>6, <1>7, TagBegun DEF TagShown
<1> QED BY <1>7, <1>8 DEF InATag, AfterTag

\* The tag of an element ends: with its content before it,
LEMMA ElementOpens ==
    ASSUME IsSeq(content), NEW a, NEW d, NEW p, NEW c, NEW w, InATag(a, d, p, c, w),
           NEW g, Blanks(p, g), content[p + g] = ">"
    PROVE  InText(a, d + 1, p + g + 1, TagOf(c), Started(w, c))
<1>1. PICK b, alt, h, s : Base(b, d + 1) /\ Reaches(a, On(b, At("rule_xml_tag", 4, alt, p, h, s), c, w))
  BY DEF InATag
<1>2. IsSeq(b)
  BY <1>1, BaseSeq
<1>3. PICK x : Reaches(a, On(InTagEnd(b, 1, p + g, "no", x),
                             At("rule_xml_tag_end_full", 2, 0, p + g + 1, "yes", "no"),
                             TagOf(c), Started(w, c)))
  BY <1>1, <1>2, TagOpens
<1> DEFINE f == At("rule_xml_tag", 6, 1, p + g, "no", x)
<1>4. TagCall(f)
  BY DEF TagCall
<1>5. Reaches(a, On(Append(b, f), At("rule_xml_tag_end_full", 2, 0, p + g + 1, "yes", "no"),
                    TagOf(c), Started(w, c)))
  BY <1>3 DEF InTagEnd
<1> HIDE DEF f
<1> QED BY <1>1, <1>4, <1>5 DEF InText

\* or with the element.
AfterElement(a, d, p, c, w) ==
    /\ d = 1 => Behind(a, p, c, w)
    /\ d > 1 => InMarkup(a, d - 1, p, c, w)

LEMMA ElementReturns ==
    ASSUME NEW a, NEW b, NEW d, Base(b, d), NEW p, NEW s, NEW c, NEW w,
           Reaches(a, On(b, At("rule_xml_tag", 7, 0, p, "yes", s), c, w))
    PROVE  AfterElement(a, d, p, c, endElement(w))
<1>1. CASE d = 1 /\ IsDocBase(b)
  <2>1. PICK f : DocCall(f) /\ b = Append(<<>>, f)
    BY <1>1 DEF IsDocBase
  <2>2. PICK q, qh, qs : f = At("rule_xml_document", 3, 1, q, qh, qs)
    BY <2>1 DEF DocCall
  <2> DEFINE o == <<>>
  <2>3. IsSeq(o)
    BY EmptyIsSeq
  <2>4. Reaches(a, On(Append(o, At("rule_xml_document", 3, 1, q, qh, qs)),
                      At("rule_xml_tag", 7, 0, p, "yes", s), c, w))
    BY <2>1, <2>2
  <2> HIDE DEF o
  <2>5. Reaches(a, On(o, At("rule_xml_document", 4, 0, p, "yes", qs), c, endElement(w)))
    BY <2>3, <2>4, TagReturns
  <2>6. Behind(a, p, c, endElement(w))
    BY <2>5 DEF Behind, o
  <2> QED BY <1>1, <2>6 DEF AfterElement
<1>2. CASE d > 1 /\ \E e : Base(e, d - 1) /\ IsNextBase(e, b)
  <2>1. PICK e : Base(e, d - 1) /\ IsNextBase(e, b)
    BY <1>2
  <2>2. PICK x, y, z : TagCall(x) /\ FullCall(y) /\ RecourseCall(z) /\ b = Append(Append(Append(e, x), y), z)
    BY <2>1 DEF IsNextBase
  <2>3. PICK q, qh, qs : z = At("recourse_tag_line", 1, 1, q, qh, qs)
    BY <2>2 DEF RecourseCall
  <2> DEFINE t == Append(Append(e, x), y)
  <2>4. IsSeq(t)
    <3>1. IsSeq(e)
      BY <2>1, BaseSeq
    <3>2. IsSeq(Append(e, x))
      BY <3>1, PushFacts
    <3> QED BY <3>2, PushFacts
  <2>5. Reaches(a, On(Append(t, At("recourse_tag_line", 1, 1, q, qh, qs)),
                      At("rule_xml_tag", 7, 0, p, "yes", s), c, w))
    BY <2>2, <2>3
  <2> HIDE DEF t
  <2>6. Reaches(a, On(t, At("recourse_tag_line", 1, 0, p, "yes", "yes"), c, endElement(w)))
    BY <2>4, <2>5, TagReturns
  <2>7. InMarkup(a, d - 1, p, c, endElement(w))
    BY <2>1, <2>2, <2>6 DEF InMarkup, t
  <2>8. d # 1
    BY <1>2
  <2> QED BY <2>7, <2>8 DEF AfterElement
<1> QED BY <1>1, <1>2, BaseUp

LEMMA ElementIsEmpty ==
    ASSUME IsSeq(content), NEW a, NEW d, NEW p, NEW c, NEW w, InATag(a, d, p, c, w),
           NEW g, Blanks(p, g), Shows(p + g, EmptyMark)
    PROVE  AfterElement(a, d + 1, p + g + 2, TagOf(c), endElement(Started(w, c)))
<1>1. PICK b, alt, h, s : Base(b, d + 1) /\ Reaches(a, On(b, At("rule_xml_tag", 4, alt, p, h, s), c, w))
  BY DEF InATag
<1>2. IsSeq(b)
  BY <1>1, BaseSeq
<1>3. PICK x : Reaches(a, On(b, At("rule_xml_tag", 7, 0, p + g + 2, "yes", x), TagOf(c), Started(w, c)))
  BY <1>1, <1>2, TagIsEmpty
<1> QED BY <1>1, <1>3, ElementReturns

LEMMA ElementCloses ==
    ASSUME IsSeq(content), NEW a, NEW d, NEW p, NEW c, NEW w, InText(a, d, p, c, w),
           NEW n, CloseShown(p, n)
    PROVE  \E e \in {c, do_tag_reset(c)} :
               AfterElement(a, d, AfterClose(p, n), Parsed(e, "set_tag_name", n), endElement(w))
<1>1. PICK b, x, alt, h, s :
          /\ Base(b, d) /\ TagCall(x)
          /\ Reaches(a, On(Append(b, x), At("rule_xml_tag_end_full", 2, alt, p, h, s), c, w))
  BY DEF InText
<1>2. IsSeq(b)
  BY <1>1, BaseSeq
<1>3. PICK q, qh, qs : x = At("rule_xml_tag", 6, 1, q, qh, qs)
  BY <1>1 DEF TagCall
<1>4. Reaches(a, On(InTagEnd(b, 1, q, qh, qs), At("rule_xml_tag_end_full", 2, alt, p, h, s), c, w))
  BY <1>1, <1>3 DEF InTagEnd
<1>5. PICK e \in {c, do_tag_reset(c)} :
          Reaches(a, On(b, At("rule_xml_tag", 7, 0, AfterClose(p, n), "yes", qs), Parsed(e, "set_tag_name", n), w))
  BY <1>2, <1>4, ElementEnds
<1>6. AfterElement(a, d, AfterClose(p, n), Parsed(e, "set_tag_name", n), endElement(w))
  BY <1>1, <1>5, ElementReturns
<1> QED BY <1>6

------------------------------------------------------------------------------
(* What the strings of a tag take.                                         *)

BytesBody(node, f, k) ==
    IF k = 0 THEN Len(node.name) + 1
    ELSE f[k - 1] + Len(node.attrs[k].name) + Len(node.attrs[k].value) + 2
BytesTo(node, m, f) == f = [k \in 0..m |-> BytesBody(node, f, k)]

LEMMA BytesExist ==
    ASSUME NEW node, NEW n \in Nat PROVE \E f : BytesTo(node, n, f)
<1> DEFINE T == {m \in Nat : \E f : BytesTo(node, m, f)}
<1>1. 0 \in T
  <2> DEFINE f == [k \in 0..0 |-> Len(node.name) + 1]
  <2>1. f = [k \in 0..0 |-> BytesBody(node, f, k)]
    BY DEF BytesBody
  <2> HIDE DEF f
  <2>2. BytesTo(node, 0, f)
    BY <2>1 DEF BytesTo
  <2> QED BY <2>2
<1>2. ASSUME NEW m \in Nat, m \in T PROVE m + 1 \in T
  <2>1. PICK f : BytesTo(node, m, f)
    BY <1>2
  <2> DEFINE g == [j \in 0..m + 1 |-> IF j <= m THEN f[j] ELSE BytesBody(node, f, j)]
  <2>2. ASSUME NEW j \in 0..m + 1 PROVE g[j] = BytesBody(node, g, j)
    <3>1. g[j] = BytesBody(node, f, j)
      <4>1. CASE j <= m
        <5>1. j \in 0..m /\ g[j] = f[j]
          BY <4>1
        <5> HIDE DEF g
        <5> QED BY <5>1, <2>1 DEF BytesTo
      <4>2. CASE ~(j <= m)
        BY <4>2
      <4> QED BY <4>1, <4>2
    <3>2. j # 0 => g[j - 1] = f[j - 1]
      OBVIOUS
    <3> HIDE DEF g
    <3> QED BY <3>1, <3>2 DEF BytesBody
  <2>3. BytesTo(node, m + 1, g)
    <3>1. g = [j \in 0..m + 1 |-> g[j]]
      OBVIOUS
    <3> HIDE DEF g
    <3> QED BY <2>2, <3>1 DEF BytesTo
  <2> QED BY <2>3
<1> HIDE DEF T
<1>3. \A m \in Nat : m \in T
  BY <1>1, <1>2, EveryNumber
<1> QED BY <1>3 DEF T

LEMMA BytesAre ==
    ASSUME NEW node, Len(node.attrs) \in Nat
    PROVE  /\ TagBytes(node)[0] = Len(node.name) + 1
           /\ \A k \in 1..Len(node.attrs) :
                 TagBytes(node)[k] =
                     TagBytes(node)[k - 1] + Len(node.attrs[k].name) + Len(node.attrs[k].value) + 2
<1> DEFINE n == Len(node.attrs)
           t == TagBytes(node)
<1>1. PICK f : BytesTo(node, n, f)
  BY BytesExist
<1>2. f = [k \in 0..n |-> IF k = 0 THEN Len(node.name) + 1
             ELSE f[k - 1] + Len(node.attrs[k].name) + Len(node.attrs[k].value) + 2]
  BY <1>1 DEF BytesTo, BytesBody
<1>3. t = CHOOSE g : g = [k \in 0..n |-> IF k = 0 THEN Len(node.name) + 1
             ELSE g[k - 1] + Len(node.attrs[k].name) + Len(node.attrs[k].value) + 2]
  BY DEF TagBytes
<1>4. t = [k \in 0..n |-> IF k = 0 THEN Len(node.name) + 1
             ELSE t[k - 1] + Len(node.attrs[k].name) + Len(node.attrs[k].value) + 2]
  <2> HIDE DEF t, n
  <2> QED BY <1>2, <1>3
<1>5. 0 \in 0..n /\ \A k \in 1..n : k \in 0..n /\ k # 0
  OBVIOUS
<1> HIDE DEF t, n
<1>6. t[0] = Len(node.name) + 1
      /\ \A k \in 1..n : t[k] = t[k - 1] + Len(node.attrs[k].name) + Len(node.attrs[k].value) + 2
  BY <1>4, <1>5
<1> QED BY <1>6 DEF t, n

\* A tag as a document has it.
IsTag(t) ==
    /\ IsSeq(t.name) /\ t.name # Null /\ IsSeq(t.attrs)
    /\ \A k \in 1..Len(t.attrs) :
          /\ t.attrs[k] = [name |-> t.attrs[k].name, value |-> t.attrs[k].value]
          /\ IsSeq(t.attrs[k].name) /\ t.attrs[k].name # Null
          /\ IsSeq(t.attrs[k].value) /\ t.attrs[k].value # Null

LEMMA SumIsNat ==
    ASSUME NEW x \in Nat, NEW y \in Nat, NEW z \in Nat, NEW s, s = x + y + z + 2
    PROVE  s \in Nat /\ x <= s
  OBVIOUS

LEMMA BytesGrow ==
    ASSUME NEW t, IsTag(t), NEW j \in 0..Len(t.attrs)
    PROVE  TagBytes(t)[j] \in Nat /\ \A i \in 0..j : TagBytes(t)[i] <= TagBytes(t)[j]
<1> DEFINE n == Len(t.attrs)
           b == TagBytes(t)
           S == {m \in Nat : m <= n => b[m] \in Nat /\ \A i \in 0..m : b[i] <= b[m]}
<1>1. n \in Nat /\ Len(t.name) \in Nat
  BY LenNat DEF IsTag
<1>2. b[0] = Len(t.name) + 1
      /\ \A k \in 1..n : b[k] = b[k - 1] + Len(t.attrs[k].name) + Len(t.attrs[k].value) + 2
  BY <1>1, BytesAre
<1>3. \A k \in 1..n : Len(t.attrs[k].name) \in Nat /\ Len(t.attrs[k].value) \in Nat
  BY LenNat DEF IsTag
<1> HIDE DEF b, n
<1>4. 0 \in S
  <2>1. b[0] \in Nat /\ \A i \in 0..0 : b[i] <= b[0]
    BY <1>1, <1>2
  <2> QED BY <2>1
<1>5. ASSUME NEW m \in Nat, m \in S PROVE m + 1 \in S
  <2> SUFFICES ASSUME m + 1 <= n
               PROVE  b[m + 1] \in Nat /\ \A i \in 0..(m + 1) : b[i] <= b[m + 1]
    OBVIOUS
  <2>1. m <= n /\ m + 1 \in 1..n
    BY <1>1
  <2>2. b[m] \in Nat /\ \A i \in 0..m : b[i] <= b[m]
    BY <1>5, <2>1
  <2>3. b[m + 1] = b[m] + Len(t.attrs[m + 1].name) + Len(t.attrs[m + 1].value) + 2
    <3>1. (m + 1) - 1 = m
      OBVIOUS
    <3> QED BY <1>2, <2>1, <3>1
  <2>4. Len(t.attrs[m + 1].name) \in Nat /\ Len(t.attrs[m + 1].value) \in Nat
    BY <1>3, <2>1
  <2>5. b[m + 1] \in Nat /\ b[m] <= b[m + 1]
    BY <2>2, <2>3, <2>4, SumIsNat
  <2>6. ASSUME NEW i \in 0..(m + 1) PROVE b[i] <= b[m + 1]
    <3>1. CASE i = m + 1
      BY <2>5, <3>1
    <3>2. CASE i # m + 1
      <4>1. i \in 0..m
        BY <3>2
      <4>2. b[i] <= b[m] /\ b[i] \in Nat
        <5>1. i \in Nat /\ i <= m
          BY <4>1
        <5> DEFINE R == {k \in Nat : k <= m => b[k] \in Nat}
        <5>2. 0 \in R
          BY <1>1, <1>2
        <5>3. ASSUME NEW k \in Nat, k \in R PROVE k + 1 \in R
          <6> SUFFICES ASSUME k + 1 <= m PROVE b[k + 1] \in Nat
            OBVIOUS
          <6>1. k <= m /\ k + 1 \in 1..n /\ (k + 1) - 1 = k
            BY <2>1, <1>1
          <6>2. b[k] \in Nat
            BY <5>3, <6>1
          <6>3. b[k + 1] = b[k] + Len(t.attrs[k + 1].name) + Len(t.attrs[k + 1].value) + 2
            BY <1>2, <6>1
          <6> QED BY <1>3, <6>1, <6>2, <6>3, SumIsNat
        <5> HIDE DEF R
        <5>4. i \in R
          BY <5>1, <5>2, <5>3, EveryNumber
        <5> QED BY <2>2, <4>1, <5>1, <5>4 DEF R
      <4> QED BY <2>2, <2>5, <4>2
    <3> QED BY <3>1, <3>2
  <2> QED BY <2>5, <2>6
<1>6. \A m \in Nat : m \in S
  <2> HIDE DEF S
  <2> QED BY <1>4, <1>5, EveryNumber
<1>7. j \in Nat /\ j <= n /\ j \in S
  BY <1>1, <1>6 DEF n
<1> QED BY <1>7 DEF b

\* How many attributes are kept.
LEMMA KeptAre ==
    ASSUME NEW t, IsTag(t), NEW k \in 0..Len(t.attrs), TagBytes(t)[k] <= MAX_TAG_BUFFER,
           k < Len(t.attrs) => TagBytes(t)[k + 1] > MAX_TAG_BUFFER
    PROVE  Kept(t) = [t EXCEPT !.attrs = SubSeq(@, 1, k)]
<1> DEFINE n == Len(t.attrs)
           b == TagBytes(t)
           S == {j \in 0..n : b[j] <= MAX_TAG_BUFFER}
<1>1. n \in Nat
  BY LenNat DEF IsTag
<1>2. k \in S
  OBVIOUS
<1>3. ASSUME NEW j \in S PROVE j <= k
  <2>1. SUFFICES ASSUME ~(j <= k) PROVE FALSE
    OBVIOUS
  <2>2. k < n /\ k + 1 \in 0..j /\ j \in 0..n /\ k + 1 \in 0..n
    BY <1>1, <2>1
  <2>3. b[k + 1] <= b[j] /\ b[j] \in Nat /\ b[k + 1] \in Nat
    BY <2>2, BytesGrow
  <2>4. b[k + 1] > MAX_TAG_BUFFER /\ b[j] <= MAX_TAG_BUFFER /\ MAX_TAG_BUFFER \in Nat
    BY <2>2, EgramAssumption
  <2> QED BY <2>3, <2>4
<1>4. S \subseteq Nat
  OBVIOUS
<1> HIDE DEF S
<1>5. Max(S) = k
  <2>1. ASSUME NEW x \in S, \A y \in S : y <= x PROVE x = k
    BY <1>2, <1>3, <1>4, <2>1
  <2>2. k \in S /\ \A y \in S : y <= k
    BY <1>2, <1>3
  <2> QED BY <2>1, <2>2 DEF Max
<1>6. Kept(t) = [t EXCEPT !.attrs = SubSeq(@, 1, Max(S))]
  BY DEF Kept, S
<1> QED BY <1>5, <1>6

LEMMA SameBytes ==
    ASSUME NEW s, NEW t, s.name = t.name, s.attrs = t.attrs
    PROVE  TagBytes(s) = TagBytes(t)
  BY DEF TagBytes

\* One attribute more.
LEMMA BytesOneMore ==
    ASSUME NEW t, IsTag(t), NEW u, NEW a, u.name = t.name, u.attrs = Append(t.attrs, a)
    PROVE  /\ \A k \in 0..Len(t.attrs) : TagBytes(u)[k] = TagBytes(t)[k]
           /\ TagBytes(u)[Len(t.attrs) + 1] = TagBytes(t)[Len(t.attrs)] + Len(a.name) + Len(a.value) + 2
<1> DEFINE n == Len(t.attrs)
           b == TagBytes(t)
           e == TagBytes(u)
           S == {m \in Nat : m <= n => e[m] = b[m]}
<1>1. n \in Nat /\ Len(u.attrs) = n + 1 /\ Len(u.attrs) \in Nat
      /\ (\A k \in 1..n : u.attrs[k] = t.attrs[k]) /\ u.attrs[n + 1] = a
  <2>1. IsSeq(t.attrs)
    BY DEF IsTag
  <2> QED BY <2>1, AppendFacts
<1>2. b[0] = Len(t.name) + 1
      /\ \A k \in 1..n : b[k] = b[k - 1] + Len(t.attrs[k].name) + Len(t.attrs[k].value) + 2
  BY <1>1, BytesAre
<1>3. e[0] = Len(t.name) + 1
      /\ \A k \in 1..(n + 1) : e[k] = e[k - 1] + Len(u.attrs[k].name) + Len(u.attrs[k].value) + 2
  BY <1>1, BytesAre
<1> HIDE DEF n, b, e
<1>4. 0 \in S
  BY <1>2, <1>3
<1>5. ASSUME NEW m \in Nat, m \in S PROVE m + 1 \in S
  <2> SUFFICES ASSUME m + 1 <= n PROVE e[m + 1] = b[m + 1]
    OBVIOUS
  <2>1. m <= n /\ m + 1 \in 1..n /\ m + 1 \in 1..(n + 1) /\ (m + 1) - 1 = m
    BY <1>1
  <2>2. e[m] = b[m] /\ u.attrs[m + 1] = t.attrs[m + 1]
    BY <1>1, <1>5, <2>1
  <2>3. e[m + 1] = e[m] + Len(u.attrs[m + 1].name) + Len(u.attrs[m + 1].value) + 2
    BY <1>3, <2>1
  <2>4. b[m + 1] = b[m] + Len(t.attrs[m + 1].name) + Len(t.attrs[m + 1].value) + 2
    BY <1>2, <2>1
  <2> QED BY <2>2, <2>3, <2>4
<1>6. \A m \in Nat : m \in S
  <2> HIDE DEF S
  <2> QED BY <1>4, <1>5, EveryNumber
<1>7. \A k \in 0..n : e[k] = b[k]
  BY <1>1, <1>6
<1>8. e[n + 1] = b[n] + Len(a.name) + Len(a.value) + 2
  <2>1. n + 1 \in 1..(n + 1) /\ (n + 1) - 1 = n /\ n \in 0..n
    BY <1>1
  <2>2. e[n + 1] = e[n] + Len(u.attrs[n + 1].name) + Len(u.attrs[n + 1].value) + 2
    BY <1>3, <2>1
  <2> QED BY <1>1, <1>7, <2>1, <2>2
<1> QED BY <1>7, <1>8 DEF n, b, e

------------------------------------------------------------------------------
(* The tag being read, as the parser keeps it.                             *)

IsSlot(x) == x = [name |-> x.name, value |-> x.value]
SlotSet == 0..(MAX_ATTRS - 1)
HasSlots(f) == f = [i \in SlotSet |-> f[i]] /\ \A i \in SlotSet : IsSlot(f[i])
Slots(c) == IsParse(c) /\ HasSlots(c.attrs)

NamePut(f, k, x) == [f EXCEPT ![k].name = x]
LEMMA NameSlot ==
    ASSUME NEW f, HasSlots(f), NEW k, NEW x
    PROVE  /\ HasSlots(NamePut(f, k, x))
           /\ k \in SlotSet => NamePut(f, k, x)[k] = [name |-> x, value |-> f[k].value]
           /\ \A j \in SlotSet : j # k => NamePut(f, k, x)[j] = f[j]
<1> DEFINE g == NamePut(f, k, x)
<1>1. f = [i \in SlotSet |-> f[i]] /\ \A i \in SlotSet : IsSlot(f[i])
  BY DEF HasSlots
<1>2. DOMAIN f = SlotSet
  BY <1>1
<1>3. g = [i \in SlotSet |-> IF i = k THEN [f[k] EXCEPT !.name = x] ELSE f[i]]
  BY <1>1, <1>2 DEF NamePut
<1>4. k \in SlotSet => [f[k] EXCEPT !.name = x] = [name |-> x, value |-> f[k].value]
  BY <1>1 DEF IsSlot
<1>5. g = [i \in SlotSet |-> g[i]]
  BY <1>3
<1> HIDE DEF g
<1>6. k \in SlotSet => g[k] = [name |-> x, value |-> f[k].value]
  BY <1>3, <1>4
<1>7. \A j \in SlotSet : j # k => g[j] = f[j]
  BY <1>3
<1>8. ASSUME NEW i \in SlotSet PROVE IsSlot(g[i])
  <2>1. CASE i = k
    BY <1>6, <2>1 DEF IsSlot
  <2>2. CASE i # k
    BY <1>1, <1>7, <2>2
  <2> QED BY <2>1, <2>2
<1>9. HasSlots(g)
  BY <1>5, <1>8 DEF HasSlots
<1> QED BY <1>6, <1>7, <1>9 DEF g

ValuePut(f, k, x) == [f EXCEPT ![k].value = x]
LEMMA ValueSlot ==
    ASSUME NEW f, HasSlots(f), NEW k, NEW x
    PROVE  /\ HasSlots(ValuePut(f, k, x))
           /\ k \in SlotSet => ValuePut(f, k, x)[k] = [name |-> f[k].name, value |-> x]
           /\ \A j \in SlotSet : j # k => ValuePut(f, k, x)[j] = f[j]
<1> DEFINE g == ValuePut(f, k, x)
<1>1. f = [i \in SlotSet |-> f[i]] /\ \A i \in SlotSet : IsSlot(f[i])
  BY DEF HasSlots
<1>2. DOMAIN f = SlotSet
  BY <1>1
<1>3. g = [i \in SlotSet |-> IF i = k THEN [f[k] EXCEPT !.value = x] ELSE f[i]]
  BY <1>1, <1>2 DEF ValuePut
<1>4. k \in SlotSet => [f[k] EXCEPT !.value = x] = [name |-> f[k].name, value |-> x]
  BY <1>1 DEF IsSlot
<1>5. g = [i \in SlotSet |-> g[i]]
  BY <1>3
<1> HIDE DEF g
<1>6. k \in SlotSet => g[k] = [name |-> f[k].name, value |-> x]
  BY <1>3, <1>4
<1>7. \A j \in SlotSet : j # k => g[j] = f[j]
  BY <1>3
<1>8. ASSUME NEW i \in SlotSet PROVE IsSlot(g[i])
  <2>1. CASE i = k
    BY <1>6, <2>1 DEF IsSlot
  <2>2. CASE i # k
    BY <1>1, <1>7, <2>2
  <2> QED BY <2>1, <2>2
<1>9. HasSlots(g)
  BY <1>5, <1>8 DEF HasSlots
<1> QED BY <1>6, <1>7, <1>9 DEF g

\* What the handlers change.
LEMMA NameParsed ==
    ASSUME NEW c, IsParse(c), NEW s
    PROVE  Parsed(c, "set_attr_name", s) =
               [tagname |-> c.tagname, attrs |-> NamePut(c.attrs, c.attrs_num, place_str(c, s)),
                attrs_num |-> c.attrs_num, used |-> Taken(c, s)]
<1>1. Parsed(c, "set_attr_name", s) =
          [c EXCEPT !.attrs[c.attrs_num].name = place_str(c, s), !.used = Taken(c, s)]
  BY DEF Parsed
<1> QED BY <1>1 DEF IsParse, NamePut, ValuePut

LEMMA ValueParsed ==
    ASSUME NEW c, IsParse(c), NEW s
    PROVE  Parsed(c, "set_attr_value", s) =
               [tagname |-> c.tagname, attrs |-> ValuePut(c.attrs, c.attrs_num, place_str(c, s)),
                attrs_num |-> c.attrs_num, used |-> Taken(c, s)]
<1>1. Parsed(c, "set_attr_value", s) =
          [c EXCEPT !.attrs[c.attrs_num].value = place_str(c, s), !.used = Taken(c, s)]
  BY DEF Parsed
<1> QED BY <1>1 DEF IsParse, NamePut, ValuePut

LEMMA OpenParsed ==
    ASSUME NEW c, IsParse(c)
    PROVE  TagOf(c) =
               [tagname |-> c.tagname, attrs |-> ValuePut(c.attrs, c.attrs_num, Null),
                attrs_num |-> c.attrs_num, used |-> c.used]
<1>1. TagOf(c) = [c EXCEPT !.attrs[c.attrs_num].value = Null]
  BY DEF Parsed, TagOf
<1> QED BY <1>1 DEF IsParse, ValuePut

LEMMA OtherParsed ==
    ASSUME NEW c, IsParse(c), NEW s
    PROVE  /\ Parsed(c, "accept_attr", s) =
               [tagname |-> c.tagname, attrs |-> c.attrs, attrs_num |-> c.attrs_num + 1, used |-> c.used]
           /\ do_tag_reset(c) =
               [tagname |-> c.tagname, attrs |-> c.attrs, attrs_num |-> 0, used |-> 0]
           /\ Parsed(c, "set_tag_name", s) =
               [tagname |-> place_str(c, s), attrs |-> c.attrs, attrs_num |-> c.attrs_num,
                used |-> Taken(c, s)]
<1>1. Parsed(c, "accept_attr", s) = [c EXCEPT !.attrs_num = @ + 1]
  BY DEF Parsed
<1>2. Parsed(c, "set_tag_name", s) = [c EXCEPT !.tagname = place_str(c, s), !.used = Taken(c, s)]
  BY DEF Parsed
<1>3. do_tag_reset(c) = [c EXCEPT !.attrs_num = 0, !.used = 0]
  BY DEF do_tag_reset
<1>4. Parsed(c, "accept_attr", s) =
          [tagname |-> c.tagname, attrs |-> c.attrs, attrs_num |-> c.attrs_num + 1, used |-> c.used]
  BY <1>1 DEF IsParse
<1>5. Parsed(c, "set_tag_name", s) =
          [tagname |-> place_str(c, s), attrs |-> c.attrs, attrs_num |-> c.attrs_num, used |-> Taken(c, s)]
  BY <1>2 DEF IsParse
<1>6. do_tag_reset(c) = [tagname |-> c.tagname, attrs |-> c.attrs, attrs_num |-> 0, used |-> 0]
  BY <1>3 DEF IsParse
<1> QED BY <1>4, <1>5, <1>6

ParseOf(n, f, k, u) == [tagname |-> n, attrs |-> f, attrs_num |-> k, used |-> u]
LEMMA ParseFields ==
    ASSUME NEW n, NEW f, HasSlots(f), NEW k, NEW u
    PROVE  LET c == ParseOf(n, f, k, u)
           IN  /\ Slots(c) /\ c.tagname = n /\ c.attrs = f /\ c.attrs_num = k /\ c.used = u
  BY DEF ParseOf, Slots, IsParse

LEMMA SlotsKept ==
    ASSUME NEW c, Slots(c), NEW h, NEW s
    PROVE  Slots(Parsed(c, h, s))
<1>1. IsParse(c) /\ HasSlots(c.attrs)
  BY DEF Slots
<1>2. CASE h = "set_attr_name"
  <2> DEFINE f == NamePut(c.attrs, c.attrs_num, place_str(c, s))
  <2>1. HasSlots(f)
    BY <1>1, NameSlot
  <2>2. Parsed(c, h, s) = ParseOf(c.tagname, f, c.attrs_num, Taken(c, s))
    BY <1>1, <1>2, NameParsed DEF ParseOf
  <2> HIDE DEF f
  <2> QED BY <2>1, <2>2, ParseFields
<1>3. CASE h = "set_attr_value"
  <2> DEFINE f == ValuePut(c.attrs, c.attrs_num, place_str(c, s))
  <2>1. HasSlots(f)
    BY <1>1, ValueSlot
  <2>2. Parsed(c, h, s) = ParseOf(c.tagname, f, c.attrs_num, Taken(c, s))
    BY <1>1, <1>3, ValueParsed DEF ParseOf
  <2> HIDE DEF f
  <2> QED BY <2>1, <2>2, ParseFields
<1>4. CASE h = "got_tag_open"
  <2> DEFINE f == ValuePut(c.attrs, c.attrs_num, Null)
  <2>1. HasSlots(f)
    BY <1>1, ValueSlot
  <2>2. Parsed(c, h, s) = TagOf(c)
    BY <1>4, OpenHandled
  <2>3. TagOf(c) = ParseOf(c.tagname, f, c.attrs_num, c.used)
    BY <1>1, OpenParsed DEF ParseOf
  <2> HIDE DEF f
  <2> QED BY <2>1, <2>2, <2>3, ParseFields
<1>5. CASE h = "accept_attr"
  <2>1. Parsed(c, h, s) = ParseOf(c.tagname, c.attrs, c.attrs_num + 1, c.used)
    BY <1>1, <1>5, OtherParsed DEF ParseOf
  <2> QED BY <1>1, <2>1, ParseFields
<1>6. CASE h = "do_tag_reset"
  <2>1. Parsed(c, h, s) = ParseOf(c.tagname, c.attrs, 0, 0)
    BY <1>1, <1>6, OtherParsed, ResetParsed DEF ParseOf
  <2> QED BY <1>1, <2>1, ParseFields
<1>7. CASE h = "set_tag_name"
  <2>1. Parsed(c, h, s) = ParseOf(place_str(c, s), c.attrs, c.attrs_num, Taken(c, s))
    BY <1>1, <1>7, OtherParsed DEF ParseOf
  <2> QED BY <1>1, <2>1, ParseFields
<1>8. CASE h \notin {"set_attr_name", "set_attr_value", "got_tag_open", "accept_attr", "do_tag_reset",
                     "set_tag_name"}
  <2>1. Parsed(c, h, s) = c
    BY <1>8 DEF Parsed
  <2> QED BY <2>1
<1> QED BY <1>2, <1>3, <1>4, <1>5, <1>6, <1>7, <1>8

LEMMA ResetSlots ==
    ASSUME NEW c, Slots(c)
    PROVE  /\ Slots(do_tag_reset(c)) /\ do_tag_reset(c).attrs_num = 0 /\ do_tag_reset(c).used = 0
<1>1. IsParse(c) /\ HasSlots(c.attrs)
  BY DEF Slots
<1>2. do_tag_reset(c) = ParseOf(c.tagname, c.attrs, 0, 0)
  BY <1>1, OtherParsed DEF ParseOf
<1> QED BY <1>1, <1>2, ParseFields

\* An attribute goes into the next slot, as far as its strings fit.
LEMMA AttrSlot ==
    ASSUME NEW c, Slots(c), c.attrs_num \in SlotSet, NEW n, NEW v
    PROVE  LET e == AttrParsed(c, n, v)
               d == ParseOf(c.tagname, c.attrs, c.attrs_num, Taken(c, n))
           IN  /\ Slots(e) /\ e.tagname = c.tagname /\ e.attrs_num = c.attrs_num + 1
               /\ e.used = Taken(d, v)
               /\ e.attrs[c.attrs_num] = [name |-> place_str(c, n), value |-> place_str(d, v)]
               /\ \A j \in SlotSet : j # c.attrs_num => e.attrs[j] = c.attrs[j]
<1> DEFINE k == c.attrs_num
           f == NamePut(c.attrs, k, place_str(c, n))
           b == Parsed(c, "set_attr_name", n)
           g == ValuePut(f, k, place_str(b, v))
           r == Parsed(b, "set_attr_value", v)
           e == AttrParsed(c, n, v)
           d == ParseOf(c.tagname, c.attrs, k, Taken(c, n))
<1>1. IsParse(c) /\ HasSlots(c.attrs) /\ k \in SlotSet
  BY DEF Slots
<1>2. /\ HasSlots(f) /\ f[k] = [name |-> place_str(c, n), value |-> c.attrs[k].value]
      /\ \A j \in SlotSet : j # k => f[j] = c.attrs[j]
  BY <1>1, NameSlot
<1>3. b = ParseOf(c.tagname, f, k, Taken(c, n))
  BY <1>1, NameParsed DEF ParseOf
<1>4. /\ HasSlots(g) /\ g[k] = [name |-> f[k].name, value |-> place_str(b, v)]
      /\ \A j \in SlotSet : j # k => g[j] = f[j]
  <2> HIDE DEF f, b, k
  <2> QED BY <1>1, <1>2, ValueSlot
<1>5. /\ IsParse(b) /\ b.tagname = c.tagname /\ b.attrs = f /\ b.attrs_num = k /\ b.used = Taken(c, n)
  <2> HIDE DEF f, k
  <2>1. Slots(b) /\ b.tagname = c.tagname /\ b.attrs = f /\ b.attrs_num = k /\ b.used = Taken(c, n)
    BY <1>2, <1>3, ParseFields
  <2> QED BY <2>1 DEF Slots
<1>6. r = ParseOf(c.tagname, g, k, Taken(b, v))
  <2>1. r = [tagname |-> b.tagname, attrs |-> ValuePut(b.attrs, b.attrs_num, place_str(b, v)),
                attrs_num |-> b.attrs_num, used |-> Taken(b, v)]
    BY <1>5, ValueParsed
  <2> QED BY <1>5, <2>1 DEF ParseOf
<1>7. /\ IsParse(r) /\ r.tagname = c.tagname /\ r.attrs = g /\ r.attrs_num = k /\ r.used = Taken(b, v)
  <2> HIDE DEF g, k, b, r
  <2>1. Slots(r) /\ r.tagname = c.tagname /\ r.attrs = g /\ r.attrs_num = k /\ r.used = Taken(b, v)
    BY <1>4, <1>6, ParseFields
  <2> QED BY <2>1 DEF Slots
<1>8. e = ParseOf(c.tagname, g, k + 1, Taken(b, v))
  <2>1. e = Parsed(r, "accept_attr", <<>>)
    BY DEF AttrParsed
  <2>2. e = [tagname |-> r.tagname, attrs |-> r.attrs, attrs_num |-> r.attrs_num + 1, used |-> r.used]
    BY <1>7, <2>1, OtherParsed
  <2> QED BY <1>7, <2>2 DEF ParseOf
<1>9. d.used = b.used
  <2>1. d.used = Taken(c, n)
    BY <1>1, ParseFields
  <2> QED BY <1>5, <2>1
<1>10. Taken(d, v) = Taken(b, v) /\ place_str(d, v) = place_str(b, v)
  <2> HIDE DEF d, b
  <2> QED BY <1>9 DEF Taken, place_str, Fits
<1>11. Slots(e) /\ e.tagname = c.tagname /\ e.attrs = g /\ e.attrs_num = k + 1 /\ e.used = Taken(b, v)
  <2> HIDE DEF g, k, b, e
  <2> QED BY <1>4, <1>8, ParseFields
<1>12. g[k] = [name |-> place_str(c, n), value |-> place_str(b, v)]
  <2>1. f[k].name = place_str(c, n)
    <3> HIDE DEF f, k
    <3> QED BY <1>2
  <2> HIDE DEF f, g, b, k
  <2> QED BY <1>4, <2>1
<1>13. \A j \in SlotSet : j # k => g[j] = c.attrs[j]
  <2> HIDE DEF f, g, b, k
  <2> QED BY <1>2, <1>4
<1> HIDE DEF e, d, g, b, f
<1> QED BY <1>10, <1>11, <1>12, <1>13 DEF e, d

\* The first k attributes are in their slots, and the next one, if there is one,
\* did not fit.
Keeps(c, t, k) ==
    /\ TagBytes(t)[k] <= MAX_TAG_BUFFER
    /\ \A j \in 1..k : c.attrs[j - 1] = t.attrs[j]
    /\ k = Len(t.attrs) => c.used = TagBytes(t)[k]
    /\ k < Len(t.attrs) => /\ TagBytes(t)[k + 1] > MAX_TAG_BUFFER
                           /\ c.attrs[k].name = Null \/ c.attrs[k].value = Null
TagIs(c, t) ==
    /\ Slots(c) /\ IsTag(t) /\ c.tagname = t.name
    /\ c.attrs_num = Len(t.attrs) /\ Len(t.attrs) < MAX_ATTRS
    /\ \E k \in 0..Len(t.attrs) : Keeps(c, t, k)

TagRec(n, s) == [name |-> n, attrs |-> s]

LEMMA TagRecIs ==
    ASSUME NEW n, NEW s PROVE TagRec(n, s).name = n /\ TagRec(n, s).attrs = s
  BY DEF TagRec

LEMMA TagStarts ==
    ASSUME NEW c, Slots(c), NEW s, IsSeq(s), s # Null, Len(s) + 1 <= MAX_TAG_BUFFER
    PROVE  TagIs(TagParsed(c, s), TagRec(s, <<>>))
<1> DEFINE b == do_tag_reset(c)
           d == TagParsed(c, s)
           o == <<>>
           t == TagRec(s, o)
<1>1. Slots(b) /\ b.attrs_num = 0 /\ b.used = 0
  BY ResetSlots
<1>2. IsSeq(o) /\ Len(o) = 0
  BY EmptyIsSeq
<1>3. t.name = s /\ t.attrs = o
  BY TagRecIs
<1> HIDE DEF b, o, t
<1>4. Len(s) \in Nat /\ MAX_ATTRS \in Nat \ {0} /\ MAX_TAG_BUFFER \in Nat
  BY LenNat, EgramAssumption
<1>5. Fits(b, s)
  BY <1>1, <1>4 DEF Fits
<1>6. place_str(b, s) = s /\ Taken(b, s) = Len(s) + 1
  BY <1>1, <1>4, <1>5 DEF place_str, Taken
<1>7. d = ParseOf(s, b.attrs, 0, Len(s) + 1)
  <2>1. IsParse(b)
    BY <1>1 DEF Slots
  <2>2. d = Parsed(b, "set_tag_name", s)
    BY DEF TagParsed, b
  <2>3. d = [tagname |-> place_str(b, s), attrs |-> b.attrs, attrs_num |-> b.attrs_num, used |-> Taken(b, s)]
    BY <2>1, <2>2, OtherParsed
  <2> QED BY <1>1, <1>6, <2>3 DEF ParseOf
<1> HIDE DEF d
<1>8. Slots(d) /\ d.tagname = s /\ d.attrs_num = 0 /\ d.used = Len(s) + 1
  <2>1. HasSlots(b.attrs)
    BY <1>1 DEF Slots
  <2> QED BY <1>7, <2>1, ParseFields
<1>9. IsTag(t) /\ Len(t.attrs) = 0
  BY <1>2, <1>3 DEF IsTag
<1>10. TagBytes(t)[0] = Len(s) + 1
  <2>1. Len(t.attrs) \in Nat
    BY <1>9
  <2> QED BY <1>3, <2>1, BytesAre
<1>11. Keeps(d, t, 0)
  BY <1>8, <1>9, <1>10 DEF Keeps
<1>12. 0 \in 0..Len(t.attrs) /\ 0 < MAX_ATTRS
  BY <1>4, <1>9
<1>13. TagIs(d, t)
  BY <1>3, <1>8, <1>9, <1>11, <1>12 DEF TagIs
<1> QED BY <1>13 DEF d, t, o

OneAttr(n, v) == [name |-> n, value |-> v]
LEMMA OneAttrIs ==
    ASSUME NEW n, NEW v
    PROVE  OneAttr(n, v).name = n /\ OneAttr(n, v).value = v
  BY DEF OneAttr

LEMMA PlacedFacts ==
    ASSUME NEW c, NEW s
    PROVE  /\ c.used + Len(s) + 1 <= MAX_TAG_BUFFER =>
                place_str(c, s) = s /\ Taken(c, s) = c.used + Len(s) + 1
           /\ ~(c.used + Len(s) + 1 <= MAX_TAG_BUFFER) => place_str(c, s) = Null /\ Taken(c, s) = c.used
  BY DEF place_str, Taken, Fits

LEMMA BothOrNone ==
    ASSUME NEW u \in Nat, NEW x \in Nat, NEW y \in Nat, NEW m \in Nat
    PROVE  /\ u + x + y + 2 <= m =>
                 /\ u + x + 1 <= m /\ (u + x + 1) + y + 1 <= m /\ (u + x + 1) + y + 1 = u + x + y + 2
           /\ ~(u + x + y + 2 <= m) /\ u + x + 1 <= m => ~((u + x + 1) + y + 1 <= m)
  OBVIOUS

LEMMA TagGoesOn ==
    ASSUME NEW c, NEW t, TagIs(c, t), Len(t.attrs) + 1 < MAX_ATTRS,
           NEW n, IsSeq(n), n # Null, NEW v, IsSeq(v), v # Null
    PROVE  TagIs(AttrParsed(c, n, v), TagRec(t.name, Append(t.attrs, OneAttr(n, v))))
<1> DEFINE l == Len(t.attrs)
           x == OneAttr(n, v)
           s == Append(t.attrs, x)
           u == TagRec(t.name, s)
           e == AttrParsed(c, n, v)
           d == ParseOf(c.tagname, c.attrs, c.attrs_num, Taken(c, n))
           b == TagBytes(t)
           z == TagBytes(u)
<1>1. /\ Slots(c) /\ IsTag(t) /\ c.tagname = t.name /\ c.attrs_num = l /\ l < MAX_ATTRS
      /\ IsSeq(t.attrs) /\ l \in Nat /\ MAX_ATTRS \in Nat \ {0} /\ MAX_TAG_BUFFER \in Nat
      /\ Len(n) \in Nat /\ Len(v) \in Nat
  <2>1. IsTag(t) /\ IsSeq(t.attrs)
    BY DEF TagIs, IsTag
  <2> QED BY <2>1, LenNat, EgramAssumption DEF TagIs
<1>2. PICK k \in 0..l : Keeps(c, t, k)
  BY DEF TagIs
<1>3. x.name = n /\ x.value = v /\ x = [name |-> x.name, value |-> x.value]
  <2>1. x = [name |-> n, value |-> v]
    BY DEF OneAttr
  <2>2. x.name = n /\ x.value = v
    BY OneAttrIs
  <2> HIDE DEF x
  <2> QED BY <2>1, <2>2
<1>4. u.name = t.name /\ u.attrs = s
  BY TagRecIs
<1> HIDE DEF x
<1>5. /\ IsSeq(s) /\ Len(s) = l + 1 /\ (\A i \in 1..l : s[i] = t.attrs[i]) /\ s[l + 1] = x
  BY <1>1, AppendFacts
<1>6. /\ \A i \in 0..l : z[i] = b[i]
      /\ z[l + 1] = b[l] + Len(n) + Len(v) + 2
  <2> HIDE DEF u, s
  <2>1. u.attrs = Append(t.attrs, x)
    BY <1>4 DEF s
  <2> QED BY <1>1, <1>3, <1>4, <2>1, BytesOneMore
<1> HIDE DEF s, u, z
<1>7. IsTag(u)
  <2>1. IsSeq(t.name) /\ t.name # Null
        /\ \A i \in 1..l :
              /\ t.attrs[i] = [name |-> t.attrs[i].name, value |-> t.attrs[i].value]
              /\ IsSeq(t.attrs[i].name) /\ t.attrs[i].name # Null
              /\ IsSeq(t.attrs[i].value) /\ t.attrs[i].value # Null
    BY <1>1 DEF IsTag
  <2>2. ASSUME NEW i \in 1..(l + 1)
        PROVE  /\ s[i] = [name |-> s[i].name, value |-> s[i].value]
               /\ IsSeq(s[i].name) /\ s[i].name # Null
               /\ IsSeq(s[i].value) /\ s[i].value # Null
    <3>1. CASE i = l + 1
      BY <1>3, <1>5, <3>1
    <3>2. CASE i # l + 1
      <4>1. i \in 1..l /\ s[i] = t.attrs[i]
        BY <1>1, <1>5, <3>2
      <4> QED BY <2>1, <4>1
    <3> QED BY <3>1, <3>2
  <2> QED BY <1>4, <1>5, <2>1, <2>2 DEF IsTag
<1>8. l \in SlotSet
  BY <1>1 DEF SlotSet
<1>9. /\ Slots(e) /\ e.tagname = t.name /\ e.attrs_num = l + 1
      /\ e.used = Taken(d, v)
      /\ e.attrs[l] = [name |-> place_str(c, n), value |-> place_str(d, v)]
      /\ \A j \in SlotSet : j # l => e.attrs[j] = c.attrs[j]
  BY <1>1, <1>8, AttrSlot
<1>10. d.used = Taken(c, n)
  <2>1. HasSlots(c.attrs)
    BY <1>1 DEF Slots
  <2> QED BY <2>1, ParseFields
<1>11. b[l] \in Nat
  <2>1. l \in 0..Len(t.attrs)
    BY <1>1
  <2> QED BY <1>1, <2>1, BytesGrow
<1> HIDE DEF e, d, b
<1>12. \A j \in 1..l : j - 1 \in SlotSet /\ j - 1 # l
  BY <1>1 DEF SlotSet
<1>13. \E i \in 0..(l + 1) : Keeps(e, u, i)
  <2>1. CASE k < l
    <3>1. k \in 0..(l + 1) /\ k \in SlotSet /\ k # l /\ k + 1 \in 0..l /\ k < l + 1 /\ k # l + 1 /\ k \in 0..l
      BY <1>1, <2>1 DEF SlotSet
    <3>2. /\ b[k] <= MAX_TAG_BUFFER /\ (\A j \in 1..k : c.attrs[j - 1] = t.attrs[j])
          /\ b[k + 1] > MAX_TAG_BUFFER /\ (c.attrs[k].name = Null \/ c.attrs[k].value = Null)
      BY <1>2, <2>1 DEF Keeps, b, l
    <3>3. \A j \in 1..k : e.attrs[j - 1] = u.attrs[j]
      <4>1. \A j \in 1..k : j \in 1..l
        BY <1>1
      <4> QED BY <1>4, <1>5, <1>9, <1>12, <3>2, <4>1
    <3>4. Keeps(e, u, k)
      <4>1. Len(u.attrs) = l + 1
        BY <1>4, <1>5
      <4>2. TagBytes(u)[k] <= MAX_TAG_BUFFER /\ TagBytes(u)[k + 1] > MAX_TAG_BUFFER
        BY <1>6, <3>1, <3>2 DEF z
      <4>3. e.attrs[k].name = Null \/ e.attrs[k].value = Null
        BY <1>9, <3>1, <3>2
      <4> QED BY <3>1, <3>3, <4>1, <4>2, <4>3 DEF Keeps
    <3> QED BY <3>1, <3>4
  <2>2. CASE k = l
    <3>1. /\ b[l] <= MAX_TAG_BUFFER /\ (\A j \in 1..l : c.attrs[j - 1] = t.attrs[j]) /\ c.used = b[l]
      BY <1>2, <2>2 DEF Keeps, b, l
    <3>2. \A j \in 1..l : e.attrs[j - 1] = u.attrs[j]
      BY <1>4, <1>5, <1>9, <1>12, <3>1
    <3>3. Len(u.attrs) = l + 1
      BY <1>4, <1>5
    <3> DEFINE y == b[l] + Len(n) + Len(v) + 2
               r == b[l] + Len(n) + 1
    <3>4. /\ r <= MAX_TAG_BUFFER => place_str(c, n) = n /\ d.used = r
          /\ ~(r <= MAX_TAG_BUFFER) => place_str(c, n) = Null
      BY <1>10, <3>1, PlacedFacts
    <3>5. /\ d.used + Len(v) + 1 <= MAX_TAG_BUFFER => place_str(d, v) = v /\ e.used = d.used + Len(v) + 1
          /\ ~(d.used + Len(v) + 1 <= MAX_TAG_BUFFER) => place_str(d, v) = Null
      BY <1>9, PlacedFacts
    <3>6. /\ y <= MAX_TAG_BUFFER => r <= MAX_TAG_BUFFER /\ r + Len(v) + 1 <= MAX_TAG_BUFFER /\ r + Len(v) + 1 = y
          /\ ~(y <= MAX_TAG_BUFFER) /\ r <= MAX_TAG_BUFFER => ~(r + Len(v) + 1 <= MAX_TAG_BUFFER)
      BY <1>1, <1>11, BothOrNone
    <3>7. z[l + 1] = y /\ z[l] = b[l]
      <4>1. l \in 0..l
        BY <1>1
      <4> QED BY <1>6, <4>1
    <3>8. y \in Nat
      BY <1>1, <1>11
    <3> HIDE DEF y, r
    <3>9. CASE y <= MAX_TAG_BUFFER
      <4>1. place_str(c, n) = n /\ place_str(d, v) = v /\ e.used = y
        BY <3>4, <3>5, <3>6, <3>9
      <4>2. e.attrs[l] = x
        BY <1>3, <1>9, <4>1
      <4>3. \A j \in 1..(l + 1) : e.attrs[j - 1] = u.attrs[j]
        <5> SUFFICES ASSUME NEW j \in 1..(l + 1) PROVE e.attrs[j - 1] = u.attrs[j]
          OBVIOUS
        <5>1. CASE j = l + 1
          <6>1. j - 1 = l
            BY <1>1, <5>1
          <6> QED BY <1>4, <1>5, <4>2, <5>1, <6>1
        <5>2. CASE j # l + 1
          <6>1. j \in 1..l
            BY <1>1, <5>2
          <6> QED BY <3>2, <6>1
        <5> QED BY <5>1, <5>2
      <4>4. Keeps(e, u, l + 1)
        <5>1. TagBytes(u)[l + 1] = y
          BY <3>7 DEF z
        <5>2. ~(l + 1 < l + 1)
          BY <1>1
        <5> QED BY <3>3, <3>9, <4>1, <4>3, <5>1, <5>2 DEF Keeps
      <4>5. l + 1 \in 0..(l + 1)
        BY <1>1
      <4> QED BY <4>4, <4>5
    <3>10. CASE ~(y <= MAX_TAG_BUFFER)
      <4>1. place_str(c, n) = Null \/ place_str(d, v) = Null
        BY <3>4, <3>5, <3>6, <3>10
      <4>2. e.attrs[l].name = Null \/ e.attrs[l].value = Null
        BY <1>9, <4>1
      <4>3. TagBytes(u)[l + 1] > MAX_TAG_BUFFER /\ TagBytes(u)[l] <= MAX_TAG_BUFFER
        BY <1>1, <3>1, <3>7, <3>8, <3>10 DEF z
      <4>4. l < l + 1 /\ l # l + 1 /\ l \in 0..(l + 1)
        BY <1>1
      <4>5. Keeps(e, u, l)
        BY <3>2, <3>3, <4>2, <4>3, <4>4 DEF Keeps
      <4> QED BY <4>4, <4>5
    <3> QED BY <3>9, <3>10
  <2>3. k < l \/ k = l
    BY <1>1
  <2> QED BY <2>1, <2>2, <2>3
<1>14. Len(u.attrs) = l + 1 /\ l + 1 < MAX_ATTRS
  BY <1>4, <1>5 DEF l
<1>15. TagIs(e, u)
  BY <1>4, <1>7, <1>9, <1>13, <1>14 DEF TagIs
<1> QED BY <1>15 DEF e, u, s, x

\* The list of attributes that a tag is started with.
LEMMA AttrsUpTo ==
    ASSUME NEW c, HasSlots(c.attrs), NEW k \in SlotSet,
           c.attrs[k].name = Null \/ c.attrs[k].value = Null,
           \A j \in 0..(k - 1) : c.attrs[j].name # Null /\ c.attrs[j].value # Null
    PROVE  AttrsOf(c) = [i \in 1..k |-> c.attrs[i - 1]]
<1> DEFINE ends == {i \in DOMAIN c.attrs : c.attrs[i].name = Null \/ c.attrs[i].value = Null}
<1>1. DOMAIN c.attrs = SlotSet BY DEF HasSlots
<1>2. k \in ends BY <1>1
<1>3. SlotSet \subseteq Nat /\ k \in Nat BY EgramAssumption DEF SlotSet
<1>4. \A y \in ends : y \in Nat /\ k <= y
  <2> SUFFICES ASSUME NEW y \in ends PROVE y \in Nat /\ k <= y OBVIOUS
  <2>1. y \in Nat /\ (c.attrs[y].name = Null \/ c.attrs[y].value = Null) BY <1>1, <1>3
  <2>2. y \notin 0..(k - 1) BY <2>1
  <2> QED BY <2>1, <2>2, <1>3
<1>5. Min(ends) = k
  <2> HIDE DEF ends
  <2>1. \A x \in ends : (\A y \in ends : x <= y) => x = k BY <1>2, <1>3, <1>4
  <2>2. \E x \in ends : \A y \in ends : x <= y BY <1>2, <1>4
  <2> QED BY <2>1, <2>2 DEF Min
<1> QED BY <1>5 DEF AttrsOf

LEMMA LessIs == ASSUME NEW k, NEW n \in Nat, k \in 0..n PROVE k \in Nat /\ (k < n \/ k = n) OBVIOUS

LEMMA SlotBelow ==
    ASSUME NEW n \in Nat, NEW k \in Nat, k <= n, n \in SlotSet, NEW j \in 0..(k - 1)
    PROVE  j + 1 \in 1..k /\ j \in SlotSet /\ j # n /\ (j + 1) - 1 = j /\ j + 1 \in 1..n
BY EgramAssumption DEF SlotSet

\* What of its attributes a tag is started with.
LEMMA TagEnds ==
    ASSUME NEW c, NEW t, TagIs(c, t), NEW x, x.name = t.name, x.attrs = t.attrs
    PROVE  /\ Slots(TagOf(c)) /\ TagOf(c).tagname = t.name
           /\ Kept(x) = [x EXCEPT !.attrs = AttrsOf(TagOf(c))]
<1> DEFINE n == Len(t.attrs)
           e == TagOf(c)
           f == ValuePut(c.attrs, n, Null)
<1>1. Slots(c) /\ IsTag(t) /\ c.tagname = t.name /\ c.attrs_num = n /\ n < MAX_ATTRS BY DEF TagIs
<1>2. PICK k \in 0..n : Keeps(c, t, k) BY DEF TagIs
<1>3. IsParse(c) /\ HasSlots(c.attrs) BY <1>1 DEF Slots
<1>4. e = ParseOf(t.name, f, n, c.used) BY <1>1, <1>3, OpenParsed DEF ParseOf
<1>5. /\ HasSlots(f)
      /\ n \in SlotSet => f[n] = [name |-> c.attrs[n].name, value |-> Null]
      /\ \A j \in SlotSet : j # n => f[j] = c.attrs[j]
  BY <1>3, ValueSlot
<1>6. Slots(e) /\ e.tagname = t.name /\ e.attrs = f
  <2> HIDE DEF f, e
  <2> QED BY <1>4, <1>5, ParseFields
<1>7. n \in Nat /\ IsSeq(t.attrs) BY <1>1, LenNat DEF IsTag
<1>8. n \in SlotSet /\ k \in SlotSet /\ k \in Nat /\ k <= n
  <2> HIDE DEF n
  <2> QED BY <1>1, <1>2, <1>7, EgramAssumption DEF SlotSet
<1>9. \A j \in 1..n : t.attrs[j].name # Null /\ t.attrs[j].value # Null BY <1>1 DEF IsTag
<1>10. \A j \in 0..(k - 1) : f[j] = t.attrs[j + 1] /\ j + 1 \in 1..n
  <2> SUFFICES ASSUME NEW j \in 0..(k - 1) PROVE f[j] = t.attrs[j + 1] /\ j + 1 \in 1..n OBVIOUS
  <2>1. j + 1 \in 1..k /\ j \in SlotSet /\ j # n /\ (j + 1) - 1 = j /\ j + 1 \in 1..n
    <3>1. n \in Nat /\ k \in Nat /\ k <= n /\ n \in SlotSet BY <1>7, <1>8
    <3> HIDE DEF n
    <3> QED BY <3>1, SlotBelow
  <2>2. c.attrs[(j + 1) - 1] = t.attrs[j + 1] BY <1>2, <2>1 DEF Keeps
  <2>3. f[j] = c.attrs[j] BY <2>1, <1>5
  <2> QED BY <2>1, <2>2, <2>3
<1>11. f[k].name = Null \/ f[k].value = Null
  <2>1. CASE k = n BY <2>1, <1>5, <1>8
  <2>2. CASE k < n
    <3>1. c.attrs[k].name = Null \/ c.attrs[k].value = Null BY <2>2, <1>2 DEF Keeps
    <3>2. k # n BY <2>2, <1>7, <1>8
    <3>3. f[k] = c.attrs[k] BY <3>2, <1>5, <1>8
    <3> QED BY <3>1, <3>3
  <2> QED BY <2>1, <2>2, <1>2, <1>7, LessIs
<1>12. AttrsOf(e) = [i \in 1..k |-> f[i - 1]]
  <2>1. \A j \in 0..(k - 1) : f[j].name # Null /\ f[j].value # Null BY <1>9, <1>10
  <2> HIDE DEF f, e
  <2> QED BY <2>1, <1>5, <1>6, <1>8, <1>11, AttrsUpTo
<1>13. [i \in 1..k |-> f[i - 1]] = SubSeq(t.attrs, 1, k)
  <2> DEFINE u == SubSeq(t.attrs, 1, k)
             v == [i \in 1..k |-> f[i - 1]]
  <2>1. IsSeq(u) /\ Len(u) = k /\ \A i \in 1..k : u[i] = t.attrs[i] BY FirstElems, <1>7, <1>8
  <2>2. \A i \in 1..k : v[i] = t.attrs[i]
    <3> SUFFICES ASSUME NEW i \in 1..k PROVE v[i] = t.attrs[i] OBVIOUS
    <3>1. i - 1 \in 0..(k - 1) /\ (i - 1) + 1 = i BY <1>8
    <3>2. f[i - 1] = t.attrs[(i - 1) + 1] BY <3>1, <1>10
    <3>3. v[i] = f[i - 1] OBVIOUS
    <3> HIDE DEF v, f
    <3> QED BY <3>1, <3>2, <3>3
  <2>3. u = [i \in 1..k |-> u[i]]
    <3>1. DOMAIN u = 1..k
      <4>1. u \in Seq(Range(u)) /\ Len(u) = k
        <5>1. PICK S : u \in Seq(S) BY <2>1 DEF IsSeq
        <5>2. DOMAIN u = 1..Len(u) /\ u = [i \in 1..Len(u) |-> u[i]] /\ Len(u) \in Nat
          <6> HIDE DEF u
          <6> QED BY <5>1
        <5>3. u \in [1..Len(u) -> Range(u)]
          <6> HIDE DEF u
          <6> QED BY <5>2 DEF Range
        <5> HIDE DEF u
        <5> QED BY <5>2, <5>3, <2>1
      <4> HIDE DEF u
      <4> QED BY <4>1
    <3>2. PICK S : u \in Seq(S) BY <2>1 DEF IsSeq
    <3> HIDE DEF u
    <3> QED BY <3>1, <3>2
  <2>4. v = [i \in 1..k |-> t.attrs[i]]
    <3> HIDE DEF f
    <3> QED BY <2>2
  <2>5. u = [i \in 1..k |-> t.attrs[i]]
    <3> HIDE DEF u
    <3> QED BY <2>1, <2>3
  <2> QED BY <2>4, <2>5
<1>14. Kept(x) = [x EXCEPT !.attrs = SubSeq(@, 1, k)]
  <2>1. IsTag(x) BY <1>1 DEF IsTag
  <2>2. TagBytes(x) = TagBytes(t) BY SameBytes
  <2>3. TagBytes(x)[k] <= MAX_TAG_BUFFER BY <2>2, <1>2 DEF Keeps
  <2>4. k < Len(x.attrs) => TagBytes(x)[k + 1] > MAX_TAG_BUFFER BY <2>2, <1>2 DEF Keeps
  <2> QED BY <2>1, <2>3, <2>4, KeptAre
<1> QED BY <1>6, <1>12, <1>13, <1>14

------------------------------------------------------------------------------
(* The walker builds the nodes of a reading.                               *)

\* Whatever is linked to a node, its name, attributes and data stay.
SaysSame(x, y) == x.name = y.name /\ x.attrs = y.attrs /\ x.data = y.data

LEMMA AddChildSays ==
    ASSUME NEW s, IsSeq(s), NEW p \in 1..Len(s), NEW c \in 1..Len(s),
           \A k \in 1..Len(s) : IsNode(s[k]),
           s[p].first # NoNode => s[p].last \in 1..Len(s)
    PROVE  \A k \in 1..Len(s) : SaysSame(node_add_child(s, p, c)[k], s[k])
<1> DEFINE t == node_add_child(s, p, c)
           l == s[p].last
           linked == IF s[p].first = NoNode
                     THEN [s EXCEPT ![p].first = c, ![p].last = c]
                     ELSE [s EXCEPT ![l].next = c, ![p].last = c]
<1>1. /\ IsSeq(linked)
      /\ Len(linked) = Len(s)
      /\ \A k \in 1..Len(s) : IsNode(linked[k]) /\ SaysSame(linked[k], s[k])
  <2>1. CASE s[p].first = NoNode
    <3> DEFINE r == s[p]
               v == [r EXCEPT !.first = c]
               x == [v EXCEPT !.last = c]
    <3>1. IsNode(r)
      OBVIOUS
    <3>2. linked = Put(s, p, x)
      BY <2>1 DEF Put
    <3> HIDE DEF r
    <3>3. IsNode(v) /\ SaysSame(v, r)
      BY <3>1 DEF IsNode, SaysSame
    <3> HIDE DEF v
    <3>4. IsNode(x) /\ SaysSame(x, v)
      BY <3>3 DEF IsNode, SaysSame
    <3> HIDE DEF x, linked
    <3>5. /\ IsSeq(linked)
          /\ Len(linked) = Len(s)
          /\ \A k \in 1..Len(s) : linked[k] = IF k = p THEN x ELSE s[k]
      BY <3>2, PutFacts
    <3> QED BY <2>1, <3>3, <3>4, <3>5 DEF r, SaysSame
  <2>2. CASE s[p].first # NoNode
    <3> DEFINE r == s[l]
               x == [r EXCEPT !.next = c]
               u == Put(s, l, x)
               q == u[p]
               y == [q EXCEPT !.last = c]
    <3>1. l \in 1..Len(s) /\ IsNode(r)
      BY <2>2
    <3>2. linked = Put(u, p, y)
      BY <2>2 DEF Put
    <3> HIDE DEF r, l, linked
    <3>3. IsNode(x) /\ SaysSame(x, r)
      BY <3>1 DEF IsNode, SaysSame
    <3> HIDE DEF x
    <3>4. /\ IsSeq(u)
          /\ Len(u) = Len(s)
          /\ \A k \in 1..Len(s) : u[k] = IF k = l THEN x ELSE s[k]
      BY <3>1, PutFacts
    <3>5. IsNode(q)
      BY <3>1, <3>3, <3>4
    <3> HIDE DEF u, q
    <3>6. IsNode(y) /\ SaysSame(y, q)
      BY <3>5 DEF IsNode, SaysSame
    <3> HIDE DEF y
    <3>7. /\ IsSeq(linked)
          /\ Len(linked) = Len(u)
          /\ \A k \in 1..Len(u) : linked[k] = IF k = p THEN y ELSE u[k]
      BY <3>2, <3>4, PutFacts
    <3>8. \A k \in 1..Len(s) : IsNode(u[k]) /\ SaysSame(u[k], s[k])
      BY <3>3, <3>4 DEF r, SaysSame
    <3> QED BY <3>4, <3>6, <3>7, <3>8 DEF q, SaysSame
  <2> QED BY <2>1, <2>2
<1> DEFINE r == linked[c]
           x == [r EXCEPT !.parent = p]
<1>2. t = Put(linked, c, x)
  BY DEF node_add_child, Put
<1>3. IsNode(r) BY <1>1
<1> HIDE DEF linked, r
<1>4. SaysSame(x, r) BY <1>3 DEF IsNode, SaysSame
<1> HIDE DEF x, t
<1>5. \A k \in 1..Len(s) : t[k] = IF k = c THEN x ELSE linked[k]
  BY <1>1, <1>2, PutFacts
<1>6. \A k \in 1..Len(s) : SaysSame(t[k], s[k])
  BY <1>1, <1>4, <1>5 DEF r, SaysSame
<1> QED BY <1>6 DEF t

\* An element of a reading, and what of it is kept.
Elem(n, a, d, p) == [name |-> n, attrs |-> a, data |-> d, parent |-> p]
KeptOf(n, a) == Kept(Elem(n, a, <<>>, NoNode)).attrs

LEMMA KeptElem ==
    ASSUME NEW n, NEW a, NEW d, NEW p
    PROVE  Kept(Elem(n, a, d, p)) = Elem(n, KeptOf(n, a), d, p)
<1> DEFINE x == Elem(n, a, d, p)
           y == Elem(n, a, <<>>, NoNode)
<1>1. x.name = n /\ x.attrs = a /\ y.name = n /\ y.attrs = a BY DEF Elem
<1>2. TagBytes(x) = TagBytes(y) BY <1>1, SameBytes
<1> DEFINE m == Max({k \in 0..Len(a) : TagBytes(x)[k] <= MAX_TAG_BUFFER})
<1>3. Kept(x) = [x EXCEPT !.attrs = SubSeq(@, 1, m)] BY <1>1 DEF Kept
<1>4. Kept(y) = [y EXCEPT !.attrs = SubSeq(@, 1, m)] BY <1>1, <1>2 DEF Kept
<1> HIDE DEF m
<1> QED BY <1>3, <1>4 DEF KeptOf, Elem

LEMMA ElemFields ==
    ASSUME NEW n, NEW a, NEW d, NEW p
    PROVE  LET x == Elem(n, a, d, p)
           IN x.name = n /\ x.attrs = a /\ x.data = d /\ x.parent = p
BY DEF Elem

IsElem(x) == x = Elem(x.name, x.attrs, x.data, x.parent) /\ IsSeq(x.data)
Says(y, x) ==
    /\ y.name = x.name /\ y.attrs = KeptOf(x.name, x.attrs)
    /\ y.data = x.data /\ y.parent = x.parent

LEMMA ElemIs ==
    ASSUME NEW n, NEW a, NEW d, IsSeq(d), NEW p PROVE IsElem(Elem(n, a, d, p))
BY DEF IsElem, Elem

LEMMA SaysKept ==
    ASSUME NEW y, NEW x, IsElem(x), Says(y, x) PROVE Content(y) = Kept(x)
<1>1. Kept(x) = Elem(x.name, KeptOf(x.name, x.attrs), x.data, x.parent)
  BY KeptElem DEF IsElem
<1> QED BY <1>1 DEF Content, Says, Elem

\* The nodes are those of the reading, and the elements that are open too.
Tip(path) == IF path = <<>> THEN NoNode ELSE Last(path)
IsPath(ns, path) ==
    \A j \in 1..Len(path) :
        path[j] \in 1..Len(ns) /\ ns[path[j]].parent = IF j = 1 THEN NoNode ELSE path[j - 1]
Follows(w, ns, path) ==
    /\ Fine(w) /\ w.fault = FALSE /\ IsSeq(ns) /\ IsSeq(path)
    /\ Len(w.nodes) = Len(ns)
    /\ \A i \in 1..Len(ns) : IsElem(ns[i]) /\ Says(w.nodes[i], ns[i])
    /\ IsPath(ns, path) /\ w.cur = Tip(path)

LEMMA FollowsNothing == Follows(EmptyWalker, <<>>, <<>>)
<1>1. Fine(EmptyWalker) BY EmptyLinks DEF Fine
<1>2. EmptyWalker.fault = FALSE /\ EmptyWalker.nodes = <<>> /\ EmptyWalker.cur = NoNode BY DEF EmptyWalker
<1>3. IsSeq(<<>>) /\ Len(<<>>) = 0 BY EmptyIsSeq
<1>4. Tip(<<>>) = NoNode BY DEF Tip
<1>5. 1..0 = {} OBVIOUS
<1> QED BY <1>1, <1>2, <1>3, <1>4, <1>5 DEF Follows, IsPath

\* startElement
LEMMA FirstNodeSays ==
    ASSUME NEW w, Fine(w), Len(w.nodes) = 0, NEW n, n # Null, NEW a, NEW k
    PROVE  LET v == startElement(w, n, k)
           IN  v.fault = w.fault /\ v.cur = 1 /\ v.nodes = <<new_node(n, k)>>
<1> DEFINE v == startElement(w, n, k)
           g == Append(w.nodes, new_node(n, k))
<1>1. w = Walker(w.nodes, w.root, w.cur, w.fault) /\ IsSeq(w.nodes) BY FieldsKept
<1>2. w.nodes = <<>> BY <1>1, EmptyLength
<1>3. w.root = NoNode BY <1>2 DEF Fine, LinkedAsATree, Rooted
<1>4. Len(w.nodes) + 1 = 1 OBVIOUS
<1>5. v = Walker(g, 1, 1, w.fault)
  BY <1>1, <1>3, <1>4 DEF startElement, Walker
<1>6. g = <<new_node(n, k)>> BY <1>2
<1> HIDE DEF g, v
<1>7. v.fault = w.fault /\ v.cur = 1 /\ v.nodes = g BY <1>5 DEF Walker
<1> QED BY <1>6, <1>7 DEF v

LEMMA NextNodeSays ==
    ASSUME NEW w, Fine(w), w.cur # NoNode, NEW n, n # Null, NEW k
    PROVE  LET v == startElement(w, n, k)
               m == Len(w.nodes) + 1
           IN  /\ v.fault = w.fault /\ v.cur = m /\ Len(v.nodes) = m
               /\ SaysSame(v.nodes[m], new_node(n, k)) /\ v.nodes[m].parent = w.cur
               /\ \A i \in 1..Len(w.nodes) : SaysSame(v.nodes[i], w.nodes[i])
                                             /\ v.nodes[i].parent = w.nodes[i].parent
<1> DEFINE x == new_node(n, k)
           m == Len(w.nodes) + 1
           g == Append(w.nodes, x)
           t == node_add_child(g, w.cur, m)
           v == startElement(w, n, k)
<1>1. /\ w = Walker(w.nodes, w.root, w.cur, w.fault)
      /\ IsSeq(w.nodes) /\ Len(w.nodes) \in Nat
      /\ \A i \in 1..Len(w.nodes) : IsNode(w.nodes[i])
      /\ w.cur \in 0..Len(w.nodes)
  BY FieldsKept
<1>2. w.cur \in 1..Len(w.nodes) BY <1>1 DEF NoNode
<1>3. w.root # NoNode
  <2>1. w.nodes # <<>> BY <1>1, <1>2, EmptyLength
  <2> QED BY <2>1 DEF Fine, LinkedAsATree, Rooted, NoNode
<1>4. v = Walker(t, w.root, m, w.fault)
  BY <1>1, <1>3 DEF startElement, Walker
<1>5. IsNode(x)
  BY DEF new_node, IsNode
<1> HIDE DEF x
<1>6. /\ IsSeq(g) /\ Len(g) = m /\ g[m] = x
      /\ \A i \in 1..Len(w.nodes) : g[i] = w.nodes[i]
  BY <1>1, AppendFacts
<1> HIDE DEF g
<1>7. \A i \in 1..Len(g) : IsNode(g[i])
  BY <1>1, <1>5, <1>6
<1>8. w.nodes[w.cur].first # NoNode => w.nodes[w.cur].last \in 1..Len(w.nodes)
  BY <1>2 DEF Fine, LinkedAsATree, HasChildren
<1>9. g[w.cur].first # NoNode => g[w.cur].last \in 1..Len(g)
  BY <1>1, <1>2, <1>6, <1>8
<1>10. w.cur \in 1..Len(g) /\ m \in 1..Len(g) /\ w.cur # m
  BY <1>1, <1>2, <1>6
<1>11. /\ Len(t) = Len(g)
       /\ \A i \in 1..Len(g) : t[i].parent = IF i = m THEN w.cur ELSE g[i].parent
  <2> HIDE DEF m
  <2> QED BY <1>6, <1>7, <1>9, <1>10, AddChildFacts
<1>12. \A i \in 1..Len(g) : SaysSame(t[i], g[i])
  <2> HIDE DEF m
  <2> QED BY <1>6, <1>7, <1>9, <1>10, AddChildSays
<1> HIDE DEF t, v
<1>13. v.nodes = t /\ v.cur = m /\ v.fault = w.fault
  BY <1>4 DEF Walker
<1>14. SaysSame(t[m], x) /\ t[m].parent = w.cur BY <1>6, <1>10, <1>11, <1>12
<1>15. \A i \in 1..Len(w.nodes) : i \in 1..Len(g) /\ i # m BY <1>1, <1>6
<1>16. \A i \in 1..Len(w.nodes) : SaysSame(t[i], w.nodes[i]) /\ t[i].parent = w.nodes[i].parent
  BY <1>6, <1>11, <1>12, <1>15
<1>17. Len(t) = m BY <1>6, <1>11
<1> HIDE DEF m
<1> QED BY <1>13, <1>14, <1>16, <1>17 DEF v, x, m

LEMMA TipIs ==
    ASSUME NEW s, IsSeq(s)
    PROVE  \/ Len(s) = 0 /\ Tip(s) = NoNode
           \/ Len(s) \in Nat \ {0} /\ Tip(s) = s[Len(s)]
<1>1. Len(s) \in Nat /\ (s = <<>> <=> Len(s) = 0) BY LenNat, EmptyLength
<1>2. Last(s) = s[Len(s)] BY DEF Last
<1> QED BY <1>1, <1>2 DEF Tip

LEMMA PathOpens ==
    ASSUME NEW ns, IsSeq(ns), NEW path, IsSeq(path), IsPath(ns, path), NEW x, x.parent = Tip(path)
    PROVE  IsPath(Append(ns, x), Append(path, Len(ns) + 1))
<1> DEFINE ms == Append(ns, x)
           m == Len(ns) + 1
           q == Append(path, m)
           n == Len(path)
<1>1. Len(ns) \in Nat /\ Len(ms) = m /\ ms[m] = x /\ \A k \in 1..Len(ns) : ms[k] = ns[k] BY AppendFacts
<1>2. n \in Nat /\ Len(q) = n + 1 /\ q[n + 1] = m /\ \A k \in 1..n : q[k] = path[k] BY AppendFacts
<1>3. \/ n = 0 /\ Tip(path) = NoNode
      \/ n \in Nat \ {0} /\ Tip(path) = path[n] BY TipIs
<1>4. m \in 1..Len(ms) /\ \A k \in 1..Len(ns) : k \in 1..Len(ms) BY <1>1
<1> HIDE DEF ms, q, n
<1>5. \A j \in 1..n : q[j] \in 1..Len(ms) /\ ms[q[j]].parent = IF j = 1 THEN NoNode ELSE q[j - 1]
  <2> SUFFICES ASSUME NEW j \in 1..n
               PROVE  q[j] \in 1..Len(ms) /\ ms[q[j]].parent = IF j = 1 THEN NoNode ELSE q[j - 1]
    OBVIOUS
  <2>1. path[j] \in 1..Len(ns) /\ ns[path[j]].parent = IF j = 1 THEN NoNode ELSE path[j - 1]
    BY DEF IsPath, n
  <2>2. q[j] = path[j] BY <1>2
  <2>3. ms[q[j]] = ns[path[j]] /\ q[j] \in 1..Len(ms) BY <2>1, <2>2, <1>1, <1>4
  <2>4. CASE j = 1 BY <2>1, <2>3, <2>4
  <2>5. CASE j # 1
    <3>1. j - 1 \in 1..n BY <2>5, <1>2
    <3>2. q[j - 1] = path[j - 1] BY <3>1, <1>2
    <3> QED BY <2>1, <2>3, <2>5, <3>2
  <2> QED BY <2>4, <2>5
<1>6. q[n + 1] \in 1..Len(ms) /\ ms[q[n + 1]].parent = IF n + 1 = 1 THEN NoNode ELSE q[(n + 1) - 1]
  <2>1. q[n + 1] = m /\ ms[q[n + 1]] = x BY <1>1, <1>2
  <2>2. CASE n = 0 BY <2>1, <2>2, <1>3, <1>4
  <2>3. CASE n # 0
    <3>1. (n + 1) - 1 = n /\ n + 1 # 1 /\ n \in 1..n BY <2>3, <1>2
    <3>2. q[n] = path[n] BY <3>1, <1>2
    <3> QED BY <2>1, <3>1, <3>2, <1>3, <1>4, <2>3
  <2> QED BY <2>2, <2>3
<1>7. \A j \in 1..Len(q) : j \in 1..n \/ j = n + 1 BY <1>2
<1>8. \A j \in 1..Len(q) : q[j] \in 1..Len(ms) /\ ms[q[j]].parent = IF j = 1 THEN NoNode ELSE q[j - 1]
  BY <1>5, <1>6, <1>7
<1>9. IsPath(ms, q) BY <1>8 DEF IsPath
<1> QED BY <1>9 DEF ms, q

\* An element is opened.
LEMMA FollowsOpen ==
    ASSUME NEW w, NEW ns, NEW path, Follows(w, ns, path), path = <<>> => ns = <<>>,
           NEW c, NEW t, TagIs(c, t)
    PROVE  Follows(Started(w, c), Append(ns, Elem(t.name, t.attrs, <<>>, Tip(path))),
                   Append(path, Len(ns) + 1))
<1> DEFINE e == TagOf(c)
           k == AttrsOf(e)
           v == Started(w, c)
           x == Elem(t.name, t.attrs, <<>>, Tip(path))
           y == new_node(t.name, k)
           m == Len(ns) + 1
           ms == Append(ns, x)
           q == Append(path, m)
<1>1. /\ Fine(w) /\ w.fault = FALSE /\ IsSeq(ns) /\ IsSeq(path) /\ Len(w.nodes) = Len(ns)
      /\ \A i \in 1..Len(ns) : IsElem(ns[i]) /\ Says(w.nodes[i], ns[i])
      /\ IsPath(ns, path) /\ w.cur = Tip(path)
  BY DEF Follows
<1>2. IsElem(x) /\ x.name = t.name /\ x.attrs = t.attrs /\ x.data = <<>> /\ x.parent = Tip(path)
  BY ElemIs, EmptyIsSeq, ElemFields
<1>3. e.tagname = t.name /\ t.name # Null
  BY TagEnds, <1>2 DEF TagIs, IsTag
<1>4. k = KeptOf(t.name, t.attrs)
  <2> DEFINE z == Elem(t.name, t.attrs, <<>>, NoNode)
  <2>1. z.name = t.name /\ z.attrs = t.attrs BY ElemFields
  <2>2. Kept(z) = [z EXCEPT !.attrs = k]
    <3> HIDE DEF z
    <3> QED BY <2>1, TagEnds
  <2>3. [z EXCEPT !.attrs = k] = Elem(t.name, k, <<>>, NoNode)
    <3> HIDE DEF k
    <3> QED BY DEF Elem
  <2>4. Elem(t.name, k, <<>>, NoNode).attrs = k BY ElemFields
  <2> QED BY <2>2, <2>3, <2>4 DEF KeptOf
<1>5. v = startElement(w, t.name, k) BY <1>3 DEF Started
<1>6. y.name = t.name /\ y.attrs = k /\ y.data = <<>> /\ y.parent = NoNode BY DEF new_node
<1>7. Fine(v) BY <1>1, <1>5, StartFine
<1>8. IsSeq(ms) /\ IsSeq(q) /\ Len(ns) \in Nat /\ Len(ms) = m /\ ms[m] = x /\ \A i \in 1..Len(ns) : ms[i] = ns[i]
  BY <1>1, AppendFacts
<1>9. IsPath(ms, q) BY <1>1, <1>2, PathOpens
<1>10. Tip(q) = m
  <2>1. Last(q) = m /\ Len(q) = Len(path) + 1 BY <1>1, PushFacts
  <2>2. Len(path) \in Nat BY <1>1, LenNat
  <2>3. q # <<>>
    <3>1. Len(q) # 0 /\ IsSeq(q)
      <4> HIDE DEF q
      <4> QED BY <2>1, <2>2, <1>8
    <3> HIDE DEF q
    <3> QED BY <3>1, EmptyLength
  <2> QED BY <2>1, <2>3 DEF Tip
<1> HIDE DEF v, x, y, ms, q, k, e
<1>11. /\ v.fault = FALSE /\ v.cur = m /\ Len(v.nodes) = m
       /\ Says(v.nodes[m], x)
       /\ \A i \in 1..Len(ns) : SaysSame(v.nodes[i], w.nodes[i]) /\ v.nodes[i].parent = w.nodes[i].parent
  <2>1. CASE path = <<>>
    <3>1. ns = <<>> /\ Len(ns) = 0 BY <2>1
    <3>2. v.fault = w.fault /\ v.cur = 1 /\ v.nodes = <<new_node(t.name, k)>>
      <4>1. Len(w.nodes) = 0 BY <1>1, <3>1
      <4>2. LET u == startElement(w, t.name, k)
            IN  u.fault = w.fault /\ u.cur = 1 /\ u.nodes = <<new_node(t.name, k)>>
        BY <1>1, <1>3, <4>1, FirstNodeSays
      <4> QED BY <1>5, <4>2
    <3>3. Len(v.nodes) = 1 /\ v.nodes[1] = y /\ m = 1 BY <3>1, <3>2 DEF y
    <3>4. Tip(path) = NoNode BY <2>1 DEF Tip
    <3>5. Says(y, x) BY <1>2, <1>4, <1>6, <3>4 DEF Says
    <3>6. 1..Len(ns) = {} BY <3>1
    <3> QED BY <1>1, <3>2, <3>3, <3>5, <3>6
  <2>2. CASE path # <<>>
    <3>1. w.cur # NoNode
      <4>1. Len(path) \in Nat \ {0} /\ Tip(path) = path[Len(path)]
        BY <1>1, <2>2, TipIs, EmptyLength
      <4>2. Len(path) \in 1..Len(path) BY <4>1
      <4>3. path[Len(path)] \in 1..Len(ns) BY <1>1, <4>2 DEF IsPath
      <4> QED BY <1>1, <4>1, <4>3, <1>8 DEF NoNode
    <3>2. /\ v.fault = w.fault /\ v.cur = Len(w.nodes) + 1 /\ Len(v.nodes) = Len(w.nodes) + 1
          /\ SaysSame(v.nodes[Len(w.nodes) + 1], y) /\ v.nodes[Len(w.nodes) + 1].parent = w.cur
          /\ \A i \in 1..Len(w.nodes) : SaysSame(v.nodes[i], w.nodes[i])
                                        /\ v.nodes[i].parent = w.nodes[i].parent
      BY <1>1, <1>3, <1>5, <3>1, NextNodeSays DEF y
    <3>3. Len(w.nodes) + 1 = m BY <1>1
    <3> HIDE DEF m
    <3>4. SaysSame(v.nodes[m], y) /\ v.nodes[m].parent = w.cur BY <3>2, <3>3
    <3>5. Says(v.nodes[m], x) BY <1>1, <1>2, <1>4, <1>6, <3>4 DEF Says, SaysSame
    <3> QED BY <1>1, <3>2, <3>3, <3>5
  <2> QED BY <2>1, <2>2
<1>12. \A i \in 1..Len(ms) : i \in 1..Len(ns) \/ i = m BY <1>8
<1>13. \A i \in 1..Len(ms) : IsElem(ms[i]) /\ Says(v.nodes[i], ms[i])
  <2>1. \A i \in 1..Len(ns) : IsElem(ms[i]) /\ Says(v.nodes[i], ms[i])
    <3> SUFFICES ASSUME NEW i \in 1..Len(ns) PROVE IsElem(ms[i]) /\ Says(v.nodes[i], ms[i]) OBVIOUS
    <3>1. IsElem(ns[i]) /\ Says(w.nodes[i], ns[i]) /\ ms[i] = ns[i] BY <1>1, <1>8
    <3>2. SaysSame(v.nodes[i], w.nodes[i]) /\ v.nodes[i].parent = w.nodes[i].parent BY <1>11
    <3> QED BY <3>1, <3>2 DEF Says, SaysSame
  <2>2. IsElem(ms[m]) /\ Says(v.nodes[m], ms[m]) BY <1>2, <1>8, <1>11
  <2> QED BY <2>1, <2>2, <1>12
<1>14. Follows(v, ms, q)
  BY <1>7, <1>8, <1>9, <1>10, <1>11, <1>13 DEF Follows
<1> QED BY <1>14 DEF v, ms, q, x

LEMMA OpenPath ==
    ASSUME NEW path, IsSeq(path), path # <<>>, NEW ns, IsPath(ns, path)
    PROVE  /\ Tip(path) = Last(path) /\ Len(path) \in Nat \ {0} /\ Last(path) = path[Len(path)]
           /\ Last(path) \in 1..Len(ns)
<1>1. Len(path) \in Nat \ {0} BY TipIs, EmptyLength
<1>2. Len(path) \in 1..Len(path) BY <1>1
<1>3. Last(path) = path[Len(path)] BY DEF Last
<1> QED BY <1>1, <1>2, <1>3 DEF IsPath, Tip

LEMMA ElemData ==
    ASSUME NEW r, IsElem(r), NEW d, IsSeq(d), NEW y, y = [r EXCEPT !.data = d]
    PROVE  y.name = r.name /\ y.attrs = r.attrs /\ y.parent = r.parent /\ y.data = d /\ IsElem(y)
<1>1. r = Elem(r.name, r.attrs, r.data, r.parent) BY DEF IsElem
<1>2. y = Elem(r.name, r.attrs, d, r.parent) BY <1>1 DEF Elem
<1> QED BY <1>2, ElemIs, ElemFields

\* Text
LEMMA FollowsText ==
    ASSUME NEW w, NEW ns, NEW path, Follows(w, ns, path), path # <<>>, NEW s, IsSeq(s), ~Blank(s)
    PROVE  Follows(charDatahandler(w, s), [ns EXCEPT ![Last(path)].data = @ \o s], path)
<1> DEFINE v == charDatahandler(w, s)
           p == Last(path)
           x == [w.nodes[p] EXCEPT !.data = @ \o s]
           t == Put(w.nodes, p, x)
           y == [ns[p] EXCEPT !.data = @ \o s]
           ms == Put(ns, p, y)
<1>1. /\ Fine(w) /\ w.fault = FALSE /\ IsSeq(ns) /\ IsSeq(path) /\ Len(w.nodes) = Len(ns)
      /\ \A i \in 1..Len(ns) : IsElem(ns[i]) /\ Says(w.nodes[i], ns[i])
      /\ IsPath(ns, path) /\ w.cur = Tip(path)
  BY DEF Follows
<1>2. w.cur = p /\ p \in 1..Len(ns) BY <1>1, OpenPath
<1>3. /\ w = Walker(w.nodes, w.root, w.cur, w.fault)
      /\ IsSeq(w.nodes) /\ Len(w.nodes) \in Nat
      /\ \A k \in 1..Len(w.nodes) : IsNode(w.nodes[k])
  BY <1>1, FieldsKept
<1>4. w.cur # NoNode BY <1>1, <1>2, <1>3 DEF NoNode
<1>5. v = [w EXCEPT !.nodes[w.cur].data = @ \o s] BY <1>4 DEF charDatahandler
<1>6. [w EXCEPT !.nodes[w.cur].data = @ \o s] = [w EXCEPT !.nodes = t] BY <1>2 DEF Put
<1>7. [ns EXCEPT ![p].data = @ \o s] = ms BY DEF Put
<1>8. /\ x.name = w.nodes[p].name /\ x.attrs = w.nodes[p].attrs /\ x.parent = w.nodes[p].parent
      /\ x.data = w.nodes[p].data \o s
  <2>1. IsNode(w.nodes[p]) BY <1>1, <1>2, <1>3
  <2> QED BY <2>1 DEF IsNode
<1>9. y.name = ns[p].name /\ y.attrs = ns[p].attrs /\ y.parent = ns[p].parent /\ y.data = ns[p].data \o s
      /\ IsElem(y)
  <2>1. IsElem(ns[p]) BY <1>1, <1>2
  <2>2. IsSeq(ns[p].data \o s) BY <2>1, ConcatSeq DEF IsElem
  <2>3. y = [ns[p] EXCEPT !.data = ns[p].data \o s] OBVIOUS
  <2> DEFINE r == ns[p]
             d == ns[p].data \o s
  <2> HIDE DEF y, r, d
  <2>4. IsElem(r) /\ IsSeq(d) /\ y = [r EXCEPT !.data = d] BY <2>1, <2>2, <2>3 DEF r, d
  <2>5. y.name = r.name /\ y.attrs = r.attrs /\ y.parent = r.parent /\ y.data = d /\ IsElem(y)
    BY <2>4, ElemData
  <2> QED BY <2>5 DEF r, d
<1> HIDE DEF x, y, v, p
<1>10. Len(t) = Len(w.nodes) /\ \A k \in 1..Len(w.nodes) : t[k] = IF k = p THEN x ELSE w.nodes[k]
  BY <1>1, <1>2, <1>3, PutFacts
<1>11. IsSeq(ms) /\ Len(ms) = Len(ns) /\ \A k \in 1..Len(ns) : ms[k] = IF k = p THEN y ELSE ns[k]
  BY <1>1, <1>2, PutFacts
<1> HIDE DEF t, ms
<1>12. v = Walker(t, w.root, w.cur, w.fault) BY <1>3, <1>5, <1>6 DEF Walker
<1>13. v.nodes = t /\ v.cur = w.cur /\ v.fault = w.fault BY <1>12 DEF Walker
<1>14. Fine(v) BY <1>1, CharFine DEF v
<1>15. \A i \in 1..Len(ns) : IsElem(ms[i]) /\ Says(t[i], ms[i])
  <2> SUFFICES ASSUME NEW i \in 1..Len(ns) PROVE IsElem(ms[i]) /\ Says(t[i], ms[i]) OBVIOUS
  <2>1. IsElem(ns[i]) /\ Says(w.nodes[i], ns[i]) BY <1>1
  <2>2. t[i] = IF i = p THEN x ELSE w.nodes[i] BY <1>1, <1>10
  <2>3. ms[i] = IF i = p THEN y ELSE ns[i] BY <1>11
  <2>4. CASE i # p BY <2>1, <2>2, <2>3, <2>4
  <2>5. CASE i = p
    <3>1. t[i] = x /\ ms[i] = y BY <2>2, <2>3, <2>5
    <3>2. Says(w.nodes[p], ns[p]) BY <2>1, <2>5
    <3>3. Says(x, y) BY <3>2, <1>8, <1>9 DEF Says
    <3> QED BY <3>1, <3>3, <1>9
  <2> QED BY <2>4, <2>5
<1>16. IsPath(ms, path)
  <2>1. \A k \in 1..Len(ns) : ms[k].parent = ns[k].parent BY <1>9, <1>11
  <2> QED BY <1>1, <1>11, <2>1 DEF IsPath
<1>17. Follows(v, ms, path) BY <1>1, <1>10, <1>11, <1>13, <1>14, <1>15, <1>16 DEF Follows
<1> QED BY <1>7, <1>17 DEF v, p

LEMMA FrontIs ==
    ASSUME NEW path, IsSeq(path), path # <<>>
    PROVE  /\ IsSeq(Front(path)) /\ Len(Front(path)) = Len(path) - 1
           /\ \A j \in 1..(Len(path) - 1) : Front(path)[j] = path[j]
<1>1. Len(path) \in Nat \ {0} BY TipIs, EmptyLength
<1>2. Front(path) = SubSeq(path, 1, Len(path) - 1) BY DEF Front
<1> DEFINE m == Len(path) - 1
           u == SubSeq(path, 1, m)
<1>3. m \in Nat /\ m <= Len(path) BY <1>1
<1> HIDE DEF m
<1>4. IsSeq(u) /\ Len(u) = m /\ \A j \in 1..m : u[j] = path[j] BY <1>3, FirstElems
<1>5. Front(path) = u BY <1>2 DEF m
<1>6. Len(path) - 1 = m BY DEF m
<1> HIDE DEF u
<1> QED BY <1>4, <1>5, <1>6

\* and the end of an element.
LEMMA FollowsClose ==
    ASSUME NEW w, NEW ns, NEW path, Follows(w, ns, path), path # <<>>
    PROVE  Follows(endElement(w), ns, Front(path))
<1> DEFINE v == endElement(w)
           q == Front(path)
           n == Len(path)
           c == w.nodes[w.cur].parent
<1>1. /\ Fine(w) /\ w.fault = FALSE /\ IsSeq(ns) /\ IsSeq(path) /\ Len(w.nodes) = Len(ns)
      /\ \A i \in 1..Len(ns) : IsElem(ns[i]) /\ Says(w.nodes[i], ns[i])
      /\ IsPath(ns, path) /\ w.cur = Tip(path)
  BY DEF Follows
<1>2. w.cur = Last(path) /\ Last(path) = path[n] /\ n \in Nat \ {0} /\ Last(path) \in 1..Len(ns) BY <1>1, OpenPath
<1>3. w = Walker(w.nodes, w.root, w.cur, w.fault) /\ Len(w.nodes) \in Nat BY <1>1, FieldsKept
<1>4. w.cur # NoNode BY <1>1, <1>2, <1>3 DEF NoNode
<1>5. v = Walker(w.nodes, w.root, c, w.fault)
  BY <1>3, <1>4 DEF endElement, Walker
<1>6. Fine(v) BY <1>1, EndFine
<1>7. IsSeq(q) /\ Len(q) = n - 1 /\ \A j \in 1..(n - 1) : q[j] = path[j]
  <2>1. IsSeq(path) /\ path # <<>> BY <1>1
  <2>2. /\ IsSeq(Front(path)) /\ Len(Front(path)) = Len(path) - 1
        /\ \A j \in 1..(Len(path) - 1) : Front(path)[j] = path[j] BY <2>1, FrontIs
  <2> QED BY <2>2
<1>8. c = IF n = 1 THEN NoNode ELSE path[n - 1]
  <2>1. n \in 1..n BY <1>2
  <2>2. ns[path[n]].parent = IF n = 1 THEN NoNode ELSE path[n - 1] BY <1>1, <2>1 DEF IsPath
  <2>3. w.nodes[w.cur].parent = ns[path[n]].parent BY <1>1, <1>2 DEF Says
  <2> QED BY <2>2, <2>3
<1> HIDE DEF v, c, q, n
<1>9. v.nodes = w.nodes /\ v.cur = c /\ v.fault = w.fault BY <1>5 DEF Walker
<1>10. c = Tip(q)
  <2>1. \/ Len(q) = 0 /\ Tip(q) = NoNode
        \/ Len(q) \in Nat \ {0} /\ Tip(q) = q[Len(q)] BY <1>7, TipIs
  <2>2. CASE n = 1 BY <2>1, <2>2, <1>7, <1>8
  <2>3. CASE n # 1
    <3>1. n - 1 \in 1..(n - 1) /\ n - 1 # 0 BY <2>3, <1>2
    <3>2. q[n - 1] = path[n - 1] BY <3>1, <1>7
    <3> QED BY <2>1, <2>3, <3>1, <3>2, <1>7, <1>8
  <2> QED BY <2>2, <2>3
<1>11. IsPath(ns, q)
  <2> SUFFICES ASSUME NEW j \in 1..Len(q)
               PROVE  q[j] \in 1..Len(ns) /\ ns[q[j]].parent = IF j = 1 THEN NoNode ELSE q[j - 1]
    BY DEF IsPath
  <2>1. j \in 1..(n - 1) /\ j \in 1..n /\ (j # 1 => j - 1 \in 1..(n - 1)) BY <1>2, <1>7
  <2>2. path[j] \in 1..Len(ns) /\ ns[path[j]].parent = IF j = 1 THEN NoNode ELSE path[j - 1]
    BY <1>1, <2>1 DEF IsPath, n
  <2>3. q[j] = path[j] /\ (j # 1 => q[j - 1] = path[j - 1]) BY <2>1, <1>7
  <2> QED BY <2>2, <2>3
<1>12. Follows(v, ns, q) BY <1>1, <1>6, <1>7, <1>9, <1>10, <1>11 DEF Follows
<1> QED BY <1>12 DEF v, q

\* An element that is empty.
LEMMA FollowsEmpty ==
    ASSUME NEW w, NEW ns, NEW path, Follows(w, ns, path), path = <<>> => ns = <<>>,
           NEW c, NEW t, TagIs(c, t)
    PROVE  Follows(endElement(Started(w, c)), Append(ns, Elem(t.name, t.attrs, <<>>, Tip(path))), path)
<1> DEFINE v == Started(w, c)
           ms == Append(ns, Elem(t.name, t.attrs, <<>>, Tip(path)))
           q == Append(path, Len(ns) + 1)
<1>1. Follows(v, ms, q) BY FollowsOpen
<1>2. IsSeq(path) BY DEF Follows
<1>3. Front(q) = path /\ IsSeq(q) /\ Len(path) \in Nat /\ Len(q) = Len(path) + 1 BY <1>2, PushFacts
<1> HIDE DEF v, ms, q
<1>4. q # <<>>
  <2>1. Len(q) # 0 BY <1>3
  <2> QED BY <2>1, <1>3, EmptyLength
<1>5. Follows(endElement(v), ms, Front(q)) BY <1>1, <1>4, FollowsClose
<1> QED BY <1>3, <1>5 DEF v, ms

------------------------------------------------------------------------------
(* What a piece makes of a reading.                                        *)

Becomes(m, p, at, tag, nodes, path) ==
    LET q == After(m, p)
    IN  /\ q.text = m.text \o TextOf(p) /\ q.at = at /\ q.tag = tag
        /\ q.nodes = nodes /\ q.path = path

LEMMA AfterFields ==
    ASSUME NEW m, NEW p
    PROVE  Becomes(m, p, AtAfter(m, p), TagAfter(m, p), NodesAfter(m, p), PathAfter(m, p))
BY DEF Becomes, After

LEMMA HeaderPiece ==
    ASSUME NEW m, NEW p, p.k = "header"
    PROVE  TextOf(p) = <<"<", "?", "xml">> /\ Becomes(m, p, "header", m.tag, m.nodes, m.path)
<1>1. TextOf(p) = <<"<", "?", "xml">> BY DEF TextOf
<1>2. AtAfter(m, p) = "header" BY DEF AtAfter
<1>3. TagAfter(m, p) = m.tag BY DEF TagAfter
<1>4. NodesAfter(m, p) = m.nodes BY DEF NodesAfter
<1>5. PathAfter(m, p) = m.path BY DEF PathAfter
<1> QED BY <1>1, <1>2, <1>3, <1>4, <1>5, AfterFields

LEMMA HeaderEndPiece ==
    ASSUME NEW m, NEW p, p.k = "header_end", m.path = <<>>
    PROVE  TextOf(p) = Gap(p.gap) \o <<"?", ">">> /\ Becomes(m, p, "prolog", m.tag, m.nodes, m.path)
<1>1. TextOf(p) = Gap(p.gap) \o <<"?", ">">> BY DEF TextOf
<1>5. PathAfter(m, p) = m.path BY DEF PathAfter
<1>2. AtAfter(m, p) = "prolog" BY <1>5 DEF AtAfter, Outside
<1>3. TagAfter(m, p) = m.tag BY DEF TagAfter
<1>4. NodesAfter(m, p) = m.nodes BY DEF NodesAfter
<1> QED BY <1>1, <1>2, <1>3, <1>4, <1>5, AfterFields

LEMMA CommentPiece ==
    ASSUME NEW m, NEW p, p.k = "comment"
    PROVE  /\ TextOf(p) = <<"<", "!", "-", "-">> \o p.s \o <<"-", "-", ">">>
           /\ Becomes(m, p, IF m.path = <<>> THEN "prolog" ELSE "content", m.tag, m.nodes, m.path)
<1>1. TextOf(p) = <<"<", "!", "-", "-">> \o p.s \o <<"-", "-", ">">> BY DEF TextOf
<1>5. PathAfter(m, p) = m.path BY DEF PathAfter
<1>2. AtAfter(m, p) = IF m.path = <<>> THEN "prolog" ELSE "content" BY <1>5 DEF AtAfter, Outside
<1>3. TagAfter(m, p) = m.tag BY DEF TagAfter
<1>4. NodesAfter(m, p) = m.nodes BY DEF NodesAfter
<1> QED BY <1>1, <1>2, <1>3, <1>4, <1>5, AfterFields

LEMMA TagPiece ==
    ASSUME NEW m, NEW p, p.k = "tag"
    PROVE  /\ TextOf(p) = <<"<">> \o p.name
           /\ Becomes(m, p, "tag", TagRec(p.name, <<>>), m.nodes, m.path)
<1>1. TextOf(p) = <<"<">> \o p.name BY DEF TextOf
<1>5. PathAfter(m, p) = m.path BY DEF PathAfter
<1>2. AtAfter(m, p) = "tag" BY DEF AtAfter
<1>3. TagAfter(m, p) = TagRec(p.name, <<>>) BY DEF TagAfter, TagRec
<1>4. NodesAfter(m, p) = m.nodes BY DEF NodesAfter
<1> QED BY <1>1, <1>2, <1>3, <1>4, <1>5, AfterFields

LEMMA AttrPiece ==
    ASSUME NEW m, NEW p, p.k = "attr"
    PROVE  /\ TextOf(p) = AttrText(p.gap, p.name, p.value)
           /\ Becomes(m, p, m.at, [m.tag EXCEPT !.attrs = Append(@, OneAttr(p.name, p.value))],
                      m.nodes, m.path)
<1>1. TextOf(p) = AttrText(p.gap, p.name, p.value)
  BY DEF TextOf, AttrText, AttrHead, AttrSign, AttrName
<1>5. PathAfter(m, p) = m.path BY DEF PathAfter
<1>2. AtAfter(m, p) = m.at BY DEF AtAfter
<1>3. TagAfter(m, p) = [m.tag EXCEPT !.attrs = Append(@, OneAttr(p.name, p.value))] BY DEF TagAfter, OneAttr
<1>4. NodesAfter(m, p) = m.nodes BY DEF NodesAfter
<1> QED BY <1>1, <1>2, <1>3, <1>4, <1>5, AfterFields

NewElem(m) == Elem(m.tag.name, m.tag.attrs, <<>>, Tip(m.path))

LEMMA OpenPiece ==
    ASSUME NEW m, NEW p, p.k = "open", IsSeq(m.path)
    PROVE  /\ TextOf(p) = Gap(p.gap) \o <<">">>
           /\ Becomes(m, p, "content", m.tag, Append(m.nodes, NewElem(m)),
                      Append(m.path, Len(m.nodes) + 1))
<1>1. TextOf(p) = Gap(p.gap) \o <<">">> BY DEF TextOf
<1>5. PathAfter(m, p) = Append(m.path, Len(m.nodes) + 1) BY DEF PathAfter
<1>2. AtAfter(m, p) = "content" BY DEF AtAfter
<1>3. TagAfter(m, p) = m.tag BY DEF TagAfter
<1>4. NodesAfter(m, p) = Append(m.nodes, NewElem(m))
  <2>1. Element(m) = NewElem(m) BY DEF Element, NewElem, Elem, Tip
  <2> QED BY <2>1 DEF NodesAfter
<1> QED BY <1>1, <1>2, <1>3, <1>4, <1>5, AfterFields

LEMMA EmptyPiece ==
    ASSUME NEW m, NEW p, p.k = "empty"
    PROVE  /\ TextOf(p) = Gap(p.gap) \o <<"/", ">">>
           /\ Becomes(m, p, IF m.path = <<>> THEN "end" ELSE "content", m.tag,
                      Append(m.nodes, NewElem(m)), m.path)
<1>1. TextOf(p) = Gap(p.gap) \o <<"/", ">">> BY DEF TextOf
<1>5. PathAfter(m, p) = m.path BY DEF PathAfter
<1>2. AtAfter(m, p) = IF m.path = <<>> THEN "end" ELSE "content" BY <1>5 DEF AtAfter, Outside
<1>3. TagAfter(m, p) = m.tag BY DEF TagAfter
<1>4. NodesAfter(m, p) = Append(m.nodes, NewElem(m))
  <2>1. Element(m) = NewElem(m) BY DEF Element, NewElem, Elem, Tip
  <2> QED BY <2>1 DEF NodesAfter
<1> QED BY <1>1, <1>2, <1>3, <1>4, <1>5, AfterFields

WithText(m, s) ==
    IF Blank(s) THEN m.nodes ELSE [m.nodes EXCEPT ![Last(m.path)].data = @ \o s]

LEMMA TextPiece ==
    ASSUME NEW m, NEW p, p.k = "text"
    PROVE  /\ TextOf(p) = p.s
           /\ Becomes(m, p, IF m.path = <<>> THEN "prolog" ELSE "said", m.tag, WithText(m, p.s), m.path)
<1>1. TextOf(p) = p.s BY DEF TextOf
<1>5. PathAfter(m, p) = m.path BY DEF PathAfter
<1>2. AtAfter(m, p) = IF m.path = <<>> THEN "prolog" ELSE "said" BY <1>5 DEF AtAfter, Outside
<1>3. TagAfter(m, p) = m.tag BY DEF TagAfter
<1>4. NodesAfter(m, p) = WithText(m, p.s) BY DEF NodesAfter, WithText
<1> QED BY <1>1, <1>2, <1>3, <1>4, <1>5, AfterFields

LEMMA ClosePiece ==
    ASSUME NEW m, NEW p, p.k = "close"
    PROVE  /\ TextOf(p) = <<"<", "/">> \o p.name \o <<">">>
           /\ Becomes(m, p, IF Front(m.path) = <<>> THEN "end" ELSE "content", m.tag, m.nodes, Front(m.path))
<1>1. TextOf(p) = <<"<", "/">> \o p.name \o <<">">> BY DEF TextOf
<1>5. PathAfter(m, p) = Front(m.path) BY DEF PathAfter
<1>2. AtAfter(m, p) = IF Front(m.path) = <<>> THEN "end" ELSE "content" BY <1>5 DEF AtAfter, Outside
<1>3. TagAfter(m, p) = m.tag BY DEF TagAfter
<1>4. NodesAfter(m, p) = m.nodes BY DEF NodesAfter
<1> QED BY <1>1, <1>2, <1>3, <1>4, <1>5, AfterFields

LEMMA NameIs ==
    ASSUME NEW s, IsName(s) PROVE IsWords(s) /\ s # Null /\ IsSeq(s) /\ Len(s) > 0
<1>1. s \in Seq(Words) /\ s # <<>> BY DEF IsName
<1>2. IsSeq(s) BY <1>1 DEF IsSeq
<1>3. Len(s) \in Nat /\ Len(s) # 0 BY <1>1, <1>2, LenNat, EmptyLength
<1>4. \A i \in 1..Len(s) : s[i] \in Words BY <1>1
<1> QED BY <1>2, <1>3, <1>4 DEF IsWords, IsName

LEMMA StringIs ==
    ASSUME NEW s, IsString(s) PROVE IsSeq(s) /\ s # Null /\ Len(s) <= MAX_TOKEN_LEN
BY DEF IsString, IsSeq

\* What is allowed, kind by kind.
LEMMA PieceKinds ==
    ASSUME NEW m, NEW p, Allowed(m, p)
    PROVE  p.k \in {"header", "header_end", "comment", "tag", "attr", "open", "empty", "text", "close"}
BY DEF Allowed
LEMMA HeaderAllowed ==
    ASSUME NEW m, NEW p, Allowed(m, p), p.k = "header" PROVE m.at = "start"
BY DEF Allowed
LEMMA HeaderEndAllowed ==
    ASSUME NEW m, NEW p, Allowed(m, p), p.k = "header_end" PROVE m.at = "header" /\ p.gap \in Nat
BY DEF Allowed
LEMMA CommentAllowed ==
    ASSUME NEW m, NEW p, Allowed(m, p), p.k = "comment"
    PROVE  m.at \in {"start", "prolog", "content", "said"} /\ IsSeq(p.s) /\ IsBody(p.s)
<1>1. m.at \in {"start", "prolog", "content", "said"} /\ IsString(p.s)
  BY DEF Allowed
<1>2. \A i \in DOMAIN p.s : p.s[i] = "-" => i < Len(p.s) /\ p.s[i + 1] # "-" BY DEF Allowed
<1>3. IsSeq(p.s) BY <1>1, StringIs
<1>4. DOMAIN p.s = 1..Len(p.s) BY <1>3 DEF IsSeq
<1> QED BY <1>1, <1>2, <1>3, <1>4 DEF IsBody
LEMMA TagAllowed ==
    ASSUME NEW m, NEW p, Allowed(m, p), p.k = "tag"
    PROVE  /\ m.at \in {"start", "prolog", "content", "said"}
           /\ IsWords(p.name) /\ p.name # Null /\ IsSeq(p.name) /\ Len(p.name) > 0
           /\ Len(p.name) + 1 <= MAX_TAG_BUFFER
<1>1. /\ m.at \in {"start", "prolog", "content", "said"} /\ IsName(p.name)
      /\ Len(p.name) + 1 <= MAX_TAG_BUFFER
  BY DEF Allowed
<1> QED BY <1>1, NameIs
LEMMA AttrAllowed ==
    ASSUME NEW m, NEW p, Allowed(m, p), p.k = "attr"
    PROVE  /\ m.at \in {"header", "tag"} /\ Len(m.tag.attrs) + 1 < MAX_ATTRS
           /\ p.gap \in Nat /\ p.gap > 0
           /\ IsWords(p.name) /\ IsSeq(p.name) /\ p.name # Null /\ Len(p.name) > 0
           /\ IsSeq(p.value) /\ p.value # Null /\ Len(p.value) <= MAX_TOKEN_LEN
           /\ \A k \in 1..Len(p.value) : p.value[k] # Quote
<1>1. /\ m.at \in {"header", "tag"} /\ Len(m.tag.attrs) + 1 < MAX_ATTRS
      /\ p.gap \in Nat \ {0} /\ IsName(p.name) /\ IsString(p.value) /\ Quote \notin Range(p.value)
  BY DEF Allowed
<1>2. IsSeq(p.value) /\ p.value # Null /\ Len(p.value) <= MAX_TOKEN_LEN BY <1>1, StringIs
<1>3. \A k \in 1..Len(p.value) : p.value[k] # Quote BY <1>1, <1>2, RangeOf
<1> QED BY <1>1, <1>2, <1>3, NameIs
LEMMA TagEndAllowed ==
    ASSUME NEW m, NEW p, Allowed(m, p), p.k \in {"open", "empty"}
    PROVE  m.at = "tag" /\ p.gap \in Nat
BY DEF Allowed
LEMMA TextAllowed ==
    ASSUME NEW m, NEW p, Allowed(m, p), p.k = "text"
    PROVE  /\ \/ m.at = "content"
              \/ m.at \in {"start", "prolog"} /\ Blank(p.s)
           /\ IsSeq(p.s) /\ Len(p.s) \in Nat /\ Len(p.s) > 0
           /\ \A i \in 1..Len(p.s) : p.s[i] \notin {"&", "<"}
<1>1. \/ m.at = "content"
      \/ m.at \in {"start", "prolog"} /\ Blank(p.s)
  BY DEF Allowed
<1>2. IsString(p.s) /\ p.s # <<>> /\ Range(p.s) \cap {"<", "&"} = {} BY DEF Allowed
<1>3. IsSeq(p.s) BY <1>2, StringIs
<1>4. Len(p.s) \in Nat /\ Len(p.s) # 0 BY <1>2, <1>3, LenNat, EmptyLength
<1>5. \A i \in 1..Len(p.s) : p.s[i] \notin {"&", "<"} BY <1>2, <1>3, RangeOf
<1> QED BY <1>1, <1>3, <1>4, <1>5
LEMMA CloseAllowed ==
    ASSUME NEW m, NEW p, Allowed(m, p), p.k = "close"
    PROVE  m.at \in {"content", "said"} /\ IsWords(p.name) /\ IsSeq(p.name) /\ Len(p.name) > 0
<1>1. m.at \in {"content", "said"} /\ IsName(p.name) BY DEF Allowed
<1> QED BY <1>1, NameIs

LEMMA TextIsSeq ==
    ASSUME NEW m, NEW p, Allowed(m, p)
    PROVE  IsSeq(TextOf(p))
<1> USE ShortSeqs, ConcatSeq
<1>1. CASE p.k = "header" BY <1>1, HeaderPiece
<1>2. CASE p.k = "header_end"
  <2>1. TextOf(p) = Gap(p.gap) \o <<"?", ">">> BY <1>2 DEF TextOf
  <2>2. IsSeq(Gap(p.gap)) BY <1>2, HeaderEndAllowed, GapFacts
  <2> QED BY <2>1, <2>2
<1>3. CASE p.k = "comment"
  <2>1. IsSeq(p.s) BY <1>3, CommentAllowed
  <2>2. TextOf(p) = <<"<", "!", "-", "-">> \o p.s \o <<"-", "-", ">">> BY <1>3, CommentPiece
  <2>3. IsSeq(<<"<", "!", "-", "-">> \o p.s) BY <2>1
  <2> QED BY <2>2, <2>3
<1>4. CASE p.k = "tag"
  <2>1. IsSeq(p.name) BY <1>4, TagAllowed
  <2> QED BY <2>1, <1>4, TagPiece
<1>5. CASE p.k = "attr"
  <2>1. p.gap \in Nat /\ IsSeq(p.name) /\ IsSeq(p.value) BY <1>5, AttrAllowed
  <2>2. TextOf(p) = AttrText(p.gap, p.name, p.value) BY <1>5, AttrPiece
  <2> QED BY <2>1, <2>2, AttrLengths
<1>6. CASE p.k \in {"open", "empty"}
  <2>1. IsSeq(Gap(p.gap)) BY <1>6, TagEndAllowed, GapFacts
  <2>2. TextOf(p) = Gap(p.gap) \o <<">">> \/ TextOf(p) = Gap(p.gap) \o <<"/", ">">> BY <1>6 DEF TextOf
  <2> QED BY <2>1, <2>2
<1>7. CASE p.k = "text" BY <1>7, TextAllowed, TextPiece
<1>8. CASE p.k = "close"
  <2>1. IsSeq(p.name) BY <1>8, CloseAllowed
  <2>2. TextOf(p) = <<"<", "/">> \o p.name \o <<">">> BY <1>8, ClosePiece
  <2>3. IsSeq(<<"<", "/">> \o p.name) BY <2>1
  <2> QED BY <2>2, <2>3
<1> QED BY <1>1, <1>2, <1>3, <1>4, <1>5, <1>6, <1>7, <1>8, PieceKinds

\* Elements are open or not, as it must be where a reading is.
Order(m) ==
    /\ IsSeq(m.text) /\ IsSeq(m.path)
    /\ m.at \in {"start", "prolog", "header"} => m.nodes = <<>> /\ m.path = <<>>
    /\ m.at \in {"content", "said"} => m.path # <<>>
    /\ m.at = "tag" /\ m.path = <<>> => m.nodes = <<>>

LEMMA OrderBegins == Order(Begun)
BY EmptyIsSeq DEF Order, Begun

LEMMA AppendNotEmpty ==
    ASSUME NEW s, IsSeq(s), NEW x PROVE IsSeq(Append(s, x)) /\ Append(s, x) # <<>>
<1> DEFINE q == Append(s, x)
<1>1. IsSeq(q) /\ Len(q) = Len(s) + 1 /\ Len(s) \in Nat BY AppendFacts
<1> HIDE DEF q
<1>2. Len(q) # 0 BY <1>1
<1>3. q # <<>> BY <1>1, <1>2, EmptyLength
<1> QED BY <1>1, <1>3 DEF q

LEMMA OrderGoesOn ==
    ASSUME NEW m, NEW p, Order(m), Allowed(m, p)
    PROVE  Order(After(m, p))
<1> DEFINE q == After(m, p)
<1>1. IsSeq(m.text \o TextOf(p)) BY TextIsSeq, ConcatSeq DEF Order
<1>2. IsSeq(m.path) BY DEF Order
<1>3. CASE p.k = "header"
  <2>1. m.at = "start" BY <1>3, HeaderAllowed
  <2>2. Becomes(m, p, "header", m.tag, m.nodes, m.path) BY <1>3, HeaderPiece
  <2> QED BY <1>1, <2>1, <2>2 DEF Order, Becomes
<1>4. CASE p.k = "header_end"
  <2>1. m.at = "header" BY <1>4, HeaderEndAllowed
  <2>2. m.path = <<>> BY <2>1 DEF Order
  <2>3. Becomes(m, p, "prolog", m.tag, m.nodes, m.path) BY <1>4, <2>2, HeaderEndPiece
  <2> QED BY <1>1, <2>1, <2>3 DEF Order, Becomes
<1>5. CASE p.k = "comment"
  <2>1. m.at \in {"start", "prolog", "content", "said"} BY <1>5, CommentAllowed
  <2>2. Becomes(m, p, IF m.path = <<>> THEN "prolog" ELSE "content", m.tag, m.nodes, m.path)
    BY <1>5, CommentPiece
  <2> QED BY <1>1, <2>1, <2>2 DEF Order, Becomes
<1>6. CASE p.k = "tag"
  <2>1. m.at \in {"start", "prolog", "content", "said"} BY <1>6, TagAllowed
  <2>2. Becomes(m, p, "tag", TagRec(p.name, <<>>), m.nodes, m.path) BY <1>6, TagPiece
  <2> QED BY <1>1, <2>1, <2>2 DEF Order, Becomes
<1>7. CASE p.k = "attr"
  <2>1. m.at \in {"header", "tag"} BY <1>7, AttrAllowed
  <2>2. Becomes(m, p, m.at, [m.tag EXCEPT !.attrs = Append(@, OneAttr(p.name, p.value))], m.nodes, m.path)
    BY <1>7, AttrPiece
  <2> QED BY <1>1, <2>1, <2>2 DEF Order, Becomes
<1>8. CASE p.k = "open"
  <2>1. Becomes(m, p, "content", m.tag, Append(m.nodes, NewElem(m)), Append(m.path, Len(m.nodes) + 1))
    BY <1>8, <1>2, OpenPiece
  <2>2. IsSeq(Append(m.path, Len(m.nodes) + 1)) /\ Append(m.path, Len(m.nodes) + 1) # <<>>
    BY <1>2, AppendNotEmpty
  <2> QED BY <1>1, <2>1, <2>2 DEF Order, Becomes
<1>9. CASE p.k = "empty"
  <2>1. Becomes(m, p, IF m.path = <<>> THEN "end" ELSE "content", m.tag, Append(m.nodes, NewElem(m)), m.path)
    BY <1>9, EmptyPiece
  <2> QED BY <1>1, <1>2, <2>1 DEF Order, Becomes
<1>10. CASE p.k = "text"
  <2>1. Becomes(m, p, IF m.path = <<>> THEN "prolog" ELSE "said", m.tag, WithText(m, p.s), m.path)
    BY <1>10, TextPiece
  <2>2. \/ m.at = "content"
        \/ m.at \in {"start", "prolog"} /\ Blank(p.s) BY <1>10, TextAllowed
  <2>3. Blank(p.s) => WithText(m, p.s) = m.nodes BY DEF WithText
  <2> QED BY <1>1, <2>1, <2>2, <2>3 DEF Order, Becomes
<1>11. CASE p.k = "close"
  <2>1. Becomes(m, p, IF Front(m.path) = <<>> THEN "end" ELSE "content", m.tag, m.nodes, Front(m.path))
    BY <1>11, ClosePiece
  <2>2. m.at \in {"content", "said"} BY <1>11, CloseAllowed
  <2>3. m.path # <<>> BY <2>2 DEF Order
  <2>4. IsSeq(Front(m.path)) BY <1>2, <2>3, FrontIs
  <2> QED BY <1>1, <2>1, <2>4 DEF Order, Becomes
<1> QED BY <1>3, <1>4, <1>5, <1>6, <1>7, <1>8, <1>9, <1>10, <1>11, PieceKinds

\* Where a piece is shown.
LEMMA CommentIsShown ==
    ASSUME IsSeq(content), NEW q, NEW s, IsSeq(s), IsBody(s), Shows(q, CommentMark \o s \o EndMark)
    PROVE  /\ CommentShown(q, s) /\ AfterComment(q, s) = q + Len(CommentMark \o s \o EndMark)
           /\ q \in 1..Len(content) /\ content[q] = "<"
<1> DEFINE u == CommentMark \o s
<1>1. IsSeq(CommentMark) /\ Len(CommentMark) = 4 /\ IsSeq(EndMark) /\ Len(EndMark) = 3 BY Marked, EndMarked
<1>2. IsSeq(u) /\ Len(u) = 4 + Len(s) /\ Len(s) \in Nat BY <1>1, ConcatSeq, ConcatLen, LenNat
<1>3. Len(u \o EndMark) = Len(u) + 3
  <2> HIDE DEF u
  <2> QED BY <1>1, <1>2, ConcatLen
<1>4. Shows(q, u) /\ Shows(q + Len(u), EndMark)
  <2>1. Shows(q, u \o EndMark) OBVIOUS
  <2> HIDE DEF u
  <2> QED BY <2>1, <1>1, <1>2, ShowsParts
<1>5. Shows(q, CommentMark) /\ Shows(q + 4, s) BY <1>1, <1>4, ShowsParts
<1>6. q \in Nat \ {0} /\ q + 4 <= Len(content) + 1 /\ content[q] = "<" BY <1>5, CommentMarkShown
<1>7. q + Len(u) = q + 4 + Len(s) BY <1>2, <1>6
<1>8. q \in 1..Len(content)
  <2>1. Len(content) \in Nat BY LenNat
  <2> QED BY <2>1, <1>6
<1>9. CommentShown(q, s) BY <1>4, <1>5, <1>7 DEF CommentShown
<1>10. AfterComment(q, s) = q + Len(u \o EndMark)
  <2>1. q + (4 + Len(s) + 3) = q + 4 + Len(s) + 3 BY <1>2, <1>6
  <2> HIDE DEF u
  <2> QED BY <2>1, <1>2, <1>3 DEF AfterComment
<1> QED BY <1>6, <1>8, <1>9, <1>10

LEMMA TagIsShown ==
    ASSUME IsSeq(content), NEW q, NEW s, IsWords(s), IsSeq(s), Shows(q, <<"<">> \o s),
           q + Len(<<"<">> \o s) <= Len(content), content[q + Len(<<"<">> \o s)] \notin Words
    PROVE  /\ TagShown(q, s) /\ AfterTag(q, s) = q + Len(<<"<">> \o s)
           /\ q \in 1..Len(content) /\ content[q] = "<"
<1> DEFINE t == <<"<">>
<1>1. IsSeq(t) /\ Len(t) = 1 BY ShortSeqs
<1>2. Len(t \o s) = 1 + Len(s) /\ Len(s) \in Nat
  <2> HIDE DEF t
  <2> QED BY <1>1, ConcatLen, LenNat
<1>3. Shows(q, t) /\ Shows(q + 1, s)
  <2>1. Shows(q, t \o s) OBVIOUS
  <2> HIDE DEF t
  <2>2. Shows(q, t) /\ Shows(q + Len(t), s) BY <2>1, <1>1, ShowsParts
  <2> QED BY <2>2, <1>1
<1>4. q \in Nat \ {0} /\ q <= Len(content) /\ content[q] = "<" BY <1>3, OneShown
<1>5. q + (1 + Len(s)) = q + 1 + Len(s) BY <1>2, <1>4
<1>6. q \in 1..Len(content)
  <2>1. Len(content) \in Nat BY LenNat
  <2> QED BY <2>1, <1>4
<1> QED BY <1>2, <1>3, <1>4, <1>5, <1>6 DEF TagShown, AfterTag

LEMMA CloseIsShown ==
    ASSUME IsSeq(content), NEW q, NEW s, IsWords(s), IsSeq(s), Shows(q, CloseMark \o s \o <<">">>)
    PROVE  CloseShown(q, s) /\ AfterClose(q, s) = q + Len(CloseMark \o s \o <<">">>)
<1> DEFINE u == CloseMark \o s
           e == <<">">>
<1>1. IsSeq(CloseMark) /\ Len(CloseMark) = 2 /\ IsSeq(e) /\ Len(e) = 1 BY ShortSeqs DEF CloseMark
<1>2. IsSeq(u) /\ Len(u) = 2 + Len(s) /\ Len(s) \in Nat BY <1>1, ConcatSeq, ConcatLen, LenNat
<1>3. Len(u \o e) = Len(u) + 1
  <2> HIDE DEF u, e
  <2> QED BY <1>1, <1>2, ConcatLen
<1>4. Shows(q, u) /\ Shows(q + Len(u), e)
  <2>1. Shows(q, u \o e) OBVIOUS
  <2> HIDE DEF u, e
  <2> QED BY <2>1, <1>1, <1>2, ShowsParts
<1>5. Shows(q, CloseMark) /\ Shows(q + 2, s) BY <1>1, <1>4, ShowsParts
<1>6. q \in Nat \ {0} BY <1>5 DEF Shows
<1>7. q + Len(u) = q + 2 + Len(s) BY <1>2, <1>6
<1>8. q + 2 + Len(s) <= Len(content) /\ content[q + 2 + Len(s)] = ">" BY <1>4, <1>7, OneShown
<1>9. AfterClose(q, s) = q + Len(u \o e)
  <2>1. q + (2 + Len(s) + 1) = q + 2 + Len(s) + 1 BY <1>2, <1>6
  <2> HIDE DEF u, e
  <2> QED BY <2>1, <1>2, <1>3 DEF AfterClose
<1> QED BY <1>5, <1>8, <1>9 DEF CloseShown

\* What ends with blanks that wait.
LEMMA GapThen ==
    ASSUME IsSeq(content), NEW p, NEW g \in Nat, NEW s, IsSeq(s), Len(s) > 0, s[1] # Space,
           Shows(p, Gap(g) \o s)
    PROVE  /\ Blanks(p, g) /\ Shows(p + g, s) /\ p + Len(Gap(g) \o s) = p + g + Len(s)
<1>1. IsSeq(Gap(g)) /\ Len(Gap(g)) = g BY GapFacts
<1>2. Len(Gap(g) \o s) = g + Len(s) /\ Len(s) \in Nat BY <1>1, ConcatLen, LenNat
<1>3. Shows(p, Gap(g)) /\ Shows(p + g, s) BY <1>1, ShowsParts
<1>4. p \in Nat \ {0} /\ p + g + Len(s) <= Len(content) + 1 /\ Len(content) \in Nat BY <1>3, LenNat DEF Shows
<1>5. p + g <= Len(content) BY <1>2, <1>4
<1>6. content[p + g] = s[1]
  <2>1. 1 \in 1..Len(s) /\ p + g + 1 - 1 = p + g BY <1>2, <1>4
  <2> QED BY <2>1, <1>3 DEF Shows
<1>7. Blanks(p, g) BY <1>3, <1>5, <1>6, GapIsBlanks
<1> QED BY <1>2, <1>3, <1>4, <1>7

\* Blanks from p on that nothing has taken yet, and then q.
Pending(p, q) ==
    /\ p \in Nat \ {0} /\ q \in Nat /\ p <= q
    /\ \A k \in p..(q - 1) : content[k] = Space

LEMMA PendingNone == ASSUME NEW p \in Nat \ {0} PROVE Pending(p, p)
BY DEF Pending
LEMMA PendingBlanks ==
    ASSUME IsSeq(content), NEW p, NEW q, Pending(p, q), q <= Len(content), content[q] # Space
    PROVE  \E g : Blanks(p, g) /\ p + g = q /\ g \in Nat
<1> DEFINE g == q - p
<1>1. g \in Nat /\ p + g = q BY DEF Pending
<1>2. p + g - 1 = q - 1 BY <1>1 DEF Pending
<1>3. Blanks(p, g) BY <1>1, <1>2 DEF Blanks, Pending
<1> QED BY <1>1, <1>3

------------------------------------------------------------------------------
(* The parser goes along with a reading.                                   *)

\* Where it is when the reading has come to q.
ZoneAt(a, at, q, d, tag, c, w) ==
    /\ at = "start" => Before(a, 1, q, c, w)
    /\ at = "header" => InHeader(a, q, c, w)
    /\ at = "prolog" => \E p : Pending(p, q) /\ \E i \in {1, 2} : Before(a, i, p, c, w)
    /\ at = "tag" => /\ InATag(a, d, q, c, w) /\ TagIs(c, tag)
                     /\ tag = TagRec(tag.name, tag.attrs)
    /\ at = "content" => InText(a, d, q, c, w) \/ InMarkup(a, d, q, c, w)
    /\ at = "said" => \/ InText(a, d, q, c, w)
                      \/ \E p : Pending(p, q) /\ InMarkup(a, d, p, c, w)
    /\ at = "end" => Behind(a, q, c, w)

PlaceOf(m) == Len(m.text) + 1
ReadTo(a, m, c, w) ==
    /\ Slots(c) /\ Follows(w, m.nodes, m.path)
    /\ ZoneAt(a, m.at, PlaceOf(m), Len(m.path), m.tag, c, w)
HasRead(a, m) == \E c, w : ReadTo(a, m, c, w)

LEMMA ReadsOn ==
    ASSUME NEW a, NEW m, NEW p, IsSeq(m.text), IsSeq(TextOf(p)),
           NEW at, NEW tag, NEW nodes, NEW path, Becomes(m, p, at, tag, nodes, path),
           NEW c, NEW w, Slots(c), Follows(w, nodes, path),
           ZoneAt(a, at, PlaceOf(m) + Len(TextOf(p)), Len(path), tag, c, w)
    PROVE  HasRead(a, After(m, p))
<1> DEFINE q == After(m, p)
<1>1. /\ q.text = m.text \o TextOf(p) /\ q.at = at /\ q.tag = tag
      /\ q.nodes = nodes /\ q.path = path
  BY DEF Becomes
<1>2. Len(q.text) = Len(m.text) + Len(TextOf(p)) /\ Len(m.text) \in Nat /\ Len(TextOf(p)) \in Nat
  BY <1>1, ConcatLen, LenNat
<1>3. PlaceOf(q) = PlaceOf(m) + Len(TextOf(p)) BY <1>2 DEF PlaceOf
<1> HIDE DEF q
<1>4. ReadTo(a, q, c, w) BY <1>1, <1>3 DEF ReadTo
<1> QED BY <1>4 DEF q, HasRead

\* What is so before a piece is read: it is there, and the reading is in order.
IsNext(m, p) ==
    /\ Order(m) /\ Allowed(m, p) /\ IsSeq(m.text) /\ IsSeq(TextOf(p))
    /\ Shows(PlaceOf(m), TextOf(p))

LEMMA StartIsRead ==
    ASSUME NEW c, NEW w, NEW a, Slots(c), w = EmptyWalker, Before(a, 1, 1, c, w)
    PROVE  HasRead(a, Begun)
<1> DEFINE m == Begun
<1>1. m.text = <<>> /\ m.at = "start" /\ m.nodes = <<>> /\ m.path = <<>> BY DEF Begun
<1>2. PlaceOf(m) = 1 BY <1>1 DEF PlaceOf
<1> HIDE DEF m
<1>3. ZoneAt(a, m.at, PlaceOf(m), Len(m.path), m.tag, c, w) BY <1>1, <1>2 DEF ZoneAt
<1>4. Follows(w, m.nodes, m.path) BY <1>1, FollowsNothing
<1> QED BY <1>3, <1>4 DEF ReadTo, HasRead, m

LEMMA HeaderIsRead ==
    ASSUME IsSeq(content), NEW a, NEW m, NEW p, IsNext(m, p), NEW c, NEW w, ReadTo(a, m, c, w),
           p.k = "header"
    PROVE  HasRead(a, After(m, p))
<1> DEFINE q == PlaceOf(m)
           s == TextOf(p)
<1>1. m.at = "start" BY HeaderAllowed DEF IsNext
<1>2. s = HeaderMark /\ Becomes(m, p, "header", m.tag, m.nodes, m.path) BY HeaderPiece DEF HeaderMark
<1>3. Slots(c) /\ Follows(w, m.nodes, m.path) /\ Before(a, 1, q, c, w) BY <1>1 DEF ReadTo, ZoneAt
<1>4. Shows(q, HeaderMark) /\ IsSeq(m.text) /\ IsSeq(s) BY <1>2 DEF IsNext
<1>5. InHeader(a, q + 3, c, w) BY <1>3, <1>4, HeaderStarts
<1>6. Len(s) = 3 BY <1>2, Marked
<1> HIDE DEF q, s
<1>7. ZoneAt(a, "header", q + Len(s), Len(m.path), m.tag, c, w) BY <1>5, <1>6 DEF ZoneAt
<1> QED BY <1>2, <1>3, <1>4, <1>7, ReadsOn DEF q, s

LEMMA HeaderEndIsRead ==
    ASSUME IsSeq(content), NEW a, NEW m, NEW p, IsNext(m, p), NEW c, NEW w, ReadTo(a, m, c, w),
           p.k = "header_end"
    PROVE  HasRead(a, After(m, p))
<1> DEFINE q == PlaceOf(m)
           s == TextOf(p)
           g == p.gap
<1>1. m.at = "header" /\ g \in Nat BY HeaderEndAllowed DEF IsNext
<1>2. m.path = <<>> BY <1>1 DEF IsNext, Order
<1>3. s = Gap(g) \o HeaderTail /\ Becomes(m, p, "prolog", m.tag, m.nodes, m.path)
  BY <1>2, HeaderEndPiece DEF HeaderTail
<1>4. Slots(c) /\ Follows(w, m.nodes, m.path) /\ InHeader(a, q, c, w) BY <1>1 DEF ReadTo, ZoneAt
<1>5. IsSeq(HeaderTail) /\ Len(HeaderTail) = 2 /\ HeaderTail[1] = "?" BY ShortSeqs DEF HeaderTail
<1>6. Shows(q, s) /\ IsSeq(m.text) /\ IsSeq(s) BY DEF IsNext
<1> HIDE DEF q, s, g
<1>7. Blanks(q, g) /\ Shows(q + g, HeaderTail) /\ q + Len(s) = q + g + 2
  <2>1. Shows(q, Gap(g) \o HeaderTail) /\ Len(HeaderTail) > 0 /\ HeaderTail[1] # Space
    BY <1>3, <1>5, <1>6, NotSpace
  <2>2. /\ Blanks(q, g) /\ Shows(q + g, HeaderTail)
        /\ q + Len(Gap(g) \o HeaderTail) = q + g + Len(HeaderTail)
    BY <1>1, <1>5, <2>1, GapThen
  <2> QED BY <1>3, <1>5, <2>2
<1>8. Before(a, 2, q + g + 2, c, w) BY <1>4, <1>7, HeaderStops
<1>9. Pending(q + g + 2, q + Len(s))
  <2>1. q + g + 2 \in Nat \ {0} BY <1>7 DEF Blanks
  <2> QED BY <2>1, <1>7, PendingNone
<1>10. ZoneAt(a, "prolog", q + Len(s), Len(m.path), m.tag, c, w) BY <1>8, <1>9 DEF ZoneAt
<1> QED BY <1>3, <1>4, <1>6, <1>10, ReadsOn DEF q, s

\* Before the root,
PrologAt(a, q, c, w) == \E p, g : Blanks(p, g) /\ p + g = q /\ Before(a, 2, p, c, w)

LEMMA PrologReady ==
    ASSUME IsSeq(content), NEW a, NEW m, NEW c, NEW w, ReadTo(a, m, c, w), m.at \in {"start", "prolog"},
           NEW q, q = PlaceOf(m), q \in 1..Len(content), content[q] = "<", Differs(q, HeaderMark)
    PROVE  PrologAt(a, q, c, w)
<1>1. \E p : Pending(p, q) /\ \E i \in {1, 2} : Before(a, i, p, c, w)
  <2>1. CASE m.at = "start"
    <3>1. Before(a, 1, q, c, w) BY <2>1 DEF ReadTo, ZoneAt
    <3>2. Pending(q, q)
      <4>1. q \in Nat \ {0} OBVIOUS
      <4> QED BY <4>1, PendingNone
    <3> QED BY <3>1, <3>2
  <2>2. CASE m.at = "prolog" BY <2>2 DEF ReadTo, ZoneAt
  <2> QED BY <2>1, <2>2
<1>2. PICK p : Pending(p, q) /\ \E i \in {1, 2} : Before(a, i, p, c, w) BY <1>1
<1>3. q <= Len(content)
  <2>1. Len(content) \in Nat BY LenNat
  <2> QED BY <2>1
<1>4. content[q] # Space BY NotSpace
<1>5. PICK g : Blanks(p, g) /\ p + g = q /\ g \in Nat BY <1>2, <1>3, <1>4, PendingBlanks
<1>6. CASE Before(a, 2, p, c, w) BY <1>5, <1>6 DEF PrologAt
<1>7. CASE Before(a, 1, p, c, w)
  <2>1. Differs(p + g, HeaderMark) BY <1>5
  <2>2. Before(a, 2, p, c, w) BY <1>7, <1>5, <2>1, NoHeader
  <2> QED BY <2>2, <1>5 DEF PrologAt
<1> QED BY <1>2, <1>6, <1>7

\* and in an element.
RecourseAt(a, d, q, c, w) == \E p, g : Blanks(p, g) /\ p + g = q /\ InRecourse(a, d, p, c, w)

LEMMA RecourseReady ==
    ASSUME IsSeq(content), NEW a, NEW m, NEW c, NEW w, ReadTo(a, m, c, w), m.at \in {"content", "said"},
           NEW q, q = PlaceOf(m), q \in 1..Len(content), content[q] = "<"
    PROVE  RecourseAt(a, Len(m.path), q, c, w)
<1> DEFINE d == Len(m.path)
<1>1. q \in Nat \ {0} OBVIOUS
<1>2. q <= Len(content)
  <2>1. Len(content) \in Nat BY LenNat
  <2> QED BY <2>1
<1>3. content[q] # Space BY NotSpace
<1>4. Pending(q, q) BY <1>1, PendingNone
<1>5. \/ InText(a, d, q, c, w)
      \/ \E p : Pending(p, q) /\ InMarkup(a, d, p, c, w)
  <2>1. CASE m.at = "content" BY <2>1, <1>4 DEF ReadTo, ZoneAt
  <2>2. CASE m.at = "said" BY <2>2 DEF ReadTo, ZoneAt
  <2> QED BY <2>1, <2>2
<1> HIDE DEF d
<1>6. \E p : Pending(p, q) /\ InRecourse(a, d, p, c, w)
  <2>1. CASE InText(a, d, q, c, w)
    <3>1. InRecourse(a, d, q, c, w) BY <2>1, TextToRecourse
    <3> QED BY <3>1, <1>4
  <2>2. CASE \E p : Pending(p, q) /\ InMarkup(a, d, p, c, w)
    <3>1. PICK p : Pending(p, q) /\ InMarkup(a, d, p, c, w) BY <2>2
    <3>2. InRecourse(a, d, p, c, w) BY <3>1, MarkupToRecourse
    <3> QED BY <3>1, <3>2
  <2> QED BY <1>5, <2>1, <2>2
<1>7. PICK p : Pending(p, q) /\ InRecourse(a, d, p, c, w) BY <1>6
<1>8. PICK g : Blanks(p, g) /\ p + g = q /\ g \in Nat BY <1>7, <1>2, <1>3, PendingBlanks
<1>9. RecourseAt(a, d, q, c, w) BY <1>7, <1>8 DEF RecourseAt
<1> QED BY <1>9 DEF d

LEMMA CommentIsRead ==
    ASSUME IsSeq(content), NEW a, NEW m, NEW p, IsNext(m, p), NEW c, NEW w, ReadTo(a, m, c, w),
           p.k = "comment"
    PROVE  HasRead(a, After(m, p))
<1> DEFINE q == PlaceOf(m)
           s == TextOf(p)
           d == Len(m.path)
<1>1. m.at \in {"start", "prolog", "content", "said"} /\ IsSeq(p.s) /\ IsBody(p.s)
  BY CommentAllowed DEF IsNext
<1>2. /\ s = CommentMark \o p.s \o EndMark
      /\ Becomes(m, p, IF m.path = <<>> THEN "prolog" ELSE "content", m.tag, m.nodes, m.path)
  BY CommentPiece DEF CommentMark, EndMark
<1>3. Shows(q, s) /\ IsSeq(m.text) /\ IsSeq(s) /\ Order(m) BY DEF IsNext
<1>4. Slots(c) /\ Follows(w, m.nodes, m.path) BY DEF ReadTo
<1> HIDE DEF q, s, d
<1>5. /\ CommentShown(q, p.s) /\ AfterComment(q, p.s) = q + Len(s)
      /\ q \in 1..Len(content) /\ content[q] = "<"
  BY <1>1, <1>2, <1>3, CommentIsShown
<1>6. q \in Nat \ {0} /\ Len(s) \in Nat /\ q + Len(s) \in Nat \ {0}
  <2>1. Len(s) \in Nat BY <1>3, LenNat
  <2> QED BY <2>1, <1>5
<1>7. CASE m.at \in {"start", "prolog"}
  <2>1. m.path = <<>> BY <1>3, <1>7 DEF Order
  <2>2. Differs(q, HeaderMark) BY <1>5, CommentDiffersHeader
  <2>3. PrologAt(a, q, c, w) BY <1>5, <1>7, <2>2, PrologReady DEF q
  <2>4. PICK r, g : Blanks(r, g) /\ r + g = q /\ Before(a, 2, r, c, w) BY <2>3 DEF PrologAt
  <2>5. CommentShown(r + g, p.s) BY <1>5, <2>4
  <2>6. Before(a, 2, AfterComment(r + g, p.s), c, w) BY <2>4, <2>5, PrologComment
  <2>7. Before(a, 2, q + Len(s), c, w) BY <2>4, <2>6, <1>5
  <2>8. Pending(q + Len(s), q + Len(s)) BY <1>6, PendingNone
  <2>9. ZoneAt(a, "prolog", q + Len(s), Len(m.path), m.tag, c, w) BY <2>7, <2>8 DEF ZoneAt
  <2> QED BY <1>2, <1>3, <1>4, <2>1, <2>9, ReadsOn DEF q, s
<1>8. CASE m.at \in {"content", "said"}
  <2>1. m.path # <<>> BY <1>3, <1>8 DEF Order
  <2>3. RecourseAt(a, d, q, c, w) BY <1>5, <1>8, RecourseReady DEF q, d
  <2>4. PICK r, g : Blanks(r, g) /\ r + g = q /\ InRecourse(a, d, r, c, w) BY <2>3 DEF RecourseAt
  <2>5. CommentShown(r + g, p.s) BY <1>5, <2>4
  <2>6. InMarkup(a, d, AfterComment(r + g, p.s), do_tag_reset(c), w) BY <2>4, <2>5, ContentComment
  <2>7. InMarkup(a, d, q + Len(s), do_tag_reset(c), w) BY <2>4, <2>6, <1>5
  <2>8. Slots(do_tag_reset(c)) BY <1>4, ResetSlots
  <2>9. ZoneAt(a, "content", q + Len(s), Len(m.path), m.tag, do_tag_reset(c), w) BY <2>7 DEF ZoneAt, d
  <2> DEFINE e == do_tag_reset(c)
  <2> HIDE DEF e
  <2>10. Slots(e) /\ ZoneAt(a, "content", q + Len(s), Len(m.path), m.tag, e, w) BY <2>8, <2>9 DEF e
  <2>11. Becomes(m, p, "content", m.tag, m.nodes, m.path) BY <1>2, <2>1
  <2> QED BY <1>3, <1>4, <2>10, <2>11, ReadsOn DEF q, s
<1> QED BY <1>1, <1>7, <1>8

\* A tag, and what is behind its name.
LEMMA TagIsRead ==
    ASSUME IsSeq(content), NEW a, NEW m, NEW p, IsNext(m, p), NEW c, NEW w, ReadTo(a, m, c, w),
           p.k = "tag", PlaceOf(m) + Len(TextOf(p)) <= Len(content),
           content[PlaceOf(m) + Len(TextOf(p))] \notin Words
    PROVE  HasRead(a, After(m, p))
<1> DEFINE q == PlaceOf(m)
           s == TextOf(p)
           d == Len(m.path)
           n == p.name
           t == TagRec(n, <<>>)
           e == TagParsed(c, n)
<1>1. /\ m.at \in {"start", "prolog", "content", "said"} /\ IsWords(n) /\ IsSeq(n) /\ n # Null
      /\ Len(n) + 1 <= MAX_TAG_BUFFER
  BY TagAllowed DEF IsNext
<1>2. s = <<"<">> \o n /\ Becomes(m, p, "tag", t, m.nodes, m.path) BY TagPiece
<1>3. Shows(q, s) /\ IsSeq(m.text) /\ IsSeq(s) /\ Order(m) BY DEF IsNext
<1>4. Slots(c) /\ Follows(w, m.nodes, m.path) BY DEF ReadTo
<1>5. TagIs(e, t) BY <1>1, <1>4, TagStarts
<1>6. Slots(e) BY <1>5 DEF TagIs
<1>7. t = TagRec(t.name, t.attrs) BY DEF TagRec
<1>8. q + Len(s) <= Len(content) /\ content[q + Len(s)] \notin Words OBVIOUS
<1> HIDE DEF q, s, d, n, t, e
<1>9. /\ TagShown(q, n) /\ AfterTag(q, n) = q + Len(s)
      /\ q \in 1..Len(content) /\ content[q] = "<"
  BY <1>1, <1>2, <1>3, <1>8, TagIsShown
<1>10. InATag(a, d, q + Len(s), e, w)
  <2>1. CASE m.at \in {"start", "prolog"}
    <3>1. m.path = <<>> BY <1>3, <2>1 DEF Order
    <3>2. d = 0 BY <3>1 DEF d
    <3>3. Differs(q, HeaderMark) BY <1>9, TagDiffers
    <3>4. PrologAt(a, q, c, w) BY <1>9, <2>1, <3>3, PrologReady DEF q
    <3>5. PICK r, g : Blanks(r, g) /\ r + g = q /\ Before(a, 2, r, c, w) BY <3>4 DEF PrologAt
    <3>6. TagShown(r + g, n) BY <1>9, <3>5
    <3>7. InATag(a, 0, AfterTag(r + g, n), TagParsed(c, n), w) BY <3>5, <3>6, RootTag
    <3> QED BY <3>2, <3>5, <3>7, <1>9 DEF e
  <2>2. CASE m.at \in {"content", "said"}
    <3>1. RecourseAt(a, d, q, c, w) BY <1>9, <2>2, RecourseReady DEF q, d
    <3>2. PICK r, g : Blanks(r, g) /\ r + g = q /\ InRecourse(a, d, r, c, w) BY <3>1 DEF RecourseAt
    <3>3. TagShown(r + g, n) BY <1>9, <3>2
    <3>4. InATag(a, d, AfterTag(r + g, n), TagParsed(c, n), w) BY <3>2, <3>3, ContentTag
    <3> QED BY <3>2, <3>4, <1>9 DEF e
  <2> QED BY <1>1, <2>1, <2>2
<1>11. ZoneAt(a, "tag", q + Len(s), d, t, e, w) BY <1>5, <1>7, <1>10 DEF ZoneAt
<1>12. HasRead(a, After(m, p)) BY <1>2, <1>3, <1>4, <1>6, <1>11, ReadsOn DEF q, s, d
<1> QED BY <1>12

LEMMA AttrSlots ==
    ASSUME NEW c, Slots(c), NEW n, NEW v PROVE Slots(AttrParsed(c, n, v))
<1> DEFINE d == Parsed(c, "set_attr_name", n)
           e == Parsed(d, "set_attr_value", v)
           f == Parsed(e, "accept_attr", <<>>)
<1>1. Slots(d) BY SlotsKept
<1> HIDE DEF d
<1>2. Slots(e) BY <1>1, SlotsKept
<1> HIDE DEF e
<1>3. Slots(f) BY <1>2, SlotsKept
<1> HIDE DEF f
<1>4. AttrParsed(c, n, v) = f BY DEF AttrParsed, f, e, d
<1> QED BY <1>3, <1>4

\* An attribute
LEMMA AttrIsRead ==
    ASSUME IsSeq(content), NEW a, NEW m, NEW p, IsNext(m, p), NEW c, NEW w, ReadTo(a, m, c, w),
           p.k = "attr"
    PROVE  HasRead(a, After(m, p))
<1> DEFINE q == PlaceOf(m)
           s == TextOf(p)
           d == Len(m.path)
           g == p.gap
           n == p.name
           v == p.value
           t == m.tag
           u == [t EXCEPT !.attrs = Append(@, OneAttr(n, v))]
           e == AttrParsed(c, n, v)
<1>1. /\ m.at \in {"header", "tag"} /\ Len(t.attrs) + 1 < MAX_ATTRS
      /\ g \in Nat /\ IsWords(n) /\ IsSeq(n) /\ n # Null
      /\ IsSeq(v) /\ v # Null /\ Len(v) <= MAX_TOKEN_LEN /\ \A k \in 1..Len(v) : v[k] # Quote
  BY AttrAllowed DEF IsNext
<1>2. s = AttrText(g, n, v) /\ Becomes(m, p, m.at, u, m.nodes, m.path) BY AttrPiece
<1>3. Shows(q, s) /\ IsSeq(m.text) /\ IsSeq(s) /\ Order(m) BY DEF IsNext
<1>4. Slots(c) /\ Follows(w, m.nodes, m.path) BY DEF ReadTo
<1>5. m.at = "header" => InHeader(a, q, c, w) BY DEF ReadTo, ZoneAt
<1>6. m.at = "tag" => InATag(a, d, q, c, w) /\ TagIs(c, t) /\ t = TagRec(t.name, t.attrs)
  BY DEF ReadTo, ZoneAt
<1>7. Slots(e) BY <1>4, AttrSlots
<1> HIDE DEF q, s, d, g, n, v, t, u, e
<1>8. AttrShown(q, g, n, v) BY <1>1, <1>2, <1>3 DEF AttrShown
<1>9. AfterAttr(q, g, n, v) = q + Len(s) BY <1>2 DEF AfterAttr
<1>10. CASE m.at = "header"
  <2>1. InHeader(a, q + Len(s), e, w) BY <1>5, <1>8, <1>9, <1>10, HeaderAttr DEF e
  <2>2. ZoneAt(a, "header", q + Len(s), d, u, e, w) BY <2>1 DEF ZoneAt
  <2>3. HasRead(a, After(m, p)) BY <1>2, <1>3, <1>4, <1>7, <1>10, <2>2, ReadsOn DEF q, s, d
  <2> QED BY <2>3
<1>11. CASE m.at = "tag"
  <2>1. InATag(a, d, q + Len(s), e, w) BY <1>6, <1>8, <1>9, <1>11, TagAttr DEF e
  <2>2. u = TagRec(t.name, Append(t.attrs, OneAttr(n, v)))
    <3> DEFINE x == OneAttr(n, v)
    <3> HIDE DEF x
    <3>1. t = TagRec(t.name, t.attrs) BY <1>6, <1>11
    <3>2. u = [t EXCEPT !.attrs = Append(@, x)] BY DEF u, x
    <3>3. u = TagRec(t.name, Append(t.attrs, x)) BY <3>1, <3>2 DEF TagRec
    <3> QED BY <3>3 DEF x
  <2>3. TagIs(e, TagRec(t.name, Append(t.attrs, OneAttr(n, v))))
    BY <1>1, <1>6, <1>11, TagGoesOn DEF e
  <2>4. TagIs(e, u) BY <2>2, <2>3
  <2>5. u = TagRec(u.name, u.attrs) BY <2>2, TagRecIs
  <2>6. ZoneAt(a, "tag", q + Len(s), d, u, e, w) BY <2>1, <2>4, <2>5 DEF ZoneAt
  <2>7. HasRead(a, After(m, p)) BY <1>2, <1>3, <1>4, <1>7, <1>11, <2>6, ReadsOn DEF q, s, d
  <2> QED BY <2>7
<1> QED BY <1>1, <1>10, <1>11

\* The end of a tag
LEMMA OpenIsRead ==
    ASSUME IsSeq(content), NEW a, NEW m, NEW p, IsNext(m, p), NEW c, NEW w, ReadTo(a, m, c, w),
           p.k = "open"
    PROVE  HasRead(a, After(m, p))
<1> DEFINE q == PlaceOf(m)
           s == TextOf(p)
           d == Len(m.path)
           g == p.gap
           t == m.tag
           ms == Append(m.nodes, NewElem(m))
           path == Append(m.path, Len(m.nodes) + 1)
           e == TagOf(c)
           v == Started(w, c)
           o == <<">">>
<1>1. m.at = "tag" /\ g \in Nat BY TagEndAllowed DEF IsNext
<1>2. Shows(q, s) /\ IsSeq(m.text) /\ IsSeq(s) /\ Order(m) /\ IsSeq(m.path) BY DEF IsNext, Order
<1>3. s = Gap(g) \o o /\ Becomes(m, p, "content", t, ms, path) BY <1>2, OpenPiece
<1>4. Slots(c) /\ Follows(w, m.nodes, m.path) /\ InATag(a, d, q, c, w) /\ TagIs(c, t)
  BY <1>1 DEF ReadTo, ZoneAt
<1>5. m.path = <<>> => m.nodes = <<>> BY <1>1, <1>2 DEF Order
<1>6. Follows(v, ms, path) BY <1>4, <1>5, FollowsOpen DEF NewElem
<1>7. Slots(e)
  <2>1. \E x : x.name = t.name /\ x.attrs = t.attrs
    <3> WITNESS t
    <3> QED OBVIOUS
  <2> QED BY <2>1, <1>4, TagEnds
<1>8. Len(path) = d + 1 BY <1>2, AppendFacts
<1>9. IsSeq(o) /\ Len(o) = 1 /\ o[1] = ">" BY ShortSeqs
<1> HIDE DEF q, s, d, g, t, ms, path, e, v, o
<1>10. Blanks(q, g) /\ content[q + g] = ">" /\ q + Len(s) = q + g + 1
  <2>1. Shows(q, Gap(g) \o o) /\ Len(o) > 0 /\ o[1] # Space BY <1>2, <1>3, <1>9, NotSpace
  <2>2. Blanks(q, g) /\ Shows(q + g, o) /\ q + Len(Gap(g) \o o) = q + g + Len(o)
    BY <1>1, <1>9, <2>1, GapThen
  <2>3. content[q + g] = ">" BY <2>2, OneShown DEF o
  <2> QED BY <1>3, <1>9, <2>2, <2>3
<1>11. InText(a, d + 1, q + g + 1, e, v) BY <1>4, <1>10, ElementOpens DEF e, v
<1>12. ZoneAt(a, "content", q + Len(s), Len(path), t, e, v) BY <1>8, <1>10, <1>11 DEF ZoneAt
<1>13. HasRead(a, After(m, p)) BY <1>2, <1>3, <1>6, <1>7, <1>12, ReadsOn DEF q, s
<1> QED BY <1>13

\* that is one of an element too.
LEMMA BehindElement ==
    ASSUME NEW a, NEW d \in Nat, NEW q, NEW c, NEW w, AfterElement(a, d + 1, q, c, w), NEW tag,
           NEW at, at = IF d = 0 THEN "end" ELSE "content"
    PROVE  ZoneAt(a, at, q, d, tag, c, w)
<1>1. CASE d = 0
  <2>1. Behind(a, q, c, w) BY <1>1 DEF AfterElement
  <2> QED BY <1>1, <2>1 DEF ZoneAt
<1>2. CASE d # 0
  <2>1. d + 1 > 1 /\ ((d + 1) - 1) = d BY <1>2
  <2>2. InMarkup(a, d, q, c, w) BY <2>1 DEF AfterElement
  <2> QED BY <1>2, <2>2 DEF ZoneAt
<1> QED BY <1>1, <1>2

LEMMA EmptyIsRead ==
    ASSUME IsSeq(content), NEW a, NEW m, NEW p, IsNext(m, p), NEW c, NEW w, ReadTo(a, m, c, w),
           p.k = "empty"
    PROVE  HasRead(a, After(m, p))
<1> DEFINE q == PlaceOf(m)
           s == TextOf(p)
           d == Len(m.path)
           g == p.gap
           t == m.tag
           ms == Append(m.nodes, NewElem(m))
           e == TagOf(c)
           v == endElement(Started(w, c))
           at == IF m.path = <<>> THEN "end" ELSE "content"
<1>1. m.at = "tag" /\ g \in Nat BY TagEndAllowed DEF IsNext
<1>2. Shows(q, s) /\ IsSeq(m.text) /\ IsSeq(s) /\ Order(m) /\ IsSeq(m.path) BY DEF IsNext, Order
<1>3. s = Gap(g) \o EmptyMark /\ Becomes(m, p, at, t, ms, m.path) BY EmptyPiece DEF EmptyMark
<1>4. Slots(c) /\ Follows(w, m.nodes, m.path) /\ InATag(a, d, q, c, w) /\ TagIs(c, t)
  BY <1>1 DEF ReadTo, ZoneAt
<1>5. m.path = <<>> => m.nodes = <<>> BY <1>1, <1>2 DEF Order
<1>6. Follows(v, ms, m.path) BY <1>4, <1>5, FollowsEmpty DEF NewElem
<1>7. Slots(e)
  <2>1. \E x : x.name = t.name /\ x.attrs = t.attrs
    <3> WITNESS t
    <3> QED OBVIOUS
  <2> QED BY <2>1, <1>4, TagEnds
<1>8. d \in Nat /\ at = IF d = 0 THEN "end" ELSE "content" BY <1>2, LenNat, EmptyLength
<1>9. IsSeq(EmptyMark) /\ Len(EmptyMark) = 2 /\ EmptyMark[1] = "/" BY ShortSeqs DEF EmptyMark
<1> HIDE DEF q, s, d, g, t, ms, e, v, at
<1>10. Blanks(q, g) /\ Shows(q + g, EmptyMark) /\ q + Len(s) = q + g + 2
  <2>1. Shows(q, Gap(g) \o EmptyMark) /\ Len(EmptyMark) > 0 /\ EmptyMark[1] # Space
    BY <1>2, <1>3, <1>9, NotSpace
  <2>2. /\ Blanks(q, g) /\ Shows(q + g, EmptyMark)
        /\ q + Len(Gap(g) \o EmptyMark) = q + g + Len(EmptyMark)
    BY <1>1, <1>9, <2>1, GapThen
  <2> QED BY <1>3, <1>9, <2>2
<1>11. AfterElement(a, d + 1, q + g + 2, e, v) BY <1>4, <1>10, ElementIsEmpty DEF e, v
<1>12. AfterElement(a, d + 1, q + Len(s), e, v) BY <1>10, <1>11
<1>13. ZoneAt(a, at, q + Len(s), d, t, e, v) BY <1>8, <1>12, BehindElement
<1>14. HasRead(a, After(m, p)) BY <1>2, <1>3, <1>6, <1>7, <1>13, ReadsOn DEF q, s, d
<1> QED BY <1>14

LEMMA PendingMore ==
    ASSUME NEW p, NEW q, Pending(p, q), NEW s, IsSeq(s), Shows(q, s), Blank(s)
    PROVE  Pending(p, q + Len(s))
<1>1. Len(s) \in Nat BY LenNat
<1>2. p \in Nat \ {0} /\ q \in Nat /\ p <= q BY DEF Pending
<1>3. DOMAIN s = 1..Len(s) BY DEF IsSeq
<1>4. \A k \in p..((q + Len(s)) - 1) : content[k] = Space
  <2> SUFFICES ASSUME NEW k \in p..((q + Len(s)) - 1) PROVE content[k] = Space OBVIOUS
  <2>1. CASE k < q
    <3>1. k \in p..(q - 1) BY <1>1, <1>2, <2>1
    <3> QED BY <3>1 DEF Pending
  <2>2. CASE ~(k < q)
    <3>1. k - q + 1 \in 1..Len(s) /\ q + (k - q + 1) - 1 = k BY <1>1, <1>2, <2>2
    <3>2. content[q + (k - q + 1) - 1] = s[k - q + 1] BY <3>1 DEF Shows
    <3>3. s[k - q + 1] = Space BY <3>1, <1>3 DEF Blank
    <3> QED BY <3>1, <3>2, <3>3
  <2> QED BY <2>1, <2>2
<1>5. q + Len(s) \in Nat /\ p <= q + Len(s) BY <1>1, <1>2
<1> QED BY <1>2, <1>4, <1>5 DEF Pending

\* The first lexeme of a text that is no blank.
LEMMA TextBegins ==
    ASSUME IsSeq(content), NEW q, NEW s, IsSeq(s), Shows(q, s), ~Blank(s), \A i \in 1..Len(s) : s[i] # "<"
    PROVE  \E g : Blanks(q, g) /\ NoTag(q + g) /\ Differs(q + g, CommentMark)
<1> DEFINE T == {i \in 1..Len(s) : s[i] # Space}
<1>1. Len(s) \in Nat /\ Len(content) \in Nat BY LenNat
<1>2. DOMAIN s = 1..Len(s) BY DEF IsSeq
<1>3. T \in SUBSET Nat /\ T # {} BY <1>1, <1>2 DEF Blank
<1>4. PICK i \in T : \A y \in T : i <= y
  <2> HIDE DEF T
  <2> QED BY <1>3, LeastNat
<1>5. i \in 1..Len(s) /\ s[i] # Space /\ s[i] # "<" OBVIOUS
<1>6. \A j \in 1..Len(s) : j < i => s[j] = Space BY <1>1, <1>4, <1>5
<1> HIDE DEF T
<1>7. q \in Nat \ {0} /\ q + Len(s) <= Len(content) + 1 BY DEF Shows
<1> DEFINE g == i - 1
<1>8. g \in Nat /\ q + g <= Len(content) /\ q + i - 1 = q + g BY <1>1, <1>5, <1>7
<1>9. content[q + g] = s[i] BY <1>5, <1>8 DEF Shows
<1>10. \A k \in q..((q + g) - 1) : content[k] = Space
  <2> SUFFICES ASSUME NEW k \in q..((q + g) - 1) PROVE content[k] = Space OBVIOUS
  <2>1. k - q + 1 \in 1..Len(s) /\ q + (k - q + 1) - 1 = k /\ k - q + 1 < i BY <1>1, <1>5, <1>7
  <2>2. content[q + (k - q + 1) - 1] = s[k - q + 1] BY <2>1 DEF Shows
  <2> QED BY <2>1, <2>2, <1>6
<1> HIDE DEF g
<1>11. q + g - 1 = ((q + g) - 1) BY <1>7, <1>8
<1>12. Blanks(q, g) BY <1>5, <1>7, <1>8, <1>9, <1>10, <1>11 DEF Blanks
<1>13. NoTag(q + g) BY <1>5, <1>9 DEF NoTag
<1>14. Differs(q + g, CommentMark)
  <2>1. 1 \in 1..Len(CommentMark) /\ CommentMark[1] = "<" BY Marked
  <2>2. q + g + 1 - 1 = q + g BY <1>7, <1>8
  <2>3. q + g + 1 - 1 <= Len(content) /\ content[q + g + 1 - 1] # CommentMark[1]
    BY <2>1, <2>2, <1>5, <1>8, <1>9
  <2> QED BY <2>1, <2>3 DEF Differs
<1> QED BY <1>12, <1>13, <1>14

\* A text, which the next piece follows at once.
LEMMA SaidText ==
    ASSUME IsSeq(content), NEW a, NEW d, NEW q, NEW c, NEW w, InText(a, d, q, c, w),
           NEW s, IsSeq(s), Shows(q, s), Len(s) > 0, \A i \in 1..Len(s) : s[i] \notin {"&", "<"},
           q + Len(s) <= Len(content), content[q + Len(s)] = "<"
    PROVE  InText(a, d, q + Len(s), c, charDatahandler(w, s))
BY ContentText

LEMMA TextIsRead ==
    ASSUME IsSeq(content), NEW a, NEW m, NEW p, IsNext(m, p), NEW c, NEW w, ReadTo(a, m, c, w),
           p.k = "text",
           m.path # <<>> => /\ PlaceOf(m) + Len(TextOf(p)) <= Len(content)
                            /\ content[PlaceOf(m) + Len(TextOf(p))] = "<"
    PROVE  HasRead(a, After(m, p))
<1> DEFINE q == PlaceOf(m)
           s == p.s
           d == Len(m.path)
           ms == WithText(m, s)
<1>1. /\ \/ m.at = "content"
         \/ m.at \in {"start", "prolog"} /\ Blank(s)
      /\ IsSeq(s) /\ Len(s) \in Nat /\ Len(s) > 0
      /\ \A i \in 1..Len(s) : s[i] \notin {"&", "<"}
  BY TextAllowed DEF IsNext
<1>2. /\ TextOf(p) = s
      /\ Becomes(m, p, IF m.path = <<>> THEN "prolog" ELSE "said", m.tag, ms, m.path)
  BY TextPiece
<1>3. Shows(q, s) /\ IsSeq(m.text) /\ IsSeq(TextOf(p)) /\ Order(m) BY <1>2 DEF IsNext
<1>4. Slots(c) /\ Follows(w, m.nodes, m.path) BY DEF ReadTo
<1>5. Blank(s) => ms = m.nodes BY DEF WithText
<1>6. m.path # <<>> => q + Len(s) <= Len(content) /\ content[q + Len(s)] = "<" BY <1>2
<1>7. q \in Nat \ {0} BY <1>3 DEF Shows
<1>8. Pending(q, q) BY <1>7, PendingNone
<1>9. CASE m.at \in {"start", "prolog"}
  <2>1. m.path = <<>> /\ Blank(s) BY <1>1, <1>3, <1>9 DEF Order
  <2>2. \E r : Pending(r, q) /\ \E i \in {1, 2} : Before(a, i, r, c, w)
    <3>1. CASE m.at = "start"
      <4>1. Before(a, 1, q, c, w) BY <3>1 DEF ReadTo, ZoneAt
      <4> QED BY <4>1, <1>8
    <3>2. CASE m.at = "prolog" BY <3>2 DEF ReadTo, ZoneAt
    <3> QED BY <3>1, <3>2, <1>9
  <2> HIDE DEF q, s, d, ms
  <2>3. PICK r : Pending(r, q) /\ \E i \in {1, 2} : Before(a, i, r, c, w) BY <2>2
  <2>4. Pending(r, q + Len(s)) BY <2>1, <2>3, <1>1, <1>3, PendingMore
  <2>5. ZoneAt(a, "prolog", q + Len(s), d, m.tag, c, w) BY <2>3, <2>4 DEF ZoneAt
  <2>6. Follows(w, ms, m.path) BY <1>4, <1>5, <2>1
  <2>7. Becomes(m, p, "prolog", m.tag, ms, m.path) BY <1>2, <2>1
  <2>8. HasRead(a, After(m, p)) BY <1>2, <1>3, <1>4, <2>5, <2>6, <2>7, ReadsOn DEF q, d
  <2> QED BY <2>8
<1>10. CASE m.at = "content"
  <2>1. m.path # <<>> BY <1>3, <1>10 DEF Order
  <2>2. InText(a, d, q, c, w) \/ InMarkup(a, d, q, c, w) BY <1>10 DEF ReadTo, ZoneAt
  <2>3. Becomes(m, p, "said", m.tag, ms, m.path) BY <1>2, <2>1
  <2>4. ~Blank(s) => ms = [m.nodes EXCEPT ![Last(m.path)].data = @ \o s] BY DEF WithText
  <2> HIDE DEF q, s, d, ms
  <2>5. \A i \in 1..Len(s) : s[i] # "<" BY <1>1
  <2>6. CASE Blank(s) /\ InMarkup(a, d, q, c, w)
    <3>1. Pending(q, q + Len(s)) BY <1>1, <1>3, <1>8, <2>6, PendingMore
    <3>2. ZoneAt(a, "said", q + Len(s), d, m.tag, c, w) BY <2>6, <3>1 DEF ZoneAt
    <3>3. Follows(w, ms, m.path) BY <1>4, <1>5, <2>6
    <3>4. HasRead(a, After(m, p)) BY <1>2, <1>3, <1>4, <2>3, <3>2, <3>3, ReadsOn DEF q, d
    <3> QED BY <3>4
  <2>7. CASE ~Blank(s) \/ InText(a, d, q, c, w)
    <3>1. \E e \in {c, do_tag_reset(c)} : InText(a, d, q, e, w)
      <4>1. CASE InText(a, d, q, c, w) BY <4>1
      <4>2. CASE ~Blank(s) /\ InMarkup(a, d, q, c, w)
        <5>1. PICK g : Blanks(q, g) /\ NoTag(q + g) /\ Differs(q + g, CommentMark)
          BY <1>1, <1>3, <2>5, <4>2, TextBegins
        <5> QED BY <4>2, <5>1, MarkupToText
      <4> QED BY <2>2, <2>7, <4>1, <4>2
    <3>2. PICK e \in {c, do_tag_reset(c)} : InText(a, d, q, e, w) BY <3>1
    <3>3. Slots(e) BY <1>4, ResetSlots
    <3> DEFINE v == charDatahandler(w, s)
    <3>4. InText(a, d, q + Len(s), e, v) BY <1>1, <1>3, <1>6, <2>1, <3>2, SaidText
    <3>5. Follows(v, ms, m.path)
      <4>1. CASE Blank(s)
        <5>1. v = w BY <4>1 DEF charDatahandler
        <5> QED BY <4>1, <5>1, <1>4, <1>5
      <4>2. CASE ~Blank(s)
        <5> DEFINE ns == m.nodes
                   path == m.path
                   ks == [ns EXCEPT ![Last(path)].data = @ \o s]
        <5>1. IsSeq(s) /\ Follows(w, ns, path) /\ path # <<>> BY <1>1, <1>4, <2>1
        <5>2. ms = ks BY <4>2, <2>4
        <5> HIDE DEF ns, path
        <5>3. Follows(v, ks, path) BY <4>2, <5>1, FollowsText
        <5> HIDE DEF ks
        <5>4. Follows(v, ms, path) BY <5>2, <5>3
        <5> QED BY <5>4 DEF path
      <4> QED BY <4>1, <4>2
    <3> HIDE DEF v
    <3>6. ZoneAt(a, "said", q + Len(s), d, m.tag, e, v) BY <3>4 DEF ZoneAt
    <3>7. HasRead(a, After(m, p)) BY <1>2, <1>3, <2>3, <3>3, <3>5, <3>6, ReadsOn DEF q, d
    <3> QED BY <3>7
  <2> QED BY <2>2, <2>6, <2>7
<1> QED BY <1>1, <1>9, <1>10

\* The end of an element, after blanks or none.
LEMMA CloseReady ==
    ASSUME IsSeq(content), NEW a, NEW m, NEW c, NEW w, ReadTo(a, m, c, w), m.at \in {"content", "said"},
           NEW q, q = PlaceOf(m), Shows(q, CloseMark)
    PROVE  \E e \in {c, do_tag_reset(c)} : InText(a, Len(m.path), q, e, w)
<1> DEFINE d == Len(m.path)
<1>1. q \in Nat \ {0} /\ q \in 1..Len(content) /\ content[q] = "<"
  BY CloseMarkShown
<1>2. NoTag(q) /\ Differs(q, CommentMark)
  <2>1. NoTag(q + 0) /\ Differs(q + 0, CommentMark) BY CloseMarkShown
  <2>2. q + 0 = q BY <1>1
  <2> QED BY <2>1, <2>2
<1>3. Pending(q, q) BY <1>1, PendingNone
<1>4. \/ InText(a, d, q, c, w)
      \/ \E p : Pending(p, q) /\ InMarkup(a, d, p, c, w)
  <2>1. CASE m.at = "content" BY <2>1, <1>3 DEF ReadTo, ZoneAt
  <2>2. CASE m.at = "said" BY <2>2 DEF ReadTo, ZoneAt
  <2> QED BY <2>1, <2>2
<1> HIDE DEF d
<1>5. CASE InText(a, d, q, c, w) BY <1>5 DEF d
<1>6. CASE \E p : Pending(p, q) /\ InMarkup(a, d, p, c, w)
  <2>1. PICK p : Pending(p, q) /\ InMarkup(a, d, p, c, w) BY <1>6
  <2>2. q <= Len(content)
    <3>1. Len(content) \in Nat BY LenNat
    <3> QED BY <3>1, <1>1
  <2>3. content[q] # Space BY <1>1, NotSpace
  <2>4. PICK g : Blanks(p, g) /\ p + g = q /\ g \in Nat BY <2>1, <2>2, <2>3, PendingBlanks
  <2>5. NoTag(p + g) /\ Differs(p + g, CommentMark) BY <1>2, <2>4
  <2>6. PICK e \in {c, do_tag_reset(c)} : InText(a, d, p, e, w) BY <2>1, <2>4, <2>5, MarkupToText
  <2>7. CASE g = 0
    <3>1. p = q BY <2>1, <2>4, <2>7 DEF Pending
    <3> QED BY <2>6, <3>1 DEF d
  <2>8. CASE g # 0
    <3> DEFINE s == Gap(g)
    <3>1. IsSeq(s) /\ Len(s) = g /\ \A i \in 1..g : s[i] = Space BY <2>4, GapFacts
    <3> HIDE DEF s
    <3>2. Blank(s)
      <4>1. DOMAIN s = 1..Len(s) BY <3>1 DEF IsSeq
      <4> QED BY <3>1, <4>1 DEF Blank
    <3>3. p \in Nat \ {0} /\ p + g <= Len(content) /\ Len(content) \in Nat BY <2>4, LenNat DEF Blanks
    <3>4. Shows(p, s)
      <4>1. \A i \in 1..Len(s) : content[p + i - 1] = s[i]
        <5> SUFFICES ASSUME NEW i \in 1..Len(s) PROVE content[p + i - 1] = s[i] OBVIOUS
        <5>1. p + i - 1 \in p..(p + g - 1) BY <2>4, <3>1, <3>3
        <5>2. content[p + i - 1] = Space BY <2>4, <5>1 DEF Blanks
        <5> QED BY <3>1, <5>2
      <4>2. p + Len(s) <= Len(content) + 1 BY <2>4, <3>1, <3>3
      <4> QED BY <3>1, <3>3, <4>1, <4>2 DEF Shows
    <3>5. \A i \in 1..Len(s) : s[i] \notin {"&", "<"} BY <3>1, NotSpace
    <3>6. Len(s) > 0 /\ p + Len(s) <= Len(content) /\ content[p + Len(s)] = "<"
      BY <1>1, <2>2, <2>4, <2>8, <3>1
    <3>7. InText(a, d, p + Len(s), e, charDatahandler(w, s)) BY <2>6, <3>1, <3>4, <3>5, <3>6, SaidText
    <3>8. charDatahandler(w, s) = w BY <3>2 DEF charDatahandler
    <3> QED BY <2>4, <2>6, <3>1, <3>7, <3>8 DEF d
  <2> QED BY <2>7, <2>8
<1> QED BY <1>4, <1>5, <1>6

LEMMA CloseIsRead ==
    ASSUME IsSeq(content), NEW a, NEW m, NEW p, IsNext(m, p), NEW c, NEW w, ReadTo(a, m, c, w),
           p.k = "close"
    PROVE  HasRead(a, After(m, p))
<1> DEFINE q == PlaceOf(m)
           s == TextOf(p)
           n == p.name
           d == Len(m.path)
           path == Front(m.path)
           v == endElement(w)
           at == IF path = <<>> THEN "end" ELSE "content"
<1>1. m.at \in {"content", "said"} /\ IsWords(n) /\ IsSeq(n) BY CloseAllowed DEF IsNext
<1>2. Shows(q, s) /\ IsSeq(m.text) /\ IsSeq(s) /\ Order(m) /\ IsSeq(m.path) BY DEF IsNext, Order
<1>3. s = CloseMark \o n \o <<">">> /\ Becomes(m, p, at, m.tag, m.nodes, path)
  BY ClosePiece DEF CloseMark
<1>4. Slots(c) /\ Follows(w, m.nodes, m.path) BY DEF ReadTo
<1>5. m.path # <<>> BY <1>1, <1>2 DEF Order
<1>6. Follows(v, m.nodes, path) BY <1>4, <1>5, FollowsClose
<1>7. IsSeq(path) /\ Len(path) = d - 1 BY <1>2, <1>5, FrontIs
<1>8. d \in Nat \ {0} BY <1>2, <1>5, LenNat, EmptyLength
<1>9. at = IF Len(path) = 0 THEN "end" ELSE "content" BY <1>7, EmptyLength
<1> HIDE DEF s, n, path, v, at
<1>10. CloseShown(q, n) /\ AfterClose(q, n) = q + Len(s) BY <1>1, <1>2, <1>3, CloseIsShown
<1>11. Shows(q, CloseMark) BY <1>10 DEF CloseShown
<1>12. PICK e \in {c, do_tag_reset(c)} : InText(a, d, q, e, w) BY <1>1, <1>11, CloseReady
<1> HIDE DEF q, d
<1>13. PICK f \in {e, do_tag_reset(e)} :
           AfterElement(a, d, AfterClose(q, n), Parsed(f, "set_tag_name", n), endElement(w))
  BY <1>10, <1>12, ElementCloses
<1> DEFINE h == Parsed(f, "set_tag_name", n)
           k == Len(path)
<1>14. Slots(h)
  <2>1. Slots(e) BY <1>4, ResetSlots
  <2>2. Slots(f) BY <2>1, ResetSlots
  <2> QED BY <2>2, SlotsKept
<1>15. AfterElement(a, k + 1, q + Len(s), h, v)
  <2>1. k + 1 = d BY <1>7, <1>8
  <2> QED BY <2>1, <1>10, <1>13 DEF v
<1>16. k \in Nat BY <1>7, <1>8
<1> HIDE DEF h, k
<1>17. ZoneAt(a, at, q + Len(s), k, m.tag, h, v) BY <1>9, <1>15, <1>16, BehindElement DEF k
<1>18. HasRead(a, After(m, p)) BY <1>2, <1>3, <1>6, <1>14, <1>17, ReadsOn DEF q, s, k
<1> QED BY <1>18

\* What a piece begins with, where that matters to the one before it.
Ready(m) ==
    /\ m.at = "tag" => PlaceOf(m) <= Len(content) /\ content[PlaceOf(m)] \notin Words
    /\ m.at = "said" => PlaceOf(m) <= Len(content) /\ content[PlaceOf(m)] = "<"

LEMMA GapBegins ==
    ASSUME IsSeq(content), NEW q, NEW g \in Nat, NEW s, IsSeq(s), Len(s) > 0, s[1] \notin Words,
           Shows(q, Gap(g) \o s)
    PROVE  q <= Len(content) /\ content[q] \notin Words
<1>1. IsSeq(Gap(g)) /\ Len(Gap(g)) = g /\ \A i \in 1..g : Gap(g)[i] = Space BY GapFacts
<1>2. Shows(q, Gap(g)) /\ Shows(q + g, s) BY <1>1, ShowsParts
<1>3. q \in Nat \ {0} /\ q + g + Len(s) <= Len(content) + 1 BY <1>2 DEF Shows
<1>4. Len(s) \in Nat /\ Len(content) \in Nat BY LenNat
<1>5. q <= Len(content) BY <1>3, <1>4
<1>6. CASE g = 0
  <2>1. Shows(q, s) BY <1>2, <1>3, <1>6
  <2>2. 1 \in 1..Len(s) /\ q + 1 - 1 = q BY <1>3, <1>4
  <2>3. content[q] = s[1] BY <2>1, <2>2 DEF Shows
  <2> QED BY <1>5, <2>3
<1>7. CASE g # 0
  <2> DEFINE u == Gap(g)
  <2>1. Shows(q, u) /\ Len(u) = g /\ 1 \in 1..g /\ u[1] = Space BY <1>1, <1>2, <1>7
  <2> HIDE DEF u
  <2>2. q + 1 - 1 = q BY <1>3
  <2>3. content[q] = u[1] BY <2>1, <2>2 DEF Shows
  <2> QED BY <1>5, <2>1, <2>3, NotWords
<1> QED BY <1>6, <1>7

LEMMA NextReady ==
    ASSUME IsSeq(content), NEW m, NEW p, IsNext(m, p)
    PROVE  Ready(m)
<1> DEFINE q == PlaceOf(m)
           s == TextOf(p)
<1>1. Order(m) /\ Allowed(m, p) /\ IsSeq(s) /\ Shows(q, s) BY DEF IsNext
<1>2. Len(content) \in Nat BY LenNat
<1> HIDE DEF q
<1>3. CASE m.at = "tag"
  <2>1. p.k \in {"attr", "open", "empty"}
    BY <1>1, <1>3, PieceKinds, HeaderAllowed, HeaderEndAllowed, CommentAllowed, TagAllowed,
       TextAllowed, CloseAllowed
  <2>2. q <= Len(content) /\ content[q] \notin Words
    <3>1. CASE p.k = "attr"
      <4> DEFINE g == p.gap
                 n == p.name
                 v == p.value
      <4>1. g \in Nat /\ g > 0 /\ IsSeq(n) /\ IsSeq(v) BY <1>1, <3>1, AttrAllowed
      <4>2. s = AttrText(g, n, v) BY <3>1, AttrPiece
      <4> HIDE DEF g, n, v, s
      <4>3. Shows(q, Gap(g)) BY <4>1, <4>2, <1>1, AttrParts
      <4>4. IsSeq(Gap(g)) /\ Len(Gap(g)) = g /\ \A i \in 1..g : Gap(g)[i] = Space BY <4>1, GapFacts
      <4> DEFINE u == Gap(g)
      <4>5. Shows(q, u) /\ Len(u) = g /\ 1 \in 1..g /\ u[1] = Space BY <4>1, <4>3, <4>4
      <4> HIDE DEF u
      <4>6. q \in Nat \ {0} /\ q + g <= Len(content) + 1 BY <4>5 DEF Shows
      <4>7. q + 1 - 1 = q /\ q <= Len(content) BY <4>1, <4>6, <1>2
      <4>8. content[q] = u[1] BY <4>5, <4>7 DEF Shows
      <4> QED BY <4>5, <4>7, <4>8, NotWords
    <3>2. CASE p.k = "open"
      <4>1. p.gap \in Nat BY <1>1, <3>2, TagEndAllowed
      <4>2. s = Gap(p.gap) \o <<">">> BY <3>2 DEF TextOf
      <4> DEFINE t == <<">">>
      <4>3. IsSeq(t) /\ Len(t) > 0 /\ t[1] \notin Words BY ShortSeqs, NotWords
      <4>4. Shows(q, Gap(p.gap) \o t) BY <1>1, <4>2
      <4> HIDE DEF t
      <4> QED BY <4>1, <4>3, <4>4, GapBegins
    <3>3. CASE p.k = "empty"
      <4>1. p.gap \in Nat BY <1>1, <3>3, TagEndAllowed
      <4>2. s = Gap(p.gap) \o <<"/", ">">> BY <3>3 DEF TextOf
      <4> DEFINE t == <<"/", ">">>
      <4>3. IsSeq(t) /\ Len(t) > 0 /\ t[1] \notin Words BY ShortSeqs, NotWords
      <4>4. Shows(q, Gap(p.gap) \o t) BY <1>1, <4>2
      <4> HIDE DEF t
      <4> QED BY <4>1, <4>3, <4>4, GapBegins
    <3> QED BY <2>1, <3>1, <3>2, <3>3
  <2> QED BY <1>3, <2>2 DEF Ready, q
<1>4. CASE m.at = "said"
  <2>1. p.k \in {"comment", "tag", "close"}
    BY <1>1, <1>4, PieceKinds, HeaderAllowed, HeaderEndAllowed, AttrAllowed, TagEndAllowed, TextAllowed
  <2>2. q \in 1..Len(content) /\ content[q] = "<"
    <3>1. CASE p.k = "comment"
      <4>1. IsSeq(p.s) /\ IsBody(p.s) BY <1>1, <3>1, CommentAllowed
      <4>2. s = CommentMark \o p.s \o EndMark BY <3>1, CommentPiece DEF CommentMark, EndMark
      <4>3. Shows(q, CommentMark \o p.s \o EndMark) BY <1>1, <4>2
      <4> QED BY <4>1, <4>3, CommentIsShown
    <3>2. CASE p.k = "tag"
      <4> DEFINE t == <<"<">>
      <4>1. IsSeq(p.name) /\ s = t \o p.name BY <1>1, <3>2, TagAllowed, TagPiece
      <4>2. IsSeq(t) BY ShortSeqs
      <4>3. Shows(q, t \o p.name) BY <1>1, <4>1
      <4>4. Shows(q, t)
        <5> HIDE DEF t
        <5> QED BY <4>1, <4>2, <4>3, ShowsParts
      <4> QED BY <4>4, <1>2, OneShown
    <3>3. CASE p.k = "close"
      <4>1. IsWords(p.name) /\ IsSeq(p.name) BY <1>1, <3>3, CloseAllowed
      <4>2. s = CloseMark \o p.name \o <<">">> BY <3>3, ClosePiece DEF CloseMark
      <4>3. Shows(q, CloseMark \o p.name \o <<">">>) BY <1>1, <4>2
      <4>4. CloseShown(q, p.name) BY <4>1, <4>3, CloseIsShown
      <4>5. Shows(q, CloseMark) BY <4>4 DEF CloseShown
      <4> QED BY <4>5, CloseMarkShown
    <3> QED BY <2>1, <3>1, <3>2, <3>3
  <2>3. q <= Len(content) BY <2>2, <1>2
  <2> QED BY <1>4, <2>2, <2>3 DEF Ready, q
<1> QED BY <1>3, <1>4 DEF Ready

LEMMA PlaceAfter ==
    ASSUME NEW m, NEW p, IsNext(m, p)
    PROVE  PlaceOf(After(m, p)) = PlaceOf(m) + Len(TextOf(p))
<1>1. IsSeq(m.text) /\ IsSeq(TextOf(p)) BY DEF IsNext
<1>2. After(m, p).text = m.text \o TextOf(p) BY DEF After
<1>3. /\ Len(m.text \o TextOf(p)) = Len(m.text) + Len(TextOf(p))
      /\ Len(m.text) \in Nat /\ Len(TextOf(p)) \in Nat
  BY <1>1, ConcatLen, LenNat
<1> QED BY <1>2, <1>3 DEF PlaceOf

\* A piece is read.
LEMMA PieceIsRead ==
    ASSUME IsSeq(content), NEW a, NEW m, NEW p, IsNext(m, p), HasRead(a, m), Ready(After(m, p))
    PROVE  HasRead(a, After(m, p))
<1> DEFINE q == PlaceOf(m)
           s == TextOf(p)
           n == After(m, p)
<1>1. PICK c, w : ReadTo(a, m, c, w) BY DEF HasRead
<1>2. PlaceOf(n) = q + Len(s) BY PlaceAfter
<1>3. Allowed(m, p) /\ Order(m) BY DEF IsNext
<1>4. CASE p.k = "header" BY <1>1, <1>4, HeaderIsRead
<1>5. CASE p.k = "header_end" BY <1>1, <1>5, HeaderEndIsRead
<1>6. CASE p.k = "comment" BY <1>1, <1>6, CommentIsRead
<1>7. CASE p.k = "tag"
  <2>1. n.at = "tag" BY <1>7, TagPiece DEF Becomes
  <2>2. q + Len(s) <= Len(content) /\ content[q + Len(s)] \notin Words BY <2>1, <1>2 DEF Ready
  <2> QED BY <1>1, <1>7, <2>2, TagIsRead
<1>8. CASE p.k = "attr" BY <1>1, <1>8, AttrIsRead
<1>9. CASE p.k = "open" BY <1>1, <1>9, OpenIsRead
<1>10. CASE p.k = "empty" BY <1>1, <1>10, EmptyIsRead
<1>11. CASE p.k = "text"
  <2>1. m.path # <<>> => n.at = "said" BY <1>11, TextPiece DEF Becomes
  <2>2. m.path # <<>> => q + Len(s) <= Len(content) /\ content[q + Len(s)] = "<"
    BY <2>1, <1>2 DEF Ready
  <2> QED BY <1>1, <1>11, <2>2, TextIsRead
<1>12. CASE p.k = "close" BY <1>1, <1>12, CloseIsRead
<1> QED BY <1>3, <1>4, <1>5, <1>6, <1>7, <1>8, <1>9, <1>10, <1>11, <1>12, PieceKinds

------------------------------------------------------------------------------
(* A whole reading.                                                        *)

LEMMA AfterText ==
    ASSUME NEW m, NEW p
    PROVE  After(m, p).text = m.text \o TextOf(p)
BY DEF After

\* A reading, piece by piece: it is in order,
LEMMA ReadingInOrder ==
    ASSUME NEW ps, NEW n \in Nat, NEW m, IsReading(ps, n, m)
    PROVE  \A k \in Nat : k <= n => Order(m[k])
<1> DEFINE S == {k \in Nat : k <= n => Order(m[k])}
<1>1. 0 \in S
  <2>1. m[0] = Begun BY DEF IsReading
  <2>2. Order(m[0]) BY <2>1, OrderBegins
  <2> QED BY <2>2
<1>2. \A k \in Nat : k \in S => k + 1 \in S
  <2> SUFFICES ASSUME NEW k \in Nat, k \in S, k + 1 <= n PROVE Order(m[k + 1]) OBVIOUS
  <2>1. k + 1 \in 1..n /\ (k + 1) - 1 = k /\ k <= n OBVIOUS
  <2>2. Allowed(m[(k + 1) - 1], ps[k + 1]) /\ m[k + 1] = After(m[(k + 1) - 1], ps[k + 1])
    BY <2>1 DEF IsReading
  <2>3. Order(m[k]) BY <2>1
  <2>4. Allowed(m[k], ps[k + 1]) /\ m[k + 1] = After(m[k], ps[k + 1]) BY <2>1, <2>2
  <2> QED BY <2>3, <2>4, OrderGoesOn
<1> HIDE DEF S
<1>3. \A k \in Nat : k \in S BY <1>1, <1>2, EveryNumber
<1> QED BY <1>3 DEF S

\* all its texts are there,
LEMMA ReadingIsShown ==
    ASSUME NEW ps, NEW n \in Nat, NEW m, IsReading(ps, n, m), Shows(1, m[n].text)
    PROVE  \A k \in Nat : k <= n => Shows(1, m[k].text)
<1> DEFINE S == {j \in Nat : j <= n => Shows(1, m[n - j].text)}
<1>1. 0 \in S
  <2>1. n - 0 = n OBVIOUS
  <2> QED BY <2>1
<1>2. \A j \in Nat : j \in S => j + 1 \in S
  <2> SUFFICES ASSUME NEW j \in Nat, j \in S, j + 1 <= n PROVE Shows(1, m[n - (j + 1)].text) OBVIOUS
  <2> DEFINE k == n - j
  <2>1. k \in 1..n /\ k - 1 = n - (j + 1) /\ j <= n /\ k - 1 \in Nat /\ k - 1 <= n OBVIOUS
  <2>2. Shows(1, m[k].text) BY <2>1
  <2> HIDE DEF k
  <2>3. Allowed(m[k - 1], ps[k]) /\ m[k] = After(m[k - 1], ps[k]) BY <2>1 DEF IsReading
  <2>4. m[k].text = m[k - 1].text \o TextOf(ps[k])
    <3>1. After(m[k - 1], ps[k]).text = m[k - 1].text \o TextOf(ps[k]) BY AfterText
    <3> QED BY <2>3, <3>1
  <2>5. IsSeq(m[k - 1].text)
    <3>1. Order(m[k - 1]) BY <2>1, ReadingInOrder
    <3> QED BY <3>1 DEF Order
  <2>6. IsSeq(TextOf(ps[k])) BY <2>3, TextIsSeq
  <2>7. Shows(1, m[k - 1].text) BY <2>2, <2>4, <2>5, <2>6, ShowsParts
  <2> QED BY <2>1, <2>7
<1> HIDE DEF S
<1>3. \A j \in Nat : j \in S BY <1>1, <1>2, EveryNumber
<1>4. ASSUME NEW k \in Nat, k <= n PROVE Shows(1, m[k].text)
  <2>1. n - k \in Nat /\ n - k <= n /\ n - (n - k) = k BY <1>4
  <2>2. n - k \in S BY <1>3, <2>1
  <2>3. Shows(1, m[n - (n - k)].text) BY <2>1, <2>2 DEF S
  <2> QED BY <2>1, <2>3
<1> QED BY <1>4

LEMMA ReadingIsNext ==
    ASSUME NEW ps, NEW n \in Nat, NEW m, IsReading(ps, n, m), Shows(1, m[n].text),
           NEW k \in Nat, k + 1 <= n
    PROVE  IsNext(m[k], ps[k + 1]) /\ m[k + 1] = After(m[k], ps[k + 1])
<1>1. k + 1 \in 1..n /\ (k + 1) - 1 = k /\ k <= n /\ k + 1 \in Nat OBVIOUS
<1>2. Allowed(m[(k + 1) - 1], ps[k + 1]) /\ m[k + 1] = After(m[(k + 1) - 1], ps[k + 1])
  BY <1>1 DEF IsReading
<1>3. Allowed(m[k], ps[k + 1]) /\ m[k + 1] = After(m[k], ps[k + 1]) BY <1>1, <1>2
<1>4. Order(m[k]) BY <1>1, ReadingInOrder
<1>5. IsSeq(m[k].text) BY <1>4 DEF Order
<1>6. IsSeq(TextOf(ps[k + 1])) BY <1>3, TextIsSeq
<1>7. Shows(1, m[k + 1].text) BY <1>1, ReadingIsShown
<1>8. m[k + 1].text = m[k].text \o TextOf(ps[k + 1])
  <2>1. After(m[k], ps[k + 1]).text = m[k].text \o TextOf(ps[k + 1]) BY AfterText
  <2> QED BY <1>3, <2>1
<1>9. Shows(1 + Len(m[k].text), TextOf(ps[k + 1]))
  <2> DEFINE s == m[k].text
             t == TextOf(ps[k + 1])
  <2>1. IsSeq(s) /\ IsSeq(t) /\ Shows(1, s \o t) BY <1>5, <1>6, <1>7, <1>8
  <2> HIDE DEF s, t
  <2>2. Shows(1 + Len(s), t) BY <2>1, ShowsParts
  <2> QED BY <2>2 DEF s, t
<1>10. 1 + Len(m[k].text) = PlaceOf(m[k])
  <2>1. Len(m[k].text) \in Nat BY <1>5, LenNat
  <2> QED BY <2>1 DEF PlaceOf
<1> QED BY <1>3, <1>4, <1>5, <1>6, <1>9, <1>10 DEF IsNext

\* and the parser goes along with it.
LEMMA ReadingIsRead ==
    ASSUME IsSeq(content), NEW ps, NEW n \in Nat, NEW m, IsReading(ps, n, m), Shows(1, m[n].text),
           NEW a, HasRead(a, Begun)
    PROVE  HasRead(a, m[n])
<1> DEFINE S == {k \in Nat : k <= n => HasRead(a, m[k])}
<1>1. 0 \in S
  <2>1. m[0] = Begun BY DEF IsReading
  <2>2. HasRead(a, m[0]) BY <2>1
  <2> QED BY <2>2
<1>2. \A k \in Nat : k \in S => k + 1 \in S
  <2> SUFFICES ASSUME NEW k \in Nat, k \in S, k + 1 <= n PROVE HasRead(a, m[k + 1]) OBVIOUS
  <2>1. k <= n /\ k + 1 \in Nat OBVIOUS
  <2>2. HasRead(a, m[k]) BY <2>1
  <2>3. IsNext(m[k], ps[k + 1]) /\ m[k + 1] = After(m[k], ps[k + 1]) BY ReadingIsNext
  <2>4. Ready(m[k + 1])
    <3>1. CASE k + 1 = n
      <4>1. m[k + 1].at = "end" BY <3>1 DEF IsReading
      <4> QED BY <4>1 DEF Ready
    <3>2. CASE k + 1 # n
      <4> DEFINE j == k + 1
      <4>1. j \in Nat /\ j + 1 <= n BY <2>1, <3>2
      <4> HIDE DEF j
      <4>2. IsNext(m[j], ps[j + 1]) BY <4>1, ReadingIsNext
      <4>3. Ready(m[j]) BY <4>2, NextReady
      <4> QED BY <4>3 DEF j
    <3> QED BY <3>1, <3>2
  <2> HIDE DEF S
  <2>5. Ready(After(m[k], ps[k + 1])) BY <2>3, <2>4
  <2>6. HasRead(a, After(m[k], ps[k + 1])) BY <2>2, <2>3, <2>5, PieceIsRead
  <2> QED BY <2>3, <2>6
<1> HIDE DEF S
<1>3. \A k \in Nat : k \in S BY <1>1, <1>2, EveryNumber
<1>4. n \in S BY <1>3
<1> QED BY <1>4 DEF S

\* What the parser comes to: the end of the document's line, and its nodes.
Mirrors(w, ns) ==
    /\ DOMAIN w.nodes = 1..Len(ns) /\ Len(w.nodes) = Len(ns)
    /\ \A i \in 1..Len(ns) : Content(w.nodes[i]) = Kept(ns[i])
Finished(d, ns) ==
    \E q, s, c, w : d = On(<<>>, At("rule_xml_document", 4, 0, q, "yes", s), c, w) /\ Mirrors(w, ns)

LEMMA FollowsMirrors ==
    ASSUME NEW w, NEW ns, NEW path, Follows(w, ns, path)
    PROVE  Mirrors(w, ns)
<1>1. /\ Fine(w) /\ Len(w.nodes) = Len(ns)
      /\ \A i \in 1..Len(ns) : IsElem(ns[i]) /\ Says(w.nodes[i], ns[i])
  BY DEF Follows
<1>2. IsSeq(w.nodes) BY <1>1, FieldsKept
<1>3. DOMAIN w.nodes = 1..Len(w.nodes) BY <1>2 DEF IsSeq
<1> QED BY <1>1, <1>3, SaysKept DEF Mirrors

FirstCall == Call("rule_xml_document", 1)
WholeReads ==
    IsSeq(content) => \A ps, n, m, rest, c :
        n \in Nat /\ IsReading(ps, n, m) /\ IsSeq(rest) /\ Shows(1, m[n].text \o rest) /\ Slots(c) =>
            \E d : Reaches(On(<<>>, FirstCall, c, EmptyWalker), d) /\ Finished(d, m[n].nodes)

LEMMA WholeIsRead == WholeReads
<1> SUFFICES ASSUME IsSeq(content), NEW ps, NEW n, NEW m, NEW rest, NEW c, n \in Nat,
                    IsReading(ps, n, m), IsSeq(rest), Shows(1, m[n].text \o rest), Slots(c)
             PROVE  \E d : Reaches(On(<<>>, FirstCall, c, EmptyWalker), d) /\ Finished(d, m[n].nodes)
  BY DEF WholeReads
<1>0. Shows(1, m[n].text)
  <2> DEFINE s == m[n].text
  <2>1. Order(m[n]) BY ReadingInOrder
  <2>2. IsSeq(s) BY <2>1 DEF Order
  <2>3. Shows(1, s \o rest) OBVIOUS
  <2> HIDE DEF s
  <2>4. Shows(1, s) BY <2>2, <2>3, ShowsParts
  <2> QED BY <2>4 DEF s
<1> DEFINE a == On(<<>>, FirstCall, c, EmptyWalker)
<1>1. a = On(<<>>, At("rule_xml_document", 1, 0, 1, "no", "no"), c, EmptyWalker)
  BY CallAt DEF FirstCall
<1> HIDE DEF a
<1>2. Reaches(a, a) BY ReachesSelf
<1>3. Reaches(a, On(<<>>, At("rule_xml_document", 1, 0, 1, "no", "no"), c, EmptyWalker)) BY <1>1, <1>2
<1>4. Before(a, 1, 1, c, EmptyWalker) BY <1>3 DEF Before
<1>5. HasRead(a, Begun) BY <1>4, StartIsRead
<1>6. HasRead(a, m[n]) BY <1>0, <1>5, ReadingIsRead
<1>7. PICK e, w : ReadTo(a, m[n], e, w) BY <1>6 DEF HasRead
<1>8. m[n].at = "end" BY DEF IsReading
<1>9. Behind(a, PlaceOf(m[n]), e, w) /\ Follows(w, m[n].nodes, m[n].path) BY <1>7, <1>8 DEF ReadTo, ZoneAt
<1>10. PICK s : Reaches(a, On(<<>>, At("rule_xml_document", 4, 0, PlaceOf(m[n]), "yes", s), e, w))
  BY <1>9 DEF Behind
<1>11. Mirrors(w, m[n].nodes) BY <1>9, FollowsMirrors
<1>12. Finished(On(<<>>, At("rule_xml_document", 4, 0, PlaceOf(m[n]), "yes", s), e, w), m[n].nodes)
  BY <1>11 DEF Finished
<1> QED BY <1>10, <1>12 DEF a

------------------------------------------------------------------------------
(* The invariant, and what it comes to.                                    *)

\* The stack of calls stays one, and empties only at the end.
LEMMA OneMoreCall ==
    ASSUME NEW s, IsSeq(s), NEW x
    PROVE  IsSeq(Append(s, x)) /\ Append(s, x) # <<>>
<1>1. IsSeq(Append(s, x)) /\ Len(s) \in Nat /\ Len(Append(s, x)) = Len(s) + 1 BY AppendFacts
<1>2. Len(Append(s, x)) # 0 BY <1>1
<1> QED BY <1>1, <1>2, EmptyLength

LEMMA OtherCalls ==
    ASSUME NEW s, IsSeq(s), NEW t, IsSeq(t), Len(t) \in Nat \ {0}
    PROVE  IsSeq(s \o t) /\ s \o t # <<>>
<1>1. IsSeq(s \o t) /\ Len(s \o t) = Len(s) + Len(t) /\ Len(s) \in Nat
  BY ConcatSeq, ConcatLen, LenNat
<1>2. Len(s \o t) # 0 BY <1>1
<1> QED BY <1>1, <1>2, EmptyLength

LEMMA OneCall == ASSUME NEW x PROVE IsSeq(<<x>>) /\ Len(<<x>>) = 1
<1>1. <<x>> \in Seq({x}) OBVIOUS
<1> QED BY <1>1 DEF IsSeq
LEMMA TwoCalls == ASSUME NEW x, NEW y PROVE IsSeq(<<x, y>>) /\ Len(<<x, y>>) = 2
<1>1. <<x, y>> \in Seq({x, y}) OBVIOUS
<1> QED BY <1>1 DEF IsSeq

LEMMA StackStays ==
    ASSUME IsSeq(stack), stack # <<>>, Step
    PROVE  IsSeq(stack') /\ (Parsing' => stack' # <<>>)
<1>1. IsSeq(Below) /\ Len(Below) = Len(stack) - 1 /\ Len(stack) \in Nat
  BY FrontIs, LenNat DEF Below
<1>2. Len(stack) > 1 => IsSeq(Front(Below))
  <2> SUFFICES ASSUME Len(stack) > 1 PROVE IsSeq(Front(Below)) OBVIOUS
  <2>1. Len(Below) # 0 BY <1>1
  <2>2. Below # <<>> BY <1>1, <2>1, EmptyLength
  <2> QED BY <1>1, <2>2, FrontIs
<1>3. CASE ReadToken
  <2>1. \E x : stack' = Append(Below, x) BY <1>3 DEF ReadToken
  <2> QED BY <1>1, <2>1, OneMoreCall
<1>4. CASE EnterChoice
  <2>1. PICK x, y : stack' = Below \o <<x, y>> BY <1>4 DEF EnterChoice
  <2> DEFINE t == <<x, y>>
  <2>2. IsSeq(t) /\ Len(t) \in Nat \ {0} BY TwoCalls
  <2> HIDE DEF t
  <2>3. stack' = Below \o t BY <2>1 DEF t
  <2> QED BY <1>1, <2>2, <2>3, OtherCalls
<1>5. CASE LineMatches
  <2>1. Len(stack) > 1 /\ \E x : stack' = Append(Front(Below), x) BY <1>5 DEF LineMatches
  <2> QED BY <1>2, <2>1, OneMoreCall
<1>6. CASE LineMisses
  <2>1. Len(stack) > 1 BY <1>6 DEF LineMisses
  <2> DEFINE elems == SymbolOf(Caller).elems
             n == Caller.alt + 1
             t == IF n <= Len(elems)
                  THEN <<[Caller EXCEPT !.alt = n], Call(elems[n], Caller.pos)>>
                  ELSE <<AfterMiss(Caller)>>
  <2>2. stack' = Front(Below) \o t BY <1>6 DEF LineMisses
  <2>3. IsSeq(t) /\ Len(t) \in Nat \ {0}
    <3>1. CASE n <= Len(elems)
      <4> DEFINE u == <<[Caller EXCEPT !.alt = n], Call(elems[n], Caller.pos)>>
      <4>1. IsSeq(u) /\ Len(u) = 2 BY TwoCalls
      <4>2. t = u BY <3>1
      <4> HIDE DEF u, t
      <4> QED BY <4>1, <4>2
    <3>2. CASE ~(n <= Len(elems))
      <4> DEFINE u == <<AfterMiss(Caller)>>
      <4>1. IsSeq(u) /\ Len(u) = 1 BY OneCall
      <4>2. t = u BY <3>2
      <4> HIDE DEF u, t
      <4> QED BY <4>1, <4>2
    <3> QED BY <3>1, <3>2
  <2> HIDE DEF t
  <2> QED BY <1>2, <2>1, <2>2, <2>3, OtherCalls
<1>7. CASE EndParse
  <2>1. stack' = <<>> /\ verdict' \in {"xml_e_ok", "xml_e_dom_parsing"} BY <1>7 DEF EndParse
  <2>2. IsSeq(<<>>)
    <3>1. <<>> \in Seq({}) OBVIOUS
    <3> QED BY <3>1 DEF IsSeq
  <2> QED BY <2>1, <2>2 DEF Parsing
<1> QED BY <1>3, <1>4, <1>5, <1>6, <1>7 DEF Step

LEMMA SlotsStay ==
    ASSUME Slots(parse), Step
    PROVE  Slots(parse')
<1>1. ASSUME NEW h, NEW s, parse' = Parsed(parse, h, s) PROVE Slots(parse')
  <2>1. Slots(Parsed(parse, h, s)) BY SlotsKept
  <2> QED BY <1>1, <2>1
<1>2. CASE ReadToken
  <2>1. parse' = parse \/ \E h, s : parse' = Parsed(parse, h, s) BY <1>2 DEF ReadToken, Handle
  <2> QED BY <1>1, <2>1
<1>3. CASE LineMatches
  <2>1. \E h, s : parse' = Parsed(parse, h, s) BY <1>3 DEF LineMatches, Handle
  <2> QED BY <1>1, <2>1
<1>4. CASE EnterChoice \/ LineMisses \/ EndParse
  <2>1. parse' = parse BY <1>4 DEF EnterChoice, LineMisses, EndParse
  <2> QED BY <2>1
<1> QED BY <1>2, <1>3, <1>4 DEF Step

\* The parser will come to the document's nodes, whatever it does.
WillRead ==
    \E a, d, ns : a = Here /\ ns = source.nodes /\ Reaches(a, d) /\ Finished(d, ns)

\* At the end of the line it can only say yes.
LEMMA FinishedEnds ==
    ASSUME Finished(Here, source.nodes), Step
    PROVE  EndParse /\ verdict' = "xml_e_ok" /\ Mirrors(walker, source.nodes)
<1>1. PICK q, s, c, w : /\ Here = On(<<>>, At("rule_xml_document", 4, 0, q, "yes", s), c, w)
                        /\ Mirrors(w, source.nodes)
  BY DEF Finished
<1> DEFINE f == At("rule_xml_document", 4, 0, q, "yes", s)
<1>2. f.i = 4 /\ f.line = "rule_xml_document" /\ f.hit = TRUE BY DEF At
<1>3. Len(Lines["rule_xml_document"]) = 3 BY DEF Lines
<1> HIDE DEF f
<1>4. AtEnd(f) /\ Matches(f)
  <2>1. f.i > Len(Lines[f.line]) BY <1>2, <1>3
  <2> QED BY <1>2, <2>1 DEF AtEnd, Matches
<1>5. Here = Config(Append(<<>>, f), c, w) BY <1>1 DEF On, f
<1>6. stack = Append(<<>>, f) /\ walker = w BY <1>5 DEF Here, Config
<1>7. stack = <<f>> BY <1>6
<1>8. Len(stack) = 1 /\ Top = f BY <1>7 DEF Top, Last
<1>9. ~Going(Top) BY <1>4, <1>8 DEF Going
<1>10. EndParse BY <1>8, <1>9, StepKind
<1>11. verdict' = "xml_e_ok" BY <1>4, <1>8, <1>10 DEF EndParse
<1> QED BY <1>1, <1>6, <1>10, <1>11

LEMMA WillReadStays ==
    ASSUME WillRead, Step, IsSeq(stack)
    PROVE  \/ EndParse /\ verdict' = "xml_e_ok" /\ Mirrors(walker, source.nodes)
           \/ WillRead' /\ UNCHANGED <<content, source, verdict>>
<1>1. PICK a, d, ns : a = Here /\ ns = source.nodes /\ Reaches(a, d) /\ Finished(d, ns)
  BY DEF WillRead
<1>2. CASE a = d
  <2>1. Finished(Here, source.nodes) BY <1>1, <1>2
  <2> QED BY <2>1, FinishedEnds
<1>3. CASE a # d
  <2>1. PICK c : Only(a, c) /\ Reaches(c, d) BY <1>1, <1>3, ReachesFirst
  <2>2. Only(Here, c) BY <1>1, <2>1
  <2>3. Len(stack) \in Nat BY LenNat
  <2>4. Here' = c /\ UNCHANGED <<content, source, verdict>> BY <2>2, <2>3, OnlyStep
  <2>5. Reaches(c, d)' BY <2>1, <2>4, ReachesStays
  <2>6. (c = Here)' /\ (ns = source.nodes)' BY <1>1, <2>4
  <2>7. Finished(d, ns)' BY <1>1
  <2>8. WillRead' BY <2>5, <2>6, <2>7 DEF WillRead
  <2> QED BY <2>4, <2>8
<1> QED BY <1>2, <1>3

\* What was in the buffer stays behind the text only.
LEMMA TextIsShown ==
    ASSUME IsSeq(content), NEW t, IsSeq(t), content' = Overwritten(t)
    PROVE  Shows(1, t)'
<1> DEFINE u == SubSeq(content, Len(t) + 1, Len(content))
<1>1. content' = t \o u BY DEF Overwritten
<1>2. IsSeq(u)
  <2>1. PICK T : content \in Seq(T) BY DEF IsSeq
  <2>2. Len(t) \in Nat /\ Len(content) \in Nat BY LenNat
  <2>3. u \in Seq(T)
    <3> DEFINE a == Len(t) + 1
               b == Len(content)
    <3>1. \A i \in a..b : content[i] \in T BY <2>1, <2>2
    <3>2. a \in Nat /\ b \in Nat BY <2>2
    <3> HIDE DEF a, b
    <3>3. SubSeq(content, a, b) \in Seq(T) BY <3>1, <3>2
    <3> QED BY <3>3 DEF a, b
  <2> QED BY <2>3 DEF IsSeq
<1> HIDE DEF u
<1>3. PICK v : v = u OBVIOUS
<1>4. /\ IsSeq(v) /\ content' = t \o v
  BY <1>1, <1>2, <1>3
<1>5. /\ Len(t \o v) = Len(t) + Len(v) /\ Len(t) \in Nat /\ Len(v) \in Nat
      /\ \A i \in 1..Len(t) : (t \o v)[i] = t[i]
  BY <1>4, ConcatFacts, LenNat
<1> DEFINE w == t \o v
<1>6. Len(w) >= Len(t) /\ \A i \in 1..Len(t) : w[i] = t[i] BY <1>5
<1>7. Len(w) \in Nat BY <1>5
<1> HIDE DEF w
<1>8. content' = w BY <1>4 DEF w
<1>9. 1 + Len(t) <= Len(w) + 1 /\ \A i \in 1..Len(t) : w[1 + i - 1] = t[i]
  <2>1. \A i \in 1..Len(t) : 1 + i - 1 = i BY <1>5
  <2> QED BY <1>5, <1>6, <1>7, <2>1
<1>10. 1 + Len(t) <= Len(content') + 1 /\ \A i \in 1..Len(t) : content'[1 + i - 1] = t[i]
  BY <1>8, <1>9
<1> QED BY <1>10 DEF Shows

\* So a whole document will be read as what it means.
LEMMA DocumentBegins ==
    ASSUME WholeAreDocuments, loads \in Nat, loads < Len(Sources), IsSeq(content), Slots(parse),
           NEW s \in Sources[loads + 1], s.whole, ReadFile(s)
    PROVE  WillRead'
<1>1. loads + 1 \in DOMAIN Sources BY EgramAssumption
<1>2. IsDocument(s.text, s.nodes) BY <1>1 DEF WholeAreDocuments
<1>3. PICK n, ps, m, rest :
          /\ n \in Nat /\ IsReading(ps, n, m) /\ m[n].nodes = s.nodes
          /\ IsSeq(rest) /\ s.text = m[n].text \o rest
  BY <1>2 DEF IsDocument, IsSeq
<1>4. /\ content' = Overwritten(s.text) /\ parse' = parse /\ walker' = EmptyWalker
      /\ stack' = <<FirstCall>> /\ source' = s
  BY DEF ReadFile, Opens, FirstCall
<1>5. PICK t : t = s.text OBVIOUS
<1>6. IsSeq(t) BY <1>5, TextSeq
<1>7. Shows(1, t)' BY <1>4, <1>5, <1>6, TextIsShown
<1>8. t = m[n].text \o rest BY <1>3, <1>5
<1>9. Shows(1, m[n].text \o rest)' BY <1>7, <1>8
<1>10. IsSeq(content)'
  <2>1. IsSeq(Overwritten(t)) BY <1>6, OverwrittenSeq
  <2> QED BY <1>4, <1>5, <2>1
<1>11. PICK c : c = parse OBVIOUS
<1>12. Slots(c) BY <1>11
<1>13. WholeReads' BY WholeIsRead, PTL
<1>14. PICK d : Reaches(On(<<>>, FirstCall, c, EmptyWalker), d)' /\ Finished(d, m[n].nodes)
  BY <1>3, <1>9, <1>10, <1>12, <1>13 DEF WholeReads
<1> DEFINE a == On(<<>>, FirstCall, c, EmptyWalker)
<1>15. Reaches(a, d)' BY <1>14
<1>16. a = Here'
  <2>1. Append(<<>>, FirstCall) = <<FirstCall>> OBVIOUS
  <2> QED BY <1>4, <1>11, <2>1 DEF On, Here
<1>17. (s.nodes = source.nodes)' BY <1>4
<1>18. Finished(d, s.nodes)' BY <1>3, <1>14
<1> HIDE DEF a
<1> QED BY <1>15, <1>16, <1>17, <1>18 DEF WillRead

\* Between a whole document's first lexeme and the verdict its nodes are to come.
Answered == verdict \in {"xml_e_ok", "xml_e_dom_parsing"}
DocumentsKept ==
    /\ loads \in Nat /\ IsSeq(content) /\ Slots(parse) /\ IsSeq(stack)
    /\ Parsing => stack # <<>>
    /\ Parsing /\ source.whole => WillRead
    /\ Answered /\ source.whole => verdict = "xml_e_ok" /\ Mirrors(walker, source.nodes)

LEMMA StepKeepsDocuments ==
    ASSUME DocumentsKept, Step
    PROVE  DocumentsKept'
<1>1. Parsing /\ stack # <<>> /\ IsSeq(stack) /\ Slots(parse) /\ IsSeq(content) /\ loads \in Nat
  BY DEF DocumentsKept, Step, ReadToken, EnterChoice, LineMatches, LineMisses, EndParse
<1>2. UNCHANGED <<content, source, loads>>
  BY DEF Step, ReadToken, EnterChoice, LineMatches, LineMisses, EndParse
<1>3. IsSeq(stack') /\ (Parsing' => stack' # <<>>) BY <1>1, StackStays
<1>4. Slots(parse') BY <1>1, SlotsStay
<1>5. CASE EndParse
  <2>1. verdict' \in {"xml_e_ok", "xml_e_dom_parsing"} /\ walker' = walker BY <1>5 DEF EndParse
  <2>2. ~Parsing' BY <2>1 DEF Parsing
  <2>3. source.whole => verdict' = "xml_e_ok" /\ Mirrors(walker, source.nodes)
    <3> SUFFICES ASSUME source.whole
                 PROVE  verdict' = "xml_e_ok" /\ Mirrors(walker, source.nodes)
      OBVIOUS
    <3>1. WillRead BY <1>1 DEF DocumentsKept
    <3>2. CASE UNCHANGED verdict
      BY <1>1, <2>1, <3>2 DEF Parsing
    <3>3. CASE verdict' = "xml_e_ok" /\ Mirrors(walker, source.nodes)
      BY <3>3
    <3> QED BY <1>1, <3>1, <3>2, <3>3, WillReadStays
  <2> QED BY <1>1, <1>2, <1>3, <1>4, <2>1, <2>2, <2>3 DEF DocumentsKept
<1>6. CASE ~EndParse
  <2>1. verdict' = verdict
    BY <1>6 DEF Step, ReadToken, EnterChoice, LineMatches, LineMisses
  <2>2. Parsing' /\ ~Answered' BY <1>1, <2>1 DEF Parsing, Answered
  <2>3. source.whole => WillRead'
    <3> SUFFICES ASSUME source.whole PROVE WillRead' OBVIOUS
    <3>1. WillRead BY <1>1 DEF DocumentsKept
    <3> QED BY <1>1, <1>6, <3>1, WillReadStays
  <2> QED BY <1>1, <1>2, <1>3, <1>4, <2>2, <2>3 DEF DocumentsKept
<1> QED BY <1>5, <1>6

\* A file opens with nothing of the last one in its way.
LEMMA FileKeepsDocuments ==
    ASSUME WholeAreDocuments, DocumentsKept, loads < Len(Sources),
           NEW s \in Sources[loads + 1], ReadFile(s) \/ TooLong(s) \/ ReadFails(s)
    PROVE  DocumentsKept'
<1>1. IsSeq(stack) /\ Slots(parse) /\ IsSeq(content) /\ loads \in Nat
  BY DEF DocumentsKept
<1>2. loads' = loads + 1 /\ parse' = parse /\ IsSeq(s.text) /\ loads' \in Nat
  BY <1>1, TextSeq DEF ReadFile, TooLong, ReadFails, Opens
<1>3. CASE ReadFile(s)
  <2>1. content' = Overwritten(s.text) /\ stack' = <<FirstCall>> /\ verdict' = "parsing" /\ source' = s
    BY <1>3 DEF ReadFile, Opens, FirstCall
  <2>2. IsSeq(content)' BY <1>1, <1>2, <2>1, OverwrittenSeq
  <2>3. IsSeq(stack)' /\ (stack # <<>>)'
    <3> DEFINE first == <<FirstCall>>
    <3>1. IsSeq(first) /\ first # <<>> BY OneCall
    <3> HIDE DEF first
    <3> QED BY <2>1, <3>1 DEF first
  <2>4. ~Answered' BY <2>1 DEF Answered
  <2>5. source.whole' => WillRead'
    <3>1. s.whole => WillRead' BY <1>1, <1>3, DocumentBegins
    <3> QED BY <2>1, <3>1
  <2> QED BY <1>1, <1>2, <2>2, <2>3, <2>4, <2>5 DEF DocumentsKept
<1>4. CASE TooLong(s) \/ ReadFails(s)
  <2>1. stack' = stack /\ verdict' \in {"xml_e_no_file", "xml_e_nomem", "xml_e_file_read"}
    BY <1>4 DEF TooLong, ReadFails
  <2>2. ~Parsing' /\ ~Answered' BY <2>1 DEF Parsing, Answered
  <2>3. IsSeq(content)'
    <3>1. CASE TooLong(s)
      <4>1. IsSeq(SubSeq(s.text, 1, MAX_XML_FILE_SIZE))
        BY <1>2, <3>1, EgramAssumption, PartSeq DEF TooLong
      <4> QED BY <1>1, <3>1, <4>1, OverwrittenSeq DEF TooLong
    <3>2. CASE ReadFails(s) /\ content' = content
      BY <1>1, <3>2
    <3>3. ASSUME NEW k \in 0..MAX_XML_FILE_SIZE, k <= Len(s.text),
                 content' = Overwritten(SubSeq(s.text, 1, k))
          PROVE  IsSeq(content')
      <4>1. IsSeq(SubSeq(s.text, 1, k)) BY <1>2, <3>3, EgramAssumption, PartSeq
      <4> QED BY <1>1, <3>3, <4>1, OverwrittenSeq
    <3>4. Len(s.text) \in Nat BY <1>2, AppendFacts
    <3> QED BY <1>4, <3>1, <3>2, <3>3, <3>4 DEF ReadFails
  <2> QED BY <1>1, <1>2, <2>1, <2>2, <2>3 DEF DocumentsKept
<1> QED BY <1>3, <1>4

LEMMA FirstSlots == Slots(NewParse)
<1>1. NewParse.attrs = [i \in SlotSet |-> NoAttr] BY DEF NewParse, SlotSet
<1>2. HasSlots(NewParse.attrs) BY <1>1 DEF HasSlots, IsSlot, NoAttr
<1> QED BY <1>2, FirstParse DEF Slots

\* A whole document is accepted and its tree is the document's, whatever was read
\* before it and however the grammar's alternatives were tried (process_line of
\* egram.c, the handlers of egram_xml.c and parser_egram.c).
THEOREM WholeIsParsed == WholeAreDocuments /\ Spec => []WellFormedIsParsed
<1> SUFFICES ASSUME WholeAreDocuments PROVE Spec => []WellFormedIsParsed
  OBVIOUS
<1>1. Init => DocumentsKept
  <2> SUFFICES ASSUME Init PROVE DocumentsKept
    OBVIOUS
  <2>1. IsSeq(<<>>)
    <3>1. <<>> \in Seq({}) OBVIOUS
    <3> QED BY <3>1 DEF IsSeq
  <2> QED BY <2>1, FirstSlots DEF Init, DocumentsKept, Parsing, Answered
<1>2. DocumentsKept /\ [Next]_vars => DocumentsKept'
  <2> SUFFICES ASSUME DocumentsKept, [Next]_vars PROVE DocumentsKept'
    OBVIOUS
  <2>1. CASE UNCHANGED vars
    <3>1. WillRead => WillRead'
      <4> SUFFICES ASSUME WillRead PROVE WillRead'
        OBVIOUS
      <4>1. PICK a, d, ns : a = Here /\ ns = source.nodes /\ Reaches(a, d) /\ Finished(d, ns)
        BY DEF WillRead
      <4>2. Reaches(a, d)' BY <2>1, <4>1, ReachesStays DEF vars
      <4>3. (a = Here)' /\ (ns = source.nodes)' /\ Finished(d, ns)' BY <2>1, <4>1 DEF vars, Here
      <4> QED BY <4>2, <4>3 DEF WillRead
    <3> QED BY <2>1, <3>1 DEF vars, DocumentsKept, Parsing, Answered
  <2>2. CASE Step
    BY <2>2, StepKeepsDocuments
  <2>3. CASE ~Parsing /\ loads < Len(Sources)
             /\ \E s \in Sources[loads + 1] : ReadFile(s) \/ TooLong(s) \/ ReadFails(s)
    BY <2>3, FileKeepsDocuments
  <2> QED BY <2>1, <2>2, <2>3 DEF Next
<1>3. DocumentsKept => WellFormedIsParsed
  BY DEF DocumentsKept, Answered, Mirrors, WellFormedIsParsed
<1> QED BY <1>1, <1>2, <1>3, PTL DEF Spec
==============================================================================

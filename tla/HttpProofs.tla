----------------------------- MODULE HttpProofs ------------------------------
(***************************************************************************)
(* Proofs about HttpSession, for any number of pieces in which the header  *)
(* of a request arrives: the automaton of http11_parser.rl, through its    *)
(* regions, reads the request as the reference does, so that what the      *)
(* callbacks of http_parser.cc take are the parts of the request.          *)
(***************************************************************************)
EXTENDS HttpSession, SequenceTheorems, TLAPS

-----------------------------------------------------------------------------
(* Automata.                                                               *)

\* A state that does not give up on a character takes one of its arcs.
LEMMA ArcTaken ==
  ASSUME NEW arcs, NEW states, NEW chars, NEW s \in states, NEW c \in chars,
         Switch(arcs, states, chars)[s][c].cs # ErrorState
  PROVE  \E a \in arcs : /\ a[1] = s /\ c \in a[2]
                         /\ Switch(arcs, states, chars)[s][c] = [cs |-> a[3], do |-> a[4]]
  <1> DEFINE leaving == {a \in arcs : a[1] = s}
             arc == CHOOSE a \in leaving : c \in a[2]
  <1>1. Switch(arcs, states, chars)[s][c] =
          IF \E a \in leaving : c \in a[2] THEN [cs |-> arc[3], do |-> arc[4]]
          ELSE [cs |-> ErrorState, do |-> <<>>]
    BY DEF Switch
  <1>2. \E a \in leaving : c \in a[2]
    <2> HIDE DEF leaving, arc
    <2> QED  BY <1>1
  <1>3. arc \in leaving /\ c \in arc[2]
    <2> HIDE DEF leaving
    <2> QED  BY <1>2
  <1>4. Switch(arcs, states, chars)[s][c] = [cs |-> arc[3], do |-> arc[4]]
    <2> HIDE DEF leaving, arc
    <2> QED  BY <1>1, <1>2
  <1>5. arc \in arcs /\ arc[1] = s  BY <1>3
  <1> HIDE DEF arc
  <1> QED  BY <1>3, <1>4, <1>5

-----------------------------------------------------------------------------
(* What the automaton of a request does, region by region.                 *)

\* The path is over: with a space or "#" the URI is too.
PathOver(c, j, as, before) ==
    \/ c = "sp" /\ j = "version-start" /\ as = before \o <<"request_path", "request_uri">>
    \/ c = "#" /\ j = "fragment-start" /\ as = before \o <<"request_path", "request_uri">>
    \/ c = "?" /\ j = "query-start" /\ as = before \o <<"request_path">>

QueryOver(c, j, as, before) ==
    /\ as = before \o <<"query_string", "request_uri">>
    /\ \/ c = "sp" /\ j = "version-start"
       \/ c = "#" /\ j = "fragment-start"

LineOver(c, j) ==
    \/ c = "lf" /\ j = "line"
    \/ c = "cr" /\ j = "line-end"

\* From region i to region j with the character c and the actions as.
TargetMoves(i, c, j, as) ==
    \/ i = "uri" /\ j = "path" /\ c \notin {"sp", "#", "?"} \cup Letter /\ as = <<"mark">>
    \/ i = "uri" /\ j = "scheme" /\ c \in Letter /\ as = <<"mark">>
    \/ i \in {"uri", "hier"} /\ PathOver(c, j, as, <<"mark">>)
    \/ i \in {"path", "scheme"} /\ PathOver(c, j, as, <<>>)
    \/ i = "path" /\ j = "path" /\ c \notin {"sp", "#", "?"} /\ as = <<>>
    \/ i = "scheme" /\ j = "scheme" /\ c \in SchemeChars /\ as = <<>>
    \/ i = "scheme" /\ j = "path" /\ c \notin {"sp", "#", "?", ":"} \cup SchemeChars /\ as = <<>>
    \/ i = "scheme" /\ j = "hier" /\ c = ":" /\ as = <<>>
    \/ i = "hier" /\ j = "path" /\ c \notin {"sp", "#", "?"} /\ as = <<"mark">>
    \/ i = "query-start" /\ j = "query" /\ c \notin {"sp", "#"} /\ as = <<"start_query">>
    \/ i = "query-start" /\ QueryOver(c, j, as, <<"start_query">>)
    \/ i = "query" /\ j = "query" /\ c \notin {"sp", "#"} /\ as = <<>>
    \/ i = "query" /\ QueryOver(c, j, as, <<>>)
    \/ i = "fragment-start" /\ j = "fragment" /\ c # "sp" /\ as = <<"mark">>
    \/ i = "fragment-start" /\ j = "version-start" /\ c = "sp" /\ as = <<"mark", "fragment">>
    \/ i = "fragment" /\ j = "fragment" /\ c # "sp" /\ as = <<>>
    \/ i = "fragment" /\ j = "version-start" /\ c = "sp" /\ as = <<"fragment">>

EndMoves(i, c, j, as) ==
    \/ i = "start" /\ j = "method" /\ c \notin {"<", "@", "sp"} /\ as = <<"mark">>
    \/ i = "start" /\ j = "socket" /\ c \in {"<", "@"} /\ as = <<"mark">>
    \/ i = "method" /\ j = "method" /\ c # "sp" /\ as = <<>>
    \/ i = "method" /\ j = "uri" /\ c = "sp" /\ as = <<"request_method">>
    \/ i = "version-start" /\ j = "version" /\ c \notin {"cr", "lf"} /\ as = <<"mark">>
    \/ i = "version" /\ j = "version" /\ c \notin {"cr", "lf"} /\ as = <<>>
    \/ i = "version" /\ LineOver(c, j) /\ as = <<"http_version">>
    \/ /\ i = "socket" /\ j = "socket"
       /\ as \in {<<>>, <<"mark">>, <<"request_path">>, <<"xml", "done">>, <<"json", "done">>}

FieldMoves(i, c, j, as) ==
    \/ i = "line" /\ j = "name" /\ c \notin {"lf", "cr", ":"} /\ as = <<"start_field">>
    \/ i = "line" /\ j = "end" /\ c = "lf" /\ as = <<"start_field", "done">>
    \/ i = "line" /\ j = "line-cr" /\ c = "cr" /\ as = <<"start_field">>
    \/ i = "name" /\ j = "name" /\ c # ":" /\ as = <<>>
    \/ i \in {"name", "line-cr"} /\ j = "gap" /\ c = ":" /\ as = <<"write_field">>
    \/ i = "gap" /\ j = "value" /\ c \notin {"ht", "sp", "lf", "cr"} /\ as = <<"start_value">>
    \/ i = "gap" /\ j = "gap" /\ c \in {"ht", "sp"} /\ as = <<"start_value">>
    \/ i = "gap" /\ LineOver(c, j) /\ as = <<"start_value", "write_value">>
    \/ i = "value" /\ j = "value" /\ c \notin {"lf", "cr"} /\ as = <<>>
    \/ i = "value" /\ LineOver(c, j) /\ as = <<"write_value">>
    \/ i = "line-end" /\ j = "line" /\ c = "lf" /\ as = <<>>
    \/ i = "line-cr" /\ j = "name" /\ c \notin {"lf", ":"} /\ as = <<>>
    \/ i = "line-cr" /\ j = "end" /\ c = "lf" /\ as = <<"done">>

Moves(i, c, j, as) ==
    TargetMoves(i, c, j, as) \/ EndMoves(i, c, j, as) \/ FieldMoves(i, c, j, as) \/ i = "end"

\* A set of arcs does nothing else.
Right(arcs) == \A a \in arcs : \A c \in a[2] : Moves(Region(a[1]), c, Region(a[3]), a[4])

-----------------------------------------------------------------------------
(* Its arcs.                                                               *)

PathStates == {19} \cup 24..28 \cup 33..172

\* What does not end a path.
PathChars == (RequestChars \cup {"more"}) \ {"sp", "#", "?"}

\* Sets of arcs that do as their regions say.
LEMMA RightUnion ==
  ASSUME NEW A, NEW B, Right(A), Right(B)
  PROVE  Right(A \cup B)
  BY DEF Right

\* One arc, with or without actions.
LEMMA RightDo ==
  ASSUME NEW s, NEW C, NEW t, NEW as, NEW i, NEW j, Region(s) = i, Region(t) = j,
         \A c \in C : Moves(i, c, j, as)
  PROVE  Right(Do(s, C, t, as))
  <1> DEFINE d == <<s, C, t, as>>
  <1>1. d[1] = s /\ d[2] = C /\ d[3] = t /\ d[4] = as  OBVIOUS
  <1>2. Do(s, C, t, as) = {d}  BY DEF Do
  <1> HIDE DEF d
  <1>3. \A c \in d[2] : Moves(Region(d[1]), c, Region(d[3]), d[4])  BY <1>1
  <1> QED  BY <1>2, <1>3 DEF Right

LEMMA RightGo ==
  ASSUME NEW s, NEW C, NEW t, NEW i, NEW j, Region(s) = i, Region(t) = j,
         \A c \in C : Moves(i, c, j, <<>>)
  PROVE  Right(Go(s, C, t))
  BY RightDo DEF Go, Do

\* Arcs within the path.
PathArcs == PathStates \X (SUBSET PathChars) \X PathStates \X {<<>>}

InPath(arcs) == arcs \subseteq PathArcs

LEMMA PathRegion == \A s \in PathStates : Region(s) = "path"
  BY DEF Region, PathStates

\* An arc within the path keeps to it and does nothing.
LEMMA InPathRight ==
  ASSUME NEW A, InPath(A)
  PROVE  Right(A)
  <1> SUFFICES ASSUME NEW a \in A, NEW c \in a[2]
               PROVE  Moves(Region(a[1]), c, Region(a[3]), a[4])
    BY DEF Right
  <1>1. a[1] \in PathStates /\ a[3] \in PathStates /\ a[4] = <<>> /\ c \in PathChars
    BY DEF InPath, PathArcs
  <1>2. Region(a[1]) = "path" /\ Region(a[3]) = "path"
    BY <1>1, PathRegion, Zenon
  <1>3. c \notin {"sp", "#", "?"}  BY <1>1 DEF PathChars
  <1> QED  BY <1>1, <1>2, <1>3 DEF Moves, TargetMoves

LEMMA InPathUnion ==
  ASSUME NEW A, NEW B, InPath(A), InPath(B)
  PROVE  InPath(A \cup B)
  BY DEF InPath

LEMMA InPathGo ==
  ASSUME NEW s \in PathStates, NEW t \in PathStates, NEW C, C \subseteq PathChars
  PROVE  InPath(Go(s, C, t))
  BY DEF Go, InPath, PathArcs

\* The classes of characters that the path is made of.
LEMMA PathClasses ==
  /\ ReqDigit \subseteq PathChars /\ ReqXdigit \subseteq PathChars /\ ReqName \subseteq PathChars
  /\ ReqUser \subseteq PathChars /\ ReqPchar \subseteq PathChars
  /\ \A c \in {":", ".", "[", "]", "/", "%", "@", "v", "x06"} : {c} \subseteq PathChars
  /\ {"x03"} \subseteq PathChars /\ {"x04"} \subseteq PathChars
  /\ {"x02", "x03"} \subseteq PathChars /\ {"x02", "x03", "x04", "x05"} \subseteq PathChars
  /\ \A c \in {"A", "a", "0", "1", "2", "3", "5"} : c \in PathChars
  BY DEF PathChars, RequestChars, Token, ReqQuery, ReqPchar, ReqUser, ReqName, Letter, Upper,
         ReqDigit, ReqXdigit

LEMMA InPathAll ==
  ASSUME NEW S, \A A \in S : InPath(A)
  PROVE  InPath(UNION S)
  BY DEF InPath

\* The shapes that the address of an IP literal is made of: its groups,
\* its octets and the places where it may end.
LEMMA InPathH16 ==
  ASSUME NEW s \in Nat, s..(s + 3) \subseteq PathStates, NEW t \in PathStates
  PROVE  InPath(ReqH16(s, t))
  <1>1. ASSUME NEW i \in 0..2  PROVE InPath(Go(s + i, ReqXdigit, s + i + 1))
    BY PathClasses, InPathGo
  <1>2. ASSUME NEW i \in 0..3  PROVE InPath(Go(s + i, {":"}, t))
    BY PathClasses, InPathGo
  <1>3. InPath(UNION {Go(s + i, ReqXdigit, s + i + 1) : i \in 0..2})  BY <1>1, InPathAll
  <1>4. InPath(UNION {Go(s + i, {":"}, t) : i \in 0..3})  BY <1>2, InPathAll
  <1> QED  BY <1>3, <1>4, InPathUnion DEF ReqH16

LEMMA InPathGroup ==
  ASSUME NEW s \in Nat, s..(s + 4) \subseteq PathStates, NEW t \in PathStates, NEW u \in PathStates
  PROVE  InPath(ReqGroup(s, t, u))
  <1>1. InPath(ReqH16(s, s + 4))  BY InPathH16
  <1>2. InPath(Go(s + 4, ReqXdigit, t)) /\ InPath(Go(s + 4, {":"}, u))
    BY PathClasses, InPathGo
  <1> QED  BY <1>1, <1>2, InPathUnion DEF ReqGroup

LEMMA InPathOctet ==
  ASSUME NEW s \in PathStates, NEW z \in PathStates, NEW one \in PathStates, one + 2 \in PathStates
  PROVE  InPath(ReqOctet(s, z, one))
  BY PathClasses, InPathGo, InPathUnion DEF ReqOctet

LEMMA InPathOctetRest ==
  ASSUME NEW one \in Nat, one..(one + 4) \subseteq PathStates, NEW z \in PathStates,
         NEW t \in PathStates, NEW d \in {"]", "."}
  PROVE  InPath(ReqOctetRest(one, z, d, t))
  <1>1. \A i \in 0..4 : one + i \in PathStates  OBVIOUS
  <1>2. /\ one \in PathStates /\ one + 1 \in PathStates /\ one + 2 \in PathStates
        /\ one + 3 \in PathStates /\ one + 4 \in PathStates
    BY <1>1
  <1>3. ASSUME NEW i \in one..(one + 2)  PROVE InPath(Go(i, {d}, t))
    BY PathClasses, InPathGo
  <1>4. InPath(UNION {Go(i, {d}, t) : i \in one..(one + 2)}) BY <1>3, InPathAll
  <1> QED
  BY <1>2, <1>4, PathClasses, InPathGo, InPathUnion DEF ReqOctetRest

LEMMA InPathMixedStart ==
  ASSUME NEW s, NEW z, NEW one, {s, z, one, one + 3, one + 6} \subseteq PathStates
  PROVE InPath(ReqMixedStart(s, z, one))
  BY PathClasses, InPathGo, InPathUnion DEF ReqMixedStart

LEMMA InPathGroupEnds ==
  ASSUME NEW S, S \subseteq PathStates, NEW t \in PathStates, NEW close
  PROVE  InPath(ReqGroupEnds(S, t, close))
  <1>1. ASSUME NEW s \in S PROVE InPath(Go(s, {":"}, t)) /\ InPath(Go(s, {"]"}, 61))
   <2>1. 61 \in PathStates BY DEF PathStates
   <2> QED BY <2>1, PathClasses, InPathGo
  <1>2. InPath(UNION {Go(s, {":"}, t) : s \in S}) BY <1>1, InPathAll
  <1>3. InPath(UNION {Go(s, {"]"}, 61) : s \in S}) BY <1>1, InPathAll
  <1>4. InPath({}) BY DEF InPath
  <1>5. CASE close  BY <1>2, <1>3, <1>5, InPathUnion DEF ReqGroupEnds
  <1>6. CASE ~close  BY <1>2, <1>4, <1>6, InPathUnion DEF ReqGroupEnds
  <1> QED BY <1>5, <1>6

LEMMA InPathChain2 ==
  ASSUME NEW s \in PathStates, s + 1 \in PathStates, NEW t \in PathStates
  PROVE  InPath(Chain(s, <<ReqXdigit, ReqXdigit>>, t))
  <1>1. InPath(Go(s, ReqXdigit, s + 1)) /\ InPath(Go(s + 1, ReqXdigit, t)) BY PathClasses, InPathGo
  <1>2. Chain(s, <<ReqXdigit, ReqXdigit>>, t) = Go(s, ReqXdigit, s + 1) \cup Go(s + 1, ReqXdigit, t)
    BY DEF Chain, PathStates
  <1> QED BY <1>1, <1>2, InPathUnion

LEMMA InPathChain3 ==
  ASSUME NEW s \in Nat, s..(s+2) \subseteq PathStates,  NEW t \in PathStates
  PROVE  InPath(Chain(s, <<ReqXdigit, ReqXdigit, ReqXdigit>>, t))
  <1> DEFINE C == <<ReqXdigit, ReqXdigit, ReqXdigit>>
  <1>1. ASSUME NEW i \in 1..3 PROVE InPath(Go(s + i - 1, C[i], IF i = 3 THEN t ELSE s + i))
    <2>1. C[i] = ReqXdigit OBVIOUS
    <2>2. s + i - 1 \in PathStates /\ (i # 3 => s + i \in PathStates) OBVIOUS
    <2> HIDE DEF C
    <2> QED BY <2>1, <2>2, PathClasses, InPathGo
  <1>2. DOMAIN C = 1..3 /\ Len(C) = 3 OBVIOUS
  <1> HIDE DEF C
  <1>3. Chain(s, C, t) = UNION {Go(s + i - 1, C[i], IF i = 3 THEN t ELSE s + i) : i \in 1..3}
    BY <1>2 DEF Chain
  <1> QED BY <1>1, <1>3, InPathAll DEF C

LEMMA InPathMixedTail ==
  ASSUME NEW one \in Nat, one..(one + 6) \subseteq PathStates,
         NEW y \in Nat, y..(y + 2) \subseteq PathStates, NEW colon \in PathStates, NEW close
  PROVE  InPath(ReqMixedTail(one, y, colon, close))
  <1>1. \A i \in 0..6 : one + i \in PathStates  OBVIOUS
  <1>2. /\ one \in PathStates /\ one + 1 \in PathStates /\ one + 2 \in PathStates
        /\ one + 3 \in PathStates /\ one + 4 \in PathStates /\ one + 5 \in PathStates
        /\ one + 6 \in PathStates
    BY <1>1
  <1>3. y \in PathStates /\ y + 1 \in PathStates /\ y + 2 \in PathStates OBVIOUS
  <1>4. ASSUME NEW i \in one..(one + 3)  PROVE InPath(Go(i, {"."}, 55))
    <2>1. 55 \in PathStates BY DEF PathStates
    <2> QED
    BY <2>1, PathClasses, InPathGo
  <1>5. InPath(UNION {Go(i, {"."}, 55) : i \in one..(one + 3)}) BY <1>4, InPathAll
  <1>6. InPath(ReqGroupEnds(one..(one + 6), colon, close)) BY InPathGroupEnds
  <1>7. ReqXdigit \ {"0", "5"} \subseteq PathChars /\ ReqXdigit \ {"0"} \subseteq PathChars
    BY PathClasses
  <1>8. InPath(Go(one, ReqDigit, one + 1) \cup Go(one, {"A", "a"}, y)
               \cup Go(one + 1, ReqDigit, one + 2) \cup Go(one + 1, {"A", "a"}, y + 1)
               \cup Go(one + 2, ReqXdigit, y + 2)
               \cup Go(one + 3, {"0"}, one + 4) \cup Go(one + 3, {"5"}, one + 5)
               \cup Go(one + 3, ReqXdigit \ {"0", "5"}, y))
    BY <1>2, <1>3, <1>7, PathClasses, InPathGo, InPathUnion
  <1>9. InPath(Go(one + 4, ReqDigit, one + 2)) /\ InPath(Go(one + 4, {"A", "a"}, y + 1))
        /\ InPath(Go(one + 5, {"0"}, one + 2)) /\ InPath(Go(one + 5, ReqXdigit \ {"0"}, y + 1))
        /\ InPath(Go(one + 6, ReqXdigit, y))
    BY <1>2, <1>3, <1>7, PathClasses, InPathGo
  <1> QED  BY <1>5, <1>6, <1>8, <1>9, InPathUnion DEF ReqMixedTail

LEMMA InPathMixedHead ==
  ASSUME NEW z \in PathStates, NEW y \in Nat, y..(y + 2) \subseteq PathStates,
         NEW colon \in PathStates, NEW close
  PROVE  InPath(ReqMixedHead(z, y, colon, close))
  <1>1. 55 \in PathStates  BY DEF PathStates
  <1>2. y \in PathStates /\ y + 1 \in PathStates /\ y + 2 \in PathStates  OBVIOUS
  <1>3. InPath(Go(z, {"."}, 55)) /\ InPath(Go(z, ReqXdigit, y))
    BY <1>1, <1>2, PathClasses, InPathGo
  <1>4. InPath(Chain(y, <<ReqXdigit, ReqXdigit>>, y + 2))  BY <1>2, InPathChain2
  <1>5. InPath(ReqGroupEnds({z} \cup y..(y + 2), colon, close))  BY <1>2, InPathGroupEnds
  <1> QED  BY <1>3, <1>4, <1>5, InPathUnion DEF ReqMixedHead

-----------------------------------------------------------------------------
(* The target of the request line: its arcs stay in the path or end it.    *)

\* Arcs within the path, and those that end it.
TargetArcs(k) == PathArcs \cup UNION {Ends0(k, s) : s \in PathStates}

InTarget(k, arcs) == arcs \subseteq TargetArcs(k)

LEMMA InTargetPath ==
  ASSUME NEW k, NEW A, InPath(A)
  PROVE  InTarget(k, A)
  BY DEF InTarget, TargetArcs, InPath

LEMMA InTargetEnds ==
  ASSUME NEW k, NEW s \in PathStates
  PROVE  InTarget(k, Ends0(k, s))
  BY DEF InTarget, TargetArcs

LEMMA InTargetGo ==
  ASSUME NEW k, NEW s \in PathStates, NEW t \in PathStates, NEW C, C \subseteq PathChars
  PROVE  InTarget(k, Go(s, C, t))
  BY InPathGo, InTargetPath

\* The parts of the target, for a request line and for a JSON request.
LEMMA InTargetLitQuad == ASSUME NEW k PROVE InTarget(k, LitQuad(k))
  <1>1. /\ 54 \in PathStates /\ 55 \in PathStates /\ 56 \in PathStates /\ 57 \in PathStates
        /\ 58 \in PathStates /\ 59 \in PathStates /\ 60 \in PathStates /\ 61 \in PathStates
        /\ 62 \in PathStates /\ 67 \in PathStates /\ 72 \in PathStates /\ 77 \in PathStates
        /\ 80 \in PathStates /\ 26 \in PathStates /\ 46 \in PathStates
        /\ 62 + 2 \in PathStates /\ 67 + 2 \in PathStates /\ 72 + 2 \in PathStates
    BY DEF PathStates
  <1>2. /\ InPath(Go(54, {"."}, 55)) /\ InPath(Go(54, ReqXdigit, 77)) /\ InPath(Go(54, {":"}, 80))
        /\ InPath(Go(56, {"."}, 57))
    BY <1>1, PathClasses, InPathGo, Zenon
  <1>3. /\ InPath(Go(58, {"."}, 59)) /\ InPath(Go(60, {"]"}, 61)) /\ InPath(Go(61, {"/"}, 26))
        /\ InPath(Go(61, {":"}, 46))
    BY <1>1, PathClasses, InPathGo, Zenon
  <1>4. /\ InPath(ReqOctet(55, 56, 72)) /\ InPath(ReqOctet(57, 58, 67))
        /\ InPath(ReqOctet(59, 60, 62))
    BY <1>1, InPathOctet, Zenon
  <1>5. InTarget(k, Ends0(k, 61))
    BY <1>1, InTargetEnds, Zenon
  <1> QED
    BY <1>2, <1>3, <1>4, <1>5, InTargetPath DEF LitQuad, InTarget

LEMMA InTargetOneSlash == ASSUME NEW k PROVE InTarget(k, OneSlash(k))
  <1>1. /\ 33 \in PathStates /\ 26 \in PathStates /\ 27 \in PathStates /\ 34 \in PathStates
    BY DEF PathStates
  <1>2. /\ InTarget(k, Go(33, ReqPchar, 26)) /\ InTarget(k, Go(33, {"%"}, 27))
        /\ InTarget(k, Go(33, {"/"}, 34))
    BY <1>1, PathClasses, InTargetGo, Zenon
  <1>3. InTarget(k, Ends0(k, 33))
    BY <1>1, InTargetEnds, Zenon
  <1> QED
    BY <1>2, <1>3 DEF OneSlash, InTarget

LEMMA InTargetAll ==
  ASSUME NEW k, NEW S, \A A \in S : InTarget(k, A)
  PROVE  InTarget(k, UNION S)
  BY DEF InTarget

LEMMA InPathPercent ==
  ASSUME NEW s \in PathStates, s + 1 \in PathStates, NEW t \in PathStates
  PROVE  InPath(ReqPercent(s, t))
  BY InPathChain2 DEF ReqPercent

LEMMA InTargetAuthority == ASSUME NEW k PROVE InTarget(k, ReqAuthority(k))
  <1>1. /\ 35 \in PathStates /\ 36 \in PathStates /\ 26 \in PathStates /\ 38 \in PathStates
        /\ 42 \in PathStates /\ 34 \in PathStates /\ 47 \in PathStates /\ 36 + 1 \in PathStates
        /\ 34..35 \subseteq PathStates
    BY DEF PathStates
  <1>2. ASSUME NEW s \in PathStates
        PROVE  InTarget(k, Go(s, ReqName, 35) \cup Go(s, {"%"}, 36) \cup Go(s, {"/"}, 26)
                           \cup Go(s, {":"}, 38) \cup Go(s, {"@"}, 42) \cup Ends0(k, s))
    <2>1. /\ InTarget(k, Go(s, ReqName, 35)) /\ InTarget(k, Go(s, {"%"}, 36))
          /\ InTarget(k, Go(s, {"/"}, 26)) /\ InTarget(k, Go(s, {":"}, 38))
          /\ InTarget(k, Go(s, {"@"}, 42)) /\ InTarget(k, Ends0(k, s))
      BY <1>1, PathClasses, InTargetGo, InTargetEnds, Zenon
    <2> QED  BY <2>1 DEF InTarget
  <1>3. InTarget(k, UNION {Go(s, ReqName, 35) \cup Go(s, {"%"}, 36) \cup Go(s, {"/"}, 26)
                           \cup Go(s, {":"}, 38) \cup Go(s, {"@"}, 42) \cup Ends0(k, s)
                           : s \in 34..35})
    BY <1>1, <1>2, InTargetAll, Zenon
  <1>4. InTarget(k, Go(34, {"["}, 47))
    BY <1>1, PathClasses, InTargetGo, Zenon
  <1>5. InTarget(k, ReqPercent(36, 35))
    BY <1>1, InPathPercent, InTargetPath, Zenon
  <1> QED
    BY <1>3, <1>4, <1>5, Zenon DEF ReqAuthority, InTarget

LEMMA InTargetUserinfo == ASSUME NEW k PROVE InTarget(k, ReqUserinfo(k))
  <1>1. /\ 38 \in PathStates /\ 39 \in PathStates /\ 40 \in PathStates /\ 26 \in PathStates
        /\ 42 \in PathStates /\ 40 + 1 \in PathStates /\ ReqUser \ ReqDigit \subseteq PathChars
    BY PathClasses DEF PathStates
  <1>2. /\ InTarget(k, Go(38, ReqUser \ ReqDigit, 39)) /\ InTarget(k, Go(38, ReqDigit, 38))
        /\ InTarget(k, Go(38, {"%"}, 40)) /\ InTarget(k, Go(38, {"/"}, 26))
        /\ InTarget(k, Go(38, {"@"}, 42))
    BY <1>1, PathClasses, InTargetGo, Zenon
  <1>3. /\ InTarget(k, Go(39, ReqUser, 39)) /\ InTarget(k, Go(39, {"%"}, 40))
        /\ InTarget(k, Go(39, {"@"}, 42)) /\ InTarget(k, Ends0(k, 38))
    BY <1>1, PathClasses, InTargetGo, InTargetEnds, Zenon
  <1>4. InTarget(k, ReqPercent(40, 39))
    BY <1>1, InPathPercent, InTargetPath, Zenon
  <1> QED
    BY <1>2, <1>3, <1>4, Zenon DEF ReqUserinfo, InTarget

LEMMA InTargetHost == ASSUME NEW k PROVE InTarget(k, ReqHost(k))
  <1>1. /\ 42 \in PathStates /\ 43 \in PathStates /\ 44 \in PathStates /\ 26 \in PathStates
        /\ 46 \in PathStates /\ 47 \in PathStates /\ 44 + 1 \in PathStates
        /\ 42..43 \subseteq PathStates
    BY DEF PathStates
  <1>2. ASSUME NEW s \in PathStates
        PROVE  InTarget(k, Go(s, ReqName, 43) \cup Go(s, {"%"}, 44) \cup Go(s, {"/"}, 26)
                           \cup Go(s, {":"}, 46) \cup Ends0(k, s))
    <2>1. /\ InTarget(k, Go(s, ReqName, 43)) /\ InTarget(k, Go(s, {"%"}, 44))
          /\ InTarget(k, Go(s, {"/"}, 26)) /\ InTarget(k, Go(s, {":"}, 46))
          /\ InTarget(k, Ends0(k, s))
      BY <1>1, PathClasses, InTargetGo, InTargetEnds, Zenon
    <2> QED  BY <2>1 DEF InTarget
  <1>3. InTarget(k, UNION {Go(s, ReqName, 43) \cup Go(s, {"%"}, 44) \cup Go(s, {"/"}, 26)
                           \cup Go(s, {":"}, 46) \cup Ends0(k, s) : s \in 42..43})
    BY <1>1, <1>2, InTargetAll, Zenon
  <1>4. InTarget(k, Go(42, {"["}, 47))
    BY <1>1, PathClasses, InTargetGo, Zenon
  <1>5. InTarget(k, ReqPercent(44, 43))
    BY <1>1, InPathPercent, InTargetPath, Zenon
  <1> QED
    BY <1>3, <1>4, <1>5, Zenon DEF ReqHost, InTarget

LEMMA InTargetPort == ASSUME NEW k PROVE InTarget(k, ReqPort(k))
  <1>1. 46 \in PathStates /\ 26 \in PathStates
    BY DEF PathStates
  <1>2. /\ InTarget(k, Go(46, ReqDigit, 46)) /\ InTarget(k, Go(46, {"/"}, 26))
        /\ InTarget(k, Ends0(k, 46))
    BY <1>1, PathClasses, InTargetGo, InTargetEnds, Zenon
  <1> QED
    BY <1>2 DEF ReqPort, InTarget

\* The path's end with or without the mark of its beginning.
LEMMA RightPathEnds ==
  /\ \A s \in PathStates \cup {173} : Right(PathEnds(s, <<>>))
  /\ \A s \in {3, 174} : Right(PathEnds(s, <<"mark">>))
  <1>1. ASSUME NEW s, NEW before,
               \/ Region(s) \in {"path", "scheme"} /\ before = <<>>
               \/ Region(s) \in {"uri", "hier"} /\ before = <<"mark">>
        PROVE  Right(PathEnds(s, before))
    <2>1. Region(4) = "version-start" /\ Region(20) = "fragment-start" /\ Region(29) = "query-start"
      BY DEF Region
    <2>2. ASSUME NEW c, NEW j, NEW as, PathOver(c, j, as, before)
          PROVE  Moves(Region(s), c, j, as)
      <3>1. CASE Region(s) \in {"path", "scheme"} /\ before = <<>>
        BY <2>2, <3>1, Zenon DEF Moves, TargetMoves
      <3>2. CASE Region(s) \in {"uri", "hier"} /\ before = <<"mark">>
        BY <2>2, <3>2, Zenon DEF Moves, TargetMoves
      <3> QED  BY <1>1, <3>1, <3>2
    <2>3. Right(Do(s, {"sp"}, 4, before \o <<"request_path", "request_uri">>))
      <3>1. PathOver("sp", "version-start", before \o <<"request_path", "request_uri">>, before)
        BY DEF PathOver
      <3> QED  BY <2>1, <2>2, <3>1, RightDo
    <2>4. Right(Do(s, {"#"}, 20, before \o <<"request_path", "request_uri">>))
      <3>1. PathOver("#", "fragment-start", before \o <<"request_path", "request_uri">>, before)
        BY DEF PathOver
      <3> QED  BY <2>1, <2>2, <3>1, RightDo
    <2>5. Right(Do(s, {"?"}, 29, before \o <<"request_path">>))
      <3>1. PathOver("?", "query-start", before \o <<"request_path">>, before)
        BY DEF PathOver
      <3> QED  BY <2>1, <2>2, <3>1, RightDo
    <2> QED  BY <2>3, <2>4, <2>5, RightUnion, Zenon DEF PathEnds
  <1>2. \A s \in PathStates \cup {173} : Region(s) \in {"path", "scheme"}
    BY DEF Region, PathStates
  <1>3. \A s \in {3, 174} : Region(s) \in {"uri", "hier"}
    BY DEF Region
  <1> QED  BY <1>1, <1>2, <1>3

\* In a request line such arcs do as the path does; in a copy for JSON
\* requests they stay in the socket request.
LEMMA InTargetRight ==
  ASSUME NEW A, InTarget(0, A)
  PROVE  Right(A)
  <1>1. Right(PathArcs)  BY InPathRight DEF InPath
  <1>2. \A s \in PathStates : Right(Ends0(0, s))
    BY RightPathEnds DEF Ends0
  <1>3. Right(TargetArcs(0))  BY <1>1, <1>2 DEF TargetArcs, Right
  <1> QED  BY <1>3 DEF InTarget, Right

LEMMA InCopyRight ==
  ASSUME NEW A, InTarget(1, A)
  PROVE  Right(InCopy(A))
  <1>1. \A s \in PathStates : InJson(s) \in 194..347
    BY DEF PathStates, InJson
  <1>2. \A s \in 194..347 : Region(s) = "socket"
    BY DEF Region
  <1>3. InJson(199) = 199
    BY DEF InJson
  <1> SUFFICES ASSUME NEW a \in A, NEW c \in a[2]
               PROVE  Moves(Region(InJson(a[1])), c, Region(InJson(a[3])), a[4])
    BY DEF InCopy, Right
  <1>4. \A c1, as : as \in {<<>>, <<"request_path">>} => Moves("socket", c1, "socket", as)
    BY DEF Moves, EndMoves
  <1>5. CASE a \in PathArcs
    <2>1. a[1] \in PathStates /\ a[3] \in PathStates /\ a[4] = <<>>  BY <1>5 DEF PathArcs
    <2> QED  BY <2>1, <1>1, <1>2, <1>4, Zenon
  <1>6. ASSUME NEW s \in PathStates, a \in Ends0(1, s)
        PROVE  Moves(Region(InJson(a[1])), c, Region(InJson(a[3])), a[4])
    <2>1. a = <<s, {"sp"}, 199, <<"request_path">>>>
      BY <1>6 DEF Ends0, Do
    <2>2. a[1] = s /\ a[3] = 199 /\ a[4] = <<"request_path">>  BY <2>1
    <2>3. Region(InJson(a[1])) = "socket" /\ Region(InJson(a[3])) = "socket"
      BY <2>2, <1>1, <1>2, <1>3
    <2> QED  BY <2>2, <2>3, <1>4, Zenon
  <1> QED  BY <1>5, <1>6 DEF InTarget, TargetArcs

-----------------------------------------------------------------------------
(* The IP literal of the authority (http11_parser.rl includes uri.rl): all *)
(* within the path.                                                        *)

LEMMA InPathLitLastGroup == InPath(LitLastGroup)
  <1>1. /\ 77 \in PathStates /\ 77 + 1 \in PathStates /\ 79 \in PathStates /\ 80 \in PathStates
        /\ 81 \in Nat /\ 81 \in PathStates /\ 81..(81 + 2) \subseteq PathStates /\ 60 \in PathStates
        /\ 77..79 \subseteq PathStates
    BY DEF PathStates
  <1>2. InPath(Chain(77, <<ReqXdigit, ReqXdigit>>, 79))
    BY <1>1, InPathChain2, Zenon
  <1>3. InPath(ReqGroupEnds(77..79, 80, FALSE))
    BY <1>1, InPathGroupEnds, Zenon
  <1>4. InPath(Go(80, ReqXdigit, 81))
    BY <1>1, PathClasses, InPathGo, Zenon
  <1>5. InPath(Chain(81, <<ReqXdigit, ReqXdigit, ReqXdigit>>, 60))
    BY <1>1, InPathChain3, Zenon
  <1>6. ASSUME NEW s \in 81..83  PROVE InPath(Go(s, {"]"}, 61))
    <2>1. s \in PathStates /\ 61 \in PathStates  BY DEF PathStates
    <2> QED  BY <2>1, PathClasses, InPathGo
  <1>7. InPath(UNION {Go(s, {"]"}, 61) : s \in 81..83})
    BY <1>6, InPathAll, Zenon
  <1> QED
    BY <1>2, <1>3, <1>4, <1>5, <1>7, Zenon DEF LitLastGroup, InPath

LEMMA InPathLitStart == InPath(LitStart)
  <1>1. /\ 167 \in PathStates /\ 169 \in PathStates /\ 47 \in PathStates /\ 48 \in PathStates
        /\ 49 \in Nat /\ 49 \in PathStates /\ 49..(49 + 3) \subseteq PathStates
        /\ 53 \in PathStates /\ 91 \in PathStates
        /\ {53, 54, 84, 84 + 3, 84 + 6} \subseteq PathStates
    BY DEF PathStates
  <1>2. /\ InPath(Go(47, {"x06"}, 48)) /\ InPath(Go(47, ReqXdigit, 91))
        /\ InPath(Go(47, {":"}, 167)) /\ InPath(Go(47, {"v"}, 169))
    BY <1>1, PathClasses, InPathGo, Zenon
  <1>3. /\ InPath(Go(48, ReqXdigit, 49))
    BY <1>1, PathClasses, InPathGo, Zenon
  <1>4. /\ InPath(ReqH16(49, 53))
    BY <1>1, InPathH16, Zenon
  <1>5. /\ InPath(ReqMixedStart(53, 54, 84))
    BY <1>1, InPathMixedStart, Zenon
  <1> QED
    BY <1>2, <1>3, <1>4, <1>5, Zenon DEF LitStart, InPath

LEMMA InPathLitOctets == InPath(LitOctets)
  <1>1. /\ "." \in {"]", "."} /\ "]" \in {"]", "."} /\ 56 \in PathStates /\ 57 \in PathStates
        /\ 58 \in PathStates /\ 59 \in PathStates /\ 60 \in PathStates /\ 61 \in PathStates
        /\ 62 \in Nat /\ 62..(62 + 4) \subseteq PathStates /\ 67 \in Nat
        /\ 67..(67 + 4) \subseteq PathStates /\ 72 \in Nat /\ 72..(72 + 4) \subseteq PathStates
    BY DEF PathStates
  <1>2. /\ InPath(ReqOctetRest(62, 60, "]", 61)) /\ InPath(ReqOctetRest(67, 58, ".", 59))
        /\ InPath(ReqOctetRest(72, 56, ".", 57))
    BY <1>1, InPathOctetRest, Zenon
  <1> QED
    BY <1>2, InPathUnion, Zenon DEF LitOctets

LEMMA InPathLitMixed == InPath(LitMixed)
  <1>1. /\ 77 \in Nat /\ 77..(77 + 2) \subseteq PathStates /\ 80 \in PathStates /\ 84 \in Nat
        /\ 84..(84 + 6) \subseteq PathStates
    BY DEF PathStates
  <1> QED  BY <1>1, InPathMixedTail, PathClasses, Zenon DEF LitMixed

LEMMA InPathLitGroups12 == InPath(LitGroups12)
  <1>1. /\ 101 \in PathStates /\ 165 \in PathStates /\ 166 \in PathStates /\ 91 \in Nat
        /\ 91..(91 + 4) \subseteq PathStates /\ 96 \in Nat /\ 96 \in PathStates
        /\ 96..(96 + 4) \subseteq PathStates
    BY DEF PathStates
  <1>2. /\ InPath(ReqGroup(91, 96, 166)) /\ InPath(ReqGroup(96, 101, 165))
    BY <1>1, InPathGroup, Zenon
  <1> QED
    BY <1>2, InPathUnion, Zenon DEF LitGroups12

LEMMA InPathLitGroups34 == InPath(LitGroups34)
  <1>1. /\ 101 \in Nat /\ 101..(101 + 4) \subseteq PathStates /\ 106 \in Nat
        /\ 106 \in PathStates /\ 106..(106 + 4) \subseteq PathStates /\ 111 \in PathStates
        /\ 163 \in PathStates /\ 164 \in PathStates
    BY DEF PathStates
  <1>2. /\ InPath(ReqGroup(101, 106, 164)) /\ InPath(ReqGroup(106, 111, 163))
    BY <1>1, InPathGroup, Zenon
  <1> QED
    BY <1>2, InPathUnion, Zenon DEF LitGroups34

LEMMA InPathLitGroups56 == InPath(LitGroups56)
  <1>1. /\ 111 \in Nat /\ 111..(111 + 4) \subseteq PathStates /\ 116 \in Nat
        /\ 116 \in PathStates /\ 116..(116 + 4) \subseteq PathStates /\ 121 \in PathStates
        /\ 150 \in PathStates /\ 151 \in PathStates
    BY DEF PathStates
  <1>2. /\ InPath(ReqGroup(111, 116, 151)) /\ InPath(ReqGroup(116, 121, 150))
    BY <1>1, InPathGroup, Zenon
  <1> QED
    BY <1>2, InPathUnion, Zenon DEF LitGroups56

LEMMA InPathLitGroupLoop == InPath(LitGroupLoop)
  <1>1. /\ 121 \in Nat /\ 121 \in PathStates /\ 121..(121 + 4) \subseteq PathStates
        /\ 126 \in PathStates
    BY DEF PathStates
  <1> QED  BY <1>1, InPathGroup, PathClasses, Zenon DEF LitGroupLoop

LEMMA InPathLitTail1 == InPath(LitTail1)
  <1>1. /\ 126 \in PathStates /\ 127 \in PathStates /\ 128 \in Nat
        /\ 128..(128 + 2) \subseteq PathStates /\ 131 \in PathStates /\ 48 \in PathStates
        /\ 61 \in PathStates /\ {126, 127, 143, 143 + 3, 143 + 6} \subseteq PathStates
    BY DEF PathStates
  <1>2. /\ InPath(Go(126, {"x02", "x03"}, 48))
    BY <1>1, PathClasses, InPathGo, Zenon
  <1>3. /\ InPath(ReqMixedStart(126, 127, 143))
    BY <1>1, InPathMixedStart, Zenon
  <1>4. /\ InPath(Go(126, {"]"}, 61))
    BY <1>1, PathClasses, InPathGo, Zenon
  <1>5. /\ InPath(ReqMixedHead(127, 128, 131, TRUE))
    BY <1>1, InPathMixedHead, Zenon
  <1> QED
    BY <1>2, <1>3, <1>4, <1>5, Zenon DEF LitTail1, InPath

LEMMA InPathLitTail2 == InPath(LitTail2)
  <1>1. /\ 132 \in PathStates /\ 133 \in Nat /\ 133..(133 + 2) \subseteq PathStates
        /\ 80 \in PathStates /\ {131, 132, 136, 136 + 3, 136 + 6} \subseteq PathStates
    BY DEF PathStates
  <1>2. /\ InPath(ReqMixedStart(131, 132, 136))
    BY <1>1, InPathMixedStart, Zenon
  <1>3. /\ InPath(ReqMixedHead(132, 133, 80, TRUE))
    BY <1>1, InPathMixedHead, Zenon
  <1> QED
    BY <1>2, <1>3, InPathUnion, Zenon DEF LitTail2

LEMMA InPathLitTail2Mixed == InPath(LitTail2Mixed)
  <1>1. /\ 133 \in Nat /\ 133..(133 + 2) \subseteq PathStates /\ 136 \in Nat
        /\ 136..(136 + 6) \subseteq PathStates /\ 80 \in PathStates
    BY DEF PathStates
  <1> QED  BY <1>1, InPathMixedTail, PathClasses, Zenon DEF LitTail2Mixed

LEMMA InPathLitTail1Mixed == InPath(LitTail1Mixed)
  <1>1. /\ 128 \in Nat /\ 128..(128 + 2) \subseteq PathStates /\ 131 \in PathStates
        /\ 143 \in Nat /\ 143..(143 + 6) \subseteq PathStates
    BY DEF PathStates
  <1> QED  BY <1>1, InPathMixedTail, PathClasses, Zenon DEF LitTail1Mixed

LEMMA InPathLitAfter54 == InPath(LitAfter54)
  <1>1. /\ 131 \in PathStates /\ 150 \in PathStates /\ 151 \in PathStates /\ 152 \in PathStates
        /\ 153 \in Nat /\ 153..(153 + 2) \subseteq PathStates /\ 48 \in PathStates
        /\ {150, 127, 143, 143 + 3, 143 + 6} \subseteq PathStates
        /\ {151, 152, 156, 156 + 3, 156 + 6} \subseteq PathStates
    BY DEF PathStates
  <1>2. /\ InPath(Go(150, {"x02", "x03"}, 48))
    BY <1>1, PathClasses, InPathGo, Zenon
  <1>3. /\ InPath(ReqMixedStart(150, 127, 143))
    BY <1>1, InPathMixedStart, Zenon
  <1>4. /\ InPath(Go(151, {"x02", "x03"}, 48))
    BY <1>1, PathClasses, InPathGo, Zenon
  <1>5. /\ InPath(ReqMixedStart(151, 152, 156))
    BY <1>1, InPathMixedStart, Zenon
  <1>6. /\ InPath(ReqMixedHead(152, 153, 131, FALSE))
    BY <1>1, InPathMixedHead, Zenon
  <1> QED
    BY <1>2, <1>3, <1>4, <1>5, <1>6, Zenon DEF LitAfter54, InPath

LEMMA InPathLitAfter5Mixed == InPath(LitAfter5Mixed)
  <1>1. /\ 131 \in PathStates /\ 153 \in Nat /\ 153..(153 + 2) \subseteq PathStates
        /\ 156 \in Nat /\ 156..(156 + 6) \subseteq PathStates
    BY DEF PathStates
  <1> QED  BY <1>1, InPathMixedTail, PathClasses, Zenon DEF LitAfter5Mixed

LEMMA InPathLitShort == InPath(LitShort)
  <1>1. /\ 163 \in PathStates /\ 164 \in PathStates /\ 165 \in PathStates /\ 166 \in PathStates
        /\ 167 \in PathStates /\ 168 \in PathStates /\ 48 \in PathStates /\ 49 \in PathStates
        /\ 61 \in PathStates /\ {168, 127, 143, 143 + 3, 143 + 6} \subseteq PathStates
    BY DEF PathStates
  <1>2. /\ InPath(Go(163, {"x02", "x03"}, 48)) /\ InPath(Go(163, ReqXdigit, 49))
        /\ InPath(Go(164, {"x02", "x03"}, 48)) /\ InPath(Go(165, {"x03"}, 48))
    BY <1>1, PathClasses, InPathGo, Zenon
  <1>3. /\ InPath(Go(166, {"x04"}, 48)) /\ InPath(Go(167, {":"}, 168))
        /\ InPath(Go(168, {"x02", "x03", "x04", "x05"}, 48))
    BY <1>1, PathClasses, InPathGo, Zenon
  <1>4. /\ InPath(ReqMixedStart(168, 127, 143))
    BY <1>1, InPathMixedStart, Zenon
  <1>5. /\ InPath(Go(168, {"]"}, 61))
    BY <1>1, PathClasses, InPathGo, Zenon
  <1> QED
    BY <1>2, <1>3, <1>4, <1>5 DEF LitShort, InPath

LEMMA InPathLitFuture == InPath(LitFuture)
  <1>1. /\ 169 \in PathStates /\ 170 \in PathStates /\ 171 \in PathStates /\ 172 \in PathStates
        /\ 61 \in PathStates
    BY DEF PathStates
  <1>2. /\ InPath(Go(169, ReqXdigit, 170)) /\ InPath(Go(170, ReqXdigit, 170))
        /\ InPath(Go(170, {"."}, 171)) /\ InPath(Go(171, ReqUser, 172))
    BY <1>1, PathClasses, InPathGo, Zenon
  <1>3. /\ InPath(Go(172, ReqUser, 172)) /\ InPath(Go(172, {"]"}, 61))
    BY <1>1, PathClasses, InPathGo, Zenon
  <1> QED
    BY <1>2, <1>3 DEF LitFuture, InPath

-----------------------------------------------------------------------------
(* The method, the beginnings of the target and the header fields.         *)

LEMMA RightMethodState ==
  ASSUME NEW s, NEW t, Region(s) = "method", Region(t) = "method"
  PROVE  Right(MethodState(s, t))
  <1>1. Region(3) = "uri"
    BY DEF Region
  <1>2. Right(Do(s, {"sp"}, 3, <<"request_method">>))
    <2>1. \A c \in {"sp"} : Moves("method", c, "uri", <<"request_method">>)
      BY DEF Moves, EndMoves
    <2> QED  BY <1>1, <2>1, RightDo
  <1>3. Right(Go(s, ReqDigit \cup Upper, t))
    <2>1. \A c \in ReqDigit \cup Upper : Moves("method", c, "method", <<>>)
      BY DEF Moves, EndMoves, ReqDigit, Upper
    <2> QED  BY <2>1, RightGo
  <1> QED  BY <1>2, <1>3 DEF MethodState, Right

LEMMA RightAll ==
  ASSUME NEW S, \A A \in S : Right(A)
  PROVE  Right(UNION S)
  BY DEF Right

LEMMA RightMethodRest == Right(MethodRest1) /\ Right(MethodRest2)
  <1>1. ASSUME NEW s \in 175..192  PROVE Right(MethodState(s, s + 1))
    <2>1. Region(s) = "method" /\ Region(s + 1) = "method"  BY DEF Region
    <2> QED  BY <2>1, RightMethodState
  <1>2. ASSUME NEW A \in {MethodState(s, s + 1) : s \in 175..184}  PROVE Right(A)
    BY <1>1
  <1>3. ASSUME NEW A \in {MethodState(s, s + 1) : s \in 185..192}  PROVE Right(A)
    BY <1>1
  <1>4. Right(UNION {MethodState(s, s + 1) : s \in 185..192})
    BY <1>3, RightAll, Zenon
  <1>5. Right(Do(193, {"sp"}, 3, <<"request_method">>))
    <2>1. Region(193) = "method" /\ Region(3) = "uri"  BY DEF Region
    <2>2. \A c \in {"sp"} : Moves("method", c, "uri", <<"request_method">>)
      BY DEF Moves, EndMoves
    <2> QED  BY <2>1, <2>2, RightDo, Zenon
  <1>6. Right(MethodRest1)
    BY <1>2, RightAll, Zenon DEF MethodRest1
  <1> QED  BY <1>4, <1>5, <1>6 DEF MethodRest2, Right

LEMMA RightMethodStart == Right(MethodStart)
  <1>1. /\ Region(2) = "method" /\ Region(175) = "method"
    BY DEF Region
  <1>2. Right(Do(1, ReqDigit \cup Upper, 2, <<"mark">>))
    <2>1. \A c \in ReqDigit \cup Upper : Moves("start", c, "method", <<"mark">>)
      BY DEF Moves, EndMoves, Upper, ReqDigit
    <2>2. Region(1) = "start" /\ Region(2) = "method"  BY DEF Region
    <2> QED  BY <2>1, <2>2, RightDo, Zenon
  <1>3. Right(Do(1, {"<"}, 194, <<"mark">>))
    <2>1. \A c \in {"<"} : Moves("start", c, "socket", <<"mark">>)
      BY DEF Moves, EndMoves
    <2>2. Region(1) = "start" /\ Region(194) = "socket"  BY DEF Region
    <2> QED  BY <2>1, <2>2, RightDo, Zenon
  <1>4. Right(Do(1, {"@"}, 198, <<"mark">>))
    <2>1. \A c \in {"@"} : Moves("start", c, "socket", <<"mark">>)
      BY DEF Moves, EndMoves
    <2>2. Region(1) = "start" /\ Region(198) = "socket"  BY DEF Region
    <2> QED  BY <2>1, <2>2, RightDo, Zenon
  <1>5. Right(MethodState(2, 175))
    BY <1>1, RightMethodState
  <1> QED  BY <1>2, <1>3, <1>4, <1>5
      DEF MethodStart, Right

LEMMA RightUriBegins == Right(UriBegins)
  <1>1. Right(Do(3, (ReqName \ Letter) \cup {"@"}, 19, <<"mark">>))
    <2>1. \A c \in (ReqName \ Letter) \cup {"@"} : Moves("uri", c, "path", <<"mark">>)
      BY DEF Moves, TargetMoves, ReqName, Letter, Upper, ReqDigit
    <2>2. Region(3) = "uri" /\ Region(19) = "path"  BY DEF Region
    <2> QED  BY <2>1, <2>2, RightDo, Zenon
  <1>2. Right(Do(3, Letter, 173, <<"mark">>))
    <2>1. \A c \in Letter : Moves("uri", c, "scheme", <<"mark">>)
      BY DEF Moves, TargetMoves, Letter, Upper, ReqDigit
    <2>2. Region(3) = "uri" /\ Region(173) = "scheme"  BY DEF Region
    <2> QED  BY <2>1, <2>2, RightDo, Zenon
  <1>3. Right(Do(3, {"%"}, 24, <<"mark">>))
    <2>1. \A c \in {"%"} : Moves("uri", c, "path", <<"mark">>)
      BY DEF Moves, TargetMoves, Letter, Upper, ReqDigit
    <2>2. Region(3) = "uri" /\ Region(24) = "path"  BY DEF Region
    <2> QED  BY <2>1, <2>2, RightDo, Zenon
  <1>4. Right(Do(3, {"/"}, 33, <<"mark">>))
    <2>1. \A c \in {"/"} : Moves("uri", c, "path", <<"mark">>)
      BY DEF Moves, TargetMoves, Letter, Upper, ReqDigit
    <2>2. Region(3) = "uri" /\ Region(33) = "path"  BY DEF Region
    <2> QED  BY <2>1, <2>2, RightDo, Zenon
  <1>5. Right(PathEnds(3, <<"mark">>))
    BY RightPathEnds DEF PathStates
  <1> QED  BY <1>1, <1>2, <1>3, <1>4, <1>5
      DEF UriBegins, Right

LEMMA RightHeaderName == Right(HeaderName)
  <1>1. Right(Do(13, Token \ {"lf", "cr"}, 14, <<"start_field">>))
    <2>1. \A c \in Token \ {"lf", "cr"} : Moves("line", c, "name", <<"start_field">>)
      BY DEF Moves, FieldMoves, Token, Letter, Upper, ReqDigit
    <2>2. Region(13) = "line" /\ Region(14) = "name"  BY DEF Region
    <2> QED  BY <2>1, <2>2, RightDo, Zenon
  <1>2. Right(Do(13, {"lf"}, 348, <<"start_field", "done">>))
    <2>1. \A c \in {"lf"} : Moves("line", c, "end", <<"start_field", "done">>)
      BY DEF Moves, FieldMoves
    <2>2. Region(13) = "line" /\ Region(348) = "end"  BY DEF Region
    <2> QED  BY <2>1, <2>2, RightDo, Zenon
  <1>3. Right(Do(13, {"cr"}, 18, <<"start_field">>))
    <2>1. \A c \in {"cr"} : Moves("line", c, "line-cr", <<"start_field">>)
      BY DEF Moves, FieldMoves
    <2>2. Region(13) = "line" /\ Region(18) = "line-cr"  BY DEF Region
    <2> QED  BY <2>1, <2>2, RightDo, Zenon
  <1>4. Right(Go(14, Token, 14))
    <2>1. \A c \in Token : Moves("name", c, "name", <<>>)
      BY DEF Moves, FieldMoves, Token, Letter, Upper, ReqDigit
    <2>2. Region(14) = "name"  BY DEF Region
    <2> QED  BY <2>1, <2>2, RightGo, Zenon
  <1>5. Right(Do(14, {":"}, 15, <<"write_field">>))
    <2>1. \A c \in {":"} : Moves("name", c, "gap", <<"write_field">>)
      BY DEF Moves, FieldMoves
    <2>2. Region(14) = "name" /\ Region(15) = "gap"  BY DEF Region
    <2> QED  BY <2>1, <2>2, RightDo, Zenon
  <1> QED  BY <1>1, <1>2, <1>3, <1>4, <1>5
      DEF HeaderName, Right

LEMMA RightHeaderValue == Right(HeaderValue)
  <1>1. Right(Do(15, Value \ {"ht", "sp"}, 16, <<"start_value">>))
    <2>1. \A c \in Value \ {"ht", "sp"} : Moves("gap", c, "value", <<"start_value">>)
      BY DEF Moves, FieldMoves, Value, RequestChars, Token, ReqQuery, ReqPchar, ReqUser, ReqName,
             Letter, Upper, ReqDigit
    <2>2. Region(15) = "gap" /\ Region(16) = "value"  BY DEF Region
    <2> QED  BY <2>1, <2>2, RightDo, Zenon
  <1>2. Right(Do(15, {"ht", "sp"}, 15, <<"start_value">>))
    <2>1. \A c \in {"ht", "sp"} : Moves("gap", c, "gap", <<"start_value">>)
      BY DEF Moves, FieldMoves
    <2>2. Region(15) = "gap"  BY DEF Region
    <2> QED  BY <2>1, <2>2, RightDo, Zenon
  <1>3. Right(Do(15, {"lf"}, 13, <<"start_value", "write_value">>))
    <2>1. \A c \in {"lf"} : Moves("gap", c, "line", <<"start_value", "write_value">>)
      BY DEF Moves, FieldMoves, LineOver
    <2>2. Region(15) = "gap" /\ Region(13) = "line"  BY DEF Region
    <2> QED  BY <2>1, <2>2, RightDo, Zenon
  <1>4. Right(Do(15, {"cr"}, 17, <<"start_value", "write_value">>))
    <2>1. \A c \in {"cr"} : Moves("gap", c, "line-end", <<"start_value", "write_value">>)
      BY DEF Moves, FieldMoves, LineOver
    <2>2. Region(15) = "gap" /\ Region(17) = "line-end"  BY DEF Region
    <2> QED  BY <2>1, <2>2, RightDo, Zenon
  <1>5. Right(Go(16, Value, 16))
    <2>1. \A c \in Value : Moves("value", c, "value", <<>>)
      BY DEF Moves, FieldMoves, Value, RequestChars, Token, ReqQuery, ReqPchar, ReqUser, ReqName,
             Letter, Upper, ReqDigit
    <2>2. Region(16) = "value"  BY DEF Region
    <2> QED  BY <2>1, <2>2, RightGo, Zenon
  <1>6. Right(Do(16, {"lf"}, 13, <<"write_value">>))
    <2>1. \A c \in {"lf"} : Moves("value", c, "line", <<"write_value">>)
      BY DEF Moves, FieldMoves, LineOver
    <2>2. Region(16) = "value" /\ Region(13) = "line"  BY DEF Region
    <2> QED  BY <2>1, <2>2, RightDo, Zenon
  <1>7. Right(Do(16, {"cr"}, 17, <<"write_value">>))
    <2>1. \A c \in {"cr"} : Moves("value", c, "line-end", <<"write_value">>)
      BY DEF Moves, FieldMoves, LineOver
    <2>2. Region(16) = "value" /\ Region(17) = "line-end"  BY DEF Region
    <2> QED  BY <2>1, <2>2, RightDo, Zenon
  <1>8. Right(Go(17, {"lf"}, 13))
    <2>1. \A c \in {"lf"} : Moves("line-end", c, "line", <<>>)
      BY DEF Moves, FieldMoves, LineOver
    <2>2. Region(17) = "line-end" /\ Region(13) = "line"  BY DEF Region
    <2> QED  BY <2>1, <2>2, RightGo, Zenon
  <1> QED  BY <1>1, <1>2, <1>3, <1>4, <1>5, <1>6, <1>7, <1>8
      DEF HeaderValue, Right

-----------------------------------------------------------------------------
(* The query, the fragment, the version and the empty line.                *)

LEMMA RightPercent ==
  ASSUME NEW s \in Nat, NEW t, NEW i \in {"path", "query", "fragment"},
         Region(s) = i, Region(s + 1) = i, Region(t) = i
  PROVE  Right(ReqPercent(s, t))
  <1>1. \A c \in ReqXdigit : Moves(i, c, i, <<>>)
    BY DEF Moves, TargetMoves, ReqXdigit, ReqDigit
  <1>2. Right(Go(s, ReqXdigit, s + 1)) /\ Right(Go(s + 1, ReqXdigit, t))
    BY <1>1, RightGo
  <1>3. ReqPercent(s, t) = Go(s, ReqXdigit, s + 1) \cup Go(s + 1, ReqXdigit, t)
    BY DEF ReqPercent, Chain
  <1> QED  BY <1>2, <1>3, RightUnion

LEMMA RightPercents ==
  /\ Right(ReqPercent(22, 21)) /\ Right(ReqPercent(24, 19)) /\ Right(ReqPercent(27, 26))
  /\ Right(ReqPercent(31, 30))
  <1>1. /\ Region(22) = "fragment" /\ Region(22 + 1) = "fragment" /\ Region(21) = "fragment"
        /\ 22 \in Nat
    BY DEF Region
  <1>2. Region(24) = "path" /\ Region(24 + 1) = "path" /\ Region(19) = "path" /\ 24 \in Nat
    BY DEF Region
  <1>3. Region(27) = "path" /\ Region(27 + 1) = "path" /\ Region(26) = "path" /\ 27 \in Nat
    BY DEF Region
  <1>4. Region(31) = "query" /\ Region(31 + 1) = "query" /\ Region(30) = "query" /\ 31 \in Nat
    BY DEF Region
  <1>5. Right(ReqPercent(22, 21))  BY <1>1, RightPercent, Zenon
  <1>6. Right(ReqPercent(24, 19))  BY <1>2, RightPercent, Zenon
  <1>7. Right(ReqPercent(27, 26))  BY <1>3, RightPercent, Zenon
  <1>8. Right(ReqPercent(31, 30))  BY <1>4, RightPercent, Zenon
  <1> QED  BY <1>5, <1>6, <1>7, <1>8

LEMMA RightQueryEnds ==
  Right(QueryEnds(29, <<"start_query">>)) /\ Right(QueryEnds(30, <<>>))
  <1>1. ASSUME NEW s, NEW before,
               \/ Region(s) = "query-start" /\ before = <<"start_query">>
               \/ Region(s) = "query" /\ before = <<>>
        PROVE  Right(QueryEnds(s, before))
    <2> DEFINE as == before \o <<"query_string", "request_uri">>
    <2>1. Region(4) = "version-start" /\ Region(20) = "fragment-start"
      BY DEF Region
    <2>2. ASSUME NEW c, NEW j, QueryOver(c, j, as, before)
          PROVE  Moves(Region(s), c, j, as)
      BY <1>1, <2>2 DEF Moves, TargetMoves
    <2>3. Right(Do(s, {"sp"}, 4, as))
      <3>1. QueryOver("sp", "version-start", as, before)
        BY DEF QueryOver
      <3> HIDE DEF as
      <3> QED  BY <2>1, <2>2, <3>1, RightDo
    <2>4. Right(Do(s, {"#"}, 20, as))
      <3>1. QueryOver("#", "fragment-start", as, before)
        BY DEF QueryOver
      <3> HIDE DEF as
      <3> QED  BY <2>1, <2>2, <3>1, RightDo
    <2> HIDE DEF as
    <2>5. ASSUME NEW c \in {<<"sp", 4>>, <<"#", 20>>}  PROVE Right(Do(s, {c[1]}, c[2], as))
      <3>1. CASE c = <<"sp", 4>>  BY <2>3, <3>1
      <3>2. CASE c = <<"#", 20>>  BY <2>4, <3>2
      <3> QED  BY <3>1, <3>2
    <2>6. Right(UNION {Do(s, {c[1]}, c[2], as) : c \in {<<"sp", 4>>, <<"#", 20>>}})
      BY <2>5, RightAll, Zenon
    <2> QED  BY <2>6 DEF QueryEnds, as
  <1>2. Region(29) = "query-start" /\ Region(30) = "query"
    BY DEF Region
  <1> QED  BY <1>1, <1>2

LEMMA RightVersion == Right(Version)
  <1> DEFINE C == <<{"T"}, {"T"}, {"P"}, {"/"}, {"1"}, {"."}, {"0", "1"}>>
  <1>1. \A s \in 5..12 : Region(s) = "version"
    BY DEF Region
  <1>2. Right(Do(4, {"H"}, 5, <<"mark">>))
    <2>1. \A c \in {"H"} : Moves("version-start", c, "version", <<"mark">>)
      BY DEF Moves, EndMoves
    <2>2. Region(4) = "version-start" /\ Region(5) = "version"  BY DEF Region
    <2> QED  BY <2>1, <2>2, RightDo, Zenon
  <1>3. Right(Chain(5, C, 12))
    <2>1. \A i \in 1..7 : {"cr", "lf"} \cap C[i] = {}
      OBVIOUS
    <2>2. DOMAIN C = 1..7 /\ Len(C) = 7
      OBVIOUS
    <2> HIDE DEF C
    <2>3. ASSUME NEW i \in 1..7  PROVE Right(Go(5 + i - 1, C[i], IF i = 7 THEN 12 ELSE 5 + i))
      <3> DEFINE s == 5 + i - 1
                 t == IF i = 7 THEN 12 ELSE 5 + i
      <3>1. s \in 5..12 /\ t \in 5..12  OBVIOUS
      <3>2. \A c \in C[i] : Moves("version", c, "version", <<>>)  BY <2>1 DEF Moves, EndMoves
      <3> HIDE DEF s, t
      <3>3. Region(s) = "version" /\ Region(t) = "version"  BY <1>1, <3>1
      <3>4. Right(Go(s, C[i], t))  BY <3>2, <3>3, RightGo, Zenon
      <3> QED  BY <3>4 DEF s, t
    <2>4. Chain(5, C, 12) = UNION {Go(5 + i - 1, C[i], IF i = 7 THEN 12 ELSE 5 + i) : i \in 1..7}
      BY <2>2 DEF Chain
    <2> QED  BY <2>3, <2>4, RightAll, Zenon
  <1>4. Right(Do(12, {"lf"}, 13, <<"http_version">>))
    <2>1. \A c \in {"lf"} : Moves("version", c, "line", <<"http_version">>)
      BY DEF Moves, EndMoves, LineOver
    <2>2. Region(12) = "version" /\ Region(13) = "line"  BY DEF Region
    <2> QED  BY <2>1, <2>2, RightDo, Zenon
  <1>5. Right(Do(12, {"cr"}, 17, <<"http_version">>))
    <2>1. \A c \in {"cr"} : Moves("version", c, "line-end", <<"http_version">>)
      BY DEF Moves, EndMoves, LineOver
    <2>2. Region(12) = "version" /\ Region(17) = "line-end"  BY DEF Region
    <2> QED  BY <2>1, <2>2, RightDo, Zenon
  <1> QED  BY <1>2, <1>3, <1>4, <1>5 DEF Version, Right

LEMMA RightHeaderEnd == Right(HeaderEnd)
  <1>1. Region(14) = "name" /\ Region(15) = "gap"
    BY DEF Region
  <1>2. \A s \in {18, 348} : Region(s) \in {"line-cr", "end"}
    BY DEF Region
  <1>3. ASSUME NEW s, Region(s) \in {"line-cr", "end"}
        PROVE  Right(Go(s, Token \ {"lf"}, 14)) /\ Right(Do(s, {":"}, 15, <<"write_field">>))
    <2> DEFINE i == Region(s)
    <2>1. \A c \in Token \ {"lf"} : Moves(i, c, "name", <<>>)
      BY <1>3 DEF Moves, FieldMoves, Token, Letter, Upper, ReqDigit
    <2>2. \A c \in {":"} : Moves(i, c, "gap", <<"write_field">>)
      BY <1>3 DEF Moves, FieldMoves
    <2>3. Right(Go(s, Token \ {"lf"}, 14))
      BY <1>1, <2>1, RightGo
    <2>4. Right(Do(s, {":"}, 15, <<"write_field">>))
      BY <1>1, <2>2, RightDo
    <2> QED  BY <2>3, <2>4
  <1>4. Right(UNION {Go(s, Token \ {"lf"}, 14) \cup Do(s, {":"}, 15, <<"write_field">>)
                     : s \in {18, 348}})
    <2>1. ASSUME NEW s \in {18, 348}
          PROVE  Right(Go(s, Token \ {"lf"}, 14) \cup Do(s, {":"}, 15, <<"write_field">>))
      <3>1. Region(s) \in {"line-cr", "end"}  BY <1>2, Zenon
      <3>2. Right(Go(s, Token \ {"lf"}, 14)) /\ Right(Do(s, {":"}, 15, <<"write_field">>))
        BY <3>1, <1>3
      <3> QED  BY <3>2, RightUnion, Zenon
    <2> QED  BY <2>1, RightAll, Zenon
  <1>5. Right(Do(18, {"lf"}, 348, <<"done">>))
    <2>1. \A c \in {"lf"} : Moves("line-cr", c, "end", <<"done">>)
      BY DEF Moves, FieldMoves
    <2>2. Region(18) = "line-cr" /\ Region(348) = "end"  BY DEF Region
    <2> QED  BY <2>1, <2>2, RightDo, Zenon
  <1>6. Right(Go(348, {"lf"}, 14))
    <2>1. \A c \in {"lf"} : Moves("end", c, "name", <<>>)
      BY DEF Moves
    <2>2. Region(348) = "end" /\ Region(14) = "name"  BY DEF Region
    <2> QED  BY <2>1, <2>2, RightGo, Zenon
  <1> QED  BY <1>4, <1>5, <1>6, Zenon DEF HeaderEnd, Right

LEMMA RightNoScheme == Right(NoScheme)
  <1>1. Right(Go(19, ReqName \cup {"@"}, 19))
    <2>1. \A c \in ReqName \cup {"@"} : Moves("path", c, "path", <<>>)
      BY DEF Moves, TargetMoves, ReqName, Letter, Upper, ReqDigit
    <2>2. Region(19) = "path"  BY DEF Region
    <2> QED  BY <2>1, <2>2, RightGo, Zenon
  <1>2. Right(Go(19, {"%"}, 24))
    <2>1. \A c \in {"%"} : Moves("path", c, "path", <<>>)
      BY DEF Moves, TargetMoves
    <2>2. Region(19) = "path" /\ Region(24) = "path"  BY DEF Region
    <2> QED  BY <2>1, <2>2, RightGo, Zenon
  <1>3. Right(Go(19, {"/"}, 26))
    <2>1. \A c \in {"/"} : Moves("path", c, "path", <<>>)
      BY DEF Moves, TargetMoves
    <2>2. Region(19) = "path" /\ Region(26) = "path"  BY DEF Region
    <2> QED  BY <2>1, <2>2, RightGo, Zenon
  <1>4. Right(PathEnds(19, <<>>))
    BY RightPathEnds DEF PathStates
  <1> QED  BY <1>1, <1>2, <1>3, <1>4
      DEF NoScheme, Right

LEMMA RightReqFragment == Right(ReqFragment)
  <1>1. Right(Do(20, ReqQuery, 21, <<"mark">>))
    <2>1. \A c \in ReqQuery : Moves("fragment-start", c, "fragment", <<"mark">>)
      BY DEF Moves, TargetMoves, ReqQuery, ReqPchar, ReqUser, ReqName, Letter, Upper, ReqDigit
    <2>2. Region(20) = "fragment-start" /\ Region(21) = "fragment"  BY DEF Region
    <2> QED  BY <2>1, <2>2, RightDo, Zenon
  <1>2. Right(Do(20, {"%"}, 22, <<"mark">>))
    <2>1. \A c \in {"%"} : Moves("fragment-start", c, "fragment", <<"mark">>)
      BY DEF Moves, TargetMoves
    <2>2. Region(20) = "fragment-start" /\ Region(22) = "fragment"  BY DEF Region
    <2> QED  BY <2>1, <2>2, RightDo, Zenon
  <1>3. Right(Do(20, {"sp"}, 4, <<"mark", "fragment">>))
    <2>1. \A c \in {"sp"} : Moves("fragment-start", c, "version-start", <<"mark", "fragment">>)
      BY DEF Moves, TargetMoves
    <2>2. Region(20) = "fragment-start" /\ Region(4) = "version-start"  BY DEF Region
    <2> QED  BY <2>1, <2>2, RightDo, Zenon
  <1>4. Right(Go(21, ReqQuery, 21))
    <2>1. \A c \in ReqQuery : Moves("fragment", c, "fragment", <<>>)
      BY DEF Moves, TargetMoves, ReqQuery, ReqPchar, ReqUser, ReqName, Letter, Upper, ReqDigit
    <2>2. Region(21) = "fragment"  BY DEF Region
    <2> QED  BY <2>1, <2>2, RightGo, Zenon
  <1>5. Right(Go(21, {"%"}, 22))
    <2>1. \A c \in {"%"} : Moves("fragment", c, "fragment", <<>>)
      BY DEF Moves, TargetMoves
    <2>2. Region(21) = "fragment" /\ Region(22) = "fragment"  BY DEF Region
    <2> QED  BY <2>1, <2>2, RightGo, Zenon
  <1>6. Right(Do(21, {"sp"}, 4, <<"fragment">>))
    <2>1. \A c \in {"sp"} : Moves("fragment", c, "version-start", <<"fragment">>)
      BY DEF Moves, TargetMoves
    <2>2. Region(21) = "fragment" /\ Region(4) = "version-start"  BY DEF Region
    <2> QED  BY <2>1, <2>2, RightDo, Zenon
  <1>7. Right(ReqPercent(22, 21))
    BY RightPercents
  <1>8. Right(ReqPercent(24, 19))
    BY RightPercents
  <1> QED  BY <1>1, <1>2, <1>3, <1>4, <1>5, <1>6, <1>7, <1>8
      DEF ReqFragment, Right

LEMMA RightReqPath == Right(ReqPath)
  <1>1. Right(Go(26, ReqPchar \cup {"/"}, 26))
    <2>1. \A c \in ReqPchar \cup {"/"} : Moves("path", c, "path", <<>>)
      BY DEF Moves, TargetMoves, ReqPchar, ReqUser, ReqName, Letter, Upper, ReqDigit
    <2>2. Region(26) = "path"  BY DEF Region
    <2> QED  BY <2>1, <2>2, RightGo, Zenon
  <1>2. Right(Go(26, {"%"}, 27))
    <2>1. \A c \in {"%"} : Moves("path", c, "path", <<>>)
      BY DEF Moves, TargetMoves
    <2>2. Region(26) = "path" /\ Region(27) = "path"  BY DEF Region
    <2> QED  BY <2>1, <2>2, RightGo, Zenon
  <1>3. Right(PathEnds(26, <<>>))
    BY RightPathEnds DEF PathStates
  <1>4. Right(ReqPercent(27, 26))
    BY RightPercents
  <1> QED  BY <1>1, <1>2, <1>3, <1>4
      DEF ReqPath, Right

LEMMA RightReqQueryString == Right(ReqQueryString)
  <1>1. Right(Do(29, ReqQuery, 30, <<"start_query">>))
    <2>1. \A c \in ReqQuery : Moves("query-start", c, "query", <<"start_query">>)
      BY DEF Moves, TargetMoves, ReqQuery, ReqPchar, ReqUser, ReqName, Letter, Upper, ReqDigit
    <2>2. Region(29) = "query-start" /\ Region(30) = "query"  BY DEF Region
    <2> QED  BY <2>1, <2>2, RightDo, Zenon
  <1>2. Right(Do(29, {"%"}, 31, <<"start_query">>))
    <2>1. \A c \in {"%"} : Moves("query-start", c, "query", <<"start_query">>)
      BY DEF Moves, TargetMoves
    <2>2. Region(29) = "query-start" /\ Region(31) = "query"  BY DEF Region
    <2> QED  BY <2>1, <2>2, RightDo, Zenon
  <1>3. Right(QueryEnds(29, <<"start_query">>))
    BY RightQueryEnds
  <1>4. Right(Go(30, ReqQuery, 30))
    <2>1. \A c \in ReqQuery : Moves("query", c, "query", <<>>)
      BY DEF Moves, TargetMoves, ReqQuery, ReqPchar, ReqUser, ReqName, Letter, Upper, ReqDigit
    <2>2. Region(30) = "query"  BY DEF Region
    <2> QED  BY <2>1, <2>2, RightGo, Zenon
  <1>5. Right(Go(30, {"%"}, 31))
    <2>1. \A c \in {"%"} : Moves("query", c, "query", <<>>)
      BY DEF Moves, TargetMoves
    <2>2. Region(30) = "query" /\ Region(31) = "query"  BY DEF Region
    <2> QED  BY <2>1, <2>2, RightGo, Zenon
  <1>6. Right(QueryEnds(30, <<>>))
    BY RightQueryEnds
  <1>7. Right(ReqPercent(31, 30))
    BY RightPercents
  <1> QED  BY <1>1, <1>2, <1>3, <1>4, <1>5, <1>6, <1>7
      DEF ReqQueryString, Right

LEMMA RightReqScheme == Right(ReqScheme)
  <1>1. Right(Go(173, {"!", "(", "@", "more"}, 19))
    <2>1. \A c \in {"!", "(", "@", "more"} : Moves("scheme", c, "path", <<>>)
      BY DEF Moves, TargetMoves, SchemeChars, Letter, Upper, ReqDigit
    <2>2. Region(173) = "scheme" /\ Region(19) = "path"  BY DEF Region
    <2> QED  BY <2>1, <2>2, RightGo, Zenon
  <1>2. Right(Go(173, ReqName \ {"!", "(", "more"}, 173))
    <2>1. \A c \in ReqName \ {"!", "(", "more"} : Moves("scheme", c, "scheme", <<>>)
      BY DEF Moves, TargetMoves, ReqName, Letter, Upper, ReqDigit, SchemeChars
    <2>2. Region(173) = "scheme"  BY DEF Region
    <2> QED  BY <2>1, <2>2, RightGo, Zenon
  <1>3. Right(Go(173, {"%"}, 24))
    <2>1. \A c \in {"%"} : Moves("scheme", c, "path", <<>>)
      BY DEF Moves, TargetMoves, SchemeChars, Letter, Upper, ReqDigit
    <2>2. Region(173) = "scheme" /\ Region(24) = "path"  BY DEF Region
    <2> QED  BY <2>1, <2>2, RightGo, Zenon
  <1>4. Right(Go(173, {"/"}, 26))
    <2>1. \A c \in {"/"} : Moves("scheme", c, "path", <<>>)
      BY DEF Moves, TargetMoves, SchemeChars, Letter, Upper, ReqDigit
    <2>2. Region(173) = "scheme" /\ Region(26) = "path"  BY DEF Region
    <2> QED  BY <2>1, <2>2, RightGo, Zenon
  <1>5. Right(Go(173, {":"}, 174))
    <2>1. \A c \in {":"} : Moves("scheme", c, "hier", <<>>)
      BY DEF Moves, TargetMoves, SchemeChars, Letter, Upper, ReqDigit
    <2>2. Region(173) = "scheme" /\ Region(174) = "hier"  BY DEF Region
    <2> QED  BY <2>1, <2>2, RightGo
  <1>6. Right(PathEnds(173, <<>>))
    BY RightPathEnds DEF PathStates
  <1>7. Right(Do(174, ReqPchar, 26, <<"mark">>))
    <2>1. \A c \in ReqPchar : Moves("hier", c, "path", <<"mark">>)
      BY DEF Moves, TargetMoves, ReqPchar, ReqUser, ReqName, Letter, Upper, ReqDigit
    <2>2. Region(174) = "hier" /\ Region(26) = "path"  BY DEF Region
    <2> QED  BY <2>1, <2>2, RightDo, Zenon
  <1>8. Right(Do(174, {"%"}, 27, <<"mark">>))
    <2>1. \A c \in {"%"} : Moves("hier", c, "path", <<"mark">>)
      BY DEF Moves, TargetMoves
    <2>2. Region(174) = "hier" /\ Region(27) = "path"  BY DEF Region
    <2> QED  BY <2>1, <2>2, RightDo, Zenon
  <1>9. Right(Do(174, {"/"}, 33, <<"mark">>))
    <2>1. \A c \in {"/"} : Moves("hier", c, "path", <<"mark">>)
      BY DEF Moves, TargetMoves
    <2>2. Region(174) = "hier" /\ Region(33) = "path"  BY DEF Region
    <2> QED  BY <2>1, <2>2, RightDo, Zenon
  <1>10. Right(PathEnds(174, <<"mark">>))
    BY RightPathEnds DEF PathStates
  <1> QED  BY <1>1, <1>2, <1>3, <1>4, <1>5, <1>6, <1>7, <1>8, <1>9, <1>10
      DEF ReqScheme, Right

-----------------------------------------------------------------------------
(* Socket requests, and all the arcs together.                             *)

SocketStates == 194..347 \cup {349}

LEMMA SocketRegion == \A s \in SocketStates : Region(s) = "socket"
  BY DEF Region, SocketStates

LEMMA RightSocketDo ==
  ASSUME NEW s \in SocketStates, NEW C, NEW t \in SocketStates,
         NEW as \in {<<>>, <<"mark">>, <<"request_path">>, <<"xml", "done">>, <<"json", "done">>}
  PROVE  Right(Do(s, C, t, as))
  <1>1. Region(s) = "socket" /\ Region(t) = "socket"
    BY SocketRegion
  <1>2. \A c \in C : Moves("socket", c, "socket", as)
    BY DEF Moves, EndMoves
  <1> QED  BY <1>1, <1>2, RightDo

LEMMA RightSocketGo ==
  ASSUME NEW s \in SocketStates, NEW C, NEW t \in SocketStates
  PROVE  Right(Go(s, C, t))
  BY RightSocketDo DEF Go, Do

LEMMA RightSocketXML == Right(SocketXML)
  <1>1. /\ 194 \in SocketStates /\ 195 \in SocketStates /\ 196 \in SocketStates
        /\ 197 \in SocketStates /\ 349 \in SocketStates
    BY DEF SocketStates
  <1>2. /\ Right(Go(194, XmlChars, 195)) /\ Right(Go(195, XmlChars, 195))
        /\ Right(Go(196, AnyChar \ {">"}, 196)) /\ Right(Go(196, {">"}, 197))
    BY <1>1, RightSocketGo, Zenon
  <1>3. Right(Go(197, AnyChar \ {">", "nul"}, 196)) /\ Right(Go(197, {">"}, 197))
    BY <1>1, RightSocketGo, Zenon
  <1>4. Right(Do(195, {"ht", "lf", "vt", "cr", "sp", "/", ">"}, 196, <<"request_path">>))
    BY <1>1, RightSocketDo
  <1>5. Right(Do(197, {"nul"}, 349, <<"xml", "done">>))
    BY <1>1, RightSocketDo
  <1> QED  BY <1>2, <1>3, <1>4, <1>5 DEF SocketXML, Right

LEMMA RightSocketJSON == Right(SocketJSON)
  <1>1. /\ 198 \in SocketStates /\ 199 \in SocketStates /\ 200 \in SocketStates
        /\ 201 \in SocketStates /\ 202 \in SocketStates /\ 203 \in SocketStates
        /\ 208 \in SocketStates /\ 349 \in SocketStates
    BY DEF SocketStates
  <1> DEFINE a == Go(198, ReqName \cup {"@"}, 202)
             b == Go(198, {"%"}, 203)
             c == Go(198, {"/"}, 208)
             d == Do(198, {"sp"}, 199, <<"request_path">>)
             e == Do(199, {"{"}, 200, <<"mark">>)
             f == Go(200, AnyChar \ {"}"}, 200)
             g == Go(200, {"}"}, 201)
             h == Go(201, AnyChar \ {"}", "nul"}, 200)
             i == Go(201, {"}"}, 201)
             j == Do(201, {"nul"}, 349, <<"json", "done">>)
  <1>2. Right(a) /\ Right(b) /\ Right(c)
    BY <1>1, RightSocketGo, Zenon
  <1>3. Right(d)
    BY <1>1, RightSocketDo
  <1>4. Right(e)
    BY <1>1, RightSocketDo
  <1>5. Right(f) /\ Right(g)
    BY <1>1, RightSocketGo, Zenon
  <1>6. Right(h) /\ Right(i)
    BY <1>1, RightSocketGo, Zenon
  <1>7. Right(j)
    BY <1>1, RightSocketDo
  <1>8. SocketJSON = a \cup b \cup c \cup d \cup e \cup f \cup g \cup h \cup i \cup j
    BY DEF SocketJSON
  <1> HIDE DEF a, b, c, d, e, f, g, h, i, j
  <1> QED  BY <1>2, <1>3, <1>4, <1>5, <1>6, <1>7, <1>8, RightUnion

LEMMA RightJsonPath == Right(JsonPath)
  <1>1. /\ 202 \in SocketStates /\ 203 \in SocketStates /\ 204 \in SocketStates
        /\ 205 \in SocketStates /\ 206 \in SocketStates /\ 207 \in SocketStates
        /\ 199 \in SocketStates
    BY DEF SocketStates
  <1>2. /\ Right(Go(202, ReqName \cup {"@"}, 202)) /\ Right(Go(202, {"%"}, 203))
        /\ Right(Go(202, {"/"}, 205)) /\ Right(Go(205, ReqPchar \cup {"/"}, 205))
        /\ Right(Go(205, {"%"}, 206))
    BY <1>1, RightSocketGo
  <1>3. Right(Do(202, {"sp"}, 199, <<"request_path">>))
    BY <1>1, RightSocketDo
  <1>4. Right(Do(205, {"sp"}, 199, <<"request_path">>))
    BY <1>1, RightSocketDo
  <1>5. Right(ReqPercent(203, 202)) /\ Right(ReqPercent(206, 205))
    <2>1. ASSUME NEW s \in Nat, s \in SocketStates, s + 1 \in SocketStates, NEW t \in SocketStates
          PROVE  Right(ReqPercent(s, t))
      <3>1. ReqPercent(s, t) = Go(s, ReqXdigit, s + 1) \cup Go(s + 1, ReqXdigit, t)
        BY DEF ReqPercent, Chain
      <3>2. Right(Go(s, ReqXdigit, s + 1)) /\ Right(Go(s + 1, ReqXdigit, t))
        BY <2>1, RightSocketGo
      <3> QED  BY <3>1, <3>2, RightUnion
    <2>2. 203 \in Nat /\ 203 + 1 \in SocketStates /\ 206 \in Nat /\ 206 + 1 \in SocketStates
      BY DEF SocketStates
    <2> QED  BY <1>1, <2>1, <2>2, Zenon
  <1> QED  BY <1>2, <1>3, <1>4, <1>5 DEF JsonPath, Right

\* Every arc of the automaton does what its region may do.
LEMMA RightRequestArcs == Right(RequestArcs)
  <1>1. ASSUME NEW A, InPath(A)  PROVE Right(A)
    BY <1>1, InPathRight
  <1>2. ASSUME NEW A, InPath(A)  PROVE Right(InCopy(A))
    BY <1>2, InTargetPath, InCopyRight
  <1>3. /\ Right(OneSlash(0)) /\ Right(ReqAuthority(0)) /\ Right(ReqUserinfo(0))
        /\ Right(ReqHost(0)) /\ Right(ReqPort(0)) /\ Right(LitQuad(0))
    BY InTargetRight, InTargetOneSlash, InTargetAuthority, InTargetUserinfo, InTargetHost,
       InTargetPort, InTargetLitQuad, Zenon
  <1>4. /\ Right(LitStart) /\ Right(LitOctets) /\ Right(LitLastGroup) /\ Right(LitMixed)
        /\ Right(LitGroups12) /\ Right(LitGroups34) /\ Right(LitGroups56) /\ Right(LitGroupLoop)
    BY <1>1, InPathLitStart, InPathLitOctets, InPathLitLastGroup, InPathLitMixed,
       InPathLitGroups12, InPathLitGroups34, InPathLitGroups56, InPathLitGroupLoop, Zenon
  <1>5. /\ Right(LitTail1) /\ Right(LitTail2) /\ Right(LitTail2Mixed) /\ Right(LitTail1Mixed)
        /\ Right(LitAfter54) /\ Right(LitAfter5Mixed) /\ Right(LitShort) /\ Right(LitFuture)
    BY <1>1, InPathLitTail1, InPathLitTail2, InPathLitTail2Mixed, InPathLitTail1Mixed,
       InPathLitAfter54, InPathLitAfter5Mixed, InPathLitShort, InPathLitFuture, Zenon
  <1>6. /\ Right(JsonOneSlash) /\ Right(JsonAuthority) /\ Right(JsonUserinfo)
        /\ Right(JsonHost) /\ Right(JsonPort) /\ Right(JsonLitQuad)
    BY InCopyRight, InTargetOneSlash, InTargetAuthority, InTargetUserinfo, InTargetHost,
       InTargetPort, InTargetLitQuad, Zenon
       DEF JsonOneSlash, JsonAuthority, JsonUserinfo, JsonHost, JsonPort, JsonLitQuad
  <1>7. /\ Right(JsonLitStart) /\ Right(JsonLitOctets) /\ Right(JsonLitLastGroup)
        /\ Right(JsonLitMixed) /\ Right(JsonLitGroups12) /\ Right(JsonLitGroups34)
        /\ Right(JsonLitGroups56) /\ Right(JsonLitGroupLoop)
    BY <1>2, InPathLitStart, InPathLitOctets, InPathLitLastGroup, InPathLitMixed,
       InPathLitGroups12, InPathLitGroups34, InPathLitGroups56, InPathLitGroupLoop, Zenon
       DEF JsonLitStart, JsonLitOctets, JsonLitLastGroup, JsonLitMixed, JsonLitGroups12,
           JsonLitGroups34, JsonLitGroups56, JsonLitGroupLoop
  <1>8. /\ Right(JsonLitTail1) /\ Right(JsonLitTail2) /\ Right(JsonLitTail2Mixed)
        /\ Right(JsonLitTail1Mixed) /\ Right(JsonLitAfter54) /\ Right(JsonLitAfter5Mixed)
        /\ Right(JsonLitShort) /\ Right(JsonLitFuture)
    BY <1>2, InPathLitTail1, InPathLitTail2, InPathLitTail2Mixed, InPathLitTail1Mixed,
       InPathLitAfter54, InPathLitAfter5Mixed, InPathLitShort, InPathLitFuture, Zenon
       DEF JsonLitTail1, JsonLitTail2, JsonLitTail2Mixed, JsonLitTail1Mixed, JsonLitAfter54,
           JsonLitAfter5Mixed, JsonLitShort, JsonLitFuture
  <1> QED
    BY <1>3, <1>4, <1>5, <1>6, <1>7, <1>8, RightMethodStart, RightMethodRest, RightUriBegins,
       RightVersion, RightHeaderName, RightHeaderValue, RightHeaderEnd, RightNoScheme,
       RightReqFragment, RightReqPath, RightReqQueryString, RightReqScheme, RightSocketXML,
       RightSocketJSON, RightJsonPath DEF RequestArcs, Right

-----------------------------------------------------------------------------
(* The table and what a character does to the state of the parser.         *)

\* Every region is made of states of the table.
LEMMA RegionState == ASSUME NEW s, Region(s) # "none" PROVE s \in 1..349
  BY DEF Region

\* Characters that no region tells apart.
Told == SchemeChars \cup {"sp", "#", "?", ":", "cr", "lf", "ht", "<", "@"}

LEMMA MovesAlike ==
  ASSUME NEW i, NEW c, NEW j, NEW as, NEW d, c \notin Told, d \notin Told, Moves(i, c, j, as)
  PROVE  Moves(i, d, j, as)
  <1>1. TargetMoves(i, c, j, as) => TargetMoves(i, d, j, as)
    BY DEF TargetMoves, PathOver, QueryOver, Told, SchemeChars
  <1>2. EndMoves(i, c, j, as) => EndMoves(i, d, j, as)
    BY DEF EndMoves, LineOver, Told
  <1>3. FieldMoves(i, c, j, as) => FieldMoves(i, d, j, as)
    BY DEF FieldMoves, LineOver, Told
  <1> QED  BY <1>1, <1>2, <1>3 DEF Moves

LEMMA MovesSomewhere ==
  ASSUME NEW i, NEW c, NEW j, NEW as, Moves(i, c, j, as), i # "end"
  PROVE  j # "none"
  BY DEF Moves, TargetMoves, EndMoves, FieldMoves, PathOver, QueryOver, LineOver

\* An entry of the table is an arc.
LEMMA TableMoves ==
  ASSUME NEW s \in 1..349, NEW c \in RequestChars \cup {"more"}, RequestTable[s][c].cs # ErrorState
  PROVE  Moves(Region(s), c, Region(RequestTable[s][c].cs), RequestTable[s][c].do)
  <1>1. PICK a \in RequestArcs : /\ a[1] = s /\ c \in a[2]
                                /\ RequestTable[s][c] = [cs |-> a[3], do |-> a[4]]
    <2> DEFINE chars == RequestChars \cup {"more"}
               states == 1..349
    <2>1. RequestTable = Switch(RequestArcs, states, chars)
      BY DEF RequestTable
    <2>2. s \in states /\ c \in chars
      OBVIOUS
    <2> HIDE DEF chars, states
    <2>3. Switch(RequestArcs, states, chars)[s][c].cs # ErrorState
      BY <2>1
    <2>4. \E a \in RequestArcs : /\ a[1] = s /\ c \in a[2]
             /\ Switch(RequestArcs, states, chars)[s][c] = [cs |-> a[3], do |-> a[4]]
      BY <2>2, <2>3, ArcTaken
    <2> QED  BY <2>1, <2>4
  <1>2. RequestTable[s][c].cs = a[3] /\ RequestTable[s][c].do = a[4]
    BY <1>1
  <1> QED  BY <1>1, <1>2, RightRequestArcs, Zenon DEF Right

\* A character that the parser takes: the automaton moves as its region says.
LEMMA RequestMoves ==
  ASSUME NEW s \in 1..349, NEW c \in RequestChars, NEW relaxed,
         RequestAfter(s, c, relaxed).cs # ErrorState
  PROVE  Moves(Region(s), c, Region(RequestAfter(s, c, relaxed).cs),
               RequestAfter(s, c, relaxed).do)
  <1>1. CASE relaxed /\ c \in {"{", "}", "^"} /\ RequestTable[s]["more"].cs # ErrorState
    <2>1. RequestAfter(s, c, relaxed) = RequestTable[s]["more"]
      BY <1>1, Zenon DEF RequestAfter
    <2>2. Moves(Region(s), "more", Region(RequestTable[s]["more"].cs), RequestTable[s]["more"].do)
      BY <1>1, TableMoves
    <2>3. "more" \notin Told /\ c \notin Told
      BY <1>1 DEF Told, SchemeChars, Letter, Upper, ReqDigit
    <2> QED  BY <2>1, <2>2, <2>3, MovesAlike, Zenon
  <1>2. CASE ~(relaxed /\ c \in {"{", "}", "^"} /\ RequestTable[s]["more"].cs # ErrorState)
    <2>1. RequestAfter(s, c, relaxed) = RequestTable[s][c]
      BY <1>2, Zenon DEF RequestAfter
    <2> QED  BY <2>1, TableMoves
  <1> QED  BY <1>1, <1>2

-----------------------------------------------------------------------------
(* The actions, one by one, and in a row.                                  *)

\* A transition without an action.
LEMMA NoAction ==
  ASSUME NEW p, NEW here, NEW first
  PROVE  ReqActions(p, <<>>, here, first) = p
  BY DEF ReqActions

\* What each action of http11_parser.rl is.
LEMMA Action ==
  ASSUME NEW p, NEW here, NEW first
  PROVE  /\ ReqAction(p, "mark", here, first) = [p EXCEPT !.mark = here]
         /\ ReqAction(p, "start_value", here, first) = [p EXCEPT !.mark = here]
         /\ ReqAction(p, "start_field", here, first) = [p EXCEPT !.field = here]
         /\ ReqAction(p, "write_field", here, first) = [p EXCEPT !.flen = ~first]
         /\ ReqAction(p, "write_value", here, first) = SetHeader(p)
         /\ ReqAction(p, "start_query", here, first) = [p EXCEPT !.query = here]
         /\ ReqAction(p, "request_method", here, first) = [p EXCEPT !.req.method = p.mark]
         /\ ReqAction(p, "request_path", here, first) = [p EXCEPT !.req.path = p.mark]
         /\ ReqAction(p, "fragment", here, first) = [p EXCEPT !.req.fragment = p.mark]
         /\ ReqAction(p, "query_string", here, first) = [p EXCEPT !.req.query = p.query]
         /\ ReqAction(p, "http_version", here, first) = SetVersion(p, first)
         /\ ReqAction(p, "done", here, first) = [p EXCEPT !.out = "body"]
         /\ ReqAction(p, "request_uri", here, first) = p
  BY DEF ReqAction

\* The actions at the end of a part after those at its beginning.
LEMMA Concats ==
  ASSUME NEW a, NEW b, NEW d
  PROVE  /\ <<>> \o <<a>> = <<a>> /\ <<>> \o <<a, b>> = <<a, b>>
         /\ <<a>> \o <<b>> = <<a, b>> /\ <<a>> \o <<b, d>> = <<a, b, d>>
  <1> DEFINE S == {a, b, d}
  <1>1. <<a>> \in Seq(S) /\ <<b>> \in Seq(S) /\ <<a, b>> \in Seq(S) /\ <<b, d>> \in Seq(S)
        /\ <<a, b, d>> \in Seq(S)
    OBVIOUS
  <1>2. <<>> \o <<a>> = <<a>> /\ <<>> \o <<a, b>> = <<a, b>>
    OBVIOUS
  <1>3. <<a>> \o <<b>> = <<a, b>>
    <2> DEFINE s == <<a>> \o <<b>>
               t == <<a, b>>
    <2>1. s \in Seq(S) /\ t \in Seq(S)  BY <1>1
    <2>2. Len(s) = 2 /\ Len(t) = 2 /\ s[1] = t[1] /\ s[2] = t[2]  OBVIOUS
    <2>3. \A i \in 1..2 : i = 1 \/ i = 2  OBVIOUS
    <2> HIDE DEF S, s, t
    <2>4. \A i \in 1..Len(s) : s[i] = t[i]  BY <2>2, <2>3
    <2>5. s = t  BY <2>1, <2>2, <2>4, SeqEqual
    <2> QED  BY <2>5 DEF s, t
  <1>4. <<a>> \o <<b, d>> = <<a, b, d>>
    <2> DEFINE s == <<a>> \o <<b, d>>
               t == <<a, b, d>>
    <2>1. s \in Seq(S) /\ t \in Seq(S)  BY <1>1
    <2>2. Len(s) = 3 /\ Len(t) = 3 /\ s[1] = t[1] /\ s[2] = t[2] /\ s[3] = t[3]  OBVIOUS
    <2>3. \A i \in 1..3 : i = 1 \/ i = 2 \/ i = 3  OBVIOUS
    <2> HIDE DEF S, s, t
    <2>4. \A i \in 1..Len(s) : s[i] = t[i]  BY <2>2, <2>3
    <2>5. s = t  BY <2>1, <2>2, <2>4, SeqEqual
    <2> QED  BY <2>5 DEF s, t
  <1> QED  BY <1>2, <1>3, <1>4
Rec(m, f, q, l, r, h, o) ==
    [mark |-> m, field |-> f, query |-> q, flen |-> l, req |-> r, head |-> h, out |-> o]
Field(n, v, l) == IF l THEN [set |-> TRUE, name |-> n, value |-> v]
                  ELSE [set |-> FALSE, name |-> {}, value |-> {}]

\* The callbacks of http_parser.cc on what the parser knows.
LEMMA ActMark ==
  ASSUME NEW M, NEW F, NEW Q, NEW L, NEW R, NEW H, NEW O, NEW here, NEW first
  PROVE  ReqAction(Rec(M, F, Q, L, R, H, O), "mark", here, first)
           = Rec(here, F, Q, L, R, H, O)
  <1> DEFINE p == Rec(M, F, Q, L, R, H, O)
  <1>1. ReqAction(p, "mark", here, first) = [p EXCEPT !.mark = here]
    <2> HIDE DEF p
    <2> QED  BY Action
  <1>2. [p EXCEPT !.mark = here] = Rec(here, F, Q, L, R, H, O)
    BY DEF Rec
  <1> QED  BY <1>1, <1>2, Zenon

LEMMA ActStartValue ==
  ASSUME NEW M, NEW F, NEW Q, NEW L, NEW R, NEW H, NEW O, NEW here, NEW first
  PROVE  ReqAction(Rec(M, F, Q, L, R, H, O), "start_value", here, first)
           = Rec(here, F, Q, L, R, H, O)
  <1> DEFINE p == Rec(M, F, Q, L, R, H, O)
  <1>1. ReqAction(p, "start_value", here, first) = [p EXCEPT !.mark = here]
    <2> HIDE DEF p
    <2> QED  BY Action
  <1>2. [p EXCEPT !.mark = here] = Rec(here, F, Q, L, R, H, O)
    BY DEF Rec
  <1> QED  BY <1>1, <1>2, Zenon

LEMMA ActStartField ==
  ASSUME NEW M, NEW F, NEW Q, NEW L, NEW R, NEW H, NEW O, NEW here, NEW first
  PROVE  ReqAction(Rec(M, F, Q, L, R, H, O), "start_field", here, first)
           = Rec(M, here, Q, L, R, H, O)
  <1> DEFINE p == Rec(M, F, Q, L, R, H, O)
  <1>1. ReqAction(p, "start_field", here, first) = [p EXCEPT !.field = here]
    <2> HIDE DEF p
    <2> QED  BY Action
  <1>2. [p EXCEPT !.field = here] = Rec(M, here, Q, L, R, H, O)
    BY DEF Rec
  <1> QED  BY <1>1, <1>2, Zenon

LEMMA ActWriteField ==
  ASSUME NEW M, NEW F, NEW Q, NEW L, NEW R, NEW H, NEW O, NEW here, NEW first
  PROVE  ReqAction(Rec(M, F, Q, L, R, H, O), "write_field", here, first)
           = Rec(M, F, Q, ~first, R, H, O)
  <1> DEFINE p == Rec(M, F, Q, L, R, H, O)
  <1>1. ReqAction(p, "write_field", here, first) = [p EXCEPT !.flen = ~first]
    <2> HIDE DEF p
    <2> QED  BY Action
  <1>2. [p EXCEPT !.flen = ~first] = Rec(M, F, Q, ~first, R, H, O)
    BY DEF Rec
  <1> QED  BY <1>1, <1>2, Zenon

LEMMA ActWriteValue ==
  ASSUME NEW M, NEW F, NEW Q, NEW L, NEW R, NEW H, NEW O, NEW here, NEW first
  PROVE  ReqAction(Rec(M, F, Q, L, R, H, O), "write_value", here, first)
           = Rec(M, F, Q, L, R, Field(F, M, L), O)
  <1> DEFINE p == Rec(M, F, Q, L, R, H, O)
  <1>1. ReqAction(p, "write_value", here, first) = SetHeader(p)
    <2> HIDE DEF p
    <2> QED  BY Action
  <1>2. SetHeader(p) = Rec(M, F, Q, L, R, Field(F, M, L), O)
    <2>1. p.flen = L /\ p.field = F /\ p.mark = M
      BY DEF Rec
    <2>2. SetHeader(p) = [p EXCEPT !.head = Field(F, M, L)]
      <3> HIDE DEF p
      <3> QED  BY <2>1, Zenon DEF SetHeader, Field
    <2> QED  BY <2>2 DEF Rec
  <1> QED  BY <1>1, <1>2, Zenon

LEMMA ActStartQuery ==
  ASSUME NEW M, NEW F, NEW Q, NEW L, NEW R, NEW H, NEW O, NEW here, NEW first
  PROVE  ReqAction(Rec(M, F, Q, L, R, H, O), "start_query", here, first)
           = Rec(M, F, here, L, R, H, O)
  <1> DEFINE p == Rec(M, F, Q, L, R, H, O)
  <1>1. ReqAction(p, "start_query", here, first) = [p EXCEPT !.query = here]
    <2> HIDE DEF p
    <2> QED  BY Action
  <1>2. [p EXCEPT !.query = here] = Rec(M, F, here, L, R, H, O)
    BY DEF Rec
  <1> QED  BY <1>1, <1>2, Zenon

LEMMA ActMethod ==
  ASSUME NEW M, NEW F, NEW Q, NEW L, NEW R, NEW H, NEW O, NEW here, NEW first
  PROVE  ReqAction(Rec(M, F, Q, L, R, H, O), "request_method", here, first)
           = Rec(M, F, Q, L, [R EXCEPT !.method = M], H, O)
  <1> DEFINE p == Rec(M, F, Q, L, R, H, O)
  <1>1. ReqAction(p, "request_method", here, first) = [p EXCEPT !.req.method = p.mark]
    <2> HIDE DEF p
    <2> QED  BY Action
  <1>2. [p EXCEPT !.req.method = p.mark] = Rec(M, F, Q, L, [R EXCEPT !.method = M], H, O)
    BY DEF Rec
  <1> QED  BY <1>1, <1>2, Zenon

LEMMA ActPath ==
  ASSUME NEW M, NEW F, NEW Q, NEW L, NEW R, NEW H, NEW O, NEW here, NEW first
  PROVE  ReqAction(Rec(M, F, Q, L, R, H, O), "request_path", here, first)
           = Rec(M, F, Q, L, [R EXCEPT !.path = M], H, O)
  <1> DEFINE p == Rec(M, F, Q, L, R, H, O)
  <1>1. ReqAction(p, "request_path", here, first) = [p EXCEPT !.req.path = p.mark]
    <2> HIDE DEF p
    <2> QED  BY Action
  <1>2. [p EXCEPT !.req.path = p.mark] = Rec(M, F, Q, L, [R EXCEPT !.path = M], H, O)
    BY DEF Rec
  <1> QED  BY <1>1, <1>2, Zenon

LEMMA ActFragment ==
  ASSUME NEW M, NEW F, NEW Q, NEW L, NEW R, NEW H, NEW O, NEW here, NEW first
  PROVE  ReqAction(Rec(M, F, Q, L, R, H, O), "fragment", here, first)
           = Rec(M, F, Q, L, [R EXCEPT !.fragment = M], H, O)
  <1> DEFINE p == Rec(M, F, Q, L, R, H, O)
  <1>1. ReqAction(p, "fragment", here, first) = [p EXCEPT !.req.fragment = p.mark]
    <2> HIDE DEF p
    <2> QED  BY Action
  <1>2. [p EXCEPT !.req.fragment = p.mark] = Rec(M, F, Q, L, [R EXCEPT !.fragment = M], H, O)
    BY DEF Rec
  <1> QED  BY <1>1, <1>2, Zenon

LEMMA ActQuery ==
  ASSUME NEW M, NEW F, NEW Q, NEW L, NEW R, NEW H, NEW O, NEW here, NEW first
  PROVE  ReqAction(Rec(M, F, Q, L, R, H, O), "query_string", here, first)
           = Rec(M, F, Q, L, [R EXCEPT !.query = Q], H, O)
  <1> DEFINE p == Rec(M, F, Q, L, R, H, O)
  <1>1. ReqAction(p, "query_string", here, first) = [p EXCEPT !.req.query = p.query]
    <2> HIDE DEF p
    <2> QED  BY Action
  <1>2. [p EXCEPT !.req.query = p.query] = Rec(M, F, Q, L, [R EXCEPT !.query = Q], H, O)
    BY DEF Rec
  <1> QED  BY <1>1, <1>2, Zenon

LEMMA ActDone ==
  ASSUME NEW M, NEW F, NEW Q, NEW L, NEW R, NEW H, NEW O, NEW here, NEW first
  PROVE  ReqAction(Rec(M, F, Q, L, R, H, O), "done", here, first)
           = Rec(M, F, Q, L, R, H, "body")
  <1> DEFINE p == Rec(M, F, Q, L, R, H, O)
  <1>1. ReqAction(p, "done", here, first) = [p EXCEPT !.out = "body"]
    <2> HIDE DEF p
    <2> QED  BY Action
  <1>2. [p EXCEPT !.out = "body"] = Rec(M, F, Q, L, R, H, "body")
    BY DEF Rec
  <1> QED  BY <1>1, <1>2, Zenon

LEMMA ActUri ==
  ASSUME NEW M, NEW F, NEW Q, NEW L, NEW R, NEW H, NEW O, NEW here, NEW first
  PROVE  ReqAction(Rec(M, F, Q, L, R, H, O), "request_uri", here, first)
           = Rec(M, F, Q, L, R, H, O)
  <1> DEFINE p == Rec(M, F, Q, L, R, H, O)
  <1>1. ReqAction(p, "request_uri", here, first) = p
    <2> HIDE DEF p
    <2> QED  BY Action
  <1>2. p = Rec(M, F, Q, L, R, H, O)
    BY DEF Rec
  <1> QED  BY <1>1, <1>2, Zenon

\* Actions in a row.
LEMMA Row1 ==
  ASSUME NEW p, NEW q, NEW here, NEW first, NEW a, NEW as, as = <<a>>,
         ReqAction(p, a, here, first) = q
  PROVE  ReqActions(p, as, here, first) = q
  BY DEF ReqActions

LEMMA Row2 ==
  ASSUME NEW p, NEW q, NEW r, NEW here, NEW first, NEW a, NEW b, NEW as, as = <<a, b>>,
         ReqAction(p, a, here, first) = q, ReqAction(q, b, here, first) = r
  PROVE  ReqActions(p, as, here, first) = r
  BY DEF ReqActions

LEMMA Row3 ==
  ASSUME NEW p, NEW q, NEW r, NEW s, NEW here, NEW first, NEW a, NEW b, NEW d, NEW as,
         as = <<a, b, d>>,
         ReqAction(p, a, here, first) = q, ReqAction(q, b, here, first) = r,
         ReqAction(r, d, here, first) = s
  PROVE  ReqActions(p, as, here, first) = s
  BY DEF ReqActions

-----------------------------------------------------------------------------
(* A character as HttpSession::recvRequest and http_parser_execute take it.*)

\* The transition that a character takes, what the parser knows after its
\* actions, and the reference when it gets to the character.
Taken(c) == RequestAfter(rcs, c, rrelaxed)

Acted(c) == ReqActions(Piece(BeginsAt(rref, c)), Taken(c).do, BeginsAt(rref, c), rfirst)

Cut(c) == rref.cut \cup IF rfirst THEN Divided(rref, c) ELSE {}

RefHere(c) == [in |-> rref.in, scheme |-> rref.scheme, cut |-> Cut(c),
               version |-> rref.version, field |-> rref.field, good |-> rref.good]

\* A step of RequestChar from the invariant: the fields of what the
\* actions leave, the next state of the automaton and of the reference.
LEMMA CharStep ==
  ASSUME NEW c \in RequestChars, RequestChar(c), RequestInv
  PROVE  /\ RequestTypes /\ InStep /\ rret = "reading"
         /\ rref.in # "socket" => PartsInv
         /\ rref.in # "socket" /\ rref.good => FieldInv
         /\ rref.good => FieldRight
         /\ Moves(Region(rcs), c, Region(rcs'), Taken(c).do)
         /\ rcs' = Taken(c).cs /\ (Region(rcs') # "none" => rcs' \in 1..349)
         /\ rmark' = Acted(c).mark /\ rfield' = Acted(c).field /\ rquery' = Acted(c).query
         /\ rflen' = Acted(c).flen /\ req' = Acted(c).req /\ rhead' = Acted(c).head
         /\ rref' = RequestRefNext(RefHere(c), c)
         /\ rfirst' = FALSE
  <1>1. RequestTypes /\ InStep /\ rret = "reading" /\ (rref.in # "socket" => PartsInv)
        /\ (rref.in # "socket" /\ rref.good => FieldInv) /\ (rref.good => FieldRight)
    BY DEF RequestInv, RequestChar
  <1>2. rcs' = Taken(c).cs /\ rcs \in 1..349 /\ Taken(c).cs # ErrorState
    BY <1>1, Zenon DEF RequestChar, InStep, Taken
  <1>3. Moves(Region(rcs), c, Region(rcs'), Taken(c).do)
    BY <1>2, RequestMoves, Zenon DEF Taken
  <1>4. [rref EXCEPT !.cut = @ \cup IF rfirst THEN Divided(rref, c) ELSE {}] = RefHere(c)
    <2> DEFINE cut == Cut(c)
    <2>1. [rref EXCEPT !.cut = @ \cup IF rfirst THEN Divided(rref, c) ELSE {}]
            = [rref EXCEPT !.cut = cut]
      BY DEF Cut
    <2> HIDE DEF cut
    <2>2. [rref EXCEPT !.cut = cut]
            = [in |-> rref.in, scheme |-> rref.scheme, cut |-> cut,
               version |-> rref.version, field |-> rref.field, good |-> rref.good]
      BY <1>1 DEF RequestTypes
    <2> QED  BY <2>1, <2>2 DEF RefHere, cut
  <1>5. rref' = RequestRefNext(RefHere(c), c)
    BY <1>4, Zenon DEF RequestChar
  <1>6. /\ rmark' = Acted(c).mark /\ rfield' = Acted(c).field /\ rquery' = Acted(c).query
        /\ rflen' = Acted(c).flen /\ req' = Acted(c).req /\ rhead' = Acted(c).head
        /\ rfirst' = FALSE
    BY Zenon DEF RequestChar, Acted, Taken
  <1>7. Region(rcs') # "none" => rcs' \in 1..349
    BY RegionState
  <1> QED  BY <1>1, <1>2, <1>3, <1>5, <1>6, <1>7

\* What RequestChar sets rret to.
LEMMA CharReturns ==
  ASSUME NEW c, RequestChar(c)
  PROVE  \/ rret' = Acted(c).out
         \/ rret' = "nullptr"
         \/ /\ rret' = "throws" /\ Acted(c).query = Stale
            /\ \E k \in DOMAIN Taken(c).do : Taken(c).do[k] = "query_string"
  BY DEF RequestChar, Acted, Taken

\* A step that does not end the header.
LEMMA ReadOn ==
  ASSUME RequestTypes', rret' \in {"reading", "nullptr", "throws"}, InStep',
         rret' = "throws" => "query" \in rref'.cut,
         rref'.in # "socket" => PartsInv', rref'.in # "socket" /\ rref'.good => FieldInv',
         rref'.good => FieldRight'
  PROVE  RequestInv'
  BY DEF RequestInv, RequestPartsRight, HeadersRight, FieldRight, InStep

-----------------------------------------------------------------------------
(* What the parser knows after each list of actions.                       *)

MarkAt(c) == IF rfirst THEN BeginsAt(rref, c) ELSE rmark
FieldAt(c) == IF rfirst THEN BeginsAt(rref, c) ELSE rfield
QueryNow == IF rfirst THEN Stale ELSE rquery
LenNow == rflen /\ ~rfirst

\* What the parser knows when it gets to the character: execute() cleared
\* it if the character is the first of its piece.
LEMMA PieceIs ==
  ASSUME NEW c
  PROVE  Piece(BeginsAt(rref, c))
           = Rec(MarkAt(c), FieldAt(c), QueryNow, LenNow, req, rhead, "reading")
  BY DEF Piece, Rec, MarkAt, FieldAt, QueryNow, LenNow

Becomes(m, f, q, l, r, h, rets) ==
    /\ rmark' = m /\ rfield' = f /\ rquery' = q /\ rflen' = l /\ req' = r /\ rhead' = h
    /\ rret' \in rets

LEMMA Became ==
  ASSUME NEW c \in RequestChars, RequestChar(c), RequestInv,
         NEW M, NEW F, NEW Q, NEW L, NEW R, NEW H, NEW O, NEW rets,
         Acted(c) = Rec(M, F, Q, L, R, H, O), O \in rets, "nullptr" \in rets,
         \/ "throws" \in rets \/ Q # Stale
         \/ \A k \in DOMAIN Taken(c).do : Taken(c).do[k] # "query_string"
  PROVE  Becomes(M, F, Q, L, R, H, rets)
  <1>1. /\ Acted(c).mark = M /\ Acted(c).field = F /\ Acted(c).query = Q /\ Acted(c).flen = L
        /\ Acted(c).req = R /\ Acted(c).head = H /\ Acted(c).out = O
    BY DEF Rec
  <1> QED  BY <1>1, CharStep, CharReturns DEF Becomes

\* One lemma for each list of actions that an arc has.
LEMMA DoesNothing ==
  ASSUME NEW c \in RequestChars, RequestChar(c), RequestInv, Taken(c).do = <<>>
  PROVE  Becomes(MarkAt(c), FieldAt(c), QueryNow, LenNow, req, rhead, {"reading", "nullptr"})
  <1>1. Acted(c) = Piece(BeginsAt(rref, c))
    BY NoAction DEF Acted
  <1>2. Acted(c) = Rec(MarkAt(c), FieldAt(c), QueryNow, LenNow, req, rhead, "reading")
    BY <1>1, PieceIs, Zenon
  <1> QED  BY <1>2, Became

LEMMA DoesMarks ==
  ASSUME NEW c \in RequestChars, RequestChar(c), RequestInv,
         Taken(c).do = <<"mark">>
  PROVE  Becomes(BeginsAt(rref, c), FieldAt(c), QueryNow, LenNow, req, rhead, {"reading", "nullptr"})
  <1> DEFINE at == BeginsAt(rref, c)
             p == Rec(MarkAt(c), FieldAt(c), QueryNow, LenNow, req, rhead, "reading")
             q == Rec(BeginsAt(rref, c), FieldAt(c), QueryNow, LenNow, req, rhead, "reading")
  <1>1. ReqAction(p, "mark", at, rfirst) = q
    BY ActMark
  <1>2. ReqActions(p, Taken(c).do, at, rfirst) = q
    BY <1>1, Row1
  <1>3. Acted(c) = q
    BY <1>2, PieceIs DEF Acted
  <1> QED  BY <1>3, Became

LEMMA DoesMethods ==
  ASSUME NEW c \in RequestChars, RequestChar(c), RequestInv,
         Taken(c).do = <<"request_method">>
  PROVE  Becomes(MarkAt(c), FieldAt(c), QueryNow, LenNow,
               [req EXCEPT !.method = MarkAt(c)], rhead, {"reading", "nullptr"})
  <1> DEFINE at == BeginsAt(rref, c)
             p == Rec(MarkAt(c), FieldAt(c), QueryNow, LenNow, req, rhead, "reading")
             q == Rec(MarkAt(c), FieldAt(c), QueryNow, LenNow,
                      [req EXCEPT !.method = MarkAt(c)], rhead, "reading")
  <1>1. ReqAction(p, "request_method", at, rfirst) = q
    BY ActMethod
  <1>2. ReqActions(p, Taken(c).do, at, rfirst) = q
    BY <1>1, Row1
  <1>3. Acted(c) = q
    BY <1>2, PieceIs DEF Acted
  <1> QED  BY <1>3, Became

LEMMA DoesPaths ==
  ASSUME NEW c \in RequestChars, RequestChar(c), RequestInv,
         Taken(c).do = <<"request_path">>
  PROVE  Becomes(MarkAt(c), FieldAt(c), QueryNow, LenNow,
               [req EXCEPT !.path = MarkAt(c)], rhead, {"reading", "nullptr"})
  <1> DEFINE at == BeginsAt(rref, c)
             p == Rec(MarkAt(c), FieldAt(c), QueryNow, LenNow, req, rhead, "reading")
             q == Rec(MarkAt(c), FieldAt(c), QueryNow, LenNow,
                      [req EXCEPT !.path = MarkAt(c)], rhead, "reading")
  <1>1. ReqAction(p, "request_path", at, rfirst) = q
    BY ActPath
  <1>2. ReqActions(p, Taken(c).do, at, rfirst) = q
    BY <1>1, Row1
  <1>3. Acted(c) = q
    BY <1>2, PieceIs DEF Acted
  <1> QED  BY <1>3, Became

LEMMA DoesPathUris ==
  ASSUME NEW c \in RequestChars, RequestChar(c), RequestInv,
         Taken(c).do = <<"request_path", "request_uri">>
  PROVE  Becomes(MarkAt(c), FieldAt(c), QueryNow, LenNow,
               [req EXCEPT !.path = MarkAt(c)], rhead, {"reading", "nullptr"})
  <1> DEFINE at == BeginsAt(rref, c)
             p == Rec(MarkAt(c), FieldAt(c), QueryNow, LenNow, req, rhead, "reading")
             q == Rec(MarkAt(c), FieldAt(c), QueryNow, LenNow,
                      [req EXCEPT !.path = MarkAt(c)], rhead, "reading")
  <1>1. ReqAction(p, "request_path", at, rfirst) = q
    BY ActPath
  <1>2. ReqAction(q, "request_uri", at, rfirst) = q
    BY ActUri
  <1>3. ReqActions(p, Taken(c).do, at, rfirst) = q
    BY <1>1, <1>2, Row2
  <1>4. Acted(c) = q
    BY <1>3, PieceIs DEF Acted
  <1> QED  BY <1>4, Became

LEMMA DoesMarkPaths ==
  ASSUME NEW c \in RequestChars, RequestChar(c), RequestInv,
         Taken(c).do = <<"mark", "request_path">>
  PROVE  Becomes(BeginsAt(rref, c), FieldAt(c), QueryNow, LenNow,
               [req EXCEPT !.path = BeginsAt(rref, c)], rhead, {"reading", "nullptr"})
  <1> DEFINE at == BeginsAt(rref, c)
             p == Rec(MarkAt(c), FieldAt(c), QueryNow, LenNow, req, rhead, "reading")
             q == Rec(BeginsAt(rref, c), FieldAt(c), QueryNow, LenNow, req, rhead, "reading")
             r == Rec(BeginsAt(rref, c), FieldAt(c), QueryNow, LenNow,
                      [req EXCEPT !.path = BeginsAt(rref, c)], rhead, "reading")
  <1>1. ReqAction(p, "mark", at, rfirst) = q
    BY ActMark
  <1>2. ReqAction(q, "request_path", at, rfirst) = r
    BY ActPath
  <1>3. ReqActions(p, Taken(c).do, at, rfirst) = r
    BY <1>1, <1>2, Row2
  <1>4. Acted(c) = r
    BY <1>3, PieceIs DEF Acted
  <1> QED  BY <1>4, Became

LEMMA DoesMarkPathUris ==
  ASSUME NEW c \in RequestChars, RequestChar(c), RequestInv,
         Taken(c).do = <<"mark", "request_path", "request_uri">>
  PROVE  Becomes(BeginsAt(rref, c), FieldAt(c), QueryNow, LenNow,
               [req EXCEPT !.path = BeginsAt(rref, c)], rhead, {"reading", "nullptr"})
  <1> DEFINE at == BeginsAt(rref, c)
             p == Rec(MarkAt(c), FieldAt(c), QueryNow, LenNow, req, rhead, "reading")
             q == Rec(BeginsAt(rref, c), FieldAt(c), QueryNow, LenNow, req, rhead, "reading")
             r == Rec(BeginsAt(rref, c), FieldAt(c), QueryNow, LenNow,
                      [req EXCEPT !.path = BeginsAt(rref, c)], rhead, "reading")
  <1>1. ReqAction(p, "mark", at, rfirst) = q
    BY ActMark
  <1>2. ReqAction(q, "request_path", at, rfirst) = r
    BY ActPath
  <1>3. ReqAction(r, "request_uri", at, rfirst) = r
    BY ActUri
  <1>4. ReqActions(p, Taken(c).do, at, rfirst) = r
    BY <1>1, <1>2, <1>3, Row3
  <1>5. Acted(c) = r
    BY <1>4, PieceIs DEF Acted
  <1> QED  BY <1>5, Became

LEMMA DoesStartQuerys ==
  ASSUME NEW c \in RequestChars, RequestChar(c), RequestInv,
         Taken(c).do = <<"start_query">>
  PROVE  Becomes(MarkAt(c), FieldAt(c), BeginsAt(rref, c), LenNow, req, rhead, {"reading", "nullptr"})
  <1> DEFINE at == BeginsAt(rref, c)
             p == Rec(MarkAt(c), FieldAt(c), QueryNow, LenNow, req, rhead, "reading")
             q == Rec(MarkAt(c), FieldAt(c), BeginsAt(rref, c), LenNow, req, rhead, "reading")
  <1>1. ReqAction(p, "start_query", at, rfirst) = q
    BY ActStartQuery
  <1>2. ReqActions(p, Taken(c).do, at, rfirst) = q
    BY <1>1, Row1
  <1>3. Acted(c) = q
    BY <1>2, PieceIs DEF Acted
  <1> QED  BY <1>3, Became

LEMMA DoesQuerys ==
  ASSUME NEW c \in RequestChars, RequestChar(c), RequestInv,
         Taken(c).do = <<"query_string", "request_uri">>
  PROVE  Becomes(MarkAt(c), FieldAt(c), QueryNow, LenNow,
               [req EXCEPT !.query = QueryNow], rhead,
               {"reading", "nullptr"} \cup (IF QueryNow = Stale THEN {"throws"} ELSE {}))
  <1> DEFINE at == BeginsAt(rref, c)
             p == Rec(MarkAt(c), FieldAt(c), QueryNow, LenNow, req, rhead, "reading")
             q == Rec(MarkAt(c), FieldAt(c), QueryNow, LenNow,
                      [req EXCEPT !.query = QueryNow], rhead, "reading")
  <1>1. ReqAction(p, "query_string", at, rfirst) = q
    BY ActQuery
  <1>2. ReqAction(q, "request_uri", at, rfirst) = q
    BY ActUri
  <1>3. ReqActions(p, Taken(c).do, at, rfirst) = q
    BY <1>1, <1>2, Row2
  <1>4. Acted(c) = q
    BY <1>3, PieceIs DEF Acted
  <1> QED  BY <1>4, Became

LEMMA DoesWholeQuerys ==
  ASSUME NEW c \in RequestChars, RequestChar(c), RequestInv,
         Taken(c).do = <<"start_query", "query_string", "request_uri">>
  PROVE  Becomes(MarkAt(c), FieldAt(c), BeginsAt(rref, c), LenNow,
               [req EXCEPT !.query = BeginsAt(rref, c)], rhead,
               {"reading", "nullptr"} \cup (IF BeginsAt(rref, c) = Stale THEN {"throws"} ELSE {}))
  <1> DEFINE at == BeginsAt(rref, c)
             p == Rec(MarkAt(c), FieldAt(c), QueryNow, LenNow, req, rhead, "reading")
             q == Rec(MarkAt(c), FieldAt(c), BeginsAt(rref, c), LenNow, req, rhead, "reading")
             r == Rec(MarkAt(c), FieldAt(c), BeginsAt(rref, c), LenNow,
                      [req EXCEPT !.query = BeginsAt(rref, c)], rhead, "reading")
  <1>1. ReqAction(p, "start_query", at, rfirst) = q
    BY ActStartQuery
  <1>2. ReqAction(q, "query_string", at, rfirst) = r
    BY ActQuery
  <1>3. ReqAction(r, "request_uri", at, rfirst) = r
    BY ActUri
  <1>4. ReqActions(p, Taken(c).do, at, rfirst) = r
    BY <1>1, <1>2, <1>3, Row3
  <1>5. Acted(c) = r
    BY <1>4, PieceIs DEF Acted
  <1> QED  BY <1>5, Became

LEMMA DoesFragments ==
  ASSUME NEW c \in RequestChars, RequestChar(c), RequestInv,
         Taken(c).do = <<"fragment">>
  PROVE  Becomes(MarkAt(c), FieldAt(c), QueryNow, LenNow,
               [req EXCEPT !.fragment = MarkAt(c)], rhead, {"reading", "nullptr"})
  <1> DEFINE at == BeginsAt(rref, c)
             p == Rec(MarkAt(c), FieldAt(c), QueryNow, LenNow, req, rhead, "reading")
             q == Rec(MarkAt(c), FieldAt(c), QueryNow, LenNow,
                      [req EXCEPT !.fragment = MarkAt(c)], rhead, "reading")
  <1>1. ReqAction(p, "fragment", at, rfirst) = q
    BY ActFragment
  <1>2. ReqActions(p, Taken(c).do, at, rfirst) = q
    BY <1>1, Row1
  <1>3. Acted(c) = q
    BY <1>2, PieceIs DEF Acted
  <1> QED  BY <1>3, Became

LEMMA DoesMarkFragments ==
  ASSUME NEW c \in RequestChars, RequestChar(c), RequestInv,
         Taken(c).do = <<"mark", "fragment">>
  PROVE  Becomes(BeginsAt(rref, c), FieldAt(c), QueryNow, LenNow,
               [req EXCEPT !.fragment = BeginsAt(rref, c)], rhead, {"reading", "nullptr"})
  <1> DEFINE at == BeginsAt(rref, c)
             p == Rec(MarkAt(c), FieldAt(c), QueryNow, LenNow, req, rhead, "reading")
             q == Rec(BeginsAt(rref, c), FieldAt(c), QueryNow, LenNow, req, rhead, "reading")
             r == Rec(BeginsAt(rref, c), FieldAt(c), QueryNow, LenNow,
                      [req EXCEPT !.fragment = BeginsAt(rref, c)], rhead, "reading")
  <1>1. ReqAction(p, "mark", at, rfirst) = q
    BY ActMark
  <1>2. ReqAction(q, "fragment", at, rfirst) = r
    BY ActFragment
  <1>3. ReqActions(p, Taken(c).do, at, rfirst) = r
    BY <1>1, <1>2, Row2
  <1>4. Acted(c) = r
    BY <1>3, PieceIs DEF Acted
  <1> QED  BY <1>4, Became

LEMMA DoesStartFields ==
  ASSUME NEW c \in RequestChars, RequestChar(c), RequestInv,
         Taken(c).do = <<"start_field">>
  PROVE  Becomes(MarkAt(c), BeginsAt(rref, c), QueryNow, LenNow, req, rhead, {"reading", "nullptr"})
  <1> DEFINE at == BeginsAt(rref, c)
             p == Rec(MarkAt(c), FieldAt(c), QueryNow, LenNow, req, rhead, "reading")
             q == Rec(MarkAt(c), BeginsAt(rref, c), QueryNow, LenNow, req, rhead, "reading")
  <1>1. ReqAction(p, "start_field", at, rfirst) = q
    BY ActStartField
  <1>2. ReqActions(p, Taken(c).do, at, rfirst) = q
    BY <1>1, Row1
  <1>3. Acted(c) = q
    BY <1>2, PieceIs DEF Acted
  <1> QED  BY <1>3, Became

LEMMA DoesStartFieldDone ==
  ASSUME NEW c \in RequestChars, RequestChar(c), RequestInv,
         Taken(c).do = <<"start_field", "done">>
  PROVE  Becomes(MarkAt(c), BeginsAt(rref, c), QueryNow, LenNow, req, rhead, {"body", "nullptr"})
  <1> DEFINE at == BeginsAt(rref, c)
             p == Rec(MarkAt(c), FieldAt(c), QueryNow, LenNow, req, rhead, "reading")
             q == Rec(MarkAt(c), BeginsAt(rref, c), QueryNow, LenNow, req, rhead, "reading")
             r == Rec(MarkAt(c), BeginsAt(rref, c), QueryNow, LenNow, req, rhead, "body")
  <1>1. ReqAction(p, "start_field", at, rfirst) = q
    BY ActStartField
  <1>2. ReqAction(q, "done", at, rfirst) = r
    BY ActDone
  <1>3. ReqActions(p, Taken(c).do, at, rfirst) = r
    BY <1>1, <1>2, Row2
  <1>4. Acted(c) = r
    BY <1>3, PieceIs DEF Acted
  <1> QED  BY <1>4, Became

LEMMA DoesWriteFields ==
  ASSUME NEW c \in RequestChars, RequestChar(c), RequestInv,
         Taken(c).do = <<"write_field">>
  PROVE  Becomes(MarkAt(c), FieldAt(c), QueryNow, ~rfirst,
               req, rhead, {"reading", "nullptr"})
  <1> DEFINE at == BeginsAt(rref, c)
             p == Rec(MarkAt(c), FieldAt(c), QueryNow, LenNow, req, rhead, "reading")
             q == Rec(MarkAt(c), FieldAt(c), QueryNow, ~rfirst, req, rhead, "reading")
  <1>1. ReqAction(p, "write_field", at, rfirst) = q
    BY ActWriteField
  <1>2. ReqActions(p, Taken(c).do, at, rfirst) = q
    BY <1>1, Row1
  <1>3. Acted(c) = q
    BY <1>2, PieceIs DEF Acted
  <1> QED  BY <1>3, Became

LEMMA DoesStartValues ==
  ASSUME NEW c \in RequestChars, RequestChar(c), RequestInv,
         Taken(c).do = <<"start_value">>
  PROVE  Becomes(BeginsAt(rref, c), FieldAt(c), QueryNow, LenNow, req, rhead, {"reading", "nullptr"})
  <1> DEFINE at == BeginsAt(rref, c)
             p == Rec(MarkAt(c), FieldAt(c), QueryNow, LenNow, req, rhead, "reading")
             q == Rec(BeginsAt(rref, c), FieldAt(c), QueryNow, LenNow, req, rhead, "reading")
  <1>1. ReqAction(p, "start_value", at, rfirst) = q
    BY ActStartValue
  <1>2. ReqActions(p, Taken(c).do, at, rfirst) = q
    BY <1>1, Row1
  <1>3. Acted(c) = q
    BY <1>2, PieceIs DEF Acted
  <1> QED  BY <1>3, Became

LEMMA DoesWholeValues ==
  ASSUME NEW c \in RequestChars, RequestChar(c), RequestInv,
         Taken(c).do = <<"start_value", "write_value">>
  PROVE  Becomes(BeginsAt(rref, c), FieldAt(c), QueryNow, LenNow,
               req, Field(FieldAt(c), BeginsAt(rref, c), LenNow), {"reading", "nullptr"})
  <1> DEFINE at == BeginsAt(rref, c)
             p == Rec(MarkAt(c), FieldAt(c), QueryNow, LenNow, req, rhead, "reading")
             q == Rec(BeginsAt(rref, c), FieldAt(c), QueryNow, LenNow, req, rhead, "reading")
             r == Rec(BeginsAt(rref, c), FieldAt(c), QueryNow, LenNow,
                      req, Field(FieldAt(c), BeginsAt(rref, c), LenNow), "reading")
  <1>1. ReqAction(p, "start_value", at, rfirst) = q
    BY ActStartValue
  <1>2. ReqAction(q, "write_value", at, rfirst) = r
    BY ActWriteValue
  <1>3. ReqActions(p, Taken(c).do, at, rfirst) = r
    BY <1>1, <1>2, Row2
  <1>4. Acted(c) = r
    BY <1>3, PieceIs DEF Acted
  <1> QED  BY <1>4, Became

LEMMA DoesWriteValues ==
  ASSUME NEW c \in RequestChars, RequestChar(c), RequestInv,
         Taken(c).do = <<"write_value">>
  PROVE  Becomes(MarkAt(c), FieldAt(c), QueryNow, LenNow,
               req, Field(FieldAt(c), MarkAt(c), LenNow), {"reading", "nullptr"})
  <1> DEFINE at == BeginsAt(rref, c)
             p == Rec(MarkAt(c), FieldAt(c), QueryNow, LenNow, req, rhead, "reading")
             q == Rec(MarkAt(c), FieldAt(c), QueryNow, LenNow,
                      req, Field(FieldAt(c), MarkAt(c), LenNow), "reading")
  <1>1. ReqAction(p, "write_value", at, rfirst) = q
    BY ActWriteValue
  <1>2. ReqActions(p, Taken(c).do, at, rfirst) = q
    BY <1>1, Row1
  <1>3. Acted(c) = q
    BY <1>2, PieceIs DEF Acted
  <1> QED  BY <1>3, Became

LEMMA DoesDones ==
  ASSUME NEW c \in RequestChars, RequestChar(c), RequestInv,
         Taken(c).do = <<"done">>
  PROVE  Becomes(MarkAt(c), FieldAt(c), QueryNow, LenNow, req, rhead, {"body", "nullptr"})
  <1> DEFINE at == BeginsAt(rref, c)
             p == Rec(MarkAt(c), FieldAt(c), QueryNow, LenNow, req, rhead, "reading")
             q == Rec(MarkAt(c), FieldAt(c), QueryNow, LenNow, req, rhead, "body")
  <1>1. ReqAction(p, "done", at, rfirst) = q
    BY ActDone
  <1>2. ReqActions(p, Taken(c).do, at, rfirst) = q
    BY <1>1, Row1
  <1>3. Acted(c) = q
    BY <1>2, PieceIs DEF Acted
  <1> QED  BY <1>3, Became

-----------------------------------------------------------------------------
(* The reference reader, case by case.                                     *)

\* The reference as a record.
Ref(i, s, k, v, f, g) ==
    [in |-> i, scheme |-> s, cut |-> k, version |-> v, field |-> f, good |-> g]

\* One lemma for each case of RequestRefNext.
LEMMA RefStart ==
  ASSUME NEW i, NEW s, NEW k, NEW v, NEW f, NEW g, NEW c, i = "start"
  PROVE  RequestRefNext(Ref(i, s, k, v, f, g), c)
           = Ref(IF c \in {"<", "@"} THEN "socket" ELSE IF c = "sp" THEN "uri" ELSE "method",
                 s, k, v, f, g)
  <1> DEFINE r == Ref(i, s, k, v, f, g)
             j == IF c \in {"<", "@"} THEN "socket" ELSE IF c = "sp" THEN "uri" ELSE "method"
  <1>1. r.in = i /\ r.scheme = s /\ r.cut = k /\ r.good = g
    BY DEF Ref
  <1>2. RequestRefNext(r, c) = [r EXCEPT !.in = j]
    <2> HIDE DEF r
    <2> QED  BY <1>1 DEF RequestRefNext, TargetNext, NameNext, Target, EndLine
  <1> HIDE DEF j
  <1>3. [r EXCEPT !.in = j] = Ref(j, s, k, v, f, g)
    BY DEF Ref
  <1> QED  BY <1>2, <1>3, Zenon DEF j

LEMMA RefMethod ==
  ASSUME NEW i, NEW s, NEW k, NEW v, NEW f, NEW g, NEW c, i = "method"
  PROVE  RequestRefNext(Ref(i, s, k, v, f, g), c)
           = Ref(IF c = "sp" THEN "uri" ELSE "method", s, k, v, f, g)
  <1> DEFINE r == Ref(i, s, k, v, f, g)
             j == IF c = "sp" THEN "uri" ELSE "method"
  <1>1. r.in = i /\ r.scheme = s /\ r.cut = k /\ r.good = g
    BY DEF Ref
  <1>2. RequestRefNext(r, c) = [r EXCEPT !.in = j]
    <2> HIDE DEF r
    <2> QED  BY <1>1 DEF RequestRefNext, TargetNext, NameNext, Target, EndLine
  <1> HIDE DEF j
  <1>3. [r EXCEPT !.in = j] = Ref(j, s, k, v, f, g)
    BY DEF Ref
  <1> QED  BY <1>2, <1>3, Zenon DEF j

LEMMA RefSpace ==
  ASSUME NEW i, NEW s, NEW k, NEW v, NEW f, NEW g, NEW c, i \in Target, c = "sp"
  PROVE  RequestRefNext(Ref(i, s, k, v, f, g), c)
           = Ref("version-start", s, k, v, f, g)
  <1> DEFINE r == Ref(i, s, k, v, f, g)
  <1>1. r.in = i /\ r.scheme = s /\ r.cut = k /\ r.good = g
    BY DEF Ref
  <1>2. RequestRefNext(r, c) = [r EXCEPT !.in = "version-start"]
    <2> HIDE DEF r
    <2> QED  BY <1>1 DEF RequestRefNext, TargetNext, NameNext, Target, EndLine
  <1>3. [r EXCEPT !.in = "version-start"] = Ref("version-start", s, k, v, f, g)
    BY DEF Ref
  <1> QED  BY <1>2, <1>3, Zenon

LEMMA RefHash ==
  ASSUME NEW i, NEW s, NEW k, NEW v, NEW f, NEW g, NEW c,
         i \in Target \ {"fragment-start", "fragment"}, c = "#"
  PROVE  RequestRefNext(Ref(i, s, k, v, f, g), c)
           = Ref("fragment-start", s, k, v, f, g)
  <1> DEFINE r == Ref(i, s, k, v, f, g)
  <1>1. r.in = i /\ r.scheme = s /\ r.cut = k /\ r.good = g
    BY DEF Ref
  <1>2. RequestRefNext(r, c) = [r EXCEPT !.in = "fragment-start"]
    <2> HIDE DEF r
    <2> QED  BY <1>1 DEF RequestRefNext, TargetNext, NameNext, Target, EndLine
  <1>3. [r EXCEPT !.in = "fragment-start"] = Ref("fragment-start", s, k, v, f, g)
    BY DEF Ref
  <1> QED  BY <1>2, <1>3, Zenon

LEMMA RefQuestion ==
  ASSUME NEW i, NEW s, NEW k, NEW v, NEW f, NEW g, NEW c,
         i \in {"uri", "hier", "path"}, c = "?"
  PROVE  RequestRefNext(Ref(i, s, k, v, f, g), c)
           = Ref("query-start", s, k, v, f, g)
  <1> DEFINE r == Ref(i, s, k, v, f, g)
  <1>1. r.in = i /\ r.scheme = s /\ r.cut = k /\ r.good = g
    BY DEF Ref
  <1>2. RequestRefNext(r, c) = [r EXCEPT !.in = "query-start"]
    <2> HIDE DEF r
    <2> QED  BY <1>1 DEF RequestRefNext, TargetNext, NameNext, Target, EndLine
  <1>3. [r EXCEPT !.in = "query-start"] = Ref("query-start", s, k, v, f, g)
    BY DEF Ref
  <1> QED  BY <1>2, <1>3, Zenon

LEMMA RefUri ==
  ASSUME NEW i, NEW s, NEW k, NEW v, NEW f, NEW g, NEW c,
         i = "uri", c \notin {"sp", "#", "?"}
  PROVE  RequestRefNext(Ref(i, s, k, v, f, g), c)
           = Ref("path", c \in Letter, k, v, f, g)
  <1> DEFINE r == Ref(i, s, k, v, f, g)
  <1>1. r.in = i /\ r.scheme = s /\ r.cut = k /\ r.good = g
    BY DEF Ref
  <1>2. RequestRefNext(r, c) = [r EXCEPT !.in = "path", !.scheme = c \in Letter]
    <2> HIDE DEF r
    <2> QED  BY <1>1 DEF RequestRefNext, TargetNext, NameNext, Target, EndLine
  <1>3. [r EXCEPT !.in = "path", !.scheme = c \in Letter] = Ref("path", c \in Letter, k, v, f, g)
    <2> DEFINE x == c \in Letter
    <2> HIDE DEF x
    <2>1. [r EXCEPT !.in = "path", !.scheme = x] = [[r EXCEPT !.in = "path"] EXCEPT !.scheme = x]
      OBVIOUS
    <2>2. [r EXCEPT !.in = "path"] = Ref("path", s, k, v, f, g)
      BY DEF Ref
    <2>3. [Ref("path", s, k, v, f, g) EXCEPT !.scheme = x] = Ref("path", x, k, v, f, g)
      BY DEF Ref
    <2> QED  BY <2>1, <2>2, <2>3, Zenon DEF x
  <1> QED  BY <1>2, <1>3, Zenon

LEMMA RefScheme ==
  ASSUME NEW r, r.in = "path", r.scheme = TRUE
  PROVE  RequestRefNext(r, ":")
           = [r EXCEPT !.in = "hier", !.scheme = FALSE, !.cut = r.cut \ {"path"}]
  BY DEF RequestRefNext, TargetNext, Target

LEMMA RefPath ==
  ASSUME NEW i, NEW s, NEW k, NEW v, NEW f, NEW g, NEW c,
         i \in {"hier", "path"}, ~(i = "path" /\ s /\ c = ":"), c \notin {"sp", "#", "?"}
  PROVE  RequestRefNext(Ref(i, s, k, v, f, g), c)
           = Ref("path", s /\ c \in SchemeChars, k, v, f, g)
  <1> DEFINE r == Ref(i, s, k, v, f, g)
  <1>1. r.in = i /\ r.scheme = s /\ r.cut = k /\ r.good = g
    BY DEF Ref
  <1>2. RequestRefNext(r, c) = [r EXCEPT !.in = "path", !.scheme = s /\ c \in SchemeChars]
    <2> HIDE DEF r
    <2> QED  BY <1>1 DEF RequestRefNext, TargetNext, NameNext, Target, EndLine
  <1>3. [r EXCEPT !.in = "path", !.scheme = s /\ c \in SchemeChars]
          = Ref("path", s /\ c \in SchemeChars, k, v, f, g)
    <2> DEFINE x == s /\ c \in SchemeChars
    <2> HIDE DEF x
    <2>1. [r EXCEPT !.in = "path", !.scheme = x] = [[r EXCEPT !.in = "path"] EXCEPT !.scheme = x]
      OBVIOUS
    <2>2. [r EXCEPT !.in = "path"] = Ref("path", s, k, v, f, g)
      BY DEF Ref
    <2>3. [Ref("path", s, k, v, f, g) EXCEPT !.scheme = x] = Ref("path", x, k, v, f, g)
      BY DEF Ref
    <2> QED  BY <2>1, <2>2, <2>3, Zenon DEF x
  <1> QED  BY <1>2, <1>3, Zenon

LEMMA RefQuery ==
  ASSUME NEW i, NEW s, NEW k, NEW v, NEW f, NEW g, NEW c,
         i \in {"query-start", "query"}, c \notin {"sp", "#"}
  PROVE  RequestRefNext(Ref(i, s, k, v, f, g), c)
           = Ref("query", s, k, v, f, g)
  <1> DEFINE r == Ref(i, s, k, v, f, g)
  <1>1. r.in = i /\ r.scheme = s /\ r.cut = k /\ r.good = g
    BY DEF Ref
  <1>2. RequestRefNext(r, c) = [r EXCEPT !.in = "query"]
    <2> HIDE DEF r
    <2> QED  BY <1>1 DEF RequestRefNext, TargetNext, NameNext, Target, EndLine
  <1>3. [r EXCEPT !.in = "query"] = Ref("query", s, k, v, f, g)
    BY DEF Ref
  <1> QED  BY <1>2, <1>3, Zenon

LEMMA RefFragment ==
  ASSUME NEW i, NEW s, NEW k, NEW v, NEW f, NEW g, NEW c,
         i \in {"fragment-start", "fragment"}, c # "sp"
  PROVE  RequestRefNext(Ref(i, s, k, v, f, g), c)
           = Ref("fragment", s, k, v, f, g)
  <1> DEFINE r == Ref(i, s, k, v, f, g)
  <1>1. r.in = i /\ r.scheme = s /\ r.cut = k /\ r.good = g
    BY DEF Ref
  <1>2. RequestRefNext(r, c) = [r EXCEPT !.in = "fragment"]
    <2> HIDE DEF r
    <2> QED  BY <1>1 DEF RequestRefNext, TargetNext, NameNext, Target, EndLine
  <1>3. [r EXCEPT !.in = "fragment"] = Ref("fragment", s, k, v, f, g)
    BY DEF Ref
  <1> QED  BY <1>2, <1>3, Zenon

LEMMA RefVersion ==
  ASSUME NEW i, NEW s, NEW k, NEW v, NEW f, NEW g, NEW c,
         i \in {"version-start", "version"}, c \notin {"cr", "lf"}
  PROVE  RequestRefNext(Ref(i, s, k, v, f, g), c)
           = Ref("version", s, k, c, f, g)
  <1> DEFINE r == Ref(i, s, k, v, f, g)
  <1>1. r.in = i /\ r.scheme = s /\ r.cut = k /\ r.good = g
    BY DEF Ref
  <1>2. RequestRefNext(r, c) = [r EXCEPT !.in = "version", !.version = c]
    <2> HIDE DEF r
    <2> QED  BY <1>1 DEF RequestRefNext, TargetNext, NameNext, Target, EndLine
  <1>3. [r EXCEPT !.in = "version", !.version = c] = Ref("version", s, k, c, f, g)
    <2>1. [r EXCEPT !.in = "version", !.version = c] = [[r EXCEPT !.in = "version"] EXCEPT !.version = c]
      OBVIOUS
    <2>2. [r EXCEPT !.in = "version"] = Ref("version", s, k, v, f, g)
      BY DEF Ref
    <2>3. [Ref("version", s, k, v, f, g) EXCEPT !.version = c] = Ref("version", s, k, c, f, g)
      BY DEF Ref
    <2> QED  BY <2>1, <2>2, <2>3, Zenon
  <1> QED  BY <1>2, <1>3, Zenon

LEMMA RefVersionEnd ==
  ASSUME NEW i, NEW s, NEW k, NEW v, NEW f, NEW g, NEW c,
         i \in {"version-start", "version"}, c \in {"cr", "lf"}
  PROVE  RequestRefNext(Ref(i, s, k, v, f, g), c)
           = Ref(IF c = "cr" THEN "line-end" ELSE "line", s, k, v, f, g)
  <1> DEFINE r == Ref(i, s, k, v, f, g)
             j == IF c = "cr" THEN "line-end" ELSE "line"
  <1>1. r.in = i /\ r.scheme = s /\ r.cut = k /\ r.good = g
    BY DEF Ref
  <1>2. RequestRefNext(r, c) = [r EXCEPT !.in = j]
    <2> HIDE DEF r
    <2> QED  BY <1>1 DEF RequestRefNext, TargetNext, NameNext, Target, EndLine
  <1> HIDE DEF j
  <1>3. [r EXCEPT !.in = j] = Ref(j, s, k, v, f, g)
    BY DEF Ref
  <1> QED  BY <1>2, <1>3, Zenon DEF j

LEMMA RefLineEnd ==
  ASSUME NEW i, NEW s, NEW k, NEW v, NEW f, NEW g, NEW c, i = "line-end"
  PROVE  RequestRefNext(Ref(i, s, k, v, f, g), c)
           = Ref("line", s, k, v, f, g)
  <1> DEFINE r == Ref(i, s, k, v, f, g)
  <1>1. r.in = i /\ r.scheme = s /\ r.cut = k /\ r.good = g
    BY DEF Ref
  <1>2. RequestRefNext(r, c) = [r EXCEPT !.in = "line"]
    <2> HIDE DEF r
    <2> QED  BY <1>1 DEF RequestRefNext, TargetNext, NameNext, Target, EndLine
  <1>3. [r EXCEPT !.in = "line"] = Ref("line", s, k, v, f, g)
    BY DEF Ref
  <1> QED  BY <1>2, <1>3, Zenon

LEMMA RefEmptyLine ==
  ASSUME NEW i, NEW s, NEW k, NEW v, NEW f, NEW g, NEW c,
         i \in {"line", "line-cr"}, c = "lf"
  PROVE  RequestRefNext(Ref(i, s, k, v, f, g), c)
           = Ref("end", s, k, v, f, g)
  <1> DEFINE r == Ref(i, s, k, v, f, g)
  <1>1. r.in = i /\ r.scheme = s /\ r.cut = k /\ r.good = g
    BY DEF Ref
  <1>2. RequestRefNext(r, c) = [r EXCEPT !.in = "end"]
    <2> HIDE DEF r
    <2> QED  BY <1>1 DEF RequestRefNext, TargetNext, NameNext, Target, EndLine
  <1>3. [r EXCEPT !.in = "end"] = Ref("end", s, k, v, f, g)
    BY DEF Ref
  <1> QED  BY <1>2, <1>3, Zenon

LEMMA RefLineCr ==
  ASSUME NEW i, NEW s, NEW k, NEW v, NEW f, NEW g, NEW c, i = "line", c = "cr"
  PROVE  RequestRefNext(Ref(i, s, k, v, f, g), c)
           = Ref("line-cr", s, k, v, f, g)
  <1> DEFINE r == Ref(i, s, k, v, f, g)
  <1>1. r.in = i /\ r.scheme = s /\ r.cut = k /\ r.good = g
    BY DEF Ref
  <1>2. RequestRefNext(r, c) = [r EXCEPT !.in = "line-cr"]
    <2> HIDE DEF r
    <2> QED  BY <1>1 DEF RequestRefNext, TargetNext, NameNext, Target, EndLine
  <1>3. [r EXCEPT !.in = "line-cr"] = Ref("line-cr", s, k, v, f, g)
    BY DEF Ref
  <1> QED  BY <1>2, <1>3, Zenon

LEMMA RefName ==
  ASSUME NEW i, NEW s, NEW k, NEW v, NEW f, NEW g, NEW c,
         i \in {"line", "line-cr", "name"}, ~(c = "lf" /\ i # "name"), ~(c = "cr" /\ i = "line")
  PROVE  RequestRefNext(Ref(i, s, k, v, f, g), c)
           = Ref(IF c = ":" THEN "gap" ELSE "name", s, k, v, f,
                 g /\ i # "line-cr" /\ c \notin {"cr", "lf"})
  <1> DEFINE r == Ref(i, s, k, v, f, g)
             j == IF c = ":" THEN "gap" ELSE "name"
             x == g /\ i # "line-cr" /\ c \notin {"cr", "lf"}
  <1>1. r.in = i /\ r.scheme = s /\ r.cut = k /\ r.good = g
    BY DEF Ref
  <1>2. RequestRefNext(r, c) = [r EXCEPT !.in = j, !.good = x]
    <2> HIDE DEF r
    <2> QED  BY <1>1 DEF RequestRefNext, TargetNext, NameNext, Target, EndLine
  <1> HIDE DEF j, x
  <1>3. [r EXCEPT !.in = j, !.good = x] = [[r EXCEPT !.in = j] EXCEPT !.good = x]
    OBVIOUS
  <1>4. [r EXCEPT !.in = j] = Ref(j, s, k, v, f, g)
    BY DEF Ref
  <1>5. [Ref(j, s, k, v, f, g) EXCEPT !.good = x] = Ref(j, s, k, v, f, x)
    BY DEF Ref
  <1> QED  BY <1>2, <1>3, <1>4, <1>5, Zenon DEF x, j

LEMMA RefGap ==
  ASSUME NEW i, NEW s, NEW k, NEW v, NEW f, NEW g, NEW c,
         i \in {"gap", "value"}, c \in {"ht", "sp"}
  PROVE  RequestRefNext(Ref(i, s, k, v, f, g), c)
           = Ref(i, s, k, v, f, g)
  <1> DEFINE r == Ref(i, s, k, v, f, g)
  <1>1. r.in = i /\ r.scheme = s /\ r.cut = k /\ r.good = g
    BY DEF Ref
  <1>2. RequestRefNext(r, c) = r
    <2> HIDE DEF r
    <2> QED  BY <1>1 DEF RequestRefNext, TargetNext, NameNext, Target, EndLine
  <1>3. r = Ref(i, s, k, v, f, g)
    BY DEF Ref
  <1> QED  BY <1>2, <1>3, Zenon

LEMMA RefValue ==
  ASSUME NEW i, NEW s, NEW k, NEW v, NEW f, NEW g, NEW c,
         i \in {"gap", "value"}, c \notin {"ht", "sp", "cr", "lf"}
  PROVE  RequestRefNext(Ref(i, s, k, v, f, g), c)
           = Ref("value", s, k, v, f, g)
  <1> DEFINE r == Ref(i, s, k, v, f, g)
  <1>1. r.in = i /\ r.scheme = s /\ r.cut = k /\ r.good = g
    BY DEF Ref
  <1>2. RequestRefNext(r, c) = [r EXCEPT !.in = "value"]
    <2> HIDE DEF r
    <2> QED  BY <1>1 DEF RequestRefNext, TargetNext, NameNext, Target, EndLine
  <1>3. [r EXCEPT !.in = "value"] = Ref("value", s, k, v, f, g)
    BY DEF Ref
  <1> QED  BY <1>2, <1>3, Zenon

LEMMA RefFieldEnd ==
  ASSUME NEW i \in {"gap", "value"}, NEW s, NEW k, NEW v, NEW f, NEW g,
         NEW c \in {"cr", "lf"}, NEW j, NEW x, NEW y, j = IF c = "cr" THEN "line-end" ELSE "line",
         x = k \ {"name", "value"}, y = k \cap {"name", "value"}
  PROVE  RequestRefNext(Ref(i, s, k, v, f, g), c) = Ref(j, s, x, v, y, g)
  <1> DEFINE r == Ref(i, s, k, v, f, g)
  <1>1. r.in = i /\ r.cut = k
    BY DEF Ref
  <1>2. RequestRefNext(r, c) = [r EXCEPT !.in = j, !.field = y, !.cut = x]
    <2> HIDE DEF r
    <2>1. RequestRefNext(r, c) = EndField(r, c)
      BY <1>1 DEF RequestRefNext, Target
    <2>2. EndField(r, c) = [EndLine(r, c) EXCEPT !.field = y, !.cut = x]
      BY <1>1, Zenon DEF EndField
    <2>3. EndLine(r, c) = [r EXCEPT !.in = j]
      BY Zenon DEF EndLine
    <2> QED  BY <2>1, <2>2, <2>3
  <1>3. [r EXCEPT !.in = j, !.field = y, !.cut = x]
          = [[[r EXCEPT !.in = j] EXCEPT !.field = y] EXCEPT !.cut = x]
    OBVIOUS
  <1>4. [r EXCEPT !.in = j] = Ref(j, s, k, v, f, g)
    BY DEF Ref
  <1>5. [Ref(j, s, k, v, f, g) EXCEPT !.field = y] = Ref(j, s, k, v, y, g)
    BY DEF Ref
  <1>6. [Ref(j, s, k, v, y, g) EXCEPT !.cut = x] = Ref(j, s, x, v, y, g)
    BY DEF Ref
  <1>7. RequestRefNext(r, c) = [[Ref(j, s, k, v, f, g) EXCEPT !.field = y] EXCEPT !.cut = x]
    <2> HIDE DEF r
    <2> QED  BY <1>2, <1>3, <1>4
  <1>8. RequestRefNext(r, c) = Ref(j, s, x, v, y, g)
    <2> HIDE DEF r
    <2> QED  BY <1>5, <1>6, <1>7
  <1> QED  BY <1>8

LEMMA RefSocket ==
  ASSUME NEW i, NEW s, NEW k, NEW v, NEW f, NEW g, NEW c, i = "socket"
  PROVE  RequestRefNext(Ref(i, s, k, v, f, g), c)
           = Ref(i, s, k, v, f, g)
  <1> DEFINE r == Ref(i, s, k, v, f, g)
  <1>1. r.in = i /\ r.scheme = s /\ r.cut = k /\ r.good = g
    BY DEF Ref
  <1>2. RequestRefNext(r, c) = r
    <2> HIDE DEF r
    <2> QED  BY <1>1 DEF RequestRefNext, TargetNext, NameNext, Target, EndLine
  <1>3. r = Ref(i, s, k, v, f, g)
    BY DEF Ref
  <1> QED  BY <1>2, <1>3, Zenon

-----------------------------------------------------------------------------
(* What the steps of the invariant have in common.                         *)

LEMMA RefStep ==
  ASSUME NEW c \in RequestChars, RequestChar(c), RequestInv
  PROVE  rref' = RequestRefNext(Ref(rref.in, rref.scheme, Cut(c), rref.version, rref.field,
                                    rref.good), c)
  BY CharStep DEF RefHere, Ref

\* The pointer of a part that has begun.
LEMMA MarkRight ==
  ASSUME RequestTypes, NEW c
  PROVE  /\ MarkAt(c) # NotSet /\ QueryNow # NotSet /\ BeginsAt(rref, c) # NotSet
         /\ LenNow \in BOOLEAN
  BY DEF RequestTypes, MarkAt, LenNow, QueryNow, BeginsAt, NotSet, Stale

\* The types and the region of the next state.
LEMMA TypesNext ==
  ASSUME NEW c, NEW i, NEW s, NEW k, NEW v, NEW f, NEW g \in BOOLEAN,
         rref' = Ref(i, s, k, v, f, g), rflen' \in BOOLEAN, rfirst' \in BOOLEAN,
         NotSet \notin {rmark', rquery'},
         RequestTypes, NEW y,
         req' \in {req, [req EXCEPT !.method = y], [req EXCEPT !.path = y],
                   [req EXCEPT !.query = y], [req EXCEPT !.fragment = y],
                   [req EXCEPT !.version = y]}
  PROVE  RequestTypes'
  <1>1. /\ rref' = [in |-> rref'.in, scheme |-> rref'.scheme, cut |-> rref'.cut,
                    version |-> rref'.version, field |-> rref'.field, good |-> rref'.good]
        /\ rref'.good \in BOOLEAN
    BY DEF Ref
  <1>2. req' = [part \in ReqParts \cup {"version"} |-> req'[part]]
    BY DEF RequestTypes
  <1> QED  BY <1>1, <1>2 DEF RequestTypes

LEMMA InStepNext ==
  ASSUME NEW c \in RequestChars, RequestChar(c), RequestInv, Region(rcs') \notin {"none", "end"},
         NEW i, NEW s, NEW k, NEW v, NEW f, NEW g,
         rref' = Ref(i, s, k, v, f, g),
         i = IF Region(rcs') = "scheme" THEN "path" ELSE Region(rcs'),
         i \in {"path", "hier"} => s = (Region(rcs') = "scheme")
  PROVE  InStep'
  <1>1. rcs' \in 1..349
    BY CharStep
  <1>2. rref'.in = i /\ rref'.scheme = s
    BY DEF Ref
  <1> QED  BY <1>1, <1>2 DEF InStep

\* A step outside the header fields.
LEMMA LineStep ==
  ASSUME NEW c \in RequestChars, RequestChar(c), RequestInv,
         NEW M, NEW F, NEW Q, NEW R, NEW rets,
         Becomes(M, F, Q, LenNow, R, rhead, rets), M # NotSet, Q # NotSet,
         rets \subseteq {"reading", "nullptr", "throws"},
         NEW y, R \in {req, [req EXCEPT !.method = y], [req EXCEPT !.path = y],
                       [req EXCEPT !.query = y], [req EXCEPT !.fragment = y],
                       [req EXCEPT !.version = y]},
         NEW i, NEW s, NEW k, NEW v, rref' = Ref(i, s, k, v, rref.field, rref.good),
         Region(rcs') \notin {"none", "end"},
         i = IF Region(rcs') = "scheme" THEN "path" ELSE Region(rcs'),
         i \in {"path", "hier"} => s = (Region(rcs') = "scheme"),
         rref.in \notin {"name", "gap", "value", "socket"}, i \notin {"name", "gap", "value"},
         k \subseteq Cut(c),
         "throws" \in rets => "query" \in k,
         i # "socket" => PartsInv'
  PROVE  RequestInv'
  <1>1. RequestTypes /\ (rref.good => FieldInv) /\ (rref.good => FieldRight)
    BY CharStep
  <1>2. RequestTypes'
    <2>1. rflen' \in BOOLEAN /\ rfirst' \in BOOLEAN /\ NotSet \notin {rmark', rquery'}
      BY <1>1, CharStep, MarkRight DEF Becomes
    <2>2. req' \in {req, [req EXCEPT !.method = y], [req EXCEPT !.path = y],
                    [req EXCEPT !.query = y], [req EXCEPT !.fragment = y],
                    [req EXCEPT !.version = y]}
      BY DEF Becomes
    <2>3. rref.good \in BOOLEAN
      BY <1>1 DEF RequestTypes
    <2> QED  BY <1>1, <2>1, <2>2, <2>3, TypesNext
  <1>3. InStep'
    BY InStepNext
  <1>4. rref'.in = i /\ rref'.cut = k /\ rref'.field = rref.field /\ rref'.good = rref.good
    BY DEF Ref
  <1>5. rref'.good => FieldInv'
    <2>1. rref.good => Cut(c) \cap {"name", "value"} = {}
      BY <1>1 DEF FieldInv, Cut, Divided, ReqParts
    <2> QED  BY <1>4, <2>1 DEF FieldInv
  <1>6. rref'.good => FieldRight'
    BY <1>1, <1>4 DEF FieldRight, Becomes
  <1>7. rret' \in {"reading", "nullptr", "throws"} /\ (rret' = "throws" => "query" \in rref'.cut)
    BY <1>4 DEF Becomes
  <1> QED  BY <1>2, <1>3, <1>4, <1>5, <1>6, <1>7, ReadOn

-----------------------------------------------------------------------------
(* One step of the invariant for each region.                              *)

\* The method begins.
LEMMA StepStart ==
  ASSUME NEW c \in RequestChars, RequestChar(c), RequestInv, Region(rcs) = "start"
  PROVE  RequestInv'
  <1>1. rref.in = "start" /\ PartsInv /\ RequestTypes /\ rfirst' = FALSE
    BY CharStep DEF InStep
  <1>2. BeginsAt(rref, c) = {"method"} /\ Cut(c) = rref.cut
    BY <1>1 DEF BeginsAt, Divided, Cut, ReqParts
  <1>3. \/ Region(rcs') = "method" /\ c \notin {"<", "@", "sp"} /\ Taken(c).do = <<"mark">>
        \/ Region(rcs') = "socket" /\ c \in {"<", "@"} /\ Taken(c).do = <<"mark">>
    BY CharStep DEF Moves, TargetMoves, EndMoves, FieldMoves
  <1>4. Becomes({"method"}, FieldAt(c), QueryNow, LenNow, req, rhead, {"reading", "nullptr"})
    BY <1>2, <1>3, DoesMarks
  <1>5. /\ rref' = Ref(Region(rcs'), rref.scheme, Cut(c), rref.version, rref.field, rref.good)
        /\ Region(rcs') \in {"method", "socket"}
    BY <1>1, <1>3, RefStep, RefStart
  <1>6. rref'.in = "method" => PartsInv'
    BY <1>1, <1>2, <1>4, <1>5 DEF PartsInv, NotBegun, ReqParts, HeaderLines, Becomes, Ref
  <1>7. rref'.in = Region(rcs')
    BY <1>5 DEF Ref
  <1>8. {"method"} # NotSet /\ QueryNow # NotSet
    BY <1>1, MarkRight DEF NotSet
  <1> QED  BY <1>1, <1>4, <1>5, <1>6, <1>7, <1>8, LineStep

\* The method, which on_request_method takes at the space.
LEMMA StepMethod ==
  ASSUME NEW c \in RequestChars, RequestChar(c), RequestInv, Region(rcs) = "method"
  PROVE  RequestInv'
  <1>1. rref.in = "method" /\ PartsInv /\ RequestTypes /\ rfirst' = FALSE
    BY CharStep DEF InStep
  <1>2. BeginsAt(rref, c) = {} /\ Cut(c) = rref.cut \cup IF rfirst THEN {"method"} ELSE {}
    BY <1>1 DEF BeginsAt, Divided, Cut, ReqParts
  <1>3. \/ Region(rcs') = "method" /\ c # "sp" /\ Taken(c).do = <<>>
        \/ Region(rcs') = "uri" /\ c = "sp" /\ Taken(c).do = <<"request_method">>
    BY CharStep DEF Moves, TargetMoves, EndMoves, FieldMoves
  <1>4. MarkAt(c) # NotSet /\ QueryNow # NotSet
    BY <1>1, MarkRight
  <1>5. ("method" \in MarkAt(c)) = ("method" \notin Cut(c))
    BY <1>1, <1>2 DEF MarkAt, PartsInv, NotBegun
  <1>6. /\ rref' = Ref(Region(rcs'), rref.scheme, Cut(c), rref.version, rref.field, rref.good)
        /\ rref'.in = Region(rcs') /\ rref'.cut = Cut(c)
    <2>1. rref' = Ref(Region(rcs'), rref.scheme, Cut(c), rref.version, rref.field, rref.good)
      BY <1>1, <1>3, RefStep, RefMethod
    <2> QED  BY <2>1 DEF Ref
  <1>7. CASE Region(rcs') = "method"
    <2>1. Becomes(MarkAt(c), FieldAt(c), QueryNow, LenNow, req, rhead, {"reading", "nullptr"})
      BY <1>3, <1>7, DoesNothing
    <2>2. PartsInv'
      BY <1>1, <1>2, <1>5, <1>6, <1>7, <2>1
         DEF PartsInv, NotBegun, ReqParts, HeaderLines, Becomes
    <2> QED  BY <1>1, <1>4, <1>6, <1>7, <2>1, <2>2, LineStep
  <1>8. CASE Region(rcs') = "uri"
    <2>1. Becomes(MarkAt(c), FieldAt(c), QueryNow, LenNow, [req EXCEPT !.method = MarkAt(c)],
                  rhead, {"reading", "nullptr"})
      BY <1>3, <1>8, DoesMethods
    <2>2. PartsInv'
      BY <1>1, <1>2, <1>4, <1>5, <1>6, <1>8, <2>1
         DEF PartsInv, NotBegun, ReqParts, HeaderLines, Becomes, RequestTypes
    <2> QED  BY <1>1, <1>4, <1>6, <1>8, <2>1, <2>2, LineStep
  <1> QED  BY <1>3, <1>7, <1>8

\* The actions that end a path that begins here, and one that goes on.
LEMMA PathOverMarks ==
  ASSUME NEW c, NEW j, NEW as, PathOver(c, j, as, <<"mark">>)
  PROVE  \/ c = "sp" /\ j = "version-start" /\ as = <<"mark", "request_path", "request_uri">>
         \/ c = "#" /\ j = "fragment-start" /\ as = <<"mark", "request_path", "request_uri">>
         \/ c = "?" /\ j = "query-start" /\ as = <<"mark", "request_path">>
  <1>1. <<"mark">> \o <<"request_path", "request_uri">> = <<"mark", "request_path", "request_uri">>
    BY Concats
  <1>2. <<"mark">> \o <<"request_path">> = <<"mark", "request_path">>
    BY Concats
  <1> QED  BY <1>1, <1>2, Zenon DEF PathOver

LEMMA PathOverGoes ==
  ASSUME NEW c, NEW j, NEW as, PathOver(c, j, as, <<>>)
  PROVE  \/ c = "sp" /\ j = "version-start" /\ as = <<"request_path", "request_uri">>
         \/ c = "#" /\ j = "fragment-start" /\ as = <<"request_path", "request_uri">>
         \/ c = "?" /\ j = "query-start" /\ as = <<"request_path">>
  <1>1. <<>> \o <<"request_path", "request_uri">> = <<"request_path", "request_uri">>
    BY Concats
  <1>2. <<>> \o <<"request_path">> = <<"request_path">>
    BY Concats
  <1> QED  BY <1>1, <1>2, Zenon DEF PathOver

\* The path is over; P is what the pointer mark is at.
LEMMA PathEndStep ==
  ASSUME NEW c \in RequestChars, RequestChar(c), RequestInv,
         rref.in \in {"uri", "hier", "path"},
         \/ c = "sp" /\ Region(rcs') = "version-start"
         \/ c = "#" /\ Region(rcs') = "fragment-start"
         \/ c = "?" /\ Region(rcs') = "query-start",
         NEW P, P # NotSet, ("path" \in P) = ("path" \notin Cut(c)),
         Becomes(P, FieldAt(c), QueryNow, LenNow, [req EXCEPT !.path = P], rhead,
                 {"reading", "nullptr"})
  PROVE  RequestInv'
  <1>1. PartsInv /\ RequestTypes /\ rfirst' = FALSE
    BY CharStep
  <1>2. Cut(c) \subseteq rref.cut \cup {"path"}
    BY DEF Divided, Cut, ReqParts
  <1>3. QueryNow # NotSet
    BY <1>1, MarkRight
  <1>4. /\ rref' = Ref(Region(rcs'), rref.scheme, Cut(c), rref.version, rref.field, rref.good)
        /\ rref'.in = Region(rcs') /\ rref'.cut = Cut(c)
    <2>1. rref.in \in Target /\ rref.in \in Target \ {"fragment-start", "fragment"}
      BY DEF Target
    <2>2. rref' = Ref(Region(rcs'), rref.scheme, Cut(c), rref.version, rref.field, rref.good)
      BY <2>1, RefStep, RefSpace, RefHash, RefQuestion
    <2> QED  BY <2>2 DEF Ref
  <1>5. PartsInv'
    <2>1. \A part \in ReqParts \ {"path"} : req'[part] = req[part]
      BY <1>1 DEF Becomes, RequestTypes
    <2>2. req'.path = P
      BY <1>1 DEF Becomes, RequestTypes, ReqParts
    <2>3. \A part \in ReqParts \ {"path"} : part \in rref'.cut <=> part \in rref.cut
      BY <1>2, <1>4 DEF Cut
    <2>4. rref'.in \in {"version-start", "fragment-start", "query-start"}
      BY <1>4
    <2>5. rref'.cut \cap NotBegun(rref'.in) = {}
      BY <1>1, <1>2, <1>4, <2>4 DEF PartsInv, NotBegun, ReqParts
    <2>6. \A part \in ReqParts :
             IF part \in NotBegun(rref'.in) \cup {rref'.in} THEN req'[part] = NotSet
             ELSE req'[part] # NotSet => (part \in req'[part]) = (part \notin rref'.cut)
      BY <1>1, <1>4, <2>1, <2>2, <2>3, <2>4 DEF PartsInv, NotBegun, ReqParts
    <2>7. req'.method # NotSet /\ req'.path # NotSet
      BY <1>1, <2>1, <2>2 DEF PartsInv, ReqParts
    <2> QED  BY <2>4, <2>5, <2>6, <2>7 DEF PartsInv, HeaderLines
  <1> QED  BY <1>1, <1>3, <1>4, <1>5, LineStep

\* The path begins, or the rest of the URI after "scheme:".
LEMMA StepTargetStart ==
  ASSUME NEW c \in RequestChars, RequestChar(c), RequestInv, Region(rcs) \in {"uri", "hier"}
  PROVE  RequestInv'
  <1>1. /\ rref.in = Region(rcs) /\ PartsInv /\ RequestTypes /\ rfirst' = FALSE
        /\ rref.in = "hier" => rref.scheme = FALSE
    <2>1. InStep /\ (rref.in # "socket" => PartsInv) /\ RequestTypes /\ rfirst' = FALSE
      BY CharStep
    <2>2. rref.in = Region(rcs)
      BY <2>1, Zenon DEF InStep
    <2> QED  BY <2>1, <2>2 DEF InStep
  <1>2. BeginsAt(rref, c) = {"path"} /\ Cut(c) = rref.cut /\ "path" \notin rref.cut
    BY <1>1 DEF BeginsAt, Divided, Cut, ReqParts, PartsInv, NotBegun
  <1>3. \/ /\ Region(rcs') = "path" /\ c \notin {"sp", "#", "?"} /\ Taken(c).do = <<"mark">>
           /\ rref.in = "uri" => c \notin Letter
        \/ /\ Region(rcs') = "scheme" /\ c \in Letter /\ Taken(c).do = <<"mark">>
           /\ rref.in = "uri"
        \/ PathOver(c, Region(rcs'), Taken(c).do, <<"mark">>)
    <2>1. Moves(Region(rcs), c, Region(rcs'), Taken(c).do)
      BY CharStep
    <2>2. TargetMoves(Region(rcs), c, Region(rcs'), Taken(c).do)
      BY <2>1 DEF Moves, EndMoves, FieldMoves
    <2> QED  BY <1>1, <2>2 DEF TargetMoves
  <1>4. {"path"} # NotSet /\ QueryNow # NotSet
    BY <1>1, MarkRight DEF NotSet
  <1>5. CASE Region(rcs') \in {"path", "scheme"}
    <2>1. Taken(c).do = <<"mark">> /\ c \notin {"sp", "#", "?"}
      BY <1>3, <1>5 DEF PathOver, Letter, Upper
    <2>2. Becomes({"path"}, FieldAt(c), QueryNow, LenNow, req, rhead, {"reading", "nullptr"})
      BY <1>2, <2>1, DoesMarks
    <2>3. PICK s : /\ rref' = Ref("path", s, Cut(c), rref.version, rref.field, rref.good)
                   /\ s = (Region(rcs') = "scheme")
      <3>1. CASE rref.in = "uri"
        BY <1>3, <1>5, <2>1, <3>1, RefStep, RefUri DEF PathOver
      <3>2. CASE rref.in = "hier"
        BY <1>1, <1>3, <1>5, <2>1, <3>2, RefStep, RefPath DEF PathOver
      <3> QED  BY <1>1, <3>1, <3>2
    <2>4. rref'.in = "path" /\ rref'.cut = Cut(c)
      BY <2>3 DEF Ref
    <2>5. PartsInv'
      BY <1>1, <1>2, <2>2, <2>4 DEF PartsInv, NotBegun, ReqParts, HeaderLines, Becomes
    <2> QED  BY <1>1, <1>4, <1>5, <2>2, <2>3, <2>5, LineStep
  <1>6. CASE PathOver(c, Region(rcs'), Taken(c).do, <<"mark">>)
    <2>1. Becomes({"path"}, FieldAt(c), QueryNow, LenNow, [req EXCEPT !.path = {"path"}], rhead,
                  {"reading", "nullptr"})
      BY <1>2, <1>6, PathOverMarks, DoesMarkPaths, DoesMarkPathUris
    <2>2. \/ c = "sp" /\ Region(rcs') = "version-start"
          \/ c = "#" /\ Region(rcs') = "fragment-start"
          \/ c = "?" /\ Region(rcs') = "query-start"
      BY <1>6 DEF PathOver
    <2> QED  BY <1>1, <1>2, <1>4, <2>1, <2>2, PathEndStep
  <1> QED  BY <1>3, <1>5, <1>6

\* The path goes on, turns out to be a scheme, or is over.
LEMMA StepPath ==
  ASSUME NEW c \in RequestChars, RequestChar(c), RequestInv, Region(rcs) \in {"path", "scheme"}
  PROVE  RequestInv'
  <1>1. /\ rref.in = "path" /\ PartsInv /\ RequestTypes /\ rfirst' = FALSE
        /\ rref.scheme = (Region(rcs) = "scheme")
    <2>1. InStep /\ (rref.in # "socket" => PartsInv) /\ RequestTypes /\ rfirst' = FALSE
      BY CharStep
    <2>2. rref.in = "path"
      BY <2>1, Zenon DEF InStep
    <2> QED  BY <2>1, <2>2 DEF InStep
  <1>2. BeginsAt(rref, c) = {} /\ Cut(c) = rref.cut \cup IF rfirst THEN {"path"} ELSE {}
    BY <1>1 DEF BeginsAt, Divided, Cut, ReqParts
  <1>3. \/ /\ Region(rcs') = "path" /\ c \notin {"sp", "#", "?"} /\ Taken(c).do = <<>>
           /\ rref.scheme => c \notin SchemeChars \cup {":"}
        \/ /\ Region(rcs') = "scheme" /\ c \in SchemeChars /\ Taken(c).do = <<>>
           /\ rref.scheme
        \/ Region(rcs') = "hier" /\ c = ":" /\ Taken(c).do = <<>> /\ rref.scheme
        \/ PathOver(c, Region(rcs'), Taken(c).do, <<>>)
    <2>1. Moves(Region(rcs), c, Region(rcs'), Taken(c).do)
      BY CharStep
    <2>2. TargetMoves(Region(rcs), c, Region(rcs'), Taken(c).do)
      BY <2>1 DEF Moves, EndMoves, FieldMoves
    <2> QED  BY <1>1, <2>2 DEF TargetMoves
  <1>4. MarkAt(c) # NotSet /\ QueryNow # NotSet
    BY <1>1, MarkRight DEF NotSet
  <1>5. ("path" \in MarkAt(c)) = ("path" \notin Cut(c))
    BY <1>1, <1>2 DEF MarkAt, PartsInv, NotBegun
  <1>6. CASE Region(rcs') \in {"path", "scheme"}
    <2>1. Taken(c).do = <<>> /\ c \notin {"sp", "#", "?"}
      BY <1>3, <1>6 DEF PathOver, SchemeChars, Letter, Upper, ReqDigit
    <2>2. Becomes(MarkAt(c), FieldAt(c), QueryNow, LenNow, req, rhead, {"reading", "nullptr"})
      BY <2>1, DoesNothing
    <2>3. PICK s : /\ rref' = Ref("path", s, Cut(c), rref.version, rref.field, rref.good)
                   /\ s = (Region(rcs') = "scheme")
      <3>1. ~(rref.in = "path" /\ rref.scheme /\ c = ":")
        BY <1>3, <1>6 DEF PathOver, SchemeChars, Letter, Upper, ReqDigit
      <3> QED  BY <1>1, <1>3, <1>6, <2>1, <3>1, RefStep, RefPath DEF PathOver
    <2>4. rref'.in = "path" /\ rref'.cut = Cut(c)
      BY <2>3 DEF Ref
    <2>5. PartsInv'
      BY <1>1, <1>2, <1>5, <2>2, <2>4 DEF PartsInv, NotBegun, ReqParts, HeaderLines, Becomes
    <2> QED  BY <1>1, <1>4, <1>6, <2>2, <2>3, <2>5, LineStep
  <1>7. CASE Region(rcs') = "hier"
    <2>1. Becomes(MarkAt(c), FieldAt(c), QueryNow, LenNow, req, rhead, {"reading", "nullptr"})
      BY <1>3, <1>7, DoesNothing DEF PathOver
    <2> DEFINE no == FALSE
    <2>2. rref' = Ref("hier", no, Cut(c) \ {"path"}, rref.version, rref.field, rref.good)
      <3> DEFINE r == Ref("path", rref.scheme, Cut(c), rref.version, rref.field, rref.good)
                 k == Cut(c)
                 y == k \ {"path"}
      <3>1. c = ":" /\ rref.scheme = TRUE
        BY <1>1, <1>3, <1>7 DEF PathOver
      <3>2. rref' = RequestRefNext(r, ":")
        BY <1>1, <3>1, RefStep
      <3>3. r.in = "path" /\ r.scheme = rref.scheme /\ r.cut = k
        BY DEF Ref
      <3>4. rref' = [r EXCEPT !.in = "hier", !.scheme = no, !.cut = r.cut \ {"path"}]
        <4> HIDE DEF r, k
        <4> QED  BY <3>1, <3>2, <3>3, RefScheme
      <3>5. rref' = [r EXCEPT !.in = "hier", !.scheme = no, !.cut = y]
        <4> HIDE DEF r
        <4> QED  BY <3>3, <3>4
      <3> HIDE DEF no, y, k
      <3>6. [r EXCEPT !.in = "hier", !.scheme = no, !.cut = y]
              = [[[r EXCEPT !.in = "hier"] EXCEPT !.scheme = no] EXCEPT !.cut = y]
        OBVIOUS
      <3>7. [r EXCEPT !.in = "hier"]
              = Ref("hier", rref.scheme, Cut(c), rref.version, rref.field, rref.good)
        BY DEF Ref
      <3>8. [Ref("hier", rref.scheme, Cut(c), rref.version, rref.field, rref.good)
               EXCEPT !.scheme = no]
              = Ref("hier", no, Cut(c), rref.version, rref.field, rref.good)
        BY DEF Ref
      <3>9. [Ref("hier", no, Cut(c), rref.version, rref.field, rref.good) EXCEPT !.cut = y]
              = Ref("hier", no, y, rref.version, rref.field, rref.good)
        BY DEF Ref
      <3> QED  BY <3>5, <3>6, <3>7, <3>8, <3>9, Zenon DEF y, k
    <2>5. no = (Region(rcs') = "scheme")
      BY <1>7
    <2> HIDE DEF no
    <2>3. rref'.in = "hier" /\ rref'.cut = Cut(c) \ {"path"}
      BY <2>2 DEF Ref
    <2>4. PartsInv'
      BY <1>1, <1>2, <2>1, <2>3 DEF PartsInv, NotBegun, ReqParts, HeaderLines, Becomes
    <2> QED  BY <1>1, <1>4, <1>7, <2>1, <2>2, <2>5, <2>4, LineStep
  <1>8. CASE PathOver(c, Region(rcs'), Taken(c).do, <<>>)
    <2>1. Becomes(MarkAt(c), FieldAt(c), QueryNow, LenNow, [req EXCEPT !.path = MarkAt(c)], rhead,
                  {"reading", "nullptr"})
      BY <1>8, PathOverGoes, DoesPaths, DoesPathUris
    <2>2. \/ c = "sp" /\ Region(rcs') = "version-start"
          \/ c = "#" /\ Region(rcs') = "fragment-start"
          \/ c = "?" /\ Region(rcs') = "query-start"
      BY <1>8 DEF PathOver
    <2> QED  BY <1>1, <1>4, <1>5, <2>1, <2>2, PathEndStep
  <1> QED  BY <1>3, <1>6, <1>7, <1>8
\* The query is over; P is what the pointer query_start is at.
LEMMA QueryEndStep ==
  ASSUME NEW c \in RequestChars, RequestChar(c), RequestInv,
         rref.in \in {"query-start", "query"},
         \/ c = "sp" /\ Region(rcs') = "version-start"
         \/ c = "#" /\ Region(rcs') = "fragment-start",
         NEW P, P # NotSet, ("query" \in P) = ("query" \notin Cut(c)),
         NEW rets, rets \subseteq {"reading", "nullptr", "throws"},
         "throws" \in rets => "query" \in Cut(c),
         Becomes(MarkAt(c), FieldAt(c), P, LenNow, [req EXCEPT !.query = P], rhead, rets)
  PROVE  RequestInv'
  <1>1. PartsInv /\ RequestTypes /\ rfirst' = FALSE
    BY CharStep
  <1>2. Cut(c) \subseteq rref.cut \cup {"query"} /\ rref.cut \subseteq Cut(c)
    BY DEF Divided, Cut, ReqParts
  <1>3. MarkAt(c) # NotSet
    BY <1>1, MarkRight
  <1>4. /\ rref' = Ref(Region(rcs'), rref.scheme, Cut(c), rref.version, rref.field, rref.good)
        /\ rref'.in = Region(rcs') /\ rref'.cut = Cut(c)
    <2>1. rref.in \in Target /\ rref.in \in Target \ {"fragment-start", "fragment"}
      BY DEF Target
    <2>2. rref' = Ref(Region(rcs'), rref.scheme, Cut(c), rref.version, rref.field, rref.good)
      BY <2>1, RefStep, RefSpace, RefHash
    <2> QED  BY <2>2 DEF Ref
  <1>5. PartsInv'
    <2>1. \A part \in ReqParts \ {"query"} : req'[part] = req[part]
      BY <1>1 DEF Becomes, RequestTypes
    <2>2. req'.query = P
      BY <1>1 DEF Becomes, RequestTypes, ReqParts
    <2>3. \A part \in ReqParts \ {"query"} : part \in rref'.cut <=> part \in rref.cut
      BY <1>2, <1>4
    <2>4. rref'.in \in {"version-start", "fragment-start"}
      BY <1>4
    <2>5. rref'.cut \cap NotBegun(rref'.in) = {}
      BY <1>1, <1>2, <1>4, <2>4 DEF PartsInv, NotBegun, ReqParts
    <2>6. \A part \in ReqParts :
             IF part \in NotBegun(rref'.in) \cup {rref'.in} THEN req'[part] = NotSet
             ELSE req'[part] # NotSet => (part \in req'[part]) = (part \notin rref'.cut)
      BY <1>1, <1>4, <2>1, <2>2, <2>3, <2>4 DEF PartsInv, NotBegun, ReqParts
    <2>7. req'.method # NotSet /\ req'.path # NotSet
      BY <1>1, <2>1 DEF PartsInv, ReqParts
    <2> QED  BY <2>4, <2>5, <2>6, <2>7 DEF PartsInv, HeaderLines
  <1> QED  BY <1>1, <1>3, <1>4, <1>5, LineStep

\* The query begins.
LEMMA StepQueryStart ==
  ASSUME NEW c \in RequestChars, RequestChar(c), RequestInv, Region(rcs) = "query-start"
  PROVE  RequestInv'
  <1>1. rref.in = "query-start" /\ PartsInv /\ RequestTypes /\ rfirst' = FALSE
    BY CharStep DEF InStep
  <1>2. BeginsAt(rref, c) = {"query"} /\ Cut(c) = rref.cut /\ "query" \notin rref.cut
    BY <1>1 DEF BeginsAt, Divided, Cut, ReqParts, PartsInv, NotBegun
  <1>3. \/ Region(rcs') = "query" /\ c \notin {"sp", "#"} /\ Taken(c).do = <<"start_query">>
        \/ QueryOver(c, Region(rcs'), Taken(c).do, <<"start_query">>)
    BY CharStep DEF Moves, TargetMoves, EndMoves, FieldMoves
  <1>4. MarkAt(c) # NotSet /\ {"query"} # NotSet
    BY <1>1, MarkRight DEF NotSet
  <1>5. CASE Region(rcs') = "query"
    <2>1. Becomes(MarkAt(c), FieldAt(c), {"query"}, LenNow, req, rhead, {"reading", "nullptr"})
      BY <1>2, <1>3, <1>5, DoesStartQuerys DEF QueryOver
    <2>2. rref' = Ref("query", rref.scheme, Cut(c), rref.version, rref.field, rref.good)
      BY <1>1, <1>3, <1>5, RefStep, RefQuery DEF QueryOver
    <2>3. rref'.in = "query" /\ rref'.cut = Cut(c)
      BY <2>2 DEF Ref
    <2>4. PartsInv'
      BY <1>1, <1>2, <2>1, <2>3 DEF PartsInv, NotBegun, ReqParts, HeaderLines, Becomes
    <2> QED  BY <1>1, <1>4, <1>5, <2>1, <2>2, <2>4, LineStep
  <1>6. CASE QueryOver(c, Region(rcs'), Taken(c).do, <<"start_query">>)
    <2>1. Taken(c).do = <<"start_query", "query_string", "request_uri">>
      <3>1. <<"start_query">> \o <<"query_string", "request_uri">>
              = <<"start_query", "query_string", "request_uri">>
        BY Concats
      <3> QED  BY <1>6, <3>1, Zenon DEF QueryOver
    <2>2. Becomes(MarkAt(c), FieldAt(c), {"query"}, LenNow, [req EXCEPT !.query = {"query"}], rhead,
                  {"reading", "nullptr"} \cup (IF {"query"} = Stale THEN {"throws"} ELSE {}))
      BY <1>2, <2>1, DoesWholeQuerys
    <2>3. {"reading", "nullptr"} \cup (IF {"query"} = Stale THEN {"throws"} ELSE {})
            = {"reading", "nullptr"}
      BY DEF Stale
    <2>4. \/ c = "sp" /\ Region(rcs') = "version-start"
          \/ c = "#" /\ Region(rcs') = "fragment-start"
      BY <1>6 DEF QueryOver
    <2> QED  BY <1>1, <1>2, <1>4, <2>2, <2>3, <2>4, QueryEndStep
  <1> QED  BY <1>3, <1>5, <1>6

\* The query goes on or is over.
LEMMA StepQuery ==
  ASSUME NEW c \in RequestChars, RequestChar(c), RequestInv, Region(rcs) = "query"
  PROVE  RequestInv'
  <1>1. rref.in = "query" /\ PartsInv /\ RequestTypes /\ rfirst' = FALSE
    BY CharStep DEF InStep
  <1>2. BeginsAt(rref, c) = {} /\ Cut(c) = rref.cut \cup IF rfirst THEN {"query"} ELSE {}
    BY <1>1 DEF BeginsAt, Divided, Cut, ReqParts
  <1>3. \/ Region(rcs') = "query" /\ c \notin {"sp", "#"} /\ Taken(c).do = <<>>
        \/ QueryOver(c, Region(rcs'), Taken(c).do, <<>>)
    BY CharStep DEF Moves, TargetMoves, EndMoves, FieldMoves
  <1>4. MarkAt(c) # NotSet /\ QueryNow # NotSet
    BY <1>1, MarkRight
  <1>5. ("query" \in QueryNow) = ("query" \notin Cut(c))
    BY <1>1, <1>2 DEF QueryNow, Stale, PartsInv, NotBegun
  <1>6. CASE Region(rcs') = "query"
    <2>1. Becomes(MarkAt(c), FieldAt(c), QueryNow, LenNow, req, rhead, {"reading", "nullptr"})
      BY <1>3, <1>6, DoesNothing DEF QueryOver
    <2>2. rref' = Ref("query", rref.scheme, Cut(c), rref.version, rref.field, rref.good)
      BY <1>1, <1>3, <1>6, RefStep, RefQuery DEF QueryOver
    <2>3. rref'.in = "query" /\ rref'.cut = Cut(c)
      BY <2>2 DEF Ref
    <2>4. PartsInv'
      BY <1>1, <1>2, <1>5, <2>1, <2>3 DEF PartsInv, NotBegun, ReqParts, HeaderLines, Becomes
    <2> QED  BY <1>1, <1>4, <1>6, <2>1, <2>2, <2>4, LineStep
  <1>7. CASE QueryOver(c, Region(rcs'), Taken(c).do, <<>>)
    <2>1. Taken(c).do = <<"query_string", "request_uri">>
      <3>1. <<>> \o <<"query_string", "request_uri">> = <<"query_string", "request_uri">>
        BY Concats
      <3> QED  BY <1>7, <3>1, Zenon DEF QueryOver
    <2> DEFINE rets == {"reading", "nullptr"} \cup (IF QueryNow = Stale THEN {"throws"} ELSE {})
    <2>2. Becomes(MarkAt(c), FieldAt(c), QueryNow, LenNow, [req EXCEPT !.query = QueryNow], rhead,
                  rets)
      BY <2>1, DoesQuerys
    <2>3. rets \subseteq {"reading", "nullptr", "throws"} /\ ("throws" \in rets => "query" \in Cut(c))
      BY <1>5 DEF Stale
    <2>4. \/ c = "sp" /\ Region(rcs') = "version-start"
          \/ c = "#" /\ Region(rcs') = "fragment-start"
      BY <1>7 DEF QueryOver
    <2> HIDE DEF rets
    <2> QED  BY <1>1, <1>4, <1>5, <2>2, <2>3, <2>4, QueryEndStep
  <1> QED  BY <1>3, <1>6, <1>7

\* The fragment is over; P is what the pointer mark is at.
LEMMA FragmentEndStep ==
  ASSUME NEW c \in RequestChars, RequestChar(c), RequestInv,
         rref.in \in {"fragment-start", "fragment"},
         c = "sp", Region(rcs') = "version-start",
         NEW P, P # NotSet, ("fragment" \in P) = ("fragment" \notin Cut(c)),
         Becomes(P, FieldAt(c), QueryNow, LenNow, [req EXCEPT !.fragment = P], rhead,
                 {"reading", "nullptr"})
  PROVE  RequestInv'
  <1>1. PartsInv /\ RequestTypes /\ rfirst' = FALSE
    BY CharStep
  <1>2. Cut(c) \subseteq rref.cut \cup {"fragment"} /\ rref.cut \subseteq Cut(c)
    BY DEF Divided, Cut, ReqParts
  <1>3. QueryNow # NotSet
    BY <1>1, MarkRight
  <1>4. /\ rref' = Ref("version-start", rref.scheme, Cut(c), rref.version, rref.field, rref.good)
        /\ rref'.in = "version-start" /\ rref'.cut = Cut(c)
    <2>1. rref.in \in Target
      BY DEF Target
    <2>2. rref' = Ref("version-start", rref.scheme, Cut(c), rref.version, rref.field, rref.good)
      BY <2>1, RefStep, RefSpace
    <2> QED  BY <2>2 DEF Ref
  <1>5. PartsInv'
    <2>1. \A part \in ReqParts \ {"fragment"} : req'[part] = req[part]
      BY <1>1 DEF Becomes, RequestTypes
    <2>2. req'.fragment = P
      BY <1>1 DEF Becomes, RequestTypes, ReqParts
    <2>3. \A part \in ReqParts \ {"fragment"} : part \in rref'.cut <=> part \in rref.cut
      BY <1>2, <1>4
    <2>5. rref'.cut \cap NotBegun(rref'.in) = {}
      BY <1>1, <1>2, <1>4 DEF PartsInv, NotBegun, ReqParts
    <2>6. \A part \in ReqParts :
             IF part \in NotBegun(rref'.in) \cup {rref'.in} THEN req'[part] = NotSet
             ELSE req'[part] # NotSet => (part \in req'[part]) = (part \notin rref'.cut)
      BY <1>1, <1>4, <2>1, <2>2, <2>3 DEF PartsInv, NotBegun, ReqParts
    <2>7. req'.method # NotSet /\ req'.path # NotSet
      BY <1>1, <2>1 DEF PartsInv, ReqParts
    <2> QED  BY <1>4, <2>5, <2>6, <2>7 DEF PartsInv, HeaderLines
  <1> QED  BY <1>1, <1>3, <1>4, <1>5, LineStep

\* The fragment begins.
LEMMA StepFragmentStart ==
  ASSUME NEW c \in RequestChars, RequestChar(c), RequestInv, Region(rcs) = "fragment-start"
  PROVE  RequestInv'
  <1>1. rref.in = "fragment-start" /\ PartsInv /\ RequestTypes /\ rfirst' = FALSE
    BY CharStep DEF InStep
  <1>2. BeginsAt(rref, c) = {"fragment"} /\ Cut(c) = rref.cut /\ "fragment" \notin rref.cut
    BY <1>1 DEF BeginsAt, Divided, Cut, ReqParts, PartsInv, NotBegun
  <1>3. \/ Region(rcs') = "fragment" /\ c # "sp" /\ Taken(c).do = <<"mark">>
        \/ Region(rcs') = "version-start" /\ c = "sp" /\ Taken(c).do = <<"mark", "fragment">>
    BY CharStep DEF Moves, TargetMoves, EndMoves, FieldMoves
  <1>4. {"fragment"} # NotSet /\ QueryNow # NotSet
    BY <1>1, MarkRight DEF NotSet
  <1>5. CASE Region(rcs') = "fragment"
    <2>1. Becomes({"fragment"}, FieldAt(c), QueryNow, LenNow, req, rhead, {"reading", "nullptr"})
      BY <1>2, <1>3, <1>5, DoesMarks
    <2>2. rref' = Ref("fragment", rref.scheme, Cut(c), rref.version, rref.field, rref.good)
      BY <1>1, <1>3, <1>5, RefStep, RefFragment
    <2>3. rref'.in = "fragment" /\ rref'.cut = Cut(c)
      BY <2>2 DEF Ref
    <2>4. PartsInv'
      BY <1>1, <1>2, <2>1, <2>3 DEF PartsInv, NotBegun, ReqParts, HeaderLines, Becomes
    <2> QED  BY <1>1, <1>4, <1>5, <2>1, <2>2, <2>4, LineStep
  <1>6. CASE Region(rcs') = "version-start"
    <2>1. Becomes({"fragment"}, FieldAt(c), QueryNow, LenNow, [req EXCEPT !.fragment = {"fragment"}],
                  rhead, {"reading", "nullptr"})
      BY <1>2, <1>3, <1>6, DoesMarkFragments
    <2> QED  BY <1>1, <1>2, <1>3, <1>4, <1>6, <2>1, FragmentEndStep
  <1> QED  BY <1>3, <1>5, <1>6

\* The fragment goes on or is over.
LEMMA StepFragment ==
  ASSUME NEW c \in RequestChars, RequestChar(c), RequestInv, Region(rcs) = "fragment"
  PROVE  RequestInv'
  <1>1. rref.in = "fragment" /\ PartsInv /\ RequestTypes /\ rfirst' = FALSE
    BY CharStep DEF InStep
  <1>2. BeginsAt(rref, c) = {} /\ Cut(c) = rref.cut \cup IF rfirst THEN {"fragment"} ELSE {}
    BY <1>1 DEF BeginsAt, Divided, Cut, ReqParts
  <1>3. \/ Region(rcs') = "fragment" /\ c # "sp" /\ Taken(c).do = <<>>
        \/ Region(rcs') = "version-start" /\ c = "sp" /\ Taken(c).do = <<"fragment">>
    BY CharStep DEF Moves, TargetMoves, EndMoves, FieldMoves
  <1>4. MarkAt(c) # NotSet /\ QueryNow # NotSet
    BY <1>1, MarkRight
  <1>5. ("fragment" \in MarkAt(c)) = ("fragment" \notin Cut(c))
    BY <1>1, <1>2 DEF MarkAt, PartsInv, NotBegun
  <1>6. CASE Region(rcs') = "fragment"
    <2>1. Becomes(MarkAt(c), FieldAt(c), QueryNow, LenNow, req, rhead, {"reading", "nullptr"})
      BY <1>3, <1>6, DoesNothing
    <2>2. rref' = Ref("fragment", rref.scheme, Cut(c), rref.version, rref.field, rref.good)
      BY <1>1, <1>3, <1>6, RefStep, RefFragment
    <2>3. rref'.in = "fragment" /\ rref'.cut = Cut(c)
      BY <2>2 DEF Ref
    <2>4. PartsInv'
      BY <1>1, <1>2, <1>5, <2>1, <2>3 DEF PartsInv, NotBegun, ReqParts, HeaderLines, Becomes
    <2> QED  BY <1>1, <1>4, <1>6, <2>1, <2>2, <2>4, LineStep
  <1>7. CASE Region(rcs') = "version-start"
    <2>1. Becomes(MarkAt(c), FieldAt(c), QueryNow, LenNow, [req EXCEPT !.fragment = MarkAt(c)], rhead,
                  {"reading", "nullptr"})
      BY <1>3, <1>7, DoesFragments
    <2> QED  BY <1>1, <1>3, <1>4, <1>5, <1>7, <2>1, FragmentEndStep
  <1> QED  BY <1>3, <1>6, <1>7
\* A step that ends with an error.
LEMMA ReadEnds ==
  ASSUME RequestTypes', rret' = "nullptr", rref'.good => FieldRight'
  PROVE  RequestInv'
  BY DEF RequestInv, RequestPartsRight, HeadersRight

\* on_request_version: the version of the first bytes of a piece is
\* "1", and a version that is none is an error.
LEMMA DoesVersion ==
  ASSUME NEW c \in RequestChars, RequestChar(c), RequestInv, Taken(c).do = <<"http_version">>
  PROVE  \/ /\ rfirst
            /\ Becomes(MarkAt(c), FieldAt(c), QueryNow, LenNow, [req EXCEPT !.version = "1"], rhead,
                       {"reading", "nullptr"})
         \/ /\ ~rfirst /\ "version" \in MarkAt(c)
            /\ Becomes(MarkAt(c), FieldAt(c), QueryNow, LenNow,
                       [req EXCEPT !.version = rref.version], rhead, {"reading", "nullptr"})
         \/ Becomes(MarkAt(c), FieldAt(c), QueryNow, LenNow, req, rhead, {"nullptr"})
  <1> DEFINE p == Rec(MarkAt(c), FieldAt(c), QueryNow, LenNow, req, rhead, "reading")
  <1>1. Acted(c) = SetVersion(p, rfirst)
    <2>1. Piece(BeginsAt(rref, c)) = p
      BY PieceIs
    <2> HIDE DEF p
    <2>2. ReqAction(p, "http_version", BeginsAt(rref, c), rfirst) = SetVersion(p, rfirst)
      BY Action
    <2>3. ReqActions(p, Taken(c).do, BeginsAt(rref, c), rfirst) = SetVersion(p, rfirst)
      BY <2>2, Row1
    <2> QED  BY <2>1, <2>3 DEF Acted
  <1>2. p.mark = MarkAt(c)
    BY DEF Rec
  <1>3. rfirst \in BOOLEAN /\ \A k \in DOMAIN Taken(c).do : Taken(c).do[k] # "query_string"
    <2>1. RequestTypes
      BY CharStep
    <2> QED  BY <2>1 DEF RequestTypes
  <1>4. CASE rfirst
    <2>1. Acted(c) = [p EXCEPT !.req.version = "1"]
      <3> HIDE DEF p
      <3> QED  BY <1>1, <1>4 DEF SetVersion
    <2>2. Acted(c) = Rec(MarkAt(c), FieldAt(c), QueryNow, LenNow, [req EXCEPT !.version = "1"],
                         rhead, "reading")
      BY <2>1 DEF Rec
    <2>3. Becomes(MarkAt(c), FieldAt(c), QueryNow, LenNow, [req EXCEPT !.version = "1"], rhead,
                  {"reading", "nullptr"})
      BY <1>3, <2>2, Became
    <2> QED  BY <1>4, <2>3
  <1>5. CASE ~rfirst /\ "version" \in MarkAt(c)
    <2>1. Acted(c) = [p EXCEPT !.req.version = rref.version]
      <3> HIDE DEF p
      <3> QED  BY <1>1, <1>2, <1>5 DEF SetVersion
    <2>2. Acted(c) = Rec(MarkAt(c), FieldAt(c), QueryNow, LenNow,
                         [req EXCEPT !.version = rref.version], rhead, "reading")
      BY <2>1 DEF Rec
    <2>3. Becomes(MarkAt(c), FieldAt(c), QueryNow, LenNow, [req EXCEPT !.version = rref.version],
                  rhead, {"reading", "nullptr"})
      BY <1>3, <2>2, Became
    <2> QED  BY <1>5, <2>3
  <1>6. CASE ~rfirst /\ "version" \notin MarkAt(c)
    <2>1. Acted(c) = [p EXCEPT !.out = "nullptr"]
      <3> HIDE DEF p
      <3> QED  BY <1>1, <1>2, <1>6 DEF SetVersion
    <2>2. Acted(c) = Rec(MarkAt(c), FieldAt(c), QueryNow, LenNow, req, rhead, "nullptr")
      BY <2>1 DEF Rec
    <2>3. Becomes(MarkAt(c), FieldAt(c), QueryNow, LenNow, req, rhead, {"nullptr"})
      BY <1>3, <2>2, Became
    <2> QED  BY <2>3
  <1> QED  BY <1>4, <1>5, <1>6

\* The version begins.
LEMMA StepVersionStart ==
  ASSUME NEW c \in RequestChars, RequestChar(c), RequestInv, Region(rcs) = "version-start"
  PROVE  RequestInv'
  <1>1. rref.in = "version-start" /\ PartsInv /\ RequestTypes /\ rfirst' = FALSE
    BY CharStep DEF InStep
  <1>2. BeginsAt(rref, c) = {"version"} /\ Cut(c) = rref.cut /\ "version" \notin rref.cut
    BY <1>1 DEF BeginsAt, Divided, Cut, ReqParts, PartsInv, NotBegun
  <1>3. Region(rcs') = "version" /\ c \notin {"cr", "lf"} /\ Taken(c).do = <<"mark">>
    BY CharStep DEF Moves, TargetMoves, EndMoves, FieldMoves
  <1>4. {"version"} # NotSet /\ QueryNow # NotSet
    BY <1>1, MarkRight DEF NotSet
  <1>5. Becomes({"version"}, FieldAt(c), QueryNow, LenNow, req, rhead, {"reading", "nullptr"})
    BY <1>2, <1>3, DoesMarks
  <1>6. rref' = Ref("version", rref.scheme, Cut(c), c, rref.field, rref.good)
    BY <1>1, <1>3, RefStep, RefVersion
  <1>7. rref'.in = "version" /\ rref'.cut = Cut(c)
    BY <1>6 DEF Ref
  <1>8. PartsInv'
    BY <1>1, <1>2, <1>5, <1>7 DEF PartsInv, NotBegun, ReqParts, HeaderLines, Becomes
  <1> QED  BY <1>1, <1>3, <1>4, <1>5, <1>6, <1>8, LineStep

\* The version goes on or the request line is over.
LEMMA StepVersion ==
  ASSUME NEW c \in RequestChars, RequestChar(c), RequestInv, Region(rcs) = "version"
  PROVE  RequestInv'
  <1>1. rref.in = "version" /\ PartsInv /\ RequestTypes /\ rfirst' = FALSE
        /\ (rref.good => FieldRight)
    <2>1. InStep /\ (rref.in # "socket" => PartsInv) /\ RequestTypes /\ rfirst' = FALSE
          /\ (rref.good => FieldRight)
      BY CharStep
    <2>2. rref.in = "version"
      BY <2>1, Zenon DEF InStep
    <2> QED  BY <2>1, <2>2
  <1>2. BeginsAt(rref, c) = {} /\ Cut(c) = rref.cut \cup IF rfirst THEN {"version"} ELSE {}
    BY <1>1 DEF BeginsAt, Divided, Cut, ReqParts
  <1>3. \/ Region(rcs') = "version" /\ c \notin {"cr", "lf"} /\ Taken(c).do = <<>>
        \/ /\ Region(rcs') = (IF c = "cr" THEN "line-end" ELSE "line") /\ c \in {"cr", "lf"}
           /\ Taken(c).do = <<"http_version">>
    <2>1. Moves(Region(rcs), c, Region(rcs'), Taken(c).do)
      BY CharStep
    <2>2. EndMoves(Region(rcs), c, Region(rcs'), Taken(c).do)
      BY <2>1 DEF Moves, TargetMoves, FieldMoves
    <2> QED  BY <2>2 DEF EndMoves, LineOver
  <1>4. MarkAt(c) # NotSet /\ QueryNow # NotSet
    BY <1>1, MarkRight
  <1>5. ("version" \in MarkAt(c)) = ("version" \notin Cut(c))
    BY <1>1, <1>2 DEF MarkAt, PartsInv, NotBegun
  <1>6. CASE Region(rcs') = "version"
    <2>1. Becomes(MarkAt(c), FieldAt(c), QueryNow, LenNow, req, rhead, {"reading", "nullptr"})
      BY <1>3, <1>6, DoesNothing
    <2>2. rref' = Ref("version", rref.scheme, Cut(c), c, rref.field, rref.good)
      BY <1>1, <1>3, <1>6, RefStep, RefVersion
    <2>3. rref'.in = "version" /\ rref'.cut = Cut(c)
      BY <2>2 DEF Ref
    <2>4. PartsInv'
      BY <1>1, <1>2, <1>5, <2>1, <2>3 DEF PartsInv, NotBegun, ReqParts, HeaderLines, Becomes
    <2> QED  BY <1>1, <1>4, <1>6, <2>1, <2>2, <2>4, LineStep
  <1>7. CASE Region(rcs') # "version"
    <2>1. Taken(c).do = <<"http_version">> /\ c \in {"cr", "lf"}
          /\ Region(rcs') = (IF c = "cr" THEN "line-end" ELSE "line")
      BY <1>3, <1>7
    <2>2. rref' = Ref(Region(rcs'), rref.scheme, Cut(c), rref.version, rref.field, rref.good)
      BY <1>1, <2>1, RefStep, RefVersionEnd
    <2>3. /\ rref'.in = Region(rcs') /\ rref'.cut = Cut(c) /\ rref'.version = rref.version
          /\ rref'.field = rref.field /\ rref'.good = rref.good
      BY <2>2 DEF Ref
    <2>4. ASSUME NEW V, V = IF "version" \in Cut(c) THEN "1" ELSE rref.version,
                 Becomes(MarkAt(c), FieldAt(c), QueryNow, LenNow, [req EXCEPT !.version = V], rhead,
                         {"reading", "nullptr"})
          PROVE  RequestInv'
      <3>1. \A part \in ReqParts : req'[part] = req[part]
        BY <1>1, <2>4 DEF Becomes, RequestTypes, ReqParts
      <3>2. req'.version = V
        BY <1>1, <2>4 DEF Becomes, RequestTypes, ReqParts
      <3>3. rref'.in \in {"line-end", "line"}
        BY <2>1, <2>3
      <3>4. PartsInv'
        BY <1>1, <1>2, <2>3, <2>4, <3>1, <3>2, <3>3 DEF PartsInv, NotBegun, ReqParts, HeaderLines
      <3> QED  BY <1>1, <1>4, <2>1, <2>2, <2>4, <3>4, LineStep
    <2>5. CASE rfirst /\ Becomes(MarkAt(c), FieldAt(c), QueryNow, LenNow,
                 [req EXCEPT !.version = "1"], rhead, {"reading", "nullptr"})
      BY <1>2, <2>4, <2>5
    <2>6. CASE ~rfirst /\ "version" \in MarkAt(c) /\ Becomes(MarkAt(c), FieldAt(c), QueryNow, LenNow,
                 [req EXCEPT !.version = rref.version], rhead, {"reading", "nullptr"})
      BY <1>5, <2>4, <2>6
    <2>7. CASE Becomes(MarkAt(c), FieldAt(c), QueryNow, LenNow, req, rhead, {"nullptr"})
      <3>1. RequestTypes'
        <4>1. rflen' \in BOOLEAN /\ rfirst' \in BOOLEAN /\ NotSet \notin {rmark', rquery'}
              /\ req' = req
          BY <1>1, <1>4, <2>7, MarkRight DEF Becomes
        <4> QED  BY <1>1, <2>2, <4>1, TypesNext DEF RequestTypes
      <3>2. rref'.good => FieldRight'
        BY <1>1, <2>3, <2>7 DEF FieldRight, Becomes
      <3>3. rret' = "nullptr"
        BY <2>7 DEF Becomes
      <3> QED  BY <3>1, <3>2, <3>3, ReadEnds
    <2> QED  BY <2>1, <2>5, <2>6, <2>7, DoesVersion
  <1> QED  BY <1>6, <1>7

\* The line feed after a carriage return.
LEMMA StepLineEnd ==
  ASSUME NEW c \in RequestChars, RequestChar(c), RequestInv, Region(rcs) = "line-end"
  PROVE  RequestInv'
  <1>1. rref.in = "line-end" /\ PartsInv /\ RequestTypes /\ rfirst' = FALSE
    BY CharStep DEF InStep
  <1>2. Cut(c) = rref.cut
    BY <1>1 DEF Divided, Cut, ReqParts
  <1>3. Region(rcs') = "line" /\ Taken(c).do = <<>>
    BY CharStep DEF Moves, TargetMoves, EndMoves, FieldMoves
  <1>4. MarkAt(c) # NotSet /\ QueryNow # NotSet
    BY <1>1, MarkRight
  <1>5. Becomes(MarkAt(c), FieldAt(c), QueryNow, LenNow, req, rhead, {"reading", "nullptr"})
    BY <1>3, DoesNothing
  <1>6. rref' = Ref("line", rref.scheme, Cut(c), rref.version, rref.field, rref.good)
    BY <1>1, RefStep, RefLineEnd
  <1>7. rref'.in = "line" /\ rref'.cut = Cut(c) /\ rref'.version = rref.version
    BY <1>6 DEF Ref
  <1>8. PartsInv'
    BY <1>1, <1>2, <1>5, <1>7 DEF PartsInv, NotBegun, ReqParts, HeaderLines, Becomes
  <1> QED  BY <1>1, <1>3, <1>4, <1>5, <1>6, <1>8, LineStep

-----------------------------------------------------------------------------
(* The header fields.                                                      *)

\* The request line is over.
LEMMA HeaderParts ==
  ASSUME PartsInv, rref.in \in HeaderLines, rref'.in \in HeaderLines, req' = req,
         rref'.version = rref.version,
         rref'.cut \ {"name", "value"} = rref.cut \ {"name", "value"}
  PROVE  PartsInv'
  <1>1. \A part \in ReqParts \cup {"version"} : part \in rref'.cut <=> part \in rref.cut
    BY DEF ReqParts
  <1>2. /\ NotBegun(rref.in) = {} /\ NotBegun(rref'.in) = {}
        /\ rref.in \notin ReqParts /\ rref'.in \notin ReqParts
    BY DEF NotBegun, ReqParts, HeaderLines
  <1>3. \A part \in ReqParts :
          IF part \in NotBegun(rref'.in) \cup {rref'.in} THEN req'[part] = NotSet
          ELSE req'[part] # NotSet => (part \in req'[part]) = (part \notin rref'.cut)
    BY <1>1, <1>2 DEF PartsInv
  <1>4. req'.method # NotSet /\ req'.path # NotSet
    BY DEF PartsInv, HeaderLines
  <1>5. req'.version = IF "version" \in rref'.cut THEN "1" ELSE rref'.version
    BY <1>1 DEF PartsInv
  <1> QED  BY <1>2, <1>3, <1>4, <1>5 DEF PartsInv, HeaderLines

FieldRegions == {"line", "line-cr", "line-end", "name", "gap", "value"}

\* A step in the header fields.
LEMMA FieldStep ==
  ASSUME NEW c \in RequestChars, RequestChar(c), RequestInv, rref.in \in FieldRegions,
         NEW M, NEW F, NEW Q, NEW L \in BOOLEAN, NEW H,
         Becomes(M, F, Q, L, req, H, {"reading", "nullptr"}), M # NotSet, Q # NotSet,
         NEW s, NEW k, NEW f, NEW g \in BOOLEAN,
         rref' = Ref(Region(rcs'), s, k, rref.version, f, g),
         Region(rcs') \in FieldRegions,
         k \ {"name", "value"} = rref.cut \ {"name", "value"},
         g => FieldInv', g => FieldRight'
  PROVE  RequestInv'
  <1>1. RequestTypes /\ (rref.in # "socket" => PartsInv) /\ rfirst' = FALSE
    BY CharStep
  <1>2. PartsInv
    BY <1>1 DEF FieldRegions
  <1>3. rref'.in = Region(rcs') /\ rref'.cut = k /\ rref'.version = rref.version /\ rref'.good = g
    BY DEF Ref
  <1>4. RequestTypes'
    <2>1. rflen' \in BOOLEAN /\ rfirst' \in BOOLEAN /\ NotSet \notin {rmark', rquery'} /\ req' = req
      BY <1>1 DEF Becomes
    <2> QED  BY <1>1, <2>1, TypesNext DEF RequestTypes
  <1>5. InStep'
    <2>1. Region(rcs') \notin {"none", "end", "scheme", "path", "hier"}
      BY DEF FieldRegions
    <2> QED  BY <2>1, InStepNext
  <1>6. PartsInv'
    <2>1. rref.in \in HeaderLines /\ rref'.in \in HeaderLines
      BY <1>3 DEF HeaderLines, FieldRegions
    <2>2. req' = req
      BY DEF Becomes
    <2> QED  BY <1>2, <1>3, <2>1, <2>2, HeaderParts
  <1>7. rret' \in {"reading", "nullptr", "throws"} /\ (rret' = "throws" => "query" \in rref'.cut)
    BY DEF Becomes
  <1> QED  BY <1>3, <1>4, <1>5, <1>6, <1>7, ReadOn

\* The empty line.
LEMMA HeaderEndStep ==
  ASSUME NEW c \in RequestChars, RequestChar(c), RequestInv, rref.in \in {"line", "line-cr"},
         c = "lf", NEW F,
         Becomes(MarkAt(c), F, QueryNow, LenNow, req, rhead, {"body", "nullptr"})
  PROVE  RequestInv'
  <1>1. RequestTypes /\ PartsInv /\ rfirst' = FALSE
    BY CharStep
  <1>2. rref.good => FieldRight
    BY CharStep
  <1>3. Cut(c) = rref.cut
    BY DEF Divided, Cut, ReqParts
  <1>4. rref' = Ref("end", rref.scheme, Cut(c), rref.version, rref.field, rref.good)
    BY RefStep, RefEmptyLine
  <1>5. /\ rref'.in = "end" /\ rref'.cut = rref.cut /\ rref'.version = rref.version
        /\ rref'.field = rref.field /\ rref'.good = rref.good
    BY <1>3, <1>4 DEF Ref
  <1>6. RequestTypes'
    <2>1. rflen' \in BOOLEAN /\ rfirst' \in BOOLEAN /\ NotSet \notin {rmark', rquery'} /\ req' = req
      BY <1>1, MarkRight DEF Becomes
    <2> QED  BY <1>1, <1>4, <2>1, TypesNext DEF RequestTypes
  <1>7. req' = req /\ rhead' = rhead /\ rret' \in {"body", "nullptr"}
    BY DEF Becomes
  <1>8. PartsInv'
    <2>1. rref.in \in HeaderLines /\ rref'.in \in HeaderLines
      BY <1>5 DEF HeaderLines
    <2> QED  BY <1>1, <1>5, <1>7, <2>1, HeaderParts
  <1>9. rref'.good => FieldRight'
    BY <1>2, <1>5, <1>7 DEF FieldRight
  <1>10. RequestPartsRight'
    <2>1. NotBegun(rref'.in) = {} /\ rref'.in \notin ReqParts
      BY <1>5 DEF NotBegun, ReqParts
    <2>2. \A part \in ReqParts :
            req'[part] # NotSet => (part \in req'[part]) = (part \notin rref'.cut)
      BY <1>8, <2>1 DEF PartsInv
    <2>3. req'.method # NotSet /\ req'.path # NotSet
          /\ req'.version = IF "version" \in rref'.cut THEN "1" ELSE rref'.version
      BY <1>5, <1>8 DEF PartsInv, HeaderLines
    <2> QED  BY <1>7, <2>2, <2>3 DEF RequestPartsRight
  <1>11. HeadersRight'
    BY <1>5, <1>7, <1>9 DEF HeadersRight, FieldRight
  <1> QED  BY <1>6, <1>7, <1>9, <1>10, <1>11 DEF RequestInv

\* What the invariant says of a step that begins in the header fields.
LEMMA FieldFacts ==
  ASSUME NEW c \in RequestChars, RequestChar(c), RequestInv,
         NEW i \in FieldRegions, Region(rcs) = i
  PROVE  /\ rref.in = i /\ RequestTypes /\ rfirst' = FALSE
         /\ rref.good => FieldInv
         /\ rref.good => FieldRight
         /\ rref.good \in BOOLEAN /\ rfirst \in BOOLEAN /\ LenNow \in BOOLEAN
         /\ MarkAt(c) # NotSet /\ QueryNow # NotSet
         /\ Moves(i, c, Region(rcs'), Taken(c).do)
  <1>1. InStep /\ RequestTypes /\ rfirst' = FALSE
    BY CharStep
  <1>2. (rref.in # "socket" /\ rref.good => FieldInv) /\ (rref.good => FieldRight)
    BY CharStep
  <1>3. rref.in = i
    BY <1>1 DEF InStep, FieldRegions
  <1>4. rref.in # "socket"
    BY <1>3 DEF FieldRegions
  <1>5. rref.good \in BOOLEAN /\ rfirst \in BOOLEAN
    BY <1>1 DEF RequestTypes
  <1>6. MarkAt(c) # NotSet /\ QueryNow # NotSet /\ LenNow \in BOOLEAN
    BY <1>1, MarkRight
  <1>7. Moves(i, c, Region(rcs'), Taken(c).do)
    BY CharStep
  <1> QED  BY <1>1, <1>2, <1>3, <1>4, <1>5, <1>6, <1>7

\* A header field begins, or the header ends.
LEMMA StepLine ==
  ASSUME NEW c \in RequestChars, RequestChar(c), RequestInv, Region(rcs) = "line"
  PROVE  RequestInv'
  <1>1. /\ rref.in = "line" /\ RequestTypes /\ rfirst' = FALSE
        /\ rref.good => FieldInv
        /\ rref.good => FieldRight
        /\ rref.good \in BOOLEAN /\ rfirst \in BOOLEAN /\ LenNow \in BOOLEAN
        /\ MarkAt(c) # NotSet /\ QueryNow # NotSet
        /\ Moves("line", c, Region(rcs'), Taken(c).do)
    BY FieldFacts DEF FieldRegions
  <1>2. BeginsAt(rref, c) = {"name"} /\ Cut(c) = rref.cut
    BY <1>1 DEF BeginsAt, Divided, Cut, ReqParts
  <1>3. \/ Region(rcs') = "name" /\ c \notin {"lf", "cr", ":"} /\ Taken(c).do = <<"start_field">>
        \/ Region(rcs') = "end" /\ c = "lf" /\ Taken(c).do = <<"start_field", "done">>
        \/ Region(rcs') = "line-cr" /\ c = "cr" /\ Taken(c).do = <<"start_field">>
    BY <1>1 DEF Moves, TargetMoves, EndMoves, FieldMoves
  <1>4. CASE Region(rcs') = "name"
    <2>1. Becomes(MarkAt(c), {"name"}, QueryNow, LenNow, req, rhead, {"reading", "nullptr"})
      BY <1>2, <1>3, <1>4, DoesStartFields
    <2> DEFINE g == rref.good /\ rref.in # "line-cr" /\ c \notin {"cr", "lf"}
    <2>2. rref' = Ref(IF c = ":" THEN "gap" ELSE "name", rref.scheme, Cut(c), rref.version,
                      rref.field, g)
      BY <1>1, <1>3, <1>4, RefStep, RefName
    <2>3. g = rref.good
      BY <1>1, <1>3, <1>4
    <2> HIDE DEF g
    <2>4. rref' = Ref(Region(rcs'), rref.scheme, Cut(c), rref.version, rref.field, g)
      BY <1>3, <1>4, <2>2
    <2>5. rref'.in = "name" /\ rref'.cut = Cut(c) /\ rref'.field = rref.field
      BY <1>4, <2>4 DEF Ref
    <2>6. g => FieldInv'
      BY <1>1, <1>2, <2>1, <2>3, <2>5 DEF FieldInv, Becomes
    <2>7. g => FieldRight'
      BY <1>1, <2>1, <2>3, <2>5 DEF FieldRight, Becomes
    <2>8. g \in BOOLEAN /\ Region(rcs') \in FieldRegions /\ rref.in \in FieldRegions
      BY <1>1, <1>4, <2>3 DEF FieldRegions
    <2> QED  BY <1>1, <1>2, <2>1, <2>4, <2>6, <2>7, <2>8, FieldStep
  <1>5. CASE Region(rcs') = "line-cr"
    <2>1. Becomes(MarkAt(c), {"name"}, QueryNow, LenNow, req, rhead, {"reading", "nullptr"})
      BY <1>2, <1>3, <1>5, DoesStartFields
    <2>2. rref' = Ref(Region(rcs'), rref.scheme, Cut(c), rref.version, rref.field, rref.good)
      BY <1>1, <1>3, <1>5, RefStep, RefLineCr
    <2>3. rref'.in = "line-cr" /\ rref'.cut = Cut(c) /\ rref'.field = rref.field
      BY <1>5, <2>2 DEF Ref
    <2>4. rref.good => FieldInv'
      BY <1>1, <1>2, <2>1, <2>3 DEF FieldInv
    <2>5. rref.good => FieldRight'
      BY <1>1, <2>1, <2>3 DEF FieldRight, Becomes
    <2>6. Region(rcs') \in FieldRegions /\ rref.in \in FieldRegions
      BY <1>1, <1>5 DEF FieldRegions
    <2> QED  BY <1>1, <1>2, <2>1, <2>2, <2>4, <2>5, <2>6, FieldStep
  <1>6. CASE Region(rcs') = "end"
    <2>1. Becomes(MarkAt(c), {"name"}, QueryNow, LenNow, req, rhead, {"body", "nullptr"})
      BY <1>2, <1>3, <1>6, DoesStartFieldDone
    <2> QED  BY <1>1, <1>3, <1>6, <2>1, HeaderEndStep
  <1> QED  BY <1>3, <1>4, <1>5, <1>6

\* After a carriage return at the beginning of a line.
LEMMA StepLineCr ==
  ASSUME NEW c \in RequestChars, RequestChar(c), RequestInv, Region(rcs) = "line-cr"
  PROVE  RequestInv'
  <1>1. /\ rref.in = "line-cr" /\ RequestTypes /\ rfirst' = FALSE
        /\ rref.good => FieldInv
        /\ rref.good => FieldRight
        /\ rref.good \in BOOLEAN /\ rfirst \in BOOLEAN /\ LenNow \in BOOLEAN
        /\ MarkAt(c) # NotSet /\ QueryNow # NotSet
        /\ Moves("line-cr", c, Region(rcs'), Taken(c).do)
    BY FieldFacts DEF FieldRegions
  <1>2. Cut(c) = rref.cut
    BY <1>1 DEF Divided, Cut, ReqParts
  <1>3. \/ Region(rcs') = "gap" /\ c = ":" /\ Taken(c).do = <<"write_field">>
        \/ Region(rcs') = "name" /\ c \notin {"lf", ":"} /\ Taken(c).do = <<>>
        \/ Region(rcs') = "end" /\ c = "lf" /\ Taken(c).do = <<"done">>
    BY <1>1 DEF Moves, TargetMoves, EndMoves, FieldMoves
  <1>4. CASE Region(rcs') \in {"gap", "name"}
    <2>1. PICK L \in BOOLEAN : Becomes(MarkAt(c), FieldAt(c), QueryNow, L, req, rhead,
                                       {"reading", "nullptr"})
      <3>1. CASE Taken(c).do = <<"write_field">>
        <4>1. Becomes(MarkAt(c), FieldAt(c), QueryNow, ~rfirst, req, rhead, {"reading", "nullptr"})
          BY <3>1, DoesWriteFields
        <4>2. (~rfirst) \in BOOLEAN
          OBVIOUS
        <4> QED  BY <4>1, <4>2
      <3>2. CASE Taken(c).do = <<>>
        BY <1>1, <3>2, DoesNothing
      <3> QED  BY <1>3, <1>4, <3>1, <3>2
    <2> DEFINE g == rref.good /\ rref.in # "line-cr" /\ c \notin {"cr", "lf"}
    <2>2. rref' = Ref(IF c = ":" THEN "gap" ELSE "name", rref.scheme, Cut(c), rref.version,
                      rref.field, g)
      BY <1>1, <1>3, <1>4, RefStep, RefName
    <2>3. ~g /\ g \in BOOLEAN
      BY <1>1
    <2> HIDE DEF g
    <2>4. rref' = Ref(Region(rcs'), rref.scheme, Cut(c), rref.version, rref.field, g)
      BY <1>3, <1>4, <2>2
    <2>5. Region(rcs') \in FieldRegions /\ rref.in \in FieldRegions
      BY <1>1, <1>4 DEF FieldRegions
    <2> QED  BY <1>1, <1>2, <2>1, <2>3, <2>4, <2>5, FieldStep
  <1>5. CASE Region(rcs') = "end"
    <2>1. Becomes(MarkAt(c), FieldAt(c), QueryNow, LenNow, req, rhead, {"body", "nullptr"})
      BY <1>3, <1>5, DoesDones
    <2> QED  BY <1>1, <1>3, <1>5, <2>1, HeaderEndStep
  <1> QED  BY <1>3, <1>4, <1>5

\* The name of a header field.
LEMMA StepName ==
  ASSUME NEW c \in RequestChars, RequestChar(c), RequestInv, Region(rcs) = "name"
  PROVE  RequestInv'
  <1>1. /\ rref.in = "name" /\ RequestTypes /\ rfirst' = FALSE
        /\ rref.good => FieldInv
        /\ rref.good => FieldRight
        /\ rref.good \in BOOLEAN /\ rfirst \in BOOLEAN /\ LenNow \in BOOLEAN
        /\ MarkAt(c) # NotSet /\ QueryNow # NotSet
        /\ Moves("name", c, Region(rcs'), Taken(c).do)
    BY FieldFacts DEF FieldRegions
  <1>2. /\ BeginsAt(rref, c) = {}
        /\ Cut(c) = rref.cut \cup (IF rfirst THEN IF c = ":" THEN {"value"} ELSE {"name"} ELSE {})
    BY <1>1 DEF BeginsAt, Divided, Cut, ReqParts
  <1>3. \/ Region(rcs') = "name" /\ c # ":" /\ Taken(c).do = <<>>
        \/ Region(rcs') = "gap" /\ c = ":" /\ Taken(c).do = <<"write_field">>
    BY <1>1 DEF Moves, TargetMoves, EndMoves, FieldMoves
  <1> DEFINE g == rref.good /\ rref.in # "line-cr" /\ c \notin {"cr", "lf"}
  <1>4. rref' = Ref(IF c = ":" THEN "gap" ELSE "name", rref.scheme, Cut(c), rref.version,
                    rref.field, g)
    BY <1>1, RefStep, RefName
  <1>5. (g => rref.good) /\ g \in BOOLEAN
    BY <1>1
  <1> HIDE DEF g
  <1>6. rref' = Ref(Region(rcs'), rref.scheme, Cut(c), rref.version, rref.field, g)
    BY <1>3, <1>4
  <1>7. rref'.in = Region(rcs') /\ rref'.cut = Cut(c) /\ rref'.field = rref.field
    BY <1>6 DEF Ref
  <1>8. Region(rcs') \in FieldRegions /\ rref.in \in FieldRegions
    BY <1>1, <1>3 DEF FieldRegions
  <1>9. Cut(c) \ {"name", "value"} = rref.cut \ {"name", "value"}
    BY <1>2
  <1>10. CASE Region(rcs') = "name"
    <2>1. Becomes(MarkAt(c), FieldAt(c), QueryNow, LenNow, req, rhead, {"reading", "nullptr"})
      BY <1>3, <1>10, DoesNothing
    <2>2. ASSUME g PROVE FieldInv'
      <3>1. ("name" \in FieldAt(c)) = ("name" \notin Cut(c)) /\ "value" \notin Cut(c)
        BY <1>1, <1>2, <1>3, <1>5, <1>10, <2>2 DEF FieldInv, FieldAt
      <3> QED  BY <1>7, <1>10, <2>1, <3>1 DEF FieldInv, Becomes
    <2>3. g => FieldRight'
      BY <1>1, <1>5, <1>7, <2>1 DEF FieldRight, Becomes
    <2> QED  BY <1>1, <1>5, <1>6, <1>8, <1>9, <2>1, <2>2, <2>3, FieldStep
  <1>11. CASE Region(rcs') = "gap"
    <2>1. Becomes(MarkAt(c), FieldAt(c), QueryNow, ~rfirst, req, rhead, {"reading", "nullptr"})
      BY <1>3, <1>11, DoesWriteFields
    <2> DEFINE l == ~rfirst
    <2>2. l \in BOOLEAN
      OBVIOUS
    <2>3. ASSUME g PROVE FieldInv'
      <3>1. rfirst = ("value" \in Cut(c))
        BY <1>1, <1>2, <1>3, <1>5, <1>11, <2>3 DEF FieldInv
      <3>2. ~rfirst => ("name" \in FieldAt(c)) = ("name" \notin Cut(c))
        BY <1>1, <1>2, <1>5, <2>3 DEF FieldInv, FieldAt
      <3>3. (rflen' <=> ~rfirst) /\ rflen' \in BOOLEAN /\ rfield' = FieldAt(c)
        BY <2>1 DEF Becomes
      <3>4. rflen' = ("value" \notin Cut(c))
        BY <3>1, <3>3
      <3>5. rref'.in = "gap" /\ rref'.cut = Cut(c)
        BY <1>7, <1>11
      <3> QED  BY <3>2, <3>3, <3>4, <3>5 DEF FieldInv
    <2>4. g => FieldRight'
      BY <1>1, <1>5, <1>7, <2>1 DEF FieldRight, Becomes
    <2>5. Becomes(MarkAt(c), FieldAt(c), QueryNow, l, req, rhead, {"reading", "nullptr"})
      BY <2>1
    <2> HIDE DEF l
    <2> QED  BY <1>1, <1>5, <1>6, <1>8, <1>9, <2>2, <2>3, <2>4, <2>5, FieldStep
  <1> QED  BY <1>3, <1>10, <1>11
\* The field is over.
LEMMA FieldEndStep ==
  ASSUME NEW c \in RequestChars, RequestChar(c), RequestInv,
         rref.in \in {"gap", "value"}, c \in {"cr", "lf"},
         Region(rcs') = (IF c = "cr" THEN "line-end" ELSE "line"),
         NEW M, M # NotSet,
         rref.good => LenNow = ("value" \notin Cut(c)),
         rref.good /\ LenNow => ("name" \in FieldAt(c)) = ("name" \notin Cut(c)) /\ "value" \in M,
         Becomes(M, FieldAt(c), QueryNow, LenNow, req, Field(FieldAt(c), M, LenNow),
                 {"reading", "nullptr"})
  PROVE  RequestInv'
  <1>1. RequestTypes
    BY CharStep
  <1>2. LenNow \in BOOLEAN /\ QueryNow # NotSet /\ rref.good \in BOOLEAN
    BY <1>1, MarkRight DEF RequestTypes
  <1> DEFINE k == Cut(c) \ {"name", "value"}
             f == Cut(c) \cap {"name", "value"}
  <1>3. rref' = Ref(Region(rcs'), rref.scheme, k, rref.version, f, rref.good)
    <2>1. rref' = RequestRefNext(Ref(rref.in, rref.scheme, Cut(c), rref.version, rref.field,
                                     rref.good), c)
      BY RefStep
    <2>2. RequestRefNext(Ref(rref.in, rref.scheme, Cut(c), rref.version, rref.field, rref.good), c)
            = Ref(IF c = "cr" THEN "line-end" ELSE "line", rref.scheme, k, rref.version, f,
                  rref.good)
      BY RefFieldEnd
    <2> QED  BY <2>1, <2>2
  <1>4. rref'.in \in {"line-end", "line"} /\ rref'.cut = k /\ rref'.field = f
    BY <1>3 DEF Ref
  <1>5. rref.good => FieldInv'
    <2>1. rref'.cut \cap {"name", "value"} = {}
      BY <1>4
    <2> QED  BY <1>4, <2>1 DEF FieldInv
  <1>6. rref.good => FieldRight'
    <2> SUFFICES ASSUME rref.good PROVE FieldRight'
      OBVIOUS
    <2>1. rhead' = IF LenNow THEN [set |-> TRUE, name |-> FieldAt(c), value |-> M]
                   ELSE [set |-> FALSE, name |-> {}, value |-> {}]
      BY DEF Becomes, Field
    <2>2. CASE f = {}
      <3>1. LenNow /\ "name" \notin Cut(c)
        BY <1>2, <2>2
      <3> QED  BY <1>4, <2>1, <2>2, <3>1 DEF FieldRight
    <2>3. CASE f = {"name"}
      <3>1. LenNow /\ "name" \in Cut(c)
        BY <1>2, <2>3
      <3> QED  BY <1>4, <2>1, <2>3, <3>1 DEF FieldRight
    <2>4. CASE f # {} /\ f # {"name"}
      <3>1. ~LenNow
        BY <1>2, <2>4
      <3> QED  BY <1>4, <2>1, <2>4, <3>1 DEF FieldRight
    <2> QED  BY <2>2, <2>3, <2>4
  <1>7. k \ {"name", "value"} = rref.cut \ {"name", "value"}
    BY DEF Cut, Divided, ReqParts
  <1>8. Region(rcs') \in FieldRegions /\ rref.in \in FieldRegions
    BY DEF FieldRegions
  <1> HIDE DEF k, f
  <1> QED  BY <1>2, <1>3, <1>5, <1>6, <1>7, <1>8, FieldStep

\* Between the name and the value.
LEMMA StepGap ==
  ASSUME NEW c \in RequestChars, RequestChar(c), RequestInv, Region(rcs) = "gap"
  PROVE  RequestInv'
  <1>1. /\ rref.in = "gap" /\ RequestTypes /\ rfirst' = FALSE
        /\ rref.good => FieldInv
        /\ rref.good => FieldRight
        /\ rref.good \in BOOLEAN /\ rfirst \in BOOLEAN /\ LenNow \in BOOLEAN
        /\ MarkAt(c) # NotSet /\ QueryNow # NotSet
        /\ Moves("gap", c, Region(rcs'), Taken(c).do)
    BY FieldFacts DEF FieldRegions
  <1>2. /\ BeginsAt(rref, c) = IF c \in {"ht", "sp"} THEN {} ELSE {"value"}
        /\ Cut(c) = rref.cut \cup IF rfirst THEN {"value"} ELSE {}
    BY <1>1 DEF BeginsAt, Divided, Cut, ReqParts
  <1>3. \/ /\ Region(rcs') = "value" /\ c \notin {"ht", "sp", "lf", "cr"}
           /\ Taken(c).do = <<"start_value">>
        \/ Region(rcs') = "gap" /\ c \in {"ht", "sp"} /\ Taken(c).do = <<"start_value">>
        \/ /\ LineOver(c, Region(rcs')) /\ Taken(c).do = <<"start_value", "write_value">>
    BY <1>1 DEF Moves, TargetMoves, EndMoves, FieldMoves
  <1>4. BeginsAt(rref, c) # NotSet
    BY <1>2 DEF NotSet
  <1>5. rref.good => LenNow = ("value" \notin Cut(c))
    BY <1>1, <1>2 DEF LenNow, FieldInv
  <1>6. rref.good /\ LenNow => ("name" \in FieldAt(c)) = ("name" \notin Cut(c))
    BY <1>1, <1>2 DEF LenNow, FieldAt, FieldInv
  <1>7. CASE Region(rcs') \in {"value", "gap"}
    <2>1. Becomes(BeginsAt(rref, c), FieldAt(c), QueryNow, LenNow, req, rhead,
                  {"reading", "nullptr"})
      BY <1>3, <1>7, DoesStartValues DEF LineOver
    <2>2. rref' = Ref(Region(rcs'), rref.scheme, Cut(c), rref.version, rref.field, rref.good)
      BY <1>1, <1>3, <1>7, RefStep, RefGap, RefValue DEF LineOver
    <2>3. rref'.in = Region(rcs') /\ rref'.cut = Cut(c) /\ rref'.field = rref.field
      BY <2>2 DEF Ref
    <2>4. ASSUME rref.good PROVE FieldInv'
      <3>1. rref'.in = "value" => "value" \in BeginsAt(rref, c)
        BY <1>2, <1>3, <2>3 DEF LineOver
      <3>2. rmark' = BeginsAt(rref, c) /\ rfield' = FieldAt(c) /\ rflen' = LenNow
        BY <2>1 DEF Becomes
      <3>3. rref'.in \in {"value", "gap"}
        BY <1>7, <2>3
      <3> QED  BY <1>5, <1>6, <2>3, <2>4, <3>1, <3>2, <3>3 DEF FieldInv
    <2>5. rref.good => FieldRight'
      BY <1>1, <2>1, <2>3 DEF FieldRight, Becomes
    <2>6. Region(rcs') \in FieldRegions /\ rref.in \in FieldRegions
      BY <1>1, <1>7 DEF FieldRegions
    <2>7. Cut(c) \ {"name", "value"} = rref.cut \ {"name", "value"}
      BY <1>2
    <2> QED  BY <1>1, <1>4, <2>1, <2>2, <2>4, <2>5, <2>6, <2>7, FieldStep
  <1>8. CASE LineOver(c, Region(rcs')) /\ Taken(c).do = <<"start_value", "write_value">>
    <2>1. c \in {"cr", "lf"} /\ Region(rcs') = (IF c = "cr" THEN "line-end" ELSE "line")
      BY <1>8 DEF LineOver
    <2>2. "value" \in BeginsAt(rref, c)
      BY <1>2, <2>1
    <2>3. Becomes(BeginsAt(rref, c), FieldAt(c), QueryNow, LenNow, req,
                  Field(FieldAt(c), BeginsAt(rref, c), LenNow), {"reading", "nullptr"})
      BY <1>8, DoesWholeValues
    <2> QED  BY <1>1, <1>4, <1>5, <1>6, <2>1, <2>2, <2>3, FieldEndStep
  <1> QED  BY <1>3, <1>7, <1>8

\* The value of a header field.
LEMMA StepValue ==
  ASSUME NEW c \in RequestChars, RequestChar(c), RequestInv, Region(rcs) = "value"
  PROVE  RequestInv'
  <1>1. /\ rref.in = "value" /\ RequestTypes /\ rfirst' = FALSE
        /\ rref.good => FieldInv
        /\ rref.good => FieldRight
        /\ rref.good \in BOOLEAN /\ rfirst \in BOOLEAN /\ LenNow \in BOOLEAN
        /\ MarkAt(c) # NotSet /\ QueryNow # NotSet
        /\ Moves("value", c, Region(rcs'), Taken(c).do)
    BY FieldFacts DEF FieldRegions
  <1>2. Cut(c) = rref.cut \cup IF rfirst THEN {"value"} ELSE {}
    BY <1>1 DEF Divided, Cut, ReqParts
  <1>3. \/ Region(rcs') = "value" /\ c \notin {"lf", "cr"} /\ Taken(c).do = <<>>
        \/ LineOver(c, Region(rcs')) /\ Taken(c).do = <<"write_value">>
    BY <1>1 DEF Moves, TargetMoves, EndMoves, FieldMoves
  <1>4. rref.good => LenNow = ("value" \notin Cut(c))
    BY <1>1, <1>2 DEF LenNow, FieldInv
  <1>5. rref.good /\ LenNow => ("name" \in FieldAt(c)) = ("name" \notin Cut(c))
                               /\ "value" \in MarkAt(c)
    BY <1>1, <1>2 DEF LenNow, FieldAt, MarkAt, FieldInv
  <1>6. CASE Region(rcs') = "value"
    <2>1. Becomes(MarkAt(c), FieldAt(c), QueryNow, LenNow, req, rhead, {"reading", "nullptr"})
      BY <1>3, <1>6, DoesNothing DEF LineOver
    <2>2. rref' = Ref(Region(rcs'), rref.scheme, Cut(c), rref.version, rref.field, rref.good)
      BY <1>1, <1>3, <1>6, RefStep, RefGap, RefValue DEF LineOver
    <2>3. rref'.in = "value" /\ rref'.cut = Cut(c) /\ rref'.field = rref.field
      BY <1>6, <2>2 DEF Ref
    <2>4. ASSUME rref.good PROVE FieldInv'
      <3>1. rmark' = MarkAt(c) /\ rfield' = FieldAt(c) /\ rflen' = LenNow
        BY <2>1 DEF Becomes
      <3> QED  BY <1>4, <1>5, <2>3, <2>4, <3>1 DEF FieldInv
    <2>5. rref.good => FieldRight'
      BY <1>1, <2>1, <2>3 DEF FieldRight, Becomes
    <2>6. Region(rcs') \in FieldRegions /\ rref.in \in FieldRegions
      BY <1>1, <1>6 DEF FieldRegions
    <2>7. Cut(c) \ {"name", "value"} = rref.cut \ {"name", "value"}
      BY <1>2
    <2> QED  BY <1>1, <2>1, <2>2, <2>4, <2>5, <2>6, <2>7, FieldStep
  <1>7. CASE LineOver(c, Region(rcs')) /\ Taken(c).do = <<"write_value">>
    <2>1. c \in {"cr", "lf"} /\ Region(rcs') = (IF c = "cr" THEN "line-end" ELSE "line")
      BY <1>7 DEF LineOver
    <2>2. Becomes(MarkAt(c), FieldAt(c), QueryNow, LenNow, req,
                  Field(FieldAt(c), MarkAt(c), LenNow), {"reading", "nullptr"})
      BY <1>7, DoesWriteValues
    <2> QED  BY <1>1, <1>4, <1>5, <2>1, <2>2, FieldEndStep
  <1> QED  BY <1>3, <1>6, <1>7

\* A socket request: what it parses is no request line and no header field.
LEMMA SocketDoes ==
  ASSUME NEW c \in RequestChars, RequestChar(c), RequestInv, Region(rcs) = "socket"
  PROVE  \E M, R : /\ rmark' = M /\ M # NotSet /\ rquery' = QueryNow /\ rflen' = LenNow
                   /\ req' \in {req, [req EXCEPT !.path = R]} /\ rhead' = rhead
                   /\ rret' \in {"reading", "nullptr", "body"}
  <1>1. Region(rcs') = "socket"
        /\ Taken(c).do \in {<<>>, <<"mark">>, <<"request_path">>, <<"xml", "done">>,
                            <<"json", "done">>}
    BY CharStep DEF Moves, TargetMoves, EndMoves, FieldMoves
  <1>2. MarkAt(c) # NotSet /\ BeginsAt(rref, c) # NotSet
    <2>1. RequestTypes  BY CharStep
    <2> QED  BY <2>1, MarkRight
  <1>3. CASE Taken(c).do = <<>>
    BY <1>2, <1>3, DoesNothing DEF Becomes
  <1>4. CASE Taken(c).do = <<"mark">>
    BY <1>2, <1>4, DoesMarks DEF Becomes
  <1>5. CASE Taken(c).do = <<"request_path">>
    BY <1>2, <1>5, DoesPaths DEF Becomes
  <1>6. ASSUME NEW a \in {"xml", "json"}, Taken(c).do = <<a, "done">>
        PROVE  Becomes(MarkAt(c), FieldAt(c), QueryNow, LenNow, req, rhead, {"body", "nullptr"})
    <2> DEFINE at == BeginsAt(rref, c)
               p == Rec(MarkAt(c), FieldAt(c), QueryNow, LenNow, req, rhead, "reading")
    <2>1. ReqAction(p, a, at, rfirst) = p
      <3> HIDE DEF p, at
      <3> QED  BY <1>6 DEF ReqAction
    <2>2. ReqAction(p, "done", at, rfirst)
            = Rec(MarkAt(c), FieldAt(c), QueryNow, LenNow, req, rhead, "body")
      BY ActDone
    <2>3. ReqActions(p, Taken(c).do, at, rfirst)
            = Rec(MarkAt(c), FieldAt(c), QueryNow, LenNow, req, rhead, "body")
      <3> HIDE DEF p, at
      <3> QED  BY <1>6, <2>1, <2>2, Row2
    <2>4. Acted(c) = Rec(MarkAt(c), FieldAt(c), QueryNow, LenNow, req, rhead, "body")
      BY <2>3, PieceIs DEF Acted
    <2>5. \A n \in DOMAIN Taken(c).do : Taken(c).do[n] # "query_string"
      BY <1>6
    <2> QED  BY <2>4, <2>5, Became
  <1>7. CASE Taken(c).do \in {<<"xml", "done">>, <<"json", "done">>}
    BY <1>2, <1>6, <1>7 DEF Becomes
  <1> QED  BY <1>1, <1>3, <1>4, <1>5, <1>7

LEMMA StepSocket ==
  ASSUME NEW c \in RequestChars, RequestChar(c), RequestInv, Region(rcs) = "socket"
  PROVE  RequestInv'
  <1>1. rref.in = "socket" /\ RequestTypes /\ rfirst' = FALSE
    BY CharStep DEF InStep
  <1>2. rref.good => FieldRight
    BY CharStep
  <1>3. rref' = Ref("socket", rref.scheme, Cut(c), rref.version, rref.field, rref.good)
    BY <1>1, RefStep, RefSocket
  <1>4. rref'.in = "socket" /\ rref'.field = rref.field /\ rref'.good = rref.good
    BY <1>3 DEF Ref
  <1>5. PICK M, R : /\ rmark' = M /\ M # NotSet /\ rquery' = QueryNow /\ rflen' = LenNow
                    /\ req' \in {req, [req EXCEPT !.path = R]} /\ rhead' = rhead
                    /\ rret' \in {"reading", "nullptr", "body"}
    BY SocketDoes
  <1>6. RequestTypes'
    <2>1. rflen' \in BOOLEAN /\ NotSet \notin {rmark', rquery'} /\ rfirst' \in BOOLEAN
      BY <1>1, <1>5, MarkRight
    <2>2. rref.good \in BOOLEAN
      BY <1>1 DEF RequestTypes
    <2> QED  BY <1>1, <1>3, <1>5, <2>1, <2>2, TypesNext
  <1>7. InStep'
    <2>1. Region(rcs') = "socket"
      BY CharStep DEF Moves, TargetMoves, EndMoves, FieldMoves
    <2> QED  BY <1>3, <2>1, InStepNext
  <1>8. rref'.good => FieldRight'
    BY <1>2, <1>4, <1>5 DEF FieldRight
  <1>9. RequestPartsRight' /\ HeadersRight'
    BY <1>4, <1>5, <1>8 DEF RequestPartsRight, HeadersRight, FieldRight
  <1> QED  BY <1>4, <1>6, <1>7, <1>8, <1>9 DEF RequestInv

-----------------------------------------------------------------------------
(* The invariant.                                                          *)

\* Every character keeps the invariant.
LEMMA CharInv ==
  ASSUME NEW c \in RequestChars, RequestChar(c), RequestInv
  PROVE  RequestInv'
  <1>1. InStep /\ Moves(Region(rcs), c, Region(rcs'), Taken(c).do)
    BY CharStep
  <1>2. Region(rcs) # "end"
    BY <1>1 DEF InStep
  <1>3. Region(rcs) \in {"start", "method", "uri", "hier", "path", "scheme", "query-start", "query",
                         "fragment-start", "fragment", "version-start", "version", "line", "name",
                         "line-cr", "line-end", "gap", "value", "socket"}
    BY <1>1, <1>2 DEF Moves, TargetMoves, EndMoves, FieldMoves
  <1>4. CASE Region(rcs) \in {"start", "method", "uri", "hier", "path", "scheme"}
    BY <1>4, StepStart, StepMethod, StepTargetStart, StepPath
  <1>5. CASE Region(rcs) \in {"query-start", "query", "fragment-start", "fragment"}
    BY <1>5, StepQueryStart, StepQuery, StepFragmentStart, StepFragment
  <1>6. CASE Region(rcs) \in {"version-start", "version", "line-end", "socket"}
    BY <1>6, StepVersionStart, StepVersion, StepLineEnd, StepSocket
  <1>7. CASE Region(rcs) \in {"line", "name", "line-cr", "gap", "value"}
    BY <1>7, StepLine, StepName, StepLineCr, StepGap, StepValue
  <1> QED  BY <1>3, <1>4, <1>5, <1>6, <1>7

\* A session begins with nothing parsed.
LEMMA RequestInitInv == RequestInit => RequestInv
  <1> SUFFICES ASSUME RequestInit PROVE RequestInv
    OBVIOUS
  <1>1. rref = Ref("start", FALSE, {}, "none", {"none-yet"}, TRUE)
    BY DEF RequestInit, ReqRefStart, Ref
  <1>2. /\ rref.in = "start" /\ rref.cut = {} /\ rref.field = {"none-yet"} /\ rref.good
        /\ rref.good \in BOOLEAN
    BY DEF RequestInit, ReqRefStart
  <1>3. \A part \in ReqParts : req[part] = NotSet
    BY DEF RequestInit, ReqParts
  <1>4. RequestTypes
    <2>1. rref = [in |-> rref.in, scheme |-> rref.scheme, cut |-> rref.cut,
                  version |-> rref.version, field |-> rref.field, good |-> rref.good]
      BY DEF RequestInit, ReqRefStart
    <2>2. req = [part \in ReqParts \cup {"version"} |-> req[part]]
      BY DEF RequestInit
    <2>3. rflen \in BOOLEAN /\ rfirst \in BOOLEAN /\ NotSet \notin {rmark, rquery}
      BY DEF RequestInit, NotSet, Stale
    <2> QED  BY <1>2, <2>1, <2>2, <2>3 DEF RequestTypes
  <1>5. InStep
    <2>1. rcs = 1
      BY DEF RequestInit, RequestStart
    <2>2. Region(rcs) = "start"
      BY <2>1 DEF Region
    <2> QED  BY <1>2, <2>1, <2>2 DEF InStep
  <1>6. PartsInv
    BY <1>2, <1>3 DEF PartsInv, NotBegun, ReqParts, HeaderLines, RequestInit
  <1>7. FieldInv
    BY <1>2 DEF FieldInv
  <1>8. FieldRight /\ rret = "reading"
    BY <1>2 DEF FieldRight, RequestInit
  <1> QED  BY <1>2, <1>4, <1>5, <1>6, <1>7, <1>8
           DEF RequestInv, RequestPartsRight, HeadersRight, FieldRight

\* A character, the end of a piece, an error and the end of the header
\* keep the invariant.
LEMMA RequestNextInv == RequestInv /\ [RequestNext]_requestVars => RequestInv'
  <1> SUFFICES ASSUME RequestInv, [RequestNext]_requestVars PROVE RequestInv'
    OBVIOUS
  <1>1. ASSUME RequestError PROVE RequestInv'
    <2>1. RequestTypes' /\ rret' = "nullptr" /\ (rref'.good => FieldRight')
      BY <1>1 DEF RequestError, RequestInv, RequestTypes, FieldRight
    <2> QED  BY <2>1, ReadEnds
  <1>2. ASSUME PieceEnds PROVE RequestInv'
    <2>1. /\ RequestTypes /\ InStep /\ rret = "reading"
          /\ rref.in # "socket" => PartsInv
          /\ rref.in # "socket" /\ rref.good => FieldInv
          /\ rref.good => FieldRight
      BY <1>2 DEF PieceEnds, RequestInv
    <2>2. /\ rref' = rref /\ rcs' = rcs /\ rflen' = rflen /\ rfirst' = TRUE /\ rret' = rret
          /\ rmark' = rmark /\ rquery' = rquery /\ req' = req /\ rhead' = rhead
      BY <1>2 DEF PieceEnds
    <2>3. RequestTypes' /\ (rref'.good => FieldRight')
      BY <2>1, <2>2 DEF RequestTypes, FieldRight
    <2>4. InStep'
      BY <2>1, <2>2, Zenon DEF InStep
    <2>5. rref'.in # "socket" => PartsInv'
      BY <2>1, <2>2 DEF PartsInv
    <2>6. rref'.in # "socket" /\ rref'.good => FieldInv'
      BY <2>1, <2>2 DEF FieldInv
    <2> QED  BY <2>1, <2>2, <2>3, <2>4, <2>5, <2>6, ReadOn
  <1>3. ASSUME ReadFails PROVE RequestInv'
    <2>1. RequestTypes' /\ rret' = "nullptr" /\ (rref'.good => FieldRight')
      BY <1>3 DEF ReadFails, RequestInv, RequestTypes, FieldRight
    <2> QED  BY <2>1, ReadEnds
  <1>4. ASSUME ReadBody PROVE RequestInv'
    BY <1>4 DEF ReadBody, RequestInv, RequestTypes, FieldRight, RequestPartsRight, HeadersRight
  <1>5. ASSUME UNCHANGED requestVars PROVE RequestInv'
    BY <1>5 DEF requestVars, RequestInv, RequestTypes, FieldRight, RequestPartsRight, HeadersRight,
                InStep, PartsInv, FieldInv
  <1> QED  BY <1>1, <1>2, <1>3, <1>4, <1>5, CharInv DEF RequestNext

\* HttpSession::recvRequest over http_parser_execute: in every piece the
\* automaton is in the region where the reader of the whole request is, and
\* every pointer of the parser is at the part it stands for unless execute()
\* has cleared it since that part began.
THEOREM RequestInvariant == RequestSpec => []RequestInv
  BY RequestInitInv, RequestNextInv, PTL DEF RequestSpec

\* What on_request_method, on_request_path, on_request_query,
\* on_request_fragment and on_request_version have taken when recvRequest
\* returns a request are the parts of its first line, but for those that a
\* boundary between pieces divides, whatever the number of pieces; execute()
\* throws only if one divides the query.  Nothing is said of the body, whose
\* resize() may throw whatever the header was (http_session.cc: recvRequest).
THEOREM RequestPartsAreRight == RequestSpec => []RequestPartsRight
  <1>1. RequestInv => RequestPartsRight  BY DEF RequestInv
  <1> QED  BY <1>1, RequestInvariant, PTL

\* on_request_http_field hands over a header field with its own name and value
\* if no boundary between pieces divides it, and with the tail of its name if
\* one divides the name only; of any other field that is cut it hands over
\* nothing.  The header ends at the empty line, whatever the number of pieces.
THEOREM HeadersAreRight == RequestSpec => []HeadersRight
  <1>1. RequestInv => HeadersRight  BY DEF RequestInv
  <1> QED  BY <1>1, RequestInvariant, PTL

=============================================================================

--------------------------- MODULE RequestMachine ---------------------------
(***************************************************************************)
(* The automaton of http11_parser.rl.cc: a request line, header fields and *)
(* the empty line, or one of the two socket requests of Mongrel2.  State   *)
(* numbers are those of the generated code.                                *)
(*                                                                         *)
(* States that look at parser->uri_relaxed (`_widec`) take "{", "}" and    *)
(* "^" as sub-delimiters where it is set: the class "more" stands for      *)
(* these characters in such a state (RequestAfter).                        *)
(***************************************************************************)
EXTENDS Automaton

\* Character classes: "A" A-F, "G" the upper-case letters but A-F, H, P, T,
\* "a" a-f, "g" the lower-case letters but a-f, v, "3" 3-4 and 6-9, "!"
\* ! $ & ' * _ ~, "(" ( ) , ; =, "quote" " and \, "vt" 11 and 12, "ctl" the other
\* control characters, ` and |, "high" the bytes above 127.
ReqDigit == {"0", "1", "2", "3", "5"}
ReqXdigit == ReqDigit \cup {"A", "a"}
Upper == {"A", "G", "H", "P", "T"}
Letter == Upper \cup {"a", "g", "v"}
ReqName == Letter \cup ReqDigit \cup {"!", "(", "+", "-", ".", "more"}
ReqUser == ReqName \cup {":"}
ReqPchar == ReqUser \cup {"@", "high"}
ReqQuery == ReqPchar \cup {"/", "?"}

\* token of http11_parser.rl: HTTP_CTL = (0 - 31) | 127 is a difference of two
\* characters, so that only 0 and 127 are excluded, not the characters between.
Token == Letter \cup ReqDigit
         \cup {"!", "#", "%", "+", "-", ".", "^", "ctl", "vt", "cr", "lf",
               "x02", "x03", "x04", "x05", "x06"}

RequestChars ==
    Token \cup (ReqQuery \ {"more"})
    \cup {"ht", "sp", "quote", "<", ">", "[", "]", "{", "}", "nul", "del"}

Value == RequestChars \ {"nul", "del", "lf", "cr"}
AnyChar == RequestChars

-----------------------------------------------------------------------------
(* The request line.                                                       *)

MethodState(s, t) == Do(s, {"sp"}, 3, <<"request_method">>) \cup Go(s, ReqDigit \cup Upper, t)

MethodStart ==
    Do(1, ReqDigit \cup Upper, 2, <<"mark">>) \cup Do(1, {"<"}, 194, <<"mark">>)
    \cup Do(1, {"@"}, 198, <<"mark">>) \cup MethodState(2, 175)

\* Method is at most 20 characters long.
MethodRest1 == UNION {MethodState(s, s + 1) : s \in 175..184}
MethodRest2 ==
    (UNION {MethodState(s, s + 1) : s \in 185..192}) \cup Do(193, {"sp"}, 3, <<"request_method">>)

\* The path ends: with a space or "#" the URI does too.
PathEnds(s, before) ==
    Do(s, {"sp"}, 4, before \o <<"request_path", "request_uri">>)
    \cup Do(s, {"#"}, 20, before \o <<"request_path", "request_uri">>)
    \cup Do(s, {"?"}, 29, before \o <<"request_path">>)

UriBegins ==
    Do(3, (ReqName \ Letter) \cup {"@"}, 19, <<"mark">>) \cup Do(3, Letter, 173, <<"mark">>)
    \cup Do(3, {"%"}, 24, <<"mark">>) \cup Do(3, {"/"}, 33, <<"mark">>)
    \cup PathEnds(3, <<"mark">>)

Version ==
    Do(4, {"H"}, 5, <<"mark">>)
    \cup Chain(5, <<{"T"}, {"T"}, {"P"}, {"/"}, {"1"}, {"."}, {"0", "1"}>>, 12)
    \cup Do(12, {"lf"}, 13, <<"http_version">>) \cup Do(12, {"cr"}, 17, <<"http_version">>)

HeaderName ==
    Do(13, Token \ {"lf", "cr"}, 14, <<"start_field">>)
    \cup Do(13, {"lf"}, 348, <<"start_field", "done">>)
    \cup Do(13, {"cr"}, 18, <<"start_field">>)
    \cup Go(14, Token, 14) \cup Do(14, {":"}, 15, <<"write_field">>)

HeaderValue ==
    Do(15, Value \ {"ht", "sp"}, 16, <<"start_value">>)
    \cup Do(15, {"ht", "sp"}, 15, <<"start_value">>)
    \cup Do(15, {"lf"}, 13, <<"start_value", "write_value">>)
    \cup Do(15, {"cr"}, 17, <<"start_value", "write_value">>)
    \cup Go(16, Value, 16) \cup Do(16, {"lf"}, 13, <<"write_value">>)
    \cup Do(16, {"cr"}, 17, <<"write_value">>) \cup Go(17, {"lf"}, 13)

\* The end of the header, or a CR that begins a field name.
HeaderEnd ==
    (UNION {Go(s, Token \ {"lf"}, 14) \cup Do(s, {":"}, 15, <<"write_field">>) : s \in {18, 348}})
    \cup Do(18, {"lf"}, 348, <<"done">>) \cup Go(348, {"lf"}, 14)

-----------------------------------------------------------------------------
(* The URI.                                                                *)

ReqPercent(s, t) == Chain(s, <<ReqXdigit, ReqXdigit>>, t)

NoScheme ==
    Go(19, ReqName \cup {"@"}, 19) \cup Go(19, {"%"}, 24) \cup Go(19, {"/"}, 26)
    \cup PathEnds(19, <<>>)

ReqFragment ==
    Do(20, ReqQuery, 21, <<"mark">>) \cup Do(20, {"%"}, 22, <<"mark">>)
    \cup Do(20, {"sp"}, 4, <<"mark", "fragment">>)
    \cup Go(21, ReqQuery, 21) \cup Go(21, {"%"}, 22) \cup Do(21, {"sp"}, 4, <<"fragment">>)
    \cup ReqPercent(22, 21) \cup ReqPercent(24, 19)

ReqPath ==
    Go(26, ReqPchar \cup {"/"}, 26) \cup Go(26, {"%"}, 27) \cup PathEnds(26, <<>>)
    \cup ReqPercent(27, 26)

QueryEnds(s, before) ==
    UNION {Do(s, {c[1]}, c[2], before \o <<"query_string", "request_uri">>)
           : c \in {<<"sp", 4>>, <<"#", 20>>}}

ReqQueryString ==
    Do(29, ReqQuery, 30, <<"start_query">>) \cup Do(29, {"%"}, 31, <<"start_query">>)
    \cup QueryEnds(29, <<"start_query">>)
    \cup Go(30, ReqQuery, 30) \cup Go(30, {"%"}, 31) \cup QueryEnds(30, <<>>)
    \cup ReqPercent(31, 30)

\* What ends the path in the copies of relative_part: the request's URI or the
\* path of a JSON request.
Ends0(k, s) == IF k = 0 THEN PathEnds(s, <<>>) ELSE Do(s, {"sp"}, 199, <<"request_path">>)

OneSlash(k) ==
    Go(33, ReqPchar, 26) \cup Go(33, {"%"}, 27) \cup Go(33, {"/"}, 34) \cup Ends0(k, 33)

ReqAuthority(k) ==
    (UNION {Go(s, ReqName, 35) \cup Go(s, {"%"}, 36) \cup Go(s, {"/"}, 26)
           \cup Go(s, {":"}, 38) \cup Go(s, {"@"}, 42) \cup Ends0(k, s) : s \in 34..35})
    \cup Go(34, {"["}, 47) \cup ReqPercent(36, 35)

ReqUserinfo(k) ==
    Go(38, ReqUser \ ReqDigit, 39) \cup Go(38, ReqDigit, 38) \cup Go(38, {"%"}, 40)
    \cup Go(38, {"/"}, 26) \cup Go(38, {"@"}, 42) \cup Ends0(k, 38)
    \cup Go(39, ReqUser, 39) \cup Go(39, {"%"}, 40) \cup Go(39, {"@"}, 42)
    \cup ReqPercent(40, 39)

ReqHost(k) ==
    (UNION {Go(s, ReqName, 43) \cup Go(s, {"%"}, 44) \cup Go(s, {"/"}, 26)
           \cup Go(s, {":"}, 46) \cup Ends0(k, s) : s \in 42..43})
    \cup Go(42, {"["}, 47) \cup ReqPercent(44, 43)

ReqPort(k) == Go(46, ReqDigit, 46) \cup Go(46, {"/"}, 26) \cup Ends0(k, 46)

ReqScheme ==
    Go(173, {"!", "(", "@", "more"}, 19) \cup Go(173, ReqName \ {"!", "(", "more"}, 173)
    \cup Go(173, {"%"}, 24) \cup Go(173, {"/"}, 26) \cup Go(173, {":"}, 174)
    \cup PathEnds(173, <<>>)
    \cup Do(174, ReqPchar, 26, <<"mark">>) \cup Do(174, {"%"}, 27, <<"mark">>)
    \cup Do(174, {"/"}, 33, <<"mark">>) \cup PathEnds(174, <<"mark">>)

-----------------------------------------------------------------------------
(* IP literals.  `6( h16 ":" )` of http11_parser.rl is the byte 6 and one  *)
(* group, and ("1"-"9") is "1": this automaton is not the one of uri.rl.   *)

ReqH16(s, t) ==
    (UNION {Go(s + i, ReqXdigit, s + i + 1) : i \in 0..2})
    \cup UNION {Go(s + i, {":"}, t) : i \in 0..3}

ReqGroup(s, next, dbl) ==
    ReqH16(s, s + 4) \cup Go(s + 4, ReqXdigit, next) \cup Go(s + 4, {":"}, dbl)

ReqOctet(s, z, one) == Go(s, {"0", "3", "5"}, z) \cup Go(s, {"1"}, one) \cup Go(s, {"2"}, one + 2)

ReqOctetRest(one, z, delim, t) ==
    Go(one, ReqDigit, one + 1) \cup Go(one + 1, ReqDigit, z)
    \cup Go(one + 2, {"0"}, one + 3) \cup Go(one + 2, {"5"}, one + 4)
    \cup Go(one + 3, ReqDigit, z) \cup Go(one + 4, {"0"}, z)
    \cup UNION {Go(s, {delim}, t) : s \in one..one + 2}

ReqMixedStart(s, z, one) ==
    Go(s, {"0", "3", "5"}, z) \cup Go(s, {"1"}, one) \cup Go(s, {"2"}, one + 3)
    \cup Go(s, {"A", "a"}, one + 6)

ReqGroupEnds(states, colon, close) ==
    (UNION {Go(s, {":"}, colon) : s \in states})
    \cup IF close THEN UNION {Go(s, {"]"}, 61) : s \in states} ELSE {}

\* z after the first digit of the group, y to y + 2 after the next ones.
ReqMixedHead(z, y, colon, close) ==
    Go(z, {"."}, 55) \cup Go(z, ReqXdigit, y) \cup Chain(y, <<ReqXdigit, ReqXdigit>>, y + 2)
    \cup ReqGroupEnds({z} \cup y..y + 2, colon, close)

ReqMixedTail(one, y, colon, close) ==
    Go(one, ReqDigit, one + 1) \cup Go(one, {"A", "a"}, y)
    \cup Go(one + 1, ReqDigit, one + 2) \cup Go(one + 1, {"A", "a"}, y + 1)
    \cup Go(one + 2, ReqXdigit, y + 2)
    \cup Go(one + 3, {"0"}, one + 4) \cup Go(one + 3, {"5"}, one + 5)
    \cup Go(one + 3, ReqXdigit \ {"0", "5"}, y)
    \cup Go(one + 4, ReqDigit, one + 2) \cup Go(one + 4, {"A", "a"}, y + 1)
    \cup Go(one + 5, {"0"}, one + 2) \cup Go(one + 5, ReqXdigit \ {"0"}, y + 1)
    \cup Go(one + 6, ReqXdigit, y)
    \cup (UNION {Go(s, {"."}, 55) : s \in one..one + 3})
    \cup ReqGroupEnds(one..one + 6, colon, close)

LitStart ==
    Go(47, {"x06"}, 48) \cup Go(47, ReqXdigit, 91) \cup Go(47, {":"}, 167)
    \cup Go(47, {"v"}, 169) \cup Go(48, ReqXdigit, 49) \cup ReqH16(49, 53)
    \cup ReqMixedStart(53, 54, 84)

\* 54, 77 to 79 and 84 to 90 are one group; 55 to 76 the rest of a quad.
LitQuad(k) ==
    Go(54, {"."}, 55) \cup Go(54, ReqXdigit, 77) \cup Go(54, {":"}, 80)
    \cup ReqOctet(55, 56, 72) \cup Go(56, {"."}, 57)
    \cup ReqOctet(57, 58, 67) \cup Go(58, {"."}, 59)
    \cup ReqOctet(59, 60, 62) \cup Go(60, {"]"}, 61)
    \cup Go(61, {"/"}, 26) \cup Go(61, {":"}, 46) \cup Ends0(k, 61)

LitOctets ==
    ReqOctetRest(62, 60, "]", 61) \cup ReqOctetRest(67, 58, ".", 59)
    \cup ReqOctetRest(72, 56, ".", 57)

LitLastGroup ==
    Chain(77, <<ReqXdigit, ReqXdigit>>, 79) \cup ReqGroupEnds(77..79, 80, FALSE)
    \cup Go(80, ReqXdigit, 81) \cup Chain(81, <<ReqXdigit, ReqXdigit, ReqXdigit>>, 60)
    \cup UNION {Go(s, {"]"}, 61) : s \in 81..83}

LitMixed == ReqMixedTail(84, 77, 80, FALSE)

LitGroups12 == ReqGroup(91, 96, 166) \cup ReqGroup(96, 101, 165)
LitGroups34 == ReqGroup(101, 106, 164) \cup ReqGroup(106, 111, 163)
LitGroups56 == ReqGroup(111, 116, 151) \cup ReqGroup(116, 121, 150)
\* ( h16 ":" ){n,} has no upper bound: this group may be read again and again.
LitGroupLoop == ReqGroup(121, 121, 126)

LitTail1 ==
    Go(126, {"x02", "x03"}, 48) \cup ReqMixedStart(126, 127, 143) \cup Go(126, {"]"}, 61)
    \cup ReqMixedHead(127, 128, 131, TRUE)

LitTail2 == ReqMixedStart(131, 132, 136) \cup ReqMixedHead(132, 133, 80, TRUE)

LitTail2Mixed == ReqMixedTail(136, 133, 80, TRUE)

LitTail1Mixed == ReqMixedTail(143, 128, 131, TRUE)

LitAfter54 ==
    Go(150, {"x02", "x03"}, 48) \cup ReqMixedStart(150, 127, 143)
    \cup Go(151, {"x02", "x03"}, 48) \cup ReqMixedStart(151, 152, 156)
    \cup ReqMixedHead(152, 153, 131, FALSE)

LitAfter5Mixed == ReqMixedTail(156, 153, 131, FALSE)

LitShort ==
    Go(163, {"x02", "x03"}, 48) \cup Go(163, ReqXdigit, 49) \cup Go(164, {"x02", "x03"}, 48)
    \cup Go(165, {"x03"}, 48) \cup Go(166, {"x04"}, 48) \cup Go(167, {":"}, 168)
    \cup Go(168, {"x02", "x03", "x04", "x05"}, 48) \cup ReqMixedStart(168, 127, 143)
    \cup Go(168, {"]"}, 61)

LitFuture ==
    Go(169, ReqXdigit, 170) \cup Go(170, ReqXdigit, 170) \cup Go(170, {"."}, 171)
    \cup Go(171, ReqUser, 172) \cup Go(172, ReqUser, 172) \cup Go(172, {"]"}, 61)

-----------------------------------------------------------------------------
(* Socket requests: "<name ...>" and "@path {...}", up to a NUL.           *)

XmlChars == Letter \cup ReqDigit \cup {"-", "."}

SocketXML ==
    Go(194, XmlChars, 195) \cup Go(195, XmlChars, 195)
    \cup Do(195, {"ht", "lf", "vt", "cr", "sp", "/", ">"}, 196, <<"request_path">>)
    \cup Go(196, AnyChar \ {">"}, 196) \cup Go(196, {">"}, 197)
    \cup Go(197, AnyChar \ {">", "nul"}, 196) \cup Go(197, {">"}, 197)
    \cup Do(197, {"nul"}, 349, <<"xml", "done">>)

SocketJSON ==
    Go(198, ReqName \cup {"@"}, 202) \cup Go(198, {"%"}, 203) \cup Go(198, {"/"}, 208)
    \cup Do(198, {"sp"}, 199, <<"request_path">>) \cup Do(199, {"{"}, 200, <<"mark">>)
    \cup Go(200, AnyChar \ {"}"}, 200) \cup Go(200, {"}"}, 201)
    \cup Go(201, AnyChar \ {"}", "nul"}, 200) \cup Go(201, {"}"}, 201)
    \cup Do(201, {"nul"}, 349, <<"json", "done">>)

\* The copy of relative_part that a JSON request has.
InJson(s) ==
    CASE s = 19 -> 202
      [] s \in 24..28 -> s + 179
      [] s \in 33..172 -> s + 175
      [] OTHER -> s

InCopy(arcs) == {<<InJson(a[1]), a[2], InJson(a[3]), a[4]>> : a \in arcs}

JsonPath ==
    Go(202, ReqName \cup {"@"}, 202) \cup Go(202, {"%"}, 203) \cup Go(202, {"/"}, 205)
    \cup Do(202, {"sp"}, 199, <<"request_path">>) \cup ReqPercent(203, 202)
    \cup Go(205, ReqPchar \cup {"/"}, 205) \cup Go(205, {"%"}, 206)
    \cup Do(205, {"sp"}, 199, <<"request_path">>) \cup ReqPercent(206, 205)

JsonOneSlash == InCopy(OneSlash(1))
JsonAuthority == InCopy(ReqAuthority(1))
JsonUserinfo == InCopy(ReqUserinfo(1))
JsonHost == InCopy(ReqHost(1))
JsonPort == InCopy(ReqPort(1))
JsonLitStart == InCopy(LitStart)
JsonLitQuad == InCopy(LitQuad(1))
JsonLitOctets == InCopy(LitOctets)
JsonLitLastGroup == InCopy(LitLastGroup)
JsonLitMixed == InCopy(LitMixed)
JsonLitGroups12 == InCopy(LitGroups12)
JsonLitGroups34 == InCopy(LitGroups34)
JsonLitGroups56 == InCopy(LitGroups56)
JsonLitGroupLoop == InCopy(LitGroupLoop)
JsonLitTail1 == InCopy(LitTail1)
JsonLitTail2 == InCopy(LitTail2)
JsonLitTail2Mixed == InCopy(LitTail2Mixed)
JsonLitTail1Mixed == InCopy(LitTail1Mixed)
JsonLitAfter54 == InCopy(LitAfter54)
JsonLitAfter5Mixed == InCopy(LitAfter5Mixed)
JsonLitShort == InCopy(LitShort)
JsonLitFuture == InCopy(LitFuture)

-----------------------------------------------------------------------------
RequestArcs ==
    UNION {MethodStart, MethodRest1, MethodRest2, UriBegins, Version, HeaderName,
           HeaderValue, HeaderEnd, NoScheme, ReqFragment, ReqPath, ReqQueryString,
           OneSlash(0), ReqAuthority(0), ReqUserinfo(0), ReqHost(0), ReqPort(0), ReqScheme,
           LitStart, LitQuad(0), LitOctets, LitLastGroup, LitMixed, LitGroups12,
           LitGroups34, LitGroups56, LitGroupLoop, LitTail1, LitTail2, LitTail2Mixed,
           LitTail1Mixed, LitAfter54, LitAfter5Mixed, LitShort, LitFuture,
           SocketXML, SocketJSON, JsonPath, JsonOneSlash, JsonAuthority, JsonUserinfo,
           JsonHost, JsonPort, JsonLitStart, JsonLitQuad, JsonLitOctets,
           JsonLitLastGroup, JsonLitMixed, JsonLitGroups12, JsonLitGroups34,
           JsonLitGroups56, JsonLitGroupLoop, JsonLitTail1, JsonLitTail2,
           JsonLitTail2Mixed, JsonLitTail1Mixed, JsonLitAfter54, JsonLitAfter5Mixed,
           JsonLitShort, JsonLitFuture}

RequestTable == Switch(RequestArcs, 1..349, RequestChars \cup {"more"})

\* One character, or its `_widec` in a state that looks at uri_relaxed.
RequestAfter(s, c, relaxed) ==
    IF relaxed /\ c \in {"{", "}", "^"} /\ RequestTable[s]["more"].cs # ErrorState
    THEN RequestTable[s]["more"] ELSE RequestTable[s][c]

\* http_parser_start, http_parser_first_final
RequestStart == 1
RequestFirstFinal == 348

=============================================================================

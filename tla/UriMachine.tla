----------------------------- MODULE UriMachine -----------------------------
(***************************************************************************)
(* The automaton of uri.rl.cc, state by state, with the state numbers of   *)
(* the generated code.  The part that reads "//authority" is there twice:  *)
(* after nothing (a relative reference) and after "scheme:"; the second    *)
(* copy has other state numbers and also saves the path.                   *)
(***************************************************************************)
EXTENDS Automaton

\* Character classes: "a" A-F a-f, "v" itself, "g" the other letters, "3" 3-4,
\* "6" 6-9, "!" ! $ & ' ( ) * , ; = _ ~, "+" + and -, "x02" the byte 2, "high"
\* the bytes above 127, "other" all other bytes.
Digit == {"0", "1", "2", "3", "5", "6"}
Xdigit == Digit \cup {"a"}
Alpha == {"a", "g", "v"}
RegChar == Alpha \cup Digit \cup {"!", "+", "."}
UserChar == RegChar \cup {":"}
Pchar == UserChar \cup {"@", "high"}
QueryChar == Pchar \cup {"/", "?"}
UriChars == QueryChar \cup {"#", "%", "[", "]", "x02", "other"}

-----------------------------------------------------------------------------
(* Before the authority, path, query and fragment.                         *)

\* "%" was read: two hexadecimal digits and on to t.
Percent(s, t) == Chain(s, <<Xdigit, Xdigit>>, t)

Start ==
    Go(451, (RegChar \ Alpha) \cup {"@", "high"}, 452)
    \cup Do(451, Alpha, 508, <<"marku">>)
    \cup Go(451, {"#"}, 453) \cup Go(451, {"%"}, 3) \cup Go(451, {"/"}, 458)
    \cup Go(451, {"?"}, 456)
    \cup Go(452, Pchar \ {":"}, 452) \cup Go(452, {"#"}, 453) \cup Go(452, {"%"}, 3)
    \cup Go(452, {"/"}, 455) \cup Go(452, {"?"}, 456)

Fragment ==
    Do(453, QueryChar, 454, <<"marku">>) \cup Do(453, {"%"}, 1, <<"marku">>)
    \cup Go(454, QueryChar, 454) \cup Go(454, {"%"}, 1) \cup Percent(1, 454)

UnsavedPath ==
    Percent(3, 452) \cup Percent(5, 455)
    \cup Go(455, Pchar \cup {"/"}, 455) \cup Go(455, {"#"}, 453)
    \cup Go(455, {"%"}, 5) \cup Go(455, {"?"}, 456)

Query ==
    Do(456, QueryChar, 457, <<"marku">>) \cup Do(456, {"%"}, 7, <<"marku">>)
    \cup Do(456, {"#"}, 453, <<"marku", "save_query">>)
    \cup Go(457, QueryChar, 457) \cup Go(457, {"%"}, 7)
    \cup Do(457, {"#"}, 453, <<"save_query">>) \cup Percent(7, 457)

-----------------------------------------------------------------------------
(* The authority.  k = 0 is the copy of relative references, whose states  *)
(* are named here; Second renames them to those of the copy after a scheme *)
(* (k = 1).                                                                *)

InSecond(s) ==
    CASE s \in 9..22 -> s + 220
      [] s \in 23..228 -> s + 222
      [] s = 455 -> 513
      [] s \in {459, 460} -> s + 52
      [] s \in 461..507 -> s + 53
      [] OTHER -> s

Second(arcs) == {<<InSecond(a[1]), a[2], InSecond(a[3]), a[4]>> : a \in arcs}

\* The host or the port ends, what is before saved: after a scheme the path
\* begins here, and a "#" or "?" ends it at once.
Ends(k, s, save) ==
    LET begin == IF k = 1 THEN <<"markh">> ELSE <<>>
        whole == IF k = 1 THEN <<"markh", "save_path">> ELSE <<>>
    IN  Do(s, {"#"}, 453, save \o whole) \cup Do(s, {"/"}, 455, save \o begin)
        \cup Do(s, {"?"}, 456, save \o whole)

\* The same where the host or the port is empty: markh comes first, once.
EndsEmpty(k, s, save) ==
    LET whole == IF k = 1 THEN <<"save_path">> ELSE <<>>
    IN  Do(s, {"#"}, 453, <<"markh", save>> \o whole)
        \cup Do(s, {"/"}, 455, <<"markh", save>>)
        \cup Do(s, {"?"}, 456, <<"markh", save>> \o whole)

HostEnds(k, s) ==
    Ends(k, s, <<"save_host">>) \cup Do(s, {":"}, 461, <<"save_host">>)

\* An octet of an IPv4 address: s its first digit, z where it is complete, one
\* to one + 3 after "1", "3-9", "2", "25".  dec_octet has `2 [0-4] digit`, in
\* which 2 is the byte 2 and not the digit.
OctetStart(s, z, one) ==
    Go(s, {"x02"}, s + 1) \cup Go(s, {"0"}, z) \cup Go(s, {"1"}, one)
    \cup Go(s, {"2"}, one + 2) \cup Go(s, {"3", "5", "6"}, one + 1)
    \cup Go(s + 1, {"0", "1", "2", "3"}, s + 2) \cup Go(s + 2, Digit, z)

OctetDigits(one, z) ==
    Go(one, Digit, one + 1) \cup Go(one + 1, Digit, z)
    \cup Go(one + 2, Digit \ {"5"}, z) \cup Go(one + 2, {"5"}, one + 3)
    \cup Go(one + 3, Digit \ {"6"}, z)

OctetEnd(one, z, delim, t) ==
    UNION {Go(s, {delim}, t) : s \in {z} \cup one..one + 3}

SlashSlash ==
    Go(458, Pchar, 455) \cup Go(458, {"#"}, 453) \cup Go(458, {"%"}, 5)
    \cup Go(458, {"/"}, 459) \cup Go(458, {"?"}, 456)

\* The first character of the authority, or of the host after "@".
HostStart(k, s, name, pct, zero, one, colon) ==
    Do(s, {"x02"}, 9, <<"markh">>) \cup Do(s, RegChar \ Digit, name, <<"markh">>)
    \cup Do(s, {"%"}, pct, <<"markh">>) \cup Do(s, {"0"}, zero, <<"markh">>)
    \cup Do(s, {"1"}, one, <<"markh">>) \cup Do(s, {"2"}, one + 2, <<"markh">>)
    \cup Do(s, {"3", "5", "6"}, one + 1, <<"markh">>)
    \cup Do(s, {":"}, colon, <<"markh", "save_host">>)
    \cup Do(s, {"["}, 38, <<"markh">>) \cup EndsEmpty(k, s, "save_host")

AuthorityStart(k) ==
    HostStart(k, 459, 467, 31, 490, 504, 468)
    \cup Do(459, {"@"}, 469, <<"markh", "save_userinfo">>)

Quad ==
    Chain(9, <<{"0", "1", "2", "3"}, Digit, {"."}>>, 12)
    \cup OctetStart(12, 15, 27) \cup Go(15, {"."}, 16)
    \cup OctetStart(16, 19, 23) \cup Go(19, {"."}, 20)
    \cup OctetStart(20, 460, 463)

HostAndPort(k) ==
    HostEnds(k, 460) \cup OctetDigits(463, 460)
    \cup UNION {HostEnds(k, s) : s \in 463..466}
    \cup EndsEmpty(k, 461, "save_port") \cup Do(461, Digit, 462, <<"markh">>)
    \cup Go(462, Digit, 462) \cup Ends(k, 462, <<"save_port">>)

QuadOctets ==
    OctetDigits(23, 19) \cup UNION {Go(s, {"."}, 20) : s \in 23..26}
    \cup OctetDigits(27, 15) \cup UNION {Go(s, {"."}, 16) : s \in 27..30}

\* A state of a name that may still be userinfo: all of RegChar but "others"
\* continues it.
UserOrHost(k, s, others) ==
    Go(s, RegChar \ others, 467) \cup Go(s, {"%"}, 31)
    \cup Ends(k, s, <<"save_host">>) \cup Do(s, {":"}, 468, <<"save_host">>)
    \cup Do(s, {"@"}, 469, <<"save_userinfo">>)

UserOrHostName(k) == UserOrHost(k, 467, {}) \cup Percent(31, 467)

\* After its ":", which begins a port or is a part of the userinfo.
UserOrPort(k) ==
    Go(468, UserChar \ Digit, 33) \cup Go(468, {"%"}, 34)
    \cup Do(468, Digit, 489, <<"markh">>)
    \cup Do(468, {"@"}, 469, <<"save_userinfo">>) \cup EndsEmpty(k, 468, "save_port")
    \cup Go(33, UserChar, 33) \cup Go(33, {"%"}, 34)
    \cup Do(33, {"@"}, 469, <<"save_userinfo">>) \cup Percent(34, 33)

HostName(k, s, others) ==
    Go(s, RegChar \ others, 470) \cup Go(s, {"%"}, 36) \cup HostEnds(k, s)

HostAfterUser(k) ==
    HostStart(k, 469, 470, 36, 471, 485, 461) \cup HostName(k, 470, {})
    \cup Percent(36, 470)

\* A name that is also the beginning of an IPv4 address; Part(_, s, o) is
\* HostName or UserOrHost.
DotState(Part(_, _, _), k, s, t) == Part(k, s, {"."}) \cup Go(s, {"."}, t)

OctetState(Part(_, _, _), k, s, byte2, zero, one) ==
    Part(k, s, Digit) \cup Go(s, {"x02"}, byte2) \cup Go(s, {"0"}, zero)
    \cup Go(s, {"1"}, one) \cup Go(s, {"2"}, one + 2)
    \cup Go(s, {"3", "5", "6"}, one + 1)

DigitStates(Part(_, _, _), k, one, z, t) ==
    OctetDigits(one, z) \cup UNION {Go(s, {"."}, t) : s \in one..one + 3}
    \cup UNION {Part(k, s, Digit \cup {"."}) : s \in one..one + 2}
    \cup Part(k, one + 3, (Digit \ {"6"}) \cup {"."})

HostQuad1(k) ==
    DotState(HostName, k, 471, 472) \cup OctetState(HostName, k, 472, 13, 473, 481)
    \cup DotState(HostName, k, 473, 474) \cup OctetState(HostName, k, 474, 17, 475, 477)

HostQuad2(k) ==
    DotState(HostName, k, 475, 476) \cup HostName(k, 476, {}) \cup Go(476, {"x02"}, 21)

HostQuad3(k) == DigitStates(HostName, k, 477, 475, 476)

HostQuad4(k) == DigitStates(HostName, k, 481, 473, 474)

HostQuad5(k) == DigitStates(HostName, k, 485, 471, 472)

UserPort(k) ==
    Go(489, UserChar \ Digit, 33) \cup Go(489, {"%"}, 34) \cup Go(489, Digit, 489)
    \cup Do(489, {"@"}, 469, <<"save_userinfo">>) \cup Ends(k, 489, <<"save_port">>)

UserQuad1(k) ==
    DotState(UserOrHost, k, 490, 491) \cup OctetState(UserOrHost, k, 491, 13, 492, 500)
    \cup DotState(UserOrHost, k, 492, 493) \cup OctetState(UserOrHost, k, 493, 17, 494, 496)

UserQuad2(k) ==
    DotState(UserOrHost, k, 494, 495) \cup UserOrHost(k, 495, {}) \cup Go(495, {"x02"}, 21)

UserQuad3(k) == DigitStates(UserOrHost, k, 496, 494, 495)

UserQuad4(k) == DigitStates(UserOrHost, k, 500, 492, 493)

UserQuad5(k) == DigitStates(UserOrHost, k, 504, 490, 491)

-----------------------------------------------------------------------------
(* "[" IPv6address "]" or "[v" IPvFuture "]".  A Group reads h16 ":" and a *)
(* second ":" then leads to dbl.                                           *)

H16(s, t) ==
    UNION {Go(s + i, Xdigit, s + i + 1) : i \in 0..2}
    \cup UNION {Go(s + i, {":"}, t) : i \in 0..3}

Group(s, dbl) ==
    H16(s, s + 4) \cup Go(s + 4, Xdigit, s + 5) \cup Go(s + 4, {":"}, dbl)

\* h16 that may also be the first octet of an IPv4 address: s its first
\* character, z to z + 3 after "0" and as plain h16, one to one + 6 while it is
\* both, letter after A-F.  MixedHead has the first, MixedTail the others; the
\* group ends with ":" to colon and, where close holds, with "]".
MixedStart(s, z, one, letter) ==
    Go(s, {"x02"}, 69) \cup Go(s, {"0"}, z) \cup Go(s, {"1"}, one)
    \cup Go(s, {"2"}, one + 3) \cup Go(s, {"3", "5", "6"}, one + 6)
    \cup Go(s, {"a"}, letter)

GroupEnds(states, colon, close) ==
    UNION {Go(s, {":"}, colon) : s \in states}
    \cup IF close THEN UNION {Go(s, {"]"}, 460) : s \in states} ELSE {}

MixedHead(z, colon, close) ==
    Chain(z, <<Xdigit, Xdigit, Xdigit>>, z + 3) \cup Go(z, {"."}, 72)
    \cup GroupEnds(z..z + 3, colon, close)

MixedTail(one, z, letter, colon, close) ==
    Go(one, Digit, one + 1) \cup Go(one, {"a"}, z + 1)
    \cup Go(one + 1, Digit, one + 2) \cup Go(one + 1, {"a"}, z + 2)
    \cup Go(one + 2, Xdigit, z + 3)
    \cup Go(one + 3, Digit \ {"5"}, one + 4) \cup Go(one + 3, {"5"}, one + 5)
    \cup Go(one + 3, {"a"}, z + 1) \cup Go(one + 4, Xdigit, z + 2)
    \cup Go(one + 5, Digit \ {"6"}, one + 2) \cup Go(one + 5, {"6", "a"}, z + 2)
    \cup Go(one + 6, Digit, one + 4) \cup Go(one + 6, {"a"}, z + 1)
    \cup Go(letter, Xdigit, z + 1)
    \cup UNION {Go(s, {"."}, 72) : s \in one..one + 6}
    \cup GroupEnds(one..one + 6 \cup {letter}, colon, close)

LiteralStart ==
    Go(38, Xdigit, 39) \cup Go(38, {":"}, 146) \cup Go(38, {"v"}, 225)
    \cup Group(39, 141)

Groups23 == Group(44, 136) \cup Group(49, 131)

Groups45 == Group(54, 126) \cup Group(59, 113)

Group6 == H16(64, 68) \cup MixedStart(68, 96, 104, 112) \cup Go(68, {":"}, 111)

LiteralQuad ==
    Chain(69, <<{"0", "1", "2", "3"}, Digit, {"."}>>, 72)
    \cup OctetStart(72, 75, 92) \cup Go(75, {"."}, 76)
    \cup OctetStart(76, 79, 88) \cup Go(79, {"."}, 80)
    \cup OctetStart(80, 83, 84) \cup Go(83, {"]"}, 460)

LiteralOctets ==
    OctetDigits(84, 83) \cup UNION {Go(s, {"]"}, 460) : s \in 84..87}
    \cup OctetDigits(88, 79) \cup UNION {Go(s, {"."}, 80) : s \in 88..91}
    \cup OctetDigits(92, 75) \cup UNION {Go(s, {"."}, 76) : s \in 92..95}

\* The seventh group, or the quad, after six; "::" may still follow.
Group7 ==
    MixedHead(96, 100, FALSE) \cup Go(100, Xdigit, 101) \cup Go(100, {":"}, 83)
    \cup Chain(101, <<Xdigit, Xdigit, Xdigit>>, 83)
    \cup UNION {Go(s, {"]"}, 460) : s \in 101..103}

Group7Quad == MixedTail(104, 96, 112, 100, FALSE) \cup Go(111, Xdigit, 101)

\* "::" after five groups and what follows it: two groups or a quad.
After5 == MixedStart(113, 114, 118, 125) \cup MixedHead(114, 111, FALSE)

After5Quad == MixedTail(118, 114, 125, 111, FALSE)

\* Mutant: "::" after three groups leaves room for two groups more, not three.
After43Short ==
    Go(126, Xdigit, 127) \cup H16(127, 113) \cup Go(131, Xdigit, 132) \cup H16(132, 113)

\* "::" after four, three, two, one groups: as many more as fill up to seven.
After43 ==
    Go(126, Xdigit, 127) \cup H16(127, 113) \cup Go(131, Xdigit, 132) \cup H16(132, 126)

After21 ==
    Go(136, Xdigit, 137) \cup H16(137, 131) \cup Go(141, Xdigit, 142) \cup H16(142, 136)

\* "::" at the beginning and up to seven groups.
After0 ==
    Go(146, {":"}, 147) \cup MixedStart(147, 148, 217, 224) \cup Go(147, {"]"}, 460)
    \cup MixedHead(148, 152, TRUE)

After0Group2 == MixedStart(152, 153, 209, 216) \cup MixedHead(153, 157, TRUE)
After0Group3 == MixedStart(157, 158, 201, 208) \cup MixedHead(158, 162, TRUE)
After0Group4 == MixedStart(162, 163, 193, 200) \cup MixedHead(163, 167, TRUE)
After0Group5 == MixedStart(167, 168, 185, 192) \cup MixedHead(168, 172, TRUE)
After0Group6 == MixedStart(172, 173, 177, 184) \cup MixedHead(173, 111, TRUE)
After0Quad6 == MixedTail(177, 173, 184, 111, TRUE)
After0Quad5 == MixedTail(185, 168, 192, 172, TRUE)
After0Quad4 == MixedTail(193, 163, 200, 167, TRUE)
After0Quad3 == MixedTail(201, 158, 208, 162, TRUE)
After0Quad2 == MixedTail(209, 153, 216, 157, TRUE)
After0Quad1 == MixedTail(217, 148, 224, 152, TRUE)

IPvFuture ==
    Go(225, Xdigit, 226) \cup Go(226, Xdigit, 226) \cup Go(226, {"."}, 227)
    \cup Go(227, UserChar, 228) \cup Go(228, UserChar, 228) \cup Go(228, {"]"}, 460)

-----------------------------------------------------------------------------
(* The scheme, and the second copy.                                        *)

Scheme ==
    Go(508, {"!", "@", "high"}, 452) \cup Go(508, (RegChar \ {"!"}), 508)
    \cup Go(508, {"#"}, 453) \cup Go(508, {"%"}, 3) \cup Go(508, {"/"}, 455)
    \cup Do(508, {":"}, 509, <<"save_scheme">>) \cup Go(508, {"?"}, 456)
    \cup Go(509, {"/"}, 510) \cup Go(510, {"/"}, 511)
    \cup UNION {Go(s, Pchar, 455) \cup Go(s, {"#"}, 453) \cup Go(s, {"%"}, 5)
                \cup Go(s, {"?"}, 456) : s \in 509..510}

SchemeAuthority == Second(AuthorityStart(1))
SchemeQuad == Second(Quad)
SchemeHost ==
    Second(HostEnds(1, 460))
    \cup Go(513, Pchar \cup {"/"}, 513) \cup Go(513, {"%"}, 243)
    \cup Do(513, {"#"}, 453, <<"save_path">>) \cup Do(513, {"?"}, 456, <<"save_path">>)
    \cup Percent(243, 513)
SchemePort == Second(HostAndPort(1) \ HostEnds(1, 460))
SchemeQuadOctets == Second(QuadOctets)
SchemeUserOrHostName == Second(UserOrHostName(1))
SchemeUserOrPort == Second(UserOrPort(1))
SchemeHostAfterUser == Second(HostAfterUser(1))
SchemeHostQuad1 == Second(HostQuad1(1))
SchemeHostQuad2 == Second(HostQuad2(1))
SchemeHostQuad3 == Second(HostQuad3(1))
SchemeHostQuad4 == Second(HostQuad4(1))
SchemeHostQuad5 == Second(HostQuad5(1))
SchemeLiteralStart == Second(LiteralStart)
SchemeGroups23 == Second(Groups23)
SchemeGroups45 == Second(Groups45)
SchemeGroup6 == Second(Group6)
SchemeLiteralQuad == Second(LiteralQuad)
SchemeLiteralOctets == Second(LiteralOctets)
SchemeGroup7 == Second(Group7)
SchemeGroup7Quad == Second(Group7Quad)
SchemeAfter5 == Second(After5)
SchemeAfter5Quad == Second(After5Quad)
SchemeAfter43 == Second(After43)
SchemeAfter21 == Second(After21)
SchemeAfter0 == Second(After0)
SchemeAfter0Group2 == Second(After0Group2)
SchemeAfter0Group3 == Second(After0Group3)
SchemeAfter0Group4 == Second(After0Group4)
SchemeAfter0Group5 == Second(After0Group5)
SchemeAfter0Group6 == Second(After0Group6)
SchemeAfter0Quad6 == Second(After0Quad6)
SchemeAfter0Quad5 == Second(After0Quad5)
SchemeAfter0Quad4 == Second(After0Quad4)
SchemeAfter0Quad3 == Second(After0Quad3)
SchemeAfter0Quad2 == Second(After0Quad2)
SchemeAfter0Quad1 == Second(After0Quad1)
SchemeIPvFuture == Second(IPvFuture)
SchemeUserPort == Second(UserPort(1))
SchemeUserQuad1 == Second(UserQuad1(1))
SchemeUserQuad2 == Second(UserQuad2(1))
SchemeUserQuad3 == Second(UserQuad3(1))
SchemeUserQuad4 == Second(UserQuad4(1))
SchemeUserQuad5 == Second(UserQuad5(1))

-----------------------------------------------------------------------------
UriArcs ==
    UNION {Start, Fragment, UnsavedPath, Query, SlashSlash, AuthorityStart(0), Quad,
           HostAndPort(0), QuadOctets, UserOrHostName(0), UserOrPort(0),
           HostAfterUser(0), HostQuad1(0), HostQuad2(0), HostQuad3(0), HostQuad4(0),
           HostQuad5(0), UserPort(0), UserQuad1(0), UserQuad2(0), UserQuad3(0),
           UserQuad4(0), UserQuad5(0),
           LiteralStart, Groups23, Groups45, Group6, LiteralQuad, LiteralOctets,
           Group7, Group7Quad, After5, After5Quad, After43, After21, After0,
           After0Group2, After0Group3, After0Group4, After0Group5, After0Group6,
           After0Quad6, After0Quad5, After0Quad4, After0Quad3, After0Quad2,
           After0Quad1, IPvFuture,
           Scheme, SchemeAuthority, SchemeQuad, SchemeHost, SchemePort,
           SchemeQuadOctets, SchemeUserOrHostName, SchemeUserOrPort,
           SchemeHostAfterUser, SchemeHostQuad1, SchemeHostQuad2, SchemeHostQuad3,
           SchemeHostQuad4, SchemeHostQuad5, SchemeUserPort, SchemeUserQuad1,
           SchemeUserQuad2, SchemeUserQuad3, SchemeUserQuad4, SchemeUserQuad5,
           SchemeLiteralStart, SchemeGroups23, SchemeGroups45, SchemeGroup6,
           SchemeLiteralQuad, SchemeLiteralOctets, SchemeGroup7, SchemeGroup7Quad,
           SchemeAfter5, SchemeAfter5Quad, SchemeAfter43, SchemeAfter21, SchemeAfter0,
           SchemeAfter0Group2, SchemeAfter0Group3, SchemeAfter0Group4,
           SchemeAfter0Group5, SchemeAfter0Group6, SchemeAfter0Quad6,
           SchemeAfter0Quad5, SchemeAfter0Quad4, SchemeAfter0Quad3,
           SchemeAfter0Quad2, SchemeAfter0Quad1, SchemeIPvFuture}

UriStates == 1..560
UriTable == Switch(UriArcs, UriStates, UriChars)

\* uri_parser_start, uri_parser_first_final
UriStart == 451
UriFirstFinal == 451

\* What is still to be saved when the string ends in a state (`p == eof`).
UriAtEof(s) ==
    CASE s \in {462, 489} -> <<"save_port">>
      [] s = 460 \/ s \in 463..467 \cup 470..488 \cup 490..507 -> <<"save_host">>
      [] s = 513 -> <<"save_path">>
      [] s = 457 -> <<"save_query">>
      [] s = 454 -> <<"save_fragment">>
      [] s = 456 -> <<"marku", "save_query">>
      [] s = 453 -> <<"marku", "save_fragment">>
      [] s \in {461, 468} -> <<"markh", "save_port">>
      [] s \in {459, 469} -> <<"markh", "save_host">>
      [] s \in {514, 521} -> <<"markh", "save_port", "save_path">>
      [] s \in {511, 522} -> <<"markh", "save_host", "save_path">>
      [] s \in {515, 542} -> <<"save_port", "markh", "save_path">>
      [] s = 512 \/ s \in 516..520 \cup 523..541 \cup 543..560
             -> <<"save_host", "markh", "save_path">>
      [] OTHER -> <<>>

=============================================================================

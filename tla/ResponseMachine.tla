--------------------------- MODULE ResponseMachine --------------------------
(***************************************************************************)
(* The automaton of httpclient_parser.rl.cc: a status line and header      *)
(* fields up to the empty line, or the header of a chunk.  State numbers   *)
(* are those of the generated code.  Three header fields have states of    *)
(* their own, as far as a field goes on like them: "Connection: close",    *)
(* "Transfer-Encoding: chunked" and "Content-Length: <digits>".            *)
(***************************************************************************)
EXTENDS Automaton

\* Character classes: a letter stands for itself in both cases, but for "H",
\* "T" and "P", which a status line has in upper case only; "0" the digits, "!"
\* the other characters of a token, "ws" 9, 11 and 12, "other" all others.
HexLetter == {"a", "b", "c", "d", "e", "f"}
RespToken ==
    HexLetter \cup {"g", "H", "h", "i", "k", "l", "n", "o", "P", "r", "s", "T", "t", "u",
                    "0", "!", "-", "."}
ResponseChars ==
    RespToken \cup {"ws", "sp", "lf", "cr", "/", ":", ";", "=", "other"}

Space == {"ws", "sp"}
Line == {"lf", "cr"}
AnyCase(c) == CASE c = "t" -> {"t", "T"} [] c = "h" -> {"h", "H"} [] OTHER -> {c}

-----------------------------------------------------------------------------
(* The header of a chunk, and the status line.                             *)

ChunkSize ==
    Do(1, {"0"} \cup HexLetter, 2, <<"mark">>) \cup Do(1, {"H"}, 8, <<"mark">>)
    \cup Go(2, {"0"} \cup HexLetter, 2) \cup Do(2, {"lf"}, 120, <<"chunk_size", "done">>)
    \cup Do(2, {"cr"}, 3, <<"chunk_size">>) \cup Do(2, {";"}, 4, <<"chunk_size">>)

\* The LF of an empty line or of a chunk's header, after its CR.
LastLineFeed == Do(3, {"lf"}, 120, <<"done">>)

ExtensionEnds(s, before) ==
    Do(s, {"lf"}, 120, before \o <<"write_value", "done">>)
    \cup Do(s, {"cr"}, 3, before \o <<"write_value">>)
    \cup Do(s, {";"}, 4, before \o <<"write_value">>)

ChunkExtension ==
    Do(4, RespToken, 5, <<"start_field">>) \cup Go(5, RespToken, 5)
    \cup ExtensionEnds(5, <<"write_field", "start_value">>)
    \cup Do(5, {"="}, 6, <<"write_field", "start_value">>)
    \cup Do(6, RespToken, 7, <<"start_value">>) \cup Go(7, RespToken, 7)
    \cup ExtensionEnds(7, <<>>)

StatusLine ==
    Chain(8, <<{"T"}, {"T"}, {"P"}, {"/"}, {"0"}>>, 13)
    \cup Go(13, {"0"}, 13) \cup Go(13, {"."}, 14) \cup Go(14, {"0"}, 15) \cup Go(15, {"0"}, 15)
    \cup Do(15, {"sp"}, 16, <<"http_version">>) \cup Do(16, {"0"}, 17, <<"mark">>)
    \cup Go(17, {"0"}, 17) \cup Do(17, {"sp"}, 18, <<"status_code">>)

Reason ==
    Do(18, ResponseChars \ {"lf"}, 19, <<"mark">>) \cup Go(19, ResponseChars \ Line, 19)
    \cup Do(19, {"lf"}, 20, <<"reason_phrase">>) \cup Do(19, {"cr"}, 24, <<"reason_phrase">>)

-----------------------------------------------------------------------------
(* Header fields.                                                          *)

\* A field begins; c and t are the states after a C and a T.
FieldBegins(s, before, c, cdo, t) ==
    Do(s, RespToken \ (AnyCase("c") \cup AnyCase("t")), 21, before \o <<"start_field">>)
    \cup Do(s, AnyCase("c"), c, before \o cdo) \cup Do(s, AnyCase("t"), t, before \o <<"start_field">>)

LineBegins(s, before) ==
    Do(s, {"lf"}, 120, before \o <<"done">>) \cup Do(s, {"cr"}, 3, before)
    \cup FieldBegins(s, before, 25, <<"start_field">>, 44)

ValueEnds(s, before) ==
    Do(s, {"lf"}, 20, before \o <<"write_value">>) \cup Do(s, {"cr"}, 24, before \o <<"write_value">>)

\* A name that has been read as far as a known one: go is the set of letters and
\* states by which it goes on so, at "after" its ":" leads.
NameState(s, go, after) ==
    UNION {Go(s, AnyCase(g[1]), g[2]) : g \in go}
    \cup Go(s, RespToken \ UNION {AnyCase(g[1]) : g \in go}, 21)
    \cup Do(s, {":"}, after, <<"write_field">>)

\* States s, s + 1, ... of a known name.
NameLetters(s, letters) ==
    UNION {NameState(s + i - 1, {<<letters[i], s + i>>}, 22) : i \in DOMAIN letters}

\* States s, s + 1, ... of a known value that has begun on the field's line.
ValueLetters(s, letters) ==
    UNION {LET c == AnyCase(letters[i]) IN
           Go(s + i - 1, c, s + i) \cup Go(s + i - 1, ResponseChars \ (Line \cup c), 23)
           \cup ValueEnds(s + i - 1, <<>>) : i \in DOMAIN letters}

\* The value of a known field, from the ":" on, where it may be one that is
\* looked for (first, state begun) or any other.  A line end ends it, and the
\* known value may still come on a later line (lf, cr).
ValueBegins(s, first, begun, lf, cr) ==
    Do(s, ResponseChars \ (Space \cup Line \cup first), 23, <<"start_value">>)
    \cup Do(s, Space, s, <<"start_value">>) \cup Do(s, first, begun, <<"start_value">>)
    \cup Do(s, {"lf"}, lf, <<"start_value", "write_value">>)
    \cup Do(s, {"cr"}, cr, <<"start_value", "write_value">>)

PlainField ==
    LineBegins(20, <<>>) \cup NameState(21, {}, 22)
    \cup Do(22, ResponseChars \ (Space \cup Line), 23, <<"start_value">>)
    \cup Do(22, Space, 22, <<"start_value">>) \cup ValueEnds(22, <<"start_value">>)
    \cup Go(23, ResponseChars \ Line, 23) \cup ValueEnds(23, <<>>) \cup Go(24, {"lf"}, 20)

ConnectionName1 ==
    NameLetters(25, <<"o", "n">>) \cup NameState(27, {<<"n", 28>>, <<"t", 101>>}, 22)
    \cup NameLetters(28, <<"e">>)
ConnectionName2 == NameLetters(29, <<"c", "t", "i", "o">>)
ConnectionName3 == NameLetters(33, <<"n">>) \cup NameState(34, {}, 35)

ConnectionValue ==
    ValueBegins(35, {"c"}, 96, 36, 95)
    \cup Go(36, Space, 37) \cup Do(36, {"lf"}, 122, <<"done">>) \cup Go(36, {"cr"}, 89)
    \cup FieldBegins(36, <<>>, 90, <<"start_field">>, 44)
    \cup Go(37, Space \cup Line, 37)
    \cup Chain(37, <<{"c"}, {"l"}, {"o"}, {"s"}, {"e"}, {"lf"}>>, 43) \cup Go(42, {"cr"}, 88)

ConnectionClosed == LineBegins(43, <<"write_connection_close">>)

TransferName1 == NameLetters(44, <<"r", "a", "n", "s">>)
TransferName2 == NameLetters(48, <<"f", "e", "r", "-">>)
TransferName3 == NameLetters(52, <<"e", "n", "c", "o">>)
TransferName4 == NameLetters(56, <<"d", "i", "n", "g">>) \cup NameState(60, {}, 61)

TransferValue ==
    ValueBegins(61, {"c"}, 81, 62, 80)
    \cup Go(62, Space, 63) \cup Do(62, {"lf"}, 121, <<"done">>) \cup Go(62, {"cr"}, 72)
    \cup FieldBegins(62, <<>>, 73, <<"start_value", "start_field">>, 44)

\* "chunked" on a line of its own after "Transfer-Encoding:".
ChunkedAlone ==
    Go(63, Space \cup Line, 63) \cup Do(63, {"c"}, 64, <<"start_value">>)
    \cup Chain(64, <<AnyCase("h"), {"u"}, {"n"}, {"k"}, {"e"}, {"d"}>>, 70)
    \cup Do(70, {"lf"}, 20, <<"write_value", "trans_chunked">>)
    \cup Do(70, {"cr"}, 71, <<"write_value">>) \cup Do(71, {"lf"}, 20, <<"trans_chunked">>)

\* A header that ended in an empty value of Transfer-Encoding, Connection or
\* Content-Length ends in a state of its own: the line feed may have been white
\* space before the value.
Final121 == Go(121, Space \cup Line, 63) \cup Do(121, {"c"}, 64, <<"start_value">>)
Final122 == Go(122, Space \cup Line, 37) \cup Go(122, {"c"}, 38)
Final123 == Go(123, Space \cup Line, 114) \cup Do(123, {"0"}, 115, <<"start_value">>)

ChunkedName1 ==
    Go(72, Space \cup {"cr"}, 63) \cup Do(72, {"lf"}, 121, <<"done">>)
    \cup Do(72, {"c"}, 64, <<"start_value">>)
    \cup NameState(73, {<<"h", 74>>, <<"o", 26>>}, 22) \cup NameLetters(74, <<"u", "n">>)
ChunkedName2 ==
    NameLetters(76, <<"k", "e", "d">>) \cup NameState(79, {}, 22)
    \cup Do(79, {"lf"}, 20, <<"write_value", "trans_chunked">>) \cup Do(79, {"cr"}, 71, <<"write_value">>)

ChunkedValue ==
    Go(80, Space \cup {"cr"}, 63) \cup Go(80, {"lf"}, 62) \cup Do(80, {"c"}, 64, <<"start_value">>)
    \cup ValueLetters(81, <<"h", "u", "n", "k", "e", "d">>)
    \cup Go(87, ResponseChars \ Line, 23)
    \cup Do(87, {"lf"}, 20, <<"write_value", "trans_chunked">>) \cup Do(87, {"cr"}, 71, <<"write_value">>)
    \cup Go(88, {"lf"}, 43)

CloseName ==
    Go(89, Space \cup {"cr"}, 37) \cup Do(89, {"lf"}, 122, <<"done">>) \cup Go(89, {"c"}, 38)
    \cup NameState(90, {<<"l", 91>>, <<"o", 26>>}, 22) \cup NameLetters(91, <<"o", "s">>)

CloseValue ==
    NameLetters(93, <<"e">>) \cup NameState(94, {}, 22) \cup Go(94, {"lf"}, 43) \cup Go(94, {"cr"}, 88)
    \cup Go(95, Space \cup {"cr"}, 37) \cup Go(95, {"lf"}, 36) \cup Go(95, {"c"}, 38)
    \cup ValueLetters(96, <<"l", "o", "s", "e">>) \cup Go(100, ResponseChars \ Line, 23)
    \cup Do(100, {"lf"}, 43, <<"write_value">>) \cup Do(100, {"cr"}, 88, <<"write_value">>)

LengthName1 == NameLetters(101, <<"e", "n", "t", "-">>)
LengthName2 == NameLetters(105, <<"l", "e", "n", "g">>)
LengthName3 == NameLetters(109, <<"t", "h">>) \cup NameState(111, {}, 112)

LengthEnds(s) == ValueEnds(s, <<"write_content_len">>)

LengthValue ==
    ValueBegins(112, {"0"}, 119, 113, 118)
    \cup Go(113, Space, 114) \cup Do(113, {"lf"}, 123, <<"done">>) \cup Go(113, {"cr"}, 116)
    \cup Do(113, {"0"}, 117, <<"start_value", "start_field">>)
    \cup {<<a[1], a[2] \ {"0"}, a[3], a[4]>> : a \in FieldBegins(113, <<>>, 25, <<"start_field">>, 44)}
    \cup Go(114, Space \cup Line, 114) \cup Do(114, {"0"}, 115, <<"start_value">>)
    \cup Go(115, {"0"}, 115) \cup LengthEnds(115)

LengthDigits ==
    Go(116, Space \cup {"cr"}, 114) \cup Do(116, {"lf"}, 123, <<"done">>)
    \cup Do(116, {"0"}, 115, <<"start_value">>)
    \cup NameState(117, {<<"0", 117>>}, 22) \cup LengthEnds(117)
    \cup Go(118, Space \cup {"cr"}, 114) \cup Go(118, {"lf"}, 113)
    \cup Do(118, {"0"}, 115, <<"start_value">>)
    \cup Go(119, ResponseChars \ (Line \cup {"0"}), 23) \cup Go(119, {"0"}, 119) \cup LengthEnds(119)

-----------------------------------------------------------------------------
ResponseArcs ==
    UNION {ChunkSize, LastLineFeed, ChunkExtension, StatusLine, Reason, PlainField,
           ConnectionName1, ConnectionName2, ConnectionName3, ConnectionValue,
           ConnectionClosed, TransferName1, TransferName2, TransferName3,
           TransferName4, TransferValue, ChunkedAlone, Final121, Final122, Final123,
           ChunkedName1, ChunkedName2, ChunkedValue, CloseName, CloseValue,
           LengthName1, LengthName2, LengthName3, LengthValue, LengthDigits}

ResponseTable == Switch(ResponseArcs, 1..123, ResponseChars)

\* httpclient_parser_start, httpclient_parser_first_final
ResponseStart == 1
ResponseFirstFinal == 120

=============================================================================

--------------------------- MODULE HttpConnection ---------------------------
(***************************************************************************)
(* HttpConnection::recvResponse: the response parser (http_parser.cc,      *)
(* httpclient_parser.rl) reads a header from as many pieces as read()      *)
(* returns, then the body: chunks, each with a header that the same parser *)
(* reads, or as many bytes as Content-Length says.                         *)
(*                                                                         *)
(* Pointers and the reference are as in HttpSession.  Of the digits of     *)
(* Content-Length and of a chunk's size it is modelled which of them the   *)
(* parser has; what number they are is chosen where the body is read, and  *)
(* keeps the width of the type that it is stored in.                       *)
(***************************************************************************)
EXTENDS ResponseMachine, Integers

CONSTANTS
    MaxReads,   \* bound: read() returns the headers in at most so many pieces
    IntBits,    \* the bits of an int, 32 in the code
    LongBits,   \* the bits of a long and of an int64_t, 64 in the code
    Memory,     \* the longest string that can be allocated
    Sizes       \* what the server may send as a chunk's size or as a length

ASSUME MaxReadsAssumption == MaxReads \in Nat \ {0}
ASSUME SizesAssumption ==
    /\ IntBits \in Nat \ {0, 1} /\ LongBits \in Nat /\ LongBits >= IntBits
    /\ Memory \in Nat /\ Sizes \subseteq Nat

VARIABLES
    hcs,                    \* parser->cs
    hmark, hfield, hflen,   \* mark, field_start, field_len # 0
    hfirst,     \* is the next character the first one execute() gets?
    hreads,     \* how many pieces read() has returned
    rsp,        \* the HttpResponse, and chunked and content_len of the parser; left
                \* out are the reason phrase and parser->close, which nothing reads
    hret,       \* what recvResponse reads, or how it ends
    href        \* the reference

responseVars == <<hcs, hmark, hfield, hflen, hfirst, hreads, rsp, hret, href>>

-----------------------------------------------------------------------------
(* The reference.                                                          *)

FieldName ==
    [transfer |-> <<"t", "r", "a", "n", "s", "f", "e", "r", "-",
                    "e", "n", "c", "o", "d", "i", "n", "g">>,
     connection |-> <<"c", "o", "n", "n", "e", "c", "t", "i", "o", "n">>,
     length |-> <<"c", "o", "n", "t", "e", "n", "t", "-", "l", "e", "n", "g", "t", "h">>]

FieldValue ==
    [transfer |-> <<"c", "h", "u", "n", "k", "e", "d">>,
     connection |-> <<"c", "l", "o", "s", "e">>]

Kinds == DOMAIN FieldName

\* in: what is being read; kinds, pos: the known names, or the known value, that
\* the text so far is the beginning of, and how much of it; cut: what a piece's
\* end divided; odd: no response of a server, or one with an empty known field;
\* size: the size of the last chunk, or the Content-Length, once it is used;
\* trailer: did the server send fields after the last chunk?
RespRefStart ==
    [in |-> "start", kinds |-> {}, pos |-> 0, cut |-> {}, chunked |-> FALSE,
     length |-> "none", odd |-> FALSE, size |-> 0, trailer |-> FALSE]

GoesOn(text, pos, c) == pos < Len(text) /\ c \in AnyCase(text[pos + 1])

RefName(r, c) ==
    LET kinds == {k \in IF r.in = "line" THEN Kinds ELSE r.kinds : GoesOn(FieldName[k], r.pos, c)}
    IN  [r EXCEPT !.in = "name", !.kinds = kinds, !.pos = IF kinds = {} THEN 0 ELSE @ + 1]

RefNameEnds(r) ==
    [r EXCEPT !.in = "gap", !.pos = 0, !.kinds = {k \in @ : r.pos = Len(FieldName[k])}]

\* A known value goes on; of Content-Length any number of digits.  "not length"
\* remembers a Content-Length whose value is no number.
RefValue(r, c) ==
    LET kinds == {k \in r.kinds :
                    IF k = "length" THEN c = "0"
                    ELSE k \in Kinds /\ GoesOn(FieldValue[k], r.pos, c)}
    IN  [r EXCEPT !.in = "value",
                  !.kinds = IF kinds = {} /\ r.kinds \cap {"length", "not length"} # {}
                            THEN {"not length"} ELSE kinds,
                  !.pos = CASE kinds = {} -> 0 [] "length" \in kinds -> 1 [] OTHER -> @ + 1]

RefFieldEnds(r, c) ==
    [r EXCEPT
          !.in = IF c = "cr" THEN "line end" ELSE "line",
          !.kinds = {}, !.pos = 0, !.cut = @ \ {"name", "value"},
          !.chunked = @ \/ ("transfer" \in r.kinds /\ r.pos = Len(FieldValue.transfer)),
          !.length = IF \/ r.kinds \cap {"length", "not length"} = {}
                        \/ r.cut \cap {"name", "value"} # {} THEN @
                     ELSE IF "length" \in r.kinds THEN "number" ELSE "no number",
          !.odd = @ \/ (r.in = "gap" /\ r.kinds # {})]

RespRefNext(r, c) ==
    LET to(part) == [r EXCEPT !.in = part] IN
    CASE r.in = "start" -> [to("version") EXCEPT !.odd = c # "H"]
      [] r.in = "version" /\ c = "sp" -> to("status start")
      [] r.in = "status start" -> to("status")
      [] r.in = "status" /\ c = "sp" -> to("reason start")
      [] r.in = "reason start" -> to("reason")
      [] r.in = "reason" /\ c \in Line -> to(IF c = "cr" THEN "line end" ELSE "line")
      [] r.in = "line end" -> to("line")
      [] r.in = "line" /\ c = "cr" -> to("line cr")
      [] r.in \in {"line", "line cr"} /\ c = "lf" -> to("size start")
      [] r.in \in {"line", "line cr", "name"} -> IF c = ":" THEN RefNameEnds(r) ELSE RefName(r, c)
      [] r.in \in {"gap", "value"} /\ c \in Line -> RefFieldEnds(r, c)
      [] r.in = "gap" /\ c \in Space -> r
      [] r.in \in {"gap", "value"} -> RefValue(r, c)
      [] r.in = "size start" -> [to("size") EXCEPT !.odd = @ \/ c \notin {"0"} \cup HexLetter]
      [] r.in = "size" /\ c = "lf" -> to("size start")
      [] OTHER -> r

RespBegins(r, c) ==
    CASE r.in = "start" -> {"version"}
      [] r.in = "status start" -> {"status"}
      [] r.in = "reason start" -> {"reason"}
      [] r.in = "line" -> {"name"}
      [] r.in = "gap" /\ c \notin Space -> {"value"}
      [] r.in = "size start" -> {"size"}
      [] OTHER -> {}

\* The part, begun already, that is divided if execute() begins with c.
RespDivided(r, c) ==
    CASE r.in \in {"status", "value", "size"} -> {r.in}
      [] r.in = "name" -> IF c = ":" THEN {"value"} ELSE {"name"}
      [] r.in = "gap" -> {"value"}
      [] OTHER -> {}

-----------------------------------------------------------------------------
(* The actions of httpclient_parser.rl with the callbacks of               *)
(* http_parser.cc.  p is [mark, field, flen, rsp].                         *)

\* Mutant: a field without a name is not ignored.
SetRespHeaderAlways(p) ==
    IF href.kinds \cap {"length", "not length"} # {} /\ "value" \in p.mark
    THEN [p EXCEPT !.rsp.length = IF "length" \in href.kinds THEN "number" ELSE "no number"]
    ELSE p

\* write_value and on_response_http_field.  Of the fields only Content-Length is
\* kept; a name without its front is another name.
SetRespHeader(p) ==
    IF p.flen /\ "name" \in p.field /\ href.kinds \cap {"length", "not length"} # {}
    THEN [p EXCEPT !.rsp.length = IF "length" \in href.kinds THEN "number" ELSE "no number"]
    ELSE p

RespAction(p, a, here, first) ==
    CASE a \in {"mark", "start_value"} -> [p EXCEPT !.mark = here]
      [] a = "start_field" -> [p EXCEPT !.field = here]
      [] a = "write_field" -> [p EXCEPT !.flen = ~first]
      [] a = "write_value" -> SetRespHeader(p)
      [] a = "status_code" -> [p EXCEPT !.rsp.status = p.mark]
      [] a = "chunk_size" -> [p EXCEPT !.rsp.chunked = TRUE, !.rsp.size = p.mark]
      [] a = "trans_chunked" -> [p EXCEPT !.rsp.chunked = TRUE]
      [] OTHER -> p      \* http_version: see RespChar; what it leaves: see rsp

\* At most four actions, in order.
RespActions(p, as, here, first) ==
    LET one(q, i) == IF i > Len(as) THEN q ELSE RespAction(q, as[i], here, first)
    IN  one(one(one(one(p, 1), 2), 3), 4)

-----------------------------------------------------------------------------
NoSize == {"-1"}

ResponseInit ==
    /\ hcs = ResponseStart
    /\ hmark = {} /\ hfield = {} /\ hflen = FALSE
    /\ hfirst = TRUE /\ hreads = 1
    /\ rsp = [status |-> {}, length |-> "none", chunked |-> FALSE,
              size |-> NoSize]
    /\ hret = "header"
    /\ href = RespRefStart

\* execute(data, len, chunk) calls httpclient_parser_init first for a chunk's
\* header.
StateOf == IF hfirst /\ hret = "chunk" THEN ResponseStart ELSE hcs

Execute(here) ==
    [mark |-> IF hfirst THEN here ELSE hmark, field |-> IF hfirst THEN here ELSE hfield,
     flen |-> hflen /\ ~hfirst,
     rsp |-> IF hfirst /\ hret = "chunk"
             THEN [rsp EXCEPT !.chunked = FALSE, !.size = NoSize] ELSE rsp]

\* is_finished, after the header and after the header of a chunk.
Finished(r) ==
    CASE hret = "header" /\ r.chunked -> "chunk"
      [] hret = "header" /\ ~r.chunked -> IF r.length = "number" THEN "body" ELSE "response"
      [] hret = "chunk" -> "data"

\* One character.  A version other than 1.0 and 1.1, or the tail of one, is an
\* error.  done ends execute(), although the states 121, 122 and 123 are final
\* and is_finished is false there.
RespChar(c) ==
    LET next == ResponseTable[StateOf][c]
        here == RespBegins(href, c)
        p == RespActions(Execute(here), next.do, here, hfirst)
        does(a) == \E i \in DOMAIN next.do : next.do[i] = a
    IN  /\ hret \in {"header", "chunk"} /\ next.cs # ErrorState
        /\ hcs' = next.cs
        /\ hmark' = p.mark /\ hfield' = p.field /\ hflen' = p.flen /\ rsp' = p.rsp
        /\ hret' \in CASE next.cs = ResponseFirstFinal -> {Finished(p.rsp)}
                       [] does("http_version") /\ ~hfirst /\ "version" \notin p.mark -> {"nullptr"}
                       [] does("http_version") /\ ~hfirst -> {hret, "nullptr"}
                       [] OTHER -> {hret}
        /\ href' = RespRefNext([href EXCEPT !.cut = @ \cup IF hfirst THEN RespDivided(href, c)
                                                           ELSE {}], c)
        /\ hfirst' = does("done")
        /\ UNCHANGED hreads

\* A character that the automaton has no arc for: hasError(), close().
RespError ==
    /\ hret \in {"header", "chunk"}
    /\ {c \in ResponseChars : ResponseTable[StateOf][c].cs = ErrorState} # {}
    /\ hcs' = ErrorState
    /\ hret' = "nullptr"
    /\ UNCHANGED <<hmark, hfield, hflen, hfirst, hreads, rsp, href>>

\* What was read is used up, and read() returns more.
ReadMore ==
    /\ hret \in {"header", "chunk"} /\ ~hfirst /\ hreads < MaxReads
    /\ hfirst' = TRUE /\ hreads' = hreads + 1
    /\ UNCHANGED <<hcs, hmark, hfield, hflen, rsp, hret, href>>

\* read() returns 0 or -1, wherever it is called: close().
ReadFailed ==
    /\ hret \in {"data", "body"} \/ (hret \in {"header", "chunk"} /\ hfirst)
    /\ hret' = "nullptr"
    /\ UNCHANGED <<hcs, hmark, hfield, hflen, hfirst, hreads, rsp, href>>

IntMax == 2^(IntBits - 1) - 1

\* n as it is read back from a signed type.
Signed(n, bits) == ((n + 2^(bits - 1)) % 2^bits) - 2^(bits - 1)

\* action chunk_size: what strtol makes of the digits of n, LONG_MAX at most,
\* stored in an int.
ContentLen(n) ==
    LET most == 2^(LongBits - 1) - 1
    IN  Signed(IF n < most THEN n ELSE most, IntBits)

\* A chunk of n bytes, read with content_len = k.  k + 2 may overflow; append()
\* throws for a negative k, but for -1 with an empty buffer, where the last two
\* bytes of the body are dropped; any other wrong k leaves the client out of step
\* with the server.  After the chunk two bytes are skipped, and a k of 0 ends the
\* body: of a trailer the rest stays in the stream.
ChunkEnds(n, k, trailer) ==
    CASE k + 2 > IntMax -> {"undefined"}
      [] k < -1 -> {"throws"}
      [] k = -1 -> {"throws", "out of step"}
      [] k # n \/ trailer -> {"out of step"}
      [] OTHER -> {IF k = 0 THEN "response" ELSE "chunk"}

\* The bytes of a chunk and its CRLF, from the buffer and from read(): m are the
\* digits that the parser has of the n that was sent.
ChunkData ==
    /\ hret = "data"
    /\ \E n, m \in Sizes, trailer \in BOOLEAN :
          /\ "size" \in rsp.size => m = n
          /\ trailer => n = 0
          /\ hret' \in ChunkEnds(n, ContentLen(m), trailer)
          /\ href' = [href EXCEPT !.size = n, !.trailer = trailer,
                                  !.cut = IF hret' = "chunk" THEN @ \ {"size"} ELSE @]
    /\ UNCHANGED <<hcs, hmark, hfield, hflen, hfirst, hreads, rsp>>

\* getContentLength: lexical_cast gives 0 for what is no uint64_t, and its result
\* is stored in an int64_t.
LengthOf(n) == IF n < 2^LongBits THEN Signed(n, LongBits) ELSE 0

\* Content-Length bytes, from the buffer and by readFixSize.  resize() throws if
\* there are too many; readFixSize returns their number as an int, which may look
\* like a failure.  If length is not positive the body stays in the stream.
BodyEnds(n, length) ==
    CASE length > Memory -> {"throws"}
      [] length <= 0 -> {IF n = 0 THEN "response" ELSE "out of step"}
      [] length > IntMax -> {"response", "nullptr"}
      [] OTHER -> {"response"}

ResponseBody ==
    /\ hret = "body"
    /\ \E n \in Sizes :
          /\ hret' \in BodyEnds(n, LengthOf(n))
          /\ href' = [href EXCEPT !.size = n]
    /\ UNCHANGED <<hcs, hmark, hfield, hflen, hfirst, hreads, rsp>>

ResponseNext ==
    \/ RespError \/ ReadMore \/ ReadFailed \/ ChunkData \/ ResponseBody
    \/ \E c \in ResponseChars : RespChar(c)

ResponseSpec == ResponseInit /\ [][ResponseNext]_responseVars

-----------------------------------------------------------------------------
(* Properties.                                                             *)

\* recvResponse takes the body's framing from the response as the server sent
\* it: the header ends at the empty line, chunks follow exactly if
\* Transfer-Encoding says so, and the length is that of the last Content-Length
\* that no read ended inside of (such a field is lost, and the body stays in the
\* stream).  The body ends where the server ended it, unless a read ended inside
\* the header of the chunk, the chunk's size and the CRLF do not fit an int, the
\* last chunk is followed by a trailer, or the length is no positive int64_t.
\* recvResponse throws only for such a chunk, or for more memory than there is.
ResponseFramed ==
    ~href.odd =>
        /\ hret \notin {"header", "nullptr"} => href.in \in {"size start", "size"}
        /\ href.in = "size start" => hret # "header"
        /\ hret \in {"chunk", "data"} => href.chunked
        /\ hret = "body" => ~href.chunked
        /\ hret \in {"chunk", "body", "response"} =>
             /\ ("status" \in rsp.status) = ("status" \notin href.cut)
             /\ rsp.length = href.length
        /\ hret = "data" => ("size" \in rsp.size) = ("size" \notin href.cut)
        /\ hret = "out of step" =>
             IF href.chunked
             THEN "size" \in href.cut \/ href.size > IntMax \/ href.trailer
             ELSE href.size >= 2^(LongBits - 1)
        /\ hret = "throws" =>
             IF href.chunked
             THEN "size" \in href.cut \/ href.size > IntMax
             ELSE href.size > Memory
        /\ hret = "undefined" =>
             href.chunked /\ ("size" \in href.cut \/ href.size + 2 > IntMax)

=============================================================================

----------------------------- MODULE HttpSession -----------------------------
(***************************************************************************)
(* HttpSession::recvRequest: what read() returns is handed to the request  *)
(* parser (http_parser.cc, http11_parser.rl) piece by piece, until the     *)
(* header is complete; then the body is read.                              *)
(*                                                                         *)
(* execute() keeps the state of the automaton between two pieces, but sets *)
(* mark, field_start and field_len to 0 and leaves query_start alone,      *)
(* although the bytes before are gone.  A pointer into the piece is        *)
(* modelled by the parts of the request that begin at the place it points  *)
(* to; a reference that splits the request at its delimiters knows them.   *)
(***************************************************************************)
EXTENDS RequestMachine

CONSTANT MaxPieces    \* bound: read() returns the header in at most so many pieces

ASSUME MaxPiecesAssumption == MaxPieces \in Nat \ {0}

VARIABLES
    rcs,        \* parser->cs
    rrelaxed,   \* parser->uri_relaxed, which nothing initialises
    rmark, rfield, rquery,   \* the pointers mark, field_start, query_start
    rflen,      \* parser->field_len # 0
    rfirst,     \* is the next character the first one of its piece?
    rpieces,    \* how many pieces read() has returned
    req,        \* the HttpRequest: what each part begins with, and the version
    rhead,      \* the last header field: what name and value begin with
    rret,       \* "reading", "body", or how recvRequest ends; "throws" is an
                \* exception from execute(), "body throws" one from resize()
    rref        \* the reference

requestVars ==
    <<rcs, rrelaxed, rmark, rfield, rquery, rflen, rfirst, rpieces, req, rhead, rret, rref>>

ReqParts == {"method", "path", "query", "fragment"}
NotSet == {"not-set"}
Stale == {"stale"}      \* an offset into a piece that is gone

-----------------------------------------------------------------------------
(* The reference: the part c belongs to, given the part before it.         *)

\* in: the part being read; cut: the parts that a piece's end has divided;
\* field: those of the last header field.
ReqRefStart == [in |-> "start", scheme |-> FALSE, cut |-> {}, version |-> "none",
                field |-> {"none-yet"}, good |-> TRUE]

\* The part that begins at the place of c.
BeginsAt(r, c) ==
    CASE r.in = "start" -> {"method"}
      [] r.in \in {"uri", "hier"} -> {"path"}
      [] r.in = "query-start" -> {"query"}
      [] r.in = "fragment-start" -> {"fragment"}
      [] r.in = "version-start" -> {"version"}
      [] r.in = "line" -> {"name"}
      [] r.in = "gap" /\ c \notin {"ht", "sp"} -> {"value"}
      [] OTHER -> {}

\* The part, begun already, that is divided if a piece begins with c.
Divided(r, c) ==
    CASE r.in \in ReqParts \cup {"version"} -> {r.in}
      [] r.in = "name" -> IF c = ":" THEN {"value"} ELSE {"name"}
      [] r.in \in {"gap", "value"} -> {"value"}
      [] OTHER -> {}

SchemeChars == Letter \cup ReqDigit \cup {"+", "-", "."}

Target == {"uri", "hier", "path", "query-start", "query", "fragment-start", "fragment"}

EndLine(r, c) == [r EXCEPT !.in = IF c = "cr" THEN "line-end" ELSE "line"]

EndField(r, c) == [EndLine(r, c) EXCEPT !.field = r.cut \cap {"name", "value"},
                                        !.cut = r.cut \ {"name", "value"}]

\* In the request's target: a path is that of an absolute URI's scheme until
\* the first character that no scheme has.
TargetNext(r, c) ==
    IF c = "sp" THEN [r EXCEPT !.in = "version-start"]
    ELSE IF c = "#" /\ r.in \notin {"fragment-start", "fragment"}
      THEN [r EXCEPT !.in = "fragment-start"]
    ELSE IF c = "?" /\ r.in \in {"uri", "hier", "path"} THEN [r EXCEPT !.in = "query-start"]
    ELSE CASE r.in = "uri" -> [r EXCEPT !.in = "path", !.scheme = c \in Letter]
           [] r.in \in {"hier", "path"} ->
                IF r.in = "path" /\ r.scheme /\ c = ":"
                THEN [r EXCEPT !.in = "hier", !.scheme = FALSE, !.cut = r.cut \ {"path"}]
                ELSE [r EXCEPT !.in = "path", !.scheme = r.scheme /\ c \in SchemeChars]
           [] r.in \in {"query-start", "query"} -> [r EXCEPT !.in = "query"]
           [] r.in \in {"fragment-start", "fragment"} -> [r EXCEPT !.in = "fragment"]

\* A field's name, or the empty line; no field's name has a CR or LF.
NameNext(r, c) ==
    IF c = "cr" /\ r.in = "line" THEN [r EXCEPT !.in = "line-cr"]
    ELSE IF c = "lf" /\ r.in # "name" THEN [r EXCEPT !.in = "end"]
    ELSE [r EXCEPT !.in = IF c = ":" THEN "gap" ELSE "name",
                   !.good = r.good /\ r.in # "line-cr" /\ c \notin {"cr", "lf"}]

RequestRefNext(r, c) ==
    CASE r.in = "start" ->
           [r EXCEPT !.in = IF c \in {"<", "@"} THEN "socket"
                            ELSE IF c = "sp" THEN "uri" ELSE "method"]
      [] r.in = "method" -> [r EXCEPT !.in = IF c = "sp" THEN "uri" ELSE "method"]
      [] r.in \in Target -> TargetNext(r, c)
      [] r.in \in {"version-start", "version"} ->
           IF c \in {"cr", "lf"} THEN EndLine(r, c)
           ELSE [r EXCEPT !.in = "version", !.version = c]
      [] r.in = "line-end" -> [r EXCEPT !.in = "line"]
      [] r.in \in {"line", "line-cr", "name"} -> NameNext(r, c)
      [] r.in \in {"gap", "value"} ->
           IF c \in {"cr", "lf"} THEN EndField(r, c)
           ELSE IF c \in {"ht", "sp"} THEN r ELSE [r EXCEPT !.in = "value"]
      [] OTHER -> r

-----------------------------------------------------------------------------
(* The actions of http11_parser.rl with the callbacks of http_parser.cc.   *)
(* p is [mark, field, query, flen, req, head, out]; here is what begins at *)
(* the character, first whether its piece does.                            *)

\* on_request_version: strncmp with the length of what was found; with length 0
\* everything is HTTP/1.1, and a tail of the version is none.
SetVersion(p, first) ==
    CASE first -> [p EXCEPT !.req.version = "1"]
      [] ~first /\ "version" \in p.mark -> [p EXCEPT !.req.version = rref.version]
      [] OTHER -> [p EXCEPT !.out = "nullptr"]

\* Mutant: a field without a name is not ignored.
SetHeaderAlways(p) == [p EXCEPT !.head = [set |-> TRUE, name |-> p.field, value |-> p.mark]]

\* write_value and on_request_http_field: without a name the field is ignored.
SetHeader(p) ==
    [p EXCEPT !.head = IF p.flen THEN [set |-> TRUE, name |-> p.field, value |-> p.mark]
                       ELSE [set |-> FALSE, name |-> {}, value |-> {}]]

ReqAction(p, a, here, first) ==
    CASE a \in {"mark", "start_value"} -> [p EXCEPT !.mark = here]
      [] a = "start_field" -> [p EXCEPT !.field = here]
      [] a = "write_field" -> [p EXCEPT !.flen = ~first]
      [] a = "write_value" -> SetHeader(p)
      [] a = "start_query" -> [p EXCEPT !.query = here]
      [] a = "request_method" -> [p EXCEPT !.req.method = p.mark]
      [] a = "request_path" -> [p EXCEPT !.req.path = p.mark]
      [] a = "fragment" -> [p EXCEPT !.req.fragment = p.mark]
      [] a = "query_string" -> [p EXCEPT !.req.query = p.query]
      [] a = "http_version" -> SetVersion(p, first)
      [] a = "done" -> [p EXCEPT !.out = "body"]
      [] OTHER -> p             \* request_uri, xml, json

\* At most four actions, in order.
ReqActions(p, as, here, first) ==
    LET one(q, i) == IF i > Len(as) THEN q ELSE ReqAction(q, as[i], here, first)
    IN  one(one(one(one(p, 1), 2), 3), 4)

-----------------------------------------------------------------------------
RequestInit ==
    /\ rcs = RequestStart /\ rrelaxed \in BOOLEAN
    /\ rmark = {} /\ rfield = {} /\ rquery = Stale /\ rflen = FALSE
    /\ rfirst = TRUE /\ rpieces = 1
    /\ req = [part \in ReqParts \cup {"version"} |->
                 IF part = "version" THEN "unset" ELSE NotSet]
    /\ rhead = [set |-> FALSE, name |-> {}, value |-> {}]
    /\ rret = "reading"
    /\ rref = ReqRefStart

\* Mutant: the pointers of the piece before are kept.
PieceKeeps(here) ==
    [mark |-> rmark, field |-> rfield, query |-> rquery, flen |-> rflen,
     req |-> req, head |-> rhead, out |-> "reading"]

\* What the parser knows when it gets to a character: execute() has reset it at
\* the first one of a piece.
Piece(here) ==
    [mark |-> IF rfirst THEN here ELSE rmark, field |-> IF rfirst THEN here ELSE rfield,
     query |-> IF rfirst THEN Stale ELSE rquery, flen |-> rflen /\ ~rfirst,
     req |-> req, head |-> rhead, out |-> "reading"]

\* One character.  An unknown method, or the tail of one, may make the callback
\* set an error; a query that begins in a piece before has a length that may be
\* negative, for which std::string throws.
RequestChar(c) ==
    LET next == RequestAfter(rcs, c, rrelaxed)
        here == BeginsAt(rref, c)
        p == ReqActions(Piece(here), next.do, here, rfirst)
        does(a) == \E i \in DOMAIN next.do : next.do[i] = a
    IN  /\ rret = "reading" /\ next.cs # ErrorState
        /\ rcs' = next.cs
        /\ rmark' = p.mark /\ rfield' = p.field /\ rquery' = p.query /\ rflen' = p.flen
        /\ req' = p.req /\ rhead' = p.head
        /\ rret' \in {p.out} \cup (IF does("request_method") THEN {"nullptr"} ELSE {})
                       \cup (IF does("query_string") /\ p.query = Stale THEN {"throws"} ELSE {})
        /\ rref' = RequestRefNext([rref EXCEPT !.cut = @ \cup IF rfirst THEN Divided(rref, c)
                                                              ELSE {}], c)
        /\ rfirst' = FALSE
        /\ UNCHANGED <<rrelaxed, rpieces>>

\* A character that the automaton has no arc for: hasError(), close().
RequestError ==
    /\ rret = "reading"
    /\ {c \in RequestChars : RequestAfter(rcs, c, rrelaxed).cs = ErrorState} # {}
    /\ rcs' = ErrorState
    /\ rret' = "nullptr"
    /\ UNCHANGED <<rrelaxed, rmark, rfield, rquery, rflen, rfirst, rpieces, req, rhead, rref>>

\* The piece ends, and read() returns another one, or nothing (then close()).
PieceEnds ==
    /\ rret = "reading" /\ ~rfirst /\ rpieces < MaxPieces
    /\ rfirst' = TRUE /\ rpieces' = rpieces + 1
    /\ UNCHANGED <<rcs, rrelaxed, rmark, rfield, rquery, rflen, req, rhead, rret, rref>>

ReadFails ==
    /\ rret = "reading" /\ rfirst
    /\ rret' = "nullptr"
    /\ UNCHANGED <<rcs, rrelaxed, rmark, rfield, rquery, rflen, rfirst, rpieces, req, rhead, rref>>

\* The body: what is left of the piece, and readFixSize for the rest.  The length
\* is what the client says: resize() throws if it is more than a string can hold
\* or the memory has, readFixSize returns it as an int, which may look like a
\* failure, and one that is no positive int64_t leaves the body in the stream.
ReadBody ==
    /\ rret = "body"
    /\ rret' \in {"request", "nullptr", "body throws"}
    /\ UNCHANGED <<rcs, rrelaxed, rmark, rfield, rquery, rflen, rfirst, rpieces, req, rhead, rref>>

RequestNext ==
    \/ RequestError \/ PieceEnds \/ ReadFails \/ ReadBody
    \/ \E c \in RequestChars : RequestChar(c)

RequestSpec == RequestInit /\ [][RequestNext]_requestVars

-----------------------------------------------------------------------------
(* Properties.                                                             *)

\* The request handed to the servlets has the parts the client sent: a part no
\* piece's end divides is there from its first character on, and one that was
\* divided is not.  The parser throws only for a query that was divided; the
\* other exception of recvRequest comes after the header, from the body's resize.
\* A version cut off entirely counts as HTTP/1.1.
RequestPartsRight ==
    /\ rret \in {"body", "request"} /\ rref.in # "socket" =>
         /\ \A part \in ReqParts : req[part] # NotSet =>
               (part \in req[part]) = (part \notin rref.cut)
         /\ req.method # NotSet /\ req.path # NotSet
         /\ "version" \notin rref.cut => req.version = rref.version
         /\ "version" \in rref.cut => req.version = "1"
    /\ rret = "throws" => "query" \in rref.cut

\* A header field is handed over whole, unless a piece ended inside it: then it
\* is lost, or, if that was inside its name and nowhere else, has the tail of
\* the name.  The header ends at the empty line, and only there.
HeadersRight ==
    /\ rret # "nullptr" /\ rref.good =>
         CASE rref.field = {} -> rhead.set /\ "name" \in rhead.name /\ "value" \in rhead.value
           [] rref.field = {"name"} ->
                rhead.set /\ "name" \notin rhead.name /\ "value" \in rhead.value
           [] OTHER -> ~rhead.set
    /\ rret = "body" /\ rref.in # "socket" => rref.in = "end"
    /\ rref.in = "end" /\ rref.good => rret # "reading"

-----------------------------------------------------------------------------
(* The inductive invariant behind them.                                    *)

\* What a state of the automaton reads; "scheme" is a path that may still turn
\* out to be the scheme of an absolute URI.
Region(s) ==
    CASE s = 1 -> "start"
      [] s = 2 \/ s \in 175..193 -> "method"
      [] s = 3 -> "uri"
      [] s = 173 -> "scheme"
      [] s = 174 -> "hier"
      [] s = 19 \/ s \in 24..28 \/ s \in 33..172 -> "path"
      [] s = 29 -> "query-start"
      [] s \in 30..32 -> "query"
      [] s = 20 -> "fragment-start"
      [] s \in 21..23 -> "fragment"
      [] s = 4 -> "version-start"
      [] s \in 5..12 -> "version"
      [] s = 13 -> "line"
      [] s = 14 -> "name"
      [] s = 15 -> "gap"
      [] s = 16 -> "value"
      [] s = 17 -> "line-end"
      [] s = 18 -> "line-cr"
      [] s = 348 -> "end"
      [] s \in 194..347 \/ s = 349 -> "socket"
      [] OTHER -> "none"

\* Automaton and reference are at the same place.
InStep ==
    /\ rcs \in 1..349
    /\ rref.in = IF Region(rcs) = "scheme" THEN "path" ELSE Region(rcs)
    /\ rref.in \in {"path", "hier"} => rref.scheme = (Region(rcs) = "scheme")
    /\ rref.in # "end"

\* The parts of the request line that have not begun.
NotBegun(in) ==
    CASE in = "start" -> ReqParts \cup {"version"}
      [] in \in {"method", "uri", "hier"} -> {"path", "query", "fragment", "version"}
      [] in \in {"path", "query-start"} -> {"query", "fragment", "version"}
      [] in \in {"query", "fragment-start"} -> {"fragment", "version"}
      [] in \in {"fragment", "version-start"} -> {"version"}
      [] OTHER -> {}

HeaderLines == {"line", "line-cr", "line-end", "name", "gap", "value", "end"}

\* The request line: the pointer of the part being read is at its beginning
\* unless a piece's end has divided the part, and the parts read are as they are.
PartsInv ==
    /\ rref.cut \cap NotBegun(rref.in) = {}
    /\ \A part \in ReqParts :
          IF part \in NotBegun(rref.in) \cup {rref.in} THEN req[part] = NotSet
          ELSE req[part] # NotSet => (part \in req[part]) = (part \notin rref.cut)
    /\ rref.in \notin {"start", "method"} => req.method # NotSet
    /\ rref.in \notin {"start", "method", "uri", "hier", "path"} => req.path # NotSet
    /\ ~rfirst =>
         /\ rref.in \in {"method", "path", "fragment", "version"} =>
               (rref.in \in rmark) = (rref.in \notin rref.cut)
         /\ rref.in = "query" => ("query" \in rquery) = ("query" \notin rref.cut)
    /\ rref.in \in HeaderLines =>
         req.version = IF "version" \in rref.cut THEN "1" ELSE rref.version

\* The header fields: likewise, where field_len is not 0 if no piece has ended
\* after the field's name.
FieldInv ==
    /\ rref.in \notin {"name", "gap", "value"} => rref.cut \cap {"name", "value"} = {}
    /\ rref.in = "name" => "value" \notin rref.cut
    /\ ~rfirst =>
         /\ rref.in = "name" => ("name" \in rfield) = ("name" \notin rref.cut)
         /\ rref.in \in {"gap", "value"} =>
               /\ rflen = ("value" \notin rref.cut)
               /\ rflen => ("name" \in rfield) = ("name" \notin rref.cut)
         /\ rref.in = "value" /\ rflen => "value" \in rmark

\* The last field is what the reference says of it.
FieldRight ==
    CASE rref.field = {} -> rhead.set /\ "name" \in rhead.name /\ "value" \in rhead.value
      [] rref.field = {"name"} -> rhead.set /\ "name" \notin rhead.name /\ "value" \in rhead.value
      [] OTHER -> ~rhead.set

RequestTypes ==
    /\ rflen \in BOOLEAN /\ rfirst \in BOOLEAN /\ NotSet \notin {rmark, rquery}
    /\ req = [part \in ReqParts \cup {"version"} |-> req[part]]
    /\ rref = [in |-> rref.in, scheme |-> rref.scheme, cut |-> rref.cut,
               version |-> rref.version, field |-> rref.field, good |-> rref.good]
    /\ rref.good \in BOOLEAN

RequestInv ==
    /\ RequestTypes
    /\ rret = "reading" =>
         /\ InStep
         /\ rref.in # "socket" => PartsInv
         /\ rref.in # "socket" /\ rref.good => FieldInv
    /\ rref.good => FieldRight
    /\ RequestPartsRight /\ HeadersRight

=============================================================================

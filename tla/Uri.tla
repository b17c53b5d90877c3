-------------------------------- MODULE Uri ---------------------------------
(***************************************************************************)
(* Uri::Create of uri.rl: the automaton reads a string to its end or to an *)
(* error; actions keep a pointer `mark` into the string and save the parts *)
(* of the URI.  A pointer is modelled by the set of parts that begin at    *)
(* the place it points to, which a reference, next to the automaton and    *)
(* independent of it, knows: the reference splits the string at its        *)
(* delimiters, as the regular expression of RFC 3986, appendix B, does.    *)
(***************************************************************************)
EXTENDS UriMachine

VARIABLES
    ucs,      \* cs, the state of the automaton
    umark,    \* mark: the parts that begin where it points to, or Null
    uri,      \* the Uri: what each saved part begins with, or Unset
    ureturn,  \* "parsing", or what Create does: "uri", "nullptr", "throws"
    uref      \* the reference

uriVars == <<ucs, umark, uri, ureturn, uref>>

Null == {"NULL"}
Unset == {"unset"}
UriParts == {"scheme", "userinfo", "host", "port", "path", "query", "fragment"}

-----------------------------------------------------------------------------
(* The reference.                                                          *)

\* A group of hexadecimal digits and colons between "[" and "]": groups before
\* and after "::", digits of the last group, the last character; odd where it
\* is no such group, dead where no IPv6 address begins like that.
OpenLiteral == [pre |-> 0, post |-> 0, dbl |-> FALSE, len |-> 0, last |-> "[",
                odd |-> FALSE, dead |-> FALSE]

LiteralNext(l, c) ==
    CASE l.odd \/ c \notin Xdigit \cup {":"} -> [OpenLiteral EXCEPT !.odd = TRUE]
      [] c \in Xdigit ->
           [l EXCEPT !.len = @ + 1, !.last = "x",
                     !.dead = @ \/ l.len = 4 \/ (l.last = ":" /\ l.pre = 0 /\ ~l.dbl)]
      [] c = ":" /\ l.last = ":" ->
           [l EXCEPT !.dbl = TRUE, !.last = "::", !.dead = @ \/ l.dbl]
      [] c = ":" /\ l.last = "::" -> [l EXCEPT !.dead = TRUE]
      [] c = ":" /\ l.last \in {"[", "x"} ->
           [l EXCEPT !.last = ":", !.len = 0,
                     !.pre = @ + IF l.len > 0 /\ ~l.dbl THEN 1 ELSE 0,
                     !.post = @ + IF l.len > 0 /\ l.dbl THEN 1 ELSE 0]

Groups(l) == l.pre + l.post + IF l.len > 0 THEN 1 ELSE 0

\* Eight groups; or "::" for one or more of them, of which uri.rl allows any
\* number at the beginning and exactly one elsewhere.
IsIPv6(l) ==
    /\ ~l.dead
    /\ \/ ~l.dbl /\ l.last = "x" /\ Groups(l) = 8
       \/ l.dbl /\ l.last # ":" /\ (Groups(l) = 7 \/ (l.pre = 0 /\ Groups(l) <= 7))

BeginsIPv6(l) ==
    /\ ~l.dead
    /\ CASE l.dbl -> Groups(l) <= IF l.last = ":" THEN 6 ELSE 7
         [] ~l.dbl -> Groups(l) <= IF l.last = ":" THEN 7 ELSE 8

\* in: the component being read; begins: the part that begins at the next
\* character; port: what follows the first ":" of the authority or of the host.
RefStart == [in |-> "start", begins |-> "scheme", scheme |-> FALSE,
             authority |-> FALSE, user |-> "none", port |-> "none",
             bracket |-> FALSE, lit |-> OpenLiteral, query |-> FALSE, fragment |-> FALSE]

Enter(r, part, begins) == [r EXCEPT !.in = part, !.begins = begins]

InAuthority(r, c) ==
    CASE r.bracket /\ c = "]" -> [Enter(r, "authority", "") EXCEPT !.bracket = FALSE,
                                                                  !.lit = OpenLiteral]
      [] r.bracket -> [Enter(r, "authority", "") EXCEPT !.lit = LiteralNext(@, c)]
      [] c = "[" /\ r.begins \in {"authority", "host"} ->
           [Enter(r, "authority", "") EXCEPT !.bracket = TRUE]
      [] c = "@" -> [Enter(r, "authority", "host") EXCEPT
                        !.user = IF r.port = "digits" THEN "cut" ELSE "whole",
                        !.port = "none"]
      [] c = ":" /\ r.port = "none" ->
           [Enter(r, "authority", "port") EXCEPT !.port = "empty"]
      [] r.port = "empty" -> [Enter(r, "authority", "") EXCEPT
                                !.port = IF c \in Digit THEN "digits" ELSE "text"]
      [] OTHER -> Enter(r, "authority", "")

RefNext(r, c) ==
    CASE c = "#" /\ r.in # "fragment" ->
           [Enter(r, "fragment", "fragment") EXCEPT !.fragment = TRUE]
      [] c = "?" /\ r.in \notin {"query", "fragment"} ->
           [Enter(r, "query", "query") EXCEPT !.query = TRUE]
      [] r.in \in {"query", "fragment"} -> Enter(r, r.in, "")
      [] r.in = "first" /\ c = ":" -> [Enter(r, "hier", "") EXCEPT !.scheme = TRUE]
      [] r.in \in {"start", "hier"} /\ c = "/" -> Enter(r, "slash", "")
      [] r.in \in {"start", "first"} /\ c \notin {"/", ":"} -> Enter(r, "first", "")
      [] r.in = "slash" /\ c = "/" ->
           [Enter(r, "authority", "authority") EXCEPT !.authority = TRUE]
      [] r.in = "authority" /\ c # "/" -> InAuthority(r, c)
      [] OTHER -> Enter(r, "path", "")

\* The parts that begin at the place of c.
Here(r, c) ==
    ({r.begins} \ {""})
    \cup IF r.in = "authority" /\ c \in {"/", "?", "#", "eof"} THEN {"path"} ELSE {}

-----------------------------------------------------------------------------
(* The actions of uri.rl.  u is [mark, uri, throws]; p is a set of parts,  *)
(* as mark is.  std::string(NULL, n) throws.                               *)

Save(u, part) == [u EXCEPT !.uri[part] = u.mark, !.throws = @ \/ u.mark = Null]

\* Mutant: a mark that is set already is kept.
SetMarkOnce(u, p) == IF u.mark = Null THEN [u EXCEPT !.mark = p] ELSE u

SetMark(u, p) == [u EXCEPT !.mark = p]

ClearMark(u) == [u EXCEPT !.mark = Null]

SavePort(u, p) == ClearMark(IF u.mark # Null /\ u.mark \cap p # {} THEN u ELSE Save(u, "port"))

SaveUserinfo(u) == ClearMark(IF u.mark # Null THEN Save(u, "userinfo") ELSE u)

SaveHost(u) == IF u.mark # Null THEN Save(u, "host") ELSE u

SavePart(u, part) == ClearMark(Save(u, part))

UriAction(u, a, p) ==
    CASE a \in {"marku", "markh"} -> SetMark(u, p)
      [] a = "save_scheme" -> SavePart(u, "scheme")
      [] a = "save_port" -> SavePort(u, p)
      [] a = "save_userinfo" -> SaveUserinfo(u)
      [] a = "save_host" -> SaveHost(u)
      [] a = "save_path" -> SavePart(u, "path")
      [] a = "save_query" -> SavePart(u, "query")
      [] a = "save_fragment" -> SavePart(u, "fragment")

\* A list of at most three actions, in order; nothing is done after a throw.
UriActions(u, as, p) ==
    LET one(v, i) == IF i > Len(as) \/ v.throws THEN v ELSE UriAction(v, as[i], p)
    IN  one(one(one(u, 1), 2), 3)

-----------------------------------------------------------------------------
UriInit ==
    /\ ucs = UriStart
    /\ umark = Null
    /\ uri = [part \in UriParts |-> Unset]
    /\ ureturn = "parsing"
    /\ uref = RefStart

\* One character of the string.
ReadChar(c) ==
    LET next == UriTable[ucs][c]
        u == UriActions([mark |-> umark, uri |-> uri, throws |-> FALSE],
                        next.do, Here(uref, c))
    IN  /\ ureturn = "parsing"
        /\ ucs' = next.cs
        /\ umark' = u.mark
        /\ uri' = u.uri
        /\ uref' = RefNext(uref, c)
        /\ ureturn' = CASE u.throws -> "throws"
                        [] next.cs = ErrorState -> "nullptr"
                        [] OTHER -> "parsing"

\* The end of the string, at which Create returns.
EndOfString ==
    LET u == UriActions([mark |-> umark, uri |-> uri, throws |-> FALSE],
                        UriAtEof(ucs), Here(uref, "eof"))
    IN  /\ ureturn = "parsing"
        /\ umark' = u.mark
        /\ uri' = u.uri
        /\ ureturn' = CASE u.throws -> "throws"
                        [] ucs >= UriFirstFinal -> "uri"
                        [] OTHER -> "nullptr"
        /\ UNCHANGED <<ucs, uref>>

UriNext == EndOfString \/ \E c \in UriChars : ReadChar(c)

UriSpec == UriInit /\ [][UriNext]_uriVars

-----------------------------------------------------------------------------
(* Properties.                                                             *)

\* A part that was saved begins where the reference says.
Begins(part, where) == where \in uri[part]

\* What Create returns is what RFC 3986 splits the string into: each part is
\* there if the string has it, from its first character on.  Two parts are not:
\* a path without scheme and authority is never saved, and a userinfo whose
\* password begins with a digit begins at that digit, as the action for a port
\* moved the mark.  Create throws where a port after a scheme is empty, and
\* only there: save_port forgets the mark that save_path needs.
UriPartsRight ==
    /\ ureturn = "uri" =>
         /\ IF uref.scheme THEN Begins("scheme", "scheme") ELSE uri["scheme"] = Unset
         /\ CASE uref.user = "none" -> uri["userinfo"] = Unset
              [] uref.user = "whole" -> Begins("userinfo", "authority")
              [] uref.user = "cut" -> Begins("userinfo", "port")
         /\ CASE ~uref.authority -> uri["host"] = Unset
              [] uref.user = "none" -> Begins("host", "authority")
              [] OTHER -> Begins("host", "host")
         /\ IF uref.port = "digits" THEN Begins("port", "port") ELSE uri["port"] = Unset
         /\ IF uref.scheme /\ uref.authority THEN Begins("path", "path")
                                             ELSE uri["path"] = Unset
         /\ IF uref.query THEN Begins("query", "query") ELSE uri["query"] = Unset
         /\ IF uref.fragment THEN Begins("fragment", "fragment")
                             ELSE uri["fragment"] = Unset
         /\ ~(uref.scheme /\ uref.authority /\ uref.port = "empty")
    /\ ureturn = "throws" => uref.scheme /\ uref.authority /\ uref.port = "empty"

\* The 382 states that read "[...]" accept exactly the IPv6 addresses of the
\* grammar, and give up on a character exactly when no such address begins like
\* that.  (Literals with an IPv4 tail and IPvFuture are left out.)
IPv6Exact ==
    uref.in = "authority" /\ uref.bracket /\ ~uref.lit.odd =>
        /\ ureturn = "parsing" =>
             /\ BeginsIPv6(uref.lit)
             /\ (UriTable[ucs]["]"].cs # ErrorState) = IsIPv6(uref.lit)
        /\ ucs = ErrorState => ~BeginsIPv6(uref.lit)

=============================================================================

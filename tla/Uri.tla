-------------------------------- MODULE Uri --------------------------------
(***************************************************************************)
(* uri.cc and cookies.cc: the parts of a URI, query strings and cookies.   *)
(* A text is a sequence of bytes, and an absent part is empty, as in the   *)
(* code.  Numbers are those that fit: stoi's overflow, which makes a port  *)
(* 0, takes more digits than the instances have.                           *)
(***************************************************************************)
EXTENDS Integers, Sequences, SequencesExt, FiniteSetsExt

Space == 32
Hash == 35
Percent == 37
Ampersand == 38
Plus == 43
Slash == 47
Colon == 58
Semicolon == 59
Equals == 61
Question == 63
AtSign == 64
DigitBytes == 48 .. 57
Letters == 65 .. 90 \cup 97 .. 122
Unreserved == Letters \cup DigitBytes \cup {45, 46, 95, 126}

\* The first place from i on where s has a byte of S, or the end of s.
FirstFrom(s, i, S) ==
    Min({j \in i .. Len(s) : s[j] \in S} \cup {Len(s) + 1})

\* hextbl, and the digits that isHexString takes.
HexDigit(v) == IF v < 10 THEN 48 + v ELSE 55 + v
HexValue(c) == IF c \in DigitBytes THEN c - 48
               ELSE IF c <= 70 THEN c - 55 ELSE c - 87
HexChars == DigitBytes \cup 65 .. 70 \cup 97 .. 102

\* Mutant: a plus sign is left as it is.
EncodeByteNotPlus(c) ==
    IF c \in Unreserved \cup {Plus} THEN <<c>>
    ELSE <<Percent, HexDigit(c \div 16), HexDigit(c % 16)>>

EncodeByte(c) ==
    IF c \in Unreserved THEN <<c>>
    ELSE <<Percent, HexDigit(c \div 16), HexDigit(c % 16)>>

UrlEncode(s) == FlattenSeq([i \in DOMAIN s |-> EncodeByte(s[i])])

(***************************************************************************)
(* A percent sign with fewer than two bytes behind it makes the result     *)
(* empty; one with others than hexadecimal digits stands for itself.       *)
(***************************************************************************)
RECURSIVE DecodeFrom(_, _)
DecodeFrom(s, decoded) ==
    CASE s = << >> -> decoded
      [] s # << >> /\ s[1] = Plus ->
            DecodeFrom(Tail(s), Append(decoded, Space))
      [] s # << >> /\ s[1] = Percent ->
            IF Len(s) < 3 THEN << >>
            ELSE IF {s[2], s[3]} \subseteq HexChars
                 THEN DecodeFrom(SubSeq(s, 4, Len(s)),
                        Append(decoded, 16 * HexValue(s[2])
                                        + HexValue(s[3])))
                 ELSE DecodeFrom(Tail(s), Append(decoded, Percent))
      [] OTHER -> DecodeFrom(Tail(s), Append(decoded, s[1]))

UrlDecode(s) == DecodeFrom(s, << >>)

-----------------------------------------------------------------------------
(* URI::parseURI and URI::toString                                         *)

Number(s) == FoldLeft(LAMBDA n, c : 10 * n + c - 48, 0, s)

RECURSIVE Decimal(_)
Decimal(n) == IF n < 10 THEN <<48 + n>>
              ELSE Append(Decimal(n \div 10), 48 + (n % 10))

\* userinfo, host and port of an authority, which may be empty.
ParseAuthority(a) ==
    LET at == FirstFrom(a, 1, {AtSign})
        begin == IF at <= Len(a) THEN at + 1 ELSE 1
        colon == FirstFrom(a, begin, {Colon})
        digits == FirstFrom(a, colon + 1, 0 .. 255 \ DigitBytes)
    IN [userinfo |-> IF at <= Len(a) THEN SubSeq(a, 1, at - 1) ELSE << >>,
        host |-> SubSeq(a, begin, colon - 1),
        port |-> Number(SubSeq(a, colon + 1, digits - 1))]

\* Mutant: the authority ends only at a slash.
AuthorityEndSlash(s, begin) == FirstFrom(s, begin, {Slash})

AuthorityEnd(s, begin) == FirstFrom(s, begin, {Slash, Question, Hash})

ParseURI(s) ==
    LET n == Len(s)
        colon == FirstFrom(s, 1, {Slash, Colon})
        hasScheme == colon <= n /\ s[colon] = Colon
        scheme == IF hasScheme THEN SubSeq(s, 1, colon - 1) ELSE << >>
        afterScheme == IF hasScheme THEN colon + 1 ELSE 1
        hasAuthority == /\ afterScheme < n - 1
                        /\ s[afterScheme] = Slash
                        /\ s[afterScheme + 1] = Slash
        authority == afterScheme + 2
        path == IF hasAuthority THEN AuthorityEnd(s, authority)
                ELSE afterScheme
        pathEnd == FirstFrom(s, path, {Question, Hash})
        hasQuery == pathEnd <= n /\ s[pathEnd] = Question
        fragment == IF hasQuery THEN FirstFrom(s, pathEnd + 1, {Hash})
                    ELSE pathEnd
    IN ParseAuthority(IF hasAuthority THEN SubSeq(s, authority, path - 1)
                      ELSE << >>)
       @@ [scheme |-> scheme,
           path |-> SubSeq(s, path, pathEnd - 1),
           query |-> IF hasQuery THEN SubSeq(s, pathEnd + 1, fragment - 1)
                     ELSE << >>,
           fragment |-> SubSeq(s, fragment + 1, n)]

\* The text t behind the mark m, or nothing.
Marked(m, t) == IF t = << >> THEN << >> ELSE m \o t

UriToString(u) ==
    u.scheme \o <<Colon>>
    \o (IF u.host = << >> THEN << >>
        ELSE <<Slash, Slash>>
             \o (IF u.userinfo = << >> THEN << >>
                 ELSE Append(u.userinfo, AtSign))
             \o u.host
             \o (IF u.port > 0 THEN <<Colon>> \o Decimal(u.port)
                 ELSE << >>))
    \o u.path \o Marked(<<Question>>, u.query)
    \o Marked(<<Hash>>, u.fragment)

-----------------------------------------------------------------------------
(* Query strings and cookies: lists of <<key, value>>                      *)

(***************************************************************************)
(* A value ends at & or =.  A key that is empty, or that another & or the  *)
(* end follows, ends the list.                                             *)
(***************************************************************************)
RECURSIVE QueryFrom(_, _)
QueryFrom(q, params) ==
    LET eq == FirstFrom(q, 1, {Equals, Ampersand})
        end == FirstFrom(q, eq + 1, {Equals, Ampersand})
    IN IF 1 < eq /\ eq <= Len(q) /\ q[eq] = Equals
       THEN QueryFrom(SubSeq(q, end + 1, Len(q)),
                      Append(params,
                        <<UrlDecode(SubSeq(q, 1, eq - 1)),
                          UrlDecode(SubSeq(q, eq + 1, end - 1))>>))
       ELSE params

ParseQueryString(q) == QueryFrom(q, << >>)

Param(p) == UrlEncode(p[1]) \o <<Equals>> \o UrlEncode(p[2])

BuildQueryString(params) ==
    FlattenSeq([i \in DOMAIN params |->
                  (IF i > 1 THEN <<Ampersand>> ELSE << >>)
                  \o Param(params[i])])

\* getParam and getCookie: the value of the first pair with this key.
GetParam(params, key, default) ==
    LET at == {i \in DOMAIN params : params[i][1] = key}
    IN  IF at = {} THEN default ELSE params[Min(at)][2]

\* The blanks in front of a cookie are not a part of its name.
SkipSpaces(h) == SubSeq(h, FirstFrom(h, 1, 0 .. 255 \ {Space}), Len(h))

RECURSIVE CookiesFrom(_, _)
CookiesFrom(h, cookies) ==
    LET c == SkipSpaces(h)
        eq == FirstFrom(c, 1, {Equals})
        end == FirstFrom(c, eq + 1, {Semicolon})
    IN IF h = << >> THEN cookies
       ELSE CookiesFrom(SubSeq(c, end + 1, Len(c)),
                        Append(cookies,
                          <<UrlDecode(SubSeq(c, 1, eq - 1)),
                            UrlDecode(SubSeq(c, eq + 1, end - 1))>>))

ParseCookieHeader(h) == CookiesFrom(h, << >>)

\* mkCookie without attributes, as a client sends a cookie back.
MkCookie(key, value) == Param(<<key, value>>)

=============================================================================

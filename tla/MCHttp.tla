------------------------------- MODULE MCHttp -------------------------------
(* Small instances of HttpConnection.  The requests are one with a body,     *)
(* one of HTTP/1.0, and texts that are too long, too short or not HTTP.      *)
EXTENDS HttpConnectionInv

MCSymbol == STRING

Url == <<"u">>
Plain == [NoMessage EXCEPT !.uri = Url, !.version = Http11]
Old == [NoMessage EXCEPT !.uri = Url, !.version = Http10]
Insert == [Plain EXCEPT !.method = Post, !.body = <<"x", "y">>]
\* stoul takes the length for the largest there is, which the body never has.
Short ==
    [Insert EXCEPT !.headers =
        <<[key |-> kContentLengthHeader, val |-> <<MINUS, "1">>]>>]
Unversioned == [NoMessage EXCEPT !.uri = Url]
Garbled == [Plain EXCEPT !.method = <<"GE", "X">>]
Unnumbered ==
    [Insert EXCEPT !.headers =
        <<[key |-> kContentLengthHeader, val |-> <<"n">>]>>]

\* stoul stops at the letter.
Suffixed ==
    [Insert EXCEPT !.headers =
        <<[key |-> kContentLengthHeader, val |-> <<"2", "x">>]>>]

Whole(msg) == [msg |-> msg, extra |-> << >>]
Trailing(msg) == [msg |-> msg, extra |-> <<"z">>]

MCRequests(c) ==
    IF c \in Cut
    THEN {Whole(Old), Whole(Short), Whole(Unversioned),
          Whole(Garbled), Whole(Unnumbered), Whole(Suffixed),
          Trailing(Insert), Trailing(Plain)}
    ELSE {Whole(Insert)}

CONSTANTS a, b

\* Inserts are answered with a body, other requests without one.
MCAnswer(x) ==
    IF x.request.method = Post
    THEN [x.response EXCEPT !.status = 201, !.body = <<"o", "k">>]
    ELSE [x.response EXCEPT !.status = 200]
=============================================================================

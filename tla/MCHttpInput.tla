----------------------------- MODULE MCHttpInput -----------------------------
(***************************************************************************)
(* Messages for HttpInput: with and without a body, with bodies that look  *)
(* like the end of a line or like a request, with repeated headers, with   *)
(* lines the parser rejects, and with a length that is no number.          *)
(***************************************************************************)
EXTENDS HttpInput, Integers, TLC

MCRequestTexts == {" / HTTP/1.1", " /ping HTTP/1.0", " /a.txt HTTP/1.1"}
MCPathOf == [t \in MCRequestTexts |->
    CASE t = " / HTTP/1.1" -> "/" [] t = " /ping HTTP/1.0" -> "/ping" [] OTHER -> "/a.txt"]
MCVersionOf == [t \in MCRequestTexts |->
    IF t = " /ping HTTP/1.0" THEN "HTTP/1.0" ELSE "HTTP/1.1"]

MCNoLength == -1
MCLengthOf == ("Content-Length: 0" :> 0) @@ ("Content-Length: 2" :> 2)
              @@ ("Content-Length: x" :> MCNoLength)

Message(before, text, headers, body) ==
    [before |-> before, text |-> text, headers |-> headers, body |-> body]

MCMessages ==
    {Message(<<>>, " / HTTP/1.1", <<>>, <<>>),
     Message(<<>>, " / HTTP/1.1", <<"Connection: close", "Connection: keep-alive">>, <<>>),
     Message(<<>>, " /ping HTTP/1.0", <<"Content-Length: 2">>, <<"CR", "LF">>),
     Message(<<>>, " /a.txt HTTP/1.1",
             <<"Content-Length: 0", "Connection: close", "Content-Length: 2">>,
             <<"GET", " / HTTP/1.1">>),
     Message(<<<<>>>>, " /ping HTTP/1.0", <<"Host: here", " junk">>, <<>>),
     Message(<<<<"GET", " junk">>>>, " / HTTP/1.1", <<>>, <<>>),
     Message(<<<<"*">>>>, " / HTTP/1.1", <<>>, <<>>),
     Message(<<>>, " / HTTP/1.1", <<"Content-Length: x">>, <<>>)}
=============================================================================

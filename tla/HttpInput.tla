------------------------------ MODULE HttpInput ------------------------------
(***************************************************************************)
(* The input of one HTTP connection: the bytes the client writes reach     *)
(* handleRead in pieces cut anywhere, MultiProtocolDispatcher chooses the  *)
(* handler by the first of them, and HttpHandler::onMessage runs           *)
(* HttpContext's parser over the input buffer until it wants more.         *)
(*                                                                         *)
(* The bytes are symbols.  "CR" and "LF" are one byte each; "GET" is three *)
(* bytes, and each other symbol is text that begins with a byte of its own *)
(* kind: what follows "GET" in a request line, with the space between, a   *)
(* whole header line, or text with no meaning.  Lengths count symbols.  The *)
(* input buffer is a sequence (module Buffer shows that it is one).        *)
(***************************************************************************)
EXTENDS Naturals, Sequences, SequencesExt

CONSTANTS RequestTexts, \* what may follow "GET" in a request line
          PathOf, VersionOf,    \* functions on RequestTexts
          LengthTexts,  \* header lines "Content-Length: ..."
          NoLength,     \* what stoi throws for
          LengthOf,     \* function on LengthTexts, to Nat or NoLength
          CloseText, KeepText,  \* "Connection: close", "Connection: keep-alive"
          OtherHeader,  \* a header line the server does not look at
          Junk,         \* a space and a word: no header line, no end of a request line
          Files,        \* the paths that name a file of the server's directory
          Messages,     \* what the client writes
          MaxMessages   \* bound: how many of them

VARIABLES sent,         \* the messages written: [msg, end], end in bytes written
          wire,         \* bytes written and not yet read by the server
          arrived,      \* how many bytes the server has read
          buffer,       \* inputBuffer_
          handler,      \* TcpConnection::handler_
          state,        \* HttpContext::state_
          request,      \* HttpContext::request_
          responses,    \* appended to the output buffer
          pc,           \* where handleRead stands
          stalled       \* did onMessage last return because of an Error?

context == <<state, request>>
client == <<sent, wire>>
vars == <<sent, wire, arrived, buffer, handler, state, request, responses, pc, stalled>>

Headers == LengthTexts \cup {CloseText, KeepText, OtherHeader}
Texts == RequestTexts \cup Headers \cup {"GET", "*", Junk}
Symbols == Texts \cup {"CR", "LF"}
EndOfLine == <<"CR", "LF">>

NoRequest == [path |-> "", version |-> "", length |-> 0, connection |-> "", body |-> <<>>]

Init ==
    /\ sent = <<>> /\ wire = <<>> /\ arrived = 0
    /\ buffer = <<>> /\ handler = "none"
    /\ state = "RequestLine" /\ request = NoRequest
    /\ responses = <<>> /\ pc = "idle" /\ stalled = FALSE

-----------------------------------------------------------------------------
(* The client.  A message: lines the server rejects, a request line, lines  *)
(* of headers, rejected ones among them, and a body.                        *)
Line(text) == text \o EndOfLine

(* Of a sequence of texts, those after the first k. *)
After(texts, k) == FlattenSeq(SubSeq(texts, k + 1, Len(texts)))

(* A message from header line h + 1 on, and from rejected line j + 1 on. *)
FromHeader(m, h) ==
    After([i \in DOMAIN m.headers |-> Line(<<m.headers[i]>>)], h) \o (Line(<<>>) \o m.body)

FromLine(m, j) ==
    After([i \in DOMAIN m.before |-> Line(m.before[i])], j)
    \o (Line(<<"GET", m.text>>) \o FromHeader(m, 0))

Encoded(m) == FromLine(m, 0)

Send(m) ==
    /\ Len(sent) < MaxMessages
    /\ wire' = wire \o Encoded(m)
    /\ sent' = Append(sent, [msg |-> m, end |-> arrived + Len(wire) + Len(Encoded(m))])
    /\ UNCHANGED <<arrived, buffer, handler, context, responses, pc, stalled>>

-----------------------------------------------------------------------------
(* TcpConnection::handleRead and the dispatcher.                           *)

(* readFd takes what has arrived, however much that is. *)
Receive(n) ==
    /\ pc = "idle"
    /\ buffer' = buffer \o SubSeq(wire, 1, n)
    /\ wire' = SubSeq(wire, n + 1, Len(wire))
    /\ arrived' = arrived + n
    /\ pc' = "dispatch" /\ stalled' = FALSE
    /\ UNCHANGED <<sent, handler, context, responses>>

(* isHttp: four bytes, "GET " (or "POST", which is not told from it here). *)
IsHttp(b) == Len(b) >= 2 /\ b[1] = "GET" /\ b[2] \in RequestTexts \cup {Junk}
IsRedis(b) == b[1] = "*"

(* A mutant of Dispatch: the first bytes decide, be they four or fewer. *)
DispatchOnce ==
    /\ pc = "dispatch"
    /\ handler' = IF handler # "none" THEN handler
                  ELSE IF IsHttp(buffer) THEN "http" ELSE "redis"
    /\ pc' = IF handler' = "http" THEN "message" ELSE "idle"
    /\ UNCHANGED <<client, arrived, buffer, context, responses, stalled>>

(* The factory is asked again with every read until it knows; the Redis     *)
(* handler leaves its input alone.                                          *)
Dispatch ==
    /\ pc = "dispatch"
    /\ handler' = IF handler # "none" THEN handler
                  ELSE IF IsHttp(buffer) THEN "http"
                  ELSE IF IsRedis(buffer) THEN "redis" ELSE "none"
    /\ pc' = IF handler' = "http" THEN "message" ELSE "idle"
    /\ UNCHANGED <<client, arrived, buffer, context, responses, stalled>>

-----------------------------------------------------------------------------
(* HttpParser.                                                             *)

(* getLine: a line ends at the first CR that has an LF behind it. *)
IsLine(n) ==
    LET ends == {i \in 1..(Len(buffer) - 1) : SubSeq(buffer, i, i + 1) = EndOfLine}
    IN  n + 1 \in ends /\ \A i \in ends : n + 1 <= i

HasLine == \E n \in 0..Len(buffer) : IsLine(n)

TakeLine(n) == buffer' = SubSeq(buffer, n + 3, Len(buffer))

(* splitRequestLine: three words or more, which only a request text gives   *)
(* the lines the client writes here (FewWords).                             *)
IsRequestLine(line) == Len(line) = 2 /\ line[1] = "GET" /\ line[2] \in RequestTexts

(* splitHeader: there is a colon in it.  The map keeps the last value. *)
IsHeader(line) == \E i \in DOMAIN line : line[i] \in Headers

(* Only a text that begins the line is a key the server looks for. *)
WithHeader(r, line) ==
    IF line[1] \in LengthTexts THEN [r EXCEPT !.length = LengthOf[line[1]]]
    ELSE IF line[1] \in {CloseText, KeepText} THEN [r EXCEPT !.connection = line[1]]
    ELSE r

(* An Error leaves the context as it is and the rest of the buffer there:   *)
(* onMessage returns.                                                       *)
Reject ==
    /\ stalled' = TRUE /\ pc' = "idle"
    /\ UNCHANGED context

ParseRequestLine ==
    /\ pc = "message" /\ state = "RequestLine"
    /\ \E n \in 0..Len(buffer) :
          LET line == SubSeq(buffer, 1, n) IN
          /\ IsLine(n) /\ TakeLine(n)
          /\ IF IsRequestLine(line)
             THEN /\ request' = [request EXCEPT !.path = PathOf[line[2]],
                                                !.version = VersionOf[line[2]]]
                  /\ state' = "Headers"
                  /\ UNCHANGED <<pc, stalled>>
             ELSE Reject
    /\ UNCHANGED <<client, arrived, handler, responses>>

(* A line with a colon, or one without. *)
ParseHeader ==
    /\ pc = "message" /\ state = "Headers"
    /\ \E n \in 1..Len(buffer) :
          LET line == SubSeq(buffer, 1, n) IN
          /\ IsLine(n) /\ TakeLine(n)
          /\ IF IsHeader(line)
             THEN /\ request' = WithHeader(request, line)
                  /\ UNCHANGED <<state, pc, stalled>>
             ELSE Reject
    /\ UNCHANGED <<client, arrived, handler, responses>>

(* The empty line.  hasBody: stoi throws for what is no number, and nobody  *)
(* catches it.                                                              *)
EndHeaders ==
    /\ pc = "message" /\ state = "Headers"
    /\ IsLine(0) /\ TakeLine(0)
    /\ IF request.length = NoLength
       THEN pc' = "terminated" /\ UNCHANGED state
       ELSE /\ state' = IF request.length > 0 THEN "Body" ELSE "Finish"
            /\ UNCHANGED pc
    /\ UNCHANGED <<client, arrived, handler, request, responses, stalled>>

(* A mutant of ParseBody: what there is of the body is taken. *)
ParseBodyShort ==
    /\ pc = "message" /\ state = "Body" /\ buffer # <<>>
    /\ \E n \in 1..Len(buffer) :
          /\ n = request.length \/ (n = Len(buffer) /\ n < request.length)
          /\ request' = [request EXCEPT !.body = SubSeq(buffer, 1, n)]
          /\ buffer' = SubSeq(buffer, n + 1, Len(buffer))
    /\ state' = "Finish"
    /\ UNCHANGED <<client, arrived, handler, responses, pc, stalled>>

ParseBody ==
    /\ pc = "message" /\ state = "Body" /\ Len(buffer) >= request.length
    /\ request' = [request EXCEPT !.body = SubSeq(buffer, 1, request.length)]
    /\ buffer' = SubSeq(buffer, request.length + 1, Len(buffer))
    /\ state' = "Finish"
    /\ UNCHANGED <<client, arrived, handler, responses, pc, stalled>>

(* NeedMoreData: parseRequest returns false, and onMessage with it. *)
WantsMore ==
    IF state = "Body" THEN Len(buffer) < request.length ELSE state # "Finish" /\ ~HasLine

NeedMore ==
    /\ pc = "message" /\ WantsMore
    /\ pc' = "idle"
    /\ UNCHANGED <<client, arrived, buffer, handler, context, responses, stalled>>

-----------------------------------------------------------------------------
(* HttpRequest::keepAlive, StaticFileHandler::handle, and the answer.      *)
KeepAlive(r) ==
    \/ r.connection = KeepText
    \/ r.connection # CloseText /\ r.version = "HTTP/1.1"

Content(path) ==
    IF path \in {"/ping", "/hello", "/index.html"} THEN [status |-> 200, body |-> path]
    ELSE IF path = "/" THEN [status |-> 200, body |-> "/index.html"]
    ELSE IF path \in Files THEN [status |-> 200, body |-> path]
    ELSE [status |-> 404, body |-> "404 Not Found"]

Response(r) == [content |-> Content(r.path), keep |-> KeepAlive(r), posted |-> r.body]

(* A mutant of Reset: the headers stay. *)
ResetLine(r) == [NoRequest EXCEPT !.length = r.length, !.connection = r.connection]

(* HttpContext::reset *)
Reset(r) == NoRequest

(* The loop of onMessage goes on while there is input. *)
Answer ==
    /\ pc = "message" /\ state = "Finish"
    /\ responses' = Append(responses, Response(request))
    /\ state' = "RequestLine" /\ request' = Reset(request)
    /\ pc' = IF buffer = <<>> THEN "idle" ELSE "message"
    /\ UNCHANGED <<client, arrived, buffer, handler, stalled>>

OnMessage ==
    \/ ParseRequestLine \/ ParseHeader \/ EndHeaders \/ ParseBody \/ NeedMore \/ Answer

Next ==
    \/ \E m \in Messages : Send(m)
    \/ \E n \in 1..Len(wire) : Receive(n)
    \/ Dispatch
    \/ OnMessage

Spec == Init /\ [][Next]_vars

-----------------------------------------------------------------------------
(* Properties.                                                             *)

(* What the client means by a message: the last header of a kind counts,    *)
(* and lines that are no headers do not.  value is a function on the headers *)
(* of the kind.                                                             *)
LastAmong(m, h, value, default) ==
    LET at == {i \in 1..h : m.headers[i] \in DOMAIN value}
    IN  IF at = {} THEN default
        ELSE value[m.headers[CHOOSE i \in at : \A j \in at : j <= i]]

LengthAmong(m, h) == LastAmong(m, h, LengthOf, 0)
ConnectionAmong(m, h) == LastAmong(m, h, [c \in {CloseText, KeepText} |-> c], "")

Meant(m) ==
    [content |-> Content(PathOf[m.text]),
     keep |-> LET c == ConnectionAmong(m, Len(m.headers)) IN
              c = KeepText \/ (c = "" /\ VersionOf[m.text] = "HTTP/1.1"),
     posted |-> m.body]

(* The client's messages: rejected lines are lines and are rejected, and a  *)
(* body is as long as the last length says, if that is a number.            *)
Unbroken(line) ==
    \A i \in 1..Len(line) : SubSeq(Line(line), i, i + 1) # EndOfLine

(* Two words at most: Junk is a space and a word. *)
FewWords(line) ==
    \/ Len(line) <= 1 /\ \A i \in DOMAIN line : line[i] \in {"GET", "*", Junk}
    \/ Len(line) = 2 /\ line[1] \in {"GET", "*"} /\ line[2] = Junk

ASSUME HttpInputAssumption ==
    /\ Texts \cap {"CR", "LF"} = {}
    /\ LengthTexts \cap {CloseText, KeepText} = {}
    /\ "" \notin {CloseText, KeepText}
    /\ NoLength \notin Nat /\ LengthOf \in [LengthTexts -> Nat \cup {NoLength}]
    /\ MaxMessages \in Nat
    /\ Messages \subseteq [before : Seq(Seq(Symbols)), text : RequestTexts,
                           headers : Seq(Texts), body : Seq(Symbols)]
    /\ \A m \in Messages :
          /\ \A i \in DOMAIN m.before :
                Unbroken(m.before[i]) /\ FewWords(m.before[i]) /\ ~IsRequestLine(m.before[i])
          /\ LengthAmong(m, Len(m.headers)) \in {Len(m.body), NoLength}

-----------------------------------------------------------------------------
(* Every variable has its type. *)
TypeOK ==
    /\ sent \in Seq([msg : Messages, end : Nat])
    /\ wire \in Seq(Symbols) /\ arrived \in Nat /\ buffer \in Seq(Symbols)
    /\ handler \in {"none", "http", "redis"}
    /\ state \in {"RequestLine", "Headers", "Body", "Finish"}
    /\ responses \in Seq({Meant(m) : m \in Messages})
    /\ pc \in {"idle", "dispatch", "message", "terminated"}
    /\ stalled \in BOOLEAN

(* Each response answers the client's message of the same number, with that *)
(* message's path, headers and body: however the bytes were cut into reads, *)
(* no request is made of parts of two messages, none is skipped and nothing *)
(* of an earlier one is left in the context.                                *)
ResponsesAnswerMessages ==
    /\ Len(responses) <= Len(sent)
    /\ \A i \in DOMAIN responses :
          /\ responses[i] = Meant(sent[i].msg)
          /\ sent[i].end <= arrived

(* When the server waits for input, every message it has received has been  *)
(* answered, unless the last read met a line the parser rejects.            *)
StartsAsHttp ==
    sent # <<>> /\ IsHttp(Encoded(sent[1].msg))

NothingHeldBack ==
    pc = "idle" /\ ~stalled /\ StartsAsHttp =>
        \A i \in DOMAIN sent : sent[i].end <= arrived => i <= Len(responses)

-----------------------------------------------------------------------------
(* What makes them so.                                                     *)

(* The messages after the first k, and the bytes not yet consumed. *)
Later(k) == After([i \in DOMAIN sent |-> Encoded(sent[i].msg)], k)
Input == buffer \o wire

(* The request once the first h lines of headers are read. *)
ReadSoFar(m, h) ==
    [path |-> PathOf[m.text], version |-> VersionOf[m.text], length |-> LengthAmong(m, h),
     connection |-> ConnectionAmong(m, h), body |-> <<>>]

(* The context is inside the message after those answered, and what is not  *)
(* consumed is the rest of it and the later messages.                       *)
Inside(k) ==
    LET m == sent[k].msg
        all == ReadSoFar(m, Len(m.headers))
    IN
    \/ /\ state = "RequestLine" /\ request = NoRequest
       /\ \E j \in 0..Len(m.before) : Input = FromLine(m, j) \o Later(k)
    \/ /\ state = "Headers"
       /\ \E h \in 0..Len(m.headers) :
             Input = FromHeader(m, h) \o Later(k) /\ request = ReadSoFar(m, h)
    \/ /\ state = "Body" /\ request = all /\ request.length \in Nat \ {0}
       /\ Input = m.body \o Later(k)
    \/ /\ state = "Finish" /\ request = [all EXCEPT !.body = m.body]
       /\ Input = Later(k)

ParserInPlace ==
    pc # "terminated" =>
        IF Len(responses) = Len(sent)
        THEN state = "RequestLine" /\ request = NoRequest /\ Input = <<>>
        ELSE Inside(Len(responses) + 1)

(* The handler is chosen by the first bytes, which stay until it is. *)
HandlerInPlace ==
    /\ pc \in {"message", "terminated"} => handler = "http"
    /\ pc = "dispatch" => buffer # <<>>
    /\ handler # "http" =>
          responses = <<>> /\ state = "RequestLine" /\ Input = Later(0)
    /\ handler = "redis" => buffer # <<>> /\ IsRedis(buffer)
    /\ handler = "none" /\ pc = "idle" => ~IsHttp(buffer)
    /\ handler = "http" /\ pc = "idle" /\ ~stalled => WantsMore

(* The end of a message is where the client has put it. *)
EndsCounted ==
    \A i \in DOMAIN sent : sent[i].end + Len(Later(i)) = arrived + Len(wire)

(* The inductive invariant. *)
IInv ==
    /\ TypeOK
    /\ ResponsesAnswerMessages
    /\ ParserInPlace
    /\ HandlerInPlace
    /\ EndsCounted
=============================================================================

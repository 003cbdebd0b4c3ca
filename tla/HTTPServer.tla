----------------------------- MODULE HTTPServer -----------------------------
(***************************************************************************)
(* The single-client web server of libraries/WebServer/src/HTTPServer.cpp: *)
(* the singly linked list of request handlers (_firstHandler,              *)
(* _lastHandler, next), the route operations that change it, and the       *)
(* response a request handler writes through send, send_P and sendContent, *)
(* framed by _prepareHeader and _finalizeResponse.                         *)
(*                                                                         *)
(* The server runs on one thread.  Interleaving comes from the handler     *)
(* callbacks: the user's handler runs inside _handleRequest and may call   *)
(* any of the server's operations, the route operations included.  A      *)
(* handler's body is a bounded sequence of such calls, chosen by the       *)
(* caller discipline CallerMay.                                            *)
(*                                                                         *)
(* The bytes on the wire are abstracted to segments: a header block (with  *)
(* its Content-Length and whether it announces chunked transfer), a run of *)
(* body bytes, a chunk-size line and the CRLF after a chunk.               *)
(***************************************************************************)
EXTENDS Integers, Sequences, SequencesExt, FiniteSets

CONSTANTS
    Handlers,   \* the addresses `new` can return for a RequestHandler
    Null,       \* nullptr
    Uris,       \* request and route URIs
    Methods,    \* request methods
    HTTP_ANY,   \* the route method that matches every request method
    Versions,   \* _currentVersion: the minor version of HTTP/1.x
    Sizes,      \* content lengths callers pass
    MaxCalls,   \* server calls one handler invocation makes
    CallerMay(_), \* the calls, as records, a handler's discipline allows
    CONTENT_LENGTH_UNKNOWN, CONTENT_LENGTH_NOT_SET

Routes == [uri : Uris, method : Methods \cup {HTTP_ANY}]

VARIABLES
    live,          \* handlers allocated and not yet deleted
    route,         \* the Uri and method each handler was created for
    next,          \* RequestHandler::_next (kept, stale, after delete)
    first, last,   \* _firstHandler, _lastHandler
    rr,            \* removeRoute in progress: its locals, or RrIdle
    touched,       \* handlers the last step dereferenced after its deletes
    phase,         \* "idle", "handler" (in the callback) or "end"
    cur,           \* _currentHandler
    req,           \* _currentMethod, _currentUri, _currentVersion
    handled,       \* what the handler returned
    contentLength, \* _contentLength
    chunked,       \* _chunked
    wire,          \* what the client has been sent for this request
    how,           \* ghost: the call that sent the header, or "none"
    rerouted,      \* ghost: the handler changed the routes
    ncalls         \* ghost: calls the handler has made

list_vars == <<live, route, next, first, last>>
req_vars == <<phase, cur, req, handled>>
resp_vars == <<contentLength, chunked, wire>>
caller_vars == <<how, rerouted, ncalls>>
vars == <<list_vars, rr, touched, req_vars, resp_vars, caller_vars>>

(* The handlers reached from _firstHandler, cut off after |Handlers|+1.    *)
RECURSIVE ChainFrom(_, _)
ChainFrom(h, fuel) ==
    IF h = Null \/ fuel = 0 THEN <<>> ELSE <<h>> \o ChainFrom(next[h], fuel - 1)

Chain == ChainFrom(first, Cardinality(Handlers) + 1)

(* FunctionRequestHandler::canHandle (RequestHandlersImpl.h, not in this   *)
(* repository): the method is HTTP_ANY or equal, and the Uri matches.      *)
canHandle(h, m, u) ==
    /\ route[h].method \in {HTTP_ANY, m}
    /\ route[h].uri = u

-----------------------------------------------------------------------------
(***************************************************************************)
(* The handler list.                                                       *)
(***************************************************************************)
(* Mutant: the new handler pushed at the front.                            *)
_addRequestHandler_Front(h, r) ==
    /\ live' = live \cup {h}
    /\ route' = [route EXCEPT ![h] = r]
    /\ next' = [next EXCEPT ![h] = first]
    /\ first' = h
    /\ last' = IF last = Null THEN h ELSE last

(* A new handler h, whose constructor leaves _next null, goes at the end.  *)
_addRequestHandler(h, r) ==
    /\ live' = live \cup {h}
    /\ route' = [route EXCEPT ![h] = r]
    /\ next' = IF last = Null THEN [next EXCEPT ![h] = Null]
               ELSE [next EXCEPT ![h] = Null, ![last] = h]
    /\ first' = IF last = Null THEN h ELSE first
    /\ last' = h

(* delete: nothing reads a deleted handler's fields, so they are cleared. *)
FreedRoute == CHOOSE r \in Routes : TRUE

(* Mutant: _lastHandler left pointing at a deleted last handler.           *)
_removeRequestHandler_KeepLast(h) ==
    LET i == CHOOSE j \in 1..Len(Chain) : Chain[j] = h
        previous == IF i = 1 THEN Null ELSE Chain[i - 1]
    IN  /\ first' = IF previous = Null THEN next[h] ELSE first
        /\ next' = [IF previous = Null THEN next
                    ELSE [next EXCEPT ![previous] = next[h]]
                    EXCEPT ![h] = Null]
        /\ last' = last
        /\ live' = live \ {h}
        /\ route' = [route EXCEPT ![h] = FreedRoute]

(* Unlink h, found by walking from _firstHandler, and delete it.           *)
_removeRequestHandler(h) ==
    LET i == CHOOSE j \in 1..Len(Chain) : Chain[j] = h
        previous == IF i = 1 THEN Null ELSE Chain[i - 1]
    IN  /\ first' = IF previous = Null THEN next[h] ELSE first
        /\ next' = [IF previous = Null THEN next
                    ELSE [next EXCEPT ![previous] = next[h]]
                    EXCEPT ![h] = Null]
        /\ last' = IF h = last THEN previous ELSE last
        /\ live' = live \ {h}
        /\ route' = [route EXCEPT ![h] = FreedRoute]

InList(h) == \E j \in 1..Len(Chain) : Chain[j] = h

(* on(uri, method, fn[, ufn]), addHandler, serveStatic: `new` a handler.   *)
on(r) ==
    /\ Handlers \ live # {}
    /\ \E h \in Handlers \ live : _addRequestHandler(h, r)

(* removeHandler(handler): false when the handler is not in the list.      *)
removeHandler(h) ==
    IF InList(h) THEN _removeRequestHandler(h) ELSE UNCHANGED list_vars

RrIdle == [active |-> FALSE]

(* removeRoute(uri, method): start the walk from _firstHandler.            *)
removeRoute(u, m) == rr' = [active |-> TRUE, h |-> first, prev |-> Null, uri |-> u, method |-> m]

(* Mutant: after a delete, the walk follows the deleted handler's next.    *)
RemoveRouteStep_NextOfDeleted ==
    /\ rr.active
    /\ IF rr.h = Null
       THEN /\ rr' = RrIdle /\ touched' = {} /\ UNCHANGED list_vars
       ELSE IF canHandle(rr.h, rr.method, rr.uri) /\ InList(rr.h)
       THEN /\ _removeRequestHandler(rr.h)
            /\ rr' = [rr EXCEPT !.h = next[rr.h]]
            /\ touched' = {rr.h}
       ELSE /\ rr' = [rr EXCEPT !.prev = rr.h, !.h = next[rr.h]]
            /\ touched' = {rr.h}
            /\ UNCHANGED list_vars
    /\ UNCHANGED <<req_vars, resp_vars, caller_vars>>

(* Mutant: the walk stops at the first handler it removes.                 *)
RemoveRouteStep_FirstOnly ==
    /\ rr.active
    /\ IF rr.h = Null
       THEN /\ rr' = RrIdle /\ touched' = {} /\ UNCHANGED list_vars
       ELSE IF canHandle(rr.h, rr.method, rr.uri) /\ InList(rr.h)
       THEN /\ _removeRequestHandler(rr.h)
            /\ rr' = [rr EXCEPT !.h = Null]
            /\ touched' = {}
       ELSE /\ rr' = [rr EXCEPT !.prev = rr.h, !.h = next[rr.h]]
            /\ touched' = {rr.h}
            /\ UNCHANGED list_vars
    /\ UNCHANGED <<req_vars, resp_vars, caller_vars>>

(* One iteration of the removeRoute loop.  After a delete the walk goes on *)
(* from previousHandler->next(), or from _firstHandler.                    *)
RemoveRouteStep ==
    /\ rr.active
    /\ IF rr.h = Null
       THEN /\ rr' = RrIdle /\ touched' = {} /\ UNCHANGED list_vars
       ELSE IF canHandle(rr.h, rr.method, rr.uri) /\ InList(rr.h)
       THEN /\ _removeRequestHandler(rr.h)
            /\ rr' = [rr EXCEPT !.h = IF rr.prev = Null THEN first'
                                      ELSE next'[rr.prev]]
            /\ touched' = IF rr.prev = Null THEN {} ELSE {rr.prev}
       ELSE /\ rr' = [rr EXCEPT !.prev = rr.h, !.h = next[rr.h]]
            /\ touched' = {rr.h}
            /\ UNCHANGED list_vars
    /\ UNCHANGED <<req_vars, resp_vars, caller_vars>>
-----------------------------------------------------------------------------
(***************************************************************************)
(* The response.                                                           *)
(***************************************************************************)
CRLF == [kind |-> "crlf"]
SizeLine(n) == [kind |-> "size", n |-> n]
Data(n) == IF n = 0 THEN <<>> ELSE <<[kind |-> "data", n |-> n]>>

\* a header block without Content-Length
NoContentLength == -1

\* the length of a header block: never zero
HeaderBytes == 100

(* Mutant: the set length always written as Content-Length.               *)
Header_NoUnknownCheck(clen) ==
    [kind |-> "head",
     cl |-> IF contentLength = CONTENT_LENGTH_NOT_SET THEN clen ELSE contentLength,
     te |-> contentLength = CONTENT_LENGTH_UNKNOWN /\ req.version # 0]

(* _prepareHeader: the header block, whose Content-Length is the content's *)
(* length if none was set, the length set if it is known, and absent with  *)
(* Transfer-Encoding: chunked for an unknown length to an HTTP/1.1 client.  *)
Header(clen) ==
    [kind |-> "head",
     cl |-> CASE contentLength = CONTENT_LENGTH_NOT_SET -> clen
              [] contentLength # CONTENT_LENGTH_UNKNOWN -> contentLength
              [] OTHER -> NoContentLength,
     te |-> contentLength = CONTENT_LENGTH_UNKNOWN /\ req.version # 0]

(* _chunked after _prepareHeader: set for chunked transfer, else kept.     *)
PreparedChunked ==
    \/ contentLength = CONTENT_LENGTH_UNKNOWN /\ req.version # 0
    \/ chunked

(* sendContent(content, n) with _chunked = ch: the chunk-size line and the *)
(* CRLF around the payload while chunked; an empty chunk ends chunking.    *)
ContentOf(ch, n, payload) ==
    (IF ch THEN <<SizeLine(n)>> ELSE <<>>) \o payload \o (IF ch THEN <<CRLF>> ELSE <<>>)
(* Mutant: an empty chunk that leaves _chunked set.                        *)
ChunkedAfter_Keep(ch, n) == ch

ChunkedAfter(ch, n) == ch /\ n # 0

(* send(code, type, content): the header, then the content if not empty.  *)
send(n) ==
    /\ wire' = wire \o <<Header(n)>> \o
               (IF n > 0 THEN ContentOf(PreparedChunked, n, Data(n)) ELSE <<>>)
    /\ chunked' = PreparedChunked
    /\ UNCHANGED contentLength

(* send_P(code, type, content): the header, then sendContent_P always.    *)
send_P(n) ==
    /\ wire' = wire \o <<Header(n)>> \o ContentOf(PreparedChunked, n, Data(n))
    /\ chunked' = ChunkedAfter(PreparedChunked, n)
    /\ UNCHANGED contentLength

(* send_P(code, type, content, len): the header goes out by sendContent.  *)
send_P_len(n) ==
    /\ wire' = wire \o ContentOf(PreparedChunked, HeaderBytes, <<Header(n)>>)
                    \o ContentOf(PreparedChunked, n, Data(n))
    /\ chunked' = ChunkedAfter(PreparedChunked, n)
    /\ UNCHANGED contentLength

(* sendContent(content) and sendContent_P(content, size).                  *)
sendContent(n) ==
    /\ wire' = wire \o ContentOf(chunked, n, Data(n))
    /\ chunked' = ChunkedAfter(chunked, n)
    /\ UNCHANGED contentLength

(* _streamFileCore: setContentLength(fileSize), then send(code, type, ""). *)
_streamFileCore(n) ==
    /\ contentLength' = n
    /\ wire' = wire \o <<[kind |-> "head", cl |-> n, te |-> FALSE]>>
    /\ UNCHANGED chunked

setContentLength(x) ==
    /\ contentLength' = x
    /\ UNCHANGED <<chunked, wire>>

-----------------------------------------------------------------------------
(***************************************************************************)
(* A request.  handleClient and _parseRequest (WebServerTemplate.h and     *)
(* Parsing.cpp, not in this repository) pick the first handler in the list *)
(* that can handle the request, reset _contentLength and call              *)
(* _handleRequest, which invokes the handler's callback.                   *)
(***************************************************************************)
Request(m, u, v) ==
    /\ phase = "idle" /\ ~rr.active
    /\ LET i == SelectInSeq(Chain, LAMBDA h : canHandle(h, m, u))
       IN  cur' = IF i = 0 THEN Null ELSE Chain[i]
    /\ req' = [method |-> m, uri |-> u, version |-> v]
    /\ handled' = FALSE
    /\ phase' = IF cur' = Null THEN "end" ELSE "handler"
    /\ contentLength' = CONTENT_LENGTH_NOT_SET
    /\ wire' = <<>>
    /\ how' = "none" /\ rerouted' = FALSE /\ ncalls' = 0
    /\ touched' = {}
    /\ UNCHANGED <<list_vars, rr, chunked>>

InHandler == phase = "handler" /\ ~rr.active /\ ncalls < MaxCalls

(* The response calls a handler makes; requestAuthentication is a send of  *)
(* its failure message with code 401 (its headers and nonces are not       *)
(* modelled).                                                              *)
ResponseCall ==
    /\ InHandler
    /\ ncalls' = ncalls + 1
    /\ \/ \E n \in Sizes : CallerMay([op |-> "send", n |-> n]) /\ send(n) /\ how' = "send"
       \/ \E n \in Sizes : CallerMay([op |-> "send_P", n |-> n]) /\ send_P(n) /\ how' = "send_P"
       \/ \E n \in Sizes : CallerMay([op |-> "send_P_len", n |-> n]) /\ send_P_len(n) /\ how' = "send_P_len"
       \/ \E n \in Sizes : CallerMay([op |-> "_streamFileCore", n |-> n]) /\ _streamFileCore(n) /\ how' = "_streamFileCore"
       \/ \E n \in Sizes : CallerMay([op |-> "requestAuthentication", n |-> n]) /\ send(n) /\ how' = "requestAuthentication"
       \/ \E n \in Sizes : CallerMay([op |-> "sendContent", n |-> n]) /\ sendContent(n) /\ UNCHANGED how
       \/ \E x \in Sizes \cup {CONTENT_LENGTH_UNKNOWN} :
            CallerMay([op |-> "setContentLength", n |-> x]) /\ setContentLength(x) /\ UNCHANGED how
    /\ touched' = {}
    /\ UNCHANGED <<list_vars, rr, req_vars, rerouted>>

(* on, removeHandler and removeRoute, from the main loop or a callback.    *)
RouteCall ==
    /\ ~rr.active
    /\ phase = "idle" \/ InHandler
    /\ ncalls' = IF phase = "handler" THEN ncalls + 1 ELSE ncalls
    /\ rerouted' = (rerouted \/ phase = "handler")
    /\ \/ \E r \in Routes : CallerMay([op |-> "on"]) /\ on(r) /\ UNCHANGED rr
       \/ \E h \in live : CallerMay([op |-> "removeHandler"]) /\ removeHandler(h) /\ UNCHANGED rr
       \/ \E u \in Uris, m \in Methods \cup {HTTP_ANY} :
            CallerMay([op |-> "removeRoute"]) /\ removeRoute(u, m) /\ UNCHANGED list_vars
    /\ touched' = {}
    /\ UNCHANGED <<req_vars, resp_vars, how>>

(* pathArg(i) dereferences _currentHandler.                                *)
pathArg ==
    /\ InHandler /\ CallerMay([op |-> "pathArg"])
    /\ ncalls' = ncalls + 1
    /\ touched' = {cur}
    /\ UNCHANGED <<list_vars, rr, req_vars, resp_vars, how, rerouted>>

(* The callback returns whether it handled the request.                    *)
HandlerReturn ==
    /\ phase = "handler" /\ ~rr.active
    /\ \E b \in BOOLEAN : CallerMay([op |-> "return", handled |-> b]) /\ handled' = b
    /\ phase' = "end"
    /\ touched' = {}
    /\ UNCHANGED <<list_vars, rr, cur, req, resp_vars, caller_vars>>

(* The rest of _handleRequest: a request nobody handled gets the 404 page  *)
(* ("Not found: " + uri, or what the onNotFound handler sends), then       *)
(* _finalizeResponse sends the empty last chunk if still chunked, and      *)
(* _currentUri is cleared.                                                 *)
_handleRequest ==
    /\ phase = "end" /\ ~rr.active
    /\ LET w == IF handled THEN wire
                ELSE wire \o <<Header(1)>> \o ContentOf(PreparedChunked, 1, Data(1))
           ch == IF handled THEN chunked ELSE PreparedChunked
       IN  /\ wire' = IF ch THEN w \o ContentOf(TRUE, 0, <<>>) ELSE w
           /\ chunked' = IF ch THEN ChunkedAfter(ch, 0) ELSE ch
    /\ req' = [req EXCEPT !.uri = Null]
    /\ phase' = "idle"
    /\ touched' = {}
    /\ UNCHANGED <<list_vars, rr, cur, handled, contentLength, caller_vars>>

-----------------------------------------------------------------------------
Init ==
    /\ live = {}
    /\ route = [h \in Handlers |-> FreedRoute]
    /\ next = [h \in Handlers |-> Null]
    /\ first = Null /\ last = Null
    /\ rr = RrIdle
    /\ touched = {}
    /\ phase = "idle" /\ cur = Null
    /\ req = [method |-> HTTP_ANY, uri |-> Null, version |-> 0]
    /\ handled = FALSE
    /\ contentLength = 0 /\ chunked = FALSE /\ wire = <<>>
    /\ how = "none" /\ rerouted = FALSE /\ ncalls = 0

Next ==
    \/ \E m \in Methods, u \in Uris, v \in Versions : Request(m, u, v)
    \/ ResponseCall
    \/ RouteCall
    \/ pathArg
    \/ HandlerReturn
    \/ _handleRequest
    \/ RemoveRouteStep

Spec == Init /\ [][Next]_vars
-----------------------------------------------------------------------------
Segments ==
    [kind : {"head"}, cl : Sizes \cup {NoContentLength}, te : BOOLEAN]
    \cup [kind : {"data", "size"}, n : Nat] \cup {CRLF}

TypeOK ==
    /\ live \subseteq Handlers
    /\ route \in [Handlers -> Routes]
    /\ next \in [Handlers -> Handlers \cup {Null}]
    /\ first \in Handlers \cup {Null} /\ last \in Handlers \cup {Null}
    /\ touched \subseteq Handlers
    /\ phase \in {"idle", "handler", "end"}
    /\ cur \in Handlers \cup {Null}
    /\ contentLength \in Sizes \cup {CONTENT_LENGTH_UNKNOWN, CONTENT_LENGTH_NOT_SET}
    /\ chunked \in BOOLEAN
    /\ wire \in Seq(Segments)

(***************************************************************************)
(* The list that _addRequestHandler, _removeRequestHandler and removeRoute *)
(* maintain: following next from _firstHandler visits every live handler  *)
(* once, ends in nullptr, and _lastHandler is the handler it ends at.      *)
(***************************************************************************)
ListIntact ==
    /\ Len(Chain) = Cardinality(live)
    /\ ToSet(Chain) = live
    /\ IF live = {} THEN first = Null /\ last = Null
       ELSE last = Chain[Len(Chain)] /\ next[last] = Null

(***************************************************************************)
(* The list implements HandlerRegistry: every change of the routes, seen   *)
(* in list order, appends one route or removes one and keeps the order of  *)
(* the rest.                                                               *)
(***************************************************************************)
Registry == INSTANCE HandlerRegistry
    WITH routes <- [i \in 1..Len(Chain) |-> route[Chain[i]]]

RegistryRefined == Registry!Spec

(***************************************************************************)
(* When removeRoute(uri, method) returns, no handler left in the list can  *)
(* handle that method and uri: the walk does not skip the handler after   *)
(* one it deleted.                                                         *)
(***************************************************************************)
RemoveRouteComplete ==
    [][rr.active /\ ~rr'.active =>
         \A h \in live' : ~(route'[h].method \in {HTTP_ANY, rr.method}
                            /\ route'[h].uri = rr.uri)]_vars

(***************************************************************************)
(* No handler is dereferenced after it was deleted: neither by the         *)
(* removeRoute walk nor through _currentHandler.                           *)
(***************************************************************************)
NoUseAfterFree == touched \subseteq live

(***************************************************************************)
(* What the client receives for a request is one well-framed HTTP          *)
(* response: a header block, then a body of exactly Content-Length bytes,  *)
(* or chunks ended by one empty chunk when the header announced chunked    *)
(* transfer, or bytes up to the close otherwise.                           *)
(***************************************************************************)
RECURSIVE Chunks(_)
Chunks(s) ==
    \/ s = <<SizeLine(0), CRLF>>
    \/ /\ Len(s) >= 3
       /\ s[1].kind = "size" /\ s[1].n > 0
       /\ s[2] = [kind |-> "data", n |-> s[1].n]
       /\ s[3] = CRLF
       /\ Chunks(SubSeq(s, 4, Len(s)))

Framed(w) ==
    /\ Len(w) >= 1
    /\ w[1].kind = "head"
    /\ LET body == Tail(w) IN
       IF w[1].te THEN Chunks(body)
       ELSE /\ \A i \in 1..Len(body) : body[i].kind = "data"
            /\ w[1].cl # NoContentLength =>
                  FoldLeft(LAMBDA a, d : a + d.n, 0, body) = w[1].cl

ResponseFramed == phase = "idle" /\ wire # <<>> => Framed(wire)
=============================================================================

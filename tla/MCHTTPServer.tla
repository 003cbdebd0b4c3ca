---------------------------- MODULE MCHTTPServer ----------------------------
EXTENDS HTTPServer, TLC

CONSTANTS h1, h2, h3

MCHandlers == {h1, h2, h3}
HandlerSymmetry == Permutations(MCHandlers)

(* The body bytes sent so far, in a response that is not chunked.          *)
BodyBytes == FoldLeft(LAMBDA a, d : a + (IF d.kind = "data" THEN d.n ELSE 0), 0, wire)

(***************************************************************************)
(* A handler used as the library's examples use it: one call that sends    *)
(* the header (after setContentLength, if at all); content after it only   *)
(* by sendContent, in non-empty pieces, up to the declared length and      *)
(* within its calls; pathArg and route changes only while it owes nothing, *)
(* pathArg before any route change; true returned exactly when it         *)
(* responded.  send_P with an explicit length is used only when no length  *)
(* was set.                                                                *)
(***************************************************************************)
(* A header is owed, or body bytes the header declared.                    *)
Owing ==
    \/ how = "none" /\ contentLength # CONTENT_LENGTH_NOT_SET
    \/ how # "none" /\ contentLength \in Sizes /\ BodyBytes < contentLength

DocumentedCaller(a) ==
    \/ /\ a.op = "setContentLength" /\ how = "none"
       /\ ncalls + (IF a.n \in Sizes /\ a.n > 0 THEN 2 ELSE 1) < MaxCalls
    \/ /\ a.op \in {"send", "send_P", "requestAuthentication"}
       /\ how = "none"
       /\ contentLength \in {CONTENT_LENGTH_NOT_SET, CONTENT_LENGTH_UNKNOWN} \/ a.n = 0
    \/ a.op = "_streamFileCore" /\ how = "none" /\ (a.n = 0 \/ ncalls + 1 < MaxCalls)
    \/ a.op = "send_P_len" /\ how = "none" /\ contentLength = CONTENT_LENGTH_NOT_SET
    \/ /\ a.op = "sendContent" /\ a.n > 0
       /\ how # "none"
       /\ \/ contentLength = CONTENT_LENGTH_UNKNOWN /\ how = "send"
          \/ /\ contentLength \in Sizes
             /\ BodyBytes + a.n <= contentLength
             /\ ncalls + 1 < MaxCalls \/ BodyBytes + a.n = contentLength
    \/ a.op = "pathArg" /\ ~rerouted /\ ~Owing
    \/ a.op \in {"on", "removeHandler", "removeRoute"} /\ (phase = "handler" => ~Owing)
    \/ /\ a.op = "return"
       /\ a.handled = (how # "none")
       /\ ~a.handled => contentLength = CONTENT_LENGTH_NOT_SET
       /\ a.handled /\ contentLength \in Sizes => BodyBytes = contentLength

(* The same, and send_P(code, type, content, len) after                    *)
(* setContentLength(CONTENT_LENGTH_UNKNOWN), to stream the rest in chunks. *)
StreamingSendP(a) ==
    \/ DocumentedCaller(a)
    \/ a.op = "send_P_len" /\ how = "none" /\ contentLength = CONTENT_LENGTH_UNKNOWN

=============================================================================

------------------------------ MODULE HttpAuth ------------------------------
(***************************************************************************)
(* HTTP authentication in libraries/WebServer/src/HTTPServer.cpp: the     *)
(* challenge requestAuthentication sends (it stores _srealm and, for       *)
(* Digest, a fresh _snonce and _sopaque), and authenticate, which a        *)
(* handler calls to check the request's Authorization header against the  *)
(* stored challenge and the username and password it passes.              *)
(*                                                                         *)
(* Three actors meet at the server, one request at a time: the client,     *)
(* which knows the password and answers challenges it has seen; an         *)
(* eavesdropper, which sees every challenge and every request on the wire, *)
(* replays what the client sent, possibly for another request, and forges *)
(* headers with a wrong password; and the handler, which may send a new    *)
(* challenge at any time.                                                  *)
(*                                                                         *)
(* Strings are abstracted to what the checks compare.  MD5 is a function   *)
(* without collisions: a hash is the tuple it was computed from.  A Basic  *)
(* credential is the base64 encoding of a byte string, written as its      *)
(* length and whether it is a prefix of "username:password".               *)
(***************************************************************************)
EXTENDS Integers, FiniteSets

CONSTANTS
    User,          \* the username the handler passes to authenticate
    Pass, Wrong,   \* the password it passes; a password that is not it
    UserLen,       \* strlen(username)
    PassLen,       \* strlen(password)
    Null,          \* nullptr as the realm of requestAuthentication
    LoginRequired, \* "Login Required"
    Realms,        \* realm strings handlers pass
    Nonces,        \* the 32-hex-digit strings _getRandomHexString returns
    CNonces,       \* client nonces
    Methods,       \* request methods
    HTTP_GET, HTTP_POST, HTTP_PUT, HTTP_DELETE,
    Uris,          \* request URIs
    MaxSent        \* requests the client makes

Modes == {"BASIC_AUTH", "DIGEST_AUTH"}

\* the width of char, toencodeLen's type
CharModulus == 256

VARIABLES
    srealm, snonce, sopaque, \* _srealm, _snonce, _sopaque
    issued,      \* the values _getRandomHexString has returned
    challenges,  \* the Digest challenges sent so far
    sent,        \* the client's requests so far: method, uri, header
    last         \* the last authenticate call: request, header, result

vars == <<srealm, snonce, sopaque, issued, challenges, sent, last>>

NoHeader == [scheme |-> "none"]
NoCall == [ok |-> FALSE, m |-> HTTP_GET, u |-> CHOOSE u \in Uris : TRUE, hdr |-> NoHeader]

-----------------------------------------------------------------------------
(***************************************************************************)
(* What the checks compute.                                                *)
(***************************************************************************)
\* strlen(username) + strlen(password) + 1, the length of "username:password"
CredLen == UserLen + PassLen + 1

\* base64 of the first k bytes of "username:password" (good) or of k bytes
\* that are not such a prefix
Basic(k, good) == [scheme |-> "Basic", len |-> k, good |-> good]

\* md5str of "username:realm:password"
HA1(user, realm, pass) == <<"HA1", user, realm, pass>>

\* Mutant: POST hashed as GET.
MethodName_NoPost(m) == IF m \in {HTTP_GET, HTTP_PUT, HTTP_DELETE} THEN m ELSE HTTP_GET

\* the method name authenticate hashes: GET for any other method
MethodName(m) == IF m \in {HTTP_GET, HTTP_POST, HTTP_PUT, HTTP_DELETE} THEN m ELSE HTTP_GET

\* md5str of "METHOD:uri"
HA2(m, uri) == <<"HA2", m, uri>>

\* the response: with qop=auth over nonce, nc, cnonce and "auth", else over
\* the nonce alone (RFC 2069)
Response(ha1, nonce, nc, cnonce, qop, ha2) ==
    IF qop THEN <<"auth", ha1, nonce, nc, cnonce, ha2>> ELSE <<"2069", ha1, nonce, ha2>>

\* a Digest Authorization header; a missing parameter reads as ""
Digest(user, realm, nonce, opaque, uri, qop, nc, cnonce, pass, m) ==
    [scheme |-> "Digest", username |-> user, realm |-> realm, nonce |-> nonce,
     opaque |-> opaque, uri |-> uri, qop |-> qop,
     nc |-> IF qop THEN nc ELSE "", cnonce |-> IF qop THEN cnonce ELSE "",
     response |-> Response(HA1(user, realm, pass), nonce, nc, cnonce, qop, HA2(m, uri))]

(* Mutant: toencodeLen without the byte of the ':'.                        *)
BasicOK_NoColon(hdr) ==
    LET toencodeLen == (UserLen + PassLen) % CharModulus
    IN  /\ toencodeLen > 0
        /\ hdr.good /\ hdr.len = toencodeLen

(* The Basic branch: toencodeLen, a char, holds the length modulo 256;    *)
(* the first toencodeLen bytes are encoded, and base64_encode_chars must   *)
(* return a non-empty encoding equal to the header's.                      *)
BasicOK(hdr) ==
    LET toencodeLen == CredLen % CharModulus
    IN  /\ toencodeLen > 0
        /\ hdr.good /\ hdr.len = toencodeLen

(* The Digest branch: the username, then every parameter present, then the *)
(* stored challenge, then the response recomputed from the password and    *)
(* _currentMethod.                                                          *)
DigestOK(m, hdr) ==
    /\ hdr.username # "" /\ hdr.username = User
    /\ \A v \in {hdr.realm, hdr.nonce, hdr.uri, hdr.opaque} : v # ""
    /\ hdr.opaque = sopaque /\ hdr.nonce = snonce /\ hdr.realm = srealm
    /\ hdr.response = Response(HA1(User, hdr.realm, Pass), hdr.nonce, hdr.nc,
                               hdr.cnonce, hdr.qop, HA2(MethodName(m), hdr.uri))

authenticate(m, hdr) ==
    CASE hdr.scheme = "Basic"  -> BasicOK(hdr)
      [] hdr.scheme = "Digest" -> DigestOK(m, hdr)
      [] OTHER                 -> FALSE

-----------------------------------------------------------------------------
(***************************************************************************)
(* The actions.                                                            *)
(***************************************************************************)
(* Mutant: a null realm stored as it is.                                   *)
requestAuthentication_NullRealm(mode, realm) ==
    /\ srealm' = realm
    /\ IF mode = "BASIC_AUTH"
       THEN UNCHANGED <<snonce, sopaque, issued, challenges>>
       ELSE \E n, o \in Nonces \ issued :
              /\ n # o
              /\ snonce' = n /\ sopaque' = o
              /\ issued' = issued \cup {n, o}
              /\ challenges' = challenges \cup {[realm |-> srealm', nonce |-> n, opaque |-> o]}
    /\ UNCHANGED <<sent, last>>

(* requestAuthentication(mode, realm, msg): store the realm; for Digest,   *)
(* two fresh random strings as nonce and opaque; send the challenge with   *)
(* the 401 page.                                                           *)
requestAuthentication(mode, realm) ==
    /\ srealm' = IF realm = Null THEN LoginRequired ELSE realm
    /\ IF mode = "BASIC_AUTH"
       THEN UNCHANGED <<snonce, sopaque, issued, challenges>>
       ELSE \E n, o \in Nonces \ issued :
              /\ n # o
              /\ snonce' = n /\ sopaque' = o
              /\ issued' = issued \cup {n, o}
              /\ challenges' = challenges \cup {[realm |-> srealm', nonce |-> n, opaque |-> o]}
    /\ UNCHANGED <<sent, last>>

(* The headers the client sends with a request for m and u: the full       *)
(* credential, or an answer to a Digest challenge it has seen.             *)
ClientHeaders(m, u) ==
    {Basic(CredLen, TRUE)} \cup
    {Digest(User, c.realm, c.nonce, c.opaque, u, q, "00000001", cn, Pass, m) :
        c \in challenges, q \in BOOLEAN, cn \in CNonces}

(* The headers the eavesdropper can send with a request for m and u: none, *)
(* a prefix of the credential it can know (the username and ':', or all  *)
(* but the last byte), a wrong guess, a Digest answer made with a wrong    *)
(* password, and anything the client sent.                                 *)
ForgedHeaders(m, u) ==
    {NoHeader, Basic(CredLen, FALSE)} \cup
    {Basic(k, TRUE) : k \in (1..UserLen + 1) \cup {CredLen - 1}} \cup
    {Digest(User, c.realm, c.nonce, c.opaque, u, q, "00000001", cn, Wrong, m) :
        c \in challenges, q \in BOOLEAN, cn \in CNonces} \cup
    {s.hdr : s \in sent}

(* A request reaches the handler, which calls authenticate.               *)
Handle(m, u, hdr) ==
    last' = [ok |-> authenticate(m, hdr), m |-> m, u |-> u, hdr |-> hdr]

ClientRequest(m, u, hdr) ==
    /\ Cardinality(sent) < MaxSent
    /\ sent' = sent \cup {[m |-> m, u |-> u, hdr |-> hdr]}
    /\ Handle(m, u, hdr)
    /\ UNCHANGED <<srealm, snonce, sopaque, issued, challenges>>

ForgedRequest(m, u, hdr) ==
    /\ Handle(m, u, hdr)
    /\ UNCHANGED <<srealm, snonce, sopaque, issued, challenges, sent>>

Init ==
    /\ srealm = "" /\ snonce = "" /\ sopaque = ""
    /\ issued = {} /\ challenges = {} /\ sent = {}
    /\ last = NoCall

Next ==
    \/ \E mode \in Modes, r \in Realms \cup {Null} : requestAuthentication(mode, r)
    \/ \E m \in Methods, u \in Uris : \E hdr \in ClientHeaders(m, u) : ClientRequest(m, u, hdr)
    \/ \E m \in Methods, u \in Uris : \E hdr \in ForgedHeaders(m, u) : ForgedRequest(m, u, hdr)

Spec == Init /\ [][Next]_vars
-----------------------------------------------------------------------------
TypeOK ==
    /\ srealm \in Realms \cup {LoginRequired, ""}
    /\ snonce \in Nonces \cup {""} /\ sopaque \in Nonces \cup {""}
    /\ issued \subseteq Nonces
    /\ \A c \in challenges : c.nonce \in issued /\ c.opaque \in issued
    /\ Cardinality(sent) <= MaxSent
    /\ last.ok \in BOOLEAN /\ last.m \in Methods \cup {HTTP_GET} /\ last.u \in Uris

(***************************************************************************)
(* authenticate accepts only what the client sent: whatever the            *)
(* eavesdropper builds from the challenges, the client's requests and the  *)
(* parts of the credential it knows is refused, unless it is a header the *)
(* client sent.  Breaking it takes a challenge, a client request and a     *)
(* forged request, or a Basic check that compares less than the whole      *)
(* credential.                                                             *)
(***************************************************************************)
AcceptsOnlyClient == last.ok => last.hdr \in {s.hdr : s \in sent}

(***************************************************************************)
(* The client gets in: its full Basic credential is accepted, and so is    *)
(* its Digest answer to the challenge in force for a GET, POST, PUT or     *)
(* DELETE request, with or without qop=auth.                               *)
(***************************************************************************)
AnswersCurrent(hdr) ==
    hdr.scheme = "Digest" /\ hdr.nonce = snonce /\ hdr.opaque = sopaque /\ hdr.realm = srealm

ClientAccepted ==
    [][sent' # sent /\
       (\/ last'.hdr.scheme = "Basic"
        \/ AnswersCurrent(last'.hdr) /\ last'.m \in {HTTP_GET, HTTP_POST, HTTP_PUT, HTTP_DELETE})
       => last'.ok]_vars

(***************************************************************************)
(* RFC 2617 3.2.2.5: an accepted Digest header was made for this request:  *)
(* the client sent it with this method and this uri.  Replaying it for     *)
(* another resource or another method is refused.                          *)
(***************************************************************************)
DigestBindsRequest ==
    last.ok /\ last.hdr.scheme = "Digest" =>
        [m |-> last.m, u |-> last.u, hdr |-> last.hdr] \in sent
=============================================================================

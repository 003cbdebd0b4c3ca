\* One realm, two Digest challenges' worth of nonces, a 6-byte credential,
\* GET and POST and a method authenticate does not name, two URIs and
\* one client request.  A request can always arrive, so deadlock is checked.
CONSTANTS
    User = User
    Pass = Pass
    Wrong = Wrong
    UserLen = 2
    PassLen = 3
    Null = Null
    LoginRequired = LoginRequired
    Realms = {r1}
    n1 = n1
    n2 = n2
    n3 = n3
    n4 = n4
    Nonces <- MCNonces
    CNonces = {cn1}
    HTTP_GET = HTTP_GET
    HTTP_POST = HTTP_POST
    HTTP_PUT = HTTP_PUT
    HTTP_DELETE = HTTP_DELETE
    Methods = {HTTP_GET, HTTP_POST, HTTP_PATCH}
    Uris = {u1, u2}
    MaxSent = 1
SPECIFICATION Spec
SYMMETRY NonceSymmetry
INVARIANT TypeOK AcceptsOnlyClient
PROPERTY ClientAccepted

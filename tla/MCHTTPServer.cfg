\* Three handler addresses, one URI, GET and POST, HTTP/1.0 and 1.1; a
\* handler makes up to three calls.  The server may always wait for the next
\* request, so deadlock is checked.
CONSTANTS
    h1 = h1
    h2 = h2
    h3 = h3
    Handlers <- MCHandlers
    Null = Null
    Uris = {u1}
    Methods = {GET, POST}
    HTTP_ANY = HTTP_ANY
    Versions = {0, 1}
    Sizes = {0, 1}
    MaxCalls = 3
    CallerMay <- DocumentedCaller
    CONTENT_LENGTH_UNKNOWN = CONTENT_LENGTH_UNKNOWN
    CONTENT_LENGTH_NOT_SET = CONTENT_LENGTH_NOT_SET
SPECIFICATION Spec
SYMMETRY HandlerSymmetry
INVARIANT TypeOK ListIntact NoUseAfterFree ResponseFramed
PROPERTY RegistryRefined RemoveRouteComplete

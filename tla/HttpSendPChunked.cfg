\* A handler that sets CONTENT_LENGTH_UNKNOWN and answers with send_P(code,
\* type, content, len), meaning to stream the rest in chunks.
CONSTANTS
    h1 = h1
    h2 = h2
    h3 = h3
    Handlers <- MCHandlers
    Null = Null
    Uris = {u1}
    Methods = {GET, POST}
    HTTP_ANY = HTTP_ANY
    Versions = {0, 1}
    Sizes = {0, 1}
    MaxCalls = 3
    CallerMay <- StreamingSendP
    CONTENT_LENGTH_UNKNOWN = CONTENT_LENGTH_UNKNOWN
    CONTENT_LENGTH_NOT_SET = CONTENT_LENGTH_NOT_SET
SPECIFICATION Spec
INVARIANT ResponseFramed

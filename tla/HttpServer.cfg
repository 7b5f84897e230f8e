\* Four sockets and three places in the list (eight and four in the code): the
\* list can be full, and a removal can move a client or not.
SPECIFICATION Spec
CONSTANTS
    Fds = {f1, f2, f3, f4}
    NoFd = none
    MAX_WS_CLIENTS = 3
    Httpd = httpd
    Senders = {app}
    Modes = {FALSE}
INVARIANTS
    TypeOK
    ListSound
    EveryClientListed
PROPERTIES
    BroadcastComplete

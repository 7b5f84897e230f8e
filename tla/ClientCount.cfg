\* A broadcasting task beside httpd's, against http_server.h:109.
SPECIFICATION Spec
CONSTANTS
    Fds = {f1, f2, f3}
    NoFd = none
    MAX_WS_CLIENTS = 2
    Httpd = httpd
    Senders = {app}
    Modes = {TRUE}
INVARIANT
    ClientCountTruthful

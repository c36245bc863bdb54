SPECIFICATION MCSpec
CONSTANTS
    Share = {s1, s2}
    Nobody = Nobody
    MaxSession = 2
    MaxConnect = 3
    Works = {w1, w2}
    Main = main
    NoHandle = NoHandle
    curl_limit = 2
    opt_lowmem = FALSE
    opt_submit_stale = TRUE
    Messages = {"notify", "message", "reconnect", "empty"}
    RECVSIZE = 2
    MaxMessages = 2
    MaxRefused = 1
    MaxSendFails = 1
INVARIANTS FreedOnce CountedWhenFreed LinesWhole HandlesCounted CountedOnce
PROPERTIES SharesMoveOn Reconnects FetchGoesOn
CHECK_DEADLOCK FALSE

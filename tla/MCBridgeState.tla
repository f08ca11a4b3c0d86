--------------------------- MODULE MCBridgeState ---------------------------
(* BridgeState for TLC.  The scenarios put together the events that bear on *)
(* one question: what the user is told, what a resync compares with, and    *)
(* what is left of a deleted session.                                       *)
EXTENDS BridgeState, TLC

Reporting ==
    [AggressiveReconnect |-> TRUE, busy |-> 1,
     Events |-> {"ListenFatalError", "ListenTemporaryError", "ListenRecovered", "Unpaired", "PingFailed",
                 "PhoneNotResponding", "PhoneRespondingAgain", "AccountChange", "InfoAlert", "Settings",
                 "BrowserInactive", "BrowserActive"}]

Resyncing ==
    [AggressiveReconnect |-> FALSE, busy |-> 2,
     Events |-> {"Unpaired", "PostConnect", "NoDataReceived", "DataReceived", "BrowserActive",
                 "BrowserInactive", "DatabaseSyncComplete", "HackySetActiveMayFail", "InfoAlert"}]

Deletion ==
    [AggressiveReconnect |-> FALSE, busy |-> 2,
     Events |-> {"Unpaired", "BrowserActive", "HackySetActiveMayFail", "LogoutRemote", "AuthTokenRefreshed"}]

Running == {Reporting, Resyncing}
Deleted == {Deletion}

TaskSymmetry == Permutations(Tasks)
============================================================================

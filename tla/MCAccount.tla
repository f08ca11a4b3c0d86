------------------------------ MODULE MCAccount ------------------------------
(* A login process, and then the tokens and push registration of the login  *)
(* it made.  All flows are followed to their end, tokens only for the login *)
(* whose first QR code was scanned.                                         *)
EXTENDS Login, TokenPush

Init == LoginInit /\ PushInit

LoggedIn == running /\ flow = "qr" /\ attempts = MaxAttempts

Next ==
    \/ LoginNext /\ UNCHANGED pushVars
    \/ LoggedIn /\ PushNext /\ UNCHANGED loginVars

Spec == Init /\ [][Next]_<<loginVars, pushVars>> /\ LoginFairness
==============================================================================

--------------------------- MODULE AccountProofs ----------------------------
(***************************************************************************)
(* Proofs about Login and TokenPush, for every number of QR codes, every   *)
(* set of push endpoints and every number of tokens and restarts.  Each    *)
(* component is proved about on its own; the account of MCAccount is both. *)
(***************************************************************************)
EXTENDS MCAccount, TLAPS

LoginSpec == LoginInit /\ [][LoginNext]_loginVars
PushSpec == PushInit /\ [][PushNext]_pushVars
-----------------------------------------------------------------------------
RefresherType ==
    [pc : {"idle", "sent", "answered", "failed", "done"}, keys : URLs, token : Nat]
ClientType == [token : Nat, expiring : BOOLEAN, keys : URLs]
ServerType == [token : Nat, keys : URLs, enabled : BOOLEAN]
StoredType == [token : Nat, keys : URLs]
RegisterType ==
    [pc : {"idle", "refresh", "settings", "save"}, token : URLs, needsUpdate : BOOLEAN]

PushType ==
    /\ refresher \in [Refreshers -> RefresherType]
    /\ client \in ClientType
    /\ server \in ServerType
    /\ meta \in URLs
    /\ stored \in StoredType
    /\ register \in RegisterType
    /\ clean \in BOOLEAN
    /\ resets \in Nat

(* A registration refreshes the token for as long as its refresher runs,   *)
(* and until it ends the endpoint in memory is the one it registers.       *)
RegisterInv ==
    /\ register.pc = "refresh" <=> refresher["push"].pc # "idle"
    /\ register.pc # "idle" => meta = register.token /\ register.token \in Endpoints
    /\ register.pc = "save" => client.keys = register.token

(* The server has the endpoint: of the registration in progress once its   *)
(* refresh has been answered, and of the client between registrations; all *)
(* unless an older refresh overtook it or a registration failed.           *)
ReachInv ==
    clean =>
        /\ register.pc \in {"settings", "save"} => server.keys = register.token
        /\ register.pc = "refresh" /\ refresher["push"].pc \in {"answered", "done"} =>
               server.keys = register.token
        /\ register.pc = "idle" /\ client.keys \in Endpoints => server.keys = client.keys

PushInv == PushType /\ RegisterInv /\ NextRefreshRepairs /\ ReachInv

LEMMA PushInvInit == PushInit => PushInv
<1> SUFFICES ASSUME PushInit PROVE PushInv
  OBVIOUS
<1>1. PushType
  BY DEF PushInit, PushType, RefresherType, ClientType, ServerType, StoredType, RegisterType,
         IdleRefresher, Refreshers, URLs
<1>2. refresher["push"].pc = "idle" /\ register.pc = "idle" /\ meta = "none" /\ client.keys = "none"
  BY DEF PushInit, Refreshers, IdleRefresher
<1>3. QED
  BY <1>1, <1>2, TokenPushAssumption DEF PushInv, RegisterInv, NextRefreshRepairs, ReachInv

LEMMA PushFields ==
  ASSUME PushType
  PROVE  /\ client.token \in Nat /\ client.keys \in URLs /\ client.expiring \in BOOLEAN
         /\ server.token \in Nat /\ server.keys \in URLs
         /\ stored.token \in Nat /\ stored.keys \in URLs
         /\ register.token \in URLs
         /\ \A r \in Refreshers : refresher[r].keys \in URLs /\ refresher[r].token \in Nat
BY DEF PushType, ClientType, ServerType, StoredType, RegisterType, RefresherType

LEMMA PushTypeStep ==
  ASSUME PushType, PushNext
  PROVE  PushType'
<1> USE DEF PushType
<1>0. /\ IdleRefresher \in RefresherType
      /\ [IdleRefresher EXCEPT !.pc = "failed"] \in RefresherType
      /\ [IdleRefresher EXCEPT !.pc = "done"] \in RefresherType
      /\ \A url \in URLs : [pc |-> "sent", keys |-> url, token |-> 0] \in RefresherType
      /\ "poll" \in Refreshers /\ "push" \in Refreshers
      /\ Endpoints \subseteq URLs /\ "" \in URLs
  BY DEF IdleRefresher, RefresherType, URLs, Refreshers
<1>1. CASE Expires
  BY <1>1 DEF Expires, ClientType
<1>2. CASE refreshAuthToken
  <2>1. KeysToSend("none") \in URLs
    BY PushFields DEF KeysToSend
  <2>2. refresher' \in [Refreshers -> RefresherType]
    BY <1>0, <1>2, <2>1 DEF refreshAuthToken
  <2>3. QED
    BY <1>2, <2>2 DEF refreshAuthToken
<1>3. CASE PollGoesOn
  BY <1>0, <1>3 DEF PollGoesOn
<1>4. CASE Saves
  <2>1. stored' \in StoredType
    BY <1>4, PushFields DEF Saves, StoredType
  <2>2. QED
    BY <1>4, <2>1 DEF Saves
<1>5. ASSUME NEW r \in Refreshers, ServerAnswers(r)
      PROVE  PushType'
  <2>1. server' \in ServerType
    <3> DEFINE known == IF refresher[r].keys = "none" THEN server.keys ELSE refresher[r].keys
    <3>1. known \in URLs /\ server.token + 1 \in Nat
      BY PushFields
    <3>2. server' = [server EXCEPT !.token = server.token + 1, !.keys = known]
      BY <1>5 DEF ServerAnswers
    <3>3. QED
      BY <3>1, <3>2 DEF ServerType
  <2>2. [refresher[r] EXCEPT !.pc = "answered", !.token = server.token + 1] \in RefresherType
    <3>1. refresher[r] \in RefresherType /\ server.token + 1 \in Nat
      BY PushFields
    <3>2. QED
      BY <3>1 DEF RefresherType
  <2>3. refresher' = [refresher EXCEPT ![r] = [refresher[r] EXCEPT !.pc = "answered", !.token = server.token + 1]]
    BY <1>5 DEF ServerAnswers
  <2>4. refresher' \in [Refreshers -> RefresherType]
    BY <2>2, <2>3
  <2>5. clean' \in BOOLEAN
    BY <1>5 DEF ServerAnswers
  <2>6. QED
    BY <1>5, <2>1, <2>4, <2>5 DEF ServerAnswers
<1>6. ASSUME NEW r \in Refreshers, RefreshFails(r)
      PROVE  PushType'
  BY <1>0, <1>6 DEF RefreshFails
<1>7. ASSUME NEW r \in Refreshers, updateTachyonAuthToken(r)
      PROVE  PushType'
  <2>1. client' \in ClientType
    BY <1>7, PushFields DEF updateTachyonAuthToken, ClientType
  <2>2. refresher' \in [Refreshers -> RefresherType]
    BY <1>0, <1>7 DEF updateTachyonAuthToken
  <2>3. QED
    BY <1>7, <2>1, <2>2 DEF updateTachyonAuthToken
<1>8. ASSUME NEW url \in Endpoints, RegisterPushNotifications(url)
      PROVE  PushType'
  <2>1. KeysToSend(url) \in URLs
    BY <1>0, PushFields DEF KeysToSend
  <2>2. refresher' \in [Refreshers -> RefresherType]
    BY <1>0, <1>8, <2>1 DEF RegisterPushNotifications
  <2>3. register' \in RegisterType
    BY <1>0, <1>8 DEF RegisterPushNotifications, RegisterType
  <2>4. QED
    BY <1>0, <1>8, <2>2, <2>3 DEF RegisterPushNotifications
<1>9. CASE RegisterFails
  <2>1. register' \in RegisterType
    BY <1>9 DEF RegisterFails, RegisterType
  <2>2. QED
    BY <1>0, <1>9, <2>1 DEF RegisterFails
<1>10. CASE RegisterRefreshed
  <2>1. register' \in RegisterType
    BY <1>10 DEF RegisterRefreshed, RegisterType
  <2>2. QED
    BY <1>0, <1>10, <2>1 DEF RegisterRefreshed
<1>11. CASE UpdateSettings
  <2>1. register' \in RegisterType
    BY <1>11 DEF UpdateSettings, RegisterType
  <2>2. client' \in ClientType
    BY <1>11, PushFields DEF UpdateSettings, KeysKept, ClientType
  <2>3. server' \in ServerType
    BY <1>11 DEF UpdateSettings, ServerType
  <2>4. QED
    BY <1>11, <2>1, <2>2, <2>3 DEF UpdateSettings
<1>12. CASE SaveAfterRegister
  <2>1. register' \in RegisterType
    BY <1>12 DEF SaveAfterRegister, RegisterType
  <2>2. [token |-> client.token, keys |-> meta] \in StoredType
    BY PushFields DEF StoredType
  <2>3. QED
    BY <1>12, <2>1, <2>2 DEF SaveAfterRegister
<1>13. CASE ResetClient
  <2>1. client' \in ClientType
    BY <1>13 DEF ResetClient, ClientType
  <2>2. refresher' \in [Refreshers -> RefresherType]
    BY <1>0, <1>13 DEF ResetClient
  <2>3. resets' \in Nat
    BY <1>13 DEF ResetClient
  <2>4. QED
    BY <1>13, <2>1, <2>2, <2>3 DEF ResetClient
<1>14. CASE RestartProcess
  <2>1. client' \in ClientType
    BY <1>14, PushFields DEF RestartProcess, ClientType
  <2>2. register' \in RegisterType
    BY <1>14 DEF RestartProcess, RegisterType
  <2>3. refresher' \in [Refreshers -> RefresherType]
    BY <1>0, <1>14 DEF RestartProcess
  <2>4. meta' \in URLs /\ clean' \in BOOLEAN
    BY <1>14, PushFields DEF RestartProcess
  <2>5. QED
    <3>1. resets' = resets + 1 /\ UNCHANGED <<server, stored>>
      BY <1>14 DEF RestartProcess
    <3>2. QED
      BY <2>1, <2>2, <2>3, <2>4, <3>1
<1>15. QED
  BY <1>1, <1>2, <1>3, <1>4, <1>5, <1>6, <1>7, <1>8, <1>9, <1>10, <1>11, <1>12, <1>13, <1>14
     DEF PushNext

(* What a step does to the refresher of the registration.                  *)
Push == refresher["push"].pc

LEMMA PushInvStep ==
  ASSUME PushInv, PushType', PushNext
  PROVE  PushInv'
<1> USE TokenPushAssumption
<1>0. /\ refresher \in [Refreshers -> RefresherType] /\ "push" \in Refreshers
      /\ IdleRefresher.pc = "idle"
      /\ [IdleRefresher EXCEPT !.pc = "failed"].pc = "failed"
      /\ [IdleRefresher EXCEPT !.pc = "done"].pc = "done"
  BY DEF PushInv, PushType, Refreshers, IdleRefresher
<1>c. client \in ClientType /\ register \in RegisterType /\ server \in ServerType
  BY DEF PushInv, PushType
<1>1. CASE Expires
  <2>1. client'.keys = client.keys
    BY <1>1, <1>c DEF Expires, ClientType
  <2>2. QED
    BY <1>1, <2>1 DEF Expires, PushInv, RegisterInv, NextRefreshRepairs, ReachInv
<1>2. CASE refreshAuthToken \/ PollGoesOn
  <2>1. Push' = Push
    BY <1>0, <1>2 DEF refreshAuthToken, PollGoesOn, Push
  <2>2. UNCHANGED <<client, server, meta, stored, register, clean>>
    BY <1>2 DEF refreshAuthToken, PollGoesOn
  <2>3. QED
    BY <2>1, <2>2 DEF PushInv, RegisterInv, NextRefreshRepairs, ReachInv, Push
<1>4. CASE Saves
  BY <1>4 DEF Saves, PushInv, RegisterInv, NextRefreshRepairs, ReachInv
<1>5. ASSUME NEW r \in Refreshers, ServerAnswers(r)
      PROVE  PushInv'
  <2>1. UNCHANGED <<client, meta, register>>
    BY <1>5 DEF ServerAnswers
  <2>2. Push' = Push \/ (Push = "sent" /\ Push' = "answered")
    <3>1. refresher'[r].pc = "answered" /\ \A q \in Refreshers : q # r => refresher'[q] = refresher[q]
      BY <1>0, <1>5 DEF ServerAnswers, RefresherType
    <3>2. refresher[r].pc = "sent"
      BY <1>5 DEF ServerAnswers
    <3>3. CASE r = "push"
      BY <3>1, <3>2, <3>3 DEF Push
    <3>4. CASE r # "push"
      BY <1>0, <3>1, <3>4 DEF Push
    <3>5. QED
      BY <3>3, <3>4
  <2>3. RegisterInv' /\ NextRefreshRepairs'
    BY <2>1, <2>2 DEF PushInv, RegisterInv, NextRefreshRepairs, Push
  <2>4. ASSUME clean', register.pc # "idle"
        PROVE  server'.keys = register.token
    <3>1. refresher[r].keys = register.token
      BY <1>5, <2>4 DEF ServerAnswers
    <3>2. refresher[r].keys # "none"
      BY <2>4, <3>1 DEF PushInv, RegisterInv
    <3>3. QED
      BY <1>5, <1>c, <3>1, <3>2 DEF ServerAnswers, ServerType
  <2>5. ASSUME clean', register.pc = "idle", client.keys \in Endpoints
        PROVE  server'.keys = client.keys
    <3>1. refresher[r].keys = client.keys
      BY <1>5, <2>5 DEF ServerAnswers
    <3>2. refresher[r].keys # "none"
      BY <2>5, <3>1
    <3>3. QED
      BY <1>5, <1>c, <3>1, <3>2 DEF ServerAnswers, ServerType
  <2>6. ReachInv'
    BY <2>1, <2>4, <2>5 DEF ReachInv
  <2>7. QED
    BY <2>3, <2>6 DEF PushInv
<1>6. ASSUME NEW r \in Refreshers, RefreshFails(r)
      PROVE  PushInv'
  <2>1. UNCHANGED <<client, server, meta, register, clean>>
    BY <1>6 DEF RefreshFails
  <2>2. Push' = Push \/ (Push \in {"sent", "answered"} /\ Push' = "failed")
    <3>1. CASE r = "push"
      BY <1>0, <1>6, <3>1 DEF RefreshFails, Push
    <3>2. CASE r # "push"
      BY <1>0, <1>6, <3>2 DEF RefreshFails, Push
    <3>3. QED
      BY <3>1, <3>2
  <2>3. QED
    BY <2>1, <2>2 DEF PushInv, RegisterInv, NextRefreshRepairs, ReachInv, Push
<1>7. ASSUME NEW r \in Refreshers, updateTachyonAuthToken(r)
      PROVE  PushInv'
  <2>1. UNCHANGED <<server, meta, register, clean>> /\ client'.keys = client.keys
    BY <1>7, <1>c DEF updateTachyonAuthToken, ClientType
  <2>2. Push' = Push \/ (Push = "answered" /\ Push' = "done")
    <3>1. CASE r = "push"
      BY <1>0, <1>7, <3>1 DEF updateTachyonAuthToken, Push
    <3>2. CASE r # "push"
      BY <1>0, <1>7, <3>2 DEF updateTachyonAuthToken, Push
    <3>3. QED
      BY <3>1, <3>2
  <2>3. QED
    BY <2>1, <2>2 DEF PushInv, RegisterInv, NextRefreshRepairs, ReachInv, Push
<1>8. ASSUME NEW url \in Endpoints, RegisterPushNotifications(url)
      PROVE  PushInv'
  <2>1. /\ UNCHANGED <<client, server, clean>> /\ meta' = url /\ register'.token = url
        /\ register'.pc = IF NeedsRefresh(url) THEN "refresh" ELSE "settings"
    BY <1>8 DEF RegisterPushNotifications
  <2>2. register.pc = "idle" /\ Push = "idle"
    BY <1>8 DEF RegisterPushNotifications, PushInv, RegisterInv, Push
  <2>3. Push' = IF NeedsRefresh(url) THEN "sent" ELSE "idle"
    BY <1>0, <1>8, <2>2 DEF RegisterPushNotifications, Push
  <2>4. ~NeedsRefresh(url) => client.keys = url
    BY DEF NeedsRefresh
  <2>5. QED
    BY <2>1, <2>2, <2>3, <2>4 DEF PushInv, RegisterInv, NextRefreshRepairs, ReachInv, Push
<1>9. CASE RegisterFails
  <2>1. register'.pc = "idle" /\ meta' = "" /\ ~clean'
    BY <1>9, <1>c DEF RegisterFails, RegisterType
  <2>2. Push' = "idle"
    BY <1>0, <1>9 DEF RegisterFails, Push
  <2>3. QED
    BY <2>1, <2>2 DEF PushInv, RegisterInv, NextRefreshRepairs, ReachInv, Push
<1>10. CASE RegisterRefreshed
  <2>1. /\ register.pc = "refresh" /\ register'.pc = "settings" /\ register'.token = register.token
        /\ UNCHANGED <<client, server, meta, clean>>
    BY <1>10, <1>c DEF RegisterRefreshed, RegisterType
  <2>2. Push = "done" /\ Push' = "idle"
    BY <1>0, <1>10 DEF RegisterRefreshed, Push
  <2>3. QED
    BY <2>1, <2>2 DEF PushInv, RegisterInv, NextRefreshRepairs, ReachInv, Push
<1>11. CASE UpdateSettings
  <2>1. /\ register.pc = "settings" /\ register'.pc \in {"save", "idle"} /\ register'.token = register.token
        /\ UNCHANGED <<meta, clean, refresher>>
    BY <1>11, <1>c DEF UpdateSettings, RegisterType
  <2>2. server'.keys = server.keys
    BY <1>11, <1>c DEF UpdateSettings, ServerType
  <2>3. client'.keys = register.token
    BY <1>11, <1>c DEF UpdateSettings, KeysKept, ClientType
  <2>4. QED
    BY <2>1, <2>2, <2>3 DEF PushInv, RegisterInv, NextRefreshRepairs, ReachInv
<1>12. CASE SaveAfterRegister
  <2>1. /\ register.pc = "save" /\ register'.pc = "idle" /\ register'.token = register.token
        /\ UNCHANGED <<refresher, client, server, meta, clean>>
    BY <1>12, <1>c DEF SaveAfterRegister, RegisterType
  <2>2. QED
    BY <2>1 DEF PushInv, RegisterInv, NextRefreshRepairs, ReachInv
<1>13. CASE ResetClient
  <2>1. /\ register.pc = "idle" /\ client'.keys = meta /\ UNCHANGED <<server, meta, register, clean>>
    BY <1>13, <1>c DEF ResetClient, ClientType
  <2>2. Push' = Push
    BY <1>0, <1>13 DEF ResetClient, Push
  <2>3. QED
    BY <2>1, <2>2 DEF PushInv, RegisterInv, NextRefreshRepairs, ReachInv, Push
<1>14. CASE RestartProcess
  <2>1. register'.pc = "idle" /\ client'.keys = meta' /\ ~clean'
    BY <1>14, <1>c DEF RestartProcess, RegisterType
  <2>2. Push' = "idle"
    BY <1>0, <1>14 DEF RestartProcess, Push
  <2>3. QED
    BY <2>1, <2>2 DEF PushInv, RegisterInv, NextRefreshRepairs, ReachInv, Push
<1>15. QED
  BY <1>1, <1>2, <1>4, <1>5, <1>6, <1>7, <1>8, <1>9, <1>10, <1>11, <1>12, <1>13, <1>14 DEF PushNext

(* Whatever the order of refreshes, answers, registrations, failures,      *)
(* resets and restarts: once a registration has succeeded the server       *)
(* pushes to its endpoint, or will after the next refresh                  *)
(* (RegisterPushNotifications, RegisterPush, refreshAuthToken).            *)
THEOREM PushRepairedThm == PushSpec => []PushRepaired
<1>1. PushInv /\ [PushNext]_pushVars => PushInv'
  <2> SUFFICES ASSUME PushInv, [PushNext]_pushVars PROVE PushInv'
    OBVIOUS
  <2>1. CASE PushNext
    BY <2>1, PushInvStep, PushTypeStep DEF PushInv
  <2>2. CASE UNCHANGED pushVars
    BY <2>2 DEF pushVars, PushInv, PushType, RegisterInv, NextRefreshRepairs, ReachInv
  <2>3. QED
    BY <2>1, <2>2
<1>2. PushInv => PushRepaired
  BY DEF PushInv, NextRefreshRepairs, ReachInv, PushRepaired, PushReaches
<1>3. QED
  BY <1>1, <1>2, PushInvInit, PTL DEF PushSpec
-----------------------------------------------------------------------------
AuthType ==
    [token : {"none", "relay", "paired", "gaia"}, devices : BOOLEAN, cookies : BOOLEAN,
     DestRegID : BOOLEAN, keys : {"local", "none"} \cup Versions, PairingID : BOOLEAN]
PhoneType ==
    [state : {"none", "paired", "asked", "refused", "cancelled", "cancel lost"},
     keys : {"local", "none"} \cup Versions]
OldType == [cookies : {"old", "new", "none"}, saved : {"old", "new", "none"}]

LoginType ==
    /\ auth \in AuthType /\ saved \in AuthType
    /\ sess \in Versions
    /\ phone \in PhoneType
    /\ old \in OldType
    /\ poll \in {"none", "opening", "open", "refused", "closed", "blocked"}

(* The steps of the two ways to pair do not mix, and without a poll there  *)
(* is none to leave behind.                                                *)
PlaceInv ==
    /\ flow = "qr" => pc \in {"start", "shown", "waiting", "finish login", "connect", "over"}
    /\ flow # "qr" => pc \notin {"start", "shown", "waiting"}
    /\ pc \in {"start", "cookies", "verify", "save old", "config", "sign in"} => poll = "none"
    /\ pc \in {"connect", "over"} => poll \notin {"opening", "open"}
    /\ running => pc = "over"

(* The keys the phone has are those of the code, or of the derivation the  *)
(* session agreed on, and it is left asking only by Cancel.                *)
PhoneInv ==
    /\ flow = "qr" => auth.keys = "local" /\ phone.state \in {"none", "paired"}
    /\ phone.state = "paired" => phone.keys = IF flow = "qr" THEN "local" ELSE sess
    /\ phone.state = "asked" => \/ pc \in {"init", "emoji", "finish"}
                                \/ pc = "over" /\ result = "cancelled"
    /\ flow # "qr" /\ phone.state = "paired" => pc \in {"finish", "finish login", "connect", "over"}

(* The poller is in the callback only when a phone has paired; a login that*)
(* is being finished has taken it out.                                     *)
BlockedInv ==
    poll = "blocked" =>
        /\ flow = "qr" /\ phone.state = "paired"
        /\ auth.token = "paired" /\ auth.devices = TRUE
        /\ pc \in {"shown", "waiting", "over"}
        /\ pc = "over" => result # "complete"

(* What a session needs before it is saved, as far as the login has come.  *)
Usable(ad) ==
    /\ phone.state = "paired" /\ ad.keys = phone.keys
    /\ ad.token \in {"paired", "gaia"} /\ ad.devices = TRUE
    /\ flow # "qr" => ad.PairingID = TRUE /\ ad.cookies = TRUE

AuthInv ==
    /\ pc \in {"poll", "init", "emoji", "finish"} =>
           auth.token = "gaia" /\ auth.devices = TRUE /\ auth.cookies = TRUE
    /\ pc = "sign in" => auth.cookies = TRUE
    /\ pc \in {"finish login", "connect"} => Usable(auth)
    /\ pc = "connect" \/ running => Usable(saved)

CookieInv == old.cookies = "new" => account = "same" \/ pc = "verify"

LoginInv == LoginType /\ PlaceInv /\ PhoneInv /\ BlockedInv /\ AuthInv /\ CookieInv

LEMMA LoginInvInit == LoginInit => LoginInv
<1> SUFFICES ASSUME LoginInit PROVE LoginInv
  OBVIOUS
<1>1. LoginType
  BY DEF LoginInit, LoginType, AuthType, PhoneType, OldType, NewAuthData, NoAuth, Versions
<1>2. /\ pc = IF flow = "qr" THEN "start" ELSE "cookies"
      /\ poll = "none" /\ phone.state = "none" /\ old.cookies = "old" /\ ~running
      /\ auth.keys = "local"
  BY DEF LoginInit, NewAuthData
<1>3. QED
  BY <1>1, <1>2 DEF LoginInv, PlaceInv, PhoneInv, BlockedInv, AuthInv, CookieInv

LEMMA DisconnectedIs ==
  ASSUME LoginType
  PROVE  /\ Disconnected \in {"none", "refused", "closed", "blocked"}
         /\ Disconnected = "blocked" <=> poll = "blocked"
BY DEF LoginType, Disconnected

(* Assignments to AuthData.                                                *)
LEMMA AuthFields ==
  ASSUME NEW ad \in AuthType
  PROVE  /\ \A t \in {"relay", "paired", "gaia"} : [ad EXCEPT !.token = t] \in AuthType
         /\ \A t \in {"relay", "paired", "gaia"} :
               [ad EXCEPT !.token = t, !.devices = TRUE] \in AuthType
         /\ [ad EXCEPT !.token = "gaia", !.devices = TRUE, !.DestRegID = TRUE] \in AuthType
         /\ \A v \in Versions : [ad EXCEPT !.keys = v, !.PairingID = TRUE] \in AuthType
<1>1. \A t \in {"relay", "paired", "gaia"} : [ad EXCEPT !.token = t] \in AuthType
  BY DEF AuthType
<1>2. \A t \in {"relay", "paired", "gaia"} : [ad EXCEPT !.token = t, !.devices = TRUE] \in AuthType
  BY DEF AuthType
<1>3. [ad EXCEPT !.token = "gaia", !.devices = TRUE, !.DestRegID = TRUE] \in AuthType
  BY DEF AuthType
<1>4. \A v \in Versions : [ad EXCEPT !.keys = v, !.PairingID = TRUE] \in AuthType
  BY DEF AuthType
<1>5. QED
  BY <1>1, <1>2, <1>3, <1>4

LEMMA LoginTypeStep ==
  ASSUME LoginType, LoginNext
  PROVE  LoginType'
<1> USE DisconnectedIs DEF LoginType
<1>0. /\ [phone EXCEPT !.state = "cancelled"] \in PhoneType
      /\ [phone EXCEPT !.state = "cancel lost"] \in PhoneType
      /\ [phone EXCEPT !.state = "refused"] \in PhoneType
      /\ [state |-> "asked", keys |-> "none"] \in PhoneType
      /\ [state |-> "paired", keys |-> sess] \in PhoneType
      /\ [state |-> "paired", keys |-> auth.keys] \in PhoneType
  BY DEF PhoneType, AuthType
<1>1. CASE ReloginFails
  BY <1>1 DEF ReloginFails, OldType
<1>2. CASE ReloginSaves
  BY <1>2 DEF ReloginSaves, Fail, OldType
<1>3. CASE OldSaves
  BY <1>3 DEF OldSaves, OldType
<1>4. CASE SubmitCookies
  BY <1>4 DEF SubmitCookies, OldType
<1>5. CASE finishLogin
  <2>1. old' \in OldType
    <3>1. [cookies |-> "new", saved |-> "new"] \in OldType
      BY DEF OldType
    <3>2. QED
      BY <1>5, <3>1 DEF finishLogin
  <2>2. saved' \in AuthType /\ poll' = Disconnected /\ UNCHANGED <<auth, sess, phone>>
    BY <1>5 DEF finishLogin
  <2>3. QED
    BY <2>1, <2>2
<1>6. CASE StartLogin
  BY <1>6, AuthFields DEF StartLogin
<1>7. CASE FetchConfig
  <2>1. [NewAuthData EXCEPT !.cookies = TRUE] \in AuthType
    BY DEF AuthType, NewAuthData, Versions
  <2>2. QED
    BY <1>7, <2>1 DEF FetchConfig
<1>8. CASE signInGaiaGetToken
  BY <1>8, AuthFields DEF signInGaiaGetToken, FailDisconnected, Fail
<1>9. CASE FinishGaiaPairing
  BY <1>9, AuthFields DEF FinishGaiaPairing, FailDisconnected, Fail, DerivedKeys
<1>10. CASE completePairing
  BY <1>10, AuthFields DEF completePairing
<1>11. CASE PhoneScans
  BY <1>0, <1>11 DEF PhoneScans
<1>12. CASE PhoneAsks
  BY <1>0, <1>12 DEF PhoneAsks
<1>13. CASE PhoneAnswers
  BY <1>0, <1>13 DEF PhoneAnswers
<1>14. CASE InitFails
  BY <1>0, <1>14 DEF InitFails, cancelGaiaPairing, FailDisconnected, Fail
<1>15. CASE FinishCancelled
  BY <1>0, <1>15 DEF FinishCancelled, cancelGaiaPairing, FailDisconnected, Fail
<1>16. CASE FinishNotSent
  BY <1>0, <1>16 DEF FinishNotSent, FailDisconnected, Fail
<1>17. ASSUME NEW v \in Versions, NEW c \in Versions, NEW ok \in BOOLEAN, ProcessServerInit(v, c, ok)
       PROVE  LoginType'
  BY <1>0, <1>17 DEF ProcessServerInit, cancelGaiaPairing, FailDisconnected, Fail
<1>18. CASE PollOpens \/ PairSuccess \/ FinishRefused \/ WaitCancelled \/ Cancel \/ QRTimesOut
  BY <1>18 DEF PollOpens, PairSuccess, FinishRefused, WaitCancelled, Cancel, QRTimesOut,
                FailDisconnected, Fail
<1>19. CASE WaitQR \/ WaitGoogle \/ ReloginConnects \/ StartFails \/ FirstBody \/ ConnectLogin
  BY <1>19 DEF WaitQR, WaitGoogle, ReloginConnects, StartFails, FirstBody, ConnectLogin
<1>20. QED
  BY <1>1, <1>2, <1>3, <1>4, <1>5, <1>6, <1>7, <1>8, <1>9, <1>10, <1>11, <1>12, <1>13, <1>14, <1>15, <1>16, <1>17, <1>18, <1>19
     DEF LoginNext, Waits, ReloginStep, StartStep, QRStep, FinishStep

(* A login process that gives up.                                          *)
LEMMA GivesUp ==
  ASSUME LoginInv, LoginType', pc # "over", pc # "verify",
         pc' = "over", result' # "complete", poll' = Disconnected,
         UNCHANGED <<flow, account, saved, running>>,
         old'.cookies = old.cookies,
         auth' = auth \/ (flow # "qr" /\ phone.state # "paired"),
         \/ /\ UNCHANGED <<phone, sess>>
            /\ phone.state = "asked" => result' = "cancelled"
         \/ flow # "qr" /\ phone'.state \notin {"paired", "asked"}
  PROVE  LoginInv'
<1>1. /\ Disconnected \in {"none", "refused", "closed", "blocked"}
      /\ Disconnected = "blocked" <=> poll = "blocked"
  BY DisconnectedIs DEF LoginInv
<1>2. ~running'
  BY DEF LoginInv, PlaceInv
<1>3. PlaceInv'
  BY <1>1, <1>2 DEF LoginInv, PlaceInv
<1>4. PhoneInv'
  BY DEF LoginInv, PhoneInv
<1>5. BlockedInv'
  BY <1>1 DEF LoginInv, BlockedInv
<1>6. AuthInv' /\ CookieInv'
  BY <1>2 DEF LoginInv, AuthInv, CookieInv
<1>7. QED
  BY <1>3, <1>4, <1>5, <1>6 DEF LoginInv

LEMMA LoginInvStep ==
  ASSUME LoginInv, LoginType', LoginNext
  PROVE  LoginInv'
<1> USE DEF LoginInv
<1>0. auth \in AuthType /\ phone \in PhoneType /\ old \in OldType /\ (pc # "over" => ~running)
  BY DEF LoginType, PlaceInv
<1>d. Disconnected \in {"none", "refused", "closed", "blocked"} /\ (Disconnected = "blocked" <=> poll = "blocked")
  BY DisconnectedIs
<1>n. poll = "none" => Disconnected = poll
  BY DEF Disconnected
<1>1. CASE WaitQR \/ WaitGoogle \/ FirstBody
  <2>1. UNCHANGED <<flow, account, result, auth, sess, poll, phone, old, saved, running>>
    BY <1>1 DEF WaitQR, WaitGoogle, FirstBody
  <2>2. \/ pc = "shown" /\ pc' = "waiting"
        \/ pc = "emoji" /\ pc' = "finish"
        \/ pc = "poll" /\ pc' = "init"
    BY <1>1 DEF WaitQR, WaitGoogle, FirstBody
  <2>3. QED
    BY <2>1, <2>2 DEF PlaceInv, PhoneInv, BlockedInv, AuthInv, Usable, CookieInv
<1>2. CASE ReloginConnects
  <2>1. UNCHANGED <<flow, account, result, auth, sess, poll, phone, old, saved, running>>
    BY <1>2 DEF ReloginConnects
  <2>2. pc = "verify" /\ pc' = "save old" /\ account = "same"
    BY <1>2 DEF ReloginConnects, Verified
  <2>3. QED
    BY <2>1, <2>2 DEF PlaceInv, PhoneInv, BlockedInv, AuthInv, Usable, CookieInv
<1>3. CASE ReloginFails
  <2>1. UNCHANGED <<flow, account, result, auth, sess, poll, phone, saved, running>>
    BY <1>3 DEF ReloginFails
  <2>2. pc = "verify" /\ pc' = "config" /\ old'.cookies = "none"
    BY <1>0, <1>3 DEF ReloginFails, OldType
  <2>3. QED
    BY <2>1, <2>2 DEF PlaceInv, PhoneInv, BlockedInv, AuthInv, Usable, CookieInv
<1>4. CASE ReloginSaves
  <2>1. UNCHANGED <<flow, account, auth, sess, poll, phone, saved, running>>
    BY <1>4 DEF ReloginSaves
  <2>2. pc = "save old" /\ pc' = "over" /\ old'.cookies = old.cookies
    BY <1>0, <1>4 DEF ReloginSaves, OldType, Fail
  <2>3. QED
    BY <1>0, <2>1, <2>2 DEF PlaceInv, PhoneInv, BlockedInv, AuthInv, Usable, CookieInv
<1>5. CASE StartFails
  BY <1>5, <1>n, GivesUp DEF StartFails, Fail, PlaceInv, PhoneInv
<1>6. CASE StartLogin
  <2>1. UNCHANGED <<flow, account, result, sess, phone, old, saved, running>>
    BY <1>6 DEF StartLogin
  <2>2. pc = "start" /\ pc' = "shown" /\ poll' = "opening" /\ auth'.keys = auth.keys
    BY <1>0, <1>6 DEF StartLogin, AuthType
  <2>3. QED
    BY <1>0, <2>1, <2>2 DEF PlaceInv, PhoneInv, BlockedInv, AuthInv, Usable, CookieInv
<1>7. CASE FetchConfig
  <2>1. UNCHANGED <<flow, account, sess, poll, phone, old, saved, running>> /\ pc = "config"
    BY <1>7 DEF FetchConfig
  <2>2. auth'.cookies = TRUE
    BY <1>7 DEF FetchConfig, NewAuthData
  <2>3. flow # "qr" /\ phone.state \notin {"paired", "asked"} /\ poll = "none"
    BY <2>1 DEF PlaceInv, PhoneInv
  <2>4. CASE pc' = "sign in"
    BY <1>0, <2>1, <2>2, <2>3, <2>4 DEF PlaceInv, PhoneInv, BlockedInv, AuthInv, Usable, CookieInv
  <2>5. CASE Fail("ErrPairStartUnknown")
    BY <1>n, <2>1, <2>3, <2>5, GivesUp DEF Fail
  <2>6. QED
    BY <1>7, <2>4, <2>5 DEF FetchConfig
<1>8. CASE signInGaiaGetToken
  <2>1. UNCHANGED <<flow, account, sess, phone, old, saved, running>> /\ pc = "sign in"
    BY <1>8 DEF signInGaiaGetToken
  <2>2. flow # "qr" /\ phone.state \notin {"paired", "asked"} /\ auth.cookies = TRUE
    BY <2>1 DEF PlaceInv, PhoneInv, AuthInv
  <2>3. CASE /\ auth' = [auth EXCEPT !.token = "gaia", !.devices = TRUE, !.DestRegID = TRUE]
             /\ poll' = "opening" /\ pc' = "poll"
    <3>1. auth'.token = "gaia" /\ auth'.devices = TRUE /\ auth'.cookies = auth.cookies
      BY <1>0, <2>3 DEF AuthType
    <3>2. QED
      BY <1>0, <2>1, <2>2, <2>3, <3>1 DEF PlaceInv, PhoneInv, BlockedInv, AuthInv, Usable, CookieInv
  <2>4. CASE pc' = "over" /\ poll' = Disconnected /\ result' # "complete"
    BY <2>1, <2>2, <2>4, GivesUp
  <2>5. QED
    BY <1>8, <2>3, <2>4 DEF signInGaiaGetToken, FailDisconnected, Fail
<1>10. CASE InitFails \/ FinishCancelled \/ FinishNotSent
  <2>1. UNCHANGED <<flow, account, auth, sess, old, saved, running>> /\ pc \in {"init", "finish"}
    BY <1>10 DEF InitFails, FinishCancelled, FinishNotSent
  <2>2. pc' = "over" /\ poll' = Disconnected /\ result' # "complete"
    BY <1>10 DEF InitFails, FinishCancelled, FinishNotSent, FailDisconnected, Fail
  <2>3. phone'.state \in {"cancelled", "cancel lost"}
    BY <1>0, <1>10 DEF InitFails, FinishCancelled, FinishNotSent, cancelGaiaPairing, PhoneType
  <2>4. flow # "qr"
    BY <2>1 DEF PlaceInv
  <2>5. QED
    BY <2>1, <2>2, <2>3, <2>4, GivesUp
<1>11. ASSUME NEW v \in Versions, NEW c \in Versions, NEW ok \in BOOLEAN, ProcessServerInit(v, c, ok)
       PROVE  LoginInv'
  <2>1. UNCHANGED <<flow, account, auth, old, saved, running>> /\ pc = "init" /\ phone.state = "asked"
    BY <1>11 DEF ProcessServerInit
  <2>2. CASE pc' = "emoji" /\ UNCHANGED <<result, poll, phone>>
    BY <1>0, <2>1, <2>2 DEF PlaceInv, PhoneInv, BlockedInv, AuthInv, Usable, CookieInv
  <2>3. CASE FailDisconnected("ErrPairStartUnknown") /\ cancelGaiaPairing
    <3>1. pc' = "over" /\ poll' = Disconnected /\ result' # "complete"
      BY <2>3 DEF FailDisconnected, Fail
    <3>2. phone'.state \in {"cancelled", "cancel lost"}
      BY <1>0, <2>3 DEF cancelGaiaPairing, PhoneType
    <3>3. flow # "qr"
      BY <2>1 DEF PlaceInv
    <3>4. QED
      BY <2>1, <3>1, <3>2, <3>3, GivesUp
  <2>4. QED
    BY <1>11, <2>2, <2>3 DEF ProcessServerInit
<1>12. CASE PairSuccess
  <2>1. UNCHANGED <<flow, account, result, auth, sess, phone, old, saved, running>>
    BY <1>12 DEF PairSuccess
  <2>2. pc = "waiting" /\ poll = "blocked" /\ poll' = "open" /\ pc' = "finish login"
    BY <1>12 DEF PairSuccess
  <2>3. Usable(auth)'
    BY <2>1, <2>2 DEF BlockedInv, PhoneInv, Usable
  <2>4. QED
    BY <1>0, <2>1, <2>2, <2>3 DEF PlaceInv, PhoneInv, BlockedInv, AuthInv, CookieInv
<1>13. CASE QRTimesOut
  <2>1. UNCHANGED <<flow, account, auth, sess, phone, old, saved, running>> /\ pc = "waiting"
    BY <1>13 DEF QRTimesOut
  <2>2. CASE pc' = "shown" /\ UNCHANGED <<result, poll>>
    BY <1>0, <2>1, <2>2 DEF PlaceInv, PhoneInv, BlockedInv, AuthInv, Usable, CookieInv
  <2>3. CASE pc' = "over" /\ poll' = Disconnected /\ result' # "complete"
    BY <2>1, <2>3, GivesUp DEF PhoneInv
  <2>4. QED
    BY <1>13, <2>2, <2>3 DEF QRTimesOut, FailDisconnected, Fail
<1>14. CASE FinishRefused \/ WaitCancelled \/ Cancel
  <2>1. UNCHANGED <<flow, account, auth, sess, phone, old, saved, running>>
    BY <1>14 DEF FinishRefused, WaitCancelled, Cancel
  <2>2. pc' = "over" /\ poll' = Disconnected /\ result' # "complete"
    BY <1>14 DEF FinishRefused, WaitCancelled, Cancel, FailDisconnected, Fail
  <2>3. /\ pc \in {"finish", "waiting", "shown", "cookies", "emoji"}
        /\ phone.state = "refused" \/ pc = "waiting" \/ result' = "cancelled"
    BY <1>14 DEF FinishRefused, WaitCancelled, Cancel, FailDisconnected, Fail
  <2>4. QED
    BY <2>1, <2>2, <2>3, GivesUp DEF PhoneInv
<1>15. CASE FinishGaiaPairing
  <2>1. UNCHANGED <<flow, account, sess, phone, old, saved, running>> /\ pc = "finish" /\ phone.state = "paired"
    BY <1>15 DEF FinishGaiaPairing
  <2>2. flow # "qr"
    BY <2>1 DEF PlaceInv
  <2>3. CASE /\ auth' = [auth EXCEPT !.keys = DerivedKeys(sess), !.PairingID = TRUE]
             /\ pc' = "finish login" /\ UNCHANGED <<result, poll>>
    <3>1. /\ auth'.keys = sess /\ auth'.PairingID = TRUE
          /\ auth'.token = auth.token /\ auth'.devices = auth.devices /\ auth'.cookies = auth.cookies
      BY <1>0, <2>3 DEF AuthType, DerivedKeys
    <3>2. Usable(auth)'
      BY <2>1, <2>2, <3>1 DEF PhoneInv, AuthInv, Usable
    <3>3. QED
      BY <1>0, <2>1, <2>2, <2>3, <3>2 DEF PlaceInv, PhoneInv, BlockedInv, AuthInv, CookieInv
  <2>4. CASE FailDisconnected("ErrPairWaitUnknown") /\ UNCHANGED auth
    BY <2>1, <2>4, GivesUp DEF FailDisconnected, Fail
  <2>5. QED
    BY <1>15, <2>3, <2>4 DEF FinishGaiaPairing
<1>16. CASE finishLogin
  <2>1. /\ UNCHANGED <<flow, account, auth, sess, phone, running>>
        /\ pc = "finish login" /\ poll' = Disconnected
    BY <1>16 DEF finishLogin
  <2>2. phone.state = "paired" /\ Usable(auth) /\ poll # "blocked"
    BY <2>1 DEF AuthInv, Usable, BlockedInv
  <2>3. CASE pc' = "over" /\ result' # "complete" /\ UNCHANGED <<saved, old>>
    BY <2>1, <2>2, <2>3, GivesUp
  <2>4. CASE /\ saved' = auth /\ pc' = "connect"
             /\ old' = IF flow = "relogin" /\ account = "same"
                       THEN [cookies |-> "new", saved |-> "new"] ELSE old
    <3>1. Usable(auth)' /\ Usable(saved)'
      BY <2>1, <2>2, <2>4 DEF Usable
    <3>2. CookieInv'
      BY <2>1, <2>4 DEF CookieInv
    <3>3. QED
      BY <1>0, <1>d, <2>1, <2>2, <2>4, <3>1, <3>2 DEF PlaceInv, PhoneInv, BlockedInv, AuthInv
  <2>5. QED
    BY <1>16, <2>3, <2>4 DEF finishLogin, Fail
<1>17. CASE ConnectLogin
  <2>1. UNCHANGED <<flow, account, auth, sess, poll, phone, old, saved>>
    BY <1>17 DEF ConnectLogin
  <2>2. pc = "connect" /\ pc' = "over" /\ running' = TRUE
    BY <1>17 DEF ConnectLogin, Fail
  <2>3. Usable(saved)' /\ phone.state = "paired" /\ poll # "blocked"
    BY <2>1, <2>2 DEF AuthInv, Usable, BlockedInv
  <2>4. QED
    BY <2>1, <2>2, <2>3 DEF PlaceInv, PhoneInv, BlockedInv, AuthInv, CookieInv
<1>18. CASE PollOpens
  <2>1. UNCHANGED <<flow, account, pc, result, auth, sess, phone, old, saved, running>>
    BY <1>18 DEF PollOpens
  <2>2. poll = "opening" /\ poll' \in {"open", "refused"}
    BY <1>18 DEF PollOpens
  <2>3. QED
    BY <2>1, <2>2 DEF PlaceInv, PhoneInv, BlockedInv, AuthInv, Usable, CookieInv
<1>19. CASE completePairing
  <2>1. UNCHANGED <<flow, account, pc, result, sess, phone, old, saved, running>>
    BY <1>19 DEF completePairing
  <2>2. flow = "qr" /\ poll = "open" /\ phone.state = "paired" /\ auth.token = "relay" /\ poll' = "blocked"
    BY <1>19 DEF completePairing
  <2>3. auth'.token = "paired" /\ auth'.devices = TRUE /\ auth'.keys = auth.keys
    BY <1>0, <1>19 DEF completePairing, AuthType
  <2>4. pc \in {"shown", "waiting"}
    BY <2>2 DEF PlaceInv, AuthInv, Usable
  <2>5. QED
    BY <1>0, <2>1, <2>2, <2>3, <2>4 DEF PlaceInv, PhoneInv, BlockedInv, AuthInv, Usable, CookieInv
<1>20. CASE PhoneScans
  <2>1. UNCHANGED <<flow, account, pc, result, auth, sess, poll, old, saved, running>>
    BY <1>20 DEF PhoneScans
  <2>2. /\ pc \in {"shown", "waiting"} /\ phone.state = "none"
        /\ phone'.state = "paired" /\ phone'.keys = auth.keys
    BY <1>20 DEF PhoneScans
  <2>3. QED
    BY <1>0, <2>1, <2>2 DEF PlaceInv, PhoneInv, BlockedInv, AuthInv, Usable, CookieInv
<1>21. CASE PhoneAsks \/ PhoneAnswers
  <2>1. UNCHANGED <<flow, account, pc, result, auth, sess, poll, old, saved, running>>
    BY <1>21 DEF PhoneAsks, PhoneAnswers
  <2>2. \/ pc = "init" /\ phone'.state = "asked"
        \/ pc = "finish" /\ phone'.state = "refused"
        \/ pc = "finish" /\ phone'.state = "paired" /\ phone'.keys = sess
    <3>1. PhoneAsks => pc = "init" /\ phone'.state = "asked"
      BY DEF PhoneAsks
    <3>2. [phone EXCEPT !.state = "refused"].state = "refused"
      BY <1>0 DEF PhoneType
    <3>3. ASSUME PhoneAnswers
          PROVE  /\ pc = "finish"
                 /\ \/ phone'.state = "refused"
                    \/ phone'.state = "paired" /\ phone'.keys = sess
      <4>1. CASE phone' = [state |-> "paired", keys |-> sess]
        BY <3>3, <4>1 DEF PhoneAnswers
      <4>2. CASE phone' = [phone EXCEPT !.state = "refused"]
        BY <3>2, <3>3, <4>2 DEF PhoneAnswers
      <4>3. QED
        BY <3>3, <4>1, <4>2 DEF PhoneAnswers
    <3>4. QED
      BY <1>21, <3>1, <3>3
  <2>3. flow # "qr" /\ poll # "blocked" /\ ~running
    BY <1>0, <2>2 DEF PlaceInv, BlockedInv
  <2>4. QED
    BY <2>1, <2>2, <2>3 DEF PlaceInv, PhoneInv, BlockedInv, AuthInv, Usable, CookieInv
<1>23. CASE SubmitCookies
  <2>1. UNCHANGED <<flow, account, result, auth, sess, poll, phone, saved, running>> /\ pc = "cookies"
    BY <1>23 DEF SubmitCookies
  <2>2. pc' = "verify" \/ (pc' = "config" /\ old' = old)
    BY <1>23 DEF SubmitCookies
  <2>3. QED
    BY <1>0, <2>1, <2>2 DEF PlaceInv, PhoneInv, BlockedInv, AuthInv, Usable, CookieInv
<1>24. CASE OldSaves
  <2>1. UNCHANGED <<flow, account, pc, result, auth, sess, poll, phone, saved, running>>
    BY <1>24 DEF OldSaves
  <2>2. old'.cookies = old.cookies
    BY <1>0, <1>24 DEF OldSaves, OldType
  <2>3. QED
    BY <2>1, <2>2 DEF PlaceInv, PhoneInv, BlockedInv, AuthInv, Usable, CookieInv
<1>29. QED
  BY <1>1, <1>2, <1>3, <1>4, <1>5, <1>6, <1>7, <1>8, <1>10, <1>11, <1>12, <1>13, <1>14, <1>15,
     <1>16, <1>17, <1>18, <1>19, <1>20, <1>21, <1>23, <1>24
     DEF LoginNext, Waits, ReloginStep, StartStep, QRStep, FinishStep

(* However a login process ends, by success, failure, timeout, a refusal   *)
(* or a cancellation between any two steps: a login reported complete is   *)
(* usable, the phone is not left asking, no poll of the pairing client     *)
(* goes on, and an existing login keeps new cookies only if they are of    *)
(* its own account (Wait, Cancel, SubmitCookies, finishLogin).             *)
THEOREM LoginSoundThm == LoginSpec => []LoginSound
<1>1. LoginInv /\ [LoginNext]_loginVars => LoginInv'
  <2> SUFFICES ASSUME LoginInv, [LoginNext]_loginVars PROVE LoginInv'
    OBVIOUS
  <2>1. CASE LoginNext
    BY <2>1, LoginInvStep, LoginTypeStep DEF LoginInv
  <2>2. CASE UNCHANGED loginVars
    <3>1. UNCHANGED <<flow, account, pc, result, auth, sess, poll, phone, old, saved, running>>
      BY <2>2 DEF loginVars
    <3>2. LoginType' /\ PlaceInv' /\ PhoneInv'
      BY <3>1 DEF LoginInv, LoginType, PlaceInv, PhoneInv
    <3>3. BlockedInv' /\ AuthInv' /\ CookieInv'
      BY <3>1 DEF LoginInv, BlockedInv, AuthInv, Usable, CookieInv
    <3>4. QED
      BY <3>2, <3>3 DEF LoginInv
  <2>3. QED
    BY <2>1, <2>2
<1>2. LoginInv => LoginSound
  <2> SUFFICES ASSUME LoginInv PROVE LoginSound
    OBVIOUS
  <2>1. CompleteIsUsable
    <3> SUFFICES ASSUME running PROVE CompleteIsUsable
      BY DEF CompleteIsUsable
    <3>1. Usable(saved)
      BY DEF LoginInv, AuthInv
    <3>2. QED
      BY <3>1 DEF CompleteIsUsable, Usable, HasCookies
  <2>2. PhoneNotLeftAsking /\ NoPollLeft
    BY DEF LoginInv, PlaceInv, PhoneInv, BlockedInv, PhoneNotLeftAsking, NoPollLeft, Over
  <2>3. ReloginRightAccount
    BY DEF LoginInv, CookieInv, ReloginRightAccount, Over
  <2>4. QED
    BY <2>1, <2>2, <2>3 DEF LoginSound
<1>3. QED
  BY <1>1, <1>2, LoginInvInit, PTL DEF LoginSpec

(* The account of MCAccount, whose logins and pushes take turns, has both. *)
THEOREM AccountThm == Spec => [](LoginSound /\ PushRepaired)
<1>1. Init => LoginInit /\ PushInit
  BY DEF Init
<1>2. [Next]_<<loginVars, pushVars>> => [LoginNext]_loginVars /\ [PushNext]_pushVars
  BY DEF Next
<1>3. QED
  BY <1>1, <1>2, LoginSoundThm, PushRepairedThm, PTL DEF Spec, LoginSpec, PushSpec
=============================================================================

------------------------------ MODULE MCChats ------------------------------
(* A chat of the phone: the updates about it that the phone sends, its      *)
(* room, its history and its people.  The four components share no state,   *)
(* so a behaviour is about one of them.  The assumptions on identifiers,    *)
(* Matrix events and media are evaluated once.                              *)
EXTENDS EventHandler, ConversationSync, Backfill, Directory, MatrixEvents, Media

(* A message that changes and changes back, another one, an event about     *)
(* both, and a conversation.                                                *)
CONSTANTS c1, m1, m2, x, y

MCUpdates ==
    {[parts |-> <<m1>>, content |-> v] : v \in {x, y}}
        \cup {[parts |-> ids, content |-> x] : ids \in {<<m2>>, <<m1, m2>>, <<c1>>}}

(* Ann is listed with a visible and an invisible ID and shares her name     *)
(* with Bob in one list, names come and go, and someone is not shown.       *)
P(id, number, visible, me, name) ==
    [id |-> id, number |-> number, visible |-> visible, me |-> me, name |-> name, contact |-> ""]

Me == P("2", "n0", TRUE, TRUE, "Me")
Ann(visible, name) == P(IF visible THEN "3" ELSE "4", "n1", visible, FALSE, name)
Bob(name) == P("5", "n2", TRUE, FALSE, name)
Hidden == P("6", "n3", FALSE, FALSE, "Eve")

MCChatLists == {<<Me, Ann(TRUE, "Ann")>>, <<Ann(FALSE, ""), Me, Ann(TRUE, "")>>,
            <<Me, Ann(TRUE, ""), Bob("Bob"), Ann(FALSE, "Ann")>>, <<Hidden, Bob(""), Me>>,
            <<Bob("Ann"), Ann(TRUE, "Ann"), Hidden>>}
MCContacts == {{Ann(TRUE, "Ann"), Bob("")}, {Ann(FALSE, "A"), Hidden}, {}}
MCSIMSets == {[i \in {"2"} |-> [rcs |-> TRUE, carrier |-> "a", number |-> "n0"]],
              [i \in {"2", "7"} |-> [rcs |-> i = "2", carrier |-> "a", number |-> "n0"]],
              [i \in {"7"} |-> [rcs |-> FALSE, carrier |-> "b", number |-> ""]]}
-----------------------------------------------------------------------------
VARIABLE part  \* what the behaviour is about

MCInit ==
    /\ part \in {"updates", "room", "history", "people"}
    /\ Init /\ SyncInit /\ BackfillInit /\ DirectoryInit
    /\ part # "room" => room
    /\ part # "history" => ~inclusive /\ Bridged = 1..History /\ \A m \in 1..History : millis[m] = m

MCNext ==
    \/ part = "updates" /\ Next /\ UNCHANGED <<part, syncVars, backfillVars, directoryVars>>
    \/ part = "room" /\ SyncNext /\ UNCHANGED <<part, vars, backfillVars, directoryVars>>
    \/ part = "history" /\ FetchMessages /\ UNCHANGED <<part, vars, syncVars, directoryVars>>
    \/ part = "people" /\ DirectoryNext /\ UNCHANGED <<part, vars, syncVars, backfillVars>>

MCSpec == MCInit /\ [][MCNext]_<<part, vars, syncVars, backfillVars, directoryVars>>
============================================================================

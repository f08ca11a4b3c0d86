-------------------------- MODULE MCMessageUpsert --------------------------
(***************************************************************************)
(* The messages the check follows.  A scenario names the versions the phone*)
(* may send of one message and how many of them, the rooms that exist,     *)
(* whether the user wrote it in Matrix (outgoing), whether the phone gives *)
(* it another ID (reid), how many restarts happen and whether a day passes.*)
(***************************************************************************)
EXTENDS MessageUpsert

In(conv, status, text, media) == Message(conv, status, text, media)

(* An incoming MMS that first appears in the group, then in the DM.        *)
Moving ==
    [outgoing |-> FALSE, reid |-> FALSE, rooms |-> Convs, updates |-> 3, restarts |-> 0,
     ages |-> FALSE,
     versions |-> {In("group", 105, "", "none"), In("group", 101, "", "none"),
                   In("dm", 101, "", "none"), In("dm", 100, "a", "none"),
                   In("group", 100, "a", "none"), In("dm", 300, "", "none")}]

(* Text and attachment of an incoming message arriving piece by piece.     *)
Growing ==
    [outgoing |-> FALSE, reid |-> FALSE, rooms |-> {"group"}, updates |-> 4, restarts |-> 0,
     ages |-> TRUE,
     versions |-> {In("dm", 106, "", "none"), In("dm", 100, "a", "none"),
                   In("dm", 100, "", "pending"), In("dm", 100, "a", "pending"),
                   In("dm", 100, "a", "thumb"), In("dm", 100, "a", "full"),
                   In("dm", 100, "", "none")}]

(* A message the user sends from Matrix: statuses, an edit, readers and a  *)
(* reaction, and a version whose timestamp has moved.                      *)
Outgoings(conv) ==
    [outgoing |-> TRUE, reid |-> FALSE, rooms |-> {conv}, updates |-> 4, restarts |-> 1,
     ages |-> FALSE,
     versions |-> {In(conv, 5, "a", "none"), In(conv, 1, "a", "none"), In(conv, 2, "a", "none"),
                   In(conv, 11, "b", "none"), In(conv, 8, "a", "none"),
                   [In(conv, 11, "a", "none") EXCEPT !.ReadBy = {"A"}, !.Reactions = 1],
                   [In(conv, 11, "a", "none") EXCEPT !.ReadBy = {"A", "B"}],
                   [In(conv, 1, "a", "none") EXCEPT !.Timestamp = 8]}]

MCScenarios ==
    {Moving, Growing, Outgoings("dm"), Outgoings("group"),
     [Outgoings("dm") EXCEPT !.reid = TRUE]}
============================================================================

----------------------------- MODULE Directory -----------------------------
(***************************************************************************)
(* Who is who in one chat: the participants the phone lists, the user's    *)
(* own IDs and SIM cards, the ghosts' names and the contact list.  A       *)
(* person may be listed twice, with a visible and an invisible ID of the   *)
(* same number.                                                            *)
(*                                                                         *)
(* A participant is a record [id, number, visible, me, name, contact]; ""  *)
(* is no number or no name.  The operators at the top are the pure ones.   *)
(***************************************************************************)
EXTENDS Integers, Sequences, SequencesExt, FiniteSets, FiniteSetsExt

CONSTANTS
    Chats,      \* participant lists the phone may send, sequences
    SIMSets,    \* sets of SIM cards the phone may report, functions from IDs
    Contacts    \* contact lists the phone may send, sets of participants

VARIABLES
    chat,       \* chatInfoCache: the participants, <<>> before the first
    members,    \* members of the room
    self,       \* selfParticipantIDs
    sims,       \* simMetadata
    ghosts,     \* name, HasName, ContactID of each ghost
    cached,     \* cachedContacts and whether they are recent
    responding, \* PhoneResponding
    sender      \* sender of the last event

directoryVars == <<chat, members, self, sims, ghosts, cached, responding, sender>>
-----------------------------------------------------------------------------
(* An invisible ID stands for the visible one of the same number.          *)
SameParticipant(c, id) == id  \* mutant: the ID as it came

findAlternateParticipantID(c, id) ==
    LET matched == {i \in DOMAIN c : ~c[i].visible /\ c[i].id = id /\ c[i].number # ""}
        shown == {i \in DOMAIN c : matched # {} /\ c[i].visible /\ c[i].number = c[Max(matched)].number}
    IN  IF shown = {} THEN id ELSE c[Min(shown)].id

(* Typing events name a number: the visible participant, or the last       *)
(* invisible one.                                                          *)
getPhoneNumberParticipantID(c, number) ==
    LET of(v) == {i \in DOMAIN c : c[i].number = number /\ c[i].visible = v} IN
    IF number = "" THEN ""
    ELSE IF of(TRUE) # {} THEN c[Min(of(TRUE))].id
    ELSE IF of(FALSE) # {} THEN c[Max(of(FALSE))].id
    ELSE ""

makeEventSender(c, own, id, forceOutgoing, forceIncoming) ==
    LET me == ~forceIncoming /\ (forceOutgoing \/ id = "1" \/ id \in own)
    IN  [IsFromMe |-> me, Sender |-> IF me THEN id ELSE findAlternateParticipantID(c, id)]

(* "Read by A, B": each name stands for the participants of that name, the *)
(* visible ones first, and takes the next one each time it occurs.         *)
Named(c, name) ==
    LET of(v) == SelectSeq(c, LAMBDA p : p.name = name /\ ~p.me /\ p.name # "" /\ p.id # "" /\ p.visible = v)
        list == of(TRUE) \o of(FALSE)
    IN  [i \in DOMAIN list |-> list[i].id]

Readers(c, names) ==
    LET nth(i) == Cardinality({k \in 1..i : names[k] = names[i]}) IN
    {Named(c, names[i])[nth(i)] : i \in {k \in DOMAIN names : nth(k) <= Len(Named(c, names[k]))}}

(* wrapChatInfo: the room's members, and who may write.  A group one is a  *)
(* member of is writable whatever the phone says.                          *)
IsMember(p) == ~p.me /\ p.number # "" /\ p.visible

MembersOf(c) == {p.id : p \in {c[i] : i \in {k \in DOMAIN c : IsMember(c[k])}}}

OwnIDs(c) == {c[i].id : i \in {k \in DOMAIN c : c[k].me}} \ {""}

ReadOnly(c, readOnly, group) == readOnly /\ ~(group /\ \E i \in DOMAIN c : c[i].me)
-----------------------------------------------------------------------------
(* makeUserInfo: a name, or else the number unless a name is known.        *)
NameForgotten(g, p) ==  \* mutant: the number replaces a known name
    [name |-> IF p.name = "" THEN "number" ELSE p.name, HasName |-> p.name # "", ContactID |-> p.contact]

makeUserInfo(g, p) ==
    [ name |-> IF p.name # "" THEN p.name ELSE IF g.HasName THEN g.name ELSE "number",
      HasName |-> g.HasName \/ p.name # "", ContactID |-> p.contact ]

Updated(gs, ps) ==
    [id \in DOMAIN gs |->
        LET of == {p \in ps : p.id = id} IN
        IF of = {} THEN gs[id] ELSE makeUserInfo(gs[id], CHOOSE p \in of : TRUE)]

People == (UNION {Range(c) : c \in Chats}) \cup (UNION Contacts)

(* The phone's lists, which are external: an entry has an ID that no other *)
(* entry of the list has, and a number belongs either to the user or to    *)
(* somebody else.  "number" stands for a formatted number, which no name   *)
(* is.                                                                     *)
ASSUME ListAssumption ==
    /\ \A c \in Chats :
          /\ c \in Seq(Range(c))
          /\ \A i \in DOMAIN c : c[i].id # ""
          /\ \A i, k \in DOMAIN c : c[i].id = c[k].id => i = k
          /\ \A i, k \in DOMAIN c :
                c[i].number # "" /\ c[i].number = c[k].number => (c[i].me <=> c[k].me)
    /\ \A p \in People : p.name # "number"

DirectoryInit ==
    /\ chat = <<>> /\ members = {} /\ self = {} /\ sims = <<>>
    /\ ghosts = [id \in {p.id : p \in People} |-> [name |-> "", HasName |-> FALSE, ContactID |-> ""]]
    /\ cached = [list |-> {}, recent |-> FALSE] /\ responding = TRUE
    /\ sender = [IsFromMe |-> TRUE, Sender |-> ""]

(* A Conversation update: cached at once, then the room's info.            *)
ChatUpdate(c) ==
    /\ chat' = c
    /\ members' = MembersOf(c)
    /\ self' = self \cup OwnIDs(c)
    /\ ghosts' = Updated(ghosts, {p \in Range(c) : IsMember(p)})
    /\ UNCHANGED <<sims, cached, responding, sender>>

simsAreEqualish(a, b) == a.rcs = b.rcs /\ a.carrier = b.carrier /\ a.number = b.number

(* SetSIMs and its result: whether the bridge state is to be sent again.   *)
SIMsChanged(new, own) ==
    ~( /\ DOMAIN new \subseteq own /\ Cardinality(DOMAIN new) = Cardinality(DOMAIN sims)
       /\ \A id \in DOMAIN new : id \in DOMAIN sims /\ simsAreEqualish(sims[id], new[id]) )

SetSIMs(new) ==
    /\ SIMsChanged(new, self)
    /\ sims' = new
    /\ self' = self \cup DOMAIN new
    /\ UNCHANGED <<chat, members, ghosts, cached, responding, sender>>

(* GetContactList: asked for at most every five minutes, and not while the *)
(* phone does not respond; or the request fails.                           *)
GetContactList(list) ==
    /\ ~cached.recent /\ responding
    /\ cached' = [list |-> list, recent |-> TRUE]
    /\ ghosts' = Updated(ghosts, list)
    /\ UNCHANGED <<chat, members, self, sims, responding, sender>>

ContactsExpire ==
    /\ cached.recent
    /\ cached' = [cached EXCEPT !.recent = FALSE]
    /\ UNCHANGED <<chat, members, self, sims, ghosts, responding, sender>>

PhoneResponding ==
    /\ responding' = ~responding
    /\ UNCHANGED <<chat, members, self, sims, ghosts, cached, sender>>

(* An event of a participant of the chat, a message or a receipt.          *)
RemoteEvent(i) ==
    /\ sender' = makeEventSender(chat, self, chat[i].id, FALSE, FALSE)
    /\ UNCHANGED <<chat, members, self, sims, ghosts, cached, responding>>

DirectoryNext ==
    \/ (\E c \in Chats : ChatUpdate(c)) \/ (\E s \in SIMSets : SetSIMs(s))
    \/ (\E l \in Contacts : GetContactList(l)) \/ ContactsExpire \/ PhoneResponding
    \/ (\E i \in DOMAIN chat : RemoteEvent(i))
-----------------------------------------------------------------------------
(* What others send is shown as sent by a member of the room, also when    *)
(* the phone names them by an invisible ID, unless they really have no     *)
(* visible one or are the user; the user's own events are never shown as   *)
(* somebody else's (makeEventSender, wrapChatInfo).                        *)
SenderShown ==
    \A i \in DOMAIN chat :
        LET p == chat[i]
            s == makeEventSender(chat, self, p.id, FALSE, FALSE)
        IN  /\ ~s.IsFromMe /\ (\E k \in DOMAIN chat : IsMember(chat[k]) /\ chat[k].number = p.number)
                 => s.Sender \in members
            /\ p.me => s.IsFromMe

(* A ghost that had a name never goes back to being a number, whichever of *)
(* the chats and contact lists leaves the name out (makeUserInfo).         *)
NameKept ==
    [][\A id \in DOMAIN ghosts : ghosts[id].HasName =>
          ghosts'[id].HasName /\ ghosts'[id].name \notin {"", "number"}]_directoryVars
============================================================================

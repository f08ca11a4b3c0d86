---------------------------- MODULE Identifiers ----------------------------
(***************************************************************************)
(* Names of things: the IDs the bridge gives to users, chats and messages  *)
(* of a login, the choice of the phone to pair with, and the start of a    *)
(* chat with numbers.  A string with dots is the sequence of what is       *)
(* between the dots; of a piece only the characters matter that            *)
(* ValidateUserID looks at.                                                *)
(***************************************************************************)
EXTENDS Integers, Sequences, SequencesExt, FiniteSets

Pieces == {"", "12", "1f", "+x"}  \* nothing, digits, digits and a-f, others

Strings == UNION {[1..n -> Pieces] : n \in 1..3}

(* Cut at the first dot; without a dot both halves are empty.              *)
parseAnyID(id) ==
    IF Len(id) = 1 THEN [prefix |-> "", real |-> <<"">>] ELSE [prefix |-> id[1], real |-> Tail(id)]

ParseID(login, id) ==
    LET p == parseAnyID(id) IN
    IF p.prefix # login THEN [ok |-> FALSE, id |-> <<"">>] ELSE [ok |-> TRUE, id |-> p.real]

makeAnyID(login, real) == <<login>> \o real

MakePortalKey(login, receiver, conversation) == [ID |-> makeAnyID(login, conversation), Receiver |-> receiver]

isNumber(piece) == piece = "12"

ValidateUserID(deterministic, id) ==
    LET p == parseAnyID(id) IN
    /\ p.prefix # "" /\ p.real # <<"">>
    /\ isNumber(p.prefix) \/ (deterministic /\ p.prefix = "1f")
    /\ Len(p.real) = 1 /\ isNumber(p.real[1])

(* GetLoginPrefix: a row per login, kept for good.  The row's number is    *)
(* the prefix.                                                             *)
GetLoginPrefix(rows, login) == IF \E i \in DOMAIN rows : rows[i] = login THEN rows ELSE Append(rows, login)

(* What a login makes it reads back, dots included, and refuses what       *)
(* another login made; no two things get the same ID.                      *)
ASSUME IDsRoundTrip ==
    \A a, b \in Pieces \ {""} : \A x, y \in Strings :
        /\ ParseID(a, makeAnyID(a, x)) = [ok |-> TRUE, id |-> x]
        /\ a # b => ~ParseID(b, makeAnyID(a, x)).ok
        /\ makeAnyID(a, x) = makeAnyID(b, y) => a = b /\ x = y

(* An ID that passes ValidateUserID is what some login makes of a          *)
(* participant's number; logins made with hashed prefixes are refused once *)
(* deterministic_id_prefix is off again, the others never.                 *)
ASSUME ValidIDsAreMade ==
    \A d \in BOOLEAN : \A id \in Strings :
        ValidateUserID(d, id) <=>
            \E a \in {"12"} \cup (IF d THEN {"1f"} ELSE {}) : id = makeAnyID(a, <<"12">>)

(* A login gets the same prefix every time, another login another one.     *)
ASSUME PrefixesStable ==
    \A order \in [1..3 -> {"l1", "l2"}] :
        LET rows(i) == FoldLeft(GetLoginPrefix, <<>>, SubSeq(order, 1, i))
            prefix(l, r) == CHOOSE k \in DOMAIN r : r[k] = l
        IN  \A i, j \in 1..3 : (order[i] = order[j]) <=> (prefix(order[i], rows(i)) = prefix(order[j], rows(j)))
-----------------------------------------------------------------------------
(* StartGaiaPairing's phone: the devices marked primary, last seen first   *)
(* where there are several, and of these the one the switcher counts to.   *)
(* items3 gives the times a device was seen.                               *)
PrimaryDevices(items2, items3) ==
    LET primary == SelectSeq(items2, LAMBDA d : d.primary)
        seen(d) == IF d.id \in DOMAIN items3 THEN items3[d.id] ELSE 0
    IN  IF Len(primary) < 2 THEN primary ELSE SortSeq(primary, LAMBDA a, b : seen(a) > seen(b))

ChosenDevice(items2, items3, switcher) ==
    LET ds == PrimaryDevices(items2, items3) IN
    IF ds = <<>> THEN "ErrNoDevicesFound" ELSE ds[(switcher % Len(ds)) + 1].id

(* The first attempt goes to the phone seen last, and retrying goes        *)
(* through every phone once before one is tried again.                     *)
ASSUME EveryDeviceTried ==
    \A n \in 0..3 : \A primary \in [1..n -> BOOLEAN] : \A times \in [{"d1", "d2", "d3"} -> 1..3] :
        LET ids == <<"d1", "d2", "d3">>
            items == [i \in 1..n |-> [id |-> ids[i], primary |-> primary[i]]]
            phones == {ids[i] : i \in {k \in 1..n : primary[k]}}
            k == Cardinality(phones)
        IN  /\ k = 0 => ChosenDevice(items, times, 0) = "ErrNoDevicesFound"
            /\ k > 0 => /\ {ChosenDevice(items, times, s) : s \in 0..(k - 1)} = phones
                        /\ \A p \in phones : times[p] <= times[ChosenDevice(items, times, 0)]

-----------------------------------------------------------------------------
(* The version of the web client, eight digits: year, month and day, each  *)
(* without its leading zero.  A shorter one makes the client panic.        *)
Number(digits) == FoldLeft(LAMBDA n, d : 10 * n + d, 0, digits)

Unpadded(digits) == IF digits[1] = 0 THEN Tail(digits) ELSE digits

ParsedClientVersion(v) ==
    IF Len(v) < 8 THEN [err |-> "panic"]
    ELSE [ err |-> "nil", Year |-> Number(SubSeq(v, 1, 4)), Month |-> Number(Unpadded(SubSeq(v, 5, 6))),
           Day |-> Number(Unpadded(SubSeq(v, 7, 8))), V1 |-> 4, V2 |-> 6 ]

(* Every date is read as it was written.                                   *)
ASSUME VersionsParse ==
    \A month \in 1..12, day \in 1..31 :
        LET p == ParsedClientVersion(<<2, 0, 2, 6, month \div 10, month % 10, day \div 10, day % 10>>) IN
        p.Year = 2026 /\ p.Month = month /\ p.Day = day
-----------------------------------------------------------------------------
(* Starting a chat.  c has the login's prefix, the setting and the known   *)
(* ghosts with their numbers; number is what the identifier is as a phone  *)
(* number, "" if it is none.  An answer of the phone is a status and a     *)
(* conversation, "nil" for none and "" for one without ID.                 *)
Outcome(result, asked) == [result |-> result, asked |-> asked]

Conversation(answer, whenNil) ==
    CASE answer.status = "error" -> "error"
      [] answer.status # "error" /\ answer.conv = "nil" -> whenNil
      [] answer.status # "error" /\ answer.conv = "" -> "no conversation ID"
      [] OTHER -> "created"

(* The copy made for the log is written to, so a missing conversation is a *)
(* panic here.                                                             *)
ResolveIdentifier(c, id, number, createChat, answer) ==
    LET known == ValidateUserID(c.deterministic, id) /\ id \in DOMAIN c.ghosts
        foreign == known /\ parseAnyID(id).prefix # c.login
        phone == IF known THEN c.ghosts[id] ELSE number
    IN  IF foreign THEN Outcome("try next", <<>>)
        ELSE IF phone = "" THEN Outcome(IF known THEN "number not known" ELSE "invalid number", <<>>)
        ELSE IF ~createChat THEN Outcome("found", <<>>)
        ELSE Outcome(Conversation(answer, "panic"), <<[Numbers |-> <<phone>>, CreateRCSGroup |-> FALSE]>>)

(* A participant is a ghost of the login, which must exist, or the string  *)
(* itself is the number.                                                   *)
NumberOf(c, user) ==
    IF ~ParseID(c.login, user).ok THEN [ok |-> "ok", phone |-> user]
    ELSE IF user \notin DOMAIN c.ghosts THEN [ok |-> "panic", phone |-> <<>>]
    ELSE IF c.ghosts[user] = "" THEN [ok |-> "number not known", phone |-> <<>>]
    ELSE [ok |-> "ok", phone |-> c.ghosts[user]]

CreateGroup(c, users, answers) ==
    LET numbers == [i \in DOMAIN users |-> NumberOf(c, users[i])]
        failed == {i \in DOMAIN users : numbers[i].ok # "ok"}
        request(rcs) == [Numbers |-> [i \in DOMAIN users |-> numbers[i].phone], CreateRCSGroup |-> rcs]
    IN  IF Len(users) < 2 THEN Outcome("ErrMinimumTwoUsers", <<>>)
        ELSE IF failed # {}
             THEN Outcome(numbers[CHOOSE i \in failed : \A k \in failed : i <= k].ok, <<>>)
        ELSE IF answers[1].status = "CREATE_RCS"
             THEN Outcome(Conversation(answers[2], "no conversation data"), <<request(FALSE), request(TRUE)>>)
        ELSE Outcome(Conversation(answers[1], "no conversation data"), <<request(FALSE)>>)

Answers == {[status |-> s, conv |-> v] : s \in {"error", "SUCCESS", "CREATE_RCS"}, v \in {"nil", "", "c1"}}

(* The phone is asked for a chat only with numbers of people the login     *)
(* knows, or with what the user wrote, with as many as were named, and a   *)
(* group is asked for as RCS only after the phone wanted that; a chat is   *)
(* made only if one of the answers had one.                                *)
ASSUME ChatsAreWithThose ==
    LET ids == {<<"12", "12">>, <<"1f", "12">>, <<"+x">>}
        c == [login |-> "12", deterministic |-> TRUE,
              ghosts |-> (<<"12", "12">> :> "n1" @@ <<"1f", "12">> :> "n2")]
    IN  /\ \A id \in ids : \A number \in {"", "n3"} : \A make \in BOOLEAN : \A a \in Answers :
             LET o == ResolveIdentifier(c, id, number, make, a) IN
             /\ \A r \in Range(o.asked) : make /\ r.Numbers[1] \in {"n1", "n3"}
             /\ o.result = "created" => o.asked # <<>> /\ a.conv = "c1"
        /\ \A users \in UNION {[1..n -> ids] : n \in 0..2} : \A a \in [1..2 -> Answers] :
             LET o == CreateGroup(c, users, a) IN
             /\ \A r \in Range(o.asked) : \A i \in DOMAIN users :
                    r.Numbers[i] = IF users[i] = <<"12", "12">> THEN "n1" ELSE users[i]
             /\ (\E r \in Range(o.asked) : r.CreateRCSGroup) <=> (o.asked # <<>> /\ a[1].status = "CREATE_RCS")
             /\ o.result = "created" => Len(users) = 2 /\ a[Len(o.asked)].conv = "c1"
============================================================================

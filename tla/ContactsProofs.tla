---------------------------- MODULE ContactsProofs ----------------------------
(***************************************************************************)
(* Proofs about Contacts, for any contacts, any lists at the server and    *)
(* any bounds.                                                             *)
(***************************************************************************)
EXTENDS Contacts, SequenceTheorems, WellFoundedInduction, TLAPS

-------------------------------------------------------------------------------
(***************************************************************************)
(* Lemmas about Userlist.                                                  *)
(***************************************************************************)
\* A non-empty set of naturals has a smallest element.
LEMMA Smallest ==
    ASSUME NEW S \in SUBSET Nat, S # {}
    PROVE  \E x \in S : \A y \in S : x <= y
<1>1. PICK x \in S : \A y \in S : ~(<<y, x>> \in OpToRel(<, Nat))
  BY NatLessThanWellFounded, WFMin
<1>2. ASSUME NEW y \in S, ~(x <= y)
      PROVE  FALSE
  <2>1. <<y, x>> \in Nat \X Nat /\ y < x
    BY <1>2
  <2> QED BY <1>1, <2>1 DEF OpToRel
<1> QED BY <1>2

\* The numbers of a list are those of its contacts.
LEMMA NumbersOf ==
    ASSUME NEW list \in Seq(Person)
    PROVE  /\ Numbers(list) \subseteq UINs
           /\ \A u : u \in Numbers(list) <=> \E i \in 1..Len(list) : list[i].uin = u
<1>1. \A i \in 1..Len(list) : list[i] \in Person
  OBVIOUS
<1> QED BY <1>1 DEF Numbers, Dump, Range, Person

\* Find returns the first contact of a number that is listed.
LEMMA FindFirst ==
    ASSUME NEW list \in Seq(Person), NEW u \in Numbers(list)
    PROVE  /\ Find(list, u) \in 1..Len(list)
           /\ list[Find(list, u)].uin = u
           /\ \A j \in 1..(Find(list, u) - 1) : list[j].uin # u
<1> DEFINE S == {i \in 1..Len(list) : list[i].uin = u}
<1>1. S \in SUBSET Nat /\ S # {}
  BY NumbersOf
<1>2. PICK x \in S : \A y \in S : x <= y
  BY <1>1, Smallest
<1>3. x \in 1..Len(list) /\ list[x].uin = u /\ \A j \in 1..(x - 1) : list[j].uin # u
  BY <1>2
<1> QED BY <1>3 DEF Find

\* The first contact of a number depends on the numbers alone.
LEMMA FindSame ==
    ASSUME NEW list \in Seq(Person), NEW list2 \in Seq(Person), NEW u \in Numbers(list),
           Len(list2) = Len(list), \A i \in 1..Len(list) : list2[i].uin = list[i].uin
    PROVE  Find(list2, u) = Find(list, u)
<1>1. u \in Numbers(list2)
  BY NumbersOf
<1> DEFINE a == Find(list, u)
           b == Find(list2, u)
<1>2. a \in 1..Len(list) /\ list[a].uin = u /\ \A j \in 1..(a - 1) : list[j].uin # u
  BY FindFirst
<1>3. b \in 1..Len(list) /\ list[b].uin = u /\ \A j \in 1..(b - 1) : list[j].uin # u
  BY <1>1, FindFirst
<1> HIDE DEF a, b
<1>4. a = b
  BY <1>2, <1>3
<1> QED BY <1>4 DEF a, b

LEMMA DumpType ==
    ASSUME NEW list \in Seq(Person)
    PROVE  Dump(list) \in Seq(UINs)
<1>1. \A i \in 1..Len(list) : list[i] \in Person
  OBVIOUS
<1>2. \A i \in 1..Len(list) : list[i].uin \in UINs
  BY <1>1 DEF Person
<1> QED BY <1>2 DEF Dump

LEMMA FreshType ==
    ASSUME NEW numbers \in Seq(UINs)
    PROVE  Fresh(numbers) \in Seq(Person)
<1>1. \A i \in 1..Len(numbers) : [uin |-> numbers[i], status |-> "NOT_AVAIL"] \in Person
  BY DEF Person, Statuses
<1> QED BY <1>1 DEF Fresh

LEMMA ClearType ==
    ASSUME NEW list \in Seq(Person)
    PROVE  Clear(list) \in Seq(Person)
<1>1. Len(list) \div 2 \in Nat
  OBVIOUS
<1>2. \A i \in 1..(Len(list) \div 2) : 2 * i \in 1..Len(list)
  OBVIOUS
<1>3. \A i \in 1..(Len(list) \div 2) : list[2 * i] \in Person
  BY <1>2
<1> QED BY <1>1, <1>3 DEF Clear

LEMMA SetType ==
    ASSUME NEW list \in Seq(Person), NEW numbers \in Seq(UINs)
    PROVE  Set(list, numbers) \in Seq(Person)
  BY ClearType, FreshType DEF Set

\* Contacts that are told of have their status set, and no number changes.
LEMMA SetStatusType ==
    ASSUME NEW list \in Seq(Person), NEW who \in Seq(Notified),
           \A n \in Range(who) : n.uin \in Numbers(list)
    PROVE  /\ SetStatus(list, who) \in Seq(Person)
           /\ Len(SetStatus(list, who)) = Len(list)
           /\ \A i \in 1..Len(list) : SetStatus(list, who)[i].uin = list[i].uin
           /\ Numbers(SetStatus(list, who)) = Numbers(list)
<1> DEFINE told1(i) == CHOOSE n \in Range(who) : n.uin = list[i].uin
<1>1. \A n \in Range(who) : n \in Notified
  BY DEF Range
<1>2. ASSUME NEW i \in 1..Len(list), \E n \in Range(who) : Find(list, n.uin) = i
      PROVE  told1(i) \in Range(who)
  BY <1>2, FindFirst
<1>3. ASSUME NEW i \in 1..Len(list)
      PROVE  /\ SetStatus(list, who)[i] \in Person
             /\ SetStatus(list, who)[i].uin = list[i].uin
  <2>1. list[i] \in Person
    OBVIOUS
  <2>2. CASE \E n \in Range(who) : Find(list, n.uin) = i
    <3>1. told1(i) \in Notified
      BY <1>1, <1>2, <2>2
    <3>2. told1(i).status \in Statuses
      BY <3>1 DEF Notified
    <3>3. SetStatus(list, who)[i] = [list[i] EXCEPT !.status = told1(i).status]
      BY <2>2 DEF SetStatus
    <3> HIDE DEF told1
    <3> QED BY <2>1, <3>2, <3>3 DEF Person
  <2>3. CASE ~\E n \in Range(who) : Find(list, n.uin) = i
    BY <2>1, <2>3 DEF SetStatus
  <2> QED BY <2>2, <2>3
<1>4. SetStatus(list, who) \in Seq(Person) /\ Len(SetStatus(list, who)) = Len(list)
  <2> DEFINE e(i) == SetStatus(list, who)[i]
  <2>1. SetStatus(list, who) = [i \in 1..Len(list) |-> e(i)]
    BY DEF SetStatus
  <2>2. \A i \in 1..Len(list) : e(i) \in Person
    BY <1>3
  <2>3. Len(list) \in Nat
    OBVIOUS
  <2> HIDE DEF e
  <2> QED BY <2>1, <2>2, <2>3
<1>5. Numbers(SetStatus(list, who)) = Numbers(list)
  BY <1>3, <1>4, NumbersOf
<1> QED BY <1>3, <1>4, <1>5

\* Known takes contacts that are listed, from the front.
LEMMA KnownType ==
    ASSUME NEW who \in Seq(Notified), iList \in Seq(Person)
    PROVE  /\ Known(who) \in Seq(Notified)
           /\ \A n \in Range(Known(who)) : n.uin \in Numbers(iList)
           /\ (\A n \in Range(who) : n.uin \in Numbers(iList)) => Known(who) = who
<1> DEFINE unknown == {i \in 1..Len(who) : who[i].uin \notin Numbers(iList)}
<1>1. CASE unknown = {}
  <2>1. Known(who) = SubSeq(who, 1, Len(who))
    BY <1>1 DEF Known
  <2>2. Known(who) = who
    BY <2>1
  <2> QED BY <1>1, <2>2 DEF Range
<1>2. CASE unknown # {}
  <2>1. unknown \in SUBSET Nat
    OBVIOUS
  <2> DEFINE m == CHOOSE i \in unknown : \A j \in unknown : i <= j
  <2>2. m \in unknown /\ \A j \in unknown : m <= j
    BY <1>2, <2>1, Smallest
  <2>3. Known(who) = SubSeq(who, 1, m - 1)
    BY <1>2 DEF Known
  <2> HIDE DEF m
  <2>4. m \in 1..Len(who) /\ \A j \in 1..(m - 1) : who[j].uin \in Numbers(iList)
    BY <2>2
  <2>5. Known(who) \in Seq(Notified) /\ Len(Known(who)) = m - 1
        /\ \A j \in 1..(m - 1) : Known(who)[j] = who[j]
    BY <2>3, <2>4
  <2>6. \A n \in Range(Known(who)) : n.uin \in Numbers(iList)
    BY <2>4, <2>5 DEF Range
  <2>7. ~\A n \in Range(who) : n.uin \in Numbers(iList)
    BY <2>2 DEF Range
  <2> QED BY <2>5, <2>6, <2>7
<1> QED BY <1>1, <1>2

-------------------------------------------------------------------------------
(***************************************************************************)
(* Type correctness.                                                       *)
(***************************************************************************)
LEMMA InitType == Init => TypeOK
<1> SUFFICES ASSUME Init PROVE TypeOK
  OBVIOUS
<1>1. iList \in Seq(Person) /\ inbox \in Seq([type : {"userlist", "notify"}, who : Seq(Notified)])
  BY DEF Init
<1>2. userlistFile \in Seq(Seq(UINs))
  <2>1. <<>> \in Seq(UINs)
    OBVIOUS
  <2>2. <<<<>>>> \in Seq(Seq(UINs)) /\ <<>> \in Seq(Seq(UINs))
    BY <2>1
  <2> QED BY <2>2 DEF Init, NULL
<1>3. told \in [UINs -> Statuses \cup {"none"}]
  BY DEF Init, Nothing
<1> QED BY <1>1, <1>2, <1>3 DEF Init, TypeOK

\* The profile's life, and a session's.
LEMMA LifeType ==
    TypeOK /\ (Start \/ SaveBegins \/ SaveProfile \/ SaveList \/ Ends \/ Login \/ Logout)
        => TypeOK'
<1> SUFFICES ASSUME TypeOK,
                    Start \/ SaveBegins \/ SaveProfile \/ SaveList \/ Ends \/ Login \/ Logout
             PROVE  TypeOK'
  OBVIOUS
<1>1. CASE Start
  <2>1. iList' \in Seq(Person)
    <3>1. CASE profileFile.whole /\ userlistFile # NULL
      <4>1. userlistFile[1] \in Seq(UINs)
        BY <3>1 DEF TypeOK, NULL
      <4> QED BY <1>1, <3>1, <4>1, FreshType DEF Start
    <3>2. CASE ~(profileFile.whole /\ userlistFile # NULL)
      BY <1>1, <3>2 DEF Start
    <3> QED BY <3>1, <3>2
  <2>2. profileFile.whole \in BOOLEAN /\ profileFile.iNeedImport \in BOOLEAN
    BY DEF TypeOK
  <2>3. named' \in BOOLEAN /\ iNeedImport' \in BOOLEAN /\ iIsValid' \in BOOLEAN
    BY <1>1, <2>2 DEF Start
  <2> QED BY <1>1, <2>1, <2>3 DEF Start, TypeOK, fileVars, serverVars
<1>2. CASE SaveBegins
  <2>1. profileFile' \in [whole : BOOLEAN, iNeedImport : BOOLEAN]
    BY <1>2 DEF SaveBegins, TypeOK
  <2>2. saving' \in {"no", "profile", "list", "done"} /\ cfgmesg' \in BOOLEAN
    BY <1>2 DEF SaveBegins, TypeOK
  <2> QED BY <1>2, <2>1, <2>2 DEF SaveBegins, TypeOK, listVars, serverVars
<1>3. CASE SaveProfile
  <2>1. profileFile' \in [whole : BOOLEAN, iNeedImport : BOOLEAN]
    <3>1. [whole |-> TRUE, iNeedImport |-> cfgmesg] \in [whole : BOOLEAN, iNeedImport : BOOLEAN]
      BY Zenon DEF TypeOK
    <3>2. profileFile' \in {[whole |-> TRUE, iNeedImport |-> cfgmesg], profileFile}
      BY <1>3 DEF SaveProfile
    <3>3. profileFile \in [whole : BOOLEAN, iNeedImport : BOOLEAN]
      BY DEF TypeOK
    <3> QED BY <3>1, <3>2, <3>3, Zenon
  <2> QED BY <1>3, <2>1 DEF SaveProfile, TypeOK, listVars, serverVars
<1>4. CASE SaveList
  <2>1. userlistFile' \in Seq(Seq(UINs))
    <3>1. Dump(iList) \in Seq(UINs)
      BY DumpType DEF TypeOK
    <3>2. <<Dump(iList)>> \in Seq(Seq(UINs)) /\ userlistFile \in Seq(Seq(UINs))
      BY <3>1 DEF TypeOK
    <3> QED BY <1>4, <3>2 DEF SaveList
  <2> QED BY <1>4, <2>1 DEF SaveList, TypeOK, listVars, serverVars
<1>5. CASE Ends
  <2>1. iList' \in Seq(Person) /\ told' \in [UINs -> Statuses \cup {"none"}]
    BY <1>5 DEF Ends, Reset, Nothing
  <2>2. asked' \in Nat /\ watched' \subseteq UINs
        /\ inbox' \in Seq([type : {"userlist", "notify"}, who : Seq(Notified)])
    BY <1>5 DEF Ends, Reset
  <2> QED BY <1>5, <2>1, <2>2 DEF Ends, TypeOK, fileVars
<1>6. CASE Login
  BY <1>6 DEF Login, TypeOK, listVars, fileVars, serverVars
<1>7. CASE Logout
  BY <1>7 DEF Logout, Reset, TypeOK, listVars, fileVars, Nothing
<1> QED BY <1>1, <1>2, <1>3, <1>4, <1>5, <1>6, <1>7

LEMMA ImportType ==
    ASSUME TypeOK, Import
    PROVE  asked' \in Nat /\ iList' \in Seq(Person) /\ iIsValid' \in BOOLEAN
<1>1. iList \in Seq(Person) /\ asked \in Nat
  BY DEF TypeOK
<1>2. iList' = Clear(iList) /\ asked' = asked + 1 /\ iIsValid' = FALSE
  BY DEF Import
<1>3. iList' \in Seq(Person)
  BY <1>1, <1>2, ClearType
<1>4. asked' \in Nat
  BY <1>1, <1>2
<1>5. iIsValid' \in BOOLEAN
  BY <1>2, Zenon
<1> QED BY <1>3, <1>4, <1>5

\* The handlers and the menu.
LEMMA HandlersType == TypeOK /\ (Handle \/ ImportList) => TypeOK'
<1> SUFFICES ASSUME TypeOK, Handle \/ ImportList PROVE TypeOK'
  OBVIOUS
<1>1. iList \in Seq(Person) /\ roster \in Seq(UINs)
  BY RostersAssumption DEF TypeOK
<1>2. Numbers(iList) \subseteq UINs /\ Clear(iList) \in Seq(Person)
  BY <1>1, NumbersOf, ClearType
<1>3. inbox # <<>> => /\ Tail(inbox) \in Seq([type : {"userlist", "notify"}, who : Seq(Notified)])
                      /\ Head(inbox).who \in Seq(Notified)
  <2> DEFINE Packet == [type : {"userlist", "notify"}, who : Seq(Notified)]
  <2>1. inbox \in Seq(Packet)
    BY DEF TypeOK
  <2>2. inbox # <<>> => Tail(inbox) \in Seq(Packet) /\ Head(inbox) \in Packet
    BY <2>1, HeadTailProperties
  <2> QED BY <2>2
<1>4. CASE HandleEventConnected
  <2>1. CASE ~iIsValid \/ iNeedImport
    <3>1. asked' \in Nat /\ iList' \in Seq(Person) /\ iIsValid' \in BOOLEAN
      BY <1>4, <2>1, ImportType DEF HandleEventConnected
    <3> QED BY <1>4, <2>1, <3>1 DEF HandleEventConnected, TypeOK, fileVars
  <2>2. CASE ~(~iIsValid \/ iNeedImport)
    BY <1>2, <1>4, <2>2 DEF HandleEventConnected, TypeOK, listVars, fileVars
  <2> QED BY <2>1, <2>2
<1>5. CASE HandleEventUserlist
  <2>1. CASE roster # <<>>
    <3>1. iList' \in Seq(Person)
      BY <1>1, <1>5, <2>1, SetType DEF HandleEventUserlist
    <3>2. watched' \subseteq UINs
      <4>1. Numbers(iList') \subseteq UINs
        BY <3>1, NumbersOf
      <4>2. watched' = (watched \ Numbers(iList)) \cup Numbers(iList')
        BY <1>5, <2>1 DEF HandleEventUserlist
      <4> QED BY <4>1, <4>2 DEF TypeOK
    <3> QED BY <1>3, <1>5, <2>1, <3>1, <3>2 DEF HandleEventUserlist, TypeOK, fileVars
  <2>2. CASE roster = <<>>
    BY <1>3, <1>5, <2>2 DEF HandleEventUserlist, TypeOK, fileVars
  <2> QED BY <2>1, <2>2
<1>6. CASE HandleEventNotify
  <2>1. Known(Head(inbox).who) \in Seq(Notified)
        /\ \A n \in Range(Known(Head(inbox).who)) : n.uin \in Numbers(iList)
    BY <1>1, <1>3, <1>6, KnownType DEF HandleEventNotify
  <2>2. iList' \in Seq(Person)
    BY <1>1, <1>6, <2>1, SetStatusType DEF HandleEventNotify
  <2> QED BY <1>3, <1>6, <2>2 DEF HandleEventNotify, TypeOK, fileVars
<1>7. CASE ImportList
  <2>1. asked' \in Nat /\ iList' \in Seq(Person) /\ iIsValid' \in BOOLEAN
    BY <1>7, ImportType DEF ImportList
  <2> QED BY <1>7, <2>1 DEF ImportList, TypeOK, fileVars
<1> QED BY <1>4, <1>5, <1>6, <1>7 DEF Handle

\* A notification that may be sent, and what the server has told by then.
LEMMA NotifyType ==
    ASSUME TypeOK, NEW n \in 1..MaxNotified,
           NEW who \in [1..n -> [uin : watched, status : Statuses]]
    PROVE  /\ who \in Seq(Notified)
           /\ Len(who) = n
           /\ \A i \in 1..n : who[i] \in Notified /\ who[i].uin \in watched
<1>1. \A i \in 1..n : who[i] \in Notified /\ who[i].uin \in watched
  BY DEF TypeOK, Notified
<1>2. n \in Nat
  BY BoundsAssumption
<1>3. who \in [1..n -> Notified]
  BY <1>1
<1> QED BY <1>1, <1>2, <1>3

LEMMA ServerType == TypeOK /\ (Answer \/ Notify) => TypeOK'
<1> SUFFICES ASSUME TypeOK, Answer \/ Notify PROVE TypeOK'
  OBVIOUS
<1> DEFINE Packet == [type : {"userlist", "notify"}, who : Seq(Notified)]
<1>1. CASE Answer
  <2>1. [type |-> "userlist", who |-> <<>>] \in Packet
    OBVIOUS
  <2>2. inbox' \in Seq(Packet)
    BY <1>1, <2>1 DEF Answer, TypeOK
  <2>3. asked' \in Nat
    BY <1>1 DEF Answer, TypeOK
  <2> QED BY <1>1, <2>2, <2>3 DEF Answer, TypeOK, listVars, fileVars
<1>2. CASE Notify
  <2>1. PICK n \in 1..MaxNotified :
            \E who \in [1..n -> [uin : watched, status : Statuses]] :
              /\ inbox' = Append(inbox, [type |-> "notify", who |-> who])
              /\ told' = [u \in UINs |-> IF \E i \in 1..n : who[i].uin = u
                                        THEN (CHOOSE x \in Range(who) : x.uin = u).status
                                        ELSE told[u]]
    BY <1>2 DEF Notify
  <2>2. PICK who \in [1..n -> [uin : watched, status : Statuses]] :
              /\ inbox' = Append(inbox, [type |-> "notify", who |-> who])
              /\ told' = [u \in UINs |-> IF \E i \in 1..n : who[i].uin = u
                                        THEN (CHOOSE x \in Range(who) : x.uin = u).status
                                        ELSE told[u]]
    BY <2>1
  <2>3. who \in Seq(Notified) /\ \A x \in Range(who) : x.status \in Statuses
    BY NotifyType DEF Range, Notified
  <2>4. inbox' \in Seq(Packet)
    <3>1. [type |-> "notify", who |-> who] \in Packet
      BY <2>3
    <3> QED BY <2>2, <3>1 DEF TypeOK
  <2>5. told' \in [UINs -> Statuses \cup {"none"}]
    <3> DEFINE news(u) == CHOOSE x \in Range(who) : x.uin = u
    <3>1. ASSUME NEW u \in UINs, \E i \in 1..n : who[i].uin = u
          PROVE  news(u).status \in Statuses
      <4>1. \E x \in Range(who) : x.uin = u
        BY <3>1 DEF Range
      <4>2. news(u) \in Range(who)
        BY <4>1
      <4> QED BY <2>3, <4>2
    <3>2. told' = [u \in UINs |-> IF \E i \in 1..n : who[i].uin = u THEN news(u).status ELSE told[u]]
      BY <2>2
    <3> HIDE DEF news
    <3> QED BY <3>1, <3>2 DEF TypeOK
  <2> QED BY <1>2, <2>4, <2>5 DEF Notify, TypeOK, listVars, fileVars
<1> QED BY <1>1, <1>2

LEMMA NextType == TypeOK /\ [Next]_vars => TypeOK'
<1> SUFFICES ASSUME TypeOK, [Next]_vars PROVE TypeOK'
  OBVIOUS
<1>1. CASE Next
  BY <1>1, LifeType, HandlersType, ServerType DEF Next
<1>2. CASE UNCHANGED vars
  BY <1>2 DEF TypeOK, vars, listVars, fileVars, serverVars
<1> QED BY <1>1, <1>2

\* The variables keep their types, whatever the lists at the server.
THEOREM TypeCorrect == Spec => []TypeOK
<1> QED BY InitType, NextType, PTL DEF Spec

-------------------------------------------------------------------------------
(***************************************************************************)
(* The inductive invariant.  The server's news and the list agree only as  *)
(* far as no packet is on its way; Waiting and OnItsWay say what holds     *)
(* when one is, and HeardInv that there is one at most which matters.      *)
(***************************************************************************)
WatchInv == ListedIsWatched /\ (~running => online = "no")

\* The server has been asked for the list, and for nothing else.
Waiting == watched = {} /\ told = Nothing

\* Who says last what the server has told, and the list has the rest.
OnItsWay(who) ==
    /\ \A n \in Range(who) : n.uin \in Numbers(iList) /\ told[n.uin] = n.status
    /\ \A n, m \in Range(who) : n.uin = m.uin => n = m
    /\ \A u \in Numbers(iList) :
          told[u] # "none" /\ (\A n \in Range(who) : n.uin # u)
              => iList[Find(iList, u)].status = told[u]

HeardInv ==
    ~byMenu =>
        /\ online # "yes" => asked = 0 /\ inbox = <<>> /\ Waiting
        /\ watched \subseteq Numbers(iList)
        /\ \/ asked = 0 /\ inbox = <<>> /\ OnItsWay(<<>>)
           \/ asked = 1 /\ inbox = <<>> /\ Waiting
           \/ asked = 0 /\ Len(inbox) = 1 /\ inbox[1].type = "userlist" /\ Waiting
           \/ /\ asked = 0 /\ Len(inbox) = 1 /\ inbox[1].type = "notify"
              /\ OnItsWay(inbox[1].who)

IInv == TypeOK /\ WatchInv /\ HeardInv
-------------------------------------------------------------------------------
\* A list of which nothing was told yet.
LEMMA Untold ==
    ASSUME iList \in Seq(Person), told = Nothing
    PROVE  OnItsWay(<<>>)
<1>1. \A u \in Numbers(iList) : told[u] = "none"
  BY NumbersOf DEF Nothing
<1>2. Range(<<>>) = {}
  BY DEF Range
<1> QED BY <1>1, <1>2 DEF OnItsWay

LEMMA InitInv == Init => IInv
<1> SUFFICES ASSUME Init PROVE IInv
  OBVIOUS
<1>1. TypeOK
  BY InitType
<1>2. WatchInv
  BY DEF Init, WatchInv, ListedIsWatched
<1>3. OnItsWay(<<>>)
  BY <1>1, Untold DEF TypeOK, Init
<1>4. HeardInv
  BY <1>3 DEF Init, HeardInv, Waiting
<1> QED BY <1>1, <1>2, <1>4 DEF IInv

\* Whatever the user and the server do, what is listed stays watched.
LEMMA WatchNext == TypeOK /\ WatchInv /\ [Next]_vars => WatchInv'
<1> SUFFICES ASSUME TypeOK, WatchInv, [Next]_vars PROVE WatchInv'
  OBVIOUS
<1> USE DEF WatchInv, ListedIsWatched
<1>1. CASE Start
  BY <1>1 DEF Start
<1>2. CASE SaveBegins \/ SaveProfile \/ SaveList
  BY <1>2 DEF SaveBegins, SaveProfile, SaveList, listVars, serverVars
<1>3. CASE Ends \/ Login \/ Logout
  BY <1>3 DEF Ends, Login, Logout, fileVars
<1>4. CASE HandleEventConnected
  <2>1. CASE ~iIsValid \/ iNeedImport
    BY <1>4, <2>1 DEF HandleEventConnected, Import
  <2>2. CASE ~(~iIsValid \/ iNeedImport)
    BY <1>4, <2>2 DEF HandleEventConnected, listVars
  <2> QED BY <2>1, <2>2
<1>5. CASE ImportList
  BY <1>5 DEF ImportList, Import
<1>6. CASE HandleEventUserlist
  <2>1. CASE roster # <<>>
    BY <1>6, <2>1 DEF HandleEventUserlist
  <2>2. CASE roster = <<>>
    BY <1>6, <2>2 DEF HandleEventUserlist
  <2> QED BY <2>1, <2>2
<1>7. CASE HandleEventNotify
  <2>1. Head(inbox).who \in Seq(Notified)
    <3> DEFINE Packet == [type : {"userlist", "notify"}, who : Seq(Notified)]
    <3>1. inbox \in Seq(Packet) /\ inbox # <<>>
      BY <1>7 DEF TypeOK, HandleEventNotify
    <3>2. Head(inbox) \in Packet
      BY <3>1, HeadTailProperties
    <3> QED BY <3>2
  <2>2. Numbers(iList') = Numbers(iList)
    <3>1. iList \in Seq(Person)
      BY DEF TypeOK
    <3>2. iList' = SetStatus(iList, Known(Head(inbox).who))
      BY <1>7 DEF HandleEventNotify
    <3> QED BY <2>1, <3>1, <3>2, KnownType, SetStatusType
  <2> QED BY <1>7, <2>2 DEF HandleEventNotify
<1>8. CASE Answer \/ Notify
  BY <1>8 DEF Answer, Notify, listVars
<1>9. CASE UNCHANGED vars
  BY <1>9 DEF vars, listVars, serverVars
<1> QED BY <1>1, <1>2, <1>3, <1>4, <1>5, <1>6, <1>7, <1>8, <1>9 DEF Next, Handle

-------------------------------------------------------------------------------
(***************************************************************************)
(* HeardInv.                                                               *)
(***************************************************************************)
\* Between sessions, and at the start of one, nothing is on its way.
LEMMA LifeHeard ==
    IInv /\ (Start \/ SaveBegins \/ SaveProfile \/ SaveList \/ Ends \/ Login \/ Logout)
        => HeardInv'
<1> SUFFICES ASSUME IInv, ~byMenu',
                    Start \/ SaveBegins \/ SaveProfile \/ SaveList \/ Ends \/ Login \/ Logout
             PROVE  HeardInv'
  BY DEF HeardInv
<1>1. TypeOK' /\ TypeOK
  BY LifeType DEF IInv
<1>2. CASE Start \/ Ends \/ Logout
  <2>1. ~byMenu
    BY <1>2 DEF Start, Ends, Logout
  <2>2. asked' = 0 /\ inbox' = <<>> /\ watched' = {} /\ told' = Nothing
    <3>1. CASE Start
      BY <2>1, <3>1 DEF Start, IInv, WatchInv, HeardInv, Waiting, serverVars
    <3>2. CASE Ends \/ Logout
      BY <3>2 DEF Ends, Logout, Reset
    <3> QED BY <1>2, <3>1, <3>2
  <2>3. OnItsWay(<<>>)'
    <3>1. iList' \in Seq(Person)
      BY <1>1 DEF TypeOK
    <3>2. \A u \in Numbers(iList') : told'[u] = "none"
      BY <2>2, <3>1, NumbersOf DEF Nothing
    <3>3. Range(<<>>) = {}
      BY DEF Range
    <3> QED BY <3>2, <3>3 DEF OnItsWay
  <2> QED BY <2>2, <2>3 DEF HeardInv, Waiting
<1>3. CASE SaveBegins \/ SaveProfile \/ SaveList \/ Login
  <2>1. byMenu' = byMenu /\ iList' = iList /\ asked' = asked /\ inbox' = inbox
        /\ watched' = watched /\ told' = told
    BY <1>3 DEF SaveBegins, SaveProfile, SaveList, Login, listVars, serverVars
  <2>2. online' # "yes" => online # "yes"
    BY <1>3 DEF SaveBegins, SaveProfile, SaveList, Login
  <2>3. \A who : OnItsWay(who)' <=> OnItsWay(who)
    BY <2>1 DEF OnItsWay
  <2> QED BY <2>1, <2>2, <2>3 DEF IInv, HeardInv, Waiting
<1> QED BY <1>2, <1>3

\* The client is greeted: it asks for the list, or has it watched.
LEMMA ConnectedHeard == IInv /\ HandleEventConnected => HeardInv'
<1> SUFFICES ASSUME IInv, HandleEventConnected, ~byMenu' PROVE HeardInv'
  BY DEF HeardInv
<1>1. ~byMenu /\ online = "new" /\ online' = "yes" /\ inbox' = inbox /\ told' = told
  BY DEF HandleEventConnected
<1>2. asked = 0 /\ inbox = <<>> /\ watched = {} /\ told = Nothing
  BY <1>1 DEF IInv, HeardInv, Waiting
<1>3. CASE ~iIsValid \/ iNeedImport
  <2>1. asked' = 1 /\ watched' = {}
    BY <1>2, <1>3 DEF HandleEventConnected, Import
  <2> QED BY <1>1, <1>2, <2>1 DEF HeardInv, Waiting
<1>4. CASE ~(~iIsValid \/ iNeedImport)
  <2>1. watched' = Numbers(iList) /\ iList' = iList /\ asked' = asked
    BY <1>4 DEF HandleEventConnected, listVars
  <2>2. OnItsWay(<<>>)
    BY <1>2, Untold DEF IInv, TypeOK
  <2>3. OnItsWay(<<>>)'
    BY <1>1, <2>1, <2>2 DEF OnItsWay
  <2> QED BY <1>1, <1>2, <2>1, <2>3 DEF HeardInv
<1> QED BY <1>3, <1>4

\* The list comes, of which the server has told nothing yet.
LEMMA UserlistHeard == IInv /\ HandleEventUserlist => HeardInv'
<1> SUFFICES ASSUME IInv, HandleEventUserlist, ~byMenu' PROVE HeardInv'
  BY DEF HeardInv
<1>1. /\ ~byMenu /\ inbox # <<>> /\ Head(inbox).type = "userlist" /\ inbox' = Tail(inbox)
      /\ online' = online /\ told' = told /\ asked' = asked
  BY DEF HandleEventUserlist
<1>2. asked = 0 /\ Len(inbox) = 1 /\ Waiting
  BY <1>1 DEF IInv, HeardInv
<1>3. inbox' = <<>>
  <2> DEFINE Packet == [type : {"userlist", "notify"}, who : Seq(Notified)]
  <2>1. inbox \in Seq(Packet)
    BY DEF IInv, TypeOK
  <2> QED BY <1>1, <1>2, <2>1
<1>4. watched' \subseteq Numbers(iList')
  BY <1>2 DEF HandleEventUserlist, Waiting
<1>5. OnItsWay(<<>>)'
  <2>1. iList' \in Seq(Person)
    BY HandlersType DEF IInv, Handle, TypeOK
  <2>2. \A u \in Numbers(iList') : told'[u] = "none"
    BY <1>1, <1>2, <2>1, NumbersOf DEF Waiting, Nothing
  <2>3. Range(<<>>) = {}
    BY DEF Range
  <2> QED BY <2>2, <2>3 DEF OnItsWay
<1>6. online' = "yes"
  BY <1>1 DEF IInv, HeardInv
<1> QED BY <1>1, <1>2, <1>3, <1>4, <1>5, <1>6 DEF HeardInv

\* A notification is shown: nobody in it is unknown.
LEMMA NotifyHeard == IInv /\ HandleEventNotify => HeardInv'
<1> SUFFICES ASSUME IInv, HandleEventNotify, ~byMenu' PROVE HeardInv'
  BY DEF HeardInv
<1> DEFINE who == Head(inbox).who
           Packet == [type : {"userlist", "notify"}, who : Seq(Notified)]
<1>1. /\ ~byMenu /\ inbox # <<>> /\ Head(inbox).type = "notify" /\ inbox' = Tail(inbox)
      /\ online' = online /\ told' = told /\ asked' = asked /\ watched' = watched
      /\ iList' = SetStatus(iList, Known(who))
  BY DEF HandleEventNotify
<1>2. inbox \in Seq(Packet) /\ iList \in Seq(Person)
  BY DEF IInv, TypeOK
<1>3. Head(inbox) = inbox[1]
  BY <1>1, <1>2
<1>4. asked = 0 /\ Len(inbox) = 1 /\ OnItsWay(who) /\ watched \subseteq Numbers(iList)
  BY <1>1, <1>3 DEF IInv, HeardInv
<1>5. inbox' = <<>> /\ who \in Seq(Notified)
  <2>1. Head(inbox) \in Packet
    BY <1>1, <1>2, HeadTailProperties
  <2>2. inbox' = <<>>
    BY <1>1, <1>2, <1>4
  <2> QED BY <2>1, <2>2
<1> HIDE DEF who
<1>6. Known(who) = who
  BY <1>2, <1>4, <1>5, KnownType DEF OnItsWay
<1>7. /\ iList' \in Seq(Person) /\ Len(iList') = Len(iList)
      /\ \A i \in 1..Len(iList) : iList'[i].uin = iList[i].uin
      /\ Numbers(iList') = Numbers(iList)
  BY <1>1, <1>2, <1>4, <1>5, <1>6, SetStatusType DEF OnItsWay
<1>8. ASSUME NEW u \in Numbers(iList), told[u] # "none"
      PROVE  iList'[Find(iList', u)].status = told[u]
  <2> DEFINE i == Find(iList, u)
  <2>1. i \in 1..Len(iList) /\ iList[i].uin = u /\ Find(iList', u) = i
    BY <1>2, <1>7, FindFirst, FindSame
  <2>2. CASE \E n \in Range(who) : n.uin = u
    <3>1. PICK n \in Range(who) : n.uin = u
      BY <2>2
    <3> DEFINE m == CHOOSE x \in Range(who) : x.uin = iList[i].uin
    <3>2. m \in Range(who) /\ m.uin = u
      BY <2>1, <3>1
    <3>3. iList'[i] = [iList[i] EXCEPT !.status = m.status]
      BY <1>1, <1>6, <2>1, <3>1 DEF SetStatus
    <3>4. m.status = told[u]
      BY <1>4, <3>2 DEF OnItsWay
    <3>5. iList[i] \in Person
      BY <1>2, <2>1
    <3> HIDE DEF m, i
    <3>6. iList'[i].status = m.status
      BY <3>3, <3>5 DEF Person
    <3> QED BY <2>1, <3>4, <3>6
  <2>3. CASE \A n \in Range(who) : n.uin # u
    <3>1. \A n \in Range(who) : Find(iList, n.uin) # i
      BY <1>2, <1>4, <2>1, <2>3, FindFirst DEF OnItsWay
    <3>2. iList'[i] = iList[i]
      BY <1>1, <1>6, <2>1, <3>1 DEF SetStatus
    <3> QED BY <1>4, <1>8, <2>1, <2>3, <3>2 DEF OnItsWay
  <2> QED BY <2>2, <2>3
<1>9. OnItsWay(<<>>)'
  <2>1. Range(<<>>) = {}
    BY DEF Range
  <2> QED BY <1>1, <1>7, <1>8, <2>1 DEF OnItsWay
<1>10. online' = "yes"
  BY <1>1 DEF IInv, HeardInv
<1> QED BY <1>1, <1>4, <1>5, <1>7, <1>9, <1>10 DEF HeardInv

\* The server answers; it tells of contacts that are watched, hence listed.
LEMMA ServerHeard == IInv /\ (Answer \/ Notify) => HeardInv'
<1> SUFFICES ASSUME IInv, Answer \/ Notify, ~byMenu' PROVE HeardInv'
  BY DEF HeardInv
<1>1. /\ ~byMenu /\ online' = online /\ iList' = iList /\ watched' = watched
      /\ TypeOK
  BY DEF Answer, Notify, listVars, IInv
<1> DEFINE Packet == [type : {"userlist", "notify"}, who : Seq(Notified)]
<1>2. inbox \in Seq(Packet) /\ iList \in Seq(Person) /\ asked \in Nat
  BY <1>1 DEF TypeOK
<1>3. CASE Answer
  <2>1. asked = 1 /\ inbox = <<>> /\ Waiting /\ online = "yes"
    BY <1>1, <1>3 DEF IInv, HeardInv, Answer
  <2>2. /\ asked' = 0 /\ told' = told
        /\ inbox' = <<[type |-> "userlist", who |-> <<>>]>>
    BY <1>3, <2>1 DEF Answer
  <2>3. Len(inbox') = 1 /\ inbox'[1].type = "userlist" /\ Waiting'
    BY <1>1, <2>1, <2>2 DEF Waiting
  <2> QED BY <1>1, <2>1, <2>2, <2>3 DEF HeardInv, Waiting
<1>4. CASE Notify
  <2>1. PICK n \in 1..MaxNotified :
            \E who \in [1..n -> [uin : watched, status : Statuses]] :
              /\ IsInjective([i \in 1..n |-> who[i].uin])
              /\ inbox' = Append(inbox, [type |-> "notify", who |-> who])
              /\ told' = [u \in UINs |-> IF \E i \in 1..n : who[i].uin = u
                                        THEN (CHOOSE x \in Range(who) : x.uin = u).status
                                        ELSE told[u]]
    BY <1>4 DEF Notify
  <2>2. PICK who \in [1..n -> [uin : watched, status : Statuses]] :
              /\ IsInjective([i \in 1..n |-> who[i].uin])
              /\ inbox' = Append(inbox, [type |-> "notify", who |-> who])
              /\ told' = [u \in UINs |-> IF \E i \in 1..n : who[i].uin = u
                                        THEN (CHOOSE x \in Range(who) : x.uin = u).status
                                        ELSE told[u]]
    BY <2>1
  <2>3. n \in Nat /\ 1 \in 1..n /\ Len(who) = n
        /\ \A i \in 1..n : who[i] \in Notified /\ who[i].uin \in watched
    BY <1>1, NotifyType, BoundsAssumption
  <2>4. watched # {} /\ watched \subseteq Numbers(iList)
    BY <1>1, <2>3 DEF IInv, HeardInv
  <2>5. asked = 0 /\ inbox = <<>> /\ OnItsWay(<<>>) /\ online = "yes"
    <3>1. asked' = asked /\ \A i \in 1..Len(inbox) : inbox[i].type # "notify"
      BY <1>4 DEF Notify
    <3>2. ~Waiting /\ online = "yes"
      BY <1>1, <2>4 DEF IInv, HeardInv, Waiting
    <3> QED BY <1>1, <2>4, <3>1, <3>2 DEF IInv, HeardInv
  <2>6. \A x \in Range(who) : \E i \in 1..n : x = who[i]
    BY DEF Range
  <2>7. ASSUME NEW x \in Range(who), NEW y \in Range(who), x.uin = y.uin
        PROVE  x = y
    <3>1. PICK i \in 1..n : x = who[i]
      BY <2>6
    <3>2. PICK j \in 1..n : y = who[j]
      BY <2>6
    <3>3. i = j
      BY <2>2, <2>7, <3>1, <3>2 DEF IsInjective
    <3> QED BY <3>1, <3>2, <3>3
  <2>8. ASSUME NEW x \in Range(who)
        PROVE  x.uin \in Numbers(iList) /\ told'[x.uin] = x.status
    <3>1. PICK i \in 1..n : x = who[i]
      BY <2>6
    <3>2. x.uin \in UINs /\ x.uin \in Numbers(iList)
      BY <2>3, <2>4, <3>1 DEF Notified
    <3> DEFINE news == CHOOSE y \in Range(who) : y.uin = x.uin
    <3>3. news = x
      <4>1. news \in Range(who) /\ news.uin = x.uin
        OBVIOUS
      <4> HIDE DEF news
      <4> QED BY <2>7, <4>1
    <3>4. told'[x.uin] = news.status
      BY <2>2, <3>1, <3>2
    <3> QED BY <3>2, <3>3, <3>4
  <2>9. ASSUME NEW u \in Numbers(iList), told'[u] # "none", \A x \in Range(who) : x.uin # u
        PROVE  iList[Find(iList, u)].status = told'[u]
    <3>1. \A i \in 1..n : who[i] \in Range(who)
      BY DEF Range
    <3>2. u \in UINs
      BY <1>2, NumbersOf
    <3>3. told'[u] = told[u]
      BY <2>2, <2>9, <3>1, <3>2
    <3>4. Range(<<>>) = {}
      BY DEF Range
    <3> QED BY <2>5, <2>9, <3>3, <3>4 DEF OnItsWay
  <2>10. OnItsWay(who)'
    BY <1>1, <2>7, <2>8, <2>9 DEF OnItsWay
  <2>11. /\ Len(inbox') = 1 /\ inbox'[1] = [type |-> "notify", who |-> who]
         /\ asked' = 0
    BY <1>4, <2>2, <2>5 DEF Notify
  <2> QED BY <1>1, <2>4, <2>5, <2>10, <2>11 DEF HeardInv
<1> QED BY <1>3, <1>4

LEMMA NextInv == IInv /\ [Next]_vars => IInv'
<1> SUFFICES ASSUME IInv, [Next]_vars PROVE IInv'
  OBVIOUS
<1>1. TypeOK' /\ WatchInv'
  BY NextType, WatchNext DEF IInv
<1>2. HeardInv'
  <2>1. CASE Start \/ SaveBegins \/ SaveProfile \/ SaveList \/ Ends \/ Login \/ Logout
    BY <2>1, LifeHeard
  <2>2. CASE ImportList
    BY <2>2 DEF ImportList, HeardInv
  <2>3. CASE Handle
    BY <2>3, ConnectedHeard, UserlistHeard, NotifyHeard DEF Handle
  <2>4. CASE Answer \/ Notify
    BY <2>4, ServerHeard
  <2>5. CASE UNCHANGED vars
    BY <2>5 DEF vars, listVars, serverVars, IInv, HeardInv, Waiting, OnItsWay
  <2> QED BY <2>1, <2>2, <2>3, <2>4, <2>5 DEF Next
<1> QED BY <1>1, <1>2 DEF IInv

-------------------------------------------------------------------------------
THEOREM Invariance == Spec => []IInv
<1> QED BY InitInv, NextInv, PTL DEF Spec

\* The server watches every contact of a valid list, however often the list is
\* imported, saved, and read again, and wherever the program dies.
THEOREM ListedAreWatched == Spec => []ListedIsWatched
<1>1. IInv => ListedIsWatched
  BY DEF IInv, WatchInv
<1> QED BY <1>1, Invariance, PTL

\* What the server told last is what the list shows, for a user who leaves the
\* import to the login.
THEOREM WhatWasToldIsShown == Spec => []HeardIsShown
<1>1. IInv => HeardIsShown
  <2> SUFFICES ASSUME IInv, ~byMenu, inbox = <<>>, NEW u \in Numbers(iList), told[u] # "none"
               PROVE  iList[Find(iList, u)].status = told[u]
    BY DEF HeardIsShown
  <2>1. u \in UINs
    BY NumbersOf DEF IInv, TypeOK
  <2>2. ~Waiting
    BY <2>1 DEF Waiting, Nothing
  <2>3. Len(inbox) = 0
    OBVIOUS
  <2>4. OnItsWay(<<>>)
    BY <2>2, <2>3 DEF IInv, HeardInv
  <2>5. Range(<<>>) = {}
    BY DEF Range
  <2> QED BY <2>4, <2>5 DEF OnItsWay
<1> QED BY <1>1, Invariance, PTL
===============================================================================

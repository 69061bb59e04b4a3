-------------------------------- MODULE Contacts --------------------------------
(***************************************************************************)
(* The contact list of a profile from the wizard that made the profile on: *)
(* import from the server, notifications, saving, crashes and restarts     *)
(* (Person.cpp and the event handlers of NetworkHandler.cpp).              *)
(*                                                                         *)
(* The handler thread and the main window's looper work on the list at the *)
(* same time.  A handler is one step; Profile::Save is three, with the     *)
(* file system between them.  A contact is a number and a status, a line   *)
(* of the list file a number.                                              *)
(***************************************************************************)
EXTENDS Naturals, Sequences, Functions

CONSTANTS
    UINs,         \* Gadu-Gadu numbers
    Rosters,      \* lists that the server may keep for the account
    MaxInbox,     \* bound: requests and packets between server and client
    MaxNotified   \* bound: contacts in one notification

ASSUME RostersAssumption == Rosters \subseteq Seq(UINs)
ASSUME BoundsAssumption == MaxInbox \in Nat /\ MaxNotified \in Nat

VARIABLES
    iList, iIsValid, iNeedImport,  \* Userlist, Profile
    named,                         \* the profile that was loaded had its name
    running,                       \* the program runs
    saving, cfgmesg,               \* where Profile::Save is, and what it packed
    profileFile, userlistFile,     \* the profile's files
    online,                        \* no session, a new one, one that was greeted
    roster, asked, watched, inbox, \* the server, and its packets on their way
    told,                          \* history: the status it told last, this session
    byMenu                         \* history: the user has asked for an import

listVars   == <<iList, iIsValid, iNeedImport>>
fileVars   == <<profileFile, userlistFile>>
serverVars == <<roster, asked, watched, inbox, told>>
vars == <<listVars, named, running, saving, cfgmesg, fileVars, online, serverVars, byMenu>>

Statuses == {"NOT_AVAIL", "AVAIL"}
Person == [uin : UINs, status : Statuses]
Notified == [uin : UINs, status : Statuses]
NULL == <<>>

Nothing == [u \in UINs |-> "none"]

\* The profile wizard has saved an empty list that is still to be imported.
Init ==
    /\ iList = <<>> /\ iIsValid = FALSE /\ iNeedImport = TRUE
    /\ named = FALSE /\ running = FALSE
    /\ saving = "no" /\ cfgmesg = TRUE
    /\ profileFile = [whole |-> TRUE, iNeedImport |-> TRUE]
    /\ userlistFile \in {<<<<>>>>, NULL}   \* NULL: the disk was full
    /\ online = "no"
    /\ roster \in Rosters
    /\ asked = 0 /\ watched = {} /\ inbox = <<>> /\ told = Nothing
    /\ byMenu = FALSE

-------------------------------------------------------------------------------
(***************************************************************************)
(* Userlist.                                                               *)
(***************************************************************************)
Dump(list) == [i \in 1..Len(list) |-> list[i].uin]
Numbers(list) == Range(Dump(list))

MutFresh(numbers) == [i \in 1..Len(numbers) |-> [uin |-> numbers[i], status |-> "unset"]]

\* Read and Set give every line a contact that is not available
Fresh(numbers) == [i \in 1..Len(numbers) |-> [uin |-> numbers[i], status |-> "NOT_AVAIL"]]

\* Clear, and the loop in Import: an item is removed and the next one skipped
Clear(list) == [i \in 1..(Len(list) \div 2) |-> list[2 * i]]

Set(list, numbers) == Clear(list) \o Fresh(numbers)

\* Find: the first contact of that number
Find(list, uin) == CHOOSE i \in 1..Len(list) :
                      /\ list[i].uin = uin
                      /\ \A j \in 1..(i - 1) : list[j].uin # uin

\* each contact that is told of has its status set; a number comes only once
SetStatus(list, who) ==
    [i \in 1..Len(list) |->
        IF \E n \in Range(who) : Find(list, n.uin) = i
        THEN [list[i] EXCEPT !.status = (CHOOSE n \in Range(who) : n.uin = list[i].uin).status]
        ELSE list[i]]

\* Import asks the server, and empties the list meanwhile.  The request fails
\* for want of memory only: a send that fails is not reported (gg_send_packet).
Import ==
    /\ iIsValid' = FALSE
    /\ iList' = Clear(iList)
    /\ asked' = asked + 1

Room == asked + Len(inbox) < MaxInbox
Reset == asked' = 0 /\ watched' = {} /\ inbox' = <<>> /\ told' = Nothing

-------------------------------------------------------------------------------
(***************************************************************************)
(* The profile's life: Load, Save, and the end of the program.             *)
(***************************************************************************)
\* Profile::Load; a torn file gives the defaults, no name and no list
Start ==
    /\ ~running /\ running' = TRUE
    /\ named' = profileFile.whole
    /\ iNeedImport' = (profileFile.whole => profileFile.iNeedImport)
    /\ iIsValid' = (profileFile.whole /\ userlistFile # NULL)
    /\ iList' = IF profileFile.whole /\ userlistFile # NULL THEN Fresh(userlistFile[1]) ELSE <<>>
    /\ UNCHANGED <<saving, cfgmesg, fileVars, online, serverVars, byMenu>>

\* Quitting or closing the window: the file is emptied before it is written.
\* A profile without a name is saved elsewhere.
SaveBegins ==
    /\ running /\ saving = "no"
    /\ cfgmesg' = iNeedImport
    /\ IF named THEN saving' = "profile" /\ profileFile' = [profileFile EXCEPT !.whole = FALSE]
                ELSE saving' = "done" /\ UNCHANGED profileFile
    /\ UNCHANGED <<listVars, named, running, userlistFile, online, serverVars, byMenu>>

SaveProfile ==
    /\ saving = "profile" /\ saving' = "list"
    /\ \/ profileFile' = [whole |-> TRUE, iNeedImport |-> cfgmesg]
       \/ UNCHANGED profileFile                     \* the disk is full
    /\ UNCHANGED <<listVars, named, running, cfgmesg, userlistFile, online,
                   serverVars, byMenu>>

\* Userlist::Write: to another file, which takes the old one's name when whole
SaveList ==
    /\ saving = "list" /\ saving' = "done"
    /\ \/ userlistFile' = <<Dump(iList)>>
       \/ UNCHANGED userlistFile                    \* the disk is full
    /\ UNCHANGED <<listVars, named, running, cfgmesg, profileFile, online, serverVars,
                   byMenu>>

\* The program ends after Save, or dies anywhere.
Ends ==
    /\ running /\ running' = FALSE
    /\ saving' = "no" /\ online' = "no" /\ Reset
    /\ iList' = <<>> /\ iIsValid' = FALSE /\ iNeedImport' = TRUE
    /\ named' = FALSE /\ cfgmesg' = TRUE
    /\ UNCHANGED <<fileVars, roster, byMenu>>

-------------------------------------------------------------------------------
(***************************************************************************)
(* The session and the window.                                             *)
(***************************************************************************)
\* gg_login without a number fails
Login ==
    /\ running /\ named /\ online = "no" /\ saving = "no"
    /\ online' = "new"
    /\ UNCHANGED <<listVars, named, running, saving, cfgmesg, fileVars, serverVars, byMenu>>

Logout ==
    /\ online # "no" /\ online' = "no" /\ Reset
    /\ UNCHANGED <<listVars, named, running, saving, cfgmesg, fileVars, roster, byMenu>>

HandleEventConnected ==
    /\ online = "new" /\ online' = "yes"
    /\ IF ~iIsValid \/ iNeedImport
       THEN Import /\ iNeedImport' = FALSE /\ UNCHANGED watched
       ELSE watched' = Numbers(iList) /\ UNCHANGED <<listVars, asked>>
    /\ UNCHANGED <<named, running, saving, cfgmesg, fileVars, roster, inbox, told, byMenu>>

\* "Get from server", at any time while there is a session
ImportList ==
    /\ online # "no" /\ saving = "no" /\ Room
    /\ Import /\ byMenu' = TRUE
    /\ UNCHANGED <<iNeedImport, named, running, saving, cfgmesg, fileVars, online, roster,
                   watched, inbox, told>>

MutNotSent ==
    /\ inbox # <<>> /\ Head(inbox).type = "userlist" /\ inbox' = Tail(inbox)
    /\ IF roster # <<>>
       THEN iList' = Set(iList, roster) /\ iIsValid' = TRUE
       ELSE UNCHANGED <<iList, iIsValid>>
    /\ UNCHANGED <<iNeedImport, named, running, saving, cfgmesg, fileVars, online, roster,
                   asked, watched, told, byMenu>>

MutNotValid ==
    /\ inbox # <<>> /\ Head(inbox).type = "userlist" /\ inbox' = Tail(inbox)
    /\ IF roster # <<>>
       THEN iList' = Set(iList, roster)
            /\ watched' = (watched \ Numbers(iList)) \cup Numbers(iList')
       ELSE UNCHANGED <<iList, watched>>
    /\ UNCHANGED <<iIsValid, iNeedImport, named, running, saving, cfgmesg, fileVars, online,
                   roster, asked, told, byMenu>>

\* the contacts of the old list are no longer watched, those of the new one are;
\* an empty list comes as NULL and changes nothing
HandleEventUserlist ==
    /\ inbox # <<>> /\ Head(inbox).type = "userlist" /\ inbox' = Tail(inbox)
    /\ IF roster # <<>>
       THEN iList' = Set(iList, roster) /\ iIsValid' = TRUE
            /\ watched' = (watched \ Numbers(iList)) \cup Numbers(iList')
       ELSE UNCHANGED <<iList, iIsValid, watched>>
    /\ UNCHANGED <<iNeedImport, named, running, saving, cfgmesg, fileVars, online, roster,
                   asked, told, byMenu>>

\* those before the first that is unknown
MutKnown(who) == SubSeq(who, 1, 1)
Known(who) == LET unknown == {i \in 1..Len(who) : who[i].uin \notin Numbers(iList)} IN
              SubSeq(who, 1, IF unknown = {} THEN Len(who)
                             ELSE (CHOOSE i \in unknown : \A j \in unknown : i <= j) - 1)

\* Notify, Notify60, and Status, Status60 with one contact each
HandleEventNotify ==
    /\ inbox # <<>> /\ Head(inbox).type = "notify" /\ inbox' = Tail(inbox)
    /\ iList' = SetStatus(iList, Known(Head(inbox).who))
    /\ UNCHANGED <<iIsValid, iNeedImport, named, running, saving, cfgmesg, fileVars, online,
                   roster, asked, watched, told, byMenu>>

-------------------------------------------------------------------------------
(***************************************************************************)
(* The server answers in order; it tells of those it was asked to watch.   *)
(***************************************************************************)
Answer ==
    /\ asked > 0 /\ asked' = asked - 1
    /\ inbox' = Append(inbox, [type |-> "userlist", who |-> <<>>])
    /\ UNCHANGED <<listVars, named, running, saving, cfgmesg, fileVars, online, roster,
                   watched, told, byMenu>>

\* bound: one notification on its way
Notify ==
    /\ Room /\ \A i \in 1..Len(inbox) : inbox[i].type # "notify"
    /\ \E n \in 1..MaxNotified : \E who \in [1..n -> [uin : watched, status : Statuses]] :
         /\ IsInjective([i \in 1..n |-> who[i].uin])
         /\ inbox' = Append(inbox, [type |-> "notify", who |-> who])
         /\ told' = [u \in UINs |-> IF \E i \in 1..n : who[i].uin = u
                                    THEN (CHOOSE x \in Range(who) : x.uin = u).status
                                    ELSE told[u]]
    /\ UNCHANGED <<listVars, named, running, saving, cfgmesg, fileVars, online, roster,
                   asked, watched, byMenu>>

Handle == HandleEventConnected \/ HandleEventUserlist \/ HandleEventNotify

Next ==
    \/ Start \/ SaveBegins \/ SaveProfile \/ SaveList \/ Ends
    \/ Login \/ Logout \/ ImportList
    \/ Handle \/ Answer \/ Notify

Spec == Init /\ [][Next]_vars

\* The server answers and the handler thread runs.
FairSpec == Spec /\ WF_vars(Handle) /\ WF_vars(Answer)

-------------------------------------------------------------------------------
TypeOK ==
    /\ iList \in Seq(Person) /\ iIsValid \in BOOLEAN /\ iNeedImport \in BOOLEAN
    /\ named \in BOOLEAN /\ running \in BOOLEAN /\ byMenu \in BOOLEAN
    /\ saving \in {"no", "profile", "list", "done"} /\ cfgmesg \in BOOLEAN
    /\ profileFile \in [whole : BOOLEAN, iNeedImport : BOOLEAN]
    /\ userlistFile \in Seq(Seq(UINs))
    /\ online \in {"no", "new", "yes"}
    /\ roster \in Rosters
    /\ asked \in Nat /\ watched \subseteq UINs
    /\ inbox \in Seq([type : {"userlist", "notify"}, who : Seq(Notified)])
    /\ told \in [UINs -> Statuses \cup {"none"}]

\* Userlist::Import, Set and Send keep in step with the server: while a greeted
\* session has a valid list, the server watches every contact in it.
ListedIsWatched == online = "yes" /\ iIsValid => Numbers(iList) \subseteq watched

\* As long as nobody imports from the menu, no notification meets an unknown
\* contact, so none is lost behind one: what the server told last is shown.
HeardIsShown ==
    ~byMenu /\ inbox = <<>> =>
        \A u \in Numbers(iList) : told[u] # "none" => iList[Find(iList, u)].status = told[u]

\* A session without a valid list gets one, unless the account has none.
ImportEnds == (online = "yes" /\ ~iIsValid) ~> (online # "yes" \/ iIsValid \/ roster = <<>>)

-------------------------------------------------------------------------------
(***************************************************************************)
(* What a comment says and the code does not do.                           *)
(***************************************************************************)
\* Set ("sets the list") clears the list first: it holds what was imported.
SetReplaces ==
    [][inbox # <<>> /\ Head(inbox).type = "userlist" /\ inbox' = Tail(inbox) /\ roster # <<>>
       => Dump(iList') = roster]_vars
================================================================================

---------------------------------- MODULE Chats ----------------------------------
(***************************************************************************)
(* The chat windows: Network's looper, which opens them and closes them,   *)
(* the thread of each of them, the user, and Network::Quit, which runs on  *)
(* the main window's thread beside the looper.                             *)
(*                                                                         *)
(* A window is known by its address, which a later window may have again.  *)
(* BLooper::Lock on the address of a window that is gone returns false; a  *)
(* looper's Quit puts itself at the end of the window's queue and waits.   *)
(***************************************************************************)
EXTENDS Integers, Sequences, FiniteSets, SequencesExt

CONSTANTS Contacts, Addresses,
          MaxActs     \* bound: what users and the server do

None == "none"

ASSUME ChatsAssumption ==
    /\ IsFiniteSet(Contacts) /\ IsFiniteSet(Addresses) /\ None \notin Addresses
    /\ MaxActs \in Nat

VARIABLES
    queue,        \* Network's messages
    iWinList,     \* addresses of chat windows
    closing,      \* the window whose end CLOSE_MESSAGE waits for, or None
    win,          \* the windows: who, what is queued, whether it is there
    session,      \* iSession # NULL
    quit,         \* Network::Quit: where it is, index, window
    undefined,    \* freed memory or a null pointer was used
    got, shown, typed, sent,      \* history, for each contact: messages
    asked, again,                 \* history: windows the user closes, closed twice
    unasked,                      \* history: a window went that nobody closed
    calm,                         \* history: Network had nothing to do while it quit
    acts                          \* bound

looperVars == <<queue, iWinList, closing>>
userVars == <<acts, asked, again>>
histVars == <<got, shown, typed, sent>>
vars == <<looperVars, win, session, quit, undefined, histVars, userVars, unasked, calm>>

Gone == [there |-> FALSE]
There(a) == win[a].there

Opened(who, messages) == [there |-> TRUE, who |-> who, queue |-> messages]

\* numbers of messages, for each contact
Numbers(n) == [k \in 1..n |-> k]

Init ==
    /\ queue = <<>> /\ iWinList = <<>> /\ closing = None
    /\ win = [a \in Addresses |-> Gone]
    /\ session \in BOOLEAN
    /\ quit = [at |-> "no", i |-> 0, chat |-> None]
    /\ undefined = FALSE
    /\ got = [c \in Contacts |-> 0] /\ shown = [c \in Contacts |-> <<>>]
    /\ typed = [c \in Contacts |-> 0] /\ sent = [c \in Contacts |-> <<>>]
    /\ asked = {} /\ again = {} /\ unasked = FALSE /\ calm = TRUE
    /\ acts = 0

Quitting == quit.at # "no"

\* BMessenger::SendMessage to Network: nothing arrives when the looper has ended
Post(m) ==
    /\ queue' = IF quit.at = "done" THEN queue ELSE Append(queue, m)
    /\ calm' = (calm /\ ~Quitting)

-------------------------------------------------------------------------------
(***************************************************************************)
(* Network's looper.                                                       *)
(***************************************************************************)
Message == Head(queue)
Idle == closing = None /\ quit.at # "done" /\ ~undefined
Handles(what) == Idle /\ queue # <<>> /\ Message.what = what /\ queue' = Tail(queue)

MutMatches(who) == {k \in DOMAIN iWinList : k > 1 /\ There(iWinList[k]) /\ win[iWinList[k]].who = who}

\* the places of a contact's windows in the list
Matches(who) == {k \in DOMAIN iWinList : There(iWinList[k]) /\ win[iWinList[k]].who = who}

\* Network::GetMesgWinForUser, Activate and, for GotMsg, SHOW_MESSAGE.  Who() is
\* read from each window up to the one that is found; a new window reads the
\* profile of the main window, which is NULL when quitting has begun.
GetMesgWinForUser(who, messages) ==
    LET found == Matches(who)
        upTo == IF found = {} THEN Len(iWinList) ELSE CHOOSE k \in found : \A j \in found : k <= j
    IN
    IF \/ \E k \in 1..upTo : ~There(iWinList[k])
       \/ found = {} /\ Quitting
    THEN undefined' = TRUE /\ UNCHANGED <<iWinList, win, asked, again>>
    ELSE /\ UNCHANGED undefined
         /\ IF found # {}
            THEN /\ win' = [win EXCEPT ![iWinList[upTo]].queue = @ \o messages]
                 /\ UNCHANGED <<iWinList, asked, again>>
            ELSE \E a \in Addresses :
                    /\ ~There(a)
                    /\ win' = [win EXCEPT ![a] = Opened(who, messages)]
                    /\ iWinList' = Append(iWinList, a)
                    /\ asked' = asked \ {a} /\ UNCHANGED again

OpenMessage ==
    /\ Handles("OPEN") /\ GetMesgWinForUser(Message.who, <<>>)
    /\ UNCHANGED <<closing, session, quit, histVars, acts, unasked, calm>>

GotMsg ==
    /\ Handles("GOT")
    /\ GetMesgWinForUser(Message.who, <<[what |-> "SHOW", msg |-> Message.msg]>>)
    /\ UNCHANGED <<closing, session, quit, histVars, acts, unasked, calm>>

MutSendMsg ==
    /\ Handles("SEND")
    /\ IF session THEN sent' = [sent EXCEPT ![Message.who] = <<Message.msg>> \o @]
       ELSE UNCHANGED sent
    /\ UNCHANGED <<iWinList, closing, win, session, quit, undefined, got, shown, typed,
                   userVars, unasked, calm>>

\* Network::SendMsg: without a session the message is dropped
SendMsg ==
    /\ Handles("SEND")
    /\ IF session THEN sent' = [sent EXCEPT ![Message.who] = Append(@, Message.msg)]
       ELSE UNCHANGED sent
    /\ UNCHANGED <<iWinList, closing, win, session, quit, undefined, got, shown, typed,
                   userVars, unasked, calm>>

\* the window is asked to quit; history: did the user close it
Quits(a) ==
    /\ win' = [win EXCEPT ![a].queue = Append(@, [what |-> "QUIT"])]
    /\ unasked' = (unasked \/ a \notin asked)

MutWithout(list, a) == IF Contains(list, a) THEN RemoveAt(list, 1) ELSE list

\* BList::RemoveItem
Without(list, a) == IF Contains(list, a) THEN RemoveFirst(list, a) ELSE list

\* CLOSE_MESSAGE
CloseMessage ==
    /\ Handles("CLOSE")
    /\ iWinList' = Without(iWinList, Message.win)
    /\ IF There(Message.win)
       THEN Quits(Message.win) /\ closing' = Message.win
       ELSE UNCHANGED <<win, unasked, closing>>
    /\ UNCHANGED <<session, quit, undefined, histVars, userVars, calm>>

\* Quit returns
Closed ==
    /\ closing # None /\ ~There(closing) /\ ~undefined
    /\ closing' = None
    /\ UNCHANGED <<queue, iWinList, win, session, quit, undefined, histVars, userVars, unasked, calm>>

NetworkStep == OpenMessage \/ GotMsg \/ SendMsg \/ CloseMessage \/ Closed

-------------------------------------------------------------------------------
(***************************************************************************)
(* A chat window's thread.                                                 *)
(***************************************************************************)
Turn(a, what) == There(a) /\ win[a].queue # <<>> /\ Head(win[a].queue).what = what /\ ~undefined
Handled(a) == win' = [win EXCEPT ![a].queue = Tail(@)]

\* SHOW_MESSAGE: the name comes from the main window's profile
ShowMessage(a) ==
    /\ Turn(a, "SHOW") /\ Handled(a)
    /\ IF quit.at = "done" THEN undefined' = TRUE /\ UNCHANGED shown
       ELSE /\ shown' = [shown EXCEPT ![win[a].who] = Append(@, Head(win[a].queue).msg)]
            /\ UNCHANGED undefined
    /\ UNCHANGED <<looperVars, session, quit, got, typed, sent, userVars, unasked, calm>>

\* BEGG_SEND: the text is shown as said and posted to Network
BeggSend(a) ==
    /\ Turn(a, "SAY") /\ Handled(a)
    /\ IF quit.at = "done" THEN undefined' = TRUE /\ UNCHANGED <<queue, calm>>
       ELSE /\ Post([what |-> "SEND", who |-> win[a].who, msg |-> Head(win[a].queue).msg])
            /\ UNCHANGED undefined
    /\ UNCHANGED <<iWinList, closing, session, quit, histVars, userVars, unasked>>

\* ChatWindow::QuitRequested: Network is told, the window stays
QuitRequested(a) ==
    /\ Turn(a, "BOX") /\ Handled(a) /\ Post([what |-> "CLOSE", win |-> a])
    /\ UNCHANGED <<iWinList, closing, session, quit, undefined, histVars, userVars, unasked>>

MutQuit(a) ==
    /\ Turn(a, "QUIT") /\ Handled(a) /\ Post([what |-> "CLOSE", win |-> a])
    /\ UNCHANGED <<iWinList, closing, session, quit, undefined, histVars, userVars, unasked>>

\* BLooper's own message: the thread ends and deletes the window
Quit(a) ==
    /\ Turn(a, "QUIT") /\ win' = [win EXCEPT ![a] = Gone]
    /\ UNCHANGED <<looperVars, session, quit, undefined, histVars, userVars, unasked, calm>>

WindowStep(a) == ShowMessage(a) \/ BeggSend(a) \/ QuitRequested(a) \/ Quit(a)

-------------------------------------------------------------------------------
(***************************************************************************)
(* Network::Quit on the main window's thread, after GotWindow( NULL ).     *)
(***************************************************************************)
QuitBegins ==
    /\ ~Quitting /\ ~undefined
    /\ quit' = [quit EXCEPT !.at = "count"]
    /\ session' = FALSE                                  \* Logout
    /\ calm' = (queue = <<>> /\ closing = None /\ \A a \in Addresses : There(a) => win[a].queue = <<>>)
    /\ UNCHANGED <<looperVars, win, undefined, histVars, userVars, unasked>>

At(place) == quit.at = place /\ ~undefined
Counts(i) == [at |-> "count", i |-> i, chat |-> None]

QuitCounts ==
    /\ At("count")
    /\ quit' = [quit EXCEPT !.at = IF quit.i < Len(iWinList) THEN "item" ELSE "empty"]
    /\ UNCHANGED <<looperVars, win, session, undefined, histVars, userVars, unasked, calm>>

MutQuitLocks ==
    /\ At("item")
    /\ IF quit.i < Len(iWinList) /\ There(iWinList[quit.i + 1])
       THEN /\ win' = [win EXCEPT ![iWinList[quit.i + 1]].queue = Append(@, [what |-> "QUIT"])]
            /\ quit' = [at |-> "wait", i |-> quit.i + 1, chat |-> iWinList[quit.i + 1]]
       ELSE quit' = Counts(quit.i + 1) /\ UNCHANGED win
    /\ UNCHANGED <<looperVars, session, undefined, histVars, userVars, unasked, calm>>

\* ItemAt, which is NULL when the list has shrunk, Lock, and Quit
QuitLocks ==
    /\ At("item")
    /\ IF quit.i < Len(iWinList) /\ There(iWinList[quit.i + 1])
       THEN /\ win' = [win EXCEPT ![iWinList[quit.i + 1]].queue = Append(@, [what |-> "QUIT"])]
            /\ quit' = [quit EXCEPT !.at = "wait", !.chat = iWinList[quit.i + 1]]
       ELSE quit' = Counts(quit.i + 1) /\ UNCHANGED win
    /\ UNCHANGED <<looperVars, session, undefined, histVars, userVars, unasked, calm>>

QuitWaits ==
    /\ At("wait") /\ ~There(quit.chat)
    /\ quit' = Counts(quit.i + 1)
    /\ UNCHANGED <<looperVars, win, session, undefined, histVars, userVars, unasked, calm>>

QuitEmpties ==
    /\ At("empty") /\ iWinList' = <<>> /\ quit' = [quit EXCEPT !.at = "lock"]
    /\ UNCHANGED <<queue, closing, win, session, undefined, histVars, userVars, unasked, calm>>

\* Lock waits for the message in hand; those before BLooper::Quit's own are
\* handled still
QuitLoops ==
    /\ At("lock") /\ closing = None
    /\ quit' = [quit EXCEPT !.at = "ending"]
    /\ queue' = Append(queue, [what |-> "QUIT"])
    /\ UNCHANGED <<iWinList, closing, win, session, undefined, histVars, userVars, unasked, calm>>

QuitEnds ==
    /\ At("ending") /\ Handles("QUIT")
    /\ quit' = [quit EXCEPT !.at = "done"]
    /\ UNCHANGED <<iWinList, closing, win, session, undefined, histVars, userVars, unasked, calm>>

QuitStep == QuitCounts \/ QuitLocks \/ QuitWaits \/ QuitEmpties \/ QuitLoops \/ QuitEnds

-------------------------------------------------------------------------------
(***************************************************************************)
(* The user and the server.                                                *)
(***************************************************************************)
Acts == acts < MaxActs /\ acts' = acts + 1 /\ ~undefined

UserOpens(c) ==
    /\ Acts /\ ~Quitting
    /\ Post([what |-> "OPEN", who |-> c])
    /\ UNCHANGED <<iWinList, closing, win, session, quit, undefined, histVars, asked, again,
                   unasked>>

UserTypes(a) ==
    /\ Acts /\ There(a)
    /\ typed' = [typed EXCEPT ![win[a].who] = @ + 1]
    /\ win' = [win EXCEPT ![a].queue = Append(@, [what |-> "SAY", msg |-> typed'[win[a].who]])]
    /\ calm' = (calm /\ ~Quitting)
    /\ UNCHANGED <<looperVars, session, quit, undefined, got, shown, sent, asked, again, unasked>>

UserCloses(a) ==
    /\ Acts /\ There(a)
    /\ win' = [win EXCEPT ![a].queue = Append(@, [what |-> "BOX"])]
    /\ asked' = asked \cup {a}
    /\ again' = IF a \in asked THEN again \cup {a} ELSE again
    /\ calm' = (calm /\ ~Quitting)
    /\ UNCHANGED <<looperVars, session, quit, undefined, histVars, unasked>>

\* a handler thread posts a message; with no session there is none
Receive(c) ==
    /\ Acts /\ session
    /\ got' = [got EXCEPT ![c] = @ + 1]
    /\ Post([what |-> "GOT", who |-> c, msg |-> got'[c]])
    /\ UNCHANGED <<iWinList, closing, win, session, quit, undefined, shown, typed, sent,
                   asked, again, unasked>>

SessionChanges ==
    /\ Acts /\ ~Quitting /\ session' = ~session
    /\ UNCHANGED <<looperVars, win, quit, undefined, histVars, asked, again, unasked, calm>>

Environment ==
    \/ \E c \in Contacts : UserOpens(c) \/ Receive(c)
    \/ \E a \in Addresses : UserTypes(a) \/ UserCloses(a)
    \/ SessionChanges

Next ==
    \/ NetworkStep \/ QuitBegins \/ QuitStep \/ Environment
    \/ \E a \in Addresses : WindowStep(a)

\* Loopers handle their messages; nobody has to act or to quit.
Fairness ==
    /\ WF_vars(NetworkStep) /\ WF_vars(QuitStep)
    /\ \A a \in Addresses : WF_vars(WindowStep(a))

Spec == Init /\ [][Next]_vars
FairSpec == Spec /\ Fairness
-------------------------------------------------------------------------------
WindowMessages == [what : {"SHOW", "SAY"}, msg : Nat] \cup [what : {"BOX", "QUIT"}]
NetworkMessages ==
    [what : {"OPEN"}, who : Contacts] \cup [what : {"GOT", "SEND"}, who : Contacts, msg : Nat]
        \cup [what : {"CLOSE"}, win : Addresses] \cup [what : {"QUIT"}]

TypeOK ==
    /\ queue \in Seq(NetworkMessages) /\ iWinList \in Seq(Addresses)
    /\ closing \in (Addresses \ Range(iWinList)) \cup {None}
    /\ win \in [Addresses -> {Gone} \cup [there : {TRUE}, who : Contacts, queue : Seq(WindowMessages)]]
    /\ {session, undefined, unasked, calm} \subseteq BOOLEAN
    /\ quit.at \in {"no", "count", "item", "wait", "empty", "lock", "ending", "done"}
    /\ quit.i \in Nat /\ quit.chat \in Addresses \cup {None}
    /\ {got, typed} \subseteq [Contacts -> Nat] /\ {shown, sent} \subseteq [Contacts -> Seq(Nat)]
    /\ asked \subseteq Addresses /\ again \subseteq Addresses
    /\ acts \in 0..MaxActs

\* GetMesgWinForUser and CLOSE_MESSAGE: a contact has one window, which the list
\* knows until it is being closed, however opening, closing and messages mix and
\* whatever addresses are used again.
OneWindowEach ==
    ~Quitting =>
        /\ IsInjective(iWinList)
        /\ \A a, b \in Addresses : There(a) /\ There(b) /\ win[a].who = win[b].who => a = b
        /\ {a \in Addresses : There(a)} \ {closing} = Range(iWinList)

\* GotMsg to SHOW_MESSAGE: what a contact says is shown without a gap, once and
\* in order, though windows are closed and opened meanwhile.
ShownInOrder == \A c \in Contacts : shown[c] = Numbers(Len(shown[c]))

\* BEGG_SEND to SendMsg: what is said to a contact is sent in the order in which it
\* was typed, though it was typed in windows that are closed meanwhile.
SentInOrder == \A c \in Contacts : \A i, j \in DOMAIN sent[c] : i < j => sent[c][i] < sent[c][j]

\* What passes through two queues, in both directions, keeps its order.
ChatInOrder == ShownInOrder /\ SentInOrder

\* CLOSE_MESSAGE names a window by its address: only a user who closes a window
\* twice can lose the window that was opened at its address.
OnlyAskedAreClosed == unasked => again # {}

\* OPEN_MESSAGE, GOT_MESSAGE, CLOSE_MESSAGE: a contact's window is the one that
\* the list names, and goes when its own user wants it to.
WindowsSound == OneWindowEach /\ OnlyAskedAreClosed

\* A window that is gone and a main window that is NULL are used only by a looper
\* or a window that still has something to do when Network quits.
SoundWhenCalm == undefined => Quitting /\ ~calm

\* Network::Quit with nothing else under way leaves no chat window behind.
QuitClosesAll == quit.at = "done" /\ calm => \A a \in Addresses : ~There(a)

\* Network::Quit closes the windows without harm if nothing else is under way.
QuitSound == SoundWhenCalm /\ QuitClosesAll

\* Messages that were received are shown, unless the program quits.
GotIsShown ==
    \A c \in Contacts :
        Len(shown[c]) < got[c] ~> Len(shown[c]) = got[c] \/ Quitting \/ undefined

\* Network::Quit returns, though it and CLOSE_MESSAGE wait for the same windows.
QuitReturns == Quitting ~> quit.at = "done" \/ undefined

\* Neither messages nor a program that quits wait for ever.
LoopersGoOn == GotIsShown /\ QuitReturns
================================================================================

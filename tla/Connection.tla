------------------------------ MODULE Connection ------------------------------
(***************************************************************************)
(* The connection core of BeGadu: the Network looper, the main window's     *)
(* looper and the handler threads, which share the session pointer, the    *)
(* status, the window pointer and the list of handlers without a lock.     *)
(*                                                                         *)
(* A step is what one thread does between two points where the others can  *)
(* be seen to interfere: a read of Network's members, a blocking call      *)
(* (gg_login, select, wait_for_thread) or a message sent.  Looper "N" is   *)
(* Network, looper "W" the MainWindow; both can run Network::Logout.       *)
(*                                                                         *)
(* Left out: drawing and the messages that only make the window redraw,    *)
(* chat windows, the contact list's contents and the text of the           *)
(* description.  DEL_HANDLER and DO_LOGIN are never sent by the program.   *)
(***************************************************************************)
EXTENDS Naturals, SequencesExt

CONSTANTS
    Handlers,     \* NetworkHandler objects (and their threads) that may be created
    Sessions,     \* gg_session blocks that gg_login may allocate
    Fds,          \* values an uninitialised "fd" of ADD_HANDLER may have
    None,         \* the NULL pointer
    Patient,      \* TRUE: the user acts only when the program has settled
    MaxMail       \* bound on the window's mailbox

ASSUME NoneAssumption == None \notin Handlers \cup Sessions
ASSUME FdsAssumption == Fds # {}

VARIABLES
    iSession,     \* Network::iSession
    iStatus,      \* Network::iStatus
    iWindow,      \* Network::iWindow is not NULL
    iHandlerList, \* Network::iHandlerList
    nMail,        \* messages waiting for the Network looper
    wMail,        \* messages waiting for the main window's looper
    sess,         \* memory and socket of each session
    obj,          \* memory of each NetworkHandler
    iFd, iDie,    \* NetworkHandler::iFd and iDie
    hpc,          \* where each handler thread is
    inSelect,     \* the session whose descriptor a thread's select waits on
    lpc,          \* where each looper is in Network::Logout
    li,           \* Logout's loop counter
    target,       \* the handler a looper is stopping
    wpc,          \* where the main window is in its quit sequence
    net,          \* the Network object and the process
    fault,        \* undefined behaviours met so far
    crashed,      \* one of them ended the process
    by,           \* history: the handler whose DO_LOGOUT "N" handles
    owner,        \* history: the session each handler logged in
    logins        \* history: logins asked for, bounded by the handlers there are

sessionVars == <<iSession, sess, owner>>
objectVars  == <<obj, iFd, iDie>>
logoutVars  == <<lpc, li, target, by>>
quitVars    == <<wpc, net, iWindow>>
vars == <<sessionVars, iStatus, iHandlerList, nMail, wMail, objectVars, hpc, inSelect,
          logoutVars, quitVars, fault, crashed, logins>>

\* AVAIL stands for every status under which the user is connected.
Offline  == {"NOT_AVAIL", "NOT_AVAIL_DESCR"}
Statuses == Offline \cup {"AVAIL"}
Loopers  == {"N", "W"}

InLoop == {"loop", "prep", "select", "woken", "watch", "alert", "ping"}
Gone   == {"unborn", "ended"}

NMessages == [what : {"ADD_HANDLER", "DO_LOGOUT", "QUIT"}, from : Handlers \cup {None}]
NMessage(what, from) == [what |-> what, from |-> from]
WMessages == Statuses \cup {"BEGG_QUIT"}

Init ==
    /\ iSession = None
    /\ sess = [s \in Sessions |-> "none"]
    /\ owner = [h \in Handlers |-> None]
    /\ iHandlerList = <<>>
    /\ wMail = <<>>
    /\ obj = [h \in Handlers |-> "none"]
    /\ iFd = [h \in Handlers |-> None]
    /\ iDie = [h \in Handlers |-> FALSE]
    /\ hpc = [h \in Handlers |-> "unborn"]
    /\ inSelect = [h \in Handlers |-> None]
    /\ lpc = [t \in Loopers |-> "idle"]
    /\ li = [t \in Loopers |-> 0]
    /\ target = [t \in Loopers |-> None]
    /\ by = None
    /\ wpc = "run" /\ net = "up" /\ iWindow = TRUE
    /\ fault = {} /\ crashed = FALSE
    \* MainWindow's constructor logs in unless the profile says not to
    /\ \/ iStatus = "NOT_AVAIL" /\ nMail = <<>> /\ logins = 0
       \/ iStatus = "AVAIL" /\ nMail = <<NMessage("ADD_HANDLER", None)>> /\ logins = 1

(***************************************************************************)
(* Undefined behaviour.  A NULL dereference and a second free end the      *)
(* process.  A use of freed memory may end it too (StaleSession), or go on *)
(* with what the memory held.                                              *)
(***************************************************************************)
Crash(why) ==
    /\ fault' = fault \cup {why}
    /\ crashed' = TRUE
    /\ UNCHANGED <<sessionVars, iStatus, iHandlerList, nMail, wMail, objectVars, hpc,
                   inSelect, logoutVars, quitVars, logins>>

\* libgadu reads the pointer again on every call
Stale == iSession # None /\ sess[iSession] = "freed"
UseSession == fault' = IF Stale THEN fault \cup {"freed_session"} ELSE fault

-------------------------------------------------------------------------------
(***************************************************************************)
(* Network::Logout, run by looper t.  Definitions named Mut... are         *)
(* plausible slips in the definition after them; no action uses them.      *)
(***************************************************************************)
LAt(t, pc) == lpc[t] = pc
LGoto(t, pc) == lpc' = [lpc EXCEPT ![t] = pc]

LogoutTest(t) ==
    /\ LAt(t, "test")
    /\ LGoto(t, IF iSession = None THEN "idle" ELSE "logoff")
    /\ iStatus' = IF iSession = None \/ iStatus = "NOT_AVAIL_DESCR" THEN iStatus ELSE "NOT_AVAIL"
    /\ UNCHANGED <<iSession, iHandlerList, sess, obj, iDie, li, target, fault, crashed>>

\* closes the socket; both ignore NULL
gg_logoff(s) ==
    IF s # None /\ sess[s] = "open" THEN [sess EXCEPT ![s] = "closed"] ELSE sess

gg_free_session(s) ==
    IF s = None THEN sess ELSE [sess EXCEPT ![s] = "freed"]

LogoutLogoff(t) ==
    /\ LAt(t, "logoff")
    /\ LGoto(t, "free")
    /\ UseSession
    /\ sess' = gg_logoff(iSession)
    /\ UNCHANGED <<iSession, iStatus, iHandlerList, obj, iDie, li, target, crashed>>

LogoutFree(t) ==
    /\ LAt(t, "free")
    /\ IF Stale
       THEN Crash("double_free")
       ELSE /\ LGoto(t, "null")
            /\ sess' = gg_free_session(iSession)
            /\ UNCHANGED <<iSession, iStatus, iHandlerList, obj, iDie, li, target, fault,
                           crashed>>

LogoutNull(t) ==
    /\ LAt(t, "null")
    /\ LGoto(t, "stop")
    /\ iSession' = None
    /\ li' = [li EXCEPT ![t] = Len(iHandlerList)]
    /\ UNCHANGED <<iStatus, iHandlerList, sess, obj, iDie, target, fault, crashed>>

\* RemoveHandler's search: the first handler of the list with the given fd
WithFd(fd) == iHandlerList[SelectInSeq(iHandlerList, LAMBDA h : iFd[h] = fd)]

MutLastSkipped(t) == li[t] = 1
LoopDone(t) == li[t] = 0

LogoutReturns(t) ==
    /\ LAt(t, "stop")
    /\ LoopDone(t)
    /\ LGoto(t, "idle")
    /\ UNCHANGED <<iSession, iStatus, iHandlerList, sess, obj, iDie, li, target, fault,
                   crashed>>

\* RemoveHandler(ItemAt(i - 1)->Fd()) up to the wait in Stop; ItemAt returns
\* NULL when the other looper has shortened the list
LogoutStop(t) ==
    /\ LAt(t, "stop")
    /\ ~LoopDone(t)
    /\ IF li[t] > Len(iHandlerList)
       THEN Crash("null_handler")
       ELSE LET h == WithFd(iFd[iHandlerList[li[t]]])
            IN  /\ LGoto(t, "join")
                /\ iDie' = [iDie EXCEPT ![h] = TRUE]
                /\ target' = [target EXCEPT ![t] = h]
                /\ UNCHANGED <<iSession, iStatus, iHandlerList, sess, obj, li, fault, crashed>>

\* wait_for_thread has returned
MutNoWait(t) == TRUE
Joined(t) == hpc[target[t]] = "ended"

MutWrongItem(t) == iHandlerList[li[t]]
Removed(t) == target[t]

MutCountedTwice(i) == i - 2
Previous(i) == i - 1

LogoutReap(t) ==
    /\ LAt(t, "join")
    /\ Joined(t)
    /\ IF obj[target[t]] = "deleted"
       THEN Crash("double_delete")
       ELSE /\ LGoto(t, "stop")
            /\ iHandlerList' = RemoveFirst(iHandlerList, Removed(t))
            /\ obj' = [obj EXCEPT ![target[t]] = "deleted"]
            /\ li' = [li EXCEPT ![t] = Previous(@)]
            /\ UNCHANGED <<iSession, iStatus, sess, iDie, target, fault, crashed>>

LogoutStep(t) ==
    /\ \/ LogoutTest(t) \/ LogoutLogoff(t) \/ LogoutFree(t) \/ LogoutNull(t)
       \/ LogoutReturns(t) \/ LogoutStop(t) \/ LogoutReap(t)
    /\ UNCHANGED <<nMail, wMail, iFd, hpc, inSelect, owner, by, quitVars, logins>>

-------------------------------------------------------------------------------
(***************************************************************************)
(* Network::MessageReceived.                                               *)
(***************************************************************************)
\* ADD_HANDLER carries no "fd": the handler gets whatever the stack holds
AddHandler ==
    /\ Head(nMail).what = "ADD_HANDLER"
    /\ \E h \in Handlers, fd \in Fds :
         /\ hpc[h] = "unborn"
         /\ iFd' = [iFd EXCEPT ![h] = fd]
         /\ obj' = [obj EXCEPT ![h] = "alive"]
         /\ iDie' = [iDie EXCEPT ![h] = FALSE]
         /\ hpc' = [hpc EXCEPT ![h] = "start"]
         /\ iHandlerList' = Append(iHandlerList, h)
    /\ UNCHANGED <<lpc, by, net>>

DoLogout ==
    /\ Head(nMail).what = "DO_LOGOUT"
    /\ LGoto("N", "test")
    /\ by' = Head(nMail).from
    /\ UNCHANGED <<objectVars, hpc, iHandlerList, net>>

\* BLooper::Quit's last message: the looper ends and the object is deleted
NetworkQuits ==
    /\ Head(nMail).what = "QUIT"
    /\ net' = "deleted"
    /\ UNCHANGED <<objectVars, hpc, iHandlerList, lpc, by>>

NetworkStep ==
    /\ net = "up" /\ LAt("N", "idle") /\ nMail # <<>>
    /\ nMail' = Tail(nMail)
    /\ AddHandler \/ DoLogout \/ NetworkQuits
    /\ UNCHANGED <<sessionVars, iStatus, wMail, inSelect, li, target, wpc, iWindow, fault,
                   crashed, logins>>

-------------------------------------------------------------------------------
(***************************************************************************)
(* MainWindow::MessageReceived.                                            *)
(***************************************************************************)
WTakes(messages) ==
    /\ wpc = "run" /\ LAt("W", "idle") /\ wMail # <<>>
    /\ Head(wMail) \in messages
    /\ wMail' = Tail(wMail)

\* ChangeStatus, and SET_DESCRIPTION with a connected status, when connected
ChangeStatus ==
    /\ WTakes({"AVAIL"})
    /\ iSession # None
    /\ iStatus' = "AVAIL"
    /\ UseSession
    /\ UNCHANGED <<nMail, lpc, quitVars>>

MutLoginAlways ==
    /\ WTakes({"AVAIL"})
    /\ iStatus' = "AVAIL"
    /\ nMail' = Append(nMail, NMessage("ADD_HANDLER", None))
    /\ UNCHANGED <<lpc, quitVars, fault>>

\* the same when not connected: Network::Login
Login ==
    /\ WTakes({"AVAIL"})
    /\ iSession = None
    /\ iStatus' = "AVAIL"
    /\ nMail' = Append(nMail, NMessage("ADD_HANDLER", None))
    /\ UNCHANGED <<lpc, quitVars, fault>>

\* SET_NOT_AVAIL, and SET_DESCRIPTION with NOT_AVAIL_DESCR
SetNotAvail ==
    /\ WTakes(Offline)
    /\ IF iSession = None
       THEN UNCHANGED <<lpc, iStatus, fault>>
       ELSE /\ LGoto("W", "test")
            /\ IF Head(wMail) = "NOT_AVAIL_DESCR"
               THEN iStatus' = "NOT_AVAIL_DESCR" /\ UseSession
               ELSE UNCHANGED <<iStatus, fault>>
    /\ UNCHANGED <<nMail, quitVars>>

\* BEGG_QUIT: GotWindow(NULL), then Network::Quit on this thread
BeggQuit ==
    /\ WTakes({"BEGG_QUIT"})
    /\ iWindow' = FALSE
    /\ wpc' = "quit"
    /\ lpc' = IF iStatus \in Offline THEN lpc ELSE [lpc EXCEPT !["W"] = "test"]
    /\ UNCHANGED <<iStatus, nMail, net, fault>>

\* Lock() waits for the looper to be between two messages; BLooper::Quit
QuitLooper ==
    /\ wpc = "quit"
    /\ \A t \in Loopers : LAt(t, "idle")
    /\ nMail' = Append(nMail, NMessage("QUIT", None))
    /\ wpc' = "wait"
    /\ UNCHANGED <<iStatus, wMail, lpc, net, iWindow, fault>>

\* the application quits once the Network thread is gone
Exit ==
    /\ wpc = "wait"
    /\ net = "deleted"
    /\ net' = "exited"
    /\ UNCHANGED <<iStatus, nMail, wMail, lpc, wpc, iWindow, fault>>

WindowStep ==
    /\ ChangeStatus \/ Login \/ SetNotAvail \/ BeggQuit \/ QuitLooper \/ Exit
    /\ UNCHANGED <<sessionVars, iHandlerList, objectVars, hpc, inSelect, li, target, by,
                   crashed, logins>>

-------------------------------------------------------------------------------
(***************************************************************************)
(* The handler threads: HandlerThread in NetworkHandler.cpp.               *)
(***************************************************************************)
At(h, pc) == hpc[h] = pc
Goto(h, pc) == hpc' = [hpc EXCEPT ![h] = pc]
PostsLogout(h) == nMail' = Append(nMail, NMessage("DO_LOGOUT", h))

\* the two places where only iDie is looked at
ThreadDies(h) ==
    /\ \/ At(h, "start") /\ Goto(h, IF iDie[h] THEN "ended" ELSE "login")
       \/ At(h, "loop")  /\ Goto(h, IF iDie[h] THEN "ended" ELSE "prep")
    /\ UNCHANGED <<sessionVars, nMail, wMail, inSelect, fault, crashed>>

\* gg_login returns and its result is stored
LoginReturns(h) ==
    /\ At(h, "login")
    /\ Goto(h, "test")
    /\ \/ \E s \in Sessions :
            /\ sess[s] = "none"
            /\ sess' = [sess EXCEPT ![s] = "open"]
            /\ iSession' = s
            /\ owner' = [owner EXCEPT ![h] = s]
       \/ iSession' = None /\ UNCHANGED <<sess, owner>>
    /\ UNCHANGED <<nMail, wMail, inSelect, fault, crashed>>

ThreadTest(h) ==
    /\ At(h, "test")
    /\ IF iSession = None
       THEN Goto(h, "ended") /\ PostsLogout(h)
       ELSE Goto(h, IF iWindow THEN "greet" ELSE "loop") /\ UNCHANGED nMail
    /\ UNCHANGED <<sessionVars, wMail, inSelect, fault, crashed>>

\* HandleEventConnected asks for the contact list or sends it, through
\* iWindow; line 57 has found it not NULL
ThreadGreet(h) ==
    /\ At(h, "greet")
    /\ IF iWindow
       THEN /\ Goto(h, "loop")
            /\ UseSession
            /\ UNCHANGED <<sessionVars, nMail, wMail, inSelect, crashed>>
       ELSE Crash("null_window")

\* Session()->check and ->fd are read to build the descriptor sets
ThreadPrep(h) ==
    /\ At(h, "prep")
    /\ IF iSession = None
       THEN Crash("null_session")
       ELSE /\ Goto(h, "select")
            /\ inSelect' = [inSelect EXCEPT ![h] = iSession]
            /\ UseSession
            /\ UNCHANGED <<sessionVars, nMail, wMail, crashed>>

\* a select that is retried, on an error too, without a look at iDie
MutSelectRetried(h) ==
    /\ At(h, "select")
    /\ IF sess[inSelect[h]] = "open"
       THEN inSelect' = [inSelect EXCEPT ![h] = None] /\ Goto(h, "woken")
       ELSE UNCHANGED <<inSelect, hpc>>
    /\ UNCHANGED <<sessionVars, nMail, wMail, fault, crashed>>

\* select returns: data, ten seconds passed, or the descriptor was closed
ThreadSelect(h) ==
    /\ At(h, "select")
    /\ inSelect' = [inSelect EXCEPT ![h] = None]
    /\ \/ Goto(h, "woken") /\ UNCHANGED nMail
       \/ /\ sess[inSelect[h]] \in {"closed", "freed"}
          /\ Goto(h, "ended")
          /\ PostsLogout(h)
    /\ UNCHANGED <<sessionVars, wMail, fault, crashed>>

ThreadWoken(h) ==
    /\ At(h, "woken")
    /\ IF iDie[h]
       THEN Goto(h, "ended") /\ UNCHANGED fault
       ELSE /\ \E pc \in {"ping"} \cup (IF iSession = None THEN {} ELSE {"watch"}) : Goto(h, pc)
            /\ UseSession
    /\ UNCHANGED <<sessionVars, nMail, wMail, inSelect, crashed>>

\* gg_watch_fd and HandleEvent: a lost connection (NULL) or an event that
\* concerns nobody here; the server's farewell, which becomes SET_NOT_AVAIL;
\* news about contacts; an imported list, which opens an alert
ThreadWatch(h) ==
    /\ At(h, "watch")
    /\ \/ Goto(h, "ping") /\ UseSession /\ UNCHANGED <<wMail, crashed>>
       \/ /\ iSession # None
          /\ Len(wMail) < MaxMail
          /\ Goto(h, "ping")
          /\ UseSession
          /\ wMail' = IF iWindow THEN Append(wMail, "NOT_AVAIL") ELSE wMail
          /\ UNCHANGED crashed
       \/ /\ iSession # None
          /\ IF iWindow
             THEN /\ \E pc \in {"ping", "alert"} : Goto(h, pc)
                  /\ UseSession
                  /\ UNCHANGED <<wMail, crashed>>
             ELSE Crash("null_window")
    /\ UNCHANGED <<sessionVars, nMail, inSelect>>

\* the ping, when it is due; gg_ping ignores NULL
ThreadPing(h) ==
    /\ At(h, "ping")
    /\ Goto(h, "loop")
    /\ UseSession
    /\ UNCHANGED <<sessionVars, nMail, wMail, inSelect, crashed>>

ThreadStep(h) ==
    /\ net = "up"
    /\ \/ ThreadDies(h) \/ LoginReturns(h) \/ ThreadTest(h) \/ ThreadGreet(h)
       \/ ThreadPrep(h) \/ ThreadSelect(h) \/ ThreadWoken(h) \/ ThreadWatch(h)
       \/ ThreadPing(h)
    /\ UNCHANGED <<iStatus, iHandlerList, objectVars, logoutVars, quitVars, logins>>

\* a thread that outlives the Network object reads it
DeadNetwork ==
    /\ net = "deleted"
    /\ \E h \in Handlers : ~At(h, "unborn") /\ ~At(h, "ended")
    /\ Crash("freed_network")

\* a use of a freed session ends the process (elsewhere it goes on)
StaleSession ==
    /\ Stale
    /\ \/ \E t \in Loopers : LAt(t, "logoff")
       \/ wpc = "run" /\ LAt("W", "idle") /\ wMail # <<>>
              /\ Head(wMail) \in {"AVAIL", "NOT_AVAIL_DESCR"}
       \/ \E h \in Handlers : net = "up" /\ hpc[h] \in {"greet", "prep", "woken", "watch", "ping"}
    /\ Crash("freed_session")

-------------------------------------------------------------------------------
(***************************************************************************)
(* The user.  A patient one waits until both loopers are idle and no       *)
(* handler thread is on its way into its loop.                             *)
(***************************************************************************)
Settled ==
    /\ nMail = <<>> /\ wMail = <<>>
    /\ \A t \in Loopers : LAt(t, "idle")
    /\ \A h \in Handlers : hpc[h] \in Gone \cup InLoop

UserMay == wpc = "run" /\ Len(wMail) < MaxMail /\ (Patient => Settled)

UserSetsStatus ==
    /\ UserMay
    /\ \E status \in Statuses :
         /\ wMail' = Append(wMail, status)
         /\ logins' = IF status = "AVAIL" THEN logins + 1 ELSE logins
    /\ logins' <= Cardinality(Handlers)
    /\ UNCHANGED hpc

UserQuits ==
    /\ UserMay
    /\ wMail' = Append(wMail, "BEGG_QUIT")
    /\ UNCHANGED <<hpc, logins>>

\* the user closes the "list imported" alert
DismissAlert ==
    /\ \E h \in Handlers : At(h, "alert") /\ Goto(h, "ping")
    /\ UNCHANGED <<wMail, logins>>

User ==
    /\ UserSetsStatus \/ UserQuits \/ DismissAlert
    /\ UNCHANGED <<sessionVars, iStatus, iHandlerList, nMail, objectVars, inSelect, logoutVars,
                   quitVars, fault, crashed>>

-------------------------------------------------------------------------------
Running == ~crashed /\ net # "exited"

Looper(t) == Running /\ LogoutStep(t)
NetworkLoop == Running /\ NetworkStep
WindowLoop == Running /\ WindowStep
Thread(h) == Running /\ ThreadStep(h)
Undefined == Running /\ (DeadNetwork \/ StaleSession)
UserActs == Running /\ User
Stopped == ~Running /\ UNCHANGED vars

Next ==
    \/ \E t \in Loopers : Looper(t)
    \/ NetworkLoop
    \/ WindowLoop
    \/ \E h \in Handlers : Thread(h)
    \/ Undefined
    \/ UserActs
    \/ Stopped

Spec == Init /\ [][Next]_vars

\* The kernel runs every thread; the user is free to do nothing, and nothing
\* says that undefined behaviour must show.
Fairness ==
    /\ \A t \in Loopers : WF_vars(Looper(t))
    /\ WF_vars(NetworkLoop)
    /\ WF_vars(WindowLoop)
    /\ \A h \in Handlers : WF_vars(Thread(h))

FairSpec == Spec /\ Fairness

-------------------------------------------------------------------------------
TypeOK ==
    /\ iSession \in Sessions \cup {None}
    /\ sess \in [Sessions -> {"none", "open", "closed", "freed"}]
    /\ owner \in [Handlers -> Sessions \cup {None}]
    /\ iStatus \in Statuses
    /\ iHandlerList \in Seq(Handlers)
    /\ nMail \in Seq(NMessages)
    /\ wMail \in Seq(WMessages)
    /\ obj \in [Handlers -> {"none", "alive", "deleted"}]
    /\ iFd \in [Handlers -> Fds \cup {None}]
    /\ iDie \in [Handlers -> BOOLEAN]
    /\ hpc \in [Handlers -> Gone \cup {"start", "login", "test", "greet"} \cup InLoop]
    /\ inSelect \in [Handlers -> Sessions \cup {None}]
    /\ lpc \in [Loopers -> {"idle", "test", "logoff", "free", "null", "stop", "join"}]
    /\ li \in [Loopers -> Nat]
    /\ target \in [Loopers -> Handlers \cup {None}]
    /\ by \in Handlers \cup {None}
    /\ wpc \in {"run", "quit", "wait"}
    /\ net \in {"up", "deleted", "exited"}
    /\ iWindow \in BOOLEAN
    /\ fault \subseteq {"null_session", "freed_session", "double_free", "null_handler",
                        "double_delete", "null_window", "freed_network"}
    /\ crashed \in BOOLEAN
    /\ logins \in Nat

(***************************************************************************)
(* What holds whatever the user does.                                      *)
(***************************************************************************)
Alive == {h \in Handlers : hpc[h] \notin Gone}
Listed == ToSet(iHandlerList)
LoggingOut == \E t \in Loopers : ~LAt(t, "idle")

\* A handler thread that has not ended is always in iHandlerList, so that
\* Logout can still find and stop it -- although handlers are looked up by an
\* uninitialised descriptor and two loopers may stop handlers at once.
RunningIsListed == Alive \subseteq Listed

\* NetworkHandler objects are only deleted after their thread has ended, and
\* a deleted one is no longer in the list (Stop waits for the thread).
DeletedHasEnded ==
    \A h \in Handlers : obj[h] = "deleted" => At(h, "ended") /\ h \notin Listed

\* AddHandler, RemoveHandler, Stop: handlers are neither lost nor deleted while
\* their threads run, however the two loopers and the threads interleave.
HandlersKept == RunningIsListed /\ DeletedHasEnded

AlertOpen == \E h \in Handlers : At(h, "alert")

\* A looper that waits for a handler thread gets it back, unless the process
\* dies or the thread shows the alert and nobody closes it.
StopReturns == \A t \in Loopers : LAt(t, "join") ~> ~LAt(t, "join") \/ ~Running \/ AlertOpen

\* Quitting ends the process: the window's looper, which takes Network's lock
\* and waits for its thread, is not left waiting for ever.
QuitEnds == wpc # "run" ~> ~Running \/ AlertOpen

\* Logout, Network::Quit: nobody waits for ever for a thread or a lock.
LoopersReturn == StopReturns /\ QuitEnds

(***************************************************************************)
(* What holds with a user who waits.                                       *)
(***************************************************************************)
\* At most one handler thread is alive: a second login never overlaps the
\* first, a logout ends the thread before it returns.
SingleThread == \A g, h \in Alive : g = h

\* An established session is watched: unless somebody is logging out, the
\* thread that logged it in is alive and has not been told to die.
SessionIsWatched ==
    iSession # None /\ ~LoggingOut /\ ~crashed =>
        \E h \in Alive : owner[h] = iSession /\ ~iDie[h]

\* No session is lost: one that is not freed is the one iSession refers to.
NoSessionLeak == \A s \in Sessions : sess[s] \in {"open", "closed"} => s = iSession

\* Login, Logout, HandlerThread: there is one connection at a time, which is
\* watched as long as it stands and is given back when it ends.
OneWatchedSession == SingleThread /\ SessionIsWatched /\ NoSessionLeak

\* A DO_LOGOUT that a dying handler left in Network's queue never ends a
\* session that another handler has established since.
StaleLogoutIsHarmless ==
    [][\A s \in Sessions :
         LAt("N", "free") /\ sess[s] # "freed" /\ sess'[s] = "freed" => owner[by] = s]_vars

\* The races on the session end in undefined behaviour only while somebody
\* logs out or quits: a client that stays online is sound.
SoundWhileOnline == [][fault' # fault => LoggingOut \/ wpc # "run"]_vars

\* Who stays online is disturbed neither by what earlier connections have left
\* in the queues nor by undefined behaviour.
OnlineIsSound == StaleLogoutIsHarmless /\ SoundWhileOnline

Lifecycle == INSTANCE ConnLifecycle WITH
    phase <- IF iSession # None THEN "online"
             ELSE IF \/ \E h \in Handlers : hpc[h] \in {"start", "login"}
                     \/ \E i \in DOMAIN nMail : nMail[i].what = "ADD_HANDLER"
             THEN "connecting" ELSE "offline",
    current <- iSession

\* The threads together implement the abstract life cycle of a connection.
ImplementsLifecycle == Lifecycle!Spec
=============================================================================

# BeGadu in TLA+

BeGadu is a Gadu-Gadu instant messenger for BeOS: a C++ application over a bundled copy of
the C library libgadu.  This directory holds TLA+ modules of its behaviour, the TLC
configurations that check them and proofs that TLAPS checks.  `src/...` below is the
repository.

## The system

| Part | Code | State | Operations |
|---|---|---|---|
| Application looper | `src/src/BeGadu.cpp` | profile name, main window, first-run flag, Config | start, profile switch, wizard, quit |
| Main window | `src/src/Main.cpp` | profile, list view, Network | status menu, description, import/export, delete, preferences, quit |
| Network looper | `src/src/Network.cpp` | `iSession`, `iStatus`, `iDescription`, `iWindow`, `iHandlerList`, `iWinList`, `iEvent` | Login, Logout, AddHandler, RemoveHandler, SendMsg, chat windows, Quit |
| Handler thread | `src/src/NetworkHandler.cpp` | `iFd`, `iThreadID`, `iDie` | login, select loop, one handler per event, ping, Stop |
| Chat window | `src/src/Chat.cpp` | contact, text, pointer to Network | send, receive, close |
| Contacts and profile | `src/src/Person.cpp` | list of persons, `iValid`, `iNeedImport`, automatic status, files | Read, Write, Import, Export, Set, Send, Find, Clear; Load, Save |
| Dialogs | `ProfileWizard`, `Preferences`, `BuddyEdit`, `Description` | fields being edited | read and write the profile |
| Deskbar | `src/src/BGDeskbar.cpp` | shown status, menu | forwards menu choices, follows the status |
| Drawing | `GaduListItem`, `GaduListView`, `GaduMenuItem`, `GfxStuff`, `About`, `Debug` | resources | draw, log |
| Helpers | `src/src/dynstuff.c`, `xmalloc.c`, `strlcpy.c` | lists, growing strings | insert, remove, append, format |
| Session | `src/lib/libgadu.c`, `events.c`, `pubdir50.c` | `state`, `check`, `fd`, the half-read packet, image queue, list transfer | gg_login, gg_watch_fd, gg_send_packet, gg_recv_packet, notify, messages, images, searches, gg_logoff |
| Direct connections | `src/lib/dcc.c` | a state machine per connection | files, voice |
| HTTP, directory | `src/lib/http.c`, `pubdir.c` | a state machine per request | register, change, remind, token |
| Support | `src/lib/common.c`, `obsolete.c` | none | conversions, sockets |

**How they interact.**  Application, main window, Network and every chat window are BLoopers:
a thread and a queue of messages each.  Deskbar is another process that talks to the
application and the window by messages.  Every login creates a handler thread which runs
`gg_login`, then waits on the session's descriptor and calls `gg_watch_fd`.  Threads send each
other asynchronous messages *and* call one another's objects: the main window runs
`Network::Logout` and `Network::Quit` on its own thread, and the handler thread reads
`iSession` and `iWindow` through its pointer to Network.  Nothing protects these members.

**What is hard.**  Interleavings of the two loopers and the handler threads over `iSession`,
`iHandlerList`, `iWinList`, `iWindow`, and the use of freed memory that follows; logins that
overlap or fail; messages that were overtaken (a DO_LOGOUT left in the queue, a CLOSE_MESSAGE
that names an address used again); loopers that wait for threads and for one another, and the
process that must still end; profiles that are switched, created and saved while windows come
and go, over runs that are killed; in libgadu, packets, replies and files that arrive in
pieces, reads and writes that are cut short, lengths that lie, and answers nobody asked for.
PROJECT.json lists these hazards one by one, each at its line.

**What makes each part correct.**  Connection core: no handler thread is lost or deleted while
it runs; at most one connection, which is watched; no session leaks; every stop and every quit
terminates.  Session: packets are delivered whole, once and in order whatever the cuts; no
socket is lost; the login is sent once; transfers in several packets are put together whole.
Contacts: what is listed is watched, a notification reaches the person it names.  Chats: one
window for each contact, messages in order, none used after it closed.  Application: one
window, nothing lost, no protected profile opened, Deskbar agrees.  Direct connections and
HTTP: what arrives is what was sent, and both ends learn how it ended.

## The modules

| Module | Models | Composed with |
|---|---|---|
| `Connection` | Network's session and handlers, the main window's part in it, handler threads | implements `ConnLifecycle` |
| `Chats` | chat windows, Network's list of them, `Network::Quit` | |
| `AppShell` | application looper, main windows, wizards, Deskbar, Config and profiles on disk | |
| `Contacts` | contact list, profile files, import, notifications, restarts | |
| `GGRecv` | `gg_recv_packet` over a stream cut anywhere | implements `PacketStream` |
| `GGSession` | `gg_login`, the states of `gg_watch_fd` up to CONNECTED, `gg_logoff`, `gg_free_session` | |
| `GGConnected` | the requests and packets of a connected session | takes packets as `PacketStream` promises them |
| `GGDcc` | both ends of a direct connection | |
| `GGHttp` | HTTP requests, the public directory, tokens | |
| `ConnLifecycle`, `PacketStream` | what a connection and a packet reader promise | |
| `MC...` | values of constants that a cfg cannot write, symmetry | |
| `...Proofs` | theorems, with the lemmas they rest on; `ConnectionProofs` and `ChatsProofs` begin with the same ones about BList's operations | |

The parts meet at what they promise.  `Contacts` and `AppShell` see of the session only
whether there is one; `Connection` sees of libgadu a login that returns a session or NULL,
events, a session that is closed or freed; `GGConnected` starts where `GGSession` says
CONNECTED.  In `Chats` the session comes and goes at any time, which is all that `Connection`
leaves to it.

## The runs

All runs but the two last pass.  A property with several parts is their conjunction; each part
has its own definition and comment.

| Run | Module | States | Properties (parts) |
|---|---|---|---|
| `conn` | `MCConnection` | 234542 | `TypeOK`, `HandlersKept` (RunningIsListed, DeletedHasEnded), `LoopersReturn` (StopReturns, QuitEnds) |
| `conn_patient` | `MCConnection` | 116555 | `OneWatchedSession` (SingleThread, SessionIsWatched, NoSessionLeak), `OnlineIsSound` (StaleLogoutIsHarmless, SoundWhileOnline), `ImplementsLifecycle` |
| `chats` | `MCChats` | 197781 | `TypeOK`, `WindowsSound` (OneWindowEach, OnlyAskedAreClosed), `ChatInOrder` (ShownInOrder, SentInOrder), `QuitSound` (SoundWhenCalm, QuitClosesAll), `LoopersGoOn` (GotIsShown, QuitReturns) |
| `shell` | `MCAppShell` | 535795 | `TypeOK`, `PatientIsServed` (OneWindow, SoundForThePatient, ChangesAreSaved, SavesAreWhole), `ProfilesSound` (ProtectedStaysShut, TornIsKnown, LastProfileLoads), `DeskbarAgrees` (MenuMatches, IconShowsStatus), `ProgramEnds` |
| `contacts` | `MCContacts` | 242440 | `TypeOK`, `ListedIsWatched`, `HeardIsShown`, `ImportEnds` |
| `recv` | `GGRecv` | 183202 | `RecvTypeOK`, `ReadsAreSound` (NothingLost, InBounds, FreedIsNotReturned), `ImplementsPacketStream`, `SentIsReceived` |
| `sess` | `MCGGSession` | 523 | `TypeOK`, `SocketsSound` (NoSocketLost, ClosedOnce), `LoginSound` (LoginOnce, ConnectedIsLoggedIn), `LoginEnds` (SyncEnds, AsyncEnds) |
| `connected` | `MCGGConnected` | 465695 | `TypeOK`, `RequestsKnown` (AskedIsKnown, NumbersDiffer), `RepliesAreWhole` (ImageIsWhole, ListIsWhole, ExportReported), `AnswersArrive` (SentIsReported, ExportEnds) |
| `dcc` | `MCGGDcc` | 148142 | `TypeOK` (with BuffersFit), `ReceivedIsSent` (FileIsPrefix, DoneIsWhole, VoiceInOrder), `EndsAgree` (KindsAgree, OffsetsAgree), `TransfersEnd` (NobodyWaits, DoneForBoth) |
| `http` | `MCGGHttp` | 365692 | `TypeOK`, `ResultSound` (BodyFits, BodyIsReply, TokenBelongs, OverIsTold), `SocketsAccounted`, `RequestEnds` |
| `contacts_set` | `MCContacts` | | violation: `SetReplaces` |
| `sess_resolver` | `MCGGSession` | | violation: `ResolvedIsUsed` |

Deadlock is checked in `conn`, `conn_patient`, `recv` and `contacts`.  The others say
CHECK_DEADLOCK FALSE: a session that was freed, a transfer that is over, a request that has
ended, a program whose user has done all the bound allows, really stop.

The two violations:

- `contacts_set`: `Userlist::Clear` skips every other contact, so after a second import the old
  list's leftovers precede the new list; comments say that the list is cleared and set
  (`src/src/Person.cpp:773`, `784`).
- `sess_resolver`: an address that the resolver found is never received, because
  `src/lib/events.c:822` reads the resolver's pipe with `send`.  `src/README:48` says that
  reads became `recv`.

## Connection

One action per step of a thread between two places where the others can interfere: a read or
write of Network's members, a blocking call, a message.

| Actions | Code |
|---|---|
| `LogoutStep(t)`: LogoutTest, LogoutLogoff, LogoutFree, LogoutNull, LogoutStop, LogoutReap, LogoutReturns | `Network::Logout` and `RemoveHandler`, on looper `t`: "N" is Network, "W" the main window |
| `NetworkStep`: AddHandler, DoLogout, NetworkQuits | `Network::MessageReceived` |
| `WindowStep`: ChangeStatus, Login, SetNotAvail, BeggQuit, QuitLooper, Exit | `MainWindow::MessageReceived` and what it calls |
| `ThreadStep(h)`: ThreadDies, LoginReturns, ThreadTest, ThreadGreet, ThreadPrep, ThreadSelect, ThreadWoken, ThreadWatch, ThreadPing | `HandlerThread`, `NetworkHandler::HandleEvent...` |
| `DeadNetwork`, `StaleSession`, `Crash` | undefined behaviour: see below |
| `User` | status menu, quit, closing the "list imported" alert |

State: `iSession`, `iStatus`, `iWindow`, `iHandlerList`, `iFd`, `iDie` are the members of that
name; `nMail`, `wMail` the queues; `sess` and `obj` the memory of sessions and handlers;
`hpc`, `lpc` program counters; `owner`, `by`, `logins` history.  `iFd` is an arbitrary value:
ADD_HANDLER carries no descriptor (`Network.cpp:53`).  `AVAIL` stands for every connected
status.

A NULL dereference, a second free and a second delete end the process (`Crash`).  A use of a
freed session may go on with what the memory held (`fault` records it) or end the process at
once (`StaleSession`).

`Patient` tells two users apart.  With `FALSE` the user acts at any time.  With `TRUE` the user
waits until the queues are empty, the loopers idle and no thread is on its way into its loop.
Several properties hold of the second only: with the first, two choices of a status during one
`gg_login` start two handlers over one session, which is what the code does.

`ConnLifecycle` is what the core promises its user: offline, connecting, online in one
session, offline again.  `ImplementsLifecycle` checks that `Connection` implements it under
the mapping given there.

**Bounds.**  `conn`: two handlers, one session, one descriptor, window queue 1, any user.  Two
handlers and an impatient user are enough for overlapping logins, for both loopers inside
`Logout`, and for a handler that dies while the other starts; of two overlapping logins one
succeeds (for more, `HandlersKept` is proved).  `conn_patient`: three handlers,
three sessions, two descriptors, window queue 2; three logins give login, logout, login and a
stale message between them, two descriptor values let two handlers have equal or different
ones.  `MaxMail` bounds the window's queue, `Handlers` the number of logins.  Handlers,
sessions and descriptors are only compared for equality, so symmetry is sound; the run with
liveness uses none.

**Fairness.**  Every looper and every handler thread is weakly fair: they are kernel threads.
The user is not, undefined behaviour is not.  `ThreadSelect` may always return, as the select
has a ten-second timeout.  The liveness properties except the alert: it is modal on the handler
thread (`NetworkHandler.cpp:229`) and only the user can close it.

**Proofs** (`ConnectionProofs`), for all sets of handlers, sessions and descriptors, from
`NoneAssumption` and `FdsAssumption`.

For either user: `TypeCorrect`, `HandlersAreKept`.  `HandlersKept` is not inductive.  `ListInv`
adds that the list has no duplicates (otherwise removing the first occurrence would leave the
handler in it), that what is listed has not been deleted, that handlers exist exactly once
their thread was started, and that the handler a looper waits for exists.  The search by
descriptor needs that a non-empty set of naturals has a minimum (`MinInSet`), which comes
from the library's well-foundedness theorem.

For the user who waits (`ASSUME Patient`): `OneSessionIsWatched`, `OnlineIsKeptSound` and
`LifecycleImplemented`, all from `PatientInv`.  `SessionIsWatched` says something only while
both loopers are idle, and then nothing of what is queued, so `PatientInv` follows a connection
round: a login is alone from the choice of a status to the thread's loop (`AddIsAlone`,
`ArrivalIsAlone`, `RequestIsFirst`); whoever is in a loop, and whoever sent a DO_LOGOUT that is
queued or being handled, belongs to the session of that time (`LoopersSession`,
`LogoutsSession`); until a looper has passed Logout's first test the session is open and one
thread watches it, and without a session no thread is in its loop (`SessionStands`); what a
looper inside Logout has done already (`LogoutGoesOn`); every NetworkHandler is listed
(`ObjectsListed`), so that a Logout which has emptied the list has ended every thread; the
window ends before Network does (`QuitInOrder`).  The refinement is proved step by step: the
initial states map to "offline" or "connecting", and each action to one of `ConnLifecycle`'s or
to a stutter.  `Patient` is a constraint on the user's actions only, and
`conn_patient` shows that three logins in a row are possible under it.

Only model-checked: liveness.

## Chats

A chat window is known by its address, which a later window may get again: this is what
CLOSE_MESSAGE carries and what `iWinList` holds.

| Actions | Code |
|---|---|
| OpenMessage, GotMsg, with GetMesgWinForUser | OPEN_MESSAGE, `Network::GotMsg`: find the contact's window or open one |
| SendMsg | `Network::SendMsg`, which drops the message without a session |
| CloseMessage, Closed | CLOSE_MESSAGE: take the window off the list, lock it, `Quit` and wait for its thread |
| ShowMessage, BeggSend, QuitRequested, Quit | `ChatWindow::MessageReceived`, `QuitRequested`, the end of its thread |
| QuitBegins, QuitCounts, QuitLocks, QuitWaits, QuitEmpties, QuitLoops, QuitEnds | `Network::Quit` on the main window's thread, one step for each call over the list |
| UserOpens, UserTypes, UserCloses, Receive, SessionChanges | list view, text view, close box, `HandleEventMsg`, login and logout |

`queue` and `win[a].queue` are the loopers' queues, `closing` the window that CLOSE_MESSAGE
waits for, `quit` where `Network::Quit` is.  A message is its number among those of its
contact, so order and gaps are visible.  `undefined` says that a window that is gone was read
(`Network.cpp:148`) or a new one was given a main window that is NULL (`156`).  `calm` is TRUE
while nothing else had to be handled and nobody acted since `Network::Quit` began; `again` are
windows that their user closed twice before they went.

**Bounds.**  Two contacts and two addresses are enough for a window that takes the address of
another contact's; four acts, for two windows and a click on each close box, or for a window
that is opened, closed twice and opened again.  Nothing else is bounded.

**Fairness.**  Loopers and windows handle their messages and `Network::Quit` goes on; nobody
has to act or to quit.  `LoopersGoOn` excepts what follows undefined behaviour.

**Proofs** (`ChatsProofs`), for any contacts, addresses and number of acts, and `Network::Quit`
at any moment: `TypeCorrect`, `WindowsAreSound`, `ChatStaysInOrder`, `QuitIsSound`, from
`ChatsAssumption`.  None is inductive.  The invariant has five parts, each proved over all
actions by lemmas of its own:

- `Structure`: types; the list has no duplicates and names every window but the one that is
  closing; a contact has one window; only a window that Network closes has been told to quit.
- `Shown`: what a contact said and was not yet shown is in the window's queue and behind it in
  Network's, without a gap and in order (`GotsFollow`, `ShowsFollow`, `NothingMissing`), and
  a window's QUIT is behind all of its messages.  Without the last, a window could end with
  messages that the next window of this contact would skip.
- `Sent`: the same in the other direction, except that messages may be dropped.
- `Asked`: if no user closed a window twice, each window has one wish to be closed under way,
  as a BOX, a CLOSE or the window Network waits for; so a CLOSE still names the window that
  posted it.
- `Calm`: while Network quits undisturbed, only QUITs are queued, and every window that is
  there is listed at or behind the place that `Network::Quit` has reached.

Frame lemmas (`Kept`, `WinKept`, `WinStays`) say what a step that only takes or appends
messages of other kinds leaves alone.  Only model-checked: `LoopersGoOn`.

## AppShell

| Actions | Code |
|---|---|
| AddMessenger, Forward, OpenProfileWizard, ConfigOk, ProfileCreated, ProfileSelect, ProfileSwitch, BeggQuit | `BeGadu::MessageReceived` |
| QuitRequested, AsksToQuit, WindowEnded, ConfigWritten | `BeGadu::QuitRequested`; `Lock` and `Quit` of the main window |
| SetStatus, Updates, TellDeskbar, TellApp, Show, SavesProfile, Close, QuitProgram, Quit | `MainWindow::MessageReceived`, `Profile::Save`, `BLooper::Quit` |
| HandlerPosts | what the handler thread posts to the window (`NetworkHandler.cpp:180`-`300`) |
| BarAttaches, BarReceives, UserClicks | `BGDeskbar` |
| WizardTurns, WizardNames, WizardSaves, WizardFinishes, WizardCancelled, WizardClosed | `ProfileWizard`, `Profile::Save` |
| Start, DeskbarRestarts, UserPicks, UserEdits, UserQuits, SystemQuits, Killed | the user and the system; the constructor of `BeGadu` |

**The end of a window.**  When the application closes the main window for another one, it posts
CLOSE_MAIN_WINDOW, waits for the window's lock and has it quit (`AsksToQuit`), which queues the
window's own QUIT behind what waits there; `waits` says what the application goes on with in
`WindowEnded`.  `QuitRequested` posts nothing: Ctrl+Q (`UserQuits`), which BWindow turns into
B_QUIT_REQUESTED of the application, and the system (`SystemQuits`) end the window without
CLOSE_MAIN_WINDOW.

**Files.**  `disk` outlives a run: Config, which is erased before it is written, and of every
profile whether there is nothing, a directory without the file, an erased file, or a file with
or without a password (set by an earlier run's preferences).  `Profile::Save` is two steps or
three: the directory is made if there is none, the file is erased, and it is written.  A kill
comes between any two.  An erased file *loads*: without a name and without a password
(`Opened`).

**The session's news.**  `HandlerPosts` puts into the window's queue what the handler thread
posts while the network is there: UPDATE_STATUS and UPDATE_LIST (`NEWS`), success, which also
tells Deskbar, and SET_NOT_AVAIL of a lost connection (`DROPPED`).  Nothing takes them out
when CLOSE_MAIN_WINDOW or BEGG_QUIT deletes the network, and they read it (`Main.cpp:361`,
`397`, `402`, `408`, `327`): this is `crashed`.

**Deskbar.**  `bar` outlives the program, and may be started again without it; `view` numbers
its views, so that a messenger of an earlier one is known to lead nowhere.

**What the properties except.**  Each exception is a history variable, and is a behaviour of
the code.  `hasty`: somebody acted before the last act had its effects (`PatientIsServed`,
`DeskbarAgrees`), as the code closes nothing in PROFILE_CREATED and lets a window live on after
it has been cleaned up.  `late`: a message of the session was handled after the network was
deleted, the only fault that a patient user meets.  `shortcut`, `forced`: Ctrl+Q, the system or
a kill ended the window, which loses what it had not saved.  `torn`: a run was cut inside
`Profile::Save`, or a profile was opened while it was being written; this needs a kill, the
system or haste (`SavesAreWhole`).  `unnamed`: a wizard made a profile without a name.
`abandoned`: a wizard was closed by its close box, which tells nobody (`MenuMatches`).

**Bounds.**  Two profiles, in any state at the start that earlier runs leave, also an erased
one that a cut Save has left (then `torn` and `forced` hold from the start); three acts, where
starting, the user's choices, restarts, the ends of a run and a session's news count.  Three
acts give a start, a choice and another that overlaps it or a quit, a kill inside
`Profile::Save` and the next start, an unnamed profile and what becomes of Config, an erased
profile that is opened without a name and whose quit has Config name nothing.  Within them
every exception occurs without the others: `late` and `shortcut` with a patient user, `torn`
by haste alone, an unnamed profile whose run has Config name a missing one.  Longer histories
are left to the theorems, which have no bound.

**Fairness.**  Loopers of all three processes handle their messages.  `ProgramEnds` excepts a
program that used its deleted network.

**Proofs** (`AppShellProofs`), for any set of profiles and any number of acts, runs, windows and
news of sessions, from `AppShellAssumption`.

`TypeCorrect`, `ProfilesAreSound` (whoever acts).  `ProtectedStaysShut` is not inductive, since
PROFILE_SWITCH checks the profile that was chosen and opens `iLastProfile` (`BeGadu.cpp:244`).
`IInv` adds that once a run has had a window the last profile has no password, that neither has
a profile whose PROFILE_CREATED is queued, and that a PROFILE_SWITCH is queued or waited for
only in a run that had a window; and that no window has a profile with a password, so that no
Save gives a file one.  `TornIsKnown` rests on `TornInv`: whoever has begun to save goes on with
it, because a window that saves still has at the head of its queue the message that made it
save, and a wizard is on its last page; so an erased file has its writer until a run is cut.
`LastProfileLoads` takes from `IInv` that what a window or a queued message names is there.

`PatientServed`.  "One window, no fault, nothing lost" depends on what waits in three kinds of
queues.  `ServedInv` holds while the user is not hasty: at most one message that opens, closes
or needs a window waits anywhere, and none while a wizard writes its profile (`OneAsk`), none
while the application waits for a window's end (`InChange`) or a window has lost its network
(`NetworkThere`); QUIT is behind CLOSE_MAIN_WINDOW, and that, like BEGG_QUIT, is behind the
UPDATE_LIST which the window has posted to itself (`Orderly`), so that only the session's
messages can find the network gone, and a window is saved before it ends unless Ctrl+Q or the
system forces it (`AllSaved`); nobody but the system leaves while a wizard writes (`AllWhole`);
the window that is alive is the one the application knows (`OnlyWindow`, `WindowThere`), and
there is none where a wizard is open or a profile has been created (`NoOther`).  The lemmas say
how each of these depends on the head, the tail and the last message of a queue.

`DeskbarIsRight`.  Deskbar is another process with a queue, and an icon is known to the
application only when its ADD_MESSENGER has been handled.  `ShownInv` adds to `ServedInv` that
icons announce themselves in the order of their views, once, and are known to nobody before
(`IconIsNew`); that whenever the icon is known, either the last menu message on its way is the
right one (or none is, and the right menu shows), or a message waits that will bring it
(`MenuComes`); that a PROFILE_SELECT, which always brings the menu without a profile, waits
only where it may (`SelectsLast`); and that the last status chosen is the last one on its way,
in the window's queue or in Deskbar's, or is shown (`StatusComes`); success, which the handler
thread reports, is such a status.

Only model-checked: `ProgramEnds`.

## Contacts

The profile that the wizard made, from its first start on.

| Actions | Code |
|---|---|
| Start, SaveBegins, SaveProfile, SaveList, Ends | `Profile::Load` with `Userlist::Read`; `Profile::Save` with `Userlist::Write`; end or death of the program |
| Login, Logout, HandleEventConnected, HandleEventUserlist, HandleEventNotify | the session and the handlers in `NetworkHandler.cpp` (all four kinds of notification) |
| ImportList | "Get from server" in the menu |
| Answer, Notify | the server: answers in order, tells of contacts it was asked to watch |

`iList`, `iIsValid`, `iNeedImport` are the members of that name; `profileFile` and
`userlistFile` the two files, of which the first is emptied before it is written and the second
takes the old one's name when it is whole; `named` is false when a torn profile was loaded.
`Clear` keeps every other contact, as the code does; so does the loop in `Import`.  A contact
is its number and a status.  A handler is one step here.

**Bounds.**  `contacts`: two contacts or none at the server, two packets on their way of which
one is a notification of up to two contacts; sessions, crashes and restarts without bound.  Two
contacts are enough for one to be skipped by `Clear`, for one to be unknown and another behind
it in a notification.  Two packets give two imports at once, or an import and a notification in
either order.  `contacts_set`: four contacts, the fewest of which one is left over.

`HeardIsShown` speaks of users who do not import from the menu: an import empties part of the
list while the server goes on telling of those contacts, which is what loses statuses.

**Fairness.**  The handler thread runs and the server answers what it was asked, while there is
a session; the user is not fair, and an account without contacts answers with nothing, so
`ImportEnds` excepts it.

**Proofs** (`ContactsProofs`), for any contacts, any lists at the server and any bounds, from
`RostersAssumption` and `BoundsAssumption`: `TypeCorrect`, `ListedAreWatched`,
`WhatWasToldIsShown`.  `ListedIsWatched` needs only that a program that does not run has no
session (`WatchInv`).  `HeardIsShown` speaks of the moments when nothing is on its way;
`HeardInv` adds what holds in between: either the list was asked for and the server watches
nobody yet (`Waiting`), or one notification is on its way whose contacts are all listed and
which says what the server told last of them, while the list shows the rest (`OnItsWay`).  The
bound of one notification on its way is part of `Notify`, hence of the theorem.  Only
model-checked: `ImportEnds`.

## GGRecv and PacketStream

`GGRecv` is `gg_recv_packet` with its reads taken apart: each `gg_read` gives any number of
bytes, none (EAGAIN), the end of the stream, or an error.  A byte is its number in the stream,
so a packet that is returned shows which bytes it is made of.

| Actions | Code |
|---|---|
| CallHeader, HeaderRead, HeaderAgain, HeaderFails, HeaderDone | the header, from `header_buf` or anew; too long a length (`libgadu.c:479-554`) |
| CallBody, BodyRead, BodyAgain, BodyFails, BodyDone | the body, from `recv_buf` or anew (`libgadu.c:529-598`) |
| Send, Arrive, Hangup | server and network: an orderly close lets through what was sent, a reset does not |

`header_buf`, `header_done`, `recv_buf`, `recv_left`, `recv_done` are the session's members;
`freed` says that `recv_buf` points to memory that was given back, which the code does on a
read error without clearing `recv_left`.  The memory then holds anything.

`PacketStream` promises: packets whole, in order, once, until the connection breaks.

**Bounds.**  Headers of 2 bytes, packets of 0 to 2, one length that is too long, up to 3
packets, every cut.  Two bytes give a header and a body a cut inside; three packets give one
before and one after the packet that is cut.  **Fairness**: what was sent arrives, and the
program calls again whenever the socket can be read, which its select loop does.

**Proofs** (in the second half of `GGSessionProofs`; GGSession and GGRecv are two parts of a
session that share no variable), for headers and packets of any size: `RecvTypeCorrect`, `ReadsSound`,
`Refinement`.  There are two invariants.  The first: `Layout` says that the packets sent lie
one after the other in the stream; `Sound` says, while nothing has failed, that what was
returned are the first packets, and that the call or the session holds the first bytes of the
next one (`InHeader`, `InBody`, `Between`).  `NothingLost` alone is not inductive: it counts
the bytes and says nothing of which they are, so `HeaderDone` could not know that the length
it reads is the sender's.  The second, `Safe`, holds also after a failure: every block is as
long as what was read into it and what is left, and one that was freed gets nothing more,
because the error that freed it has left the socket empty for good.  Only model-checked:
`SentIsReceived`.

## GGSession

One action per state of `gg_watch_fd` and per way out of it, over the sockets the session
makes.  `config` is what the application chose: synchronous or not, a proxy for everything, for
HTTP only or none, a server given or not.  `fd`, `state`, `server_addr`, `proxy_port`,
`password` are the session's members; `peers` says where each socket leads, `open` which are
open; `asked` and `loginOn` on which a proxy was asked to connect, on which the login was sent.

| Actions | Code |
|---|---|
| LoginSync, LoginAsync, LoginReturns, LoginFails | `gg_login` |
| WatchResolving, WatchConnectingHub, WatchReadingData, WatchConnectingGG, WatchRefused | resolver, hub, the connection to the server, port 443 |
| WatchProxyReply, WatchWelcome, WatchNoKey, WatchLoginOK, WatchNoLogin, WatchConnected | the proxy's answer, the key, the login, a connected session |
| Logoff, Free | `gg_logoff`, `gg_free_session` |
| Settle | an asynchronous connection stands or is refused |

The build has neither TLS nor a resolver in a thread, so those branches are left out.  The
resolver's answer is taken with `send`, which fails on a pipe: the asynchronous ways through
the hub are never reached, and have no actions.  `malloc` and `bind` do not fail.

**Bounds.**  None: all twelve settings, every answer and every failure; a session makes a few
sockets.  **Fairness**: peers answer or close and connections are settled (TCP does this in the
end; the code has no timeout of its own in the synchronous loop), and the application watches
its socket.

**Proofs** (`GGSessionProofs`), for any set of settings and any number of sockets:
`TypeCorrect`, `SocketsAreSound`, `LoginIsSound`.  They hold together with two more conjuncts.
`Path`: what a session can be in before and after `gg_login`, and which states an asynchronous
one cannot reach (otherwise a failing branch might run with `fd` at -1).  `LoginPath`: before
the key arrives no login was sent, afterwards it was sent on one socket, which is `fd` unless
that was closed.  Only model-checked: `LoginEnds`.

## GGConnected

| Actions | Code |
|---|---|
| Notify, AddNotify, RemoveNotify, ChangeStatus, Ping, SendMessage, ImportList, ExportList, ImageRequest, Search | the requests in `libgadu.c`, `pubdir50.c`, each with the packets it sends and the members it changes |
| FreeSession | `gg_free_session`, with the image queue |
| WatchMsg, WatchNotify, WatchAck, WatchPubdir, WatchNoImage, WatchPiece, WatchPutReply, WatchList, WatchBroken | `gg_watch_fd_connected`, one packet: `gg_handle_recv_msg`, `gg_image_queue_parse`, `gg_pubdir50_handle_reply`, list replies |
| ServeList, ServeOther, ServeSearch, ServeStatus, ServeNotify, ServeImage | the server, which takes requests in order |
| PeerSends, PeerRefuses, PeerBreaks | other clients' `gg_image_reply`, cut off anywhere and begun again |
| Chatter, Hangup | messages and notifications that come by themselves, the end of the connection |

`images` is the queue of asked-for images with what has come of each; `userlist_blocks` and
`userlist_reply` the counter and the text of list transfers.  A byte of an image is its place
in it, a part of a list its number and of how many: so what is put together wrongly shows.
`clean` and `reported` are history: whether the last export met another transfer, and how
often it was reported.  The counter goes below zero when transfers overlap;
`ExportReported` and `ExportEnds` say that an export that meets no other is unharmed by what
earlier ones left.

**Bounds.**  Two contacts, packets of one contact, lists of two or three bytes in
packets of two, so that a list fills its last packet exactly and not; images of one and of
three bytes in pieces of one and two, up to two parts of a list, three packets on their way.
`Programs` gives the session's use: four list transfers, three images, three requests about
contacts, two messages or searches, or two of any of them but messages.  Message
numbers do not wrap round within these bounds.

**Fairness.**  The program watches its session; server and peers answer while there is a
connection.

**Proofs** (`GGConnectedProofs`), for any contacts, images, lists and programs, any sizes of
packets and any number of packets on their way, from `ConnectedAssumption`: `TypeCorrect`,
`RepliesWhole`, `SentReported`, `RequestsAreKnown`.  Each property speaks of what one end has
when nothing is on its way, or of the moment a packet is taken; none is inductive, because it
says nothing of the wires.  `IInv` does, with one part for each kind of transfer:

- `Shapes`: what packets there are, what each of them says, how far a peer's loop has come.
- `ListsInv`: the parts of a list are next to each other on the wire, and the parts before the
  first one there are in `userlist_reply` (`InOrder`, `Begun`, `PartsTo`).
- `PutsInv`: while an export is the only transfer, `userlist_blocks` is the number of its
  packets that have not been answered, those on their way to the server and the answers on
  their way back (`Count`), and the report comes when there are none.
- `KnownInv`: what the server knows, and the packets on their way to it, taken one after the
  other, lead to what the program asked for (`Leads`, with `Tells` for one packet).
- `ImagesInv`: a reader of the pieces on their way, one image at a time, always finds an entry
  in the queue and what the piece continues, and when it has read them there are entries left
  for every time the image is still due, asked of the server or of the peer (`Delivery`); and a
  begun entry holds the first bytes of its image, each in its place (`QueueOk`).

`NumbersInv(D)` is apart: numbers grow, by at most `D` with each message.  `RequestsAreKnown`
assumes `NoWrap(D)`: no step is above `D`, and the calls of a session times `D`, added to the
first number, stay below `SeqSpace`.  Without it the second half is false: a session with
enough messages uses a number twice.  The code adds between 0x300 and 0x5ff to a number that
begins at 0x01740000 or a little above (`libgadu.c:1387`, `1390`): `NoWrap(0x5ff)` allows some 2.7
million messages in one session; the instance of the run satisfies it with `D` = 2.

Only model-checked: `ExportEnds`, the half of `AnswersArrive` that needs fairness.

## GGDcc

Both ends of a direct connection run `gg_dcc_watch_fd`, over a stream of bytes that splits what
was written; the application deals with each event before the next call.

| Actions | Code |
|---|---|
| SocketCreate, Transfer, SetType, FillFileInfo | `gg_dcc_socket_create`, `gg_dcc_transfer`, `gg_dcc_voice_chat`, `gg_dcc_set_type`, `gg_dcc_fill_file_info2` |
| Accept, ReadingUin, SendingAck, ReadingType, ReadingRequest, Connecting, ReadingAck, SendingRequest, ReadsShort | the handshake, whoever calls; a read that is cut short |
| SendingFileInfo, ReadingFileInfo, SendingFileAck, ReadingFileAck, SendingFileHeader, ReadingFileHeader, SendingFile, GettingFile | a file |
| SendingVoiceRequest, SendingVoiceAck, ReadingVoiceAck, ReadingVoiceHeader, ReadingVoiceSize, ReadingVoiceData, VoiceSend | a voice chat |
| AcceptFile, GoesOn, GivesUp, DccFree, RefusesFile, RefusesVoice | the applications |
| Breaks, FileChanges | the network, and the file that is being sent |

`h[e]` is end `e`'s struct gg_dcc.  Offsets and sizes are unsigned numbers of `Width` values,
so the rest of a file that is resumed beyond its end wraps as in the code.  `faults` records
what went wrong.  After a write that was cut short, which the code takes for a whole one
(`dcc.c:1160`), the two ends differ; the properties with `Uncut` speak of the others.

**Bounds.**  Files of no byte and of four, resumed at 0, 1, at the end and beyond it; chunks of
three and reads of two bytes, so that a file has two chunks and a chunk two reads, the last of
each not full; frames that are too short and that fit, two in all; two kinds of failures in one
connection; three bytes on their way.  **Fairness**: both applications watch their sockets and
deal with events; none has to give up.  The exception in `NobodyWaits` is a receiver whose peer
has gone where a file header should come: `read` returns 0 for ever there (`dcc.c:790`) and
only the application's timeout ends it.

**Proofs** (`GGDccProofs`), for files, resumes, chunks, buffers and frames of any size, any
number of frames and of bytes on their way: `TypeCorrect`, `ReceivedCorrect` and `EndsAgreeing`,
from `DccAssumption`.  It asks that a chunk and one byte, and the longest frame, are below
`Width`: 4096 and 1024 are far below 2^32.

The inductive invariant is `IInv`: `TypeInv`, and `Main` as long as no write was cut short.

- `TypeInv`: every field in its range, and for each state the buffer it reads into and the room
  left (`Sound`), also while an event waits for the application.
- `StreamOK`: none of the three properties says what is on the wire, and all depend on it.  A
  place in the stream (`At`, `Header`, `Data`, `Frame`, `Voice`, `Inside`) says what may come
  next (`Fits`) and where that leads (`After`), for a given plan (`Script`).  The bytes on their
  way to an end lead (`Leads`) from the place it awaits (`Awaited`, a function of its struct) to
  the place that its peer has written (`Written`, a function of the peer's).  So the lemmas speak
  of one byte, one packet or one chunk, and of streams that are joined or divided; a step moves
  one of the two places, and the bytes with it.  Nothing is asked of where the bytes end once the
  peer was freed or is done (`Exact`), nor after a refusal (`Lost`); and an end that is over or
  was freed awaits nothing (`Listens`).
- `KindOK`: which states, types and numbers each end can have, given who called and what for.
- `FileOK`: the sender has opened its file, the receiver has as much as its `offset` says, all
  of it when DONE, and half a header in its buffer is that of the next chunk or a refusal.
- `VoiceOK`: nothing is said before the chat has begun; frames, and the part of one that has
  come, are the peer's, in order.
- `CountOK`: the sender's offset is the receiver's and the bytes of the file on their way.  Before
  both are in the file it says what they will begin with (`GoneIn`).

Only model-checked: `TransfersEnd`.

## GGHttp

| Actions | Code |
|---|---|
| Call | `gg_http_connect`, through the functions of `pubdir.c` |
| WatchResolving, WatchConnecting, WatchSendingQuery, WatchReadingHeader, WatchReadingData | the states of `gg_http_watch_fd` |
| ParsePubdir, ParseToken, PictureComes, LoopFails, LoopEnds | `gg_pubdir_watch_fd`, `gg_token_watch_fd`, the loops of synchronous calls |
| Ends, GivesUp (Free) | `gg_pubdir_free`, `gg_token_free`, `gg_http_stop` |
| Send, Close | the server, which may close early or reset |

`h` is the request's struct, `h2` the picture's while a synchronous token fetches it.  A piece
of a body is its place in the reply of its connection.  `room` is the size of the block: the
body and a zero.

An asynchronous request ends at the resolver: `http.c:192` reads the resolver's pipe with
`recv`, which fails on a pipe, as `events.c:822` does in `GGSession` (run `sess_resolver`).
What follows is therefore synchronous, and the branch of `gg_token_watch_fd` for a second stage
(`pubdir.c:652`-`655`) is reached by nobody.

A synchronous `gg_token` fetches the picture inside its first watch: it copies the picture's
struct over the request's and calls itself while `data` is still NULL (`pubdir.c:631`-`640`).
The picture is thus parsed as the reply to a first request.  Commonly it is none, and the call
returns; one that reads as a token is followed by a request for another picture, one call
deeper.  The calls return one in another, each storing its own token, so the outermost one's
stays (`TokenReturns`; the memory of the inner ones is lost).  Only the server ends the chain:
`RequestEnds` excepts one that answers with tokens for ever (`AsksAgain`), and no other.
`gg_token` does not look at what its watch returned, so a failure comes back as a struct in
PARSING, like a success: `OverIsTold` says nothing of it, and `TokenBelongs` says what a program
can still tell from `data`.

**Bounds.**  A query and a header of two pieces, bodies of 0, 1 and 3, Content-length missing or
1, 3, 4, reads of up to three: a header and a body in one read, a length that is too small, too
large and right.  **Fairness**: the program goes on watching, a server that was asked answers or
closes.

**Proofs** (`GGHttpProofs`), for queries, headers, bodies, buffers and announced lengths of any
size: `TypeCorrect`, `ResultIsSound`, `NoSocketLeft`, from `HttpAssumption`.  The invariant
gives for each state what a struct holds (`FdOk`, `NotAsked`, `HeaderOk`, `BodyOk`, `Whole`):
its descriptor, how much it has taken of what its server sent, and that the body is that
without the header.  `Places` and `Stages` say where the call can be with which
struct: the picture's connection is another than that of the reply just parsed, and a body is a
picture's once an outer call holds a token.  Only model-checked: `RequestEnds`.

## Disagreements and behaviours without a property

Where a comment or a document disagrees with the code and no run shows it:

- `Network.cpp:230`: Logout's comment says that all handlers are stopped; one that Network adds
  while the main window is in the loop is not.
- `Network.cpp:202`: the comment says that the status becomes "connecting"; the status that was
  asked for is stored at once.
- `libgadu.c:615`, `677`: `gg_send_packet` reports success for a packet that was not written.
- `src/README:21` and `NetworkHandler.cpp:175`: the wish to import is cleared when the list is
  asked for; a lost reply and a restart leave the account without its contacts.
- `events.c:732`: an export that overlaps others may be reported before all of its replies came.
- `dcc.c:383`, `407`: port -1 is said to mean the default one, and is port 65535.
- `pubdir.c:488`: `gg_token` is said to give NULL after an error; a synchronous one whose reply
  is no token, or whose picture fails, gives a struct in the state PARSING.
- `NOTES.txt:9`: Ctrl+Q is said to save neither configuration nor profile.  The profile is
  indeed lost (`UserQuits`, the exception `shortcut`), but `BeGadu::QuitRequested` saves Config.
- `Main.cpp:219`: the comment speaks of saving the profile's settings when the window is asked
  to quit; it is hidden only.

What the code does, modelled or read, and no property judges:

- `Main.cpp:327`: SET_NOT_AVAIL looks at `iSession` only, so a user who goes offline during
  `gg_login` is online a moment later (`SetNotAvail`).
- `NetworkHandler.cpp:94`: after `gg_watch_fd` returned NULL the thread goes on with the same
  session (`ThreadWatch`).
- `Main.cpp:509`: ChangeStatus gives the same BString to SetDescription twice, which deletes it
  before it stores it (not modelled).
- `Person.cpp:516`: a profile is erased before it is written (`Contacts.SaveBegins`,
  `AppShell.SavesProfile`).  One that a kill cut loads without a name and without a password,
  saves to another place ever after, and has Config name nothing.
- `ProfileWizard.cpp:270`: a profile without a name is accepted.  Its Save writes to the
  directory of all profiles, the window that opens has the default name, saves over the profile
  of that name and has Config name it, even if there is none (`WizardNames`, `unnamed`).
- `Main.cpp:492`: messages of the session that wait when the network is deleted find it deleted
  (`Updates`, `late`).
- `pubdir.c:640`: a server that answers requests for the picture with tokens keeps `gg_token`
  from returning (`AsksAgain`).
- `Person.cpp:893`: Import deletes persons that other windows still show (not modelled).
- `Person.cpp:634`: ClearStatus is never called, so a contact keeps its status over a
  reconnection.
- `events.c:1004`: an odd answer of the hub leads to the proxy even when that is for HTTP only
  (`WatchReadingData`).
- `libgadu.c:851`: with a server given, `proxy_addr` is the server's address.
- `dcc.c:1160`: the offset moves on by what should have been written (`SendingFile`).
- `http.c:132`: a connection that fails at once is not noticed (`Begun`).

## Not modelled

Drawing, resources, wording, the debug log: no state that another part reads.  Dialogs other
than the wizard (they copy fields of the profile and back), deleting and editing a contact: the
list view's share in them is not separate from drawing.  How a packet is laid out and put
together (`gg_send_packet`'s chunks), conversions of `common.c` and of the text of replies: a
function of their input, without state.  TLS and the resolver in a thread, which the build
leaves out.  The string and list helpers: sequential, and a unit test reaches what they do.
PROFILE_SELECTED, DEL_HANDLER and DO_LOGIN are handled but sent by nobody.

Liveness rests on fairness and is only model-checked throughout.  Memory is taken
not to run out, in every module.

--------------------------------- MODULE AppShell ---------------------------------
(***************************************************************************)
(* The program around the main window: the application's looper (BeGadu),  *)
(* which opens and closes main windows as profiles are created and         *)
(* switched, the windows' own loopers, the wizards, the icon in Deskbar,   *)
(* which is another process, and the files that outlive a run.             *)
(*                                                                         *)
(* Whether there is a session is Connection's matter, so it is open here.  *)
(* BLooper::Quit called by another thread queues a message of its own      *)
(* behind those that wait, and returns when the looper's thread has ended. *)
(***************************************************************************)
EXTENDS Integers, Sequences, FiniteSets

CONSTANTS Profiles,    \* the names of profiles
          Default,     \* the name that Profile::Profile gives
          NoName,      \* the empty name
          MaxActs      \* bound: what the user, the system and the sessions do

ASSUME AppShellAssumption ==
    /\ IsFiniteSet(Profiles) /\ Default \in Profiles /\ NoName \notin Profiles
    /\ MaxActs \in Nat

VARIABLES
    disk,          \* the file of every profile, and Config
    running,
    appQ, iWindow, iLastProfile, iFirstRun, iMessenger,      \* BeGadu
    waits,         \* what BeGadu does when the window has ended, or Nothing
    wins,          \* the main windows of this run
    wizards,       \* the open wizards
    bar,           \* Deskbar: our icon, its view, what waits for it
    crashed,       \* freed memory was used in this run
    acts,          \* bounded
    hasty,         \* history: the user acted before every message had been handled
    lost, forced,  \* history: changes to a profile were lost; the system ended a run
    shortcut,      \* history: the user pressed Ctrl+Q
    abandoned,     \* history: a wizard was closed by its close box
    unnamed,       \* history: a wizard made a profile without a name
    torn,          \* history: a profile was cut, or opened, while it was being written
    late           \* history: a session's news came when its network was gone

appVars == <<appQ, iWindow, iLastProfile, iFirstRun, iMessenger, waits>>
pastVars == <<forced, shortcut, abandoned, unnamed, late>>
histVars == <<acts, hasty, lost, torn, pastVars>>
vars == <<disk, running, appVars, wins, wizards, bar, crashed, histVars>>

None == "none"
NoWindow == 0
NoConfig == [first |-> TRUE, last |-> NoName]
Statuses == {"avail", "notavail"}
Msg(what) == [what |-> what]
Nothing == Msg("NOTHING")

Alive(w) == w # NoWindow /\ wins[w].alive

(***************************************************************************)
(* The files of a profile.  "dir" is a directory without the file Profile, *)
(* "empty" an erased Profile.                                              *)
(***************************************************************************)
Files == {"none", "dir", "empty", "plain", "protected"}
File(p) == IF p = NoName THEN "none" ELSE disk.files[p]

\* an empty Profile loads: without a name, and without a password
Loads(p) == File(p) \in {"empty", "plain", "protected"}
HasPassword(p) == File(p) = "protected"
Torn(p) == File(p) \in {"dir", "empty"}

\* Profile::Save makes the directory if there is none, erases the file, and writes it
Phases == {"idle", "made", "erased"}
Phase(p) == IF p # NoName /\ File(p) = "none" THEN "made" ELSE "erased"
With(p, file) == disk' = IF p = NoName THEN disk ELSE [disk EXCEPT !.files[p] = file]
Touches(p) == With(p, IF File(p) = "none" THEN "dir" ELSE "empty")

\* MainWindow::MainWindow: a network of its own, no messenger, the profile as it loads
Opened(p, status, queue) ==
    [alive |-> TRUE, profile |-> IF ~Loads(p) THEN Default ELSE IF Torn(p) THEN NoName ELSE p,
     password |-> HasPassword(p), network |-> TRUE, messenger |-> 0, status |-> status,
     told |-> None, queue |-> queue, saves |-> "idle", saved |-> TRUE]

NoIcon == [item |-> FALSE, view |-> 0, attached |-> FALSE, selected |-> FALSE,
           icon |-> "notavail", queue |-> <<>>]

Off ==
    /\ running = FALSE
    /\ appQ = <<>> /\ iWindow = NoWindow /\ iLastProfile = NoName /\ iFirstRun = FALSE
    /\ iMessenger = 0 /\ waits = Nothing
    /\ wins = <<>> /\ wizards = <<>> /\ crashed = FALSE

\* as earlier runs have left it; one of them may have been killed in a Save
Init ==
    /\ \E files \in [Profiles -> Files] :
         \E last \in {p \in Profiles : files[p] # "none"} \cup {NoName} :
            disk = [files |-> files, config |-> [first |-> last = NoName, last |-> last]]
    /\ Off
    /\ bar = NoIcon
    /\ acts = 0 /\ hasty = FALSE /\ lost = FALSE /\ shortcut = FALSE /\ abandoned = FALSE
    /\ unnamed = FALSE /\ late = FALSE
    /\ torn = (\E p \in Profiles : Torn(p)) /\ forced = torn

\* every message has been handled, GO_NEXT3 of a wizard too
AtRest ==
    /\ appQ = <<>> /\ waits = Nothing /\ bar.queue = <<>> /\ (bar.item => bar.attached)
    /\ \A w \in DOMAIN wins : wins[w].alive => wins[w].queue = <<>>
    /\ \A k \in DOMAIN wizards : wizards[k].page # 4

-------------------------------------------------------------------------------
(***************************************************************************)
(* The application's looper.                                               *)
(***************************************************************************)
M == Head(appQ)
Handles(what) == running /\ waits = Nothing /\ appQ # <<>> /\ M.what = what
Taken == appQ' = Tail(appQ)

\* BMessenger( iMessenger ).SendMessage
Told(b, what) ==
    IF b.item /\ iMessenger = b.view THEN [b EXCEPT !.queue = Append(@, Msg(what))] ELSE b

\* AddDeskbarIcon: an icon that is there is left as it is
WithIcon(b) == IF b.item THEN b ELSE [NoIcon EXCEPT !.item = TRUE, !.view = b.view + 1]

\* DelDeskbarIcon
WithoutIcon(b) == [NoIcon EXCEPT !.view = b.view]

\* BMessenger( iWindow ).SendMessage
ToWindow(m) == wins' = [wins EXCEPT ![iWindow].queue = Append(@, m)]

\* with a list, or on its way to be available, a window has itself updated
OpenWindow(p) ==
    /\ \E status \in Statuses, queue \in {<<>>, <<Msg("UPDATE")>>} :
         wins' = Append(wins, Opened(p, status, queue))
    /\ iWindow' = Len(wins) + 1
    /\ torn' = (torn \/ Torn(p))

AddMessenger ==
    /\ Handles("ADD_MESSENGER") /\ Taken
    /\ iMessenger' = M.view
    /\ IF iWindow # NoWindow
       THEN /\ wins' = [wins EXCEPT ![iWindow].messenger = M.view, ![iWindow].told = None]
            /\ bar' = IF bar.item /\ M.view = bar.view
                      THEN [bar EXCEPT !.queue = Append(@, Msg("PROFILE_SELECTED"))] ELSE bar
       ELSE UNCHANGED <<wins, bar>>
    /\ UNCHANGED <<disk, running, iWindow, iLastProfile, iFirstRun, waits, wizards, crashed, histVars>>

\* SET_AVAIL, SET_NOT_AVAIL and what else is for the window
Forward ==
    /\ \E what \in {"SET", "SHOW"} : Handles(what)
    /\ Taken
    /\ IF iWindow # NoWindow THEN ToWindow(M) ELSE UNCHANGED wins
    /\ UNCHANGED <<disk, running, iWindow, iLastProfile, iFirstRun, iMessenger, waits, wizards,
                   bar, crashed, histVars>>

\* CLOSE_MAIN_WINDOW, before Quit
CloseWindow == ToWindow(Msg("CLOSE")) /\ waits' = M

NewWizard == wizards' = Append(wizards, [page |-> 1, name |-> NoName, saves |-> "idle"])

MutOpenProfileWizard ==
    /\ Handles("OPEN_PROFILE_WIZARD") /\ Taken
    /\ NewWizard /\ iWindow' = NoWindow
    /\ UNCHANGED <<disk, running, wins, waits, iLastProfile, iFirstRun, iMessenger, bar, crashed, histVars>>

OpenProfileWizard ==
    /\ Handles("OPEN_PROFILE_WIZARD") /\ Taken
    /\ IF iWindow # NoWindow THEN CloseWindow /\ UNCHANGED wizards
       ELSE NewWizard /\ UNCHANGED <<wins, waits>>
    /\ UNCHANGED <<disk, running, iWindow, iLastProfile, iFirstRun, iMessenger, bar, crashed, histVars>>

WizardOpens ==
    /\ waits.what = "OPEN_PROFILE_WIZARD" /\ NewWizard
    /\ UNCHANGED <<appQ, wins, bar>>

ConfigOk ==
    /\ Handles("CONFIG_OK")
    /\ IF ~Loads(iLastProfile)
       THEN /\ appQ' = Append(Tail(appQ), Msg("PROFILE_SELECT")) /\ bar' = WithIcon(bar)
            /\ UNCHANGED <<wins, iWindow, torn>>
       ELSE /\ Taken
            /\ IF HasPassword(iLastProfile)
               THEN bar' = Told(WithIcon(bar), "PROFILE_NOT_SELECTED") /\ UNCHANGED <<wins, iWindow, torn>>
               ELSE bar' = Told(WithIcon(bar), "PROFILE_SELECTED") /\ OpenWindow(iLastProfile)
    /\ UNCHANGED <<disk, running, iLastProfile, iFirstRun, iMessenger, waits, wizards, crashed,
                   acts, hasty, lost, pastVars>>

\* the window that may be there is not closed
ProfileCreated ==
    /\ Handles("PROFILE_CREATED") /\ Taken
    /\ iLastProfile' = M.name /\ iFirstRun' = FALSE
    /\ bar' = Told(WithIcon(bar), "PROFILE_SELECTED")
    /\ OpenWindow(M.name)
    /\ UNCHANGED <<disk, running, iMessenger, waits, wizards, crashed, acts, hasty, lost, pastVars>>

MutProfileSelect ==
    /\ Handles("PROFILE_SELECT") /\ Taken /\ bar' = Told(bar, "PROFILE_SELECTED")
    /\ UNCHANGED <<disk, running, iWindow, iLastProfile, iFirstRun, iMessenger, waits, wins,
                   wizards, crashed, histVars>>

ProfileSelect ==
    /\ Handles("PROFILE_SELECT") /\ Taken /\ bar' = Told(bar, "PROFILE_NOT_SELECTED")
    /\ UNCHANGED <<disk, running, iWindow, iLastProfile, iFirstRun, iMessenger, waits, wins,
                   wizards, crashed, histVars>>

MutSwitchTo(p) ==
    /\ bar' = Told(bar, "PROFILE_SELECTED") /\ OpenWindow(p) /\ UNCHANGED appQ

\* the profile that was chosen is loaded, and the last one is opened
SwitchTo(p) ==
    IF ~Loads(p)
    THEN /\ appQ' = Append(appQ, Msg("PROFILE_SELECT")) /\ iWindow' = NoWindow
         /\ UNCHANGED <<bar, wins, torn>>
    ELSE /\ UNCHANGED appQ
         /\ IF HasPassword(p)
            THEN /\ bar' = Told(bar, "PROFILE_NOT_SELECTED") /\ iWindow' = NoWindow
                 /\ UNCHANGED <<wins, torn>>
            ELSE bar' = Told(bar, "PROFILE_SELECTED") /\ OpenWindow(iLastProfile)

ProfileSwitch ==
    /\ Handles("PROFILE_SWITCH") /\ Taken
    /\ IF iWindow # NoWindow THEN CloseWindow ELSE waits' = M /\ UNCHANGED wins
    /\ UNCHANGED <<disk, running, iWindow, iLastProfile, iFirstRun, iMessenger, wizards, bar,
                   crashed, histVars>>

BeggQuit ==
    /\ Handles("BEGG_QUIT")
    /\ IF iWindow # NoWindow THEN ToWindow(M) /\ Taken
       ELSE appQ' = Append(Tail(appQ), Msg("B_QUIT_REQUESTED")) /\ UNCHANGED wins
    /\ UNCHANGED <<disk, running, iWindow, iLastProfile, iFirstRun, iMessenger, waits, wizards,
                   bar, crashed, histVars>>

\* BeGadu::QuitRequested, up to the end of the window
QuitRequested ==
    /\ Handles("B_QUIT_REQUESTED") /\ Taken
    /\ bar' = WithoutIcon(bar) /\ waits' = M
    /\ IF iWindow # NoWindow
       THEN iLastProfile' = wins[iWindow].profile ELSE UNCHANGED iLastProfile
    /\ UNCHANGED <<disk, running, iWindow, iFirstRun, iMessenger, wins, wizards, crashed, histVars>>

\* Lock, which waits for the message that the window handles, then Quit
AsksToQuit ==
    /\ running /\ waits.what \notin {"NOTHING", "WRITE"} /\ Alive(iWindow)
    /\ wins[iWindow].saves = "idle"
    /\ \A i \in DOMAIN wins[iWindow].queue : wins[iWindow].queue[i].what # "QUIT"
    /\ ToWindow(Msg("QUIT"))
    /\ UNCHANGED <<disk, running, appVars, wizards, bar, crashed, histVars>>

\* Quit returns
WindowEnded ==
    /\ running /\ waits # Nothing /\ ~Alive(iWindow)
    /\ \/ WizardOpens /\ iWindow' = NoWindow /\ waits' = Nothing /\ UNCHANGED <<disk, torn>>
       \/ /\ waits.what = "PROFILE_SWITCH" /\ SwitchTo(waits.name) /\ waits' = Nothing
          /\ UNCHANGED <<wizards, disk>>
       \/ /\ waits.what = "B_QUIT_REQUESTED"
          /\ disk' = [disk EXCEPT !.config = NoConfig]           \* B_ERASE_FILE
          /\ waits' = Msg("WRITE") /\ iWindow' = NoWindow
          /\ UNCHANGED <<appQ, wins, wizards, bar, torn>>
    /\ UNCHANGED <<running, iLastProfile, iFirstRun, iMessenger, crashed, acts, hasty, lost, pastVars>>

\* the process has ended, with what the windows had not saved
Ends == /\ running' = FALSE /\ crashed' = FALSE
        /\ appQ' = <<>> /\ iWindow' = NoWindow /\ iLastProfile' = NoName /\ iFirstRun' = FALSE
        /\ iMessenger' = 0 /\ waits' = Nothing /\ wins' = <<>> /\ wizards' = <<>>
        /\ lost' = (lost \/ \E w \in DOMAIN wins : Alive(w) /\ (~wins[w].saved \/ wins[w].saves # "idle"))
        /\ torn' = (torn \/ \E p \in Profiles : Torn(p))

ConfigWritten ==
    /\ running /\ waits = Msg("WRITE")
    /\ disk' = [disk EXCEPT !.config = [first |-> iFirstRun, last |-> iLastProfile]]
    /\ Ends
    /\ UNCHANGED <<bar, acts, hasty, pastVars>>

AppStep ==
    \/ AddMessenger \/ Forward \/ OpenProfileWizard \/ ConfigOk \/ ProfileCreated
    \/ ProfileSelect \/ ProfileSwitch \/ BeggQuit \/ QuitRequested \/ AsksToQuit \/ WindowEnded
    \/ ConfigWritten

-------------------------------------------------------------------------------
(***************************************************************************)
(* A main window's looper.                                                 *)
(***************************************************************************)
W(w) == Head(wins[w].queue)
Turn(w, what) == running /\ ~crashed /\ Alive(w) /\ wins[w].queue # <<>> /\ W(w).what = what
Handled(w) == [wins[w] EXCEPT !.queue = Tail(@)]
Becomes(w, window) == wins' = [wins EXCEPT ![w] = window]

\* UpdateBGDeskBar: the window tells itself
Report(status) == [what |-> "CHSTATE", status |-> status]

\* iNetwork was deleted
Faults(w) ==
    /\ crashed' = TRUE /\ late' = (late \/ W(w).what \in {"NEWS", "DROPPED"})
    /\ UNCHANGED wins

\* SET_AVAIL, SET_NOT_AVAIL, also when a connection was lost (DROPPED): who is offline
\* without a session stays so
SetStatus(w) ==
    /\ \E what \in {"SET", "DROPPED"} : Turn(w, what)
    /\ IF wins[w].network
       THEN \E s \in {W(w).status} \cup (IF W(w).status = "notavail" THEN {wins[w].status} ELSE {}) :
            \E update \in IF W(w).what = "DROPPED" THEN {<<>>, <<Msg("NEWS")>>} ELSE {<<Msg("UPDATE")>>} :
               /\ Becomes(w, [Handled(w) EXCEPT !.status = s, !.told = s,
                                               !.queue = @ \o update \o <<Report(s)>>])
               /\ UNCHANGED <<crashed, late>>
       ELSE Faults(w)
    /\ UNCHANGED <<disk, running, appVars, wizards, bar, acts, hasty, lost, torn,
                   forced, shortcut, abandoned, unnamed>>

\* UPDATE_STATUS, UPDATE_LIST, which the session's thread posts too (NEWS)
Updates(w) ==
    /\ \E what \in {"UPDATE", "NEWS"} : Turn(w, what)
    /\ IF wins[w].network THEN Becomes(w, Handled(w)) /\ UNCHANGED <<crashed, late>> ELSE Faults(w)
    /\ UNCHANGED <<disk, running, appVars, wizards, bar, acts, hasty, lost, torn,
                   forced, shortcut, abandoned, unnamed>>

\* BGDESKBAR_CHSTATE
TellDeskbar(w) ==
    /\ Turn(w, "CHSTATE") /\ Becomes(w, Handled(w))
    /\ bar' = IF bar.item /\ wins[w].messenger = bar.view THEN [bar EXCEPT !.queue = Append(@, W(w))] ELSE bar
    /\ UNCHANGED <<disk, running, appVars, wizards, crashed, histVars>>

\* PROFILE_SWITCH, OPEN_PROFILE_WIZARD
TellApp(w) ==
    /\ \E what \in {"PROFILE_SWITCH", "OPEN_PROFILE_WIZARD"} : Turn(w, what)
    /\ Becomes(w, Handled(w)) /\ appQ' = Append(appQ, W(w))
    /\ UNCHANGED <<disk, running, iWindow, iLastProfile, iFirstRun, iMessenger, waits, wizards,
                   bar, crashed, histVars>>

Show(w) ==
    /\ Turn(w, "SHOW") /\ Becomes(w, Handled(w))
    /\ UNCHANGED <<disk, running, appVars, wizards, bar, crashed, histVars>>

\* Profile::Save, before the new file is written
SavesProfile(w) ==
    /\ Turn(w, "CLOSE") \/ (Turn(w, "BEGG_QUIT") /\ wins[w].network)
    /\ wins[w].saves # "erased"
    /\ Touches(wins[w].profile)
    /\ Becomes(w, [wins[w] EXCEPT !.saves = Phase(wins[w].profile),
                                  !.saved = (wins[w].saves = "idle" \/ wins[w].saved)])
    /\ UNCHANGED <<running, appVars, wizards, bar, crashed, histVars>>

\* the rest of Profile::Save
Written(w) == wins[w].saves = "erased" /\ With(wins[w].profile, IF wins[w].password THEN "protected" ELSE "plain")

\* GotWindow( NULL ), Network::Quit
Cleaned(w) == [Handled(w) EXCEPT !.saves = "idle", !.network = FALSE]

\* CLOSE_MAIN_WINDOW
Close(w) ==
    /\ Turn(w, "CLOSE") /\ Written(w)
    /\ IF wins[w].network THEN Becomes(w, Cleaned(w)) /\ UNCHANGED <<crashed, late>> ELSE Faults(w)
    /\ UNCHANGED <<running, appVars, wizards, bar, acts, hasty, lost, torn,
                   forced, shortcut, abandoned, unnamed>>

MutQuitProgram(w) ==
    /\ Turn(w, "BEGG_QUIT")
    /\ IF wins[w].network THEN Written(w) /\ Becomes(w, Cleaned(w)) /\ UNCHANGED <<crashed, late>>
       ELSE Faults(w) /\ UNCHANGED disk
    /\ UNCHANGED <<running, appVars, wizards, bar, acts, hasty, lost, torn,
                   forced, shortcut, abandoned, unnamed>>

\* BEGG_QUIT
QuitProgram(w) ==
    /\ Turn(w, "BEGG_QUIT")
    /\ IF wins[w].network
       THEN /\ Written(w) /\ Becomes(w, Cleaned(w)) /\ appQ' = Append(appQ, Msg("B_QUIT_REQUESTED"))
            /\ UNCHANGED <<crashed, late>>
       ELSE Faults(w) /\ UNCHANGED <<disk, appQ>>
    /\ UNCHANGED <<running, iWindow, iLastProfile, iFirstRun, iMessenger, waits, wizards, bar,
                   acts, hasty, lost, torn, forced, shortcut, abandoned, unnamed>>

\* BLooper's own message
Quit(w) ==
    /\ Turn(w, "QUIT") /\ Becomes(w, [Handled(w) EXCEPT !.alive = FALSE, !.queue = <<>>])
    /\ lost' = (lost \/ ~wins[w].saved)
    /\ UNCHANGED <<disk, running, appVars, wizards, bar, crashed, acts, hasty, torn, pastVars>>

WindowStep(w) ==
    \/ SetStatus(w) \/ Updates(w) \/ TellDeskbar(w) \/ TellApp(w) \/ Show(w)
    \/ SavesProfile(w) \/ Close(w) \/ QuitProgram(w) \/ Quit(w)

\* Bounded: what others than the loopers do
Acts == acts < MaxActs /\ acts' = acts + 1 /\ ~crashed

\* NetworkHandler, until the window's network has been deleted: a status or a list that
\* has changed, success, which tells Deskbar, or a connection that was lost
HandlerPosts(w) ==
    /\ running /\ Acts /\ Alive(w) /\ wins[w].network
    /\ \E s \in {wins[w].status, "notavail"} :
         \/ Becomes(w, [wins[w] EXCEPT !.status = s, !.queue = Append(@, Msg("NEWS"))])
         \/ Becomes(w, [wins[w] EXCEPT !.told = wins[w].status,
                                       !.queue = @ \o <<Msg("NEWS"), Report(wins[w].status)>>])
         \/ Becomes(w, [wins[w] EXCEPT !.status = s,
                                       !.queue = Append(@, [what |-> "DROPPED", status |-> "notavail"])])
    /\ UNCHANGED <<disk, running, appVars, wizards, bar, crashed, hasty, lost, torn, pastVars>>

-------------------------------------------------------------------------------
(***************************************************************************)
(* The icon in Deskbar.                                                    *)
(***************************************************************************)
ToApp(m) == appQ' = IF running THEN Append(appQ, m) ELSE appQ

\* BGDeskbar::AttachedToWindow, after its snooze
BarAttaches ==
    /\ bar.item /\ ~bar.attached /\ bar' = [bar EXCEPT !.attached = TRUE]
    /\ ToApp([what |-> "ADD_MESSENGER", view |-> bar.view])
    /\ UNCHANGED <<disk, running, iWindow, iLastProfile, iFirstRun, iMessenger, waits, wins,
                   wizards, crashed, histVars>>

\* BGDeskbar::MessageReceived
BarReceives ==
    /\ bar.queue # <<>>
    /\ LET m == Head(bar.queue)  rest == [bar EXCEPT !.queue = Tail(@)] IN
       bar' = IF m.what = "CHSTATE" THEN [rest EXCEPT !.icon = m.status]
              ELSE [rest EXCEPT !.selected = m.what = "PROFILE_SELECTED"]
    /\ UNCHANGED <<disk, running, appVars, wins, wizards, crashed, histVars>>

BarStep == BarAttaches \/ BarReceives

-------------------------------------------------------------------------------
(***************************************************************************)
(* The user and the system.                                                *)
(***************************************************************************)
UserActs == Acts /\ hasty' = (hasty \/ ~AtRest)

\* BeGadu::BeGadu, when the system or the replicant starts the program
Begins ==
    /\ running' = TRUE
    /\ iFirstRun' = disk.config.first /\ iLastProfile' = disk.config.last
    /\ appQ' = <<Msg(IF disk.config.first THEN "OPEN_PROFILE_WIZARD" ELSE "CONFIG_OK")>>
    /\ UNCHANGED <<iWindow, iMessenger, waits>>

Start ==
    /\ ~running /\ Acts /\ Begins
    /\ UNCHANGED <<disk, wins, wizards, bar, crashed, hasty, lost, torn, pastVars>>

\* Deskbar starts again and loads the icon again
DeskbarRestarts ==
    /\ bar.item /\ Acts
    /\ bar' = [NoIcon EXCEPT !.item = TRUE, !.view = bar.view + 1]
    /\ IF running THEN UNCHANGED <<running, appVars>> ELSE Begins
    /\ UNCHANGED <<disk, wins, wizards, crashed, hasty, lost, torn, pastVars>>

\* the menus of a window
UserPicks(w) ==
    /\ Alive(w) /\ UserActs
    /\ \E m \in {Msg("BEGG_QUIT"), Msg("OPEN_PROFILE_WIZARD")}
                \cup {[what |-> "SET", status |-> s] : s \in Statuses}
                \cup {[what |-> "PROFILE_SWITCH", name |-> p] : p \in {p \in Profiles : File(p) # "none"}} :
          wins' = [wins EXCEPT ![w].queue = Append(@, m)]
    /\ UNCHANGED <<disk, running, appVars, wizards, bar, crashed, lost, torn, pastVars>>

\* a contact is edited, the window moved: what the profile keeps
UserEdits(w) ==
    /\ Alive(w) /\ UserActs
    /\ wins' = [wins EXCEPT ![w].saved = FALSE]
    /\ UNCHANGED <<disk, running, appVars, wizards, bar, crashed, lost, torn, pastVars>>

\* BGDeskbar::MouseDown
UserClicks ==
    /\ bar.item /\ UserActs /\ running
    /\ \E m \in {Msg("SHOW"), Msg("BEGG_QUIT")}
                \cup (IF bar.selected THEN {[what |-> "SET", status |-> s] : s \in Statuses}
                      ELSE {Msg("PROFILE_SELECT")}) : ToApp(m)
    /\ UNCHANGED <<disk, running, iWindow, iLastProfile, iFirstRun, iMessenger, waits, wins,
                   wizards, bar, crashed, lost, torn, pastVars>>

\* Ctrl+Q in a window or a wizard, which says nothing to it
UserQuits ==
    /\ (\E w \in DOMAIN wins : Alive(w)) \/ wizards # <<>>
    /\ UserActs /\ ToApp(Msg("B_QUIT_REQUESTED")) /\ shortcut' = TRUE
    /\ UNCHANGED <<disk, running, iWindow, iLastProfile, iFirstRun, iMessenger, waits, wins, wizards,
                   bar, crashed, lost, torn, forced, abandoned, unnamed, late>>

MutWizardTurns(k) ==
    /\ ~crashed /\ wizards[k].page # 4
    /\ \E page \in {wizards[k].page - 1, wizards[k].page + 1} \cap 0..3 :
          wizards' = [wizards EXCEPT ![k].page = page]
    /\ UNCHANGED <<disk, running, appVars, wins, bar, crashed, histVars>>

\* GO_NEXT1, GO_NEXT2, GO_BACK2, GO_BACK3; GO_BACK1 does nothing
WizardTurns(k) ==
    /\ ~crashed /\ wizards[k].page # 4
    /\ \E page \in {wizards[k].page - 1, wizards[k].page + 1} \cap 1..3 :
          wizards' = [wizards EXCEPT ![k].page = page]
    /\ UNCHANGED <<disk, running, appVars, wins, bar, crashed, histVars>>

\* GO_NEXT3, with the name that the user has entered
WizardNames(k) ==
    /\ wizards[k].page = 3 /\ UserActs
    /\ \E name \in Profiles \cup {NoName} :
         /\ wizards' = [wizards EXCEPT ![k].page = 4, ![k].name = name]
         /\ unnamed' = (unnamed \/ name = NoName)
    /\ UNCHANGED <<disk, running, appVars, wins, bar, crashed, lost, torn,
                   forced, shortcut, abandoned, late>>

\* Profile::Save, before the new file is written
WizardSaves(k) ==
    /\ ~crashed /\ wizards[k].page = 4 /\ wizards[k].saves # "erased"
    /\ Touches(wizards[k].name)
    /\ wizards' = [wizards EXCEPT ![k].saves = Phase(wizards[k].name)]
    /\ UNCHANGED <<running, appVars, wins, bar, crashed, histVars>>

Closes(k) == wizards' = [j \in 1..(Len(wizards) - 1) |-> wizards[IF j < k THEN j ELSE j + 1]]

\* the profile is written, without a password
WizardFinishes(k) ==
    /\ ~crashed /\ wizards[k].page = 4 /\ wizards[k].saves = "erased" /\ Closes(k)
    /\ With(wizards[k].name, "plain")
    /\ ToApp([what |-> "PROFILE_CREATED", name |-> wizards[k].name])
    /\ UNCHANGED <<running, iWindow, iLastProfile, iFirstRun, iMessenger, waits, wins, bar,
                   crashed, histVars>>

WizardStep == \E k \in DOMAIN wizards : WizardSaves(k) \/ WizardFinishes(k)

\* GO_CANCEL
WizardCancelled(k) ==
    /\ wizards[k].page # 4 /\ UserActs /\ Closes(k) /\ ToApp(Msg("PROFILE_SELECT"))
    /\ UNCHANGED <<disk, running, iWindow, iLastProfile, iFirstRun, iMessenger, waits, wins, bar,
                   crashed, lost, torn, pastVars>>

WizardClosed(k) ==
    /\ wizards[k].page # 4 /\ UserActs /\ Closes(k) /\ abandoned' = TRUE
    /\ UNCHANGED <<disk, running, appVars, wins, bar, crashed, lost, torn,
                   forced, shortcut, unnamed, late>>

\* the system shuts down, or the process is killed, or ends with a fault
SystemQuits ==
    /\ running /\ Acts /\ appQ' = Append(appQ, Msg("B_QUIT_REQUESTED")) /\ forced' = TRUE
    /\ UNCHANGED <<disk, running, iWindow, iLastProfile, iFirstRun, iMessenger, waits, wins, wizards,
                   bar, crashed, hasty, lost, torn, shortcut, abandoned, unnamed, late>>

Killed ==
    /\ running /\ acts < MaxActs /\ acts' = acts + 1 /\ forced' = TRUE
    /\ Ends /\ UNCHANGED <<disk, bar, hasty, shortcut, abandoned, unnamed, late>>

Environment ==
    \/ Start \/ DeskbarRestarts \/ UserClicks \/ UserQuits \/ SystemQuits \/ Killed
    \/ \E w \in DOMAIN wins : UserPicks(w) \/ UserEdits(w) \/ HandlerPosts(w)
    \/ \E k \in DOMAIN wizards :
         WizardTurns(k) \/ WizardNames(k) \/ WizardCancelled(k) \/ WizardClosed(k)

Next ==
    \/ (AppStep /\ ~crashed) \/ BarStep \/ WizardStep \/ Environment
    \/ \E w \in DOMAIN wins : WindowStep(w)

\* Loopers handle their messages.
Fairness ==
    /\ WF_vars(AppStep /\ ~crashed) /\ WF_vars(BarStep) /\ WF_vars(WizardStep)
    /\ WF_vars(\E w \in DOMAIN wins : WindowStep(w))

Spec == Init /\ [][Next]_vars
FairSpec == Spec /\ Fairness

-------------------------------------------------------------------------------
Names == Profiles \cup {NoName}
AppMessages ==
    [what : {"ADD_MESSENGER"}, view : Nat] \cup [what : {"SET"}, status : Statuses]
        \cup [what : {"PROFILE_SWITCH"}, name : Profiles] \cup [what : {"PROFILE_CREATED"}, name : Names]
        \cup [what : {"SHOW", "OPEN_PROFILE_WIZARD", "CONFIG_OK", "PROFILE_SELECT", "BEGG_QUIT",
                      "B_QUIT_REQUESTED"}]
WinMessages ==
    [what : {"SET", "CHSTATE"}, status : Statuses] \cup [what : {"DROPPED"}, status : {"notavail"}]
        \cup [what : {"PROFILE_SWITCH"}, name : Profiles]
        \cup [what : {"SHOW", "UPDATE", "NEWS", "OPEN_PROFILE_WIZARD", "CLOSE", "BEGG_QUIT", "QUIT"}]
BarMessages ==
    [what : {"CHSTATE"}, status : Statuses]
        \cup [what : {"PROFILE_SELECTED", "PROFILE_NOT_SELECTED"}]

TypeOK ==
    /\ disk \in [files : [Profiles -> Files], config : [first : BOOLEAN, last : Names]]
    /\ {running, iFirstRun, crashed, hasty, lost, forced, shortcut, abandoned, unnamed, torn, late}
         \subseteq BOOLEAN
    /\ appQ \in Seq(AppMessages)
    /\ iWindow \in 0..Len(wins) /\ iLastProfile \in Names /\ iMessenger \in 0..bar.view
    /\ wins \in Seq([alive : BOOLEAN, profile : Names, password : BOOLEAN, network : BOOLEAN,
                     messenger : 0..bar.view, status : Statuses, told : Statuses \cup {None},
                     queue : Seq(WinMessages), saves : Phases, saved : BOOLEAN])
    /\ wizards \in Seq([page : 1..4, name : Names, saves : Phases])
    /\ bar \in [item : BOOLEAN, view : Nat, attached : BOOLEAN, selected : BOOLEAN,
                icon : Statuses, queue : Seq(BarMessages)]
    /\ acts \in 0..MaxActs

\* OPEN_PROFILE_WIZARD, PROFILE_CREATED, PROFILE_SWITCH: a user who waits for each
\* act to have its effects has one main window or one wizard, though PROFILE_CREATED
\* closes nothing.
OneWindow ==
    ~hasty => Cardinality({w \in DOMAIN wins : Alive(w)}) + Len(wizards) <= 1

\* CLOSE_MAIN_WINDOW, BEGG_QUIT: a window whose network has been deleted is asked for
\* nothing that needs it, unless acts overlap or its session had news while the profile
\* was being saved: nothing takes those messages out of the window's queue.
SoundForThePatient == crashed => hasty \/ late

\* CLOSE_MAIN_WINDOW, which saves the profile, reaches the window before Quit does.
\* Ctrl+Q and the system post no such message, and the profile is lost (NOTES.txt:9).
ChangesAreSaved == lost => hasty \/ forced \/ shortcut

\* Save, which erases the file first, is not cut by an end of the program that waits for
\* its windows, Ctrl+Q too.
SavesAreWhole == torn => hasty \/ forced

\* A user who lets every act have its effects has one window, sees no fault of the
\* program's own making and loses nothing, whatever profiles are made and switched.
PatientIsServed == OneWindow /\ SoundForThePatient /\ ChangesAreSaved /\ SavesAreWhole

\* CONFIG_OK, PROFILE_SWITCH, PROFILE_CREATED: a profile with a password is never
\* opened, though the profile that is opened is not the one that is checked.
ProtectedStaysShut == \A w \in DOMAIN wins : Alive(w) => ~wins[w].password

Saving(p) ==
    \/ \E w \in DOMAIN wins : Alive(w) /\ wins[w].saves # "idle" /\ wins[w].profile = p
    \/ \E k \in DOMAIN wizards : wizards[k].saves # "idle" /\ wizards[k].name = p

\* Profile::Save: a profile is without its contents only while a window or a wizard
\* writes it, until a run is cut while one does.
TornIsKnown == \A p \in Profiles : Torn(p) => torn \/ Saving(p)

\* What Config names as the last profile is there, however a run ended, unless a profile
\* was cut before, or made without a name: these open with a name that is not theirs,
\* which Config is then given.
LastProfileLoads ==
    ~disk.config.first => File(disk.config.last) # "none" \/ unnamed \/ torn

\* Passwords are respected, profiles are whole and Config can be used, after any runs.
ProfilesSound == ProtectedStaysShut /\ TornIsKnown /\ LastProfileLoads

\* Deskbar offers the menu of a profile when there is a main window, and the other
\* when there is none, though both processes start again at any time.
MenuMatches ==
    running /\ ~crashed /\ AtRest /\ ~hasty /\ ~abandoned /\ wizards = <<>> /\ bar.item /\ iMessenger = bar.view
        => bar.selected = (iWindow # NoWindow)

\* UpdateBGDeskBar, HandleEventConnected: the icon shows the last status that was
\* reported in a window that knows it.
IconShowsStatus ==
    running /\ ~crashed /\ AtRest /\ ~hasty =>
        \A w \in DOMAIN wins :
            Alive(w) /\ bar.item /\ wins[w].messenger = bar.view /\ wins[w].told # None
                => bar.icon = wins[w].told

\* Deskbar, another process, shows the state of the program.
DeskbarAgrees == MenuMatches /\ IconShowsStatus

\* Whoever quits from Deskbar, or a window that was told to, ends the program.
ProgramEnds ==
    (\E i \in DOMAIN appQ : appQ[i].what \in {"BEGG_QUIT", "B_QUIT_REQUESTED"})
        ~> ~running \/ crashed
================================================================================

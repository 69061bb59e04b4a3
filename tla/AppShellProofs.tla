----------------------------- MODULE AppShellProofs -----------------------------
(***************************************************************************)
(* Proofs about AppShell: any set of profiles, any number of acts, runs    *)
(* and windows.                                                            *)
(***************************************************************************)
EXTENDS AppShell, SequenceTheorems, FiniteSetTheorems, TLAPS

Configs == [first : BOOLEAN, last : Names]
Disks == [files : [Profiles -> Files], config : Configs]
Bars == [item : BOOLEAN, view : Nat, attached : BOOLEAN, selected : BOOLEAN,
         icon : Statuses, queue : Seq(BarMessages)]
Windows(v) == [alive : BOOLEAN, profile : Names, password : {FALSE}, network : BOOLEAN,
               messenger : 0..v, status : Statuses, told : Statuses \cup {None},
               queue : Seq(WinMessages), saves : Phases, saved : BOOLEAN]
Wizards == {x \in [page : 1..4, name : Names, saves : Phases] :
              (x.page = 4 /\ x.name = NoName => unnamed) /\ (x.saves # "idle" => x.page = 4)}

(***************************************************************************)
(* The inductive invariant.  Until a profile has been cut or made without  *)
(* a name, every name that goes round is that of a profile that is there.  *)
(* Once a run has had a window, the last profile is one that has no        *)
(* password, until QuitRequested notes the window's own, and so is every   *)
(* profile that a waiting PROFILE_CREATED names: a password is never given *)
(* to a profile here, and only a window can ask for another profile.       *)
(***************************************************************************)
Excused == unnamed \/ torn
Known == {p \in Names : Excused \/ File(p) # "none"}
Unprotected == {p \in Names : File(p) # "protected"}

DiskOk == disk \in Disks /\ (~disk.config.first => disk.config.last \in Known)

AppOk ==
    /\ running \in BOOLEAN /\ iFirstRun \in BOOLEAN /\ iLastProfile \in Names
    /\ iMessenger \in 0..bar.view /\ iWindow \in 0..Len(wins)
    /\ running /\ ~iFirstRun => iLastProfile \in Known
    /\ ~running => wins = <<>>
    /\ wizards \in Seq(Wizards)

HistOk ==
    /\ crashed \in BOOLEAN /\ hasty \in BOOLEAN /\ lost \in BOOLEAN /\ forced \in BOOLEAN
    /\ shortcut \in BOOLEAN /\ abandoned \in BOOLEAN /\ unnamed \in BOOLEAN
    /\ torn \in BOOLEAN /\ late \in BOOLEAN
    /\ acts \in 0..MaxActs

WinsOk ==
    /\ wins \in Seq(Windows(bar.view))
    /\ \A w \in 1..Len(wins) : wins[w].profile \in Known

Quitting == {"B_QUIT_REQUESTED", "WRITE"}
LastOk ==
    wins # <<>> => /\ iLastProfile \in Known
                   /\ iLastProfile \in Unprotected \/ waits.what \in Quitting

Fitting ==
    {m \in AppMessages :
        /\ m.what = "ADD_MESSENGER" => m.view \in 0..bar.view
        /\ m.what = "PROFILE_CREATED" => m.name \in Known \cap Unprotected
        /\ m.what = "PROFILE_SWITCH" => wins # <<>>}
QueueOk == appQ \in Seq(Fitting)

Waits == {Nothing, Msg("OPEN_PROFILE_WIZARD"), Msg("B_QUIT_REQUESTED"), Msg("WRITE")}
            \cup [what : {"PROFILE_SWITCH"}, name : Profiles]
WaitOk == waits \in Waits /\ (waits.what = "PROFILE_SWITCH" => wins # <<>>)

IInv == DiskOk /\ bar \in Bars /\ AppOk /\ HistOk /\ WinsOk /\ LastOk /\ QueueOk /\ WaitOk

(***************************************************************************)
(* What no step undoes while a run lasts.                                  *)
(***************************************************************************)
FilesGrow ==
    \A p \in Profiles : /\ disk.files[p] # "none" => disk'.files[p] # "none"
                        /\ disk'.files[p] = "protected" => disk.files[p] = "protected"
Grows ==
    /\ FilesGrow /\ (unnamed => unnamed') /\ (torn => torn')
    /\ bar' \in Bars /\ bar.view <= bar'.view
Stays == wins # <<>> => wins' # <<>>
NoneOpens == wins' # <<>> => wins # <<>>
-------------------------------------------------------------------------------
\* Nothing runs at first.
LEMMA InitInv == Init => IInv
<1> SUFFICES ASSUME Init PROVE IInv
  OBVIOUS
<1>0. PICK files \in [Profiles -> Files] :
         \E last \in {p \in Profiles : files[p] # "none"} \cup {NoName} :
            disk = [files |-> files, config |-> [first |-> last = NoName, last |-> last]]
  BY DEF Init
<1>1. PICK last \in {p \in Profiles : files[p] # "none"} \cup {NoName} :
         disk = [files |-> files, config |-> [first |-> last = NoName, last |-> last]]
  BY <1>0
<1>2. /\ running = FALSE /\ appQ = <<>> /\ iWindow = 0 /\ iLastProfile = NoName /\ iFirstRun = FALSE
      /\ iMessenger = 0 /\ waits = Nothing /\ wins = <<>> /\ wizards = <<>> /\ crashed = FALSE
      /\ bar = NoIcon /\ acts = 0 /\ hasty = FALSE /\ lost = FALSE
      /\ shortcut = FALSE /\ abandoned = FALSE /\ unnamed = FALSE /\ late = FALSE
      /\ torn \in BOOLEAN /\ forced \in BOOLEAN
  BY DEF Init, Off, NoWindow
<1>3. DiskOk
  <2> DEFINE c == [first |-> last = NoName, last |-> last]
  <2>1. (last = NoName) \in BOOLEAN /\ last \in Names
    BY DEF Names
  <2>2. c \in Configs /\ c.first = (last = NoName) /\ c.last = last
    BY <2>1 DEF Configs
  <2> HIDE DEF c
  <2>3. disk = [files |-> files, config |-> c]
    BY <1>1 DEF c
  <2>4. files \in [Profiles -> Files]
    BY DEF Files
  <2>5. disk \in Disks /\ disk.config = c /\ disk.files = files
    BY <2>2, <2>3, <2>4 DEF Disks
  <2>6. ASSUME last # NoName PROVE last \in Known
    BY <2>1, <2>5, <2>6, AppShellAssumption DEF Known, File
  <2> QED BY <2>2, <2>5, <2>6 DEF DiskOk
<1>4. bar \in Bars
  BY <1>2 DEF NoIcon, Bars, Statuses
<1>5. AppOk
  <2>1. bar.view \in Nat /\ Len(wins) = 0
    BY <1>2, <1>4 DEF Bars
  <2>2. running \in BOOLEAN /\ iFirstRun \in BOOLEAN /\ iLastProfile \in Names
    BY <1>2 DEF Names
  <2>3. iMessenger \in 0..bar.view /\ iWindow \in 0..Len(wins)
    BY <1>2, <2>1
  <2>4. wizards \in Seq(Wizards)
    BY <1>2, EmptySeq
  <2> QED BY <1>2, <2>2, <2>3, <2>4 DEF AppOk
<1>6. HistOk
  <2>1. acts \in 0..MaxActs
    BY <1>2, AppShellAssumption
  <2> QED BY <1>2, <2>1 DEF HistOk
<1>7. WinsOk /\ LastOk
  BY <1>2 DEF WinsOk, LastOk
<1>8. QueueOk /\ WaitOk
  BY <1>2 DEF QueueOk, WaitOk, Waits, Nothing, Msg
<1> QED BY <1>3, <1>4, <1>5, <1>6, <1>7, <1>8 DEF IInv

\* Messages without a name or a number may always wait for the application.
LEMMA Plain ==
    ASSUME NEW what \in {"SHOW", "OPEN_PROFILE_WIZARD", "CONFIG_OK", "PROFILE_SELECT", "BEGG_QUIT",
                         "B_QUIT_REQUESTED"}
    PROVE  Msg(what) \in Fitting /\ Msg(what) \in Fitting'
BY DEF Fitting, AppMessages, Msg

\* What a main window is sent.
LEMMA PlainWin ==
    ASSUME NEW what \in {"SHOW", "UPDATE", "NEWS", "OPEN_PROFILE_WIZARD", "CLOSE", "BEGG_QUIT", "QUIT"}
    PROVE  Msg(what) \in WinMessages
BY DEF WinMessages, Msg

\* What a message to a window says, and where it may go on to.
LEMMA WinFacts ==
    ASSUME NEW m \in WinMessages
    PROVE  /\ m.what \in {"SET", "DROPPED"} => m.status \in Statuses
           /\ m.what = "CHSTATE" => m \in BarMessages
           /\ m.what \in {"PROFILE_SWITCH", "OPEN_PROFILE_WIZARD"} => m \in AppMessages
BY DEF WinMessages, BarMessages, AppMessages, Statuses

\* What a message to the application says.
LEMMA AppFacts ==
    ASSUME NEW m \in AppMessages
    PROVE  /\ m.what \in {"SET", "SHOW", "BEGG_QUIT"} => m \in WinMessages
           /\ m.what = "PROFILE_CREATED" => m.name \in Names
           /\ m.what = "PROFILE_SWITCH" => m \in [what : {"PROFILE_SWITCH"}, name : Profiles]
           /\ m.what = "ADD_MESSENGER" => m.view \in Nat
           /\ m.what = "OPEN_PROFILE_WIZARD" => m = Msg("OPEN_PROFILE_WIZARD")
           /\ m.what = "B_QUIT_REQUESTED" => m = Msg("B_QUIT_REQUESTED")
BY DEF WinMessages, AppMessages, Msg

\* The message that BeGadu handles, and those behind it.
LEMMA Turns ==
    ASSUME IInv, NEW what, Handles(what)
    PROVE  /\ M \in Fitting /\ M \in AppMessages /\ M.what = what
           /\ Tail(appQ) \in Seq(Fitting) /\ running /\ waits = Nothing /\ waits.what = "NOTHING"
<1>1. M \in Fitting /\ Tail(appQ) \in Seq(Fitting)
  BY HeadTailProperties DEF IInv, QueueOk, Handles, M
<1> QED BY <1>1 DEF Handles, Fitting, Nothing, Msg

\* Names that are known or unprotected stay so.
LEMMA NamesGrow ==
    ASSUME IInv, Grows
    PROVE  Known \subseteq Known' /\ Unprotected \subseteq Unprotected' /\ Known' \subseteq Names
           /\ Wizards \subseteq Wizards' /\ wizards \in Seq(Wizards')
<1>1. Known \subseteq Known' /\ Known' \subseteq Names
  BY DEF Known, Grows, FilesGrow, Excused, File, Names
<1>2. Unprotected \subseteq Unprotected'
  BY DEF Unprotected, Grows, FilesGrow, File, Names
<1>3. Wizards \subseteq Wizards'
  BY DEF Wizards, Grows
<1>4. wizards \in Seq(Wizards')
  BY <1>3, SeqMonotonic DEF IInv, AppOk
<1> QED BY <1>1, <1>2, <1>3, <1>4

\* Messages that wait stay valid.
LEMMA QueueGrows ==
    ASSUME IInv, Grows, Stays, NEW q \in Seq(Fitting)
    PROVE  /\ q \in Seq(Fitting') /\ (appQ' = q => QueueOk')
           /\ \A m \in Fitting' : appQ' = Append(q, m) => QueueOk'
<1>1. bar.view \in Nat /\ bar'.view \in Nat
  BY DEF IInv, Grows, Bars
<1>2. Fitting \subseteq Fitting'
  BY <1>1, NamesGrow DEF Fitting, Grows, Stays
<1>3. q \in Seq(Fitting')
  BY <1>2, SeqMonotonic
<1>4. \A m \in Fitting' : Append(q, m) \in Seq(Fitting')
  BY <1>3, AppendProperties
<1> QED BY <1>3, <1>4 DEF QueueOk

\* A window stays what it is when other things grow.
LEMMA WindowsGrow ==
    ASSUME IInv, Grows
    PROVE  /\ wins \in Seq(Windows(bar'.view)) /\ Windows(bar.view) \subseteq Windows(bar'.view)
           /\ \A w \in 1..Len(wins) : wins[w] \in Windows(bar.view) /\ wins[w].profile \in Known'
           /\ Len(wins) \in Nat /\ DOMAIN wins = 1..Len(wins)
<1>1. bar.view \in Nat /\ bar'.view \in Nat /\ bar.view <= bar'.view
  BY DEF IInv, Grows, Bars
<1>2. 0..bar.view \subseteq 0..bar'.view
  BY <1>1
<1>3. Windows(bar.view) \subseteq Windows(bar'.view)
  BY <1>2 DEF Windows
<1>4. wins \in Seq(Windows(bar.view))
  BY DEF IInv, WinsOk
<1>5. wins \in Seq(Windows(bar'.view))
  BY <1>3, <1>4, SeqMonotonic
<1>6. Len(wins) \in Nat /\ DOMAIN wins = 1..Len(wins) /\ \A w \in 1..Len(wins) : wins[w] \in Windows(bar.view)
  BY <1>4, LenProperties, ElementOfSeq
<1> QED BY <1>3, <1>5, <1>6, NamesGrow DEF IInv, WinsOk

\* No window changes.
LEMMA WinsSame == ASSUME IInv, Grows, wins' = wins PROVE WinsOk' /\ Stays /\ NoneOpens
BY WindowsGrow DEF WinsOk, IInv, Stays, NoneOpens

\* A window changes, but not its profile.
LEMMA WinChanges ==
    ASSUME IInv, Grows, NEW w \in 1..Len(wins), NEW x \in Windows(bar'.view),
           x.profile = wins[w].profile, wins' = [wins EXCEPT ![w] = x]
    PROVE  WinsOk' /\ Stays /\ NoneOpens /\ Len(wins') = Len(wins)
<1>1. wins \in Seq(Windows(bar'.view))
  BY WindowsGrow
<1>2. /\ wins' \in Seq(Windows(bar'.view)) /\ Len(wins') = Len(wins)
      /\ \A v \in 1..Len(wins) : wins'[v] = IF v = w THEN x ELSE wins[v]
  BY <1>1, ExceptSeq
<1>3. wins # <<>> /\ wins' # <<>>
  BY <1>1, <1>2, EmptySeq
<1> QED BY <1>2, <1>3, WindowsGrow DEF WinsOk, Stays, NoneOpens, IInv

\* MainWindow::MainWindow: a window is opened, with a profile that has no password.
LEMMA WinOpens ==
    ASSUME IInv, Grows, NEW p \in Known \cap Unprotected, OpenWindow(p)
    PROVE  WinsOk' /\ Stays /\ wins' # <<>> /\ iWindow' \in 0..Len(wins')
<1>1. PICK s \in Statuses, q \in {<<>>, <<Msg("UPDATE")>>} : wins' = Append(wins, Opened(p, s, q))
  BY DEF OpenWindow
<1> DEFINE x == Opened(p, s, q)
<1>2. x \in Windows(bar'.view) /\ x.profile \in Known'
  <2>1. 0 \in 0..bar'.view
    BY DEF Grows, Bars
  <2>2. q \in Seq(WinMessages)
    <3>1. Msg("UPDATE") \in WinMessages
      BY PlainWin
    <3>2. <<Msg("UPDATE")>> \in Seq(WinMessages)
      BY <3>1
    <3>3. q = <<>> \/ q = <<Msg("UPDATE")>>
      OBVIOUS
    <3> QED BY <3>2, <3>3, EmptySeq
  <2>3. x.profile \in Known'
    <3>1. Loads(p) => File(p) # "none"
      BY DEF Loads
    <3>2. ~Loads(p) => Excused'
      <4>1. File(p) \in Files
        BY DEF File, Files, IInv, DiskOk, Disks, Known, Names
      <4> QED BY <4>1 DEF Loads, Torn, Files, Known, Excused, OpenWindow, Grows
    <3>3. Torn(p) => Excused'
      BY DEF OpenWindow, Excused
    <3>4. Default \in Names /\ NoName \in Names
      BY AppShellAssumption DEF Names
    <3>5. \A n \in Names : Excused' => n \in Known'
      BY DEF Known
    <3> QED BY <3>2, <3>3, <3>4, <3>5, NamesGrow DEF Opened
  <2>4. x.profile \in Names
    BY <2>3 DEF Known
  <2>5. HasPassword(p) = FALSE
    BY DEF HasPassword, Unprotected
  <2> QED BY <2>1, <2>2, <2>3, <2>4, <2>5 DEF Opened, Windows, Phases
<1> HIDE DEF x
<1>3. /\ wins' \in Seq(Windows(bar'.view)) /\ Len(wins') = Len(wins) + 1 /\ wins' # <<>>
      /\ \A w \in 1..Len(wins) : wins'[w] = wins[w]
      /\ wins'[Len(wins) + 1] = x
  BY <1>1, <1>2, WindowsGrow, AppendProperties DEF x
<1>4. \A w \in 1..Len(wins') : wins'[w].profile \in Known'
  <2> SUFFICES ASSUME NEW w \in 1..Len(wins') PROVE wins'[w].profile \in Known'
    OBVIOUS
  <2>1. CASE w \in 1..Len(wins)
    BY <1>3, <2>1, WindowsGrow
  <2>2. CASE w = Len(wins) + 1
    BY <1>2, <1>3, <2>2 DEF x
  <2> QED BY <1>3, <2>1, <2>2, WindowsGrow
<1>5. iWindow' \in 0..Len(wins')
  BY <1>3, WindowsGrow DEF OpenWindow
<1> QED BY <1>3, <1>4, <1>5 DEF WinsOk, Stays

\* The files are as they were.
LEMMA DiskSame ==
    ASSUME IInv, disk' = disk, unnamed => unnamed', torn => torn', bar' \in Bars, bar.view <= bar'.view
    PROVE  Grows /\ DiskOk'
<1>1. Grows
  BY DEF Grows, FilesGrow
<1> QED BY <1>1, NamesGrow DEF IInv, DiskOk

\* The same, when no history is made either.
LEMMA QuietDisk ==
    ASSUME IInv, UNCHANGED <<disk, histVars>>, bar' \in Bars, bar.view <= bar'.view
    PROVE  Grows /\ DiskOk'
BY DiskSame DEF histVars, pastVars

\* Profile::Save leaves a file, and gives no password.
LEMMA SaveOk ==
    ASSUME IInv, NEW p \in Names, NEW file \in {"dir", "empty", "plain"}, With(p, file),
           unnamed => unnamed', torn => torn', bar' \in Bars, bar.view <= bar'.view
    PROVE  /\ Grows /\ DiskOk' /\ disk'.config = disk.config
           /\ \A n \in Names : File(n)' = IF n = p /\ n # NoName THEN file ELSE File(n)
<1>1. CASE p = NoName
  <2>1. disk' = disk
    BY <1>1 DEF With
  <2> QED BY <1>1, <2>1, DiskSame DEF File
<1>2. CASE p # NoName
  <2> DEFINE f == [disk.files EXCEPT ![p] = file]
  <2>1. disk' = [disk EXCEPT !.files = f] /\ p \in Profiles /\ disk \in Disks
    BY <1>2 DEF With, Names, IInv, DiskOk
  <2>2. f \in [Profiles -> Files] /\ \A n \in Profiles : f[n] = IF n = p THEN file ELSE disk.files[n]
    BY <2>1 DEF Disks, Files
  <2> HIDE DEF f
  <2>3. disk' \in Disks /\ disk'.files = f /\ disk'.config = disk.config
    BY <2>1, <2>2 DEF Disks
  <2>4. Grows
    BY <2>2, <2>3 DEF Grows, FilesGrow
  <2>5. \A n \in Names : File(n)' = IF n = p /\ n # NoName THEN file ELSE File(n)
    BY <2>2, <2>3 DEF File, Names
  <2> QED BY <2>3, <2>4, <2>5, NamesGrow DEF IInv, DiskOk
<1> QED BY <1>1, <1>2

\* The application's own variables, while it runs.
LEMMA AppRuns ==
    ASSUME IInv, Grows, running, running' = running, iFirstRun' \in {iFirstRun, FALSE},
           iLastProfile' \in {iLastProfile} \cup Known',
           iFirstRun' = iFirstRun \/ iLastProfile' \in Known',
           iMessenger' \in 0..bar'.view, iWindow' \in 0..Len(wins'),
           wizards' = wizards \/ wizards' \in Seq(Wizards')
    PROVE  AppOk'
<1>1. iLastProfile' \in Names
  BY NamesGrow DEF IInv, AppOk
<1>2. ~iFirstRun' => iLastProfile' \in Known'
  BY NamesGrow DEF IInv, AppOk
<1> QED BY <1>1, <1>2, NamesGrow DEF IInv, AppOk

\* They stay as they are.
LEMMA AppKeeps ==
    ASSUME IInv, Grows, Len(wins') = Len(wins), wins = <<>> => wins' = <<>>,
           UNCHANGED <<running, iFirstRun, iLastProfile, iMessenger, iWindow>>,
           wizards' = wizards \/ wizards' \in Seq(Wizards')
    PROVE  AppOk'
<1>1. bar.view \in Nat /\ bar'.view \in Nat /\ bar.view <= bar'.view
  BY DEF IInv, Grows, Bars
<1>2. iMessenger' \in 0..bar'.view
  BY <1>1 DEF IInv, AppOk
<1> QED BY <1>1, <1>2, NamesGrow DEF IInv, AppOk

\* So does the last profile, if no window comes.
LEMMA LastSame ==
    ASSUME IInv, Grows, iLastProfile' = iLastProfile, NoneOpens,
           waits.what \in Quitting => waits'.what \in Quitting
    PROVE  LastOk'
BY NamesGrow DEF LastOk, IInv, NoneOpens

\* What a window came with is good.
LEMMA LastOpens ==
    ASSUME IInv, Grows, NEW p \in Known \cap Unprotected, iLastProfile' = p PROVE LastOk'
BY NamesGrow DEF LastOk

\* Nothing runs out of step with what BeGadu waits for.
LEMMA WaitSame == IInv /\ Stays /\ waits' \in {waits, Nothing} => WaitOk'
BY DEF IInv, WaitOk, Stays, Waits, Nothing, Msg

\* So do the bounds and what is remembered of a run.
LEMMA HistSame == IInv /\ UNCHANGED histVars /\ crashed' \in BOOLEAN => HistOk'
BY DEF IInv, HistOk, histVars, pastVars

\* Opening a window may find a torn profile.
LEMMA HistOpens ==
    ASSUME IInv, UNCHANGED <<acts, hasty, lost, pastVars, crashed>>,
           torn' = torn \/ \E p : torn' = (torn \/ Torn(p))
    PROVE  HistOk' /\ (unnamed => unnamed') /\ (torn => torn')
<1>1. torn' \in BOOLEAN /\ (torn => torn')
  BY DEF IInv, HistOk, Torn
<1> QED BY <1>1 DEF IInv, HistOk, pastVars

\* Deskbar's icon.
LEMMA BarOps ==
    ASSUME NEW b \in Bars
    PROVE  /\ WithIcon(b) \in Bars /\ b.view <= WithIcon(b).view
           /\ WithoutIcon(b) \in Bars /\ WithoutIcon(b).view = b.view
           /\ \A m \in BarMessages :
                [b EXCEPT !.queue = Append(@, m)] \in Bars /\ [b EXCEPT !.queue = Append(@, m)].view = b.view
           /\ \A what \in {"PROFILE_SELECTED", "PROFILE_NOT_SELECTED"} :
                Told(b, what) \in Bars /\ Told(b, what).view = b.view
<1>1. b.view \in Nat /\ b.queue \in Seq(BarMessages)
  BY DEF Bars
<1>2. NoIcon \in Bars
  BY DEF NoIcon, Bars, Statuses
<1>3. WithIcon(b) \in Bars /\ b.view <= WithIcon(b).view
  <2>1. CASE b.item
    BY <1>1, <2>1 DEF WithIcon
  <2>2. CASE ~b.item
    <3>1. WithIcon(b) = [NoIcon EXCEPT !.item = TRUE, !.view = b.view + 1]
      BY <2>2 DEF WithIcon
    <3>2. WithIcon(b) = [item |-> TRUE, view |-> b.view + 1, attached |-> FALSE, selected |-> FALSE,
                         icon |-> "notavail", queue |-> <<>>]
      BY <3>1 DEF NoIcon
    <3> QED BY <1>1, <3>2 DEF Bars, Statuses
  <2> QED BY <2>1, <2>2
<1>4. WithoutIcon(b) \in Bars /\ WithoutIcon(b).view = b.view
  BY <1>1, <1>2 DEF WithoutIcon, Bars
<1>5. \A m \in BarMessages :
        [b EXCEPT !.queue = Append(@, m)] \in Bars /\ [b EXCEPT !.queue = Append(@, m)].view = b.view
  <2> SUFFICES ASSUME NEW m \in BarMessages
               PROVE [b EXCEPT !.queue = Append(@, m)] \in Bars
                     /\ [b EXCEPT !.queue = Append(@, m)].view = b.view
    OBVIOUS
  <2>1. Append(b.queue, m) \in Seq(BarMessages)
    BY <1>1, AppendProperties
  <2> QED BY <2>1 DEF Bars
<1>6. \A what \in {"PROFILE_SELECTED", "PROFILE_NOT_SELECTED"} : Msg(what) \in BarMessages
  BY DEF Msg, BarMessages
<1>7. \A what \in {"PROFILE_SELECTED", "PROFILE_NOT_SELECTED"} :
        Told(b, what) \in Bars /\ Told(b, what).view = b.view
  BY <1>5, <1>6 DEF Told
<1> QED BY <1>3, <1>4, <1>5, <1>7

\* The message to a window that BMessenger( iWindow ) sends.
LEMMA ToWindowOk ==
    ASSUME IInv, Grows, NEW w \in 1..Len(wins), NEW m \in WinMessages,
           wins' = [wins EXCEPT ![w].queue = Append(@, m)]
    PROVE  WinsOk' /\ Stays /\ NoneOpens /\ Len(wins') = Len(wins)
<1> DEFINE x == [wins[w] EXCEPT !.queue = Append(wins[w].queue, m)]
<1>1. wins[w] \in Windows(bar'.view)
  BY WindowsGrow
<1>2. Append(wins[w].queue, m) \in Seq(WinMessages)
  BY <1>1, AppendProperties DEF Windows
<1>3. x \in Windows(bar'.view) /\ x.profile = wins[w].profile
  BY <1>1, <1>2 DEF Windows
<1>4. wins' = [wins EXCEPT ![w] = x]
  OBVIOUS
<1> HIDE DEF x
<1> QED BY <1>3, <1>4, WinChanges

-------------------------------------------------------------------------------
(***************************************************************************)
(* The application's looper.                                               *)
(***************************************************************************)
\* AddMessenger: the window learns where Deskbar is.
LEMMA AddMessengerInv == IInv /\ AddMessenger => IInv'
<1> SUFFICES ASSUME IInv, AddMessenger PROVE IInv'
  OBVIOUS
<1>1. /\ M \in Fitting /\ M \in AppMessages /\ M.what = "ADD_MESSENGER" /\ Tail(appQ) \in Seq(Fitting)
      /\ running /\ waits = Nothing /\ appQ' = Tail(appQ) /\ iMessenger' = M.view
      /\ UNCHANGED <<disk, running, iWindow, iLastProfile, iFirstRun, waits, wizards, crashed, histVars>>
  BY Turns DEF AddMessenger, Taken
<1>2. M.view \in 0..bar.view /\ bar \in Bars /\ bar.view \in Nat
  BY <1>1 DEF Fitting, IInv, Bars
<1>3. bar' \in Bars /\ bar'.view = bar.view
  <2>1. Msg("PROFILE_SELECTED") \in BarMessages
    BY DEF Msg, BarMessages
  <2>2. bar' \in {bar, [bar EXCEPT !.queue = Append(@, Msg("PROFILE_SELECTED"))]}
    BY DEF AddMessenger
  <2> QED BY <1>2, <2>1, <2>2, BarOps
<1>4. Grows /\ DiskOk'
  BY <1>1, <1>2, <1>3, QuietDisk
<1>5. WinsOk' /\ Stays /\ NoneOpens /\ Len(wins') = Len(wins)
  <2>1. CASE iWindow = NoWindow
    BY <1>1, <1>4, <2>1, WinsSame DEF AddMessenger
  <2>2. CASE iWindow # NoWindow
    <3> DEFINE x == [wins[iWindow] EXCEPT !.messenger = M.view, !.told = None]
    <3>1. iWindow \in 1..Len(wins)
      BY <2>2, WindowsGrow, <1>4 DEF IInv, AppOk, NoWindow
    <3>2. x \in Windows(bar'.view) /\ x.profile = wins[iWindow].profile
      BY <1>2, <1>3, <1>4, <3>1, WindowsGrow DEF Windows
    <3>3. wins' = [wins EXCEPT ![iWindow] = x]
      BY <2>2, <3>1, WindowsGrow, <1>4 DEF AddMessenger
    <3> HIDE DEF x
    <3> QED BY <1>1, <1>4, <3>1, <3>2, <3>3, WinChanges
  <2> QED BY <2>1, <2>2
<1>6. AppOk'
  <2>1. iMessenger' \in 0..bar'.view
    BY <1>1, <1>2, <1>3
  <2> QED BY <1>1, <1>4, <1>5, <2>1, AppRuns DEF IInv, AppOk
<1>7. QueueOk' /\ WaitOk' /\ HistOk' /\ LastOk'
  BY <1>1, <1>4, <1>5, QueueGrows, WaitSame, HistSame, LastSame DEF IInv, HistOk
<1> QED BY <1>3, <1>4, <1>5, <1>6, <1>7 DEF IInv

\* What BeGadu's window is, if it has one.
LEMMA TheWindow ==
    ASSUME IInv, iWindow # NoWindow
    PROVE  /\ iWindow \in 1..Len(wins) /\ wins # <<>> /\ wins[iWindow].profile \in Known
           /\ wins[iWindow] \in Windows(bar.view)
<1>1. wins \in Seq(Windows(bar.view)) /\ Len(wins) \in Nat
  BY LenProperties DEF IInv, WinsOk
<1>2. iWindow \in 1..Len(wins)
  BY <1>1 DEF IInv, AppOk, NoWindow
<1>3. wins # <<>> /\ wins[iWindow] \in Windows(bar.view)
  BY <1>1, <1>2, ElementOfSeq
<1> QED BY <1>2, <1>3 DEF IInv, WinsOk

\* MessageReceived: what is for the window goes on to it.
LEMMA ForwardInv == IInv /\ Forward => IInv'
<1> SUFFICES ASSUME IInv, Forward PROVE IInv'
  OBVIOUS
<1>1. /\ M \in AppMessages /\ M.what \in {"SET", "SHOW"} /\ Tail(appQ) \in Seq(Fitting)
      /\ running /\ appQ' = Tail(appQ)
      /\ UNCHANGED <<disk, running, iWindow, iLastProfile, iFirstRun, iMessenger, waits, wizards, bar,
                     crashed, histVars>>
  BY Turns DEF Forward, Taken
<1>2. Grows /\ DiskOk' /\ bar' \in Bars
  BY <1>1, QuietDisk DEF IInv, Bars
<1>3. WinsOk' /\ Stays /\ NoneOpens /\ Len(wins') = Len(wins)
  <2>1. CASE iWindow = NoWindow
    BY <1>1, <1>2, <2>1, WinsSame DEF Forward
  <2>2. CASE iWindow # NoWindow
    <3>1. M \in WinMessages
      BY <1>1, AppFacts
    <3> QED BY <1>1, <1>2, <2>2, <3>1, ToWindowOk, TheWindow DEF Forward, ToWindow
  <2> QED BY <2>1, <2>2
<1>4. AppOk'
  BY <1>1, <1>2, <1>3, AppRuns DEF IInv, AppOk
<1>5. QueueOk' /\ WaitOk' /\ HistOk' /\ LastOk'
  BY <1>1, <1>2, <1>3, QueueGrows, WaitSame, HistSame, LastSame DEF IInv, HistOk
<1> QED BY <1>2, <1>3, <1>4, <1>5 DEF IInv

\* CLOSE_MAIN_WINDOW goes to the window, and BeGadu will wait for its end.
LEMMA CloseWindowOk ==
    ASSUME IInv, Grows, iWindow # NoWindow, CloseWindow, M \in Fitting,
           M.what \in {"OPEN_PROFILE_WIZARD", "PROFILE_SWITCH"}, iLastProfile' = iLastProfile
    PROVE  WinsOk' /\ Stays /\ NoneOpens /\ Len(wins') = Len(wins) /\ WaitOk'
<1>1. Msg("CLOSE") \in WinMessages
  BY PlainWin
<1>2. WinsOk' /\ Stays /\ NoneOpens /\ Len(wins') = Len(wins)
  BY <1>1, TheWindow, ToWindowOk DEF CloseWindow, ToWindow
<1>3. M \in Waits /\ wins # <<>>
  BY AppFacts, TheWindow DEF Waits, Fitting
<1> QED BY <1>2, <1>3 DEF CloseWindow, WaitOk, Stays

\* A wizard more.
LEMMA WizardOk == IInv /\ Grows /\ NewWizard => wizards' \in Seq(Wizards')
<1> SUFFICES ASSUME IInv, Grows, NewWizard PROVE wizards' \in Seq(Wizards')
  OBVIOUS
<1>1. wizards \in Seq(Wizards')
  BY NamesGrow
<1>2. [page |-> 1, name |-> NoName, saves |-> "idle"] \in Wizards'
  BY DEF Wizards, Names, Phases
<1> QED BY <1>1, <1>2, AppendProperties DEF NewWizard

\* OPEN_PROFILE_WIZARD: at once, or when the window has ended.
LEMMA OpenProfileWizardInv == IInv /\ OpenProfileWizard => IInv'
<1> SUFFICES ASSUME IInv, OpenProfileWizard PROVE IInv'
  OBVIOUS
<1>1. /\ M \in Fitting /\ M.what = "OPEN_PROFILE_WIZARD" /\ Tail(appQ) \in Seq(Fitting)
      /\ running /\ waits = Nothing /\ waits.what = "NOTHING" /\ appQ' = Tail(appQ)
      /\ UNCHANGED <<disk, running, iWindow, iLastProfile, iFirstRun, iMessenger, bar, crashed, histVars>>
  BY Turns DEF OpenProfileWizard, Taken
<1>2. Grows /\ DiskOk' /\ bar' \in Bars
  BY <1>1, QuietDisk DEF IInv, Bars
<1>3. /\ WinsOk' /\ Stays /\ NoneOpens /\ Len(wins') = Len(wins) /\ WaitOk'
      /\ wizards' = wizards \/ wizards' \in Seq(Wizards')
  <2>1. CASE iWindow # NoWindow
    BY <1>1, <1>2, <2>1, CloseWindowOk DEF OpenProfileWizard
  <2>2. CASE iWindow = NoWindow
    <3>1. WinsOk' /\ Stays /\ NoneOpens
      BY <1>1, <1>2, <2>2, WinsSame DEF OpenProfileWizard
    <3> QED BY <1>2, <2>2, <3>1, WaitSame, WizardOk DEF OpenProfileWizard
  <2> QED BY <2>1, <2>2
<1>4. AppOk'
  BY <1>1, <1>2, <1>3, AppRuns DEF IInv, AppOk
<1>5. QueueOk' /\ HistOk'
  BY <1>1, <1>2, <1>3, QueueGrows, HistSame DEF IInv, HistOk
<1>6. LastOk'
  BY <1>1, <1>2, <1>3, LastSame DEF Quitting
<1> QED BY <1>2, <1>3, <1>4, <1>5, <1>6 DEF IInv

\* A profile that loads is there.
LEMMA LoadsKnown == ASSUME IInv, NEW p \in Names, Loads(p), ~HasPassword(p) PROVE p \in Known \cap Unprotected
BY DEF Loads, HasPassword, Known, Unprotected

\* CONFIG_OK: the profile that is opened is the one that was found unprotected.
LEMMA ConfigOkInv == IInv /\ ConfigOk => IInv'
<1> SUFFICES ASSUME IInv, ConfigOk PROVE IInv'
  OBVIOUS
<1>1. /\ Tail(appQ) \in Seq(Fitting) /\ running /\ waits = Nothing
      /\ UNCHANGED <<disk, running, iLastProfile, iFirstRun, iMessenger, waits, wizards, crashed,
                     acts, hasty, lost, pastVars>>
  BY Turns DEF ConfigOk
<1>2. bar' \in Bars /\ bar.view <= bar'.view
  <2>1. WithIcon(bar) \in Bars /\ bar.view <= WithIcon(bar).view
    BY BarOps DEF IInv
  <2>2. \A what \in {"PROFILE_SELECTED", "PROFILE_NOT_SELECTED"} :
          Told(WithIcon(bar), what) \in Bars /\ Told(WithIcon(bar), what).view = WithIcon(bar).view
    BY <2>1, BarOps
  <2>3. bar' \in {WithIcon(bar), Told(WithIcon(bar), "PROFILE_SELECTED"), Told(WithIcon(bar), "PROFILE_NOT_SELECTED")}
    BY DEF ConfigOk
  <2> QED BY <2>1, <2>2, <2>3
<1>8. torn' = torn \/ \E p : torn' = (torn \/ Torn(p))
  BY DEF ConfigOk, OpenWindow
<1>9. HistOk' /\ (unnamed => unnamed') /\ (torn => torn')
  BY <1>1, <1>8, HistOpens
<1>3. Grows /\ DiskOk'
  BY <1>1, <1>2, <1>9, DiskSame
<1>4. WinsOk' /\ Stays /\ iWindow' \in 0..Len(wins') /\ LastOk'
  <2>1. CASE UNCHANGED <<wins, iWindow>>
    BY <1>1, <1>3, <2>1, WinsSame, LastSame DEF IInv, AppOk
  <2>2. CASE Loads(iLastProfile) /\ ~HasPassword(iLastProfile) /\ OpenWindow(iLastProfile)
    <3>1. iLastProfile \in Known \cap Unprotected
      BY <2>2, LoadsKnown DEF IInv, AppOk
    <3> QED BY <1>1, <1>3, <2>2, <3>1, WinOpens, LastOpens
  <2> QED BY <2>1, <2>2 DEF ConfigOk
<1>5. QueueOk'
  <2>1. appQ' \in {Tail(appQ), Append(Tail(appQ), Msg("PROFILE_SELECT"))}
    BY DEF ConfigOk, Taken
  <2> QED BY <1>1, <1>3, <1>4, <2>1, QueueGrows, Plain
<1>6. AppOk'
  <2>1. iMessenger' \in 0..bar'.view
    BY <1>1, <1>2 DEF IInv, AppOk, Bars
  <2> QED BY <1>1, <1>3, <1>4, <2>1, AppRuns DEF IInv, AppOk
<1>7. WaitOk'
  BY <1>1, <1>4, WaitSame
<1> QED BY <1>2, <1>3, <1>4, <1>5, <1>6, <1>7, <1>9 DEF IInv

\* PROFILE_CREATED: the new profile has no password.
LEMMA ProfileCreatedInv == IInv /\ ProfileCreated => IInv'
<1> SUFFICES ASSUME IInv, ProfileCreated PROVE IInv'
  OBVIOUS
<1>1. /\ M \in Fitting /\ M \in AppMessages /\ M.what = "PROFILE_CREATED" /\ Tail(appQ) \in Seq(Fitting)
      /\ running /\ appQ' = Tail(appQ) /\ iLastProfile' = M.name /\ iFirstRun' = FALSE
      /\ bar' = Told(WithIcon(bar), "PROFILE_SELECTED") /\ OpenWindow(M.name)
      /\ UNCHANGED <<disk, running, iMessenger, waits, wizards, crashed, acts, hasty, lost, pastVars>>
  BY Turns DEF ProfileCreated, Taken
<1>2. bar' \in Bars /\ bar.view <= bar'.view
  <2>1. WithIcon(bar) \in Bars /\ bar.view <= WithIcon(bar).view
    BY BarOps DEF IInv
  <2> QED BY <1>1, <2>1, BarOps
<1>8. HistOk' /\ (unnamed => unnamed') /\ (torn => torn')
  BY <1>1, HistOpens DEF OpenWindow
<1>3. Grows /\ DiskOk'
  BY <1>1, <1>2, <1>8, DiskSame
<1>4. M.name \in Known \cap Unprotected /\ M.name \in Known'
  BY <1>1, <1>3, NamesGrow DEF Fitting
<1>5. WinsOk' /\ Stays /\ iWindow' \in 0..Len(wins') /\ LastOk'
  BY <1>1, <1>3, <1>4, WinOpens, LastOpens
<1>6. AppOk'
  <2>1. iMessenger' \in 0..bar'.view
    BY <1>1, <1>2 DEF IInv, AppOk, Bars
  <2> QED BY <1>1, <1>3, <1>4, <1>5, <2>1, AppRuns DEF IInv, AppOk
<1>7. QueueOk' /\ WaitOk'
  BY <1>1, <1>3, <1>5, QueueGrows, WaitSame
<1> QED BY <1>2, <1>3, <1>5, <1>6, <1>7, <1>8 DEF IInv

\* PROFILE_SELECT: only Deskbar is told.
LEMMA ProfileSelectInv == IInv /\ ProfileSelect => IInv'
<1> SUFFICES ASSUME IInv, ProfileSelect PROVE IInv'
  OBVIOUS
<1>1. /\ Tail(appQ) \in Seq(Fitting) /\ running /\ appQ' = Tail(appQ)
      /\ bar' = Told(bar, "PROFILE_NOT_SELECTED")
      /\ UNCHANGED <<disk, running, iWindow, iLastProfile, iFirstRun, iMessenger, waits, wins, wizards,
                     crashed, histVars>>
  BY Turns DEF ProfileSelect, Taken
<1>2. bar' \in Bars /\ bar'.view = bar.view /\ bar.view \in Nat
  BY <1>1, BarOps DEF IInv, Bars
<1>3. Grows /\ DiskOk'
  BY <1>1, <1>2, QuietDisk
<1>4. WinsOk' /\ Stays /\ NoneOpens
  BY <1>1, <1>3, WinsSame
<1>5. AppOk'
  BY <1>1, <1>2, <1>3, AppRuns DEF IInv, AppOk
<1>6. QueueOk' /\ WaitOk' /\ HistOk' /\ LastOk'
  BY <1>1, <1>3, <1>4, QueueGrows, WaitSame, HistSame, LastSame DEF IInv, HistOk
<1> QED BY <1>2, <1>3, <1>4, <1>5, <1>6 DEF IInv

\* PROFILE_SWITCH: at once, or when the window has ended.
LEMMA ProfileSwitchInv == IInv /\ ProfileSwitch => IInv'
<1> SUFFICES ASSUME IInv, ProfileSwitch PROVE IInv'
  OBVIOUS
<1>1. /\ M \in Fitting /\ M \in AppMessages /\ M.what = "PROFILE_SWITCH" /\ Tail(appQ) \in Seq(Fitting)
      /\ running /\ waits.what = "NOTHING" /\ appQ' = Tail(appQ)
      /\ UNCHANGED <<disk, running, iWindow, iLastProfile, iFirstRun, iMessenger, wizards, bar, crashed,
                     histVars>>
  BY Turns DEF ProfileSwitch, Taken
<1>2. Grows /\ DiskOk' /\ bar' \in Bars
  BY <1>1, QuietDisk DEF IInv, Bars
<1>3. WinsOk' /\ Stays /\ NoneOpens /\ Len(wins') = Len(wins) /\ WaitOk'
  <2>1. CASE iWindow # NoWindow
    BY <1>1, <1>2, <2>1, CloseWindowOk DEF ProfileSwitch
  <2>2. CASE iWindow = NoWindow
    <3>1. WinsOk' /\ Stays /\ NoneOpens /\ waits' = M /\ wins' = wins
      BY <1>1, <1>2, <2>2, WinsSame DEF ProfileSwitch
    <3>2. M \in Waits /\ wins # <<>>
      BY <1>1, AppFacts DEF Waits, Fitting
    <3> QED BY <3>1, <3>2 DEF WaitOk
  <2> QED BY <2>1, <2>2
<1>4. AppOk'
  BY <1>1, <1>2, <1>3, AppRuns DEF IInv, AppOk
<1>5. QueueOk' /\ HistOk'
  BY <1>1, <1>2, <1>3, QueueGrows, HistSame DEF IInv, HistOk
<1>6. LastOk'
  BY <1>1, <1>2, <1>3, LastSame DEF Quitting
<1> QED BY <1>2, <1>3, <1>4, <1>5, <1>6 DEF IInv

\* BEGG_QUIT: the window is asked to quit, or the program quits.
LEMMA BeggQuitInv == IInv /\ BeggQuit => IInv'
<1> SUFFICES ASSUME IInv, BeggQuit PROVE IInv'
  OBVIOUS
<1>1. /\ M \in AppMessages /\ M.what = "BEGG_QUIT" /\ Tail(appQ) \in Seq(Fitting) /\ running
      /\ UNCHANGED <<disk, running, iWindow, iLastProfile, iFirstRun, iMessenger, waits, wizards, bar,
                     crashed, histVars>>
  BY Turns DEF BeggQuit
<1>2. Grows /\ DiskOk' /\ bar' \in Bars
  BY <1>1, QuietDisk DEF IInv, Bars
<1>3. WinsOk' /\ Stays /\ NoneOpens /\ Len(wins') = Len(wins) /\ QueueOk'
  <2>1. CASE iWindow = NoWindow
    <3>1. WinsOk' /\ Stays /\ NoneOpens /\ wins' = wins /\ appQ' = Append(Tail(appQ), Msg("B_QUIT_REQUESTED"))
      BY <1>1, <1>2, <2>1, WinsSame DEF BeggQuit
    <3> QED BY <1>1, <1>2, <3>1, QueueGrows, Plain
  <2>2. CASE iWindow # NoWindow
    <3>1. M \in WinMessages
      BY <1>1, AppFacts
    <3>2. WinsOk' /\ Stays /\ NoneOpens /\ Len(wins') = Len(wins) /\ appQ' = Tail(appQ)
      BY <1>1, <1>2, <2>2, <3>1, ToWindowOk, TheWindow DEF BeggQuit, ToWindow, Taken
    <3> QED BY <1>1, <1>2, <3>2, QueueGrows
  <2> QED BY <2>1, <2>2
<1>4. AppOk'
  BY <1>1, <1>2, <1>3, AppRuns DEF IInv, AppOk
<1>5. WaitOk' /\ HistOk' /\ LastOk'
  BY <1>1, <1>2, <1>3, WaitSame, HistSame, LastSame DEF IInv, HistOk
<1> QED BY <1>2, <1>3, <1>4, <1>5 DEF IInv

\* QuitRequested: the window's profile becomes the last one.
LEMMA QuitRequestedInv == IInv /\ QuitRequested => IInv'
<1> SUFFICES ASSUME IInv, QuitRequested PROVE IInv'
  OBVIOUS
<1>1. /\ M \in AppMessages /\ M.what = "B_QUIT_REQUESTED" /\ Tail(appQ) \in Seq(Fitting)
      /\ running /\ appQ' = Tail(appQ) /\ bar' = WithoutIcon(bar) /\ waits' = M
      /\ UNCHANGED <<disk, running, iWindow, iFirstRun, iMessenger, wins, wizards, crashed, histVars>>
  BY Turns DEF QuitRequested, Taken
<1>2. bar' \in Bars /\ bar'.view = bar.view /\ bar.view \in Nat
  BY <1>1, BarOps DEF IInv, Bars
<1>3. Grows /\ DiskOk'
  BY <1>1, <1>2, QuietDisk
<1>4. WinsOk' /\ Stays /\ NoneOpens
  BY <1>1, <1>3, WinsSame
<1>5. iLastProfile' \in {iLastProfile} \cup Known'
  BY <1>3, NamesGrow, TheWindow DEF QuitRequested
<1>6. AppOk'
  BY <1>1, <1>2, <1>3, <1>4, <1>5, AppRuns DEF IInv, AppOk
<1>7. QueueOk'
  BY <1>1, <1>3, <1>4, QueueGrows
<1>8. WaitOk' /\ HistOk' /\ waits'.what \in Quitting
  <2>1. M = Msg("B_QUIT_REQUESTED")
    BY <1>1, AppFacts
  <2> QED BY <1>1, <2>1, HistSame DEF WaitOk, Waits, Msg, IInv, HistOk, Quitting
<1>9. LastOk'
  BY <1>1, <1>3, <1>5, <1>8, NamesGrow DEF LastOk, IInv
<1> QED BY <1>2, <1>3, <1>4, <1>6, <1>7, <1>8, <1>9 DEF IInv

\* BLooper::Quit: its message waits behind the others of the window.
LEMMA AsksToQuitInv == IInv /\ AsksToQuit => IInv'
<1> SUFFICES ASSUME IInv, AsksToQuit PROVE IInv'
  OBVIOUS
<1>1. /\ running /\ iWindow # NoWindow /\ wins' = [wins EXCEPT ![iWindow].queue = Append(@, Msg("QUIT"))]
      /\ UNCHANGED <<disk, running, appQ, iWindow, iLastProfile, iFirstRun, iMessenger, waits, wizards,
                     bar, crashed, histVars>>
  BY DEF AsksToQuit, Alive, ToWindow, appVars
<1>2. Grows /\ DiskOk' /\ bar' \in Bars
  BY <1>1, QuietDisk DEF IInv, Bars
<1>3. WinsOk' /\ Stays /\ NoneOpens /\ Len(wins') = Len(wins)
  BY <1>1, <1>2, TheWindow, PlainWin, ToWindowOk
<1>4. AppOk'
  BY <1>1, <1>2, <1>3, AppRuns DEF IInv, AppOk
<1>5. QueueOk' /\ WaitOk' /\ HistOk' /\ LastOk'
  BY <1>1, <1>2, <1>3, QueueGrows, WaitSame, HistSame, LastSame DEF IInv, HistOk, QueueOk
<1> QED BY <1>2, <1>3, <1>4, <1>5 DEF IInv

\* The window has ended: a wizard, another window, or the end of the program.
LEMMA WindowEndedInv == IInv /\ WindowEnded => IInv'
<1> SUFFICES ASSUME IInv, WindowEnded PROVE IInv'
  OBVIOUS
<1>1. running /\ UNCHANGED <<running, iLastProfile, iFirstRun, iMessenger, crashed, acts, hasty, lost, pastVars>>
  BY DEF WindowEnded
<1>2. bar \in Bars /\ bar.view \in Nat /\ appQ \in Seq(Fitting)
  BY DEF IInv, Bars, QueueOk
<1>3. HistOk' /\ (unnamed => unnamed') /\ (torn => torn')
  <2>1. torn' = torn \/ \E p : torn' = (torn \/ Torn(p))
    BY DEF WindowEnded, SwitchTo, OpenWindow
  <2> QED BY <1>1, <2>1, HistOpens
<1>4. CASE WizardOpens /\ iWindow' = NoWindow /\ waits' = Nothing /\ UNCHANGED disk
  <2>1. UNCHANGED <<appQ, wins, bar>> /\ NewWizard /\ waits.what = "OPEN_PROFILE_WIZARD"
    BY <1>4 DEF WizardOpens
  <2>2. Grows /\ DiskOk' /\ bar' \in Bars
    BY <1>2, <1>3, <1>4, <2>1, DiskSame
  <2>3. WinsOk' /\ Stays /\ NoneOpens
    BY <1>1, <2>1, <2>2, WinsSame
  <2>4. iWindow' \in 0..Len(wins')
    BY <1>4, <2>1, <2>2, WindowsGrow DEF NoWindow
  <2>5. AppOk'
    BY <1>1, <1>2, <2>1, <2>2, <2>4, WizardOk, AppRuns DEF IInv, AppOk
  <2>6. QueueOk' /\ WaitOk'
    BY <1>2, <1>4, <2>1, <2>2, <2>3, QueueGrows, WaitSame
  <2>7. LastOk'
    BY <1>1, <2>1, <2>2, <2>3, LastSame DEF Quitting
  <2> QED BY <1>3, <2>2, <2>3, <2>5, <2>6, <2>7 DEF IInv
<1>5. CASE /\ waits.what = "PROFILE_SWITCH" /\ SwitchTo(waits.name) /\ waits' = Nothing
           /\ UNCHANGED <<wizards, disk>>
  <2>1. wins # <<>> /\ iLastProfile \in Known \cap Unprotected
    BY <1>5 DEF IInv, WaitOk, LastOk, Quitting
  <2>2. /\ bar' \in {bar, Told(bar, "PROFILE_SELECTED"), Told(bar, "PROFILE_NOT_SELECTED")}
        /\ appQ' \in {appQ, Append(appQ, Msg("PROFILE_SELECT"))}
        /\ (iWindow' = NoWindow /\ wins' = wins) \/ OpenWindow(iLastProfile)
    BY <1>5 DEF SwitchTo
  <2>3. bar' \in Bars /\ bar'.view = bar.view
    BY <1>2, <2>2, BarOps
  <2>4. Grows /\ DiskOk'
    BY <1>2, <1>3, <1>5, <2>3, DiskSame
  <2>5. WinsOk' /\ Stays /\ iWindow' \in 0..Len(wins') /\ LastOk'
    <3>1. CASE iWindow' = NoWindow /\ wins' = wins
      BY <1>1, <2>1, <2>4, <3>1, WinsSame, LastOpens, WindowsGrow DEF NoWindow
    <3>2. CASE OpenWindow(iLastProfile)
      BY <1>1, <2>1, <2>4, <3>2, WinOpens, LastOpens
    <3> QED BY <2>2, <3>1, <3>2
  <2>6. AppOk'
    BY <1>1, <1>2, <1>5, <2>3, <2>4, <2>5, AppRuns DEF IInv, AppOk
  <2>7. QueueOk' /\ WaitOk'
    BY <1>2, <1>5, <2>2, <2>4, <2>5, QueueGrows, Plain, WaitSame
  <2> QED BY <1>3, <2>3, <2>4, <2>5, <2>6, <2>7 DEF IInv
<1>6. CASE /\ waits.what = "B_QUIT_REQUESTED" /\ disk' = [disk EXCEPT !.config = NoConfig]
           /\ waits' = Msg("WRITE") /\ iWindow' = NoWindow
           /\ UNCHANGED <<appQ, wins, wizards, bar>>
  <2>1. DiskOk' /\ disk'.files = disk.files
    <3>1. NoConfig \in Configs /\ NoConfig.first
      BY DEF NoConfig, Configs, Names
    <3> QED BY <1>6, <3>1 DEF IInv, DiskOk, Disks
  <2>2. Grows
    BY <1>2, <1>3, <1>6, <2>1 DEF Grows, FilesGrow
  <2>3. WinsOk' /\ Stays /\ NoneOpens
    BY <1>1, <1>6, <2>2, WinsSame
  <2>4. iWindow' \in 0..Len(wins')
    BY <1>6, <2>2, WindowsGrow DEF NoWindow
  <2>5. AppOk'
    BY <1>1, <1>2, <1>6, <2>1, <2>2, <2>4, AppRuns DEF IInv, AppOk
  <2>6. QueueOk' /\ WaitOk' /\ waits'.what \in Quitting
    BY <1>2, <1>6, <2>2, <2>3, QueueGrows DEF WaitOk, Waits, Msg, Quitting
  <2>7. LastOk'
    BY <1>1, <2>2, <2>3, <2>6, LastSame
  <2> QED BY <1>2, <1>3, <1>6, <2>1, <2>3, <2>5, <2>6, <2>7 DEF IInv
<1> QED BY <1>4, <1>5, <1>6 DEF WindowEnded

\* A run has ended: nothing of it is left but the files and Deskbar.
LEMMA EndsOk ==
    ASSUME IInv, Ends, bar' \in Bars
    PROVE  /\ AppOk' /\ WinsOk' /\ LastOk' /\ QueueOk' /\ WaitOk' /\ lost' \in BOOLEAN /\ crashed' = FALSE
           /\ torn' \in BOOLEAN /\ (torn => torn')
<1>1. /\ running' = FALSE /\ crashed' = FALSE /\ appQ' = <<>> /\ iWindow' = 0 /\ iLastProfile' = NoName
      /\ iFirstRun' = FALSE /\ iMessenger' = 0 /\ waits' = Nothing /\ wins' = <<>> /\ wizards' = <<>>
  BY DEF Ends, NoWindow
<1>2. bar'.view \in Nat /\ Len(wins') = 0
  BY <1>1 DEF Bars
<1>3. AppOk'
  <2>1. running' \in BOOLEAN /\ iFirstRun' \in BOOLEAN /\ iLastProfile' \in Names
    BY <1>1 DEF Names
  <2>2. iMessenger' \in 0..bar'.view /\ iWindow' \in 0..Len(wins')
    BY <1>1, <1>2
  <2>3. wizards' \in Seq(Wizards')
    BY <1>1, EmptySeq
  <2> QED BY <1>1, <2>1, <2>2, <2>3 DEF AppOk
<1>4. WinsOk' /\ LastOk'
  BY <1>1 DEF WinsOk, LastOk
<1>5. QueueOk' /\ WaitOk'
  BY <1>1 DEF QueueOk, WaitOk, Waits, Nothing, Msg
<1>6. lost' \in BOOLEAN /\ torn' \in BOOLEAN /\ (torn => torn')
  BY DEF Ends, IInv, HistOk
<1> QED BY <1>1, <1>3, <1>4, <1>5, <1>6

\* QuitRequested, its last step: Config names a profile that is there.
LEMMA ConfigWrittenInv == IInv /\ ConfigWritten => IInv'
<1> SUFFICES ASSUME IInv, ConfigWritten PROVE IInv'
  OBVIOUS
<1>1. /\ running /\ disk' = [disk EXCEPT !.config = [first |-> iFirstRun, last |-> iLastProfile]]
      /\ Ends /\ UNCHANGED <<bar, acts, hasty, pastVars>>
  BY DEF ConfigWritten
<1>2. bar' \in Bars
  BY <1>1 DEF IInv
<1>3. DiskOk'
  <2> DEFINE c == [first |-> iFirstRun, last |-> iLastProfile]
  <2>1. c \in Configs /\ c.first = iFirstRun /\ c.last = iLastProfile
    BY DEF Configs, IInv, AppOk
  <2>2. ~iFirstRun => iLastProfile \in Known
    BY <1>1 DEF IInv, AppOk
  <2> HIDE DEF c
  <2>3. disk' = [disk EXCEPT !.config = c]
    BY <1>1 DEF c
  <2>4. disk' \in Disks /\ disk'.files = disk.files /\ disk'.config = c
    BY <2>1, <2>3 DEF IInv, DiskOk, Disks
  <2>5. Known \subseteq Known'
    BY <1>1, <1>2, <2>4, EndsOk DEF Known, File, Excused, pastVars
  <2> QED BY <2>1, <2>2, <2>4, <2>5 DEF DiskOk
<1>4. HistOk'
  BY <1>1, <1>2, EndsOk DEF IInv, HistOk, pastVars
<1> QED BY <1>1, <1>2, <1>3, <1>4, EndsOk DEF IInv


-------------------------------------------------------------------------------
(***************************************************************************)
(* The main windows' loopers.                                              *)
(***************************************************************************)
\* What the message at the head of a window's queue is, and what is left.
LEMMA WinTurn ==
    ASSUME IInv, NEW w \in 1..Len(wins), NEW what, Turn(w, what)
    PROVE  /\ W(w) \in WinMessages /\ W(w).what = what /\ running /\ wins # <<>>
           /\ wins[w] \in Windows(bar.view) /\ bar.view \in Nat
           /\ Handled(w) \in Windows(bar.view) /\ Handled(w).profile = wins[w].profile
<1>1. wins[w] \in Windows(bar.view)
  BY ElementOfSeq DEF IInv, WinsOk
<1>2. wins[w].queue \in Seq(WinMessages) /\ wins[w].queue # <<>> /\ W(w).what = what /\ running
  BY <1>1 DEF Windows, Turn
<1>3. W(w) \in WinMessages /\ Tail(wins[w].queue) \in Seq(WinMessages)
  BY <1>2, HeadTailProperties DEF W
<1>4. Handled(w) \in Windows(bar.view) /\ Handled(w).profile = wins[w].profile
  BY <1>1, <1>3 DEF Handled, Windows
<1>5. wins # <<>> /\ bar.view \in Nat
  BY EmptySeq DEF IInv, WinsOk, Bars
<1> QED BY <1>1, <1>2, <1>3, <1>4, <1>5

\* What a window's step may put down in the histories.
LEMMA HistSteps ==
    ASSUME IInv, UNCHANGED <<acts, hasty, torn, forced, shortcut, abandoned, unnamed>>,
           crashed' \in BOOLEAN, lost' \in BOOLEAN, late' \in BOOLEAN
    PROVE  HistOk'
BY DEF IInv, HistOk

\* A window's step changes the window, and may save its profile and send a message to BeGadu.
LEMMA WinStepOk ==
    ASSUME IInv, NEW w \in 1..Len(wins), NEW x \in Windows(bar.view), x.profile = wins[w].profile,
           wins' = [wins EXCEPT ![w] = x], bar'.view = bar.view, Grows, DiskOk', HistOk',
           UNCHANGED <<running, iWindow, iLastProfile, iFirstRun, iMessenger, waits, wizards>>,
           appQ' = appQ \/ \E m \in Fitting' : appQ' = Append(appQ, m)
    PROVE  IInv'
<1>1. x \in Windows(bar'.view)
  OBVIOUS
<1>2. WinsOk' /\ Stays /\ NoneOpens /\ Len(wins') = Len(wins)
  BY <1>1, WinChanges
<1>3. AppOk'
  BY <1>2, AppKeeps DEF NoneOpens
<1>4. QueueOk'
  BY <1>2, QueueGrows DEF IInv, QueueOk
<1>5. WaitOk' /\ LastOk'
  BY <1>2, WaitSame, LastSame
<1> QED BY <1>2, <1>3, <1>4, <1>5 DEF IInv, Grows

\* The same, when the files and Deskbar stay as they are.
LEMMA WinQuietOk ==
    ASSUME IInv, NEW w \in 1..Len(wins), NEW x \in Windows(bar.view), x.profile = wins[w].profile,
           wins' = [wins EXCEPT ![w] = x], HistOk', unnamed' = unnamed, torn' = torn,
           UNCHANGED <<disk, running, iWindow, iLastProfile, iFirstRun, iMessenger, waits, wizards, bar>>,
           appQ' = appQ \/ \E m \in Fitting' : appQ' = Append(appQ, m)
    PROVE  IInv'
<1>1. bar' \in Bars /\ bar.view <= bar'.view
  BY DEF IInv, Bars
<1>2. Grows /\ DiskOk'
  BY <1>1, DiskSame
<1> QED BY <1>2, WinStepOk

\* Whatever uses a network that is no more changes no window.
LEMMA FaultOk ==
    ASSUME IInv, Grows, DiskOk', HistOk', UNCHANGED <<running, appVars, wins, wizards>>
    PROVE  IInv'
<1>1. UNCHANGED <<appQ, iWindow, iLastProfile, iFirstRun, iMessenger, waits>>
  BY DEF appVars
<1>2. WinsOk' /\ Stays /\ NoneOpens
  BY WinsSame
<1>3. AppOk'
  BY <1>1, AppKeeps
<1>4. QueueOk' /\ WaitOk' /\ LastOk'
  BY <1>1, <1>2, QueueGrows, WaitSame, LastSame DEF IInv, QueueOk
<1> QED BY <1>2, <1>3, <1>4 DEF IInv, Grows

\* SetStatus: the window notes the status and tells itself.
LEMMA SetStatusInv == ASSUME IInv, NEW w \in 1..Len(wins), SetStatus(w) PROVE IInv'
<1>1. /\ \E what \in {"SET", "DROPPED"} : Turn(w, what)
      /\ UNCHANGED <<disk, running, appVars, wizards, bar, acts, hasty, lost, torn,
                     forced, shortcut, abandoned, unnamed>>
  BY DEF SetStatus
<1>2. /\ W(w) \in WinMessages /\ W(w).what \in {"SET", "DROPPED"} /\ wins[w] \in Windows(bar.view)
      /\ Handled(w) \in Windows(bar.view) /\ Handled(w).profile = wins[w].profile
  BY <1>1, WinTurn
<1>3. Grows /\ DiskOk'
  BY <1>1, DiskSame DEF IInv, Bars
<1>4. CASE Faults(w)
  <2>1. HistOk' /\ wins' = wins
    BY <1>1, <1>4, HistSteps DEF Faults, IInv, HistOk
  <2> QED BY <1>1, <1>3, <2>1, FaultOk
<1>5. ASSUME NEW s \in {W(w).status} \cup (IF W(w).status = "notavail" THEN {wins[w].status} ELSE {}),
             NEW update \in {<<>>, <<Msg("NEWS")>>, <<Msg("UPDATE")>>},
             Becomes(w, [Handled(w) EXCEPT !.status = s, !.told = s, !.queue = @ \o update \o <<Report(s)>>]),
             UNCHANGED <<crashed, late>>
      PROVE  IInv'
  <2> DEFINE x == [Handled(w) EXCEPT !.status = s, !.told = s, !.queue = @ \o update \o <<Report(s)>>]
  <2>1. s \in Statuses
    BY <1>2, WinFacts DEF Windows
  <2>2. update \in Seq(WinMessages) /\ <<Report(s)>> \in Seq(WinMessages)
    <3>1. Report(s) \in WinMessages
      BY <2>1 DEF WinMessages, Report
    <3>2. Msg("NEWS") \in WinMessages /\ Msg("UPDATE") \in WinMessages
      BY PlainWin
    <3>3. <<Msg("NEWS")>> \in Seq(WinMessages) /\ <<Msg("UPDATE")>> \in Seq(WinMessages)
      BY <3>2
    <3>4. <<>> \in Seq(WinMessages)
      BY EmptySeq
    <3>5. update \in Seq(WinMessages)
      <4>1. update = <<>> \/ update = <<Msg("NEWS")>> \/ update = <<Msg("UPDATE")>>
        OBVIOUS
      <4> QED BY <3>3, <3>4, <4>1
    <3>6. <<Report(s)>> \in Seq(WinMessages)
      BY <3>1
    <3> QED BY <3>5, <3>6
  <2>3. Handled(w).queue \o update \o <<Report(s)>> \in Seq(WinMessages)
    BY <1>2, <2>2, ConcatProperties DEF Windows
  <2>4. x \in Windows(bar.view) /\ x.profile = wins[w].profile
    BY <1>2, <2>1, <2>3 DEF Windows
  <2>5. wins' = [wins EXCEPT ![w] = x]
    BY <1>5 DEF Becomes
  <2> HIDE DEF x
  <2>6. HistOk'
    BY <1>1, <1>5, HistSteps DEF IInv, HistOk
  <2> QED BY <1>1, <2>4, <2>5, <2>6, WinQuietOk DEF appVars
<1> QED BY <1>4, <1>5 DEF SetStatus

\* A list or a status that has changed is shown.
LEMMA UpdatesInv == ASSUME IInv, NEW w \in 1..Len(wins), Updates(w) PROVE IInv'
<1>1. /\ \E what \in {"UPDATE", "NEWS"} : Turn(w, what)
      /\ UNCHANGED <<disk, running, appVars, wizards, bar, acts, hasty, lost, torn,
                     forced, shortcut, abandoned, unnamed>>
  BY DEF Updates
<1>2. Handled(w) \in Windows(bar.view) /\ Handled(w).profile = wins[w].profile
  BY <1>1, WinTurn
<1>3. Grows /\ DiskOk'
  BY <1>1, DiskSame DEF IInv, Bars
<1>4. CASE Faults(w)
  <2>1. HistOk' /\ wins' = wins
    BY <1>1, <1>4, HistSteps DEF Faults, IInv, HistOk
  <2> QED BY <1>1, <1>3, <2>1, FaultOk
<1>5. CASE Becomes(w, Handled(w)) /\ UNCHANGED <<crashed, late>>
  <2>1. wins' = [wins EXCEPT ![w] = Handled(w)]
    BY <1>5 DEF Becomes
  <2>2. HistOk'
    BY <1>1, <1>5, HistSteps DEF IInv, HistOk
  <2> QED BY <1>1, <1>2, <2>1, <2>2, WinQuietOk DEF appVars
<1> QED BY <1>4, <1>5 DEF Updates

\* UpdateBGDeskBar: Deskbar is told.
LEMMA TellDeskbarInv == ASSUME IInv, NEW w \in 1..Len(wins), TellDeskbar(w) PROVE IInv'
<1>1. /\ Turn(w, "CHSTATE") /\ wins' = [wins EXCEPT ![w] = Handled(w)]
      /\ bar' \in {bar, [bar EXCEPT !.queue = Append(@, W(w))]}
      /\ UNCHANGED <<disk, running, appVars, wizards, crashed, histVars>>
  BY DEF TellDeskbar, Becomes
<1>2. /\ W(w) \in WinMessages /\ W(w).what = "CHSTATE" /\ bar.view \in Nat
      /\ Handled(w) \in Windows(bar.view) /\ Handled(w).profile = wins[w].profile
  BY <1>1, WinTurn
<1>3. bar' \in Bars /\ bar'.view = bar.view
  BY <1>1, <1>2, WinFacts, BarOps DEF IInv
<1>4. Grows /\ DiskOk'
  BY <1>1, <1>2, <1>3, QuietDisk
<1>5. HistOk'
  BY <1>1, HistSame DEF IInv, HistOk
<1> QED BY <1>1, <1>2, <1>3, <1>4, <1>5, WinStepOk DEF appVars

\* PROFILE_SWITCH and OPEN_PROFILE_WIZARD go on to BeGadu.
LEMMA TellAppInv == ASSUME IInv, NEW w \in 1..Len(wins), TellApp(w) PROVE IInv'
<1>1. PICK what \in {"PROFILE_SWITCH", "OPEN_PROFILE_WIZARD"} : Turn(w, what)
  BY DEF TellApp
<1>2. /\ wins' = [wins EXCEPT ![w] = Handled(w)] /\ appQ' = Append(appQ, W(w))
      /\ UNCHANGED <<disk, running, iWindow, iLastProfile, iFirstRun, iMessenger, waits, wizards, bar,
                     crashed, histVars>>
  BY DEF TellApp, Becomes
<1>3. /\ W(w) \in WinMessages /\ W(w).what = what /\ wins # <<>>
      /\ Handled(w) \in Windows(bar.view) /\ Handled(w).profile = wins[w].profile
  BY <1>1, WinTurn
<1>4. wins' # <<>>
  BY <1>2, <1>3, ExceptSeq, EmptySeq DEF IInv, WinsOk
<1>5. W(w) \in Fitting'
  BY <1>3, <1>4, WinFacts DEF Fitting
<1>6. HistOk' /\ unnamed' = unnamed /\ torn' = torn
  BY <1>2, HistSame DEF IInv, HistOk, histVars, pastVars
<1> QED BY <1>2, <1>3, <1>5, <1>6, WinQuietOk

\* Show.
LEMMA ShowInv == ASSUME IInv, NEW w \in 1..Len(wins), Show(w) PROVE IInv'
<1>1. /\ Turn(w, "SHOW") /\ wins' = [wins EXCEPT ![w] = Handled(w)]
      /\ UNCHANGED <<disk, running, appVars, wizards, bar, crashed, histVars>>
  BY DEF Show, Becomes
<1>2. Handled(w) \in Windows(bar.view) /\ Handled(w).profile = wins[w].profile
  BY <1>1, WinTurn
<1>3. HistOk' /\ unnamed' = unnamed /\ torn' = torn
  BY <1>1, HistSame DEF IInv, HistOk, histVars, pastVars
<1> QED BY <1>1, <1>2, <1>3, WinQuietOk DEF appVars

\* Save finds no file that it would not replace.
LEMMA TouchesOk ==
    ASSUME IInv, NEW p \in Names, Touches(p), UNCHANGED <<bar, histVars>>
    PROVE  /\ Grows /\ DiskOk' /\ Phase(p) \in Phases \ {"idle"}
           /\ \A n \in Names : File(n)' = IF n = p /\ n # NoName
                                          THEN (IF File(n) = "none" THEN "dir" ELSE "empty") ELSE File(n)
<1> DEFINE file == IF File(p) = "none" THEN "dir" ELSE "empty"
<1>1. With(p, file) /\ file \in {"dir", "empty", "plain"}
  BY DEF Touches
<1>2. bar' \in Bars /\ bar.view <= bar'.view /\ (unnamed => unnamed') /\ (torn => torn')
  BY DEF IInv, Bars, histVars, pastVars
<1>3. file = IF File(p) = "none" THEN "dir" ELSE "empty"
  OBVIOUS
<1> HIDE DEF file
<1>4. Grows /\ DiskOk' /\ \A n \in Names : File(n)' = IF n = p /\ n # NoName THEN file ELSE File(n)
  BY <1>1, <1>2, SaveOk
<1>5. Phase(p) \in Phases \ {"idle"}
  BY DEF Phase, Phases
<1> QED BY <1>3, <1>4, <1>5

\* Profile::Save begins.
LEMMA SavesProfileInv == ASSUME IInv, NEW w \in 1..Len(wins), SavesProfile(w) PROVE IInv'
<1> DEFINE x == [wins[w] EXCEPT !.saves = Phase(wins[w].profile),
                                !.saved = (wins[w].saves = "idle" \/ wins[w].saved)]
<1>1. /\ \E what \in {"CLOSE", "BEGG_QUIT"} : Turn(w, what)
      /\ Touches(wins[w].profile) /\ wins' = [wins EXCEPT ![w] = x]
      /\ UNCHANGED <<running, appVars, wizards, bar, crashed, histVars>>
  BY DEF SavesProfile, Becomes
<1>2. wins[w] \in Windows(bar.view) /\ wins[w].profile \in Names
  BY <1>1, WinTurn DEF Windows
<1>3. Grows /\ DiskOk' /\ Phase(wins[w].profile) \in Phases
  BY <1>1, <1>2, TouchesOk
<1>4. x \in Windows(bar.view) /\ x.profile = wins[w].profile
  BY <1>2, <1>3 DEF Windows
<1> HIDE DEF x
<1>5. HistOk'
  BY <1>1, HistSame DEF IInv, HistOk
<1> QED BY <1>1, <1>3, <1>4, <1>5, WinStepOk DEF appVars

\* The profile is saved and the network deleted.
LEMMA CleanedOk ==
    ASSUME IInv, NEW w \in 1..Len(wins), NEW what, Turn(w, what)
    PROVE  Cleaned(w) \in Windows(bar.view) /\ Cleaned(w).profile = wins[w].profile
BY WinTurn DEF Cleaned, Windows, Phases

\* Profile::Save ends.
LEMMA WrittenOk ==
    ASSUME IInv, NEW w \in 1..Len(wins), Written(w), bar' = bar, unnamed' = unnamed, torn' = torn
    PROVE  /\ Grows /\ DiskOk' /\ wins[w].saves = "erased"
           /\ \A n \in Names : File(n)' = IF n = wins[w].profile /\ n # NoName THEN "plain" ELSE File(n)
<1>1. wins[w].profile \in Names /\ wins[w].password = FALSE
  <2>1. wins[w] \in Windows(bar.view)
    BY ElementOfSeq DEF IInv, WinsOk
  <2> QED BY <2>1 DEF Windows
<1>2. With(wins[w].profile, "plain") /\ wins[w].saves = "erased"
  BY <1>1 DEF Written
<1>3. bar' \in Bars /\ bar.view <= bar'.view
  BY DEF IInv, Bars
<1> QED BY <1>1, <1>2, <1>3, SaveOk

\* CLOSE_MAIN_WINDOW.
LEMMA CloseInv == ASSUME IInv, NEW w \in 1..Len(wins), Close(w) PROVE IInv'
<1>1. /\ Turn(w, "CLOSE") /\ Written(w)
      /\ UNCHANGED <<running, appVars, wizards, bar, acts, hasty, lost, torn,
                     forced, shortcut, abandoned, unnamed>>
  BY DEF Close
<1>2. Grows /\ DiskOk'
  BY <1>1, WrittenOk
<1>3. CASE Faults(w)
  <2>1. HistOk' /\ wins' = wins
    BY <1>1, <1>3, HistSteps DEF Faults, IInv, HistOk
  <2> QED BY <1>1, <1>2, <2>1, FaultOk
<1>4. CASE Becomes(w, Cleaned(w)) /\ UNCHANGED <<crashed, late>>
  <2>1. wins' = [wins EXCEPT ![w] = Cleaned(w)]
    BY <1>4 DEF Becomes
  <2>2. HistOk'
    BY <1>1, <1>4, HistSteps DEF IInv, HistOk
  <2> QED BY <1>1, <1>2, <2>1, <2>2, CleanedOk, WinStepOk DEF appVars
<1> QED BY <1>3, <1>4 DEF Close

\* BEGG_QUIT: the window cleans up and tells BeGadu to quit.
LEMMA QuitProgramInv == ASSUME IInv, NEW w \in 1..Len(wins), QuitProgram(w) PROVE IInv'
<1>1. /\ Turn(w, "BEGG_QUIT")
      /\ UNCHANGED <<running, iWindow, iLastProfile, iFirstRun, iMessenger, waits, wizards, bar,
                     acts, hasty, lost, torn, forced, shortcut, abandoned, unnamed>>
  BY DEF QuitProgram
<1>2. CASE Faults(w) /\ UNCHANGED <<disk, appQ>>
  <2>1. HistOk' /\ wins' = wins
    BY <1>1, <1>2, HistSteps DEF Faults, IInv, HistOk
  <2>2. Grows /\ DiskOk'
    BY <1>1, <1>2, DiskSame DEF IInv, Bars
  <2> QED BY <1>1, <1>2, <2>1, <2>2, FaultOk DEF appVars
<1>3. CASE /\ Written(w) /\ Becomes(w, Cleaned(w)) /\ appQ' = Append(appQ, Msg("B_QUIT_REQUESTED"))
           /\ UNCHANGED <<crashed, late>>
  <2>1. wins' = [wins EXCEPT ![w] = Cleaned(w)]
    BY <1>3 DEF Becomes
  <2>2. HistOk' /\ Grows /\ DiskOk'
    BY <1>1, <1>3, HistSteps, WrittenOk DEF IInv, HistOk
  <2>3. Msg("B_QUIT_REQUESTED") \in Fitting'
    BY Plain
  <2> QED BY <1>1, <1>3, <2>1, <2>2, <2>3, CleanedOk, WinStepOk
<1> QED BY <1>2, <1>3 DEF QuitProgram

\* The window ends, with what it has not saved.
LEMMA QuitInv == ASSUME IInv, NEW w \in 1..Len(wins), Quit(w) PROVE IInv'
<1> DEFINE x == [Handled(w) EXCEPT !.alive = FALSE, !.queue = <<>>]
<1>1. /\ Turn(w, "QUIT") /\ wins' = [wins EXCEPT ![w] = x]
      /\ UNCHANGED <<disk, running, appVars, wizards, bar, crashed, acts, hasty, torn, pastVars>>
  BY DEF Quit, Becomes
<1>2. Handled(w) \in Windows(bar.view) /\ Handled(w).profile = wins[w].profile
  BY <1>1, WinTurn
<1>3. x \in Windows(bar.view) /\ x.profile = wins[w].profile
  <2>1. <<>> \in Seq(WinMessages)
    BY EmptySeq
  <2> QED BY <1>2, <2>1 DEF Windows
<1> HIDE DEF x
<1>4. lost' \in BOOLEAN
  BY DEF Quit
<1>5. HistOk' /\ unnamed' = unnamed
  BY <1>1, <1>4, HistSteps DEF IInv, HistOk, pastVars
<1> QED BY <1>1, <1>3, <1>5, WinQuietOk DEF appVars

\* NetworkHandler: the window is sent what its session has heard.
LEMMA HandlerPostsInv == ASSUME IInv, NEW w \in 1..Len(wins), HandlerPosts(w) PROVE IInv'
<1>1. /\ acts < MaxActs /\ acts' = acts + 1
      /\ UNCHANGED <<disk, running, appVars, wizards, bar, crashed, hasty, lost, torn,
                     forced, shortcut, abandoned, unnamed, late>>
  BY DEF HandlerPosts, Acts, pastVars
<1>2. HistOk'
  <2>1. acts' \in 0..MaxActs
    BY <1>1, AppShellAssumption DEF IInv, HistOk
  <2> QED BY <1>1, <2>1 DEF IInv, HistOk
<1>3. wins[w] \in Windows(bar.view)
  BY ElementOfSeq DEF IInv, WinsOk
<1>4. /\ Msg("NEWS") \in WinMessages /\ [what |-> "DROPPED", status |-> "notavail"] \in WinMessages
      /\ Report(wins[w].status) \in WinMessages /\ {wins[w].status, "notavail"} \subseteq Statuses
  <2>1. Msg("NEWS") \in WinMessages
    BY PlainWin
  <2> QED BY <1>3, <2>1 DEF WinMessages, Windows, Statuses, Report
<1>5. ASSUME NEW x \in Windows(bar.view), x.profile = wins[w].profile, Becomes(w, x) PROVE IInv'
  BY <1>1, <1>2, <1>5, WinQuietOk DEF appVars, Becomes
<1>6. PICK s \in {wins[w].status, "notavail"} :
        \/ Becomes(w, [wins[w] EXCEPT !.status = s, !.queue = Append(@, Msg("NEWS"))])
        \/ Becomes(w, [wins[w] EXCEPT !.told = wins[w].status,
                                      !.queue = @ \o <<Msg("NEWS"), Report(wins[w].status)>>])
        \/ Becomes(w, [wins[w] EXCEPT !.status = s,
                                      !.queue = Append(@, [what |-> "DROPPED", status |-> "notavail"])])
  BY DEF HandlerPosts
<1> DEFINE news == <<Msg("NEWS"), Report(wins[w].status)>>
           q1 == Append(wins[w].queue, Msg("NEWS"))
           q2 == wins[w].queue \o news
           q3 == Append(wins[w].queue, [what |-> "DROPPED", status |-> "notavail"])
<1>7. q1 \in Seq(WinMessages) /\ q2 \in Seq(WinMessages) /\ q3 \in Seq(WinMessages)
  <2>1. news \in Seq(WinMessages)
    BY <1>4
  <2>2. wins[w].queue \in Seq(WinMessages)
    BY <1>3 DEF Windows
  <2> HIDE DEF news
  <2> QED BY <1>4, <2>1, <2>2, AppendProperties, ConcatProperties
<1> DEFINE x1 == [wins[w] EXCEPT !.status = s, !.queue = q1]
           x2 == [wins[w] EXCEPT !.told = wins[w].status, !.queue = q2]
           x3 == [wins[w] EXCEPT !.status = s, !.queue = q3]
<1>8. Becomes(w, x1) \/ Becomes(w, x2) \/ Becomes(w, x3)
  BY <1>6
<1> HIDE DEF q1, q2, q3
<1>9. \A x \in {x1, x2, x3} : x \in Windows(bar.view) /\ x.profile = wins[w].profile
  <2>1. s \in Statuses
    BY <1>4
  <2> QED BY <1>3, <1>7, <2>1 DEF Windows
<1> HIDE DEF x1, x2, x3
<1> QED BY <1>5, <1>8, <1>9

-------------------------------------------------------------------------------
(***************************************************************************)
(* Deskbar, the user and the system.                                       *)
(***************************************************************************)
\* Deskbar, the user and the wizards leave the windows alone; what reaches BeGadu
\* is a message that fits.
LEMMA OutsideOk ==
    ASSUME IInv, Grows, DiskOk', HistOk',
           UNCHANGED <<running, iWindow, iLastProfile, iFirstRun, iMessenger, waits, wins>>,
           wizards' = wizards \/ wizards' \in Seq(Wizards'),
           appQ' = appQ \/ \E m \in Fitting' : appQ' = Append(appQ, m)
    PROVE  IInv'
<1>1. WinsOk' /\ Stays /\ NoneOpens
  BY WinsSame
<1>2. AppOk'
  BY AppKeeps
<1>3. QueueOk' /\ WaitOk' /\ LastOk'
  BY <1>1, QueueGrows, WaitSame, LastSame DEF IInv, QueueOk
<1> QED BY <1>1, <1>2, <1>3 DEF IInv, Grows

\* BGDeskbar: it attaches, or handles a message.
LEMMA BarInv == IInv /\ BarStep => IInv'
<1> SUFFICES ASSUME IInv, BarStep PROVE IInv'
  OBVIOUS
<1>1. bar \in Bars /\ bar.view \in Nat
  BY DEF IInv, Bars
<1>2. /\ UNCHANGED <<disk, running, iWindow, iLastProfile, iFirstRun, iMessenger, waits, wins, wizards,
                     crashed, histVars>>
  BY DEF BarStep, BarAttaches, BarReceives, appVars
<1>3. HistOk'
  BY <1>2, HistSame DEF IInv, HistOk
<1>4. CASE BarAttaches
  <2>1. bar' \in Bars /\ bar'.view = bar.view
    BY <1>1, <1>4 DEF BarAttaches, Bars
  <2>2. [what |-> "ADD_MESSENGER", view |-> bar.view] \in Fitting'
    BY <1>1, <2>1 DEF Fitting, AppMessages
  <2>3. appQ' = appQ \/ \E m \in Fitting' : appQ' = Append(appQ, m)
    BY <1>4, <2>2 DEF BarAttaches, ToApp
  <2> QED BY <1>1, <1>2, <1>3, <2>1, <2>3, QuietDisk, OutsideOk
<1>5. CASE BarReceives
  <2> DEFINE m == Head(bar.queue)  rest == [bar EXCEPT !.queue = Tail(@)]
  <2>1. m \in BarMessages /\ Tail(bar.queue) \in Seq(BarMessages)
    BY <1>1, <1>5, HeadTailProperties DEF BarReceives, Bars
  <2>2. rest \in Bars /\ rest.view = bar.view
    BY <1>1, <2>1 DEF Bars
  <2>3. bar' = IF m.what = "CHSTATE" THEN [rest EXCEPT !.icon = m.status]
               ELSE [rest EXCEPT !.selected = m.what = "PROFILE_SELECTED"]
    BY <1>5 DEF BarReceives
  <2>4. m.what = "CHSTATE" => m.status \in Statuses
    BY <2>1 DEF BarMessages
  <2> HIDE DEF m, rest
  <2>5. bar' \in Bars /\ bar'.view = bar.view
    <3>1. CASE m.what = "CHSTATE"
      BY <2>2, <2>3, <2>4, <3>1 DEF Bars
    <3>2. CASE m.what # "CHSTATE"
      <4>1. \E b \in BOOLEAN : bar' = [rest EXCEPT !.selected = b]
        BY <2>3, <3>2
      <4> QED BY <2>2, <4>1 DEF Bars
    <3> QED BY <3>1, <3>2
  <2>6. appQ' = appQ
    BY <1>5 DEF BarReceives, appVars
  <2> QED BY <1>1, <1>2, <1>3, <2>5, <2>6, QuietDisk, OutsideOk
<1> QED BY <1>4, <1>5 DEF BarStep

\* BeGadu::BeGadu: the run begins with what Config says.
LEMMA BeginsOk ==
    ASSUME IInv, ~running, Begins, HistOk', bar' \in Bars, bar.view <= bar'.view,
           UNCHANGED <<disk, wins, wizards, unnamed, torn>>
    PROVE  IInv'
<1>1. /\ running' = TRUE /\ iFirstRun' = disk.config.first /\ iLastProfile' = disk.config.last
      /\ UNCHANGED <<iWindow, iMessenger, waits>> /\ wins = <<>>
      /\ appQ' = <<Msg(IF disk.config.first THEN "OPEN_PROFILE_WIZARD" ELSE "CONFIG_OK")>>
  BY DEF Begins, IInv, AppOk
<1>2. Grows /\ DiskOk'
  BY DiskSame
<1>3. disk.config \in Configs /\ (~disk.config.first => disk.config.last \in Known)
  BY DEF IInv, DiskOk, Disks
<1>4. WinsOk' /\ Stays /\ LastOk'
  BY <1>1 DEF WinsOk, Stays, LastOk
<1>5. AppOk'
  <2>1. iMessenger' \in 0..bar'.view
    BY <1>1 DEF IInv, AppOk, Bars
  <2>2. running' \in BOOLEAN /\ iFirstRun' \in BOOLEAN
    BY <1>1, <1>3 DEF Configs
  <2>3. iLastProfile' \in Names /\ (~iFirstRun' => iLastProfile' \in Known')
    BY <1>1, <1>2, <1>3, NamesGrow DEF Configs
  <2>4. wizards' \in Seq(Wizards')
    BY <1>2, NamesGrow
  <2> QED BY <1>1, <2>1, <2>2, <2>3, <2>4 DEF IInv, AppOk
<1>6. QueueOk'
  <2>1. \E m \in Fitting' : appQ' = <<m>>
    BY <1>1, Plain
  <2> QED BY <2>1 DEF QueueOk
<1>7. WaitOk'
  BY <1>1, <1>4, WaitSame
<1> QED BY <1>2, <1>4, <1>5, <1>6, <1>7 DEF IInv

\* An act more, within the bound.
LEMMA ActsOk ==
    ASSUME IInv, acts < MaxActs, acts' = acts + 1, crashed' \in BOOLEAN, hasty' \in BOOLEAN,
           lost' \in BOOLEAN, torn' \in BOOLEAN, forced' \in BOOLEAN, shortcut' \in BOOLEAN,
           abandoned' \in BOOLEAN, unnamed' \in BOOLEAN, late' = late
    PROVE  HistOk'
<1>1. acts' \in 0..MaxActs
  BY AppShellAssumption DEF IInv, HistOk
<1> QED BY <1>1 DEF IInv, HistOk

\* What the user does counts, and may come before the last act has had its effects.
LEMMA UserActsOk ==
    ASSUME IInv, UserActs, UNCHANGED <<crashed, lost, torn, forced, late>>,
           shortcut' \in {shortcut, TRUE}, abandoned' \in {abandoned, TRUE},
           unnamed' \in BOOLEAN
    PROVE  HistOk'
<1>1. hasty' \in BOOLEAN
  BY DEF UserActs
<1>2. acts < MaxActs /\ acts' = acts + 1
  BY DEF UserActs, Acts
<1> QED BY <1>1, <1>2, ActsOk DEF IInv, HistOk

\* The program is started, or Deskbar starts again and starts it.
LEMMA StartsInv == IInv /\ (Start \/ DeskbarRestarts) => IInv'
<1> SUFFICES ASSUME IInv, Start \/ DeskbarRestarts PROVE IInv'
  OBVIOUS
<1>1. bar \in Bars /\ bar.view \in Nat
  BY DEF IInv, Bars
<1>2. /\ UNCHANGED <<disk, wins, wizards, crashed, hasty, lost, torn>> /\ Acts
      /\ UNCHANGED <<forced, shortcut, abandoned, unnamed, late>>
  BY DEF Start, DeskbarRestarts, pastVars
<1>3. HistOk'
  BY <1>2, ActsOk DEF Acts, IInv, HistOk
<1>4. CASE Start
  BY <1>1, <1>2, <1>3, <1>4, BeginsOk DEF Start
<1>5. CASE DeskbarRestarts
  <2>1. bar' = [item |-> TRUE, view |-> bar.view + 1, attached |-> FALSE, selected |-> FALSE,
                icon |-> "notavail", queue |-> <<>>]
    BY <1>5 DEF DeskbarRestarts, NoIcon
  <2>2. bar' \in Bars /\ bar.view <= bar'.view
    BY <1>1, <2>1 DEF Bars, Statuses
  <2>3. CASE ~running
    BY <1>2, <1>3, <1>5, <2>2, <2>3, BeginsOk DEF DeskbarRestarts
  <2>4. CASE running
    <3>1. UNCHANGED <<running, appVars>>
      BY <1>5, <2>4 DEF DeskbarRestarts
    <3>2. Grows /\ DiskOk'
      BY <1>2, <2>2, DiskSame
    <3> QED BY <1>2, <1>3, <3>1, <3>2, OutsideOk DEF appVars
  <2> QED BY <2>3, <2>4 DEF IInv, AppOk
<1> QED BY <1>4, <1>5

\* The menus of a window, and what is edited in it.
LEMMA WindowUserInv == ASSUME IInv, NEW w \in 1..Len(wins), UserPicks(w) \/ UserEdits(w) PROVE IInv'
<1>1. /\ UserActs /\ UNCHANGED <<disk, running, appVars, wizards, bar, crashed, lost, torn>>
      /\ UNCHANGED <<forced, shortcut, abandoned, unnamed, late>>
  BY DEF UserPicks, UserEdits, pastVars
<1>2. HistOk'
  BY <1>1, UserActsOk DEF IInv, HistOk
<1>3. wins[w] \in Windows(bar.view)
  BY ElementOfSeq DEF IInv, WinsOk
<1>4. CASE UserPicks(w)
  <2>1. PICK m \in {Msg("BEGG_QUIT"), Msg("OPEN_PROFILE_WIZARD")}
                    \cup {[what |-> "SET", status |-> s] : s \in Statuses}
                    \cup {[what |-> "PROFILE_SWITCH", name |-> p] : p \in {p \in Profiles : File(p) # "none"}} :
               wins' = [wins EXCEPT ![w].queue = Append(@, m)]
    BY <1>4 DEF UserPicks
  <2>2. m \in WinMessages
    <3>2. Msg("BEGG_QUIT") \in WinMessages /\ Msg("OPEN_PROFILE_WIZARD") \in WinMessages
      BY PlainWin
    <3>3. \A s \in Statuses : [what |-> "SET", status |-> s] \in WinMessages
      BY DEF WinMessages
    <3>4. \A p \in Profiles : [what |-> "PROFILE_SWITCH", name |-> p] \in WinMessages
      BY DEF WinMessages
    <3> QED BY <3>2, <3>3, <3>4
  <2> DEFINE x == [wins[w] EXCEPT !.queue = Append(wins[w].queue, m)]
  <2>3. Append(wins[w].queue, m) \in Seq(WinMessages)
    BY <1>3, <2>2, AppendProperties DEF Windows
  <2>4. x \in Windows(bar.view) /\ x.profile = wins[w].profile
    BY <1>3, <2>3 DEF Windows
  <2>5. wins' = [wins EXCEPT ![w] = x]
    BY <2>1
  <2> HIDE DEF x
  <2> QED BY <1>1, <1>2, <2>4, <2>5, WinQuietOk DEF appVars
<1>5. CASE UserEdits(w)
  <2> DEFINE x == [wins[w] EXCEPT !.saved = FALSE]
  <2>1. x \in Windows(bar.view) /\ x.profile = wins[w].profile
    BY <1>3 DEF Windows
  <2>2. wins' = [wins EXCEPT ![w] = x]
    BY <1>5 DEF UserEdits
  <2> HIDE DEF x
  <2> QED BY <1>1, <1>2, <2>1, <2>2, WinQuietOk DEF appVars
<1> QED BY <1>4, <1>5

\* A click on the icon, Ctrl+Q, or the system's wish to end the program.
LEMMA ClicksInv == IInv /\ (UserClicks \/ UserQuits \/ SystemQuits) => IInv'
<1> SUFFICES ASSUME IInv, UserClicks \/ UserQuits \/ SystemQuits PROVE IInv'
  OBVIOUS
<1>1. /\ UNCHANGED <<disk, running, iWindow, iLastProfile, iFirstRun, iMessenger, waits, wins, wizards,
                     bar, crashed, lost, torn, abandoned, unnamed, late>>
      /\ bar' \in Bars /\ bar.view <= bar'.view
  BY DEF UserClicks, UserQuits, SystemQuits, pastVars, IInv, Bars
<1>2. Grows /\ DiskOk'
  BY <1>1, DiskSame
<1>3. HistOk'
  <2>1. CASE UserClicks
    BY <1>1, <2>1, UserActsOk DEF UserClicks, pastVars, IInv, HistOk
  <2>2. CASE UserQuits
    BY <1>1, <2>2, UserActsOk DEF UserQuits, IInv, HistOk
  <2>3. CASE SystemQuits
    BY <1>1, <2>3, ActsOk DEF SystemQuits, Acts, IInv, HistOk
  <2> QED BY <2>1, <2>2, <2>3
<1>4. appQ' = appQ \/ \E m \in Fitting' : appQ' = Append(appQ, m)
  <2>1. CASE UserClicks
    <3>1. PICK m \in {Msg("SHOW"), Msg("BEGG_QUIT")}
                      \cup (IF bar.selected THEN {[what |-> "SET", status |-> s] : s \in Statuses}
                            ELSE {Msg("PROFILE_SELECT")}) : ToApp(m)
      BY <2>1 DEF UserClicks
    <3>2. \A s \in Statuses : [what |-> "SET", status |-> s] \in Fitting'
      BY DEF Fitting, AppMessages
    <3>3. m \in Fitting'
      BY <3>1, <3>2, Plain
    <3> QED BY <3>1, <3>3 DEF ToApp
  <2>2. CASE UserQuits
    BY <2>2, Plain DEF UserQuits, ToApp
  <2>3. CASE SystemQuits
    BY <2>3, Plain DEF SystemQuits
  <2> QED BY <2>1, <2>2, <2>3
<1> QED BY <1>1, <1>2, <1>3, <1>4, OutsideOk

\* The process is killed between two steps.
LEMMA KilledInv == IInv /\ Killed => IInv'
<1> SUFFICES ASSUME IInv, Killed PROVE IInv'
  OBVIOUS
<1>1. /\ acts < MaxActs /\ acts' = acts + 1 /\ forced' = TRUE /\ Ends
      /\ UNCHANGED <<disk, bar, hasty, shortcut, abandoned, unnamed, late>>
  BY DEF Killed
<1>2. bar' \in Bars /\ bar.view <= bar'.view
  BY <1>1 DEF IInv, Bars
<1>3. HistOk'
  BY <1>1, <1>2, EndsOk, ActsOk DEF IInv, HistOk
<1>4. DiskOk'
  BY <1>1, <1>2, EndsOk, DiskSame
<1> QED BY <1>1, <1>2, <1>3, <1>4, EndsOk DEF IInv

\* The wizards that are open.
LEMMA Pages ==
    ASSUME IInv, NEW k \in DOMAIN wizards
    PROVE  /\ Len(wizards) \in Nat /\ k \in 1..Len(wizards) /\ wizards[k] \in Wizards
           /\ \A j \in 1..Len(wizards) : wizards[j] \in Wizards
<1>1. wizards \in Seq(Wizards)
  BY DEF IInv, AppOk
<1> QED BY <1>1, LenProperties, ElementOfSeq

\* A wizard changes.
LEMMA WizardChanges ==
    ASSUME IInv, Grows, NEW k \in DOMAIN wizards, NEW x \in Wizards', wizards' = [wizards EXCEPT ![k] = x]
    PROVE  wizards' \in Seq(Wizards')
<1>1. wizards \in Seq(Wizards') /\ k \in 1..Len(wizards)
  BY NamesGrow, Pages
<1> QED BY <1>1, ExceptSeq

\* A wizard closes.
LEMMA ClosesOk ==
    ASSUME IInv, Grows, NEW k \in DOMAIN wizards, Closes(k) PROVE wizards' \in Seq(Wizards')
<1>1. Len(wizards) - 1 \in Nat /\ \A j \in 1..Len(wizards) : wizards[j] \in Wizards'
  BY Pages, NamesGrow
<1>2. \A j \in 1..(Len(wizards) - 1) : wizards[IF j < k THEN j ELSE j + 1] \in Wizards'
  BY <1>1, Pages
<1>3. wizards' \in [1..(Len(wizards) - 1) -> Wizards']
  BY <1>2 DEF Closes
<1> QED BY <1>1, <1>3, SeqDef

\* The user turns the pages of a wizard, or enters a name.
LEMMA WizardTurnsInv ==
    ASSUME IInv, NEW k \in DOMAIN wizards, WizardTurns(k) \/ WizardNames(k) PROVE IInv'
<1>1. /\ UNCHANGED <<disk, running, appVars, wins, bar, crashed, lost, torn,
                     forced, shortcut, abandoned, late>>
      /\ bar' \in Bars /\ bar.view <= bar'.view
  <2>1. CASE WizardTurns(k)
    BY <2>1 DEF WizardTurns, histVars, pastVars, IInv, Bars
  <2>2. CASE WizardNames(k)
    <3>1. UNCHANGED <<disk, running, appVars, wins, bar, crashed, lost, torn,
                      forced, shortcut, abandoned, late>>
      BY <2>2, Zenon DEF WizardNames
    <3> QED BY <3>1 DEF IInv, Bars
  <2> QED BY <2>1, <2>2
<1>2. wizards[k] \in Wizards
  BY Pages
<1>3. CASE WizardTurns(k)
  <2>1. PICK page \in {wizards[k].page - 1, wizards[k].page + 1} \cap 1..3 :
          wizards' = [wizards EXCEPT ![k].page = page]
    BY <1>3 DEF WizardTurns
  <2>2. wizards[k].page # 4 /\ UNCHANGED histVars
    BY <1>3 DEF WizardTurns
  <2> DEFINE x == [wizards[k] EXCEPT !.page = page]
  <2>3. wizards' = [wizards EXCEPT ![k] = x]
    BY <2>1
  <2>4. page \in 1..4 /\ page # 4
    BY <2>1
  <2>5. x \in Wizards'
    BY <1>2, <2>2, <2>4 DEF Wizards
  <2> HIDE DEF x
  <2>6. Grows /\ DiskOk' /\ HistOk'
    BY <1>1, <2>2, QuietDisk, HistSame DEF IInv, HistOk
  <2> QED BY <1>1, <2>3, <2>5, <2>6, WizardChanges, OutsideOk DEF appVars
<1>4. CASE WizardNames(k)
  <2>1. PICK name \in Names :
          /\ wizards' = [wizards EXCEPT ![k].page = 4, ![k].name = name]
          /\ unnamed' = (unnamed \/ name = NoName)
    BY <1>4 DEF WizardNames, Names
  <2> DEFINE x == [wizards[k] EXCEPT !.page = 4, !.name = name]
  <2>2. wizards' = [wizards EXCEPT ![k] = x]
    BY <2>1
  <2>3. x \in Wizards'
    <3>1. wizards[k] \in [page : 1..4, name : Names, saves : Phases]
      BY <1>2 DEF Wizards
    <3>2. x \in [page : 1..4, name : Names, saves : Phases] /\ x.page = 4 /\ x.name = name
      BY <2>1, <3>1
    <3>3. name = NoName => unnamed'
      BY <2>1
    <3> HIDE DEF x
    <3> QED BY <3>2, <3>3 DEF Wizards
  <2> HIDE DEF x
  <2>4. unnamed' \in BOOLEAN /\ (unnamed => unnamed')
    BY <2>1 DEF IInv, HistOk
  <2>5. Grows /\ DiskOk'
    BY <1>1, <2>4, DiskSame
  <2>6. HistOk'
    BY <1>1, <1>4, <2>4, UserActsOk DEF WizardNames
  <2> QED BY <1>1, <2>2, <2>3, <2>5, <2>6, WizardChanges, OutsideOk DEF appVars
<1> QED BY <1>3, <1>4

\* A wizard saves: the profile has no password.
LEMMA WizardSavesInv ==
    ASSUME IInv, NEW k \in DOMAIN wizards, WizardSaves(k) \/ WizardFinishes(k) PROVE IInv'
<1>1. /\ UNCHANGED <<running, iWindow, iLastProfile, iFirstRun, iMessenger, waits, wins, bar,
                     crashed, histVars>>
      /\ bar' \in Bars /\ bar.view <= bar'.view /\ unnamed' = unnamed /\ torn' = torn
  BY DEF WizardSaves, WizardFinishes, appVars, histVars, pastVars, IInv, Bars
<1>2. wizards[k] \in Wizards /\ wizards[k].name \in Names /\ wizards[k].page = 4
  BY Pages DEF Wizards, WizardSaves, WizardFinishes
<1>3. HistOk'
  BY <1>1, HistSame DEF IInv, HistOk
<1>4. CASE WizardSaves(k)
  <2> DEFINE x == [wizards[k] EXCEPT !.saves = Phase(wizards[k].name)]
  <2>1. Touches(wizards[k].name) /\ wizards' = [wizards EXCEPT ![k] = x] /\ appQ' = appQ
    BY <1>4 DEF WizardSaves, appVars
  <2>2. Grows /\ DiskOk' /\ Phase(wizards[k].name) \in Phases
    BY <1>1, <1>2, <2>1, TouchesOk
  <2>3. x \in Wizards'
    BY <1>1, <1>2, <2>2 DEF Wizards
  <2> HIDE DEF x
  <2> QED BY <1>1, <1>3, <2>1, <2>2, <2>3, WizardChanges, OutsideOk
<1>5. CASE WizardFinishes(k)
  <2> DEFINE name == wizards[k].name
  <2>1. With(name, "plain") /\ ToApp([what |-> "PROFILE_CREATED", name |-> name]) /\ Closes(k)
    BY <1>5 DEF WizardFinishes
  <2>2. Grows /\ DiskOk' /\ \A n \in Names : File(n)' = IF n = name /\ n # NoName THEN "plain" ELSE File(n)
    BY <1>1, <1>2, <2>1, SaveOk
  <2>3. name \in Known' \cap Unprotected'
    <3>1. CASE name = NoName
      <4>1. unnamed'
        BY <1>1, <1>2, <3>1 DEF Wizards
      <4> QED BY <1>2, <3>1, <4>1 DEF Known, Excused, Unprotected, File
    <3>2. CASE name # NoName
      BY <1>2, <2>2, <3>2 DEF Known, Unprotected
    <3> QED BY <3>1, <3>2
  <2>4. [what |-> "PROFILE_CREATED", name |-> name] \in Fitting'
    BY <1>2, <2>3 DEF Fitting, AppMessages
  <2>5. appQ' = appQ \/ \E m \in Fitting' : appQ' = Append(appQ, m)
    BY <2>1, <2>4 DEF ToApp
  <2> QED BY <1>1, <1>3, <2>1, <2>2, <2>5, ClosesOk, OutsideOk
<1> QED BY <1>4, <1>5

\* A wizard is cancelled or closed.
LEMMA WizardGoesInv ==
    ASSUME IInv, NEW k \in DOMAIN wizards, WizardCancelled(k) \/ WizardClosed(k) PROVE IInv'
<1>1. /\ UNCHANGED <<disk, running, iWindow, iLastProfile, iFirstRun, iMessenger, waits, wins, bar,
                     crashed, lost, torn, forced, shortcut, unnamed, late>>
      /\ bar' \in Bars /\ bar.view <= bar'.view /\ UserActs /\ Closes(k)
      /\ abandoned' \in {abandoned, TRUE}
      /\ appQ' = appQ \/ ToApp(Msg("PROFILE_SELECT"))
  <2>1. CASE WizardCancelled(k)
    BY <2>1 DEF WizardCancelled, pastVars, IInv, Bars
  <2>2. CASE WizardClosed(k)
    BY <2>2 DEF WizardClosed, appVars, IInv, Bars
  <2> QED BY <2>1, <2>2
<1>2. Grows /\ DiskOk'
  BY <1>1, DiskSame
<1>3. HistOk'
  BY <1>1, UserActsOk DEF IInv, HistOk
<1>4. appQ' = appQ \/ \E m \in Fitting' : appQ' = Append(appQ, m)
  BY <1>1, Plain DEF ToApp
<1> QED BY <1>1, <1>2, <1>3, <1>4, ClosesOk, OutsideOk

\* A stuttering step.
LEMMA StutterOk == IInv /\ UNCHANGED vars => IInv'
<1> SUFFICES ASSUME IInv, UNCHANGED vars PROVE IInv'
  OBVIOUS
<1>1. /\ UNCHANGED <<disk, running, appQ, iWindow, iLastProfile, iFirstRun, iMessenger, waits, wins,
                     wizards, bar, crashed, histVars>>
      /\ bar' \in Bars /\ bar.view <= bar'.view
  BY DEF vars, appVars, IInv, Bars
<1>2. HistOk' /\ Grows /\ DiskOk'
  BY <1>1, HistSame, QuietDisk DEF IInv, HistOk
<1> QED BY <1>1, <1>2, OutsideOk

(***************************************************************************)
(* The invariant holds across any number of runs, windows and profiles.    *)
(***************************************************************************)
LEMMA StepInv == IInv /\ [Next]_vars => IInv'
<1> SUFFICES ASSUME IInv, [Next]_vars PROVE IInv'
  OBVIOUS
<1>1. CASE AppStep
  BY <1>1, AddMessengerInv, ForwardInv, OpenProfileWizardInv, ConfigOkInv, ProfileCreatedInv,
     ProfileSelectInv, ProfileSwitchInv, BeggQuitInv, QuitRequestedInv, AsksToQuitInv, WindowEndedInv,
     ConfigWrittenInv
  DEF AppStep
<1>2. CASE BarStep
  BY <1>2, BarInv
<1>3. DOMAIN wins = 1..Len(wins)
  BY LenProperties DEF IInv, WinsOk
<1>4. ASSUME NEW w \in DOMAIN wins, WindowStep(w) PROVE IInv'
  BY <1>3, <1>4, SetStatusInv, UpdatesInv, TellDeskbarInv, TellAppInv, ShowInv, SavesProfileInv, CloseInv,
     QuitProgramInv, QuitInv
  DEF WindowStep
<1>5. CASE WizardStep
  BY <1>5, WizardSavesInv DEF WizardStep
<1>6. CASE Environment
  <2>1. ASSUME NEW w \in DOMAIN wins, UserPicks(w) \/ UserEdits(w) \/ HandlerPosts(w) PROVE IInv'
    BY <1>3, <2>1, WindowUserInv, HandlerPostsInv
  <2>2. ASSUME NEW k \in DOMAIN wizards,
               WizardTurns(k) \/ WizardNames(k) \/ WizardCancelled(k) \/ WizardClosed(k)
        PROVE  IInv'
    BY <2>2, WizardTurnsInv, WizardGoesInv
  <2> QED BY <1>6, <2>1, <2>2, StartsInv, ClicksInv, KilledInv DEF Environment
<1>7. CASE UNCHANGED vars
  BY <1>7, StutterOk
<1> QED BY <1>1, <1>2, <1>4, <1>5, <1>6, <1>7 DEF Next

THEOREM Invariance == Spec => []IInv
BY InitInv, StepInv, PTL DEF Spec

\* The program, its windows, Deskbar and the files keep their types.
THEOREM TypeCorrect == Spec => []TypeOK
<1>1. ASSUME IInv PROVE TypeOK
  <2>1. disk \in [files : [Profiles -> Files], config : [first : BOOLEAN, last : Names]]
    BY <1>1 DEF IInv, DiskOk, Disks, Configs
  <2>2. {running, iFirstRun, crashed, hasty, lost, forced, shortcut, abandoned, unnamed, torn, late}
           \subseteq BOOLEAN
    BY <1>1 DEF IInv, AppOk, HistOk
  <2>3. appQ \in Seq(AppMessages)
    <3>1. Fitting \subseteq AppMessages
      BY DEF Fitting
    <3> QED BY <1>1, <3>1, SeqMonotonic DEF IInv, QueueOk
  <2>4. wizards \in Seq([page : 1..4, name : Names, saves : Phases])
    <3>1. Wizards \subseteq [page : 1..4, name : Names, saves : Phases]
      BY DEF Wizards
    <3> QED BY <1>1, <3>1, SeqMonotonic DEF IInv, AppOk
  <2>5. wins \in Seq([alive : BOOLEAN, profile : Names, password : BOOLEAN, network : BOOLEAN,
                      messenger : 0..bar.view, status : Statuses, told : Statuses \cup {None},
                      queue : Seq(WinMessages), saves : Phases, saved : BOOLEAN])
    <3>1. Windows(bar.view) \subseteq
            [alive : BOOLEAN, profile : Names, password : BOOLEAN, network : BOOLEAN,
             messenger : 0..bar.view, status : Statuses, told : Statuses \cup {None},
             queue : Seq(WinMessages), saves : Phases, saved : BOOLEAN]
      BY DEF Windows
    <3>2. wins \in Seq(Windows(bar.view))
      BY <1>1 DEF IInv, WinsOk
    <3> QED BY <3>1, <3>2, SeqMonotonic
  <2> QED BY <1>1, <2>1, <2>2, <2>3, <2>4, <2>5 DEF TypeOK, IInv, AppOk, HistOk, Bars
<1> QED BY <1>1, Invariance, PTL

\* CONFIG_OK, PROFILE_SWITCH, PROFILE_CREATED: however profiles are made and
\* switched, no window is opened for one that has a password.
THEOREM NeverOpened == Spec => []ProtectedStaysShut
<1>1. ASSUME IInv PROVE ProtectedStaysShut
  <2>1. DOMAIN wins = 1..Len(wins) /\ \A w \in 1..Len(wins) : wins[w] \in Windows(bar.view)
    BY <1>1, LenProperties, ElementOfSeq DEF IInv, WinsOk
  <2> QED BY <2>1 DEF ProtectedStaysShut, Windows
<1> QED BY <1>1, Invariance, PTL

\* QuitRequested: wherever a run is cut, Config names no profile or one that is there,
\* unless a profile has been cut or made without a name before.
THEOREM ConfigIsSound == Spec => []LastProfileLoads
<1>1. IInv => LastProfileLoads
  BY DEF IInv, DiskOk, LastProfileLoads, Known, Excused
<1> QED BY <1>1, Invariance, PTL

-------------------------------------------------------------------------------
(***************************************************************************)
(* Profiles that are being written.  Whoever has begun Profile::Save goes  *)
(* on with it: a window that saves still has the message that made it save *)
(* at the head of its queue, and a wizard is on its last page.             *)
(***************************************************************************)
Saver(x) == x.alive /\ x.saves # "idle"
Ready(x) == x.queue # <<>> /\ Head(x.queue).what \in {"CLOSE", "BEGG_QUIT"}
SaversOk == \A w \in 1..Len(wins) : Saver(wins[w]) => Ready(wins[w])
TornInv == TornIsKnown /\ SaversOk

\* Nobody stops saving.
WinsKeep ==
    \A w \in 1..Len(wins) : Saver(wins[w]) =>
        w \in 1..Len(wins') /\ Saver(wins'[w]) /\ wins'[w].profile = wins[w].profile
WizardsKeep ==
    \A k \in 1..Len(wizards) : wizards[k].saves # "idle" =>
        \E j \in 1..Len(wizards') : wizards'[j].saves # "idle" /\ wizards'[j].name = wizards[k].name

\* The windows and the wizards are those that the lists have.
LEMMA Domains ==
    ASSUME IInv
    PROVE  /\ DOMAIN wins = 1..Len(wins) /\ Len(wins) \in Nat
           /\ DOMAIN wizards = 1..Len(wizards) /\ Len(wizards) \in Nat
           /\ NoWindow \notin 1..Len(wins)
BY LenProperties DEF IInv, WinsOk, AppOk, NoWindow

\* Who saves a profile.
LEMMA SavingIs ==
    ASSUME IInv, NEW p
    PROVE  Saving(p) = (\/ \E w \in 1..Len(wins) : Saver(wins[w]) /\ wins[w].profile = p
                        \/ \E k \in 1..Len(wizards) : wizards[k].saves # "idle" /\ wizards[k].name = p)
BY Domains DEF Saving, Saver, Alive

\* The same, after a step.
LEMMA SavingWillBe ==
    ASSUME IInv', NEW p
    PROVE  Saving(p)' = (\/ \E w \in 1..Len(wins') : Saver(wins'[w]) /\ wins'[w].profile = p
                         \/ \E k \in 1..Len(wizards') : wizards'[k].saves # "idle" /\ wizards'[k].name = p)
<1>1. /\ DOMAIN wins' = 1..Len(wins') /\ DOMAIN wizards' = 1..Len(wizards')
      /\ NoWindow \notin 1..Len(wins')
  BY LenProperties DEF IInv, WinsOk, AppOk, NoWindow
<1> QED BY <1>1 DEF Saving, Saver, Alive

\* No file changes, and nobody stops saving.
LEMMA TornKept ==
    ASSUME IInv, IInv', TornIsKnown, disk'.files = disk.files, torn => torn', WinsKeep, WizardsKeep
    PROVE  TornIsKnown'
<1> SUFFICES ASSUME NEW p \in Profiles, Torn(p)', ~torn' PROVE Saving(p)'
  BY DEF TornIsKnown
<1>1. Saving(p)
  BY DEF TornIsKnown, Torn, File
<1>2. CASE \E w \in 1..Len(wins) : Saver(wins[w]) /\ wins[w].profile = p
  <2>1. \E w \in 1..Len(wins') : Saver(wins'[w]) /\ wins'[w].profile = p
    BY <1>2 DEF WinsKeep
  <2> QED BY <2>1, SavingWillBe
<1>3. CASE \E k \in 1..Len(wizards) : wizards[k].saves # "idle" /\ wizards[k].name = p
  <2>1. \E k \in 1..Len(wizards') : wizards'[k].saves # "idle" /\ wizards'[k].name = p
    BY <1>3 DEF WizardsKeep
  <2> QED BY <2>1, SavingWillBe
<1> QED BY <1>1, <1>2, <1>3, SavingIs

\* One profile changes: it has its contents, or its writer is known.
LEMMA TornMoves ==
    ASSUME IInv, IInv', TornIsKnown, NEW p \in Names, torn => torn',
           \A n \in Profiles : n # p => File(n)' = File(n) /\ (Saving(n) => Saving(n)'),
           Saving(p)' \/ p = NoName \/ ~Torn(p)'
    PROVE  TornIsKnown'
<1>1. \A n \in Profiles : n # p /\ Torn(n)' => torn' \/ Saving(n)'
  BY DEF TornIsKnown, Torn
<1> QED BY <1>1, AppShellAssumption DEF TornIsKnown

LEMMA WizardsSame == wizards' = wizards => WizardsKeep
BY DEF WizardsKeep

LEMMA WinsNone == SaversOk /\ wins' = wins => SaversOk' /\ WinsKeep
BY DEF SaversOk, WinsKeep

\* A window changes.
LEMMA WinTouched ==
    ASSUME IInv, SaversOk, NEW w \in 1..Len(wins), NEW x, Saver(x) => Ready(x),
           Saver(wins[w]) => Saver(x) /\ x.profile = wins[w].profile,
           wins' = [wins EXCEPT ![w] = x]
    PROVE  SaversOk' /\ WinsKeep
<1>1. wins \in Seq(Windows(bar.view) \cup {x})
  BY SeqMonotonic DEF IInv, WinsOk
<1>2. Len(wins') = Len(wins) /\ \A v \in 1..Len(wins) : wins'[v] = IF v = w THEN x ELSE wins[v]
  BY <1>1, ExceptSeq
<1> QED BY <1>2 DEF SaversOk, WinsKeep

\* What is put behind a message leaves it where it is.
LEMMA HeadKept ==
    ASSUME NEW S, NEW q \in Seq(S), q # <<>>
    PROVE  /\ \A m \in S : Append(q, m) # <<>> /\ Head(Append(q, m)) = Head(q)
           /\ \A r \in Seq(S) : q \o r # <<>> /\ Head(q \o r) = Head(q)
<1>1. Len(q) \in Nat \ {0} /\ Head(q) = q[1]
  BY EmptySeq, LenProperties, HeadTailProperties
<1>2. ASSUME NEW m \in S PROVE Append(q, m) # <<>> /\ Head(Append(q, m)) = Head(q)
  <2>1. Append(q, m) \in Seq(S) /\ Append(q, m) # <<>> /\ Append(q, m)[1] = q[1]
    BY <1>1, AppendProperties
  <2> QED BY <1>1, <2>1, HeadTailProperties
<1>3. ASSUME NEW r \in Seq(S) PROVE q \o r # <<>> /\ Head(q \o r) = Head(q)
  <2>1. q \o r \in Seq(S) /\ Len(q \o r) = Len(q) + Len(r) /\ (q \o r)[1] = q[1] /\ Len(r) \in Nat
    BY <1>1, ConcatProperties, LenProperties
  <2>2. q \o r # <<>>
    BY <1>1, <2>1, EmptySeq
  <2> QED BY <1>1, <2>1, <2>2, HeadTailProperties
<1> QED BY <1>2, <1>3

\* A window is sent a message, or learns something.
LEMMA WinSent ==
    ASSUME IInv, SaversOk, NEW w \in 1..Len(wins), NEW x, wins' = [wins EXCEPT ![w] = x],
           x.alive = wins[w].alive, x.saves = wins[w].saves, x.profile = wins[w].profile,
           \/ x.queue = wins[w].queue
           \/ \E m \in WinMessages : x.queue = Append(wins[w].queue, m)
           \/ \E r \in Seq(WinMessages) : x.queue = wins[w].queue \o r
    PROVE  SaversOk' /\ WinsKeep
<1>1. wins[w].queue \in Seq(WinMessages)
  <2>1. wins[w] \in Windows(bar.view)
    BY ElementOfSeq DEF IInv, WinsOk
  <2> QED BY <2>1 DEF Windows
<1>2. Saver(x) = Saver(wins[w])
  BY DEF Saver
<1>3. ASSUME wins[w].queue # <<>> PROVE x.queue # <<>> /\ Head(x.queue) = Head(wins[w].queue)
  <2>1. /\ \A m \in WinMessages : LET q == Append(wins[w].queue, m) IN q # <<>> /\ Head(q) = Head(wins[w].queue)
        /\ \A r \in Seq(WinMessages) : LET q == wins[w].queue \o r IN q # <<>> /\ Head(q) = Head(wins[w].queue)
    BY <1>1, <1>3, HeadKept
  <2> QED BY <1>3, <2>1
<1>4. Ready(wins[w]) => Ready(x)
  BY <1>3 DEF Ready
<1> QED BY <1>2, <1>4, WinTouched DEF SaversOk

\* The same, for a message that BeGadu or the user sends.
LEMMA WinSentMsg ==
    ASSUME IInv, SaversOk, NEW w \in 1..Len(wins), NEW m \in WinMessages,
           wins' = [wins EXCEPT ![w].queue = Append(@, m)]
    PROVE  SaversOk' /\ WinsKeep
<1> DEFINE x == [wins[w] EXCEPT !.queue = Append(wins[w].queue, m)]
<1>1. wins[w] \in Windows(bar.view)
  BY ElementOfSeq DEF IInv, WinsOk
<1>2. /\ x.alive = wins[w].alive /\ x.saves = wins[w].saves /\ x.profile = wins[w].profile
      /\ x.queue = Append(wins[w].queue, m)
  BY <1>1 DEF Windows
<1>3. wins' = [wins EXCEPT ![w] = x]
  OBVIOUS
<1> HIDE DEF x
<1> QED BY <1>2, <1>3, WinSent

\* The window that handles something else does not save.
LEMMA NotSaver ==
    ASSUME IInv, SaversOk, NEW w \in 1..Len(wins), NEW what, what \notin {"CLOSE", "BEGG_QUIT"}, Turn(w, what)
    PROVE  ~Saver(wins[w]) /\ wins[w].saves = "idle" /\ Handled(w).saves = "idle"
<1>1. wins[w] \in Windows(bar.view) /\ W(w).what = what /\ wins[w].alive
  BY WinTurn DEF Turn, Alive
<1>2. ~Ready(wins[w])
  BY <1>1 DEF Ready, W
<1>3. Handled(w).saves = wins[w].saves
  BY <1>1 DEF Handled, Windows
<1> QED BY <1>1, <1>2, <1>3 DEF SaversOk, Saver

\* A window is opened, which does not save.
LEMMA OpenKeeps ==
    ASSUME IInv, SaversOk, NEW p, OpenWindow(p) PROVE SaversOk' /\ WinsKeep /\ torn' = (torn \/ Torn(p))
<1>1. PICK s \in Statuses, q \in {<<>>, <<Msg("UPDATE")>>} : wins' = Append(wins, Opened(p, s, q))
  BY DEF OpenWindow
<1> DEFINE x == Opened(p, s, q)
<1>2. x.saves = "idle"
  BY DEF Opened
<1> HIDE DEF x
<1>3. wins \in Seq(Windows(bar.view) \cup {x})
  BY SeqMonotonic DEF IInv, WinsOk
<1>4. /\ Len(wins') = Len(wins) + 1 /\ wins'[Len(wins) + 1] = x /\ Len(wins) \in Nat
      /\ \A w \in 1..Len(wins) : wins'[w] = wins[w]
  BY <1>1, <1>3, AppendProperties, LenProperties DEF x
<1> QED BY <1>2, <1>4 DEF SaversOk, WinsKeep, Saver, OpenWindow

\* A wizard more.
LEMMA WizardComes == IInv /\ NewWizard => WizardsKeep
<1> SUFFICES ASSUME IInv, NewWizard PROVE WizardsKeep
  OBVIOUS
<1> DEFINE x == [page |-> 1, name |-> NoName, saves |-> "idle"]
<1>1. wizards \in Seq(Wizards \cup {x}) /\ wizards' = Append(wizards, x)
  BY SeqMonotonic DEF IInv, AppOk, NewWizard
<1> HIDE DEF x
<1>2. /\ Len(wizards') = Len(wizards) + 1 /\ Len(wizards) \in Nat
      /\ \A k \in 1..Len(wizards) : wizards'[k] = wizards[k]
  BY <1>1, AppendProperties, LenProperties
<1> QED BY <1>2 DEF WizardsKeep

\* A wizard that does not save closes.
LEMMA WizardLeaves ==
    ASSUME IInv, NEW k \in 1..Len(wizards), Closes(k)
    PROVE  \A j \in 1..Len(wizards) : j # k => \E i \in 1..Len(wizards') : wizards'[i] = wizards[j]
<1>1. Len(wizards) \in Nat /\ Len(wizards) - 1 \in Nat
  BY Domains
<1>2. wizards' = [j \in 1..(Len(wizards) - 1) |-> wizards[IF j < k THEN j ELSE j + 1]]
  BY DEF Closes
<1>3. Len(wizards') = Len(wizards) - 1
  <2>1. \A j \in 1..(Len(wizards) - 1) : wizards'[j] \in Wizards
    BY <1>1, <1>2, Pages, Domains
  <2>2. wizards' \in [1..(Len(wizards) - 1) -> Wizards]
    BY <1>2, <2>1
  <2>3. wizards' \in Seq(Wizards) /\ DOMAIN wizards' = 1..(Len(wizards) - 1)
    BY <1>1, <2>2, SeqDef
  <2> QED BY <1>1, <2>3, LenProperties
<1>4. ASSUME NEW j \in 1..Len(wizards), j # k PROVE \E i \in 1..Len(wizards') : wizards'[i] = wizards[j]
  <2>1. CASE j < k
    <3>1. j \in 1..(Len(wizards) - 1)
      BY <1>1, <2>1
    <3> QED BY <1>2, <1>3, <2>1, <3>1
  <2>2. CASE j > k
    <3>1. j - 1 \in 1..(Len(wizards) - 1) /\ ~(j - 1 < k) /\ (j - 1) + 1 = j
      BY <1>1, <2>2
    <3>2. wizards'[j - 1] = wizards[j]
      BY <1>2, <3>1
    <3> QED BY <1>3, <3>1, <3>2
  <2> QED BY <1>1, <1>4, <2>1, <2>2
<1> QED BY <1>4

\* A wizard changes, and no other.
LEMMA WizardMoves ==
    ASSUME IInv, NEW k \in 1..Len(wizards), NEW x, wizards' = [wizards EXCEPT ![k] = x]
    PROVE  /\ Len(wizards') = Len(wizards) /\ wizards'[k] = x
           /\ \A j \in 1..Len(wizards) : j # k => wizards'[j] = wizards[j]
<1>1. wizards \in Seq(Wizards \cup {x})
  BY SeqMonotonic DEF IInv, AppOk
<1> QED BY <1>1, ExceptSeq

\* No file changes, and nobody stops saving.
LEMMA TornQuiet ==
    ASSUME IInv, IInv', TornInv, disk'.files = disk.files, torn => torn', SaversOk', WinsKeep, WizardsKeep
    PROVE  TornInv'
BY TornKept DEF TornInv

\* A run has ended: what was being written is torn.
LEMMA TornEnds == ASSUME Ends, disk'.files = disk.files PROVE TornInv'
<1>1. wins' = <<>> /\ torn' = (torn \/ \E p \in Profiles : Torn(p))
  BY DEF Ends
<1>2. TornIsKnown'
  BY <1>1 DEF TornIsKnown, Torn, File
<1>3. SaversOk'
  BY <1>1 DEF SaversOk
<1> QED BY <1>2, <1>3 DEF TornInv

\* BeGadu writes no profile.
LEMMA AppTorn == ASSUME IInv, IInv', TornInv, AppStep PROVE TornInv'
<1>1. SaversOk
  BY DEF TornInv
<1>2. ASSUME NEW what \in {"CLOSE", "QUIT", "SET", "SHOW", "BEGG_QUIT"}, NEW m \in WinMessages, m.what = what,
             iWindow # NoWindow, ToWindow(m)
      PROVE  SaversOk' /\ WinsKeep
  BY <1>1, <1>2, TheWindow, WinSentMsg DEF ToWindow
<1>3. CASE AddMessenger
  <2>1. UNCHANGED <<disk, wizards, histVars>> /\ M.what = "ADD_MESSENGER"
    BY <1>3 DEF AddMessenger, Handles
  <2>2. SaversOk' /\ WinsKeep
    <3>1. CASE iWindow = NoWindow
      BY <1>1, <1>3, <3>1, WinsNone DEF AddMessenger
    <3>2. CASE iWindow # NoWindow
      <4> DEFINE x == [wins[iWindow] EXCEPT !.messenger = M.view, !.told = None]
      <4>1. iWindow \in 1..Len(wins) /\ wins[iWindow] \in Windows(bar.view)
        BY <3>2, TheWindow
      <4>2. /\ x.alive = wins[iWindow].alive /\ x.saves = wins[iWindow].saves
            /\ x.profile = wins[iWindow].profile /\ x.queue = wins[iWindow].queue
        BY <4>1 DEF Windows
      <4>3. wins' = [wins EXCEPT ![iWindow] = x]
        BY <1>3, <3>2, <4>1, Domains DEF AddMessenger
      <4> HIDE DEF x
      <4> QED BY <1>1, <4>1, <4>2, <4>3, WinSent
    <3> QED BY <3>1, <3>2
  <2> QED BY <2>1, <2>2, WizardsSame, TornQuiet DEF histVars
<1>4. CASE Forward
  <2>1. UNCHANGED <<disk, wizards, histVars>> /\ M \in WinMessages /\ M.what \in {"SET", "SHOW"}
    BY <1>4, Turns, AppFacts DEF Forward
  <2>2. SaversOk' /\ WinsKeep
    BY <1>1, <1>2, <1>4, <2>1, WinsNone DEF Forward
  <2> QED BY <2>1, <2>2, WizardsSame, TornQuiet DEF histVars
<1>5. CASE OpenProfileWizard \/ ProfileSwitch
  <2>1. UNCHANGED <<disk, histVars>>
    BY <1>5 DEF OpenProfileWizard, ProfileSwitch
  <2>2. CASE iWindow # NoWindow
    <3>1. ToWindow(Msg("CLOSE")) /\ wizards' = wizards
      BY <1>5, <2>2 DEF OpenProfileWizard, ProfileSwitch, CloseWindow
    <3>2. Msg("CLOSE") \in WinMessages /\ Msg("CLOSE").what = "CLOSE"
      BY PlainWin DEF Msg
    <3>3. SaversOk' /\ WinsKeep
      BY <1>2, <2>2, <3>1, <3>2
    <3> QED BY <2>1, <3>1, <3>3, WizardsSame, TornQuiet DEF histVars
  <2>3. CASE iWindow = NoWindow
    <3>1. wins' = wins /\ (wizards' = wizards \/ NewWizard)
      BY <1>5, <2>3 DEF OpenProfileWizard, ProfileSwitch
    <3> QED BY <1>1, <2>1, <3>1, WinsNone, WizardsSame, WizardComes, TornQuiet DEF histVars
  <2> QED BY <2>2, <2>3
<1>6. CASE ConfigOk \/ ProfileCreated
  <2>1. UNCHANGED <<disk, wizards>>
    BY <1>6 DEF ConfigOk, ProfileCreated
  <2>2. (wins' = wins /\ torn' = torn) \/ \E p : OpenWindow(p)
    BY <1>6 DEF ConfigOk, ProfileCreated
  <2>3. SaversOk' /\ WinsKeep /\ (torn => torn')
    <3>1. CASE wins' = wins /\ torn' = torn
      BY <1>1, <3>1, WinsNone
    <3>2. ASSUME NEW p, OpenWindow(p) PROVE SaversOk' /\ WinsKeep /\ (torn => torn')
      BY <1>1, <3>2, OpenKeeps
    <3> QED BY <2>2, <3>1, <3>2
  <2> QED BY <2>1, <2>3, WizardsSame, TornQuiet
<1>7. CASE BeggQuit
  <2>1. UNCHANGED <<disk, wizards, histVars>> /\ M \in WinMessages /\ M.what = "BEGG_QUIT"
    BY <1>7, Turns, AppFacts DEF BeggQuit
  <2>2. SaversOk' /\ WinsKeep
    BY <1>1, <1>2, <1>7, <2>1, WinsNone DEF BeggQuit
  <2> QED BY <2>1, <2>2, WizardsSame, TornQuiet DEF histVars
<1>8. CASE ProfileSelect \/ QuitRequested
  <2>1. UNCHANGED <<disk, wizards, wins, histVars>>
    BY <1>8 DEF ProfileSelect, QuitRequested
  <2> QED BY <1>1, <2>1, WinsNone, WizardsSame, TornQuiet DEF histVars
<1>9. CASE AsksToQuit
  <2>1. UNCHANGED <<disk, wizards, histVars>> /\ ToWindow(Msg("QUIT")) /\ iWindow # NoWindow
    BY <1>9 DEF AsksToQuit, Alive
  <2>2. Msg("QUIT") \in WinMessages /\ Msg("QUIT").what = "QUIT"
    BY PlainWin DEF Msg
  <2>3. SaversOk' /\ WinsKeep
    BY <1>2, <2>1, <2>2
  <2> QED BY <2>1, <2>3, WizardsSame, TornQuiet DEF histVars
<1>10. CASE WindowEnded
  <2>1. disk'.files = disk.files
    BY <1>10 DEF WindowEnded, IInv, DiskOk, Disks
  <2>2. (wins' = wins /\ torn' = torn) \/ \E p : OpenWindow(p)
    BY <1>10 DEF WindowEnded, WizardOpens, SwitchTo
  <2>3. wizards' = wizards \/ NewWizard
    BY <1>10 DEF WindowEnded, WizardOpens
  <2>4. SaversOk' /\ WinsKeep /\ (torn => torn')
    <3>1. CASE wins' = wins /\ torn' = torn
      BY <1>1, <3>1, WinsNone
    <3>2. ASSUME NEW p, OpenWindow(p) PROVE SaversOk' /\ WinsKeep /\ (torn => torn')
      BY <1>1, <3>2, OpenKeeps
    <3> QED BY <2>2, <3>1, <3>2
  <2> QED BY <2>1, <2>3, <2>4, WizardsSame, WizardComes, TornQuiet
<1>11. CASE ConfigWritten
  <2>1. disk'.files = disk.files
    BY <1>11 DEF ConfigWritten, IInv, DiskOk, Disks
  <2> QED BY <1>11, <2>1, TornEnds DEF ConfigWritten
<1> QED BY <1>3, <1>4, <1>5, <1>6, <1>7, <1>8, <1>9, <1>10, <1>11 DEF AppStep

\* A window that saves is known until its profile has its contents.
LEMMA WindowTorn == ASSUME IInv, IInv', TornInv, NEW w \in 1..Len(wins), WindowStep(w) PROVE TornInv'
<1>1. SaversOk
  BY DEF TornInv
<1>2. torn' = torn /\ wizards' = wizards
  BY DEF WindowStep, SetStatus, Updates, TellDeskbar, TellApp, Show, SavesProfile, Close, QuitProgram, Quit,
         histVars
<1>3. WizardsKeep
  BY <1>2, WizardsSame
<1>4. ASSUME NEW what, what \notin {"CLOSE", "BEGG_QUIT"}, Turn(w, what), disk' = disk,
             wins' = wins \/ \E x : Becomes(w, x) /\ x.saves = "idle"
      PROVE  TornInv'
  <2>1. ~Saver(wins[w])
    BY <1>1, <1>4, NotSaver
  <2>2. SaversOk' /\ WinsKeep
    <3>1. CASE wins' = wins
      BY <1>1, <3>1, WinsNone
    <3>2. ASSUME NEW x, Becomes(w, x), x.saves = "idle" PROVE SaversOk' /\ WinsKeep
      BY <1>1, <2>1, <3>2, WinTouched DEF Becomes, Saver
    <3> QED BY <1>4, <3>1, <3>2
  <2> QED BY <1>2, <1>3, <1>4, <2>2, TornQuiet
<1>5. ASSUME NEW what, what \notin {"CLOSE", "BEGG_QUIT"}, Turn(w, what)
      PROVE  Handled(w) \in Windows(bar.view) /\ Handled(w).saves = "idle"
  BY <1>1, <1>5, NotSaver, WinTurn
<1>6. CASE SetStatus(w) \/ Updates(w)
  <2>1. PICK what \in {"SET", "DROPPED", "UPDATE", "NEWS"} : Turn(w, what)
    BY <1>6 DEF SetStatus, Updates
  <2>2. disk' = disk
    BY <1>6 DEF SetStatus, Updates
  <2>3. Handled(w) \in Windows(bar.view) /\ Handled(w).saves = "idle"
    BY <1>5, <2>1
  <2>4. \A s, q : [Handled(w) EXCEPT !.status = s, !.told = s, !.queue = q].saves = "idle"
    BY <2>3 DEF Windows
  <2>5. wins' = wins \/ \E x : Becomes(w, x) /\ x.saves = "idle"
    <3>1. CASE Faults(w)
      BY <3>1 DEF Faults
    <3>2. CASE Becomes(w, Handled(w))
      BY <2>3, <3>2
    <3>3. CASE \E s, update : Becomes(w, [Handled(w) EXCEPT !.status = s, !.told = s,
                                                     !.queue = @ \o update \o <<Report(s)>>])
      BY <2>4, <3>3
    <3> QED BY <1>6, <3>1, <3>2, <3>3 DEF SetStatus, Updates
  <2> QED BY <1>4, <2>1, <2>2, <2>5
<1>7. CASE TellDeskbar(w) \/ TellApp(w) \/ Show(w)
  <2>1. PICK what \in {"CHSTATE", "PROFILE_SWITCH", "OPEN_PROFILE_WIZARD", "SHOW"} : Turn(w, what)
    BY <1>7 DEF TellDeskbar, TellApp, Show
  <2>2. disk' = disk /\ Becomes(w, Handled(w))
    BY <1>7 DEF TellDeskbar, TellApp, Show
  <2> QED BY <1>4, <1>5, <2>1, <2>2
<1>8. CASE Quit(w)
  <2> DEFINE x == [Handled(w) EXCEPT !.alive = FALSE, !.queue = <<>>]
  <2>1. Turn(w, "QUIT") /\ disk' = disk /\ Becomes(w, x)
    BY <1>8 DEF Quit
  <2>2. x.saves = "idle"
    BY <1>5, <2>1 DEF Windows
  <2> HIDE DEF x
  <2> QED BY <1>4, <2>1, <2>2
<1>14. wins[w] \in Windows(bar.view)
  BY ElementOfSeq DEF IInv, WinsOk
<1>9. PICK p \in Names : p = wins[w].profile
  BY <1>14 DEF Windows
<1>10. CASE SavesProfile(w)
  <2> DEFINE x == [wins[w] EXCEPT !.saves = Phase(p), !.saved = (wins[w].saves = "idle" \/ wins[w].saved)]
  <2>1. /\ Touches(p) /\ wins' = [wins EXCEPT ![w] = x] /\ bar' = bar /\ UNCHANGED histVars
        /\ (Turn(w, "CLOSE") \/ Turn(w, "BEGG_QUIT"))
    BY <1>9, <1>10 DEF SavesProfile, Becomes
  <2>2. x.queue = wins[w].queue /\ x.alive = wins[w].alive /\ x.profile = p /\ x.saves = Phase(p)
    BY <1>9, <1>14 DEF Windows
  <2> HIDE DEF x
  <2>3. Phase(p) # "idle" /\ \A n \in Names : n # p => File(n)' = File(n)
    <3>1. Phase(p) \in Phases \ {"idle"} /\ \A n \in Names : n # p => File(n)' = File(n)
      BY <1>9, <2>1, TouchesOk
    <3> QED BY <3>1
  <2>4. Ready(x) /\ Saver(x)
    BY <2>1, <2>2, <2>3 DEF Ready, Saver, Turn, Alive, W
  <2>5. SaversOk' /\ WinsKeep
    BY <1>1, <1>9, <2>1, <2>2, <2>4, WinTouched
  <2>6. Len(wins') = Len(wins) /\ wins'[w] = x
    <3>1. wins \in Seq(Windows(bar.view) \cup {x})
      BY SeqMonotonic DEF IInv, WinsOk
    <3> QED BY <2>1, <3>1, ExceptSeq
  <2>7. Saving(p)'
    BY <2>2, <2>4, <2>6, SavingWillBe
  <2>8. \A n \in Profiles : n # p => File(n)' = File(n) /\ (Saving(n) => Saving(n)')
    <3> SUFFICES ASSUME NEW n \in Profiles, n # p, Saving(n) PROVE Saving(n)'
      BY <2>3 DEF Names
    <3>1. CASE \E v \in 1..Len(wins) : Saver(wins[v]) /\ wins[v].profile = n
      <4>1. \E v \in 1..Len(wins') : Saver(wins'[v]) /\ wins'[v].profile = n
        BY <2>5, <3>1 DEF WinsKeep
      <4> QED BY <4>1, SavingWillBe
    <3>2. CASE \E k \in 1..Len(wizards) : wizards[k].saves # "idle" /\ wizards[k].name = n
      BY <1>2, <3>2, SavingWillBe
    <3> QED BY <3>1, <3>2, SavingIs
  <2>9. TornIsKnown'
    BY <1>2, <1>9, <2>7, <2>8, TornMoves DEF TornInv
  <2> QED BY <2>5, <2>9 DEF TornInv
<1>11. ASSUME Written(w), bar' = bar, unnamed' = unnamed, Turn(w, "CLOSE") \/ Turn(w, "BEGG_QUIT"),
              wins' = wins \/ Becomes(w, Cleaned(w))
       PROVE  TornInv'
  <2>1. \A n \in Names : File(n)' = IF n = p /\ n # NoName THEN "plain" ELSE File(n)
    BY <1>2, <1>9, <1>11, WrittenOk
  <2>2. p = NoName \/ ~Torn(p)'
    BY <1>9, <2>1 DEF Torn
  <2>3. Cleaned(w).saves = "idle"
    BY <1>14 DEF Cleaned, Handled, Windows
  <2>4. /\ Len(wins') = Len(wins) /\ (wins'[w] = wins[w] \/ ~Saver(wins'[w]))
        /\ \A v \in 1..Len(wins) : v # w => wins'[v] = wins[v]
    <3>1. CASE wins' = wins
      BY <3>1
    <3>2. CASE wins' = [wins EXCEPT ![w] = Cleaned(w)]
      <4>1. wins \in Seq(Windows(bar.view) \cup {Cleaned(w)})
        BY SeqMonotonic DEF IInv, WinsOk
      <4> QED BY <2>3, <3>2, <4>1, ExceptSeq DEF Saver
    <3> QED BY <1>11, <3>1, <3>2 DEF Becomes
  <2>5. SaversOk'
    BY <1>1, <2>4 DEF SaversOk
  <2>6. \A n \in Profiles : n # p => File(n)' = File(n) /\ (Saving(n) => Saving(n)')
    <3> SUFFICES ASSUME NEW n \in Profiles, n # p, Saving(n) PROVE Saving(n)'
      BY <2>1 DEF Names
    <3>1. CASE \E v \in 1..Len(wins) : Saver(wins[v]) /\ wins[v].profile = n
      <4>1. PICK v \in 1..Len(wins) : Saver(wins[v]) /\ wins[v].profile = n
        BY <3>1
      <4>2. v \in 1..Len(wins') /\ Saver(wins'[v]) /\ wins'[v].profile = n
        BY <1>9, <2>4, <4>1
      <4> QED BY <4>2, SavingWillBe
    <3>2. CASE \E k \in 1..Len(wizards) : wizards[k].saves # "idle" /\ wizards[k].name = n
      BY <1>2, <3>2, SavingWillBe
    <3> QED BY <3>1, <3>2, SavingIs
  <2>7. TornIsKnown'
    BY <1>2, <1>9, <2>2, <2>6, TornMoves DEF TornInv
  <2> QED BY <2>5, <2>7 DEF TornInv
<1>12. CASE Close(w)
  BY <1>11, <1>12 DEF Close, Faults
<1>13. CASE QuitProgram(w)
  <2>1. CASE wins[w].network
    BY <1>11, <1>13, <2>1 DEF QuitProgram
  <2>2. CASE ~wins[w].network
    BY <1>1, <1>2, <1>3, <1>13, <2>2, WinsNone, TornQuiet DEF QuitProgram, Faults
  <2> QED BY <2>1, <2>2
<1> QED BY <1>6, <1>7, <1>8, <1>10, <1>12, <1>13 DEF WindowStep

\* So is a wizard that saves.
LEMMA WizardTorn ==
    ASSUME IInv, IInv', TornInv, NEW k \in 1..Len(wizards), WizardSaves(k) \/ WizardFinishes(k)
    PROVE  TornInv'
<1>1. UNCHANGED <<wins, bar, histVars>> /\ torn' = torn /\ unnamed' = unnamed
  BY DEF WizardSaves, WizardFinishes, histVars, pastVars
<1>2. SaversOk' /\ WinsKeep
  BY <1>1, WinsNone DEF TornInv
<1>6. wizards[k] \in Wizards /\ wizards[k].page = 4
  BY Pages, Domains DEF WizardSaves, WizardFinishes
<1>3. PICK p \in Names : p = wizards[k].name
  BY <1>6 DEF Wizards
<1>4. CASE WizardSaves(k)
  <2> DEFINE x == [wizards[k] EXCEPT !.saves = Phase(p)]
  <2>1. Touches(p) /\ wizards' = [wizards EXCEPT ![k] = x]
    BY <1>3, <1>4 DEF WizardSaves
  <2>2. x.name = p /\ x.saves = Phase(p)
    BY <1>3, <1>6 DEF Wizards
  <2> HIDE DEF x
  <2>3. Phase(p) # "idle" /\ \A n \in Names : n # p => File(n)' = File(n)
    <3>1. Phase(p) \in Phases \ {"idle"} /\ \A n \in Names : n # p => File(n)' = File(n)
      BY <1>1, <1>3, <2>1, TouchesOk
    <3> QED BY <3>1
  <2>4. Len(wizards') = Len(wizards) /\ wizards'[k] = x /\ \A j \in 1..Len(wizards) : j # k => wizards'[j] = wizards[j]
    BY <2>1, WizardMoves
  <2>5. Saving(p)'
    BY <2>2, <2>3, <2>4, SavingWillBe
  <2>6. \A n \in Profiles : n # p => File(n)' = File(n) /\ (Saving(n) => Saving(n)')
    <3> SUFFICES ASSUME NEW n \in Profiles, n # p, Saving(n) PROVE Saving(n)'
      BY <2>3 DEF Names
    <3>1. CASE \E v \in 1..Len(wins) : Saver(wins[v]) /\ wins[v].profile = n
      BY <1>1, <3>1, SavingWillBe
    <3>2. CASE \E j \in 1..Len(wizards) : wizards[j].saves # "idle" /\ wizards[j].name = n
      <4>1. PICK j \in 1..Len(wizards) : wizards[j].saves # "idle" /\ wizards[j].name = n
        BY <3>2
      <4>2. j \in 1..Len(wizards') /\ wizards'[j] = wizards[j]
        BY <1>3, <2>4, <4>1
      <4> QED BY <4>1, <4>2, SavingWillBe
    <3> QED BY <3>1, <3>2, SavingIs
  <2>7. TornIsKnown'
    BY <1>1, <1>3, <2>5, <2>6, TornMoves DEF TornInv
  <2> QED BY <1>2, <2>7 DEF TornInv
<1>5. CASE WizardFinishes(k)
  <2>1. With(p, "plain") /\ Closes(k)
    BY <1>3, <1>5 DEF WizardFinishes
  <2>2. \A n \in Names : File(n)' = IF n = p /\ n # NoName THEN "plain" ELSE File(n)
    BY <1>1, <1>3, <2>1, SaveOk DEF IInv, Bars
  <2>3. p = NoName \/ ~Torn(p)'
    BY <1>3, <2>2 DEF Torn
  <2>4. \A n \in Profiles : n # p => File(n)' = File(n) /\ (Saving(n) => Saving(n)')
    <3> SUFFICES ASSUME NEW n \in Profiles, n # p, Saving(n) PROVE Saving(n)'
      BY <2>2 DEF Names
    <3>1. CASE \E v \in 1..Len(wins) : Saver(wins[v]) /\ wins[v].profile = n
      BY <1>1, <3>1, SavingWillBe
    <3>2. CASE \E j \in 1..Len(wizards) : wizards[j].saves # "idle" /\ wizards[j].name = n
      <4>1. PICK j \in 1..Len(wizards) : wizards[j].saves # "idle" /\ wizards[j].name = n
        BY <3>2
      <4>2. PICK i \in 1..Len(wizards') : wizards'[i] = wizards[j]
        BY <1>3, <2>1, <4>1, WizardLeaves
      <4> QED BY <4>1, <4>2, SavingWillBe
    <3> QED BY <3>1, <3>2, SavingIs
  <2>5. TornIsKnown'
    BY <1>1, <1>3, <2>3, <2>4, TornMoves DEF TornInv
  <2> QED BY <1>2, <2>5 DEF TornInv
<1> QED BY <1>4, <1>5

\* The user, the system and the sessions write no profile.
LEMMA OutsideTorn == ASSUME IInv, IInv', TornInv, Environment PROVE TornInv'
<1>1. SaversOk
  BY DEF TornInv
<1>2. CASE Killed
  BY <1>2, TornEnds DEF Killed
<1>3. CASE Start \/ DeskbarRestarts \/ UserClicks \/ UserQuits \/ SystemQuits
  <2>1. UNCHANGED <<disk, wins, wizards, torn>>
    BY <1>3 DEF Start, DeskbarRestarts, UserClicks, UserQuits, SystemQuits
  <2> QED BY <1>1, <2>1, WinsNone, WizardsSame, TornQuiet
<1>4. ASSUME NEW w \in 1..Len(wins), UserPicks(w) \/ UserEdits(w) \/ HandlerPosts(w) PROVE TornInv'
  <2>1. UNCHANGED <<disk, wizards, torn>>
    BY <1>4 DEF UserPicks, UserEdits, HandlerPosts
  <2>2. wins[w] \in Windows(bar.view) /\ wins[w].status \in Statuses
    <3>1. wins[w] \in Windows(bar.view)
      BY ElementOfSeq DEF IInv, WinsOk
    <3> QED BY <3>1 DEF Windows
  <2>3. SaversOk' /\ WinsKeep
    <3>1. CASE UserPicks(w)
      <4>1. PICK m \in WinMessages : wins' = [wins EXCEPT ![w].queue = Append(@, m)]
        <5>1. PICK m \in {Msg("BEGG_QUIT"), Msg("OPEN_PROFILE_WIZARD")}
                          \cup {[what |-> "SET", status |-> s] : s \in Statuses}
                          \cup {[what |-> "PROFILE_SWITCH", name |-> p] : p \in {p \in Profiles : File(p) # "none"}} :
                     wins' = [wins EXCEPT ![w].queue = Append(@, m)]
          BY <3>1 DEF UserPicks
        <5>2. m \in WinMessages
          BY DEF WinMessages, Msg
        <5> QED BY <5>1, <5>2
      <4> QED BY <1>1, <4>1, WinSentMsg
    <3>2. CASE UserEdits(w)
      <4> DEFINE x == [wins[w] EXCEPT !.saved = FALSE]
      <4>1. wins' = [wins EXCEPT ![w] = x]
        BY <3>2 DEF UserEdits
      <4>2. /\ x.alive = wins[w].alive /\ x.saves = wins[w].saves /\ x.profile = wins[w].profile
            /\ x.queue = wins[w].queue
        BY <2>2 DEF Windows
      <4> HIDE DEF x
      <4> QED BY <1>1, <4>1, <4>2, WinSent
    <3>3. CASE HandlerPosts(w)
      <4> DEFINE news == <<Msg("NEWS"), Report(wins[w].status)>>
                 drop == [what |-> "DROPPED", status |-> "notavail"]
      <4>1. Msg("NEWS") \in WinMessages /\ drop \in WinMessages /\ Report(wins[w].status) \in WinMessages
        BY <2>2, PlainWin DEF WinMessages, Report
      <4>2. news \in Seq(WinMessages)
        BY <4>1
      <4>3. PICK x : /\ wins' = [wins EXCEPT ![w] = x]
                     /\ x.alive = wins[w].alive /\ x.saves = wins[w].saves /\ x.profile = wins[w].profile
                     /\ \/ x.queue = Append(wins[w].queue, Msg("NEWS"))
                        \/ x.queue = wins[w].queue \o news
                        \/ x.queue = Append(wins[w].queue, drop)
        <5> HIDE DEF news, drop
        <5> DEFINE q1 == Append(wins[w].queue, Msg("NEWS"))
                   q2 == wins[w].queue \o news
                   q3 == Append(wins[w].queue, drop)
        <5>1. PICK s : \/ wins' = [wins EXCEPT ![w] = [wins[w] EXCEPT !.status = s, !.queue = q1]]
                       \/ wins' = [wins EXCEPT ![w] = [wins[w] EXCEPT !.told = wins[w].status, !.queue = q2]]
                       \/ wins' = [wins EXCEPT ![w] = [wins[w] EXCEPT !.status = s, !.queue = q3]]
          BY <3>3 DEF HandlerPosts, Becomes, news, drop
        <5> HIDE DEF q1, q2, q3
        <5> DEFINE x1 == [wins[w] EXCEPT !.status = s, !.queue = q1]
                   x2 == [wins[w] EXCEPT !.told = wins[w].status, !.queue = q2]
                   x3 == [wins[w] EXCEPT !.status = s, !.queue = q3]
        <5>2. /\ x1.queue = q1 /\ x2.queue = q2 /\ x3.queue = q3
              /\ \A x \in {x1, x2, x3} : x.alive = wins[w].alive /\ x.saves = wins[w].saves
                                         /\ x.profile = wins[w].profile
          BY <2>2 DEF Windows
        <5>3. PICK x \in {x1, x2, x3} : wins' = [wins EXCEPT ![w] = x]
          BY <5>1
        <5> HIDE DEF x1, x2, x3
        <5> QED BY <5>2, <5>3 DEF q1, q2, q3
      <4> HIDE DEF news, drop
      <4> QED BY <1>1, <4>1, <4>2, <4>3, WinSent
    <3> QED BY <1>4, <3>1, <3>2, <3>3
  <2> QED BY <2>1, <2>3, WizardsSame, TornQuiet
<1>5. ASSUME NEW k \in 1..Len(wizards), WizardTurns(k) \/ WizardNames(k) \/ WizardCancelled(k) \/ WizardClosed(k)
      PROVE  TornInv'
  <2>1. UNCHANGED <<disk, wins, torn>>
    BY <1>5 DEF WizardTurns, WizardNames, WizardCancelled, WizardClosed, histVars
  <2>2. wizards[k].saves = "idle" /\ wizards[k].page # 4
    BY <1>5, Pages, Domains DEF Wizards, WizardTurns, WizardNames, WizardCancelled, WizardClosed
  <2>3. (\E x : wizards' = [wizards EXCEPT ![k] = x]) \/ Closes(k)
    <3>1. CASE WizardTurns(k)
      <4>1. \E page : wizards' = [wizards EXCEPT ![k].page = page]
        BY <3>1 DEF WizardTurns
      <4> QED BY <4>1
    <3>2. CASE WizardNames(k)
      <4>1. \E name : wizards' = [wizards EXCEPT ![k].page = 4, ![k].name = name]
        BY <3>2 DEF WizardNames
      <4>2. PICK name : wizards' = [wizards EXCEPT ![k].page = 4, ![k].name = name]
        BY <4>1
      <4>3. wizards' = [wizards EXCEPT ![k] = [wizards[k] EXCEPT !.page = 4, !.name = name]]
        BY <4>2
      <4> QED BY <4>3
    <3>3. CASE WizardCancelled(k) \/ WizardClosed(k)
      BY <3>3 DEF WizardCancelled, WizardClosed
    <3> QED BY <1>5, <3>1, <3>2, <3>3
  <2>4. WizardsKeep
    <3> SUFFICES ASSUME NEW j \in 1..Len(wizards), wizards[j].saves # "idle"
                 PROVE \E i \in 1..Len(wizards') : wizards'[i].saves # "idle" /\ wizards'[i].name = wizards[j].name
      BY DEF WizardsKeep
    <3>1. \E i \in 1..Len(wizards') : wizards'[i] = wizards[j]
      <4>1. j # k
        BY <2>2
      <4>2. CASE \E x : wizards' = [wizards EXCEPT ![k] = x]
        BY <4>1, <4>2, WizardMoves
      <4>3. CASE Closes(k)
        BY <4>1, <4>3, WizardLeaves
      <4> QED BY <2>3, <4>2, <4>3
    <3> QED BY <3>1
  <2> QED BY <1>1, <2>1, <2>4, WinsNone, TornQuiet
<1> QED BY <1>2, <1>3, <1>4, <1>5, Domains DEF Environment

\* What earlier runs have left torn is noted at first.
LEMMA TornInit == Init => TornInv
<1> SUFFICES ASSUME Init PROVE TornInv
  OBVIOUS
<1>1. TornIsKnown
  BY DEF Init, TornIsKnown
<1>2. SaversOk
  BY DEF Init, Off, SaversOk
<1> QED BY <1>1, <1>2 DEF TornInv

LEMMA TornStep == IInv /\ IInv' /\ TornInv /\ [Next]_vars => TornInv'
<1> SUFFICES ASSUME IInv, IInv', TornInv, [Next]_vars PROVE TornInv'
  OBVIOUS
<1>1. CASE BarStep
  BY <1>1, WinsNone, WizardsSame, TornQuiet DEF BarStep, BarAttaches, BarReceives, histVars, TornInv
<1>2. CASE UNCHANGED vars
  BY <1>2, WinsNone, WizardsSame, TornQuiet DEF vars, histVars, TornInv
<1> QED BY <1>1, <1>2, AppTorn, WindowTorn, WizardTorn, OutsideTorn, Domains DEF Next, WizardStep

\* Profile::Save: wherever a run is cut, a profile without its contents is one that
\* somebody writes, or a cut has been noted.
THEOREM TornAreKnown == Spec => [](IInv /\ TornInv)
<1>1. IInv /\ TornInv /\ [Next]_vars => (IInv /\ TornInv)'
  BY StepInv, TornStep
<1>2. Init => IInv /\ TornInv
  BY InitInv, TornInit
<1> QED BY <1>1, <1>2, PTL DEF Spec

\* Passwords are respected, profiles are whole or known to have been cut, and Config can
\* be used, after any number of runs, wherever each of them was cut.
THEOREM ProfilesAreSound == Spec => []ProfilesSound
<1>1. IInv /\ TornInv => TornIsKnown
  BY DEF TornInv
<1> QED BY <1>1, NeverOpened, ConfigIsSound, TornAreKnown, PTL DEF ProfilesSound

-------------------------------------------------------------------------------
(***************************************************************************)
(* A user who waits is served.  The messages that ask for another window,  *)
(* a wizard, the end of a window or of the program, and a wizard that      *)
(* makes a profile, are never two: what opens or closes a window is the    *)
(* one that waits.                                                         *)
(***************************************************************************)
Asks == {"SET", "BEGG_QUIT", "OPEN_PROFILE_WIZARD", "CONFIG_OK", "PROFILE_CREATED",
         "PROFILE_SWITCH", "CLOSE"}
Openers == {"OPEN_PROFILE_WIZARD", "CONFIG_OK", "PROFILE_CREATED", "PROFILE_SWITCH"}
Changes == {"OPEN_PROFILE_WIZARD", "PROFILE_SWITCH"}
Savers == {"CLOSE", "BEGG_QUIT"}

Has(q, what) == \E i \in DOMAIN q : q[i].what = what
Free(q) == \A i \in DOMAIN q : q[i].what \notin Asks
One(q) == \A i, j \in DOMAIN q : q[i].what \in Asks /\ q[j].what \in Asks => i = j

\* Quit is behind what closes, and that is behind what the window tells itself to update
Orderly(q) ==
    \A i, j \in DOMAIN q :
        \/ q[i].what = "CLOSE" /\ q[j].what = "QUIT"
        \/ q[i].what = "UPDATE" /\ q[j].what \in Savers
        => i < j

Working == \E k \in DOMAIN wizards : wizards[k].page = 4
Unasked == Free(appQ) /\ (\A w \in DOMAIN wins : Free(wins[w].queue)) /\ ~Working
Leaving == Has(appQ, "B_QUIT_REQUESTED") \/ waits.what = "B_QUIT_REQUESTED"

\* Only the window that BeGadu knows is there, and others wait for nothing.
OnlyWindow ==
    \A w \in DOMAIN wins : /\ wins[w].alive => w = iWindow
                           /\ ~wins[w].alive => wins[w].queue = <<>>

\* One ask waits, in one place, and what depends on others is behind them.
OneAsk ==
    /\ One(appQ) /\ (Working => Free(appQ))
    /\ \A w \in DOMAIN wins : /\ One(wins[w].queue) /\ Orderly(wins[w].queue)
                              /\ Free(wins[w].queue) \/ Free(appQ)

\* The window is there until BeGadu closes it.
WindowThere ==
    /\ waits = Nothing =>
          /\ iWindow = NoWindow \/ wins[iWindow].alive
          /\ \A w \in DOMAIN wins : ~Has(wins[w].queue, "CLOSE") /\ ~Has(wins[w].queue, "QUIT")
    /\ waits.what = "WRITE" => iWindow = NoWindow
    /\ ~running => appQ = <<>> /\ waits = Nothing /\ wizards = <<>> /\ iWindow = NoWindow

\* While BeGadu waits to change windows, nothing is asked but that the window closes.
InChange ==
    waits.what \in Changes =>
        /\ Free(appQ) /\ wizards = <<>>
        /\ \A w \in DOMAIN wins :
              \/ Has(wins[w].queue, "CLOSE")
              \/ Free(wins[w].queue) /\ (wins[w].alive => wins[w].saved)

\* A window without a network is asked for nothing, and is to end.
NetworkThere ==
    \A w \in DOMAIN wins : wins[w].alive /\ ~wins[w].network =>
        /\ Unasked /\ (waits # Nothing \/ Has(appQ, "B_QUIT_REQUESTED"))
        /\ ~Has(wins[w].queue, "UPDATE")

\* A wizard is the only one, and there is no window.
NoOther ==
    /\ Len(wizards) <= 1
    /\ wizards # <<>> => iWindow = NoWindow /\ \A what \in Openers : ~Has(appQ, what)
    /\ Has(appQ, "PROFILE_CREATED") \/ Has(appQ, "CONFIG_OK") => iWindow = NoWindow

\* A window that leaves is saved before it ends, but not with Ctrl+Q or by the system.
AllSaved ==
    /\ \A w \in DOMAIN wins : wins[w].saves # "idle" => wins[w].saved
    /\ ~forced /\ ~shortcut =>
        /\ ~lost
        /\ Leaving => /\ Unasked /\ waits.what \notin Changes
                      /\ \A w \in DOMAIN wins : wins[w].alive => wins[w].saved
        /\ \A w \in DOMAIN wins :
              Has(wins[w].queue, "QUIT") => Has(wins[w].queue, "CLOSE") \/ wins[w].saved

\* Nobody leaves while a wizard writes a profile.
AllWhole ==
    ~forced => ~torn /\ (Working => waits = Nothing /\ ~Has(appQ, "B_QUIT_REQUESTED"))

Served ==
    /\ OnlyWindow /\ OneAsk /\ WindowThere /\ InChange /\ NetworkThere /\ NoOther /\ AllSaved
    /\ AllWhole /\ (crashed => late)

ServedInv == ~hasty => Served

-------------------------------------------------------------------------------
\* What a queue without its first message holds.
LEMMA TailFacts ==
    ASSUME NEW S, NEW q \in Seq(S), q # <<>>
    PROVE  /\ \A what : Has(q, what) <=> Head(q).what = what \/ Has(Tail(q), what)
           /\ Free(q) <=> Head(q).what \notin Asks /\ Free(Tail(q))
           /\ One(q) <=> One(Tail(q)) /\ (Head(q).what \in Asks => Free(Tail(q)))
           /\ Orderly(q) => /\ Orderly(Tail(q)) /\ (Head(q).what = "QUIT" => ~Has(q, "CLOSE"))
                            /\ Head(q).what \in Savers => ~Has(q, "UPDATE")
<1>1. /\ Len(q) \in Nat /\ Len(q) > 0 /\ DOMAIN q = 1..Len(q) /\ Head(q) = q[1]
      /\ DOMAIN Tail(q) = 1..(Len(q) - 1) /\ \A i \in 1..(Len(q) - 1) : Tail(q)[i] = q[i + 1]
  <2>1. Len(q) \in Nat /\ DOMAIN q = 1..Len(q)
    BY LenProperties
  <2>2. Tail(q) \in Seq(S) /\ Len(Tail(q)) = Len(q) - 1 /\ \A i \in 1..Len(Tail(q)) : Tail(q)[i] = q[i + 1]
    BY HeadTailProperties
  <2>3. DOMAIN Tail(q) = 1..Len(Tail(q))
    BY <2>2, LenProperties
  <2>4. Len(q) # 0
    BY EmptySeq
  <2> QED BY <2>1, <2>2, <2>3, <2>4
<1> DEFINE t == Tail(q)  h == Head(q)
<1>2. \A i \in DOMAIN q : (i = 1 /\ q[i] = h) \/ (i - 1 \in DOMAIN t /\ t[i - 1] = q[i])
  BY <1>1
<1>3. \A i \in DOMAIN t : i + 1 \in DOMAIN q /\ q[i + 1] = t[i] /\ i + 1 # 1 /\ i \in Int
  BY <1>1
<1>4. 1 \in DOMAIN q /\ q[1] = h /\ \A i \in DOMAIN q : i \in Int /\ i >= 1
  BY <1>1
<1> HIDE DEF t, h
<1>5. \A what : Has(q, what) <=> h.what = what \/ Has(t, what)
  BY <1>2, <1>3, <1>4 DEF Has
<1>6. Free(q) <=> h.what \notin Asks /\ Free(t)
  BY <1>2, <1>3, <1>4 DEF Free
<1>7. One(q) => One(t)
  BY <1>3 DEF One
<1>8. One(q) /\ h.what \in Asks => Free(t)
  BY <1>3, <1>4 DEF One, Free
<1>9. One(t) /\ (h.what \in Asks => Free(t)) => One(q)
  BY <1>2, <1>4 DEF One, Free
<1>10. Orderly(q) => Orderly(t)
  BY <1>3 DEF Orderly
<1>11. Orderly(q) /\ h.what = "QUIT" => ~Has(q, "CLOSE")
  BY <1>4 DEF Orderly, Has
<1>12. Orderly(q) /\ h.what \in Savers => ~Has(q, "UPDATE")
  BY <1>4 DEF Orderly, Has
<1> QED BY <1>5, <1>6, <1>7, <1>8, <1>9, <1>10, <1>11, <1>12 DEF t, h

\* What a queue holds to which a message is added.
LEMMA AppendFacts ==
    ASSUME NEW S, NEW q \in Seq(S), NEW m \in S
    PROVE  /\ \A what : Has(Append(q, m), what) <=> m.what = what \/ Has(q, what)
           /\ Free(Append(q, m)) <=> m.what \notin Asks /\ Free(q)
           /\ One(Append(q, m)) <=> One(q) /\ (m.what \in Asks => Free(q))
           /\ /\ Orderly(q) /\ (m.what = "CLOSE" => ~Has(q, "QUIT"))
              /\ m.what = "UPDATE" => \A a \in Savers : ~Has(q, a)
              => Orderly(Append(q, m))
           /\ Append(q, m) # <<>>
<1> DEFINE t == Append(q, m)
<1>1. /\ Len(q) \in Nat /\ DOMAIN q = 1..Len(q) /\ DOMAIN t = 1..(Len(q) + 1)
      /\ t[Len(q) + 1] = m /\ (\A i \in 1..Len(q) : t[i] = q[i]) /\ t # <<>>
  <2>1. Len(q) \in Nat /\ DOMAIN q = 1..Len(q)
    BY LenProperties
  <2>2. t \in Seq(S) /\ Len(t) = Len(q) + 1
    BY AppendProperties
  <2>3. DOMAIN t = 1..(Len(q) + 1)
    BY <2>2, LenProperties
  <2> QED BY <2>1, <2>2, <2>3, AppendProperties
<1>2. \A i \in DOMAIN t : (i = Len(q) + 1 /\ t[i] = m) \/ (i \in DOMAIN q /\ t[i] = q[i])
  BY <1>1
<1>3. \A i \in DOMAIN q : i \in DOMAIN t /\ t[i] = q[i] /\ i < Len(q) + 1
  BY <1>1
<1>4. Len(q) + 1 \in DOMAIN t
  BY <1>1
<1> HIDE DEF t
<1> DEFINE n == Len(q) + 1
<1> HIDE DEF n
<1>5. \A what : Has(t, what) <=> m.what = what \/ Has(q, what)
  BY <1>1, <1>2, <1>3, <1>4 DEF Has
<1>6. Free(t) <=> m.what \notin Asks /\ Free(q)
  BY <1>1, <1>2, <1>3, <1>4 DEF Free
<1>7. One(t) => One(q)
  BY <1>3 DEF One
<1>8. One(t) /\ m.what \in Asks => Free(q)
  BY <1>1, <1>3, <1>4 DEF One, Free
<1>9. One(q) /\ (m.what \in Asks => Free(q)) => One(t)
  BY <1>1, <1>2 DEF One, Free
<1>10. ASSUME Orderly(q), m.what = "CLOSE" => ~Has(q, "QUIT"),
              m.what = "UPDATE" => \A a \in Savers : ~Has(q, a)
       PROVE  Orderly(t)
  <2>1. "QUIT" \notin Savers /\ "UPDATE" \notin Savers
    BY DEF Savers
  <2> SUFFICES ASSUME NEW i \in DOMAIN t, NEW j \in DOMAIN t,
                      (t[i].what = "CLOSE" /\ t[j].what = "QUIT") \/ (t[i].what = "UPDATE" /\ t[j].what \in Savers)
               PROVE  i < j
    BY DEF Orderly
  <2>2. CASE i \in DOMAIN q /\ t[i] = q[i] /\ j \in DOMAIN q /\ t[j] = q[j]
    BY <1>10, <2>2 DEF Orderly
  <2>3. CASE i \in DOMAIN q /\ j = Len(q) + 1
    BY <1>3, <2>3
  <2>4. CASE i = Len(q) + 1 /\ t[i] = m
    <3>1. CASE j = Len(q) + 1 /\ t[j] = m
      BY <2>1, <2>4, <3>1
    <3>2. CASE j \in DOMAIN q /\ t[j] = q[j]
      BY <1>10, <2>1, <2>4, <3>2 DEF Has
    <3> QED BY <1>2, <3>1, <3>2
  <2> QED BY <1>2, <2>2, <2>3, <2>4
<1> QED BY <1>1, <1>5, <1>6, <1>7, <1>8, <1>9, <1>10 DEF t

\* What one or two messages more are.
LEMMA AppendTwo ==
    ASSUME NEW S, NEW q \in Seq(S), NEW m \in S, NEW n \in S
    PROVE  /\ q \o <<>> \o <<m>> = Append(q, m) /\ q \o <<m, n>> = Append(Append(q, m), n)
           /\ q \o <<n>> \o <<m>> = Append(Append(q, n), m)
           /\ Append(q, m) \in Seq(S)
OBVIOUS

\* A queue that is empty.
LEMMA EmptyFacts ==
    ASSUME NEW q, q = <<>>
    PROVE  Free(q) /\ One(q) /\ Orderly(q) /\ \A what : ~Has(q, what)
BY DEF Free, One, Orderly, Has

\* The kinds of messages that ask.
LEMMA AskFacts ==
    ASSUME NEW q
    PROVE  /\ Free(q) <=> \A what \in Asks : ~Has(q, what)
           /\ One(q) => \A a, b \in Asks : Has(q, a) /\ Has(q, b) => a = b
BY DEF Free, One, Has

\* What the windows and the queues are made of.
LEMMA WinTypes ==
    ASSUME IInv
    PROVE  /\ DOMAIN wins = 1..Len(wins) /\ Len(wins) \in Nat /\ appQ \in Seq(Fitting)
           /\ appQ \in Seq(AppMessages)
           /\ iWindow = NoWindow \/ iWindow \in DOMAIN wins
           /\ \A w \in DOMAIN wins :
                 /\ w # NoWindow /\ wins[w] \in Windows(bar.view)
                 /\ wins[w].queue \in Seq(WinMessages)
                 /\ wins[w].alive \in BOOLEAN /\ wins[w].network \in BOOLEAN /\ wins[w].saved \in BOOLEAN
<1>1. wins \in Seq(Windows(bar.view)) /\ appQ \in Seq(Fitting) /\ iWindow \in 0..Len(wins)
  BY DEF IInv, WinsOk, QueueOk, AppOk
<1>2. DOMAIN wins = 1..Len(wins) /\ Len(wins) \in Nat /\ \A w \in 1..Len(wins) : wins[w] \in Windows(bar.view)
  BY <1>1, LenProperties, ElementOfSeq
<1>3. appQ \in Seq(AppMessages)
  <2>1. Fitting \subseteq AppMessages
    BY DEF Fitting
  <2> QED BY <1>1, <2>1, SeqMonotonic
<1>4. \A w \in 1..Len(wins) :
         /\ w # NoWindow /\ wins[w].queue \in Seq(WinMessages)
         /\ wins[w].alive \in BOOLEAN /\ wins[w].network \in BOOLEAN /\ wins[w].saved \in BOOLEAN
  <2> SUFFICES ASSUME NEW w \in 1..Len(wins)
               PROVE  /\ w # NoWindow /\ wins[w].queue \in Seq(WinMessages)
                      /\ wins[w].alive \in BOOLEAN /\ wins[w].network \in BOOLEAN /\ wins[w].saved \in BOOLEAN
    OBVIOUS
  <2>1. wins[w] \in Windows(bar.view)
    BY <1>2
  <2>2. w # NoWindow
    BY <1>2 DEF NoWindow
  <2> QED BY <2>1, <2>2 DEF Windows
<1>5. iWindow = NoWindow \/ iWindow \in 1..Len(wins)
  BY <1>1, <1>2 DEF NoWindow
<1> QED BY <1>1, <1>2, <1>3, <1>4, <1>5

\* A window changes.
LEMMA WinSet ==
    ASSUME IInv, NEW w \in DOMAIN wins, NEW x, wins' = [wins EXCEPT ![w] = x]
    PROVE  /\ DOMAIN wins' = DOMAIN wins /\ wins'[w] = x
           /\ \A v \in DOMAIN wins : v # w => wins'[v] = wins[v]
BY DEF IInv, WinsOk

\* The message that a window handles, and those behind it.
LEMMA WinHead ==
    ASSUME IInv, NEW w \in DOMAIN wins, NEW what, Turn(w, what)
    PROVE  /\ W(w) \in WinMessages /\ W(w).what = what /\ wins[w].alive /\ running /\ ~crashed
           /\ LET q == wins[w].queue  t == Tail(q) IN
                 /\ t \in Seq(WinMessages)
                 /\ \A a : Has(q, a) <=> what = a \/ Has(t, a)
                 /\ Free(q) <=> what \notin Asks /\ Free(t)
                 /\ One(q) => One(t) /\ (what \in Asks => Free(t))
                 /\ Orderly(q) => /\ Orderly(t) /\ (what = "QUIT" => ~Has(q, "CLOSE"))
                                  /\ what \in Savers => ~Has(q, "UPDATE")
<1> DEFINE q == wins[w].queue
<1>1. q \in Seq(WinMessages) /\ q # <<>> /\ W(w) = Head(q) /\ W(w).what = what /\ wins[w].alive
  BY WinTypes DEF Turn, W, Alive
<1>2. Head(q) \in WinMessages /\ Tail(q) \in Seq(WinMessages)
  BY <1>1, HeadTailProperties
<1>3. running /\ ~crashed
  BY DEF Turn
<1> HIDE DEF q
<1>4. /\ \A a : Has(q, a) <=> Head(q).what = a \/ Has(Tail(q), a)
      /\ Free(q) <=> Head(q).what \notin Asks /\ Free(Tail(q))
      /\ One(q) <=> One(Tail(q)) /\ (Head(q).what \in Asks => Free(Tail(q)))
      /\ Orderly(q) => /\ Orderly(Tail(q)) /\ (Head(q).what = "QUIT" => ~Has(q, "CLOSE"))
                       /\ Head(q).what \in Savers => ~Has(q, "UPDATE")
  BY <1>1, TailFacts
<1> QED BY <1>1, <1>2, <1>3, <1>4 DEF q

\* What a window hears from itself, or from its session, asks for nothing.
LEMMA NoteFacts ==
    ASSUME NEW q \in Seq(WinMessages), One(q), Orderly(q), NEW m \in WinMessages,
           m.what \in {"UPDATE", "NEWS", "DROPPED", "CHSTATE", "QUIT"}, m.what = "UPDATE" => Free(q)
    PROVE  /\ Append(q, m) \in Seq(WinMessages) /\ One(Append(q, m)) /\ Orderly(Append(q, m))
           /\ \A a : Has(Append(q, m), a) <=> m.what = a \/ Has(q, a)
           /\ Free(Append(q, m)) <=> Free(q)
<1>1. m.what \notin Asks /\ m.what # "CLOSE"
  BY DEF Asks
<1>2. m.what = "UPDATE" => \A a \in Savers : ~Has(q, a)
  BY AskFacts DEF Asks, Savers
<1> QED BY <1>1, <1>2, AppendFacts, AppendProperties

-------------------------------------------------------------------------------
\* Nothing changes that the invariant is about.
LEMMA CalmApp ==
    ASSUME IInv, Served, DOMAIN wins' = DOMAIN wins,
           \A v \in DOMAIN wins : /\ wins'[v].alive = wins[v].alive /\ wins'[v].network = wins[v].network
                                  /\ wins'[v].saved = wins[v].saved /\ wins'[v].saves = wins[v].saves
                                  /\ wins'[v].queue = wins[v].queue,
           One(appQ'), \A a \in Asks \cup {"B_QUIT_REQUESTED"} : Has(appQ', a) <=> Has(appQ, a),
           ~running => appQ' = <<>>, Len(wizards') = Len(wizards), wizards' = <<>> <=> wizards = <<>>,
           Working' <=> Working, crashed' => late',
           UNCHANGED <<running, iWindow, waits, lost, torn, forced, shortcut>>
    PROVE  Served'
<1>1. Free(appQ') <=> Free(appQ)
  BY AskFacts
<1>2. Unasked' <=> Unasked
  BY <1>1 DEF Unasked
<1>3. OnlyWindow' /\ OneAsk'
  BY <1>1 DEF OnlyWindow, OneAsk, Served
<1>4. WindowThere' /\ InChange'
  BY <1>1, WinTypes DEF WindowThere, InChange, Served
<1>5. NetworkThere' /\ NoOther'
  BY <1>2 DEF NetworkThere, NoOther, Served, Asks, Openers
<1>6. AllSaved' /\ AllWhole'
  BY <1>2 DEF AllSaved, AllWhole, Leaving, Served
<1> QED BY <1>3, <1>4, <1>5, <1>6 DEF Served

\* A network that is no more is used, by news that were late.
LEMMA FaultServes ==
    ASSUME IInv, Served, late', UNCHANGED <<running, appQ, iWindow, waits, wins, wizards, lost, torn, forced, shortcut>>
    PROVE  Served'
<1>1. One(appQ) /\ (~running => appQ = <<>>)
  BY DEF Served, OneAsk, WindowThere
<1>2. Working' <=> Working
  BY DEF Working
<1> QED BY <1>1, <1>2, CalmApp

\* A window handles or hears a message and asks for nothing.
LEMMA CalmWindow ==
    ASSUME IInv, Served, NEW w \in DOMAIN wins, NEW x, wins' = [wins EXCEPT ![w] = x], wins[w].alive,
           x.alive = wins[w].alive, x.network = wins[w].network, wins[w].saved => x.saved,
           x.saves # "idle" => x.saved,
           \A a \in Asks \cup {"QUIT"} : Has(x.queue, a) => Has(wins[w].queue, a),
           Has(x.queue, "UPDATE") => wins[w].network \/ Has(wins[w].queue, "UPDATE"),
           One(x.queue), Orderly(x.queue), Has(wins[w].queue, "CLOSE") => Has(x.queue, "CLOSE"),
           UNCHANGED <<running, appQ, iWindow, waits, wizards, crashed, late, lost, torn, forced, shortcut>>
    PROVE  Served'
<1>1. /\ DOMAIN wins' = DOMAIN wins /\ wins'[w] = x
      /\ \A v \in DOMAIN wins : v # w => wins'[v] = wins[v]
  BY WinSet
<1>2. \A v \in DOMAIN wins : /\ wins'[v].alive = wins[v].alive /\ wins'[v].network = wins[v].network
                             /\ wins[v].saved => wins'[v].saved
  BY <1>1
<1>3. Free(wins[w].queue) => Free(x.queue)
  BY AskFacts
<1>4. \A v \in DOMAIN wins : Free(wins[v].queue) => Free(wins'[v].queue)
  BY <1>1, <1>3
<1>5. \A v \in DOMAIN wins : Has(wins'[v].queue, "CLOSE") <=> Has(wins[v].queue, "CLOSE")
  BY <1>1 DEF Asks
<1>6. \A v \in DOMAIN wins : /\ Has(wins'[v].queue, "QUIT") => Has(wins[v].queue, "QUIT")
                             /\ Has(wins'[v].queue, "UPDATE") => wins[v].network \/ Has(wins[v].queue, "UPDATE")
  BY <1>1
<1>7. \A v \in DOMAIN wins : One(wins[v].queue) /\ Orderly(wins[v].queue) => One(wins'[v].queue) /\ Orderly(wins'[v].queue)
  BY <1>1
<1>8. Unasked => Unasked'
  BY <1>1, <1>4 DEF Unasked, Working
<1>9. OnlyWindow'
  BY <1>1, <1>2 DEF OnlyWindow, Served
<1>10. OneAsk'
  BY <1>1, <1>4, <1>7 DEF OneAsk, Served, Working
<1>11. WindowThere'
  BY <1>1, <1>2, <1>5, <1>6, WinTypes DEF WindowThere, Served
<1>12. InChange'
  BY <1>1, <1>2, <1>4, <1>5 DEF InChange, Served
<1>13. NetworkThere'
  BY <1>1, <1>2, <1>6, <1>8 DEF NetworkThere, Served
<1>14. NoOther' /\ AllWhole' /\ (crashed' => late')
  BY DEF NoOther, AllWhole, Working, Served
<1>15. AllSaved'
  <2>1. \A v \in DOMAIN wins : wins'[v].saves # "idle" => wins'[v].saved
    BY <1>1 DEF AllSaved, Served
  <2> QED BY <1>1, <1>2, <1>5, <1>6, <1>8, <2>1 DEF AllSaved, Leaving, Served
<1> QED BY <1>9, <1>10, <1>11, <1>12, <1>13, <1>14, <1>15 DEF Served

\* The fields of a window that has handled a message.
LEMMA HandledFields ==
    ASSUME IInv, NEW w \in DOMAIN wins
    PROVE  /\ Handled(w).queue = Tail(wins[w].queue) /\ Handled(w).alive = wins[w].alive
           /\ Handled(w).network = wins[w].network /\ Handled(w).saved = wins[w].saved
           /\ Handled(w).saves = wins[w].saves
           /\ Cleaned(w).queue = Tail(wins[w].queue) /\ Cleaned(w).alive = wins[w].alive
           /\ Cleaned(w).network = FALSE /\ Cleaned(w).saved = wins[w].saved /\ Cleaned(w).saves = "idle"
<1>1. wins[w] \in Windows(bar.view)
  BY WinTypes
<1> QED BY <1>1 DEF Handled, Cleaned, Windows

\* A window whose network has been deleted is asked for nothing.
LEMMA NoFault ==
    ASSUME IInv, Served, NEW w \in DOMAIN wins, NEW what \in Asks, Turn(w, what)
    PROVE  /\ wins[w].network /\ ~Free(wins[w].queue) /\ ~Unasked /\ Free(appQ)
           /\ Free(Tail(wins[w].queue)) /\ iWindow = w /\ wizards = <<>> /\ ~Working
<1>1. ~Free(wins[w].queue) /\ wins[w].alive
  BY WinHead
<1>2. wins[w].network
  BY <1>1, WinTypes DEF Served, NetworkThere, Unasked
<1>3. Free(appQ) /\ iWindow = w
  BY <1>1 DEF Served, OneAsk, OnlyWindow
<1>4. wizards = <<>>
  BY <1>3, WinTypes DEF Served, NoOther
<1>5. ~Working
  BY <1>4 DEF Working
<1> QED BY <1>1, <1>2, <1>3, <1>4, <1>5, WinHead DEF Served, OneAsk, Unasked

\* SET_AVAIL, SET_NOT_AVAIL: the network is there, unless a connection was lost.
LEMMA SetStatusServes == ASSUME IInv, Served, NEW w \in DOMAIN wins, SetStatus(w) PROVE Served'
<1>1. /\ UNCHANGED <<running, appQ, iWindow, waits, wizards, lost, torn, forced, shortcut>>
      /\ \E a \in {"SET", "DROPPED"} : Turn(w, a)
  BY DEF SetStatus, appVars
<1>2. PICK what \in {"SET", "DROPPED"} : Turn(w, what)
  BY <1>1
<1>3. /\ W(w) \in WinMessages /\ W(w).what = what /\ wins[w].alive
      /\ what = "SET" => wins[w].network /\ Free(Tail(wins[w].queue))
  BY <1>2, WinHead, NoFault DEF Asks
<1>4. CASE ~wins[w].network
  <2>1. wins' = wins /\ late'
    BY <1>2, <1>3, <1>4 DEF SetStatus, Faults
  <2> QED BY <1>1, <2>1, FaultServes
<1>5. CASE wins[w].network
  <2>1. PICK s \in {W(w).status} \cup (IF W(w).status = "notavail" THEN {wins[w].status} ELSE {}),
             update \in {<<>>, <<Msg("NEWS")>>, <<Msg("UPDATE")>>} :
          /\ wins' = [wins EXCEPT ![w] = [Handled(w) EXCEPT !.status = s, !.told = s,
                                                          !.queue = @ \o update \o <<Report(s)>>]]
          /\ update = <<Msg("UPDATE")>> => what = "SET"
          /\ UNCHANGED <<crashed, late>>
    <3>1. \E s \in {W(w).status} \cup (IF W(w).status = "notavail" THEN {wins[w].status} ELSE {}) :
          \E update \in IF W(w).what = "DROPPED" THEN {<<>>, <<Msg("NEWS")>>} ELSE {<<Msg("UPDATE")>>} :
             /\ wins' = [wins EXCEPT ![w] = [Handled(w) EXCEPT !.status = s, !.told = s,
                                                             !.queue = @ \o update \o <<Report(s)>>]]
             /\ UNCHANGED <<crashed, late>>
      BY <1>5 DEF SetStatus, Becomes
    <3>2. <<Msg("UPDATE")>> # <<>> /\ <<Msg("UPDATE")>> # <<Msg("NEWS")>>
      BY DEF Msg
    <3> QED BY <1>3, <3>1, <3>2
  <2>2. s \in Statuses
    <3>1. W(w).status \in Statuses
      BY <1>3, WinFacts
    <3>2. wins[w].status \in Statuses
      BY WinTypes DEF Windows
    <3> QED BY <2>1, <3>1, <3>2
  <2> DEFINE x == [Handled(w) EXCEPT !.status = s, !.told = s, !.queue = @ \o update \o <<Report(s)>>]
             t == Tail(wins[w].queue)  m == Report(s)
  <2>3. m \in WinMessages /\ m.what = "CHSTATE"
    BY <2>2 DEF WinMessages, Report
  <2>4. /\ x.queue = t \o update \o <<m>> /\ x.alive = wins[w].alive /\ x.network = wins[w].network
        /\ x.saved = wins[w].saved /\ x.saves = wins[w].saves
    BY WinTypes DEF Handled, Windows
  <2>5. wins' = [wins EXCEPT ![w] = x]
    BY <2>1
  <2>6. /\ t \in Seq(WinMessages) /\ One(t) /\ Orderly(t)
        /\ \A a : Has(wins[w].queue, a) <=> what = a \/ Has(t, a)
    BY <1>2, WinHead DEF Served, OneAsk
  <2>7. x.saves # "idle" => x.saved
    BY <2>4 DEF Served, AllSaved
  <2> HIDE DEF x, t, m
  <2>8. /\ One(x.queue) /\ Orderly(x.queue)
        /\ \A a : Has(x.queue, a) => a \in {"CHSTATE", "NEWS", "UPDATE"} \/ Has(t, a)
        /\ \A a : Has(t, a) => Has(x.queue, a)
    <3>1. CASE update = <<>>
      <4>1. x.queue = Append(t, m)
        BY <2>3, <2>4, <2>6, <3>1, AppendTwo
      <4> QED BY <2>3, <2>6, <4>1, NoteFacts
    <3>2. ASSUME NEW u \in WinMessages, update = <<u>>, u.what \in {"NEWS", "UPDATE"},
                 u.what = "UPDATE" => Free(t)
          PROVE  <2>8!1 /\ <2>8!2 /\ <2>8!3
      <4>1. x.queue = Append(Append(t, u), m)
        BY <2>3, <2>4, <2>6, <3>2, AppendTwo
      <4>2. /\ Append(t, u) \in Seq(WinMessages) /\ One(Append(t, u)) /\ Orderly(Append(t, u))
            /\ \A a : Has(Append(t, u), a) <=> u.what = a \/ Has(t, a)
        BY <2>6, <3>2, NoteFacts
      <4> DEFINE r == Append(t, u)
      <4> HIDE DEF r
      <4>3. /\ One(Append(r, m)) /\ Orderly(Append(r, m))
            /\ \A a : Has(Append(r, m), a) <=> m.what = a \/ Has(r, a)
        BY <2>3, <4>2, NoteFacts DEF r
      <4> QED BY <2>3, <3>2, <4>1, <4>2, <4>3 DEF r
    <3>3. /\ Msg("NEWS") \in WinMessages /\ Msg("NEWS").what = "NEWS"
          /\ Msg("UPDATE") \in WinMessages /\ Msg("UPDATE").what = "UPDATE"
      BY PlainWin DEF Msg
    <3>4. update = <<Msg("UPDATE")>> => Free(t)
      BY <1>3, <2>1 DEF t
    <3>5. CASE update = <<Msg("NEWS")>>
      <4>1. Msg("NEWS").what # "UPDATE"
        BY <3>3
      <4> QED BY <3>2, <3>3, <3>5, <4>1
    <3>6. CASE update = <<Msg("UPDATE")>>
      BY <3>2, <3>3, <3>4, <3>6
    <3> QED BY <2>1, <3>1, <3>5, <3>6
  <2>9. \A a \in Asks \cup {"QUIT"} : a \notin {"CHSTATE", "NEWS", "UPDATE"}
    BY DEF Asks
  <2> QED BY <1>1, <1>3, <1>5, <2>1, <2>4, <2>5, <2>6, <2>7, <2>8, <2>9, CalmWindow
<1> QED BY <1>4, <1>5, WinTypes

\* The message is one that a window handles and that asks for nothing.
LEMMA HandledServes ==
    ASSUME IInv, Served, NEW w \in DOMAIN wins, NEW what \in {"UPDATE", "NEWS", "CHSTATE", "SHOW"}, Turn(w, what),
           wins' = [wins EXCEPT ![w] = Handled(w)],
           UNCHANGED <<running, appQ, iWindow, waits, wizards, crashed, late, lost, torn, forced, shortcut>>
    PROVE  Served'
<1> DEFINE t == Tail(wins[w].queue)
<1>1. /\ \A a : Has(wins[w].queue, a) <=> what = a \/ Has(t, a)
      /\ One(t) /\ Orderly(t) /\ wins[w].alive
  BY WinHead DEF Served, OneAsk
<1>2. /\ Handled(w).queue = t /\ Handled(w).alive = wins[w].alive
      /\ Handled(w).network = wins[w].network /\ Handled(w).saved = wins[w].saved
      /\ Handled(w).saves = wins[w].saves
  BY HandledFields
<1>3. Handled(w).saves # "idle" => Handled(w).saved
  BY <1>2 DEF Served, AllSaved
<1> HIDE DEF t
<1> QED BY <1>1, <1>2, <1>3, CalmWindow DEF Asks

\* UPDATE_STATUS, UPDATE_LIST: what the window told itself comes while its network is there.
LEMMA UpdatesServe == ASSUME IInv, Served, NEW w \in DOMAIN wins, Updates(w) PROVE Served'
<1>1. /\ UNCHANGED <<running, appQ, iWindow, waits, wizards, lost, torn, forced, shortcut>>
      /\ \E a \in {"UPDATE", "NEWS"} : Turn(w, a)
  BY DEF Updates, appVars
<1>2. PICK what \in {"UPDATE", "NEWS"} : Turn(w, what)
  BY <1>1
<1>3. CASE wins[w].network
  <2>1. wins' = [wins EXCEPT ![w] = Handled(w)] /\ UNCHANGED <<crashed, late>>
    BY <1>3 DEF Updates, Becomes
  <2> QED BY <1>1, <1>2, <2>1, HandledServes
<1>4. CASE ~wins[w].network
  <2>1. W(w).what = what /\ wins[w].alive /\ Has(wins[w].queue, what)
    BY <1>2, WinHead
  <2>2. what = "NEWS"
    BY <1>4, <2>1 DEF Served, NetworkThere
  <2>3. wins' = wins /\ late'
    BY <1>4, <2>1, <2>2 DEF Updates, Faults
  <2> QED BY <1>1, <2>3, FaultServes
<1> QED BY <1>3, <1>4

\* BGDESKBAR_CHSTATE, and what the window shows.
LEMMA CalmServes == ASSUME IInv, Served, NEW w \in DOMAIN wins, TellDeskbar(w) \/ Show(w) PROVE Served'
<1>1. /\ wins' = [wins EXCEPT ![w] = Handled(w)]
      /\ UNCHANGED <<running, appQ, iWindow, waits, wizards, crashed, late, lost, torn, forced, shortcut>>
  BY DEF TellDeskbar, Show, Becomes, appVars, histVars, pastVars
<1>2. PICK what \in {"CHSTATE", "SHOW"} : Turn(w, what)
  BY DEF TellDeskbar, Show
<1> QED BY <1>1, <1>2, HandledServes

\* NetworkHandler: what a session has to say asks for nothing.
LEMMA PostsServe == ASSUME IInv, Served, NEW w \in DOMAIN wins, HandlerPosts(w) PROVE Served'
<1>1. /\ wins[w].alive /\ wins[w].network /\ ~crashed
      /\ UNCHANGED <<running, appQ, iWindow, waits, wizards, crashed, late, lost, torn, forced, shortcut>>
  BY DEF HandlerPosts, Acts, Alive, appVars, pastVars
<1> DEFINE q == wins[w].queue
<1>2. q \in Seq(WinMessages) /\ One(q) /\ Orderly(q) /\ wins[w] \in Windows(bar.view)
  BY WinTypes DEF Served, OneAsk
<1>3. wins[w].saves # "idle" => wins[w].saved
  BY DEF Served, AllSaved
<1>4. ASSUME NEW x, wins' = [wins EXCEPT ![w] = x], x.alive = wins[w].alive, x.network = wins[w].network,
             x.saved = wins[w].saved, x.saves = wins[w].saves,
             NEW m \in WinMessages, NEW n \in WinMessages,
             m.what \in {"NEWS", "DROPPED"}, n.what = "CHSTATE",
             x.queue = Append(q, m) \/ x.queue = Append(Append(q, m), n)
      PROVE  Served'
  <2>1. /\ Append(q, m) \in Seq(WinMessages) /\ One(Append(q, m)) /\ Orderly(Append(q, m))
        /\ \A a : Has(Append(q, m), a) <=> m.what = a \/ Has(q, a)
    BY <1>2, <1>4, NoteFacts
  <2> DEFINE r == Append(q, m)
  <2> HIDE DEF r, q
  <2>2. /\ One(Append(r, n)) /\ Orderly(Append(r, n))
        /\ \A a : Has(Append(r, n), a) <=> n.what = a \/ Has(r, a)
    BY <1>4, <2>1, NoteFacts DEF r
  <2>3. /\ One(x.queue) /\ Orderly(x.queue)
        /\ \A a : Has(x.queue, a) => a \in {"NEWS", "DROPPED", "CHSTATE"} \/ Has(q, a)
        /\ \A a : Has(q, a) => Has(x.queue, a)
    BY <1>4, <2>1, <2>2 DEF r
  <2>4. \A a \in Asks \cup {"QUIT", "UPDATE"} : a \notin {"NEWS", "DROPPED", "CHSTATE"}
    BY DEF Asks
  <2> QED BY <1>1, <1>3, <1>4, <2>3, <2>4, CalmWindow DEF q
<1>5. PICK s \in {wins[w].status, "notavail"} :
         \/ Becomes(w, [wins[w] EXCEPT !.status = s, !.queue = Append(@, Msg("NEWS"))])
         \/ Becomes(w, [wins[w] EXCEPT !.told = wins[w].status,
                                       !.queue = @ \o <<Msg("NEWS"), Report(wins[w].status)>>])
         \/ Becomes(w, [wins[w] EXCEPT !.status = s,
                                       !.queue = Append(@, [what |-> "DROPPED", status |-> "notavail"])])
  BY DEF HandlerPosts
<1> DEFINE news == Msg("NEWS")  said == Report(wins[w].status)
           gone == [what |-> "DROPPED", status |-> "notavail"]
<1>6. /\ news \in WinMessages /\ news.what = "NEWS" /\ said \in WinMessages /\ said.what = "CHSTATE"
      /\ gone \in WinMessages /\ gone.what = "DROPPED"
  BY <1>2, PlainWin DEF Msg, Report, WinMessages, Windows
<1>7. q \o <<news, said>> = Append(Append(q, news), said)
  BY <1>2, <1>6, AppendTwo
<1> HIDE DEF news, said, gone
<1>8. CASE Becomes(w, [wins[w] EXCEPT !.status = s, !.queue = Append(@, news)])
  <2> DEFINE x == [wins[w] EXCEPT !.status = s, !.queue = Append(@, news)]
  <2>1. /\ x.alive = wins[w].alive /\ x.network = wins[w].network /\ x.saved = wins[w].saved
        /\ x.saves = wins[w].saves /\ x.queue = Append(q, news)
    BY <1>2 DEF Windows
  <2>2. wins' = [wins EXCEPT ![w] = x]
    BY <1>8 DEF Becomes
  <2> HIDE DEF x
  <2> QED BY <1>4, <1>6, <2>1, <2>2
<1>9. CASE Becomes(w, [wins[w] EXCEPT !.told = wins[w].status, !.queue = @ \o <<news, said>>])
  <2> DEFINE x == [wins[w] EXCEPT !.told = wins[w].status, !.queue = @ \o <<news, said>>]
  <2>1. /\ x.alive = wins[w].alive /\ x.network = wins[w].network /\ x.saved = wins[w].saved
        /\ x.saves = wins[w].saves /\ x.queue = Append(Append(q, news), said)
    BY <1>2, <1>7 DEF Windows
  <2>2. wins' = [wins EXCEPT ![w] = x]
    BY <1>9 DEF Becomes
  <2> HIDE DEF x
  <2> QED BY <1>4, <1>6, <2>1, <2>2
<1>10. CASE Becomes(w, [wins[w] EXCEPT !.status = s, !.queue = Append(@, gone)])
  <2> DEFINE x == [wins[w] EXCEPT !.status = s, !.queue = Append(@, gone)]
  <2>1. /\ x.alive = wins[w].alive /\ x.network = wins[w].network /\ x.saved = wins[w].saved
        /\ x.saves = wins[w].saves /\ x.queue = Append(q, gone)
    BY <1>2 DEF Windows
  <2>2. wins' = [wins EXCEPT ![w] = x]
    BY <1>10 DEF Becomes
  <2> HIDE DEF x
  <2> QED BY <1>4, <1>6, <2>1, <2>2
<1> QED BY <1>5, <1>8, <1>9, <1>10 DEF news, said, gone

\* Profile::Save: what is being written is what there is to be saved.
LEMMA SavesServe == ASSUME IInv, Served, NEW w \in DOMAIN wins, SavesProfile(w) PROVE Served'
<1> DEFINE x == [wins[w] EXCEPT !.saves = Phase(wins[w].profile),
                                !.saved = (wins[w].saves = "idle" \/ wins[w].saved)]
<1>1. /\ wins' = [wins EXCEPT ![w] = x]
      /\ UNCHANGED <<running, appQ, iWindow, waits, wizards, crashed, late, lost, torn, forced, shortcut>>
  BY DEF SavesProfile, Becomes, appVars, histVars, pastVars
<1>2. /\ x.alive = wins[w].alive /\ x.network = wins[w].network /\ x.queue = wins[w].queue
      /\ x.saved = (wins[w].saves = "idle" \/ wins[w].saved)
  BY WinTypes DEF Windows
<1> HIDE DEF x
<1>3. wins[w].alive
  BY DEF SavesProfile, Turn, Alive
<1>4. x.saved
  BY <1>2 DEF Served, AllSaved
<1>5. One(x.queue) /\ Orderly(x.queue)
  BY <1>2 DEF Served, OneAsk
<1> QED BY <1>1, <1>2, <1>3, <1>4, <1>5, CalmWindow

\* PROFILE_SWITCH, OPEN_PROFILE_WIZARD: what is asked goes on to BeGadu.
LEMMA TellAppServes == ASSUME IInv, Served, NEW w \in DOMAIN wins, TellApp(w) PROVE Served'
<1>1. PICK what \in Changes : Turn(w, what)
  BY DEF TellApp, Changes
<1>2. /\ wins' = [wins EXCEPT ![w] = Handled(w)] /\ appQ' = Append(appQ, W(w))
      /\ UNCHANGED <<running, iWindow, waits, wizards, crashed, late, lost, torn, forced, shortcut>>
  BY DEF TellApp, Becomes, histVars, pastVars
<1> DEFINE t == Tail(wins[w].queue)
<1>3. /\ what \in Asks /\ what # "CLOSE" /\ what # "QUIT" /\ what # "B_QUIT_REQUESTED" /\ what # "UPDATE"
      /\ what # "PROFILE_CREATED" /\ what # "CONFIG_OK" /\ what # "BEGG_QUIT"
  BY DEF Changes, Asks
<1>4. /\ W(w) \in WinMessages /\ W(w).what = what /\ wins[w].alive /\ running
      /\ \A a : Has(wins[w].queue, a) <=> what = a \/ Has(t, a)
      /\ Free(t) /\ One(t) /\ Orderly(t)
  BY <1>1, <1>3, WinHead DEF Served, OneAsk
<1>5. /\ wins[w].network /\ ~Free(wins[w].queue) /\ ~Unasked /\ Free(appQ) /\ iWindow = w /\ wizards = <<>>
      /\ ~Working
  BY <1>1, <1>3, NoFault
<1>6. ~Has(wins[w].queue, "CLOSE") /\ ~Has(t, "CLOSE")
  BY <1>3, <1>4, AskFacts DEF Asks
<1>7. waits.what \notin Changes
  BY <1>5, <1>6 DEF Served, InChange
<1>8. /\ \A a : Has(appQ', a) <=> what = a \/ Has(appQ, a)
      /\ One(appQ')
  <2>1. W(w) \in AppMessages
    BY <1>1, <1>4, WinFacts DEF Changes
  <2> QED BY <1>2, <1>4, <1>5, <2>1, WinTypes, AppendFacts DEF Served, OneAsk
<1>9. /\ DOMAIN wins' = DOMAIN wins /\ wins'[w] = Handled(w)
      /\ \A v \in DOMAIN wins : v # w => wins'[v] = wins[v]
  BY <1>2, WinSet
<1>10. /\ Handled(w).queue = t /\ Handled(w).alive = wins[w].alive
       /\ Handled(w).network = wins[w].network /\ Handled(w).saved = wins[w].saved
       /\ Handled(w).saves = wins[w].saves
  BY HandledFields
<1> HIDE DEF t
<1>11. \A v \in DOMAIN wins : v # w => ~wins[v].alive /\ Free(wins[v].queue) /\ ~wins'[v].alive
  BY <1>5, <1>9, EmptyFacts, WinTypes DEF Served, OnlyWindow
<1>12. \A v \in DOMAIN wins' : Free(wins'[v].queue)
  BY <1>4, <1>9, <1>10, <1>11
<1>13. \A v \in DOMAIN wins : /\ wins'[v].alive = wins[v].alive /\ wins'[v].network = wins[v].network
                              /\ wins'[v].saved = wins[v].saved /\ wins'[v].saves = wins[v].saves
  BY <1>9, <1>10
<1>14. \A v \in DOMAIN wins : /\ Has(wins'[v].queue, "CLOSE") <=> Has(wins[v].queue, "CLOSE")
                              /\ Has(wins'[v].queue, "QUIT") <=> Has(wins[v].queue, "QUIT")
                              /\ One(wins'[v].queue) /\ Orderly(wins'[v].queue)
  BY <1>3, <1>4, <1>9, <1>10 DEF Served, OneAsk
<1>15. OnlyWindow'
  BY <1>9, <1>13, <1>2, <1>10, <1>4 DEF OnlyWindow, Served
<1>16. OneAsk' /\ ~Working'
  BY <1>2, <1>5, <1>8, <1>9, <1>12, <1>14 DEF OneAsk, Working
<1>17. WindowThere'
  BY <1>2, <1>4, <1>5, <1>9, <1>13, <1>14, WinTypes DEF WindowThere, Served
<1>18. InChange' /\ NoOther' /\ (crashed' => late')
  BY <1>2, <1>3, <1>5, <1>7, <1>8, WinTypes DEF InChange, NoOther, Served
<1>19. NetworkThere'
  BY <1>5, <1>9, <1>11, <1>13 DEF NetworkThere
<1>20. AllSaved'
  <2>1. ~forced /\ ~shortcut => ~Leaving /\ ~Leaving'
    BY <1>2, <1>3, <1>5, <1>8 DEF AllSaved, Leaving, Served
  <2> QED BY <1>2, <1>9, <1>13, <1>14, <2>1 DEF AllSaved, Served
<1>21. AllWhole'
  BY <1>2, <1>16 DEF AllWhole, Served
<1> QED BY <1>15, <1>16, <1>17, <1>18, <1>19, <1>20, <1>21 DEF Served

\* CLOSE_MAIN_WINDOW, BEGG_QUIT: the network is deleted and the profile saved,
\* and nothing that is asked waits any more.
LEMMA CleanServes == ASSUME IInv, Served, NEW w \in DOMAIN wins, Close(w) \/ QuitProgram(w) PROVE Served'
<1>1. PICK what \in Savers :
        /\ Turn(w, what)
        /\ (what = "CLOSE" /\ Close(w)) \/ (what = "BEGG_QUIT" /\ QuitProgram(w))
  BY DEF Close, QuitProgram, Savers
<1> DEFINE t == Tail(wins[w].queue)
<1>2. what \in Asks /\ what # "QUIT" /\ what # "B_QUIT_REQUESTED" /\ what # "UPDATE" /\ what \in {"CLOSE", "BEGG_QUIT"}
  BY DEF Asks, Savers
<1>3. /\ wins[w].alive /\ running /\ t \in Seq(WinMessages)
      /\ \A a : Has(wins[w].queue, a) <=> what = a \/ Has(t, a)
      /\ Free(t) /\ One(t) /\ Orderly(t) /\ ~Has(wins[w].queue, "UPDATE")
  BY <1>1, <1>2, WinHead DEF Served, OneAsk
<1>4. /\ wins[w].network /\ ~Free(wins[w].queue) /\ ~Unasked /\ Free(appQ) /\ iWindow = w /\ wizards = <<>>
      /\ ~Working
  BY <1>1, <1>2, NoFault
<1>5. /\ wins' = [wins EXCEPT ![w] = Cleaned(w)] /\ wins[w].saves = "erased"
      /\ UNCHANGED <<running, iWindow, waits, wizards, crashed, late, lost, torn, forced, shortcut>>
      /\ (what = "CLOSE" /\ appQ' = appQ) \/ (what = "BEGG_QUIT" /\ appQ' = Append(appQ, Msg("B_QUIT_REQUESTED")))
  <2>1. CASE what = "CLOSE" /\ Close(w)
    BY <1>4, <2>1 DEF Close, Becomes, Written, appVars
  <2>2. CASE what = "BEGG_QUIT" /\ QuitProgram(w)
    BY <1>4, <2>2 DEF QuitProgram, Becomes, Written
  <2> QED BY <1>1, <2>1, <2>2
<1>6. /\ DOMAIN wins' = DOMAIN wins /\ wins'[w] = Cleaned(w)
      /\ \A v \in DOMAIN wins : v # w => wins'[v] = wins[v]
  BY <1>5, WinSet
<1>7. /\ Cleaned(w).queue = t /\ Cleaned(w).alive = wins[w].alive
      /\ Cleaned(w).network = FALSE /\ Cleaned(w).saved = TRUE /\ Cleaned(w).saves = "idle"
  BY <1>5, HandledFields, WinTypes DEF Served, AllSaved
<1>8. ~Has(t, "CLOSE") /\ ~Has(t, "BEGG_QUIT") /\ ~Has(t, "UPDATE")
  BY <1>3, AskFacts DEF Asks
<1>9. /\ what = "CLOSE" => waits # Nothing
      /\ what = "BEGG_QUIT" => waits.what \notin Changes
  <2>1. what = "CLOSE" => waits # Nothing
    BY <1>3 DEF Served, WindowThere
  <2>2. what = "BEGG_QUIT" => ~Has(wins[w].queue, "CLOSE")
    BY <1>3, <1>8
  <2> QED BY <1>4, <2>1, <2>2 DEF Served, InChange
<1>10. /\ Free(appQ') /\ One(appQ')
       /\ \A a : Has(appQ', a) <=> Has(appQ, a) \/ (what = "BEGG_QUIT" /\ a = "B_QUIT_REQUESTED")
  <2>1. Msg("B_QUIT_REQUESTED") \in Fitting /\ Msg("B_QUIT_REQUESTED").what = "B_QUIT_REQUESTED"
    BY Plain DEF Msg
  <2>2. appQ \in Seq(Fitting) /\ One(appQ)
    BY WinTypes DEF Served, OneAsk
  <2> DEFINE m == Msg("B_QUIT_REQUESTED")
  <2>3. /\ Free(Append(appQ, m)) /\ One(Append(appQ, m))
        /\ \A a : Has(Append(appQ, m), a) <=> m.what = a \/ Has(appQ, a)
    BY <1>4, <2>1, <2>2, AppendFacts DEF Asks
  <2> QED BY <1>4, <1>5, <2>1, <2>2, <2>3
<1> HIDE DEF t
<1>11. \A v \in DOMAIN wins : v # w => ~wins[v].alive /\ Free(wins[v].queue)
  BY <1>4, EmptyFacts DEF Served, OnlyWindow
<1>12. (\A v \in DOMAIN wins' : Free(wins'[v].queue)) /\ ~Working' /\ Unasked'
  BY <1>3, <1>4, <1>5, <1>6, <1>7, <1>10, <1>11 DEF Unasked, Working
<1>13. \A v \in DOMAIN wins : /\ wins'[v].alive = wins[v].alive
                              /\ Has(wins'[v].queue, "CLOSE") => Has(wins[v].queue, "CLOSE")
                              /\ Has(wins'[v].queue, "QUIT") <=> Has(wins[v].queue, "QUIT")
                              /\ One(wins'[v].queue) /\ Orderly(wins'[v].queue)
  BY <1>2, <1>3, <1>6, <1>7 DEF Served, OneAsk
<1>14. OnlyWindow'
  BY <1>3, <1>4, <1>5, <1>6, <1>7 DEF OnlyWindow, Served
<1>15. OneAsk'
  BY <1>6, <1>10, <1>12, <1>13 DEF OneAsk
<1>16. WindowThere'
  BY <1>3, <1>4, <1>5, <1>6, <1>13, WinTypes DEF WindowThere, Served
<1>17. \A v \in DOMAIN wins : wins'[v].alive => wins'[v].saved
  BY <1>6, <1>7, <1>11
<1>18. InChange' /\ NoOther' /\ (crashed' => late')
  BY <1>4, <1>5, <1>6, <1>10, <1>12, <1>17, WinTypes DEF InChange, NoOther, Served
<1>19. NetworkThere'
  <2>1. waits' # Nothing \/ Has(appQ', "B_QUIT_REQUESTED")
    BY <1>2, <1>5, <1>9, <1>10
  <2> QED BY <1>6, <1>7, <1>8, <1>11, <1>12, <1>13, <2>1 DEF NetworkThere
<1>20. AllSaved'
  <2>1. ASSUME ~forced, ~shortcut PROVE ~Leaving /\ (Leaving' => what = "BEGG_QUIT")
    BY <1>4, <1>5, <1>10, <2>1 DEF AllSaved, Leaving, Served
  <2>2. \A v \in DOMAIN wins : Has(wins'[v].queue, "QUIT") => wins'[v].saved
    BY <1>6, <1>7, <1>11, EmptyFacts DEF Served, OnlyWindow
  <2>3. \A v \in DOMAIN wins : wins'[v].saves # "idle" => wins'[v].saved
    BY <1>6, <1>7 DEF Served, AllSaved
  <2> QED BY <1>5, <1>6, <1>9, <1>12, <1>17, <2>1, <2>2, <2>3 DEF AllSaved, Served
<1>21. AllWhole'
  BY <1>5, <1>12 DEF AllWhole, Served
<1> QED BY <1>14, <1>15, <1>16, <1>18, <1>19, <1>20, <1>21 DEF Served

\* Quit: the window had been closed before, and has saved its profile.
LEMMA QuitServes == ASSUME IInv, Served, NEW w \in DOMAIN wins, Quit(w) PROVE Served'
<1> DEFINE x == [Handled(w) EXCEPT !.alive = FALSE, !.queue = <<>>]
<1>1. /\ Turn(w, "QUIT") /\ running /\ wins' = [wins EXCEPT ![w] = x] /\ lost' = (lost \/ ~wins[w].saved)
      /\ UNCHANGED <<running, appQ, iWindow, waits, wizards, crashed, late, torn, forced, shortcut>>
  BY DEF Quit, Becomes, Turn, appVars, pastVars
<1>2. x.alive = FALSE /\ x.queue = <<>> /\ x.saves = wins[w].saves /\ x.saved = wins[w].saved
  BY WinTypes DEF Handled, Windows
<1> HIDE DEF x
<1>3. /\ DOMAIN wins' = DOMAIN wins /\ wins'[w] = x
      /\ \A v \in DOMAIN wins : v # w => wins'[v] = wins[v]
  BY <1>1, WinSet
<1>4. Has(wins[w].queue, "QUIT") /\ ~Has(wins[w].queue, "CLOSE")
  BY <1>1, WinHead DEF Served, OneAsk
<1>5. waits # Nothing
  BY <1>4 DEF Served, WindowThere
<1>6. \A v \in DOMAIN wins : /\ wins'[v].alive => wins[v].alive /\ wins'[v] = wins[v]
                             /\ Free(wins[v].queue) => Free(wins'[v].queue)
                             /\ One(wins'[v].queue) /\ Orderly(wins'[v].queue)
                             /\ Has(wins'[v].queue, "QUIT") => wins'[v] = wins[v]
                             /\ wins'[v].saves # "idle" => wins'[v].saved
  BY <1>2, <1>3, EmptyFacts DEF Served, OneAsk, AllSaved
<1>7. Unasked => Unasked'
  BY <1>1, <1>3, <1>6 DEF Unasked, Working
<1>8. OnlyWindow'
  BY <1>1, <1>2, <1>3 DEF OnlyWindow, Served
<1>9. OneAsk'
  BY <1>1, <1>3, <1>6 DEF OneAsk, Served, Working
<1>10. WindowThere'
  BY <1>1, <1>5 DEF WindowThere, Served
<1>11. InChange'
  BY <1>1, <1>2, <1>3, EmptyFacts DEF InChange, Served
<1>12. NoOther' /\ AllWhole' /\ (crashed' => late')
  BY <1>1 DEF NoOther, AllWhole, Working, Served
<1>13. NetworkThere'
  BY <1>1, <1>3, <1>6, <1>7 DEF NetworkThere, Served
<1>14. AllSaved'
  BY <1>1, <1>3, <1>4, <1>6, <1>7 DEF AllSaved, Leaving, Served
<1> QED BY <1>8, <1>9, <1>10, <1>11, <1>12, <1>13, <1>14 DEF Served

-------------------------------------------------------------------------------
\* What BeGadu handles, what waits behind it, and the window that is there.
LEMMA AppHead ==
    ASSUME IInv, Served, NEW what, Handles(what)
    PROVE  /\ running /\ waits = Nothing /\ waits.what = "NOTHING" /\ M \in Fitting /\ M.what = what
           /\ Tail(appQ) \in Seq(Fitting) /\ One(Tail(appQ))
           /\ \A a : Has(appQ, a) <=> what = a \/ Has(Tail(appQ), a)
           /\ iWindow = NoWindow \/ (iWindow \in DOMAIN wins /\ wins[iWindow].alive)
           /\ \A v \in DOMAIN wins : /\ ~Has(wins[v].queue, "CLOSE") /\ ~Has(wins[v].queue, "QUIT")
                                     /\ wins[v].alive \/ wins[v].queue = <<>>
                                     /\ wins[v].alive <=> v = iWindow
           /\ what \in Asks =>
                /\ Free(Tail(appQ)) /\ ~Unasked /\ ~Working /\ \A v \in DOMAIN wins : Free(wins[v].queue)
                /\ ~forced /\ ~shortcut => ~Leaving
                /\ \A v \in DOMAIN wins : wins[v].alive => wins[v].network
<1>1. running /\ waits = Nothing /\ M \in Fitting /\ M.what = what /\ Tail(appQ) \in Seq(Fitting)
  BY Turns
<1>2. appQ \in Seq(Fitting) /\ appQ # <<>> /\ M = Head(appQ)
  BY WinTypes DEF Handles, M
<1>3. /\ \A a : Has(appQ, a) <=> M.what = a \/ Has(Tail(appQ), a)
      /\ Free(appQ) <=> M.what \notin Asks /\ Free(Tail(appQ))
      /\ One(appQ) <=> One(Tail(appQ)) /\ (M.what \in Asks => Free(Tail(appQ)))
  BY <1>2, TailFacts
<1>4. One(appQ)
  BY DEF Served, OneAsk
<1>5. iWindow = NoWindow \/ (iWindow \in DOMAIN wins /\ wins[iWindow].alive)
  BY <1>1, WinTypes DEF Served, WindowThere
<1>6. \A v \in DOMAIN wins : /\ ~Has(wins[v].queue, "CLOSE") /\ ~Has(wins[v].queue, "QUIT")
                             /\ wins[v].alive \/ wins[v].queue = <<>>
                             /\ wins[v].alive <=> v = iWindow
  BY <1>1, <1>5, WinTypes DEF Served, WindowThere, OnlyWindow
<1>7. ASSUME what \in Asks
      PROVE  /\ Free(Tail(appQ)) /\ ~Unasked /\ ~Working /\ \A v \in DOMAIN wins : Free(wins[v].queue)
             /\ ~forced /\ ~shortcut => ~Leaving
             /\ \A v \in DOMAIN wins : wins[v].alive => wins[v].network
  <2>1. ~Free(appQ) /\ Free(Tail(appQ))
    BY <1>1, <1>3, <1>4, <1>7
  <2> QED BY <2>1, WinTypes DEF Served, OneAsk, Unasked, AllSaved, NetworkThere
<1>8. waits.what = "NOTHING"
  BY <1>1 DEF Nothing, Msg
<1> QED BY <1>1, <1>3, <1>4, <1>5, <1>6, <1>7, <1>8

\* Who leaves, and is not made to leave by the system, leaves no wizard at work.
LEMMA NoneWorks ==
    ASSUME Served, ~forced, Has(appQ, "B_QUIT_REQUESTED") \/ waits # Nothing PROVE ~Working
BY DEF Served, AllWhole

\* ADD_MESSENGER, PROFILE_SELECT: nothing is asked.
LEMMA TellsServe == ASSUME IInv, Served, AddMessenger \/ ProfileSelect PROVE Served'
<1>1. PICK what \in {"ADD_MESSENGER", "PROFILE_SELECT"} : Handles(what)
  BY DEF AddMessenger, ProfileSelect
<1>2. appQ' = Tail(appQ) /\ UNCHANGED <<running, iWindow, waits, wizards, crashed, late, lost, torn, forced, shortcut>>
  BY DEF AddMessenger, ProfileSelect, Taken, histVars, pastVars
<1>3. /\ DOMAIN wins' = DOMAIN wins
      /\ \A v \in DOMAIN wins : /\ wins'[v].alive = wins[v].alive /\ wins'[v].network = wins[v].network
                                /\ wins'[v].saved = wins[v].saved /\ wins'[v].saves = wins[v].saves
                                /\ wins'[v].queue = wins[v].queue
  <2>1. CASE wins' = wins
    BY <2>1
  <2>2. CASE iWindow # NoWindow /\ wins' = [wins EXCEPT ![iWindow].messenger = M.view, ![iWindow].told = None]
    <3> DEFINE x == [wins[iWindow] EXCEPT !.messenger = M.view, !.told = None]
    <3>1. iWindow \in DOMAIN wins
      BY <2>2, WinTypes
    <3>2. wins' = [wins EXCEPT ![iWindow] = x]
      BY <2>2, <3>1, WinTypes DEF IInv, WinsOk
    <3>3. /\ x.alive = wins[iWindow].alive /\ x.network = wins[iWindow].network
          /\ x.saved = wins[iWindow].saved /\ x.saves = wins[iWindow].saves /\ x.queue = wins[iWindow].queue
      BY <3>1, WinTypes DEF Windows
    <3> HIDE DEF x
    <3> QED BY <3>1, <3>2, <3>3, WinSet
  <2> QED BY <2>1, <2>2 DEF AddMessenger, ProfileSelect
<1>4. what \notin Asks \cup {"B_QUIT_REQUESTED"}
  BY DEF Asks
<1>5. (Working' <=> Working) /\ (crashed' => late')
  BY <1>2 DEF Working, Served
<1> QED BY <1>1, <1>2, <1>3, <1>4, <1>5, AppHead, CalmApp

\* The window is given one message more.
LEMMA GivenFacts ==
    ASSUME IInv, NEW w \in DOMAIN wins, NEW m \in WinMessages, wins' = [wins EXCEPT ![w].queue = Append(@, m)]
    PROVE  /\ DOMAIN wins' = DOMAIN wins
           /\ \A v \in DOMAIN wins : v # w => wins'[v] = wins[v]
           /\ \A v \in DOMAIN wins : /\ wins'[v].alive = wins[v].alive /\ wins'[v].network = wins[v].network
                                     /\ wins'[v].saved = wins[v].saved /\ wins'[v].saves = wins[v].saves
           /\ \A a : Has(wins'[w].queue, a) <=> m.what = a \/ Has(wins[w].queue, a)
           /\ Free(wins'[w].queue) <=> m.what \notin Asks /\ Free(wins[w].queue)
           /\ One(wins'[w].queue) <=> One(wins[w].queue) /\ (m.what \in Asks => Free(wins[w].queue))
           /\ /\ Orderly(wins[w].queue) /\ (m.what = "CLOSE" => ~Has(wins[w].queue, "QUIT"))
              /\ m.what # "UPDATE"
              => Orderly(wins'[w].queue)
<1> DEFINE q == wins[w].queue  x == [wins[w] EXCEPT !.queue = Append(q, m)]
<1>1. wins' = [wins EXCEPT ![w] = x]
  OBVIOUS
<1>2. /\ x.alive = wins[w].alive /\ x.network = wins[w].network /\ x.saved = wins[w].saved
      /\ x.saves = wins[w].saves /\ x.queue = Append(q, m) /\ q \in Seq(WinMessages)
  BY WinTypes DEF Windows
<1> HIDE DEF x, q
<1>3. wins'[w] = x /\ DOMAIN wins' = DOMAIN wins /\ \A v \in DOMAIN wins : v # w => wins'[v] = wins[v]
  BY <1>1, WinSet
<1>4. /\ \A a : Has(Append(q, m), a) <=> m.what = a \/ Has(q, a)
      /\ Free(Append(q, m)) <=> m.what \notin Asks /\ Free(q)
      /\ One(Append(q, m)) <=> One(q) /\ (m.what \in Asks => Free(q))
      /\ /\ Orderly(q) /\ (m.what = "CLOSE" => ~Has(q, "QUIT"))
         /\ m.what = "UPDATE" => \A a \in Savers : ~Has(q, a)
         => Orderly(Append(q, m))
  BY <1>2, AppendFacts
<1> QED BY <1>2, <1>3, <1>4 DEF q

\* SET_AVAIL, SET_NOT_AVAIL, BEGG_QUIT and the rest that is for the window.
LEMMA GivenServes ==
    ASSUME IInv, Served, NEW what \in {"SET", "SHOW", "BEGG_QUIT"}, Handles(what), iWindow # NoWindow,
           ToWindow(M), appQ' = Tail(appQ),
           UNCHANGED <<running, iWindow, waits, wizards, crashed, late, lost, torn, forced, shortcut>>
    PROVE  Served'
<1> DEFINE t == Tail(appQ)
<1>1. /\ running /\ waits = Nothing /\ waits.what = "NOTHING" /\ M \in Fitting /\ M.what = what
      /\ One(t)
      /\ \A a : Has(appQ, a) <=> what = a \/ Has(t, a)
      /\ iWindow \in DOMAIN wins /\ wins[iWindow].alive
      /\ \A v \in DOMAIN wins : /\ ~Has(wins[v].queue, "CLOSE") /\ ~Has(wins[v].queue, "QUIT")
                                /\ wins[v].alive \/ wins[v].queue = <<>>
                                /\ wins[v].alive <=> v = iWindow
      /\ what \in Asks =>
            /\ Free(t) /\ ~Unasked /\ ~Working /\ \A v \in DOMAIN wins : Free(wins[v].queue)
            /\ ~forced /\ ~shortcut => ~Leaving
            /\ \A v \in DOMAIN wins : wins[v].alive => wins[v].network
  BY AppHead
<1>2. M \in WinMessages
  BY <1>1, AppFacts DEF Fitting
<1>3. wins' = [wins EXCEPT ![iWindow].queue = Append(@, M)]
  BY DEF ToWindow
<1>4. /\ what # "CLOSE" /\ what # "QUIT" /\ what # "B_QUIT_REQUESTED" /\ what # "UPDATE"
      /\ what \notin Openers
  BY DEF Openers
<1>5. /\ DOMAIN wins' = DOMAIN wins
      /\ \A v \in DOMAIN wins : v # iWindow => wins'[v] = wins[v]
      /\ \A v \in DOMAIN wins : /\ wins'[v].alive = wins[v].alive /\ wins'[v].network = wins[v].network
                                /\ wins'[v].saved = wins[v].saved /\ wins'[v].saves = wins[v].saves
      /\ \A a : Has(wins'[iWindow].queue, a) <=> what = a \/ Has(wins[iWindow].queue, a)
      /\ Free(wins'[iWindow].queue) <=> what \notin Asks /\ Free(wins[iWindow].queue)
      /\ One(wins'[iWindow].queue) <=> One(wins[iWindow].queue) /\ (what \in Asks => Free(wins[iWindow].queue))
      /\ Orderly(wins[iWindow].queue) => Orderly(wins'[iWindow].queue)
  <2> DEFINE w == iWindow  m == M
  <2>1. w \in DOMAIN wins /\ m \in WinMessages /\ m.what = what /\ wins' = [wins EXCEPT ![w].queue = Append(@, m)]
    BY <1>1, <1>2, <1>3
  <2> HIDE DEF w, m
  <2>2. /\ DOMAIN wins' = DOMAIN wins
        /\ \A v \in DOMAIN wins : v # w => wins'[v] = wins[v]
        /\ \A v \in DOMAIN wins : /\ wins'[v].alive = wins[v].alive /\ wins'[v].network = wins[v].network
                                  /\ wins'[v].saved = wins[v].saved /\ wins'[v].saves = wins[v].saves
        /\ \A a : Has(wins'[w].queue, a) <=> m.what = a \/ Has(wins[w].queue, a)
        /\ Free(wins'[w].queue) <=> m.what \notin Asks /\ Free(wins[w].queue)
        /\ One(wins'[w].queue) <=> One(wins[w].queue) /\ (m.what \in Asks => Free(wins[w].queue))
        /\ /\ Orderly(wins[w].queue) /\ (m.what = "CLOSE" => ~Has(wins[w].queue, "QUIT"))
           /\ m.what # "UPDATE"
           => Orderly(wins'[w].queue)
    BY <2>1, GivenFacts
  <2> QED BY <1>4, <2>1, <2>2 DEF w
<1>6. appQ' = t
  OBVIOUS
<1>7. Free(appQ) => Free(t)
  BY <1>1, AskFacts
<1>8. Working' <=> Working
  BY DEF Working
<1> HIDE DEF t
<1>9. /\ OnlyWindow'
      /\ \A v \in DOMAIN wins : One(wins'[v].queue) /\ Orderly(wins'[v].queue)
  BY <1>1, <1>5 DEF OnlyWindow, OneAsk, Served
<1>10. OneAsk'
  <2>1. CASE what \in Asks
    BY <1>1, <1>5, <1>6, <1>8, <1>9, <2>1 DEF OneAsk
  <2>2. CASE what \notin Asks
    BY <1>1, <1>5, <1>6, <1>7, <1>8, <1>9, <2>2 DEF OneAsk, Served
  <2> QED BY <2>1, <2>2
<1>11. WindowThere'
  BY <1>1, <1>4, <1>5, WinTypes DEF WindowThere
<1>12. InChange' /\ (crashed' => late')
  BY <1>1 DEF InChange, Served, Changes
<1>13. NetworkThere'
  <2>1. CASE what \in Asks
    BY <1>1, <1>5, <2>1 DEF NetworkThere
  <2>2. CASE what \notin Asks
    <3>1. Unasked => Unasked'
      BY <1>5, <1>6, <1>7, <1>8, <2>2 DEF Unasked
    <3> QED BY <1>1, <1>4, <1>5, <1>6, <3>1 DEF NetworkThere, Served
  <2> QED BY <2>1, <2>2
<1>14. NoOther'
  BY <1>1, <1>6 DEF NoOther, Served
<1>15. AllSaved'
  <2>1. Leaving' => Leaving
    BY <1>1, <1>6 DEF Leaving
  <2>2. ASSUME ~forced, ~shortcut, Leaving PROVE Unasked'
    <3>1. what \notin Asks /\ Unasked
      BY <1>1, <2>2 DEF AllSaved, Served
    <3> QED BY <1>5, <1>6, <1>7, <1>8, <3>1 DEF Unasked
  <2> QED BY <1>1, <1>4, <1>5, <2>1, <2>2 DEF AllSaved, Served
<1>16. AllWhole'
  BY <1>1, <1>6, <1>8 DEF AllWhole, Served
<1> QED BY <1>9, <1>10, <1>11, <1>12, <1>13, <1>14, <1>15, <1>16 DEF Served

\* OPEN_PROFILE_WIZARD, PROFILE_SWITCH: the window is to be saved, and then to end.
LEMMA ClosingServes ==
    ASSUME IInv, Served, NEW what \in Changes, Handles(what), iWindow # NoWindow,
           CloseWindow, appQ' = Tail(appQ),
           UNCHANGED <<running, iWindow, wizards, crashed, late, lost, torn, forced, shortcut>>
    PROVE  Served'
<1> DEFINE t == Tail(appQ)  w == iWindow  m == Msg("CLOSE")
<1>1. what \in Asks /\ what \in Openers
  BY DEF Changes, Asks, Openers
<1>2. /\ running /\ M.what = what /\ One(t) /\ Free(t) /\ ~Working
      /\ \A a : Has(appQ, a) <=> what = a \/ Has(t, a)
      /\ w \in DOMAIN wins /\ wins[w].alive
      /\ \A v \in DOMAIN wins : /\ ~Has(wins[v].queue, "CLOSE") /\ ~Has(wins[v].queue, "QUIT")
                                /\ wins[v].alive \/ wins[v].queue = <<>>
                                /\ wins[v].alive <=> v = iWindow
                                /\ Free(wins[v].queue)
                                /\ wins[v].alive => wins[v].network
      /\ ~forced /\ ~shortcut => ~Leaving
  BY <1>1, AppHead
<1>3. wizards = <<>> /\ ~Working'
  <2>1. wizards = <<>>
    BY <1>2, WinTypes DEF Served, NoOther
  <2> QED BY <2>1 DEF Working
<1>4. waits' = M /\ wins' = [wins EXCEPT ![w].queue = Append(@, m)]
  BY DEF CloseWindow, ToWindow
<1>5. m \in WinMessages /\ m.what = "CLOSE" /\ "CLOSE" \in Asks
  BY PlainWin DEF Msg, Asks
<1>6. appQ' = t /\ iWindow' = w /\ w # NoWindow
  OBVIOUS
<1>7. waits' # Nothing /\ waits'.what \in Changes /\ waits'.what # "WRITE" /\ waits'.what # "B_QUIT_REQUESTED"
  BY <1>2, <1>4 DEF Changes, Nothing, Msg
<1>8. ~Has(t, "PROFILE_CREATED") /\ ~Has(t, "CONFIG_OK")
  BY <1>2, AskFacts DEF Asks
<1> HIDE DEF t, w, m
<1>9. /\ DOMAIN wins' = DOMAIN wins
      /\ \A v \in DOMAIN wins : v # w => wins'[v] = wins[v]
      /\ \A v \in DOMAIN wins : /\ wins'[v].alive = wins[v].alive /\ wins'[v].network = wins[v].network
                                /\ wins'[v].saved = wins[v].saved /\ wins'[v].saves = wins[v].saves
      /\ \A a : Has(wins'[w].queue, a) <=> m.what = a \/ Has(wins[w].queue, a)
      /\ One(wins'[w].queue) <=> One(wins[w].queue) /\ (m.what \in Asks => Free(wins[w].queue))
      /\ /\ Orderly(wins[w].queue) /\ (m.what = "CLOSE" => ~Has(wins[w].queue, "QUIT"))
         /\ m.what # "UPDATE"
         => Orderly(wins'[w].queue)
  BY <1>2, <1>4, <1>5, GivenFacts
<1>10. \A v \in DOMAIN wins : /\ One(wins'[v].queue) /\ Orderly(wins'[v].queue)
                              /\ Has(wins'[v].queue, "QUIT") <=> Has(wins[v].queue, "QUIT")
                              /\ v # w => Free(wins'[v].queue)
                              /\ v = w => Has(wins'[v].queue, "CLOSE")
  BY <1>2, <1>5, <1>9 DEF Served, OneAsk
<1>11. OnlyWindow'
  BY <1>2, <1>6, <1>9 DEF OnlyWindow, w
<1>12. OneAsk'
  BY <1>2, <1>3, <1>6, <1>9, <1>10 DEF OneAsk
<1>13. WindowThere' /\ (crashed' => late')
  BY <1>2, <1>7 DEF WindowThere, Served
<1>14. InChange'
  BY <1>2, <1>3, <1>6, <1>9, <1>10 DEF InChange, w
<1>15. NetworkThere'
  BY <1>2, <1>9 DEF NetworkThere
<1>16. NoOther'
  BY <1>3, <1>6, <1>8 DEF NoOther, Served
<1>17. AllSaved' /\ AllWhole'
  <2>1. ~forced /\ ~shortcut => ~Leaving'
    BY <1>2, <1>6, <1>7 DEF Leaving
  <2> QED BY <1>2, <1>3, <1>9, <1>10, <2>1 DEF AllSaved, AllWhole, Served
<1> QED BY <1>11, <1>12, <1>13, <1>14, <1>15, <1>16, <1>17 DEF Served

\* There is no window, and BeGadu knows it.
LEMMA NoneServes ==
    ASSUME IInv, Served, \A v \in DOMAIN wins : ~wins[v].alive, wins' = wins, iWindow' = NoWindow,
           running, running' = TRUE, One(appQ'), Len(wizards') <= 1,
           wizards' # <<>> => \A a \in Openers : ~Has(appQ', a),
           Working' => Free(appQ') /\ (~forced => waits' = Nothing /\ ~Has(appQ', "B_QUIT_REQUESTED")),
           waits'.what \in Changes => Free(appQ') /\ wizards' = <<>> /\ (~forced /\ ~shortcut => ~Leaving'),
           ~forced /\ ~shortcut /\ Leaving' => Free(appQ'),
           UNCHANGED <<crashed, late, lost, torn, forced, shortcut>>
    PROVE  Served'
<1>1. \A v \in DOMAIN wins : /\ wins[v].queue = <<>> /\ Free(wins[v].queue) /\ One(wins[v].queue)
                             /\ Orderly(wins[v].queue) /\ \A a : ~Has(wins[v].queue, a)
  BY EmptyFacts DEF Served, OnlyWindow
<1>2. ~forced /\ Leaving' => ~Working'
  BY DEF Leaving, Nothing, Msg
<1>3. Free(appQ') /\ ~Working' => Unasked'
  BY <1>1 DEF Unasked
<1>4. OnlyWindow' /\ OneAsk' /\ WindowThere'
  BY <1>1 DEF OnlyWindow, OneAsk, WindowThere
<1>5. InChange' /\ NetworkThere' /\ NoOther' /\ (crashed' => late')
  BY <1>1 DEF InChange, NetworkThere, NoOther, Served
<1>6. AllSaved' /\ AllWhole'
  BY <1>1, <1>2, <1>3 DEF AllSaved, AllWhole, Served
<1> QED BY <1>4, <1>5, <1>6 DEF Served

\* A profile is whole when nobody writes it.
LEMMA NotTorn ==
    ASSUME IInv, TornIsKnown, ~torn, \A v \in DOMAIN wins : ~wins[v].alive, ~Working, NEW p \in Names
    PROVE  ~Torn(p)
<1>1. \A k \in DOMAIN wizards : wizards[k].saves = "idle"
  BY Pages DEF Working, Wizards
<1>2. p \in Profiles => ~Saving(p)
  BY <1>1 DEF Saving, Alive
<1>3. p = NoName => ~Torn(p)
  BY DEF Torn, File
<1> QED BY <1>2, <1>3 DEF TornIsKnown, Names

\* A window is opened, and it is the only one.
LEMMA OpensServe ==
    ASSUME IInv, TornIsKnown, Served, \A v \in DOMAIN wins : ~wins[v].alive, NEW p \in Names, OpenWindow(p), running,
           running' = TRUE, Free(appQ'), wizards = <<>>, wizards' = <<>>, waits' = Nothing,
           UNCHANGED <<crashed, late, lost, forced, shortcut>>
    PROVE  Served'
<1>1. PICK s \in Statuses, q \in {<<>>, <<Msg("UPDATE")>>} : wins' = Append(wins, Opened(p, s, q))
  BY DEF OpenWindow
<1> DEFINE x == Opened(p, s, q)  n == Len(wins) + 1
<1>2. x.alive /\ x.network /\ x.saved /\ x.saves = "idle" /\ x.queue = q
  BY DEF Opened
<1>3. \A i \in DOMAIN q : i = 1 /\ q[i].what = "UPDATE"
  BY DEF Msg
<1>4. /\ Free(q) /\ One(q) /\ Orderly(q) /\ ~Has(q, "CLOSE") /\ ~Has(q, "QUIT")
  BY <1>3 DEF Free, One, Orderly, Has, Asks, Savers
<1> HIDE DEF x
<1>5. /\ DOMAIN wins' = 1..n /\ wins'[n] = x /\ iWindow' = n /\ n # NoWindow /\ n \in DOMAIN wins'
      /\ \A v \in DOMAIN wins' : v # n => v \in DOMAIN wins /\ wins'[v] = wins[v]
  <2>1. wins \in Seq(Windows(bar.view)) /\ DOMAIN wins = 1..Len(wins) /\ Len(wins) \in Nat
    BY WinTypes DEF IInv, WinsOk
  <2>2. wins' = Append(wins, x) /\ iWindow' = Len(wins) + 1
    BY <1>1 DEF x, OpenWindow
  <2>3. /\ DOMAIN wins' = 1..(Len(wins) + 1) /\ wins'[Len(wins) + 1] = x
        /\ \A v \in 1..Len(wins) : wins'[v] = wins[v]
    BY <2>1, <2>2
  <2> QED BY <2>1, <2>2, <2>3 DEF NoWindow
<1> HIDE DEF n
<1>6. \A v \in DOMAIN wins' : /\ Free(wins'[v].queue) /\ One(wins'[v].queue)
                              /\ Orderly(wins'[v].queue)
                              /\ ~Has(wins'[v].queue, "CLOSE") /\ ~Has(wins'[v].queue, "QUIT")
                              /\ wins'[v].alive <=> v = n
                              /\ ~wins'[v].alive => wins'[v].queue = <<>>
                              /\ wins'[v].saves # "idle" => wins'[v].saved
  BY <1>2, <1>4, <1>5, EmptyFacts DEF Served, OnlyWindow, AllSaved
<1>7. One(appQ') /\ ~Has(appQ', "PROFILE_CREATED") /\ ~Has(appQ', "CONFIG_OK")
  <2>1. ~Has(appQ', "PROFILE_CREATED") /\ ~Has(appQ', "CONFIG_OK")
    BY AskFacts DEF Asks
  <2> QED BY <2>1 DEF One, Free
<1>8. ~Working /\ ~Working'
  BY DEF Working
<1>9. Unasked' /\ Len(wizards') <= 1 /\ waits'.what = "NOTHING"
  BY <1>6, <1>8 DEF Unasked, Nothing, Msg
<1>10. OnlyWindow' /\ OneAsk' /\ WindowThere'
  BY <1>5, <1>6, <1>7, <1>8, <1>9 DEF OnlyWindow, OneAsk, WindowThere
<1>11. InChange' /\ NetworkThere' /\ NoOther' /\ (crashed' => late')
  BY <1>2, <1>5, <1>6, <1>7, <1>9 DEF InChange, NetworkThere, NoOther, Served, Changes
<1>12. AllSaved'
  BY <1>2, <1>5, <1>6, <1>9 DEF AllSaved, Served, Changes
<1>13. AllWhole'
  <2>1. ~torn => ~Torn(p)
    BY <1>8, NotTorn
  <2> QED BY <1>8, <2>1 DEF AllWhole, Served, OpenWindow
<1> QED BY <1>10, <1>11, <1>12, <1>13 DEF Served

\* What is for the window is lost when there is none.
LEMMA ForwardServes == ASSUME IInv, Served, Forward PROVE Served'
<1>1. PICK what \in {"SET", "SHOW"} : Handles(what)
  BY DEF Forward
<1>2. appQ' = Tail(appQ) /\ UNCHANGED <<running, iWindow, waits, wizards, crashed, late, lost, torn, forced, shortcut>>
  BY DEF Forward, Taken, histVars, pastVars
<1>3. CASE iWindow # NoWindow
  BY <1>1, <1>2, <1>3, GivenServes DEF Forward
<1>4. CASE iWindow = NoWindow
  <2> DEFINE t == Tail(appQ)
  <2>1. wins' = wins
    BY <1>4 DEF Forward
  <2>2. /\ running /\ One(t) /\ waits = Nothing /\ waits.what = "NOTHING"
        /\ \A a : Has(appQ, a) <=> what = a \/ Has(t, a)
        /\ \A v \in DOMAIN wins : ~wins[v].alive
    BY <1>1, <1>4, AppHead, WinTypes
  <2>3. appQ' = t
    BY <1>2
  <2>4. Free(appQ) => Free(t)
    BY <2>2, AskFacts
  <2> HIDE DEF t
  <2>5. ~forced /\ ~shortcut /\ Leaving' => Free(appQ')
    BY <1>2, <2>2, <2>3, <2>4 DEF Served, AllSaved, Leaving, Unasked
  <2>6. Len(wizards') <= 1 /\ (wizards' # <<>> => \A a \in Openers : ~Has(appQ', a))
    BY <1>2, <2>2, <2>3 DEF Served, NoOther
  <2>7. Working' => Free(appQ') /\ (~forced => waits' = Nothing /\ ~Has(appQ', "B_QUIT_REQUESTED"))
    BY <1>2, <2>2, <2>3, <2>4 DEF Served, OneAsk, AllWhole, Working
  <2> QED BY <1>2, <1>4, <2>1, <2>2, <2>3, <2>5, <2>6, <2>7, NoneServes DEF Changes
<1> QED BY <1>3, <1>4

\* A wizard that is new has been given no name.
LEMMA NewWizardFacts ==
    ASSUME NewWizard, wizards = <<>> PROVE Len(wizards') <= 1 /\ ~Working'
<1>1. wizards' = <<[page |-> 1, name |-> NoName, saves |-> "idle"]>>
  BY DEF NewWizard
<1>2. Len(wizards') = 1 /\ DOMAIN wizards' = {1} /\ wizards'[1].page = 1
  BY <1>1
<1> QED BY <1>2 DEF Working

\* OPEN_PROFILE_WIZARD: a wizard at once, or the window is closed.
LEMMA OpenProfileWizardServes == ASSUME IInv, Served, OpenProfileWizard PROVE Served'
<1>1. /\ Handles("OPEN_PROFILE_WIZARD") /\ appQ' = Tail(appQ)
      /\ UNCHANGED <<running, iWindow, crashed, late, lost, torn, forced, shortcut>>
  BY DEF OpenProfileWizard, Taken, histVars, pastVars
<1>2. CASE iWindow # NoWindow
  BY <1>1, <1>2, ClosingServes DEF OpenProfileWizard, Changes
<1>3. CASE iWindow = NoWindow
  <2> DEFINE t == Tail(appQ)
  <2>1. wins' = wins /\ waits' = waits /\ NewWizard
    BY <1>3 DEF OpenProfileWizard
  <2>2. /\ running /\ One(t) /\ Free(t) /\ waits.what = "NOTHING"
        /\ Has(appQ, "OPEN_PROFILE_WIZARD")
        /\ \A v \in DOMAIN wins : ~wins[v].alive
    BY <1>1, <1>3, AppHead, WinTypes DEF Asks
  <2>3. wizards = <<>>
    BY <2>2 DEF Served, NoOther, Openers
  <2>4. Len(wizards') <= 1 /\ ~Working'
    BY <2>1, <2>3, NewWizardFacts
  <2>5. \A a \in Openers : ~Has(t, a)
    BY <2>2, AskFacts DEF Openers, Asks
  <2> HIDE DEF t
  <2>6. appQ' = t
    BY <1>1 DEF t
  <2> QED BY <1>1, <1>3, <2>1, <2>2, <2>4, <2>5, <2>6, NoneServes DEF Changes
<1> QED BY <1>2, <1>3

\* What is so when another window or a wizard is to be opened at once.
LEMMA OpenerFacts ==
    ASSUME IInv, Served, NEW what \in {"CONFIG_OK", "PROFILE_CREATED"}, Handles(what)
    PROVE  /\ iWindow = NoWindow /\ wizards = <<>> /\ running /\ waits = Nothing
           /\ \A v \in DOMAIN wins : ~wins[v].alive
           /\ Tail(appQ) \in Seq(Fitting) /\ One(Tail(appQ)) /\ Free(Tail(appQ))
<1>1. /\ running /\ waits = Nothing /\ Has(appQ, what) /\ Tail(appQ) \in Seq(Fitting)
      /\ One(Tail(appQ)) /\ Free(Tail(appQ))
      /\ \A v \in DOMAIN wins : wins[v].alive <=> v = iWindow
  BY AppHead DEF Asks
<1>2. iWindow = NoWindow /\ wizards = <<>>
  BY <1>1 DEF Served, NoOther, Openers
<1> QED BY <1>1, <1>2, WinTypes

\* CONFIG_OK: the run begins without a window.
LEMMA ConfigOkServes == ASSUME IInv, TornIsKnown, Served, ConfigOk PROVE Served'
<1> DEFINE t == Tail(appQ)
<1>1. Handles("CONFIG_OK") /\ UNCHANGED <<running, waits, wizards, crashed, late, lost, forced, shortcut>>
  BY DEF ConfigOk, pastVars
<1>2. /\ iWindow = NoWindow /\ wizards = <<>> /\ running /\ waits = Nothing
      /\ \A v \in DOMAIN wins : ~wins[v].alive
      /\ t \in Seq(Fitting) /\ One(t) /\ Free(t)
  BY <1>1, OpenerFacts
<1>3. waits'.what \notin Changes /\ ~Working'
  BY <1>1, <1>2 DEF Nothing, Msg, Changes, Working
<1>4. CASE appQ' = t /\ OpenWindow(iLastProfile)
  <2>1. iLastProfile \in Names
    BY DEF IInv, AppOk
  <2> QED BY <1>1, <1>2, <1>4, <2>1, OpensServe
<1>5. CASE appQ' \in {t, Append(t, Msg("PROFILE_SELECT"))} /\ UNCHANGED <<wins, iWindow, torn>>
  <2>1. Msg("PROFILE_SELECT") \in Fitting /\ Msg("PROFILE_SELECT").what \notin Asks
    BY Plain DEF Msg, Asks
  <2>2. One(appQ') /\ Free(appQ')
    BY <1>2, <1>5, <2>1, AppendFacts
  <2>3. Len(wizards') <= 1
    BY <1>1, <1>2
  <2> QED BY <1>1, <1>2, <1>3, <1>5, <2>2, <2>3, NoneServes
<1> QED BY <1>4, <1>5 DEF ConfigOk, Taken

\* PROFILE_CREATED: it closes nothing, and nothing is there to be closed.
LEMMA ProfileCreatedServes == ASSUME IInv, TornIsKnown, Served, ProfileCreated PROVE Served'
<1>1. /\ Handles("PROFILE_CREATED") /\ UNCHANGED <<running, waits, wizards, crashed, late, lost, forced, shortcut>>
      /\ appQ' = Tail(appQ) /\ OpenWindow(M.name)
  BY DEF ProfileCreated, Taken, pastVars
<1>2. /\ wizards = <<>> /\ running /\ waits = Nothing
      /\ \A v \in DOMAIN wins : ~wins[v].alive
      /\ Free(Tail(appQ))
  BY <1>1, OpenerFacts
<1>3. M.name \in Names
  BY <1>1, Turns, AppFacts
<1> QED BY <1>1, <1>2, <1>3, OpensServe

\* PROFILE_SWITCH: the window is closed first.
LEMMA ProfileSwitchServes == ASSUME IInv, Served, ProfileSwitch PROVE Served'
<1>1. /\ Handles("PROFILE_SWITCH") /\ appQ' = Tail(appQ)
      /\ UNCHANGED <<running, iWindow, wizards, crashed, late, lost, torn, forced, shortcut>>
  BY DEF ProfileSwitch, Taken, histVars, pastVars
<1>2. CASE iWindow # NoWindow
  BY <1>1, <1>2, ClosingServes DEF ProfileSwitch, Changes
<1>3. CASE iWindow = NoWindow
  <2> DEFINE t == Tail(appQ)
  <2>1. wins' = wins /\ waits' = M
    BY <1>3 DEF ProfileSwitch
  <2>2. /\ running /\ One(t) /\ Free(t) /\ M.what = "PROFILE_SWITCH"
        /\ Has(appQ, "PROFILE_SWITCH") /\ waits.what = "NOTHING"
        /\ \A a : Has(appQ, a) <=> "PROFILE_SWITCH" = a \/ Has(t, a)
        /\ \A v \in DOMAIN wins : ~wins[v].alive
        /\ ~forced /\ ~shortcut => ~Leaving
    BY <1>1, <1>3, AppHead, WinTypes DEF Asks
  <2>3. wizards = <<>>
    BY <2>2 DEF Served, NoOther, Openers
  <2>4. Len(wizards') <= 1 /\ ~Working'
    BY <1>1, <2>3 DEF Working
  <2> HIDE DEF t
  <2>5. appQ' = t
    BY <1>1 DEF t
  <2>6. ~forced /\ ~shortcut => ~Leaving'
    BY <2>1, <2>2, <2>5 DEF Leaving
  <2> QED BY <1>1, <1>3, <2>1, <2>2, <2>3, <2>4, <2>5, <2>6, NoneServes
<1> QED BY <1>2, <1>3

\* BEGG_QUIT: the window is asked first, if there is one.
LEMMA BeggQuitServes == ASSUME IInv, Served, BeggQuit PROVE Served'
<1>1. /\ Handles("BEGG_QUIT")
      /\ UNCHANGED <<running, iWindow, waits, wizards, crashed, late, lost, torn, forced, shortcut>>
  BY DEF BeggQuit, histVars, pastVars
<1>2. CASE iWindow # NoWindow
  BY <1>1, <1>2, GivenServes DEF BeggQuit, Taken
<1>3. CASE iWindow = NoWindow
  <2> DEFINE t == Tail(appQ)  m == Msg("B_QUIT_REQUESTED")
  <2>1. wins' = wins /\ appQ' = Append(t, m)
    BY <1>3 DEF BeggQuit
  <2>2. /\ running /\ t \in Seq(Fitting) /\ One(t) /\ Free(t) /\ waits.what = "NOTHING" /\ ~Working
        /\ \A v \in DOMAIN wins : ~wins[v].alive
    BY <1>1, <1>3, AppHead, WinTypes DEF Asks
  <2>3. m \in Fitting /\ m.what = "B_QUIT_REQUESTED"
    BY Plain DEF Msg
  <2> HIDE DEF t, m
  <2>4. One(appQ') /\ Free(appQ')
    BY <2>1, <2>2, <2>3, AppendFacts DEF Asks
  <2>5. Len(wizards') <= 1 /\ (\A a \in Openers : ~Has(appQ', a)) /\ ~Working'
    BY <1>1, <2>2, <2>4, AskFacts DEF Served, NoOther, Openers, Asks, Working
  <2> QED BY <1>1, <1>3, <2>1, <2>2, <2>4, <2>5, NoneServes DEF Changes
<1> QED BY <1>2, <1>3

\* QuitRequested: the window that is to end has been saved, unless the system or Ctrl+Q asks.
LEMMA QuitRequestedServes == ASSUME IInv, Served, QuitRequested PROVE Served'
<1> DEFINE t == Tail(appQ)
<1>1. /\ Handles("B_QUIT_REQUESTED") /\ waits' = M /\ wins' = wins
      /\ UNCHANGED <<running, iWindow, wizards, crashed, late, lost, torn, forced, shortcut>>
  BY DEF QuitRequested, histVars, pastVars
<1>2. /\ running /\ One(t) /\ M.what = "B_QUIT_REQUESTED"
      /\ \A a : Has(appQ, a) <=> "B_QUIT_REQUESTED" = a \/ Has(t, a)
      /\ \A v \in DOMAIN wins : /\ ~Has(wins[v].queue, "CLOSE") /\ ~Has(wins[v].queue, "QUIT")
                                /\ wins[v].alive \/ wins[v].queue = <<>>
                                /\ wins[v].alive <=> v = iWindow
  BY <1>1, AppHead
<1>3. Free(appQ) => Free(t)
  BY <1>2, AskFacts
<1>4. appQ' = t
  BY DEF QuitRequested, Taken
<1>5. waits' # Nothing /\ waits'.what \notin Changes /\ waits'.what = "B_QUIT_REQUESTED"
  BY <1>1, <1>2 DEF Changes, Nothing, Msg
<1>6. ~forced => ~Working
  BY <1>2, NoneWorks
<1>7. (Working' <=> Working) /\ (Unasked => Unasked')
  BY <1>1, <1>3, <1>4 DEF Unasked, Working
<1> HIDE DEF t
<1>8. OnlyWindow' /\ OneAsk'
  BY <1>1, <1>2, <1>3, <1>4, <1>7 DEF OnlyWindow, OneAsk, Served
<1>9. WindowThere' /\ InChange' /\ (crashed' => late')
  BY <1>1, <1>2, <1>5 DEF WindowThere, InChange, Served
<1>10. NetworkThere'
  BY <1>1, <1>5, <1>7 DEF NetworkThere, Served
<1>11. NoOther'
  BY <1>1, <1>2, <1>4 DEF NoOther, Served
<1>12. AllSaved'
  BY <1>1, <1>2, <1>5, <1>7 DEF AllSaved, Leaving, Served
<1>13. AllWhole'
  BY <1>1, <1>6, <1>7 DEF AllWhole, Served
<1> QED BY <1>8, <1>9, <1>10, <1>11, <1>12, <1>13 DEF Served

\* Quit: a window that BeGadu waits for saves before, unless the system or Ctrl+Q ends it.
LEMMA AsksToQuitServes == ASSUME IInv, Served, AsksToQuit PROVE Served'
<1> DEFINE w == iWindow  m == Msg("QUIT")
<1>1. /\ running /\ waits.what \notin {"NOTHING", "WRITE"} /\ w \in DOMAIN wins /\ wins[w].alive
      /\ wins' = [wins EXCEPT ![w].queue = Append(@, m)] /\ m \in WinMessages /\ m.what = "QUIT"
      /\ UNCHANGED <<running, appQ, iWindow, waits, wizards, crashed, late, lost, torn, forced, shortcut>>
  BY WinTypes, PlainWin DEF AsksToQuit, Alive, ToWindow, Msg, appVars, histVars, pastVars
<1>2. waits # Nothing
  BY <1>1 DEF Nothing, Msg
<1>3. waits.what \in Changes \/ waits.what = "B_QUIT_REQUESTED"
  BY <1>1 DEF IInv, WaitOk, Waits, Nothing, Msg, Changes
<1> HIDE DEF w, m
<1>4. /\ DOMAIN wins' = DOMAIN wins
      /\ \A v \in DOMAIN wins : v # w => wins'[v] = wins[v]
      /\ \A v \in DOMAIN wins : /\ wins'[v].alive = wins[v].alive /\ wins'[v].network = wins[v].network
                                /\ wins'[v].saved = wins[v].saved /\ wins'[v].saves = wins[v].saves
      /\ \A a : Has(wins'[w].queue, a) <=> m.what = a \/ Has(wins[w].queue, a)
      /\ Free(wins'[w].queue) <=> m.what \notin Asks /\ Free(wins[w].queue)
      /\ One(wins'[w].queue) <=> One(wins[w].queue) /\ (m.what \in Asks => Free(wins[w].queue))
      /\ /\ Orderly(wins[w].queue) /\ (m.what = "CLOSE" => ~Has(wins[w].queue, "QUIT"))
         /\ m.what # "UPDATE"
         => Orderly(wins'[w].queue)
  BY <1>1, GivenFacts
<1>5. \A v \in DOMAIN wins : /\ Free(wins'[v].queue) <=> Free(wins[v].queue)
                             /\ One(wins'[v].queue) /\ Orderly(wins'[v].queue)
                             /\ \A a : a # "QUIT" => (Has(wins'[v].queue, a) <=> Has(wins[v].queue, a))
  BY <1>1, <1>4 DEF Asks, Served, OneAsk
<1>6. (Unasked <=> Unasked') /\ (Working' <=> Working)
  BY <1>1, <1>4, <1>5 DEF Unasked, Working
<1>7. OnlyWindow' /\ OneAsk'
  BY <1>1, <1>4, <1>5, <1>6 DEF OnlyWindow, OneAsk, Served
<1>8. WindowThere' /\ (crashed' => late')
  BY <1>1, <1>2 DEF WindowThere, Served
<1>9. InChange'
  BY <1>1, <1>4, <1>5 DEF InChange, Served
<1>10. NetworkThere'
  BY <1>1, <1>4, <1>5, <1>6 DEF NetworkThere, Served
<1>11. NoOther' /\ AllWhole'
  BY <1>1, <1>6 DEF NoOther, AllWhole, Served
<1>12. AllSaved'
  <2>1. ASSUME ~forced, ~shortcut PROVE Has(wins[w].queue, "CLOSE") \/ wins[w].saved
    BY <1>1, <1>3, <2>1 DEF InChange, AllSaved, Leaving, Served
  <2>2. Leaving' <=> Leaving
    BY <1>1 DEF Leaving
  <2>3. ASSUME ~forced, ~shortcut, NEW v \in DOMAIN wins, Has(wins'[v].queue, "QUIT")
        PROVE  Has(wins'[v].queue, "CLOSE") \/ wins'[v].saved
    <3>1. CASE v = w
      BY <1>4, <1>5, <2>1, <2>3, <3>1
    <3>2. CASE v # w
      BY <1>4, <2>3, <3>2 DEF AllSaved, Served
    <3> QED BY <3>1, <3>2
  <2> QED BY <1>1, <1>4, <1>6, <2>2, <2>3 DEF AllSaved, Served
<1> QED BY <1>7, <1>8, <1>9, <1>10, <1>11, <1>12 DEF Served

\* Quit returns: there is no window now, until the next is opened.
LEMMA WindowEndedServes == ASSUME IInv, TornIsKnown, Served, WindowEnded PROVE Served'
<1>1. /\ running /\ waits # Nothing /\ ~Alive(iWindow)
      /\ UNCHANGED <<running, crashed, late, lost, forced, shortcut>>
  BY DEF WindowEnded, pastVars
<1>2. \A v \in DOMAIN wins : ~wins[v].alive
  BY <1>1, WinTypes DEF Served, OnlyWindow, Alive
<1>3. One(appQ) /\ appQ \in Seq(Fitting)
  BY WinTypes DEF Served, OneAsk
<1>4. Nothing.what \notin Changes /\ Nothing.what # "B_QUIT_REQUESTED"
  BY DEF Nothing, Msg, Changes
<1>5. CASE WizardOpens /\ iWindow' = NoWindow /\ waits' = Nothing /\ torn' = torn
  <2>1. /\ waits.what \in Changes /\ NewWizard /\ UNCHANGED <<appQ, wins>>
    BY <1>5 DEF WizardOpens, Changes
  <2>2. Free(appQ) /\ wizards = <<>>
    BY <2>1 DEF Served, InChange
  <2>3. Len(wizards') <= 1 /\ ~Working' /\ \A a \in Openers : ~Has(appQ, a)
    BY <2>1, <2>2, NewWizardFacts, AskFacts DEF Openers, Asks
  <2> QED BY <1>1, <1>2, <1>3, <1>4, <1>5, <2>1, <2>2, <2>3, NoneServes
<1>6. CASE waits.what = "PROFILE_SWITCH" /\ SwitchTo(waits.name) /\ waits' = Nothing /\ UNCHANGED wizards
  <2>1. Free(appQ) /\ wizards = <<>> /\ ~Working'
    BY <1>6 DEF Served, InChange, Changes, Working
  <2>2. CASE appQ' = appQ /\ OpenWindow(iLastProfile)
    <3>1. iLastProfile \in Names
      BY DEF IInv, AppOk
    <3> QED BY <1>1, <1>2, <1>6, <2>1, <2>2, <3>1, OpensServe
  <2>3. CASE appQ' \in {appQ, Append(appQ, Msg("PROFILE_SELECT"))} /\ iWindow' = NoWindow /\ UNCHANGED <<wins, torn>>
    <3>1. Msg("PROFILE_SELECT") \in Fitting /\ Msg("PROFILE_SELECT").what \notin Asks
      BY Plain DEF Msg, Asks
    <3>2. One(appQ') /\ Free(appQ')
      BY <1>3, <2>1, <2>3, <3>1, AppendFacts
    <3>3. Len(wizards') <= 1 /\ wizards' = <<>>
      BY <1>6, <2>1
    <3> QED BY <1>1, <1>2, <1>4, <1>6, <2>1, <2>3, <3>2, <3>3, NoneServes
  <2> QED BY <1>6, <2>2, <2>3 DEF SwitchTo
<1>7. CASE /\ waits.what = "B_QUIT_REQUESTED" /\ waits' = Msg("WRITE") /\ iWindow' = NoWindow
           /\ UNCHANGED <<appQ, wins, wizards, torn>>
  <2>1. waits'.what \notin Changes /\ waits'.what # "B_QUIT_REQUESTED"
    BY <1>7 DEF Msg, Changes
  <2>2. ~forced /\ ~shortcut => Free(appQ)
    BY <1>7 DEF Served, AllSaved, Leaving, Unasked
  <2>3. Len(wizards') <= 1 /\ (wizards' # <<>> => \A a \in Openers : ~Has(appQ', a))
    BY <1>7 DEF Served, NoOther
  <2>4. Working' => Free(appQ') /\ (~forced => waits' = Nothing /\ ~Has(appQ', "B_QUIT_REQUESTED"))
    BY <1>1, <1>7, NoneWorks DEF Served, OneAsk, Working
  <2> QED BY <1>1, <1>2, <1>3, <1>7, <2>1, <2>2, <2>3, <2>4, NoneServes
<1> QED BY <1>5, <1>6, <1>7 DEF WindowEnded

\* Nothing is left of a run that has ended.
LEMMA EndedServes ==
    ASSUME IInv, Ends, ~forced' => ~torn' /\ (~shortcut' => ~lost')
    PROVE  Served'
<1>1. /\ running' = FALSE /\ crashed' = FALSE /\ appQ' = <<>> /\ iWindow' = NoWindow
      /\ waits' = Nothing /\ wins' = <<>> /\ wizards' = <<>>
  BY DEF Ends
<1>2. Free(appQ') /\ One(appQ') /\ \A a : ~Has(appQ', a)
  BY <1>1, EmptyFacts
<1>3. DOMAIN wins' = {} /\ DOMAIN wizards' = {} /\ Len(wizards') <= 1
  BY <1>1
<1>4. waits'.what = "NOTHING" /\ ~Working'
  BY <1>1, <1>3 DEF Nothing, Msg, Working
<1>5. OnlyWindow' /\ OneAsk' /\ WindowThere'
  BY <1>1, <1>2, <1>3, <1>4 DEF OnlyWindow, OneAsk, WindowThere
<1>6. InChange' /\ NetworkThere' /\ NoOther'
  BY <1>1, <1>2, <1>3, <1>4 DEF InChange, NetworkThere, NoOther, Changes
<1>7. AllSaved' /\ AllWhole'
  BY <1>2, <1>3, <1>4 DEF AllSaved, AllWhole, Leaving, Unasked, Changes
<1> QED BY <1>1, <1>5, <1>6, <1>7 DEF Served

\* QuitRequested, its last step: no window is left to lose anything.
LEMMA ConfigWrittenServes == ASSUME IInv, TornIsKnown, Served, ConfigWritten PROVE Served'
<1>1. waits = Msg("WRITE") /\ waits # Nothing /\ Ends /\ UNCHANGED <<forced, shortcut>>
  BY DEF ConfigWritten, pastVars, Nothing, Msg
<1>2. iWindow = NoWindow
  BY <1>1 DEF Served, WindowThere, Msg
<1>3. \A v \in DOMAIN wins : ~wins[v].alive
  BY <1>2, WinTypes DEF Served, OnlyWindow
<1>4. ~forced' /\ ~shortcut' => ~lost'
  BY <1>1, <1>3 DEF Ends, Alive, Served, AllSaved
<1>5. ASSUME ~forced PROVE ~torn'
  <2>1. ~Working /\ ~torn
    BY <1>1, <1>5, NoneWorks DEF Served, AllWhole
  <2>2. \A p \in Profiles : p \in Names
    BY DEF Names
  <2>3. \A p \in Profiles : ~Torn(p)
    BY <1>3, <2>1, <2>2, NotTorn
  <2> QED BY <1>1, <2>1, <2>3 DEF Ends
<1> QED BY <1>1, <1>4, <1>5, EndedServes

-------------------------------------------------------------------------------
\* Deskbar asks BeGadu for nothing.
LEMMA BarServes == ASSUME IInv, Served, BarStep PROVE Served'
<1>1. UNCHANGED <<running, iWindow, waits, wins, wizards, crashed, late, lost, torn, forced, shortcut>>
  BY DEF BarStep, BarAttaches, BarReceives, appVars, histVars, pastVars
<1>2. appQ \in Seq(AppMessages) /\ One(appQ) /\ (~running => appQ = <<>>)
  BY WinTypes DEF Served, OneAsk, WindowThere
<1>3. (Working' <=> Working) /\ (crashed' => late')
  BY <1>1 DEF Working, Served
<1>4. CASE appQ' = appQ
  BY <1>1, <1>2, <1>3, <1>4, CalmApp
<1>5. CASE running /\ appQ' = Append(appQ, [what |-> "ADD_MESSENGER", view |-> bar.view])
  <2> DEFINE m == [what |-> "ADD_MESSENGER", view |-> bar.view]
  <2>1. m.what = "ADD_MESSENGER" /\ m \in AppMessages
    BY DEF AppMessages, IInv, Bars
  <2>2. appQ' = Append(appQ, m)
    BY <1>5
  <2> HIDE DEF m
  <2>3. One(appQ') /\ \A a : Has(appQ', a) <=> "ADD_MESSENGER" = a \/ Has(appQ, a)
    BY <1>2, <2>1, <2>2, AppendFacts DEF Asks
  <2> QED BY <1>1, <1>3, <1>5, <2>3, CalmApp DEF Asks
<1> QED BY <1>4, <1>5 DEF BarStep, BarAttaches, BarReceives, ToApp, appVars

\* A run begins with one message, and without a window.
LEMMA BeginsServes ==
    ASSUME IInv, Served, ~running, Begins, UNCHANGED <<wins, wizards, crashed, late, lost, torn, forced, shortcut>>
    PROVE  Served'
<1> DEFINE m == Msg(IF disk.config.first THEN "OPEN_PROFILE_WIZARD" ELSE "CONFIG_OK")
<1>1. running' = TRUE /\ appQ' = <<m>> /\ UNCHANGED <<iWindow, waits>>
  BY DEF Begins
<1>2. wins = <<>> /\ waits = Nothing /\ wizards = <<>> /\ iWindow = NoWindow
  BY DEF IInv, AppOk, Served, WindowThere
<1>3. m.what \in {"OPEN_PROFILE_WIZARD", "CONFIG_OK"}
  BY DEF Msg
<1> HIDE DEF m
<1>4. One(appQ') /\ (Has(appQ', "B_QUIT_REQUESTED") => FALSE)
  BY <1>1, <1>3 DEF One, Has
<1>5. waits'.what = "NOTHING" /\ DOMAIN wins' = {} /\ Len(wizards') <= 1 /\ ~Working'
  BY <1>1, <1>2 DEF Nothing, Msg, Working
<1>6. OnlyWindow' /\ OneAsk' /\ WindowThere'
  BY <1>1, <1>2, <1>4, <1>5 DEF OnlyWindow, OneAsk, WindowThere
<1>7. InChange' /\ NetworkThere' /\ NoOther' /\ (crashed' => late')
  BY <1>1, <1>2, <1>5 DEF InChange, NetworkThere, NoOther, Changes, Served
<1>8. AllSaved' /\ AllWhole'
  BY <1>4, <1>5 DEF AllSaved, AllWhole, Leaving, Served
<1> QED BY <1>6, <1>7, <1>8 DEF Served

\* The program is started, by hand or by Deskbar.
LEMMA StartsServe == ASSUME IInv, Served, Start \/ DeskbarRestarts PROVE Served'
<1>1. UNCHANGED <<wins, wizards, crashed, late, lost, torn, forced, shortcut>>
  BY DEF Start, DeskbarRestarts, pastVars
<1>2. CASE ~running /\ Begins
  BY <1>1, <1>2, BeginsServes
<1>3. CASE running /\ UNCHANGED <<running, appVars>>
  <2>1. One(appQ) /\ (Working' <=> Working) /\ (crashed' => late') /\ UNCHANGED <<appQ, iWindow, waits>>
    BY <1>1, <1>3 DEF Served, OneAsk, Working, appVars
  <2> QED BY <1>1, <1>3, <2>1, CalmApp
<1> QED BY <1>2, <1>3 DEF Start, DeskbarRestarts

\* What is so when every message has been handled.
LEMMA RestFacts ==
    ASSUME IInv, Served, AtRest
    PROVE  /\ appQ = <<>> /\ waits = Nothing /\ waits.what = "NOTHING" /\ ~Leaving /\ ~Working
           /\ Free(appQ) /\ One(appQ) /\ (\A a : ~Has(appQ, a))
           /\ iWindow = NoWindow \/ (iWindow \in DOMAIN wins /\ wins[iWindow].alive)
           /\ \A v \in DOMAIN wins : /\ wins[v].queue = <<>> /\ Free(wins[v].queue) /\ One(wins[v].queue)
                                     /\ Orderly(wins[v].queue) /\ (\A a : ~Has(wins[v].queue, a))
                                     /\ wins[v].alive => wins[v].network
                                     /\ wins[v].alive <=> v = iWindow
<1>1. appQ = <<>> /\ waits = Nothing /\ ~Working
  BY DEF AtRest, Working
<1>2. Free(appQ) /\ One(appQ) /\ \A a : ~Has(appQ, a)
  BY <1>1, EmptyFacts
<1>3. waits.what = "NOTHING"
  BY <1>1 DEF Nothing, Msg
<1>4. iWindow = NoWindow \/ (iWindow \in DOMAIN wins /\ wins[iWindow].alive)
  BY <1>1, WinTypes DEF Served, WindowThere
<1>5. \A v \in DOMAIN wins : wins[v].queue = <<>>
  BY DEF AtRest, Served, OnlyWindow
<1>6. \A v \in DOMAIN wins : /\ wins[v].alive => wins[v].network
                             /\ wins[v].alive <=> v = iWindow
  BY <1>1, <1>2, <1>4, WinTypes DEF Served, NetworkThere, OnlyWindow
<1> QED BY <1>1, <1>2, <1>3, <1>4, <1>5, <1>6, EmptyFacts DEF Leaving

\* The menus of the window: at rest, nothing else is asked.
LEMMA PicksServe == ASSUME IInv, Served, AtRest, NEW w \in DOMAIN wins, UserPicks(w) PROVE Served'
<1>1. wins[w].alive /\ UNCHANGED <<running, appQ, iWindow, waits, wizards, crashed, late, lost, torn, forced, shortcut>>
  BY DEF UserPicks, Alive, appVars, pastVars
<1>2. PICK m \in {Msg("BEGG_QUIT"), Msg("OPEN_PROFILE_WIZARD")}
                  \cup {[what |-> "SET", status |-> s] : s \in Statuses}
                  \cup {[what |-> "PROFILE_SWITCH", name |-> p] : p \in {p \in Profiles : File(p) # "none"}} :
             wins' = [wins EXCEPT ![w].queue = Append(@, m)]
  BY DEF UserPicks
<1>3. m.what \in {"BEGG_QUIT", "OPEN_PROFILE_WIZARD", "SET", "PROFILE_SWITCH"}
  BY <1>2 DEF Msg
<1>4. m \in WinMessages
  <2>1. Msg("BEGG_QUIT") \in WinMessages /\ Msg("OPEN_PROFILE_WIZARD") \in WinMessages
    BY PlainWin
  <2>2. \A s \in Statuses : [what |-> "SET", status |-> s] \in WinMessages
    BY DEF WinMessages
  <2>3. \A p \in Profiles : [what |-> "PROFILE_SWITCH", name |-> p] \in WinMessages
    BY DEF WinMessages
  <2> QED BY <1>2, <2>1, <2>2, <2>3
<1>5. /\ DOMAIN wins' = DOMAIN wins
      /\ \A v \in DOMAIN wins : v # w => wins'[v] = wins[v]
      /\ \A v \in DOMAIN wins : /\ wins'[v].alive = wins[v].alive /\ wins'[v].network = wins[v].network
                                /\ wins'[v].saved = wins[v].saved /\ wins'[v].saves = wins[v].saves
      /\ \A a : Has(wins'[w].queue, a) <=> m.what = a \/ Has(wins[w].queue, a)
      /\ One(wins'[w].queue) <=> One(wins[w].queue) /\ (m.what \in Asks => Free(wins[w].queue))
      /\ /\ Orderly(wins[w].queue) /\ (m.what = "CLOSE" => ~Has(wins[w].queue, "QUIT"))
         /\ m.what # "UPDATE"
         => Orderly(wins'[w].queue)
  BY <1>2, <1>4, GivenFacts
<1>6. /\ appQ' = <<>> /\ waits = Nothing /\ waits'.what = "NOTHING" /\ ~Leaving' /\ ~Working'
      /\ Free(appQ') /\ One(appQ') /\ (\A a : ~Has(appQ', a))
      /\ w = iWindow
      /\ \A v \in DOMAIN wins : /\ wins[v].queue = <<>> /\ Free(wins[v].queue) /\ One(wins[v].queue)
                                /\ Orderly(wins[v].queue) /\ (\A a : ~Has(wins[v].queue, a))
                                /\ wins[v].alive => wins[v].network
                                /\ wins[v].alive <=> v = iWindow
  BY <1>1, RestFacts DEF Leaving, Working
<1>7. \A v \in DOMAIN wins : ~Has(wins'[v].queue, "CLOSE") /\ ~Has(wins'[v].queue, "QUIT")
                             /\ One(wins'[v].queue) /\ Orderly(wins'[v].queue)
  BY <1>3, <1>5, <1>6
<1>8. OnlyWindow' /\ OneAsk' /\ WindowThere'
  BY <1>1, <1>5, <1>6, <1>7 DEF OnlyWindow, OneAsk, WindowThere, Served
<1>9. InChange' /\ NetworkThere' /\ NoOther' /\ (crashed' => late')
  BY <1>1, <1>5, <1>6 DEF InChange, NetworkThere, NoOther, Served, Changes
<1>10. AllSaved' /\ AllWhole'
  BY <1>1, <1>5, <1>6, <1>7 DEF AllSaved, AllWhole, Served
<1> QED BY <1>8, <1>9, <1>10 DEF Served

\* What the profile keeps is changed, and nothing is to be ended or being saved.
LEMMA EditsServe == ASSUME IInv, TornInv, Served, AtRest, NEW w \in DOMAIN wins, UserEdits(w) PROVE Served'
<1> DEFINE x == [wins[w] EXCEPT !.saved = FALSE]
<1>1. /\ wins' = [wins EXCEPT ![w] = x] /\ wins[w].alive
      /\ UNCHANGED <<running, appQ, iWindow, waits, wizards, crashed, late, lost, torn, forced, shortcut>>
  BY DEF UserEdits, Alive, appVars, pastVars
<1>2. /\ x.alive = wins[w].alive /\ x.network = wins[w].network /\ x.queue = wins[w].queue
      /\ x.saves = wins[w].saves
  BY WinTypes DEF Windows
<1> HIDE DEF x
<1>3. /\ DOMAIN wins' = DOMAIN wins /\ wins'[w] = x
      /\ \A v \in DOMAIN wins : v # w => wins'[v] = wins[v]
  BY <1>1, WinSet
<1>4. \A v \in DOMAIN wins : /\ wins'[v].alive = wins[v].alive /\ wins'[v].network = wins[v].network
                             /\ wins'[v].queue = wins[v].queue
  BY <1>2, <1>3
<1>5. /\ waits'.what = "NOTHING" /\ ~Leaving' /\ ~Working' /\ Free(appQ')
      /\ \A v \in DOMAIN wins : Free(wins[v].queue) /\ (\A a : ~Has(wins[v].queue, a)) /\ wins[v].queue = <<>>
  BY <1>1, RestFacts DEF Leaving, Working
<1>6. wins[w].saves = "idle"
  BY <1>1, <1>5, Domains DEF TornInv, SaversOk, Saver, Ready
<1>7. Unasked <=> Unasked'
  BY <1>1, <1>4 DEF Unasked, Working
<1>8. OnlyWindow' /\ OneAsk' /\ WindowThere'
  BY <1>1, <1>3, <1>4, <1>5, WinTypes DEF OnlyWindow, OneAsk, WindowThere, Served
<1>9. InChange' /\ NetworkThere' /\ NoOther' /\ (crashed' => late')
  BY <1>1, <1>3, <1>4, <1>5, <1>7 DEF InChange, NetworkThere, NoOther, Served, Changes
<1>10. \A v \in DOMAIN wins : wins'[v].saves # "idle" => wins'[v].saved
  BY <1>2, <1>3, <1>6 DEF AllSaved, Served
<1>11. AllSaved' /\ AllWhole'
  BY <1>1, <1>3, <1>4, <1>5, <1>10 DEF AllSaved, AllWhole, Served
<1> QED BY <1>8, <1>9, <1>11 DEF Served

\* BeGadu is asked, at rest: by a click on the icon, Ctrl+Q, or a wizard that ends.
LEMMA AskServes ==
    ASSUME IInv, Served, AtRest, NEW m, m \in AppMessages, appQ' \in {appQ, Append(appQ, m)},
           m.what \in {"SHOW", "SET", "BEGG_QUIT", "PROFILE_SELECT", "B_QUIT_REQUESTED"},
           m.what = "B_QUIT_REQUESTED" => shortcut', ~running => appQ' = appQ,
           Len(wizards') \in Nat, Len(wizards') <= Len(wizards), wizards = <<>> => wizards' = <<>>, ~Working',
           shortcut => shortcut',
           UNCHANGED <<running, iWindow, waits, wins, crashed, late, lost, torn, forced>>
    PROVE  Served'
<1>1. /\ appQ = <<>> /\ waits = Nothing /\ waits'.what = "NOTHING" /\ ~Leaving
      /\ Free(appQ) /\ One(appQ) /\ (\A a : ~Has(appQ, a))
      /\ \A v \in DOMAIN wins : /\ Free(wins[v].queue)
                                /\ wins[v].alive => wins[v].network
  BY RestFacts
<1>2. appQ \in Seq(AppMessages)
  BY <1>1, EmptySeq
<1>3. /\ One(Append(appQ, m))
      /\ \A a : Has(Append(appQ, m), a) <=> m.what = a \/ Has(appQ, a)
  BY <1>1, <1>2, AppendFacts
<1>4. One(appQ') /\ \A a : Has(appQ', a) => m.what = a
  BY <1>1, <1>3
<1>5. ~shortcut' => ~Leaving'
  BY <1>1, <1>4 DEF Leaving
<1>6. /\ Len(wizards') <= 1 /\ wizards' # <<>> => iWindow = NoWindow
      /\ \A a \in Openers : ~Has(appQ', a)
  <2>1. Len(wizards) <= 1 /\ Len(wizards) \in Nat
    BY LenProperties DEF Served, NoOther, IInv, AppOk
  <2>2. wizards' # <<>> => iWindow = NoWindow
    BY DEF Served, NoOther
  <2>3. Len(wizards') <= 1
    BY <2>1
  <2> QED BY <1>4, <2>2, <2>3 DEF Openers
<1>7. OnlyWindow' /\ OneAsk' /\ WindowThere'
  BY <1>1, <1>4, WinTypes DEF OnlyWindow, OneAsk, WindowThere, Served
<1>8. InChange' /\ NetworkThere' /\ NoOther' /\ (crashed' => late')
  BY <1>1, <1>4, <1>6 DEF InChange, NetworkThere, NoOther, Served, Changes, Openers
<1>9. AllSaved' /\ AllWhole'
  BY <1>5 DEF AllSaved, AllWhole, Served
<1> QED BY <1>7, <1>8, <1>9 DEF Served

\* A click on the icon, or Ctrl+Q.
LEMMA ClicksServe == ASSUME IInv, Served, AtRest, UserClicks \/ UserQuits PROVE Served'
<1>1. /\ running /\ (shortcut => shortcut')
      /\ UNCHANGED <<running, iWindow, waits, wins, wizards, crashed, late, lost, torn, forced>>
  <2>1. CASE UserClicks
    BY <2>1 DEF UserClicks, pastVars
  <2>2. CASE UserQuits
    <3>1. wins # <<>> \/ wizards # <<>>
      BY <2>2 DEF UserQuits
    <3>2. running
      BY <3>1 DEF IInv, AppOk, Served, WindowThere
    <3> QED BY <2>2, <3>2 DEF UserQuits
  <2> QED BY <2>1, <2>2
<1>2. PICK m \in AppMessages : /\ appQ' = Append(appQ, m)
                               /\ m.what \in {"SHOW", "SET", "BEGG_QUIT", "PROFILE_SELECT", "B_QUIT_REQUESTED"}
                               /\ m.what = "B_QUIT_REQUESTED" => shortcut'
  <2>1. \A s \in Statuses : /\ [what |-> "SET", status |-> s] \in AppMessages
                            /\ [what |-> "SET", status |-> s].what = "SET"
    BY DEF AppMessages
  <2>2. \A a \in {"SHOW", "BEGG_QUIT", "PROFILE_SELECT", "B_QUIT_REQUESTED"} :
           Msg(a) \in AppMessages /\ Msg(a).what = a
    BY DEF AppMessages, Msg
  <2>3. CASE UserClicks
    <3>1. PICK m \in {Msg("SHOW"), Msg("BEGG_QUIT")}
                  \cup (IF bar.selected THEN {[what |-> "SET", status |-> s] : s \in Statuses}
                        ELSE {Msg("PROFILE_SELECT")}) : appQ' = Append(appQ, m)
      BY <1>1, <2>3 DEF UserClicks, ToApp
    <3>2. m \in AppMessages /\ m.what \in {"SHOW", "BEGG_QUIT", "SET", "PROFILE_SELECT"}
      BY <2>1, <2>2, <3>1
    <3> QED BY <3>1, <3>2
  <2>4. CASE UserQuits
    BY <1>1, <2>2, <2>4 DEF UserQuits, ToApp
  <2> QED BY <2>3, <2>4
<1>3. Len(wizards') \in Nat /\ Len(wizards') <= Len(wizards)
  <2>1. Len(wizards) \in Nat
    BY LenProperties DEF IInv, AppOk
  <2> QED BY <1>1, <2>1
<1>4. ~Working'
  BY <1>1, RestFacts DEF Working
<1> QED BY <1>1, <1>2, <1>3, <1>4, AskServes

\* The only wizard changes, or goes.
LEMMA OnlyWizard ==
    ASSUME IInv, Served, NEW k \in DOMAIN wizards
    PROVE  /\ k = 1 /\ Len(wizards) = 1 /\ DOMAIN wizards = {1} /\ wizards # <<>> /\ iWindow = NoWindow /\ running
           /\ Closes(k) => wizards' = <<>>
           /\ \A x : wizards' = [wizards EXCEPT ![k] = x] =>
                 Len(wizards') = 1 /\ wizards' # <<>> /\ DOMAIN wizards' = {1} /\ wizards'[1] = x
<1>1. k \in 1..Len(wizards) /\ Len(wizards) \in Nat /\ Len(wizards) <= 1 /\ wizards \in Seq(Wizards)
      /\ DOMAIN wizards = 1..Len(wizards)
  BY Pages, Domains DEF Served, NoOther, IInv, AppOk
<1>2. k = 1 /\ Len(wizards) = 1 /\ DOMAIN wizards = {1} /\ wizards # <<>>
  <2>1. ASSUME NEW n \in Nat, n <= 1, k \in 1..n PROVE n = 1 /\ k = 1
    BY <2>1
  <2>2. Len(wizards) = 1 /\ k = 1
    BY <1>1, <2>1
  <2> QED BY <1>1, <2>2
<1>3. iWindow = NoWindow /\ running
  BY <1>2 DEF Served, NoOther, WindowThere
<1>4. Closes(k) => wizards' = <<>>
  <2> HAVE Closes(k)
  <2>1. DOMAIN wizards' = 1..0 /\ wizards' = [j \in 1..0 |-> wizards[IF j < k THEN j ELSE j + 1]]
    BY <1>2 DEF Closes
  <2> QED BY <2>1
<1>5. \A x : wizards' = [wizards EXCEPT ![k] = x] =>
                 Len(wizards') = 1 /\ wizards' # <<>> /\ DOMAIN wizards' = {1} /\ wizards'[1] = x
  <2> SUFFICES ASSUME NEW x, wizards' = [wizards EXCEPT ![k] = x]
               PROVE  Len(wizards') = 1 /\ wizards' # <<>> /\ DOMAIN wizards' = {1} /\ wizards'[1] = x
    OBVIOUS
  <2>1. DOMAIN wizards' = {1} /\ wizards'[1] = x
    BY <1>2
  <2>2. wizards' = [j \in 1..1 |-> IF j = k THEN x ELSE wizards[j]]
    <3>1. wizards' = [j \in DOMAIN wizards |-> IF j = k THEN x ELSE wizards[j]]
      OBVIOUS
    <3>2. DOMAIN wizards = 1..1
      BY <1>1, <1>2
    <3> QED BY <3>1, <3>2
  <2>3. Len(wizards') = 1
    BY <2>2
  <2> QED BY <2>1, <2>3
<1> QED BY <1>2, <1>3, <1>4, <1>5

\* The pages of a wizard, and a wizard that writes a profile.
LEMMA TurnsServe == ASSUME IInv, Served, NEW k \in DOMAIN wizards, WizardTurns(k) \/ WizardSaves(k) PROVE Served'
<1>1. UNCHANGED <<running, appQ, iWindow, waits, wins, crashed, late, lost, torn, forced, shortcut>>
  BY DEF WizardTurns, WizardSaves, appVars, histVars, pastVars
<1>2. PICK x : wizards' = [wizards EXCEPT ![k] = x] /\ (x.page = 4 <=> wizards[k].page = 4)
  <2>1. wizards[k] \in Wizards
    BY Pages
  <2>2. CASE WizardTurns(k)
    <3>1. PICK page \in 1..3 : wizards' = [wizards EXCEPT ![k].page = page]
      BY <2>2 DEF WizardTurns
    <3> DEFINE x == [wizards[k] EXCEPT !.page = page]
    <3>2. x.page = page /\ page # 4 /\ wizards[k].page # 4
      BY <2>1, <2>2 DEF Wizards, WizardTurns
    <3>3. wizards' = [wizards EXCEPT ![k] = x]
      BY <3>1
    <3> QED BY <3>2, <3>3
  <2>3. CASE WizardSaves(k)
    <3> DEFINE x == [wizards[k] EXCEPT !.saves = Phase(wizards[k].name)]
    <3>1. x.page = wizards[k].page
      BY <2>1 DEF Wizards
    <3>2. wizards' = [wizards EXCEPT ![k] = x]
      BY <2>3 DEF WizardSaves
    <3> QED BY <3>1, <3>2
  <2> QED BY <2>2, <2>3
<1>3. /\ Len(wizards) = 1 /\ wizards # <<>> /\ DOMAIN wizards = {1} /\ k = 1
      /\ Len(wizards') = 1 /\ wizards' # <<>> /\ DOMAIN wizards' = {1} /\ wizards'[1] = x
  BY <1>2, OnlyWizard
<1>4. Working' <=> Working
  BY <1>2, <1>3 DEF Working
<1>5. One(appQ') /\ (~running => appQ' = <<>>) /\ (crashed' => late')
  BY <1>1 DEF Served, OneAsk, WindowThere
<1> QED BY <1>1, <1>3, <1>4, <1>5, CalmApp

\* A wizard is given the name of the profile that it is to make, and nobody asks for more.
LEMMA NamesServe == ASSUME IInv, Served, AtRest, NEW k \in DOMAIN wizards, WizardNames(k) PROVE Served'
<1>1. UNCHANGED <<running, appQ, iWindow, waits, wins, crashed, late, lost, torn, forced, shortcut>>
  BY DEF WizardNames, appVars
<1>2. \E x : wizards' = [wizards EXCEPT ![k] = x]
  <2>1. PICK name \in Profiles \cup {NoName} : wizards' = [wizards EXCEPT ![k].page = 4, ![k].name = name]
    BY DEF WizardNames
  <2>2. wizards' = [wizards EXCEPT ![k] = [wizards[k] EXCEPT !.page = 4, !.name = name]]
    BY <2>1
  <2> QED BY <2>2
<1>3. Len(wizards') <= 1 /\ wizards # <<>> /\ wizards' # <<>> /\ iWindow = NoWindow /\ running
  BY <1>2, OnlyWizard
<1>4. /\ waits' = Nothing /\ waits'.what = "NOTHING" /\ ~Leaving'
      /\ Free(appQ') /\ One(appQ') /\ (\A a : ~Has(appQ', a))
      /\ \A v \in DOMAIN wins : ~wins[v].alive
  BY <1>1, <1>3, RestFacts, WinTypes DEF Leaving
<1> QED BY <1>1, <1>3, <1>4, NoneServes DEF Changes

\* The only wizard has made its profile: there is no window, and nobody asks for one.
LEMMA FinishServes == ASSUME IInv, Served, NEW k \in DOMAIN wizards, WizardFinishes(k) PROVE Served'
<1> DEFINE m == [what |-> "PROFILE_CREATED", name |-> wizards[k].name]
<1>1. /\ UNCHANGED <<running, iWindow, waits, wins, crashed, late, lost, torn, forced, shortcut>>
      /\ wizards[k].page = 4 /\ Closes(k) /\ ToApp(m)
  BY DEF WizardFinishes, histVars, pastVars
<1>2. iWindow = NoWindow /\ wizards' = <<>> /\ running /\ appQ' = Append(appQ, m) /\ Working
  BY <1>1, OnlyWizard DEF ToApp, Working
<1>3. m \in AppMessages /\ m.what = "PROFILE_CREATED"
  BY Pages DEF Wizards, AppMessages
<1>4. Free(appQ) /\ One(appQ) /\ appQ \in Seq(AppMessages)
  BY <1>2, WinTypes DEF Served, OneAsk
<1> HIDE DEF m
<1>5. One(appQ') /\ \A a : Has(appQ', a) <=> m.what = a \/ Has(appQ, a)
  BY <1>2, <1>3, <1>4, AppendFacts
<1>6. ~Working' /\ Len(wizards') <= 1
  BY <1>2 DEF Working
<1>7. waits.what \notin Changes
  BY <1>2, OnlyWizard DEF Served, InChange
<1>8. ~forced => ~Leaving'
  BY <1>1, <1>2, <1>3, <1>5 DEF Served, AllWhole, Leaving, Nothing, Msg
<1>9. \A v \in DOMAIN wins : ~wins[v].alive
  BY <1>2, WinTypes DEF Served, OnlyWindow
<1> QED BY <1>1, <1>2, <1>5, <1>6, <1>7, <1>8, <1>9, NoneServes

\* The only wizard is left.
LEMMA WizardGoesServe ==
    ASSUME IInv, Served, AtRest, NEW k \in DOMAIN wizards, WizardCancelled(k) \/ WizardClosed(k) PROVE Served'
<1>1. /\ Closes(k) /\ UNCHANGED <<running, iWindow, waits, wins, crashed, late, lost, torn, forced, shortcut>>
      /\ appQ' = appQ \/ ToApp(Msg("PROFILE_SELECT"))
  BY DEF WizardCancelled, WizardClosed, appVars, pastVars
<1>2. running /\ wizards' = <<>> /\ Len(wizards) = 1
  BY <1>1, OnlyWizard
<1>3. ~Working' /\ Len(wizards') \in Nat /\ Len(wizards') <= Len(wizards)
  BY <1>2 DEF Working
<1>4. Msg("PROFILE_SELECT") \in AppMessages /\ Msg("PROFILE_SELECT").what = "PROFILE_SELECT"
  BY DEF AppMessages, Msg
<1>5. appQ' \in {appQ, Append(appQ, Msg("PROFILE_SELECT"))}
  BY <1>1, <1>2 DEF ToApp
<1> QED BY <1>1, <1>2, <1>3, <1>4, <1>5, AskServes

\* The system ends the program, in its way or at once.
LEMMA SystemServes == ASSUME IInv, Served, SystemQuits \/ Killed PROVE Served'
<1>1. CASE Killed
  BY <1>1, EndedServes DEF Killed
<1>2. CASE SystemQuits
  <2> DEFINE m == Msg("B_QUIT_REQUESTED")
  <2>1. /\ running /\ appQ' = Append(appQ, m) /\ forced' = TRUE
        /\ UNCHANGED <<running, iWindow, waits, wins, wizards, crashed, late>>
    BY <1>2 DEF SystemQuits
  <2>2. m \in Fitting /\ m.what = "B_QUIT_REQUESTED" /\ appQ \in Seq(Fitting)
    BY Plain, WinTypes DEF Msg
  <2> HIDE DEF m
  <2>3. /\ One(appQ') <=> One(appQ)
        /\ Free(appQ') <=> Free(appQ)
        /\ \A a : Has(appQ', a) <=> "B_QUIT_REQUESTED" = a \/ Has(appQ, a)
    BY <2>1, <2>2, AppendFacts DEF Asks
  <2>4. (Working' <=> Working) /\ (Unasked' <=> Unasked)
    BY <2>1, <2>3 DEF Working, Unasked
  <2>5. OnlyWindow' /\ OneAsk' /\ WindowThere'
    BY <2>1, <2>3, <2>4, WinTypes DEF OnlyWindow, OneAsk, WindowThere, Served
  <2>6. InChange' /\ NetworkThere' /\ (crashed' => late') /\ AllSaved' /\ AllWhole'
    BY <2>1, <2>3, <2>4 DEF InChange, NetworkThere, AllSaved, AllWhole, Served
  <2>7. NoOther'
    BY <2>1, <2>3 DEF NoOther, Served, Openers
  <2> QED BY <2>5, <2>6, <2>7 DEF Served
<1> QED BY <1>1, <1>2

\* BeGadu's steps serve whoever waits.
LEMMA AppServes == ASSUME IInv, TornInv, Served, AppStep PROVE Served'
<1>1. TornIsKnown
  BY DEF TornInv
<1> QED BY <1>1, TellsServe, ForwardServes, OpenProfileWizardServes, ConfigOkServes, ProfileCreatedServes,
        ProfileSwitchServes, BeggQuitServes, QuitRequestedServes, AsksToQuitServes, WindowEndedServes,
        ConfigWrittenServes DEF AppStep

\* So do the windows'.
LEMMA WindowServes == ASSUME IInv, Served, NEW w \in DOMAIN wins, WindowStep(w) PROVE Served'
BY SetStatusServes, UpdatesServe, CalmServes, TellAppServes, SavesServe, CleanServes, QuitServes
DEF WindowStep

\* So does what comes from outside, if the user waits.
LEMMA OutsideServes ==
    ASSUME IInv, TornInv, ServedInv, Environment PROVE ServedInv'
<1> SUFFICES ASSUME ~hasty' PROVE Served'
  BY DEF ServedInv
<1>1. ASSUME UserActs PROVE Served /\ AtRest
  BY <1>1 DEF UserActs, ServedInv
<1>2. ASSUME hasty' = hasty PROVE Served
  BY <1>2 DEF ServedInv
<1>3. ASSUME NEW w \in DOMAIN wins, UserPicks(w) \/ UserEdits(w) PROVE Served'
  BY <1>1, <1>3, PicksServe, EditsServe DEF UserPicks, UserEdits
<1>4. ASSUME NEW w \in DOMAIN wins, HandlerPosts(w) PROVE Served'
  BY <1>2, <1>4, PostsServe DEF HandlerPosts
<1>5. ASSUME NEW k \in DOMAIN wizards, WizardTurns(k) PROVE Served'
  BY <1>2, <1>5, TurnsServe DEF WizardTurns, histVars
<1>6. ASSUME NEW k \in DOMAIN wizards, WizardNames(k) PROVE Served'
  BY <1>1, <1>6, NamesServe DEF WizardNames
<1>7. ASSUME NEW k \in DOMAIN wizards, WizardCancelled(k) \/ WizardClosed(k) PROVE Served'
  BY <1>1, <1>7, WizardGoesServe DEF WizardCancelled, WizardClosed
<1>8. CASE UserClicks \/ UserQuits
  BY <1>1, <1>8, ClicksServe DEF UserClicks, UserQuits
<1>9. CASE Start \/ DeskbarRestarts
  BY <1>2, <1>9, StartsServe DEF Start, DeskbarRestarts
<1>10. CASE SystemQuits \/ Killed
  BY <1>2, <1>10, SystemServes DEF SystemQuits, Killed
<1> QED BY <1>3, <1>4, <1>5, <1>6, <1>7, <1>8, <1>9, <1>10 DEF Environment

\* Every step serves whoever waits.
LEMMA ServedStep == IInv /\ TornInv /\ ServedInv /\ [Next]_vars => ServedInv'
<1> SUFFICES ASSUME IInv, TornInv, ServedInv, [Next]_vars, ~hasty' PROVE Served'
  BY DEF ServedInv
<1>1. CASE AppStep
  <2>1. hasty' = hasty
    BY <1>1 DEF AppStep, AddMessenger, Forward, OpenProfileWizard, ConfigOk, ProfileCreated, ProfileSelect,
       ProfileSwitch, BeggQuit, QuitRequested, AsksToQuit, WindowEnded, ConfigWritten, histVars
  <2> QED BY <1>1, <2>1, AppServes DEF ServedInv
<1>2. CASE BarStep
  BY <1>2, BarServes DEF BarStep, BarAttaches, BarReceives, histVars, ServedInv
<1>3. ASSUME NEW w \in DOMAIN wins, WindowStep(w) PROVE Served'
  BY <1>3, WindowServes DEF WindowStep, SetStatus, Updates, TellDeskbar, TellApp, Show, SavesProfile,
     Close, QuitProgram, Quit, histVars, ServedInv
<1>4. ASSUME NEW k \in DOMAIN wizards, WizardSaves(k) \/ WizardFinishes(k) PROVE Served'
  BY <1>4, TurnsServe, FinishServes DEF WizardSaves, WizardFinishes, histVars, ServedInv
<1>5. CASE Environment
  BY <1>5, OutsideServes DEF ServedInv
<1>6. CASE UNCHANGED vars
  <2>1. UNCHANGED <<running, appQ, iWindow, waits, wins, wizards, crashed, late, lost, torn, forced, shortcut, hasty>>
    BY <1>6 DEF vars, appVars, histVars, pastVars
  <2>2. Served /\ (Working' <=> Working)
    BY <2>1 DEF ServedInv, Working
  <2> QED BY <2>1, <2>2, CalmApp DEF Served, OneAsk, WindowThere
<1> QED BY <1>1, <1>2, <1>3, <1>4, <1>5, <1>6 DEF Next, WizardStep

\* At first there is no window.
LEMMA ServedInit == Init => ServedInv
<1> SUFFICES ASSUME Init PROVE Served
  BY DEF ServedInv
<1>1. /\ appQ = <<>> /\ iWindow = NoWindow /\ waits = Nothing /\ wins = <<>> /\ wizards = <<>>
      /\ crashed = FALSE /\ lost = FALSE /\ forced = torn
  BY DEF Init, Off
<1>2. Free(appQ) /\ One(appQ) /\ (\A a : ~Has(appQ, a)) /\ waits.what = "NOTHING"
  BY <1>1, EmptyFacts DEF Nothing, Msg
<1>3. DOMAIN wins = {} /\ Len(wizards) <= 1 /\ ~Working
  BY <1>1 DEF Working
<1>4. OnlyWindow /\ OneAsk /\ WindowThere /\ InChange /\ NetworkThere /\ NoOther /\ AllSaved /\ AllWhole
  BY <1>1, <1>2, <1>3
  DEF OnlyWindow, OneAsk, WindowThere, InChange, NetworkThere, NoOther, AllSaved, AllWhole, Leaving, Changes
<1> QED BY <1>1, <1>4 DEF Served

(***************************************************************************)
(* The invariant for a user who waits, across any number of runs, windows  *)
(* and profiles.                                                           *)
(***************************************************************************)
THEOREM ServedInvariance == Spec => [](IInv /\ ServedInv)
<1>1. IInv /\ TornInv /\ ServedInv /\ [Next]_vars => (IInv /\ TornInv /\ ServedInv)'
  BY StepInv, TornStep, ServedStep
<1>2. Init => IInv /\ TornInv /\ ServedInv
  BY InitInv, TornInit, ServedInit
<1> QED BY <1>1, <1>2, PTL DEF Spec

\* OPEN_PROFILE_WIZARD, PROFILE_CREATED, PROFILE_SWITCH, CLOSE_MAIN_WINDOW and BEGG_QUIT:
\* a user who lets every act have its effects has one window or one wizard, however long
\* the program is used, and finds no profile torn unless the system ended a run; what was
\* changed is saved, unless the system or Ctrl+Q ended it; and only news that a session
\* posts while its window saves the profile are handled without a network.
THEOREM PatientServed == Spec => []PatientIsServed
<1>1. ASSUME IInv, ServedInv PROVE PatientIsServed
  <2>1. ASSUME Served PROVE Cardinality({w \in DOMAIN wins : Alive(w)}) + Len(wizards) <= 1
    <3> DEFINE S == {w \in DOMAIN wins : Alive(w)}
    <3>1. \A w \in S : w = iWindow /\ w # NoWindow
      BY <1>1, <2>1, WinTypes DEF Served, OnlyWindow, Alive
    <3>2. Len(wizards) \in Nat /\ Len(wizards) <= 1
      BY <1>1, <2>1, LenProperties DEF IInv, AppOk, Served, NoOther
    <3>3. CASE S = {}
      <4>1. Cardinality(S) = 0
        BY <3>3, FS_EmptySet
      <4> QED BY <3>2, <4>1
    <3>4. CASE S # {}
      <4>1. S = {iWindow} /\ iWindow # NoWindow
        BY <3>1, <3>4
      <4>2. Cardinality(S) = 1
        BY <4>1, FS_Singleton
      <4>3. Len(wizards) = 0
        BY <2>1, <4>1 DEF Served, NoOther
      <4> QED BY <4>2, <4>3
    <3> QED BY <3>3, <3>4
  <2>2. OneWindow
    BY <1>1, <2>1 DEF OneWindow, ServedInv
  <2>3. SoundForThePatient /\ ChangesAreSaved /\ SavesAreWhole
    BY <1>1 DEF SoundForThePatient, ChangesAreSaved, SavesAreWhole, ServedInv, Served, AllSaved, AllWhole
  <2> QED BY <2>2, <2>3 DEF PatientIsServed
<1> QED BY <1>1, ServedInvariance, PTL

-------------------------------------------------------------------------------
(***************************************************************************)
(* The icon in Deskbar.  Each icon has a view of its own and announces     *)
(* itself once, so that BeGadu learns of them in their order.              *)
(***************************************************************************)
Menus == {"PROFILE_SELECTED", "PROFILE_NOT_SELECTED"}

Calls(q, v) == \E i \in DOMAIN q : q[i].what = "ADD_MESSENGER" /\ q[i].view = v
Rising(q, v) ==
    \A i \in DOMAIN q : q[i].what = "ADD_MESSENGER" =>
        /\ v < q[i].view
        /\ \A j \in DOMAIN q : i < j /\ q[j].what = "ADD_MESSENGER" => q[i].view < q[j].view

\* the last message of these kinds, if there is one, is this
LastIs(q, kinds, m) ==
    \A i \in DOMAIN q :
        q[i].what \in kinds /\ (\A j \in DOMAIN q : i < j => q[j].what \notin kinds) => q[i] = m
\* a message of this kind is the only one of its kind, and the first of all
First(q, what) == Has(q, what) => Head(q).what = what /\ ~Has(Tail(q), what)

\* BeGadu and the windows do not know an icon before it has announced itself,
\* and no icon is left when the program is to end.
Unknown ==
    iMessenger # bar.view => \A w \in DOMAIN wins : wins[w].alive => wins[w].messenger # bar.view
Fresh ==
    bar.item /\ iMessenger # bar.view /\ (~bar.attached \/ Calls(appQ, bar.view)) =>
        bar.queue = <<>> /\ bar.selected = FALSE
IconIsNew ==
    /\ bar.item => bar.view > 0
    /\ bar.item /\ ~bar.attached => iMessenger # bar.view /\ ~Calls(appQ, bar.view)
    /\ ~bar.item => bar.queue = <<>> /\ ~bar.attached
    /\ ~running => iMessenger = 0
    /\ waits.what \in {"B_QUIT_REQUESTED", "WRITE"} => ~bar.item
    /\ Rising(appQ, iMessenger) /\ Unknown /\ Fresh

\* What waits for Deskbar brings the menu that fits.
MenuSays(there) == Msg(IF there THEN "PROFILE_SELECTED" ELSE "PROFILE_NOT_SELECTED")
WillSelect(b, there) ==
    /\ LastIs(b.queue, Menus, MenuSays(there))
    /\ (\A a \in Menus : ~Has(b.queue, a)) => b.selected = there

SelectsLast ==
    Has(appQ, "PROFILE_SELECT") =>
        /\ Unasked /\ waits.what \notin Changes
        /\ ~abandoned /\ wizards = <<>> /\ iWindow # NoWindow =>
              First(appQ, "PROFILE_SELECT") /\ iMessenger # bar.view
MenuComes ==
    ~abandoned /\ running /\ bar.item /\ iMessenger = bar.view =>
        \/ WillSelect(bar, iWindow # NoWindow)
        \/ wizards # <<>> \/ waits.what \in Changes
        \/ Has(appQ, "PROFILE_SELECT") \/ Has(appQ, "PROFILE_CREATED")

\* The last status that was chosen is on its way to Deskbar, or there.
StatusSays(s) == [what |-> "CHSTATE", status |-> s]
Follows(x, b) ==
    /\ LastIs(x.queue, {"CHSTATE"}, StatusSays(x.told))
    /\ ~Has(x.queue, "CHSTATE") =>
          /\ LastIs(b.queue, {"CHSTATE"}, StatusSays(x.told))
          /\ ~Has(b.queue, "CHSTATE") => b.icon = x.told
Knows(x, b) == x.alive /\ b.item /\ x.messenger = b.view /\ x.told # None
StatusComes == \A w \in DOMAIN wins : Knows(wins[w], bar) => Follows(wins[w], bar)

Shown == IconIsNew /\ SelectsLast /\ MenuComes /\ StatusComes
ShownInv == ~hasty => Shown

-------------------------------------------------------------------------------
\* What is called and what comes last in a queue without its first message.
LEMMA TailCalls ==
    ASSUME NEW S, NEW q \in Seq(S), q # <<>>
    PROVE  /\ \A v : Calls(Tail(q), v) => Calls(q, v)
           /\ Head(q).what = "ADD_MESSENGER" => Calls(q, Head(q).view)
           /\ \A v : Rising(q, v) => Rising(Tail(q), v)
           /\ \A v : Rising(q, v) /\ Head(q).what = "ADD_MESSENGER" =>
                        v < Head(q).view /\ Rising(Tail(q), Head(q).view)
           /\ \A kinds, m : LastIs(q, kinds, m) =>
                 /\ LastIs(Tail(q), kinds, m)
                 /\ Head(q).what \in kinds /\ (\A a \in kinds : ~Has(Tail(q), a)) => Head(q) = m
<1> DEFINE t == Tail(q)  h == Head(q)
<1>1. /\ Len(q) \in Nat /\ Len(q) > 0 /\ DOMAIN q = 1..Len(q) /\ h = q[1]
      /\ DOMAIN t = 1..(Len(q) - 1) /\ \A i \in 1..(Len(q) - 1) : t[i] = q[i + 1]
  <2>1. Len(q) \in Nat /\ DOMAIN q = 1..Len(q)
    BY LenProperties
  <2>2. t \in Seq(S) /\ Len(t) = Len(q) - 1 /\ \A i \in 1..Len(t) : t[i] = q[i + 1]
    BY HeadTailProperties
  <2>3. DOMAIN t = 1..Len(t)
    BY <2>2, LenProperties
  <2>4. Len(q) # 0
    BY EmptySeq
  <2> QED BY <2>1, <2>2, <2>3, <2>4
<1>2. \A i \in DOMAIN q : (i = 1 /\ q[i] = h) \/ (i - 1 \in DOMAIN t /\ t[i - 1] = q[i])
  BY <1>1
<1>3. \A i \in DOMAIN t : i + 1 \in DOMAIN q /\ q[i + 1] = t[i] /\ 1 < i + 1
  BY <1>1
<1>4. \A i, j \in DOMAIN t : i < j <=> i + 1 < j + 1
  BY <1>1
<1>5. 1 \in DOMAIN q /\ q[1] = h
  BY <1>1
<1>6. \A i, j \in DOMAIN q : i < j => j # 1
  BY <1>1
<1>7. \A i \in DOMAIN t, j \in DOMAIN q : i + 1 < j => j - 1 \in DOMAIN t /\ t[j - 1] = q[j] /\ i < j - 1
  BY <1>1
<1>8. \A j \in DOMAIN q : 1 < j => j - 1 \in DOMAIN t /\ t[j - 1] = q[j]
  BY <1>1
<1> HIDE DEF t, h
<1>9. \A v : Calls(t, v) => Calls(q, v)
  BY <1>3 DEF Calls
<1>10. h.what = "ADD_MESSENGER" => Calls(q, h.view)
  BY <1>5 DEF Calls
<1>11. \A v : Rising(q, v) => Rising(t, v)
  BY <1>3, <1>4 DEF Rising
<1>12. \A v : Rising(q, v) /\ h.what = "ADD_MESSENGER" => v < h.view /\ Rising(t, h.view)
  BY <1>3, <1>4, <1>5 DEF Rising
<1>13. ASSUME NEW kinds, NEW m, LastIs(q, kinds, m) PROVE LastIs(t, kinds, m)
  BY <1>3, <1>7, <1>13 DEF LastIs
<1>14. ASSUME NEW kinds, NEW m, LastIs(q, kinds, m), h.what \in kinds, \A a \in kinds : ~Has(t, a) PROVE h = m
  BY <1>5, <1>8, <1>14 DEF LastIs, Has
<1> QED BY <1>9, <1>10, <1>11, <1>12, <1>13, <1>14 DEF t, h

\* And in a queue to which a message is added.
LEMMA AppendCalls ==
    ASSUME NEW S, NEW q \in Seq(S), NEW n \in S
    PROVE  /\ \A v : Calls(Append(q, n), v) => Calls(q, v) \/ (n.what = "ADD_MESSENGER" /\ n.view = v)
           /\ \A v : Calls(q, v) => Calls(Append(q, n), v)
           /\ \A v : /\ Rising(q, v)
                     /\ n.what = "ADD_MESSENGER" => v < n.view /\ \A i \in DOMAIN q :
                           q[i].what = "ADD_MESSENGER" => q[i].view < n.view
                     => Rising(Append(q, n), v)
           /\ \A kinds, m : (IF n.what \in kinds THEN n = m ELSE LastIs(q, kinds, m))
                 => LastIs(Append(q, n), kinds, m)
           /\ \A a : First(q, a) /\ n.what # a => First(Append(q, n), a)
           /\ \A a : q = <<>> => First(Append(q, n), a)
<1> DEFINE t == Append(q, n)
<1>1. /\ Len(q) \in Nat /\ DOMAIN q = 1..Len(q) /\ DOMAIN t = 1..(Len(q) + 1)
      /\ t[Len(q) + 1] = n /\ (\A i \in 1..Len(q) : t[i] = q[i])
  <2>1. Len(q) \in Nat /\ DOMAIN q = 1..Len(q)
    BY LenProperties
  <2>2. t \in Seq(S) /\ Len(t) = Len(q) + 1
    BY AppendProperties
  <2>3. DOMAIN t = 1..(Len(q) + 1)
    BY <2>2, LenProperties
  <2> QED BY <2>1, <2>2, <2>3, AppendProperties
<1>2. \A i \in DOMAIN t : (i = Len(q) + 1 /\ t[i] = n) \/ (i \in DOMAIN q /\ t[i] = q[i])
  BY <1>1
<1>3. \A i \in DOMAIN q : i \in DOMAIN t /\ t[i] = q[i] /\ i < Len(q) + 1
  BY <1>1
<1>4. Len(q) + 1 \in DOMAIN t /\ t[Len(q) + 1] = n
  BY <1>1
<1>5. \A i \in DOMAIN t : ~(Len(q) + 1 < i)
  BY <1>1
<1>6. \A a : First(q, a) /\ n.what # a => First(t, a)
  <2> SUFFICES ASSUME NEW a, First(q, a), n.what # a, Has(t, a)
               PROVE  Head(t).what = a /\ ~Has(Tail(t), a)
    BY DEF First
  <2>1. Has(q, a)
    BY AppendFacts
  <2>2. q # <<>>
    BY <2>1, EmptyFacts
  <2>3. Head(t) = Head(q) /\ Tail(t) = Append(Tail(q), n) /\ Tail(q) \in Seq(S)
    BY <2>2
  <2>4. ~Has(Tail(q), a) /\ Head(q).what = a
    BY <2>1 DEF First
  <2>5. ~Has(Append(Tail(q), n), a)
    BY <2>3, <2>4, AppendFacts
  <2> QED BY <2>3, <2>4, <2>5
<1>7. \A a : q = <<>> => First(t, a)
  <2> SUFFICES ASSUME NEW a, q = <<>>, Has(t, a) PROVE Head(t).what = a /\ ~Has(Tail(t), a)
    BY DEF First
  <2>1. Head(t) = n /\ Tail(t) = <<>>
    OBVIOUS
  <2>2. n.what = a
    BY AppendFacts, EmptyFacts
  <2> QED BY <2>1, <2>2, EmptyFacts
<1> HIDE DEF t
<1>8. \A v : Calls(t, v) => Calls(q, v) \/ (n.what = "ADD_MESSENGER" /\ n.view = v)
  BY <1>2 DEF Calls
<1>9. \A v : Calls(q, v) => Calls(t, v)
  BY <1>3 DEF Calls
<1>10. ASSUME NEW v, Rising(q, v),
              n.what = "ADD_MESSENGER" => v < n.view /\ \A i \in DOMAIN q :
                           q[i].what = "ADD_MESSENGER" => q[i].view < n.view
       PROVE  Rising(t, v)
  BY <1>2, <1>5, <1>10 DEF Rising
<1>11. ASSUME NEW kinds, NEW m, n.what \in kinds, n = m PROVE LastIs(t, kinds, m)
  BY <1>2, <1>3, <1>4, <1>11 DEF LastIs
<1>12. ASSUME NEW kinds, NEW m, n.what \notin kinds, LastIs(q, kinds, m) PROVE LastIs(t, kinds, m)
  BY <1>2, <1>3, <1>12 DEF LastIs
<1> QED BY <1>6, <1>7, <1>8, <1>9, <1>10, <1>11, <1>12 DEF t

\* A queue that is empty.
LEMMA EmptyCalls ==
    ASSUME NEW q, q = <<>>
    PROVE  /\ \A v : ~Calls(q, v) /\ Rising(q, v)
           /\ \A kinds, m : LastIs(q, kinds, m)
           /\ \A a : First(q, a)
BY DEF Calls, Rising, LastIs, First, Has

\* A message that calls nobody, or none, is added to what waits for BeGadu.
LEMMA QuietQueue ==
    ASSUME IInv, NEW q \in Seq(AppMessages), NEW v,
           Rising(q, v), appQ' = q \/ \E m \in AppMessages : m.what # "ADD_MESSENGER" /\ appQ' = Append(q, m)
    PROVE  Rising(appQ', v) /\ \A u : Calls(appQ', u) => Calls(q, u)
BY AppendCalls

\* What waits for BeGadu.
LEMMA AppQueue ==
    ASSUME IInv
    PROVE  /\ appQ \in Seq(AppMessages)
           /\ appQ # <<>> => Tail(appQ) \in Seq(AppMessages) /\ Head(appQ) \in Fitting
           /\ \A i \in DOMAIN appQ : appQ[i].what = "ADD_MESSENGER" => appQ[i].view \in 0..bar.view
<1>1. appQ \in Seq(Fitting) /\ Fitting \subseteq AppMessages
  BY WinTypes DEF Fitting
<1>2. appQ # <<>> => Tail(appQ) \in Seq(Fitting) /\ Head(appQ) \in Fitting
  BY <1>1, HeadTailProperties
<1>3. \A i \in DOMAIN appQ : appQ[i] \in Fitting
  BY <1>1, ElementOfSeq, LenProperties
<1> QED BY <1>1, <1>2, <1>3, SeqMonotonic DEF Fitting

\* The icon stays, or is told something that BeGadu knows how to tell.
LEMMA IconKeeps ==
    ASSUME IInv, Shown, bar'.item = bar.item, bar'.view = bar.view, bar'.attached = bar.attached,
           bar' = bar \/ (bar.item /\ iMessenger = bar.view), UNCHANGED <<iMessenger, running>>,
           \A v \in DOMAIN wins' : wins'[v].alive =>
              \/ v \in DOMAIN wins /\ wins[v].alive /\ wins'[v].messenger = wins[v].messenger
              \/ wins'[v].messenger = 0,
           waits'.what \in {"B_QUIT_REQUESTED", "WRITE"} => waits.what \in {"B_QUIT_REQUESTED", "WRITE"},
           Rising(appQ', iMessenger), \A u : Calls(appQ', u) => Calls(appQ, u)
    PROVE  IconIsNew'
<1>1. iMessenger \in 0..bar.view /\ bar.view \in Nat
  BY DEF IInv, AppOk, Bars
<1>2. Unknown'
  <2>1. iMessenger # bar.view => bar.view # 0
    BY <1>1
  <2> QED BY <2>1 DEF Unknown, Shown, IconIsNew
<1>3. Fresh'
  BY DEF Fresh, Shown, IconIsNew
<1> QED BY <1>2, <1>3 DEF IconIsNew, Shown

\* What waits to be chosen still does, or has been.
LEMMA SelectsKeep ==
    ASSUME IInv, Shown, Has(appQ', "PROFILE_SELECT") => Has(appQ, "PROFILE_SELECT"), Unasked => Unasked',
           waits'.what \in Changes => waits.what \in Changes,
           ~abandoned' => ~abandoned, wizards' = wizards, iWindow' # NoWindow => iWindow # NoWindow,
           First(appQ, "PROFILE_SELECT") => First(appQ', "PROFILE_SELECT"),
           iMessenger # bar.view => iMessenger' # bar'.view
    PROVE  SelectsLast'
BY DEF SelectsLast, Shown

\* What is to bring the menu that fits still does.
LEMMA MenuKeeps ==
    ASSUME IInv, Shown, ~abandoned' => ~abandoned, running' => running,
           bar'.item /\ iMessenger' = bar'.view => bar.item /\ iMessenger = bar.view,
           WillSelect(bar, iWindow # NoWindow) => WillSelect(bar', iWindow' # NoWindow),
           wizards # <<>> => wizards' # <<>>, waits.what \in Changes => waits'.what \in Changes,
           Has(appQ, "PROFILE_SELECT") => Has(appQ', "PROFILE_SELECT"),
           Has(appQ, "PROFILE_CREATED") => Has(appQ', "PROFILE_CREATED")
    PROVE  MenuComes'
BY DEF MenuComes, Shown

\* Windows keep their statuses, or do not know the icon.
LEMMA StatusKeeps ==
    ASSUME IInv, Shown,
           \A v \in DOMAIN wins' : Knows(wins'[v], bar') =>
              /\ v \in DOMAIN wins /\ Knows(wins[v], bar)
              /\ Follows(wins[v], bar) => Follows(wins'[v], bar')
    PROVE  StatusComes'
BY DEF StatusComes, Shown

-------------------------------------------------------------------------------
\* A window does what is no matter of Deskbar's, and may ask BeGadu for something.
LEMMA WindowShows ==
    ASSUME IInv, Served, Shown, NEW w \in DOMAIN wins, NEW x, wins' = [wins EXCEPT ![w] = x],
           x.messenger = wins[w].messenger, x.alive => wins[w].alive,
           Free(wins[w].queue) => Free(x.queue),
           Knows(x, bar) => Follows(x, bar),
           appQ' = appQ \/ \E m \in AppMessages :
                /\ appQ' = Append(appQ, m) /\ m.what \notin {"ADD_MESSENGER", "PROFILE_SELECT"}
                /\ m.what \in Asks => ~Free(wins[w].queue),
           UNCHANGED <<running, iWindow, waits, wizards, bar, iMessenger, abandoned>>
    PROVE  Shown'
<1>1. /\ DOMAIN wins' = DOMAIN wins /\ wins'[w] = x
      /\ \A v \in DOMAIN wins : v # w => wins'[v] = wins[v]
  BY WinSet
<1>2. appQ \in Seq(AppMessages)
  BY AppQueue
<1>3. /\ Has(appQ', "PROFILE_SELECT") <=> Has(appQ, "PROFILE_SELECT")
      /\ Has(appQ, "PROFILE_CREATED") => Has(appQ', "PROFILE_CREATED")
      /\ Free(appQ) /\ Free(wins[w].queue) => Free(appQ')
  <2>1. CASE appQ' = appQ
    BY <2>1
  <2>2. ASSUME NEW m \in AppMessages, appQ' = Append(appQ, m), m.what # "PROFILE_SELECT",
               m.what \in Asks => ~Free(wins[w].queue)
        PROVE  /\ Has(appQ', "PROFILE_SELECT") <=> Has(appQ, "PROFILE_SELECT")
               /\ Has(appQ, "PROFILE_CREATED") => Has(appQ', "PROFILE_CREATED")
               /\ Free(appQ) /\ Free(wins[w].queue) => Free(appQ')
    BY <1>2, <2>2, AppendFacts
  <2> QED BY <2>1, <2>2
<1>4. First(appQ, "PROFILE_SELECT") => First(appQ', "PROFILE_SELECT")
  BY <1>2, AppendCalls
<1>5. Rising(appQ', iMessenger) /\ \A u : Calls(appQ', u) => Calls(appQ, u)
  BY <1>2, QuietQueue DEF Shown, IconIsNew
<1>6. IconIsNew'
  BY <1>1, <1>5, IconKeeps
<1>7. Unasked => Unasked'
  BY <1>1, <1>3 DEF Unasked, Working
<1>8. SelectsLast'
  BY <1>3, <1>4, <1>7, SelectsKeep
<1>9. MenuComes'
  BY <1>3, MenuKeeps
<1>10. StatusComes'
  BY <1>1 DEF StatusComes, Shown
<1> QED BY <1>6, <1>8, <1>9, <1>10 DEF Shown

\* Nothing happens that Deskbar or the program around it would know of.
LEMMA StandsStill ==
    ASSUME IInv, Shown, UNCHANGED <<running, appQ, iWindow, waits, wins, wizards, bar, iMessenger, abandoned>>
    PROVE  Shown'
<1>1. IconIsNew'
  BY DEF Shown, IconIsNew, Unknown, Fresh
<1>2. SelectsLast'
  BY DEF Shown, SelectsLast, Unasked, Working
<1>3. MenuComes' /\ StatusComes'
  BY DEF Shown, MenuComes, StatusComes
<1> QED BY <1>1, <1>2, <1>3 DEF Shown

\* A window handles a message that says nothing of its status.
LEMMA FollowsOn ==
    ASSUME IInv, Shown, NEW w \in DOMAIN wins, NEW what, Turn(w, what), what # "CHSTATE",
           NEW x, x.queue = Tail(wins[w].queue), x.told = wins[w].told,
           x.messenger = wins[w].messenger, x.alive => wins[w].alive
    PROVE  Knows(x, bar) => Follows(x, bar)
<1> DEFINE q == wins[w].queue
<1>1. q \in Seq(WinMessages) /\ q # <<>>
  BY WinTypes DEF Turn
<1>2. Has(q, "CHSTATE") <=> Has(Tail(q), "CHSTATE")
  BY WinHead
<1> HIDE DEF q
<1>3. \A m : LastIs(q, {"CHSTATE"}, m) => LastIs(Tail(q), {"CHSTATE"}, m)
  BY <1>1, TailCalls
<1>4. Knows(x, bar) => Follows(wins[w], bar)
  BY DEF Knows, Shown, StatusComes
<1> QED BY <1>2, <1>3, <1>4 DEF Follows, q

\* SET_AVAIL, SET_NOT_AVAIL, a connection that was lost: the window tells itself of its status.
LEMMA SetStatusShows == ASSUME IInv, Served, Shown, NEW w \in DOMAIN wins, SetStatus(w) PROVE Shown'
<1>1. /\ UNCHANGED <<running, appQ, iWindow, waits, wizards, bar, iMessenger, abandoned>>
      /\ \E a \in {"SET", "DROPPED"} : Turn(w, a)
  BY DEF SetStatus, appVars
<1>2. PICK what \in {"SET", "DROPPED"} : Turn(w, what)
  BY <1>1
<1>3. /\ W(w) \in WinMessages /\ W(w).what = what /\ wins[w].alive
      /\ Free(wins[w].queue) => Free(Tail(wins[w].queue)) /\ what # "SET"
  BY <1>2, WinHead DEF Asks
<1>4. CASE ~wins[w].network
  BY <1>1, <1>4, StandsStill DEF SetStatus, Faults
<1>5. CASE wins[w].network
  <2>1. PICK s \in {W(w).status} \cup (IF W(w).status = "notavail" THEN {wins[w].status} ELSE {}),
             update \in {<<>>, <<Msg("NEWS")>>, <<Msg("UPDATE")>>} :
          wins' = [wins EXCEPT ![w] = [Handled(w) EXCEPT !.status = s, !.told = s,
                                                       !.queue = @ \o update \o <<Report(s)>>]]
    BY <1>5 DEF SetStatus, Becomes
  <2>2. s \in Statuses
    <3>1. W(w).status \in Statuses
      BY <1>3, WinFacts
    <3>2. wins[w].status \in Statuses
      BY WinTypes DEF Windows
    <3> QED BY <2>1, <3>1, <3>2
  <2> DEFINE x == [Handled(w) EXCEPT !.status = s, !.told = s, !.queue = @ \o update \o <<Report(s)>>]
             t == Tail(wins[w].queue)  m == StatusSays(s)
  <2>3. m \in WinMessages /\ m.what = "CHSTATE" /\ m = Report(s)
    BY <2>2 DEF WinMessages, StatusSays, Report
  <2>4. x.queue = t \o update \o <<m>> /\ x.alive = wins[w].alive /\ x.messenger = wins[w].messenger /\ x.told = s
    BY <2>3, WinTypes DEF Handled, Windows
  <2>5. wins' = [wins EXCEPT ![w] = x]
    BY <2>1
  <2>6. t \in Seq(WinMessages)
    BY <1>2, WinHead
  <2> HIDE DEF x, t, m
  <2>7. PICK r \in Seq(WinMessages) : x.queue = Append(r, m) /\ (Free(t) => Free(r))
    <3>1. CASE update = <<>>
      BY <2>3, <2>4, <2>6, <3>1, AppendTwo
    <3>2. ASSUME NEW a \in {"NEWS", "UPDATE"}, update = <<Msg(a)>>
          PROVE  \E r \in Seq(WinMessages) : x.queue = Append(r, m) /\ (Free(t) => Free(r))
      <4> DEFINE u == Msg(a)
      <4>1. u \in WinMessages /\ u.what \notin Asks
        BY PlainWin DEF Msg, Asks
      <4> HIDE DEF u
      <4>2. x.queue = Append(Append(t, u), m) /\ Append(t, u) \in Seq(WinMessages)
        BY <2>3, <2>4, <2>6, <3>2, <4>1, AppendTwo DEF u
      <4>3. Free(t) => Free(Append(t, u))
        BY <2>6, <4>1, AppendFacts
      <4> QED BY <4>2, <4>3
    <3> QED BY <3>1, <3>2
  <2>8. Has(x.queue, "CHSTATE") /\ (Free(t) => Free(x.queue))
    BY <2>3, <2>7, AppendFacts DEF Asks
  <2>9. LastIs(x.queue, {"CHSTATE"}, m)
    BY <2>3, <2>7, AppendCalls
  <2>10. Follows(x, bar)
    BY <2>4, <2>8, <2>9 DEF Follows, m
  <2>11. Free(wins[w].queue) => Free(x.queue)
    BY <1>3, <2>8 DEF t
  <2> QED BY <1>1, <2>4, <2>5, <2>10, <2>11, WindowShows
<1> QED BY <1>4, <1>5

\* The fields that Deskbar is about.
LEMMA HandledTells ==
    ASSUME IInv, NEW w \in DOMAIN wins
    PROVE  /\ Handled(w).messenger = wins[w].messenger /\ Handled(w).told = wins[w].told
           /\ Cleaned(w).messenger = wins[w].messenger /\ Cleaned(w).told = wins[w].told
BY WinTypes DEF Handled, Cleaned, Windows

\* What a window shows, what it asks BeGadu for, and what ends it.
LEMMA PlainShows ==
    ASSUME IInv, Served, Shown, NEW w \in DOMAIN wins, NEW x \in {Handled(w), Cleaned(w)},
           wins' = [wins EXCEPT ![w] = x],
           NEW what \in {"SHOW", "UPDATE", "NEWS", "PROFILE_SWITCH", "OPEN_PROFILE_WIZARD", "CLOSE", "BEGG_QUIT"},
           Turn(w, what),
           appQ' = appQ \/ \E m \in AppMessages :
                /\ what \in Asks /\ appQ' = Append(appQ, m) /\ m.what \notin {"ADD_MESSENGER", "PROFILE_SELECT"},
           UNCHANGED <<running, iWindow, waits, wizards, bar, iMessenger, abandoned>>
    PROVE  Shown'
<1>1. Free(wins[w].queue) => what \notin Asks /\ Free(Tail(wins[w].queue))
  BY WinHead
<1>2. /\ x.queue = Tail(wins[w].queue) /\ x.alive = wins[w].alive
      /\ x.messenger = wins[w].messenger /\ x.told = wins[w].told
  BY HandledFields, HandledTells
<1>3. what # "CHSTATE"
  OBVIOUS
<1>4. Knows(x, bar) => Follows(x, bar)
  BY <1>2, <1>3, FollowsOn
<1>5. appQ' = appQ \/ \E m \in AppMessages :
         /\ appQ' = Append(appQ, m) /\ m.what \notin {"ADD_MESSENGER", "PROFILE_SELECT"}
         /\ m.what \in Asks => ~Free(wins[w].queue)
  BY <1>1
<1> QED BY <1>1, <1>2, <1>4, <1>5, WindowShows

\* A click, and what a session had to say.
LEMMA CalmShows == ASSUME IInv, Served, Shown, NEW w \in DOMAIN wins, Show(w) \/ Updates(w) PROVE Shown'
<1>1. UNCHANGED <<running, appQ, iWindow, waits, wizards, bar, iMessenger, abandoned>>
  BY DEF Show, Updates, appVars, histVars, pastVars
<1>2. wins' = wins \/ wins' = [wins EXCEPT ![w] = Handled(w)]
  BY DEF Show, Updates, Becomes, Faults
<1>3. PICK what \in {"SHOW", "UPDATE", "NEWS"} : Turn(w, what)
  BY DEF Show, Updates
<1> QED BY <1>1, <1>2, <1>3, StandsStill, PlainShows

\* PROFILE_SWITCH, OPEN_PROFILE_WIZARD: what is asked goes on to BeGadu.
LEMMA TellAppShows == ASSUME IInv, Served, Shown, NEW w \in DOMAIN wins, TellApp(w) PROVE Shown'
<1>1. PICK what \in {"PROFILE_SWITCH", "OPEN_PROFILE_WIZARD"} : Turn(w, what)
  BY DEF TellApp
<1>2. /\ wins' = [wins EXCEPT ![w] = Handled(w)] /\ appQ' = Append(appQ, W(w))
      /\ UNCHANGED <<running, iWindow, waits, wizards, bar, iMessenger, abandoned>>
  BY DEF TellApp, Becomes, histVars, pastVars
<1>3. W(w) \in AppMessages /\ W(w).what = what /\ what \in Asks
  BY <1>1, WinHead, WinFacts DEF Asks
<1> QED BY <1>1, <1>2, <1>3, PlainShows

\* CLOSE_MAIN_WINDOW, BEGG_QUIT: the window has saved its profile.
LEMMA CleanShows == ASSUME IInv, Served, Shown, NEW w \in DOMAIN wins, Close(w) \/ QuitProgram(w) PROVE Shown'
<1>1. UNCHANGED <<running, iWindow, waits, wizards, bar, iMessenger, abandoned>>
  BY DEF Close, QuitProgram, appVars
<1>2. PICK what \in {"CLOSE", "BEGG_QUIT"} :
         /\ Turn(w, what)
         /\ (what = "CLOSE" /\ Close(w)) \/ (what = "BEGG_QUIT" /\ QuitProgram(w))
  BY DEF Close, QuitProgram
<1>3. what \in Asks
  BY DEF Asks
<1>4. wins[w].network
  BY <1>2, <1>3, NoFault
<1>5. wins' = [wins EXCEPT ![w] = Cleaned(w)]
  BY <1>2, <1>4 DEF Close, QuitProgram, Becomes
<1> DEFINE m == Msg("B_QUIT_REQUESTED")
<1>6. m \in AppMessages /\ m.what = "B_QUIT_REQUESTED"
  BY DEF AppMessages, Msg
<1>7. appQ' = appQ \/ appQ' = Append(appQ, m)
  BY <1>2, <1>4 DEF Close, QuitProgram, appVars
<1> HIDE DEF m
<1> QED BY <1>1, <1>2, <1>3, <1>5, <1>6, <1>7, PlainShows

\* Profile::Save is no matter of Deskbar's.
LEMMA SavesShow == ASSUME IInv, Served, Shown, NEW w \in DOMAIN wins, SavesProfile(w) PROVE Shown'
<1> DEFINE x == [wins[w] EXCEPT !.saves = Phase(wins[w].profile),
                                !.saved = (wins[w].saves = "idle" \/ wins[w].saved)]
<1>1. /\ wins' = [wins EXCEPT ![w] = x]
      /\ UNCHANGED <<running, appQ, iWindow, waits, wizards, bar, iMessenger, abandoned>>
  BY DEF SavesProfile, Becomes, appVars, histVars, pastVars
<1>2. /\ x.alive = wins[w].alive /\ x.messenger = wins[w].messenger /\ x.queue = wins[w].queue
      /\ x.told = wins[w].told
  BY WinTypes DEF Windows
<1> HIDE DEF x
<1>3. Knows(x, bar) => Follows(x, bar)
  BY <1>2 DEF Knows, Follows, Shown, StatusComes
<1> QED BY <1>1, <1>2, <1>3, WindowShows

\* A window that has ended shows nothing.
LEMMA QuitShows == ASSUME IInv, Served, Shown, NEW w \in DOMAIN wins, Quit(w) PROVE Shown'
<1> DEFINE x == [Handled(w) EXCEPT !.alive = FALSE, !.queue = <<>>]
<1>1. /\ wins' = [wins EXCEPT ![w] = x]
      /\ UNCHANGED <<running, appQ, iWindow, waits, wizards, bar, iMessenger, abandoned>>
  BY DEF Quit, Becomes, appVars, pastVars
<1>2. x.alive = FALSE /\ x.queue = <<>> /\ x.messenger = wins[w].messenger
  BY WinTypes DEF Handled, Windows
<1> HIDE DEF x
<1>3. Free(x.queue) /\ ~Knows(x, bar)
  BY <1>2, EmptyFacts DEF Knows
<1> QED BY <1>1, <1>2, <1>3, WindowShows

\* BGDESKBAR_CHSTATE: the status goes on to Deskbar, behind what waits there.
LEMMA TellDeskbarShows == ASSUME IInv, Served, Shown, NEW w \in DOMAIN wins, TellDeskbar(w) PROVE Shown'
<1> DEFINE q == wins[w].queue  x == Handled(w)
           knows == bar.item /\ wins[w].messenger = bar.view
<1>1. /\ Turn(w, "CHSTATE") /\ wins' = [wins EXCEPT ![w] = x]
      /\ bar' = IF knows THEN [bar EXCEPT !.queue = Append(@, W(w))] ELSE bar
      /\ UNCHANGED <<running, appQ, iWindow, waits, wizards, iMessenger, abandoned>>
  BY DEF TellDeskbar, Becomes, appVars, histVars, pastVars
<1>2. /\ DOMAIN wins' = DOMAIN wins /\ wins'[w] = x
      /\ \A v \in DOMAIN wins : v # w => wins'[v] = wins[v]
  BY <1>1, WinSet
<1>3. /\ x.queue = Tail(q) /\ x.alive = wins[w].alive /\ x.messenger = wins[w].messenger
      /\ x.told = wins[w].told
  BY HandledFields, HandledTells
<1>4. /\ W(w) \in WinMessages /\ W(w).what = "CHSTATE" /\ wins[w].alive /\ q \in Seq(WinMessages) /\ q # <<>>
      /\ W(w) = Head(q) /\ Has(q, "CHSTATE")
      /\ Free(q) => Free(Tail(q))
  BY <1>1, WinHead, WinTypes DEF Turn, W
<1>5. W(w) \in BarMessages
  BY <1>4, WinFacts
<1>6. bar.queue \in Seq(BarMessages) /\ bar \in Bars
  BY DEF IInv, Bars
<1>7. /\ bar'.item = bar.item /\ bar'.view = bar.view /\ bar'.attached = bar.attached
      /\ bar'.icon = bar.icon /\ bar'.selected = bar.selected
      /\ bar'.queue = IF knows THEN Append(bar.queue, W(w)) ELSE bar.queue
  BY <1>1, <1>6 DEF Bars
<1>8. \A v \in DOMAIN wins : wins[v].alive => v = w
  BY <1>4 DEF Served, OnlyWindow
<1>9. knows => iMessenger = bar.view
  BY <1>4 DEF Shown, IconIsNew, Unknown
<1>10. \A m : LastIs(q, {"CHSTATE"}, m) =>
         LastIs(Tail(q), {"CHSTATE"}, m) /\ (~Has(Tail(q), "CHSTATE") => Head(q) = m)
  BY <1>4, TailCalls
<1> DEFINE c == W(w)
<1> HIDE DEF c
<1>11. /\ \A a : Has(Append(bar.queue, c), a) <=> c.what = a \/ Has(bar.queue, a)
       /\ \A m : LastIs(bar.queue, Menus, m) => LastIs(Append(bar.queue, c), Menus, m)
       /\ \A m : c = m => LastIs(Append(bar.queue, c), {"CHSTATE"}, m)
  BY <1>4, <1>5, <1>6, AppendFacts, AppendCalls DEF c, Menus
<1> HIDE DEF x, q
<1>12. IconIsNew'
  BY <1>1, <1>2, <1>3, <1>7, <1>9, IconKeeps DEF Shown, IconIsNew
<1>13. Unasked => Unasked'
  BY <1>1, <1>2, <1>3, <1>4 DEF Unasked, Working, q
<1>14. SelectsLast'
  BY <1>1, <1>7, <1>13, SelectsKeep
<1>15. WillSelect(bar, iWindow # NoWindow) => WillSelect(bar', iWindow' # NoWindow)
  BY <1>1, <1>4, <1>7, <1>11 DEF WillSelect, Menus, c
<1>16. MenuComes'
  BY <1>1, <1>7, <1>15, MenuKeeps
<1>17. ASSUME Knows(x, bar') PROVE Follows(x, bar')
  <2>1. Knows(wins[w], bar) /\ knows
    BY <1>3, <1>7, <1>17 DEF Knows
  <2>2. LastIs(q, {"CHSTATE"}, StatusSays(x.told))
    BY <1>3, <2>1 DEF Shown, StatusComes, Follows, q
  <2>3. ~Has(Tail(q), "CHSTATE") => c = StatusSays(x.told)
    BY <1>4, <1>10, <2>2 DEF c
  <2>4. Has(bar'.queue, "CHSTATE")
    BY <1>4, <1>7, <1>11, <2>1 DEF c
  <2> QED BY <1>3, <1>7, <1>10, <1>11, <2>1, <2>2, <2>3, <2>4 DEF Follows, c
<1>18. StatusComes'
  BY <1>2, <1>3, <1>8, <1>17 DEF StatusComes, Knows
<1> QED BY <1>12, <1>14, <1>16, <1>18 DEF Shown

-------------------------------------------------------------------------------
\* What waits behind the message that BeGadu handles.
LEMMA AppTail ==
    ASSUME IInv, Shown, NEW what, Handles(what)
    PROVE  /\ Tail(appQ) \in Seq(AppMessages) /\ M = Head(appQ) /\ M.what = what /\ M \in Fitting
           /\ running /\ waits = Nothing /\ waits.what = "NOTHING"
           /\ Rising(Tail(appQ), iMessenger) /\ \A u : Calls(Tail(appQ), u) => Calls(appQ, u)
           /\ \A a : Has(appQ, a) <=> what = a \/ Has(Tail(appQ), a)
           /\ Free(appQ) <=> what \notin Asks /\ Free(Tail(appQ))
           /\ First(appQ, "PROFILE_SELECT") => ~Has(Tail(appQ), "PROFILE_SELECT")
           /\ what = "ADD_MESSENGER" =>
                Calls(appQ, M.view) /\ iMessenger < M.view /\ Rising(Tail(appQ), M.view)
<1>1. /\ appQ # <<>> /\ M = Head(appQ) /\ M.what = what /\ appQ \in Seq(AppMessages)
      /\ Tail(appQ) \in Seq(AppMessages) /\ M \in Fitting
      /\ running /\ waits = Nothing
  BY AppQueue DEF Handles, M
<1>2. waits.what = "NOTHING"
  BY <1>1 DEF Nothing, Msg
<1>3. /\ \A a : Has(appQ, a) <=> what = a \/ Has(Tail(appQ), a)
      /\ Free(appQ) <=> what \notin Asks /\ Free(Tail(appQ))
  BY <1>1, TailFacts
<1>4. /\ Rising(Tail(appQ), iMessenger) /\ \A u : Calls(Tail(appQ), u) => Calls(appQ, u)
      /\ what = "ADD_MESSENGER" =>
            Calls(appQ, M.view) /\ iMessenger < M.view /\ Rising(Tail(appQ), M.view)
  BY <1>1, TailCalls DEF Shown, IconIsNew
<1>5. First(appQ, "PROFILE_SELECT") => ~Has(Tail(appQ), "PROFILE_SELECT")
  BY <1>3 DEF First
<1> QED BY <1>1, <1>2, <1>3, <1>4, <1>5

\* Deskbar is told which menu fits, if BeGadu knows the icon.
LEMMA ToldFacts ==
    ASSUME NEW b \in Bars, NEW what \in Menus
    PROVE  LET t == Told(b, what) IN
           /\ t.item = b.item /\ t.view = b.view /\ t.attached = b.attached /\ t.icon = b.icon
           /\ t = b \/ (b.item /\ iMessenger = b.view)
           /\ b.item /\ iMessenger = b.view => WillSelect(t, what = "PROFILE_SELECTED")
           /\ \A x : Follows(x, b) => Follows(x, t)
<1> DEFINE t == Told(b, what)
<1>1. CASE ~(b.item /\ iMessenger = b.view)
  BY <1>1 DEF Told
<1>2. CASE b.item /\ iMessenger = b.view
  <2> DEFINE q == b.queue  m == Msg(what)
  <2>1. /\ t.item = b.item /\ t.view = b.view /\ t.attached = b.attached /\ t.icon = b.icon
        /\ t.queue = Append(q, m) /\ q \in Seq(BarMessages)
    BY <1>2 DEF Told, Bars
  <2>2. /\ m \in BarMessages /\ m.what = what /\ what # "CHSTATE"
        /\ m = MenuSays(what = "PROFILE_SELECTED")
    BY DEF Msg, BarMessages, Menus, MenuSays
  <2> HIDE DEF t, q, m
  <2>3. /\ \A a : Has(t.queue, a) <=> what = a \/ Has(q, a)
        /\ LastIs(t.queue, Menus, m)
        /\ \A n : LastIs(q, {"CHSTATE"}, n) => LastIs(t.queue, {"CHSTATE"}, n)
    BY <2>1, <2>2, AppendFacts, AppendCalls
  <2>4. WillSelect(t, what = "PROFILE_SELECTED")
    BY <2>2, <2>3 DEF WillSelect
  <2>5. \A x : Follows(x, b) => Follows(x, t)
    BY <2>1, <2>2, <2>3 DEF Follows, q
  <2> QED BY <1>2, <2>1, <2>4, <2>5 DEF t
<1> QED BY <1>1, <1>2

\* An icon comes, with a view of its own.
LEMMA IconComes ==
    ASSUME IInv, Shown, bar'.item = TRUE, bar'.view = bar.view + 1, bar'.attached = FALSE,
           bar'.selected = FALSE, bar'.queue = <<>>, iMessenger' = iMessenger,
           running => running',
           \A v \in DOMAIN wins' : wins'[v].alive =>
              \/ v \in DOMAIN wins /\ wins[v].alive /\ wins'[v].messenger = wins[v].messenger
              \/ wins'[v].messenger = 0,
           waits'.what \notin {"B_QUIT_REQUESTED", "WRITE"},
           Rising(appQ', iMessenger), \A u : Calls(appQ', u) => Calls(appQ, u)
    PROVE  IconIsNew' /\ iMessenger' # bar'.view /\ \A v \in DOMAIN wins' : wins'[v].alive => ~Knows(wins'[v], bar')
<1>1. iMessenger \in 0..bar.view /\ bar.view \in Nat
  BY DEF IInv, AppOk, Bars
<1>2. \A u : Calls(appQ, u) => u \in 0..bar.view
  BY AppQueue DEF Calls
<1>3. ~Calls(appQ', bar'.view)
  BY <1>1, <1>2
<1>4. \A v \in DOMAIN wins' : wins'[v].alive => wins'[v].messenger # bar'.view
  <2>1. \A v \in DOMAIN wins : wins[v].messenger \in 0..bar.view
    BY WinTypes DEF Windows
  <2>2. \A n \in 0..bar.view : n # bar.view + 1
    BY <1>1
  <2> QED BY <1>1, <2>1, <2>2
<1>5. iMessenger' # bar'.view /\ bar'.view > 0
  BY <1>1
<1>6. ~running' => iMessenger' = 0
  BY DEF Shown, IconIsNew
<1> QED BY <1>3, <1>4, <1>5, <1>6 DEF IconIsNew, Unknown, Fresh, Knows

\* ADD_MESSENGER: BeGadu and the window learn of an icon, and tell it which menu fits.
LEMMA AddMessengerShows == IInv /\ Served /\ Shown /\ AddMessenger => Shown'
<1> SUFFICES ASSUME IInv, Served, Shown, AddMessenger PROVE Shown'
  OBVIOUS
<1> DEFINE t == Tail(appQ)  u == M.view  new == u = bar.view
<1>1. /\ Handles("ADD_MESSENGER") /\ appQ' = t /\ iMessenger' = u
      /\ UNCHANGED <<running, iWindow, waits, wizards, abandoned>>
      /\ iWindow = NoWindow => UNCHANGED <<wins, bar>>
      /\ iWindow # NoWindow =>
           /\ wins' = [wins EXCEPT ![iWindow].messenger = u, ![iWindow].told = None]
           /\ bar' = IF bar.item /\ new THEN [bar EXCEPT !.queue = Append(@, Msg("PROFILE_SELECTED"))] ELSE bar
  BY DEF AddMessenger, Taken, histVars, pastVars
<1>2. /\ M \in Fitting /\ M.what = "ADD_MESSENGER" /\ running /\ waits.what = "NOTHING"
      /\ \A a : Has(appQ, a) <=> "ADD_MESSENGER" = a \/ Has(t, a)
      /\ Free(appQ) => Free(t) 
      /\ First(appQ, "PROFILE_SELECT") => ~Has(t, "PROFILE_SELECT")
      /\ \A v : Calls(t, v) => Calls(appQ, v)
      /\ Calls(appQ, u) /\ iMessenger < u /\ Rising(t, u)
  BY <1>1, AppTail
<1>3. u \in 0..bar.view /\ iMessenger \in 0..bar.view /\ bar.view \in Nat /\ bar \in Bars
  BY <1>2 DEF Fitting, IInv, AppOk, Bars
<1>4. iMessenger # bar.view
  BY <1>2, <1>3
<1>5. \A v \in DOMAIN wins : wins[v].alive <=> v = iWindow
  BY <1>1, AppHead
<1>6. /\ DOMAIN wins' = DOMAIN wins
      /\ \A v \in DOMAIN wins : /\ wins'[v].alive = wins[v].alive /\ wins'[v].queue = wins[v].queue
                                /\ wins'[v].alive => wins'[v].messenger = u /\ wins'[v].told = None
  <2>1. CASE iWindow = NoWindow
    BY <1>1, <1>5, <2>1, WinTypes
  <2>2. CASE iWindow # NoWindow
    <3> DEFINE w == iWindow  x == [wins[w] EXCEPT !.messenger = u, !.told = None]
    <3>1. w \in DOMAIN wins
      BY <2>2, WinTypes
    <3>2. wins' = [wins EXCEPT ![w] = x]
      BY <1>1, <2>2, <3>1, WinTypes DEF IInv, WinsOk
    <3>3. x.alive = wins[w].alive /\ x.queue = wins[w].queue /\ x.messenger = u /\ x.told = None
      BY <3>1, WinTypes DEF Windows
    <3> HIDE DEF x, w
    <3>4. wins'[w] = x /\ DOMAIN wins' = DOMAIN wins /\ \A v \in DOMAIN wins : v # w => wins'[v] = wins[v]
      BY <3>1, <3>2, WinSet
    <3> QED BY <1>5, <3>3, <3>4 DEF w
  <2> QED BY <2>1, <2>2
<1>7. /\ bar'.item = bar.item /\ bar'.view = bar.view /\ bar'.attached = bar.attached
      /\ bar' = bar \/ (bar.item /\ new)
  BY <1>1, <1>3 DEF Bars
<1> HIDE DEF t
<1>8. bar.item /\ new => bar.queue = <<>> /\ bar.selected = FALSE /\ bar.attached
  BY <1>2, <1>4 DEF Shown, IconIsNew, Fresh
<1>9. IconIsNew'
  <2>1. Unknown'
    BY <1>1, <1>6, <1>7 DEF Unknown
  <2>2. Fresh'
    BY <1>1, <1>2, <1>4, <1>7 DEF Fresh, Shown, IconIsNew
  <2>3. bar.item /\ ~bar.attached => ~new /\ ~Calls(t, bar.view)
    BY <1>2 DEF Shown, IconIsNew
  <2> QED BY <1>1, <1>2, <1>7, <2>1, <2>2, <2>3 DEF IconIsNew, Shown
<1>10. SelectsLast'
  <2>1. Unasked => Unasked'
    BY <1>1, <1>2, <1>6 DEF Unasked, Working
  <2> QED BY <1>1, <1>2, <2>1 DEF SelectsLast, Shown
<1>11. ASSUME bar.item, new PROVE WillSelect(bar', iWindow # NoWindow)
  <2>1. CASE iWindow = NoWindow
    <3>1. bar' = bar
      BY <1>1, <2>1
    <3> QED BY <1>8, <1>11, <2>1, <3>1, EmptyFacts, EmptyCalls DEF WillSelect
  <2>2. CASE iWindow # NoWindow
    <3> DEFINE m == Msg("PROFILE_SELECTED")
    <3>1. bar'.queue = Append(bar.queue, m) /\ bar.queue \in Seq(BarMessages)
      BY <1>1, <1>3, <1>11, <2>2 DEF Bars
    <3>2. m \in BarMessages /\ m.what = "PROFILE_SELECTED" /\ m = MenuSays(TRUE)
      BY DEF Msg, BarMessages, MenuSays
    <3> DEFINE q == bar.queue
    <3> HIDE DEF m, q
    <3>3. q \in Seq(BarMessages) /\ bar'.queue = Append(q, m) /\ m.what \in Menus
      BY <3>1, <3>2 DEF q, Menus
    <3>4. LastIs(Append(q, m), Menus, m)
      BY <3>2, <3>3, AppendCalls
    <3>5. Has(Append(q, m), "PROFILE_SELECTED")
      BY <3>2, <3>3, AppendFacts
    <3> QED BY <2>2, <3>2, <3>3, <3>4, <3>5 DEF WillSelect, Menus
  <2> QED BY <2>1, <2>2
<1>12. MenuComes'
  BY <1>1, <1>7, <1>11 DEF MenuComes
<1>13. StatusComes'
  BY <1>6 DEF StatusComes, Knows
<1> QED BY <1>9, <1>10, <1>12, <1>13 DEF Shown

\* PROFILE_SELECT: Deskbar is told that there is no profile, when there is none.
LEMMA ProfileSelectShows == IInv /\ Served /\ Shown /\ ProfileSelect => Shown'
<1> SUFFICES ASSUME IInv, Served, Shown, ProfileSelect PROVE Shown'
  OBVIOUS
<1> DEFINE t == Tail(appQ)  b == Told(bar, "PROFILE_NOT_SELECTED")
<1>1. /\ Handles("PROFILE_SELECT") /\ appQ' = t /\ bar' = b
      /\ UNCHANGED <<running, iWindow, waits, wizards, abandoned, iMessenger, wins>>
  BY DEF ProfileSelect, Taken, histVars, pastVars
<1>2. /\ waits.what = "NOTHING"
      /\ \A a : Has(appQ, a) <=> "PROFILE_SELECT" = a \/ Has(t, a)
      /\ Free(appQ) => Free(t)
      /\ First(appQ, "PROFILE_SELECT") => ~Has(t, "PROFILE_SELECT")
      /\ Rising(t, iMessenger) /\ \A v : Calls(t, v) => Calls(appQ, v)
  BY <1>1, AppTail
<1>3. /\ b.item = bar.item /\ b.view = bar.view /\ b.attached = bar.attached /\ b.icon = bar.icon
      /\ b = bar \/ (bar.item /\ iMessenger = bar.view)
      /\ bar.item /\ iMessenger = bar.view => WillSelect(b, FALSE)
      /\ \A x : Follows(x, bar) => Follows(x, b)
  <2>1. bar \in Bars /\ "PROFILE_NOT_SELECTED" \in Menus
    BY DEF IInv, Menus
  <2> QED BY <2>1, ToldFacts
<1> HIDE DEF t, b
<1>4. IconIsNew'
  BY <1>1, <1>2, <1>3, IconKeeps
<1>5. SelectsLast'
  <2>1. Unasked => Unasked'
    BY <1>1, <1>2 DEF Unasked, Working
  <2> QED BY <1>1, <1>2, <2>1 DEF SelectsLast, Shown
<1>6. MenuComes'
  <2>1. Has(appQ, "PROFILE_SELECT")
    BY <1>2
  <2>2. ~abandoned /\ wizards = <<>> /\ iWindow # NoWindow => iMessenger # bar.view
    BY <2>1 DEF Shown, SelectsLast
  <2> QED BY <1>1, <1>3, <2>2 DEF MenuComes
<1>7. StatusComes'
  BY <1>1, <1>3 DEF StatusComes, Knows, Shown
<1> QED BY <1>4, <1>5, <1>6, <1>7 DEF Shown

\* The window is given messages that say nothing of its status.
LEMMA GivenShows ==
    ASSUME IInv, Served, Shown, NEW what, Handles(what), what \in Asks \cup {"SHOW"}, what # "PROFILE_CREATED",
           appQ' = Tail(appQ) \/ \E m \in AppMessages :
                /\ appQ' = Append(Tail(appQ), m) /\ m.what \notin Asks \cup {"ADD_MESSENGER", "PROFILE_SELECT"},
           \A v \in DOMAIN wins' :
              /\ v \in DOMAIN wins /\ wins'[v].alive = wins[v].alive
              /\ wins'[v].messenger = wins[v].messenger /\ wins'[v].told = wins[v].told
              /\ Follows(wins[v], bar) => Follows(wins'[v], bar)
              /\ what \notin Asks /\ Free(wins[v].queue) => Free(wins'[v].queue),
           what \notin Asks => waits' = waits, waits'.what \notin {"B_QUIT_REQUESTED", "WRITE"},
           UNCHANGED <<running, iWindow, wizards, bar, iMessenger, abandoned>>
    PROVE  Shown'
<1> DEFINE t == Tail(appQ)
<1>1. /\ t \in Seq(AppMessages) /\ waits.what = "NOTHING"
      /\ \A a : Has(appQ, a) <=> what = a \/ Has(t, a)
      /\ Free(appQ) <=> what \notin Asks /\ Free(t)
      /\ First(appQ, "PROFILE_SELECT") => ~Has(t, "PROFILE_SELECT")
      /\ Rising(t, iMessenger) /\ \A v : Calls(t, v) => Calls(appQ, v)
  BY AppTail
<1> HIDE DEF t
<1>2. /\ Has(appQ', "PROFILE_SELECT") <=> Has(t, "PROFILE_SELECT")
      /\ Has(t, "PROFILE_CREATED") => Has(appQ', "PROFILE_CREATED")
      /\ Free(t) => Free(appQ')
  <2>1. CASE appQ' = t
    BY <2>1
  <2>2. ASSUME NEW m \in AppMessages, appQ' = Append(t, m), m.what # "PROFILE_SELECT", m.what \notin Asks
        PROVE  /\ Has(appQ', "PROFILE_SELECT") <=> Has(t, "PROFILE_SELECT")
               /\ Has(t, "PROFILE_CREATED") => Has(appQ', "PROFILE_CREATED")
               /\ Free(t) => Free(appQ')
    BY <1>1, <2>2, AppendFacts
  <2> QED BY <2>1, <2>2 DEF t
<1>3. Rising(appQ', iMessenger) /\ \A v : Calls(appQ', v) => Calls(appQ, v)
  <2>1. appQ' = t \/ \E m \in AppMessages : m.what # "ADD_MESSENGER" /\ appQ' = Append(t, m)
    BY DEF t
  <2> QED BY <1>1, <2>1, QuietQueue
<1>4. IconIsNew'
  BY <1>3, IconKeeps
<1>5. SelectsLast'
  <2>1. Has(appQ', "PROFILE_SELECT") => Has(appQ, "PROFILE_SELECT") /\ ~First(appQ, "PROFILE_SELECT")
    BY <1>1, <1>2
  <2>2. Unasked => Unasked' /\ waits' = waits
    BY <1>1, <1>2 DEF Unasked, Working
  <2> QED BY <2>1, <2>2 DEF SelectsLast, Shown
<1>6. MenuComes'
  <2>1. waits.what \notin Changes /\ what # "PROFILE_SELECT"
    BY <1>1 DEF Changes, Asks
  <2> QED BY <1>1, <1>2, <2>1, MenuKeeps
<1>7. StatusComes'
  BY DEF StatusComes, Knows, Shown
<1> QED BY <1>4, <1>5, <1>6, <1>7 DEF Shown

\* A message that is no status changes nothing of what a window follows.
LEMMA FollowsAppend ==
    ASSUME NEW q \in Seq(WinMessages), NEW m \in WinMessages, m.what # "CHSTATE",
           NEW x, NEW y, NEW b, x.queue = q, y.queue = Append(q, m), y.told = x.told, Follows(x, b)
    PROVE  Follows(y, b)
<1>1. Has(y.queue, "CHSTATE") <=> Has(q, "CHSTATE")
  BY AppendFacts
<1>2. \A n : LastIs(q, {"CHSTATE"}, n) => LastIs(Append(q, m), {"CHSTATE"}, n)
  BY AppendCalls
<1> QED BY <1>1, <1>2 DEF Follows

\* NetworkHandler: success is told to Deskbar behind what waits, and the rest is no status.
LEMMA PostsShow == ASSUME IInv, Served, Shown, NEW w \in DOMAIN wins, HandlerPosts(w) PROVE Shown'
<1>1. UNCHANGED <<running, appQ, iWindow, waits, wizards, bar, iMessenger, abandoned>>
  BY DEF HandlerPosts, appVars, pastVars
<1> DEFINE q == wins[w].queue  news == Msg("NEWS")  said == Report(wins[w].status)
           gone == [what |-> "DROPPED", status |-> "notavail"]
<1>2. q \in Seq(WinMessages) /\ wins[w] \in Windows(bar.view)
  BY WinTypes
<1>3. /\ news \in WinMessages /\ news.what = "NEWS" /\ said \in WinMessages /\ said.what = "CHSTATE"
      /\ gone \in WinMessages /\ gone.what = "DROPPED" /\ said = StatusSays(wins[w].status)
  BY <1>2, PlainWin DEF Msg, Report, StatusSays, WinMessages, Windows
<1>4. q \o <<news, said>> = Append(Append(q, news), said) /\ Append(q, news) \in Seq(WinMessages)
  BY <1>2, <1>3, AppendTwo
<1>5. PICK s \in {wins[w].status, "notavail"} :
         \/ Becomes(w, [wins[w] EXCEPT !.status = s, !.queue = Append(@, news)])
         \/ Becomes(w, [wins[w] EXCEPT !.told = wins[w].status, !.queue = @ \o <<news, said>>])
         \/ Becomes(w, [wins[w] EXCEPT !.status = s, !.queue = Append(@, gone)])
  BY DEF HandlerPosts
<1> HIDE DEF news, said, gone
<1>6. ASSUME NEW x, NEW m \in {news, gone}, wins' = [wins EXCEPT ![w] = x], x.alive = wins[w].alive,
             x.messenger = wins[w].messenger, x.told = wins[w].told, x.queue = Append(q, m)
      PROVE  Shown'
  <2>1. m \in WinMessages /\ m.what \notin Asks /\ m.what # "CHSTATE"
    BY <1>3 DEF Asks
  <2> HIDE DEF q
  <2>2. Free(q) => Free(x.queue)
    BY <1>2, <1>6, <2>1, AppendFacts
  <2>3. Follows(wins[w], bar) => Follows(x, bar)
    BY <1>2, <1>6, <2>1, FollowsAppend DEF q
  <2>4. Knows(x, bar) => Follows(x, bar)
    BY <1>6, <2>3 DEF Knows, Shown, StatusComes
  <2> QED BY <1>1, <1>6, <2>2, <2>4, WindowShows DEF q
<1>7. CASE Becomes(w, [wins[w] EXCEPT !.status = s, !.queue = Append(@, news)])
  <2> DEFINE x == [wins[w] EXCEPT !.status = s, !.queue = Append(@, news)]
  <2>1. /\ x.alive = wins[w].alive /\ x.messenger = wins[w].messenger /\ x.told = wins[w].told
        /\ x.queue = Append(q, news)
    BY <1>2 DEF Windows
  <2>2. wins' = [wins EXCEPT ![w] = x]
    BY <1>7 DEF Becomes
  <2> HIDE DEF x
  <2> QED BY <1>6, <2>1, <2>2
<1>8. CASE Becomes(w, [wins[w] EXCEPT !.status = s, !.queue = Append(@, gone)])
  <2> DEFINE x == [wins[w] EXCEPT !.status = s, !.queue = Append(@, gone)]
  <2>1. /\ x.alive = wins[w].alive /\ x.messenger = wins[w].messenger /\ x.told = wins[w].told
        /\ x.queue = Append(q, gone)
    BY <1>2 DEF Windows
  <2>2. wins' = [wins EXCEPT ![w] = x]
    BY <1>8 DEF Becomes
  <2> HIDE DEF x
  <2> QED BY <1>6, <2>1, <2>2
<1>9. CASE Becomes(w, [wins[w] EXCEPT !.told = wins[w].status, !.queue = @ \o <<news, said>>])
  <2> DEFINE x == [wins[w] EXCEPT !.told = wins[w].status, !.queue = @ \o <<news, said>>]
             r == Append(q, news)
  <2>1. /\ x.alive = wins[w].alive /\ x.messenger = wins[w].messenger /\ x.told = wins[w].status
        /\ x.queue = Append(r, said)
    BY <1>2, <1>4 DEF Windows
  <2>2. wins' = [wins EXCEPT ![w] = x]
    BY <1>9 DEF Becomes
  <2>3. r \in Seq(WinMessages) /\ (Free(q) => Free(r))
    BY <1>2, <1>3, <1>4, AppendFacts DEF Asks
  <2> HIDE DEF x, r
  <2>4. Has(x.queue, "CHSTATE") /\ (Free(q) => Free(x.queue))
    BY <1>3, <2>1, <2>3, AppendFacts DEF Asks
  <2>5. LastIs(x.queue, {"CHSTATE"}, said)
    BY <1>3, <2>1, <2>3, AppendCalls
  <2>6. Follows(x, bar)
    BY <1>3, <2>1, <2>4, <2>5 DEF Follows
  <2> QED BY <1>1, <2>1, <2>2, <2>4, <2>6, WindowShows DEF q
<1> QED BY <1>5, <1>7, <1>8, <1>9

\* What the window that is given one message follows.
LEMMA GivenTells ==
    ASSUME IInv, iWindow # NoWindow, NEW m \in WinMessages, m.what # "CHSTATE", ToWindow(m)
    PROVE  \A v \in DOMAIN wins' :
              /\ v \in DOMAIN wins /\ wins'[v].alive = wins[v].alive
              /\ wins'[v].messenger = wins[v].messenger /\ wins'[v].told = wins[v].told
              /\ Follows(wins[v], bar) => Follows(wins'[v], bar)
              /\ m.what \notin Asks /\ Free(wins[v].queue) => Free(wins'[v].queue)
<1> DEFINE w == iWindow  q == wins[w].queue  x == [wins[w] EXCEPT !.queue = Append(q, m)]
<1>1. w \in DOMAIN wins /\ q \in Seq(WinMessages) /\ wins' = [wins EXCEPT ![w] = x]
  BY WinTypes DEF ToWindow
<1>2. /\ x.alive = wins[w].alive /\ x.messenger = wins[w].messenger /\ x.told = wins[w].told
      /\ x.queue = Append(q, m)
  BY <1>1, WinTypes DEF Windows
<1> HIDE DEF x
<1>4. Follows(wins[w], bar) => Follows(x, bar)
  BY <1>1, <1>2, FollowsAppend
<1> HIDE DEF w
<1>5. wins'[w] = x /\ DOMAIN wins' = DOMAIN wins /\ \A v \in DOMAIN wins : v # w => wins'[v] = wins[v]
  BY <1>1, WinSet
<1> HIDE DEF q
<1>6. m.what \notin Asks /\ Free(q) => Free(x.queue)
  BY <1>1, <1>2, AppendFacts
<1> QED BY <1>2, <1>4, <1>5, <1>6 DEF q

\* What the window that is to be closed follows.
LEMMA ClosingTells ==
    ASSUME IInv, iWindow # NoWindow, CloseWindow
    PROVE  /\ waits' = M
           /\ \A v \in DOMAIN wins' :
                 /\ v \in DOMAIN wins /\ wins'[v].alive = wins[v].alive
                 /\ wins'[v].messenger = wins[v].messenger /\ wins'[v].told = wins[v].told
                 /\ Follows(wins[v], bar) => Follows(wins'[v], bar)
<1> DEFINE m == Msg("CLOSE")
<1>1. ToWindow(m) /\ waits' = M /\ m \in WinMessages /\ m.what # "CHSTATE"
  BY PlainWin DEF CloseWindow, Msg
<1> HIDE DEF m
<1> QED BY <1>1, GivenTells

\* SET_AVAIL, SET_NOT_AVAIL, a click: Deskbar is not told.
LEMMA ForwardShows == IInv /\ Served /\ Shown /\ Forward => Shown'
<1> SUFFICES ASSUME IInv, Served, Shown, Forward PROVE Shown'
  OBVIOUS
<1>1. PICK what \in {"SET", "SHOW"} : Handles(what)
  BY DEF Forward
<1>2. appQ' = Tail(appQ) /\ UNCHANGED <<running, iWindow, waits, wizards, bar, iMessenger, abandoned>>
  BY DEF Forward, Taken, histVars, pastVars
<1>3. waits.what = "NOTHING" /\ M \in Fitting /\ M.what = what
  BY <1>1, AppTail
<1>4. \A v \in DOMAIN wins' :
         /\ v \in DOMAIN wins /\ wins'[v].alive = wins[v].alive
         /\ wins'[v].messenger = wins[v].messenger /\ wins'[v].told = wins[v].told
         /\ Follows(wins[v], bar) => Follows(wins'[v], bar)
         /\ what \notin Asks /\ Free(wins[v].queue) => Free(wins'[v].queue)
  <2>1. CASE iWindow = NoWindow
    BY <2>1 DEF Forward
  <2>2. CASE iWindow # NoWindow
    <3>1. M \in WinMessages /\ ToWindow(M)
      BY <1>3, <2>2 DEF Forward, Fitting, AppMessages, WinMessages
    <3> QED BY <1>3, <2>2, <3>1, GivenTells
  <2> QED BY <2>1, <2>2
<1>5. what \in Asks \cup {"SHOW"} /\ what # "PROFILE_CREATED"
  BY DEF Asks
<1> QED BY <1>1, <1>2, <1>3, <1>4, <1>5, GivenShows

\* BEGG_QUIT: the icon stays until the program is to end.
LEMMA BeggQuitShows == IInv /\ Served /\ Shown /\ BeggQuit => Shown'
<1> SUFFICES ASSUME IInv, Served, Shown, BeggQuit PROVE Shown'
  OBVIOUS
<1>1. Handles("BEGG_QUIT") /\ UNCHANGED <<running, iWindow, waits, wizards, bar, iMessenger, abandoned>>
  BY DEF BeggQuit, histVars, pastVars
<1>2. waits.what = "NOTHING" /\ M \in Fitting /\ M.what = "BEGG_QUIT"
  BY <1>1, AppTail
<1>3. "BEGG_QUIT" \in Asks
  BY DEF Asks
<1>4. appQ' = Tail(appQ) \/ \E m \in AppMessages :
         /\ appQ' = Append(Tail(appQ), m) /\ m.what \notin Asks \cup {"ADD_MESSENGER", "PROFILE_SELECT"}
  <2>1. Msg("B_QUIT_REQUESTED") \in AppMessages /\ Msg("B_QUIT_REQUESTED").what = "B_QUIT_REQUESTED"
    BY DEF AppMessages, Msg
  <2> QED BY <2>1 DEF BeggQuit, Taken, Asks
<1>5. \A v \in DOMAIN wins' :
         /\ v \in DOMAIN wins /\ wins'[v].alive = wins[v].alive
         /\ wins'[v].messenger = wins[v].messenger /\ wins'[v].told = wins[v].told
         /\ Follows(wins[v], bar) => Follows(wins'[v], bar)
  <2>1. CASE iWindow = NoWindow
    BY <2>1 DEF BeggQuit
  <2>2. CASE iWindow # NoWindow
    <3>1. M \in WinMessages /\ ToWindow(M)
      BY <1>2, <2>2 DEF BeggQuit, Fitting, AppMessages, WinMessages
    <3> QED BY <1>2, <2>2, <3>1, GivenTells
  <2> QED BY <2>1, <2>2
<1> QED BY <1>1, <1>2, <1>3, <1>4, <1>5, GivenShows

\* PROFILE_SWITCH: the menu is changed when another window is.
LEMMA ProfileSwitchShows == IInv /\ Served /\ Shown /\ ProfileSwitch => Shown'
<1> SUFFICES ASSUME IInv, Served, Shown, ProfileSwitch PROVE Shown'
  OBVIOUS
<1>1. /\ Handles("PROFILE_SWITCH") /\ appQ' = Tail(appQ)
      /\ UNCHANGED <<running, iWindow, wizards, bar, iMessenger, abandoned>>
  BY DEF ProfileSwitch, Taken, histVars, pastVars
<1>2. M.what = "PROFILE_SWITCH"
  BY <1>1, AppTail
<1>3. "PROFILE_SWITCH" \in Asks
  BY DEF Asks
<1>4. /\ waits' = M
      /\ \A v \in DOMAIN wins' :
            /\ v \in DOMAIN wins /\ wins'[v].alive = wins[v].alive
            /\ wins'[v].messenger = wins[v].messenger /\ wins'[v].told = wins[v].told
            /\ Follows(wins[v], bar) => Follows(wins'[v], bar)
  <2>1. CASE iWindow = NoWindow
    BY <2>1 DEF ProfileSwitch
  <2>2. CASE iWindow # NoWindow
    BY <2>2, ClosingTells DEF ProfileSwitch
  <2> QED BY <2>1, <2>2
<1> QED BY <1>1, <1>2, <1>3, <1>4, GivenShows

-------------------------------------------------------------------------------
\* Another window, a wizard or none: the menu that fits is on its way, and a new
\* window does not know the icon.
LEMMA NewShows ==
    ASSUME IconIsNew', MenuComes',
           \A v \in DOMAIN wins' : wins'[v].alive => wins'[v].messenger = 0 /\ wins'[v].told = None,
           Has(appQ', "PROFILE_SELECT") => Unasked' /\ waits'.what \notin Changes /\ iWindow' = NoWindow
    PROVE  Shown'
<1>1. SelectsLast'
  BY DEF SelectsLast
<1>2. StatusComes'
  BY DEF StatusComes, Knows
<1> QED BY <1>1, <1>2 DEF Shown

\* The window that is opened.
LEMMA OpensShow ==
    ASSUME IInv, \A v \in DOMAIN wins : ~wins[v].alive, NEW p, OpenWindow(p)
    PROVE  /\ iWindow' # NoWindow
           /\ \A v \in DOMAIN wins' : wins'[v].alive => wins'[v].messenger = 0 /\ wins'[v].told = None
<1>1. PICK s \in Statuses, q \in {<<>>, <<Msg("UPDATE")>>} : wins' = Append(wins, Opened(p, s, q))
  BY DEF OpenWindow
<1> DEFINE x == Opened(p, s, q)  n == Len(wins) + 1
<1>2. x.messenger = 0 /\ x.told = None
  BY DEF Opened
<1> HIDE DEF x
<1>3. /\ DOMAIN wins' = 1..n /\ wins'[n] = x /\ iWindow' = n /\ n # NoWindow
      /\ \A v \in DOMAIN wins' : v # n => v \in DOMAIN wins /\ wins'[v] = wins[v]
  <2>1. wins \in Seq(Windows(bar.view)) /\ DOMAIN wins = 1..Len(wins) /\ Len(wins) \in Nat
    BY WinTypes DEF IInv, WinsOk
  <2>2. wins' = Append(wins, x) /\ iWindow' = Len(wins) + 1
    BY <1>1 DEF x, OpenWindow
  <2>3. /\ DOMAIN wins' = 1..(Len(wins) + 1) /\ wins'[Len(wins) + 1] = x
        /\ \A v \in 1..Len(wins) : wins'[v] = wins[v]
    BY <2>1, <2>2
  <2> QED BY <2>1, <2>2, <2>3 DEF NoWindow
<1> QED BY <1>2, <1>3

\* AddDeskbarIcon: the icon is there, new or not, and the new one is not known yet.
LEMMA IconThere ==
    ASSUME IInv, Shown, running, running' = running, iMessenger' = iMessenger, waits' = waits, waits = Nothing,
           \A v \in DOMAIN wins' : wins'[v].alive => wins'[v].messenger = 0,
           Rising(appQ', iMessenger), \A u : Calls(appQ', u) => Calls(appQ, u),
           bar' = WithIcon(bar) \/ \E what \in Menus : bar' = Told(WithIcon(bar), what)
    PROVE  /\ IconIsNew'
           /\ \A what \in Menus : bar' = Told(WithIcon(bar), what) /\ iMessenger' = bar'.view =>
                 WillSelect(bar', what = "PROFILE_SELECTED")
<1>1. bar \in Bars /\ iMessenger \in 0..bar.view /\ waits.what = "NOTHING"
  BY DEF IInv, AppOk, Nothing, Msg
<1>2. CASE bar.item
  <2>1. WithIcon(bar) = bar
    BY <1>2 DEF WithIcon
  <2>2. \A what \in Menus : LET t == Told(bar, what) IN
           /\ t.item = bar.item /\ t.view = bar.view /\ t.attached = bar.attached
           /\ t = bar \/ (bar.item /\ iMessenger = bar.view)
           /\ bar.item /\ iMessenger = bar.view => WillSelect(t, what = "PROFILE_SELECTED")
    BY <1>1, ToldFacts
  <2>3. /\ bar'.item = bar.item /\ bar'.view = bar.view /\ bar'.attached = bar.attached
        /\ bar' = bar \/ (bar.item /\ iMessenger = bar.view)
    BY <2>1, <2>2
  <2>4. IconIsNew'
    BY <2>3, IconKeeps
  <2> QED BY <1>2, <2>1, <2>2, <2>3, <2>4
<1>3. CASE ~bar.item
  <2> DEFINE b == WithIcon(bar)
  <2>1. /\ b.item = TRUE /\ b.view = bar.view + 1 /\ b.attached = FALSE /\ b.selected = FALSE
        /\ b.queue = <<>>
    BY <1>3 DEF WithIcon, NoIcon
  <2>2. iMessenger # b.view
    BY <1>1, <2>1 DEF Bars
  <2> HIDE DEF b
  <2>3. \A what : Told(b, what) = b
    BY <2>2 DEF Told
  <2>4. bar' = b
    BY <2>3 DEF b
  <2>5. IconIsNew' /\ iMessenger' # bar'.view
    BY <1>1, <2>1, <2>4, IconComes
  <2> QED BY <2>5
<1> QED BY <1>2, <1>3

\* What is so when BeGadu handles what asks: no menu waits to be chosen.
LEMMA AskTail ==
    ASSUME IInv, Served, Shown, NEW what \in Asks, Handles(what)
    PROVE  /\ Tail(appQ) \in Seq(AppMessages) /\ ~Has(Tail(appQ), "PROFILE_SELECT") /\ Free(Tail(appQ))
           /\ Rising(Tail(appQ), iMessenger) /\ \A u : Calls(Tail(appQ), u) => Calls(appQ, u)
           /\ running /\ waits = Nothing /\ waits.what = "NOTHING"
<1>1. /\ Tail(appQ) \in Seq(AppMessages) /\ running /\ waits = Nothing /\ waits.what = "NOTHING"
      /\ Rising(Tail(appQ), iMessenger) /\ \A u : Calls(Tail(appQ), u) => Calls(appQ, u)
      /\ \A a : Has(appQ, a) <=> what = a \/ Has(Tail(appQ), a)
  BY AppTail
<1>2. Free(Tail(appQ)) /\ ~Unasked
  BY AppHead
<1> QED BY <1>1, <1>2 DEF Shown, SelectsLast

\* OPEN_PROFILE_WIZARD: while there is a wizard, either menu may be there.
LEMMA OpenProfileWizardShows == IInv /\ Served /\ Shown /\ OpenProfileWizard => Shown'
<1> SUFFICES ASSUME IInv, Served, Shown, OpenProfileWizard PROVE Shown'
  OBVIOUS
<1>1. /\ Handles("OPEN_PROFILE_WIZARD") /\ appQ' = Tail(appQ)
      /\ UNCHANGED <<running, iWindow, bar, iMessenger, abandoned>>
  BY DEF OpenProfileWizard, Taken, histVars, pastVars
<1>2. "OPEN_PROFILE_WIZARD" \in Asks
  BY DEF Asks
<1>3. CASE iWindow # NoWindow
  <2>1. M.what = "OPEN_PROFILE_WIZARD"
    BY <1>1, AppTail
  <2>2. /\ waits' = M /\ wizards' = wizards
        /\ \A v \in DOMAIN wins' :
            /\ v \in DOMAIN wins /\ wins'[v].alive = wins[v].alive
            /\ wins'[v].messenger = wins[v].messenger /\ wins'[v].told = wins[v].told
            /\ Follows(wins[v], bar) => Follows(wins'[v], bar)
    BY <1>3, ClosingTells DEF OpenProfileWizard
  <2> QED BY <1>1, <1>2, <2>1, <2>2, GivenShows
<1>4. CASE iWindow = NoWindow
  <2>1. wins' = wins /\ waits' = waits /\ NewWizard
    BY <1>4 DEF OpenProfileWizard
  <2>2. /\ ~Has(appQ', "PROFILE_SELECT") /\ waits.what = "NOTHING"
        /\ Rising(appQ', iMessenger) /\ \A u : Calls(appQ', u) => Calls(appQ, u)
    BY <1>1, <1>2, AskTail
  <2>3. \A v \in DOMAIN wins : ~wins[v].alive
    BY <1>1, <1>4, AppHead, WinTypes
  <2>4. IconIsNew'
    BY <1>1, <2>1, <2>2, IconKeeps
  <2>5. wizards' # <<>>
    <3>1. wizards \in Seq(Wizards) /\ Len(wizards) \in Nat
      BY LenProperties DEF IInv, AppOk
    <3> QED BY <2>1, <3>1 DEF NewWizard
  <2> QED BY <2>1, <2>2, <2>3, <2>4, <2>5, NewShows DEF MenuComes
<1> QED BY <1>3, <1>4

\* CONFIG_OK: the menu fits what can be opened.
LEMMA ConfigOkShows == IInv /\ Served /\ Shown /\ ConfigOk => Shown'
<1> SUFFICES ASSUME IInv, Served, Shown, ConfigOk PROVE Shown'
  OBVIOUS
<1> DEFINE t == Tail(appQ)  m == Msg("PROFILE_SELECT")
<1>1. Handles("CONFIG_OK") /\ UNCHANGED <<running, waits, wizards, iMessenger, abandoned>>
  BY DEF ConfigOk, histVars, pastVars
<1>2. "CONFIG_OK" \in Asks
  BY DEF Asks
<1>3. /\ t \in Seq(AppMessages) /\ ~Has(t, "PROFILE_SELECT") /\ Free(t)
      /\ Rising(t, iMessenger) /\ \A u : Calls(t, u) => Calls(appQ, u)
      /\ running /\ waits = Nothing /\ waits.what = "NOTHING"
  BY <1>1, <1>2, AskTail
<1>4. /\ iWindow = NoWindow /\ \A v \in DOMAIN wins : ~wins[v].alive /\ wins[v].queue = <<>>
  BY <1>1, OpenerFacts DEF Served, OnlyWindow
<1>5. m \in AppMessages /\ m.what = "PROFILE_SELECT"
  BY DEF Msg, AppMessages
<1> HIDE DEF t, m
<1>6. Rising(appQ', iMessenger) /\ \A u : Calls(appQ', u) => Calls(appQ, u)
  <2>1. appQ' = t \/ \E n \in AppMessages : n.what # "ADD_MESSENGER" /\ appQ' = Append(t, n)
    BY <1>5 DEF ConfigOk, Taken, t, m
  <2> QED BY <1>3, <2>1, QuietQueue
<1>7. bar' = WithIcon(bar) \/ \E what \in Menus : bar' = Told(WithIcon(bar), what)
  BY DEF ConfigOk, Menus
<1>8. CASE appQ' = Append(t, m) /\ UNCHANGED <<wins, iWindow>>
  <2>1. IconIsNew'
    BY <1>1, <1>3, <1>4, <1>6, <1>7, <1>8, IconThere
  <2>2. Has(appQ', "PROFILE_SELECT") /\ Free(appQ')
    BY <1>3, <1>5, <1>8, AppendFacts DEF Asks
  <2>3. Unasked'
    BY <1>1, <1>4, <1>8, <2>2, EmptyFacts, OpenerFacts DEF Unasked, Working
  <2> QED BY <1>1, <1>3, <1>4, <1>8, <2>1, <2>2, <2>3, NewShows DEF MenuComes, Changes
<1>9. CASE appQ' = t /\ bar' = Told(WithIcon(bar), "PROFILE_NOT_SELECTED") /\ UNCHANGED <<wins, iWindow>>
  <2>1. IconIsNew' /\ (iMessenger' = bar'.view => WillSelect(bar', FALSE))
    BY <1>1, <1>3, <1>4, <1>6, <1>7, <1>9, IconThere DEF Menus
  <2> QED BY <1>3, <1>4, <1>9, <2>1, NewShows DEF MenuComes
<1>10. CASE appQ' = t /\ bar' = Told(WithIcon(bar), "PROFILE_SELECTED") /\ OpenWindow(iLastProfile)
  <2>1. /\ iWindow' # NoWindow
        /\ \A v \in DOMAIN wins' : wins'[v].alive => wins'[v].messenger = 0 /\ wins'[v].told = None
    BY <1>4, <1>10, OpensShow
  <2>2. IconIsNew' /\ (iMessenger' = bar'.view => WillSelect(bar', TRUE))
    BY <1>1, <1>3, <1>6, <1>7, <1>10, <2>1, IconThere DEF Menus
  <2> QED BY <1>3, <1>10, <2>1, <2>2, NewShows DEF MenuComes
<1> QED BY <1>8, <1>9, <1>10 DEF ConfigOk, Taken, t, m

\* PROFILE_CREATED: a window, and its menu.
LEMMA ProfileCreatedShows == IInv /\ Served /\ Shown /\ ProfileCreated => Shown'
<1> SUFFICES ASSUME IInv, Served, Shown, ProfileCreated PROVE Shown'
  OBVIOUS
<1>1. /\ Handles("PROFILE_CREATED") /\ appQ' = Tail(appQ) /\ OpenWindow(M.name)
      /\ bar' = Told(WithIcon(bar), "PROFILE_SELECTED")
      /\ UNCHANGED <<running, waits, wizards, iMessenger, abandoned>>
  BY DEF ProfileCreated, Taken, histVars, pastVars
<1>2. "PROFILE_CREATED" \in Asks
  BY DEF Asks
<1>3. /\ ~Has(appQ', "PROFILE_SELECT") /\ running /\ waits = Nothing
      /\ Rising(appQ', iMessenger) /\ \A u : Calls(appQ', u) => Calls(appQ, u)
  BY <1>1, <1>2, AskTail
<1>4. \A v \in DOMAIN wins : ~wins[v].alive
  BY <1>1, OpenerFacts
<1>5. /\ iWindow' # NoWindow
      /\ \A v \in DOMAIN wins' : wins'[v].alive => wins'[v].messenger = 0 /\ wins'[v].told = None
  BY <1>1, <1>4, OpensShow
<1>6. IconIsNew' /\ (iMessenger' = bar'.view => WillSelect(bar', TRUE))
  BY <1>1, <1>3, <1>5, IconThere DEF Menus
<1> QED BY <1>3, <1>5, <1>6, NewShows DEF MenuComes

\* Quit returns: Deskbar is told of what is opened, and of what can not be.
LEMMA WindowEndedShows == IInv /\ Served /\ Shown /\ WindowEnded => Shown'
<1> SUFFICES ASSUME IInv, Served, Shown, WindowEnded PROVE Shown'
  OBVIOUS
<1>1. running /\ ~Alive(iWindow) /\ UNCHANGED <<running, iMessenger, abandoned>>
  BY DEF WindowEnded, histVars, pastVars
<1>2. \A v \in DOMAIN wins : ~wins[v].alive /\ wins[v].queue = <<>>
  BY <1>1, WinTypes DEF Served, OnlyWindow, Alive
<1>3. /\ appQ \in Seq(AppMessages) /\ bar \in Bars
      /\ Rising(appQ, iMessenger)
  BY AppQueue DEF Shown, IconIsNew, IInv
<1>4. Nothing.what \notin Changes \cup {"B_QUIT_REQUESTED", "WRITE"}
  BY DEF Nothing, Msg, Changes
<1>5. CASE WizardOpens /\ iWindow' = NoWindow /\ waits' = Nothing
  <2>1. /\ waits.what \in Changes /\ NewWizard /\ UNCHANGED <<appQ, wins, bar>>
    BY <1>5 DEF WizardOpens, Changes
  <2>2. ~Has(appQ', "PROFILE_SELECT")
    BY <2>1 DEF Shown, SelectsLast
  <2>3. IconIsNew'
    BY <1>1, <1>3, <1>4, <1>5, <2>1, IconKeeps
  <2>4. wizards' # <<>>
    <3>1. wizards \in Seq(Wizards) /\ Len(wizards) \in Nat
      BY LenProperties DEF IInv, AppOk
    <3> QED BY <2>1, <3>1 DEF NewWizard
  <2> QED BY <1>2, <2>1, <2>2, <2>3, <2>4, NewShows DEF MenuComes
<1>6. CASE waits.what = "PROFILE_SWITCH" /\ SwitchTo(waits.name) /\ waits' = Nothing /\ UNCHANGED wizards
  <2>1. Free(appQ) /\ ~Has(appQ, "PROFILE_SELECT")
    BY <1>6 DEF Served, InChange, Shown, SelectsLast, Changes
  <2>2. CASE appQ' = Append(appQ, Msg("PROFILE_SELECT")) /\ iWindow' = NoWindow /\ UNCHANGED <<bar, wins>>
    <3> DEFINE m == Msg("PROFILE_SELECT")
    <3>1. m \in AppMessages /\ m.what = "PROFILE_SELECT" /\ appQ' = Append(appQ, m)
      BY <2>2 DEF Msg, AppMessages
    <3> HIDE DEF m
    <3>2. Has(appQ', "PROFILE_SELECT") /\ Free(appQ')
      BY <1>3, <2>1, <3>1, AppendFacts DEF Asks
    <3>3. Rising(appQ', iMessenger) /\ \A u : Calls(appQ', u) => Calls(appQ, u)
      BY <1>3, <3>1, QuietQueue
    <3>4. Unasked'
      BY <1>2, <1>6, <2>2, <3>2, EmptyFacts DEF Unasked, Working, Served, InChange, Changes
    <3>5. IconIsNew'
      BY <1>1, <1>4, <1>6, <2>2, <3>3, IconKeeps
    <3> QED BY <1>2, <1>4, <1>6, <2>2, <3>2, <3>4, <3>5, NewShows DEF MenuComes
  <2>3. ASSUME NEW there \in BOOLEAN, appQ' = appQ,
               bar' = Told(bar, IF there THEN "PROFILE_SELECTED" ELSE "PROFILE_NOT_SELECTED"),
               there <=> iWindow' # NoWindow,
               \A v \in DOMAIN wins' : wins'[v].alive => wins'[v].messenger = 0 /\ wins'[v].told = None
        PROVE  Shown'
    <3> DEFINE what == IF there THEN "PROFILE_SELECTED" ELSE "PROFILE_NOT_SELECTED"
    <3>1. what \in Menus /\ (what = "PROFILE_SELECTED" <=> there) /\ bar' = Told(bar, what)
      BY <2>3 DEF Menus
    <3> HIDE DEF what
    <3>2. /\ bar'.item = bar.item /\ bar'.view = bar.view /\ bar'.attached = bar.attached
          /\ bar' = bar \/ (bar.item /\ iMessenger = bar.view)
          /\ bar.item /\ iMessenger = bar.view => WillSelect(bar', what = "PROFILE_SELECTED")
      BY <1>3, <3>1, ToldFacts
    <3>3. IconIsNew'
      BY <1>1, <1>3, <1>4, <1>6, <2>3, <3>2, IconKeeps
    <3>4. MenuComes'
      BY <1>1, <2>3, <3>1, <3>2 DEF MenuComes
    <3> QED BY <2>1, <2>3, <3>3, <3>4, NewShows
  <2>4. CASE appQ' = appQ /\ bar' = Told(bar, "PROFILE_NOT_SELECTED") /\ iWindow' = NoWindow /\ wins' = wins
    BY <1>2, <2>3, <2>4
  <2>5. CASE appQ' = appQ /\ bar' = Told(bar, "PROFILE_SELECTED") /\ OpenWindow(iLastProfile)
    <3>1. /\ iWindow' # NoWindow
          /\ \A v \in DOMAIN wins' : wins'[v].alive => wins'[v].messenger = 0 /\ wins'[v].told = None
      BY <1>2, <2>5, OpensShow
    <3> QED BY <2>3, <2>5, <3>1
  <2> QED BY <1>6, <2>2, <2>4, <2>5 DEF SwitchTo
<1>7. CASE /\ waits.what = "B_QUIT_REQUESTED" /\ waits' = Msg("WRITE") /\ iWindow' = NoWindow
           /\ UNCHANGED <<appQ, wins, wizards, bar>>
  <2>1. waits'.what = "WRITE" /\ ~bar.item
    BY <1>7 DEF Msg, Shown, IconIsNew
  <2>2. IconIsNew'
    BY <1>1, <1>3, <1>7, <2>1, IconKeeps
  <2>3. SelectsLast'
    BY <1>1, <1>7, <2>1, SelectsKeep DEF Unasked, Working, Changes
  <2>4. MenuComes' /\ StatusComes'
    BY <1>7, <2>1 DEF MenuComes, StatusComes, Knows
  <2> QED BY <2>2, <2>3, <2>4 DEF Shown
<1> QED BY <1>5, <1>6, <1>7 DEF WindowEnded

\* QuitRequested: the icon goes first.
LEMMA QuitRequestedShows == IInv /\ Served /\ Shown /\ QuitRequested => Shown'
<1> SUFFICES ASSUME IInv, Served, Shown, QuitRequested PROVE Shown'
  OBVIOUS
<1> DEFINE t == Tail(appQ)
<1>1. /\ Handles("B_QUIT_REQUESTED") /\ waits' = M /\ bar' = WithoutIcon(bar) /\ appQ' = t
      /\ UNCHANGED <<running, iWindow, iMessenger, wizards, abandoned>>
  BY DEF QuitRequested, Taken, histVars, pastVars
<1>2. /\ M.what = "B_QUIT_REQUESTED" /\ running /\ t \in Seq(AppMessages)
      /\ \A a : Has(appQ, a) <=> "B_QUIT_REQUESTED" = a \/ Has(t, a)
      /\ Free(appQ) => Free(t)
      /\ First(appQ, "PROFILE_SELECT") => ~Has(t, "PROFILE_SELECT")
      /\ Rising(t, iMessenger)
  BY <1>1, AppTail
<1>3. /\ bar'.item = FALSE /\ bar'.view = bar.view /\ bar'.attached = FALSE /\ bar'.queue = <<>>
  BY <1>1 DEF WithoutIcon, NoIcon
<1> HIDE DEF t
<1>4. \A v \in DOMAIN wins' : /\ v \in DOMAIN wins /\ wins'[v].alive = wins[v].alive
                              /\ wins'[v].messenger = wins[v].messenger
                              /\ Free(wins[v].queue) => Free(wins'[v].queue)
  BY DEF QuitRequested
<1>5. IconIsNew'
  BY <1>1, <1>2, <1>3, <1>4 DEF IconIsNew, Unknown, Fresh, Shown
<1>6. SelectsLast'
  <2>1. waits'.what \notin Changes
    BY <1>1, <1>2 DEF Changes
  <2>2. Unasked => Unasked'
    BY <1>1, <1>2, <1>4 DEF Unasked, Working
  <2> QED BY <1>1, <1>2, <2>1, <2>2 DEF SelectsLast, Shown
<1>7. MenuComes' /\ StatusComes'
  BY <1>3 DEF MenuComes, StatusComes, Knows
<1> QED BY <1>5, <1>6, <1>7 DEF Shown

\* BLooper::Quit: one message more, which says nothing of a status.
LEMMA AsksToQuitShows == IInv /\ Served /\ Shown /\ AsksToQuit => Shown'
<1> SUFFICES ASSUME IInv, Served, Shown, AsksToQuit PROVE Shown'
  OBVIOUS
<1> DEFINE w == iWindow  q == wins[w].queue  m == Msg("QUIT")  x == [wins[w] EXCEPT !.queue = Append(q, m)]
<1>1. /\ w \in DOMAIN wins /\ q \in Seq(WinMessages) /\ wins[w] \in Windows(bar.view) /\ wins' = [wins EXCEPT ![w] = x]
      /\ m \in WinMessages /\ m.what = "QUIT"
      /\ UNCHANGED <<running, appQ, iWindow, waits, wizards, bar, iMessenger, abandoned>>
  BY WinTypes, PlainWin DEF AsksToQuit, Alive, ToWindow, Msg, appVars, histVars, pastVars
<1>2. /\ x.alive = wins[w].alive /\ x.messenger = wins[w].messenger /\ x.told = wins[w].told
      /\ x.queue = Append(q, m)
  BY <1>1 DEF Windows
<1> HIDE DEF x, w, m
<1>3. Free(q) => Free(x.queue)
  BY <1>1, <1>2, AppendFacts DEF Asks
<1>4. Follows(wins[w], bar) => Follows(x, bar)
  BY <1>1, <1>2, FollowsAppend
<1>5. Knows(x, bar) => Follows(x, bar)
  BY <1>1, <1>2, <1>4 DEF Knows, Shown, StatusComes
<1> QED BY <1>1, <1>2, <1>3, <1>5, WindowShows

\* An icon that stays when the run ends is not known.
LEMMA EndsShow == ASSUME IInv, Served, Shown, Ends, bar' = bar PROVE Shown'
<1>1. running' = FALSE /\ iMessenger' = 0 /\ appQ' = <<>> /\ waits' = Nothing /\ wins' = <<>>
  BY DEF Ends
<1>2. DOMAIN wins' = {} /\ ~Has(appQ', "PROFILE_SELECT") /\ \A v : ~Calls(appQ', v) /\ Rising(appQ', v)
  BY <1>1, EmptyFacts, EmptyCalls
<1>3. waits'.what = "NOTHING"
  BY <1>1 DEF Nothing, Msg
<1>4. bar.item => bar.view # 0
  BY DEF Shown, IconIsNew, IInv, Bars
<1>5. IconIsNew'
  BY <1>1, <1>2, <1>3, <1>4 DEF IconIsNew, Unknown, Fresh, Shown
<1> QED BY <1>1, <1>2, <1>5 DEF Shown, SelectsLast, MenuComes, StatusComes

-------------------------------------------------------------------------------
\* The icon announces itself, behind those that came before.
LEMMA BarAttachesShows == IInv /\ Served /\ Shown /\ BarAttaches => Shown'
<1> SUFFICES ASSUME IInv, Served, Shown, BarAttaches PROVE Shown'
  OBVIOUS
<1> DEFINE m == [what |-> "ADD_MESSENGER", view |-> bar.view]  q == appQ
<1>1. /\ bar.item /\ ~bar.attached /\ bar' = [bar EXCEPT !.attached = TRUE]
      /\ appQ' = IF running THEN Append(q, m) ELSE q
      /\ UNCHANGED <<running, iWindow, iMessenger, waits, wins, wizards, abandoned>>
  BY DEF BarAttaches, ToApp, histVars, pastVars
<1>2. bar \in Bars /\ bar.view \in Nat /\ iMessenger \in 0..bar.view
  BY DEF IInv, AppOk, Bars
<1>3. /\ bar'.item = bar.item /\ bar'.view = bar.view /\ bar'.attached = TRUE
      /\ bar'.selected = bar.selected /\ bar'.queue = bar.queue /\ bar'.icon = bar.icon
  BY <1>1, <1>2 DEF Bars
<1>4. m \in AppMessages /\ m.what = "ADD_MESSENGER" /\ m.view = bar.view
  BY <1>2 DEF AppMessages
<1>5. /\ iMessenger # bar.view /\ ~Calls(q, bar.view)
      /\ Rising(q, iMessenger) /\ bar.queue = <<>> /\ bar.selected = FALSE
  BY <1>1 DEF Shown, IconIsNew, Fresh
<1>6. q \in Seq(AppMessages) /\ \A i \in DOMAIN q : q[i].what = "ADD_MESSENGER" => q[i].view \in 0..bar.view
  BY AppQueue
<1> HIDE DEF m, q
<1>7. \A i \in DOMAIN q : q[i].what = "ADD_MESSENGER" => q[i].view < bar.view
  <2>1. \A n \in 0..bar.view : n # bar.view => n < bar.view
    BY <1>2
  <2> QED BY <1>5, <1>6, <2>1 DEF Calls
<1>8. iMessenger < bar.view
  BY <1>2, <1>5
<1>9. Rising(Append(q, m), iMessenger)
  BY <1>4, <1>5, <1>6, <1>7, <1>8, AppendCalls
<1>10. /\ \A a : Has(Append(q, m), a) <=> "ADD_MESSENGER" = a \/ Has(q, a)
       /\ Free(q) => Free(Append(q, m))
  BY <1>4, <1>6, AppendFacts DEF Asks
<1>11. First(q, "PROFILE_SELECT") => First(Append(q, m), "PROFILE_SELECT")
  BY <1>4, <1>6, AppendCalls
<1>12. IconIsNew'
  <2>1. Rising(appQ', iMessenger)
    BY <1>1, <1>5, <1>9
  <2>2. Unknown' /\ Fresh'
    BY <1>1, <1>3, <1>5 DEF Unknown, Fresh, Shown, IconIsNew
  <2> QED BY <1>1, <1>3, <2>1, <2>2 DEF IconIsNew, Shown
<1>13. SelectsLast'
  <2>1. Has(appQ', "PROFILE_SELECT") => Has(appQ, "PROFILE_SELECT")
    BY <1>1, <1>10 DEF q
  <2>2. Unasked => Unasked'
    BY <1>1, <1>10 DEF Unasked, Working, q
  <2>3. First(appQ, "PROFILE_SELECT") => First(appQ', "PROFILE_SELECT")
    BY <1>1, <1>11 DEF q
  <2> QED BY <1>1, <1>3, <1>5, <2>1, <2>2, <2>3, SelectsKeep
<1>14. MenuComes'
  BY <1>1, <1>3, <1>5 DEF MenuComes
<1>15. StatusComes'
  BY <1>1, <1>3 DEF StatusComes, Shown, Knows, Follows
<1> QED BY <1>12, <1>13, <1>14, <1>15 DEF Shown

\* The icon handles a message.
LEMMA BarReceivesShows == IInv /\ Served /\ Shown /\ BarReceives => Shown'
<1> SUFFICES ASSUME IInv, Served, Shown, BarReceives PROVE Shown'
  OBVIOUS
<1> DEFINE q == bar.queue  t == Tail(q)  m == Head(q)
<1>1. /\ q # <<>>
      /\ UNCHANGED <<running, appQ, iWindow, iMessenger, waits, wins, wizards, abandoned>>
  BY DEF BarReceives, appVars, histVars, pastVars
<1>2. bar \in Bars /\ q \in Seq(BarMessages) /\ m \in BarMessages /\ t \in Seq(BarMessages)
  BY <1>1, HeadTailProperties DEF IInv, Bars
<1>3. /\ bar'.item = bar.item /\ bar'.view = bar.view /\ bar'.attached = bar.attached
      /\ bar'.queue = t
      /\ bar'.icon = IF m.what = "CHSTATE" THEN m.status ELSE bar.icon
      /\ bar'.selected = IF m.what = "CHSTATE" THEN bar.selected ELSE m.what = "PROFILE_SELECTED"
  <2> DEFINE rest == [bar EXCEPT !.queue = Tail(@)]
  <2>1. /\ rest.item = bar.item /\ rest.view = bar.view /\ rest.attached = bar.attached
        /\ rest.queue = t /\ rest.icon = bar.icon /\ rest.selected = bar.selected
        /\ rest = [item |-> rest.item, view |-> rest.view, attached |-> rest.attached,
                   selected |-> rest.selected, icon |-> rest.icon, queue |-> rest.queue]
    BY <1>2 DEF Bars
  <2>2. bar' = IF m.what = "CHSTATE" THEN [rest EXCEPT !.icon = m.status]
               ELSE [rest EXCEPT !.selected = m.what = "PROFILE_SELECTED"]
    BY DEF BarReceives
  <2> HIDE DEF rest
  <2> QED BY <2>1, <2>2
<1>4. \/ m.what \in Menus
      \/ m.what = "CHSTATE" /\ m.what \notin Menus
  BY <1>2 DEF BarMessages, Menus
<1> HIDE DEF q, t, m
<1>5. \A a : Has(q, a) <=> m.what = a \/ Has(t, a)
  BY <1>1, <1>2, TailFacts DEF t, m
<1>6. \A kinds, n : LastIs(q, kinds, n) =>
         /\ LastIs(t, kinds, n)
         /\ m.what \in kinds /\ (\A a \in kinds : ~Has(t, a)) => m = n
  BY <1>1, <1>2, TailCalls DEF t, m
<1>7. IconIsNew'
  <2>1. bar.item /\ ~(iMessenger # bar.view /\ (~bar.attached \/ Calls(appQ, bar.view)))
    BY <1>1 DEF Shown, IconIsNew, Fresh, q
  <2>2. Fresh' /\ Unknown'
    BY <1>1, <1>3, <2>1 DEF Fresh, Unknown, Shown, IconIsNew
  <2> QED BY <1>1, <1>3, <2>1, <2>2 DEF IconIsNew, Shown
<1>8. SelectsLast'
  BY <1>1, <1>3, SelectsKeep DEF Unasked, Working
<1>9. MenuComes'
  <2>1. ASSUME NEW there \in BOOLEAN, WillSelect(bar, there) PROVE WillSelect(bar', there)
    <3>1. LastIs(q, Menus, MenuSays(there)) /\ ((\A a \in Menus : ~Has(q, a)) => bar.selected = there)
      BY <2>1 DEF WillSelect, q
    <3>2. LastIs(t, Menus, MenuSays(there))
      BY <1>6, <3>1
    <3>3. ASSUME \A a \in Menus : ~Has(t, a) PROVE bar'.selected = there
      <4>1. CASE m.what \in Menus
        <5>1. m = MenuSays(there)
          BY <1>6, <3>1, <3>3, <4>1
        <5>2. m.what = "PROFILE_SELECTED" <=> there
          BY <5>1 DEF MenuSays, Msg
        <5>3. m.what # "CHSTATE"
          BY <4>1 DEF Menus
        <5> QED BY <1>3, <5>2, <5>3
      <4>2. CASE m.what = "CHSTATE" /\ m.what \notin Menus
        BY <1>3, <1>5, <3>1, <3>3, <4>2
      <4> QED BY <1>4, <4>1, <4>2
    <3> QED BY <1>3, <3>2, <3>3 DEF WillSelect
  <2>2. (iWindow # NoWindow) \in BOOLEAN
    OBVIOUS
  <2> QED BY <1>1, <1>3, <2>1, <2>2, MenuKeeps
<1>10. ASSUME NEW x, Follows(x, bar) PROVE Follows(x, bar')
  <2> DEFINE n == StatusSays(x.told)
  <2>1. /\ LastIs(x.queue, {"CHSTATE"}, n)
        /\ ~Has(x.queue, "CHSTATE") =>
              LastIs(q, {"CHSTATE"}, n) /\ (~Has(q, "CHSTATE") => bar.icon = x.told)
    BY <1>10 DEF Follows, q
  <2>2. n.status = x.told
    BY DEF StatusSays
  <2> HIDE DEF n
  <2>3. ~Has(x.queue, "CHSTATE") => LastIs(t, {"CHSTATE"}, n)
    BY <1>6, <2>1
  <2>4. ASSUME ~Has(x.queue, "CHSTATE"), ~Has(t, "CHSTATE") PROVE bar'.icon = x.told
    <3>1. CASE m.what = "CHSTATE"
      <4>1. m = n
        BY <1>6, <2>1, <2>4, <3>1
      <4> QED BY <1>3, <2>2, <3>1, <4>1
    <3>2. CASE m.what # "CHSTATE"
      BY <1>3, <1>5, <2>1, <2>4, <3>2
    <3> QED BY <3>1, <3>2
  <2> QED BY <1>3, <2>1, <2>3, <2>4 DEF Follows, n
<1>11. StatusComes'
  BY <1>1, <1>3, <1>10, StatusKeeps DEF Knows
<1> QED BY <1>7, <1>8, <1>9, <1>11 DEF Shown

-------------------------------------------------------------------------------
\* The message that a run begins with.
LEMMA BeginsFacts ==
    ASSUME Begins
    PROVE  /\ running' = TRUE /\ UNCHANGED <<iWindow, waits, iMessenger>>
           /\ \A v : Rising(appQ', v) /\ ~Calls(appQ', v)
           /\ ~Has(appQ', "PROFILE_SELECT")
<1> DEFINE m == Msg(IF disk.config.first THEN "OPEN_PROFILE_WIZARD" ELSE "CONFIG_OK")
<1>1. running' = TRUE /\ appQ' = <<m>> /\ UNCHANGED <<iWindow, waits, iMessenger>>
  BY DEF Begins
<1>2. m.what \in {"OPEN_PROFILE_WIZARD", "CONFIG_OK"}
  BY DEF Msg
<1> HIDE DEF m
<1> QED BY <1>1, <1>2 DEF Rising, Calls, Has

\* A run begins, and BeGadu knows no icon.
LEMMA BeginsShow ==
    ASSUME IInv, Served, Shown, ~running, Begins, wins' = wins, bar' = bar
    PROVE  Shown'
<1>1. /\ running' = TRUE /\ UNCHANGED <<iWindow, waits, iMessenger>>
      /\ \A v : Rising(appQ', v) /\ ~Calls(appQ', v)
      /\ ~Has(appQ', "PROFILE_SELECT")
  BY BeginsFacts
<1>2. iMessenger = 0 /\ wins = <<>> /\ DOMAIN wins' = {}
  BY DEF Shown, IconIsNew, IInv, AppOk
<1>3. bar.item => bar.view # 0
  BY DEF Shown, IconIsNew, IInv, Bars
<1>4. IconIsNew'
  BY <1>1, <1>2, <1>3 DEF IconIsNew, Unknown, Fresh, Shown
<1>5. SelectsLast' /\ MenuComes' /\ StatusComes'
  BY <1>1, <1>2, <1>3 DEF SelectsLast, MenuComes, StatusComes
<1> QED BY <1>4, <1>5 DEF Shown

\* The program is started, and Deskbar is, again.
LEMMA StartsShow == IInv /\ Served /\ Shown /\ (Start \/ DeskbarRestarts) => Shown'
<1> SUFFICES ASSUME IInv, Served, Shown, Start \/ DeskbarRestarts PROVE Shown'
  OBVIOUS
<1>1. CASE Start
  BY <1>1, BeginsShow DEF Start
<1>2. CASE DeskbarRestarts
  <2>1. /\ bar.item /\ UNCHANGED <<wins, wizards, abandoned>>
        /\ running => UNCHANGED <<running, appVars>>
        /\ ~running => Begins
    BY <1>2 DEF DeskbarRestarts, pastVars
  <2>2. /\ bar'.item = TRUE /\ bar'.view = bar.view + 1 /\ bar'.attached = FALSE
        /\ bar'.selected = FALSE /\ bar'.queue = <<>>
    BY <1>2 DEF DeskbarRestarts, NoIcon
  <2>3. /\ UNCHANGED <<iMessenger, waits, iWindow>> /\ (running => running')
        /\ waits.what \notin {"B_QUIT_REQUESTED", "WRITE"}
    BY <2>1 DEF Begins, appVars, Shown, IconIsNew
  <2>4. \/ appQ' = appQ
        \/ Rising(appQ', iMessenger) /\ (\A u : ~Calls(appQ', u)) /\ ~Has(appQ', "PROFILE_SELECT")
    <3>1. CASE running
      BY <2>1, <3>1 DEF appVars
    <3>2. CASE ~running
      BY <2>1, <3>2, BeginsFacts
    <3> QED BY <3>1, <3>2
  <2>5. Rising(appQ', iMessenger) /\ \A u : Calls(appQ', u) => Calls(appQ, u)
    BY <2>4 DEF Shown, IconIsNew
  <2>6. IconIsNew' /\ iMessenger' # bar'.view /\ \A v \in DOMAIN wins' : wins'[v].alive => ~Knows(wins'[v], bar')
    BY <2>1, <2>2, <2>3, <2>5, IconComes
  <2>7. SelectsLast'
    <3>1. CASE appQ' = appQ
      BY <2>1, <2>3, <2>6, <3>1, SelectsKeep DEF Unasked, Working
    <3>2. CASE ~Has(appQ', "PROFILE_SELECT")
      BY <3>2 DEF SelectsLast
    <3> QED BY <2>4, <3>1, <3>2
  <2>8. MenuComes' /\ StatusComes'
    BY <2>6 DEF MenuComes, StatusComes, Knows
  <2> QED BY <2>6, <2>7, <2>8 DEF Shown
<1> QED BY <1>1, <1>2

\* The menus of the window, when nothing waits.
LEMMA PicksShow == ASSUME IInv, Served, Shown, AtRest, NEW w \in DOMAIN wins, UserPicks(w) PROVE Shown'
<1>1. UNCHANGED <<running, appQ, iWindow, waits, wizards, iMessenger, bar, abandoned>>
  BY DEF UserPicks, appVars, pastVars
<1>2. PICK m \in {Msg("BEGG_QUIT"), Msg("OPEN_PROFILE_WIZARD")}
                  \cup {[what |-> "SET", status |-> s] : s \in Statuses}
                  \cup {[what |-> "PROFILE_SWITCH", name |-> p] : p \in {p \in Profiles : File(p) # "none"}} :
             wins' = [wins EXCEPT ![w].queue = Append(@, m)]
  BY DEF UserPicks
<1>3. m.what # "CHSTATE"
  BY <1>2 DEF Msg
<1>4. m \in WinMessages
  <2>2. Msg("BEGG_QUIT") \in WinMessages /\ Msg("OPEN_PROFILE_WIZARD") \in WinMessages
    BY PlainWin
  <2>3. \A s \in Statuses : [what |-> "SET", status |-> s] \in WinMessages
    BY DEF WinMessages
  <2>4. \A p \in Profiles : [what |-> "PROFILE_SWITCH", name |-> p] \in WinMessages
    BY DEF WinMessages
  <2> QED BY <1>2, <2>2, <2>3, <2>4
<1> DEFINE q == wins[w].queue  x == [wins[w] EXCEPT !.queue = Append(q, m)]
<1>5. wins' = [wins EXCEPT ![w] = x] /\ q \in Seq(WinMessages)
  BY <1>2, WinTypes
<1>6. /\ x.alive = wins[w].alive /\ x.messenger = wins[w].messenger /\ x.told = wins[w].told
      /\ x.queue = Append(q, m)
  BY WinTypes DEF Windows
<1> HIDE DEF x
<1>7. wins'[w] = x /\ DOMAIN wins' = DOMAIN wins /\ \A v \in DOMAIN wins : v # w => wins'[v] = wins[v]
  BY <1>5, WinSet
<1>8. Follows(wins[w], bar) => Follows(x, bar)
  BY <1>3, <1>4, <1>5, <1>6, FollowsAppend
<1>9. IconIsNew'
  BY <1>1, <1>6, <1>7, IconKeeps DEF Shown, IconIsNew
<1>10. SelectsLast'
  BY <1>1, RestFacts DEF SelectsLast
<1>11. MenuComes'
  BY <1>1, MenuKeeps
<1>12. StatusComes'
  BY <1>1, <1>6, <1>7, <1>8, StatusKeeps DEF Knows
<1> QED BY <1>9, <1>10, <1>11, <1>12 DEF Shown

\* What the profile keeps is no matter of Deskbar's.
LEMMA EditsShow == ASSUME IInv, Served, Shown, NEW w \in DOMAIN wins, UserEdits(w) PROVE Shown'
<1> DEFINE x == [wins[w] EXCEPT !.saved = FALSE]
<1>1. /\ wins' = [wins EXCEPT ![w] = x]
      /\ UNCHANGED <<running, appQ, iWindow, waits, wizards, bar, iMessenger, abandoned>>
  BY DEF UserEdits, appVars, pastVars
<1>2. /\ x.alive = wins[w].alive /\ x.messenger = wins[w].messenger /\ x.queue = wins[w].queue
      /\ x.told = wins[w].told
  BY WinTypes DEF Windows
<1> HIDE DEF x
<1>3. Knows(x, bar) => Follows(x, bar)
  BY <1>2 DEF Knows, Follows, Shown, StatusComes
<1> QED BY <1>1, <1>2, <1>3, WindowShows

\* A click on the icon: who has no profile there is asked to choose one.
LEMMA ClicksShow == IInv /\ Served /\ Shown /\ AtRest /\ UserClicks => Shown'
<1> SUFFICES ASSUME IInv, Served, Shown, AtRest, UserClicks PROVE Shown'
  OBVIOUS
<1>1. /\ running /\ bar.item
      /\ UNCHANGED <<running, iWindow, waits, wins, wizards, bar, iMessenger, abandoned>>
  BY DEF UserClicks, pastVars
<1>2. PICK m \in {Msg("SHOW"), Msg("BEGG_QUIT")}
                  \cup (IF bar.selected THEN {[what |-> "SET", status |-> s] : s \in Statuses}
                        ELSE {Msg("PROFILE_SELECT")}) : appQ' = Append(appQ, m)
  BY <1>1 DEF UserClicks, ToApp
<1>3. /\ m \in AppMessages /\ m.what \in {"SHOW", "BEGG_QUIT", "SET", "PROFILE_SELECT"}
      /\ m.what = "PROFILE_SELECT" => ~bar.selected
  <2>1. \A s \in Statuses : /\ [what |-> "SET", status |-> s] \in AppMessages
                            /\ [what |-> "SET", status |-> s].what = "SET"
    BY DEF AppMessages
  <2>2. \A a \in {"SHOW", "BEGG_QUIT", "PROFILE_SELECT"} : Msg(a) \in AppMessages /\ Msg(a).what = a
    BY DEF AppMessages, Msg
  <2> QED BY <1>2, <2>1, <2>2
<1>4. /\ appQ = <<>> /\ appQ \in Seq(AppMessages) /\ waits.what = "NOTHING" /\ bar.queue = <<>>
      /\ Free(appQ) /\ (\A a : ~Has(appQ, a)) /\ \A v \in DOMAIN wins : Free(wins[v].queue)
  BY RestFacts, EmptySeq DEF AtRest
<1>5. \A a : Has(appQ', a) <=> m.what = a
  BY <1>2, <1>3, <1>4, AppendFacts
<1>6. Rising(appQ', iMessenger) /\ \A u : Calls(appQ', u) => Calls(appQ, u)
  BY <1>2, <1>3, <1>4, QuietQueue DEF Shown, IconIsNew
<1>7. IconIsNew'
  BY <1>1, <1>6, IconKeeps
<1>8. SelectsLast'
  <2> SUFFICES ASSUME Has(appQ', "PROFILE_SELECT") PROVE SelectsLast'
    BY DEF SelectsLast
  <2>1. m.what = "PROFILE_SELECT" /\ ~bar.selected
    BY <1>3, <1>5
  <2>2. Free(appQ') /\ First(appQ', "PROFILE_SELECT")
    BY <1>2, <1>3, <1>4, <2>1, AppendFacts, AppendCalls DEF Asks
  <2>3. Unasked'
    BY <1>1, <1>4, <2>2, RestFacts DEF Unasked, Working
  <2>4. ~abandoned /\ wizards = <<>> /\ iWindow # NoWindow => iMessenger # bar.view
    <3>1. WillSelect(bar, TRUE) => bar.selected = TRUE
      BY <1>4, EmptyFacts DEF WillSelect
    <3> QED BY <1>1, <1>4, <2>1, <3>1 DEF Shown, MenuComes, Changes
  <2> QED BY <1>1, <1>4, <2>2, <2>3, <2>4 DEF SelectsLast, Changes
<1>9. MenuComes'
  BY <1>1, <1>4, MenuKeeps
<1>10. StatusComes'
  BY <1>1, StatusKeeps
<1> QED BY <1>7, <1>8, <1>9, <1>10 DEF Shown

\* The pages of a wizard, and a wizard that writes a profile.
LEMMA TurnsShow ==
    ASSUME IInv, Served, Shown, NEW k \in DOMAIN wizards, WizardTurns(k) \/ WizardSaves(k) PROVE Shown'
<1>1. UNCHANGED <<running, appQ, iWindow, waits, wins, bar, iMessenger, abandoned>>
  BY DEF WizardTurns, WizardSaves, appVars, histVars, pastVars
<1>2. PICK x : wizards' = [wizards EXCEPT ![k] = x] /\ (x.page = 4 => wizards[k].page = 4)
  <2>1. wizards[k] \in Wizards
    BY Pages
  <2>2. CASE WizardTurns(k)
    <3>1. PICK page \in 1..3 : wizards' = [wizards EXCEPT ![k].page = page]
      BY <2>2 DEF WizardTurns
    <3> DEFINE x == [wizards[k] EXCEPT !.page = page]
    <3>2. x.page # 4
      BY <2>1 DEF Wizards
    <3>3. wizards' = [wizards EXCEPT ![k] = x]
      BY <3>1
    <3> QED BY <3>2, <3>3
  <2>3. CASE WizardSaves(k)
    <3> DEFINE x == [wizards[k] EXCEPT !.saves = Phase(wizards[k].name)]
    <3>1. x.page = wizards[k].page
      BY <2>1 DEF Wizards
    <3>2. wizards' = [wizards EXCEPT ![k] = x]
      BY <2>3 DEF WizardSaves
    <3> QED BY <3>1, <3>2
  <2> QED BY <2>2, <2>3
<1>3. k = 1 /\ wizards # <<>> /\ wizards' # <<>> /\ DOMAIN wizards' = {1} /\ wizards'[1] = x
  BY <1>2, OnlyWizard
<1>4. Working' => Working
  BY <1>2, <1>3 DEF Working
<1>5. IconIsNew'
  BY <1>1, IconKeeps DEF Shown, IconIsNew
<1>6. SelectsLast'
  BY <1>1, <1>3, <1>4 DEF SelectsLast, Shown, Unasked
<1>7. MenuComes'
  BY <1>1, <1>3, MenuKeeps
<1>8. StatusComes'
  BY <1>1, StatusKeeps
<1> QED BY <1>5, <1>6, <1>7, <1>8 DEF Shown

\* A wizard is given a name: no menu waits to be chosen.
LEMMA NamesShow == ASSUME IInv, Served, Shown, AtRest, NEW k \in DOMAIN wizards, WizardNames(k) PROVE Shown'
<1>1. UNCHANGED <<running, appQ, iWindow, waits, wins, bar, iMessenger, abandoned>>
  BY DEF WizardNames, appVars
<1>2. \E x : wizards' = [wizards EXCEPT ![k] = x]
  <2>1. PICK name \in Profiles \cup {NoName} : wizards' = [wizards EXCEPT ![k].page = 4, ![k].name = name]
    BY DEF WizardNames
  <2>2. wizards' = [wizards EXCEPT ![k] = [wizards[k] EXCEPT !.page = 4, !.name = name]]
    BY <2>1
  <2> QED BY <2>2
<1>3. wizards' # <<>>
  BY <1>2, OnlyWizard
<1>4. ~Has(appQ', "PROFILE_SELECT")
  BY <1>1, RestFacts
<1>5. IconIsNew'
  BY <1>1, IconKeeps DEF Shown, IconIsNew
<1>6. SelectsLast'
  BY <1>4 DEF SelectsLast
<1>7. MenuComes'
  BY <1>1, <1>3, MenuKeeps
<1>8. StatusComes'
  BY <1>1, StatusKeeps
<1> QED BY <1>5, <1>6, <1>7, <1>8 DEF Shown

\* A wizard is left: another window comes, or none.
LEMMA WizardTells ==
    ASSUME IInv, Served, Shown, NEW k \in DOMAIN wizards, Closes(k), NEW m \in AppMessages, appQ' = Append(appQ, m),
           (m.what = "PROFILE_CREATED" /\ ~Has(appQ, "PROFILE_SELECT")) \/ (m.what = "PROFILE_SELECT" /\ AtRest),
           UNCHANGED <<running, iWindow, waits, wins, bar, iMessenger>>
    PROVE  Shown'
<1>1. iWindow = NoWindow /\ running /\ wizards' = <<>>
  BY OnlyWizard
<1>2. appQ \in Seq(AppMessages)
  BY WinTypes
<1>3. \A a : Has(appQ', a) <=> m.what = a \/ Has(appQ, a)
  BY <1>2, AppendFacts
<1>4. Rising(appQ', iMessenger) /\ \A u : Calls(appQ', u) => Calls(appQ, u)
  BY <1>2, QuietQueue DEF Shown, IconIsNew
<1>5. IconIsNew'
  BY <1>4, IconKeeps
<1>6. SelectsLast'
  <2>1. CASE m.what = "PROFILE_CREATED" /\ ~Has(appQ, "PROFILE_SELECT")
    BY <1>3, <2>1 DEF SelectsLast
  <2>2. CASE m.what = "PROFILE_SELECT" /\ AtRest
    <3>1. Free(appQ) /\ waits.what = "NOTHING" /\ \A v \in DOMAIN wins : Free(wins[v].queue)
      BY <2>2, RestFacts
    <3>2. Free(appQ')
      BY <1>2, <2>2, <3>1, AppendFacts DEF Asks
    <3>3. ~Working'
      BY <1>1 DEF Working
    <3> QED BY <1>1, <3>1, <3>2, <3>3 DEF SelectsLast, Unasked, Changes
  <2> QED BY <2>1, <2>2
<1>7. MenuComes'
  BY <1>3 DEF MenuComes
<1>8. StatusComes'
  BY StatusKeeps
<1> QED BY <1>5, <1>6, <1>7, <1>8 DEF Shown

\* The profile has been made: who works on it leaves no menu to be chosen.
LEMMA FinishShows == ASSUME IInv, Served, Shown, NEW k \in DOMAIN wizards, WizardFinishes(k) PROVE Shown'
<1> DEFINE m == [what |-> "PROFILE_CREATED", name |-> wizards[k].name]
<1>1. /\ UNCHANGED <<running, iWindow, waits, wins, bar, iMessenger>>
      /\ wizards[k].page = 4 /\ Closes(k) /\ ToApp(m)
  BY DEF WizardFinishes
<1>2. running /\ appQ' = Append(appQ, m) /\ Working
  BY <1>1, OnlyWizard DEF ToApp, Working
<1>3. m \in AppMessages /\ m.what = "PROFILE_CREATED"
  BY Pages DEF Wizards, AppMessages
<1> HIDE DEF m
<1>4. ~Has(appQ, "PROFILE_SELECT")
  BY <1>2 DEF Shown, SelectsLast, Unasked
<1> QED BY <1>1, <1>2, <1>3, <1>4, WizardTells

\* A wizard is cancelled, or nobody says that it has ended.
LEMMA WizardGoesShow ==
    ASSUME IInv, Served, Shown, AtRest, NEW k \in DOMAIN wizards, WizardCancelled(k) \/ WizardClosed(k)
    PROVE  Shown'
<1>1. Closes(k) /\ UNCHANGED <<running, iWindow, waits, wins, bar, iMessenger>>
  BY DEF WizardCancelled, WizardClosed, appVars
<1>2. CASE WizardCancelled(k)
  <2> DEFINE m == Msg("PROFILE_SELECT")
  <2>1. running
    BY OnlyWizard
  <2>2. m \in AppMessages /\ m.what = "PROFILE_SELECT" /\ appQ' = Append(appQ, m)
    BY <1>2, <2>1 DEF WizardCancelled, AppMessages, ToApp, Msg
  <2> HIDE DEF m
  <2> QED BY <1>1, <2>2, WizardTells
<1>3. CASE WizardClosed(k)
  <2>1. appQ' = appQ /\ abandoned' = TRUE
    BY <1>3 DEF WizardClosed, appVars
  <2>2. IconIsNew'
    BY <1>1, <2>1, IconKeeps DEF Shown, IconIsNew
  <2>3. ~Has(appQ', "PROFILE_SELECT")
    BY <2>1, RestFacts
  <2>4. SelectsLast' /\ MenuComes'
    BY <2>1, <2>3 DEF SelectsLast, MenuComes
  <2>5. StatusComes'
    BY <1>1, StatusKeeps
  <2> QED BY <2>2, <2>4, <2>5 DEF Shown
<1> QED BY <1>2, <1>3

\* The system ends the program, in its way or at once; the user presses Ctrl+Q.
LEMMA SystemShows == IInv /\ Served /\ Shown /\ (SystemQuits \/ UserQuits \/ Killed) => Shown'
<1> SUFFICES ASSUME IInv, Served, Shown, SystemQuits \/ UserQuits \/ Killed PROVE Shown'
  OBVIOUS
<1>1. CASE Killed
  BY <1>1, EndsShow DEF Killed
<1>2. CASE SystemQuits \/ UserQuits
  <2> DEFINE m == Msg("B_QUIT_REQUESTED")
  <2>1. /\ appQ' \in {appQ, Append(appQ, m)}
        /\ UNCHANGED <<running, iWindow, waits, wins, wizards, bar, iMessenger, abandoned>>
    BY <1>2 DEF SystemQuits, UserQuits, ToApp
  <2>2. m \in AppMessages /\ m.what = "B_QUIT_REQUESTED" /\ appQ \in Seq(AppMessages)
    BY AppQueue DEF Msg, AppMessages
  <2> HIDE DEF m
  <2>3. /\ Free(appQ) => Free(appQ')
        /\ Has(appQ', "PROFILE_SELECT") <=> Has(appQ, "PROFILE_SELECT")
        /\ Has(appQ', "PROFILE_CREATED") <=> Has(appQ, "PROFILE_CREATED")
    BY <2>1, <2>2, AppendFacts DEF Asks
  <2>4. First(appQ, "PROFILE_SELECT") => First(appQ', "PROFILE_SELECT")
    BY <2>1, <2>2, AppendCalls
  <2>5. Rising(appQ', iMessenger) /\ \A u : Calls(appQ', u) => Calls(appQ, u)
    BY <2>1, <2>2, QuietQueue DEF Shown, IconIsNew
  <2>6. IconIsNew'
    BY <2>1, <2>5, IconKeeps
  <2>7. SelectsLast'
    BY <2>1, <2>3, <2>4, SelectsKeep DEF Unasked, Working
  <2>8. MenuComes'
    BY <2>1, <2>3, MenuKeeps
  <2>9. StatusComes'
    BY <2>1, StatusKeeps
  <2> QED BY <2>6, <2>7, <2>8, <2>9 DEF Shown
<1> QED BY <1>1, <1>2

(***************************************************************************)
(* The invariant of the icon, for a user who waits, though either process  *)
(* starts again at any time.                                               *)
(***************************************************************************)
THEOREM ShownInvariance == Spec => []ShownInv
<1>1. Init => ShownInv
  <2> SUFFICES ASSUME Init PROVE Shown
    BY DEF ShownInv
  <2>1. /\ appQ = <<>> /\ iMessenger = 0 /\ waits = Nothing /\ wins = <<>> /\ bar = NoIcon /\ running = FALSE
    BY DEF Init, Off
  <2>2. /\ bar.item = FALSE /\ bar.view = 0 /\ bar.attached = FALSE /\ bar.queue = <<>>
        /\ waits.what = "NOTHING" /\ DOMAIN wins = {}
    BY <2>1 DEF NoIcon, Nothing, Msg
  <2>3. (\A v : ~Calls(appQ, v) /\ Rising(appQ, v)) /\ ~Has(appQ, "PROFILE_SELECT")
    BY <2>1, EmptyCalls, EmptyFacts
  <2>4. IconIsNew
    BY <2>1, <2>2, <2>3 DEF IconIsNew, Unknown, Fresh
  <2> QED BY <2>1, <2>2, <2>3, <2>4 DEF Shown, SelectsLast, MenuComes, StatusComes
<1>2. IInv /\ ServedInv /\ ShownInv /\ [Next]_vars => ShownInv'
  <2> SUFFICES ASSUME IInv, ServedInv, ShownInv, [Next]_vars, ~hasty' PROVE Shown'
    BY DEF ShownInv
  <2>1. ASSUME ~hasty PROVE Served /\ Shown
    BY <2>1 DEF ServedInv, ShownInv
  <2>2. CASE AppStep
    <3>1. ~hasty
      <4>1. UNCHANGED hasty
        BY <2>2 DEF AppStep, AddMessenger, Forward, OpenProfileWizard, ConfigOk, ProfileCreated,
           ProfileSelect, ProfileSwitch, BeggQuit, QuitRequested, AsksToQuit, WindowEnded, ConfigWritten, histVars
      <4> QED BY <4>1
    <3>2. ConfigWritten => Shown'
      BY <2>1, <3>1, EndsShow DEF ConfigWritten
    <3> QED BY <2>1, <2>2, <3>1, <3>2, AddMessengerShows, ForwardShows, OpenProfileWizardShows,
            ConfigOkShows, ProfileCreatedShows, ProfileSelectShows, ProfileSwitchShows,
            BeggQuitShows, QuitRequestedShows, AsksToQuitShows, WindowEndedShows DEF AppStep
  <2>3. CASE BarStep
    <3>1. ~hasty
      BY <2>3 DEF BarStep, BarAttaches, BarReceives, histVars
    <3> QED BY <2>1, <2>3, <3>1, BarAttachesShows, BarReceivesShows DEF BarStep
  <2>4. ASSUME NEW w \in DOMAIN wins, WindowStep(w) PROVE Shown'
    <3>1. ~hasty
      BY <2>4 DEF WindowStep, SetStatus, Updates, TellDeskbar, TellApp, Show, SavesProfile, Close,
         QuitProgram, Quit, histVars
    <3> QED BY <2>1, <2>4, <3>1, SetStatusShows, CalmShows, TellDeskbarShows, TellAppShows, SavesShow,
            CleanShows, QuitShows DEF WindowStep
  <2>5. ASSUME NEW k \in DOMAIN wizards, WizardSaves(k) \/ WizardFinishes(k) PROVE Shown'
    BY <2>1, <2>5, TurnsShow, FinishShows DEF WizardSaves, WizardFinishes, histVars
  <2>6. CASE Environment
    <3>1. ASSUME UserActs PROVE ~hasty /\ AtRest
      BY <3>1 DEF UserActs
    <3>2. ASSUME NEW w \in DOMAIN wins, UserPicks(w) \/ UserEdits(w) PROVE Shown'
      BY <2>1, <3>1, <3>2, PicksShow, EditsShow DEF UserPicks, UserEdits
    <3>3. ASSUME NEW w \in DOMAIN wins, HandlerPosts(w) PROVE Shown'
      BY <2>1, <3>3, PostsShow DEF HandlerPosts
    <3>4. ASSUME NEW k \in DOMAIN wizards, WizardTurns(k) PROVE Shown'
      BY <2>1, <3>4, TurnsShow DEF WizardTurns, histVars
    <3>5. ASSUME NEW k \in DOMAIN wizards, WizardNames(k) PROVE Shown'
      BY <2>1, <3>1, <3>5, NamesShow DEF WizardNames
    <3>6. ASSUME NEW k \in DOMAIN wizards, WizardCancelled(k) \/ WizardClosed(k) PROVE Shown'
      BY <2>1, <3>1, <3>6, WizardGoesShow DEF WizardCancelled, WizardClosed
    <3>7. CASE UserClicks
      BY <2>1, <3>1, <3>7, ClicksShow DEF UserClicks
    <3>8. CASE Start \/ DeskbarRestarts
      BY <2>1, <3>8, StartsShow DEF Start, DeskbarRestarts
    <3>9. CASE SystemQuits \/ UserQuits \/ Killed
      BY <2>1, <3>1, <3>9, SystemShows DEF SystemQuits, UserQuits, Killed
    <3> QED BY <2>6, <3>2, <3>3, <3>4, <3>5, <3>6, <3>7, <3>8, <3>9 DEF Environment
  <2>7. CASE UNCHANGED vars
    <3>1. UNCHANGED <<running, appQ, iWindow, waits, wins, wizards, bar, iMessenger, abandoned, hasty>>
      BY <2>7 DEF vars, appVars, histVars, pastVars
    <3> QED BY <2>1, <3>1, StandsStill
  <2> QED BY <2>2, <2>3, <2>4, <2>5, <2>6, <2>7 DEF Next, WizardStep
<1> QED BY <1>1, <1>2, ServedInvariance, PTL DEF Spec

\* ADD_MESSENGER, PROFILE_SELECTED, PROFILE_NOT_SELECTED, UpdateBGDeskBar: when every
\* message has been handled, the icon offers the menu that fits the window and shows
\* the last status that was reported in it.
THEOREM DeskbarIsRight == Spec => []DeskbarAgrees
<1>1. ASSUME IInv, ServedInv, ShownInv PROVE DeskbarAgrees
  <2>1. MenuMatches
    <3> SUFFICES ASSUME running, AtRest, ~hasty, ~abandoned, wizards = <<>>, bar.item, iMessenger = bar.view
                 PROVE  bar.selected = (iWindow # NoWindow)
      BY DEF MenuMatches
    <3>1. Served /\ Shown
      BY <1>1 DEF ServedInv, ShownInv
    <3>2. waits.what = "NOTHING" /\ (\A a : ~Has(appQ, a)) /\ bar.queue = <<>>
      BY <1>1, <3>1, RestFacts DEF AtRest
    <3>3. WillSelect(bar, iWindow # NoWindow)
      BY <3>1, <3>2 DEF Shown, MenuComes, Changes
    <3> QED BY <3>2, <3>3, EmptyFacts DEF WillSelect
  <2>2. IconShowsStatus
    <3> SUFFICES ASSUME AtRest, ~hasty, NEW w \in DOMAIN wins, Alive(w), bar.item,
                        wins[w].messenger = bar.view, wins[w].told # None
                 PROVE  bar.icon = wins[w].told
      BY DEF IconShowsStatus
    <3>1. wins[w].alive /\ wins[w].queue = <<>> /\ bar.queue = <<>>
      BY DEF AtRest, Alive
    <3>2. Follows(wins[w], bar)
      BY <1>1, <3>1 DEF ShownInv, Shown, StatusComes, Knows
    <3> QED BY <3>1, <3>2, EmptyFacts DEF Follows
  <2> QED BY <2>1, <2>2 DEF DeskbarAgrees
<1> QED BY <1>1, ServedInvariance, ShownInvariance, PTL
================================================================================

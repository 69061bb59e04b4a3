------------------------------ MODULE ChatsProofs ------------------------------
(***************************************************************************)
(* Proofs about Chats, for any contacts and addresses, any number of acts, *)
(* and Network::Quit at any moment.                                        *)
(***************************************************************************)
EXTENDS Chats, SequenceTheorems, WellFoundedInduction, TLAPS

--------------------------------------------------------------------------------
(***************************************************************************)
(* What BList's operations do to a list without duplicates (iWinList).     *)
(***************************************************************************)
\* A non-empty set of naturals has a minimum (the first match of a search).
LEMMA MinInSet ==
    ASSUME NEW S \in SUBSET Nat, S # {}
    PROVE  Min(S) \in S
<1>1. PICK x \in S : \A y \in S : ~(<<y, x>> \in OpToRel(<, Nat))
  BY NatLessThanWellFounded, WFMin
<1>2. ASSUME NEW y \in S, ~(x =< y)
      PROVE  FALSE
  <2>1. <<y, x>> \in Nat \X Nat /\ y < x
    BY <1>2
  <2> QED BY <1>1, <2>1 DEF OpToRel
<1> QED BY <1>2 DEF Min

\* What RemoveAt leaves (BList::RemoveItem at a known position).
LEMMA RemoveAtElements ==
    ASSUME NEW S, NEW s \in Seq(S), NEW i \in 1..Len(s)
    PROVE  /\ RemoveAt(s, i) \in Seq(S)
           /\ Len(RemoveAt(s, i)) = Len(s) - 1
           /\ \A j \in 1..(Len(s) - 1) :
                 RemoveAt(s, i)[j] = IF j < i THEN s[j] ELSE s[j + 1]
<1> DEFINE a == SubSeq(s, 1, i - 1)
           b == SubSeq(s, i + 1, Len(s))
<1>1. /\ a \in Seq(S) /\ Len(a) = i - 1
      /\ \A j \in 1..(i - 1) : a[j] = s[j]
  <2>1. \A j \in 1..(i - 1) : s[j] \in S
    BY ElementOfSeq
  <2>2. 1 \in Int /\ i - 1 \in Int
    OBVIOUS
  <2> QED BY <2>1, <2>2, SubSeqProperties
<1>2. /\ b \in Seq(S) /\ Len(b) = Len(s) - i
      /\ \A j \in 1..(Len(s) - i) : b[j] = s[i + j]
  <2>1. \A j \in (i + 1)..Len(s) : s[j] \in S
    BY ElementOfSeq
  <2>2. i + 1 \in Int /\ Len(s) \in Nat
    BY LenProperties
  <2> QED BY <2>1, <2>2, SubSeqProperties
<1> HIDE DEF a, b
<1>3. /\ a \o b \in Seq(S)
      /\ Len(a \o b) = Len(s) - 1
      /\ \A j \in 1..(Len(s) - 1) :
            (a \o b)[j] = IF j <= i - 1 THEN a[j] ELSE b[j - (i - 1)]
  <2>1. Len(s) \in Nat
    BY LenProperties
  <2>2. /\ a \o b \in Seq(S)
        /\ Len(a \o b) = Len(a) + Len(b)
        /\ \A j \in 1..(Len(a) + Len(b)) :
              (a \o b)[j] = IF j <= Len(a) THEN a[j] ELSE b[j - Len(a)]
    BY <1>1, <1>2, ConcatProperties
  <2>3. Len(a) + Len(b) = Len(s) - 1
    BY <1>1, <1>2, <2>1
  <2> QED BY <1>1, <2>2, <2>3
<1>4. \A j \in 1..(Len(s) - 1) : (a \o b)[j] = IF j < i THEN s[j] ELSE s[j + 1]
  BY <1>1, <1>2, <1>3
<1> QED BY <1>3, <1>4 DEF RemoveAt, a, b

\* A search that some element satisfies finds a position of the list.
LEMMA SelectFirst ==
    ASSUME NEW S, NEW s \in Seq(S), NEW e, \E i \in 1..Len(s) : s[i] = e
    PROVE  LET i == SelectInSeq(s, LAMBDA v : v = e) IN i \in 1..Len(s) /\ s[i] = e
<1> DEFINE I == {i \in 1..Len(s) : s[i] = e}
<1>1. I \in SUBSET Nat /\ I # {}
  BY LenProperties
<1>2. Min(I) \in I
  BY <1>1, MinInSet
<1>3. SelectInSeq(s, LAMBDA v : v = e) = Min(I)
  BY <1>1 DEF SelectInSeq
<1> QED BY <1>2, <1>3

\* Removing an element of a list without duplicates removes it altogether
\* and nothing else.
LEMMA RemoveFirstElements ==
    ASSUME NEW S, NEW s \in Seq(S), NEW e, IsInjective(s)
    PROVE  /\ RemoveFirst(s, e) \in Seq(S)
           /\ IsInjective(RemoveFirst(s, e))
           /\ ToSet(RemoveFirst(s, e)) = ToSet(s) \ {e}
           /\ e \in ToSet(s) => Len(RemoveFirst(s, e)) = Len(s) - 1
<1>0. Len(s) \in Nat /\ DOMAIN s = 1..Len(s)
  BY LenProperties
<1>1. CASE ~ \E i \in 1..Len(s) : s[i] = e
  BY <1>0, <1>1 DEF RemoveFirst, ToSet
<1>2. CASE \E i \in 1..Len(s) : s[i] = e
  <2> DEFINE k == SelectInSeq(s, LAMBDA v : v = e)
             r == RemoveAt(s, k)
  <2>1. k \in 1..Len(s) /\ s[k] = e
    BY <1>2, SelectFirst
  <2>2. RemoveFirst(s, e) = r
    BY <1>2 DEF RemoveFirst
  <2> HIDE DEF k
  <2>3. /\ r \in Seq(S) /\ Len(r) = Len(s) - 1
        /\ \A j \in 1..(Len(s) - 1) : r[j] = IF j < k THEN s[j] ELSE s[j + 1]
    BY <2>1, RemoveAtElements
  <2> HIDE DEF r
  <2>4. DOMAIN r = 1..(Len(s) - 1)
    BY <2>3, LenProperties
  <2>5. \A i, j \in 1..Len(s) : s[i] = s[j] => i = j
    BY <1>0 DEF IsInjective
  <2>6. \A i, j \in 1..(Len(s) - 1) : r[i] = r[j] => i = j
    <3> TAKE i, j \in 1..(Len(s) - 1)
    <3> DEFINE p(n) == IF n < k THEN n ELSE n + 1
    <3>1. p(i) \in 1..Len(s) /\ p(j) \in 1..Len(s)
      BY <1>0, <2>1
    <3>2. r[i] = s[p(i)] /\ r[j] = s[p(j)]
      BY <2>3
    <3>3. p(i) = p(j) => i = j
      BY <1>0, <2>1
    <3> QED BY <2>5, <3>1, <3>2, <3>3
  <2>7. IsInjective(r)
    BY <2>4, <2>6 DEF IsInjective
  <2>8. ASSUME NEW x \in ToSet(s) \ {e} PROVE x \in ToSet(r)
    <3>1. PICK i \in 1..Len(s) : s[i] = x
      BY <1>0, <2>8 DEF ToSet
    <3>2. i # k
      BY <2>1, <2>8, <3>1
    <3>3. CASE i < k
      <4>1. i \in 1..(Len(s) - 1) /\ r[i] = x
        BY <1>0, <2>1, <2>3, <3>1, <3>3
      <4> QED BY <2>4, <4>1 DEF ToSet
    <3>4. CASE k < i
      <4>1. i - 1 \in 1..(Len(s) - 1) /\ r[i - 1] = x
        BY <1>0, <2>1, <2>3, <3>1, <3>4
      <4> QED BY <2>4, <4>1 DEF ToSet
    <3> QED BY <1>0, <2>1, <3>2, <3>3, <3>4
  <2>9. ASSUME NEW x \in ToSet(r) PROVE x \in ToSet(s) \ {e}
    <3>1. PICK i \in 1..(Len(s) - 1) : r[i] = x
      BY <2>4, <2>9 DEF ToSet
    <3>2. PICK j \in 1..Len(s) : j # k /\ s[j] = x
      BY <1>0, <2>1, <2>3, <3>1
    <3>3. x # e
      BY <2>1, <2>5, <3>2
    <3> QED BY <1>0, <3>2, <3>3 DEF ToSet
  <2> QED BY <2>2, <2>3, <2>7, <2>8, <2>9
<1> QED BY <1>1, <1>2

\* Adding a new element keeps the list free of duplicates.
LEMMA AppendElements ==
    ASSUME NEW S, NEW s \in Seq(S), NEW e \in S, IsInjective(s), e \notin ToSet(s)
    PROVE  /\ Append(s, e) \in Seq(S)
           /\ IsInjective(Append(s, e))
           /\ ToSet(Append(s, e)) = ToSet(s) \cup {e}
<1> DEFINE a == Append(s, e)
<1>1. Len(s) \in Nat /\ DOMAIN s = 1..Len(s)
  BY LenProperties
<1>2. /\ a \in Seq(S) /\ Len(a) = Len(s) + 1 /\ a[Len(s) + 1] = e
      /\ \A i \in 1..Len(s) : a[i] = s[i]
  BY AppendProperties
<1>3. DOMAIN a = 1..(Len(s) + 1)
  BY <1>2, LenProperties
<1> HIDE DEF a
<1>4. \A i, j \in 1..(Len(s) + 1) : a[i] = a[j] => i = j
  BY <1>1, <1>2 DEF IsInjective, ToSet
<1>5. ToSet(a) = ToSet(s) \cup {e}
  BY <1>1, <1>2, <1>3 DEF ToSet
<1> QED BY <1>2, <1>3, <1>4, <1>5 DEF IsInjective, a

--------------------------------------------------------------------------------
Windows == [there : {TRUE}, who : Contacts, queue : Seq(WindowMessages)]
Places == {"no", "count", "item", "wait", "empty", "lock", "ending", "done"}

Types ==
    /\ TypeOK
    /\ quit \in [at : Places, i : Nat, chat : Addresses \cup {None}]

-------------------------------------------------------------------------------
(***************************************************************************)
(* What a step does to a window.                                           *)
(***************************************************************************)
WinType == win \in [Addresses -> {Gone} \cup Windows]
Apart(a) == \A b \in Addresses \ {a} : win'[b] = win[b]

Appended(a, m) ==
    /\ Apart(a) /\ There(a) /\ There(a)'
    /\ win'[a].who = win[a].who /\ win'[a].queue = Append(win[a].queue, m)
Shortened(a) ==
    /\ Apart(a) /\ There(a) /\ There(a)' /\ win[a].queue # <<>>
    /\ win'[a].who = win[a].who /\ win'[a].queue = Tail(win[a].queue)

LEMMA WindowFacts ==
    ASSUME WinType, NEW a \in Addresses
    PROVE  /\ There(a) \in BOOLEAN
           /\ There(a) => win[a] \in Windows /\ win[a].who \in Contacts
                          /\ win[a].queue \in Seq(WindowMessages)
           /\ ~There(a) => win[a] = Gone
<1>1. CASE win[a] = Gone
  BY <1>1 DEF There, Gone
<1>2. CASE win[a] \in Windows
  BY <1>2 DEF There, Windows
<1> QED BY <1>1, <1>2 DEF WinType

LEMMA WindowMessage ==
    ASSUME NEW m \in WindowMessages
    PROVE  /\ m.what \in {"SHOW", "SAY", "BOX", "QUIT"}
           /\ m.what \in {"SHOW", "SAY"} => m.msg \in Nat
BY DEF WindowMessages

LEMMA NetworkMessage ==
    ASSUME NEW m \in NetworkMessages
    PROVE  /\ m.what \in {"OPEN", "GOT", "SEND", "CLOSE", "QUIT"}
           /\ m.what \in {"OPEN", "GOT", "SEND"} => m.who \in Contacts
           /\ m.what \in {"GOT", "SEND"} => m.msg \in Nat
           /\ m.what = "CLOSE" => m.win \in Addresses
BY DEF NetworkMessages

LEMMA AppendWindow ==
    ASSUME WinType, NEW a \in Addresses, There(a), NEW m \in WindowMessages,
           win' = [win EXCEPT ![a].queue = Append(@, m)]
    PROVE  WinType' /\ Appended(a, m)
<1>1. win[a] \in Windows /\ Append(win[a].queue, m) \in Seq(WindowMessages)
  BY WindowFacts
<1>2. win' = [win EXCEPT ![a] = [win[a] EXCEPT !.queue = Append(win[a].queue, m)]]
  OBVIOUS
<1>3. [win[a] EXCEPT !.queue = Append(win[a].queue, m)] \in Windows
  BY <1>1 DEF Windows
<1>4. WinType'
  BY <1>2, <1>3 DEF WinType
<1> QED BY <1>1, <1>2, <1>4 DEF Appended, Apart, There, WinType, Windows

LEMMA ShortenWindow ==
    ASSUME WinType, NEW a \in Addresses, NEW what, Turn(a, what), Handled(a)
    PROVE  WinType' /\ Shortened(a) /\ Head(win[a].queue) \in WindowMessages
<1>1. There(a) /\ win[a] \in Windows /\ win[a].queue \in Seq(WindowMessages) /\ win[a].queue # <<>>
      /\ Head(win[a].queue) \in WindowMessages /\ Tail(win[a].queue) \in Seq(WindowMessages)
  BY WindowFacts, HeadTailProperties DEF Turn
<1>2. win' = [win EXCEPT ![a] = [win[a] EXCEPT !.queue = Tail(win[a].queue)]]
  BY DEF Handled
<1>3. [win[a] EXCEPT !.queue = Tail(win[a].queue)] \in Windows
  BY <1>1 DEF Windows
<1>4. WinType'
  BY <1>2, <1>3 DEF WinType
<1> QED BY <1>1, <1>2, <1>4 DEF Shortened, Apart, There, WinType, Windows

LEMMA OpenWindow ==
    ASSUME WinType, NEW a \in Addresses, NEW c \in Contacts, NEW s \in Seq(WindowMessages),
           win' = [win EXCEPT ![a] = Opened(c, s)]
    PROVE  WinType' /\ Apart(a) /\ There(a)' /\ win'[a].who = c /\ win'[a].queue = s
<1>1. Opened(c, s) \in Windows
  BY DEF Opened, Windows
<1> QED BY <1>1 DEF WinType, Apart, There, Opened

LEMMA CloseWindow ==
    ASSUME WinType, NEW a \in Addresses, win' = [win EXCEPT ![a] = Gone]
    PROVE  WinType' /\ Apart(a) /\ ~There(a)'
BY DEF WinType, Apart, There, Gone

-------------------------------------------------------------------------------
(***************************************************************************)
(* The windows and the list.  While Network lives the list names the       *)
(* windows that are there, but the one that is being closed, and only that *)
(* one has been told to quit; so a contact without a match has no window.  *)
(***************************************************************************)
OnePerContact ==
    \A a, b \in Addresses : There(a) /\ There(b) /\ win[a].who = win[b].who => a = b
Listed == ~Quitting => {a \in Addresses : There(a)} \ {closing} = Range(iWinList)
ToldToQuit ==
    ~Quitting => \A a \in Addresses : There(a) =>
        \A i \in 1..Len(win[a].queue) : win[a].queue[i].what = "QUIT" => a = closing

Structure ==
    /\ Types /\ IsInjective(iWinList)
    /\ OnePerContact /\ Listed /\ ToldToQuit
    /\ undefined => Quitting
    /\ Quitting => ~session

LEMMA ListFacts ==
    ASSUME Types
    PROVE  /\ WinType /\ iWinList \in Seq(Addresses) /\ Len(iWinList) \in Nat
           /\ DOMAIN iWinList = 1..Len(iWinList)
           /\ Range(iWinList) = {iWinList[k] : k \in 1..Len(iWinList)}
           /\ Range(iWinList) = ToSet(iWinList)
           /\ \A k \in 1..Len(iWinList) : iWinList[k] \in Addresses
           /\ Range(iWinList) \subseteq Addresses
<1>1. WinType /\ iWinList \in Seq(Addresses)
  BY DEF Types, TypeOK, WinType, Windows
<1>2. Len(iWinList) \in Nat /\ DOMAIN iWinList = 1..Len(iWinList)
  BY <1>1, LenProperties
<1>3. \A k \in 1..Len(iWinList) : iWinList[k] \in Addresses
  BY <1>1, ElementOfSeq
<1> QED BY <1>1, <1>2, <1>3 DEF Range, ToSet

\* GetMesgWinForUser uses a window that is gone only when Network quits; or it
\* finds the contact's window, or opens the only one.
LEMMA Delivery ==
    ASSUME Structure, closing = None, NEW c \in Contacts, NEW s, GetMesgWinForUser(c, s)
    PROVE  \/ undefined' /\ Quitting /\ UNCHANGED <<iWinList, win, asked, again>>
           \/ /\ UNCHANGED <<undefined, iWinList, asked, again>>
              /\ \E a \in Addresses :
                    /\ There(a) /\ win[a].who = c
                    /\ win' = [win EXCEPT ![a].queue = @ \o s]
           \/ /\ ~Quitting /\ UNCHANGED <<undefined, again>>
              /\ \A b \in Addresses : There(b) => win[b].who # c
              /\ \E a \in Addresses :
                    /\ ~There(a) /\ a \notin Range(iWinList)
                    /\ win' = [win EXCEPT ![a] = Opened(c, s)]
                    /\ iWinList' = Append(iWinList, a) /\ asked' = asked \ {a}
<1> DEFINE found == Matches(c)
           upTo == IF found = {} THEN Len(iWinList)
                   ELSE CHOOSE k \in found : \A j \in found : k <= j
           bad == (\E k \in 1..upTo : ~There(iWinList[k])) \/ (found = {} /\ Quitting)
<1>1. found \in SUBSET Nat /\ found \subseteq 1..Len(iWinList)
  BY ListFacts DEF Matches, Structure
<1>2. ASSUME found # {} PROVE upTo \in found
  <2>1. Min(found) \in found
    BY <1>1, <1>2, MinInSet
  <2> QED BY <1>2, <2>1 DEF Min
<1>3. ~Quitting => \A k \in 1..Len(iWinList) : There(iWinList[k])
  BY ListFacts DEF Structure, Listed
<1>4. upTo \in Nat /\ upTo <= Len(iWinList)
  BY <1>1, <1>2, ListFacts DEF Structure
<1>5. CASE bad
  <2>1. Quitting
    BY <1>3, <1>4, <1>5
  <2>2. undefined' /\ UNCHANGED <<iWinList, win, asked, again>>
    BY <1>5, Zenon DEF GetMesgWinForUser
  <2> QED BY <2>1, <2>2
<1>6. CASE ~bad /\ found # {}
  <2>1. UNCHANGED <<undefined, iWinList, asked, again>> /\ win' = [win EXCEPT ![iWinList[upTo]].queue = @ \o s]
    BY <1>6, Zenon DEF GetMesgWinForUser
  <2>2. iWinList[upTo] \in Addresses /\ There(iWinList[upTo]) /\ win[iWinList[upTo]].who = c
    BY <1>1, <1>2, <1>6, ListFacts DEF Matches, Structure
  <2> QED BY <2>1, <2>2
<1>7. CASE ~bad /\ found = {}
  <2>1. PICK a \in Addresses :
           /\ ~There(a) /\ win' = [win EXCEPT ![a] = Opened(c, s)]
           /\ iWinList' = Append(iWinList, a) /\ asked' = asked \ {a} /\ UNCHANGED again
    BY <1>7, Zenon DEF GetMesgWinForUser
  <2>2. ~Quitting /\ UNCHANGED undefined
    BY <1>7, Zenon DEF GetMesgWinForUser
  <2>3. None \notin Addresses
    BY ChatsAssumption
  <2>4. \A b \in Addresses : There(b) => b \in Range(iWinList)
    BY <2>2, <2>3 DEF Structure, Listed
  <2>5. \A b \in Addresses : There(b) => win[b].who # c
    BY <1>7, <2>4, ListFacts DEF Matches, Structure
  <2>6. a \notin Range(iWinList)
    BY <2>1, <2>2 DEF Structure, Listed
  <2> QED BY <2>1, <2>2, <2>5, <2>6
<1> QED BY <1>5, <1>6, <1>7

\* A message is taken from Network's queue, or posted to it.
LEMMA QueueTaken ==
    ASSUME Types, queue # <<>>, queue' = Tail(queue)
    PROVE  /\ queue' \in Seq(NetworkMessages) /\ Message \in NetworkMessages
           /\ Len(queue) \in Nat \ {0} /\ Len(queue') = Len(queue) - 1 /\ Message = queue[1]
           /\ \A i \in 1..Len(queue) : queue[i] \in NetworkMessages
           /\ \A i \in 1..Len(queue') : queue'[i] = queue[i + 1]
<1>1. queue \in Seq(NetworkMessages)
  BY DEF Types, TypeOK
<1>2. /\ Head(queue) \in NetworkMessages /\ Tail(queue) \in Seq(NetworkMessages)
      /\ Len(Tail(queue)) = Len(queue) - 1
      /\ \A i \in 1..Len(Tail(queue)) : Tail(queue)[i] = queue[i + 1]
  BY <1>1, HeadTailProperties
<1>3. Len(queue) \in Nat \ {0} /\ \A i \in 1..Len(queue) : queue[i] \in NetworkMessages
  BY <1>1, LenProperties, ElementOfSeq, EmptySeq
<1> QED BY <1>1, <1>2, <1>3 DEF Message

LEMMA QueuePosted ==
    ASSUME Types, NEW m \in NetworkMessages, queue' = Append(queue, m)
    PROVE  /\ queue' \in Seq(NetworkMessages)
           /\ Len(queue) \in Nat /\ Len(queue') = Len(queue) + 1 /\ queue'[Len(queue) + 1] = m
           /\ \A i \in 1..Len(queue) : queue[i] \in NetworkMessages /\ queue'[i] = queue[i]
<1>1. queue \in Seq(NetworkMessages)
  BY DEF Types, TypeOK
<1> QED BY <1>1, AppendProperties, LenProperties, ElementOfSeq

LEMMA PostedTypes ==
    ASSUME Types, NEW m \in NetworkMessages, Post(m)
    PROVE  queue' \in Seq(NetworkMessages) /\ calm' \in BOOLEAN
<1>1. calm' \in BOOLEAN
  BY DEF Post, Types, TypeOK
<1>2. CASE quit.at = "done"
  BY <1>1, <1>2 DEF Post, Types, TypeOK
<1>3. CASE quit.at # "done"
  BY <1>1, <1>3, QueuePosted DEF Post
<1> QED BY <1>2, <1>3

\* What is queued at a window, after a message more or less.
LEMMA WindowAppended ==
    ASSUME WinType, NEW a \in Addresses, NEW m \in WindowMessages, Appended(a, m)
    PROVE  /\ Len(win[a].queue) \in Nat /\ Len(win'[a].queue) = Len(win[a].queue) + 1
           /\ win'[a].queue[Len(win[a].queue) + 1] = m
           /\ \A i \in 1..Len(win[a].queue) :
                  win'[a].queue[i] = win[a].queue[i] /\ win[a].queue[i] \in WindowMessages
<1>1. win[a].queue \in Seq(WindowMessages)
  BY WindowFacts DEF Appended
<1> QED BY <1>1, AppendProperties, LenProperties, ElementOfSeq DEF Appended

LEMMA WindowShortened ==
    ASSUME WinType, NEW a \in Addresses, Shortened(a)
    PROVE  /\ Len(win[a].queue) \in Nat \ {0} /\ Len(win'[a].queue) = Len(win[a].queue) - 1
           /\ Head(win[a].queue) = win[a].queue[1]
           /\ \A i \in 1..Len(win[a].queue) : win[a].queue[i] \in WindowMessages
           /\ \A i \in 1..Len(win'[a].queue) : win'[a].queue[i] = win[a].queue[i + 1]
<1>1. win[a].queue \in Seq(WindowMessages) /\ win[a].queue # <<>>
  BY WindowFacts DEF Shortened
<1>2. Len(win[a].queue) \in Nat \ {0} /\ \A i \in 1..Len(win[a].queue) : win[a].queue[i] \in WindowMessages
  BY <1>1, LenProperties, ElementOfSeq, EmptySeq
<1> QED BY <1>1, <1>2, HeadTailProperties DEF Shortened

\* Windows that stay, with their contacts, and quit no earlier than before.
LEMMA WindowsStay ==
    ASSUME Structure, UNCHANGED <<iWinList, closing>>, Quitting => Quitting',
           \A a \in Addresses : There(a)' = There(a),
           \A a \in Addresses : There(a) => win'[a].who = win[a].who,
           ~Quitting' => \A a \in Addresses : There(a) => \A i \in 1..Len(win'[a].queue) :
               win'[a].queue[i].what = "QUIT" =>
                   \E j \in 1..Len(win[a].queue) : win[a].queue[j].what = "QUIT"
    PROVE  OnePerContact' /\ Listed' /\ ToldToQuit'
<1>1. OnePerContact'
  BY DEF Structure, OnePerContact
<1>2. Listed'
  <2>1. {a \in Addresses : There(a)}' = {a \in Addresses : There(a)}
    OBVIOUS
  <2> QED BY <2>1 DEF Structure, Listed
<1>3. ToldToQuit'
  BY DEF Structure, ToldToQuit
<1> QED BY <1>1, <1>2, <1>3

LEMMA AppendKeeps ==
    ASSUME Structure, UNCHANGED <<iWinList, closing>>, Quitting' = Quitting,
           NEW a \in Addresses, NEW m \in WindowMessages, Appended(a, m), m.what = "QUIT" => Quitting
    PROVE  OnePerContact' /\ Listed' /\ ToldToQuit'
<1>1. \A b \in Addresses : There(b)' = There(b) /\ (There(b) => win'[b].who = win[b].who)
  <2> TAKE b \in Addresses
  <2>1. There(a) \in BOOLEAN /\ There(a)' = There(a)
    BY WindowFacts, ListFacts DEF Appended, Structure, There
  <2> QED BY <2>1 DEF Appended, Apart, There
<1>2. ~Quitting' => \A b \in Addresses : There(b) => \A i \in 1..Len(win'[b].queue) :
               win'[b].queue[i].what = "QUIT" =>
                   \E j \in 1..Len(win[b].queue) : win[b].queue[j].what = "QUIT"
  <2> SUFFICES ASSUME ~Quitting', NEW b \in Addresses, There(b), NEW i \in 1..Len(win'[b].queue),
                      win'[b].queue[i].what = "QUIT"
               PROVE  \E j \in 1..Len(win[b].queue) : win[b].queue[j].what = "QUIT"
    OBVIOUS
  <2>1. CASE b = a
    <3>1. WinType
      BY ListFacts DEF Structure
    <3>2. /\ Len(win[a].queue) \in Nat /\ Len(win'[a].queue) = Len(win[a].queue) + 1
          /\ win'[a].queue[Len(win[a].queue) + 1] = m
          /\ \A j \in 1..Len(win[a].queue) : win'[a].queue[j] = win[a].queue[j]
      BY <3>1, WindowAppended
    <3>3. i # Len(win[a].queue) + 1
      BY <2>1, <3>2
    <3>4. i \in 1..Len(win[a].queue)
      BY <2>1, <3>2, <3>3
    <3> QED BY <2>1, <3>2, <3>4
  <2>2. CASE b # a
    BY <2>2 DEF Appended, Apart
  <2> QED BY <2>1, <2>2
<1> QED BY <1>1, <1>2, WindowsStay

LEMMA ShortenKeeps ==
    ASSUME Structure, UNCHANGED <<iWinList, closing>>, Quitting' = Quitting,
           NEW a \in Addresses, Shortened(a)
    PROVE  OnePerContact' /\ Listed' /\ ToldToQuit'
<1>1. \A b \in Addresses : There(b)' = There(b) /\ (There(b) => win'[b].who = win[b].who)
  <2> TAKE b \in Addresses
  <2>1. There(a) \in BOOLEAN /\ There(a)' = There(a)
    BY WindowFacts, ListFacts DEF Shortened, Structure, There
  <2> QED BY <2>1 DEF Shortened, Apart, There
<1>2. ~Quitting' => \A b \in Addresses : There(b) => \A i \in 1..Len(win'[b].queue) :
               win'[b].queue[i].what = "QUIT" =>
                   \E j \in 1..Len(win[b].queue) : win[b].queue[j].what = "QUIT"
  <2> SUFFICES ASSUME ~Quitting', NEW b \in Addresses, There(b), NEW i \in 1..Len(win'[b].queue),
                      win'[b].queue[i].what = "QUIT"
               PROVE  \E j \in 1..Len(win[b].queue) : win[b].queue[j].what = "QUIT"
    OBVIOUS
  <2>1. CASE b = a
    <3>1. WinType
      BY ListFacts DEF Structure
    <3>2. /\ Len(win[a].queue) \in Nat /\ Len(win'[a].queue) = Len(win[a].queue) - 1
          /\ \A j \in 1..Len(win'[a].queue) : win'[a].queue[j] = win[a].queue[j + 1]
      BY <3>1, WindowShortened
    <3>3. i + 1 \in 1..Len(win[a].queue)
      BY <2>1, <3>2
    <3> QED BY <2>1, <3>2, <3>3
  <2>2. CASE b # a
    BY <2>2 DEF Shortened, Apart
  <2> QED BY <2>1, <2>2
<1> QED BY <1>1, <1>2, WindowsStay

-------------------------------------------------------------------------------
\* What the rest of the types is made of.
LEMMA TypesKept ==
    ASSUME Types, WinType', queue' \in Seq(NetworkMessages), iWinList' \in Seq(Addresses),
           closing' \in (Addresses \ Range(iWinList')) \cup {None},
           session' \in BOOLEAN, undefined' \in BOOLEAN, unasked' \in BOOLEAN, calm' \in BOOLEAN,
           quit' \in [at : Places, i : Nat, chat : Addresses \cup {None}],
           got' \in [Contacts -> Nat], typed' \in [Contacts -> Nat],
           shown' \in [Contacts -> Seq(Nat)], sent' \in [Contacts -> Seq(Nat)],
           asked' \subseteq Addresses, again' \subseteq Addresses, acts' \in 0..MaxActs
    PROVE  Types'
<1>1. quit'.at \in Places /\ quit'.i \in Nat /\ quit'.chat \in Addresses \cup {None}
  OBVIOUS
<1> QED BY <1>1 DEF Types, TypeOK, WinType, Windows, Places

LEMMA TypesNow ==
    ASSUME Types
    PROVE  /\ WinType /\ queue \in Seq(NetworkMessages) /\ iWinList \in Seq(Addresses)
           /\ closing \in (Addresses \ Range(iWinList)) \cup {None}
           /\ session \in BOOLEAN /\ undefined \in BOOLEAN /\ unasked \in BOOLEAN /\ calm \in BOOLEAN
           /\ quit \in [at : Places, i : Nat, chat : Addresses \cup {None}]
           /\ got \in [Contacts -> Nat] /\ typed \in [Contacts -> Nat]
           /\ shown \in [Contacts -> Seq(Nat)] /\ sent \in [Contacts -> Seq(Nat)]
           /\ asked \subseteq Addresses /\ again \subseteq Addresses /\ acts \in 0..MaxActs
           /\ MaxActs \in Nat
BY ChatsAssumption DEF Types, TypeOK, WinType, Windows

LEMMA InitStructure == Init => Structure
<1> SUFFICES ASSUME Init PROVE Structure
  OBVIOUS
<1>1. Types
  <2>1. WinType /\ closing = None /\ quit.at = "no" /\ quit.i = 0 /\ quit.chat = None
    BY DEF Init, WinType
  <2>2. queue \in Seq(NetworkMessages) /\ iWinList \in Seq(Addresses)
    BY DEF Init
  <2>3. quit \in [at : Places, i : Nat, chat : Addresses \cup {None}]
    BY DEF Init, Places
  <2>4. {got, typed} \subseteq [Contacts -> Nat] /\ {shown, sent} \subseteq [Contacts -> Seq(Nat)]
    BY DEF Init
  <2>5. acts \in 0..MaxActs
    BY ChatsAssumption DEF Init
  <2> QED BY <2>1, <2>2, <2>3, <2>4, <2>5 DEF Init, Types, TypeOK, WinType, Windows
<1>2. \A a \in Addresses : ~There(a)
  BY DEF Init, There, Gone
<1> QED BY <1>1, <1>2 DEF Init, Structure, OnePerContact, Listed, ToldToQuit, Quitting, IsInjective, Range

(***************************************************************************)
(* A message of Network's that looks for a window: GOT, whose text it      *)
(* hands to the window, and OPEN, which hands it nothing.                  *)
(***************************************************************************)
LEMMA StructureDelivers ==
    ASSUME Structure, NEW what, Handles(what), NEW c \in Contacts, NEW s \in Seq(WindowMessages),
           s = <<>> \/ \E m \in WindowMessages : m.what = "SHOW" /\ s = <<m>>,
           GetMesgWinForUser(c, s), UNCHANGED <<closing, session, quit, histVars, acts, unasked, calm>>
    PROVE  Structure'
<1>1. queue' \in Seq(NetworkMessages) /\ closing = None
  BY QueueTaken DEF Handles, Idle, Structure
<1>2. Quitting' = Quitting
  BY DEF Quitting
<1>3. CASE undefined' /\ Quitting /\ UNCHANGED <<iWinList, win, asked, again>>
  <2>1. WinType' /\ undefined' \in BOOLEAN
    BY <1>3, TypesNow DEF Structure, WinType, GetMesgWinForUser
  <2>2. Types'
    BY <1>1, <1>3, <2>1, TypesNow, TypesKept DEF histVars, Structure
  <2> QED BY <1>2, <1>3, <2>2 DEF Structure, OnePerContact, Listed, ToldToQuit, There
<1>4. CASE /\ UNCHANGED <<undefined, iWinList, asked, again>>
           /\ \E a \in Addresses :
                    /\ There(a) /\ win[a].who = c
                    /\ win' = [win EXCEPT ![a].queue = @ \o s]
  <2>1. PICK a \in Addresses : There(a) /\ win' = [win EXCEPT ![a].queue = @ \o s]
    BY <1>4
  <2>2. WinType /\ win[a].queue \in Seq(WindowMessages)
    BY <2>1, TypesNow, WindowFacts DEF Structure
  <2>3. CASE s = <<>>
    <3>1. win[a].queue \o s = win[a].queue
      BY <2>2, <2>3, ConcatEmptySeq
    <3>2. win' = win
      <4>1. win[a] \in Windows
        BY <2>1, <2>2, WindowFacts
      <4>2. [win[a] EXCEPT !.queue = win[a].queue] = win[a]
        BY <4>1 DEF Windows
      <4>3. win' = [win EXCEPT ![a] = [win[a] EXCEPT !.queue = win[a].queue]]
        BY <2>1, <3>1
      <4> QED BY <2>2, <4>2, <4>3 DEF WinType
    <3>3. WinType'
      BY <2>2, <3>2 DEF WinType
    <3>4. Types'
      BY <1>1, <1>4, <3>3, TypesNow, TypesKept DEF histVars, Structure
    <3> QED BY <1>2, <1>4, <3>2, <3>4 DEF Structure, OnePerContact, Listed, ToldToQuit, There
  <2>4. CASE s # <<>>
    <3>1. PICK m \in WindowMessages : m.what = "SHOW" /\ s = <<m>>
      BY <2>4
    <3>2. win[a].queue \o s = Append(win[a].queue, m)
      BY <2>2, <3>1, AppendIsConcat
    <3>3. win' = [win EXCEPT ![a].queue = Append(@, m)]
      BY <2>1, <3>2
    <3>4. WinType' /\ Appended(a, m)
      BY <2>1, <2>2, <3>3, AppendWindow
    <3>5. Types'
      BY <1>1, <1>4, <3>4, TypesNow, TypesKept DEF histVars, Structure
    <3>6. OnePerContact' /\ Listed' /\ ToldToQuit'
      BY <1>2, <1>4, <3>1, <3>4, AppendKeeps
    <3> QED BY <1>2, <1>4, <3>5, <3>6 DEF Structure
  <2> QED BY <2>3, <2>4
<1>5. CASE /\ ~Quitting /\ UNCHANGED <<undefined, again>>
           /\ \A b \in Addresses : There(b) => win[b].who # c
           /\ \E a \in Addresses :
                    /\ ~There(a) /\ a \notin Range(iWinList)
                    /\ win' = [win EXCEPT ![a] = Opened(c, s)]
                    /\ iWinList' = Append(iWinList, a) /\ asked' = asked \ {a}
  <2>1. PICK a \in Addresses :
                    /\ ~There(a) /\ a \notin Range(iWinList)
                    /\ win' = [win EXCEPT ![a] = Opened(c, s)]
                    /\ iWinList' = Append(iWinList, a) /\ asked' = asked \ {a}
    BY <1>5
  <2>2. WinType' /\ Apart(a) /\ There(a)' /\ win'[a].who = c /\ win'[a].queue = s
    BY <2>1, TypesNow, OpenWindow DEF Structure
  <2>3. /\ iWinList' \in Seq(Addresses) /\ IsInjective(iWinList')
        /\ ToSet(iWinList') = ToSet(iWinList) \cup {a}
    BY <2>1, TypesNow, ListFacts, AppendElements DEF Structure
  <2>4. Range(iWinList') = Range(iWinList) \cup {a}
    BY <2>3 DEF Range, ToSet
  <2>5. Types'
    BY <1>1, <1>5, <2>1, <2>2, <2>3, TypesNow, TypesKept DEF histVars, Structure
  <2>6. OnePerContact'
    BY <1>5, <2>2 DEF OnePerContact, Structure, Apart, There
  <2>7. Listed'
    <3>1. {b \in Addresses : There(b)}' = {b \in Addresses : There(b)} \cup {a}
      BY <2>2 DEF Apart, There
    <3>2. a # None
      BY ChatsAssumption
    <3> QED BY <1>1, <1>2, <1>5, <2>4, <3>1, <3>2 DEF Listed, Structure
  <2>8. ToldToQuit'
    <3>1. \A i \in 1..Len(s) : s[i].what # "QUIT"
      OBVIOUS
    <3>2. \A b \in Addresses \ {a} : There(b)' = There(b)
      BY <2>2 DEF Apart, There
    <3> QED BY <1>5, <2>2, <3>1, <3>2 DEF ToldToQuit, Structure, Apart
  <2> QED BY <1>2, <1>5, <2>3, <2>5, <2>6, <2>7, <2>8 DEF Structure
<1> QED BY <1>1, <1>3, <1>4, <1>5, Delivery

LEMMA SameWindows ==
    ASSUME Structure, UNCHANGED <<win, iWinList, closing>>, Quitting => Quitting'
    PROVE  WinType' /\ OnePerContact' /\ Listed' /\ ToldToQuit'
<1>1. WinType'
  BY TypesNow DEF Structure, WinType
<1> QED BY <1>1, WindowsStay DEF There

LEMMA StructureNetwork == ASSUME Structure, NetworkStep PROVE Structure'
<1> USE DEF Structure
<1>1. CASE OpenMessage
  <2>1. Message \in NetworkMessages /\ Message.what = "OPEN"
    BY <1>1, QueueTaken DEF OpenMessage, Handles
  <2>2. Message.who \in Contacts /\ <<>> \in Seq(WindowMessages)
    BY <2>1, NetworkMessage
  <2> QED BY <1>1, <2>2, StructureDelivers DEF OpenMessage
<1>2. CASE GotMsg
  <2> DEFINE m == [what |-> "SHOW", msg |-> Message.msg]
  <2>1. Message \in NetworkMessages /\ Message.what = "GOT"
    BY <1>2, QueueTaken DEF GotMsg, Handles
  <2>2. Message.who \in Contacts /\ Message.msg \in Nat
    BY <2>1, NetworkMessage
  <2>3. m \in WindowMessages /\ m.what = "SHOW"
    BY <2>2 DEF WindowMessages
  <2> HIDE DEF m
  <2>4. <<m>> \in Seq(WindowMessages) /\ \E n \in WindowMessages : n.what = "SHOW" /\ <<m>> = <<n>>
    BY <2>3
  <2>5. /\ Handles("GOT") /\ GetMesgWinForUser(Message.who, <<m>>)
        /\ UNCHANGED <<closing, session, quit, histVars, acts, unasked, calm>>
    BY <1>2 DEF GotMsg, m
  <2> QED BY <2>2, <2>4, <2>5, StructureDelivers
<1>3. CASE SendMsg
  <2>1. queue' \in Seq(NetworkMessages) /\ Message \in NetworkMessages /\ Message.what = "SEND"
    BY <1>3, QueueTaken DEF SendMsg, Handles
  <2>2. Message.who \in Contacts /\ Message.msg \in Nat
    BY <2>1, NetworkMessage
  <2>3. sent' \in [Contacts -> Seq(Nat)]
    <3>1. CASE session
      <4>1. Append(sent[Message.who], Message.msg) \in Seq(Nat)
        BY <2>2, TypesNow
      <4>2. sent' = [sent EXCEPT ![Message.who] = Append(sent[Message.who], Message.msg)]
        BY <1>3, <3>1 DEF SendMsg
      <4> QED BY <4>1, <4>2, TypesNow
    <3>2. CASE ~session
      BY <1>3, <3>2, TypesNow DEF SendMsg
    <3> QED BY <3>1, <3>2
  <2>4. UNCHANGED <<iWinList, closing, win, session, quit, undefined, got, shown, typed, asked, again, acts, unasked, calm>>
    BY <1>3 DEF SendMsg, userVars
  <2>5. Quitting' = Quitting
    BY <2>4 DEF Quitting
  <2>6. WinType' /\ OnePerContact' /\ Listed' /\ ToldToQuit'
    BY <2>4, <2>5, SameWindows
  <2>7. Types'
    BY <2>1, <2>3, <2>4, <2>6, TypesNow, TypesKept
  <2> QED BY <2>4, <2>5, <2>6, <2>7
<1>4. CASE CloseMessage
  <2>1. queue' \in Seq(NetworkMessages) /\ Message \in NetworkMessages /\ Message.what = "CLOSE" /\ closing = None
    BY <1>4, QueueTaken DEF CloseMessage, Handles, Idle
  <2>2. PICK a \in Addresses : a = Message.win /\ a # None
    BY <2>1, NetworkMessage, ChatsAssumption
  <2>3. UNCHANGED <<session, quit, undefined, got, shown, typed, sent, asked, again, acts, calm>>
    BY <1>4 DEF CloseMessage, userVars, histVars
  <2>4. Quitting' = Quitting
    BY <2>3 DEF Quitting
  <2>5. iWinList' = Without(iWinList, a)
    BY <1>4, <2>2 DEF CloseMessage
  <2>6. /\ iWinList' \in Seq(Addresses) /\ IsInjective(iWinList')
        /\ Range(iWinList') = Range(iWinList) \ {a}
    <3>1. CASE Contains(iWinList, a)
      <4>1. iWinList' = RemoveFirst(iWinList, a)
        BY <2>5, <3>1 DEF Without
      <4>2. /\ iWinList' \in Seq(Addresses) /\ IsInjective(iWinList')
            /\ ToSet(iWinList') = ToSet(iWinList) \ {a}
        BY <4>1, TypesNow, RemoveFirstElements
      <4> QED BY <4>2 DEF Range, ToSet
    <3>2. CASE ~Contains(iWinList, a)
      <4>1. iWinList' = iWinList
        BY <2>5, <3>2 DEF Without
      <4>2. a \notin Range(iWinList)
        BY <3>2, ListFacts DEF Contains
      <4> QED BY <4>1, <4>2, TypesNow
    <3> QED BY <3>1, <3>2
  <2>7. CASE There(a)
    <3> DEFINE m == [what |-> "QUIT"]
    <3>1. m \in WindowMessages /\ m.what = "QUIT"
      BY DEF WindowMessages
    <3>2. win' = [win EXCEPT ![a].queue = Append(@, m)] /\ closing' = a /\ unasked' \in BOOLEAN
      BY <1>4, <2>2, <2>7, TypesNow DEF CloseMessage, Quits
    <3> HIDE DEF m
    <3>3. WinType' /\ Appended(a, m)
      BY <2>2, <2>7, <3>1, <3>2, TypesNow, AppendWindow
    <3>4. Types'
      BY <2>1, <2>2, <2>3, <2>6, <3>2, <3>3, TypesNow, TypesKept
    <3>5. \A b \in Addresses : There(b)' = There(b) /\ (There(b) => win'[b].who = win[b].who)
      <4> TAKE b \in Addresses
      <4>1. There(a)' = There(a)
        BY <2>2, <3>3, TypesNow, WindowFacts DEF Appended, There
      <4>2. CASE b = a
        BY <3>3, <4>1, <4>2 DEF Appended, There
      <4>3. CASE b # a
        BY <3>3, <4>3 DEF Appended, Apart, There
      <4> QED BY <4>2, <4>3
    <3>6. OnePerContact'
      BY <3>5 DEF OnePerContact
    <3>7. Listed'
      <4>1. {b \in Addresses : There(b)}' = {b \in Addresses : There(b)}
        BY <3>5
      <4>2. closing' = a
        BY <3>2
      <4>3. ~Quitting => {b \in Addresses : There(b)} = Range(iWinList)
        BY <2>1, ChatsAssumption DEF Listed
      <4>4. ~Quitting' => {b \in Addresses : There(b)} \ {a} = Range(iWinList')
        BY <2>4, <2>6, <4>3
      <4> QED BY <4>1, <4>2, <4>4 DEF Listed
    <3>8. ToldToQuit'
      <4> SUFFICES ASSUME ~Quitting', NEW b \in Addresses, There(b)', NEW i \in 1..Len(win'[b].queue),
                          win'[b].queue[i].what = "QUIT"
                   PROVE  b = closing'
        BY DEF ToldToQuit
      <4>1. CASE b = a
        BY <3>2, <4>1
      <4>2. CASE b # a
        BY <2>1, <2>2, <2>4, <3>3, <3>5, <4>2, ChatsAssumption DEF ToldToQuit, Appended, Apart
      <4> QED BY <4>1, <4>2
    <3> QED BY <2>3, <2>4, <2>6, <3>4, <3>6, <3>7, <3>8
  <2>8. CASE ~There(a)
    <3>1. UNCHANGED <<win, unasked, closing>>
      BY <1>4, <2>2, <2>8 DEF CloseMessage
    <3>2. WinType'
      BY <3>1, TypesNow DEF WinType
    <3>3. Types'
      BY <2>1, <2>2, <2>3, <2>6, <3>1, <3>2, TypesNow, TypesKept
    <3>4. ~Quitting => Range(iWinList') = Range(iWinList)
      BY <2>6, <2>8 DEF Listed
    <3>5. Listed'
      BY <2>4, <3>1, <3>4 DEF Listed, There
    <3> QED BY <2>3, <2>4, <2>6, <3>1, <3>3, <3>5 DEF OnePerContact, ToldToQuit, There
  <2> QED BY <2>7, <2>8
<1>5. CASE Closed
  <2>1. UNCHANGED <<queue, iWinList, win, session, quit, undefined, got, shown, typed, sent, asked, again, acts, unasked, calm>>
        /\ closing # None /\ ~There(closing) /\ closing' = None
    BY <1>5 DEF Closed, userVars, histVars
  <2>2. Quitting' = Quitting /\ WinType'
    BY <2>1, TypesNow DEF Quitting, WinType
  <2>3. Types'
    BY <2>1, <2>2, TypesNow, TypesKept
  <2>4. Listed'
    BY <2>1, <2>2, ChatsAssumption DEF Listed, There
  <2>5. ToldToQuit'
    BY <2>1, <2>2 DEF ToldToQuit, There
  <2> QED BY <2>1, <2>2, <2>3, <2>4, <2>5 DEF OnePerContact, There
<1> QED BY <1>1, <1>2, <1>3, <1>4, <1>5 DEF NetworkStep

LEMMA PostKeeps ==
    ASSUME Types, NEW m \in NetworkMessages, Post(m)
    PROVE  /\ queue' \in Seq(NetworkMessages) /\ calm' \in BOOLEAN
           /\ queue' = queue \/ queue' = Append(queue, m)
BY PostedTypes DEF Post

LEMMA StructureWindow == ASSUME Structure, NEW a \in Addresses, WindowStep(a) PROVE Structure'
<1> USE DEF Structure
<1>0. WinType
  BY TypesNow
<1>1. CASE ShowMessage(a)
  <2>1. /\ Turn(a, "SHOW") /\ Handled(a)
        /\ UNCHANGED <<queue, iWinList, closing, session, quit, got, typed, sent, acts, asked, again, unasked, calm>>
        /\ IF quit.at = "done" THEN undefined' = TRUE /\ UNCHANGED shown
           ELSE /\ shown' = [shown EXCEPT ![win[a].who] = Append(@, Head(win[a].queue).msg)]
                /\ UNCHANGED undefined
    BY <1>1 DEF ShowMessage, looperVars, userVars
  <2>2. WinType' /\ Shortened(a) /\ Head(win[a].queue) \in WindowMessages
    BY <1>0, <2>1, ShortenWindow
  <2>3. Quitting' = Quitting
    BY <2>1 DEF Quitting
  <2>4. OnePerContact' /\ Listed' /\ ToldToQuit'
    BY <2>1, <2>2, <2>3, ShortenKeeps
  <2>5. win[a].who \in Contacts /\ Head(win[a].queue).msg \in Nat
    BY <1>0, <2>1, <2>2, WindowFacts, WindowMessage DEF Turn
  <2>6. undefined' \in BOOLEAN /\ shown' \in [Contacts -> Seq(Nat)] /\ (undefined' => Quitting)
    <3>1. CASE quit.at = "done"
      BY <2>1, <3>1, TypesNow DEF Quitting
    <3>2. CASE quit.at # "done"
      <4>1. Append(shown[win[a].who], Head(win[a].queue).msg) \in Seq(Nat)
        BY <2>5, TypesNow
      <4>2. shown' = [shown EXCEPT ![win[a].who] = Append(shown[win[a].who], Head(win[a].queue).msg)]
        BY <2>1, <3>2
      <4> QED BY <2>1, <3>2, <4>1, <4>2, TypesNow
    <3> QED BY <3>1, <3>2
  <2>7. Types'
    BY <2>1, <2>2, <2>6, TypesNow, TypesKept
  <2> QED BY <2>1, <2>3, <2>4, <2>6, <2>7
<1>2. CASE BeggSend(a)
  <2> DEFINE m == [what |-> "SEND", who |-> win[a].who, msg |-> Head(win[a].queue).msg]
  <2>1. /\ Turn(a, "SAY") /\ Handled(a)
        /\ UNCHANGED <<iWinList, closing, session, quit, got, shown, typed, sent, acts, asked, again, unasked>>
        /\ IF quit.at = "done" THEN undefined' = TRUE /\ UNCHANGED <<queue, calm>>
           ELSE Post(m) /\ UNCHANGED undefined
    BY <1>2 DEF BeggSend, histVars, userVars
  <2>2. WinType' /\ Shortened(a) /\ Head(win[a].queue) \in WindowMessages
    BY <1>0, <2>1, ShortenWindow
  <2>3. Quitting' = Quitting
    BY <2>1 DEF Quitting
  <2>4. OnePerContact' /\ Listed' /\ ToldToQuit'
    BY <2>1, <2>2, <2>3, ShortenKeeps
  <2>5. win[a].who \in Contacts /\ Head(win[a].queue).msg \in Nat
    BY <1>0, <2>1, <2>2, WindowFacts, WindowMessage DEF Turn
  <2>6. m \in NetworkMessages
    BY <2>5 DEF NetworkMessages
  <2> HIDE DEF m
  <2>7. /\ queue' \in Seq(NetworkMessages) /\ calm' \in BOOLEAN
        /\ undefined' \in BOOLEAN /\ (undefined' => Quitting)
    <3>1. CASE quit.at = "done"
      BY <2>1, <3>1, TypesNow DEF Quitting
    <3>2. CASE quit.at # "done"
      BY <2>1, <2>6, <3>2, PostKeeps, TypesNow
    <3> QED BY <3>1, <3>2
  <2>8. Types'
    BY <2>1, <2>2, <2>7, TypesNow, TypesKept
  <2> QED BY <2>1, <2>3, <2>4, <2>7, <2>8
<1>3. CASE QuitRequested(a)
  <2>1. /\ Turn(a, "BOX") /\ Handled(a) /\ Post([what |-> "CLOSE", win |-> a])
        /\ UNCHANGED <<iWinList, closing, session, quit, undefined, got, shown, typed, sent, acts, asked, again, unasked>>
    BY <1>3 DEF QuitRequested, histVars, userVars
  <2>2. WinType' /\ Shortened(a)
    BY <1>0, <2>1, ShortenWindow
  <2>3. Quitting' = Quitting
    BY <2>1 DEF Quitting
  <2>4. OnePerContact' /\ Listed' /\ ToldToQuit'
    BY <2>1, <2>2, <2>3, ShortenKeeps
  <2>5. [what |-> "CLOSE", win |-> a] \in NetworkMessages
    BY DEF NetworkMessages
  <2>6. queue' \in Seq(NetworkMessages) /\ calm' \in BOOLEAN
    BY <2>1, <2>5, PostKeeps
  <2>7. Types'
    BY <2>1, <2>2, <2>6, TypesNow, TypesKept
  <2> QED BY <2>1, <2>3, <2>4, <2>7
<1>4. CASE Quit(a)
  <2>1. /\ Turn(a, "QUIT") /\ win' = [win EXCEPT ![a] = Gone]
        /\ UNCHANGED <<queue, iWinList, closing, session, quit, undefined, got, shown, typed, sent, acts, asked, again, unasked, calm>>
    BY <1>4 DEF Quit, looperVars, histVars, userVars
  <2>2. WinType' /\ Apart(a) /\ ~There(a)'
    BY <1>0, <2>1, CloseWindow
  <2>3. Quitting' = Quitting
    BY <2>1 DEF Quitting
  <2>4. ~Quitting => a = closing
    <3>1. There(a) /\ win[a].queue # <<>> /\ win[a].queue \in Seq(WindowMessages) /\ Head(win[a].queue).what = "QUIT"
      BY <1>0, <2>1, WindowFacts DEF Turn
    <3>2. 1 \in 1..Len(win[a].queue) /\ win[a].queue[1].what = "QUIT"
      BY <3>1
    <3> QED BY <3>1, <3>2 DEF ToldToQuit
  <2>5. \A b \in Addresses : There(b)' => There(b) /\ win'[b] = win[b]
    BY <2>2 DEF Apart, There
  <2>6. OnePerContact'
    BY <2>5 DEF OnePerContact
  <2>7. Listed'
    <3>1. {b \in Addresses : There(b)}' = {b \in Addresses : There(b)} \ {a}
      BY <2>2 DEF Apart, There
    <3> QED BY <2>1, <2>3, <2>4, <3>1 DEF Listed
  <2>8. ToldToQuit'
    BY <2>1, <2>3, <2>5 DEF ToldToQuit
  <2>9. Types'
    BY <2>1, <2>2, TypesNow, TypesKept
  <2> QED BY <2>1, <2>3, <2>6, <2>7, <2>8, <2>9
<1> QED BY <1>1, <1>2, <1>3, <1>4 DEF WindowStep

LEMMA StructureQuit == ASSUME Structure, QuitBegins \/ QuitStep PROVE Structure'
<1> USE DEF Structure
<1>1. CASE QuitBegins
  <2>1. UNCHANGED <<queue, iWinList, closing, win, undefined, got, shown, typed, sent, acts, asked, again, unasked>>
        /\ session' = FALSE /\ calm' \in BOOLEAN /\ quit' = [quit EXCEPT !.at = "count"]
    BY <1>1 DEF QuitBegins, looperVars, histVars, userVars
  <2>2. quit' \in [at : Places, i : Nat, chat : Addresses \cup {None}] /\ Quitting'
    BY <2>1, TypesNow DEF Places, Quitting
  <2>3. WinType' /\ OnePerContact' /\ Listed' /\ ToldToQuit'
    BY <2>1, <2>2, SameWindows
  <2>4. Types'
    BY <2>1, <2>2, <2>3, TypesNow, TypesKept
  <2> QED BY <2>1, <2>2, <2>3, <2>4
<1>2. CASE QuitLocks /\ quit.i < Len(iWinList) /\ There(iWinList[quit.i + 1])
  <2> DEFINE m == [what |-> "QUIT"]
  <2>1. PICK a \in Addresses : a = iWinList[quit.i + 1]
    BY <1>2, TypesNow, ListFacts
  <2>2. /\ win' = [win EXCEPT ![a].queue = Append(@, m)] /\ There(a) /\ quit.at = "item"
        /\ quit' = [quit EXCEPT !.at = "wait", !.chat = a]
        /\ UNCHANGED <<queue, iWinList, closing, session, undefined, got, shown, typed, sent, acts, asked, again, unasked, calm>>
    BY <1>2, <2>1 DEF QuitLocks, At, looperVars, histVars, userVars
  <2>3. m \in WindowMessages
    BY DEF WindowMessages
  <2> HIDE DEF m
  <2>4. WinType' /\ Appended(a, m)
    BY <2>2, <2>3, TypesNow, AppendWindow
  <2>5. quit' \in [at : Places, i : Nat, chat : Addresses \cup {None}] /\ Quitting' /\ Quitting
    BY <2>2, TypesNow DEF Places, Quitting
  <2>6. OnePerContact' /\ Listed' /\ ToldToQuit'
    BY <2>2, <2>3, <2>4, <2>5, AppendKeeps
  <2>7. Types'
    BY <2>2, <2>4, <2>5, TypesNow, TypesKept
  <2> QED BY <2>2, <2>5, <2>6, <2>7
<1>3. CASE \/ QuitCounts \/ QuitWaits
           \/ QuitLocks /\ ~(quit.i < Len(iWinList) /\ There(iWinList[quit.i + 1]))
  <2>1. /\ UNCHANGED <<queue, iWinList, closing, win, session, undefined, got, shown, typed, sent, acts, asked, again, unasked, calm>>
        /\ quit.at # "no"
        /\ \/ quit' = Counts(quit.i + 1) \/ quit' = [quit EXCEPT !.at = "item"]
           \/ quit' = [quit EXCEPT !.at = "empty"]
    BY <1>3 DEF QuitCounts, QuitWaits, QuitLocks, At, looperVars, histVars, userVars
  <2>2. quit' \in [at : Places, i : Nat, chat : Addresses \cup {None}] /\ Quitting /\ Quitting'
    <3>1. Quitting /\ quit.i + 1 \in Nat /\ None \in Addresses \cup {None}
      BY <2>1, TypesNow DEF Quitting
    <3>2. Counts(quit.i + 1) \in [at : Places, i : Nat, chat : Addresses \cup {None}]
          /\ Counts(quit.i + 1).at # "no"
      BY <3>1 DEF Counts, Places
    <3>3. CASE quit' = Counts(quit.i + 1)
      BY <3>1, <3>2, <3>3 DEF Quitting
    <3>4. CASE quit' = [quit EXCEPT !.at = "item"]
      BY <3>1, <3>4, TypesNow DEF Places, Quitting
    <3>5. CASE quit' = [quit EXCEPT !.at = "empty"]
      BY <3>1, <3>5, TypesNow DEF Places, Quitting
    <3> QED BY <2>1, <3>3, <3>4, <3>5
  <2>3. WinType' /\ OnePerContact' /\ Listed' /\ ToldToQuit'
    BY <2>1, <2>2, SameWindows
  <2>4. Types'
    BY <2>1, <2>2, <2>3, TypesNow, TypesKept
  <2> QED BY <2>1, <2>2, <2>3, <2>4
<1>4. CASE QuitEmpties
  <2>1. /\ UNCHANGED <<queue, closing, win, session, undefined, got, shown, typed, sent, acts, asked, again, unasked, calm>>
        /\ quit.at # "no" /\ iWinList' = <<>> /\ quit' = [quit EXCEPT !.at = "lock"]
    BY <1>4 DEF QuitEmpties, At, histVars, userVars
  <2>2. quit' \in [at : Places, i : Nat, chat : Addresses \cup {None}] /\ Quitting /\ Quitting'
    BY <2>1, TypesNow DEF Places, Quitting
  <2>3. WinType' /\ iWinList' \in Seq(Addresses) /\ IsInjective(iWinList') /\ Range(iWinList') = {}
    BY <2>1, TypesNow DEF WinType, IsInjective, Range
  <2>4. Types'
    BY <2>1, <2>2, <2>3, TypesNow, TypesKept
  <2> QED BY <2>1, <2>2, <2>3, <2>4 DEF OnePerContact, Listed, ToldToQuit, There
<1>5. CASE QuitLoops
  <2> DEFINE m == [what |-> "QUIT"]
  <2>1. /\ UNCHANGED <<iWinList, closing, win, session, undefined, got, shown, typed, sent, acts, asked, again, unasked, calm>>
        /\ quit.at # "no" /\ queue' = Append(queue, m) /\ quit' = [quit EXCEPT !.at = "ending"]
    BY <1>5 DEF QuitLoops, At, histVars, userVars
  <2>2. quit' \in [at : Places, i : Nat, chat : Addresses \cup {None}] /\ Quitting /\ Quitting'
    BY <2>1, TypesNow DEF Places, Quitting
  <2>3. m \in NetworkMessages
    BY DEF NetworkMessages
  <2> HIDE DEF m
  <2>4. queue' \in Seq(NetworkMessages)
    BY <2>1, <2>3, QueuePosted
  <2>5. WinType' /\ OnePerContact' /\ Listed' /\ ToldToQuit'
    BY <2>1, <2>2, SameWindows
  <2>6. Types'
    BY <2>1, <2>2, <2>4, <2>5, TypesNow, TypesKept
  <2> QED BY <2>1, <2>2, <2>5, <2>6
<1>6. CASE QuitEnds
  <2>1. /\ UNCHANGED <<iWinList, closing, win, session, undefined, got, shown, typed, sent, acts, asked, again, unasked, calm>>
        /\ quit.at # "no" /\ Handles("QUIT") /\ quit' = [quit EXCEPT !.at = "done"]
    BY <1>6 DEF QuitEnds, At, histVars, userVars
  <2>2. quit' \in [at : Places, i : Nat, chat : Addresses \cup {None}] /\ Quitting /\ Quitting'
    BY <2>1, TypesNow DEF Places, Quitting
  <2>3. queue' \in Seq(NetworkMessages)
    BY <2>1, QueueTaken DEF Handles
  <2>4. WinType' /\ OnePerContact' /\ Listed' /\ ToldToQuit'
    BY <2>1, <2>2, SameWindows
  <2>5. Types'
    BY <2>1, <2>2, <2>3, <2>4, TypesNow, TypesKept
  <2> QED BY <2>1, <2>2, <2>4, <2>5
<1> QED BY <1>1, <1>2, <1>3, <1>4, <1>5, <1>6 DEF QuitStep

LEMMA StructureEnvironment == ASSUME Structure, Environment PROVE Structure'
<1> USE DEF Structure
<1>0. Acts => acts' \in 0..MaxActs
  BY TypesNow DEF Acts
<1>1. ASSUME NEW c \in Contacts, UserOpens(c) PROVE Structure'
  <2>1. /\ UNCHANGED <<iWinList, closing, win, session, quit, undefined, got, shown, typed, sent, asked, again, unasked>>
        /\ Acts /\ Post([what |-> "OPEN", who |-> c])
    BY <1>1 DEF UserOpens, histVars
  <2>2. [what |-> "OPEN", who |-> c] \in NetworkMessages
    BY DEF NetworkMessages
  <2>3. queue' \in Seq(NetworkMessages) /\ calm' \in BOOLEAN
    BY <2>1, <2>2, PostKeeps
  <2>4. WinType' /\ OnePerContact' /\ Listed' /\ ToldToQuit' /\ Quitting' = Quitting
    BY <2>1, SameWindows DEF Quitting
  <2>5. Types'
    BY <1>0, <2>1, <2>3, <2>4, TypesNow, TypesKept
  <2> QED BY <2>1, <2>4, <2>5
<1>2. ASSUME NEW c \in Contacts, Receive(c) PROVE Structure'
  <2>1. /\ UNCHANGED <<iWinList, closing, win, session, quit, undefined, shown, typed, sent, asked, again, unasked>>
        /\ Acts /\ Post([what |-> "GOT", who |-> c, msg |-> got'[c]]) /\ got' = [got EXCEPT ![c] = @ + 1]
    BY <1>2 DEF Receive
  <2>2. got' \in [Contacts -> Nat] /\ got'[c] \in Nat
    BY <2>1, TypesNow
  <2>3. [what |-> "GOT", who |-> c, msg |-> got'[c]] \in NetworkMessages
    BY <2>2 DEF NetworkMessages
  <2>4. queue' \in Seq(NetworkMessages) /\ calm' \in BOOLEAN
    BY <2>1, <2>3, PostKeeps
  <2>5. WinType' /\ OnePerContact' /\ Listed' /\ ToldToQuit' /\ Quitting' = Quitting
    BY <2>1, SameWindows DEF Quitting
  <2>6. Types'
    BY <1>0, <2>1, <2>2, <2>4, <2>5, TypesNow, TypesKept
  <2> QED BY <2>1, <2>5, <2>6
<1>3. ASSUME NEW a \in Addresses, UserTypes(a) PROVE Structure'
  <2> DEFINE m == [what |-> "SAY", msg |-> typed'[win[a].who]]
  <2>1. /\ UNCHANGED <<queue, iWinList, closing, session, quit, undefined, got, shown, sent, asked, again, unasked>>
        /\ Acts /\ There(a) /\ win' = [win EXCEPT ![a].queue = Append(@, m)]
        /\ typed' = [typed EXCEPT ![win[a].who] = @ + 1] /\ calm' \in BOOLEAN
    BY <1>3, TypesNow DEF UserTypes, looperVars
  <2>2. win[a].who \in Contacts
    BY <2>1, TypesNow, WindowFacts
  <2>3. typed' \in [Contacts -> Nat] /\ typed'[win[a].who] \in Nat
    BY <2>1, <2>2, TypesNow
  <2>4. m \in WindowMessages /\ m.what = "SAY"
    BY <2>3 DEF WindowMessages
  <2> HIDE DEF m
  <2>5. WinType' /\ Appended(a, m)
    BY <2>1, <2>4, TypesNow, AppendWindow
  <2>6. OnePerContact' /\ Listed' /\ ToldToQuit' /\ Quitting' = Quitting
    BY <2>1, <2>4, <2>5, AppendKeeps DEF Quitting
  <2>7. Types'
    BY <1>0, <2>1, <2>3, <2>5, TypesNow, TypesKept
  <2> QED BY <2>1, <2>6, <2>7
<1>4. ASSUME NEW a \in Addresses, UserCloses(a) PROVE Structure'
  <2> DEFINE m == [what |-> "BOX"]
  <2>1. /\ UNCHANGED <<queue, iWinList, closing, session, quit, undefined, got, shown, typed, sent, unasked>>
        /\ Acts /\ There(a) /\ win' = [win EXCEPT ![a].queue = Append(@, m)]
        /\ asked' \subseteq Addresses /\ again' \subseteq Addresses /\ calm' \in BOOLEAN
    BY <1>4, TypesNow DEF UserCloses, looperVars, histVars
  <2>2. m \in WindowMessages /\ m.what = "BOX"
    BY DEF WindowMessages
  <2> HIDE DEF m
  <2>3. WinType' /\ Appended(a, m)
    BY <2>1, <2>2, TypesNow, AppendWindow
  <2>4. OnePerContact' /\ Listed' /\ ToldToQuit' /\ Quitting' = Quitting
    BY <2>1, <2>2, <2>3, AppendKeeps DEF Quitting
  <2>5. Types'
    BY <1>0, <2>1, <2>3, TypesNow, TypesKept
  <2> QED BY <2>1, <2>4, <2>5
<1>5. CASE SessionChanges
  <2>1. /\ UNCHANGED <<queue, iWinList, closing, win, quit, undefined, got, shown, typed, sent, asked, again, unasked, calm>>
        /\ Acts /\ ~Quitting /\ session' \in BOOLEAN
    BY <1>5, TypesNow DEF SessionChanges, looperVars, histVars
  <2>2. WinType' /\ OnePerContact' /\ Listed' /\ ToldToQuit' /\ Quitting' = Quitting
    BY <2>1, SameWindows DEF Quitting
  <2>3. Types'
    BY <1>0, <2>1, <2>2, TypesNow, TypesKept
  <2> QED BY <2>1, <2>2, <2>3
<1> QED BY <1>1, <1>2, <1>3, <1>4, <1>5 DEF Environment

LEMMA StructureStep == Structure /\ [Next]_vars => Structure'
<1> SUFFICES ASSUME Structure, [Next]_vars PROVE Structure'
  OBVIOUS
<1>1. CASE UNCHANGED vars
  <2>1. UNCHANGED <<queue, iWinList, closing, win, session, quit, undefined, got, shown, typed, sent, acts, asked, again, unasked, calm>>
    BY <1>1 DEF vars, looperVars, histVars, userVars
  <2>2. WinType' /\ OnePerContact' /\ Listed' /\ ToldToQuit' /\ Quitting' = Quitting
    BY <2>1, SameWindows DEF Quitting
  <2>3. Types'
    BY <2>1, <2>2, TypesNow, TypesKept DEF Structure
  <2> QED BY <2>1, <2>2, <2>3 DEF Structure
<1> QED BY <1>1, StructureNetwork, StructureWindow, StructureQuit, StructureEnvironment DEF Next

-------------------------------------------------------------------------------
(***************************************************************************)
(* What a step leaves of the queues.  Messages of the kinds K keep their   *)
(* order and stay, at the place where they were or one place before it.    *)
(***************************************************************************)
Kept(kind) ==
    \E d \in {0, 1} :
        /\ \A i \in 1..Len(queue') : queue'[i].what = kind =>
               i + d \in 1..Len(queue) /\ queue'[i] = queue[i + d]
        /\ \A i \in 1..Len(queue) : queue[i].what = kind =>
               i - d \in 1..Len(queue') /\ queue'[i - d] = queue[i]

\* every window that is there is the one that it was, or has nothing of the kinds K
WinKept(K) ==
    \A a \in Addresses : There(a)' =>
        \E d \in {0, 1} : \A i \in 1..Len(win'[a].queue) : win'[a].queue[i].what \in K =>
            /\ There(a) /\ win'[a].who = win[a].who
            /\ i + d \in 1..Len(win[a].queue) /\ win'[a].queue[i] = win[a].queue[i + d]

\* no window goes, and none loses a message of the kinds K
WinStays(K) ==
    \A a \in Addresses : There(a) =>
        /\ There(a)' /\ win'[a].who = win[a].who
        /\ \A i \in 1..Len(win[a].queue) : win[a].queue[i].what \in K =>
               \E j \in 1..Len(win'[a].queue) : win'[a].queue[j] = win[a].queue[i]

\* Freed memory ends the story.
LEMMA UndefinedStays == ASSUME undefined, [Next]_vars PROVE UNCHANGED vars
BY DEF Next, NetworkStep, OpenMessage, GotMsg, SendMsg, CloseMessage, Closed, Handles, Idle,
       QuitBegins, QuitStep, QuitCounts, QuitLocks, QuitWaits, QuitEmpties, QuitLoops, QuitEnds, At,
       Environment, UserOpens, Receive, UserTypes, UserCloses, SessionChanges, Acts,
       WindowStep, ShowMessage, BeggSend, QuitRequested, Quit, Turn

LEMMA QueueSame ==
    ASSUME Types, queue' = queue, NEW kind
    PROVE  Kept(kind)
<1>1. Len(queue) \in Nat
  BY TypesNow
<1>2. \A i \in 1..Len(queue) : i + 0 = i /\ i - 0 = i
  BY <1>1
<1> QED BY <1>2 DEF Kept

LEMMA QueueTakenKept ==
    ASSUME Types, NEW what, Handles(what), NEW kind, kind # what
    PROVE  Kept(kind)
<1>1. /\ Len(queue) \in Nat \ {0} /\ Len(queue') = Len(queue) - 1 /\ queue[1].what = what
      /\ \A i \in 1..Len(queue') : queue'[i] = queue[i + 1]
  BY QueueTaken DEF Handles
<1>2. \A i \in 1..Len(queue') : i + 1 \in 1..Len(queue)
  BY <1>1
<1>3. \A i \in 1..Len(queue) : queue[i].what = kind => i - 1 \in 1..Len(queue')
  BY <1>1
<1>4. \A i \in 1..Len(queue) : queue[i].what = kind => queue'[i - 1] = queue[i]
  <2> SUFFICES ASSUME NEW i \in 1..Len(queue), queue[i].what = kind
               PROVE  queue'[i - 1] = queue[i]
    OBVIOUS
  <2>1. i - 1 \in 1..Len(queue')
    BY <1>3
  <2>2. queue'[i - 1] = queue[(i - 1) + 1] /\ (i - 1) + 1 = i
    BY <1>1, <2>1
  <2> QED BY <2>2
<1> QED BY <1>1, <1>2, <1>3, <1>4 DEF Kept

LEMMA QueuePostedKept ==
    ASSUME Types, NEW m \in NetworkMessages, queue' = queue \/ queue' = Append(queue, m),
           NEW kind, m.what # kind
    PROVE  Kept(kind)
<1>1. CASE queue' = queue
  BY <1>1, QueueSame
<1>2. CASE queue' = Append(queue, m)
  <2>1. /\ Len(queue) \in Nat /\ Len(queue') = Len(queue) + 1 /\ queue'[Len(queue) + 1] = m
        /\ \A i \in 1..Len(queue) : queue'[i] = queue[i]
    BY <1>2, QueuePosted
  <2>2. \A i \in 1..Len(queue') : queue'[i].what = kind =>
            i + 0 \in 1..Len(queue) /\ queue'[i] = queue[i + 0]
    <3> SUFFICES ASSUME NEW i \in 1..Len(queue'), queue'[i].what = kind
                 PROVE  i + 0 \in 1..Len(queue) /\ queue'[i] = queue[i + 0]
      OBVIOUS
    <3>1. i # Len(queue) + 1
      BY <2>1
    <3>2. i \in 1..Len(queue) /\ i + 0 = i
      BY <2>1, <3>1
    <3> QED BY <2>1, <3>2
  <2>3. \A i \in 1..Len(queue) : queue[i].what = kind =>
            i - 0 \in 1..Len(queue') /\ queue'[i - 0] = queue[i]
    <3>1. \A i \in 1..Len(queue) : i - 0 = i /\ i \in 1..Len(queue')
      BY <2>1
    <3> QED BY <2>1, <3>1
  <2> QED BY <2>2, <2>3 DEF Kept
<1> QED BY <1>1, <1>2

LEMMA PostKept ==
    ASSUME Types, NEW m \in NetworkMessages, Post(m), NEW kind, m.what # kind
    PROVE  Kept(kind)
BY PostKeeps, QueuePostedKept

\* Which steps add or take a message of a kind in Network's queue.
LEMMA QueueKept ==
    ASSUME Structure, [Next]_vars, NEW kind \in {"GOT", "SEND", "CLOSE"},
           kind = "GOT" => ~GotMsg /\ \A c \in Contacts : ~Receive(c),
           kind = "SEND" => ~SendMsg /\ \A a \in Addresses : ~BeggSend(a),
           kind = "CLOSE" => ~CloseMessage /\ \A a \in Addresses : ~QuitRequested(a)
    PROVE  Kept(kind)
<1> USE DEF Structure
<1>1. CASE queue' = queue
  BY <1>1, QueueSame
<1>2. CASE OpenMessage
  BY <1>2, QueueTakenKept DEF OpenMessage
<1>3. CASE GotMsg
  BY <1>3, QueueTakenKept DEF GotMsg
<1>4. CASE SendMsg
  BY <1>4, QueueTakenKept DEF SendMsg
<1>5. CASE CloseMessage
  BY <1>5, QueueTakenKept DEF CloseMessage
<1>6. CASE QuitEnds
  BY <1>6, QueueTakenKept DEF QuitEnds
<1>7. CASE QuitLoops
  <2>1. [what |-> "QUIT"] \in NetworkMessages /\ [what |-> "QUIT"].what # kind
    BY DEF NetworkMessages
  <2>2. queue' = Append(queue, [what |-> "QUIT"])
    BY <1>7 DEF QuitLoops
  <2> HIDE DEF Structure
  <2> QED BY <2>1, <2>2, QueuePostedKept DEF Structure
<1>8. ASSUME NEW c \in Contacts, UserOpens(c) PROVE Kept(kind)
  <2>1. [what |-> "OPEN", who |-> c] \in NetworkMessages /\ [what |-> "OPEN", who |-> c].what # kind
    BY DEF NetworkMessages
  <2> QED BY <1>8, <2>1, PostKept DEF UserOpens
<1>9. ASSUME NEW c \in Contacts, Receive(c) PROVE Kept(kind)
  <2> DEFINE m == [what |-> "GOT", who |-> c, msg |-> got'[c]]
  <2>1. got'[c] \in Nat
    BY <1>9, TypesNow DEF Receive
  <2>2. m \in NetworkMessages /\ m.what # kind
    BY <1>9, <2>1 DEF NetworkMessages
  <2>3. Post(m)
    BY <1>9 DEF Receive
  <2> HIDE DEF m
  <2> QED BY <2>2, <2>3, PostKept
<1>10. ASSUME NEW a \in Addresses, BeggSend(a), queue' # queue PROVE Kept(kind)
  <2> DEFINE m == [what |-> "SEND", who |-> win[a].who, msg |-> Head(win[a].queue).msg]
  <2>1. win[a].who \in Contacts /\ Head(win[a].queue) \in WindowMessages /\ Head(win[a].queue).what = "SAY"
    BY <1>10, TypesNow, WindowFacts, ShortenWindow DEF BeggSend, Turn
  <2>2. Head(win[a].queue).msg \in Nat
    BY <2>1, WindowMessage
  <2>3. m \in NetworkMessages /\ m.what # kind
    BY <1>10, <2>1, <2>2 DEF NetworkMessages
  <2>4. Post(m)
    BY <1>10 DEF BeggSend
  <2> HIDE DEF m
  <2> QED BY <2>3, <2>4, PostKept
<1>11. ASSUME NEW a \in Addresses, QuitRequested(a) PROVE Kept(kind)
  <2>1. [what |-> "CLOSE", win |-> a] \in NetworkMessages /\ [what |-> "CLOSE", win |-> a].what # kind
    BY <1>11 DEF NetworkMessages
  <2> QED BY <1>11, <2>1, PostKept DEF QuitRequested
<1>12. \/ queue' = queue \/ OpenMessage \/ GotMsg \/ SendMsg \/ CloseMessage \/ QuitEnds \/ QuitLoops
       \/ \E c \in Contacts : UserOpens(c) \/ Receive(c)
       \/ \E a \in Addresses : BeggSend(a) \/ QuitRequested(a)
  BY Zenon DEF vars, looperVars, Next, NetworkStep, Closed, QuitBegins, QuitStep, QuitCounts, QuitLocks,
       QuitWaits, QuitEmpties, Environment, UserTypes, UserCloses, SessionChanges, WindowStep,
       ShowMessage, Quit
<1> QED BY <1>1, <1>2, <1>3, <1>4, <1>5, <1>6, <1>7, <1>8, <1>9, <1>10, <1>11, <1>12

LEMMA WindowsSame ==
    ASSUME WinType, win' = win, NEW K
    PROVE  WinKept(K) /\ WinStays(K)
<1>1. \A a \in Addresses : There(a) => Len(win[a].queue) \in Nat
  BY WindowFacts, LenProperties
<1>2. \A a \in Addresses : There(a) => \A i \in 1..Len(win[a].queue) : i + 0 = i
  BY <1>1
<1> QED BY <1>2 DEF WinKept, WinStays, There

LEMMA WindowAppendedKept ==
    ASSUME WinType, NEW a \in Addresses, NEW m \in WindowMessages, Appended(a, m), NEW K, m.what \notin K
    PROVE  WinKept(K) /\ WinStays(K)
<1>1. /\ Len(win[a].queue) \in Nat /\ Len(win'[a].queue) = Len(win[a].queue) + 1
      /\ win'[a].queue[Len(win[a].queue) + 1] = m
      /\ \A i \in 1..Len(win[a].queue) : win'[a].queue[i] = win[a].queue[i]
  BY WindowAppended
<1>2. \A i \in 1..Len(win'[a].queue) : win'[a].queue[i].what \in K =>
          i + 0 \in 1..Len(win[a].queue) /\ win'[a].queue[i] = win[a].queue[i + 0]
  <2> SUFFICES ASSUME NEW i \in 1..Len(win'[a].queue), win'[a].queue[i].what \in K
               PROVE  i + 0 \in 1..Len(win[a].queue) /\ win'[a].queue[i] = win[a].queue[i + 0]
    OBVIOUS
  <2>1. i # Len(win[a].queue) + 1
    BY <1>1
  <2>2. i \in 1..Len(win[a].queue) /\ i + 0 = i
    BY <1>1, <2>1
  <2> QED BY <1>1, <2>2
<1>3. \A i \in 1..Len(win[a].queue) : i \in 1..Len(win'[a].queue)
  BY <1>1
<1>4. \A b \in Addresses \ {a} : There(b)' = There(b) /\ win'[b] = win[b]
  BY DEF Appended, Apart, There
<1>5. \A b \in Addresses : There(b) => \A i \in 1..Len(win[b].queue) : i + 0 = i
  BY WindowFacts, LenProperties
<1>6. WinKept(K)
  <2> SUFFICES ASSUME NEW b \in Addresses, There(b)'
               PROVE  \E d \in {0, 1} : \A i \in 1..Len(win'[b].queue) : win'[b].queue[i].what \in K =>
                          /\ There(b) /\ win'[b].who = win[b].who
                          /\ i + d \in 1..Len(win[b].queue) /\ win'[b].queue[i] = win[b].queue[i + d]
    BY DEF WinKept
  <2>1. CASE b = a
    BY <1>2, <2>1 DEF Appended
  <2>2. CASE b # a
    BY <1>4, <1>5, <2>2
  <2> QED BY <2>1, <2>2
<1>7. WinStays(K)
  <2> SUFFICES ASSUME NEW b \in Addresses, There(b)
               PROVE  /\ There(b)' /\ win'[b].who = win[b].who
                      /\ \A i \in 1..Len(win[b].queue) : win[b].queue[i].what \in K =>
                             \E j \in 1..Len(win'[b].queue) : win'[b].queue[j] = win[b].queue[i]
    BY DEF WinStays
  <2>1. CASE b = a
    BY <1>1, <1>3, <2>1 DEF Appended
  <2>2. CASE b # a
    BY <1>4, <2>2
  <2> QED BY <2>1, <2>2
<1> QED BY <1>6, <1>7

\* A window that has lost its first message.
LEMMA ShortenedForward ==
    ASSUME WinType, NEW a \in Addresses, Shortened(a), NEW K
    PROVE  WinKept(K)
<1>1. /\ Len(win[a].queue) \in Nat \ {0} /\ Len(win'[a].queue) = Len(win[a].queue) - 1
      /\ \A i \in 1..Len(win'[a].queue) : win'[a].queue[i] = win[a].queue[i + 1]
  BY WindowShortened
<1>2. \A i \in 1..Len(win'[a].queue) : i + 1 \in 1..Len(win[a].queue)
  BY <1>1
<1>3. \A b \in Addresses \ {a} : There(b)' = There(b) /\ win'[b] = win[b]
  BY DEF Shortened, Apart, There
<1>4. \A b \in Addresses : There(b) => \A i \in 1..Len(win[b].queue) : i + 0 = i
  BY WindowFacts, LenProperties
<1> SUFFICES ASSUME NEW b \in Addresses, There(b)'
             PROVE  \E d \in {0, 1} : \A i \in 1..Len(win'[b].queue) : win'[b].queue[i].what \in K =>
                        /\ There(b) /\ win'[b].who = win[b].who
                        /\ i + d \in 1..Len(win[b].queue) /\ win'[b].queue[i] = win[b].queue[i + d]
  BY DEF WinKept
<1>5. CASE b = a
  BY <1>1, <1>2, <1>5 DEF Shortened
<1>6. CASE b # a
  BY <1>3, <1>4, <1>6
<1> QED BY <1>5, <1>6

LEMMA WindowShortenedKept ==
    ASSUME WinType, NEW a \in Addresses, Shortened(a), NEW K, Head(win[a].queue).what \notin K
    PROVE  WinKept(K) /\ WinStays(K)
<1>1. /\ Len(win[a].queue) \in Nat \ {0} /\ Len(win'[a].queue) = Len(win[a].queue) - 1
      /\ win[a].queue[1].what \notin K
      /\ \A i \in 1..Len(win'[a].queue) : win'[a].queue[i] = win[a].queue[i + 1]
  BY WindowShortened
<1>2. \A i \in 1..Len(win[a].queue) : win[a].queue[i].what \in K =>
          \E j \in 1..Len(win'[a].queue) : win'[a].queue[j] = win[a].queue[i]
  <2> SUFFICES ASSUME NEW i \in 1..Len(win[a].queue), win[a].queue[i].what \in K
               PROVE  \E j \in 1..Len(win'[a].queue) : win'[a].queue[j] = win[a].queue[i]
    OBVIOUS
  <2>1. i # 1
    BY <1>1
  <2>2. i - 1 \in 1..Len(win'[a].queue) /\ (i - 1) + 1 = i
    BY <1>1, <2>1
  <2>3. win'[a].queue[i - 1] = win[a].queue[(i - 1) + 1]
    BY <1>1, <2>2
  <2> QED BY <2>2, <2>3
<1>3. \A b \in Addresses \ {a} : There(b)' = There(b) /\ win'[b] = win[b]
  BY DEF Shortened, Apart, There
<1>4. WinKept(K)
  BY ShortenedForward
<1>5. WinStays(K)
  <2> SUFFICES ASSUME NEW b \in Addresses, There(b)
               PROVE  /\ There(b)' /\ win'[b].who = win[b].who
                      /\ \A i \in 1..Len(win[b].queue) : win[b].queue[i].what \in K =>
                             \E j \in 1..Len(win'[b].queue) : win'[b].queue[j] = win[b].queue[i]
    BY DEF WinStays
  <2>1. CASE b = a
    BY <1>2, <2>1 DEF Shortened
  <2>2. CASE b # a
    BY <1>3, <2>2
  <2> QED BY <2>1, <2>2
<1> QED BY <1>4, <1>5

LEMMA WindowOpenedKept ==
    ASSUME WinType, NEW a \in Addresses, ~There(a), Apart(a), NEW K,
           \A i \in 1..Len(win'[a].queue) : win'[a].queue[i].what \notin K
    PROVE  WinKept(K) /\ WinStays(K)
<1>1. \A b \in Addresses \ {a} : There(b)' = There(b) /\ win'[b] = win[b]
  BY DEF Apart, There
<1>2. \A b \in Addresses : There(b) => \A i \in 1..Len(win[b].queue) : i + 0 = i
  BY WindowFacts, LenProperties
<1>3. WinKept(K)
  <2> SUFFICES ASSUME NEW b \in Addresses, There(b)'
               PROVE  \E d \in {0, 1} : \A i \in 1..Len(win'[b].queue) : win'[b].queue[i].what \in K =>
                          /\ There(b) /\ win'[b].who = win[b].who
                          /\ i + d \in 1..Len(win[b].queue) /\ win'[b].queue[i] = win[b].queue[i + d]
    BY DEF WinKept
  <2>1. CASE b = a
    BY <2>1
  <2>2. CASE b # a
    BY <1>1, <1>2, <2>2
  <2> QED BY <2>1, <2>2
<1> QED BY <1>1, <1>3 DEF WinStays

LEMMA WindowClosedKept ==
    ASSUME WinType, NEW a \in Addresses, Apart(a), ~There(a)', NEW K
    PROVE  WinKept(K)
<1>1. \A b \in Addresses \ {a} : There(b)' = There(b) /\ win'[b] = win[b]
  BY DEF Apart, There
<1>2. \A b \in Addresses : There(b) => \A i \in 1..Len(win[b].queue) : i + 0 = i
  BY WindowFacts, LenProperties
<1> QED BY <1>1, <1>2 DEF WinKept

\* A window takes its first message.
LEMMA TurnKept ==
    ASSUME WinType, NEW a \in Addresses, NEW what, Turn(a, what), Handled(a), NEW K, what \notin K
    PROVE  WinKept(K) /\ WinStays(K)
BY ShortenWindow, WindowShortenedKept DEF Turn

\* A delivery adds nothing but the message that is handed to the window.
LEMMA DeliveryKept ==
    ASSUME Structure, closing = None, NEW c \in Contacts, NEW s \in Seq(WindowMessages), NEW K,
           s = <<>> \/ \E m \in WindowMessages : m.what \notin K /\ s = <<m>>,
           GetMesgWinForUser(c, s)
    PROVE  WinKept(K) /\ WinStays(K)
<1>0. WinType
  BY TypesNow DEF Structure
<1>1. CASE win' = win
  BY <1>0, <1>1, WindowsSame
<1>2. CASE \E a \in Addresses : /\ There(a) /\ win[a].who = c
                                /\ win' = [win EXCEPT ![a].queue = @ \o s]
  <2>1. PICK a \in Addresses : There(a) /\ win' = [win EXCEPT ![a].queue = @ \o s]
    BY <1>2
  <2>2. win[a].queue \in Seq(WindowMessages) /\ win[a] \in Windows
    BY <1>0, <2>1, WindowFacts
  <2>3. CASE s = <<>>
    <3>1. win[a].queue \o s = win[a].queue /\ [win[a] EXCEPT !.queue = win[a].queue] = win[a]
      BY <2>2, <2>3, ConcatEmptySeq DEF Windows
    <3>2. win' = [win EXCEPT ![a] = [win[a] EXCEPT !.queue = win[a].queue]]
      BY <2>1, <3>1
    <3>3. win' = win
      BY <1>0, <3>1, <3>2 DEF WinType
    <3> QED BY <1>0, <3>3, WindowsSame
  <2>4. ASSUME NEW m \in WindowMessages, m.what \notin K, s = <<m>> PROVE WinKept(K) /\ WinStays(K)
    <3>1. win[a].queue \o s = Append(win[a].queue, m)
      BY <2>2, <2>4, AppendIsConcat
    <3>2. Appended(a, m)
      BY <1>0, <2>1, <3>1, AppendWindow
    <3> QED BY <1>0, <2>4, <3>2, WindowAppendedKept
  <2> QED BY <2>3, <2>4
<1>3. CASE \E a \in Addresses : ~There(a) /\ win' = [win EXCEPT ![a] = Opened(c, s)]
  <2>1. PICK a \in Addresses : ~There(a) /\ win' = [win EXCEPT ![a] = Opened(c, s)]
    BY <1>3
  <2>2. Apart(a) /\ win'[a].queue = s
    BY <1>0, <2>1, OpenWindow
  <2>3. \A i \in 1..Len(s) : s[i].what \notin K
    OBVIOUS
  <2> QED BY <1>0, <2>1, <2>2, <2>3, WindowOpenedKept
<1> QED BY <1>1, <1>2, <1>3, Delivery

\* Which steps add or take a message of a kind at a window.
LEMMA WindowsKept ==
    ASSUME Structure, [Next]_vars, NEW K \in SUBSET {"SHOW", "SAY", "BOX", "QUIT"},
           "SHOW" \in K => ~GotMsg /\ \A a \in Addresses : ~ShowMessage(a),
           "SAY" \in K => \A a \in Addresses : ~UserTypes(a) /\ ~BeggSend(a),
           "BOX" \in K => \A a \in Addresses : ~UserCloses(a) /\ ~QuitRequested(a),
           "QUIT" \in K => ~CloseMessage /\ ~QuitLocks
    PROVE  WinKept(K) /\ ((\A a \in Addresses : ~Quit(a)) => WinStays(K))
<1> USE DEF Structure
<1>0. WinType
  BY TypesNow
<1>1. CASE win' = win
  BY <1>0, <1>1, WindowsSame
<1>2. CASE OpenMessage
  <2>1. Message.who \in Contacts /\ closing = None /\ <<>> \in Seq(WindowMessages)
    BY <1>2, QueueTaken, NetworkMessage DEF OpenMessage, Handles, Idle
  <2> HIDE DEF Structure
  <2> QED BY <1>2, <2>1, DeliveryKept DEF OpenMessage
<1>3. CASE GotMsg
  <2> DEFINE m == [what |-> "SHOW", msg |-> Message.msg]
  <2>1. Message \in NetworkMessages /\ Message.what = "GOT" /\ closing = None
    BY <1>3, QueueTaken DEF GotMsg, Handles, Idle
  <2>2. Message.who \in Contacts /\ Message.msg \in Nat
    BY <2>1, NetworkMessage
  <2>3. m \in WindowMessages /\ m.what \notin K
    BY <1>3, <2>2 DEF WindowMessages
  <2>4. GetMesgWinForUser(Message.who, <<m>>)
    BY <1>3 DEF GotMsg
  <2> HIDE DEF m, Structure
  <2>5. <<m>> \in Seq(WindowMessages)
    BY <2>3
  <2> QED BY <2>1, <2>2, <2>3, <2>4, <2>5, DeliveryKept
<1>4. CASE CloseMessage /\ win' # win
  <2> DEFINE m == [what |-> "QUIT"]
  <2>1. PICK a \in Addresses : a = Message.win
    BY <1>4, QueueTaken, NetworkMessage DEF CloseMessage, Handles
  <2>2. m \in WindowMessages /\ m.what \notin K
    BY <1>4 DEF WindowMessages
  <2>3. There(a) /\ win' = [win EXCEPT ![a].queue = Append(@, m)]
    BY <1>4, <2>1 DEF CloseMessage, Quits
  <2> HIDE DEF m
  <2>4. Appended(a, m)
    BY <1>0, <2>2, <2>3, AppendWindow
  <2> QED BY <1>0, <2>2, <2>4, WindowAppendedKept
<1>5. CASE QuitLocks /\ win' # win
  <2> DEFINE m == [what |-> "QUIT"]
  <2>1. quit.i < Len(iWinList) /\ There(iWinList[quit.i + 1])
    BY <1>5 DEF QuitLocks
  <2>2. PICK a \in Addresses : a = iWinList[quit.i + 1]
    BY <2>1, TypesNow, ListFacts
  <2>3. m \in WindowMessages /\ m.what \notin K
    BY <1>5 DEF WindowMessages
  <2>4. There(a) /\ win' = [win EXCEPT ![a].queue = Append(@, m)]
    BY <1>5, <2>1, <2>2 DEF QuitLocks
  <2> HIDE DEF m
  <2>5. Appended(a, m)
    BY <1>0, <2>3, <2>4, AppendWindow
  <2> QED BY <1>0, <2>3, <2>5, WindowAppendedKept
<1>6. ASSUME NEW a \in Addresses, ShowMessage(a) PROVE WinKept(K) /\ WinStays(K)
  BY <1>0, <1>6, TurnKept DEF ShowMessage
<1>7. ASSUME NEW a \in Addresses, BeggSend(a) PROVE WinKept(K) /\ WinStays(K)
  BY <1>0, <1>7, TurnKept DEF BeggSend
<1>8. ASSUME NEW a \in Addresses, QuitRequested(a) PROVE WinKept(K) /\ WinStays(K)
  BY <1>0, <1>8, TurnKept DEF QuitRequested
<1>9. ASSUME NEW a \in Addresses, Quit(a) PROVE WinKept(K)
  BY <1>0, <1>9, CloseWindow, WindowClosedKept DEF Quit
<1>10. ASSUME NEW a \in Addresses, UserTypes(a) PROVE WinKept(K) /\ WinStays(K)
  <2> DEFINE m == [what |-> "SAY", msg |-> typed'[win[a].who]]
  <2>1. There(a) /\ win' = [win EXCEPT ![a].queue = Append(@, m)] /\ typed' = [typed EXCEPT ![win[a].who] = @ + 1]
    BY <1>10 DEF UserTypes
  <2>2. win[a].who \in Contacts
    BY <1>0, <2>1, WindowFacts
  <2>3. typed'[win[a].who] \in Nat
    BY <2>1, <2>2, TypesNow
  <2>4. m \in WindowMessages /\ m.what \notin K
    BY <1>10, <2>3 DEF WindowMessages
  <2> HIDE DEF m
  <2>5. Appended(a, m)
    BY <1>0, <2>1, <2>4, AppendWindow
  <2> QED BY <1>0, <2>4, <2>5, WindowAppendedKept
<1>11. ASSUME NEW a \in Addresses, UserCloses(a) PROVE WinKept(K) /\ WinStays(K)
  <2> DEFINE m == [what |-> "BOX"]
  <2>1. There(a) /\ win' = [win EXCEPT ![a].queue = Append(@, m)]
    BY <1>11 DEF UserCloses
  <2>2. m \in WindowMessages /\ m.what \notin K
    BY <1>11 DEF WindowMessages
  <2> HIDE DEF m
  <2>3. Appended(a, m)
    BY <1>0, <2>1, <2>2, AppendWindow
  <2> QED BY <1>0, <2>2, <2>3, WindowAppendedKept
<1>12. \/ win' = win \/ OpenMessage \/ GotMsg \/ CloseMessage \/ QuitLocks
       \/ \E a \in Addresses : \/ ShowMessage(a) \/ BeggSend(a) \/ QuitRequested(a) \/ Quit(a)
                               \/ UserTypes(a) \/ UserCloses(a)
  BY Zenon DEF vars, Next, NetworkStep, SendMsg, Closed, QuitBegins, QuitStep, QuitCounts,
       QuitWaits, QuitEmpties, QuitLoops, QuitEnds, Environment, UserOpens, Receive, SessionChanges, WindowStep
<1> QED BY <1>1, <1>2, <1>3, <1>4, <1>5, <1>6, <1>7, <1>8, <1>9, <1>10, <1>11, <1>12
\* Only a delivery opens a window.
LEMMA NoWindowOpens ==
    ASSUME Structure, [Next]_vars, ~OpenMessage, ~GotMsg
    PROVE  \A a \in Addresses : There(a)' => There(a) /\ win'[a].who = win[a].who
<1> USE DEF Structure
<1>0. WinType
  BY TypesNow
<1>1. CASE win' = win
  BY <1>1 DEF There
<1>2. ASSUME NEW a \in Addresses, NEW s, win' = [win EXCEPT ![a].queue = s], There(a)
      PROVE  \A b \in Addresses : There(b)' => There(b) /\ win'[b].who = win[b].who
  <2>1. win[a] \in Windows
    BY <1>0, <1>2, WindowFacts
  <2>2. win'[a] = [win[a] EXCEPT !.queue = s] /\ \A b \in Addresses \ {a} : win'[b] = win[b]
    BY <1>0, <1>2 DEF WinType
  <2>3. win'[a].who = win[a].who
    BY <2>1, <2>2 DEF Windows
  <2> QED BY <1>2, <2>2, <2>3 DEF There
<1>3. CASE CloseMessage
  <2>1. Message.win \in Addresses
    BY <1>3, QueueTaken, NetworkMessage DEF CloseMessage, Handles
  <2> QED BY <1>1, <1>2, <1>3, <2>1 DEF CloseMessage, Quits
<1>4. CASE QuitLocks
  <2>1. quit.i < Len(iWinList) => iWinList[quit.i + 1] \in Addresses
    BY TypesNow, ListFacts
  <2> QED BY <1>1, <1>2, <1>4, <2>1 DEF QuitLocks
<1>5. ASSUME NEW a \in Addresses, WindowStep(a)
      PROVE  \A b \in Addresses : There(b)' => There(b) /\ win'[b].who = win[b].who
  <2>1. CASE Quit(a)
    BY <1>0, <2>1, CloseWindow DEF Quit, Apart, There
  <2>2. CASE ~Quit(a)
    BY <1>2, <1>5, <2>2 DEF WindowStep, ShowMessage, BeggSend, QuitRequested, Turn, Handled
  <2> QED BY <2>1, <2>2
<1>6. ASSUME NEW a \in Addresses, UserTypes(a) \/ UserCloses(a)
      PROVE  \A b \in Addresses : There(b)' => There(b) /\ win'[b].who = win[b].who
  BY <1>2, <1>6 DEF UserTypes, UserCloses
<1>7. \/ CloseMessage \/ QuitLocks \/ win' = win
      \/ \E a \in Addresses : WindowStep(a) \/ UserTypes(a) \/ UserCloses(a)
  BY Zenon DEF vars, Next, NetworkStep, SendMsg, Closed, QuitBegins, QuitStep, QuitCounts,
     QuitWaits, QuitEmpties, QuitLoops, QuitEnds, Environment, UserOpens, Receive, SessionChanges
<1> QED BY <1>1, <1>3, <1>4, <1>5, <1>6, <1>7

-------------------------------------------------------------------------------
(***************************************************************************)
(* What is said.  The numbers of a contact's messages grow from those that *)
(* were sent over those in Network's queue to those in the window's queue. *)
(***************************************************************************)
Below(s, n) == \A k \in 1..Len(s) : s[k] < n

SentAreTyped == \A c \in Contacts : Below(sent[c], typed[c] + 1)
SendsFollow ==
    \A i \in 1..Len(queue) : queue[i].what = "SEND" =>
        /\ queue[i].msg <= typed[queue[i].who] /\ Below(sent[queue[i].who], queue[i].msg)
        /\ \A j \in 1..Len(queue) :
               i < j /\ queue[j].what = "SEND" /\ queue[j].who = queue[i].who => queue[i].msg < queue[j].msg
SaysFollow ==
    \A a \in Addresses : There(a) => \A i \in 1..Len(win[a].queue) : win[a].queue[i].what = "SAY" =>
        /\ win[a].queue[i].msg <= typed[win[a].who] /\ Below(sent[win[a].who], win[a].queue[i].msg)
        /\ \A j \in 1..Len(queue) :
               queue[j].what = "SEND" /\ queue[j].who = win[a].who => queue[j].msg < win[a].queue[i].msg
        /\ \A j \in 1..Len(win[a].queue) :
               i < j /\ win[a].queue[j].what = "SAY" => win[a].queue[i].msg < win[a].queue[j].msg

Sent == SentInOrder /\ SentAreTyped /\ SendsFollow /\ SaysFollow

LEMMA InitSent == Init => Sent
BY DEF Init, Sent, SentInOrder, SentAreTyped, Below, SendsFollow, SaysFollow, There, Gone

LEMMA SaysKept ==
    ASSUME Sent, WinKept({"SAY"}), UNCHANGED <<sent, typed>>, Kept("SEND")
    PROVE  SaysFollow'
<1>1. SUFFICES ASSUME NEW a \in Addresses, There(a)', NEW i \in 1..Len(win'[a].queue), win'[a].queue[i].what = "SAY"
               PROVE  /\ win'[a].queue[i].msg <= typed[win'[a].who] /\ Below(sent'[win'[a].who], win'[a].queue[i].msg)
                      /\ \A j \in 1..Len(queue') : queue'[j].what = "SEND" /\ queue'[j].who = win'[a].who
                             => queue'[j].msg < win'[a].queue[i].msg
                      /\ \A j \in 1..Len(win'[a].queue) : i < j /\ win'[a].queue[j].what = "SAY"
                             => win'[a].queue[i].msg < win'[a].queue[j].msg
  BY DEF SaysFollow
<1>2. PICK d \in {0, 1} : \A j \in 1..Len(win'[a].queue) : win'[a].queue[j].what = "SAY" =>
            /\ There(a) /\ win'[a].who = win[a].who
            /\ j + d \in 1..Len(win[a].queue) /\ win'[a].queue[j] = win[a].queue[j + d]
  BY <1>1 DEF WinKept
<1>3. /\ There(a) /\ win'[a].who = win[a].who
      /\ i + d \in 1..Len(win[a].queue) /\ win'[a].queue[i] = win[a].queue[i + d]
  BY <1>1, <1>2
<1>4. /\ win[a].queue[i + d].msg <= typed[win[a].who] /\ Below(sent[win[a].who], win[a].queue[i + d].msg)
      /\ \A j \in 1..Len(queue) :
             queue[j].what = "SEND" /\ queue[j].who = win[a].who => queue[j].msg < win[a].queue[i + d].msg
      /\ \A j \in 1..Len(win[a].queue) :
             i + d < j /\ win[a].queue[j].what = "SAY" => win[a].queue[i + d].msg < win[a].queue[j].msg
  BY <1>1, <1>3 DEF Sent, SaysFollow
<1>5. Below(sent'[win'[a].who], win'[a].queue[i].msg)
  BY <1>3, <1>4 DEF Below
<1>6. \A j \in 1..Len(win'[a].queue) : i < j /\ win'[a].queue[j].what = "SAY"
          => win'[a].queue[i].msg < win'[a].queue[j].msg
  <2>1. \A j \in 1..Len(win'[a].queue) : i < j => i + d < j + d
    OBVIOUS
  <2> QED BY <1>2, <1>3, <1>4, <2>1
<1>7. \A j \in 1..Len(queue') : queue'[j].what = "SEND" /\ queue'[j].who = win'[a].who
          => queue'[j].msg < win'[a].queue[i].msg
  <2>1. PICK e \in {0, 1} : \A j \in 1..Len(queue') : queue'[j].what = "SEND" =>
               j + e \in 1..Len(queue) /\ queue'[j] = queue[j + e]
    BY DEF Kept
  <2> QED BY <1>3, <1>4, <2>1
<1> QED BY <1>3, <1>4, <1>5, <1>6, <1>7

LEMMA SendsKept ==
    ASSUME Sent, UNCHANGED <<sent, typed>>, Kept("SEND")
    PROVE  SendsFollow'
<1>1. PICK d \in {0, 1} : \A j \in 1..Len(queue') : queue'[j].what = "SEND" =>
            j + d \in 1..Len(queue) /\ queue'[j] = queue[j + d]
  BY DEF Kept
<1>2. SUFFICES ASSUME NEW i \in 1..Len(queue'), queue'[i].what = "SEND"
               PROVE  /\ queue'[i].msg <= typed[queue'[i].who] /\ Below(sent'[queue'[i].who], queue'[i].msg)
                      /\ \A j \in 1..Len(queue') : i < j /\ queue'[j].what = "SEND" /\ queue'[j].who = queue'[i].who
                             => queue'[i].msg < queue'[j].msg
  BY DEF SendsFollow
<1>3. i + d \in 1..Len(queue) /\ queue'[i] = queue[i + d]
  BY <1>1, <1>2
<1>4. /\ queue[i + d].msg <= typed[queue[i + d].who] /\ Below(sent[queue[i + d].who], queue[i + d].msg)
      /\ \A j \in 1..Len(queue) : i + d < j /\ queue[j].what = "SEND" /\ queue[j].who = queue[i + d].who
             => queue[i + d].msg < queue[j].msg
  BY <1>2, <1>3 DEF Sent, SendsFollow
<1>5. \A j \in 1..Len(queue') : i < j => i + d < j + d
  OBVIOUS
<1>6. Below(sent'[queue'[i].who], queue'[i].msg)
  BY <1>3, <1>4 DEF Below
<1> QED BY <1>1, <1>3, <1>4, <1>5, <1>6

LEMMA SentStep == ASSUME Structure, Sent, [Next]_vars PROVE Sent'
<1> USE DEF Structure
<1>0. WinType /\ sent \in [Contacts -> Seq(Nat)] /\ typed \in [Contacts -> Nat]
  BY TypesNow
<1>1. CASE SendMsg
  <2>1. UNCHANGED <<win, typed>> /\ Message \in NetworkMessages /\ Message.what = "SEND"
    BY <1>1, QueueTaken DEF SendMsg, Handles
  <2>2. PICK c \in Contacts : c = Message.who
    BY <2>1, NetworkMessage
  <2>3. PICK n \in Nat : n = Message.msg
    BY <2>1, NetworkMessage
  <2>4. sent' \in {sent, [sent EXCEPT ![c] = Append(sent[c], n)]}
    BY <1>1, <2>2, <2>3 DEF SendMsg
  <2>5. /\ Len(queue) \in Nat \ {0} /\ Len(queue') = Len(queue) - 1 /\ Message = queue[1]
        /\ \A i \in 1..Len(queue) : queue[i] \in NetworkMessages
        /\ \A i \in 1..Len(queue') : queue'[i] = queue[i + 1] /\ i + 1 \in 1..Len(queue) /\ 1 < i + 1
    <3>1. /\ Len(queue) \in Nat \ {0} /\ Len(queue') = Len(queue) - 1 /\ Message = queue[1]
          /\ \A i \in 1..Len(queue) : queue[i] \in NetworkMessages
          /\ \A i \in 1..Len(queue') : queue'[i] = queue[i + 1]
      BY <1>1, QueueTaken DEF SendMsg, Handles
    <3> QED BY <3>1
  <2>6. /\ n <= typed[c] /\ Below(sent[c], n)
        /\ \A j \in 1..Len(queue) : 1 < j /\ queue[j].what = "SEND" /\ queue[j].who = c => n < queue[j].msg
        /\ \A a \in Addresses : There(a) /\ win[a].who = c => \A i \in 1..Len(win[a].queue) :
               win[a].queue[i].what = "SAY" => n < win[a].queue[i].msg
    <3>1. 1 \in 1..Len(queue) /\ queue[1].what = "SEND" /\ queue[1].who = c /\ queue[1].msg = n
      BY <2>1, <2>2, <2>3, <2>5
    <3> QED BY <3>1 DEF Sent, SendsFollow, SaysFollow
  \* what was below all that were sent and below what is sent now stays there
  <2>7. \A e \in Contacts : \A m \in Nat : Below(sent[e], m) /\ (e = c => n < m) => Below(sent'[e], m)
    <3> SUFFICES ASSUME NEW e \in Contacts, NEW m \in Nat, Below(sent[e], m), e = c => n < m,
                        NEW k \in 1..Len(sent'[e])
                 PROVE  sent'[e][k] < m
      BY DEF Below
    <3>1. CASE sent'[e] = sent[e]
      BY <3>1 DEF Below
    <3>2. CASE e = c /\ sent'[e] = Append(sent[e], n)
      <4>1. /\ Len(sent[e]) \in Nat /\ Len(sent'[e]) = Len(sent[e]) + 1 /\ sent'[e][Len(sent[e]) + 1] = n
            /\ \A j \in 1..Len(sent[e]) : sent'[e][j] = sent[e][j]
        BY <1>0, <3>2, AppendProperties, LenProperties
      <4>2. k = Len(sent[e]) + 1 \/ k \in 1..Len(sent[e])
        BY <4>1
      <4> QED BY <3>2, <4>1, <4>2 DEF Below
    <3> QED BY <1>0, <2>4, <3>1, <3>2
  <2>8. SentInOrder'
    <3> SUFFICES ASSUME NEW e \in Contacts, NEW i \in DOMAIN sent'[e], NEW j \in DOMAIN sent'[e], i < j
                 PROVE  sent'[e][i] < sent'[e][j]
      BY DEF SentInOrder
    <3>1. CASE sent'[e] = sent[e]
      BY <3>1 DEF Sent, SentInOrder
    <3>2. CASE e = c /\ sent'[e] = Append(sent[e], n)
      <4>1. /\ Len(sent[e]) \in Nat /\ Len(sent'[e]) = Len(sent[e]) + 1 /\ sent'[e][Len(sent[e]) + 1] = n
            /\ \A k \in 1..Len(sent[e]) : sent'[e][k] = sent[e][k]
            /\ DOMAIN sent[e] = 1..Len(sent[e]) /\ DOMAIN sent'[e] = 1..Len(sent'[e])
        BY <1>0, <3>2, AppendProperties, LenProperties
      <4>2. i \in 1..Len(sent[e]) /\ (j = Len(sent[e]) + 1 \/ j \in 1..Len(sent[e]))
        BY <4>1
      <4> QED BY <2>6, <3>2, <4>1, <4>2 DEF Below, Sent, SentInOrder
    <3> QED BY <1>0, <2>4, <3>1, <3>2
  <2>9. SentAreTyped'
    <3> SUFFICES ASSUME NEW e \in Contacts PROVE Below(sent'[e], typed[e] + 1)
      BY <2>1 DEF SentAreTyped
    <3>1. typed[e] + 1 \in Nat /\ Below(sent[e], typed[e] + 1)
      BY <1>0 DEF Sent, SentAreTyped
    <3>2. e = c => n < typed[e] + 1
      BY <1>0, <2>6
    <3> QED BY <2>7, <3>1, <3>2
  <2>10. SendsFollow'
    <3> SUFFICES ASSUME NEW i \in 1..Len(queue'), queue'[i].what = "SEND"
                 PROVE  /\ queue'[i].msg <= typed'[queue'[i].who] /\ Below(sent'[queue'[i].who], queue'[i].msg)
                        /\ \A j \in 1..Len(queue') : i < j /\ queue'[j].what = "SEND" /\ queue'[j].who = queue'[i].who
                               => queue'[i].msg < queue'[j].msg
      BY DEF SendsFollow
    <3>1. queue'[i] = queue[i + 1] /\ i + 1 \in 1..Len(queue) /\ 1 < i + 1 /\ queue[i + 1] \in NetworkMessages
      BY <2>5
    <3>2. queue[i + 1].who \in Contacts /\ queue[i + 1].msg \in Nat
      BY <3>1, NetworkMessage
    <3>3. /\ queue[i + 1].msg <= typed[queue[i + 1].who] /\ Below(sent[queue[i + 1].who], queue[i + 1].msg)
          /\ \A j \in 1..Len(queue) : i + 1 < j /\ queue[j].what = "SEND" /\ queue[j].who = queue[i + 1].who
                 => queue[i + 1].msg < queue[j].msg
      BY <3>1 DEF Sent, SendsFollow
    <3>4. Below(sent'[queue'[i].who], queue'[i].msg)
      BY <2>6, <2>7, <3>1, <3>2, <3>3
    <3>5. \A j \in 1..Len(queue') : i < j => i + 1 < j + 1
      OBVIOUS
    <3> QED BY <2>1, <2>5, <3>1, <3>3, <3>4, <3>5
  <2>11. SaysFollow'
    <3> SUFFICES ASSUME NEW a \in Addresses, There(a), NEW i \in 1..Len(win[a].queue), win[a].queue[i].what = "SAY"
                 PROVE  /\ win[a].queue[i].msg <= typed[win[a].who] /\ Below(sent'[win[a].who], win[a].queue[i].msg)
                        /\ \A j \in 1..Len(queue') : queue'[j].what = "SEND" /\ queue'[j].who = win[a].who
                               => queue'[j].msg < win[a].queue[i].msg
                        /\ \A j \in 1..Len(win[a].queue) : i < j /\ win[a].queue[j].what = "SAY"
                               => win[a].queue[i].msg < win[a].queue[j].msg
      BY <2>1 DEF SaysFollow, There, Below
    <3>1. win[a].who \in Contacts /\ win[a].queue \in Seq(WindowMessages)
      BY <1>0, WindowFacts
    <3>2. win[a].queue[i] \in WindowMessages
      BY <3>1, ElementOfSeq
    <3>3. win[a].queue[i].msg \in Nat
      BY <3>2, WindowMessage
    <3>4. /\ win[a].queue[i].msg <= typed[win[a].who] /\ Below(sent[win[a].who], win[a].queue[i].msg)
          /\ \A j \in 1..Len(queue) : queue[j].what = "SEND" /\ queue[j].who = win[a].who
                 => queue[j].msg < win[a].queue[i].msg
          /\ \A j \in 1..Len(win[a].queue) : i < j /\ win[a].queue[j].what = "SAY"
                 => win[a].queue[i].msg < win[a].queue[j].msg
      BY DEF Sent, SaysFollow
    <3>5. Below(sent'[win[a].who], win[a].queue[i].msg)
      <4>1. Below(sent[win[a].who], win[a].queue[i].msg) /\ (win[a].who = c => n < win[a].queue[i].msg)
        BY <2>6, <3>4
      <4> QED BY <2>1, <2>7, <3>1, <3>3, <4>1 DEF Below
    <3> QED BY <2>5, <3>4, <3>5
  <2> QED BY <2>8, <2>9, <2>10, <2>11 DEF Sent
<1>2. ASSUME NEW a \in Addresses, BeggSend(a), Kept("SEND") PROVE Sent'
  <2>1. UNCHANGED <<sent, typed>>
    BY <1>2 DEF BeggSend, histVars
  <2>2. WinType' /\ Shortened(a)
    BY <1>0, <1>2, ShortenWindow DEF BeggSend
  <2>3. WinKept({"SAY"})
    BY <1>0, <2>2, ShortenedForward
  <2> QED BY <1>2, <2>1, <2>3, SaysKept, SendsKept DEF Sent, SentInOrder, SentAreTyped, Below
<1>3. ASSUME NEW a \in Addresses, BeggSend(a), ~Kept("SEND") PROVE Sent'
  <2> DEFINE m == [what |-> "SEND", who |-> win[a].who, msg |-> Head(win[a].queue).msg]
  <2>1. UNCHANGED <<sent, typed>> /\ Turn(a, "SAY") /\ Handled(a)
    BY <1>3 DEF BeggSend, histVars
  <2>2. WinType' /\ Shortened(a) /\ Head(win[a].queue) \in WindowMessages /\ Head(win[a].queue).what = "SAY"
    BY <1>0, <2>1, ShortenWindow DEF Turn
  <2>3. /\ Len(win[a].queue) \in Nat \ {0} /\ Len(win'[a].queue) = Len(win[a].queue) - 1
        /\ Head(win[a].queue) = win[a].queue[1]
        /\ \A i \in 1..Len(win'[a].queue) : win'[a].queue[i] = win[a].queue[i + 1]
    BY <1>0, <2>2, WindowShortened
  <2>4. PICK c \in Contacts : c = win[a].who
    BY <1>0, <2>1, WindowFacts DEF Turn
  <2>5. PICK n \in Nat : n = Head(win[a].queue).msg
    BY <2>2, WindowMessage
  <2>6. m \in NetworkMessages /\ m.what = "SEND" /\ m.who = c /\ m.msg = n
    BY <2>4, <2>5 DEF NetworkMessages
  <2>7. queue' = Append(queue, m)
    <3>1. queue' # queue
      BY <1>3, QueueSame
    <3> QED BY <1>3, <3>1 DEF BeggSend, Post
  <2> HIDE DEF m
  <2>8. /\ Len(queue) \in Nat /\ Len(queue') = Len(queue) + 1 /\ queue'[Len(queue) + 1] = m
        /\ \A i \in 1..Len(queue) : queue'[i] = queue[i] /\ queue[i] \in NetworkMessages
    BY <2>6, <2>7, QueuePosted
  <2>9. There(a) /\ win[a].queue[1].what = "SAY" /\ win[a].queue[1].msg = n /\ 1 \in 1..Len(win[a].queue)
    BY <2>1, <2>2, <2>3, <2>5 DEF Turn
  <2>10. /\ n <= typed[c] /\ Below(sent[c], n)
         /\ \A j \in 1..Len(queue) : queue[j].what = "SEND" /\ queue[j].who = c => queue[j].msg < n
         /\ \A j \in 1..Len(win[a].queue) : 1 < j /\ win[a].queue[j].what = "SAY" => n < win[a].queue[j].msg
    BY <2>4, <2>9 DEF Sent, SaysFollow
  <2>11. SendsFollow'
    <3> SUFFICES ASSUME NEW i \in 1..Len(queue'), queue'[i].what = "SEND"
                 PROVE  /\ queue'[i].msg <= typed[queue'[i].who] /\ Below(sent[queue'[i].who], queue'[i].msg)
                        /\ \A j \in 1..Len(queue') : i < j /\ queue'[j].what = "SEND" /\ queue'[j].who = queue'[i].who
                               => queue'[i].msg < queue'[j].msg
      BY <2>1 DEF SendsFollow, Below
    <3>1. CASE i = Len(queue) + 1
      <4>1. \A j \in 1..Len(queue') : ~(i < j)
        BY <2>8, <3>1
      <4> QED BY <2>6, <2>8, <2>10, <3>1, <4>1
    <3>2. CASE i # Len(queue) + 1
      <4>1. i \in 1..Len(queue) /\ queue'[i] = queue[i]
        BY <2>8, <3>2
      <4>2. /\ queue[i].msg <= typed[queue[i].who] /\ Below(sent[queue[i].who], queue[i].msg)
            /\ \A j \in 1..Len(queue) : i < j /\ queue[j].what = "SEND" /\ queue[j].who = queue[i].who
                   => queue[i].msg < queue[j].msg
        BY <3>2, <4>1 DEF Sent, SendsFollow
      <4>3. \A j \in 1..Len(queue') : j = Len(queue) + 1 \/ j \in 1..Len(queue)
        BY <2>8
      <4>4. queue[i].who = c => queue[i].msg < n
        BY <2>10, <3>2, <4>1
      <4> QED BY <2>6, <2>8, <4>1, <4>2, <4>3, <4>4
    <3> QED BY <3>1, <3>2
  <2>12. SaysFollow'
    <3> SUFFICES ASSUME NEW b \in Addresses, There(b)', NEW i \in 1..Len(win'[b].queue), win'[b].queue[i].what = "SAY"
                 PROVE  /\ win'[b].queue[i].msg <= typed[win'[b].who] /\ Below(sent[win'[b].who], win'[b].queue[i].msg)
                        /\ \A j \in 1..Len(queue') : queue'[j].what = "SEND" /\ queue'[j].who = win'[b].who
                               => queue'[j].msg < win'[b].queue[i].msg
                        /\ \A j \in 1..Len(win'[b].queue) : i < j /\ win'[b].queue[j].what = "SAY"
                               => win'[b].queue[i].msg < win'[b].queue[j].msg
      BY <2>1 DEF SaysFollow, Below
    <3>0. \A j \in 1..Len(queue') : j = Len(queue) + 1 \/ j \in 1..Len(queue)
      BY <2>8
    <3>1. CASE b = a
      <4>1. i + 1 \in 1..Len(win[a].queue) /\ 1 < i + 1 /\ win'[a].queue[i] = win[a].queue[i + 1] /\ win'[a].who = c
        <5>1. i \in 1..Len(win'[a].queue)
          BY <3>1
        <5>2. win'[a].queue[i] = win[a].queue[i + 1]
          BY <2>3, <5>1
        <5>3. i + 1 \in 1..Len(win[a].queue) /\ 1 < i + 1
          BY <2>3, <5>1
        <5> QED BY <2>2, <2>4, <5>2, <5>3 DEF Shortened
      <4>2. /\ win[a].queue[i + 1].msg <= typed[c] /\ Below(sent[c], win[a].queue[i + 1].msg)
            /\ \A j \in 1..Len(queue) : queue[j].what = "SEND" /\ queue[j].who = c
                   => queue[j].msg < win[a].queue[i + 1].msg
            /\ \A j \in 1..Len(win[a].queue) : i + 1 < j /\ win[a].queue[j].what = "SAY"
                   => win[a].queue[i + 1].msg < win[a].queue[j].msg
        BY <2>4, <2>9, <3>1, <4>1 DEF Sent, SaysFollow
      <4>3. n < win[a].queue[i + 1].msg
        BY <2>10, <3>1, <4>1
      <4>4. \A j \in 1..Len(win'[a].queue) : i < j => i + 1 < j + 1 /\ j + 1 \in 1..Len(win[a].queue)
        BY <2>3
      <4>5. \A j \in 1..Len(win'[a].queue) : i < j /\ win'[a].queue[j].what = "SAY"
                => win'[a].queue[i].msg < win'[a].queue[j].msg
        BY <2>3, <4>1, <4>2, <4>4
      <4>6. \A j \in 1..Len(queue') : queue'[j].what = "SEND" /\ queue'[j].who = c
                => queue'[j].msg < win'[a].queue[i].msg
        BY <2>6, <2>8, <3>0, <4>1, <4>2, <4>3
      <4> QED BY <3>1, <4>1, <4>2, <4>5, <4>6
    <3>2. CASE b # a
      <4>1. There(b) /\ win'[b] = win[b]
        BY <2>2, <3>2 DEF Shortened, Apart, There
      <4>2. win[b].who # c
        BY <2>4, <2>9, <3>2, <4>1 DEF OnePerContact
      <4>3. /\ win[b].queue[i].msg <= typed[win[b].who] /\ Below(sent[win[b].who], win[b].queue[i].msg)
            /\ \A j \in 1..Len(queue) : queue[j].what = "SEND" /\ queue[j].who = win[b].who
                   => queue[j].msg < win[b].queue[i].msg
            /\ \A j \in 1..Len(win[b].queue) : i < j /\ win[b].queue[j].what = "SAY"
                   => win[b].queue[i].msg < win[b].queue[j].msg
        BY <4>1 DEF Sent, SaysFollow
      <4>4. \A j \in 1..Len(queue') : queue'[j].what = "SEND" /\ queue'[j].who = win[b].who
                => queue'[j].msg < win[b].queue[i].msg
        BY <2>6, <2>8, <3>0, <4>2, <4>3
      <4> QED BY <4>1, <4>3, <4>4
    <3> QED BY <3>1, <3>2
  <2> QED BY <2>1, <2>11, <2>12 DEF Sent, SentInOrder, SentAreTyped, Below
<1>4. ASSUME NEW a \in Addresses, UserTypes(a) PROVE Sent'
  <2> DEFINE m == [what |-> "SAY", msg |-> typed'[win[a].who]]
  <2>1. /\ UNCHANGED <<queue, sent>> /\ There(a) /\ win' = [win EXCEPT ![a].queue = Append(@, m)]
        /\ typed' = [typed EXCEPT ![win[a].who] = @ + 1]
    BY <1>4 DEF UserTypes, looperVars
  <2>2. PICK c \in Contacts : c = win[a].who
    BY <1>0, <2>1, WindowFacts
  <2>3. typed[c] \in Nat /\ typed'[c] = typed[c] + 1 /\ \A e \in Contacts : typed[e] \in Nat /\ typed[e] <= typed'[e]
    BY <1>0, <2>1, <2>2
  <2>4. m \in WindowMessages /\ m.what = "SAY" /\ m.msg = typed[c] + 1
    BY <2>2, <2>3 DEF WindowMessages
  <2> HIDE DEF m
  <2>5. Appended(a, m)
    BY <1>0, <2>1, <2>4, AppendWindow
  <2>6. /\ Len(win[a].queue) \in Nat /\ Len(win'[a].queue) = Len(win[a].queue) + 1
        /\ win'[a].queue[Len(win[a].queue) + 1] = m
        /\ \A i \in 1..Len(win[a].queue) : win'[a].queue[i] = win[a].queue[i] /\ win[a].queue[i] \in WindowMessages
    BY <1>0, <2>4, <2>5, WindowAppended
  <2>7. \A e \in Contacts : Len(sent[e]) \in Nat /\ \A k \in 1..Len(sent[e]) : sent[e][k] \in Nat
    BY <1>0, LenProperties, ElementOfSeq
  <2>8. SentAreTyped'
    BY <2>1, <2>3, <2>7 DEF Sent, SentAreTyped, Below
  <2>9. \A i \in 1..Len(queue) : queue[i] \in NetworkMessages
    BY TypesNow, ElementOfSeq
  <2>10. \A i \in 1..Len(queue) : queue[i].what = "SEND" => queue[i].who \in Contacts /\ queue[i].msg \in Nat
    BY <2>9, NetworkMessage
  <2>11. SendsFollow'
    <3>1. \A i \in 1..Len(queue) : queue[i].what = "SEND" => queue[i].msg <= typed'[queue[i].who]
      <4> SUFFICES ASSUME NEW i \in 1..Len(queue), queue[i].what = "SEND"
                   PROVE  queue[i].msg <= typed'[queue[i].who]
        OBVIOUS
      <4>1. queue[i].msg <= typed[queue[i].who]
        BY DEF Sent, SendsFollow
      <4>2. queue[i].who \in Contacts /\ queue[i].msg \in Nat
        BY <2>10
      <4>3. typed[queue[i].who] \in Nat /\ typed'[queue[i].who] \in Nat /\ typed[queue[i].who] <= typed'[queue[i].who]
        BY <1>0, <2>1, <2>2, <2>3, <4>2
      <4> QED BY <4>1, <4>2, <4>3
    <3> QED BY <2>1, <3>1 DEF Sent, SendsFollow, Below
  <2>12. SaysFollow'
    <3> SUFFICES ASSUME NEW b \in Addresses, There(b)', NEW i \in 1..Len(win'[b].queue), win'[b].queue[i].what = "SAY"
                 PROVE  /\ win'[b].queue[i].msg <= typed'[win'[b].who] /\ Below(sent[win'[b].who], win'[b].queue[i].msg)
                        /\ \A j \in 1..Len(queue) : queue[j].what = "SEND" /\ queue[j].who = win'[b].who
                               => queue[j].msg < win'[b].queue[i].msg
                        /\ \A j \in 1..Len(win'[b].queue) : i < j /\ win'[b].queue[j].what = "SAY"
                               => win'[b].queue[i].msg < win'[b].queue[j].msg
      BY <2>1 DEF SaysFollow, Below
    <3>1. CASE b # a
      <4>1. There(b) /\ win'[b] = win[b]
        BY <2>5, <3>1 DEF Appended, Apart, There
      <4>2. win[b].who \in Contacts /\ win[b].queue \in Seq(WindowMessages)
        BY <1>0, <4>1, WindowFacts
      <4>3. win[b].queue[i] \in WindowMessages
        BY <4>1, <4>2, ElementOfSeq
      <4>4. win[b].queue[i].msg \in Nat
        BY <4>1, <4>3, WindowMessage
      <4>5. win[b].queue[i].msg <= typed'[win[b].who]
        <5>1. win[b].queue[i].msg <= typed[win[b].who]
          BY <4>1 DEF Sent, SaysFollow
        <5>2. typed[win[b].who] \in Nat /\ typed'[win[b].who] \in Nat /\ typed[win[b].who] <= typed'[win[b].who]
          BY <1>0, <2>1, <2>2, <2>3, <4>2
        <5> QED BY <4>4, <5>1, <5>2
      <4> QED BY <4>1, <4>5 DEF Sent, SaysFollow
    <3>2. CASE b = a /\ i = Len(win[a].queue) + 1
      <4>1. win'[a].queue[i].msg = typed[c] + 1 /\ win'[a].who = c
        BY <2>2, <2>4, <2>5, <2>6, <3>2 DEF Appended
      <4>2. \A j \in 1..Len(win'[a].queue) : ~(i < j)
        BY <2>6, <3>2
      <4>3. \A j \in 1..Len(queue) : queue[j].what = "SEND" /\ queue[j].who = c => queue[j].msg < typed[c] + 1
        <5>1. \A j \in 1..Len(queue) : queue[j].what = "SEND" /\ queue[j].who = c => queue[j].msg <= typed[c]
          BY DEF Sent, SendsFollow
        <5> QED BY <2>3, <2>10, <5>1
      <4>4. Below(sent[c], typed[c] + 1)
        BY DEF Sent, SentAreTyped
      <4> QED BY <2>3, <3>2, <4>1, <4>2, <4>3, <4>4
    <3>3. CASE b = a /\ i # Len(win[a].queue) + 1
      <4>1. i \in 1..Len(win[a].queue) /\ win'[a].queue[i] = win[a].queue[i] /\ win'[a].who = c
        BY <2>2, <2>5, <2>6, <3>3 DEF Appended
      <4>2. win[a].queue[i].msg \in Nat
        BY <2>6, <3>3, <4>1, WindowMessage
      <4>3. /\ win[a].queue[i].msg <= typed[c] /\ Below(sent[c], win[a].queue[i].msg)
            /\ \A j \in 1..Len(queue) : queue[j].what = "SEND" /\ queue[j].who = c
                   => queue[j].msg < win[a].queue[i].msg
            /\ \A j \in 1..Len(win[a].queue) : i < j /\ win[a].queue[j].what = "SAY"
                   => win[a].queue[i].msg < win[a].queue[j].msg
        BY <2>1, <2>2, <3>3, <4>1 DEF Sent, SaysFollow
      <4>4. win[a].queue[i].msg < typed[c] + 1 /\ win[a].queue[i].msg <= typed'[c]
        BY <2>3, <4>2, <4>3
      <4>5. \A j \in 1..Len(win'[a].queue) : j = Len(win[a].queue) + 1 \/ j \in 1..Len(win[a].queue)
        BY <2>6
      <4>6. \A j \in 1..Len(win'[a].queue) : i < j /\ win'[a].queue[j].what = "SAY"
                => win'[a].queue[i].msg < win'[a].queue[j].msg
        BY <2>4, <2>6, <4>1, <4>3, <4>4, <4>5
      <4> QED BY <3>3, <4>1, <4>3, <4>4, <4>6
    <3> QED BY <3>1, <3>2, <3>3
  <2> QED BY <2>1, <2>8, <2>11, <2>12 DEF Sent, SentInOrder
<1>5. CASE ~SendMsg /\ \A a \in Addresses : ~BeggSend(a) /\ ~UserTypes(a)
  <2>1. Kept("SEND")
    BY <1>5, QueueKept
  <2>2. WinKept({"SAY"})
    BY <1>5, WindowsKept
  <2>3. UNCHANGED <<sent, typed>>
    BY <1>5 DEF Next, vars, NetworkStep, OpenMessage, GotMsg, CloseMessage, Closed,
       QuitBegins, QuitStep, QuitCounts, QuitLocks, QuitWaits, QuitEmpties, QuitLoops, QuitEnds,
       Environment, UserOpens, Receive, UserCloses, SessionChanges, histVars,
       WindowStep, ShowMessage, QuitRequested, Quit
  <2> QED BY <2>1, <2>2, <2>3, SaysKept, SendsKept DEF Sent, SentInOrder, SentAreTyped, Below
<1> QED BY <1>1, <1>2, <1>3, <1>4, <1>5

-------------------------------------------------------------------------------
(***************************************************************************)
(* What is heard.  The numbers of a contact's messages that were received  *)
(* and not yet shown are those in the window's queue and, after them, those *)
(* in Network's; none is missing unless the window goes while Network quits.*)
(***************************************************************************)
ShownAreGot == \A c \in Contacts : Len(shown[c]) <= got[c]
GotsFollow ==
    \A i \in 1..Len(queue) : queue[i].what = "GOT" =>
        /\ Len(shown[queue[i].who]) < queue[i].msg /\ queue[i].msg <= got[queue[i].who]
        /\ \A j \in 1..Len(queue) :
               i < j /\ queue[j].what = "GOT" /\ queue[j].who = queue[i].who => queue[i].msg < queue[j].msg
ShowsFollow ==
    \A a \in Addresses : There(a) => \A i \in 1..Len(win[a].queue) : win[a].queue[i].what = "SHOW" =>
        /\ Len(shown[win[a].who]) < win[a].queue[i].msg /\ win[a].queue[i].msg <= got[win[a].who]
        /\ \A j \in 1..Len(queue) :
               queue[j].what = "GOT" /\ queue[j].who = win[a].who => win[a].queue[i].msg < queue[j].msg
        /\ \A j \in 1..Len(win[a].queue) :
               i < j /\ win[a].queue[j].what = "SHOW" => win[a].queue[i].msg < win[a].queue[j].msg
QuitIsLast ==
    ~Quitting => \A a \in Addresses : There(a) => \A i, j \in 1..Len(win[a].queue) :
        win[a].queue[i].what = "QUIT" /\ win[a].queue[j].what = "SHOW" => j < i

Waits(c, n) ==
    \/ \E i \in 1..Len(queue) : queue[i].what = "GOT" /\ queue[i].who = c /\ queue[i].msg = n
    \/ \E a \in Addresses : There(a) /\ win[a].who = c /\ \E i \in 1..Len(win[a].queue) :
           win[a].queue[i].what = "SHOW" /\ win[a].queue[i].msg = n
HasWindow(c) == \E a \in Addresses : There(a) /\ win[a].who = c
NothingMissing ==
    \A c \in Contacts : ~undefined /\ (~Quitting \/ HasWindow(c)) =>
        \A n \in Nat : Len(shown[c]) < n /\ n <= got[c] => Waits(c, n)

Shown == ShownInOrder /\ ShownAreGot /\ GotsFollow /\ ShowsFollow /\ QuitIsLast /\ NothingMissing

LEMMA InitShown == Init => Shown
BY DEF Init, Shown, ShownInOrder, ShownAreGot, GotsFollow, ShowsFollow, QuitIsLast, NothingMissing,
       There, Gone, Numbers

LEMMA GotsKept ==
    ASSUME Shown, UNCHANGED <<got, shown>>, Kept("GOT")
    PROVE  GotsFollow'
<1>1. PICK d \in {0, 1} : \A j \in 1..Len(queue') : queue'[j].what = "GOT" =>
            j + d \in 1..Len(queue) /\ queue'[j] = queue[j + d]
  BY DEF Kept
<1>2. SUFFICES ASSUME NEW i \in 1..Len(queue'), queue'[i].what = "GOT"
               PROVE  /\ Len(shown[queue'[i].who]) < queue'[i].msg /\ queue'[i].msg <= got[queue'[i].who]
                      /\ \A j \in 1..Len(queue') : i < j /\ queue'[j].what = "GOT" /\ queue'[j].who = queue'[i].who
                             => queue'[i].msg < queue'[j].msg
  BY DEF GotsFollow
<1>3. i + d \in 1..Len(queue) /\ queue'[i] = queue[i + d]
  BY <1>1, <1>2
<1>4. /\ Len(shown[queue[i + d].who]) < queue[i + d].msg /\ queue[i + d].msg <= got[queue[i + d].who]
      /\ \A j \in 1..Len(queue) : i + d < j /\ queue[j].what = "GOT" /\ queue[j].who = queue[i + d].who
             => queue[i + d].msg < queue[j].msg
  BY <1>2, <1>3 DEF Shown, GotsFollow
<1>5. \A j \in 1..Len(queue') : i < j => i + d < j + d
  OBVIOUS
<1> QED BY <1>1, <1>3, <1>4, <1>5

\* A window whose queue is what it was, for the messages that it shows.
LEMMA WindowShows ==
    ASSUME Shown, NEW a \in Addresses, NEW d \in {0, 1}, There(a), win'[a].who = win[a].who,
           \A i \in 1..Len(win'[a].queue) : win'[a].queue[i].what = "SHOW" =>
               i + d \in 1..Len(win[a].queue) /\ win'[a].queue[i] = win[a].queue[i + d],
           NEW i \in 1..Len(win'[a].queue), win'[a].queue[i].what = "SHOW"
    PROVE  /\ Len(shown[win'[a].who]) < win'[a].queue[i].msg /\ win'[a].queue[i].msg <= got[win'[a].who]
           /\ \A j \in 1..Len(queue) : queue[j].what = "GOT" /\ queue[j].who = win'[a].who
                  => win'[a].queue[i].msg < queue[j].msg
           /\ \A j \in 1..Len(win'[a].queue) : i < j /\ win'[a].queue[j].what = "SHOW"
                  => win'[a].queue[i].msg < win'[a].queue[j].msg
           /\ i + d \in 1..Len(win[a].queue) /\ win'[a].queue[i] = win[a].queue[i + d]
<1>1. i + d \in 1..Len(win[a].queue) /\ win'[a].queue[i] = win[a].queue[i + d]
  OBVIOUS
<1>2. /\ Len(shown[win[a].who]) < win[a].queue[i + d].msg /\ win[a].queue[i + d].msg <= got[win[a].who]
      /\ \A j \in 1..Len(queue) :
             queue[j].what = "GOT" /\ queue[j].who = win[a].who => win[a].queue[i + d].msg < queue[j].msg
      /\ \A j \in 1..Len(win[a].queue) :
             i + d < j /\ win[a].queue[j].what = "SHOW" => win[a].queue[i + d].msg < win[a].queue[j].msg
  BY <1>1 DEF Shown, ShowsFollow
<1>3. \A j \in 1..Len(win'[a].queue) : i < j => i + d < j + d
  OBVIOUS
<1>4. \A j \in 1..Len(win'[a].queue) : i < j /\ win'[a].queue[j].what = "SHOW"
          => win'[a].queue[i].msg < win'[a].queue[j].msg
  BY <1>1, <1>2, <1>3
<1> QED BY <1>1, <1>2, <1>4

LEMMA ShowsKept ==
    ASSUME Shown, WinKept({"SHOW"}), UNCHANGED <<got, shown>>, Kept("GOT")
    PROVE  ShowsFollow'
<1>1. SUFFICES ASSUME NEW a \in Addresses, There(a)', NEW i \in 1..Len(win'[a].queue), win'[a].queue[i].what = "SHOW"
               PROVE  /\ Len(shown[win'[a].who]) < win'[a].queue[i].msg /\ win'[a].queue[i].msg <= got[win'[a].who]
                      /\ \A j \in 1..Len(queue') : queue'[j].what = "GOT" /\ queue'[j].who = win'[a].who
                             => win'[a].queue[i].msg < queue'[j].msg
                      /\ \A j \in 1..Len(win'[a].queue) : i < j /\ win'[a].queue[j].what = "SHOW"
                             => win'[a].queue[i].msg < win'[a].queue[j].msg
  BY DEF ShowsFollow
<1>2. PICK d \in {0, 1} : \A j \in 1..Len(win'[a].queue) : win'[a].queue[j].what = "SHOW" =>
            /\ There(a) /\ win'[a].who = win[a].who
            /\ j + d \in 1..Len(win[a].queue) /\ win'[a].queue[j] = win[a].queue[j + d]
  BY <1>1 DEF WinKept
<1>3. /\ Len(shown[win'[a].who]) < win'[a].queue[i].msg /\ win'[a].queue[i].msg <= got[win'[a].who]
      /\ \A j \in 1..Len(queue) : queue[j].what = "GOT" /\ queue[j].who = win'[a].who
             => win'[a].queue[i].msg < queue[j].msg
      /\ \A j \in 1..Len(win'[a].queue) : i < j /\ win'[a].queue[j].what = "SHOW"
             => win'[a].queue[i].msg < win'[a].queue[j].msg
  BY <1>1, <1>2, WindowShows
<1>4. PICK e \in {0, 1} : \A j \in 1..Len(queue') : queue'[j].what = "GOT" =>
            j + e \in 1..Len(queue) /\ queue'[j] = queue[j + e]
  BY DEF Kept
<1> QED BY <1>3, <1>4

LEMMA MissingKept ==
    ASSUME Shown, Kept("GOT"), WinStays({"SHOW"}), UNCHANGED <<got, shown>>, undefined => undefined',
           Quitting => Quitting', \A c \in Contacts : HasWindow(c)' => HasWindow(c) \/ ~Quitting
    PROVE  NothingMissing'
<1> SUFFICES ASSUME NEW c \in Contacts, ~undefined', ~Quitting' \/ HasWindow(c)',
                    NEW n \in Nat, Len(shown[c]) < n, n <= got[c]
             PROVE  Waits(c, n)'
  BY DEF NothingMissing
<1>1. Waits(c, n)
  BY DEF Shown, NothingMissing
<1>2. CASE \E i \in 1..Len(queue) : queue[i].what = "GOT" /\ queue[i].who = c /\ queue[i].msg = n
  BY <1>2 DEF Kept, Waits
<1>3. CASE \E a \in Addresses : There(a) /\ win[a].who = c /\ \E i \in 1..Len(win[a].queue) :
               win[a].queue[i].what = "SHOW" /\ win[a].queue[i].msg = n
  <2>1. PICK a \in Addresses : There(a) /\ win[a].who = c /\ \E i \in 1..Len(win[a].queue) :
               win[a].queue[i].what = "SHOW" /\ win[a].queue[i].msg = n
    BY <1>3
  <2>2. PICK i \in 1..Len(win[a].queue) : win[a].queue[i].what = "SHOW" /\ win[a].queue[i].msg = n
    BY <2>1
  <2>3. There(a)' /\ win'[a].who = c /\ \E j \in 1..Len(win'[a].queue) : win'[a].queue[j] = win[a].queue[i]
    BY <2>1, <2>2 DEF WinStays
  <2> QED BY <2>2, <2>3 DEF Waits
<1> QED BY <1>1, <1>2, <1>3 DEF Waits

\* GotMsg moves its message to the end of the contact's window, or of a new one.
Gains(a, c, m) ==
    /\ Apart(a) /\ There(a)' /\ win'[a].who = c
    /\ \E L \in Nat :
          /\ Len(win'[a].queue) = L + 1 /\ win'[a].queue[L + 1] = m
          /\ There(a) => win[a].who = c /\ Len(win[a].queue) = L
          /\ \A i \in 1..L : There(a) /\ win'[a].queue[i] = win[a].queue[i]

LEMMA GotMsgGains ==
    ASSUME Structure, GotMsg
    PROVE  \E c \in Contacts : \E n \in Nat : \E m \in WindowMessages :
               /\ queue[1].who = c /\ queue[1].msg = n /\ m.what = "SHOW" /\ m.msg = n
               /\ \/ undefined' /\ Quitting /\ UNCHANGED win
                  \/ \E a \in Addresses : Gains(a, c, m) /\ (There(a) \/ ~Quitting)
<1> USE DEF Structure
<1>0. WinType
  BY TypesNow
<1>1. Message \in NetworkMessages /\ Message.what = "GOT" /\ closing = None /\ Message = queue[1]
  BY QueueTaken DEF GotMsg, Handles, Idle
<1>2. PICK c \in Contacts : c = Message.who
  BY <1>1, NetworkMessage
<1>3. PICK n \in Nat : n = Message.msg
  BY <1>1, NetworkMessage
<1>4. PICK m \in WindowMessages : m = [what |-> "SHOW", msg |-> Message.msg]
  BY <1>3 DEF WindowMessages
<1>5. m.what = "SHOW" /\ m.msg = n
  BY <1>3, <1>4
<1>6. GetMesgWinForUser(c, <<m>>) /\ <<m>> \in Seq(WindowMessages)
  BY <1>2, <1>4 DEF GotMsg
<1>7. \/ undefined' /\ Quitting /\ UNCHANGED win
      \/ \E a \in Addresses : Gains(a, c, m) /\ (There(a) \/ ~Quitting)
  <2>1. CASE undefined' /\ Quitting /\ UNCHANGED <<iWinList, win, asked, again>>
    BY <2>1
  <2>2. ASSUME NEW a \in Addresses, There(a), win[a].who = c, win' = [win EXCEPT ![a].queue = @ \o <<m>>]
        PROVE  Gains(a, c, m)
    <3>1. win[a].queue \o <<m>> = Append(win[a].queue, m)
      BY <1>0, <2>2, WindowFacts, AppendIsConcat
    <3>2. Appended(a, m)
      BY <1>0, <2>2, <3>1, AppendWindow
    <3>3. /\ Len(win[a].queue) \in Nat /\ Len(win'[a].queue) = Len(win[a].queue) + 1
          /\ win'[a].queue[Len(win[a].queue) + 1] = m
          /\ \A i \in 1..Len(win[a].queue) : win'[a].queue[i] = win[a].queue[i]
      BY <1>0, <3>2, WindowAppended
    <3> QED BY <2>2, <3>2, <3>3 DEF Gains, Appended
  <2>3. ASSUME NEW a \in Addresses, ~There(a), win' = [win EXCEPT ![a] = Opened(c, <<m>>)]
        PROVE  Gains(a, c, m)
    <3>1. Apart(a) /\ There(a)' /\ win'[a].who = c /\ win'[a].queue = <<m>>
      BY <1>0, <1>6, <2>3, OpenWindow
    <3>2. 0 \in Nat /\ Len(win'[a].queue) = 0 + 1 /\ win'[a].queue[0 + 1] = m
      BY <3>1
    <3>3. \E L \in Nat :
            /\ Len(win'[a].queue) = L + 1 /\ win'[a].queue[L + 1] = m
            /\ There(a) => win[a].who = c /\ Len(win[a].queue) = L
            /\ \A i \in 1..L : There(a) /\ win'[a].queue[i] = win[a].queue[i]
      <4>1. \A i \in 1..0 : There(a) /\ win'[a].queue[i] = win[a].queue[i]
        OBVIOUS
      <4> QED BY <2>3, <3>2, <4>1
    <3> QED BY <3>1, <3>3 DEF Gains
  <2> QED BY <1>1, <1>6, <2>1, <2>2, <2>3, Delivery
<1> QED BY <1>1, <1>2, <1>3, <1>5, <1>7

LEMMA ShownGotMsg == ASSUME Structure, Shown, GotMsg PROVE Shown'
<1> USE DEF Structure
<1>0. WinType /\ shown \in [Contacts -> Seq(Nat)] /\ got \in [Contacts -> Nat]
  BY TypesNow
<1>1. UNCHANGED <<got, shown>> /\ Quitting' = Quitting /\ (undefined => undefined') /\ Handles("GOT")
  BY DEF GotMsg, histVars, Quitting, Handles, Idle
<1>2. /\ Len(queue) \in Nat \ {0} /\ Len(queue') = Len(queue) - 1 /\ queue[1].what = "GOT"
      /\ \A i \in 1..Len(queue) : queue[i] \in NetworkMessages
      /\ \A i \in 1..Len(queue') : queue'[i] = queue[i + 1] /\ i + 1 \in 1..Len(queue) /\ 1 < i + 1
  <2>1. /\ Len(queue) \in Nat \ {0} /\ Len(queue') = Len(queue) - 1 /\ queue[1].what = "GOT"
        /\ \A i \in 1..Len(queue) : queue[i] \in NetworkMessages
        /\ \A i \in 1..Len(queue') : queue'[i] = queue[i + 1]
    BY <1>1, QueueTaken DEF Handles
  <2> QED BY <2>1
<1>3. PICK c \in Contacts, n \in Nat, m \in WindowMessages :
               /\ queue[1].who = c /\ queue[1].msg = n /\ m.what = "SHOW" /\ m.msg = n
               /\ \/ undefined' /\ Quitting /\ UNCHANGED win
                  \/ \E a \in Addresses : Gains(a, c, m) /\ (There(a) \/ ~Quitting)
  BY GotMsgGains
<1>4. /\ Len(shown[c]) < n /\ n <= got[c]
      /\ \A j \in 1..Len(queue) : 1 < j /\ queue[j].what = "GOT" /\ queue[j].who = c => n < queue[j].msg
      /\ \A a \in Addresses : There(a) /\ win[a].who = c => \A i \in 1..Len(win[a].queue) :
             win[a].queue[i].what = "SHOW" => win[a].queue[i].msg < n
  <2>1. 1 \in 1..Len(queue)
    BY <1>2
  <2> QED BY <1>2, <1>3, <2>1 DEF Shown, GotsFollow, ShowsFollow
<1>5. GotsFollow'
  <2> SUFFICES ASSUME NEW i \in 1..Len(queue'), queue'[i].what = "GOT"
               PROVE  /\ Len(shown[queue'[i].who]) < queue'[i].msg /\ queue'[i].msg <= got[queue'[i].who]
                      /\ \A j \in 1..Len(queue') : i < j /\ queue'[j].what = "GOT" /\ queue'[j].who = queue'[i].who
                             => queue'[i].msg < queue'[j].msg
    BY <1>1 DEF GotsFollow
  <2>1. queue'[i] = queue[i + 1] /\ i + 1 \in 1..Len(queue)
    BY <1>2
  <2>2. /\ Len(shown[queue[i + 1].who]) < queue[i + 1].msg /\ queue[i + 1].msg <= got[queue[i + 1].who]
        /\ \A j \in 1..Len(queue) : i + 1 < j /\ queue[j].what = "GOT" /\ queue[j].who = queue[i + 1].who
               => queue[i + 1].msg < queue[j].msg
    BY <2>1 DEF Shown, GotsFollow
  <2>3. \A j \in 1..Len(queue') : i < j => i + 1 < j + 1
    OBVIOUS
  <2> QED BY <1>2, <2>1, <2>2, <2>3
<1>6. CASE undefined' /\ Quitting /\ UNCHANGED win
  <2>1. ShowsFollow'
    <3>1. \A j \in 1..Len(queue') : queue'[j] = queue[j + 1] /\ j + 1 \in 1..Len(queue)
      BY <1>2
    <3>2. \A a \in Addresses : There(a) => \A i \in 1..Len(win[a].queue) : win[a].queue[i].what = "SHOW" =>
            /\ Len(shown[win[a].who]) < win[a].queue[i].msg /\ win[a].queue[i].msg <= got[win[a].who]
            /\ \A j \in 1..Len(queue') :
                   queue'[j].what = "GOT" /\ queue'[j].who = win[a].who => win[a].queue[i].msg < queue'[j].msg
            /\ \A j \in 1..Len(win[a].queue) :
                   i < j /\ win[a].queue[j].what = "SHOW" => win[a].queue[i].msg < win[a].queue[j].msg
      BY <3>1 DEF ShowsFollow, Shown
    <3> QED BY <1>1, <1>6, <3>2 DEF ShowsFollow, There
  <2> QED BY <1>1, <1>5, <1>6, <2>1 DEF Shown, ShownInOrder, ShownAreGot, QuitIsLast, NothingMissing
<1>7. ASSUME NEW a \in Addresses, Gains(a, c, m), There(a) \/ ~Quitting PROVE Shown'
  <2>1. \A b \in Addresses \ {a} : There(b)' = There(b) /\ win'[b] = win[b]
    BY <1>7 DEF Gains, Apart, There
  <2>2. PICK L \in Nat : /\ Len(win'[a].queue) = L + 1 /\ win'[a].queue[L + 1] = m
                         /\ There(a) => win[a].who = c /\ Len(win[a].queue) = L
                         /\ \A i \in 1..L : There(a) /\ win'[a].queue[i] = win[a].queue[i]
    BY <1>7 DEF Gains
  <2>3. There(a)' /\ win'[a].who = c
    BY <1>7 DEF Gains
  <2>4. ShowsFollow'
    <3> SUFFICES ASSUME NEW b \in Addresses, There(b)', NEW i \in 1..Len(win'[b].queue), win'[b].queue[i].what = "SHOW"
                 PROVE  /\ Len(shown[win'[b].who]) < win'[b].queue[i].msg /\ win'[b].queue[i].msg <= got[win'[b].who]
                        /\ \A j \in 1..Len(queue') : queue'[j].what = "GOT" /\ queue'[j].who = win'[b].who
                               => win'[b].queue[i].msg < queue'[j].msg
                        /\ \A j \in 1..Len(win'[b].queue) : i < j /\ win'[b].queue[j].what = "SHOW"
                               => win'[b].queue[i].msg < win'[b].queue[j].msg
      BY <1>1 DEF ShowsFollow
    <3>1. CASE b # a
      <4>1. There(b) /\ win'[b] = win[b]
        BY <2>1, <3>1
      <4>2. /\ Len(shown[win[b].who]) < win[b].queue[i].msg /\ win[b].queue[i].msg <= got[win[b].who]
            /\ \A j \in 1..Len(queue) : queue[j].what = "GOT" /\ queue[j].who = win[b].who
                   => win[b].queue[i].msg < queue[j].msg
            /\ \A j \in 1..Len(win[b].queue) : i < j /\ win[b].queue[j].what = "SHOW"
                   => win[b].queue[i].msg < win[b].queue[j].msg
        BY <4>1 DEF Shown, ShowsFollow
      <4>3. \A j \in 1..Len(queue') : queue'[j] = queue[j + 1] /\ j + 1 \in 1..Len(queue)
        BY <1>2
      <4> QED BY <4>1, <4>2, <4>3
    <3>2. CASE b = a /\ i = L + 1
      <4>1. \A j \in 1..Len(win'[a].queue) : ~(i < j)
        BY <2>2, <3>2
      <4>2. \A j \in 1..Len(queue') : queue'[j].what = "GOT" /\ queue'[j].who = c => n < queue'[j].msg
        BY <1>2, <1>4
      <4> QED BY <1>3, <1>4, <2>2, <2>3, <3>2, <4>1, <4>2
    <3>3. CASE b = a /\ i # L + 1
      <4>1. i \in 1..L
        BY <2>2, <3>3
      <4>2. There(a) /\ win'[a].queue[i] = win[a].queue[i] /\ win[a].who = c /\ Len(win[a].queue) = L
        BY <2>2, <4>1
      <4>3. /\ Len(shown[c]) < win[a].queue[i].msg /\ win[a].queue[i].msg <= got[c]
            /\ \A j \in 1..Len(queue) :
                   queue[j].what = "GOT" /\ queue[j].who = c => win[a].queue[i].msg < queue[j].msg
            /\ \A j \in 1..Len(win[a].queue) :
                   i < j /\ win[a].queue[j].what = "SHOW" => win[a].queue[i].msg < win[a].queue[j].msg
        BY <3>3, <4>1, <4>2 DEF Shown, ShowsFollow
      <4>4. win[a].queue[i].msg < n
        BY <1>4, <3>3, <4>1, <4>2
      <4>5. \A j \in 1..Len(win'[a].queue) : j = L + 1 \/ j \in 1..L
        BY <2>2
      <4>6. \A j \in 1..Len(win'[a].queue) : i < j /\ win'[a].queue[j].what = "SHOW"
                => win'[a].queue[i].msg < win'[a].queue[j].msg
        BY <1>3, <2>2, <4>2, <4>3, <4>4, <4>5
      <4>7. \A j \in 1..Len(queue') : queue'[j].what = "GOT" /\ queue'[j].who = c
                => win'[a].queue[i].msg < queue'[j].msg
        BY <1>2, <4>2, <4>3
      <4> QED BY <2>3, <3>3, <4>2, <4>3, <4>6, <4>7
    <3> QED BY <3>1, <3>2, <3>3
  <2>5. QuitIsLast'
    <3> SUFFICES ASSUME ~Quitting, NEW b \in Addresses, There(b)', NEW i \in 1..Len(win'[b].queue), NEW j \in 1..Len(win'[b].queue),
                        win'[b].queue[i].what = "QUIT", win'[b].queue[j].what = "SHOW"
                 PROVE  j < i
      BY <1>1 DEF QuitIsLast
    <3>1. CASE b # a
      BY <2>1, <3>1 DEF Shown, QuitIsLast
    <3>2. CASE b = a
      <4>1. i # L + 1
        BY <1>3, <2>2, <3>2
      <4>2. i \in 1..L
        BY <2>2, <3>2, <4>1
      <4>3. There(a) /\ i \in 1..Len(win[a].queue) /\ win[a].queue[i].what = "QUIT"
        BY <2>2, <3>2, <4>2
      <4>4. a = closing /\ closing = None
        BY <1>1, <4>3 DEF ToldToQuit, Handles, Idle
      <4> QED BY <4>4, ChatsAssumption
    <3> QED BY <3>1, <3>2
  <2>6. NothingMissing'
    <3> SUFFICES ASSUME NEW e \in Contacts, ~undefined', ~Quitting \/ HasWindow(e)',
                        NEW k \in Nat, Len(shown[e]) < k, k <= got[e]
                 PROVE  Waits(e, k)'
      BY <1>1 DEF NothingMissing
    <3>1. ~Quitting \/ HasWindow(e)
      <4> SUFFICES ASSUME Quitting PROVE HasWindow(e)
        OBVIOUS
      <4>1. PICK b \in Addresses : There(b)' /\ win'[b].who = e
        BY DEF HasWindow
      <4>2. CASE b = a
        BY <1>7, <2>2, <2>3, <4>1, <4>2 DEF HasWindow
      <4>3. CASE b # a
        BY <2>1, <4>1, <4>3 DEF HasWindow
      <4> QED BY <4>2, <4>3
    <3>2. Waits(e, k)
      BY <1>1, <3>1 DEF Shown, NothingMissing
    <3>3. ASSUME NEW i \in 1..Len(queue), queue[i].what = "GOT", queue[i].who = e, queue[i].msg = k
          PROVE  Waits(e, k)'
      <4>1. CASE i = 1
        <5>1. L + 1 \in 1..Len(win'[a].queue)
          BY <2>2
        <5>2. win'[a].queue[L + 1].what = "SHOW" /\ win'[a].queue[L + 1].msg = k /\ win'[a].who = e
          BY <1>3, <2>2, <2>3, <3>3, <4>1
        <5> QED BY <2>3, <5>1, <5>2 DEF Waits
      <4>2. CASE i # 1
        <5>1. i - 1 \in 1..Len(queue') /\ (i - 1) + 1 = i
          BY <1>2, <4>2
        <5>2. queue'[i - 1] = queue[i]
          BY <1>2, <5>1
        <5> QED BY <3>3, <5>1, <5>2 DEF Waits
      <4> QED BY <4>1, <4>2
    <3>4. ASSUME NEW b \in Addresses, There(b), win[b].who = e, NEW i \in 1..Len(win[b].queue),
                 win[b].queue[i].what = "SHOW", win[b].queue[i].msg = k
          PROVE  Waits(e, k)'
      <4>1. CASE b = a
        <5>1. i \in 1..L /\ i \in 1..Len(win'[a].queue)
          BY <2>2, <3>4, <4>1
        <5>2. win'[a].queue[i] = win[a].queue[i] /\ win'[a].who = e
          BY <2>2, <2>3, <3>4, <4>1, <5>1
        <5> QED BY <2>3, <3>4, <4>1, <5>1, <5>2 DEF Waits
      <4>2. CASE b # a
        BY <2>1, <3>4, <4>2 DEF Waits
      <4> QED BY <4>1, <4>2
    <3> QED BY <3>2, <3>3, <3>4 DEF Waits
  <2> QED BY <1>1, <1>5, <2>4, <2>5, <2>6 DEF Shown, ShownInOrder, ShownAreGot
<1> QED BY <1>3, <1>6, <1>7

LEMMA ShownShowMessage == ASSUME Structure, Shown, NEW a \in Addresses, ShowMessage(a) PROVE Shown'
<1> USE DEF Structure
<1>0. WinType /\ shown \in [Contacts -> Seq(Nat)] /\ got \in [Contacts -> Nat]
  BY TypesNow
<1>1. /\ UNCHANGED <<queue, got, closing>> /\ Quitting' = Quitting /\ ~undefined
      /\ Turn(a, "SHOW") /\ Handled(a)
  BY DEF ShowMessage, looperVars, Quitting, Turn
<1>2. WinType' /\ Shortened(a) /\ Head(win[a].queue) \in WindowMessages /\ Head(win[a].queue).what = "SHOW"
  BY <1>0, <1>1, ShortenWindow DEF Turn
<1>3. /\ Len(win[a].queue) \in Nat \ {0} /\ Len(win'[a].queue) = Len(win[a].queue) - 1
      /\ Head(win[a].queue) = win[a].queue[1] /\ There(a) /\ There(a)' /\ win'[a].who = win[a].who
      /\ \A i \in 1..Len(win'[a].queue) :
             win'[a].queue[i] = win[a].queue[i + 1] /\ i + 1 \in 1..Len(win[a].queue) /\ 1 < i + 1
  <2>1. /\ Len(win[a].queue) \in Nat \ {0} /\ Len(win'[a].queue) = Len(win[a].queue) - 1
        /\ Head(win[a].queue) = win[a].queue[1]
        /\ \A i \in 1..Len(win'[a].queue) : win'[a].queue[i] = win[a].queue[i + 1]
    BY <1>0, <1>2, WindowShortened
  <2> QED BY <1>2, <2>1 DEF Shortened
<1>4. PICK c \in Contacts : c = win[a].who
  BY <1>0, <1>3, WindowFacts
<1>5. PICK n \in Nat : n = win[a].queue[1].msg
  BY <1>2, <1>3, WindowMessage
<1>6. \A b \in Addresses \ {a} : There(b)' = There(b) /\ win'[b] = win[b]
  BY <1>2 DEF Shortened, Apart, There
<1>7. Kept("GOT")
  BY <1>1, QueueSame
<1>8. QuitIsLast'
  <2> SUFFICES ASSUME ~Quitting, NEW b \in Addresses, There(b)', NEW i \in 1..Len(win'[b].queue), NEW j \in 1..Len(win'[b].queue),
                      win'[b].queue[i].what = "QUIT", win'[b].queue[j].what = "SHOW"
               PROVE  j < i
    BY <1>1 DEF QuitIsLast
  <2>1. CASE b # a
    BY <1>6, <2>1 DEF Shown, QuitIsLast
  <2>2. CASE b = a
    <3>1. /\ i + 1 \in 1..Len(win[a].queue) /\ j + 1 \in 1..Len(win[a].queue)
          /\ win[a].queue[i + 1].what = "QUIT" /\ win[a].queue[j + 1].what = "SHOW"
      BY <1>3, <2>2
    <3>2. j + 1 < i + 1
      BY <1>3, <3>1 DEF Shown, QuitIsLast
    <3> QED BY <2>2, <3>2
  <2> QED BY <2>1, <2>2
<1>9. CASE quit.at = "done"
  <2>1. undefined' /\ UNCHANGED shown
    BY <1>9 DEF ShowMessage
  <2>2. WinKept({"SHOW"})
    BY <1>0, <1>2, ShortenedForward
  <2> QED BY <1>1, <1>7, <1>8, <2>1, <2>2, GotsKept, ShowsKept DEF Shown, ShownInOrder, ShownAreGot, NothingMissing
<1>10. CASE quit.at # "done"
  <2>1. shown' = [shown EXCEPT ![c] = Append(shown[c], n)] /\ UNCHANGED undefined
    BY <1>3, <1>4, <1>5, <1>10 DEF ShowMessage
  <2>2. /\ 1 \in 1..Len(win[a].queue) /\ Len(shown[c]) \in Nat /\ got[c] \in Nat
        /\ win[a].queue[1].what = "SHOW" /\ win[a].queue[1].msg = n
    BY <1>0, <1>2, <1>3, <1>5, LenProperties
  <2>3. /\ Len(shown[c]) < n /\ n <= got[c]
        /\ \A j \in 1..Len(queue) : queue[j].what = "GOT" /\ queue[j].who = c => n < queue[j].msg
        /\ \A j \in 1..Len(win[a].queue) : 1 < j /\ win[a].queue[j].what = "SHOW" => n < win[a].queue[j].msg
    BY <1>3, <1>4, <2>2 DEF Shown, ShowsFollow
  \* what is shown is what comes next: a smaller number would wait nowhere
  <2>4. n = Len(shown[c]) + 1
    <3> SUFFICES ASSUME Len(shown[c]) + 1 < n PROVE FALSE
      BY <2>2, <2>3
    <3> DEFINE k == Len(shown[c]) + 1
    <3>1. k \in Nat /\ Len(shown[c]) < k /\ k <= got[c] /\ k < n
      BY <2>2, <2>3
    <3> HIDE DEF k
    <3>2. HasWindow(c)
      BY <1>3, <1>4 DEF HasWindow
    <3>3. Waits(c, k)
      BY <1>1, <3>1, <3>2 DEF Shown, NothingMissing
    <3>4. ~\E i \in 1..Len(queue) : queue[i].what = "GOT" /\ queue[i].who = c /\ queue[i].msg = k
      BY <2>3, <3>1
    <3>5. PICK b \in Addresses : There(b) /\ win[b].who = c /\ \E i \in 1..Len(win[b].queue) :
               win[b].queue[i].what = "SHOW" /\ win[b].queue[i].msg = k
      BY <3>3, <3>4 DEF Waits
    <3>6. b = a
      BY <1>3, <1>4, <3>5 DEF OnePerContact
    <3>7. PICK i \in 1..Len(win[a].queue) : win[a].queue[i].what = "SHOW" /\ win[a].queue[i].msg = k
      BY <3>5, <3>6
    <3>8. i = 1 \/ 1 < i
      OBVIOUS
    <3> QED BY <1>5, <2>3, <3>1, <3>7, <3>8
  <2>5. /\ shown'[c] = Append(shown[c], n) /\ Len(shown'[c]) = Len(shown[c]) + 1
        /\ \A e \in Contacts \ {c} : shown'[e] = shown[e]
    BY <1>0, <2>1, <2>2
  <2>6. ShownInOrder' /\ ShownAreGot'
    <3> SUFFICES ASSUME NEW e \in Contacts PROVE shown'[e] = Numbers(Len(shown'[e])) /\ Len(shown'[e]) <= got[e]
      BY <1>1 DEF ShownInOrder, ShownAreGot
    <3>1. CASE e # c
      BY <2>5, <3>1 DEF Shown, ShownInOrder, ShownAreGot
    <3>2. CASE e = c
      <4>1. shown[c] = [k \in 1..Len(shown[c]) |-> k]
        BY DEF Shown, ShownInOrder, Numbers
      <4>2. Append(shown[c], n) = [k \in 1..Len(shown[c]) + 1 |-> k]
        <5>1. /\ DOMAIN Append(shown[c], n) = 1..Len(shown[c]) + 1
              /\ Append(shown[c], n)[Len(shown[c]) + 1] = n
              /\ \A k \in 1..Len(shown[c]) : Append(shown[c], n)[k] = shown[c][k]
              /\ Append(shown[c], n) \in Seq(Nat)
          BY <1>0, <2>2, AppendProperties, LenProperties
        <5>2. Append(shown[c], n) = [k \in 1..Len(shown[c]) + 1 |-> Append(shown[c], n)[k]]
          BY <5>1
        <5>3. \A k \in 1..Len(shown[c]) : shown[c][k] = k
          BY <4>1
        <5>4. \A k \in 1..Len(shown[c]) + 1 : k = Len(shown[c]) + 1 \/ k \in 1..Len(shown[c])
          BY <2>2
        <5>5. \A k \in 1..Len(shown[c]) + 1 : Append(shown[c], n)[k] = k
          BY <2>4, <5>1, <5>3, <5>4
        <5> QED BY <5>2, <5>5
      <4> QED BY <2>3, <2>4, <2>5, <3>2, <4>2 DEF Numbers
    <3> QED BY <3>1, <3>2
  <2>7. \A i \in 1..Len(queue) : queue[i].what = "GOT" => queue[i].who \in Contacts /\ queue[i].msg \in Nat
    <3>1. \A i \in 1..Len(queue) : queue[i] \in NetworkMessages
      BY TypesNow, ElementOfSeq
    <3> QED BY <3>1, NetworkMessage
  <2>8. GotsFollow'
    <3>1. \A i \in 1..Len(queue) : queue[i].what = "GOT" => Len(shown'[queue[i].who]) < queue[i].msg
      BY <2>3, <2>4, <2>5, <2>7 DEF Shown, GotsFollow
    <3> QED BY <1>1, <3>1 DEF Shown, GotsFollow
  <2>9. ShowsFollow'
    <3> SUFFICES ASSUME NEW b \in Addresses, There(b)', NEW i \in 1..Len(win'[b].queue), win'[b].queue[i].what = "SHOW"
                 PROVE  /\ Len(shown'[win'[b].who]) < win'[b].queue[i].msg /\ win'[b].queue[i].msg <= got[win'[b].who]
                        /\ \A j \in 1..Len(queue) : queue[j].what = "GOT" /\ queue[j].who = win'[b].who
                               => win'[b].queue[i].msg < queue[j].msg
                        /\ \A j \in 1..Len(win'[b].queue) : i < j /\ win'[b].queue[j].what = "SHOW"
                               => win'[b].queue[i].msg < win'[b].queue[j].msg
      BY <1>1 DEF ShowsFollow
    <3>1. CASE b # a
      <4>1. There(b) /\ win'[b] = win[b]
        BY <1>6, <3>1
      <4>2. win[b].who \in Contacts \ {c}
        BY <1>0, <1>3, <1>4, <3>1, <4>1, WindowFacts DEF OnePerContact
      <4> QED BY <2>5, <4>1, <4>2 DEF Shown, ShowsFollow
    <3>2. CASE b = a
      <4>1. i + 1 \in 1..Len(win[a].queue) /\ 1 < i + 1 /\ win[a].queue[i + 1].what = "SHOW" /\ win'[a].queue[i] = win[a].queue[i + 1]
        BY <1>3, <3>2
      <4>2. n < win[a].queue[i + 1].msg
        BY <2>3, <4>1
      <4>3. \A k \in 1..Len(win'[a].queue) : win'[a].queue[k].what = "SHOW" =>
                 k + 1 \in 1..Len(win[a].queue) /\ win'[a].queue[k] = win[a].queue[k + 1]
        BY <1>3
      <4>4. /\ win'[a].queue[i].msg <= got[win'[a].who]
            /\ \A j \in 1..Len(queue) : queue[j].what = "GOT" /\ queue[j].who = win'[a].who
                  => win'[a].queue[i].msg < queue[j].msg
            /\ \A j \in 1..Len(win'[a].queue) : i < j /\ win'[a].queue[j].what = "SHOW"
                  => win'[a].queue[i].msg < win'[a].queue[j].msg
        BY <1>3, <3>2, <4>3, WindowShows
      <4>5. Len(shown'[c]) < win'[a].queue[i].msg
        BY <2>4, <2>5, <4>1, <4>2
      <4> QED BY <1>3, <1>4, <3>2, <4>4, <4>5
    <3> QED BY <3>1, <3>2
  <2>10. NothingMissing'
    <3> SUFFICES ASSUME NEW e \in Contacts, ~Quitting \/ HasWindow(e)',
                        NEW k \in Nat, Len(shown'[e]) < k, k <= got[e]
                 PROVE  Waits(e, k)'
      BY <1>1 DEF NothingMissing
    <3>1. ~Quitting \/ HasWindow(e)
      <4>1. ASSUME NEW b \in Addresses, There(b)', win'[b].who = e PROVE HasWindow(e)
        BY <1>3, <1>6, <4>1 DEF HasWindow
      <4> QED BY <4>1 DEF HasWindow
    <3>2. Len(shown[e]) < k /\ (e = c => k # n)
      <4>1. CASE e = c
        BY <2>2, <2>4, <2>5, <4>1
      <4>2. CASE e # c
        BY <2>5, <4>2
      <4> QED BY <4>1, <4>2
    <3>3. Waits(e, k)
      BY <1>1, <3>1, <3>2 DEF Shown, NothingMissing
    <3>4. ASSUME NEW b \in Addresses, There(b), win[b].who = e, NEW i \in 1..Len(win[b].queue),
                 win[b].queue[i].what = "SHOW", win[b].queue[i].msg = k
          PROVE  Waits(e, k)'
      <4>1. CASE b = a
        <5>1. i # 1
          BY <1>4, <1>5, <3>2, <3>4, <4>1
        <5>2. i - 1 \in 1..Len(win'[a].queue) /\ (i - 1) + 1 = i
          BY <1>3, <3>4, <4>1, <5>1
        <5>3. win'[a].queue[i - 1] = win[a].queue[i] /\ win'[a].who = e
          BY <1>3, <3>4, <4>1, <5>2
        <5> QED BY <1>3, <3>4, <4>1, <5>2, <5>3 DEF Waits
      <4>2. CASE b # a
        BY <1>6, <3>4, <4>2 DEF Waits
      <4> QED BY <4>1, <4>2
    <3> QED BY <1>1, <3>3, <3>4 DEF Waits
  <2> QED BY <1>8, <2>6, <2>8, <2>9, <2>10 DEF Shown
<1> QED BY <1>9, <1>10

LEMMA QuittingStays == ASSUME Structure, [Next]_vars, Quitting PROVE Quitting'
<1>1. quit \in [at : Places, i : Nat, chat : Addresses \cup {None}]
  BY TypesNow DEF Structure
<1>2. \/ quit' = quit \/ \E place \in Places \ {"no"} : quit' = [quit EXCEPT !.at = place]
      \/ quit' = Counts(quit.i + 1) \/ quit' = [quit EXCEPT !.at = "wait", !.chat = iWinList[quit.i + 1]]
  <2>1. CASE QuitBegins \/ QuitStep
    <3>1. {"count", "item", "empty", "lock", "ending", "done"} \subseteq Places \ {"no"}
      BY DEF Places
    <3> QED BY <2>1, <3>1 DEF QuitBegins, QuitStep, QuitCounts, QuitLocks, QuitWaits, QuitEmpties, QuitLoops, QuitEnds
  <2>2. CASE ~(QuitBegins \/ QuitStep)
    BY <2>2 DEF Next, vars, NetworkStep, OpenMessage, GotMsg, SendMsg, CloseMessage, Closed,
       Environment, UserOpens, Receive, UserTypes, UserCloses, SessionChanges,
       WindowStep, ShowMessage, BeggSend, QuitRequested, Quit
  <2> QED BY <2>1, <2>2
<1>3. CASE quit' = quit
  BY <1>3 DEF Quitting
<1>4. ASSUME NEW place \in Places \ {"no"}, quit' = [quit EXCEPT !.at = place] PROVE Quitting'
  BY <1>1, <1>4 DEF Quitting
<1>5. CASE quit' = Counts(quit.i + 1)
  BY <1>5 DEF Quitting, Counts
<1>6. CASE quit' = [quit EXCEPT !.at = "wait", !.chat = iWinList[quit.i + 1]]
  BY <1>1, <1>6 DEF Quitting
<1> QED BY <1>2, <1>3, <1>4, <1>5, <1>6

LEMMA ShownReceive == ASSUME Structure, Shown, NEW c \in Contacts, Receive(c) PROVE Shown'
<1> USE DEF Structure
<1>0. shown \in [Contacts -> Seq(Nat)] /\ got \in [Contacts -> Nat]
  BY TypesNow
<1> DEFINE m == [what |-> "GOT", who |-> c, msg |-> got'[c]]
<1>1. /\ UNCHANGED <<win, shown, undefined, quit>> /\ session
      /\ got' = [got EXCEPT ![c] = @ + 1] /\ Post(m)
  BY DEF Receive
<1>2. /\ got'[c] = got[c] + 1 /\ got[c] \in Nat /\ got' \in [Contacts -> Nat]
      /\ \A e \in Contacts : got[e] \in Nat /\ got[e] <= got'[e] /\ (e # c => got'[e] = got[e])
  BY <1>0, <1>1
<1>3. ~Quitting /\ Quitting' = Quitting
  BY <1>1 DEF Quitting
<1>4. m \in NetworkMessages /\ m.what = "GOT" /\ m.who = c /\ m.msg = got[c] + 1
  BY <1>2 DEF NetworkMessages
<1>5. queue' = Append(queue, m)
  BY <1>1, <1>3 DEF Post, Quitting
<1> HIDE DEF m
<1>6. /\ Len(queue) \in Nat /\ Len(queue') = Len(queue) + 1 /\ queue'[Len(queue) + 1] = m
      /\ \A i \in 1..Len(queue) : queue[i] \in NetworkMessages /\ queue'[i] = queue[i]
  BY <1>4, <1>5, QueuePosted
<1>7. \A j \in 1..Len(queue') : j = Len(queue) + 1 \/ j \in 1..Len(queue)
  BY <1>6
<1>8. \A e \in Contacts : Len(shown[e]) \in Nat /\ Len(shown[e]) <= got[e]
  BY <1>0, LenProperties DEF Shown, ShownAreGot
<1>9. ShownAreGot'
  BY <1>1, <1>2, <1>8 DEF ShownAreGot
<1>10. GotsFollow'
  <2> SUFFICES ASSUME NEW i \in 1..Len(queue'), queue'[i].what = "GOT"
               PROVE  /\ Len(shown[queue'[i].who]) < queue'[i].msg /\ queue'[i].msg <= got'[queue'[i].who]
                      /\ \A j \in 1..Len(queue') : i < j /\ queue'[j].what = "GOT" /\ queue'[j].who = queue'[i].who
                             => queue'[i].msg < queue'[j].msg
    BY <1>1 DEF GotsFollow
  <2>1. CASE i = Len(queue) + 1
    <3>1. \A j \in 1..Len(queue') : ~(i < j)
      BY <1>6, <2>1
    <3> QED BY <1>2, <1>4, <1>6, <1>8, <2>1, <3>1
  <2>2. CASE i # Len(queue) + 1
    <3>1. i \in 1..Len(queue) /\ queue'[i] = queue[i] /\ queue[i] \in NetworkMessages
      BY <1>6, <1>7, <2>2
    <3>2. PICK e \in Contacts, n \in Nat : e = queue[i].who /\ n = queue[i].msg
      BY <2>2, <3>1, NetworkMessage
    <3>3. /\ Len(shown[e]) < n /\ n <= got[e]
          /\ \A j \in 1..Len(queue) : i < j /\ queue[j].what = "GOT" /\ queue[j].who = e => n < queue[j].msg
      BY <2>2, <3>1, <3>2 DEF Shown, GotsFollow
    <3>4. n <= got'[e] /\ (e = c => n < got[c] + 1)
      BY <1>2, <3>3
    <3> QED BY <1>4, <1>6, <1>7, <3>1, <3>2, <3>3, <3>4
  <2> QED BY <2>1, <2>2
<1>11. ShowsFollow'
  <2> SUFFICES ASSUME NEW a \in Addresses, There(a), NEW i \in 1..Len(win[a].queue), win[a].queue[i].what = "SHOW"
               PROVE  /\ Len(shown[win[a].who]) < win[a].queue[i].msg /\ win[a].queue[i].msg <= got'[win[a].who]
                      /\ \A j \in 1..Len(queue') :
                             queue'[j].what = "GOT" /\ queue'[j].who = win[a].who => win[a].queue[i].msg < queue'[j].msg
                      /\ \A j \in 1..Len(win[a].queue) :
                             i < j /\ win[a].queue[j].what = "SHOW" => win[a].queue[i].msg < win[a].queue[j].msg
    BY <1>1 DEF ShowsFollow, There
  <2>1. win[a].queue \in Seq(WindowMessages)
    BY TypesNow, WindowFacts
  <2>2. win[a].queue[i] \in WindowMessages
    BY <2>1, ElementOfSeq
  <2>3. PICK e \in Contacts, n \in Nat : e = win[a].who /\ n = win[a].queue[i].msg
    BY <2>2, TypesNow, WindowFacts, WindowMessage
  <2>4. /\ Len(shown[e]) < n /\ n <= got[e]
        /\ \A j \in 1..Len(queue) : queue[j].what = "GOT" /\ queue[j].who = e => n < queue[j].msg
        /\ \A j \in 1..Len(win[a].queue) : i < j /\ win[a].queue[j].what = "SHOW" => n < win[a].queue[j].msg
    BY <2>3 DEF Shown, ShowsFollow
  <2>5. n <= got'[e] /\ (e = c => n < got[c] + 1)
    BY <1>2, <2>4
  <2>6. \A j \in 1..Len(queue') : queue'[j].what = "GOT" /\ queue'[j].who = e => n < queue'[j].msg
    BY <1>4, <1>6, <1>7, <2>4, <2>5
  <2> QED BY <2>3, <2>4, <2>5, <2>6
<1>12. NothingMissing'
  <2> SUFFICES ASSUME NEW e \in Contacts, ~undefined, NEW k \in Nat, Len(shown[e]) < k, k <= got'[e]
               PROVE  Waits(e, k)'
    BY <1>1, <1>3 DEF NothingMissing
  <2>1. CASE e = c /\ k = got[c] + 1
    <3>1. Len(queue) + 1 \in 1..Len(queue')
      BY <1>6
    <3> QED BY <1>4, <1>6, <2>1, <3>1 DEF Waits
  <2>2. CASE ~(e = c /\ k = got[c] + 1)
    <3>1. k <= got[e]
      BY <1>2, <2>2
    <3>2. Waits(e, k)
      BY <1>3, <3>1 DEF Shown, NothingMissing
    <3>3. \A i \in 1..Len(queue) : i \in 1..Len(queue') /\ queue'[i] = queue[i]
      BY <1>6
    <3>4. ASSUME \E i \in 1..Len(queue) : queue[i].what = "GOT" /\ queue[i].who = e /\ queue[i].msg = k
          PROVE  Waits(e, k)'
      BY <3>3, <3>4 DEF Waits
    <3>5. ASSUME \E a \in Addresses : There(a) /\ win[a].who = e /\ \E i \in 1..Len(win[a].queue) :
                     win[a].queue[i].what = "SHOW" /\ win[a].queue[i].msg = k
          PROVE  Waits(e, k)'
      BY <1>1, <3>5 DEF Waits, There
    <3> QED BY <3>2, <3>4, <3>5 DEF Waits
  <2> QED BY <2>1, <2>2
<1> QED BY <1>1, <1>3, <1>9, <1>10, <1>11, <1>12 DEF Shown, ShownInOrder, QuitIsLast, There

\* QUIT comes after what is still to be shown, while Network lives.
LEMMA QuitIsLastKept ==
    ASSUME QuitIsLast, Quitting => Quitting', WinKept({"SHOW", "QUIT"})
    PROVE  QuitIsLast'
<1> SUFFICES ASSUME ~Quitting', NEW a \in Addresses, There(a)',
                    NEW i \in 1..Len(win'[a].queue), NEW j \in 1..Len(win'[a].queue),
                    win'[a].queue[i].what = "QUIT", win'[a].queue[j].what = "SHOW"
             PROVE  j < i
  BY DEF QuitIsLast
<1>1. PICK d \in {0, 1} : \A k \in 1..Len(win'[a].queue) : win'[a].queue[k].what \in {"SHOW", "QUIT"} =>
            /\ There(a) /\ win'[a].who = win[a].who
            /\ k + d \in 1..Len(win[a].queue) /\ win'[a].queue[k] = win[a].queue[k + d]
  BY DEF WinKept
<1>2. /\ There(a) /\ i + d \in 1..Len(win[a].queue) /\ j + d \in 1..Len(win[a].queue)
      /\ win[a].queue[i + d].what = "QUIT" /\ win[a].queue[j + d].what = "SHOW"
  BY <1>1
<1>3. j + d < i + d
  BY <1>2 DEF QuitIsLast
<1> QED BY <1>3

LEMMA QuitIsLastClose == ASSUME Structure, QuitIsLast, CloseMessage PROVE QuitIsLast'
<1> USE DEF Structure
<1>1. Quitting' = Quitting /\ Message \in NetworkMessages /\ Message.what = "CLOSE"
  BY QueueTaken DEF CloseMessage, Handles, Quitting
<1>2. PICK a \in Addresses : a = Message.win
  BY <1>1, NetworkMessage
<1>3. CASE ~There(a)
  BY <1>1, <1>2, <1>3 DEF CloseMessage, QuitIsLast, There
<1>4. CASE There(a)
  <2> DEFINE m == [what |-> "QUIT"]
  <2>1. m \in WindowMessages /\ m.what = "QUIT"
    BY DEF WindowMessages
  <2>2. win' = [win EXCEPT ![a].queue = Append(@, m)]
    BY <1>2, <1>4 DEF CloseMessage, Quits
  <2> HIDE DEF m
  <2>3. Appended(a, m)
    BY <1>4, <2>1, <2>2, TypesNow, AppendWindow
  <2>4. /\ Len(win[a].queue) \in Nat /\ Len(win'[a].queue) = Len(win[a].queue) + 1
        /\ win'[a].queue[Len(win[a].queue) + 1] = m
        /\ \A i \in 1..Len(win[a].queue) : win'[a].queue[i] = win[a].queue[i]
    BY <2>1, <2>3, TypesNow, WindowAppended
  <2> SUFFICES ASSUME ~Quitting, NEW b \in Addresses, There(b)',
                      NEW i \in 1..Len(win'[b].queue), NEW j \in 1..Len(win'[b].queue),
                      win'[b].queue[i].what = "QUIT", win'[b].queue[j].what = "SHOW"
               PROVE  j < i
    BY <1>1 DEF QuitIsLast
  <2>5. CASE b # a
    <3>1. There(b) /\ win'[b] = win[b]
      BY <2>3, <2>5 DEF Appended, Apart, There
    <3> QED BY <3>1 DEF QuitIsLast
  <2>6. CASE b = a
    <3>1. j # Len(win[a].queue) + 1
      BY <2>1, <2>4, <2>6
    <3>0. j \in 1..Len(win[a].queue)
      BY <2>4, <2>6, <3>1
    <3>2. j \in 1..Len(win[a].queue) /\ win[a].queue[j].what = "SHOW"
      BY <2>4, <2>6, <3>0
    <3>3. CASE i = Len(win[a].queue) + 1
      BY <2>4, <3>2, <3>3
    <3>4. CASE i # Len(win[a].queue) + 1
      <4>0. i \in 1..Len(win[a].queue)
        BY <2>4, <2>6, <3>4
      <4>1. i \in 1..Len(win[a].queue) /\ win[a].queue[i].what = "QUIT"
        BY <2>4, <2>6, <4>0
      <4> QED BY <1>4, <3>2, <4>1 DEF QuitIsLast
    <3> QED BY <3>3, <3>4
  <2> QED BY <2>5, <2>6
<1> QED BY <1>3, <1>4

\* A window that goes takes nothing along that is still to be shown, or Network quits.
LEMMA ShownQuit == ASSUME Structure, Shown, NEW a \in Addresses, Quit(a) PROVE NothingMissing'
<1> USE DEF Structure
<1>1. /\ UNCHANGED <<queue, quit, undefined, got, shown>> /\ Quitting' = Quitting
      /\ Turn(a, "QUIT") /\ win' = [win EXCEPT ![a] = Gone]
  BY DEF Quit, looperVars, histVars, Quitting
<1>2. Apart(a) /\ ~There(a)'
  BY <1>1, TypesNow, CloseWindow
<1>3. \A b \in Addresses \ {a} : There(b)' = There(b) /\ win'[b] = win[b]
  BY <1>2 DEF Apart, There
<1>4. There(a) /\ win[a].queue \in Seq(WindowMessages) /\ win[a].queue # <<>> /\ Head(win[a].queue).what = "QUIT"
  BY <1>1, TypesNow, WindowFacts DEF Turn
<1>5. 1 \in 1..Len(win[a].queue) /\ win[a].queue[1].what = "QUIT"
  BY <1>4
<1> SUFFICES ASSUME NEW c \in Contacts, ~undefined, ~Quitting \/ HasWindow(c)',
                    NEW n \in Nat, Len(shown[c]) < n, n <= got[c]
             PROVE  Waits(c, n)'
  BY <1>1 DEF NothingMissing
<1>6. HasWindow(c)' => \E b \in Addresses \ {a} : There(b) /\ win[b].who = c
  BY <1>2, <1>3 DEF HasWindow
<1>7. Waits(c, n)
  BY <1>6 DEF Shown, NothingMissing, HasWindow
<1>8. ASSUME NEW b \in Addresses, There(b), win[b].who = c, NEW i \in 1..Len(win[b].queue),
             win[b].queue[i].what = "SHOW", win[b].queue[i].msg = n
      PROVE  Waits(c, n)'
  <2>1. CASE b = a
    <3>1. ~HasWindow(c)'
      BY <1>4, <1>6, <1>8, <2>1 DEF OnePerContact
    <3>2. i < 1
      BY <1>4, <1>5, <1>8, <2>1, <3>1 DEF Shown, QuitIsLast
    <3> QED BY <1>8, <3>2
  <2>2. CASE b # a
    BY <1>3, <1>8, <2>2 DEF Waits
  <2> QED BY <2>1, <2>2
<1> QED BY <1>1, <1>7, <1>8 DEF Waits

LEMMA ShownStep == ASSUME Structure, Shown, [Next]_vars PROVE Shown'
<1>1. CASE GotMsg
  BY <1>1, ShownGotMsg
<1>2. ASSUME NEW a \in Addresses, ShowMessage(a) PROVE Shown'
  BY <1>2, ShownShowMessage
<1>3. ASSUME NEW c \in Contacts, Receive(c) PROVE Shown'
  BY <1>3, ShownReceive
<1>4. CASE /\ ~GotMsg /\ (\A a \in Addresses : ~ShowMessage(a)) /\ \A c \in Contacts : ~Receive(c)
  <2>1. Kept("GOT")
    BY <1>4, QueueKept
  <2>2. WinKept({"SHOW"}) /\ ((\A a \in Addresses : ~Quit(a)) => WinStays({"SHOW"}))
    BY <1>4, WindowsKept
  <2>3. UNCHANGED <<got, shown>> /\ (undefined => undefined') /\ (Quitting => Quitting')
    <3>1. UNCHANGED <<got, shown>>
      BY <1>4 DEF Next, vars, NetworkStep, OpenMessage, SendMsg, CloseMessage, Closed,
         QuitBegins, QuitStep, QuitCounts, QuitLocks, QuitWaits, QuitEmpties, QuitLoops, QuitEnds,
         Environment, UserOpens, UserTypes, UserCloses, SessionChanges, histVars,
         WindowStep, BeggSend, QuitRequested, Quit
    <3>2. undefined => undefined'
      BY UndefinedStays DEF vars
    <3>3. Quitting => Quitting'
      BY QuittingStays
    <3> QED BY <3>1, <3>2, <3>3
  <2>4. GotsFollow' /\ ShowsFollow'
    BY <2>1, <2>2, <2>3, GotsKept, ShowsKept
  <2>5. QuitIsLast'
    <3>1. CASE CloseMessage
      BY <3>1, QuitIsLastClose DEF Shown
    <3>2. CASE QuitLocks
      <4>1. Quitting'
        BY <3>2, QuittingStays DEF QuitLocks, At, Quitting
      <4> QED BY <4>1 DEF QuitIsLast
    <3>3. CASE ~CloseMessage /\ ~QuitLocks
      <4>1. WinKept({"SHOW", "QUIT"})
        BY <1>4, <3>3, WindowsKept
      <4> QED BY <2>3, <4>1, QuitIsLastKept DEF Shown
    <3> QED BY <3>1, <3>2, <3>3
  <2>6. NothingMissing'
    <3>1. ASSUME NEW a \in Addresses, Quit(a) PROVE NothingMissing'
      BY <3>1, ShownQuit
    <3>2. CASE \A a \in Addresses : ~Quit(a)
      <4>1. \A c \in Contacts : HasWindow(c)' => HasWindow(c) \/ ~Quitting
        <5>1. CASE OpenMessage
          <6>1. Message.who \in Contacts /\ closing = None
            BY <5>1, QueueTaken, NetworkMessage DEF OpenMessage, Handles, Idle, Structure
          <6>2. GetMesgWinForUser(Message.who, <<>>)
            BY <5>1 DEF OpenMessage
          <6>3. \/ ~Quitting \/ UNCHANGED win
                \/ \E a \in Addresses : There(a) /\ win' = [win EXCEPT ![a].queue = @ \o <<>>]
            BY <6>1, <6>2, Delivery
          <6>4. ASSUME NEW a \in Addresses, There(a), win' = [win EXCEPT ![a].queue = @ \o <<>>]
                PROVE  \A b \in Addresses : There(b)' = There(b) /\ (There(b) => win'[b].who = win[b].who)
            <7>1. WinType /\ win[a] \in Windows
              BY <6>4, TypesNow, WindowFacts DEF Structure
            <7>2. win'[a] = [win[a] EXCEPT !.queue = win[a].queue \o <<>>]
                  /\ \A b \in Addresses \ {a} : win'[b] = win[b]
              BY <6>4, <7>1 DEF WinType
            <7>3. win'[a].there = win[a].there /\ win'[a].who = win[a].who
              BY <7>1, <7>2 DEF Windows
            <7> QED BY <7>2, <7>3 DEF There
          <6>5. CASE UNCHANGED win
            BY <6>5 DEF HasWindow, There
          <6> QED BY <6>3, <6>4, <6>5 DEF HasWindow
        <5>2. CASE ~OpenMessage
          BY <1>4, <5>2, NoWindowOpens DEF HasWindow
        <5> QED BY <5>1, <5>2
      <4> QED BY <2>1, <2>2, <2>3, <3>2, <4>1, MissingKept
    <3> QED BY <3>1, <3>2
  <2> QED BY <2>3, <2>4, <2>5, <2>6 DEF Shown, ShownInOrder, ShownAreGot
<1> QED BY <1>1, <1>2, <1>3, <1>4

-------------------------------------------------------------------------------
(***************************************************************************)
(* Closing.  If no window is closed twice by its user, each has one wish   *)
(* under way: its BOX, or its CLOSE, or Network waits for it.  So while    *)
(* Network lives a CLOSE names the window that posted it; and while it     *)
(* quits no address is used again.                                         *)
(***************************************************************************)
ClosesAreAsked == \A i \in 1..Len(queue) : queue[i].what = "CLOSE" => queue[i].win \in asked
BoxesAreAsked ==
    \A a \in Addresses : There(a) => \A i \in 1..Len(win[a].queue) : win[a].queue[i].what = "BOX" => a \in asked
ClosingIsAsked == closing # None /\ There(closing) => closing \in asked
ClosesAreOnce ==
    \A i \in 1..Len(queue) : queue[i].what = "CLOSE" =>
        /\ There(queue[i].win) /\ queue[i].win # closing
        /\ \A j \in 1..Len(queue) : i < j /\ queue[j].what = "CLOSE" => queue[j].win # queue[i].win
BoxesAreOnce ==
    \A a \in Addresses : There(a) => \A i \in 1..Len(win[a].queue) : win[a].queue[i].what = "BOX" =>
        /\ a # closing
        /\ \A j \in 1..Len(win[a].queue) : i < j => win[a].queue[j].what # "BOX"
        /\ \A j \in 1..Len(queue) : queue[j].what = "CLOSE" => queue[j].win # a

Asked ==
    again = {} =>
        /\ ~unasked /\ ClosesAreAsked /\ BoxesAreAsked /\ ClosingIsAsked
        /\ ~Quitting => ClosesAreOnce /\ BoxesAreOnce

LEMMA InitAsked == Init => Asked
BY DEF Init, Asked, ClosesAreAsked, BoxesAreAsked, ClosingIsAsked, ClosesAreOnce, BoxesAreOnce, There, Gone

LEMMA BoxesKept ==
    ASSUME WinKept({"BOX"}), Kept("CLOSE"), BoxesAreOnce,
           \A a \in Addresses : a # closing => a # closing'
    PROVE  BoxesAreOnce'
<1> SUFFICES ASSUME NEW a \in Addresses, There(a)', NEW i \in 1..Len(win'[a].queue), win'[a].queue[i].what = "BOX"
             PROVE  /\ a # closing'
                    /\ \A j \in 1..Len(win'[a].queue) : i < j => win'[a].queue[j].what # "BOX"
                    /\ \A j \in 1..Len(queue') : queue'[j].what = "CLOSE" => queue'[j].win # a
  BY DEF BoxesAreOnce
<1>1. PICK d \in {0, 1} : \A j \in 1..Len(win'[a].queue) : win'[a].queue[j].what = "BOX" =>
            There(a) /\ j + d \in 1..Len(win[a].queue) /\ win'[a].queue[j] = win[a].queue[j + d]
  BY DEF WinKept
<1>2. There(a) /\ i + d \in 1..Len(win[a].queue) /\ win[a].queue[i + d].what = "BOX"
  BY <1>1
<1>3. /\ a # closing
      /\ \A j \in 1..Len(win[a].queue) : i + d < j => win[a].queue[j].what # "BOX"
      /\ \A j \in 1..Len(queue) : queue[j].what = "CLOSE" => queue[j].win # a
  BY <1>2 DEF BoxesAreOnce
<1>4. ASSUME NEW j \in 1..Len(win'[a].queue), i < j, win'[a].queue[j].what = "BOX" PROVE FALSE
  <2>1. j + d \in 1..Len(win[a].queue) /\ win[a].queue[j + d].what = "BOX"
    BY <1>1, <1>4
  <2>2. i + d < j + d
    BY <1>4
  <2> QED BY <1>3, <2>1, <2>2
<1>5. PICK e \in {0, 1} : \A j \in 1..Len(queue') : queue'[j].what = "CLOSE" =>
            j + e \in 1..Len(queue) /\ queue'[j] = queue[j + e]
  BY DEF Kept
<1> QED BY <1>3, <1>4, <1>5

LEMMA ClosesKept ==
    ASSUME Kept("CLOSE"), ClosesAreOnce, \A i \in 1..Len(queue) : queue[i].what = "CLOSE" => queue[i].win \in Addresses,
           \A a \in Addresses : a # closing => a # closing' /\ (There(a) => There(a)')
    PROVE  ClosesAreOnce'
<1> SUFFICES ASSUME NEW i \in 1..Len(queue'), queue'[i].what = "CLOSE"
             PROVE  /\ win'[queue'[i].win].there /\ queue'[i].win # closing'
                    /\ \A j \in 1..Len(queue') : i < j /\ queue'[j].what = "CLOSE" => queue'[j].win # queue'[i].win
  BY DEF ClosesAreOnce, There
<1>1. PICK d \in {0, 1} : \A j \in 1..Len(queue') : queue'[j].what = "CLOSE" =>
            j + d \in 1..Len(queue) /\ queue'[j] = queue[j + d]
  BY DEF Kept
<1>2. i + d \in 1..Len(queue) /\ queue'[i] = queue[i + d]
  BY <1>1
<1>3. PICK a \in Addresses : a = queue[i + d].win
  BY <1>2
<1>4. /\ There(a) /\ a # closing
      /\ \A j \in 1..Len(queue) : i + d < j /\ queue[j].what = "CLOSE" => queue[j].win # a
  BY <1>2, <1>3 DEF ClosesAreOnce
<1>5. \A j \in 1..Len(queue') : i < j => i + d < j + d
  OBVIOUS
<1> QED BY <1>1, <1>2, <1>3, <1>4, <1>5 DEF There

LEMMA ClosesName ==
    ASSUME Structure
    PROVE  \A i \in 1..Len(queue) : queue[i].what = "CLOSE" => queue[i].win \in Addresses
<1>1. \A i \in 1..Len(queue) : queue[i] \in NetworkMessages
  BY TypesNow, ElementOfSeq DEF Structure
<1> QED BY <1>1, NetworkMessage

LEMMA AskedKept ==
    ASSUME Structure, Asked, Kept("CLOSE"), WinKept({"BOX"}), UNCHANGED <<asked, again, unasked>>,
           closing' \in {closing, None}, Quitting => Quitting',
           \A a \in Addresses : a = closing /\ There(a)' => There(a),
           ~Quitting' => \A a \in Addresses : a # closing /\ There(a) => There(a)'
    PROVE  Asked'
<1> SUFFICES ASSUME again = {}
             PROVE  /\ ~unasked /\ ClosesAreAsked' /\ BoxesAreAsked' /\ ClosingIsAsked'
                    /\ ~Quitting' => ClosesAreOnce' /\ BoxesAreOnce'
  BY DEF Asked
<1>1. ClosesAreAsked'
  BY DEF Kept, Asked, ClosesAreAsked
<1>2. BoxesAreAsked'
  BY DEF WinKept, Asked, BoxesAreAsked
<1>3. ClosingIsAsked'
  <2> SUFFICES ASSUME closing' # None, win'[closing'].there PROVE closing' \in asked
    BY DEF ClosingIsAsked, There
  <2>1. closing' = closing /\ closing \in Addresses
    BY TypesNow DEF Structure
  <2>2. There(closing)
    BY <2>1 DEF There
  <2> QED BY <2>1, <2>2 DEF Asked, ClosingIsAsked
<1>4. \A a \in Addresses : a # closing => a # closing'
  BY ChatsAssumption
<1>5. ASSUME ~Quitting' PROVE ClosesAreOnce' /\ BoxesAreOnce'
  BY <1>4, <1>5, BoxesKept, ClosesKept, ClosesName DEF Asked
<1> QED BY <1>1, <1>2, <1>3, <1>5 DEF Asked

\* A new window is at an address that nobody wants to be closed.
LEMMA AskedOpens ==
    ASSUME Structure, Asked, ~Quitting, Quitting' = Quitting, closing = None, UNCHANGED <<closing, again, unasked>>,
           Kept("CLOSE"), WinKept({"BOX"}), NEW a \in Addresses, ~There(a), asked' = asked \ {a},
           \A b \in Addresses : There(b) => There(b)'
    PROVE  Asked'
<1> SUFFICES ASSUME again = {}
             PROVE  /\ ~unasked /\ ClosesAreAsked' /\ BoxesAreAsked' /\ ClosingIsAsked'
                    /\ ClosesAreOnce' /\ BoxesAreOnce'
  BY DEF Asked
<1>1. ClosesAreAsked'
  <2> SUFFICES ASSUME NEW i \in 1..Len(queue'), queue'[i].what = "CLOSE" PROVE queue'[i].win \in asked'
    BY DEF ClosesAreAsked
  <2>1. PICK k \in 1..Len(queue) : queue'[i] = queue[k]
    BY DEF Kept
  <2>2. queue[k].win \in asked /\ There(queue[k].win)
    BY <2>1 DEF Asked, ClosesAreAsked, ClosesAreOnce
  <2> QED BY <2>1, <2>2
<1>2. BoxesAreAsked'
  <2> SUFFICES ASSUME NEW b \in Addresses, There(b)', NEW i \in 1..Len(win'[b].queue), win'[b].queue[i].what = "BOX"
               PROVE  b \in asked'
    BY DEF BoxesAreAsked
  <2>1. There(b) /\ \E k \in 1..Len(win[b].queue) : win[b].queue[k].what = "BOX"
    BY DEF WinKept
  <2> QED BY <2>1 DEF Asked, BoxesAreAsked
<1>3. ClosesAreOnce' /\ BoxesAreOnce'
  BY BoxesKept, ClosesKept, ClosesName DEF Asked
<1> QED BY <1>1, <1>2, <1>3 DEF Asked, ClosingIsAsked

LEMMA AskedClose == ASSUME Structure, Asked, CloseMessage PROVE Asked'
<1> USE DEF Structure
<1>1. /\ UNCHANGED <<asked, again>> /\ Quitting' = Quitting /\ closing = None
      /\ Message \in NetworkMessages /\ Message.what = "CLOSE" /\ Message = queue[1]
      /\ Len(queue) \in Nat \ {0} /\ Len(queue') = Len(queue) - 1
      /\ \A i \in 1..Len(queue') : queue'[i] = queue[i + 1]
  BY QueueTaken DEF CloseMessage, Handles, Idle, Quitting, userVars
<1>2. PICK a \in Addresses : a = Message.win
  BY <1>1, NetworkMessage
<1>3. \A i \in 1..Len(queue') : queue'[i] = queue[i + 1] /\ i + 1 \in 1..Len(queue) /\ 1 < i + 1
  BY <1>1
<1>4. 1 \in 1..Len(queue) /\ queue[1].what = "CLOSE" /\ queue[1].win = a
  BY <1>1, <1>2
<1>5. CASE There(a)
  <2> DEFINE m == [what |-> "QUIT"]
  <2>1. m \in WindowMessages /\ m.what \notin {"BOX"}
    BY DEF WindowMessages
  <2>2. win' = [win EXCEPT ![a].queue = Append(@, m)] /\ closing' = a /\ unasked' = (unasked \/ a \notin asked)
    BY <1>2, <1>5 DEF CloseMessage, Quits
  <2> HIDE DEF m
  <2>3. Appended(a, m)
    BY <1>5, <2>1, <2>2, TypesNow, AppendWindow
  <2>4. WinKept({"BOX"}) /\ WinStays({"BOX"})
    BY <2>1, <2>3, TypesNow, WindowAppendedKept
  <2> SUFFICES ASSUME again = {}
               PROVE  /\ ~unasked' /\ ClosesAreAsked' /\ BoxesAreAsked' /\ ClosingIsAsked'
                      /\ ~Quitting => ClosesAreOnce' /\ BoxesAreOnce'
    BY <1>1 DEF Asked
  <2>5. a \in asked /\ ~unasked
    BY <1>4 DEF Asked, ClosesAreAsked
  <2>6. ClosesAreAsked'
    BY <1>1, <1>3 DEF Asked, ClosesAreAsked
  <2>7. BoxesAreAsked'
    <3>1. BoxesAreAsked /\ UNCHANGED asked
      BY <1>1 DEF Asked
    <3> SUFFICES ASSUME NEW b \in Addresses, There(b)', NEW i \in 1..Len(win'[b].queue), win'[b].queue[i].what = "BOX"
                 PROVE  b \in asked
      BY <3>1 DEF BoxesAreAsked
    <3>2. There(b) /\ \E k \in 1..Len(win[b].queue) : win[b].queue[k].what = "BOX"
      BY <2>4 DEF WinKept
    <3> QED BY <3>1, <3>2 DEF BoxesAreAsked
  <2>8. ASSUME ~Quitting PROVE ClosesAreOnce'
    <3> SUFFICES ASSUME NEW i \in 1..Len(queue'), queue'[i].what = "CLOSE"
                 PROVE  /\ win'[queue'[i].win].there /\ queue'[i].win # a
                        /\ \A j \in 1..Len(queue') : i < j /\ queue'[j].what = "CLOSE" => queue'[j].win # queue'[i].win
      BY <2>2 DEF ClosesAreOnce, There
    <3>1. queue'[i] = queue[i + 1] /\ i + 1 \in 1..Len(queue) /\ 1 < i + 1
      BY <1>3
    <3>2. PICK b \in Addresses : b = queue[i + 1].win
      BY <3>1, ClosesName
    <3>3. /\ There(b) /\ b # a
          /\ \A j \in 1..Len(queue) : i + 1 < j /\ queue[j].what = "CLOSE" => queue[j].win # b
      BY <1>4, <2>8, <3>1, <3>2 DEF Asked, ClosesAreOnce
    <3>4. \A j \in 1..Len(queue') : i < j => i + 1 < j + 1
      OBVIOUS
    <3>5. win'[b].there
      BY <2>4, <3>3 DEF WinStays, There
    <3> QED BY <1>3, <3>1, <3>2, <3>3, <3>4, <3>5
  <2>9. ASSUME ~Quitting PROVE BoxesAreOnce'
    <3> SUFFICES ASSUME NEW b \in Addresses, There(b)', NEW i \in 1..Len(win'[b].queue), win'[b].queue[i].what = "BOX"
                 PROVE  /\ b # a
                        /\ \A j \in 1..Len(win'[b].queue) : i < j => win'[b].queue[j].what # "BOX"
                        /\ \A j \in 1..Len(queue') : queue'[j].what = "CLOSE" => queue'[j].win # b
      BY <2>2 DEF BoxesAreOnce
    <3>1. PICK d \in {0, 1} : \A j \in 1..Len(win'[b].queue) : win'[b].queue[j].what = "BOX" =>
              There(b) /\ j + d \in 1..Len(win[b].queue) /\ win'[b].queue[j] = win[b].queue[j + d]
      BY <2>4 DEF WinKept
    <3>2. There(b) /\ i + d \in 1..Len(win[b].queue) /\ win[b].queue[i + d].what = "BOX"
      BY <3>1
    <3>3. /\ \A j \in 1..Len(win[b].queue) : i + d < j => win[b].queue[j].what # "BOX"
          /\ \A j \in 1..Len(queue) : queue[j].what = "CLOSE" => queue[j].win # b
      BY <2>9, <3>2 DEF Asked, BoxesAreOnce
    <3>4. ASSUME NEW j \in 1..Len(win'[b].queue), i < j, win'[b].queue[j].what = "BOX" PROVE FALSE
      <4>1. j + d \in 1..Len(win[b].queue) /\ win[b].queue[j + d].what = "BOX"
        BY <3>1, <3>4
      <4>2. i + d < j + d
        BY <3>4
      <4> QED BY <3>3, <4>1, <4>2
    <3>5. b # a
      BY <1>4, <3>3
    <3> QED BY <1>3, <3>3, <3>4, <3>5
  <2> QED BY <1>1, <2>2, <2>5, <2>6, <2>7, <2>8, <2>9 DEF ClosingIsAsked
<1>6. CASE ~There(a)
  <2>1. UNCHANGED <<win, unasked, closing>>
    BY <1>2, <1>6 DEF CloseMessage
  <2>2. ASSUME again = {} PROVE Quitting
    BY <1>4, <1>6, <2>2 DEF Asked, ClosesAreOnce
  <2>3. ASSUME again = {} PROVE ClosesAreAsked'
    BY <1>1, <1>3, <2>3 DEF Asked, ClosesAreAsked
  <2> QED BY <1>1, <2>1, <2>2, <2>3 DEF Asked, BoxesAreAsked, ClosingIsAsked, There
<1> QED BY <1>5, <1>6

\* The window's wish goes on from its own queue to Network's.
LEMMA AskedRequest == ASSUME Structure, Asked, NEW a \in Addresses, QuitRequested(a) PROVE Asked'
<1> USE DEF Structure
<1>1. /\ UNCHANGED <<closing, asked, again, unasked>> /\ Quitting' = Quitting
      /\ Turn(a, "BOX") /\ Handled(a) /\ Post([what |-> "CLOSE", win |-> a])
  BY DEF QuitRequested, Quitting, userVars
<1>2. Shortened(a) /\ There(a)
  BY <1>1, TypesNow, ShortenWindow DEF Turn
<1>3. /\ Len(win[a].queue) \in Nat \ {0} /\ Len(win'[a].queue) = Len(win[a].queue) - 1
      /\ Head(win[a].queue) = win[a].queue[1]
      /\ \A i \in 1..Len(win'[a].queue) : win'[a].queue[i] = win[a].queue[i + 1]
  BY <1>2, TypesNow, WindowShortened
<1>4. 1 \in 1..Len(win[a].queue) /\ win[a].queue[1].what = "BOX"
  BY <1>1, <1>3 DEF Turn
<1>5. WinKept({"BOX"})
  BY <1>2, TypesNow, ShortenedForward
<1>6. \A b \in Addresses : There(b)' <=> There(b)
  <2>1. There(a)'
    BY <1>2 DEF Shortened
  <2> QED BY <1>2, <2>1 DEF Shortened, Apart, There
<1>7. CASE queue' = queue
  <2>1. Kept("CLOSE")
    BY <1>7, QueueSame
  <2>2. UNCHANGED <<asked, again, unasked>> /\ closing' \in {closing, None} /\ (Quitting => Quitting')
        /\ \A b \in Addresses : There(b) <=> There(b)'
    BY <1>1, <1>6
  <2> QED BY <1>5, <2>1, <2>2, AskedKept
<1>8. CASE queue' # queue
  <2> DEFINE m == [what |-> "CLOSE", win |-> a]
  <2>1. m \in NetworkMessages /\ m.what = "CLOSE" /\ m.win = a
    BY DEF NetworkMessages
  <2>2. queue' = Append(queue, m)
    BY <1>1, <1>8 DEF Post
  <2> HIDE DEF m
  <2>3. /\ Len(queue) \in Nat /\ Len(queue') = Len(queue) + 1 /\ queue'[Len(queue) + 1] = m
        /\ \A i \in 1..Len(queue) : queue'[i] = queue[i]
    BY <2>1, <2>2, QueuePosted
  <2>4. \A j \in 1..Len(queue') : j = Len(queue) + 1 \/ j \in 1..Len(queue)
    BY <2>3
  <2> SUFFICES ASSUME again = {}
               PROVE  /\ ~unasked /\ ClosesAreAsked' /\ BoxesAreAsked' /\ ClosingIsAsked'
                      /\ ~Quitting => ClosesAreOnce' /\ BoxesAreOnce'
    BY <1>1 DEF Asked
  <2>5. a \in asked
    BY <1>2, <1>4 DEF Asked, BoxesAreAsked
  <2>6. ClosesAreAsked'
    BY <1>1, <2>1, <2>3, <2>4, <2>5 DEF Asked, ClosesAreAsked
  <2>7. BoxesAreAsked'
    BY <1>1, <1>5 DEF WinKept, Asked, BoxesAreAsked
  <2>8. ClosingIsAsked'
    <3> SUFFICES ASSUME closing # None, win'[closing].there PROVE closing \in asked
      BY <1>1 DEF ClosingIsAsked, There
    <3>1. closing \in Addresses
      BY TypesNow
    <3>2. There(closing)
      BY <1>6, <3>1 DEF There
    <3> QED BY <3>2 DEF Asked, ClosingIsAsked
  <2>9. ASSUME ~Quitting
        PROVE  /\ a # closing /\ \A j \in 1..Len(win[a].queue) : 1 < j => win[a].queue[j].what # "BOX"
               /\ \A j \in 1..Len(queue) : queue[j].what = "CLOSE" => queue[j].win # a
    BY <1>2, <1>4, <2>9 DEF Asked, BoxesAreOnce
  <2>10. ASSUME ~Quitting PROVE ClosesAreOnce'
    <3> SUFFICES ASSUME NEW i \in 1..Len(queue'), queue'[i].what = "CLOSE"
                 PROVE  /\ win'[queue'[i].win].there /\ queue'[i].win # closing
                        /\ \A j \in 1..Len(queue') : i < j /\ queue'[j].what = "CLOSE" => queue'[j].win # queue'[i].win
      BY <1>1 DEF ClosesAreOnce, There
    <3>1. CASE i = Len(queue) + 1
      <4>1. \A j \in 1..Len(queue') : ~(i < j)
        BY <2>3, <3>1
      <4>2. win'[a].there
        BY <1>2, <1>6 DEF There
      <4> QED BY <2>1, <2>3, <2>9, <2>10, <3>1, <4>1, <4>2
    <3>2. CASE i # Len(queue) + 1
      <4>1. i \in 1..Len(queue) /\ queue'[i] = queue[i]
        BY <2>3, <2>4, <3>2
      <4>2. PICK b \in Addresses : b = queue[i].win
        BY <3>2, <4>1, ClosesName
      <4>3. /\ There(b) /\ b # closing /\ b # a
            /\ \A j \in 1..Len(queue) : i < j /\ queue[j].what = "CLOSE" => queue[j].win # b
        BY <2>9, <2>10, <3>2, <4>1, <4>2 DEF Asked, ClosesAreOnce
      <4>4. win'[b].there
        BY <1>6, <4>3 DEF There
      <4> QED BY <2>1, <2>3, <2>4, <4>1, <4>2, <4>3, <4>4
    <3> QED BY <3>1, <3>2
  <2>11. ASSUME ~Quitting PROVE BoxesAreOnce'
    <3> SUFFICES ASSUME NEW b \in Addresses, There(b)', NEW i \in 1..Len(win'[b].queue), win'[b].queue[i].what = "BOX"
                 PROVE  /\ b # closing
                        /\ \A j \in 1..Len(win'[b].queue) : i < j => win'[b].queue[j].what # "BOX"
                        /\ \A j \in 1..Len(queue') : queue'[j].what = "CLOSE" => queue'[j].win # b
      BY <1>1 DEF BoxesAreOnce
    <3>1. CASE b = a
      <4>1. win'[a].queue[i] = win[a].queue[i + 1] /\ i + 1 \in 1..Len(win[a].queue) /\ 1 < i + 1
        BY <1>3, <3>1
      <4> QED BY <2>9, <2>11, <3>1, <4>1
    <3>2. CASE b # a
      <4>1. There(b) /\ win'[b] = win[b]
        BY <1>2, <3>2 DEF Shortened, Apart, There
      <4>2. /\ b # closing
            /\ \A j \in 1..Len(win[b].queue) : i < j => win[b].queue[j].what # "BOX"
            /\ \A j \in 1..Len(queue) : queue[j].what = "CLOSE" => queue[j].win # b
        BY <2>11, <4>1 DEF Asked, BoxesAreOnce
      <4> QED BY <2>1, <2>3, <2>4, <3>2, <4>1, <4>2
    <3> QED BY <3>1, <3>2
  <2> QED BY <2>6, <2>7, <2>8, <2>10, <2>11 DEF Asked
<1> QED BY <1>7, <1>8

\* A wish is new only if the user had none for this window.
LEMMA AskedUser == ASSUME Structure, Asked, NEW a \in Addresses, UserCloses(a) PROVE Asked'
<1> USE DEF Structure
<1> DEFINE m == [what |-> "BOX"]
<1>1. /\ UNCHANGED <<queue, closing, unasked>> /\ Quitting' = Quitting /\ There(a)
      /\ win' = [win EXCEPT ![a].queue = Append(@, m)] /\ asked' = asked \cup {a}
      /\ again' = IF a \in asked THEN again \cup {a} ELSE again
  BY DEF UserCloses, looperVars, Quitting
<1>2. m \in WindowMessages /\ m.what = "BOX"
  BY DEF WindowMessages
<1> HIDE DEF m
<1>3. Appended(a, m)
  BY <1>1, <1>2, TypesNow, AppendWindow
<1>4. /\ Len(win[a].queue) \in Nat /\ Len(win'[a].queue) = Len(win[a].queue) + 1
      /\ win'[a].queue[Len(win[a].queue) + 1] = m
      /\ \A i \in 1..Len(win[a].queue) : win'[a].queue[i] = win[a].queue[i]
  BY <1>2, <1>3, TypesNow, WindowAppended
<1>5. \A i \in 1..Len(win'[a].queue) : i = Len(win[a].queue) + 1 \/ i \in 1..Len(win[a].queue)
  BY <1>4
<1>6. \A b \in Addresses \ {a} : There(b)' = There(b) /\ win'[b] = win[b]
  BY <1>3 DEF Appended, Apart, There
<1>7. There(a)'
  BY <1>3 DEF Appended
<1> SUFFICES ASSUME again' = {}
             PROVE  /\ ~unasked /\ ClosesAreAsked' /\ BoxesAreAsked' /\ ClosingIsAsked'
                    /\ ~Quitting => ClosesAreOnce' /\ BoxesAreOnce'
  BY <1>1 DEF Asked
<1>8. again = {} /\ a \notin asked
  BY <1>1
<1>9. ClosesAreAsked'
  BY <1>1, <1>8 DEF Asked, ClosesAreAsked
<1>10. BoxesAreAsked'
  BY <1>1, <1>6, <1>8 DEF Asked, BoxesAreAsked
<1>11. ClosingIsAsked'
  <2> SUFFICES ASSUME closing # None, win'[closing].there PROVE closing \in asked'
    BY <1>1 DEF ClosingIsAsked, There
  <2>1. closing \in Addresses
    BY TypesNow
  <2>2. closing = a \/ There(closing)
    BY <1>6, <2>1 DEF There
  <2> QED BY <1>1, <1>8, <2>2 DEF Asked, ClosingIsAsked
<1>12. ASSUME ~Quitting PROVE ClosesAreOnce'
  BY <1>1, <1>6, <1>7, <1>8, <1>12, ClosesKept, ClosesName, QueueSame DEF Asked
\* neither BOX nor CLOSE of this window is under way: it was not asked
<1>13. /\ a # closing /\ \A i \in 1..Len(win[a].queue) : win[a].queue[i].what # "BOX"
       /\ \A j \in 1..Len(queue) : queue[j].what = "CLOSE" => queue[j].win # a
  BY <1>1, <1>8, ChatsAssumption DEF Asked, ClosingIsAsked, BoxesAreAsked, ClosesAreAsked
<1>14. ASSUME ~Quitting PROVE BoxesAreOnce'
  <2> SUFFICES ASSUME NEW b \in Addresses, There(b)', NEW i \in 1..Len(win'[b].queue), win'[b].queue[i].what = "BOX"
               PROVE  /\ b # closing
                      /\ \A j \in 1..Len(win'[b].queue) : i < j => win'[b].queue[j].what # "BOX"
                      /\ \A j \in 1..Len(queue) : queue[j].what = "CLOSE" => queue[j].win # b
    BY <1>1 DEF BoxesAreOnce
  <2>1. CASE b = a
    <3>1. i = Len(win[a].queue) + 1
      BY <1>4, <1>5, <1>13, <2>1
    <3>2. \A j \in 1..Len(win'[a].queue) : ~(i < j)
      BY <1>4, <3>1
    <3> QED BY <1>13, <2>1, <3>2
  <2>2. CASE b # a
    BY <1>6, <1>8, <1>14, <2>2 DEF Asked, BoxesAreOnce
  <2> QED BY <2>1, <2>2
<1> QED BY <1>8, <1>9, <1>10, <1>11, <1>12, <1>14 DEF Asked

LEMMA AskedStep == ASSUME Structure, Asked, [Next]_vars PROVE Asked'
<1> USE DEF Structure
<1>1. CASE CloseMessage
  BY <1>1, AskedClose
<1>2. ASSUME NEW a \in Addresses, QuitRequested(a) PROVE Asked'
  BY <1>2, AskedRequest
<1>3. ASSUME NEW a \in Addresses, UserCloses(a) PROVE Asked'
  BY <1>3, AskedUser
<1>4. CASE /\ ~CloseMessage /\ \A a \in Addresses : ~QuitRequested(a) /\ ~UserCloses(a)
  <2>1. Kept("CLOSE")
    BY <1>4, QueueKept
  <2>2. WinKept({"BOX"}) /\ ((\A a \in Addresses : ~Quit(a)) => WinStays({"BOX"}))
    BY <1>4, WindowsKept
  <2>3. Quitting => Quitting'
    BY QuittingStays
  <2>4. CASE OpenMessage \/ GotMsg
    <3>1. PICK c \in Contacts, s \in Seq(WindowMessages) : GetMesgWinForUser(c, s)
      <4>1. CASE OpenMessage
        <5>1. Message.who \in Contacts /\ <<>> \in Seq(WindowMessages)
          BY <4>1, QueueTaken, NetworkMessage DEF OpenMessage, Handles
        <5> QED BY <4>1, <5>1 DEF OpenMessage
      <4>2. CASE GotMsg
        <5>1. Message.who \in Contacts /\ Message.msg \in Nat
          BY <4>2, QueueTaken, NetworkMessage DEF GotMsg, Handles
        <5>2. [what |-> "SHOW", msg |-> Message.msg] \in WindowMessages
          BY <5>1 DEF WindowMessages
        <5>3. <<[what |-> "SHOW", msg |-> Message.msg]>> \in Seq(WindowMessages)
          BY <5>2
        <5> QED BY <4>2, <5>1, <5>3 DEF GotMsg
      <4> QED BY <2>4, <4>1, <4>2
    <3>2. closing = None /\ UNCHANGED <<closing, unasked>> /\ Quitting' = Quitting
      BY <2>4 DEF OpenMessage, GotMsg, Handles, Idle, Quitting
    <3>3. \A a \in Addresses : ~Quit(a)
      <4>1. /\ Len(queue) \in Nat \ {0} /\ Len(queue') = Len(queue) - 1
        BY <2>4, QueueTaken DEF OpenMessage, GotMsg, Handles
      <4>2. queue' # queue
        BY <4>1
      <4> QED BY <4>2 DEF Quit, looperVars
    <3>4. WinStays({"BOX"})
      BY <2>2, <3>3
    <3>5. \/ UNCHANGED <<asked, again>>
          \/ /\ ~Quitting /\ UNCHANGED again
             /\ \E a \in Addresses : ~There(a) /\ asked' = asked \ {a}
      BY <3>1, <3>2, Delivery
    <3>6. CASE UNCHANGED <<asked, again>>
      <4>1. \A a \in Addresses : a # closing
        BY <3>2, ChatsAssumption
      <4> QED BY <2>1, <2>2, <3>2, <3>4, <3>6, <4>1, AskedKept DEF WinStays
    <3>7. CASE ~Quitting /\ UNCHANGED again /\ \E a \in Addresses : ~There(a) /\ asked' = asked \ {a}
      <4>1. PICK a \in Addresses : ~There(a) /\ asked' = asked \ {a}
        BY <3>7
      <4> QED BY <2>1, <2>2, <3>2, <3>4, <3>7, <4>1, AskedOpens DEF WinStays
    <3> QED BY <3>5, <3>6, <3>7
  <2>5. CASE ~OpenMessage /\ ~GotMsg
    <3>1. UNCHANGED <<asked, again, unasked>> /\ closing' \in {closing, None}
      BY <1>4, <2>5 DEF Next, vars, NetworkStep, SendMsg, Closed, looperVars, userVars,
         QuitBegins, QuitStep, QuitCounts, QuitLocks, QuitWaits, QuitEmpties, QuitLoops, QuitEnds,
         Environment, UserOpens, Receive, UserTypes, SessionChanges,
         WindowStep, ShowMessage, BeggSend, Quit
    <3>2. \A a \in Addresses : There(a)' => There(a)
      BY <2>5, NoWindowOpens
    <3>3. ASSUME ~Quitting' PROVE \A a \in Addresses : a # closing /\ There(a) => There(a)'
      <4>1. ASSUME NEW b \in Addresses, Quit(b) PROVE \A a \in Addresses : a # closing /\ There(a) => There(a)'
        <5>1. Turn(b, "QUIT") /\ win' = [win EXCEPT ![b] = Gone]
          BY <4>1 DEF Quit
        <5>2. Apart(b)
          BY <5>1, TypesNow, CloseWindow
        <5>3. There(b) /\ win[b].queue # <<>> /\ win[b].queue \in Seq(WindowMessages) /\ Head(win[b].queue).what = "QUIT"
          BY <5>1, TypesNow, WindowFacts DEF Turn
        <5>4. 1 \in 1..Len(win[b].queue) /\ win[b].queue[1].what = "QUIT"
          BY <5>3
        <5>5. b = closing
          BY <2>3, <3>3, <5>3, <5>4 DEF ToldToQuit
        <5> QED BY <5>2, <5>5 DEF Apart, There
      <4>2. CASE \A a \in Addresses : ~Quit(a)
        BY <2>2, <4>2 DEF WinStays
      <4> QED BY <4>1, <4>2
    <3> QED BY <2>1, <2>2, <2>3, <3>1, <3>2, <3>3, AskedKept
  <2> QED BY <2>4, <2>5
<1> QED BY <1>1, <1>2, <1>3, <1>4

-------------------------------------------------------------------------------
(***************************************************************************)
(* Network::Quit with nothing else under way.  The list stays as it is,    *)
(* each window that is there is in it, at the place that Quit has reached  *)
(* or after it, and QUIT is all that anybody still has to handle.          *)
(***************************************************************************)
OnlyQuitIsLeft ==
    /\ closing = None
    /\ \A i \in 1..Len(queue) : queue[i].what = "QUIT"
    /\ \A a \in Addresses : There(a) => \A i \in 1..Len(win[a].queue) : win[a].queue[i].what = "QUIT"
Reached ==
    /\ quit.at \in {"count", "item", "wait", "empty"} =>
           /\ \A a \in Addresses : There(a) => a \in Range(iWinList)
           /\ \A k \in 1..Len(iWinList) : k <= quit.i => ~There(iWinList[k])
    /\ quit.at \in {"item", "wait"} => quit.i < Len(iWinList)
    /\ quit.at = "wait" => quit.chat = iWinList[quit.i + 1]
    /\ quit.at = "empty" => quit.i >= Len(iWinList)
    /\ quit.at \in {"lock", "ending", "done"} => \A a \in Addresses : ~There(a)

Calm ==
    /\ undefined => ~calm
    /\ ~Quitting => quit.i = 0
    /\ calm /\ Quitting => OnlyQuitIsLeft /\ Reached

LEMMA InitCalm == Init => Calm
BY DEF Init, Calm, Quitting

LEMMA CalmBegins == ASSUME Structure, Calm, QuitBegins PROVE Calm'
<1> USE DEF Structure
<1>1. /\ UNCHANGED <<queue, iWinList, closing, win, undefined>> /\ ~undefined /\ ~Quitting
      /\ calm' => queue = <<>> /\ closing = None /\ \A a \in Addresses : There(a) => win[a].queue = <<>>
      /\ quit' = [quit EXCEPT !.at = "count"]
  BY DEF QuitBegins, looperVars
<1>2. quit'.at = "count" /\ quit'.i = 0 /\ Quitting'
  BY <1>1, TypesNow DEF Quitting, Calm
<1> SUFFICES ASSUME calm' PROVE OnlyQuitIsLeft' /\ Reached'
  BY <1>1, <1>2 DEF Calm
<1>3. OnlyQuitIsLeft'
  BY <1>1 DEF OnlyQuitIsLeft, There
<1>4. \A a \in Addresses : There(a) => a \in Range(iWinList)
  BY <1>1, ChatsAssumption DEF Listed
<1>5. \A k \in 1..Len(iWinList) : ~(k <= 0)
  OBVIOUS
<1>6. Reached'
  BY <1>1, <1>2, <1>4, <1>5 DEF Reached, There
<1> QED BY <1>3, <1>6

\* What can happen when only Quit is under way.
LEMMA CalmSteps ==
    ASSUME Structure, Calm, calm, Quitting, [Next]_vars, calm'
    PROVE  \/ UNCHANGED <<queue, iWinList, closing, win, quit, undefined>>
           \/ QuitStep \/ \E a \in Addresses : Quit(a)
<1> USE DEF Structure
<1>1. OnlyQuitIsLeft /\ closing = None
  BY DEF Calm, OnlyQuitIsLeft
<1>2. ASSUME NEW what, Handles(what) PROVE what = "QUIT"
  BY <1>1, <1>2, QueueTaken DEF Handles, OnlyQuitIsLeft
<1>3. ASSUME NEW a \in Addresses, NEW what, Turn(a, what) PROVE what = "QUIT"
  <2>1. There(a) /\ win[a].queue \in Seq(WindowMessages) /\ win[a].queue # <<>> /\ Head(win[a].queue).what = what
    BY <1>3, TypesNow, WindowFacts DEF Turn
  <2>2. 1 \in 1..Len(win[a].queue) /\ win[a].queue[1].what = what
    BY <2>1
  <2> QED BY <1>1, <2>1, <2>2 DEF OnlyQuitIsLeft
<1>4. ~NetworkStep
  BY <1>1, <1>2 DEF NetworkStep, OpenMessage, GotMsg, SendMsg, CloseMessage, Closed
<1>5. ~QuitBegins /\ ~Environment
  BY DEF QuitBegins, Environment, UserOpens, Receive, UserTypes, UserCloses, SessionChanges
<1>6. \A a \in Addresses : WindowStep(a) => Quit(a)
  BY <1>3 DEF WindowStep, ShowMessage, BeggSend, QuitRequested
<1> QED BY <1>4, <1>5, <1>6 DEF Next, vars, looperVars

LEMMA CalmQuit ==
    ASSUME Structure, Calm, calm, Quitting, Quitting', QuitStep
    PROVE  Calm'
<1> USE DEF Structure
<1>0. /\ OnlyQuitIsLeft /\ Reached /\ ~undefined /\ UNCHANGED <<undefined, calm>>
      /\ quit \in [at : Places, i : Nat, chat : Addresses \cup {None}]
      /\ Len(iWinList) \in Nat
  BY TypesNow, ListFacts DEF Calm, QuitStep, QuitCounts, QuitLocks, QuitWaits, QuitEmpties, QuitLoops, QuitEnds, At
<1> SUFFICES OnlyQuitIsLeft' /\ Reached'
  BY <1>0 DEF Calm
<1>1. CASE QuitCounts
  <2>1. /\ UNCHANGED <<queue, iWinList, closing, win>> /\ quit.at = "count"
        /\ quit' = [quit EXCEPT !.at = IF quit.i < Len(iWinList) THEN "item" ELSE "empty"]
    BY <1>1 DEF QuitCounts, At, looperVars
  <2>2. /\ quit'.i = quit.i /\ quit'.at = IF quit.i < Len(iWinList) THEN "item" ELSE "empty"
    BY <1>0, <2>1
  <2> QED BY <1>0, <2>1, <2>2 DEF OnlyQuitIsLeft, Reached, There
<1>2. CASE QuitLocks /\ There(iWinList[quit.i + 1])
  <2> DEFINE m == [what |-> "QUIT"]
  <2>1. quit.at = "item" /\ quit.i < Len(iWinList)
    BY <1>0, <1>2 DEF QuitLocks, At, Reached
  <2>2. PICK a \in Addresses : a = iWinList[quit.i + 1]
    BY <1>0, <2>1, ListFacts
  <2>3. /\ win' = [win EXCEPT ![a].queue = Append(@, m)] /\ There(a)
        /\ quit' = [quit EXCEPT !.at = "wait", !.chat = a] /\ UNCHANGED <<queue, iWinList, closing>>
    BY <1>2, <2>1, <2>2 DEF QuitLocks, looperVars
  <2>4. m \in WindowMessages /\ m.what = "QUIT"
    BY DEF WindowMessages
  <2> HIDE DEF m
  <2>5. Appended(a, m)
    BY <2>3, <2>4, TypesNow, AppendWindow
  <2>6. /\ Len(win[a].queue) \in Nat /\ Len(win'[a].queue) = Len(win[a].queue) + 1
        /\ win'[a].queue[Len(win[a].queue) + 1] = m
        /\ \A i \in 1..Len(win[a].queue) : win'[a].queue[i] = win[a].queue[i]
    BY <2>4, <2>5, TypesNow, WindowAppended
  <2>7. \A b \in Addresses : There(b)' <=> There(b)
    BY <2>3, <2>5 DEF Appended, Apart, There
  <2>8. OnlyQuitIsLeft'
    <3>1. ASSUME NEW b \in Addresses, There(b)', NEW i \in 1..Len(win'[b].queue) PROVE win'[b].queue[i].what = "QUIT"
      <4>1. CASE b = a
        <5>1. i = Len(win[a].queue) + 1 \/ i \in 1..Len(win[a].queue)
          BY <2>6, <4>1
        <5> QED BY <1>0, <2>3, <2>4, <2>6, <4>1, <5>1 DEF OnlyQuitIsLeft
      <4>2. CASE b # a
        BY <1>0, <2>5, <2>7, <3>1, <4>2 DEF OnlyQuitIsLeft, Appended, Apart
      <4> QED BY <4>1, <4>2
    <3> QED BY <1>0, <2>3, <3>1 DEF OnlyQuitIsLeft
  <2>9. quit'.at = "wait" /\ quit'.i = quit.i /\ quit'.chat = a
    BY <1>0, <2>3
  <2>10. \A k \in 1..Len(iWinList) : iWinList[k] \in Addresses
    BY ListFacts
  <2>11. /\ \A b \in Addresses : There(b)' => b \in Range(iWinList')
         /\ \A k \in 1..Len(iWinList') : k <= quit'.i => ~win'[iWinList'[k]].there
    <3>1. \A k \in 1..Len(iWinList) : k <= quit.i => ~win'[iWinList[k]].there
      BY <1>0, <2>1, <2>7, <2>10 DEF Reached, There
    <3>2. \A b \in Addresses : There(b)' => b \in Range(iWinList)
      BY <1>0, <2>1, <2>7 DEF Reached
    <3> QED BY <2>3, <2>9, <3>1, <3>2
  <2>12. Reached'
    BY <2>1, <2>2, <2>3, <2>9, <2>11 DEF Reached, There
  <2> QED BY <2>8, <2>12
<1>3. CASE QuitWaits \/ (QuitLocks /\ ~There(iWinList[quit.i + 1]))
  <2>1. /\ UNCHANGED <<queue, iWinList, closing, win>> /\ quit' = Counts(quit.i + 1)
        /\ quit.at \in {"item", "wait"} /\ ~There(iWinList[quit.i + 1])
    <3>1. CASE QuitWaits
      BY <1>0, <3>1 DEF QuitWaits, At, looperVars, Reached
    <3>2. CASE QuitLocks /\ ~There(iWinList[quit.i + 1])
      BY <3>2 DEF QuitLocks, At, looperVars
    <3> QED BY <1>3, <3>1, <3>2
  <2>2. quit'.at = "count" /\ quit'.i = quit.i + 1
    BY <2>1 DEF Counts
  <2>3. \A k \in 1..Len(iWinList) : k <= quit.i + 1 => k <= quit.i \/ k = quit.i + 1
    BY <1>0
  <2>4. \A k \in 1..Len(iWinList) : k <= quit.i + 1 => ~There(iWinList[k])
    BY <1>0, <2>1, <2>3 DEF Reached
  <2> QED BY <1>0, <2>1, <2>2, <2>4 DEF OnlyQuitIsLeft, Reached, There
<1>4. CASE QuitEmpties
  <2>1. UNCHANGED <<queue, closing, win>> /\ quit.at = "empty" /\ quit' = [quit EXCEPT !.at = "lock"]
    BY <1>4 DEF QuitEmpties, At
  <2>2. quit'.at = "lock"
    BY <1>0, <2>1
  <2>3. \A k \in 1..Len(iWinList) : ~There(iWinList[k])
    <3>1. quit.i >= Len(iWinList) /\ \A k \in 1..Len(iWinList) : k <= quit.i => ~There(iWinList[k])
      BY <1>0, <2>1 DEF Reached
    <3>2. \A k \in 1..Len(iWinList) : k <= quit.i
      BY <1>0, <3>1
    <3> QED BY <3>1, <3>2
  <2>4. \A a \in Addresses : ~There(a)
    BY <1>0, <2>1, <2>3, ListFacts DEF Reached
  <2> QED BY <1>0, <2>1, <2>2, <2>4 DEF OnlyQuitIsLeft, Reached, There
<1>5. CASE QuitLoops
  <2> DEFINE m == [what |-> "QUIT"]
  <2>1. /\ UNCHANGED <<closing, win>> /\ quit.at = "lock" /\ quit' = [quit EXCEPT !.at = "ending"]
        /\ queue' = Append(queue, m)
    BY <1>5 DEF QuitLoops, At
  <2>2. quit'.at = "ending"
    BY <1>0, <2>1
  <2>3. m \in NetworkMessages /\ m.what = "QUIT"
    BY DEF NetworkMessages
  <2> HIDE DEF m
  <2>4. /\ Len(queue) \in Nat /\ Len(queue') = Len(queue) + 1 /\ queue'[Len(queue) + 1] = m
        /\ \A i \in 1..Len(queue) : queue'[i] = queue[i]
    BY <2>1, <2>3, QueuePosted
  <2>5. \A i \in 1..Len(queue') : i = Len(queue) + 1 \/ i \in 1..Len(queue)
    BY <2>4
  <2>6. \A i \in 1..Len(queue') : queue'[i].what = "QUIT"
    BY <1>0, <2>3, <2>4, <2>5 DEF OnlyQuitIsLeft
  <2> QED BY <1>0, <2>1, <2>2, <2>6 DEF OnlyQuitIsLeft, Reached, There
<1>6. CASE QuitEnds
  <2>1. UNCHANGED <<closing, win>> /\ quit.at = "ending" /\ quit' = [quit EXCEPT !.at = "done"] /\ Handles("QUIT")
    BY <1>6 DEF QuitEnds, At
  <2>2. quit'.at = "done"
    BY <1>0, <2>1
  <2>3. /\ Len(queue) \in Nat \ {0} /\ Len(queue') = Len(queue) - 1
        /\ \A i \in 1..Len(queue') : queue'[i] = queue[i + 1]
    BY <2>1, QueueTaken DEF Handles
  <2>4. \A i \in 1..Len(queue') : i + 1 \in 1..Len(queue)
    BY <2>3
  <2>5. \A i \in 1..Len(queue') : queue'[i].what = "QUIT"
    BY <1>0, <2>3, <2>4 DEF OnlyQuitIsLeft
  <2> QED BY <1>0, <2>1, <2>2, <2>5 DEF OnlyQuitIsLeft, Reached, There
<1>7. \/ QuitCounts \/ (QuitLocks /\ There(iWinList[quit.i + 1]))
      \/ QuitWaits \/ (QuitLocks /\ ~There(iWinList[quit.i + 1]))
      \/ QuitEmpties \/ QuitLoops \/ QuitEnds
  BY DEF QuitStep
<1> QED BY <1>1, <1>2, <1>3, <1>4, <1>5, <1>6, <1>7

LEMMA CalmStep == ASSUME Structure, Structure', Calm, [Next]_vars PROVE Calm'
<1>1. CASE QuitBegins
  BY <1>1, CalmBegins
<1>2. CASE ~QuitBegins /\ ~Quitting
  <2>1. ~QuitStep
    BY <1>2 DEF Quitting, QuitStep, QuitCounts, QuitLocks, QuitWaits, QuitEmpties, QuitLoops, QuitEnds, At
  <2>2. quit' = quit
    BY <1>2, <2>1 DEF Next, vars, NetworkStep, OpenMessage, GotMsg, SendMsg, CloseMessage, Closed,
       Environment, UserOpens, Receive, UserTypes, UserCloses, SessionChanges,
       WindowStep, ShowMessage, BeggSend, QuitRequested, Quit
  <2> QED BY <1>2, <2>2 DEF Calm, Quitting, Structure
<1>3. CASE ~QuitBegins /\ Quitting /\ ~calm
  <2>1. ~calm'
    BY <1>3 DEF Next, vars, NetworkStep, OpenMessage, GotMsg, SendMsg, CloseMessage, Closed,
       Environment, UserOpens, Receive, UserTypes, UserCloses, SessionChanges, Post,
       WindowStep, ShowMessage, BeggSend, QuitRequested, Quit,
       QuitStep, QuitCounts, QuitLocks, QuitWaits, QuitEmpties, QuitLoops, QuitEnds
  <2>2. Quitting'
    BY <1>3, QuittingStays
  <2> QED BY <2>1, <2>2 DEF Calm
<1>4. CASE Quitting /\ calm /\ ~calm'
  BY <1>4, QuittingStays DEF Calm
<1>5. CASE Quitting /\ calm /\ calm'
  <2>1. Quitting'
    BY <1>5, QuittingStays
  <2>2. CASE UNCHANGED <<queue, iWinList, closing, win, quit, undefined>>
    BY <1>5, <2>1, <2>2 DEF Calm, OnlyQuitIsLeft, Reached, There
  <2>3. CASE QuitStep
    BY <1>5, <2>1, <2>3, CalmQuit
  <2>4. ASSUME NEW a \in Addresses, Quit(a) PROVE Calm'
    <3>1. /\ UNCHANGED <<queue, iWinList, closing, quit, undefined>> /\ Turn(a, "QUIT")
          /\ win' = [win EXCEPT ![a] = Gone]
      BY <2>4 DEF Quit, looperVars
    <3>2. Apart(a) /\ ~There(a)'
      BY <3>1, TypesNow, CloseWindow DEF Structure
    <3>3. \A b \in Addresses : There(b)' => There(b) /\ win'[b] = win[b]
      BY <3>2 DEF Apart, There
    <3>4. OnlyQuitIsLeft /\ Reached /\ (undefined => ~calm)
      BY <1>5 DEF Calm
    <3>5. OnlyQuitIsLeft'
      BY <3>1, <3>3, <3>4 DEF OnlyQuitIsLeft
    <3>6. \A k \in 1..Len(iWinList) : win'[iWinList[k]].there => There(iWinList[k])
      BY <3>3, ListFacts DEF Structure, There
    <3>7. Reached'
      <4>1. /\ \A b \in Addresses : There(b)' => There(b)
            /\ \A k \in 1..Len(iWinList) : ~There(iWinList[k]) => ~win'[iWinList[k]].there
        BY <3>3, <3>6
      <4> QED BY <3>1, <3>4, <4>1 DEF Reached, There
    <3> QED BY <1>5, <2>1, <3>1, <3>4, <3>5, <3>7 DEF Calm
  <2> QED BY <1>5, <2>2, <2>3, <2>4, CalmSteps
<1> QED BY <1>1, <1>2, <1>3, <1>4, <1>5

-------------------------------------------------------------------------------
(***************************************************************************)
(* The theorems.                                                           *)
(***************************************************************************)
IInv == Structure /\ Shown /\ Sent /\ Asked /\ Calm

LEMMA Inductive == Spec => []IInv
<1>1. Init => IInv
  BY InitStructure, InitShown, InitSent, InitAsked, InitCalm DEF IInv
<1>2. IInv /\ [Next]_vars => IInv'
  BY StructureStep, ShownStep, SentStep, AskedStep, CalmStep DEF IInv
<1> QED BY <1>1, <1>2, PTL DEF Spec

\* Every variable keeps its type, whatever the contacts, the addresses and the acts.
THEOREM TypeCorrect == Spec => []TypeOK
<1>1. IInv => TypeOK
  BY DEF IInv, Structure, Types
<1> QED BY <1>1, Inductive, PTL

\* GetMesgWinForUser and CLOSE_MESSAGE: a contact has one window, the one that the
\* list names, and only a window whose user has closed it twice can take the wish
\* to the next window at its address.
THEOREM WindowsAreSound == Spec => []WindowsSound
<1>1. ASSUME Structure PROVE OneWindowEach
  BY <1>1 DEF Structure, OnePerContact, Listed, OneWindowEach
<1>2. ASSUME Asked PROVE OnlyAskedAreClosed
  BY <1>2 DEF Asked, OnlyAskedAreClosed
<1>3. IInv => WindowsSound
  BY <1>1, <1>2 DEF IInv, WindowsSound
<1> QED BY <1>3, Inductive, PTL

\* What a contact says is shown without a gap and in order, and what is said to it
\* is sent in the order in which it was typed, through both queues, while windows
\* come and go and the program quits at any moment.
THEOREM ChatStaysInOrder == Spec => []ChatInOrder
<1>1. IInv => ChatInOrder
  BY DEF IInv, Shown, Sent, ChatInOrder
<1> QED BY <1>1, Inductive, PTL

\* Network::Quit closes every window without using freed memory when nothing else
\* is under way, however many windows there are.
THEOREM QuitIsSound == Spec => []QuitSound
<1>1. ASSUME Structure, Calm PROVE QuitSound
  <2>1. SoundWhenCalm
    BY <1>1 DEF Structure, Calm, SoundWhenCalm
  <2>2. QuitClosesAll
    BY <1>1 DEF Calm, Reached, Quitting, QuitClosesAll
  <2> QED BY <2>1, <2>2 DEF QuitSound
<1>2. IInv => QuitSound
  BY <1>1 DEF IInv
<1> QED BY <1>2, Inductive, PTL
================================================================================

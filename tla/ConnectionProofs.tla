--------------------------- MODULE ConnectionProofs ---------------------------
(***************************************************************************)
(* Proofs about Connection, for any number of handlers, sessions and       *)
(* descriptors: first what holds whatever the user does, then what holds   *)
(* with a user who waits (Patient).                                        *)
(***************************************************************************)
EXTENDS Connection, Integers, SequenceTheorems, WellFoundedInduction, TLAPS

--------------------------------------------------------------------------------
(***************************************************************************)
(* What BList's operations do to a list without duplicates (iHandlerList). *)
(***************************************************************************)
\* A non-empty set of naturals has a minimum (the first match of a search).
LEMMA MinInSet ==
    ASSUME NEW S \in SUBSET Nat, S # {}
    PROVE  Min(S) \in S
<1>1. PICK x \in S : \A y \in S : ~(<<y, x>> \in OpToRel(<, Nat))
  BY NatLessThanWellFounded, WFMin
<1>2. ASSUME NEW y \in S, ~(x =< y)
      PROVE  FALSE
  <2>1. <<y, x>> \in Nat \X Nat /\ y < x
    BY <1>2
  <2> QED BY <1>1, <2>1 DEF OpToRel
<1> QED BY <1>2 DEF Min

\* What RemoveAt leaves (BList::RemoveItem at a known position).
LEMMA RemoveAtElements ==
    ASSUME NEW S, NEW s \in Seq(S), NEW i \in 1..Len(s)
    PROVE  /\ RemoveAt(s, i) \in Seq(S)
           /\ Len(RemoveAt(s, i)) = Len(s) - 1
           /\ \A j \in 1..(Len(s) - 1) :
                 RemoveAt(s, i)[j] = IF j < i THEN s[j] ELSE s[j + 1]
<1> DEFINE a == SubSeq(s, 1, i - 1)
           b == SubSeq(s, i + 1, Len(s))
<1>1. /\ a \in Seq(S) /\ Len(a) = i - 1
      /\ \A j \in 1..(i - 1) : a[j] = s[j]
  <2>1. \A j \in 1..(i - 1) : s[j] \in S
    BY ElementOfSeq
  <2>2. 1 \in Int /\ i - 1 \in Int
    OBVIOUS
  <2> QED BY <2>1, <2>2, SubSeqProperties
<1>2. /\ b \in Seq(S) /\ Len(b) = Len(s) - i
      /\ \A j \in 1..(Len(s) - i) : b[j] = s[i + j]
  <2>1. \A j \in (i + 1)..Len(s) : s[j] \in S
    BY ElementOfSeq
  <2>2. i + 1 \in Int /\ Len(s) \in Nat
    BY LenProperties
  <2> QED BY <2>1, <2>2, SubSeqProperties
<1> HIDE DEF a, b
<1>3. /\ a \o b \in Seq(S)
      /\ Len(a \o b) = Len(s) - 1
      /\ \A j \in 1..(Len(s) - 1) :
            (a \o b)[j] = IF j <= i - 1 THEN a[j] ELSE b[j - (i - 1)]
  <2>1. Len(s) \in Nat
    BY LenProperties
  <2>2. /\ a \o b \in Seq(S)
        /\ Len(a \o b) = Len(a) + Len(b)
        /\ \A j \in 1..(Len(a) + Len(b)) :
              (a \o b)[j] = IF j <= Len(a) THEN a[j] ELSE b[j - Len(a)]
    BY <1>1, <1>2, ConcatProperties
  <2>3. Len(a) + Len(b) = Len(s) - 1
    BY <1>1, <1>2, <2>1
  <2> QED BY <1>1, <2>2, <2>3
<1>4. \A j \in 1..(Len(s) - 1) : (a \o b)[j] = IF j < i THEN s[j] ELSE s[j + 1]
  BY <1>1, <1>2, <1>3
<1> QED BY <1>3, <1>4 DEF RemoveAt, a, b

\* A search that some element satisfies finds a position of the list.
LEMMA SelectFirst ==
    ASSUME NEW S, NEW s \in Seq(S), NEW e, \E i \in 1..Len(s) : s[i] = e
    PROVE  LET i == SelectInSeq(s, LAMBDA v : v = e) IN i \in 1..Len(s) /\ s[i] = e
<1> DEFINE I == {i \in 1..Len(s) : s[i] = e}
<1>1. I \in SUBSET Nat /\ I # {}
  BY LenProperties
<1>2. Min(I) \in I
  BY <1>1, MinInSet
<1>3. SelectInSeq(s, LAMBDA v : v = e) = Min(I)
  BY <1>1 DEF SelectInSeq
<1> QED BY <1>2, <1>3

\* Removing an element of a list without duplicates removes it altogether
\* and nothing else.
LEMMA RemoveFirstElements ==
    ASSUME NEW S, NEW s \in Seq(S), NEW e, IsInjective(s)
    PROVE  /\ RemoveFirst(s, e) \in Seq(S)
           /\ IsInjective(RemoveFirst(s, e))
           /\ ToSet(RemoveFirst(s, e)) = ToSet(s) \ {e}
           /\ e \in ToSet(s) => Len(RemoveFirst(s, e)) = Len(s) - 1
<1>0. Len(s) \in Nat /\ DOMAIN s = 1..Len(s)
  BY LenProperties
<1>1. CASE ~ \E i \in 1..Len(s) : s[i] = e
  BY <1>0, <1>1 DEF RemoveFirst, ToSet
<1>2. CASE \E i \in 1..Len(s) : s[i] = e
  <2> DEFINE k == SelectInSeq(s, LAMBDA v : v = e)
             r == RemoveAt(s, k)
  <2>1. k \in 1..Len(s) /\ s[k] = e
    BY <1>2, SelectFirst
  <2>2. RemoveFirst(s, e) = r
    BY <1>2 DEF RemoveFirst
  <2> HIDE DEF k
  <2>3. /\ r \in Seq(S) /\ Len(r) = Len(s) - 1
        /\ \A j \in 1..(Len(s) - 1) : r[j] = IF j < k THEN s[j] ELSE s[j + 1]
    BY <2>1, RemoveAtElements
  <2> HIDE DEF r
  <2>4. DOMAIN r = 1..(Len(s) - 1)
    BY <2>3, LenProperties
  <2>5. \A i, j \in 1..Len(s) : s[i] = s[j] => i = j
    BY <1>0 DEF IsInjective
  <2>6. \A i, j \in 1..(Len(s) - 1) : r[i] = r[j] => i = j
    <3> TAKE i, j \in 1..(Len(s) - 1)
    <3> DEFINE p(n) == IF n < k THEN n ELSE n + 1
    <3>1. p(i) \in 1..Len(s) /\ p(j) \in 1..Len(s)
      BY <1>0, <2>1
    <3>2. r[i] = s[p(i)] /\ r[j] = s[p(j)]
      BY <2>3
    <3>3. p(i) = p(j) => i = j
      BY <1>0, <2>1
    <3> QED BY <2>5, <3>1, <3>2, <3>3
  <2>7. IsInjective(r)
    BY <2>4, <2>6 DEF IsInjective
  <2>8. ASSUME NEW x \in ToSet(s) \ {e} PROVE x \in ToSet(r)
    <3>1. PICK i \in 1..Len(s) : s[i] = x
      BY <1>0, <2>8 DEF ToSet
    <3>2. i # k
      BY <2>1, <2>8, <3>1
    <3>3. CASE i < k
      <4>1. i \in 1..(Len(s) - 1) /\ r[i] = x
        BY <1>0, <2>1, <2>3, <3>1, <3>3
      <4> QED BY <2>4, <4>1 DEF ToSet
    <3>4. CASE k < i
      <4>1. i - 1 \in 1..(Len(s) - 1) /\ r[i - 1] = x
        BY <1>0, <2>1, <2>3, <3>1, <3>4
      <4> QED BY <2>4, <4>1 DEF ToSet
    <3> QED BY <1>0, <2>1, <3>2, <3>3, <3>4
  <2>9. ASSUME NEW x \in ToSet(r) PROVE x \in ToSet(s) \ {e}
    <3>1. PICK i \in 1..(Len(s) - 1) : r[i] = x
      BY <2>4, <2>9 DEF ToSet
    <3>2. PICK j \in 1..Len(s) : j # k /\ s[j] = x
      BY <1>0, <2>1, <2>3, <3>1
    <3>3. x # e
      BY <2>1, <2>5, <3>2
    <3> QED BY <1>0, <3>2, <3>3 DEF ToSet
  <2> QED BY <2>2, <2>3, <2>7, <2>8, <2>9
<1> QED BY <1>1, <1>2

\* Adding a new element keeps the list free of duplicates.
LEMMA AppendElements ==
    ASSUME NEW S, NEW s \in Seq(S), NEW e \in S, IsInjective(s), e \notin ToSet(s)
    PROVE  /\ Append(s, e) \in Seq(S)
           /\ IsInjective(Append(s, e))
           /\ ToSet(Append(s, e)) = ToSet(s) \cup {e}
<1> DEFINE a == Append(s, e)
<1>1. Len(s) \in Nat /\ DOMAIN s = 1..Len(s)
  BY LenProperties
<1>2. /\ a \in Seq(S) /\ Len(a) = Len(s) + 1 /\ a[Len(s) + 1] = e
      /\ \A i \in 1..Len(s) : a[i] = s[i]
  BY AppendProperties
<1>3. DOMAIN a = 1..(Len(s) + 1)
  BY <1>2, LenProperties
<1> HIDE DEF a
<1>4. \A i, j \in 1..(Len(s) + 1) : a[i] = a[j] => i = j
  BY <1>1, <1>2 DEF IsInjective, ToSet
<1>5. ToSet(a) = ToSet(s) \cup {e}
  BY <1>1, <1>2, <1>3 DEF ToSet
<1> QED BY <1>2, <1>3, <1>4, <1>5 DEF IsInjective, a

\* What stands where after an Append.
LEMMA AppendEntries ==
    ASSUME NEW S, NEW s \in Seq(S), NEW e \in S
    PROVE  /\ Append(s, e) \in Seq(S) /\ Append(s, e) # <<>>
           /\ Len(Append(s, e)) = Len(s) + 1
           /\ \A i \in DOMAIN Append(s, e) :
                 \/ i \in DOMAIN s /\ Append(s, e)[i] = s[i]
                 \/ i = Len(s) + 1 /\ Append(s, e)[i] = e
           /\ \A i \in DOMAIN s : i \in DOMAIN Append(s, e) /\ Append(s, e)[i] = s[i]
           /\ Len(s) + 1 \in DOMAIN Append(s, e) /\ Append(s, e)[Len(s) + 1] = e
<1> DEFINE a == Append(s, e)
<1>1. Len(s) \in Nat /\ DOMAIN s = 1..Len(s)
  BY LenProperties
<1>2. /\ a \in Seq(S) /\ Len(a) = Len(s) + 1 /\ a[Len(s) + 1] = e
      /\ \A i \in 1..Len(s) : a[i] = s[i]
  BY AppendProperties
<1>3. DOMAIN a = 1..(Len(s) + 1) /\ a # <<>>
  BY <1>1, <1>2, LenProperties
<1> HIDE DEF a
<1> QED BY <1>1, <1>2, <1>3 DEF a

\* What stands where after a Tail.
LEMMA TailEntries ==
    ASSUME NEW S, NEW s \in Seq(S), s # <<>>
    PROVE  /\ 1 \in DOMAIN s /\ Head(s) = s[1] /\ Head(s) \in S
           /\ Tail(s) \in Seq(S) /\ Len(Tail(s)) = Len(s) - 1
           /\ \A i \in DOMAIN Tail(s) : i + 1 \in DOMAIN s /\ i + 1 # 1 /\ Tail(s)[i] = s[i + 1]
           /\ Len(s) = 1 => Tail(s) = <<>>
<1> DEFINE t == Tail(s)
<1>1. Len(s) \in Nat \ {0} /\ DOMAIN s = 1..Len(s)
  BY LenProperties, EmptySeq
<1>0. Head(s) = s[1]
  OBVIOUS
<1>2. /\ Head(s) \in S
      /\ t \in Seq(S) /\ Len(t) = Len(s) - 1
      /\ \A i \in 1..Len(t) : t[i] = s[i + 1]
  BY HeadTailProperties
<1>3. DOMAIN t = 1..Len(t)
  BY <1>2, LenProperties
<1>4. Len(s) = 1 => t = <<>>
  <2>1. t \in Seq(S) /\ (t # <<>> => Len(t) \in Nat \ {0})
    BY <1>2, EmptySeq
  <2> QED BY <1>1, <1>2, <2>1
<1> HIDE DEF t
<1> QED BY <1>0, <1>1, <1>2, <1>3, <1>4 DEF t

-------------------------------------------------------------------------------
(***************************************************************************)
(* A lemma about the list of handlers.                                     *)
(***************************************************************************)

\* RemoveHandler finds a handler of the list, although descriptors repeat.
LEMMA WithFdIsListed ==
    ASSUME iHandlerList \in Seq(Handlers), NEW i \in 1..Len(iHandlerList)
    PROVE  WithFd(iFd[iHandlerList[i]]) \in Listed
<1> DEFINE fd == iFd[iHandlerList[i]]
           I == {k \in 1..Len(iHandlerList) : iFd[iHandlerList[k]] = fd}
<1>1. I \in SUBSET Nat /\ I # {} /\ I \subseteq DOMAIN iHandlerList
  BY LenProperties
<1>2. Min(I) \in I
  BY <1>1, MinInSet
<1>3. SelectInSeq(iHandlerList, LAMBDA h : iFd[h] = fd) = Min(I)
  BY <1>1 DEF SelectInSeq
<1> QED BY <1>1, <1>2, <1>3 DEF WithFd, Listed, ToSet

-------------------------------------------------------------------------------
(***************************************************************************)
(* The inductive invariant.  RunningIsListed and DeletedHasEnded do not    *)
(* follow from themselves: a handler that is removed from the list must    *)
(* not be in it twice, the one a looper has waited for must be one that    *)
(* was created, and those in the list must not be deleted already.         *)
(***************************************************************************)
ListInv ==
    /\ IsInjective(iHandlerList)
    /\ \A h \in Handlers : obj[h] = "none" <=> At(h, "unborn")
    /\ \A h \in Listed : obj[h] = "alive"
    /\ RunningIsListed
    /\ \A h \in Handlers : obj[h] = "deleted" => At(h, "ended")
    /\ \A t \in Loopers :
         LAt(t, "join") => target[t] \in Handlers /\ obj[target[t]] # "none" /\ li[t] > 0

IInv == TypeOK /\ ListInv

LEMMA InitInv == Init => IInv
<1> SUFFICES ASSUME Init PROVE IInv
  OBVIOUS
<1>1. nMail \in Seq(NMessages)
  <2>1. NMessage("ADD_HANDLER", None) \in NMessages
    BY DEF NMessages, NMessage
  <2>2. <<>> \in Seq(NMessages) /\ <<NMessage("ADD_HANDLER", None)>> \in Seq(NMessages)
    BY <2>1
  <2>3. nMail = <<>> \/ nMail = <<NMessage("ADD_HANDLER", None)>>
    BY DEF Init
  <2>4. CASE nMail = <<>>
    BY <2>2, <2>4
  <2>5. CASE nMail = <<NMessage("ADD_HANDLER", None)>>
    BY <2>2, <2>5
  <2> QED BY <2>3, <2>4, <2>5
<1>2. iHandlerList \in Seq(Handlers) /\ wMail \in Seq(WMessages)
  BY DEF Init
<1>3. /\ target \in [Loopers -> Handlers \cup {None}] /\ li \in [Loopers -> Nat]
      /\ lpc \in [Loopers -> {"idle", "test", "logoff", "free", "null", "stop", "join"}]
      /\ hpc \in [Handlers -> Gone \cup {"start", "login", "test", "greet"} \cup InLoop]
      /\ obj \in [Handlers -> {"none", "alive", "deleted"}]
      /\ iFd \in [Handlers -> Fds \cup {None}] /\ iDie \in [Handlers -> BOOLEAN]
      /\ sess \in [Sessions -> {"none", "open", "closed", "freed"}]
  BY DEF Init, Gone
<1>4. iStatus \in Statuses /\ by \in Handlers \cup {None} /\ logins \in Nat
  BY DEF Init, Statuses, Offline
<1>5. TypeOK
  BY <1>1, <1>2, <1>3, <1>4 DEF Init, TypeOK
<1>6. ListInv
  BY DEF Init, ListInv, IsInjective, Listed, ToSet, RunningIsListed, Alive, Gone, At, LAt, Loopers
<1> QED BY <1>5, <1>6 DEF IInv

LEMMA StutterInv == ASSUME IInv, UNCHANGED vars PROVE IInv'
BY DEF IInv, vars, sessionVars, objectVars, logoutVars, quitVars, TypeOK, ListInv, At, LAt,
       RunningIsListed, Alive, Listed

LEMMA CrashInv ==
    ASSUME IInv, NEW why, Crash(why),
           why \in {"null_session", "freed_session", "double_free", "null_handler",
                    "double_delete", "null_window", "freed_network"}
    PROVE  IInv'
BY DEF IInv, Crash, sessionVars, objectVars, logoutVars, quitVars, TypeOK, ListInv, At, LAt,
       RunningIsListed, Alive, Listed

\* Network::Logout, on either looper.
LEMMA LogoutInv == ASSUME IInv, NEW t \in Loopers, LogoutStep(t) PROVE IInv'
<1> USE DEF IInv
<1> DEFINE Places == {"idle", "test", "logoff", "free", "null", "stop", "join"}
           Rest == UNCHANGED <<nMail, wMail, iFd, hpc, inSelect, owner, by, quitVars, logins>>
<1>0. Rest
  BY DEF LogoutStep
<1>1. ASSUME UNCHANGED <<iHandlerList, obj, iDie, target, crashed>>,
             li' \in [Loopers -> Nat], \A u \in Loopers \ {t} : li'[u] = li[u],
             NEW pc \in Places \ {"join"}, LGoto(t, pc),
             iStatus' \in Statuses, iSession' \in Sessions \cup {None},
             sess' \in [Sessions -> {"none", "open", "closed", "freed"}],
             fault' = fault \/ fault' = fault \cup {"freed_session"}
      PROVE  IInv'
  <2>1. lpc' \in [Loopers -> Places]
    BY <1>1 DEF TypeOK, LGoto
  <2>2. TypeOK'
    BY <1>0, <1>1, <2>1 DEF TypeOK, quitVars
  <2>3. ListInv'
    BY <1>0, <1>1 DEF TypeOK, ListInv, LGoto, LAt, At, RunningIsListed, Alive, Listed
  <2> QED BY <2>2, <2>3
<1>2. CASE LogoutTest(t)
  BY <1>1, <1>2 DEF LogoutTest, TypeOK, Statuses, Offline
<1>3. CASE LogoutLogoff(t)
  BY <1>1, <1>3 DEF LogoutLogoff, UseSession, gg_logoff, TypeOK
<1>4. CASE LogoutFree(t)
  <2>1. CASE Stale
    BY <1>4, <2>1, CrashInv DEF LogoutFree
  <2>2. CASE ~Stale
    BY <1>1, <1>4, <2>2 DEF LogoutFree, gg_free_session, TypeOK
  <2> QED BY <2>1, <2>2
<1>5. CASE LogoutNull(t)
  <2>1. Len(iHandlerList) \in Nat /\ lpc'[t] = "stop"
    BY <1>5 DEF LogoutNull, LGoto, TypeOK
  <2> QED BY <1>1, <1>5, <2>1 DEF LogoutNull, TypeOK
<1>6. CASE LogoutReturns(t)
  BY <1>1, <1>6 DEF LogoutReturns, TypeOK
<1>7. CASE LogoutStop(t)
  <2>1. CASE li[t] > Len(iHandlerList)
    BY <1>7, <2>1, CrashInv DEF LogoutStop
  <2>2. CASE ~(li[t] > Len(iHandlerList))
    <3> DEFINE h == WithFd(iFd[iHandlerList[li[t]]])
    <3>1. li[t] \in Nat /\ li[t] # 0 /\ li[t] \in 1..Len(iHandlerList)
      BY <1>7, <2>2 DEF LogoutStop, LoopDone, TypeOK
    <3>2. h \in Listed /\ h \in Handlers
      BY <3>1, WithFdIsListed DEF TypeOK, Listed, ToSet
    <3> HIDE DEF h
    <3>3. /\ iDie' = [iDie EXCEPT ![h] = TRUE] /\ target' = [target EXCEPT ![t] = h]
          /\ LGoto(t, "join")
          /\ UNCHANGED <<iSession, iStatus, iHandlerList, sess, obj, li, fault, crashed>>
      BY <1>7, <2>2 DEF LogoutStop, h
    <3>4. TypeOK'
      BY <1>0, <3>2, <3>3 DEF TypeOK, LGoto, quitVars
    <3>5. ListInv'
      BY <1>0, <3>1, <3>2, <3>3
         DEF TypeOK, ListInv, LGoto, LAt, At, RunningIsListed, Alive, Listed
    <3> QED BY <3>4, <3>5
  <2> QED BY <2>1, <2>2
<1>8. CASE LogoutReap(t)
  <2>1. CASE obj[target[t]] = "deleted"
    BY <1>8, <2>1, CrashInv DEF LogoutReap
  <2>2. CASE obj[target[t]] # "deleted"
    <3> DEFINE h == target[t]
               shorter == RemoveFirst(iHandlerList, h)
    <3>1. h \in Handlers /\ obj[h] = "alive" /\ li[t] \in Nat /\ li[t] > 0 /\ hpc[h] = "ended"
      BY <1>8, <2>2 DEF LogoutReap, Joined, TypeOK, ListInv, LAt
    <3>2. /\ iHandlerList' = shorter /\ obj' = [obj EXCEPT ![h] = "deleted"]
          /\ li' = [li EXCEPT ![t] = @ - 1] /\ LGoto(t, "stop")
          /\ UNCHANGED <<iSession, iStatus, sess, iDie, target, fault, crashed>>
      BY <1>8, <2>2 DEF LogoutReap, Removed, Previous
    <3>3. shorter \in Seq(Handlers) /\ IsInjective(shorter) /\ ToSet(shorter) = Listed \ {h}
      BY RemoveFirstElements DEF TypeOK, ListInv, Listed
    <3> HIDE DEF h, shorter
    <3>4. li[t] - 1 \in Nat
      BY <3>1
    <3>5. TypeOK'
      BY <1>0, <3>1, <3>2, <3>3, <3>4 DEF TypeOK, LGoto, quitVars
    <3>6. Listed' = Listed \ {h}
      BY <3>2, <3>3 DEF Listed
    <3>7. ListInv'
      BY <1>0, <3>1, <3>2, <3>3, <3>6
         DEF TypeOK, ListInv, LGoto, LAt, At, RunningIsListed, Alive, Gone
    <3> QED BY <3>5, <3>7
  <2> QED BY <2>1, <2>2
<1> QED BY <1>2, <1>3, <1>4, <1>5, <1>6, <1>7, <1>8 DEF LogoutStep

\* Network::MessageReceived.
LEMMA NetworkInv == ASSUME IInv, NetworkStep PROVE IInv'
<1> USE DEF IInv
<1>1. /\ UNCHANGED <<sessionVars, iStatus, wMail, inSelect, li, target, wpc, iWindow, fault,
                     crashed, logins>>
      /\ nMail' \in Seq(NMessages)
      /\ Head(nMail).from \in Handlers \cup {None}
  <2>1. nMail \in Seq(NMessages) /\ nMail # <<>> /\ nMail' = Tail(nMail)
    BY DEF NetworkStep, TypeOK
  <2>2. Head(nMail) \in NMessages /\ Tail(nMail) \in Seq(NMessages)
    BY <2>1, HeadTailProperties
  <2> QED BY <2>1, <2>2 DEF NetworkStep, NMessages
<1>2. CASE AddHandler
  <2>1. PICK h \in Handlers, fd \in Fds :
          /\ hpc[h] = "unborn"
          /\ iFd' = [iFd EXCEPT ![h] = fd] /\ obj' = [obj EXCEPT ![h] = "alive"]
          /\ iDie' = [iDie EXCEPT ![h] = FALSE] /\ hpc' = [hpc EXCEPT ![h] = "start"]
          /\ iHandlerList' = Append(iHandlerList, h)
          /\ UNCHANGED <<lpc, by, net>>
    BY <1>2 DEF AddHandler
  <2>2. obj[h] = "none" /\ h \notin Listed
    BY <2>1 DEF ListInv, At
  <2>3. /\ iHandlerList' \in Seq(Handlers) /\ IsInjective(iHandlerList')
        /\ Listed' = Listed \cup {h}
    BY <2>1, <2>2, AppendElements DEF TypeOK, ListInv, Listed
  <2>4. TypeOK'
    BY <1>1, <2>1, <2>3 DEF TypeOK, sessionVars
  <2>5. ListInv'
    BY <1>1, <2>1, <2>2, <2>3 DEF TypeOK, ListInv, At, LAt, RunningIsListed, Alive, Gone
  <2> QED BY <2>4, <2>5
<1>3. CASE DoLogout
  <2>1. TypeOK'
    BY <1>1, <1>3 DEF DoLogout, LGoto, TypeOK, sessionVars, objectVars, Loopers
  <2>2. ListInv'
    BY <1>1, <1>3 DEF DoLogout, LGoto, TypeOK, ListInv, objectVars, At, LAt, RunningIsListed,
                      Alive, Listed, Loopers
  <2> QED BY <2>1, <2>2
<1>4. CASE NetworkQuits
  <2>1. TypeOK'
    BY <1>1, <1>4 DEF NetworkQuits, TypeOK, sessionVars, objectVars
  <2>2. ListInv'
    BY <1>1, <1>4 DEF NetworkQuits, ListInv, objectVars, At, LAt, RunningIsListed, Alive, Listed
  <2> QED BY <2>1, <2>2
<1> QED BY <1>2, <1>3, <1>4 DEF NetworkStep

\* MainWindow::MessageReceived.
LEMMA WindowInv == ASSUME IInv, WindowStep PROVE IInv'
<1> USE DEF IInv
<1>0. UNCHANGED <<sessionVars, iHandlerList, objectVars, hpc, inSelect, li, target, by,
                  crashed, logins>>
  BY DEF WindowStep
<1>1. ASSUME nMail' \in Seq(NMessages), wMail' \in Seq(WMessages), iStatus' \in Statuses,
             lpc' = lpc \/ LGoto("W", "test"),
             fault' = fault \/ fault' = fault \cup {"freed_session"},
             wpc' \in {"run", "quit", "wait"}, net' \in {"up", "deleted", "exited"},
             iWindow' \in BOOLEAN
      PROVE  IInv'
  <2>0. lpc' \in [Loopers -> {"idle", "test", "logoff", "free", "null", "stop", "join"}]
    BY <1>1 DEF TypeOK, LGoto, Loopers
  <2>1. TypeOK'
    BY <1>0, <1>1, <2>0 DEF TypeOK, sessionVars, objectVars
  <2>2. ListInv'
    BY <1>0, <1>1 DEF TypeOK, ListInv, LGoto, objectVars, At, LAt, RunningIsListed, Alive,
                      Listed, Loopers
  <2> QED BY <2>1, <2>2
<1>2. ASSUME NEW messages, WTakes(messages) PROVE wMail' \in Seq(WMessages)
  <2>1. wMail \in Seq(WMessages) /\ wMail # <<>> /\ wMail' = Tail(wMail)
    BY <1>2 DEF WTakes, TypeOK
  <2> QED BY <2>1, HeadTailProperties
<1>3. ASSUME NEW what \in {"ADD_HANDLER", "QUIT"}
      PROVE  Append(nMail, NMessage(what, None)) \in Seq(NMessages)
  <2>1. NMessage(what, None) \in NMessages /\ nMail \in Seq(NMessages)
    BY DEF NMessage, NMessages, TypeOK
  <2> QED BY <2>1, AppendProperties
<1>4. CASE ChangeStatus
  BY <1>1, <1>2, <1>4 DEF ChangeStatus, UseSession, TypeOK, quitVars, Statuses
<1>5. CASE Login
  BY <1>1, <1>2, <1>3, <1>5 DEF Login, TypeOK, quitVars, Statuses
<1>6. CASE SetNotAvail
  BY <1>1, <1>2, <1>6 DEF SetNotAvail, UseSession, TypeOK, quitVars, Statuses, Offline
<1>7. CASE BeggQuit
  BY <1>1, <1>2, <1>7 DEF BeggQuit, TypeOK, LGoto
<1>8. CASE QuitLooper
  BY <1>1, <1>3, <1>8 DEF QuitLooper, TypeOK
<1>9. CASE Exit
  BY <1>1, <1>9 DEF Exit, TypeOK
<1> QED BY <1>4, <1>5, <1>6, <1>7, <1>8, <1>9 DEF WindowStep

\* A handler thread that takes a step is alive and does not become unborn.
LEMMA ThreadInv == ASSUME IInv, NEW h \in Handlers, ThreadStep(h) PROVE IInv'
<1> USE DEF IInv
<1> DEFINE Places == {"ended", "start", "login", "test", "greet"} \cup InLoop
<1>0. UNCHANGED <<iStatus, iHandlerList, objectVars, logoutVars, quitVars, logins>>
  BY DEF ThreadStep
<1>1. ASSUME At(h, "start") \/ At(h, "login") \/ At(h, "test") \/ At(h, "greet")
               \/ hpc[h] \in InLoop,
             NEW pc \in Places, Goto(h, pc),
             nMail' = nMail \/ PostsLogout(h), wMail' \in Seq(WMessages),
             iSession' \in Sessions \cup {None},
             sess' \in [Sessions -> {"none", "open", "closed", "freed"}],
             owner' \in [Handlers -> Sessions \cup {None}],
             inSelect' \in [Handlers -> Sessions \cup {None}],
             fault' = fault \/ fault' = fault \cup {"freed_session"}, crashed' = crashed
      PROVE  IInv'
  <2>1. nMail' \in Seq(NMessages)
    <3>1. NMessage("DO_LOGOUT", h) \in NMessages /\ nMail \in Seq(NMessages)
      BY DEF NMessage, NMessages, TypeOK
    <3>2. Append(nMail, NMessage("DO_LOGOUT", h)) \in Seq(NMessages)
      BY <3>1, AppendProperties
    <3>3. nMail' = nMail \/ nMail' = Append(nMail, NMessage("DO_LOGOUT", h))
      BY <1>1 DEF PostsLogout
    <3> QED BY <3>1, <3>2, <3>3
  <2>2. hpc' \in [Handlers -> Gone \cup {"start", "login", "test", "greet"} \cup InLoop]
    BY <1>1 DEF TypeOK, Goto, Gone
  <2>3. TypeOK'
    BY <1>0, <1>1, <2>1, <2>2 DEF TypeOK, objectVars, logoutVars, quitVars
  <2>4. hpc[h] \notin Gone /\ pc # "unborn"
    BY <1>1 DEF At, Gone, InLoop
  <2>5. ListInv'
    BY <1>0, <1>1, <2>4 DEF TypeOK, ListInv, Goto, objectVars, logoutVars, At, LAt,
                            RunningIsListed, Alive, Listed, Gone
  <2> QED BY <2>3, <2>5
<1>2. CASE ThreadDies(h)
  <2>1. PICK pc \in {"ended", "login", "prep"} : Goto(h, pc)
    BY <1>2 DEF ThreadDies
  <2>2. At(h, "start") \/ hpc[h] \in InLoop
    BY <1>2 DEF ThreadDies, At, InLoop
  <2> QED BY <1>1, <1>2, <2>1, <2>2 DEF ThreadDies, TypeOK, sessionVars, InLoop
<1>3. CASE LoginReturns(h)
  <2>1. /\ iSession' \in Sessions \cup {None}
        /\ sess' \in [Sessions -> {"none", "open", "closed", "freed"}]
        /\ owner' \in [Handlers -> Sessions \cup {None}]
    <3>1. CASE iSession' = None /\ UNCHANGED <<sess, owner>>
      BY <3>1 DEF TypeOK
    <3>2. ASSUME NEW s \in Sessions, sess' = [sess EXCEPT ![s] = "open"], iSession' = s,
                 owner' = [owner EXCEPT ![h] = s]
          PROVE  /\ iSession' \in Sessions \cup {None}
                 /\ sess' \in [Sessions -> {"none", "open", "closed", "freed"}]
                 /\ owner' \in [Handlers -> Sessions \cup {None}]
      BY <3>2 DEF TypeOK
    <3> QED BY <1>3, <3>1, <3>2 DEF LoginReturns
  <2>2. /\ At(h, "login") /\ Goto(h, "test")
        /\ UNCHANGED <<nMail, wMail, inSelect, fault, crashed>>
    BY <1>3 DEF LoginReturns
  <2>3. wMail' \in Seq(WMessages) /\ inSelect' \in [Handlers -> Sessions \cup {None}]
    BY <2>2 DEF TypeOK
  <2> QED BY <1>1, <2>1, <2>2, <2>3
<1>4. CASE ThreadTest(h)
  BY <1>1, <1>4 DEF ThreadTest, TypeOK, sessionVars, InLoop
<1>5. CASE ThreadGreet(h)
  <2>1. CASE iWindow
    BY <1>1, <1>5, <2>1 DEF ThreadGreet, UseSession, TypeOK, sessionVars, InLoop
  <2>2. CASE ~iWindow
    BY <1>5, <2>2, CrashInv DEF ThreadGreet
  <2> QED BY <2>1, <2>2
<1>6. CASE ThreadPrep(h)
  <2>1. CASE iSession = None
    BY <1>6, <2>1, CrashInv DEF ThreadPrep
  <2>2. CASE iSession # None
    <3>1. inSelect' = [inSelect EXCEPT ![h] = iSession]
      BY <1>6, <2>2 DEF ThreadPrep
    <3> QED BY <1>1, <1>6, <2>2, <3>1 DEF ThreadPrep, UseSession, TypeOK, sessionVars, InLoop, At
  <2> QED BY <2>1, <2>2
<1>7. CASE ThreadSelect(h)
  BY <1>1, <1>7 DEF ThreadSelect, TypeOK, sessionVars, InLoop, At
<1>8. CASE ThreadWoken(h)
  BY <1>1, <1>8 DEF ThreadWoken, UseSession, TypeOK, sessionVars, InLoop, At
<1>9. CASE ThreadWatch(h)
  <2>1. hpc[h] \in InLoop /\ UNCHANGED <<sessionVars, nMail, inSelect>>
    BY <1>9 DEF ThreadWatch, At, InLoop
  <2>2. Append(wMail, "NOT_AVAIL") \in Seq(WMessages) /\ wMail \in Seq(WMessages)
    BY AppendProperties DEF TypeOK, WMessages, Statuses, Offline
  <2>3. CASE Crash("null_window")
    BY <2>3, CrashInv
  <2>4. CASE ~Crash("null_window")
    <3>1. PICK pc \in {"ping", "alert"} : Goto(h, pc)
      BY <1>9, <2>4 DEF ThreadWatch
    <3>2. wMail' \in Seq(WMessages) /\ UseSession /\ UNCHANGED crashed
      BY <1>9, <2>2, <2>4 DEF ThreadWatch
    <3> QED BY <1>1, <2>1, <3>1, <3>2 DEF UseSession, TypeOK, sessionVars, InLoop
  <2> QED BY <2>3, <2>4
<1>10. CASE ThreadPing(h)
  BY <1>1, <1>10 DEF ThreadPing, UseSession, TypeOK, sessionVars, InLoop, At
<1> QED BY <1>2, <1>3, <1>4, <1>5, <1>6, <1>7, <1>8, <1>9, <1>10 DEF ThreadStep

\* The user's mouse.
LEMMA UserInv == ASSUME IInv, User PROVE IInv'
<1> USE DEF IInv
<1>0. UNCHANGED <<sessionVars, iStatus, iHandlerList, nMail, objectVars, inSelect, logoutVars,
                  quitVars, fault, crashed>>
  BY DEF User
<1>1. ASSUME UNCHANGED hpc, wMail' \in Seq(WMessages), logins' \in Nat PROVE IInv'
  BY <1>0, <1>1 DEF TypeOK, ListInv, sessionVars, objectVars, logoutVars, quitVars, At, LAt,
                    RunningIsListed, Alive, Listed
<1>2. CASE UserSetsStatus
  <2>1. PICK status \in Statuses :
          /\ wMail' = Append(wMail, status)
          /\ logins' = IF status = "AVAIL" THEN logins + 1 ELSE logins
    BY <1>2 DEF UserSetsStatus
  <2>2. wMail' \in Seq(WMessages) /\ logins' \in Nat
    BY <2>1, AppendProperties DEF TypeOK, WMessages
  <2> QED BY <1>1, <1>2, <2>2 DEF UserSetsStatus
<1>3. CASE UserQuits
  <2>1. wMail' \in Seq(WMessages)
    BY <1>3, AppendProperties DEF UserQuits, TypeOK, WMessages
  <2> QED BY <1>1, <1>3, <2>1 DEF UserQuits, TypeOK
<1>4. CASE DismissAlert
  <2>1. PICK h \in Handlers : At(h, "alert") /\ Goto(h, "ping")
    BY <1>4 DEF DismissAlert
  <2>2. UNCHANGED <<wMail, logins>>
    BY <1>4 DEF DismissAlert
  <2>3. TypeOK'
    BY <1>0, <2>1, <2>2 DEF TypeOK, Goto, sessionVars, objectVars, logoutVars, quitVars, InLoop
  <2>4. ListInv'
    BY <1>0, <2>1, <2>2 DEF TypeOK, ListInv, Goto, objectVars, logoutVars, At, LAt,
                            RunningIsListed, Alive, Listed, Gone
  <2> QED BY <2>3, <2>4
<1> QED BY <1>2, <1>3, <1>4 DEF User

LEMMA NextInv == IInv /\ [Next]_vars => IInv'
<1> SUFFICES ASSUME IInv, [Next]_vars PROVE IInv'
  OBVIOUS
<1>1. ASSUME NEW t \in Loopers, Looper(t) PROVE IInv'
  BY <1>1, LogoutInv DEF Looper
<1>2. CASE NetworkLoop
  BY <1>2, NetworkInv DEF NetworkLoop
<1>3. CASE WindowLoop
  BY <1>3, WindowInv DEF WindowLoop
<1>4. ASSUME NEW h \in Handlers, Thread(h) PROVE IInv'
  BY <1>4, ThreadInv DEF Thread
<1>5. CASE Undefined
  BY <1>5, CrashInv DEF Undefined, DeadNetwork, StaleSession
<1>6. CASE UserActs
  BY <1>6, UserInv DEF UserActs
<1>7. CASE Stopped \/ UNCHANGED vars
  BY <1>7, StutterInv DEF Stopped
<1> QED BY <1>1, <1>2, <1>3, <1>4, <1>5, <1>6, <1>7 DEF Next

\* Every reachable state satisfies the inductive invariant.
THEOREM Invariance == Spec => []IInv
BY InitInv, NextInv, PTL DEF Spec

\* Type correctness of the model of the connection core.
THEOREM TypeCorrect == Spec => []TypeOK
<1>1. IInv => TypeOK
  BY DEF IInv
<1> QED BY <1>1, Invariance, PTL

\* A running handler thread is always in iHandlerList (Network.cpp, AddHandler
\* and RemoveHandler), so that a logout can find it: for any number of
\* handlers, two loopers stopping them at once, and any uninitialised
\* descriptors they are looked up by.
THEOREM NoThreadLost == Spec => []RunningIsListed
<1>1. IInv => RunningIsListed
  BY DEF IInv, ListInv
<1> QED BY <1>1, Invariance, PTL

\* NetworkHandler objects are deleted only after Stop has seen their thread
\* end, and are not in the list any more.
THEOREM NoThreadDeleted == Spec => []DeletedHasEnded
<1>1. IInv => DeletedHasEnded
  BY DEF IInv, ListInv, DeletedHasEnded, Listed
<1> QED BY <1>1, Invariance, PTL

\* Both: no handler is lost, and none is deleted under its thread.
THEOREM HandlersAreKept == Spec => []HandlersKept
BY NoThreadLost, NoThreadDeleted, PTL DEF HandlersKept

-------------------------------------------------------------------------------
(***************************************************************************)
(* A patient user.  OneWatchedSession is not inductive: that a login is    *)
(* alone, and that no thread outlives a logout, rests on what is in the    *)
(* two mailboxes while a thread logs in (AddIsAlone, ArrivalIsAlone,       *)
(* RequestIsFirst), on what the messages and the threads in flight mean    *)
(* (LoopersSession, LogoutsSession), on Logout's counter never being below *)
(* the length of the list (LogoutGoesOn) and on the objects in the list    *)
(* being all there are (ObjectsListed).                                    *)
(***************************************************************************)
Arriving == {"start", "login", "test", "greet"}
AddPending == \E i \in DOMAIN nMail : nMail[i].what = "ADD_HANDLER"
LoopersIdle == \A t \in Loopers : LAt(t, "idle")

\* Between two logouts: no looper has gone past the test of the session.
Untouched == \A t \in Loopers : lpc[t] \in {"idle", "test"}

\* While ADD_HANDLER waits, nothing else does and no thread is alive.
AddIsAlone ==
    AddPending =>
        /\ Len(nMail) = 1 /\ wMail = <<>> /\ LoopersIdle /\ wpc = "run"
        /\ Alive = {} /\ iSession = None

\* While a thread logs in, nobody sends it, or anybody, a message.
ArrivalIsAlone ==
    \A h \in Handlers : hpc[h] \in Arriving =>
        /\ nMail = <<>> /\ wMail = <<>> /\ LoopersIdle /\ wpc = "run"
        /\ Alive = {h} /\ ~iDie[h]
        /\ At(h, "start") \/ At(h, "login") => iSession = None
        /\ At(h, "test") /\ iSession # None => owner[h] = iSession
        /\ At(h, "greet") => iSession # None /\ owner[h] = iSession

\* A request to connect is answered before anything else happens.
RequestIsFirst ==
    \A i \in DOMAIN wMail : wMail[i] = "AVAIL" =>
        /\ i = 1 /\ nMail = <<>> /\ LoopersIdle /\ wpc = "run"
        /\ \A h \in Handlers : hpc[h] \in Gone \cup InLoop
        /\ iSession = None => Len(wMail) = 1

\* Who is in its loop, or has left it, can only mean the current session.
LoopersSession ==
    \A h \in Handlers :
        /\ hpc[h] \in InLoop => owner[h] # None /\ iSession \in {None, owner[h]}
        /\ At(h, "select") => inSelect[h] = owner[h]

\* A DO_LOGOUT, queued or being handled, is from the current session's thread.
LogoutsSession ==
    /\ \A i \in DOMAIN nMail : nMail[i].what = "DO_LOGOUT" /\ iSession # None =>
            owner[nMail[i].from] = iSession
    /\ ~LAt("N", "idle") /\ iSession # None => owner[by] = iSession

\* Until a looper has passed Logout's test, the session is open and watched;
\* without a session no thread is in its loop.
SessionStands ==
    Untouched =>
        /\ iSession = None => \A h \in Handlers : hpc[h] \notin InLoop
        /\ iSession # None =>
              /\ sess[iSession] = "open"
              /\ \E h \in Alive : owner[h] = iSession /\ ~iDie[h]

\* What a looper has done by the time it is at "null" and at "stop".
LogoutGoesOn ==
    \A t \in Loopers :
        /\ LAt(t, "null") /\ iSession # None => sess[iSession] = "freed"
        /\ LAt(t, "stop") \/ LAt(t, "join") => iSession = None /\ li[t] >= Len(iHandlerList)

\* A NetworkHandler that exists is in the list.
ObjectsListed == \A h \in Handlers : obj[h] = "alive" => h \in Listed

\* The window goes first, then the Network's looper.
QuitInOrder ==
    /\ wpc = "run" => iWindow
    /\ net # "up" \/ (\E i \in DOMAIN nMail : nMail[i].what = "QUIT") => wpc = "wait"

PatientInv ==
    /\ AddIsAlone /\ ArrivalIsAlone /\ RequestIsFirst
    /\ LoopersSession /\ LogoutsSession /\ SessionStands /\ LogoutGoesOn
    /\ ObjectsListed /\ QuitInOrder /\ SingleThread /\ NoSessionLeak

LEMMA PatientInit == Init => PatientInv
<1> SUFFICES ASSUME Init PROVE PatientInv
  OBVIOUS
<1>1. /\ Alive = {} /\ LoopersIdle /\ Untouched
      /\ \A h \in Handlers : hpc[h] = "unborn"
      /\ \A t \in Loopers : lpc[t] = "idle"
  BY DEF Init, Alive, Gone, LoopersIdle, Untouched, LAt
<1>2. \/ nMail = <<>>
      \/ Len(nMail) = 1 /\ DOMAIN nMail = {1} /\ nMail[1].what = "ADD_HANDLER"
  BY DEF Init, NMessage
<1>3. AddIsAlone
  BY <1>1, <1>2 DEF Init, AddIsAlone, AddPending
<1>4. ArrivalIsAlone /\ LoopersSession
  BY <1>1 DEF ArrivalIsAlone, LoopersSession, Arriving, InLoop, At
<1>5. RequestIsFirst
  BY DEF Init, RequestIsFirst
<1>6. LogoutsSession /\ QuitInOrder
  BY <1>1, <1>2 DEF Init, LogoutsSession, QuitInOrder, LAt, Loopers
<1>7. SessionStands /\ LogoutGoesOn
  BY <1>1 DEF Init, SessionStands, LogoutGoesOn, LAt, InLoop
<1>8. ObjectsListed /\ SingleThread /\ NoSessionLeak
  BY <1>1 DEF Init, ObjectsListed, SingleThread, NoSessionLeak
<1> QED BY <1>3, <1>4, <1>5, <1>6, <1>7, <1>8 DEF PatientInv

\* A step that touches none of what the invariant speaks of.
LEMMA PatientFrame ==
    ASSUME PatientInv,
           UNCHANGED <<sessionVars, iHandlerList, nMail, wMail, objectVars, hpc, inSelect,
                       logoutVars, wpc, net, iWindow>>
    PROVE  PatientInv'
<1> USE DEF sessionVars, objectVars, logoutVars
<1>1. Alive' = Alive /\ LoopersIdle' = LoopersIdle /\ Untouched' = Untouched
      /\ AddPending' = AddPending /\ Listed' = Listed
  BY DEF Alive, LoopersIdle, LAt, Untouched, AddPending, Listed
<1>2. AddIsAlone' /\ ArrivalIsAlone' /\ RequestIsFirst'
  BY <1>1 DEF PatientInv, AddIsAlone, ArrivalIsAlone, RequestIsFirst, At
<1>3. LoopersSession' /\ LogoutsSession' /\ SessionStands' /\ LogoutGoesOn'
  BY <1>1 DEF PatientInv, LoopersSession, LogoutsSession, SessionStands, LogoutGoesOn, At, LAt
<1>4. ObjectsListed' /\ QuitInOrder' /\ SingleThread' /\ NoSessionLeak'
  BY <1>1 DEF PatientInv, ObjectsListed, QuitInOrder, SingleThread, NoSessionLeak
<1> QED BY <1>2, <1>3, <1>4 DEF PatientInv

LEMMA PatientCrash == ASSUME PatientInv, NEW why, Crash(why) PROVE PatientInv'
BY PatientFrame DEF Crash, quitVars

\* While a looper logs out, nobody logs in or asks to.
LEMMA LogoutIsAlone ==
    ASSUME PatientInv, NEW t \in Loopers, ~LAt(t, "idle")
    PROVE  /\ ~AddPending
           /\ \A h \in Handlers : hpc[h] \notin Arriving
           /\ \A i \in DOMAIN wMail : wMail[i] # "AVAIL"
BY DEF PatientInv, AddIsAlone, ArrivalIsAlone, RequestIsFirst, LoopersIdle

\* Network::Logout.
LEMMA PatientLogout ==
    ASSUME IInv, PatientInv, NEW t \in Loopers, LogoutStep(t)
    PROVE  PatientInv'
<1>0. UNCHANGED <<nMail, wMail, iFd, hpc, inSelect, owner, by, quitVars, logins>>
  BY DEF LogoutStep
<1>a. ~LAt(t, "idle")
  BY DEF LogoutStep, LAt, LogoutTest, LogoutLogoff, LogoutFree, LogoutNull, LogoutReturns,
         LogoutStop, LogoutReap
<1>b. /\ ~AddPending
      /\ \A h \in Handlers : hpc[h] \notin Arriving
      /\ \A i \in DOMAIN wMail : wMail[i] # "AVAIL"
  BY <1>a, LogoutIsAlone
<1>c. /\ ~AddPending' /\ Alive' = Alive
      /\ \A h \in Handlers : hpc'[h] \notin Arriving
      /\ \A i \in DOMAIN wMail' : wMail'[i] # "AVAIL"
  BY <1>0, <1>b DEF AddPending, Alive
<1>1. AddIsAlone' /\ ArrivalIsAlone' /\ RequestIsFirst' /\ QuitInOrder' /\ SingleThread'
  BY <1>0, <1>c DEF AddIsAlone, ArrivalIsAlone, RequestIsFirst, PatientInv, QuitInOrder,
                    SingleThread, quitVars
<1>2. ASSUME iSession' \in {iSession, None}, NEW pc, LGoto(t, pc)
      PROVE  LoopersSession' /\ LogoutsSession'
  BY <1>0, <1>2, <1>a DEF PatientInv, LoopersSession, LogoutsSession, LGoto, LAt, At, TypeOK,
                    IInv, Loopers
<1>3. ASSUME UNCHANGED <<iHandlerList, obj>> PROVE ObjectsListed'
  BY <1>3 DEF PatientInv, ObjectsListed, Listed
\* only a looper at the end of Logout makes Untouched true again
<1>4. ASSUME NEW pc \in {"logoff", "free", "null", "stop", "join"}, LGoto(t, pc)
      PROVE  SessionStands'
  BY <1>4 DEF SessionStands, Untouched, LGoto, IInv, TypeOK
<1>5. ASSUME LGoto(t, "idle"), UNCHANGED <<iSession, sess, iDie>>,
             iSession = None /\ Untouched' => \A h \in Handlers : hpc[h] \notin InLoop,
             iSession # None => LAt(t, "test")
      PROVE  SessionStands'
  <2>1. Untouched' /\ LAt(t, "test") => Untouched
    BY <1>5 DEF Untouched, LGoto, IInv, TypeOK, LAt
  <2> QED BY <1>0, <1>5, <1>c, <2>1 DEF SessionStands, PatientInv
<1>6. CASE LogoutTest(t)
  <2> USE <1>6 DEF LogoutTest
  <2>1. PICK pc \in {"idle", "logoff"} : LGoto(t, pc)
    OBVIOUS
  <2>2. LogoutGoesOn' /\ NoSessionLeak'
    BY <2>1 DEF PatientInv, LogoutGoesOn, NoSessionLeak, LGoto, LAt, IInv, TypeOK
  <2>3. SessionStands'
    <3>1. CASE iSession # None
      BY <1>4, <3>1
    <3>2. CASE iSession = None
      <4>1. Untouched' => Untouched
        BY <3>2 DEF Untouched, LGoto, LAt, IInv, TypeOK
      <4> QED BY <1>5, <3>2, <4>1 DEF PatientInv, SessionStands
    <3> QED BY <3>1, <3>2
  <2> QED BY <1>1, <1>2, <1>3, <2>1, <2>2, <2>3 DEF PatientInv
<1>7. CASE LogoutLogoff(t)
  <2> USE <1>7 DEF LogoutLogoff
  <2>1. LogoutGoesOn' /\ NoSessionLeak'
    BY DEF PatientInv, LogoutGoesOn, NoSessionLeak, LGoto, LAt, IInv, TypeOK, gg_logoff
  <2> QED BY <1>1, <1>2, <1>3, <1>4, <2>1 DEF PatientInv
<1>8. CASE LogoutFree(t)
  <2>1. CASE Stale
    BY <1>8, <2>1, PatientCrash DEF LogoutFree
  <2>2. CASE ~Stale
    <3>1. /\ LGoto(t, "null") /\ LAt(t, "free")
          /\ sess' = gg_free_session(iSession)
          /\ UNCHANGED <<iSession, iHandlerList, obj, iDie, li, target>>
      BY <1>8, <2>2 DEF LogoutFree
    <3>2. LogoutGoesOn' /\ NoSessionLeak'
      BY <3>1 DEF PatientInv, LogoutGoesOn, NoSessionLeak, LGoto, LAt, IInv, TypeOK,
                  gg_free_session
    <3> QED BY <1>1, <1>2, <1>3, <1>4, <3>1, <3>2 DEF PatientInv
  <2> QED BY <2>1, <2>2
<1>9. CASE LogoutNull(t)
  <2> USE <1>9 DEF LogoutNull
  <2>0. Len(iHandlerList) \in Nat
    BY DEF IInv, TypeOK
  <2>1. LogoutGoesOn'
    BY <2>0 DEF PatientInv, LogoutGoesOn, LGoto, LAt, IInv, TypeOK
  <2>2. NoSessionLeak'
    BY DEF PatientInv, LogoutGoesOn, NoSessionLeak
  <2> QED BY <1>1, <1>2, <1>3, <1>4, <2>1, <2>2 DEF PatientInv
<1>10. CASE LogoutReturns(t)
  <2> USE <1>10 DEF LogoutReturns
  <2>1. LogoutGoesOn' /\ NoSessionLeak'
    BY DEF PatientInv, LogoutGoesOn, NoSessionLeak, LGoto, LAt, IInv, TypeOK
  <2>2. iSession = None /\ Listed = {}
    <3>1. iSession = None /\ 0 >= Len(iHandlerList)
      BY DEF PatientInv, LogoutGoesOn, LoopDone
    <3>2. iHandlerList = <<>>
      BY <3>1, EmptySeq DEF IInv, TypeOK
    <3> QED BY <3>1, <3>2 DEF Listed, ToSet
  <2>3. \A h \in Handlers : hpc[h] \notin InLoop
    BY <2>2 DEF IInv, ListInv, RunningIsListed, Alive, Gone, InLoop
  <2> QED BY <1>1, <1>2, <1>3, <1>5, <2>1, <2>2, <2>3 DEF PatientInv
<1>11. CASE LogoutStop(t)
  <2>1. CASE li[t] > Len(iHandlerList)
    BY <1>11, <2>1, PatientCrash DEF LogoutStop
  <2>2. CASE ~(li[t] > Len(iHandlerList))
    <3>1. /\ LAt(t, "stop") /\ LGoto(t, "join")
          /\ UNCHANGED <<iSession, iHandlerList, sess, obj, li>>
      BY <1>11, <2>2 DEF LogoutStop
    <3>2. LogoutGoesOn' /\ NoSessionLeak'
      BY <3>1 DEF PatientInv, LogoutGoesOn, NoSessionLeak, LGoto, LAt, IInv, TypeOK
    <3> QED BY <1>1, <1>2, <1>3, <1>4, <3>1, <3>2 DEF PatientInv
  <2> QED BY <2>1, <2>2
<1>12. CASE LogoutReap(t)
  <2>1. CASE obj[target[t]] = "deleted"
    BY <1>12, <2>1, PatientCrash DEF LogoutReap
  <2>2. CASE obj[target[t]] # "deleted"
    <3> DEFINE h == target[t]
               shorter == RemoveFirst(iHandlerList, h)
    <3>1. /\ LAt(t, "join") /\ LGoto(t, "stop")
          /\ iHandlerList' = shorter /\ obj' = [obj EXCEPT ![h] = "deleted"]
          /\ li' = [li EXCEPT ![t] = @ - 1]
          /\ UNCHANGED <<iSession, sess, iDie, target>>
      BY <1>12, <2>2 DEF LogoutReap, Removed, Previous
    <3>2. h \in Handlers /\ obj[h] = "alive" /\ li[t] \in Nat /\ li[t] > 0
      BY <2>2, <3>1 DEF IInv, TypeOK, ListInv, LAt
    <3>3. h \in Listed
      BY <3>2 DEF PatientInv, ObjectsListed
    <3>4. Len(shorter) = Len(iHandlerList) - 1 /\ ToSet(shorter) = Listed \ {h}
      BY <3>3, RemoveFirstElements DEF IInv, TypeOK, ListInv, Listed
    <3>5. Len(iHandlerList) \in Nat
      BY DEF IInv, TypeOK
    <3> HIDE DEF shorter, h
    <3>6. LogoutGoesOn'
      BY <3>1, <3>2, <3>4, <3>5 DEF PatientInv, LogoutGoesOn, LGoto, LAt, IInv, TypeOK
    <3>7. ObjectsListed' /\ NoSessionLeak'
      BY <3>1, <3>4 DEF PatientInv, ObjectsListed, NoSessionLeak, IInv, TypeOK, Listed
    <3> QED BY <1>1, <1>2, <1>4, <3>1, <3>6, <3>7 DEF PatientInv
  <2> QED BY <2>1, <2>2
<1> QED BY <1>6, <1>7, <1>8, <1>9, <1>10, <1>11, <1>12 DEF LogoutStep

\* Network::MessageReceived.
LEMMA PatientNetwork == ASSUME IInv, PatientInv, NetworkStep PROVE PatientInv'
<1>0. /\ UNCHANGED <<sessionVars, iStatus, wMail, inSelect, li, target, wpc, iWindow, fault,
                     crashed, logins>>
      /\ nMail # <<>> /\ nMail' = Tail(nMail) /\ LAt("N", "idle")
  BY DEF NetworkStep
<1>1. /\ 1 \in DOMAIN nMail /\ Head(nMail) = nMail[1] /\ Head(nMail) \in NMessages
      /\ \A i \in DOMAIN nMail' : i + 1 \in DOMAIN nMail /\ nMail'[i] = nMail[i + 1]
      /\ Len(nMail) = 1 => nMail' = <<>>
  BY <1>0, TailEntries DEF IInv, TypeOK
<1>2. \A h \in Handlers : hpc[h] \notin Arriving
  BY <1>0 DEF PatientInv, ArrivalIsAlone
<1>3. \A i \in DOMAIN wMail : wMail[i] # "AVAIL"
  BY <1>0 DEF PatientInv, RequestIsFirst
<1>4. RequestIsFirst'
  BY <1>0, <1>3 DEF RequestIsFirst
<1>5. CASE AddHandler
  <2>1. PICK h \in Handlers, fd \in Fds :
          /\ hpc[h] = "unborn"
          /\ iFd' = [iFd EXCEPT ![h] = fd] /\ obj' = [obj EXCEPT ![h] = "alive"]
          /\ iDie' = [iDie EXCEPT ![h] = FALSE] /\ hpc' = [hpc EXCEPT ![h] = "start"]
          /\ iHandlerList' = Append(iHandlerList, h)
          /\ UNCHANGED <<lpc, by, net>>
    BY <1>5 DEF AddHandler
  <2>2. /\ AddPending /\ nMail' = <<>> /\ wMail = <<>> /\ LoopersIdle /\ wpc = "run"
        /\ Alive = {} /\ iSession = None
    <3>1. AddPending
      BY <1>1, <1>5 DEF AddHandler, AddPending
    <3> QED BY <1>1, <3>1 DEF PatientInv, AddIsAlone
  <2>3. \A g \in Handlers : hpc[g] \in Gone /\ (g # h => hpc'[g] = hpc[g])
    BY <2>1, <2>2 DEF Alive, IInv, TypeOK
  <2>4. hpc'[h] = "start" /\ iDie'[h] = FALSE /\ Alive' = {h}
    BY <2>1, <2>3 DEF Alive, IInv, TypeOK, Gone
  <2>5. ~AddPending' /\ LoopersIdle'
    BY <2>1, <2>2 DEF AddPending, LoopersIdle, LAt
  <2>6. AddIsAlone' /\ ArrivalIsAlone'
    BY <1>0, <2>1, <2>2, <2>3, <2>4, <2>5
       DEF AddIsAlone, ArrivalIsAlone, Arriving, Gone, At, sessionVars
  <2>7. LoopersSession' /\ LogoutsSession'
    <3>1. \A g \in Handlers : hpc'[g] \notin InLoop
      BY <2>3, <2>4 DEF Gone, InLoop
    <3> QED BY <1>0, <2>2, <3>1 DEF LoopersSession, LogoutsSession, At, InLoop, sessionVars
  <2>8. SessionStands' /\ LogoutGoesOn'
    <3>1. \A g \in Handlers : hpc'[g] \notin InLoop
      BY <2>3, <2>4 DEF Gone, InLoop
    <3> QED BY <1>0, <2>1, <2>2, <2>5, <3>1
            DEF SessionStands, LogoutGoesOn, LoopersIdle, LAt, sessionVars
  <2>9. ObjectsListed'
    <3>1. \A i \in DOMAIN iHandlerList : i \in DOMAIN iHandlerList'
                                           /\ iHandlerList'[i] = iHandlerList[i]
      BY <2>1, AppendEntries DEF IInv, TypeOK
    <3>2. Len(iHandlerList) + 1 \in DOMAIN iHandlerList' /\ iHandlerList'[Len(iHandlerList) + 1] = h
      BY <2>1, AppendEntries DEF IInv, TypeOK
    <3>3. Listed \subseteq Listed' /\ h \in Listed'
      BY <3>1, <3>2 DEF Listed, ToSet
    <3> QED BY <2>1, <3>3 DEF PatientInv, ObjectsListed, IInv, TypeOK
  <2>10. QuitInOrder' /\ SingleThread' /\ NoSessionLeak'
    BY <1>0, <2>1, <2>2, <2>4 DEF PatientInv, QuitInOrder, SingleThread, NoSessionLeak, sessionVars
  <2> QED BY <1>4, <2>6, <2>7, <2>8, <2>9, <2>10 DEF PatientInv
<1>6. ~AddHandler => ~AddPending
  <2> SUFFICES ASSUME AddPending PROVE Head(nMail).what = "ADD_HANDLER"
    BY DEF NetworkStep, DoLogout, NetworkQuits
  <2>1. Len(nMail) = 1
    BY DEF PatientInv, AddIsAlone
  <2>2. DOMAIN nMail = 1..1
    BY <2>1, LenProperties DEF IInv, TypeOK
  <2>3. \A i \in DOMAIN nMail : i = 1
    BY <2>2
  <2> QED BY <1>1, <2>3 DEF AddPending
\* the other two messages move nothing but the looper's place
<1>7. ASSUME ~AddPending, UNCHANGED <<objectVars, hpc, iHandlerList>>,
             \/ UNCHANGED <<lpc, by>>
             \/ LGoto("N", "test") /\ by' = Head(nMail).from /\ Head(nMail).what = "DO_LOGOUT"
      PROVE  /\ AddIsAlone' /\ ArrivalIsAlone' /\ LoopersSession' /\ LogoutsSession'
             /\ SessionStands' /\ LogoutGoesOn' /\ ObjectsListed' /\ SingleThread'
             /\ NoSessionLeak'
  <2>1. Alive' = Alive /\ ~AddPending'
    BY <1>1, <1>7 DEF Alive, AddPending
  <2>2. AddIsAlone' /\ ArrivalIsAlone' /\ LoopersSession'
    BY <1>0, <1>2, <1>7, <2>1 DEF AddIsAlone, ArrivalIsAlone, PatientInv, LoopersSession, At,
                                  sessionVars, objectVars
  <2>3. LogoutsSession'
    BY <1>0, <1>1, <1>7 DEF PatientInv, LogoutsSession, LGoto, LAt, sessionVars
  <2>4. Untouched' = Untouched
    BY <1>0, <1>7 DEF Untouched, LGoto, IInv, TypeOK, LAt, Loopers
  <2>5. SessionStands'
    BY <1>0, <1>7, <2>1, <2>4 DEF PatientInv, SessionStands, sessionVars, objectVars
  <2>6. LogoutGoesOn'
    BY <1>0, <1>7 DEF PatientInv, LogoutGoesOn, LGoto, LAt, IInv, TypeOK, sessionVars, Loopers
  <2>7. ObjectsListed' /\ SingleThread' /\ NoSessionLeak'
    BY <1>0, <1>7, <2>1 DEF PatientInv, ObjectsListed, SingleThread, NoSessionLeak, Listed,
                            sessionVars, objectVars
  <2> QED BY <2>1, <2>2, <2>3, <2>5, <2>6, <2>7
<1>8. CASE DoLogout
  <2>1. ~AddHandler
    BY <1>8 DEF DoLogout, AddHandler
  <2>2. QuitInOrder'
    BY <1>0, <1>1, <1>8 DEF DoLogout, PatientInv, QuitInOrder
  <2> QED BY <1>4, <1>6, <1>7, <1>8, <2>1, <2>2 DEF DoLogout, PatientInv
<1>9. CASE NetworkQuits
  <2>1. ~AddHandler
    BY <1>9 DEF NetworkQuits, AddHandler
  <2>2. QuitInOrder'
    BY <1>0, <1>1, <1>9 DEF NetworkQuits, PatientInv, QuitInOrder
  <2> QED BY <1>4, <1>6, <1>7, <1>9, <2>1, <2>2 DEF NetworkQuits, PatientInv
<1> QED BY <1>5, <1>8, <1>9 DEF NetworkStep

\* MainWindow::MessageReceived.
LEMMA PatientWindow == ASSUME IInv, PatientInv, WindowStep PROVE PatientInv'
<1> USE DEF sessionVars, objectVars
<1>0. UNCHANGED <<sessionVars, iHandlerList, objectVars, hpc, inSelect, li, target, by,
                  crashed, logins>>
  BY DEF WindowStep
<1>1. Alive' = Alive /\ Listed' = Listed
  BY <1>0 DEF Alive, Listed
<1>2. LoopersSession' /\ ObjectsListed' /\ SingleThread' /\ NoSessionLeak'
  BY <1>0, <1>1 DEF PatientInv, LoopersSession, ObjectsListed, SingleThread, NoSessionLeak, At
<1>3. ASSUME NEW messages, WTakes(messages)
      PROVE  /\ 1 \in DOMAIN wMail /\ Head(wMail) = wMail[1]
             /\ \A i \in DOMAIN wMail' : i + 1 \in DOMAIN wMail /\ i + 1 # 1
                                           /\ wMail'[i] = wMail[i + 1]
             /\ Len(wMail) = 1 => wMail' = <<>>
             /\ \A i \in DOMAIN wMail' : wMail'[i] # "AVAIL"
             /\ \A h \in Handlers : hpc[h] \notin Arriving
             /\ ~AddPending
             /\ wpc = "run" /\ LAt("W", "idle")
  <2>1. wMail # <<>> /\ wMail' = Tail(wMail) /\ wMail \in Seq(WMessages)
    BY <1>3 DEF WTakes, IInv, TypeOK
  <2>2. /\ 1 \in DOMAIN wMail /\ Head(wMail) = wMail[1]
        /\ \A i \in DOMAIN wMail' : i + 1 \in DOMAIN wMail /\ i + 1 # 1
                                      /\ wMail'[i] = wMail[i + 1]
        /\ Len(wMail) = 1 => wMail' = <<>>
    BY <2>1, TailEntries
  <2>3. \A i \in DOMAIN wMail' : wMail'[i] # "AVAIL"
    BY <2>2 DEF PatientInv, RequestIsFirst
  <2>4. (\A h \in Handlers : hpc[h] \notin Arriving) /\ ~AddPending
    BY <2>1 DEF PatientInv, ArrivalIsAlone, AddIsAlone
  <2> QED BY <1>3, <2>2, <2>3, <2>4 DEF WTakes
\* a message that adds nothing to the Network's mailbox
<1>4. ASSUME NEW messages, WTakes(messages), UNCHANGED <<nMail, net>>,
             lpc' = lpc \/ LGoto("W", "test"),
             (wpc' = "run" /\ iWindow' = iWindow) \/ wpc' = "quit"
      PROVE  PatientInv'
  <2>1. ~AddPending' /\ AddIsAlone' /\ ArrivalIsAlone' /\ RequestIsFirst'
    BY <1>0, <1>3, <1>4 DEF AddPending, AddIsAlone, ArrivalIsAlone, RequestIsFirst
  <2>2. Untouched' = Untouched
    BY <1>3, <1>4 DEF Untouched, LGoto, LAt, IInv, TypeOK, Loopers
  <2>3. SessionStands'
    BY <1>0, <1>1, <2>2 DEF PatientInv, SessionStands
  <2>4. LogoutsSession' /\ LogoutGoesOn'
    BY <1>0, <1>3, <1>4 DEF PatientInv, LogoutsSession, LogoutGoesOn, LGoto, LAt, IInv, TypeOK,
                            Loopers
  <2>5. QuitInOrder'
    BY <1>3, <1>4 DEF PatientInv, QuitInOrder
  <2> QED BY <1>2, <2>1, <2>3, <2>4, <2>5 DEF PatientInv
<1>5. CASE ChangeStatus
  BY <1>3, <1>4, <1>5 DEF ChangeStatus, quitVars
<1>6. CASE Login
  <2>1. /\ WTakes({"AVAIL"}) /\ iSession = None /\ UNCHANGED <<lpc, quitVars>>
        /\ nMail' = Append(nMail, NMessage("ADD_HANDLER", None))
    BY <1>6 DEF Login
  <2>2. 1 \in DOMAIN wMail /\ wMail[1] = "AVAIL"
    BY <1>3, <2>1 DEF WTakes
  <2>3. /\ nMail = <<>> /\ LoopersIdle /\ wpc = "run" /\ wMail' = <<>>
        /\ \A h \in Handlers : hpc[h] \in Gone \cup InLoop
    BY <1>3, <2>1, <2>2 DEF PatientInv, RequestIsFirst
  <2>4. \A h \in Handlers : hpc[h] \in Gone
    BY <2>1, <2>3 DEF PatientInv, SessionStands, Untouched, LoopersIdle, LAt
  <2>5. /\ Len(nMail') = 1 /\ DOMAIN nMail' = {1} /\ nMail'[1].what = "ADD_HANDLER"
    BY <2>1, <2>3 DEF NMessage
  <2>6. AddIsAlone' /\ ArrivalIsAlone' /\ RequestIsFirst'
    BY <1>0, <2>1, <2>3, <2>4, <2>5
       DEF AddIsAlone, ArrivalIsAlone, RequestIsFirst, Alive, LoopersIdle, LAt, Arriving, Gone,
           quitVars
  <2>7. SessionStands' /\ LogoutsSession' /\ LogoutGoesOn' /\ QuitInOrder'
    BY <1>0, <1>1, <2>1, <2>3, <2>5
       DEF PatientInv, SessionStands, Untouched, LogoutsSession, LogoutGoesOn, QuitInOrder, LAt,
           quitVars
  <2> QED BY <1>2, <2>6, <2>7 DEF PatientInv
<1>7. CASE SetNotAvail
  BY <1>3, <1>4, <1>7 DEF SetNotAvail, quitVars
<1>8. CASE BeggQuit
  <2>1. lpc' = lpc \/ LGoto("W", "test")
    BY <1>8 DEF BeggQuit, LGoto
  <2> QED BY <1>3, <1>4, <1>8, <2>1 DEF BeggQuit
<1>9. CASE QuitLooper
  <2> USE <1>9 DEF QuitLooper
  <2>1. /\ nMail \in Seq(NMessages) /\ NMessage("QUIT", None) \in NMessages
        /\ NMessage("QUIT", None).what = "QUIT"
    BY DEF IInv, TypeOK, NMessages, NMessage
  <2>2. \A i \in DOMAIN nMail' :
           (i \in DOMAIN nMail /\ nMail'[i] = nMail[i]) \/ nMail'[i].what = "QUIT"
    BY <2>1, AppendEntries
  <2>3. ~AddPending /\ (\A h \in Handlers : hpc[h] \notin Arriving)
          /\ \A i \in DOMAIN wMail : wMail[i] # "AVAIL"
    BY DEF PatientInv, AddIsAlone, ArrivalIsAlone, RequestIsFirst
  <2>4. ~AddPending'
    BY <2>2, <2>3 DEF AddPending
  <2>5. AddIsAlone' /\ ArrivalIsAlone' /\ RequestIsFirst'
    BY <1>0, <2>3, <2>4 DEF AddIsAlone, ArrivalIsAlone, RequestIsFirst
  <2>6. SessionStands' /\ LogoutsSession' /\ LogoutGoesOn' /\ QuitInOrder'
    BY <1>0, <1>1, <2>2 DEF PatientInv, SessionStands, Untouched, LogoutsSession, LogoutGoesOn,
                            QuitInOrder, LAt
  <2> QED BY <1>2, <2>5, <2>6 DEF PatientInv
<1>10. CASE Exit
  <2> USE <1>10 DEF Exit
  <2>1. AddPending' = AddPending /\ LoopersIdle' = LoopersIdle /\ Untouched' = Untouched
    BY DEF AddPending, LoopersIdle, Untouched, LAt
  <2>2. AddIsAlone' /\ ArrivalIsAlone' /\ RequestIsFirst'
    BY <1>0, <1>1, <2>1 DEF PatientInv, AddIsAlone, ArrivalIsAlone, RequestIsFirst, At
  <2>3. SessionStands' /\ LogoutsSession' /\ LogoutGoesOn' /\ QuitInOrder'
    BY <1>0, <1>1, <2>1 DEF PatientInv, SessionStands, LogoutsSession, LogoutGoesOn, QuitInOrder,
                            LAt
  <2> QED BY <1>2, <2>2, <2>3 DEF PatientInv
<1> QED BY <1>5, <1>6, <1>7, <1>8, <1>9, <1>10 DEF WindowStep

\* A thread in its loop moves on in it, or leaves it after a logout has begun.
LEMMA PatientInLoop ==
    ASSUME IInv, PatientInv, NEW h \in Handlers, hpc[h] \in InLoop,
           NEW pc \in InLoop \cup {"ended"}, Goto(h, pc), pc = "ended" => ~Untouched,
           UNCHANGED <<sessionVars, iHandlerList, objectVars, logoutVars, quitVars>>,
           \/ nMail' = nMail
           \/ pc = "ended" /\ PostsLogout(h),
           \/ wMail' = wMail
           \/ iSession # None /\ wMail' = Append(wMail, "NOT_AVAIL"),
           \A g \in Handlers \ {h} : inSelect'[g] = inSelect[g],
           pc = "select" => inSelect'[h] = owner[h]
    PROVE  PatientInv'
<1> USE DEF sessionVars, objectVars, logoutVars, quitVars
<1>1. hpc'[h] = pc /\ \A g \in Handlers : g # h => hpc'[g] = hpc[g]
  BY DEF Goto, IInv, TypeOK
<1>2. Alive' \subseteq Alive /\ h \in Alive /\ (pc # "ended" => Alive' = Alive)
  BY <1>1 DEF Alive, Gone, InLoop
<1>3. \A g \in Handlers : hpc[g] \notin Arriving
  BY <1>2 DEF PatientInv, ArrivalIsAlone, Arriving, InLoop
<1>4. ~AddPending
  BY <1>2 DEF PatientInv, AddIsAlone
<1>5. \A i \in DOMAIN nMail' :
         \/ i \in DOMAIN nMail /\ nMail'[i] = nMail[i]
         \/ nMail'[i] = NMessage("DO_LOGOUT", h)
  <2>1. nMail \in Seq(NMessages) /\ NMessage("DO_LOGOUT", h) \in NMessages
    BY DEF IInv, TypeOK, NMessages, NMessage
  <2> QED BY <2>1, AppendEntries DEF PostsLogout
<1>6. \A i \in DOMAIN wMail' :
         (i \in DOMAIN wMail /\ wMail'[i] = wMail[i]) \/ wMail'[i] = "NOT_AVAIL"
  <2>1. wMail \in Seq(WMessages) /\ "NOT_AVAIL" \in WMessages
    BY DEF IInv, TypeOK, WMessages, Statuses, Offline
  <2> QED BY <2>1, AppendEntries
<1>7. LoopersIdle' = LoopersIdle /\ Untouched' = Untouched /\ (LoopersIdle => Untouched)
  BY DEF LoopersIdle, Untouched, LAt
<1>8. AddIsAlone' /\ ArrivalIsAlone'
  <2>1. ~AddPending'
    BY <1>4, <1>5 DEF AddPending, NMessage
  <2>2. \A g \in Handlers : hpc'[g] \notin Arriving
    BY <1>1, <1>3 DEF Arriving, InLoop
  <2> QED BY <2>1, <2>2 DEF AddIsAlone, ArrivalIsAlone
<1>9. RequestIsFirst'
  <2> SUFFICES ASSUME NEW i \in DOMAIN wMail', wMail'[i] = "AVAIL"
               PROVE  /\ i = 1 /\ nMail' = <<>> /\ LoopersIdle' /\ wpc' = "run"
                      /\ \A g \in Handlers : hpc'[g] \in Gone \cup InLoop
                      /\ iSession' # None
    BY DEF RequestIsFirst
  <2>1. i \in DOMAIN wMail /\ wMail[i] = "AVAIL"
    BY <1>6
  <2>2. /\ i = 1 /\ nMail = <<>> /\ LoopersIdle /\ wpc = "run"
        /\ \A g \in Handlers : hpc[g] \in Gone \cup InLoop
    BY <2>1 DEF PatientInv, RequestIsFirst
  <2>3. iSession # None /\ pc # "ended"
    BY <1>7, <2>2 DEF PatientInv, SessionStands
  <2> QED BY <1>1, <1>7, <2>2, <2>3
<1>10. LoopersSession'
  BY <1>1 DEF PatientInv, LoopersSession, At
<1>11. LogoutsSession'
  <2>1. iSession # None => owner[h] = iSession
    BY DEF PatientInv, LoopersSession
  <2> QED BY <1>5, <2>1 DEF PatientInv, LogoutsSession, LAt, NMessage
<1>12. SessionStands'
  BY <1>1, <1>2, <1>7 DEF PatientInv, SessionStands
<1>13. LogoutGoesOn' /\ ObjectsListed' /\ QuitInOrder' /\ SingleThread' /\ NoSessionLeak'
  BY <1>2, <1>5 DEF PatientInv, LogoutGoesOn, ObjectsListed, QuitInOrder, SingleThread,
                    NoSessionLeak, Listed, LAt, NMessage
<1> QED BY <1>8, <1>9, <1>10, <1>11, <1>12, <1>13 DEF PatientInv

\* A thread that is stopped, or whose socket is closed, meets a logout.
LEMMA LoopEndsInLogout ==
    ASSUME IInv, PatientInv, NEW h \in Handlers, hpc[h] \in InLoop, Untouched
    PROVE  iSession # None /\ owner[h] = iSession /\ sess[iSession] = "open" /\ ~iDie[h]
<1>1. iSession # None /\ sess[iSession] = "open"
  BY DEF PatientInv, SessionStands
<1>2. PICK g \in Alive : owner[g] = iSession /\ ~iDie[g]
  BY <1>1 DEF PatientInv, SessionStands
<1>3. h \in Alive
  BY DEF Alive, Gone, InLoop
<1> QED BY <1>1, <1>2, <1>3 DEF PatientInv, SingleThread

\* HandlerThread.
LEMMA PatientThread ==
    ASSUME IInv, PatientInv, NEW h \in Handlers, ThreadStep(h)
    PROVE  PatientInv'
<1>0. UNCHANGED <<iStatus, iHandlerList, objectVars, logoutVars, quitVars, logins>>
  BY DEF ThreadStep
<1>1. CASE hpc[h] \in InLoop
  <2>1. CASE ThreadDies(h)
    <3>1. PICK pc \in {"ended", "prep"} : Goto(h, pc) /\ (pc = "ended" => iDie[h])
      BY <1>1, <2>1 DEF ThreadDies, At, InLoop
    <3> QED BY <1>0, <1>1, <2>1, <3>1, PatientInLoop, LoopEndsInLogout DEF ThreadDies, InLoop
  <2>2. CASE ThreadPrep(h)
    <3>1. CASE iSession = None
      BY <2>2, <3>1, PatientCrash DEF ThreadPrep
    <3>2. CASE iSession # None
      <4>1. /\ Goto(h, "select") /\ inSelect' = [inSelect EXCEPT ![h] = iSession]
            /\ UNCHANGED <<sessionVars, nMail, wMail>>
        BY <2>2, <3>2 DEF ThreadPrep
      <4>2. owner[h] = iSession
        BY <1>1, <3>2 DEF PatientInv, LoopersSession
      <4>3. inSelect'[h] = owner[h] /\ \A g \in Handlers \ {h} : inSelect'[g] = inSelect[g]
        BY <4>1, <4>2 DEF IInv, TypeOK
      <4> QED BY <1>0, <1>1, <4>1, <4>3, PatientInLoop DEF InLoop
    <3> QED BY <3>1, <3>2
  <2>3. CASE ThreadSelect(h)
    <3>1. /\ inSelect' = [inSelect EXCEPT ![h] = None]
          /\ UNCHANGED <<sessionVars, wMail>> /\ At(h, "select")
      BY <2>3 DEF ThreadSelect
    <3>2. \A g \in Handlers \ {h} : inSelect'[g] = inSelect[g]
      BY <3>1 DEF IInv, TypeOK
    <3>3. CASE Goto(h, "woken") /\ UNCHANGED nMail
      BY <1>0, <1>1, <3>1, <3>2, <3>3, PatientInLoop DEF InLoop
    <3>4. CASE sess[inSelect[h]] \in {"closed", "freed"} /\ Goto(h, "ended") /\ PostsLogout(h)
      <4>1. ~Untouched
        BY <1>1, <3>1, <3>4, LoopEndsInLogout DEF PatientInv, LoopersSession
      <4> QED BY <1>0, <1>1, <3>1, <3>2, <3>4, <4>1, PatientInLoop DEF InLoop
    <3> QED BY <2>3, <3>3, <3>4 DEF ThreadSelect
  <2>4. CASE ThreadWoken(h)
    <3>1. UNCHANGED <<sessionVars, nMail, wMail, inSelect>>
      BY <2>4 DEF ThreadWoken
    <3>2. PICK pc \in {"ended", "ping", "watch"} : Goto(h, pc) /\ (pc = "ended" => iDie[h])
      BY <2>4 DEF ThreadWoken
    <3> QED BY <1>0, <1>1, <3>1, <3>2, PatientInLoop, LoopEndsInLogout DEF InLoop
  <2>5. CASE ThreadWatch(h)
    <3>1. CASE Crash("null_window")
      BY <3>1, PatientCrash
    <3>2. CASE ~Crash("null_window")
      <4>0. Goto(h, "ping") \/ Goto(h, "alert")
        BY <2>5, <3>2 DEF ThreadWatch
      <4>1. PICK pc \in {"ping", "alert"} : Goto(h, pc)
        BY <4>0
      <4>2. /\ UNCHANGED <<sessionVars, nMail, inSelect>>
            /\ \/ wMail' = wMail
               \/ iSession # None /\ wMail' = Append(wMail, "NOT_AVAIL")
        BY <2>5, <3>2 DEF ThreadWatch
      <4> QED BY <1>0, <1>1, <4>1, <4>2, PatientInLoop DEF InLoop
    <3> QED BY <3>1, <3>2
  <2>6. CASE ThreadPing(h)
    BY <1>0, <1>1, <2>6, PatientInLoop DEF ThreadPing, InLoop
  <2>7. ~(LoginReturns(h) \/ ThreadTest(h) \/ ThreadGreet(h))
    BY <1>1 DEF LoginReturns, ThreadTest, ThreadGreet, At, InLoop
  <2> QED BY <2>1, <2>2, <2>3, <2>4, <2>5, <2>6, <2>7 DEF ThreadStep
<1>2. CASE hpc[h] \in Arriving
  <2> USE DEF sessionVars, objectVars, logoutVars, quitVars
  <2>0. /\ nMail = <<>> /\ wMail = <<>> /\ LoopersIdle /\ wpc = "run" /\ iWindow
        /\ Alive = {h} /\ ~iDie[h] /\ ~AddPending
        /\ At(h, "start") \/ At(h, "login") => iSession = None
        /\ At(h, "test") /\ iSession # None => owner[h] = iSession
        /\ At(h, "greet") => iSession # None /\ owner[h] = iSession
    BY <1>2 DEF PatientInv, ArrivalIsAlone, QuitInOrder, AddPending
  <2>1. /\ \A g \in Handlers : g # h => hpc[g] \in Gone
        /\ LoopersIdle' /\ Untouched
        /\ \A t \in Loopers : lpc'[t] = "idle"
    BY <1>0, <2>0 DEF Alive, LoopersIdle, LAt, Untouched
  \* what does not depend on where the thread goes
  <2>2. ASSUME NEW pc \in Arriving \cup {"loop", "ended"}, Goto(h, pc), wMail' = wMail,
               IF pc = "ended" THEN iSession' = None /\ PostsLogout(h) ELSE nMail' = nMail
        PROVE  /\ hpc'[h] = pc /\ \A g \in Handlers : g # h => hpc'[g] = hpc[g]
               /\ pc # "ended" => Alive' = {h}
               /\ AddIsAlone' /\ RequestIsFirst' /\ LogoutGoesOn' /\ ObjectsListed'
               /\ QuitInOrder' /\ SingleThread' /\ LogoutsSession'
    <3>1. hpc'[h] = pc /\ \A g \in Handlers : g # h => hpc'[g] = hpc[g]
      BY <2>2 DEF Goto, IInv, TypeOK
    <3>2. Alive' \subseteq {h} /\ (pc # "ended" => Alive' = {h})
      BY <2>1, <2>2, <3>1 DEF Alive, Gone, Arriving
    <3>3. \A i \in DOMAIN nMail' : /\ nMail'[i].what = "DO_LOGOUT"
                                   /\ iSession' = None
      <4>1. nMail' # nMail => nMail' = <<NMessage("DO_LOGOUT", h)>> /\ iSession' = None
        BY <2>0, <2>2 DEF PostsLogout
      <4> QED BY <2>0, <4>1 DEF NMessage
    <3>4. AddIsAlone' /\ RequestIsFirst' /\ SingleThread'
      BY <2>0, <2>2, <3>2, <3>3 DEF AddIsAlone, AddPending, RequestIsFirst, SingleThread
    <3>5. LogoutGoesOn' /\ ObjectsListed' /\ QuitInOrder' /\ LogoutsSession'
      BY <1>0, <2>1, <3>3 DEF LogoutGoesOn, ObjectsListed, QuitInOrder, LogoutsSession, LAt,
                             Listed, PatientInv, Loopers
    <3> QED BY <3>1, <3>2, <3>4, <3>5
  <2>3. CASE ThreadDies(h)
    <3>1. Goto(h, "login") /\ At(h, "start") /\ UNCHANGED <<sessionVars, nMail, wMail, inSelect>>
      BY <1>2, <2>0, <2>3 DEF ThreadDies, At, Arriving
    <3>2. /\ hpc'[h] = "login" /\ \A g \in Handlers : g # h => hpc'[g] = hpc[g]
          /\ Alive' = {h}
          /\ AddIsAlone' /\ RequestIsFirst' /\ LogoutGoesOn' /\ ObjectsListed'
          /\ QuitInOrder' /\ SingleThread' /\ LogoutsSession'
      BY <2>2, <3>1 DEF Arriving
    <3>3. ArrivalIsAlone'
      BY <1>0, <2>0, <2>1, <3>1, <3>2 DEF ArrivalIsAlone, Arriving, Gone, At
    <3>4. LoopersSession' /\ SessionStands'
      BY <2>0, <2>1, <3>1, <3>2 DEF LoopersSession, SessionStands, At, InLoop, Gone
    <3>5. NoSessionLeak'
      BY <3>1 DEF NoSessionLeak, PatientInv
    <3> QED BY <3>2, <3>3, <3>4, <3>5 DEF PatientInv
  <2>4. CASE LoginReturns(h)
    <3>1. Goto(h, "test") /\ At(h, "login") /\ UNCHANGED <<nMail, wMail, inSelect>>
      BY <2>4 DEF LoginReturns
    <3>2. /\ hpc'[h] = "test" /\ \A g \in Handlers : g # h => hpc'[g] = hpc[g]
          /\ Alive' = {h}
          /\ AddIsAlone' /\ RequestIsFirst' /\ LogoutGoesOn' /\ ObjectsListed'
          /\ QuitInOrder' /\ SingleThread' /\ LogoutsSession'
      BY <2>2, <3>1 DEF Arriving
    <3>3. LoopersSession'
      BY <2>1, <3>2 DEF LoopersSession, At, InLoop, Gone
    <3>4. /\ iSession' # None => /\ iSession' \in Sessions /\ owner'[h] = iSession'
                                 /\ sess'[iSession'] = "open"
          /\ \A s \in Sessions : s # iSession' => sess'[s] = sess[s]
      BY <2>0, <2>4, <3>1 DEF LoginReturns, IInv, TypeOK
    <3>5. ArrivalIsAlone'
      BY <1>0, <2>0, <2>1, <3>1, <3>2, <3>4 DEF ArrivalIsAlone, Arriving, Gone, At
    <3>6. SessionStands'
      BY <1>0, <2>0, <2>1, <3>2, <3>4 DEF SessionStands, InLoop, Gone
    <3>7. NoSessionLeak'
      BY <2>0, <3>1, <3>4, NoneAssumption DEF NoSessionLeak, PatientInv
    <3> QED BY <3>2, <3>3, <3>5, <3>6, <3>7 DEF PatientInv
  <2>5. CASE ThreadTest(h)
    <3>0. At(h, "test") /\ UNCHANGED <<sessionVars, wMail, inSelect>>
      BY <2>5 DEF ThreadTest
    <3>1. CASE iSession = None
      <4>1. Goto(h, "ended") /\ PostsLogout(h) /\ iSession' = None
        BY <2>5, <3>0, <3>1 DEF ThreadTest
      <4>2. /\ hpc'[h] = "ended" /\ \A g \in Handlers : g # h => hpc'[g] = hpc[g]
            /\ AddIsAlone' /\ RequestIsFirst' /\ LogoutGoesOn' /\ ObjectsListed'
            /\ QuitInOrder' /\ SingleThread' /\ LogoutsSession'
        BY <2>2, <3>0, <4>1
      <4>3. \A g \in Handlers : hpc'[g] \in Gone
        BY <2>1, <4>2 DEF Gone
      <4>4. ArrivalIsAlone' /\ LoopersSession' /\ SessionStands' /\ NoSessionLeak'
        BY <3>0, <4>1, <4>3 DEF ArrivalIsAlone, LoopersSession, SessionStands, NoSessionLeak, At,
                               Gone, InLoop, Arriving, PatientInv
      <4> QED BY <4>2, <4>4 DEF PatientInv
    <3>2. CASE iSession # None
      <4>1. Goto(h, "greet") /\ UNCHANGED nMail
        BY <2>0, <2>5, <3>2 DEF ThreadTest
      <4>2. /\ hpc'[h] = "greet" /\ \A g \in Handlers : g # h => hpc'[g] = hpc[g]
            /\ Alive' = {h}
            /\ AddIsAlone' /\ RequestIsFirst' /\ LogoutGoesOn' /\ ObjectsListed'
            /\ QuitInOrder' /\ SingleThread' /\ LogoutsSession'
        BY <2>2, <3>0, <4>1 DEF Arriving
      <4>3. ArrivalIsAlone'
        BY <1>0, <2>0, <2>1, <3>0, <3>2, <4>1, <4>2 DEF ArrivalIsAlone, Arriving, Gone, At
      <4>4. LoopersSession' /\ NoSessionLeak'
        BY <2>1, <3>0, <4>2 DEF LoopersSession, NoSessionLeak, At, Gone, InLoop, PatientInv
      <4>5. SessionStands'
        BY <1>0, <2>0, <2>1, <3>0, <3>2, <4>2 DEF SessionStands, PatientInv
      <4> QED BY <4>2, <4>3, <4>4, <4>5 DEF PatientInv
    <3> QED BY <3>1, <3>2
  <2>6. CASE ThreadGreet(h)
    <3>1. /\ At(h, "greet") /\ Goto(h, "loop")
          /\ UNCHANGED <<sessionVars, nMail, wMail, inSelect>>
      BY <2>0, <2>6 DEF ThreadGreet
    <3>2. /\ hpc'[h] = "loop" /\ \A g \in Handlers : g # h => hpc'[g] = hpc[g]
          /\ Alive' = {h}
          /\ AddIsAlone' /\ RequestIsFirst' /\ LogoutGoesOn' /\ ObjectsListed'
          /\ QuitInOrder' /\ SingleThread' /\ LogoutsSession'
      BY <2>2, <3>1
    <3>3. ArrivalIsAlone'
      BY <2>1, <3>2 DEF ArrivalIsAlone, Arriving, Gone
    <3>4. LoopersSession' /\ NoSessionLeak'
      BY <2>0, <2>1, <3>1, <3>2 DEF LoopersSession, NoSessionLeak, At, Gone, InLoop, PatientInv
    <3>5. SessionStands'
      BY <1>0, <2>0, <2>1, <3>1, <3>2 DEF SessionStands, PatientInv
    <3> QED BY <3>2, <3>3, <3>4, <3>5 DEF PatientInv
  <2>7. ~(ThreadPrep(h) \/ ThreadSelect(h) \/ ThreadWoken(h) \/ ThreadWatch(h) \/ ThreadPing(h))
    BY <1>2 DEF ThreadPrep, ThreadSelect, ThreadWoken, ThreadWatch, ThreadPing, At, Arriving
  <2> QED BY <2>3, <2>4, <2>5, <2>6, <2>7 DEF ThreadStep
<1>3. hpc[h] \in InLoop \cup Arriving
  BY DEF ThreadStep, ThreadDies, LoginReturns, ThreadTest, ThreadGreet, ThreadPrep, ThreadSelect,
         ThreadWoken, ThreadWatch, ThreadPing, At, InLoop, Arriving
<1> QED BY <1>1, <1>2, <1>3

\* The user, who waits until the program has settled.
LEMMA PatientUser == ASSUME Patient, IInv, PatientInv, User PROVE PatientInv'
<1>0. UNCHANGED <<sessionVars, iStatus, iHandlerList, nMail, objectVars, inSelect, logoutVars,
                  quitVars, fault, crashed>>
  BY DEF User
<1>1. ASSUME NEW m, UserMay, wMail' = Append(wMail, m), UNCHANGED hpc
      PROVE  PatientInv'
  <2> USE DEF sessionVars, objectVars, logoutVars, quitVars
  <2>1. /\ Settled /\ wpc = "run" /\ nMail = <<>> /\ LoopersIdle /\ wMail' = <<m>>
        /\ ~AddPending /\ \A h \in Handlers : hpc[h] \in Gone \cup InLoop
    BY <1>1 DEF UserMay, Settled, AddPending, LoopersIdle
  <2>2. Len(wMail') = 1 /\ DOMAIN wMail' = {1}
    BY <2>1
  <2>3. Alive' = Alive /\ LoopersIdle' = LoopersIdle /\ Untouched' = Untouched
          /\ AddPending' = AddPending /\ Listed' = Listed
    BY <1>0, <1>1 DEF Alive, LoopersIdle, Untouched, AddPending, Listed, LAt
  <2>4. AddIsAlone' /\ ArrivalIsAlone' /\ RequestIsFirst'
    BY <1>0, <1>1, <2>1, <2>2, <2>3 DEF AddIsAlone, ArrivalIsAlone, RequestIsFirst, Arriving, Gone,
                                        InLoop
  <2>5. LoopersSession' /\ LogoutsSession' /\ SessionStands' /\ LogoutGoesOn'
    BY <1>0, <1>1, <2>3 DEF PatientInv, LoopersSession, LogoutsSession, SessionStands, LogoutGoesOn,
                            At, LAt
  <2>6. ObjectsListed' /\ QuitInOrder' /\ SingleThread' /\ NoSessionLeak'
    BY <1>0, <1>1, <2>3 DEF PatientInv, ObjectsListed, QuitInOrder, SingleThread, NoSessionLeak
  <2> QED BY <2>4, <2>5, <2>6 DEF PatientInv
<1>2. CASE UserSetsStatus
  BY <1>1, <1>2 DEF UserSetsStatus
<1>3. CASE UserQuits
  BY <1>1, <1>3 DEF UserQuits
<1>4. CASE DismissAlert
  <2>1. PICK h \in Handlers : At(h, "alert") /\ Goto(h, "ping")
    BY <1>4 DEF DismissAlert
  <2>2. hpc[h] \in InLoop /\ UNCHANGED wMail
    BY <1>4, <2>1 DEF DismissAlert, At, InLoop
  <2> QED BY <1>0, <2>1, <2>2, PatientInLoop DEF InLoop
<1> QED BY <1>2, <1>3, <1>4 DEF User

\* Every step, of whichever thread.
LEMMA PatientNext == ASSUME Patient PROVE IInv /\ PatientInv /\ [Next]_vars => PatientInv'
<1> SUFFICES ASSUME IInv, PatientInv, [Next]_vars PROVE PatientInv'
  OBVIOUS
<1>1. ASSUME NEW t \in Loopers, Looper(t) PROVE PatientInv'
  BY <1>1, PatientLogout DEF Looper
<1>2. CASE NetworkLoop
  BY <1>2, PatientNetwork DEF NetworkLoop
<1>3. CASE WindowLoop
  BY <1>3, PatientWindow DEF WindowLoop
<1>4. ASSUME NEW h \in Handlers, Thread(h) PROVE PatientInv'
  BY <1>4, PatientThread DEF Thread
<1>5. CASE Undefined
  BY <1>5, PatientCrash DEF Undefined, DeadNetwork, StaleSession
<1>6. CASE UserActs
  BY <1>6, PatientUser DEF UserActs
<1>7. CASE Stopped \/ UNCHANGED vars
  BY <1>7, PatientFrame DEF Stopped, vars, quitVars
<1> QED BY <1>1, <1>2, <1>3, <1>4, <1>5, <1>6, <1>7 DEF Next

\* Every reachable state of a patient user's program satisfies the invariant.
THEOREM PatientInvariance == ASSUME Patient PROVE Spec => []PatientInv
BY PatientInit, PatientNext, Invariance, PTL DEF Spec

\* With both loopers idle, SessionStands says that the session is watched.
LEMMA WatchedInv == IInv /\ PatientInv => OneWatchedSession
<1> SUFFICES ASSUME IInv, PatientInv PROVE OneWatchedSession
  OBVIOUS
<1>1. SessionIsWatched
  BY DEF PatientInv, SessionStands, Untouched, SessionIsWatched, LoggingOut, LAt
<1> QED BY <1>1 DEF PatientInv, OneWatchedSession

\* One connection at a time, watched as long as it stands, freed when it ends
\* (Network::Login and Logout, HandlerThread): for any number of handlers and
\* sessions, if the user waits for the program to settle.
THEOREM OneSessionIsWatched == ASSUME Patient PROVE Spec => []OneWatchedSession
BY WatchedInv, Invariance, PatientInvariance, PTL

\* Only Logout frees a session.
LEMMA LogoutFrees ==
    ASSUME IInv, [Next]_vars, NEW s \in Sessions, sess[s] # "freed", sess'[s] = "freed"
    PROVE  iSession = s
<1>1. CASE UNCHANGED sess
  BY <1>1
<1>2. ASSUME NEW t \in Loopers, Looper(t) PROVE iSession = s
  <2>1. CASE LogoutLogoff(t)
    BY <2>1 DEF LogoutLogoff, gg_logoff, IInv, TypeOK
  <2>2. CASE LogoutFree(t)
    BY <2>2 DEF LogoutFree, gg_free_session, Crash, sessionVars, IInv, TypeOK
  <2>3. CASE ~LogoutLogoff(t) /\ ~LogoutFree(t)
    BY <1>1, <1>2, <2>3 DEF Looper, LogoutStep, LogoutTest, LogoutNull, LogoutReturns, LogoutStop,
                            LogoutReap, Crash, sessionVars
  <2> QED BY <2>1, <2>2, <2>3
<1>3. ASSUME NEW h \in Handlers, Thread(h) PROVE iSession = s
  <2>1. CASE LoginReturns(h)
    BY <2>1 DEF LoginReturns, IInv, TypeOK
  <2>2. CASE ~LoginReturns(h)
    <3>1. UNCHANGED sess
      BY <1>3, <2>2 DEF Thread, ThreadStep, ThreadDies, ThreadTest, ThreadGreet, ThreadPrep,
                        ThreadSelect, ThreadWoken, ThreadWatch, ThreadPing, Crash, sessionVars
    <3> QED BY <1>1, <3>1
  <2> QED BY <2>1, <2>2
<1>4. CASE NetworkLoop \/ WindowLoop \/ Undefined \/ UserActs \/ Stopped \/ UNCHANGED vars
  <2>1. UNCHANGED sess
    BY <1>4 DEF NetworkLoop, NetworkStep, WindowLoop, WindowStep, Undefined, DeadNetwork,
                StaleSession, Crash, UserActs, User, Stopped, vars, sessionVars
  <2> QED BY <1>1, <2>1
<1> QED BY <1>2, <1>3, <1>4 DEF Next

\* A DO_LOGOUT left in the queue never ends a later session (Network.cpp,
\* DO_LOGOUT and Logout).
THEOREM StaleLogoutHarmless == ASSUME Patient PROVE Spec => StaleLogoutIsHarmless
<1>1. ASSUME IInv, PatientInv, [Next]_vars
      PROVE  [\A s \in Sessions :
                LAt("N", "free") /\ sess[s] # "freed" /\ sess'[s] = "freed" => owner[by] = s]_vars
  <2> SUFFICES ASSUME NEW s \in Sessions, LAt("N", "free"), sess[s] # "freed", sess'[s] = "freed"
               PROVE  owner[by] = s
    OBVIOUS
  <2>1. iSession = s
    BY <1>1, LogoutFrees
  <2>2. ~LAt("N", "idle") /\ iSession # None
    BY <2>1, NoneAssumption DEF LAt
  <2> QED BY <1>1, <2>1, <2>2 DEF PatientInv, LogoutsSession
<1> QED BY <1>1, Invariance, PatientInvariance, PTL DEF Spec, StaleLogoutIsHarmless

\* The connection of a patient user meets no undefined behaviour until a
\* looper logs out or the program is quitting.
THEOREM OnlineSound == ASSUME Patient PROVE Spec => SoundWhileOnline
<1>1. ASSUME IInv, PatientInv, [Next]_vars
      PROVE  [fault' # fault => LoggingOut \/ wpc # "run"]_vars
  <2> SUFFICES ASSUME ~LoggingOut, wpc = "run" PROVE UNCHANGED fault
    OBVIOUS
  <2>1. LoopersIdle /\ Untouched
    BY DEF LoggingOut, LoopersIdle, Untouched, LAt
  <2>2. iWindow /\ net = "up"
    BY <1>1 DEF PatientInv, QuitInOrder
  <2>3. ~Stale
    BY <1>1, <2>1 DEF PatientInv, SessionStands, Stale
  <2>4. \A h \in Handlers : hpc[h] \in InLoop => iSession # None
    BY <1>1, <2>1 DEF PatientInv, SessionStands
  <2>5. ASSUME NEW t \in Loopers, Looper(t) PROVE FALSE
    BY <2>1, <2>5 DEF LoopersIdle, LAt, Looper, LogoutStep, LogoutTest, LogoutLogoff, LogoutFree,
                      LogoutNull, LogoutReturns, LogoutStop, LogoutReap
  <2>6. ASSUME NEW h \in Handlers, Thread(h) PROVE UNCHANGED fault
    <3>1. CASE ThreadPrep(h)
      <4>1. iSession # None
        BY <2>4, <3>1 DEF ThreadPrep, At, InLoop
      <4> QED BY <2>3, <3>1, <4>1 DEF ThreadPrep, UseSession
    <3>2. CASE ThreadGreet(h) \/ ThreadWatch(h)
      BY <2>2, <2>3, <3>2 DEF ThreadGreet, ThreadWatch, UseSession
    <3>3. CASE ~ThreadPrep(h) /\ ~ThreadGreet(h) /\ ~ThreadWatch(h)
      BY <2>3, <2>6, <3>3 DEF Thread, ThreadStep, ThreadDies, LoginReturns, ThreadTest,
                              ThreadSelect, ThreadWoken, ThreadPing, UseSession
    <3> QED BY <3>1, <3>2, <3>3
  <2>7. CASE WindowLoop
    BY <2>3, <2>7 DEF WindowLoop, WindowStep, ChangeStatus, Login, SetNotAvail, BeggQuit, QuitLooper,
                      Exit, UseSession
  <2>8. CASE NetworkLoop \/ UserActs \/ Stopped \/ UNCHANGED vars
    BY <2>8 DEF NetworkLoop, NetworkStep, UserActs, User, Stopped, vars
  <2>9. CASE Undefined
    BY <2>2, <2>3, <2>9 DEF Undefined, DeadNetwork, StaleSession
  <2> QED BY <1>1, <2>5, <2>6, <2>7, <2>8, <2>9 DEF Next
<1> QED BY <1>1, Invariance, PatientInvariance, PTL DEF Spec, SoundWhileOnline

\* Both: who stays online is disturbed neither by old messages nor by the
\* races on the session pointer.
THEOREM OnlineIsKeptSound == ASSUME Patient PROVE Spec => OnlineIsSound
BY StaleLogoutHarmless, OnlineSound DEF OnlineIsSound

-------------------------------------------------------------------------------
(***************************************************************************)
(* The refinement: which step of the threads is which step of the client's *)
(* life cycle.                                                             *)
(***************************************************************************)
Connecting == AddPending \/ \E h \in Handlers : hpc[h] \in {"start", "login"}

\* Connecting is the condition that Connection's refinement mapping spells out.
LEMMA PhaseIs ==
    Connecting <=> \/ \E h \in Handlers : hpc[h] \in {"start", "login"}
                   \/ \E i \in DOMAIN nMail : nMail[i].what = "ADD_HANDLER"
BY DEF Connecting, AddPending

phase == IF iSession # None THEN "online" ELSE IF Connecting THEN "connecting" ELSE "offline"

LEMMA LifecycleLogout ==
    ASSUME IInv, PatientInv, NEW t \in Loopers, LogoutStep(t)
    PROVE  \/ UNCHANGED <<phase, iSession>>
           \/ phase = "online" /\ phase' = "offline" /\ iSession' = None
<1>0. UNCHANGED <<nMail, hpc>>
  BY DEF LogoutStep
<1>1. Connecting' = Connecting
  BY <1>0 DEF Connecting, AddPending
<1>2. ~LAt(t, "idle")
  BY DEF LogoutStep, LAt, LogoutTest, LogoutLogoff, LogoutFree, LogoutNull, LogoutReturns,
         LogoutStop, LogoutReap
<1>3. ~Connecting
  BY <1>2, LogoutIsAlone DEF Connecting, Arriving
<1>4. iSession' \in {iSession, None}
  BY DEF LogoutStep, LogoutTest, LogoutLogoff, LogoutFree, LogoutNull, LogoutReturns,
         LogoutStop, LogoutReap, Crash, sessionVars
<1> QED BY <1>1, <1>3, <1>4 DEF phase

LEMMA LifecycleNetwork ==
    ASSUME IInv, PatientInv, NetworkStep PROVE UNCHANGED <<phase, iSession>>
<1>0. /\ iSession' = iSession /\ nMail # <<>> /\ nMail' = Tail(nMail)
  BY DEF NetworkStep, sessionVars
<1>1. /\ 1 \in DOMAIN nMail /\ Head(nMail) = nMail[1]
      /\ \A i \in DOMAIN nMail' : i + 1 \in DOMAIN nMail /\ nMail'[i] = nMail[i + 1]
  BY <1>0, TailEntries DEF IInv, TypeOK
<1>2. CASE AddHandler
  <2>1. PICK h \in Handlers : hpc[h] = "unborn" /\ hpc' = [hpc EXCEPT ![h] = "start"]
    BY <1>2 DEF AddHandler
  <2>2. Connecting' /\ Connecting
    BY <1>1, <1>2, <2>1 DEF Connecting, AddPending, AddHandler, IInv, TypeOK
  <2> QED BY <1>0, <2>2 DEF phase
<1>3. CASE ~AddHandler
  <2>1. Head(nMail).what # "ADD_HANDLER" /\ UNCHANGED hpc
    BY <1>3 DEF NetworkStep, DoLogout, NetworkQuits
  <2>2. ~AddPending
    <3> SUFFICES ASSUME AddPending PROVE FALSE
      OBVIOUS
    <3>1. Len(nMail) = 1 /\ DOMAIN nMail = 1..Len(nMail)
      BY LenProperties DEF PatientInv, AddIsAlone, IInv, TypeOK
    <3>2. \A i \in DOMAIN nMail : i = 1
      BY <3>1
    <3> QED BY <1>1, <2>1, <3>2 DEF AddPending
  <2>3. ~AddPending'
    BY <1>1, <2>2 DEF AddPending
  <2> QED BY <1>0, <2>1, <2>2, <2>3 DEF phase, Connecting
<1> QED BY <1>2, <1>3

LEMMA LifecycleWindow ==
    ASSUME IInv, PatientInv, WindowStep
    PROVE  \/ UNCHANGED <<phase, iSession>>
           \/ phase = "offline" /\ phase' = "connecting" /\ UNCHANGED iSession
<1>0. UNCHANGED <<iSession, hpc>>
  BY DEF WindowStep, sessionVars
<1>1. CASE nMail' = nMail
  BY <1>0, <1>1 DEF phase, Connecting, AddPending
<1>2. CASE QuitLooper
  <2>1. /\ nMail \in Seq(NMessages) /\ NMessage("QUIT", None) \in NMessages
        /\ NMessage("QUIT", None).what = "QUIT" /\ nMail' = Append(nMail, NMessage("QUIT", None))
    BY <1>2 DEF IInv, TypeOK, NMessages, NMessage, QuitLooper
  <2>2. AddPending' = AddPending
    BY <2>1, AppendEntries DEF AddPending
  <2> QED BY <1>0, <2>2 DEF phase, Connecting
<1>3. CASE Login
  <2>1. /\ nMail \in Seq(NMessages) /\ NMessage("ADD_HANDLER", None) \in NMessages
        /\ NMessage("ADD_HANDLER", None).what = "ADD_HANDLER" /\ iSession = None
        /\ nMail' = Append(nMail, NMessage("ADD_HANDLER", None))
    BY <1>3 DEF IInv, TypeOK, NMessages, NMessage, Login
  <2>2. Connecting'
    BY <2>1, AppendEntries DEF Connecting, AddPending
  <2> QED BY <1>0, <2>1, <2>2 DEF phase
<1> QED BY <1>1, <1>2, <1>3 DEF WindowStep, ChangeStatus, SetNotAvail, BeggQuit, Exit

LEMMA LifecycleThread ==
    ASSUME IInv, PatientInv, NEW h \in Handlers, ThreadStep(h)
    PROVE  \/ UNCHANGED <<phase, iSession>>
           \/ phase = "connecting" /\ phase' = "offline" /\ UNCHANGED iSession
           \/ phase = "connecting" /\ phase' = "online" /\ iSession' \in Sessions
<1>1. CASE LoginReturns(h)
  <2>1. /\ At(h, "login") /\ hpc' = [hpc EXCEPT ![h] = "test"] /\ UNCHANGED nMail
        /\ iSession' \in Sessions \cup {None}
    BY <1>1 DEF LoginReturns, Goto
  <2>2. iSession = None /\ ~AddPending /\ Alive = {h}
    BY <2>1 DEF PatientInv, ArrivalIsAlone, Arriving, At, AddPending
  <2>3. Connecting
    BY <2>1 DEF Connecting, At
  <2>4. \A g \in Handlers : hpc'[g] \notin {"start", "login"}
    BY <2>1, <2>2 DEF Alive, Gone, IInv, TypeOK
  <2>5. ~Connecting'
    BY <2>1, <2>2, <2>4 DEF Connecting, AddPending
  <2> QED BY <2>1, <2>2, <2>3, <2>5 DEF phase
<1>2. CASE ~LoginReturns(h)
  <2>0. UNCHANGED iSession
    BY <1>2 DEF ThreadStep, ThreadDies, ThreadTest, ThreadGreet, ThreadPrep, ThreadSelect,
                ThreadWoken, ThreadWatch, ThreadPing, Crash, sessionVars
  <2>1. nMail' = nMail \/ PostsLogout(h)
    BY <1>2 DEF ThreadStep, ThreadDies, ThreadTest, ThreadGreet, ThreadPrep, ThreadSelect,
                ThreadWoken, ThreadWatch, ThreadPing, Crash
  <2>2. AddPending' = AddPending
    <3>1. /\ nMail \in Seq(NMessages) /\ NMessage("DO_LOGOUT", h) \in NMessages
          /\ NMessage("DO_LOGOUT", h).what = "DO_LOGOUT"
      BY DEF IInv, TypeOK, NMessages, NMessage
    <3> QED BY <2>1, <3>1, AppendEntries DEF PostsLogout, AddPending
  <2>3. /\ \A g \in Handlers : g # h => hpc'[g] = hpc[g]
        /\ hpc'[h] \in {"start", "login"} <=> hpc[h] \in {"start", "login"}
    <3>1. CASE At(h, "start")
      <4>1. ThreadDies(h)
        BY <1>2, <3>1 DEF ThreadStep, ThreadTest, ThreadGreet, ThreadPrep, ThreadSelect,
                          ThreadWoken, ThreadWatch, ThreadPing, At
      <4>2. ~iDie[h]
        BY <3>1 DEF PatientInv, ArrivalIsAlone, Arriving, At
      <4> QED BY <3>1, <4>1, <4>2 DEF ThreadDies, Goto, At, IInv, TypeOK
    <3>2. CASE ~At(h, "start")
      <4>1. PICK pc \in {"ended", "prep", "greet", "loop", "select", "woken", "ping", "watch", "alert"} :
               Goto(h, pc) \/ UNCHANGED hpc
        BY <1>2, <3>2 DEF ThreadStep, ThreadDies, ThreadTest, ThreadGreet, ThreadPrep, ThreadSelect,
                          ThreadWoken, ThreadWatch, ThreadPing, Crash
      <4>2. hpc[h] # "login"
        BY <1>2, <3>2 DEF ThreadStep, ThreadDies, ThreadTest, ThreadGreet, ThreadPrep, ThreadSelect,
                          ThreadWoken, ThreadWatch, ThreadPing, At
      <4> QED BY <3>2, <4>1, <4>2 DEF Goto, At, IInv, TypeOK
    <3> QED BY <3>1, <3>2
  <2>4. Connecting' = Connecting
    BY <2>2, <2>3 DEF Connecting
  <2> QED BY <2>0, <2>4 DEF phase
<1> QED BY <1>1, <1>2

\* The threads together implement the life cycle of a connection that
\* ConnLifecycle states: offline, connecting, online in one session.
THEOREM LifecycleImplemented == ASSUME Patient PROVE Spec => ImplementsLifecycle
<1> DEFINE p == IF iSession # None THEN "online"
                ELSE IF \/ \E h \in Handlers : hpc[h] \in {"start", "login"}
                        \/ \E i \in DOMAIN nMail : nMail[i].what = "ADD_HANDLER"
                THEN "connecting" ELSE "offline"
<1>1. p = phase
  BY PhaseIs DEF phase
<1>2. p' = phase'
  BY DEF phase, Connecting, AddPending
<1>3. Init => Lifecycle!Init
  <2>1. Init => phase \in {"offline", "connecting"} /\ iSession = None
    BY DEF Init, phase
  <2> QED BY <1>1, <2>1 DEF Lifecycle!Init
<1>4. IInv /\ PatientInv /\ [Next]_vars => [Lifecycle!Next]_<<p, iSession>>
  <2> SUFFICES ASSUME IInv, PatientInv, [Next]_vars
               PROVE  Lifecycle!Next \/ UNCHANGED <<phase, iSession>>
    BY <1>1, <1>2
  <2> HIDE DEF p
  <2>1. ASSUME NEW t \in Loopers, Looper(t) PROVE Lifecycle!Next \/ UNCHANGED <<phase, iSession>>
    BY <1>1, <1>2, <2>1, LifecycleLogout DEF Looper, Lifecycle!Next, Lifecycle!Disconnect, p
  <2>2. CASE NetworkLoop
    BY <2>2, LifecycleNetwork DEF NetworkLoop
  <2>3. CASE WindowLoop
    BY <1>1, <1>2, <2>3, LifecycleWindow DEF WindowLoop, Lifecycle!Next, Lifecycle!Connect, p
  <2>4. ASSUME NEW h \in Handlers, Thread(h) PROVE Lifecycle!Next \/ UNCHANGED <<phase, iSession>>
    BY <1>1, <1>2, <2>4, LifecycleThread
       DEF Thread, Lifecycle!Next, Lifecycle!Fail, Lifecycle!Establish, p
  <2>5. CASE Undefined \/ Stopped \/ UNCHANGED vars
    <3>1. UNCHANGED <<iSession, nMail, hpc>>
      BY <2>5 DEF Undefined, DeadNetwork, StaleSession, Crash, Stopped, vars, sessionVars
    <3> QED BY <3>1 DEF phase, Connecting, AddPending
  <2>6. CASE UserActs
    <3>1. UNCHANGED <<iSession, nMail>>
      BY <2>6 DEF UserActs, User, sessionVars
    <3>2. \A g \in Handlers : hpc'[g] \in {"start", "login"} <=> hpc[g] \in {"start", "login"}
      BY <2>6 DEF UserActs, User, UserSetsStatus, UserQuits, DismissAlert, At, Goto, IInv, TypeOK
    <3> QED BY <3>1, <3>2 DEF phase, Connecting, AddPending
  <2> QED BY <2>1, <2>2, <2>3, <2>4, <2>5, <2>6 DEF Next
<1> QED
  BY <1>3, <1>4, Invariance, PatientInvariance, PTL DEF Spec, ImplementsLifecycle, Lifecycle!Spec, p
==============================================================================

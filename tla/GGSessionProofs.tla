---------------------------- MODULE GGSessionProofs ----------------------------
(***************************************************************************)
(* Proofs about a session of libgadu: its login (GGSession), for any set   *)
(* of login parameters and any number of sockets, and how it reads packets *)
(* (GGRecv), for headers and packets of any size and a stream that is cut  *)
(* anywhere.  The two have no variable in common.                          *)
(***************************************************************************)
EXTENDS GGSession, GGRecv, SequenceTheorems, FiniteSetTheorems, TLAPS

Alive == call \in {"login", "app"}
LoggedIn == state \in {"READING_REPLY", "CONNECTED"}

(***************************************************************************)
(* The inductive invariant adds where a session can be: what it keeps when *)
(* gg_login fails, where an asynchronous one gets to, and on which socket  *)
(* the login packet went.                                                  *)
(***************************************************************************)
Path ==
    /\ call = "none" => state = "IDLE" /\ fd = None /\ loginOn = {}
    /\ call = "login" /\ state = "IDLE" => fd = None
    /\ config.async => state \notin {"CONNECTING_HUB", "READING_DATA"}
    /\ config.async /\ state = "CONNECTING_GG" => server_addr = "server"

LoginPath ==
    /\ state \notin {"IDLE", "READING_REPLY", "CONNECTED"} => loginOn = {}
    /\ loginOn = {} \/ \E s \in 1..Len(peers) : loginOn = {s}
    /\ Alive => (password <=> loginOn = {})
    /\ LoggedIn => /\ loginOn # {} /\ fd \in loginOn \cup {None}
                   /\ \A s \in loginOn : peers[s] = "proxy" => s \in asked

IInv == TypeOK /\ NoSocketLost /\ ClosedOnce /\ Path /\ LoginPath
-------------------------------------------------------------------------------
\* One more socket: the others keep their numbers.
LEMMA OneMore ==
    ASSUME NEW to \in Peers, peers \in Seq(Peers)
    PROVE  /\ Append(peers, to) \in Seq(Peers)
           /\ Len(Append(peers, to)) = Len(peers) + 1
           /\ Len(peers) \in Nat
           /\ \A s \in 1..Len(peers) : Append(peers, to)[s] = peers[s]
  OBVIOUS

LEMMA InitInv == Init => IInv
<1> SUFFICES ASSUME Init PROVE IInv
  OBVIOUS
<1>1. peers \in Seq(Peers) /\ Len(peers) = 0
  BY DEF Init
<1>2. proxy_port \in BOOLEAN /\ password \in BOOLEAN /\ closedTwice \in BOOLEAN
  BY DEF Init
<1>3. fd \in 0..Len(peers) /\ open \subseteq 1..Len(peers) /\ asked \subseteq 1..Len(peers)
      /\ loginOn \subseteq 1..Len(peers)
  BY <1>1 DEF Init, None
<1>4. TypeOK
  BY <1>1, <1>2, <1>3 DEF Init, TypeOK, States, Events
<1> QED
  BY <1>4 DEF Init, IInv, NoSocketLost, ClosedOnce, Path, LoginPath, Alive, LoggedIn, None

\* A new socket in place of the one that was there, if there was one.
LEMMA ConnectedFacts ==
    ASSUME IInv, NEW to, to \in Peers \cup {"nowhere"}, Connected(to)
    PROVE  /\ peers' \in Seq(Peers)
           /\ Len(peers') = Len(peers) + 1 /\ Len(peers) \in Nat
           /\ fd' \in 1..Len(peers') /\ fd' # None
           /\ link' \in {"pending", "up"}
           /\ open \subseteq {fd} => open' = {fd'}
           /\ \A s \in 1..Len(peers) : peers'[s] = peers[s]
<1>1. to \in Peers /\ peers' = Append(peers, to) /\ fd' = Len(peers')
  BY DEF Connected
<1>2. peers \in Seq(Peers)
  BY DEF IInv, TypeOK
<1> QED BY <1>1, <1>2, OneMore DEF Connected, Closed, None

\* A failure that closes the socket, if there is one.
LEMMA FailedFacts ==
    ASSUME IInv, NEW f, f \in Events, Failed(f)
    PROVE  /\ event' \in Events /\ state' = "IDLE" /\ fd' = None /\ open' = {}
           /\ peers' = peers /\ proxy_port' = proxy_port /\ link' = link
  BY DEF IInv, NoSocketLost, Failed, Closed

LEMMA LoginInv ==
    ASSUME IInv, LoginFails \/ LoginSync \/ LoginAsync \/ LoginReturns
    PROVE  IInv'
<1> USE DEF IInv, None
<1>0. config \in ConfigType
  BY ConfigsAssumption DEF TypeOK
<1>1. CASE LoginFails
  BY <1>1 DEF LoginFails, sessionVars, TypeOK, NoSocketLost, ClosedOnce, Path, LoginPath,
              Alive, LoggedIn
<1>2. CASE LoginSync
  <2>1. PICK to \in {"server", "proxy", "hub"} : Connected(to)
    BY <1>2 DEF LoginSync
  <2>2. open = {} /\ loginOn = {} /\ state' \in {"CONNECTING_GG", "CONNECTING_HUB"}
    BY <1>2 DEF LoginSync, NoSocketLost, Path
  <2>3. /\ peers' \in Seq(Peers) /\ fd' \in 1..Len(peers') /\ fd' # None
        /\ link' \in {"pending", "up"} /\ open' = {fd'}
        /\ Len(peers') = Len(peers) + 1 /\ Len(peers) \in Nat
    BY <2>1, <2>2, ConnectedFacts DEF Peers
  <2>4. TypeOK'
    BY <1>2, <2>2, <2>3 DEF LoginSync, TypeOK, States
  <2> QED
    BY <1>0, <1>2, <2>2, <2>3, <2>4 DEF LoginSync, NoSocketLost, ClosedOnce, Path,
       LoginPath, Alive, LoggedIn
<1>3. CASE LoginAsync
  <2>1. open = {} /\ loginOn = {} /\ state' \in {"CONNECTING_GG", "RESOLVING"}
    BY <1>3 DEF LoginAsync, NoSocketLost, Path
  <2>2. /\ peers' \in Seq(Peers) /\ fd' \in 1..Len(peers') /\ fd' # None
        /\ link' \in {"pending", "up"} /\ open' = {fd'}
        /\ Len(peers') = Len(peers) + 1 /\ Len(peers) \in Nat
    <3>1. CASE Connected("server")
      BY <2>1, <3>1, ConnectedFacts DEF Peers
    <3>2. CASE /\ peers' = Append(peers, "resolver") /\ fd' = Len(peers')
               /\ open' = open \cup {fd'} /\ link' = "pending"
      BY <2>1, <3>2, OneMore DEF Peers, TypeOK
    <3> QED BY <1>3, <3>1, <3>2 DEF LoginAsync
  <2>3. TypeOK'
    BY <1>3, <2>1, <2>2 DEF LoginAsync, TypeOK, States
  <2>4. state' = "CONNECTING_GG" => server_addr' = "server"
    BY <1>3 DEF LoginAsync
  <2> QED
    BY <1>3, <2>1, <2>2, <2>3, <2>4 DEF LoginAsync, NoSocketLost, ClosedOnce, Path,
       LoginPath, Alive, LoggedIn
<1>4. CASE LoginReturns
  <2>1. TypeOK'
    BY <1>4 DEF LoginReturns, socketVars, TypeOK
  <2>2. CASE state = "CONNECTED" /\ call' = "app" /\ UNCHANGED password
    BY <1>4, <2>1, <2>2 DEF LoginReturns, socketVars, NoSocketLost, ClosedOnce, Path,
       LoginPath, Alive, LoggedIn
  <2>3. CASE state = "IDLE" /\ call' = "null" /\ password' = FALSE
    <3>1. fd = None /\ open = {}
      BY <1>4, <2>3 DEF LoginReturns, Path, NoSocketLost
    <3> QED
      BY <1>4, <2>1, <2>3, <3>1 DEF LoginReturns, socketVars, NoSocketLost, ClosedOnce, Path,
         LoginPath, Alive, LoggedIn
  <2> QED BY <1>4, <2>2, <2>3 DEF LoginReturns
<1> QED BY <1>1, <1>2, <1>3, <1>4

\* The socket that is watched is the one that is open.
LEMMA WatchingFacts ==
    ASSUME IInv, NEW s, Watching(s)
    PROVE  fd \in open /\ open = {fd} /\ fd \in 1..Len(peers) /\ Len(peers) \in Nat
  BY DEF IInv, TypeOK, Watching, NoSocketLost, None

\* A failure keeps the invariant, whatever it says.
LEMMA FailureInv ==
    ASSUME IInv, Alive, NEW f \in Events, Failed(f), Closes, fd \in open,
           UNCHANGED <<config, call, password, asked, loginOn>>,
           server_addr' \in {"none", "server", "nowhere"},
           outcome' \in {"none", "resolved", "unknown", "hub", "odd", "cut", "packet", "other",
                         "partial", "lost", "end"}
    PROVE  IInv'
<1>1. /\ event' \in Events /\ state' = "IDLE" /\ fd' = None /\ open' = {}
      /\ peers' = peers /\ proxy_port' = proxy_port /\ link' = link /\ call # "none"
  BY FailedFacts DEF Alive
<1>2. TypeOK'
  BY <1>1 DEF IInv, TypeOK, States, Closes, None
<1> QED
  BY <1>1, <1>2 DEF IInv, NoSocketLost, ClosedOnce, Closes, Path, LoginPath, Alive, LoggedIn

\* From the hub's state to the next connection: the one that was open is closed.
LEMMA LeaveHubInv ==
    ASSUME IInv, Watching("READING_DATA"), Closes,
           NEW to \in Peers \cup {"nowhere"}, NEW message \in {"none", "MSG"},
           LeaveHub(to, message),
           server_addr' \in {"none", "server", "nowhere"},
           outcome' \in {"hub", "odd", "cut"},
           UNCHANGED <<config, call, password, asked, loginOn>>
    PROVE  IInv'
<1>1. fd \in open /\ open = {fd} /\ Len(peers) \in Nat
  BY WatchingFacts
<1>2. Alive /\ state = "READING_DATA" /\ ~config.async /\ loginOn = {}
  BY DEF Watching, Alive, IInv, Path, LoginPath
<1>3. CASE Connected(to) /\ state' = "CONNECTING_GG" /\ event' = message /\ UNCHANGED proxy_port
  <2>1. /\ peers' \in Seq(Peers) /\ fd' \in 1..Len(peers') /\ fd' # None
        /\ link' \in {"pending", "up"} /\ open' = {fd'}
        /\ Len(peers') = Len(peers) + 1
    BY <1>1, <1>3, ConnectedFacts
  <2>2. TypeOK'
    BY <1>1, <1>3, <2>1 DEF IInv, TypeOK, States, Events, Closes, None
  <2> QED
    BY <1>1, <1>2, <1>3, <2>1, <2>2 DEF IInv, NoSocketLost, ClosedOnce, Closes, Path,
       LoginPath, Alive, LoggedIn
<1>4. CASE Failed("FAILURE_CONNECTING")
  BY <1>1, <1>2, <1>4, FailureInv DEF Events
<1> QED BY <1>3, <1>4 DEF LeaveHub

\* The key of the server comes next; a proxy may have been asked for it.
LEMMA SpeaksToInv ==
    ASSUME IInv, Alive, state = "CONNECTING_GG", SpeaksTo(fd'),
           fd' \in 1..Len(peers'), fd' # None, open' = {fd'}, peers' \in Seq(Peers),
           Len(peers') >= Len(peers), Len(peers) \in Nat, Len(peers') \in Nat,
           link' \in {"down", "pending", "up", "refused", "over"},
           ~closedTwice', closedTwice' \in BOOLEAN,
           UNCHANGED <<config, call, server_addr, password, outcome, loginOn>>
    PROVE  IInv'
<1>1. loginOn = {} /\ call # "none"
  BY DEF IInv, LoginPath, Alive
<1>2. /\ state' = "READING_KEY" /\ event' = "none" /\ proxy_port' \in BOOLEAN
      /\ asked' \subseteq asked \cup {fd'}
  BY DEF SpeaksTo
<1>3. TypeOK'
  BY <1>1, <1>2 DEF IInv, TypeOK, States, Events, None
<1> QED
  BY <1>1, <1>2, <1>3 DEF IInv, NoSocketLost, ClosedOnce, Path, LoginPath, Alive, LoggedIn

\* The states before the server is connected.
LEMMA WatchConnectingInv ==
    ASSUME IInv,
           \/ WatchResolving \/ WatchConnectingHub \/ WatchReadingData
           \/ WatchConnectingGG \/ WatchRefused
    PROVE  IInv'
<1>a. config \in ConfigType /\ server_addr \in {"none", "server", "nowhere"}
  BY ConfigsAssumption DEF IInv, TypeOK
<1>1. CASE WatchResolving
  <2>1. Watching("RESOLVING") /\ Alive
    BY <1>1 DEF WatchResolving, Watching, Alive
  <2>2. fd \in open
    BY <2>1, WatchingFacts
  <2> QED BY <1>a, <1>1, <2>1, <2>2, FailureInv DEF WatchResolving, Events
<1>2. CASE WatchConnectingHub
  <2>1. Watching("CONNECTING_HUB") /\ Alive /\ ~config.async /\ loginOn = {} /\ fd \in open
    BY <1>2, WatchingFacts DEF WatchConnectingHub, Watching, Alive, IInv, Path, LoginPath
  <2>2. CASE Failed("FAILURE_WRITING") /\ Closes /\ outcome' = "end"
    BY <1>a, <1>2, <2>1, <2>2, FailureInv DEF WatchConnectingHub, Events
  <2>3. CASE /\ state' = "READING_DATA" /\ event' = "none"
             /\ UNCHANGED <<fd, proxy_port, socketVars, outcome>>
    <3>1. TypeOK'
      BY <1>2, <2>3 DEF WatchConnectingHub, IInv, TypeOK, socketVars, States, Events
    <3> QED
      BY <1>2, <2>1, <2>3, <3>1 DEF WatchConnectingHub, IInv, socketVars, NoSocketLost,
         ClosedOnce, Path, LoginPath, Alive, LoggedIn
  <2> QED BY <1>2, <2>2, <2>3 DEF WatchConnectingHub
<1>3. CASE WatchReadingData
  <2>1. /\ Watching("READING_DATA") /\ Closes /\ Alive
        /\ UNCHANGED <<config, call, password, asked, loginOn>>
    BY <1>3 DEF WatchReadingData, Watching, Alive
  <2>2. proxy_addr # "none" => proxy_addr \in Peers
    BY DEF proxy_addr, Peers
  <2>3. CASE HubOdd /\ outcome' = "odd"
    <3>1. LeaveHub(IF HaveProxy THEN proxy_addr ELSE "direct", "none")
      BY <2>3 DEF HubOdd
    <3>2. (IF HaveProxy THEN proxy_addr ELSE "direct") \in Peers
      BY <2>2 DEF HaveProxy, Peers
    <3>3. server_addr' = server_addr
      BY <2>3 DEF HubOdd
    <3> QED BY <1>a, <2>1, <2>3, <3>1, <3>2, <3>3, LeaveHubInv
  <2>4. CASE HubNotOperating /\ outcome' = "hub"
    <3>1. Failed("FAILURE_UNAVAILABLE") /\ server_addr' = server_addr
      BY <2>4 DEF HubNotOperating
    <3>2. fd \in open
      BY <2>1, WatchingFacts
    <3> QED BY <1>a, <2>1, <2>4, <3>1, <3>2, FailureInv DEF Events
  <2>5. ASSUME NEW host \in {"server", "nowhere"}, NEW message \in {"none", "MSG"},
               HubNames(host, message), outcome' \in {"hub", "cut"}
        PROVE  IInv'
    <3>1. LeaveHub(IF HaveProxy /\ config.proxy = "full" THEN proxy_addr ELSE host, message)
      BY <2>5 DEF HubNames
    <3>2. (IF HaveProxy /\ config.proxy = "full" THEN proxy_addr ELSE host)
            \in Peers \cup {"nowhere"}
      BY <2>2 DEF HaveProxy, Peers
    <3>3. server_addr' = host
      BY <2>5 DEF HubNames
    <3> QED BY <2>1, <2>5, <3>1, <3>2, <3>3, LeaveHubInv
  <2> QED BY <1>3, <2>3, <2>4, <2>5 DEF WatchReadingData
<1>4. CASE WatchConnectingGG
  <2>1. /\ Watching("CONNECTING_GG") /\ Alive /\ fd \in open /\ open = {fd}
        /\ fd \in 1..Len(peers) /\ Len(peers) \in Nat /\ fd # None
    BY <1>4, WatchingFacts DEF WatchConnectingGG, Watching, Alive
  <2>2. CASE SpeaksTo(fd) /\ UNCHANGED <<fd, socketVars, outcome>>
    <3>1. /\ SpeaksTo(fd') /\ fd' = fd /\ peers' = peers /\ open' = open /\ link' = link
          /\ closedTwice' = closedTwice /\ outcome' = outcome
      BY <2>2 DEF socketVars
    <3>2. /\ peers \in Seq(Peers) /\ link \in {"down", "pending", "up", "refused", "over"}
          /\ ~closedTwice /\ closedTwice \in BOOLEAN
      BY DEF IInv, TypeOK, ClosedOnce
    <3> QED BY <1>4, <2>1, <3>1, <3>2, SpeaksToInv DEF WatchConnectingGG, Watching
  <2>3. CASE Failed("FAILURE_CONNECTING") /\ Closes /\ outcome' = "end" /\ UNCHANGED asked
    BY <1>a, <1>4, <2>1, <2>3, FailureInv DEF WatchConnectingGG, Events
  <2> QED BY <1>4, <2>2, <2>3 DEF WatchConnectingGG
<1>5. CASE WatchRefused
  <2>1. /\ Watching("CONNECTING_GG") /\ Alive /\ fd \in open /\ open = {fd}
        /\ Len(peers) \in Nat /\ server_addr = "server" /\ state = "CONNECTING_GG"
    BY <1>5, WatchingFacts DEF WatchRefused, Watching, Alive, IInv, Path
  <2>2. CASE Connected(server_addr) /\ SpeaksTo(fd')
    <3>1. server_addr \in Peers \cup {"nowhere"}
      BY <2>1 DEF Peers
    <3>2. /\ peers' \in Seq(Peers) /\ fd' \in 1..Len(peers') /\ fd' # None
          /\ link' \in {"pending", "up"} /\ open' = {fd'}
          /\ Len(peers') = Len(peers) + 1
      BY <2>1, <2>2, <3>1, ConnectedFacts
    <3>3. ~closedTwice' /\ closedTwice' \in BOOLEAN
      BY <1>5, <2>1 DEF WatchRefused, Closes, IInv, ClosedOnce
    <3> QED BY <1>5, <2>1, <2>2, <3>2, <3>3, SpeaksToInv DEF WatchRefused
  <2>3. CASE /\ event' = "FAILURE_CONNECTING" /\ state' = "IDLE" /\ fd' = None /\ open' = Closed
             /\ UNCHANGED <<proxy_port, peers, link, asked>>
    <3>1. Failed("FAILURE_CONNECTING")
      BY <2>3 DEF Failed
    <3>2. outcome \in {"none", "resolved", "unknown", "hub", "odd", "cut", "packet", "other",
                       "partial", "lost", "end"}
      BY DEF IInv, TypeOK
    <3> QED BY <1>a, <1>5, <2>1, <2>3, <3>1, <3>2, FailureInv DEF WatchRefused, Events
  <2> QED BY <1>5, <2>2, <2>3 DEF WatchRefused
<1> QED BY <1>1, <1>2, <1>3, <1>4, <1>5

\* The states in which the server is spoken to.
LEMMA WatchLoginInv ==
    ASSUME IInv,
           \/ WatchProxyReply \/ WatchWelcome \/ WatchNoKey \/ WatchLoginOK
           \/ WatchNoLogin \/ WatchConnected
    PROVE  IInv'
<1>a. server_addr \in {"none", "server", "nowhere"}
  BY DEF IInv, TypeOK
<1>1. CASE WatchProxyReply
  <2>1. state = "READING_KEY" /\ proxy_port' \in BOOLEAN
        /\ link' \in {"down", "pending", "up", "refused", "over"}
    BY <1>1 DEF WatchProxyReply, Watching
  <2>2. TypeOK'
    BY <1>1, <2>1 DEF WatchProxyReply, IInv, TypeOK, Events
  <2> QED
    BY <1>1, <2>1, <2>2 DEF WatchProxyReply, IInv, NoSocketLost, ClosedOnce, Path, LoginPath,
       Alive, LoggedIn
<1>2. CASE WatchWelcome
  <2>1. /\ Watching("READING_KEY") /\ fd \in 1..Len(peers) /\ Alive /\ loginOn = {}
        /\ fd # None /\ state = "READING_KEY"
    BY <1>2, WatchingFacts DEF WatchWelcome, Watching, Alive, IInv, LoginPath
  <2>2. loginOn' = {fd} /\ (peers[fd] = "proxy" => fd \in asked)
    BY <1>2, <2>1 DEF WatchWelcome, IsServer
  <2>3. link' \in {"down", "pending", "up", "refused", "over"}
    BY <1>2 DEF WatchWelcome, IInv, TypeOK
  <2>4. TypeOK'
    BY <1>2, <2>1, <2>2, <2>3 DEF WatchWelcome, IInv, TypeOK, States, Events
  <2> QED
    BY <1>2, <2>1, <2>2, <2>4 DEF WatchWelcome, IInv, NoSocketLost, ClosedOnce, Path,
       LoginPath, Alive, LoggedIn
<1>3. CASE WatchNoKey
  <2>1. Watching("READING_KEY") /\ Alive /\ fd \in open
    BY <1>3, WatchingFacts DEF WatchNoKey, Watching, Alive
  <2>2. CASE NoPacket /\ Failed("FAILURE_READING")
    BY <1>a, <1>3, <2>1, <2>2, FailureInv DEF WatchNoKey, NoPacket, Events
  <2>3. CASE outcome' = "other" /\ Failed("FAILURE_INVALID")
    BY <1>a, <1>3, <2>1, <2>3, FailureInv DEF WatchNoKey, Events
  <2> QED BY <1>3, <2>2, <2>3 DEF WatchNoKey
<1>4. CASE WatchLoginOK
  <2>1. TypeOK'
    BY <1>4 DEF WatchLoginOK, socketVars, IInv, TypeOK, States, Events
  <2>2. LoggedIn /\ Alive
    BY <1>4 DEF WatchLoginOK, Watching, LoggedIn, Alive
  <2> QED
    BY <1>4, <2>1, <2>2 DEF WatchLoginOK, socketVars, IInv, NoSocketLost, ClosedOnce, Path,
       LoginPath, Alive, LoggedIn
<1>5. CASE WatchNoLogin
  <2>1. Watching("READING_REPLY") /\ Alive /\ fd \in open
    BY <1>5, WatchingFacts DEF WatchNoLogin, Watching, Alive
  <2>2. CASE NoPacket /\ Failed("FAILURE_READING")
    BY <1>a, <1>5, <2>1, <2>2, FailureInv DEF WatchNoLogin, NoPacket, Events
  <2>3. ASSUME NEW f \in {"FAILURE_PASSWORD", "FAILURE_INTRUDER", "FAILURE_INVALID"},
               Failed(f), outcome' = "packet"
        PROVE  IInv'
    BY <1>a, <1>5, <2>1, <2>3, FailureInv DEF WatchNoLogin, Events
  <2> QED BY <1>5, <2>2, <2>3 DEF WatchNoLogin
<1>6. CASE WatchConnected
  <2>1. /\ event' \in Events /\ outcome' \in {"packet", "end"}
        /\ link' \in {"down", "pending", "up", "refused", "over"}
    BY <1>6 DEF WatchConnected, IInv, TypeOK, Events
  <2>2. TypeOK'
    BY <1>6, <2>1 DEF WatchConnected, sessionVars, IInv, TypeOK
  <2> QED
    BY <1>6, <2>2 DEF WatchConnected, sessionVars, IInv, NoSocketLost, ClosedOnce, Path,
       LoginPath, Alive, LoggedIn
<1> QED BY <1>1, <1>2, <1>3, <1>4, <1>5, <1>6

\* gg_logoff, gg_free_session and the network.
LEMMA OutsideInv ==
    ASSUME IInv, Logoff \/ Free \/ Settle
    PROVE  IInv'
<1>1. CASE Logoff
  <2>1. Alive /\ fd \in open /\ open' = {} /\ fd' = None
    BY <1>1 DEF Logoff, Alive, Closed, IInv, NoSocketLost
  <2>2. TypeOK'
    BY <1>1, <2>1 DEF Logoff, Closes, IInv, TypeOK, None
  <2> QED
    BY <1>1, <2>1, <2>2 DEF Logoff, Closes, IInv, NoSocketLost, ClosedOnce, Path, LoginPath,
       Alive, LoggedIn
<1>2. CASE Free
  <2>1. open' = {}
    BY <1>2 DEF Free, Closed, IInv, NoSocketLost
  <2>2. password' \in BOOLEAN /\ ~closedTwice' /\ closedTwice' \in BOOLEAN
    <3>1. CASE fd = None
      BY <1>2, <3>1 DEF Free, IInv, TypeOK, ClosedOnce
    <3>2. CASE fd # None
      <4>1. fd \in open
        BY <1>2, <3>2 DEF Free, IInv, NoSocketLost
      <4> QED BY <1>2, <3>2, <4>1 DEF Free, Closes, IInv, ClosedOnce
    <3> QED BY <3>1, <3>2
  <2>3. TypeOK'
    BY <1>2, <2>1, <2>2 DEF Free, IInv, TypeOK
  <2> QED
    BY <1>2, <2>1, <2>2, <2>3 DEF Free, IInv, NoSocketLost, ClosedOnce, Path, LoginPath, Alive,
       LoggedIn
<1>3. CASE Settle
  <2>1. link' \in {"up", "refused"}
    BY <1>3 DEF Settle
  <2>2. TypeOK'
    BY <1>3, <2>1 DEF Settle, sessionVars, IInv, TypeOK
  <2> QED
    BY <1>3, <2>2 DEF Settle, sessionVars, IInv, NoSocketLost, ClosedOnce, Path, LoginPath,
       Alive, LoggedIn
<1> QED BY <1>1, <1>2, <1>3

LEMMA NextInv == IInv /\ [Next]_vars => IInv'
<1> SUFFICES ASSUME IInv, [Next]_vars PROVE IInv'
  OBVIOUS
<1>1. CASE Next
  BY <1>1, LoginInv, WatchConnectingInv, WatchLoginInv, OutsideInv DEF Next, Watch
<1>2. CASE UNCHANGED vars
  <2>1. TypeOK'
    BY <1>2 DEF vars, sessionVars, socketVars, IInv, TypeOK
  <2> QED
    BY <1>2, <2>1 DEF vars, sessionVars, socketVars, IInv, NoSocketLost, ClosedOnce, Path,
       LoginPath, Alive, LoggedIn
<1> QED BY <1>1, <1>2
-------------------------------------------------------------------------------
\* The invariant holds in every state of the session.
THEOREM Invariance == Spec => []IInv
  BY InitInv, NextInv, PTL DEF Spec

\* The variables of the session keep their types (struct gg_session).
THEOREM TypeCorrect == Spec => []TypeOK
<1>1. IInv => TypeOK
  BY DEF IInv
<1> QED BY <1>1, Invariance, PTL

\* No way through gg_login and gg_watch_fd loses a socket, and none is open once
\* gg_login has failed or gg_free_session has run.
THEOREM SocketsKept == Spec => []NoSocketLost
<1>1. IInv => NoSocketLost
  BY DEF IInv
<1> QED BY <1>1, Invariance, PTL

\* gg_watch_fd, gg_logoff and gg_free_session close no descriptor twice.
THEOREM NoSecondClose == Spec => []ClosedOnce
<1>1. IInv => ClosedOnce
  BY DEF IInv
<1> QED BY <1>1, Invariance, PTL

\* The login packet is sent at most once, and the password is there until then
\* (READING_KEY of gg_watch_fd).
THEOREM LoginSentOnce == Spec => []LoginOnce
<1>1. ASSUME IInv PROVE LoginOnce
  <2>1. Cardinality(loginOn) <= 1
    <3>1. CASE loginOn = {}
      BY <3>1, FS_EmptySet
    <3>2. ASSUME NEW s, loginOn = {s} PROVE Cardinality(loginOn) <= 1
      BY <3>2, FS_Singleton
    <3> QED BY <1>1, <3>1, <3>2 DEF IInv, LoginPath
  <2> QED BY <1>1, <2>1 DEF IInv, LoginPath, LoginOnce, Alive
<1> QED BY <1>1, Invariance, PTL

\* CONNECTED means that the login packet went, once, over the connection that
\* the session still has, and not to a proxy that was not asked to connect.
THEOREM ConnectedMeansLoggedIn == Spec => []ConnectedIsLoggedIn
<1>1. ASSUME IInv PROVE ConnectedIsLoggedIn
  <2>1. loginOn # {} => Cardinality(loginOn) = 1
    BY <1>1, FS_Singleton DEF IInv, LoginPath
  <2> QED BY <1>1, <2>1 DEF IInv, LoginPath, ConnectedIsLoggedIn, LoggedIn
<1> QED BY <1>1, Invariance, PTL

\* Every socket that a login makes is closed once or is the session's.
THEOREM SocketsAreSound == Spec => []SocketsSound
  BY SocketsKept, NoSecondClose, PTL DEF SocketsSound

\* The login packet goes out once, to the right peer, before CONNECTED is said.
THEOREM LoginIsSound == Spec => []LoginSound
  BY LoginSentOnce, ConnectedMeansLoggedIn, PTL DEF LoginSound

--------------------------------------------------------------------------------
(***************************************************************************)
(* Reading packets: GGRecv.                                                *)
(***************************************************************************)

Packets == [at : Nat, length : Lengths]

(***************************************************************************)
(* The inductive invariant.  The stream is laid out packet after packet;   *)
(* until the first failure, the bytes of the packet that is being read are *)
(* the next bytes of the stream, in the place where the next call looks    *)
(* for them.                                                               *)
(***************************************************************************)
Layout ==
    /\ sent \in Seq(Packets)
    /\ \A k \in 1..Len(sent) :
         sent[k].at = IF k = 1 THEN 0 ELSE sent[k - 1].at + HeaderSize + sent[k - 1].length
    /\ arrived \in Nat /\ read \in Nat
    /\ read <= arrived /\ arrived <= Written

Returned ==
    /\ Len(received) \in 0..Len(sent)
    /\ received = [k \in 1..Len(received) |-> Content(sent[k])]

\* the first done bytes of a header's block
HeaderAt(block, done) == \A i \in 1..done : block[i] = Start + i

\* a block with the packet's header and the first done bytes of its body
BodyAt(block, done, left) ==
    /\ Len(received) < Len(sent)
    /\ done + left = sent[Len(received) + 1].length
    /\ block \in [header : Bytes(HeaderSize), body : Bytes(done + left)]
    /\ HeaderAt(block.header, HeaderSize)
    /\ \A i \in 1..done : block.body[i] = Start + HeaderSize + i

InHeader ==
    pc = "header" =>
        /\ header_buf = NULL /\ recv_left = 0
        /\ header_done \in 0..HeaderSize
        /\ h \in Bytes(HeaderSize)
        /\ HeaderAt(h, header_done)

InBody ==
    pc = "body" =>
        /\ header_buf = NULL
        /\ offset \in Nat /\ size \in Nat
        /\ BodyAt(buf, offset, size)

Between ==
    pc = "idle" =>
        /\ h \in Bytes(HeaderSize)
        /\ header_buf # NULL =>
             /\ recv_left = 0
             /\ header_done \in 0..HeaderSize
             /\ Len(header_buf) = 1
             /\ header_buf[1] \in Bytes(header_done)
             /\ HeaderAt(header_buf[1], header_done)
        /\ recv_left > 0 => recv_done \in Nat /\ BodyAt(recv_buf[1], recv_done, recv_left)

Sound ==
    /\ pc \in {"idle", "header", "body"}
    /\ recv_left \in Nat
    /\ ~freed
    /\ Returned
    /\ read = Start + Held
    /\ InHeader /\ InBody /\ Between

\* the counters, also after a failure
Counts == header_done \in Nat /\ recv_left \in Nat /\ size \in Nat

StreamInv == Layout /\ (failures = {} => Sound)

RecvInv == StreamInv /\ Counts
-------------------------------------------------------------------------------
LEMMA RecvInitInv == RecvInit => RecvInv
<1> SUFFICES ASSUME RecvInit PROVE RecvInv
  OBVIOUS
<1>1. Layout
  BY DEF RecvInit, Layout, Written
<1>2. Returned
  BY DEF RecvInit, Returned
<1>3. Start = 0 /\ Held = 0
  BY DEF RecvInit, Start, Held, Written, NULL
<1>4. InHeader /\ InBody /\ Between
  BY HeaderAssumption DEF RecvInit, InHeader, InBody, Between, NULL, Bytes, Unread
<1> QED BY <1>1, <1>2, <1>3, <1>4 DEF RecvInit, RecvInv, StreamInv, Counts, Sound

\* Where the stream ends and where the next packet starts are numbers.
LEMMA StartType ==
    ASSUME Layout
    PROVE  /\ HeaderSize \in Nat /\ Len(sent) \in Nat /\ Written \in Nat
           /\ \A k \in 1..Len(sent) : sent[k].at \in Nat /\ sent[k].length \in Nat
           /\ Returned => Start \in Nat
<1>1. HeaderSize \in Nat /\ Lengths \subseteq Nat
  BY HeaderAssumption, LengthsAssumption
<1>2. Len(sent) \in Nat /\ \A k \in 1..Len(sent) : sent[k] \in Packets
  BY LenProperties, ElementOfSeq DEF Layout
<1>3. \A k \in 1..Len(sent) : sent[k].at \in Nat /\ sent[k].length \in Nat
  BY <1>1, <1>2 DEF Packets
<1>4. sent # <<>> => Len(sent) \in 1..Len(sent)
  BY EmptySeq DEF Layout
<1>5. Written \in Nat
  BY <1>1, <1>3, <1>4 DEF Written
<1>6. Returned => Start \in Nat
  BY <1>2, <1>3, <1>5 DEF Returned, Start
<1> QED BY <1>1, <1>2, <1>3, <1>5, <1>6

\* A packet that is appended moves no other one.
LEMMA SendLayout ==
    ASSUME Layout, Send, UNCHANGED received
    PROVE  /\ Layout'
           /\ Len(sent') = Len(sent) + 1
           /\ \A k \in 1..Len(sent) : sent'[k] = sent[k]
           /\ Returned => Returned' /\ Start' = Start
<1>1. PICK l \in Lengths : sent' = Append(sent, [at |-> Written, length |-> l])
  BY DEF Send
<1> DEFINE p == [at |-> Written, length |-> l]
<1>2. Written \in Nat /\ Len(sent) \in Nat /\ HeaderSize \in Nat /\ l \in Nat
  BY StartType, LengthsAssumption
<1>3. p \in Packets
  BY <1>2 DEF Packets
<1>4. /\ sent' \in Seq(Packets) /\ Len(sent') = Len(sent) + 1 /\ sent'[Len(sent) + 1] = p
      /\ \A k \in 1..Len(sent) : sent'[k] = sent[k]
  BY <1>1, <1>3, AppendProperties DEF Layout
<1>5. Written' = Written + HeaderSize + l
  <2>1. sent' # <<>> /\ Len(sent') = Len(sent) + 1
    BY <1>1, <1>3, <1>4, AppendProperties DEF Layout
  <2> QED BY <1>2, <1>4, <2>1 DEF Written
<1>6. \A k \in 1..Len(sent') :
        sent'[k].at = IF k = 1 THEN 0
                      ELSE sent'[k - 1].at + HeaderSize + sent'[k - 1].length
  <2> SUFFICES ASSUME NEW k \in 1..Len(sent')
               PROVE  sent'[k].at = IF k = 1 THEN 0
                        ELSE sent'[k - 1].at + HeaderSize + sent'[k - 1].length
    OBVIOUS
  <2>1. CASE k \in 1..Len(sent)
    <3>1. k # 1 => k - 1 \in 1..Len(sent)
      BY <1>2, <2>1
    <3> QED BY <1>4, <2>1, <3>1 DEF Layout
  <2>2. CASE k = Len(sent) + 1
    <3>1. sent'[k].at = Written
      BY <1>4, <2>2
    <3>2. CASE Len(sent) = 0
      BY <2>2, <3>1, <3>2 DEF Written
    <3>3. CASE Len(sent) # 0
      <4>1. sent # <<>> /\ k # 1 /\ k - 1 = Len(sent) /\ Len(sent) \in 1..Len(sent)
        BY <1>2, <2>2, <3>3
      <4> QED BY <1>4, <3>1, <4>1 DEF Written
    <3> QED BY <3>2, <3>3
  <2> QED BY <1>2, <1>4, <2>1, <2>2
<1>7. Layout'
  BY <1>2, <1>4, <1>5, <1>6 DEF Layout, Send
<1>8. ASSUME Returned PROVE Returned' /\ Start' = Start
  <2>1. Len(received) \in 0..Len(sent)
    BY <1>8 DEF Returned
  <2>2. Start' = Start
    BY <1>2, <1>4, <1>8, <2>1 DEF Start
  <2>3. \A k \in 1..Len(received) : Content(sent'[k]) = Content(sent[k])
    BY <1>2, <1>4, <2>1
  <2>4. Returned'
    BY <1>2, <1>4, <1>8, <2>1, <2>3 DEF Returned
  <2> QED BY <2>2, <2>4
<1> QED BY <1>4, <1>7, <1>8

\* What is said of the stream and of the packets returned stays true where
\* neither changes.
LEMMA Frame ==
    ASSUME UNCHANGED <<sent, received>>
    PROVE  /\ Start' = Start /\ Written' = Written
           /\ Returned => Returned'
BY DEF Start, Written, Returned

LEMMA NetworkInv == RecvInv /\ Network => StreamInv'
<1> SUFFICES ASSUME RecvInv, Network PROVE StreamInv'
  OBVIOUS
<1> USE DEF RecvInv, StreamInv
<1>0. UNCHANGED <<structVars, callVars, received, failures>>
  BY DEF Network
<1>1. CASE Send
  <2>1. Layout' /\ (Returned => Returned' /\ Start' = Start)
    BY <1>0, <1>1, SendLayout
  <2>2. Len(sent') = Len(sent) + 1 /\ \A k \in 1..Len(sent) : sent'[k] = sent[k]
    BY <1>0, <1>1, SendLayout
  <2> SUFFICES ASSUME failures = {} PROVE Sound'
    BY <1>0, <2>1
  <2>3. Sound
    OBVIOUS
  <2>4. Start' = Start /\ Returned'
    BY <2>1, <2>3 DEF Sound
  <2>5. Len(received) \in 0..Len(sent) /\ Len(sent) \in Nat
    BY <2>3, StartType DEF Sound, Returned
  <2>6. InHeader'
    BY <1>0, <2>3, <2>4 DEF Sound, InHeader, HeaderAt, structVars, callVars
  <2>7. InBody'
    BY <1>0, <2>2, <2>3, <2>4, <2>5 DEF Sound, InBody, BodyAt, HeaderAt, structVars, callVars
  <2>8. Between'
    BY <1>0, <2>2, <2>3, <2>4, <2>5
    DEF Sound, Between, BodyAt, HeaderAt, structVars, callVars
  <2>9. read' = Start' + Held'
    BY <1>0, <1>1, <2>3, <2>4 DEF Sound, Held, Send, structVars, callVars
  <2> QED BY <1>0, <2>3, <2>4, <2>6, <2>7, <2>8, <2>9 DEF Sound, structVars, callVars
<1>2. CASE Arrive \/ Hangup
  <2>1. UNCHANGED <<sent, read>> /\ arrived' \in Nat /\ arrived <= arrived' /\ arrived' <= Written
    BY <1>2, StartType DEF Arrive, Hangup, Layout
  <2>2. Start' = Start /\ Written' = Written /\ (Returned => Returned')
    BY <1>0, <2>1, Frame
  <2>3. Layout'
    BY <2>1, <2>2 DEF Layout
  <2>4. failures = {} => Sound'
    BY <1>0, <2>1, <2>2
    DEF Sound, InHeader, InBody, Between, BodyAt, HeaderAt, Held, structVars, callVars
  <2> QED BY <1>0, <2>3, <2>4
<1> QED BY <1>1, <1>2 DEF Network

\* A call that fails says nothing more of the packets.
LEMMA FailsInv ==
    ASSUME RecvInv, UNCHANGED <<sent, arrived, read>>, NEW why, Fails(why)
    PROVE  StreamInv'
<1>1. failures' # {}
  BY DEF Fails
<1>2. Layout'
  BY DEF RecvInv, StreamInv, Layout, Written
<1> QED BY <1>1, <1>2 DEF RecvInv, StreamInv

LEMMA CallHeaderInv == RecvInv /\ CallHeader => StreamInv'
<1> SUFFICES ASSUME RecvInv, CallHeader PROVE StreamInv'
  OBVIOUS
<1>1. Start' = Start /\ Layout' /\ (Returned => Returned')
  BY Frame DEF CallHeader, streamVars, RecvInv, StreamInv, Layout
<1> SUFFICES ASSUME failures = {}, Sound PROVE Sound'
  BY <1>1 DEF RecvInv, StreamInv, CallHeader
<1>2. recv_left = 0 /\ pc = "idle" /\ h \in Bytes(HeaderSize)
  BY DEF CallHeader, Sound, Between
<1>3. HeaderSize \in Nat
  BY HeaderAssumption
<1>4. header_buf' = NULL
  BY DEF CallHeader
<1>5. CASE header_buf # NULL
  <2>1. /\ header_done \in 0..HeaderSize
        /\ header_buf[1] \in Bytes(header_done)
        /\ HeaderAt(header_buf[1], header_done)
    BY <1>2, <1>5 DEF Sound, Between
  <2>2. /\ h' = [i \in 1..HeaderSize |-> IF i <= header_done THEN header_buf[1][i] ELSE 0]
        /\ header_done' = header_done
    BY <1>5 DEF CallHeader
  <2>3. h' \in Bytes(HeaderSize)
    BY <1>3, <2>1, <2>2 DEF Bytes
  <2>4. \A i \in 1..header_done : h'[i] = Start + i
    BY <1>1, <1>3, <2>1, <2>2 DEF HeaderAt
  <2>5. Held' = Held
    BY <1>2, <1>5, <2>2 DEF Held, CallHeader
  <2> QED
    BY <1>1, <1>2, <1>4, <2>1, <2>2, <2>3, <2>4, <2>5
    DEF Sound, InHeader, InBody, Between, HeaderAt, CallHeader, streamVars
<1>6. CASE header_buf = NULL
  <2>1. header_done' = 0 /\ h' = h
    BY <1>6 DEF CallHeader
  <2>2. \A i \in 1..header_done' : h'[i] = Start + i
    BY <2>1 DEF HeaderAt
  <2>3. Held' = Held
    BY <1>2, <1>6, <2>1 DEF Held, CallHeader
  <2> QED
    BY <1>1, <1>2, <1>3, <1>4, <2>1, <2>2, <2>3
    DEF Sound, InHeader, InBody, Between, HeaderAt, CallHeader, streamVars
<1> QED BY <1>5, <1>6

LEMMA HeaderReadInv == RecvInv /\ HeaderRead => StreamInv'
<1> SUFFICES ASSUME RecvInv, HeaderRead PROVE StreamInv'
  OBVIOUS
<1>1. PICK n \in Gives(HeaderSize - header_done) :
        /\ h' = Fill(h, header_done, n)
        /\ header_done' = header_done + n
        /\ read' = read + n
  BY DEF HeaderRead
<1>2. Start' = Start /\ Written' = Written /\ (Returned => Returned')
  BY Frame DEF HeaderRead
<1>3. HeaderSize \in Nat /\ arrived \in Nat /\ read \in Nat
  BY HeaderAssumption DEF RecvInv, StreamInv, Layout
<1>4. n \in Nat /\ n <= arrived - read
  BY <1>1, <1>3 DEF Gives, RecvInv, Counts
<1>5. Layout'
  BY <1>1, <1>2, <1>3, <1>4 DEF HeaderRead, RecvInv, StreamInv, Layout
<1> SUFFICES ASSUME failures = {}, Sound PROVE Sound'
  BY <1>5 DEF RecvInv, StreamInv, HeaderRead
<1>6. /\ header_buf = NULL /\ recv_left = 0 /\ pc = "header"
      /\ header_done \in 0..HeaderSize /\ h \in Bytes(HeaderSize)
      /\ HeaderAt(h, header_done)
  BY DEF Sound, InHeader, HeaderRead
<1>7. n <= HeaderSize - header_done
  BY <1>1, <1>3, <1>6 DEF Gives
<1>8. Start \in Nat /\ read = Start + header_done
  BY <1>6, StartType DEF RecvInv, StreamInv, Sound, Held
<1>9. header_done' \in 0..HeaderSize
  BY <1>1, <1>3, <1>4, <1>6, <1>7
<1>10. h' \in Bytes(HeaderSize)
  BY <1>1, <1>3, <1>4, <1>6 DEF Fill, Bytes
<1>11. \A i \in 1..header_done' : h'[i] = Start + i
  <2> SUFFICES ASSUME NEW i \in 1..(header_done + n) PROVE h'[i] = Start + i
    BY <1>1, <1>2 DEF HeaderAt
  <2>1. i \in 1..HeaderSize /\ DOMAIN h = 1..HeaderSize
    BY <1>3, <1>4, <1>6, <1>7 DEF Bytes
  <2>2. CASE i <= header_done
    BY <1>1, <1>6, <2>1, <2>2 DEF Fill, HeaderAt
  <2>3. CASE i > header_done
    BY <1>1, <1>4, <1>6, <1>8, <2>1, <2>3 DEF Fill
  <2> QED BY <1>6, <2>2, <2>3
<1>12. read' = Start' + Held'
  BY <1>1, <1>2, <1>4, <1>6, <1>8 DEF Held, HeaderRead
<1> QED
  BY <1>2, <1>6, <1>9, <1>10, <1>11, <1>12
  DEF Sound, InHeader, InBody, Between, HeaderAt, HeaderRead, structVars

LEMMA HeaderAgainInv == RecvInv /\ HeaderAgain => StreamInv'
<1> SUFFICES ASSUME RecvInv, HeaderAgain PROVE StreamInv'
  OBVIOUS
<1>1. Start' = Start /\ Layout' /\ (Returned => Returned')
  BY Frame DEF HeaderAgain, streamVars, RecvInv, StreamInv, Layout
<1> SUFFICES ASSUME failures = {}, Sound PROVE Sound'
  BY <1>1 DEF RecvInv, StreamInv, HeaderAgain
<1>2. /\ header_buf = NULL /\ recv_left = 0 /\ pc = "header"
      /\ header_done \in 0..HeaderSize /\ h \in Bytes(HeaderSize)
      /\ HeaderAt(h, header_done)
  BY DEF Sound, InHeader, HeaderAgain
<1>3. HeaderSize \in Nat
  BY HeaderAssumption
<1>4. header_buf' = <<[i \in 1..header_done |-> h[i]]>>
  BY DEF HeaderAgain
<1>5. header_buf'[1] \in Bytes(header_done) /\ \A i \in 1..header_done : header_buf'[1][i] = Start + i
  BY <1>1, <1>2, <1>3, <1>4 DEF Bytes, HeaderAt
<1>6. header_buf' # NULL /\ Len(header_buf') = 1
  BY <1>4 DEF NULL
<1>7. h' \in Bytes(HeaderSize)
  BY <1>3 DEF HeaderAgain, Returns, Bytes, Unread
<1>8. read' = Start' + Held'
  BY <1>1, <1>2, <1>6 DEF Sound, Held, HeaderAgain, Returns, streamVars
<1> QED
  BY <1>1, <1>2, <1>5, <1>6, <1>7, <1>8
  DEF Sound, InHeader, InBody, Between, HeaderAt, HeaderAgain, Returns, streamVars

\* A whole header says the length of the packet that it belongs to.
LEMMA HeaderDoneInv == RecvInv /\ HeaderDone => StreamInv'
<1> SUFFICES ASSUME RecvInv, HeaderDone PROVE StreamInv'
  OBVIOUS
<1>1. PICK length \in Claimed :
        IF TooLong(length)
        THEN Fails("range")
        ELSE /\ pc' = "body"
             /\ buf' = [header |-> h, body |-> Unread(length)]
             /\ offset' = 0 /\ size' = length
             /\ UNCHANGED <<h, received, failures>>
  BY DEF HeaderDone
<1>2. UNCHANGED <<streamVars, structVars>> /\ pc = "header" /\ header_done = HeaderSize
  BY DEF HeaderDone
<1>3. CASE TooLong(length)
  BY <1>1, <1>2, <1>3, FailsInv DEF streamVars
<1>4. CASE ~TooLong(length)
  <2>1. /\ pc' = "body" /\ buf' = [header |-> h, body |-> Unread(length)]
        /\ offset' = 0 /\ size' = length
        /\ UNCHANGED <<h, received, failures>>
    BY <1>1, <1>4
  <2>2. Start' = Start /\ Layout' /\ (Returned => Returned')
    BY <1>2, <2>1, Frame DEF streamVars, RecvInv, StreamInv, Layout
  <2> SUFFICES ASSUME failures = {}, Sound PROVE Sound'
    BY <2>1, <2>2 DEF RecvInv, StreamInv
  <2>3. /\ header_buf = NULL /\ recv_left = 0
        /\ h \in Bytes(HeaderSize) /\ \A i \in 1..HeaderSize : h[i] = Start + i
    BY <1>2 DEF Sound, InHeader, HeaderAt
  <2>4. read = Start + HeaderSize /\ read \in Nat /\ read <= Written /\ Start \in Nat
    BY <1>2, StartType DEF Sound, Held, RecvInv, StreamInv, Layout
  <2>5. Len(received) < Len(sent)
    <3>1. Len(received) \in 0..Len(sent) /\ Len(sent) \in Nat
      BY StartType DEF Sound, Returned, RecvInv, StreamInv
    <3>2. Len(received) # Len(sent)
      BY <2>4, HeaderAssumption DEF Start
    <3> QED BY <3>1, <3>2
  <2> DEFINE k == Len(received) + 1
  <2>6. k \in DOMAIN sent /\ sent[k].at = Start /\ Len(received) # Len(sent)
    <3>1. DOMAIN sent = 1..Len(sent) /\ Len(sent) \in Nat /\ Len(received) \in 0..Len(sent)
      BY StartType, LenProperties DEF Sound, Returned, RecvInv, StreamInv, Layout
    <3> QED BY <2>5, <3>1 DEF Start
  <2>7. length = sent[k].length /\ length \in Nat
    BY <1>1, <2>3, <2>6, LengthsAssumption DEF Claimed, IsHeader
  <2>8. BodyAt(buf, offset, size)'
    <3>1. buf'.header = h /\ buf'.body = Unread(length) /\ offset' + size' = length
      BY <2>1, <2>7
    <3>2. buf' \in [header : Bytes(HeaderSize), body : Bytes(length)]
      BY <2>1, <2>3 DEF Bytes, Unread
    <3>3. UNCHANGED <<sent, received>>
      BY <1>2, <2>1 DEF streamVars
    <3>4. /\ (Len(received) < Len(sent))'
          /\ offset' + size' = sent'[Len(received') + 1].length
      BY <2>5, <2>7, <3>1, <3>3
    <3>5. HeaderAt(buf.header, HeaderSize)'
      BY <2>2, <2>3, <3>1 DEF HeaderAt
    <3> QED BY <2>1, <3>1, <3>2, <3>4, <3>5 DEF BodyAt
  <2>9. read' = Start' + Held'
    BY <1>2, <2>1, <2>2, <2>4, HeaderAssumption DEF Held, streamVars
  <2> QED
    BY <1>2, <2>1, <2>2, <2>3, <2>7, <2>8, <2>9
    DEF Sound, InHeader, InBody, Between, structVars
<1> QED BY <1>3, <1>4

LEMMA CallBodyInv == RecvInv /\ CallBody => StreamInv'
<1> SUFFICES ASSUME RecvInv, CallBody PROVE StreamInv'
  OBVIOUS
<1>1. UNCHANGED <<streamVars, structVars>> /\ pc = "idle" /\ recv_left > 0
  BY DEF CallBody
<1>2. CASE Fails("range")
  BY <1>1, <1>2, FailsInv DEF streamVars
<1>3. CASE /\ pc' = "body"
           /\ buf' = recv_buf[1] /\ size' = recv_left /\ offset' = recv_done
           /\ UNCHANGED <<h, received, failures>>
  <2>1. Start' = Start /\ Layout' /\ (Returned => Returned')
    BY <1>1, <1>3, Frame DEF streamVars, RecvInv, StreamInv, Layout
  <2> SUFFICES ASSUME failures = {}, Sound PROVE Sound'
    BY <1>3, <2>1 DEF RecvInv, StreamInv
  <2>2. header_buf = NULL /\ recv_done \in Nat /\ BodyAt(recv_buf[1], recv_done, recv_left)
    BY <1>1 DEF Sound, Between
  <2>3. BodyAt(buf, offset, size)'
    BY <1>1, <1>3, <2>1, <2>2 DEF BodyAt, HeaderAt, streamVars
  <2>4. read' = Start' + Held'
    BY <1>1, <1>3, <2>1, <2>2 DEF Sound, Held, streamVars
  <2> QED
    BY <1>1, <1>3, <2>1, <2>2, <2>3, <2>4
    DEF Sound, InHeader, InBody, Between, structVars
<1> QED BY <1>2, <1>3 DEF CallBody

LEMMA BodyReadInv == RecvInv /\ BodyRead => StreamInv'
<1> SUFFICES ASSUME RecvInv, BodyRead PROVE StreamInv'
  OBVIOUS
<1>1. PICK n \in Gives(size) :
        /\ buf' = [buf EXCEPT !.body = Fill(@, offset, n)]
        /\ offset' = offset + n
        /\ size' = size - n
        /\ read' = read + n
  BY DEF BodyRead
<1>2. Start' = Start /\ Written' = Written /\ (Returned => Returned')
  BY Frame DEF BodyRead
<1>3. HeaderSize \in Nat /\ arrived \in Nat /\ read \in Nat /\ size \in Nat
  BY HeaderAssumption DEF RecvInv, StreamInv, Layout, Counts
<1>4. n \in Nat /\ n <= arrived - read /\ n <= size
  BY <1>1, <1>3 DEF Gives
<1>5. Layout'
  BY <1>1, <1>2, <1>3, <1>4 DEF BodyRead, RecvInv, StreamInv, Layout
<1> SUFFICES ASSUME failures = {}, Sound PROVE Sound'
  BY <1>5 DEF RecvInv, StreamInv, BodyRead
<1>6. header_buf = NULL /\ pc = "body" /\ offset \in Nat /\ BodyAt(buf, offset, size)
  BY DEF Sound, InBody, BodyRead
<1>7. Start \in Nat /\ read = Start + HeaderSize + offset
  BY <1>3, <1>6, StartType DEF RecvInv, StreamInv, Sound, Held
<1>8. /\ buf'.header = buf.header
      /\ buf'.body = Fill(buf.body, offset, n)
      /\ buf' \in [header : Bytes(HeaderSize), body : {Fill(buf.body, offset, n)}]
  BY <1>1, <1>6 DEF BodyAt
<1>9. DOMAIN buf.body = 1..(offset + size) /\ offset' + size' = offset + size
  BY <1>1, <1>3, <1>4, <1>6 DEF BodyAt, Bytes
<1>10. Fill(buf.body, offset, n) \in Bytes(offset + size)
  <2>1. \A i \in 1..(offset + size) : buf.body[i] \in Nat
    BY <1>6 DEF BodyAt, Bytes
  <2>2. \A i \in 1..(offset + size) : i \in (offset + 1)..(offset + n) => read + (i - offset) \in Nat
    BY <1>3, <1>6
  <2> QED BY <1>9, <2>1, <2>2 DEF Fill, Bytes
<1>11. \A i \in 1..offset' : buf'.body[i] = Start + HeaderSize + i
  <2> SUFFICES ASSUME NEW i \in 1..(offset + n) PROVE buf'.body[i] = Start + HeaderSize + i
    BY <1>1
  <2>1. i \in DOMAIN buf.body
    BY <1>3, <1>4, <1>6, <1>9
  <2>2. CASE i <= offset
    BY <1>6, <1>8, <2>1, <2>2 DEF Fill, BodyAt
  <2>3. CASE i > offset
    BY <1>3, <1>4, <1>6, <1>7, <1>8, <2>1, <2>3 DEF Fill
  <2> QED BY <1>6, <2>2, <2>3
<1>12. BodyAt(buf, offset, size)'
  <2>1. UNCHANGED <<sent, received>>
    BY DEF BodyRead
  <2>2. HeaderAt(buf.header, HeaderSize)'
    BY <1>2, <1>6, <1>8 DEF BodyAt, HeaderAt
  <2> QED BY <1>2, <1>6, <1>8, <1>9, <1>10, <1>11, <2>1, <2>2 DEF BodyAt
<1>13. offset' \in Nat /\ size' \in Nat
  BY <1>1, <1>3, <1>4, <1>6
<1>14. read' = Start' + Held'
  BY <1>1, <1>2, <1>3, <1>4, <1>6, <1>7 DEF Held, BodyRead
<1> QED
  BY <1>2, <1>6, <1>12, <1>13, <1>14
  DEF Sound, InHeader, InBody, Between, BodyRead, structVars

LEMMA BodyAgainInv == RecvInv /\ BodyAgain => StreamInv'
<1> SUFFICES ASSUME RecvInv, BodyAgain PROVE StreamInv'
  OBVIOUS
<1>1. Start' = Start /\ Layout' /\ (Returned => Returned')
  BY Frame DEF BodyAgain, streamVars, RecvInv, StreamInv, Layout
<1> SUFFICES ASSUME failures = {}, Sound PROVE Sound'
  BY <1>1 DEF RecvInv, StreamInv, BodyAgain
<1>2. /\ pc = "body" /\ size > 0 /\ size \in Nat
      /\ header_buf = NULL /\ offset \in Nat /\ BodyAt(buf, offset, size)
  BY DEF BodyAgain, Sound, InBody
<1>3. recv_buf'[1] = buf /\ recv_left' = size /\ recv_done' = offset
  BY DEF BodyAgain
<1>4. pc' = "idle" /\ header_buf' = NULL
  BY <1>2 DEF BodyAgain, Returns
<1>5. h' \in Bytes(HeaderSize)
  BY HeaderAssumption DEF BodyAgain, Returns, Bytes, Unread
<1>6. BodyAt(recv_buf[1], recv_done, recv_left)'
  BY <1>1, <1>2, <1>3 DEF BodyAt, HeaderAt, BodyAgain, streamVars
<1>7. read' = Start' + Held'
  BY <1>1, <1>2, <1>3, <1>4 DEF Sound, Held, BodyAgain, streamVars
<1> QED
  BY <1>1, <1>2, <1>3, <1>4, <1>5, <1>6, <1>7
  DEF Sound, InHeader, InBody, Between, BodyAgain

\* What a call returns is the packet that comes next in the stream.
LEMMA BodyDoneReturns ==
    ASSUME RecvInv, BodyDone, failures = {}
    PROVE  /\ Len(received) < Len(sent)
           /\ received' = Append(received, Content(sent[Len(received) + 1]))
<1>1. Sound /\ pc = "body" /\ size = 0 /\ received' = Append(received, buf)
  BY DEF RecvInv, StreamInv, BodyDone
<1>2. offset \in Nat /\ BodyAt(buf, offset, 0)
  BY <1>1 DEF Sound, InBody
<1> DEFINE p == sent[Len(received) + 1]
<1>3. Len(received) < Len(sent) /\ offset = p.length
  BY <1>2 DEF BodyAt
<1>4. Start = p.at
  BY <1>1, <1>3, StartType DEF Start, Sound, Returned, RecvInv, StreamInv
<1>5. buf \in [header : Bytes(HeaderSize), body : Bytes(p.length)]
  BY <1>2, <1>3 DEF BodyAt
<1>6. buf.header = [i \in 1..HeaderSize |-> p.at + i]
  BY <1>2, <1>4, <1>5 DEF BodyAt, HeaderAt, Bytes
<1>7. buf.body = [i \in 1..p.length |-> p.at + HeaderSize + i]
  BY <1>2, <1>3, <1>4, <1>5 DEF BodyAt, Bytes
<1>8. buf = Content(p)
  BY <1>5, <1>6, <1>7 DEF Content
<1> QED BY <1>1, <1>3, <1>8

LEMMA BodyDoneInv == RecvInv /\ BodyDone => StreamInv'
<1> SUFFICES ASSUME RecvInv, BodyDone PROVE StreamInv'
  OBVIOUS
<1>1. UNCHANGED <<streamVars, header_buf, freed, failures>> /\ recv_left' = 0
  BY DEF BodyDone
<1>2. Layout' /\ Written' = Written
  BY <1>1 DEF Written, streamVars, RecvInv, StreamInv, Layout
<1> SUFFICES ASSUME failures = {}, Sound PROVE Sound'
  BY <1>1, <1>2 DEF RecvInv, StreamInv
<1> DEFINE k == Len(received) + 1
<1>3. k <= Len(sent) /\ received' = Append(received, Content(sent[k]))
  BY BodyDoneReturns, StartType DEF Sound, Returned, RecvInv, StreamInv
<1>4. /\ Len(received) \in Nat /\ Len(sent) \in Nat /\ k \in 1..Len(sent)
      /\ received = [j \in 1..Len(received) |-> Content(sent[j])]
  BY <1>3, StartType DEF Sound, Returned, RecvInv, StreamInv
<1>5. Len(received') = k /\ received' = [j \in 1..k |-> Content(sent[j])]
  <2> HIDE DEF k
  <2>1. received \in Seq({Content(sent[j]) : j \in 1..Len(sent)})
    BY <1>3, <1>4 DEF k
  <2>2. Content(sent[k]) \in {Content(sent[j]) : j \in 1..Len(sent)}
    BY <1>4
  <2> DEFINE S == {Content(sent[j]) : j \in 1..Len(sent)}
  <2> HIDE DEF S
  <2>3. /\ Append(received, Content(sent[k])) \in Seq(S)
        /\ Len(Append(received, Content(sent[k]))) = Len(received) + 1
        /\ \A j \in 1..Len(received) : Append(received, Content(sent[k]))[j] = received[j]
        /\ Append(received, Content(sent[k]))[Len(received) + 1] = Content(sent[k])
    BY <2>1, <2>2, AppendProperties DEF S
  <2>4. received' \in Seq(S) /\ Len(received') = k
    BY <1>3, <2>3 DEF k
  <2>5. \A j \in 1..k : received'[j] = Content(sent[j])
    <3> SUFFICES ASSUME NEW j \in 1..k PROVE received'[j] = Content(sent[j])
      OBVIOUS
    <3>1. CASE j = k
      BY <1>3, <2>3, <3>1 DEF k
    <3>2. CASE j # k
      <4>1. j \in 1..Len(received)
        BY <1>4, <3>2 DEF k
      <4> QED BY <1>3, <1>4, <2>3, <4>1
    <3> QED BY <3>1, <3>2
  <2>6. received' = [j \in 1..k |-> received'[j]]
    BY <2>4, LenProperties
  <2> QED BY <2>4, <2>5, <2>6
<1>6. Returned'
  BY <1>1, <1>4, <1>5 DEF Returned, streamVars
<1>7. Start' = Start + HeaderSize + sent[k].length
  <2>1. Start = sent[k].at /\ HeaderSize \in Nat
    BY <1>4, StartType DEF Start, RecvInv, StreamInv
  <2>2. CASE k = Len(sent)
    <3>1. sent # <<>>
      BY <1>4
    <3>2. Start' = Written
      BY <1>1, <1>2, <1>5, <2>2 DEF Start, streamVars
    <3> QED BY <2>1, <2>2, <3>1, <3>2 DEF Written
  <2>3. CASE k # Len(sent)
    <3>1. k + 1 \in 1..Len(sent) /\ k + 1 # 1 /\ (k + 1) - 1 = k
      BY <1>4, <2>3
    <3>2. Start' = sent[k + 1].at
      BY <1>1, <1>5, <2>3 DEF Start, streamVars
    <3>3. sent[k + 1].at = sent[k].at + HeaderSize + sent[k].length
      BY <3>1 DEF RecvInv, StreamInv, Layout
    <3> QED BY <2>1, <3>2, <3>3
  <2> QED BY <2>2, <2>3
<1>8. pc' = "idle" /\ pc = "body" /\ size = 0 /\ header_buf' = NULL /\ offset = sent[k].length
  BY DEF BodyDone, Returns, Sound, InBody, BodyAt
<1>9. read' = Start' + Held'
  BY <1>1, <1>4, <1>7, <1>8, StartType DEF Sound, Held, streamVars, RecvInv, StreamInv
<1>10. h' \in Bytes(HeaderSize)
  BY HeaderAssumption DEF BodyDone, Returns, Bytes, Unread
<1> QED
  BY <1>1, <1>6, <1>8, <1>9, <1>10 DEF Sound, InHeader, InBody, Between

LEMMA FailuresInv == RecvInv /\ (HeaderFails \/ BodyFails) => StreamInv'
<1> SUFFICES ASSUME RecvInv, HeaderFails \/ BodyFails PROVE StreamInv'
  OBVIOUS
<1>1. UNCHANGED <<sent, arrived, read>> /\ (Fails("end") \/ Fails("error"))
  BY DEF HeaderFails, BodyFails
<1> QED BY <1>1, FailsInv

\* No step makes a counter negative.
LEMMA CountsInv == RecvInv /\ RecvNext => Counts'
<1> SUFFICES ASSUME RecvInv, RecvNext PROVE Counts'
  OBVIOUS
<1>1. /\ HeaderSize \in Nat /\ arrived \in Nat /\ read \in Nat
      /\ header_done \in Nat /\ recv_left \in Nat /\ size \in Nat
  BY HeaderAssumption DEF RecvInv, StreamInv, Layout, Counts
<1>2. CASE Network
  BY <1>1, <1>2 DEF Network, structVars, callVars, Counts
<1>3. CASE CallHeader
  BY <1>1, <1>3 DEF CallHeader, Counts
<1>4. CASE HeaderRead
  BY <1>1, <1>4 DEF HeaderRead, Gives, Counts
<1>5. CASE HeaderAgain \/ HeaderFails
  BY <1>1, <1>5 DEF HeaderAgain, HeaderFails, Fails, Returns, structVars, Counts
<1>6. CASE HeaderDone
  BY <1>1, <1>6, LengthsAssumption
  DEF HeaderDone, Claimed, Fails, Returns, structVars, Counts
<1>7. CASE CallBody
  BY <1>1, <1>7 DEF CallBody, Fails, Returns, structVars, Counts
<1>8. CASE BodyRead
  BY <1>1, <1>8 DEF BodyRead, Gives, structVars, Counts
<1>9. CASE BodyAgain \/ BodyFails \/ BodyDone
  BY <1>1, <1>9 DEF BodyAgain, BodyFails, BodyDone, Fails, Returns, Counts
<1> QED
  BY <1>2, <1>3, <1>4, <1>5, <1>6, <1>7, <1>8, <1>9 DEF RecvNext, Reader

LEMMA RecvNextInv == RecvInv /\ [RecvNext]_recvVars => RecvInv'
<1> SUFFICES ASSUME RecvInv, [RecvNext]_recvVars PROVE RecvInv'
  OBVIOUS
<1>1. CASE RecvNext
  <2>1. Counts'
    BY <1>1, CountsInv
  <2>2. StreamInv'
    BY <1>1, NetworkInv, CallHeaderInv, HeaderReadInv, HeaderAgainInv, HeaderDoneInv,
       CallBodyInv, BodyReadInv, BodyAgainInv, BodyDoneInv, FailuresInv
    DEF RecvNext, Reader
  <2> QED BY <2>1, <2>2 DEF RecvInv
<1>2. CASE UNCHANGED recvVars
  BY <1>2, Frame
  DEF recvVars, streamVars, structVars, callVars, RecvInv, StreamInv, Layout, Counts, Sound,
      Held, InHeader, InBody, Between, BodyAt, HeaderAt
<1> QED BY <1>1, <1>2

\* However reads are cut, the invariant holds.
THEOREM RecvInvariance == RecvSpec => []RecvInv
BY RecvInitInv, RecvNextInv, PTL DEF RecvSpec

\* No byte is lost between two calls: until a call fails, what was read from
\* the socket is what was returned and what the session and the call hold.
THEOREM NoByteLost == RecvSpec => []NothingLost
<1>1. RecvInv => NothingLost
  BY StartType DEF RecvInv, StreamInv, Sound, Returned, NothingLost
<1> QED BY <1>1, RecvInvariance, PTL

-------------------------------------------------------------------------------
(***************************************************************************)
(* The refinement: a step is a Send, a Receive or a Break of PacketStream, *)
(* or nothing that it sees.                                                *)
(***************************************************************************)
Contents == [k \in DOMAIN sent |-> Content(sent[k])]
seen == <<Contents, received, failures # {}>>

\* Everything but Send leaves the packets sent alone, and only BodyDone returns one.
LEMMA Unseen ==
    /\ UNCHANGED sent => Contents' = Contents
    /\ RecvNext => UNCHANGED sent \/ (Send /\ UNCHANGED <<received, failures>>)
    /\ RecvNext => UNCHANGED <<received, failures>> \/ BodyDone
               \/ \E why : Fails(why) /\ UNCHANGED sent
<1>1. UNCHANGED sent => Contents' = Contents
  BY DEF Contents
<1>2. ASSUME Network
      PROVE  /\ UNCHANGED sent \/ (Send /\ UNCHANGED <<received, failures>>)
             /\ UNCHANGED <<received, failures>>
  BY <1>2 DEF Network, Arrive, Hangup
<1>3. ASSUME CallHeader \/ HeaderRead \/ HeaderAgain \/ BodyRead \/ BodyAgain
      PROVE  UNCHANGED <<sent, received, failures>>
  BY <1>3 DEF CallHeader, HeaderRead, HeaderAgain, BodyRead, BodyAgain, streamVars
<1>4. ASSUME HeaderFails \/ BodyFails PROVE UNCHANGED sent /\ \E why : Fails(why)
  BY <1>4 DEF HeaderFails, BodyFails
<1>5. ASSUME HeaderDone
      PROVE  UNCHANGED sent /\ (UNCHANGED <<received, failures>> \/ Fails("range"))
  BY <1>5 DEF HeaderDone, streamVars
<1>6. ASSUME CallBody
      PROVE  UNCHANGED sent /\ (UNCHANGED <<received, failures>> \/ Fails("range"))
  BY <1>6 DEF CallBody, streamVars
<1>7. BodyDone => UNCHANGED sent
  BY DEF BodyDone, streamVars
<1> QED BY <1>1, <1>2, <1>3, <1>4, <1>5, <1>6, <1>7 DEF RecvNext, Reader

\* However the stream is cut, the packets returned are those sent, whole and
\* in order, up to the first failure.
THEOREM Refinement == RecvSpec => ImplementsPacketStream
<1>1. RecvInit => Stream!Init
  BY DEF RecvInit, Stream!Init
<1>2. RecvInv /\ [RecvNext]_recvVars => [Stream!Next]_seen
  <2> SUFFICES ASSUME RecvInv, [RecvNext]_recvVars PROVE Stream!Next \/ UNCHANGED seen
    BY DEF seen
  <2>1. CASE UNCHANGED recvVars
    BY <2>1, Unseen DEF recvVars, streamVars, seen
  <2>2. CASE Send /\ UNCHANGED <<received, failures>>
    <3>1. /\ Len(sent') = Len(sent) + 1 /\ Len(sent) \in Nat
          /\ \A k \in 1..Len(sent) : sent'[k] = sent[k]
          /\ DOMAIN sent = 1..Len(sent) /\ DOMAIN sent' = 1..Len(sent')
      BY <2>2, SendLayout, StartType, LenProperties DEF RecvInv, StreamInv, Layout
    <3>2. /\ Contents = [k \in 1..Len(sent) |-> Content(sent[k])]
          /\ Contents' = [k \in 1..(Len(sent) + 1) |-> Content(sent'[k])]
      BY <3>1 DEF Contents
    <3>3. Len(Contents) = Len(sent) /\ Len(Contents') = Len(sent) + 1
      BY <3>1, <3>2
    <3>4. SubSeq(Contents', 1, Len(Contents)) = Contents
      BY <3>1, <3>2, <3>3
    <3> QED BY <2>2, <3>1, <3>3, <3>4 DEF Stream!Next, Stream!Send, Contents
  <2>3. CASE BodyDone
    <3>1. UNCHANGED <<sent, failures>> /\ Contents' = Contents
      BY <2>3, Unseen DEF BodyDone, streamVars
    <3>2. CASE failures # {}
      BY <2>3, <3>1, <3>2 DEF BodyDone, seen
    <3>3. CASE failures = {}
      <4>1. /\ Len(received) < Len(sent)
            /\ received' = Append(received, Content(sent[Len(received) + 1]))
        BY <2>3, <3>3, BodyDoneReturns
      <4>2. Len(received) \in Nat /\ Len(sent) \in Nat /\ DOMAIN sent = 1..Len(sent)
        BY <3>3, StartType, LenProperties DEF RecvInv, StreamInv, Sound, Returned, Layout
      <4>3. Contents[Len(received) + 1] = Content(sent[Len(received) + 1])
        BY <4>1, <4>2 DEF Contents
      <4>4. Len(Contents) = Len(sent)
        BY <4>2 DEF Contents
      <4> QED BY <3>1, <3>3, <4>1, <4>3, <4>4 DEF Stream!Next, Stream!Receive, Contents
    <3> QED BY <3>2, <3>3
  <2>4. ASSUME NEW why, Fails(why), UNCHANGED sent PROVE Stream!Next
    <3>1. failures' # {} /\ UNCHANGED received
      BY <2>4 DEF Fails
    <3> QED BY <2>4, <3>1, Unseen DEF Stream!Next, Stream!Break, Contents
  <2>5. CASE UNCHANGED <<sent, received, failures>>
    BY <2>5, Unseen DEF seen
  <2> QED BY <2>1, <2>2, <2>3, <2>4, <2>5, Unseen
<1> QED
  BY <1>1, <1>2, RecvInvariance, PTL DEF RecvSpec, ImplementsPacketStream, Stream!Spec, seen, Contents

-------------------------------------------------------------------------------
(***************************************************************************)
(* The blocks, also after a failure: each is as long as what was read into *)
(* it and what is left, and one that was freed gets nothing more, since    *)
(* the error that freed it has left the socket empty for good.             *)
(***************************************************************************)
Sizes == Lengths \cup {0}
Block(l) == [header : Bytes(HeaderSize), body : Bytes(l)]
Blocks == [header : Bytes(HeaderSize), body : UNION {Bytes(l) : l \in Sizes}]

CallOk ==
    /\ pc \in {"idle", "header", "body"} /\ h \in Bytes(HeaderSize)
    /\ offset \in Nat /\ size \in Nat
    /\ \E l \in Sizes : buf \in Block(l) /\ (pc = "body" => offset + size = l)
    /\ received \in Seq(Blocks) /\ failures \subseteq {"end", "error", "range"}

KeptOk ==
    /\ header_done \in 0..HeaderSize
    /\ header_buf # NULL =>
         pc # "header" /\ Len(header_buf) = 1 /\ header_buf[1] \in Bytes(header_done)
    /\ recv_left \in Nat /\ recv_done \in Nat
    /\ recv_left > 0 => recv_buf # NULL /\ pc # "header"
    /\ recv_buf # NULL =>
         /\ Len(recv_buf) = 1
         /\ \E l \in Sizes : recv_buf[1] \in Block(l) /\ (recv_left > 0 => recv_done + recv_left = l)

FreedOk ==
    /\ conn \in {"open", "closed", "reset", "dead"} /\ (conn = "dead" => read = arrived)
    /\ freed \in BOOLEAN
    /\ freed => conn = "dead" /\ recv_left > 0 /\ (pc = "body" => size > 0)

Safe == CallOk /\ KeptOk /\ FreedOk

\* What lengths and counters are.
LEMMA Numbers ==
    ASSUME RecvInv
    PROVE  HeaderSize \in Nat /\ HeaderSize > 0 /\ Sizes \subseteq Nat
           /\ arrived \in Nat /\ read \in Nat /\ read <= arrived
BY HeaderAssumption, LengthsAssumption DEF RecvInv, StreamInv, Layout, Sizes

\* Nothing has been read, and there is no block but an empty one.
LEMMA InitSafe == RecvInit => Safe
<1> SUFFICES ASSUME RecvInit PROVE Safe
  OBVIOUS
<1>1. Unread(HeaderSize) \in Bytes(HeaderSize) /\ Unread(0) \in Bytes(0) /\ 0 \in Sizes
  BY HeaderAssumption DEF Unread, Bytes, Sizes
<1>2. NoRead \in Block(0)
  BY <1>1 DEF NoRead, Block
<1>3. CallOk
  BY <1>1, <1>2 DEF RecvInit, CallOk
<1>4. KeptOk
  BY HeaderAssumption DEF RecvInit, KeptOk
<1>5. FreedOk
  BY DEF RecvInit, FreedOk
<1> QED BY <1>3, <1>4, <1>5 DEF Safe

\* A call that returns leaves no block of its own.
LEMMA ReturnsSafe ==
    ASSUME RecvInv, Safe, Returns, received' \in Seq(Blocks), failures' \subseteq {"end", "error", "range"}
    PROVE  CallOk' /\ pc' = "idle"
<1>1. Unread(HeaderSize) \in Bytes(HeaderSize) /\ Unread(0) \in Bytes(0) /\ 0 \in Sizes
  BY HeaderAssumption DEF Unread, Bytes, Sizes
<1>2. NoRead \in Block(0)
  BY <1>1 DEF NoRead, Block
<1> QED BY <1>1, <1>2 DEF Returns, CallOk

\* The bytes that are read stay inside the block.
LEMMA FillType ==
    ASSUME NEW l \in Nat, NEW b \in Bytes(l), NEW done \in Nat, NEW n \in Nat, read \in Nat
    PROVE  Fill(b, done, n) \in Bytes(l)
<1>1. DOMAIN b = 1..l /\ \A i \in 1..l : b[i] \in Nat
  BY DEF Bytes
<1>2. \A i \in 1..l : i \in (done + 1)..(done + n) => read + (i - done) \in Nat
  OBVIOUS
<1> QED BY <1>1, <1>2 DEF Fill, Bytes

\* The server and the network change no block; what has died stays dead.
LEMMA NetworkSafe == RecvInv /\ Safe /\ Network => Safe'
<1> SUFFICES ASSUME RecvInv, Safe, Network PROVE Safe'
  OBVIOUS
<1>1. UNCHANGED <<structVars, callVars, received, failures>>
  BY DEF Network
<1>2. CallOk' /\ KeptOk'
  BY <1>1 DEF Safe, CallOk, KeptOk, structVars, callVars
<1>3. FreedOk'
  BY <1>1 DEF Safe, FreedOk, structVars, callVars, Network, Send, Arrive, Hangup
<1> QED BY <1>2, <1>3 DEF Safe

\* A header that was cut is taken up again.
LEMMA CallHeaderSafe == RecvInv /\ Safe /\ CallHeader => Safe'
<1> SUFFICES ASSUME RecvInv, Safe, CallHeader PROVE Safe'
  OBVIOUS
<1> USE Numbers
<1>1. /\ pc = "idle" /\ pc' = "header" /\ recv_left = 0 /\ header_buf' = NULL
      /\ UNCHANGED <<sent, arrived, read, conn, buf, offset, size, recv_buf, recv_left, recv_done,
                     freed, received, failures>>
  BY DEF CallHeader, Safe, KeptOk, streamVars, NULL
<1>2. h' \in Bytes(HeaderSize) /\ header_done' \in 0..HeaderSize
  <2>1. CASE header_buf # NULL
    <3>1. header_buf[1] \in Bytes(header_done) /\ header_done \in 0..HeaderSize
      BY <2>1 DEF Safe, KeptOk
    <3>2. \A i \in 1..HeaderSize : (IF i <= header_done THEN header_buf[1][i] ELSE 0) \in Nat
      BY <3>1 DEF Bytes
    <3> QED BY <2>1, <3>1, <3>2 DEF CallHeader, Bytes
  <2>2. CASE header_buf = NULL
    BY <2>2 DEF CallHeader, Safe, CallOk
  <2> QED BY <2>1, <2>2
<1>3. CallOk'
  BY <1>1, <1>2 DEF Safe, CallOk
<1>4. KeptOk'
  BY <1>1, <1>2 DEF Safe, KeptOk
<1>5. FreedOk'
  BY <1>1 DEF Safe, FreedOk
<1> QED BY <1>3, <1>4, <1>5 DEF Safe

\* More of a header is read.
LEMMA HeaderReadSafe == RecvInv /\ Safe /\ HeaderRead => Safe'
<1> SUFFICES ASSUME RecvInv, Safe, HeaderRead PROVE Safe'
  OBVIOUS
<1> USE Numbers
<1>1. PICK n \in Gives(HeaderSize - header_done) :
        h' = Fill(h, header_done, n) /\ header_done' = header_done + n /\ read' = read + n
  BY DEF HeaderRead
<1>2. /\ pc = "header" /\ header_done \in 0..HeaderSize
      /\ UNCHANGED <<sent, arrived, conn, header_buf, recv_buf, recv_left, recv_done, freed, pc,
                     buf, offset, size, received, failures>>
  BY DEF HeaderRead, Safe, KeptOk
<1>3. n \in Nat /\ n <= HeaderSize - header_done /\ n > 0 /\ n <= arrived - read
  BY <1>1, <1>2 DEF Gives
<1>4. h' \in Bytes(HeaderSize)
  BY <1>1, <1>2, <1>3, FillType DEF Safe, CallOk
<1>5. CallOk'
  BY <1>2, <1>4 DEF Safe, CallOk
<1>6. KeptOk'
  BY <1>1, <1>2, <1>3 DEF Safe, KeptOk
<1>7. FreedOk'
  BY <1>2, <1>3 DEF Safe, FreedOk, KeptOk
<1> QED BY <1>5, <1>6, <1>7 DEF Safe

\* A header that is not complete is kept.
LEMMA HeaderAgainSafe == RecvInv /\ Safe /\ HeaderAgain => Safe'
<1> SUFFICES ASSUME RecvInv, Safe, HeaderAgain PROVE Safe'
  OBVIOUS
<1> USE Numbers
<1> DEFINE part == [i \in 1..header_done |-> h[i]]
<1>1. /\ pc = "header" /\ header_buf' = <<part>> /\ Returns
      /\ UNCHANGED <<sent, arrived, read, conn, header_done, recv_buf, recv_left, recv_done, freed,
                     received, failures>>
  BY DEF HeaderAgain, streamVars
<1>2. part \in Bytes(header_done)
  <2>1. header_done \in 0..HeaderSize /\ h \in Bytes(HeaderSize)
    BY DEF Safe, CallOk, KeptOk
  <2>2. \A i \in 1..header_done : h[i] \in Nat
    BY <2>1 DEF Bytes
  <2> QED BY <2>2 DEF Bytes
<1> HIDE DEF part
<1>3. CallOk' /\ pc' = "idle"
  BY <1>1, ReturnsSafe DEF Safe, CallOk
<1>4. KeptOk'
  BY <1>1, <1>2, <1>3 DEF Safe, KeptOk
<1>5. FreedOk'
  BY <1>1, <1>3 DEF Safe, FreedOk
<1> QED BY <1>3, <1>4, <1>5 DEF Safe

\* A header is complete: the packet's block is as long as it says.
LEMMA HeaderDoneSafe == RecvInv /\ Safe /\ HeaderDone => Safe'
<1> SUFFICES ASSUME RecvInv, Safe, HeaderDone PROVE Safe'
  OBVIOUS
<1> USE Numbers
<1>1. /\ pc = "header" /\ recv_left = 0
      /\ UNCHANGED <<sent, arrived, read, conn, header_buf, header_done, recv_buf, recv_left,
                     recv_done, freed>>
  BY DEF HeaderDone, streamVars, structVars, Safe, KeptOk
<1>2. CASE Fails("range")
  <2>1. CallOk' /\ pc' = "idle"
    BY <1>2, ReturnsSafe DEF Fails, Safe, CallOk
  <2> QED BY <1>1, <2>1 DEF Safe, KeptOk, FreedOk
<1>3. ASSUME NEW length \in Claimed, pc' = "body",
             buf' = [header |-> h, body |-> Unread(length)],
             offset' = 0, size' = length, UNCHANGED <<h, received, failures>>
      PROVE  Safe'
  <2>1. length \in Lengths /\ length \in Sizes /\ length \in Nat
    BY LengthsAssumption DEF Claimed, Sizes
  <2>2. Unread(length) \in Bytes(length)
    BY DEF Unread, Bytes
  <2>3. buf' \in Block(length)
    BY <1>3, <2>2 DEF Block, Safe, CallOk
  <2>4. CallOk'
    BY <1>3, <2>1, <2>3 DEF Safe, CallOk
  <2>5. KeptOk' /\ FreedOk'
    BY <1>1, <1>3 DEF Safe, KeptOk, FreedOk
  <2> QED BY <2>4, <2>5 DEF Safe
<1> QED BY <1>2, <1>3 DEF HeaderDone

\* A packet that was cut is taken up again.
LEMMA CallBodySafe == RecvInv /\ Safe /\ CallBody => Safe'
<1> SUFFICES ASSUME RecvInv, Safe, CallBody PROVE Safe'
  OBVIOUS
<1> USE Numbers
<1>1. /\ pc = "idle" /\ recv_left > 0
      /\ UNCHANGED <<sent, arrived, read, conn, header_buf, header_done, recv_buf, recv_left,
                     recv_done, freed>>
  BY DEF CallBody, streamVars, structVars
<1>2. CASE Fails("range")
  <2>1. CallOk' /\ pc' = "idle"
    BY <1>2, ReturnsSafe DEF Fails, Safe, CallOk
  <2> QED BY <1>1, <2>1 DEF Safe, KeptOk, FreedOk
<1>3. CASE /\ pc' = "body"
           /\ buf' = recv_buf[1] /\ size' = recv_left /\ offset' = recv_done
           /\ UNCHANGED <<h, received, failures>>
  <2>1. CallOk'
    BY <1>1, <1>3 DEF Safe, CallOk, KeptOk
  <2>2. KeptOk' /\ FreedOk'
    BY <1>1, <1>3 DEF Safe, KeptOk, FreedOk
  <2> QED BY <2>1, <2>2 DEF Safe
<1> QED BY <1>2, <1>3 DEF CallBody

\* More of a packet is read; not into a block that was freed.
LEMMA BodyReadSafe == RecvInv /\ Safe /\ BodyRead => Safe'
<1> SUFFICES ASSUME RecvInv, Safe, BodyRead PROVE Safe'
  OBVIOUS
<1> USE Numbers
<1>1. PICK n \in Gives(size) :
        /\ buf' = [buf EXCEPT !.body = Fill(@, offset, n)]
        /\ offset' = offset + n /\ size' = size - n /\ read' = read + n
  BY DEF BodyRead
<1>2. /\ pc = "body" /\ offset \in Nat /\ size \in Nat
      /\ UNCHANGED <<sent, arrived, conn, header_buf, header_done, recv_buf, recv_left, recv_done,
                     freed, pc, h, received, failures>>
  BY DEF BodyRead, Safe, CallOk, structVars
<1>3. n \in Nat /\ n <= size /\ n > 0 /\ n <= arrived - read
  BY <1>1, <1>2 DEF Gives
<1>4. PICK l \in Sizes : buf \in Block(l) /\ offset + size = l
  BY <1>2 DEF Safe, CallOk
<1>5. buf' \in Block(l)
  <2>1. Fill(buf.body, offset, n) \in Bytes(l)
    BY <1>2, <1>3, <1>4, FillType DEF Block
  <2> QED BY <1>1, <1>4, <2>1 DEF Block
<1>6. offset' + size' = l /\ offset' \in Nat /\ size' \in Nat
  BY <1>1, <1>2, <1>3, <1>4
<1>7. CallOk'
  BY <1>2, <1>5, <1>6 DEF Safe, CallOk
<1>8. KeptOk'
  BY <1>2 DEF Safe, KeptOk
<1>9. FreedOk'
  BY <1>2, <1>3 DEF Safe, FreedOk
<1> QED BY <1>7, <1>8, <1>9 DEF Safe

\* A packet that is not complete is kept.
LEMMA BodyAgainSafe == RecvInv /\ Safe /\ BodyAgain => Safe'
<1> SUFFICES ASSUME RecvInv, Safe, BodyAgain PROVE Safe'
  OBVIOUS
<1> USE Numbers
<1>1. /\ pc = "body" /\ size > 0 /\ conn # "dead" /\ Returns
      /\ recv_buf' = <<buf>> /\ recv_left' = size /\ recv_done' = offset
      /\ UNCHANGED <<sent, arrived, read, conn, header_buf, header_done, freed, received, failures>>
  BY DEF BodyAgain, Empty, streamVars
<1>2. CallOk' /\ pc' = "idle"
  BY <1>1, ReturnsSafe DEF Safe, CallOk
<1>3. PICK l \in Sizes : buf \in Block(l) /\ offset + size = l
  BY <1>1 DEF Safe, CallOk
<1>4. recv_buf' # NULL /\ Len(recv_buf') = 1 /\ recv_buf'[1] \in Block(l)
  BY <1>1, <1>3 DEF NULL
<1>5. KeptOk'
  BY <1>1, <1>2, <1>3, <1>4 DEF Safe, CallOk, KeptOk
<1>6. FreedOk'
  BY <1>1, <1>2 DEF Safe, FreedOk
<1> QED BY <1>2, <1>5, <1>6 DEF Safe

\* A packet is complete.
LEMMA BodyDoneSafe == RecvInv /\ Safe /\ BodyDone => Safe'
<1> SUFFICES ASSUME RecvInv, Safe, BodyDone PROVE Safe'
  OBVIOUS
<1> USE Numbers
<1>1. /\ pc = "body" /\ size = 0 /\ recv_left' = 0 /\ Returns
      /\ received' = (IF failures = {} THEN Append(received, buf) ELSE received)
      /\ UNCHANGED <<sent, arrived, read, conn, header_buf, header_done, recv_buf, recv_done, freed,
                     failures>>
  BY DEF BodyDone, streamVars
<1>2. received' \in Seq(Blocks)
  <2>1. buf \in Blocks
    BY DEF Safe, CallOk, Block, Blocks
  <2> QED BY <1>1, <2>1, AppendProperties DEF Safe, CallOk
<1>3. CallOk' /\ pc' = "idle"
  BY <1>1, <1>2, ReturnsSafe DEF Safe, CallOk
<1>4. KeptOk'
  BY <1>1, <1>3 DEF Safe, KeptOk
<1>5. FreedOk'
  BY <1>1, <1>3 DEF Safe, FreedOk
<1> QED BY <1>3, <1>4, <1>5 DEF Safe

\* A read fails: the error that frees the block leaves the connection dead.
LEMMA FailuresSafe == RecvInv /\ Safe /\ (HeaderFails \/ BodyFails) => Safe'
<1> SUFFICES ASSUME RecvInv, Safe, HeaderFails \/ BodyFails PROVE Safe'
  OBVIOUS
<1>1. /\ Returns /\ UNCHANGED received /\ failures' \subseteq {"end", "error", "range"}
      /\ UNCHANGED <<sent, arrived, read, header_buf, header_done, recv_buf, recv_left, recv_done>>
  BY DEF HeaderFails, BodyFails, Fails, Safe, CallOk, structVars
<1>2. CallOk' /\ pc' = "idle"
  BY <1>1, ReturnsSafe DEF Safe, CallOk
<1>3. KeptOk'
  BY <1>1, <1>2 DEF Safe, KeptOk
<1>4. FreedOk'
  <2>1. CASE HeaderFails
    BY <1>1, <1>2, <2>1 DEF HeaderFails, Safe, FreedOk, Broken, structVars
  <2>2. CASE UNCHANGED <<conn, freed>>
    BY <1>1, <1>2, <2>2 DEF Safe, FreedOk
  <2>3. CASE Broken /\ conn' = "dead" /\ freed' = (freed \/ recv_left > 0)
    <3>1. read' = arrived'
      BY <1>1, <2>3 DEF Broken
    <3>2. freed' \in BOOLEAN /\ (freed' => freed \/ recv_left > 0)
      BY <2>3
    <3>3. freed' => recv_left' > 0
      BY <1>1, <3>2 DEF Safe, FreedOk
    <3> QED BY <1>2, <2>3, <3>1, <3>2, <3>3 DEF FreedOk
  <2> QED BY <2>1, <2>2, <2>3 DEF BodyFails
<1> QED BY <1>2, <1>3, <1>4 DEF Safe

\* Whatever fails and however often the program calls again, every block is as
\* long as its counters say.
THEOREM BlocksAreSafe == RecvSpec => []Safe
<1>1. RecvInv /\ Safe /\ [RecvNext]_recvVars => Safe'
  <2>1. RecvInv /\ Safe /\ RecvNext => Safe'
    BY NetworkSafe, CallHeaderSafe, HeaderReadSafe, HeaderAgainSafe, HeaderDoneSafe, CallBodySafe,
       BodyReadSafe, BodyAgainSafe, BodyDoneSafe, FailuresSafe
    DEF RecvNext, Reader
  <2>2. Safe /\ UNCHANGED recvVars => Safe'
    BY DEF Safe, CallOk, KeptOk, FreedOk, recvVars, streamVars, structVars, callVars
  <2> QED BY <2>1, <2>2
<1> QED BY <1>1, InitSafe, RecvInvariance, PTL DEF RecvSpec

\* gg_recv_packet: every variable of a call and of the session has its type.
THEOREM RecvTypeCorrect == RecvSpec => []RecvTypeOK
<1>1. ASSUME NEW b \in Blocks PROVE IsBlock(b)
  BY DEF Blocks, IsBlock, Sizes
<1>2. ASSUME NEW l \in Sizes, NEW b \in Block(l) PROVE IsBlock(b)
  BY DEF Block, IsBlock, Sizes
<1>3. RecvInv /\ Safe => RecvTypeOK
  <2> SUFFICES ASSUME RecvInv, Safe PROVE RecvTypeOK
    OBVIOUS
  <2>1. sent \in Seq([at : Nat, length : Lengths]) /\ arrived \in Nat /\ read \in Nat
    BY DEF RecvInv, StreamInv, Layout, Packets
  <2>2. IsBlock(buf) /\ (recv_buf # NULL => Len(recv_buf) = 1 /\ IsBlock(recv_buf[1]))
    BY <1>2 DEF Safe, CallOk, KeptOk
  <2>3. \A i \in DOMAIN received : IsBlock(received[i])
    BY <1>1, ElementOfSeq, LenProperties DEF Safe, CallOk
  <2> QED BY <2>1, <2>2, <2>3 DEF RecvTypeOK, Safe, CallOk, KeptOk, FreedOk
<1> QED BY <1>3, RecvInvariance, BlocksAreSafe, PTL

\* gg_recv_packet never reads beyond the block it was given, whatever the
\* header claims and however often the packet is taken up again.
THEOREM NoOverrun == RecvSpec => []InBounds
<1>1. ASSUME NEW l \in Nat, NEW f \in Bytes(l) PROVE Len(f) = l
  BY <1>1 DEF Bytes
<1>2. ASSUME NEW l \in Sizes, NEW b \in Block(l) PROVE Len(b.body) = l
  <2>1. b.body \in Bytes(l) /\ l \in Nat
    BY LengthsAssumption DEF Block, Sizes
  <2> QED BY <1>1, <2>1
<1>3. Safe => InBounds
  <2> SUFFICES ASSUME Safe PROVE InBounds
    OBVIOUS
  <2>1. pc = "body" => offset + size = Len(buf.body)
    BY <1>2 DEF Safe, CallOk
  <2>2. recv_left > 0 => recv_done + recv_left = Len(recv_buf[1].body)
    BY <1>2 DEF Safe, KeptOk
  <2> QED BY <2>1, <2>2 DEF InBounds
<1> QED BY <1>3, BlocksAreSafe, PTL

\* gg_recv_packet after a read error: the block that was freed is not returned.
THEOREM NoFreedPacket == RecvSpec => []FreedIsNotReturned
<1>1. Safe => FreedIsNotReturned
  BY DEF Safe, CallOk, FreedOk, FreedIsNotReturned
<1> QED BY <1>1, BlocksAreSafe, PTL

\* gg_recv_packet: over any number of calls, cuts and failures, bytes are read
\* once and into blocks that hold them, and what was freed is not returned.
THEOREM ReadsSound == RecvSpec => []ReadsAreSound
BY NoByteLost, NoOverrun, NoFreedPacket, PTL DEF ReadsAreSound

================================================================================

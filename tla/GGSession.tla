------------------------------- MODULE GGSession -------------------------------
(***************************************************************************)
(* A session of libgadu from gg_login to gg_free_session: the state        *)
(* machine of gg_watch_fd, run by gg_login itself (synchronous) or by the  *)
(* application when select says so (asynchronous).                         *)
(*                                                                         *)
(* One action is one case of gg_watch_fd.  What a peer says is chosen when *)
(* it is read.  TLS and threads are not compiled in (libgadu-config.h);    *)
(* memory never runs out; bind to any address never fails.                 *)
(***************************************************************************)
EXTENDS Naturals, Sequences, FiniteSets

CONSTANT Configs  \* parameters of gg_login and the proxy settings

ConfigType == [async : BOOLEAN, proxy : {"none", "full", "http_only"}, server : BOOLEAN]
ASSUME ConfigsAssumption == Configs \subseteq ConfigType

VARIABLES
    config,
    call,         \* who has the session: gg_login, the application, nobody
    state, fd, proxy_port, server_addr, password,  \* struct gg_session
    event,        \* what gg_watch_fd returned last
    outcome,      \* history: what the last read or write on a socket met
    peers,        \* where each socket ever made leads to
    open,         \* the sockets that are open
    link,         \* state of the connection of fd
    closedTwice,  \* history: a socket was closed that was not open
    asked,        \* history: sockets on which a proxy was asked to connect
    loginOn       \* history: sockets on which the login packet was sent

sessionVars == <<state, fd, proxy_port, server_addr, password>>
socketVars  == <<peers, open, link, closedTwice>>
vars == <<config, call, sessionVars, event, outcome, socketVars, asked, loginOn>>

None == 0

Init ==
    /\ config \in Configs
    /\ call = "none"
    /\ state = "IDLE" /\ fd = None
    /\ proxy_port = FALSE /\ server_addr = "none" /\ password = FALSE
    /\ event = "none" /\ outcome = "none"
    /\ peers = <<>> /\ open = {} /\ link = "down" /\ closedTwice = FALSE
    /\ asked = {} /\ loginOn = {}

\* proxy_addr: gg_login stores the address it connects to, whatever it is
proxy_addr == IF config.proxy = "none" THEN "none" ELSE IF config.server THEN "server" ELSE "proxy"
HaveProxy == proxy_addr # "none" /\ proxy_port

-------------------------------------------------------------------------------
(***************************************************************************)
(* Sockets.                                                                *)
(***************************************************************************)
Closes == closedTwice' = (closedTwice \/ fd \notin open)
Closed == open \ {fd}

\* gg_connect gives a socket; the one before was closed
Connected(to) ==
    /\ to # "nowhere"
    /\ peers' = Append(peers, to)
    /\ fd' = Len(peers')
    /\ open' = Closed \cup {fd'}
    /\ link' = IF config.async THEN "pending" ELSE "up"

MutFailed(failure) ==
    /\ event' = failure
    /\ fd' = None
    /\ open' = Closed
    /\ UNCHANGED <<state, proxy_port, peers, link>>

\* fail_connecting, fail_resolving, fail_unavailable and the like, after the
\* socket was closed
Failed(failure) ==
    /\ event' = failure
    /\ state' = "IDLE"
    /\ fd' = None
    /\ open' = Closed
    /\ UNCHANGED <<proxy_port, peers, link>>

-------------------------------------------------------------------------------
(***************************************************************************)
(* gg_login.                                                               *)
(***************************************************************************)
LoginFails ==
    /\ call = "none" /\ call' = "null"
    /\ UNCHANGED <<config, sessionVars, event, outcome, peers, open, link, closedTwice, asked,
                   loginOn>>

LoginSync ==
    /\ call = "none" /\ ~config.async
    /\ call' = "login"
    /\ password' = TRUE
    /\ proxy_port' = (config.proxy # "none")
    /\ server_addr' = IF config.server THEN "server" ELSE "none"
    /\ IF config.server
       THEN Connected("server") /\ state' = "CONNECTING_GG"
       ELSE /\ Connected(IF config.proxy # "none" THEN "proxy" ELSE "hub")
            /\ state' = "CONNECTING_HUB"
    /\ UNCHANGED <<config, event, outcome, closedTwice, asked, loginOn>>

LoginAsync ==
    /\ call = "none" /\ config.async
    /\ call' = "app"
    /\ password' = TRUE
    /\ proxy_port' = (config.proxy # "none")
    /\ server_addr' = IF config.server THEN "server" ELSE "none"
    /\ IF ~config.server \/ config.proxy # "none"
       THEN /\ state' = "RESOLVING"
            /\ peers' = Append(peers, "resolver") /\ fd' = Len(peers') /\ open' = open \cup {fd'}
            /\ link' = "pending"
       ELSE Connected("server") /\ state' = "CONNECTING_GG"
    /\ UNCHANGED <<config, event, outcome, closedTwice, asked, loginOn>>

\* the loop of a synchronous gg_login ends; on failure it frees the session
\* and leaves its socket as it is
LoginReturns ==
    /\ call = "login"
    /\ \/ state = "CONNECTED" /\ call' = "app" /\ UNCHANGED password
       \/ state = "IDLE" /\ call' = "null" /\ password' = FALSE
    /\ UNCHANGED <<config, state, fd, proxy_port, server_addr, event, outcome,
                   socketVars, asked, loginOn>>

-------------------------------------------------------------------------------
(***************************************************************************)
(* gg_watch_fd, one action per state.                                      *)
(***************************************************************************)
Watching(s) == call \in {"login", "app"} /\ fd # None /\ state = s

\* The address is taken from the resolver's pipe with send, which fails on a
\* pipe whatever the resolver has written to it.
WatchResolving ==
    /\ Watching("RESOLVING") /\ link = "up"
    /\ outcome' \in {"resolved", "unknown"}
    /\ Failed("FAILURE_RESOLVING") /\ Closes
    /\ UNCHANGED <<config, call, server_addr, password, asked, loginOn>>

WatchConnectingHub ==
    /\ Watching("CONNECTING_HUB")
    /\ \/ /\ state' = "READING_DATA"
          /\ event' = "none"
          /\ UNCHANGED <<fd, proxy_port, socketVars, outcome>>
       \/ /\ Failed("FAILURE_WRITING") /\ Closes
          /\ outcome' = "end"
    /\ UNCHANGED <<config, call, server_addr, password, asked, loginOn>>

\* from the hub to the server that it named, or round it; port 443 is tried
\* when the first is refused
LeaveHub(to, message) ==
    \/ /\ Connected(to)
       /\ state' = "CONNECTING_GG" /\ event' = message
       /\ UNCHANGED proxy_port
    \/ Failed("FAILURE_CONNECTING")

\* the hub said something else than 200
HubOdd ==
    /\ LeaveHub(IF HaveProxy THEN proxy_addr ELSE "direct", "none")
    /\ UNCHANGED server_addr

MutHubNames(host, message) ==
    /\ LeaveHub(IF HaveProxy /\ config.proxy = "full" THEN proxy_addr ELSE host, message)
    /\ server_addr' = IF HaveProxy THEN proxy_addr ELSE host

\* the hub named a server; a system message may come before it
HubNames(host, message) ==
    /\ LeaveHub(IF HaveProxy /\ config.proxy = "full" THEN proxy_addr ELSE host, message)
    /\ server_addr' = host

MutNotOperating ==
    /\ event' = "FAILURE_UNAVAILABLE" /\ state' = "IDLE" /\ open' = Closed
    /\ UNCHANGED <<fd, proxy_port, server_addr, peers, link>>
HubNotOperating == Failed("FAILURE_UNAVAILABLE") /\ UNCHANGED server_addr

\* An answer that is cut short after its first line names the empty host.
WatchReadingData ==
    /\ Watching("READING_DATA")
    /\ Closes
    /\ \/ HubOdd /\ outcome' = "odd"
       \/ HubNotOperating /\ outcome' = "hub"
       \/ \E message \in {"none", "MSG"} : HubNames("server", message) /\ outcome' = "hub"
       \/ HubNames("nowhere", "none") /\ outcome' = "cut"
    /\ UNCHANGED <<config, call, password, asked, loginOn>>

\* what follows in CONNECTING_GG once the connection stands, or is thought to
SpeaksTo(s) ==
    /\ proxy_port' = (proxy_port /\ config.proxy # "http_only")
    /\ asked' = IF proxy_addr # "none" /\ proxy_port' THEN asked \cup {s} ELSE asked
    /\ state' = "READING_KEY"
    /\ event' = "none"

WatchConnectingGG ==
    /\ Watching("CONNECTING_GG") /\ link = "up"
    /\ \/ SpeaksTo(fd) /\ UNCHANGED <<fd, socketVars, outcome>>
       \/ /\ HaveProxy /\ config.proxy = "full"
          /\ Failed("FAILURE_CONNECTING") /\ Closes
          /\ outcome' = "end" /\ UNCHANGED asked
    /\ UNCHANGED <<config, call, server_addr, password, loginOn>>

\* An asynchronous connection was refused or has timed out: port 443 is tried
\* and taken for connected at once.  Only a session without a proxy is here.
WatchRefused ==
    /\ Watching("CONNECTING_GG") /\ config.async /\ link # "up"
    /\ Closes
    /\ \/ Connected(server_addr) /\ SpeaksTo(fd')
       \/ /\ event' = "FAILURE_CONNECTING" /\ state' = "IDLE" /\ fd' = None /\ open' = Closed
          /\ UNCHANGED <<proxy_port, peers, link, asked>>
    /\ UNCHANGED <<config, call, server_addr, password, outcome, loginOn>>

\* who may be expected to speak the protocol of the server
IsServer ==
    \/ peers[fd] \in {"server", "direct"}
    \/ peers[fd] = "proxy" /\ fd \in asked /\ server_addr # "nowhere"

\* text from a proxy is dropped up to an empty line or the end; a server that
\* is taken for a proxy has said all it had to say by then
WatchProxyReply ==
    /\ Watching("READING_KEY") /\ HaveProxy
    /\ proxy_port' = FALSE
    /\ link' \in {"over"} \cup (IF peers[fd] = "proxy" THEN {"up"} ELSE {})
    /\ event' = "none"
    /\ UNCHANGED <<config, call, state, fd, server_addr, password, outcome, peers,
                   open, closedTwice, asked, loginOn>>

\* gg_recv_packet gives no packet: the stream has ended, or less than a
\* packet has come to a socket that does not block
NoPacket ==
    outcome' \in {"end"} \cup (IF config.async /\ link = "up" THEN {"partial"} ELSE {})

MutKeepsPassword ==
    /\ Watching("READING_KEY") /\ ~HaveProxy /\ link = "up" /\ IsServer
    /\ loginOn' = loginOn \cup {fd}
    /\ outcome' \in {"packet", "lost"}
    /\ link' = IF outcome' = "lost" THEN "over" ELSE link
    /\ event' = "none"
    /\ UNCHANGED <<config, call, state, password, fd, proxy_port, server_addr, peers,
                   open, closedTwice, asked>>

\* gg_send_packet does not tell of a packet that could not be sent
WatchWelcome ==
    /\ Watching("READING_KEY") /\ ~HaveProxy /\ link = "up" /\ IsServer
    /\ password' = FALSE
    /\ loginOn' = loginOn \cup {fd}
    /\ outcome' \in {"packet", "lost"}
    /\ link' = IF outcome' = "lost" THEN "over" ELSE link
    /\ state' = "READING_REPLY"
    /\ event' = "none"
    /\ UNCHANGED <<config, call, fd, proxy_port, server_addr, peers, open,
                   closedTwice, asked>>

WatchNoKey ==
    /\ Watching("READING_KEY") /\ ~HaveProxy /\ link # "pending"
    /\ \/ NoPacket /\ Failed("FAILURE_READING")
       \/ link = "up" /\ outcome' = "other" /\ Failed("FAILURE_INVALID")
    /\ Closes
    /\ UNCHANGED <<config, call, server_addr, password, asked, loginOn>>

WatchLoginOK ==
    /\ Watching("READING_REPLY") /\ link = "up"
    /\ state' = "CONNECTED"
    /\ event' = "CONN_SUCCESS" /\ outcome' = "packet"
    /\ UNCHANGED <<config, call, fd, proxy_port, server_addr, password, socketVars,
                   asked, loginOn>>

WatchNoLogin ==
    /\ Watching("READING_REPLY")
    /\ \/ NoPacket /\ Failed("FAILURE_READING")
       \/ /\ link = "up" /\ outcome' = "packet"
          /\ \E f \in {"FAILURE_PASSWORD", "FAILURE_INTRUDER", "FAILURE_INVALID"} :
               Failed(f)
    /\ Closes
    /\ UNCHANGED <<config, call, server_addr, password, asked, loginOn>>

\* the end of a session that is connected is a NULL and nothing more
WatchConnected ==
    /\ Watching("CONNECTED") /\ call = "app"
    /\ \/ link = "up" /\ event' \in {"none", "EVENT"} /\ outcome' = "packet" /\ UNCHANGED link
       \/ event' = "NULL" /\ outcome' = "end" /\ link' = "over"
    /\ UNCHANGED <<config, call, sessionVars, peers, open, closedTwice, asked, loginOn>>

Watch ==
    \/ WatchResolving \/ WatchConnectingHub \/ WatchReadingData \/ WatchConnectingGG
    \/ WatchRefused \/ WatchProxyReply \/ WatchWelcome \/ WatchNoKey \/ WatchLoginOK
    \/ WatchNoLogin \/ WatchConnected

-------------------------------------------------------------------------------
(***************************************************************************)
(* The application and the network.                                        *)
(***************************************************************************)

\* gg_logoff closes the socket and leaves the state
Logoff ==
    /\ call = "app" /\ fd # None
    /\ fd' = None /\ open' = Closed /\ Closes
    /\ UNCHANGED <<config, call, state, proxy_port, server_addr, password, event,
                   outcome, peers, link, asked, loginOn>>

Free ==
    /\ call = "app" /\ call' = "freed"
    /\ IF fd # None THEN open' = Closed /\ Closes ELSE UNCHANGED <<open, closedTwice>>
    /\ password' = FALSE
    /\ UNCHANGED <<config, state, fd, proxy_port, server_addr, event, outcome, peers,
                   link, asked, loginOn>>

\* a connection that was begun stands or is refused; the resolver answers
Settle ==
    /\ link = "pending" /\ fd # None
    /\ link' \in {"up"} \cup (IF peers[fd] = "resolver" THEN {} ELSE {"refused"})
    /\ UNCHANGED <<config, call, sessionVars, event, outcome, peers, open, closedTwice,
                   asked, loginOn>>

Next ==
    \/ LoginFails \/ LoginSync \/ LoginAsync \/ LoginReturns
    \/ Watch \/ Logoff \/ Free \/ Settle

Spec == Init /\ [][Next]_vars

\* Peers answer or close in the end, and the application watches its socket.
FairSpec == Spec /\ WF_vars(Watch) /\ WF_vars(LoginReturns) /\ WF_vars(Settle)

-------------------------------------------------------------------------------
States == {"IDLE", "RESOLVING", "CONNECTING_HUB", "READING_DATA", "CONNECTING_GG",
           "READING_KEY", "READING_REPLY", "CONNECTED"}
Peers == {"resolver", "hub", "proxy", "server", "direct"}
Events == {"none", "MSG", "EVENT", "CONN_SUCCESS", "NULL", "FAILURE_RESOLVING",
           "FAILURE_CONNECTING", "FAILURE_WRITING", "FAILURE_READING", "FAILURE_INVALID",
           "FAILURE_UNAVAILABLE", "FAILURE_PASSWORD", "FAILURE_INTRUDER"}

TypeOK ==
    /\ config \in Configs
    /\ call \in {"none", "login", "app", "null", "freed"}
    /\ state \in States
    /\ peers \in Seq(Peers)
    /\ fd \in 0..Len(peers) /\ open \subseteq 1..Len(peers)
    /\ proxy_port \in BOOLEAN /\ password \in BOOLEAN /\ closedTwice \in BOOLEAN
    /\ server_addr \in {"none", "server", "nowhere"}
    /\ event \in Events
    /\ outcome \in {"none", "resolved", "unknown", "hub", "odd", "cut", "packet", "other",
                    "partial", "lost", "end"}
    /\ link \in {"down", "pending", "up", "refused", "over"}
    /\ asked \subseteq 1..Len(peers) /\ loginOn \subseteq 1..Len(peers)

\* Whatever fails on the way from the resolver to the server, the session has
\* one socket open, the one it knows of, and none once gg_login has failed or
\* the session was freed.
NoSocketLost == open = IF call \in {"login", "app"} /\ fd # None THEN {fd} ELSE {}

\* No descriptor is closed twice; another thread may own its number by then.
ClosedOnce == ~closedTwice

\* gg_login, gg_watch_fd, gg_logoff, gg_free_session: every socket is closed,
\* once, unless it is the one that the session has.
SocketsSound == NoSocketLost /\ ClosedOnce

\* The password is there when the server's key arrives and is sent once: it is
\* freed with the first login packet, and no way leads back to the key.
LoginOnce ==
    /\ Cardinality(loginOn) <= 1
    /\ call \in {"login", "app"} => (password <=> loginOn = {})

\* A session that says it is connected has logged in over the connection that
\* it still has, and to a server, not to a proxy that was not asked.
ConnectedIsLoggedIn ==
    state = "CONNECTED" => Cardinality(loginOn) = 1 /\ fd \in loginOn \cup {None}
                           /\ \A s \in loginOn : peers[s] = "proxy" => s \in asked

\* The login packet goes out once, to the right peer, before CONNECTED is said.
LoginSound == LoginOnce /\ ConnectedIsLoggedIn

\* gg_login returns when it runs the state machine itself.
SyncEnds == call = "login" ~> call # "login"

\* An application that watches the socket learns how the login ended.
AsyncEnds ==
    call = "app" ~> state \in {"CONNECTED", "IDLE"} \/ call = "freed" \/ fd = None

\* A login ends, by itself or watched by the application.
LoginEnds == SyncEnds /\ AsyncEnds

-------------------------------------------------------------------------------
(***************************************************************************)
(* What the README says and the code does not do.                          *)
(***************************************************************************)
\* README: in libgadu every read became a recv, so an address that the resolver
\* has found is received and the session goes on to connect.
ResolvedIsUsed == outcome = "resolved" => event # "FAILURE_RESOLVING"
================================================================================

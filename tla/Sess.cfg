\* Every setting of gg_login and the proxy.
SPECIFICATION FairSpec
CONSTANT Configs <- AllConfigs
\* a session that was freed stops
CHECK_DEADLOCK FALSE
INVARIANTS TypeOK SocketsSound LoginSound
PROPERTIES LoginEnds

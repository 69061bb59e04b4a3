--------------------------------- MODULE MCGGDcc ---------------------------------
EXTENDS GGDcc

\* the ports of which gg_dcc_socket_create's comment says that they mean the default one
SomePorts == {-1, 0}
================================================================================

--------------------------------- MODULE MCGGHttp ---------------------------------
EXTENDS GGHttp
================================================================================

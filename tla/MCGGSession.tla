------------------------------ MODULE MCGGSession ------------------------------
EXTENDS GGSession

AllConfigs == ConfigType
AsyncConfigs == {c \in ConfigType : c.async}
================================================================================

-------------------------------- MODULE MCAppShell --------------------------------
EXTENDS AppShell
================================================================================

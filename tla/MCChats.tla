---------------------------------- MODULE MCChats ----------------------------------
EXTENDS Chats
================================================================================

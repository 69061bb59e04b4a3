------------------------------ MODULE MCGGConnected ------------------------------
EXTENDS GGConnected

\* two contacts, the first with an image in two packets
TwoImages == {[sender |-> 1, size |-> 3, crc32 |-> 1], [sender |-> 2, size |-> 1, crc32 |-> 1]}

\* one kind of calls at a time, and two calls of any kinds but messages
SomePrograms == {[kinds |-> {"lists"}, calls |-> 4], [kinds |-> {"images"}, calls |-> 3],
                 [kinds |-> {"contacts"}, calls |-> 3], [kinds |-> {"messages"}, calls |-> 2],
                 [kinds |-> Kinds \ {"messages"}, calls |-> 2]}
================================================================================

------------------------------- MODULE MCContacts -------------------------------
EXTENDS Contacts, SequencesExt

\* a list of every contact, and none
FullRoster == {SetToSeq(UINs)}
AnyRoster == FullRoster \cup {<<>>}
================================================================================

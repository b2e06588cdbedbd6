---------------------------- MODULE MCWebClient -----------------------------
\* Two chats, one of which exists, and packets of two questions.
EXTENDS WebClient

CONSTANTS s1, s2

MCSessions  == {s1, s2}
MCExisting  == {s1}
MCQuestions == <<"first", "second">>
=============================================================================

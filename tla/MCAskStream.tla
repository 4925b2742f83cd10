---------------------------- MODULE MCAskStream ----------------------------
EXTENDS AskStream
MCDisturbances == [stream |-> 2, buffered |-> 1, assistant |-> 1, extractive |-> 1]
OneDisturbance == [stream |-> 1]
=============================================================================

------------------------------- MODULE MCYfs -------------------------------
EXTENDS MCYfsClient

\* The clients work on names, or on a file.
VARIABLE work
Work == [names |-> NameRequests, files |-> FileRequests]
AllRequests == NameRequests \cup FileRequests

WorkInit == Init /\ work \in {"names", "files"}
WorkNext == /\ Next
            /\ \A c \in Clients : rq'[c] # NoCall => rq'[c] \in Work[work]
            /\ UNCHANGED work
WorkSpec == /\ WorkInit /\ [][WorkNext]_<<vars, work>>
            /\ \A c \in Clients : WF_vars(Handle(c))
=============================================================================

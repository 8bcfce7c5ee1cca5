---------------------------- MODULE MCRemoteCall ----------------------------
(***************************************************************************)
(* RemoteCall for TLC.  Echo and Other are a globale and a session class   *)
(* of one name; neither need be registered when it is called.              *)
(***************************************************************************)
EXTENDS RemoteCall, TLC

CONSTANTS Server, Echo, Other,                             \* classes
          find, put, ping, get, putOther,                  \* stubs
          Find, Put, Ping, Get                             \* full names

AllClasses == {Server, Echo, Other}
Name == [c \in AllClasses |-> IF c = Other THEN Echo ELSE c]
Derived == [c \in AllClasses |-> IF c = Echo THEN "globale" ELSE "session"]
Members == Server :> <<find>> @@ Echo :> <<put, ping, get>> @@ Other :> <<putOther>>
FullNames == find :> Find @@ put :> Put @@ ping :> Ping @@ get :> Get @@ putOther :> Put
Signatures == Find :> <<"T*">> @@ Put :> <<"rpc_out", "T&">> @@ Ping :> <<>>
              @@ Get :> <<"remote", "T">>

\* What a variable is called and what it holds makes no difference.
Renamings == Permutations(Vars) \cup Permutations(Values)
=============================================================================

--------------------------- MODULE MCHttpProcess ---------------------------
(* An instance of HttpProcess for TLC: a file or directory named d with an entry *)
(* in it, and entries whose names have to be encoded or escaped.                 *)
EXTENDS HttpProcess

MCChars == Special \cup HexDigits \cup {"/", ".", "other", "download=1"}
MCPaths == {<<"d">>, <<"d", "/", "+">>, <<"%", "2", "5">>, <<"a", "&">>}

Get(target) == [get |-> TRUE, target |-> target]
Targets == {<<"/">>, <<"/", "d">>, <<"/", "d", "/">>, <<"/", "d", "/", "%", "2", "b">>,
            <<"/", "%", "2", "5", "2", "5">>}
MCRequests ==
    {Get(t) : t \in Targets} \cup {Get(t \o <<"?", "download=1">>) : t \in Targets}
    \cup {[get |-> FALSE, target |-> <<"/">>]}
=============================================================================

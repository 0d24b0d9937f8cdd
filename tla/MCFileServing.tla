---------------------------- MODULE MCFileServing ----------------------------
(* Small instance of FileServing for TLC.                                   *)
EXTENDS FileServing, TLC

CONSTANTS f1, f2

Pattern(p, m) == [pattern |-> p, match |-> m]

MCRoutes == {Pattern(<<"">>, "Prefix"), Pattern(<<"a", "">>, "Prefix"),
             Pattern(<<"b", "">>, "Prefix"), Pattern(<<"a", "b", "">>, "Prefix"),
             Pattern(<<"a", "x">>, "Exact")}

\* "/", "/a/" and "/b/", "/a/b/", "/a/x"
MCCharacters == [p \in {r.pattern : r \in MCRoutes} |->
                    IF p = <<"">> THEN 1 ELSE IF Len(p) = 3 THEN 5
                    ELSE IF p = <<"a", "x">> THEN 4 ELSE 3]

Request(m, p, c) == [method |-> m, path |-> p, cached |-> c]

MCRequests ==
    {Request("GET", p, FALSE) : p \in {<<"x">>, <<"a", "x">>, <<"a", "b", "x">>, <<"a", "">>,
                                       <<"a", "..", "x">>, <<"..", "www", "x">>}}
    \cup {Request("HEAD", <<"x">>, FALSE), Request("HEAD", <<"d", "">>, FALSE),
          Request("GET", <<"d", "">>, FALSE), Request("GET", <<"x">>, TRUE),
          Request("PUT", <<"x">>, FALSE), Request("PUT", <<"d">>, FALSE),
          Request("OPTIONS", <<"x">>, FALSE)}

MCRoot == <<"www">>
MCIndex == <<"i", "j">>
MCDisk == (<<"www">> :> "dir") @@ (<<"www", "x">> :> f1) @@ (<<"www", "d">> :> "dir")
          @@ (<<"www", "d", "j">> :> f1) @@ (<<"x">> :> f2)
MCSizes == (f1 :> 3) @@ (f2 :> 0)
Both == {"router", "test"}
OnlyRouter == {"router"}
OnlyTest == {"test"}
=============================================================================

------------------------------- MODULE Routing -------------------------------
(***************************************************************************)
(* The routing table (internal/router/router.go) and the part of           *)
(* validateConfig (internal/config/config.go) it relies on.  A path is the *)
(* sequence of its segments: "/" is <<"">>, "/a/b" is <<"a", "b">> and the *)
(* pattern "/a/" is <<"a", "">>, so a pattern with a slash at its end is a *)
(* prefix of the paths that go on where its last, empty segment is.        *)
(***************************************************************************)
EXTENDS Naturals, Sequences

CONSTANTS
    Routes,     \* config.Routing.Routes: their patterns and match types
    Characters  \* len(PathPattern) of each pattern

\* strings.HasPrefix(path, pattern), for a pattern with a slash at its end.
HasPrefix(path, pattern) ==
    /\ Len(path) >= Len(pattern)
    /\ \A i \in 1 .. Len(pattern) - 1 : path[i] = pattern[i]

\* "/" + strings.TrimPrefix(path, pattern)
AfterPrefix(path, pattern) == SubSeq(path, Len(pattern), Len(path))

\* What validateConfig lets through.
ValidRoute(r) ==
    /\ r.pattern \in Seq(STRING) \ {<<>>}
    /\ \/ r.match = "Exact" /\ (r.pattern[Len(r.pattern)] # "" \/ r.pattern = <<"">>)
       \/ r.match = "Prefix" /\ r.pattern[Len(r.pattern)] = ""

\* No two routes with the same pattern and match type.
Unambiguous(routes) ==
    \A r, q \in routes : r.pattern = q.pattern /\ r.match = q.match => r = q

Prefixes == {r \in Routes : r.match = "Prefix"}

ASSUME RoutesAssumption ==
    /\ \A r \in Routes : ValidRoute(r)
    /\ Unambiguous(Routes)

\* The length of a string grows with what is appended to it.
ASSUME CharactersAssumption ==
    \A r, q \in Prefixes :
        /\ Characters[r.pattern] \in Nat
        /\ HasPrefix(q.pattern, r.pattern) /\ Len(q.pattern) > Len(r.pattern) =>
               Characters[q.pattern] > Characters[r.pattern]

\* Mutation of Sorted: the routes stay in the order of the configuration.
Unsorted(list) == TRUE

\* NewRouter: the prefix routes, the longest first.  sort.Slice is not stable:
\* patterns of the same length may be in any order.
Sorted(list) ==
    \A i, j \in DOMAIN list :
        i < j => Characters[list[i].pattern] >= Characters[list[j].pattern]

IsTable(list) ==
    /\ list \in Seq(Prefixes)
    /\ \A r \in Prefixes : \E i \in DOMAIN list : list[i] = r
    /\ Sorted(list)

NoRoute == [pattern |-> <<>>, match |-> "none"]

\* FindRoute looks the path up in exactRoutes, then takes the first route of
\* prefixRoutes that fits.
Exact(path) == {r \in Routes : r.match = "Exact" /\ r.pattern = path}
Fitting(list, path) == {i \in DOMAIN list : HasPrefix(path, list[i].pattern)}

FindRoute(list, path) ==
    IF Exact(path) # {} THEN CHOOSE r \in Exact(path) : TRUE
    ELSE IF Fitting(list, path) = {} THEN NoRoute
    ELSE list[CHOOSE i \in Fitting(list, path) : \A j \in Fitting(list, path) : i <= j]

\* What ServeHTTP makes of the path before it calls the handler.
HandlerPath(r, path) ==
    IF r.match = "Prefix" THEN AfterPrefix(path, r.pattern)
    ELSE <<r.pattern[Len(r.pattern)]>>

(***************************************************************************)
(* What the rules of precedence ask for, without a table or an order: an   *)
(* exact match before any prefix, and of the prefixes that fit the one     *)
(* every other of them is a prefix of.                                     *)
(***************************************************************************)
MostSpecific(r, path) ==
    LET fit == {q \in Prefixes : HasPrefix(path, q.pattern)}
    IN IF Exact(path) # {} THEN r \in Exact(path)
       ELSE IF fit = {} THEN r = NoRoute
       ELSE r \in fit /\ \A q \in fit : HasPrefix(r.pattern, q.pattern)
=============================================================================

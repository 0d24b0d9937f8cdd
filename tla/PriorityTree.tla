---------------------------- MODULE PriorityTree ----------------------------
(***************************************************************************)
(* The stream dependency tree of a connection (internal/http2/             *)
(* priority.go): a map of nodes, each with its parent's ID and the list of *)
(* its children's IDs, two pictures of one tree that every operation has   *)
(* to keep in step by hand.  Each operation holds pt.mu throughout.  The   *)
(* lists are sets here, since nothing depends on their order; weights are  *)
(* left out, since no operation reads them.                                *)
(***************************************************************************)
CONSTANTS
    Streams,  \* IDs a HEADERS or PRIORITY frame may name
    Root      \* stream 0

ASSUME TreeAssumption == Root \notin Streams

VARIABLES
    parent,   \* parentID of each node of the map
    children  \* childrenIDs of each node of the map

treeVars == <<parent, children>>

NodeIds == Streams \union {Root}
Nodes == DOMAIN parent

\* NewPriorityTree: the root alone, its own parent by convention.
TreeInit ==
    /\ parent = [n \in {Root} |-> Root]
    /\ children = [n \in {Root} |-> {}]

\* A set of nodes that holds the parent of each of its members.
UpwardClosed(S, par) == \A n \in S : par[n] \in S

\* Mutation of DependsOn: only the immediate parent is looked at.
DependsDirectly(d, s, par) == d \in DOMAIN par /\ par[d] = s

\* The walk from d to the root meets s: s is in every set that one gets going up from d.
DependsOn(d, s, par) ==
    \A S \in SUBSET (DOMAIN par) : d \in S /\ UpwardClosed(S, par) => s \in S

\* getOrCreateNodeNoLock: an unknown stream gets a node below the root.
ParentsWith(s, par) ==
    [n \in DOMAIN par \union {s} |-> IF n \in DOMAIN par THEN par[n] ELSE Root]
ChildrenWith(s, kids) ==
    [n \in DOMAIN kids \union {s} |->
        IF n \notin DOMAIN kids THEN {}
        ELSE IF n = Root /\ s \notin DOMAIN kids THEN kids[n] \union {s}
        ELSE kids[n]]

\* Mutation of Place: s is not taken off the list of its old parent.
PlaceOnly(s, d, exclusive, par, kids) ==
    LET adopted == IF exclusive THEN kids[d] \ {s} ELSE {} IN
    /\ parent' = [n \in DOMAIN par |->
                    IF n = s THEN d ELSE IF n \in adopted THEN s ELSE par[n]]
    /\ children' = [n \in DOMAIN kids |->
                      IF n = s THEN kids[s] \union adopted
                      ELSE IF n = d THEN (kids[d] \ adopted) \union {s}
                      ELSE kids[n]]

\* Steps 1 to 4 of UpdatePriority, s and d having nodes: s leaves its parent, hangs below
\* d, and if exclusive takes over the other children of d.
Place(s, d, exclusive, par, kids) ==
    LET adopted == IF exclusive THEN kids[d] \ {s} ELSE {} IN
    /\ parent' = [n \in DOMAIN par |->
                    IF n = s THEN d ELSE IF n \in adopted THEN s ELSE par[n]]
    /\ children' = [n \in DOMAIN kids |->
                      IF n = s THEN kids[s] \union adopted
                      ELSE IF n = d THEN (kids[d] \ adopted) \union {s}
                      ELSE kids[n] \ {s}]

\* UpdatePriority refuses a stream that would depend on itself, directly or not.
Refused(s, d, par) == d = s \/ (d \in DOMAIN par /\ DependsOn(d, s, par))

UpdatePriority(s, d, exclusive, par, kids) ==
    Place(s, d, exclusive, ParentsWith(d, ParentsWith(s, par)),
                           ChildrenWith(d, ChildrenWith(s, kids)))

\* AddStream, for the HEADERS of a new stream.  It makes the node before it looks at
\* the dependency, and a refused one leaves the stream below the root.
AddStream(s, d, exclusive) ==
    LET par == ParentsWith(s, parent)
        kids == ChildrenWith(s, children)
    IN  IF Refused(s, d, par)
        THEN parent' = par /\ children' = kids
        ELSE UpdatePriority(s, d, exclusive, par, kids)

\* ProcessPriorityFrame; a refused frame changes nothing.
ProcessPriorityFrame(s, d, exclusive) ==
    /\ ~Refused(s, d, parent)
    /\ UpdatePriority(s, d, exclusive, parent, children)

\* RemoveStream: the children move to the parent of the removed stream.  (Its branches
\* for a missing parent need an inconsistent tree.)
RemoveStream(s) ==
    /\ s \in Nodes
    /\ parent' = [n \in Nodes \ {s} |-> IF n \in children[s] THEN parent[s] ELSE parent[n]]
    /\ children' = [n \in Nodes \ {s} |->
                      IF n = parent[s] THEN (children[n] \ {s}) \union children[s]
                      ELSE children[n]]

TreeNext ==
    \/ \E s \in Streams, d \in NodeIds, x \in BOOLEAN : AddStream(s, d, x)
    \/ \E s \in Streams, d \in NodeIds, x \in BOOLEAN : ProcessPriorityFrame(s, d, x)
    \/ \E s \in Streams : RemoveStream(s)

TreeSpec == TreeInit /\ [][TreeNext]_treeVars

--------------------------------------------------------------------------------
\* Every ID a node mentions has a node: no dangling parent and no dangling child, so the
\* repair branches of RemoveStream and the walk of UpdatePriority never miss one.
TreeTypeOK ==
    /\ Nodes \subseteq NodeIds /\ Root \in Nodes
    /\ parent \in [Nodes -> Nodes]
    /\ children \in [Nodes -> SUBSET (Nodes \ {Root})]
    /\ parent[Root] = Root

\* The two pictures agree: a node is on the list of its parent and on no other list.
ListsMatchParents ==
    \A n \in Nodes \ {Root}, p \in Nodes : n \in children[p] <=> parent[n] = p

\* Every stream hangs from the root: no streams depend on one another in a ring, which
\* the walk of UpdatePriority would follow for ever with the lock held.
Rooted ==
    \A S \in SUBSET (Nodes \ {Root}) : S # {} => ~UpwardClosed(S, parent)

\* Closing a stream leaves the order of the others as it was: who depended on whom,
\* through the closed stream too, still does, and nobody else (RFC 7540 5.3.4).
RemovalKeepsOrder ==
    [][Nodes \ DOMAIN parent' # {} =>
         \A a, b \in DOMAIN parent' : DependsOn(b, a, parent') <=> DependsOn(b, a, parent)]_treeVars
==============================================================================

-------------------------- MODULE FileServingProofs --------------------------
(***************************************************************************)
(* What holds for every routing table, every request, every file system    *)
(* and every change of it: the route found is the most specific one, a     *)
(* response ends whole, and no path leads out of the document root.        *)
(***************************************************************************)
EXTENDS FileServing, SequenceTheorems, WellFoundedInduction, TLAPS

(* The routing table.                                                       *)

LEMMA LeastElement ==
    ASSUME NEW T \in SUBSET Nat, T # {} PROVE \E x \in T : \A y \in T : x <= y
  <1>1. PICK R : IsWellFoundedOn(R, Nat) /\ \A x, y \in Nat : x < y => <<x, y>> \in R
    BY NatLessThanWellFounded DEF OpToRel
  <1>2. T \subseteq Nat /\ IsWellFoundedOn(R, Nat)
    BY <1>1
  <1>3. PICK x \in T : \A y \in T : ~ (<<y, x>> \in R)
    BY ONLY <1>2, T # {}, WFMin, Zenon
  <1>4. ASSUME NEW y \in T PROVE x <= y
    <2>1. ~ (y < x)  BY <1>1, <1>2, <1>3
    <2> QED  BY <1>2, <2>1
  <1> QED  BY <1>4

\* Of two prefixes of a path the shorter is a prefix of the longer.
LEMMA PrefixesNest ==
    ASSUME NEW p \in Seq(STRING), NEW q \in Seq(STRING), NEW p0 \in Seq(STRING),
           HasPrefix(p0, p), HasPrefix(p0, q), Len(q) <= Len(p)
    PROVE  HasPrefix(p, q)
  BY DEF HasPrefix

LEMMA PrefixPatterns == \A r \in Prefixes : r.pattern \in Seq(STRING)
  BY RoutesAssumption DEF RoutesAssumption, Prefixes, ValidRoute

\* The first route that fits is the one every other that fits is a prefix of.
LEMMA FirstIsMostSpecific ==
    ASSUME NEW list, IsTable(list), NEW p \in Seq(STRING),
           NEW i \in Fitting(list, p), \A j \in Fitting(list, p) : i <= j,
           NEW q \in Prefixes, HasPrefix(p, q.pattern)
    PROVE  list[i] \in Prefixes /\ HasPrefix(list[i].pattern, q.pattern)
  <1>1. list \in Seq(Prefixes) /\ Sorted(list)
    BY DEF IsTable
  <1>2. PICK j \in DOMAIN list : list[j] = q
    BY DEF IsTable
  <1>3. /\ i \in DOMAIN list /\ j \in DOMAIN list /\ i \in Nat /\ j \in Nat
        /\ HasPrefix(p, list[i].pattern) /\ i <= j /\ list[i] \in Prefixes
    BY <1>1, <1>2 DEF Fitting
  <1>4. list[i].pattern \in Seq(STRING) /\ q.pattern \in Seq(STRING)
    BY <1>3, PrefixPatterns
  <1>5. CASE Len(q.pattern) <= Len(list[i].pattern)
    BY <1>3, <1>4, <1>5, PrefixesNest
  <1>6. CASE Len(q.pattern) > Len(list[i].pattern)
    <2>1. HasPrefix(q.pattern, list[i].pattern)
      BY <1>3, <1>4, <1>6, PrefixesNest
    <2>2. /\ Characters[q.pattern] \in Nat /\ Characters[list[i].pattern] \in Nat
          /\ Characters[q.pattern] > Characters[list[i].pattern]
      BY <1>3, <1>6, <2>1, CharactersAssumption DEF CharactersAssumption
    <2>3. i = j  BY <1>1, <1>2, <1>3, <2>2 DEF Sorted
    <2> QED  BY <1>2, <1>6, <2>3, <1>4
  <1> QED  BY <1>3, <1>4, <1>5, <1>6

LEMMA FindsMostSpecific ==
    ASSUME NEW list, IsTable(list), NEW p \in Seq(STRING)
    PROVE  MostSpecific(FindRoute(list, p), p)
  <1>1. CASE Exact(p) # {}
    BY <1>1 DEF MostSpecific, FindRoute
  <1>2. CASE Exact(p) = {} /\ Fitting(list, p) = {}
    <2>1. \A q \in Prefixes : ~ HasPrefix(p, q.pattern)
      BY <1>2 DEF IsTable, Fitting
    <2> QED  BY <1>2, <2>1 DEF MostSpecific, FindRoute
  <1>3. CASE Exact(p) = {} /\ Fitting(list, p) # {}
    <2>1. Fitting(list, p) \in SUBSET Nat
      BY DEF Fitting, IsTable
    <2>2. \E i \in Fitting(list, p) : \A j \in Fitting(list, p) : i <= j
      BY <1>3, <2>1, LeastElement
    <2> DEFINE first == CHOOSE i \in Fitting(list, p) : \A j \in Fitting(list, p) : i <= j
    <2>3. first \in Fitting(list, p) /\ \A j \in Fitting(list, p) : first <= j
      BY <2>2
    <2>4. FindRoute(list, p) = list[first]
      BY <1>3 DEF FindRoute
    <2> HIDE DEF first
    <2>5. list[first] \in Prefixes /\ HasPrefix(p, list[first].pattern)
      BY <2>3 DEF Fitting, IsTable
    <2>6. \A q \in Prefixes : HasPrefix(p, q.pattern) => HasPrefix(list[first].pattern, q.pattern)
      BY <2>3, FirstIsMostSpecific
    <2> QED  BY <1>3, <2>4, <2>5, <2>6 DEF MostSpecific
  <1> QED  BY <1>1, <1>2, <1>3
-----------------------------------------------------------------------------
(* A request.                                                               *)

\* Until it answers, the handler has given the stream nothing.
Fresh ==
    /\ pc \in {"route", "serve", "directory", "file", "headers", "page"} =>
           resp = NoResponse /\ written = 0
    /\ pc = "page" => status # 0

\* A page is sent after its headers, and ends with its only DATA.
PageOpen ==
    pc \in {"pageBody", "pageWrite"} =>
        resp.status # 0 /\ ~ resp.ended /\ resp.sent = 0 /\ resp.announced = Page

\* The size that was announced is the file's, unless something has disturbed it.
SizeKnown ==
    pc \in {"file", "headers", "read", "write"} =>
        info.inode \in Inodes /\ (~ disturbed => size[info.inode] = info.size)

\* What was read was sent, up to the end of the response, which is at the size announced.
ReadIsSent ==
    pc = "read" =>
        /\ resp.status # 0 /\ resp.announced = info.size
        /\ resp.ended => resp.sent = resp.announced
        /\ ~ resp.ended => resp.sent = written
        /\ ~ reset => (resp.ended <=> written = info.size)
        /\ ~ disturbed => written <= info.size

\* What waits for credit follows what was sent.
ChunkInHand ==
    pc = "write" =>
        /\ resp.status # 0 /\ resp.announced = info.size /\ ~ resp.ended
        /\ resp.sent <= written
        /\ ~ disturbed => written <= info.size

IInv ==
    /\ TypeOK /\ Fresh /\ PageOpen /\ SizeKnown /\ ReadIsSent /\ ChunkInHand
    /\ EndMeansWhole /\ CompleteUnlessDisturbed

LEMMA InitInv == ASSUME Init PROVE IInv
  <1>1. /\ resp = NoResponse /\ written = 0 /\ reset = FALSE /\ disturbed = FALSE
        /\ status = 0 /\ info = NoInfo /\ index = 0 /\ changes = 0 /\ pc \in {"route", "serve"}
        /\ disk = Disk /\ size = Sizes /\ body \in {"open", "ended"} /\ IsTable(prefixRoutes)
        /\ waits = "none"
    BY DEF Init
  <1>2. TypeOK
    <2>1. /\ disk \in [DOMAIN Disk -> Inodes \cup {"dir", "absent"}]
          /\ size \in [Inodes -> Nat]
      BY <1>1, FilesAssumption DEF FilesAssumption
    <2>2. info \in [inode : Inodes \cup {"none"}, size : Nat]
      BY <1>1 DEF NoInfo
    <2>3. resp \in [status : Nat, announced : Nat, sent : Nat, ended : BOOLEAN]
      BY <1>1 DEF NoResponse
    <2>4. index \in 0 .. Len(IndexFiles) /\ changes \in 0 .. MaxChanges
      BY <1>1, FilesAssumption DEF FilesAssumption
    <2> QED  BY <1>1, <2>1, <2>2, <2>3, <2>4 DEF TypeOK
  <1> QED  BY <1>1, <1>2 DEF IInv, Fresh, PageOpen, SizeKnown, ReadIsSent, ChunkInHand,
                  EndMeansWhole, CompleteUnlessDisturbed, NoResponse

\* An error page is begun where nothing was sent before.
LEMMA ErrorPageKeeps ==
    ASSUME IInv, NEW code \in {403, 404, 405, 500}, ErrorPage(code),
           pc \in {"route", "serve", "directory", "file"}
    PROVE  IInv'
  <1>1. TypeOK'
    BY DEF IInv, TypeOK, ErrorPage, requestVars, clientVars, diskVars, placeVars
  <1> QED  BY <1>1 DEF IInv, Fresh, PageOpen, SizeKnown, ReadIsSent, ChunkInHand, EndMeansWhole,
               CompleteUnlessDisturbed, TypeOK, ErrorPage, requestVars, clientVars, diskVars,
               placeVars

\* So are other headers: the stream is reset, or they end the response, or a page follows.
LEMMA HeadersKeep ==
    ASSUME IInv, resp = NoResponse,
           NEW code \in {200, 204, 304, 403, 404, 405, 500}, NEW length \in {0, Page},
           \/ reset /\ resp' = resp /\ pc' = "done"
           \/ /\ ~ reset /\ pc' = "done" /\ (length = 0 \/ req.method = "HEAD")
              /\ resp' = [status |-> code, announced |-> length, sent |-> 0, ended |-> TRUE]
           \/ /\ ~ reset /\ pc' = "pageBody" /\ length = Page
              /\ resp' = [status |-> code, announced |-> length, sent |-> 0, ended |-> FALSE],
           UNCHANGED <<requestVars, clientVars, diskVars, placeVars, written, status, disturbed>>
    PROVE  IInv'
  <1>1. resp' \in [status : Nat, announced : Nat, sent : Nat, ended : BOOLEAN]
    <2>1. resp \in [status : Nat, announced : Nat, sent : Nat, ended : BOOLEAN]
      BY DEF IInv, TypeOK
    <2>2. code \in Nat /\ length \in Nat
      BY DEF Page
    <2>3. CASE resp' = resp  BY <2>1, <2>3
    <2>4. CASE resp' = [status |-> code, announced |-> length, sent |-> 0, ended |-> TRUE]
      BY <2>2, <2>4
    <2>5. CASE resp' = [status |-> code, announced |-> length, sent |-> 0, ended |-> FALSE]
      BY <2>2, <2>5
    <2> QED  BY <2>3, <2>4, <2>5
  <1>2. TypeOK'
    BY <1>1 DEF IInv, TypeOK, requestVars, clientVars, diskVars, placeVars
  <1> QED  BY <1>2 DEF IInv, Fresh, PageOpen, SizeKnown, ReadIsSent, ChunkInHand, EndMeansWhole,
                CompleteUnlessDisturbed, NoResponse, requestVars, clientVars, diskVars, placeVars

LEMMA RouteKeeps == ASSUME IInv, Route PROVE IInv'
  <1>1. \/ \E code \in {404, 500} : ErrorPage(code)
        \/ /\ pc' = "serve"
           /\ UNCHANGED <<requestVars, clientVars, diskVars, target, info, index, written,
                          status, resp, disturbed>>
    BY DEF Route
  <1>2. pc = "route"
    BY DEF Route
  <1>3. CASE \E code \in {404, 500} : ErrorPage(code)
    BY <1>2, <1>3, ErrorPageKeeps
  <1>4. CASE /\ pc' = "serve"
             /\ UNCHANGED <<requestVars, clientVars, diskVars, target, info, index, written,
                            status, resp, disturbed>>
    <2>1. TypeOK'
      BY <1>4 DEF IInv, TypeOK, requestVars, clientVars, diskVars
    <2> QED  BY <1>2, <1>4, <2>1 DEF IInv, Fresh, PageOpen, SizeKnown, ReadIsSent, ChunkInHand,
                  EndMeansWhole, CompleteUnlessDisturbed, requestVars, clientVars, diskVars
  <1> QED  BY <1>1, <1>3, <1>4

\* The handler has found a file, or a directory.
LEMMA FoundKeeps ==
    ASSUME IInv, pc \in {"serve", "directory"}, NEW p, NEW found \in Inodes \cup {"dir"},
           \/ found \in Inodes /\ FoundFile(p, found)
           \/ pc' = "directory" /\ UNCHANGED <<info, disturbed>>,
           index' \in 0 .. Len(IndexFiles),
           UNCHANGED <<requestVars, clientVars, diskVars, written, status, resp>>
    PROVE  IInv'
  <1> USE DEF requestVars, clientVars, diskVars
  <1>1. CASE found \in Inodes /\ FoundFile(p, found)
    <2>1. info' = [inode |-> found, size |-> size[found]] /\ pc' = "file" /\ ~ disturbed'
          /\ disturbed' \in BOOLEAN
      BY <1>1 DEF FoundFile
    <2>2. size[found] \in Nat
      BY <1>1 DEF IInv, TypeOK
    <2>3. TypeOK'
      BY <1>1, <2>1, <2>2 DEF IInv, TypeOK
    <2> QED  BY <1>1, <2>1, <2>3 DEF IInv, Fresh, PageOpen, SizeKnown, ReadIsSent, ChunkInHand,
                  EndMeansWhole, CompleteUnlessDisturbed
  <1>2. CASE pc' = "directory" /\ UNCHANGED <<info, disturbed>>
    <2>1. TypeOK'
      BY <1>2 DEF IInv, TypeOK
    <2> QED  BY <1>2, <2>1 DEF IInv, Fresh, PageOpen, SizeKnown, ReadIsSent, ChunkInHand,
                  EndMeansWhole, CompleteUnlessDisturbed
  <1> QED  BY <1>1, <1>2

LEMMA ServeKeeps == ASSUME IInv, Serve PROVE IInv'
  <1>1. pc = "serve" /\ resp = NoResponse
    BY DEF Serve, IInv, Fresh
  <1>2. CASE req.method = "OPTIONS"
    <2>1. /\ SendHeaders(204, 0, TRUE) /\ pc' = "done"
          /\ UNCHANGED <<requestVars, clientVars, diskVars, placeVars, written, status,
                         disturbed>>
      BY <1>2 DEF Serve
    <2> QED  BY <1>1, <2>1, HeadersKeep DEF SendHeaders
  <1>3. CASE \E code \in {403, 404, 500} : ErrorPage(code)
    BY <1>1, <1>3, ErrorPageKeeps
  <1>4. CASE /\ req.method # "OPTIONS"
             /\ \A code \in {403, 404, 500} : ~ ErrorPage(code)
    <2> DEFINE p == Resolve(AfterPrefix(path, context.pattern))
    <2>1. \E found \in Stat(p) :
             /\ found \in Inodes \cup {"dir"}
             /\ IF found = "dir" THEN target' = p /\ pc' = "directory"
                                      /\ UNCHANGED <<info, disturbed>>
                                 ELSE FoundFile(p, found)
             /\ UNCHANGED <<requestVars, clientVars, diskVars, path, context, index,
                            written, status, resp>>
      BY <1>4 DEF Serve
    <2>2. index' \in 0 .. Len(IndexFiles)
      BY <2>1 DEF IInv, TypeOK
    <2> HIDE DEF p
    <2> QED  BY <1>1, <2>1, <2>2, FoundKeeps
  <1> QED  BY <1>2, <1>3, <1>4

LEMMA DirectoryKeeps ==
    ASSUME IInv, Refuse \/ TryIndex \/ Forbid \/ List \/ NotModified PROVE IInv'
  <1>1. CASE Refuse  BY <1>1, ErrorPageKeeps DEF Refuse
  <1>2. CASE Forbid  BY <1>2, ErrorPageKeeps DEF Forbid
  <1>3. CASE TryIndex
    <2> DEFINE p == Enter(target, IndexFiles[index + 1])
    <2>1. PICK found \in Stat(p) :
             /\ IF found \in Inodes THEN FoundFile(p, found) /\ UNCHANGED index
                ELSE index' = index + 1 /\ UNCHANGED <<pc, target, info, disturbed>>
             /\ UNCHANGED <<requestVars, clientVars, diskVars, path, context, written,
                            status, resp>>
      BY <1>3 DEF TryIndex
    <2>2. pc = "directory" /\ index' \in 0 .. Len(IndexFiles)
      BY <1>3, <2>1 DEF TryIndex, IInv, TypeOK
    <2> HIDE DEF p
    <2>3. CASE found \in Inodes
      BY <2>1, <2>2, <2>3, FoundKeeps
    <2>4. CASE found \notin Inodes
      <3>1. pc' = "directory" /\ UNCHANGED <<info, disturbed>>
        BY <2>1, <2>2, <2>4
      <3> QED  BY <2>1, <2>2, <3>1, FoundKeeps
    <2> QED  BY <2>3, <2>4
  <1>4. CASE List
    <2>1. pc = "directory" /\ resp = NoResponse
      BY <1>4 DEF List, IInv, Fresh
    <2>2. CASE ErrorPage(500)  BY <2>1, <2>2, ErrorPageKeeps
    <2>3. CASE ~ ErrorPage(500)
      <3>1. /\ SendHeaders(200, Page, req.method = "HEAD")
            /\ pc' = IF reset \/ req.method = "HEAD" THEN "done" ELSE "pageBody"
            /\ UNCHANGED <<requestVars, clientVars, diskVars, placeVars, written, status,
                           disturbed>>
        BY <1>4, <2>3 DEF List
      <3>2. CASE reset
        BY <2>1, <3>1, <3>2, HeadersKeep DEF SendHeaders
      <3>3. CASE ~ reset /\ req.method = "HEAD"
        <4>1. (req.method = "HEAD") = TRUE  BY <3>3
        <4>2. /\ pc' = "done"
              /\ resp' = [status |-> 200, announced |-> Page, sent |-> 0, ended |-> TRUE]
          BY <3>1, <3>3, <4>1 DEF SendHeaders
        <4> QED  BY <2>1, <3>1, <3>3, <4>2, HeadersKeep
      <3>4. CASE ~ reset /\ req.method # "HEAD"
        <4>1. (req.method = "HEAD") = FALSE  BY <3>4
        <4>2. /\ pc' = "pageBody"
              /\ resp' = [status |-> 200, announced |-> Page, sent |-> 0, ended |-> FALSE]
          BY <3>1, <3>4, <4>1 DEF SendHeaders
        <4> QED  BY <2>1, <3>1, <3>4, <4>2, HeadersKeep
      <3> QED  BY <3>2, <3>3, <3>4
    <2> QED  BY <2>2, <2>3
  <1>5. CASE NotModified
    <2>1. pc = "file" /\ resp = NoResponse
      BY <1>5 DEF NotModified, IInv, Fresh
    <2> QED  BY <1>5, <2>1, HeadersKeep DEF NotModified, SendHeaders
  <1> QED  BY <1>1, <1>2, <1>3, <1>4, <1>5

LEMMA OpenKeeps == ASSUME IInv, Open PROVE IInv'
  <1> USE DEF requestVars, clientVars, diskVars
  <1>1. pc = "file" /\ resp = NoResponse /\ written = 0 /\ info.inode \in Inodes
    BY DEF Open, IInv, Fresh, SizeKnown
  <1>2. UNCHANGED <<requestVars, clientVars, diskVars, path, context, target, index, written,
                    resp>>
    BY DEF Open
  <1>3. \/ pc' = "headers" /\ UNCHANGED <<info, disturbed, status>>
        \/ \E found \in Inodes :
              /\ info' = [info EXCEPT !.inode = found]
              /\ disturbed' = (disturbed \/ found # info.inode)
              /\ pc' = "headers" /\ UNCHANGED status
        \/ pc' = "page" /\ status' \in {403, 500} /\ UNCHANGED <<info, disturbed>>
    BY DEF Open
  <1>4. TypeOK'
    <2>1. info \in [inode : Inodes \cup {"none"}, size : Nat] /\ disturbed \in BOOLEAN
      BY DEF IInv, TypeOK
    <2>2. info' \in [inode : Inodes \cup {"none"}, size : Nat]
      <3>1. ASSUME NEW found \in Inodes
            PROVE  [info EXCEPT !.inode = found] \in [inode : Inodes \cup {"none"}, size : Nat]
        BY <2>1
      <3> QED  BY <1>3, <2>1, <3>1
    <2>3. disturbed' \in BOOLEAN /\ status' \in {0, 403, 404, 405, 500}
      <3>1. status \in {0, 403, 404, 405, 500}
        BY DEF IInv, TypeOK
      <3>2. disturbed' \in BOOLEAN
        BY <1>3, <2>1
      <3> QED  BY <1>3, <3>1, <3>2
    <2> QED  BY <1>2, <1>3, <2>2, <2>3 DEF IInv, TypeOK
  <1>5. /\ Fresh' /\ PageOpen' /\ ReadIsSent' /\ ChunkInHand' /\ EndMeansWhole'
        /\ CompleteUnlessDisturbed'
    BY <1>1, <1>2, <1>3 DEF IInv, Fresh, PageOpen, ReadIsSent, ChunkInHand, EndMeansWhole,
          CompleteUnlessDisturbed, NoResponse
  <1>6. SizeKnown'
    <2>1. pc' = "headers" =>
             /\ info'.inode \in Inodes /\ info'.size = info.size
             /\ ~ disturbed' => ~ disturbed /\ info'.inode = info.inode
      <3>1. info \in [inode : Inodes \cup {"none"}, size : Nat] /\ disturbed \in BOOLEAN
        BY DEF IInv, TypeOK
      <3>2. ASSUME NEW found \in Inodes
            PROVE  /\ [info EXCEPT !.inode = found].inode = found
                   /\ [info EXCEPT !.inode = found].size = info.size
        BY <3>1
      <3> QED  BY <1>1, <1>3, <3>1, <3>2
    <2>2. size' = size /\ pc' \in {"headers", "page"}
      BY <1>2, <1>3
    <2> QED  BY <1>1, <2>1, <2>2 DEF IInv, SizeKnown
  <1> QED  BY <1>4, <1>5, <1>6 DEF IInv

LEMMA FileHeadersKeep == ASSUME IInv, FileHeaders PROVE IInv'
  <1> USE DEF requestVars, clientVars, diskVars, placeVars
  <1>1. pc = "headers" /\ resp = NoResponse /\ written = 0
    BY DEF FileHeaders, IInv, Fresh
  <1>2. CASE reset
    BY <1>1, <1>2, HeadersKeep DEF FileHeaders, SendHeaders
  <1>3. CASE ~ reset /\ EndsWithHeaders
    <2>1. /\ pc' = "done" /\ (info.size = 0 \/ req.method = "HEAD")
          /\ resp' = [status |-> 200, announced |-> info.size, sent |-> 0, ended |-> TRUE]
      BY <1>3 DEF FileHeaders, SendHeaders, EndsWithHeaders
    <2>2. TypeOK'
      BY <2>1, FilesAssumption DEF FileHeaders, IInv, TypeOK, FilesAssumption, Page
    <2> QED  BY <1>1, <2>1, <2>2 DEF FileHeaders, IInv, Fresh, PageOpen, SizeKnown, ReadIsSent,
                  ChunkInHand, EndMeansWhole, CompleteUnlessDisturbed
  <1>4. CASE ~ reset /\ ~ EndsWithHeaders
    <2>1. /\ pc' = "read" /\ info.size # 0
          /\ resp' = [status |-> 200, announced |-> info.size, sent |-> 0, ended |-> FALSE]
      BY <1>4 DEF FileHeaders, SendHeaders, EndsWithHeaders
    <2>2. TypeOK'
      BY <2>1, FilesAssumption DEF FileHeaders, IInv, TypeOK, FilesAssumption, Page
    <2>3. info.size \in Nat
      BY FilesAssumption DEF IInv, TypeOK, FilesAssumption
    <2> QED  BY <1>1, <1>4, <2>1, <2>2, <2>3 DEF FileHeaders, IInv, Fresh, PageOpen, SizeKnown,
                  ReadIsSent, ChunkInHand, EndMeansWhole, CompleteUnlessDisturbed
  <1> QED  BY <1>2, <1>3, <1>4

LEMMA ReadKeeps == ASSUME IInv, ReadChunk PROVE IInv'
  <1> USE DEF requestVars, diskVars, placeVars
  <1>1. /\ pc = "read" /\ info.inode \in Inodes /\ written < size[info.inode]
        /\ written' = written + Read(size[info.inode] - written)
        /\ UNCHANGED <<requestVars, diskVars, placeVars, status, resp, seen, disturbed>>
    BY DEF ReadChunk, IInv, SizeKnown
  <1>2. /\ size[info.inode] \in Nat /\ written \in Nat /\ info.size \in Nat /\ Chunk \in Nat
    BY <1>1, FilesAssumption DEF IInv, TypeOK, FilesAssumption
  <1>3. written' \in Nat /\ written <= written' /\ written' <= size[info.inode]
    BY <1>1, <1>2 DEF Read
  <1>4. CASE WriteFails
    <2>1. pc' = "done" /\ UNCHANGED clientVars /\ (reset \/ resp.ended)
      BY <1>4 DEF ReadChunk, WriteFails
    <2>2. TypeOK'
      BY <1>1, <1>3, <2>1 DEF IInv, TypeOK, clientVars
    <2> QED  BY <1>1, <2>1, <2>2 DEF IInv, Fresh, PageOpen, SizeKnown, ReadIsSent, ChunkInHand,
                  EndMeansWhole, CompleteUnlessDisturbed, clientVars
  <1>5. CASE ~ WriteFails
    <2>1. /\ pc' = "write" /\ waits' \in {"none", "stream", "conn"} /\ UNCHANGED <<body, reset>>
          /\ ~ resp.ended /\ resp.sent = written
      BY <1>1, <1>5 DEF ReadChunk, Acquire, WriteFails, IInv, ReadIsSent
    <2>2. TypeOK'
      BY <1>1, <1>3, <2>1 DEF IInv, TypeOK
    <2>3. ChunkInHand'
      BY <1>1, <1>2, <1>3, <2>1 DEF IInv, SizeKnown, ReadIsSent, ChunkInHand
    <2> QED  BY <1>1, <2>1, <2>2, <2>3 DEF IInv, Fresh, PageOpen, SizeKnown, ReadIsSent,
                  EndMeansWhole, CompleteUnlessDisturbed
  <1> QED  BY <1>4, <1>5

LEMMA SendKeeps == ASSUME IInv, SendChunk PROVE IInv'
  <1> USE DEF requestVars, clientVars, diskVars, placeVars
  <1>1. /\ pc = "write" /\ info.inode \in Inodes /\ ~ resp.ended
        /\ UNCHANGED <<requestVars, clientVars, diskVars, placeVars, written, status, seen,
                       disturbed>>
    BY DEF SendChunk, IInv, SizeKnown, ChunkInHand
  <1>2. /\ written \in Nat /\ info.size \in Nat /\ resp.sent \in Nat
        /\ resp \in [status : Nat, announced : Nat, sent : Nat, ended : BOOLEAN]
    BY FilesAssumption DEF IInv, TypeOK, FilesAssumption
  <1>3. CASE reset
    <2>1. pc' = "done" /\ resp' = resp
      BY <1>3 DEF SendChunk, WriteData, WriteFails
    <2>2. TypeOK'
      BY <1>1, <2>1 DEF IInv, TypeOK
    <2> QED  BY <1>1, <1>3, <2>1, <2>2 DEF IInv, Fresh, PageOpen, SizeKnown, ReadIsSent,
                  ChunkInHand, EndMeansWhole, CompleteUnlessDisturbed
  <1>4. CASE ~ reset
    <2>1. /\ pc' = "read"
          /\ resp' = [resp EXCEPT !.sent = @ + (written - resp.sent),
                                  !.ended = (written = info.size)]
      BY <1>1, <1>4 DEF SendChunk, WriteData, WriteFails, IsLastChunk
    <2>2. /\ resp'.sent = written /\ resp'.announced = resp.announced
          /\ resp'.status = resp.status /\ (resp'.ended <=> written = info.size)
      <3>1. \A m \in Nat, e \in BOOLEAN :
               LET x == [resp EXCEPT !.sent = m, !.ended = e] IN
               /\ x.sent = m /\ x.ended = e /\ x.announced = resp.announced
               /\ x.status = resp.status
        BY <1>2
      <3>2. resp.sent + (written - resp.sent) = written
        BY <1>2
      <3> QED  BY <1>2, <2>1, <3>1, <3>2
    <2>3. resp' \in [status : Nat, announced : Nat, sent : Nat, ended : BOOLEAN]
      <3>1. \A m \in Nat, e \in BOOLEAN : [resp EXCEPT !.sent = m, !.ended = e]
                  \in [status : Nat, announced : Nat, sent : Nat, ended : BOOLEAN]
        BY <1>2
      <3>2. resp.sent + (written - resp.sent) = written
        BY <1>2
      <3> QED  BY <1>2, <2>1, <3>1, <3>2
    <2>4. TypeOK'
      BY <1>1, <2>1, <2>3 DEF IInv, TypeOK
    <2>5. ReadIsSent' /\ EndMeansWhole'
      BY <1>1, <1>2, <2>1, <2>2 DEF IInv, ChunkInHand, ReadIsSent, EndMeansWhole
    <2> QED  BY <1>1, <2>1, <2>4, <2>5 DEF IInv, Fresh, PageOpen, SizeKnown, ChunkInHand,
                  CompleteUnlessDisturbed
  <1> QED  BY <1>3, <1>4

LEMMA ReadEndKeeps == ASSUME IInv, EndOfFile \/ ReadFails PROVE IInv'
  <1> USE DEF requestVars, clientVars, diskVars, placeVars
  <1>1. TypeOK'
    <2>1. CASE EndOfFile  BY <2>1 DEF IInv, TypeOK, EndOfFile
    <2>2. CASE ReadFails  BY <2>2 DEF IInv, TypeOK, ReadFails
    <2> QED  BY <2>1, <2>2
  <1>2. EndMeansWhole'
    BY DEF IInv, EndMeansWhole, EndOfFile, ReadFails
  <1>3. CompleteUnlessDisturbed'
    <2>1. CASE EndOfFile
      <3>1. /\ written \in Int /\ info.size \in Int /\ pc = "read"
            /\ (~ disturbed => size[info.inode] = info.size)
            /\ written >= size[info.inode]
        BY <2>1, FilesAssumption DEF EndOfFile, IInv, TypeOK, SizeKnown, FilesAssumption
      <3> QED  BY <2>1, <3>1 DEF EndOfFile, IInv, ReadIsSent, CompleteUnlessDisturbed
    <2>2. CASE ReadFails
      BY <2>2 DEF ReadFails, CompleteUnlessDisturbed
    <2> QED  BY <2>1, <2>2
  <1> QED  BY <1>1, <1>2, <1>3 DEF IInv, Fresh, PageOpen, SizeKnown, ReadIsSent, ChunkInHand,
                  EndOfFile, ReadFails

LEMMA PageKeeps == ASSUME IInv, PageHeaders \/ PageBody \/ SendPage PROVE IInv'
  <1> USE DEF requestVars, clientVars, diskVars, placeVars
  <1>1. CASE PageHeaders
    <2>1. resp = NoResponse /\ status \in {403, 404, 405, 500}
      BY <1>1 DEF PageHeaders, IInv, Fresh, TypeOK
    <2> QED  BY <1>1, <2>1, HeadersKeep DEF PageHeaders, SendHeaders
  <1>2. CASE PageBody
    <2>1. /\ pc = "pageBody" /\ (\/ pc' = "done" /\ reset
                                \/ pc' = "pageWrite")
          /\ UNCHANGED <<resp, written, body, reset>> /\ waits' \in {"none", "stream", "conn"}
      BY <1>2 DEF PageBody, Acquire, WriteFails, IInv, PageOpen, TypeOK
    <2>2. TypeOK'
      BY <1>2, <2>1 DEF PageBody, IInv, TypeOK
    <2> QED  BY <1>2, <2>1, <2>2 DEF PageBody, IInv, Fresh, PageOpen, SizeKnown, ReadIsSent,
                  ChunkInHand, EndMeansWhole, CompleteUnlessDisturbed
  <1>3. CASE SendPage
    <2>1. /\ pc = "pageWrite" /\ pc' = "done"
          /\ \/ resp' = resp /\ reset
             \/ resp' = [resp EXCEPT !.sent = @ + Page, !.ended = TRUE]
      BY <1>3 DEF SendPage, WriteData, WriteFails, IInv, PageOpen
    <2>2. resp.status # 0 /\ ~ resp.ended /\ resp.sent = 0 /\ resp.announced = Page
      BY <2>1 DEF IInv, PageOpen
    <2>3. resp' \in [status : Nat, announced : Nat, sent : Nat, ended : BOOLEAN]
      <3>1. resp \in [status : Nat, announced : Nat, sent : Nat, ended : BOOLEAN]
        BY DEF IInv, TypeOK
      <3>2. [resp EXCEPT !.sent = @ + Page, !.ended = TRUE]
               \in [status : Nat, announced : Nat, sent : Nat, ended : BOOLEAN]
        <4>1. resp.sent + Page \in Nat  BY <3>1 DEF Page
        <4>2. \A m \in Nat, e \in BOOLEAN : [resp EXCEPT !.sent = m, !.ended = e]
                    \in [status : Nat, announced : Nat, sent : Nat, ended : BOOLEAN]
          BY <3>1
        <4> QED  BY <4>1, <4>2
      <3> QED  BY <2>1, <3>1, <3>2
    <2>4. TypeOK'
      BY <1>3, <2>1, <2>3 DEF SendPage, IInv, TypeOK
    <2>5. \/ resp' = resp /\ reset
          \/ resp'.ended /\ resp'.sent = Page /\ resp'.announced = Page /\ resp'.status # 0
      <3>1. resp \in [status : Nat, announced : Nat, sent : Nat, ended : BOOLEAN]
        BY DEF IInv, TypeOK
      <3>2. CASE resp' = [resp EXCEPT !.sent = @ + Page, !.ended = TRUE]
        BY <2>2, <3>1, <3>2 DEF Page
      <3> QED  BY <2>1, <3>2
    <2> QED  BY <1>3, <2>1, <2>2, <2>4, <2>5 DEF SendPage, IInv, Fresh, PageOpen, SizeKnown,
                  ReadIsSent, ChunkInHand, EndMeansWhole, CompleteUnlessDisturbed
  <1> QED  BY <1>1, <1>2, <1>3

LEMMA WorldKeeps ==
    ASSUME IInv,
           \/ EndBody \/ Reset \/ CloseConnection \/ Credit \/ UNCHANGED vars
           \/ \E i \in Inodes : Resize(i)
           \/ \E p \in DOMAIN Disk : Rename(p)
    PROVE  IInv'
  <1> USE DEF requestVars, clientVars, diskVars, placeVars
  <1>1. CASE EndBody \/ UNCHANGED vars
    BY <1>1 DEF EndBody, vars, IInv, TypeOK, Fresh, PageOpen, SizeKnown, ReadIsSent, ChunkInHand,
                EndMeansWhole, CompleteUnlessDisturbed
  <1>2. CASE Reset \/ CloseConnection \/ Credit
    <2>1. /\ waits' \in {"none", "stream", "conn"} /\ reset' \in BOOLEAN /\ (reset => reset')
          /\ UNCHANGED <<requestVars, body, diskVars, pc, placeVars, written, status, resp, seen,
                         disturbed>>
      BY <1>2 DEF Reset, CloseConnection, Credit, IInv, TypeOK
    <2>2. TypeOK'  BY <2>1 DEF IInv, TypeOK
    <2> QED  BY <2>1, <2>2 DEF IInv, Fresh, PageOpen, SizeKnown, ReadIsSent, ChunkInHand,
                  EndMeansWhole, CompleteUnlessDisturbed
  <1>3. ASSUME NEW i \in Inodes, Resize(i) PROVE IInv'
    <2>1. PICK m \in 0 .. MaxSize : size' = [size EXCEPT ![i] = m]
      BY <1>3 DEF Resize
    <2>2. TypeOK'
      <3>1. size' \in [Inodes -> Nat] /\ disturbed' \in BOOLEAN /\ changes' \in 0 .. MaxChanges
        BY <1>3, <2>1, FilesAssumption DEF Resize, IInv, TypeOK, FilesAssumption
      <3> QED  BY <1>3, <3>1 DEF Resize, IInv, TypeOK
    <2>3. SizeKnown'
      <3>1. ~ disturbed' => ~ disturbed /\ i # info.inode
        BY <1>3 DEF Resize
      <3>2. info.inode \in Inodes /\ i # info.inode => size'[info.inode] = size[info.inode]
        BY <2>1 DEF IInv, TypeOK
      <3> QED  BY <1>3, <3>1, <3>2 DEF Resize, IInv, SizeKnown
    <2> QED  BY <1>3, <2>2, <2>3 DEF Resize, IInv, Fresh, PageOpen, ReadIsSent, ChunkInHand,
                  EndMeansWhole, CompleteUnlessDisturbed
  <1>4. ASSUME NEW p \in DOMAIN Disk, Rename(p) PROVE IInv'
    <2>1. PICK i \in Inodes \cup {"absent"} : disk' = [disk EXCEPT ![p] = i]
      BY <1>4 DEF Rename
    <2>2. TypeOK'
      <3>1. /\ disk' \in [DOMAIN Disk -> Inodes \cup {"dir", "absent"}]
            /\ changes' \in 0 .. MaxChanges
        BY <1>4, <2>1, FilesAssumption DEF Rename, IInv, TypeOK, FilesAssumption
      <3> QED  BY <1>4, <3>1 DEF Rename, IInv, TypeOK
    <2> QED  BY <1>4, <2>2 DEF Rename, IInv, Fresh, PageOpen, SizeKnown, ReadIsSent, ChunkInHand,
                  EndMeansWhole, CompleteUnlessDisturbed
  <1> QED  BY <1>1, <1>2, <1>3, <1>4

LEMMA Invariance == Spec => []IInv
  <1>1. Init => IInv  BY InitInv
  <1>2. IInv /\ [Next]_vars => IInv'
    BY RouteKeeps, ServeKeeps, DirectoryKeeps, OpenKeeps, FileHeadersKeep, ReadKeeps,
       SendKeeps, ReadEndKeeps, PageKeeps, WorldKeeps DEF Next, Handler
  <1> QED  BY <1>1, <1>2, PTL DEF Spec

\* The variables of a request keep their types, whatever others do to the files.
THEOREM FileTypes == Spec => []TypeOK
  <1>1. IInv => TypeOK  BY DEF IInv
  <1> QED  BY <1>1, Invariance, PTL

\* END_STREAM says that the content is complete: a response that has it brought exactly the
\* bytes it announced, whatever was done to the file meanwhile.
THEOREM EndsWhole == Spec => []EndMeansWhole
  <1>1. IInv => EndMeansWhole  BY DEF IInv
  <1> QED  BY <1>1, Invariance, PTL

\* A handler that returns has ended its response, unless the stream was reset or the file
\* was disturbed.
THEOREM EndsAlways == Spec => []CompleteUnlessDisturbed
  <1>1. IInv => CompleteUnlessDisturbed  BY DEF IInv
  <1> QED  BY <1>1, Invariance, PTL

\* The router finds the most specific route of every valid configuration, in whatever order
\* an unstable sort leaves patterns of the same length.
THEOREM RoutesToMostSpecific == Spec => []RoutedToMostSpecific
  <1> DEFINE Inv == IsTable(prefixRoutes) /\ req.path \in Seq(STRING)
  <1>1. Init => Inv
    BY FilesAssumption DEF Init, FilesAssumption
  <1>2. Inv /\ [Next]_vars => Inv'
    BY DEF Next, vars, requestVars, Handler, Route, Serve, Refuse, TryIndex, Forbid, List,
           NotModified, Open, FileHeaders, ReadChunk, SendChunk, EndOfFile, PageHeaders, PageBody,
           SendPage, ErrorPage, ReadFails, EndBody, Reset, CloseConnection, Credit, Resize, Rename
  <1>3. Inv => RoutedToMostSpecific
    BY FindsMostSpecific DEF RoutedToMostSpecific
  <1> QED  BY <1>1, <1>2, <1>3, PTL DEF Spec
-----------------------------------------------------------------------------
(* The paths the file system is asked for.  Clean is a function that recurs *)
(* over the path: that such a function exists, and that each of its values  *)
(* follows from the one before, is shown by the least length where not.     *)

Walks(f, p, n) == f = [i \in 0 .. n |-> IF i = 0 THEN <<>> ELSE Enter(f[i - 1], p[i])]

LEMMA CleanWalks == ASSUME NEW p PROVE Clean(p) = (CHOOSE f : Walks(f, p, Len(p)))[Len(p)]
  BY DEF Clean, Walks

LEMMA WalkExists == ASSUME NEW p, NEW n \in Nat PROVE \E f : Walks(f, p, n)
  <1> DEFINE Bad == {m \in Nat : ~ \E f : Walks(f, p, m)}
  <1>1. SUFFICES ASSUME Bad # {} PROVE FALSE
    OBVIOUS
  <1>2. PICK m \in Bad : \A k \in Bad : m <= k
    <2>1. Bad \in SUBSET Nat
      OBVIOUS
    <2> HIDE DEF Bad
    <2> QED  BY <1>1, <2>1, LeastElement
  <1>3. CASE m = 0
    <2> DEFINE g == [i \in 0 .. m |-> <<>>]
    <2>1. g = [i \in 0 .. m |-> IF i = 0 THEN <<>> ELSE Enter(g[i - 1], p[i])]
      BY <1>3
    <2> QED  BY <1>2, <2>1 DEF Walks
  <1>4. CASE m # 0
    <2>1. m - 1 \in Nat /\ m \in Nat /\ m - 1 \notin Bad
      BY <1>2, <1>4
    <2>2. PICK f : Walks(f, p, m - 1)
      BY <2>1
    <2> DEFINE g == [i \in 0 .. m |-> IF i = m THEN Enter(f[m - 1], p[m]) ELSE f[i]]
    <2>3. ASSUME NEW i \in 0 .. m PROVE g[i] = IF i = 0 THEN <<>> ELSE Enter(g[i - 1], p[i])
      <3>1. CASE i = m
        <4>1. g[i] = Enter(f[m - 1], p[m]) /\ g[m - 1] = f[m - 1]
          BY <2>1, <3>1
        <4> QED  BY <1>4, <3>1, <4>1
      <3>2. CASE i # m
        <4>1. i \in 0 .. m - 1 /\ g[i] = f[i]
          BY <2>1, <3>2
        <4>2. f[i] = IF i = 0 THEN <<>> ELSE Enter(f[i - 1], p[i])
          BY <2>2, <4>1 DEF Walks
        <4>3. i # 0 => g[i - 1] = f[i - 1]
          BY <2>1, <4>1
        <4> QED  BY <4>1, <4>2, <4>3
      <3> QED  BY <3>1, <3>2
    <2>4. g = [i \in 0 .. m |-> IF i = 0 THEN <<>> ELSE Enter(g[i - 1], p[i])]
      BY <2>3
    <2> HIDE DEF g
    <2> QED  BY <1>2, <2>4 DEF Walks
  <1> QED  BY <1>3, <1>4

\* A path without "..".
Upright(p) == p \in Seq(STRING) /\ \A i \in DOMAIN p : p[i] # ".."

LEMMA EnterUpright ==
    ASSUME NEW dir, Upright(dir), NEW name \in STRING PROVE Upright(Enter(dir, name))
  <1>1. CASE name \in {"", "."}
    BY <1>1 DEF Enter
  <1>2. CASE name = ".."
    <2>1. Enter(dir, name) = SubSeq(dir, 1, Len(dir) - 1)
      BY <1>2 DEF Enter
    <2>2. CASE dir = <<>>
      <3>1. SubSeq(dir, 1, Len(dir) - 1) = <<>>
        BY <2>2
      <3> QED  BY <2>1, <3>1 DEF Upright
    <2>3. CASE dir # <<>>
      BY <2>1, <2>3 DEF Upright
    <2> QED  BY <2>2, <2>3
  <1>3. CASE name \notin {"", ".", ".."}
    <2>1. Enter(dir, name) = Append(dir, name)
      BY <1>3 DEF Enter
    <2>2. dir \in Seq(STRING) /\ \A i \in DOMAIN dir : dir[i] # ".."
      BY DEF Upright
    <2>3. Append(dir, name) \in Seq(STRING) /\ Len(Append(dir, name)) = Len(dir) + 1
      BY <2>2
    <2>4. ASSUME NEW i \in DOMAIN Append(dir, name) PROVE Append(dir, name)[i] # ".."
      <3>1. i \in 1 .. Len(dir) + 1
        BY <2>2, <2>3
      <3>2. CASE i = Len(dir) + 1
        <4>1. Append(dir, name)[i] = name  BY <2>2, <3>2
        <4> QED  BY <1>3, <4>1
      <3>3. CASE i # Len(dir) + 1
        <4>1. i \in DOMAIN dir /\ Append(dir, name)[i] = dir[i]  BY <2>2, <3>1, <3>3
        <4> QED  BY <2>2, <4>1
      <3> QED  BY <3>2, <3>3
    <2> QED  BY <2>1, <2>3, <2>4 DEF Upright
  <1> QED  BY <1>1, <1>2, <1>3

\* What Clean returns has no ".." left in it.
LEMMA CleanUpright == ASSUME NEW p \in Seq(STRING) PROVE Upright(Clean(p))
  <1> DEFINE f == CHOOSE f : Walks(f, p, Len(p))
             Bad == {m \in 0 .. Len(p) : ~ Upright(f[m])}
  <1>1. Len(p) \in Nat /\ Walks(f, p, Len(p)) /\ Clean(p) = f[Len(p)]
    <2>1. Len(p) \in Nat
      OBVIOUS
    <2>2. \E g : Walks(g, p, Len(p))
      BY <2>1, WalkExists
    <2>3. Walks(f, p, Len(p))
      BY <2>2
    <2> QED  BY <2>1, <2>3, CleanWalks
  <1> HIDE DEF f
  <1>2. SUFFICES ASSUME Bad # {} PROVE FALSE
    BY <1>1
  <1>3. PICK m \in Bad : \A k \in Bad : m <= k
    <2>1. Bad \in SUBSET Nat
      BY <1>1
    <2> HIDE DEF Bad
    <2> QED  BY <1>2, <2>1, LeastElement
  <1>4. CASE m = 0
    <2>1. f[m] = <<>>
      BY <1>1, <1>4 DEF Walks
    <2>2. Upright(<<>>)
      <3>1. <<>> \in Seq(STRING) /\ DOMAIN <<>> = {}
        OBVIOUS
      <3> QED  BY <3>1 DEF Upright
    <2> QED  BY <1>3, <2>1, <2>2
  <1>5. CASE m # 0
    <2>1. m - 1 \in 0 .. Len(p) /\ m \in 1 .. Len(p) /\ Upright(f[m - 1])
      BY <1>1, <1>3, <1>5
    <2>2. f[m] = Enter(f[m - 1], p[m]) /\ p[m] \in STRING
      BY <1>1, <2>1 DEF Walks
    <2> QED  BY <1>3, <2>1, <2>2, EnterUpright
  <1> QED  BY <1>4, <1>5

\* At or below the document root, and canonical.
Inside(p) == Upright(p) /\ IsWithinRoot(p)

\* Every path that was asked for is, and so is the one the handler is at.  Only
\* a caller that sets a pattern gets past the context, and its paths are paths.
Rooted ==
    /\ context.type = "string" => path \in Seq(STRING) /\ context.pattern \in Seq(STRING) \ {<<>>}
    /\ pc \in {"directory", "file"} => Inside(target)
    /\ \A p \in seen : Inside(p)

LEMMA CleanRoot == Clean(Root) \in Seq(STRING)
  BY FilesAssumption, CleanUpright DEF FilesAssumption, Upright

LEMMA SomeIndex == ASSUME index \in 0 .. Len(IndexFiles), index < Len(IndexFiles)
                   PROVE  index + 1 \in DOMAIN IndexFiles /\ IndexFiles[index + 1] \in STRING
  BY FilesAssumption DEF FilesAssumption

\* A name that is joined to a directory below the root stays below it, but for "..".
LEMMA EntryInside ==
    ASSUME NEW p, Inside(p), NEW name \in STRING, name # ".." PROVE Inside(Enter(p, name))
  <1>1. Upright(Enter(p, name))
    BY EnterUpright DEF Inside
  <1>2. CASE name \in {"", "."}
    BY <1>2 DEF Enter
  <1>3. CASE name \notin {"", "."}
    <2> DEFINE r == Clean(Root)
    <2>1. p \in Seq(STRING) /\ r \in Seq(STRING) /\ Len(r) \in Nat /\ Len(p) \in Nat
      BY CleanRoot DEF Inside, Upright
    <2>2. Len(p) >= Len(r) /\ SubSeq(p, 1, Len(r)) = r
      BY DEF Inside, IsWithinRoot
    <2>3. Enter(p, name) = Append(p, name)
      BY <1>3 DEF Enter
    <2> HIDE DEF r
    <2>4. SubSeq(Append(p, name), 1, Len(r)) = SubSeq(p, 1, Len(r))
      BY <2>1, <2>2
    <2>5. Len(Append(p, name)) >= Len(r)
      BY <2>1, <2>2
    <2> QED  BY <1>1, <2>2, <2>3, <2>4, <2>5 DEF r, IsWithinRoot, Inside
  <1> QED  BY <1>2, <1>3

LEMMA InitRooted == ASSUME Init PROVE Rooted
  <1>1. seen = {} /\ pc \notin {"directory", "file"}
    BY DEF Init
  <1>2. context.type = "string" => path \in Seq(STRING) /\ context.pattern \in Seq(STRING) \ {<<>>}
    <2>1. PICK r \in Requests : path = r.path
      BY DEF Init
    <2>2. path \in Seq(STRING)
      BY <2>1, FilesAssumption DEF FilesAssumption
    <2>3. \/ context = NoContext
          \/ \E q \in Prefixes : context = [type |-> "string", pattern |-> q.pattern]
      BY DEF Init
    <2>4. \A q \in Prefixes : q.pattern \in Seq(STRING) \ {<<>>}
      BY RoutesAssumption DEF RoutesAssumption, Prefixes, ValidRoute
    <2>5. CASE context = NoContext
      BY <2>5 DEF NoContext
    <2>6. ASSUME NEW q \in Prefixes, context = [type |-> "string", pattern |-> q.pattern]
          PROVE  context.pattern \in Seq(STRING) \ {<<>>}
      BY <2>4, <2>6
    <2> QED  BY <2>2, <2>3, <2>5, <2>6
  <1> QED  BY <1>1, <1>2 DEF Rooted

\* An error page asks for nothing, nor does anything else but a step of the handler.
LEMMA ErrorPageRooted ==
    ASSUME Rooted, NEW code, ErrorPage(code), UNCHANGED seen PROVE Rooted'
  BY DEF Rooted, ErrorPage, placeVars, Inside

LEMMA ServeRooted == ASSUME Rooted, Serve PROVE Rooted'
  <1>1. CASE req.method = "OPTIONS"
    BY <1>1 DEF Serve, Rooted, placeVars, Inside
  <1>2. CASE \E code \in {403, 404, 500} : ErrorPage(code) /\ UNCHANGED seen
    BY <1>2, ErrorPageRooted
  <1>3. CASE /\ req.method # "OPTIONS"
             /\ ~ \E code \in {403, 404, 500} : ErrorPage(code) /\ UNCHANGED seen
    <2> DEFINE p == Resolve(AfterPrefix(path, context.pattern))
    <2>1. /\ context.type = "string" /\ HasPrefix(path, context.pattern) /\ IsWithinRoot(p)
          /\ \E found \in Stat(p) :
                /\ seen' = seen \cup {p}
                /\ \/ found = "absent" /\ ErrorPage(404)
                   \/ found = "denied" /\ ErrorPage(403)
                   \/ found = "faulty" /\ ErrorPage(500)
                   \/ /\ IF found = "dir" THEN target' = p /\ pc' = "directory"
                                          ELSE FoundFile(p, found)
                      /\ UNCHANGED <<path, context>>
      BY <1>3 DEF Serve
    <2>2. Inside(p)
      <3>1. path \in Seq(STRING) /\ context.pattern \in Seq(STRING) \ {<<>>}
        BY <2>1 DEF Rooted
      <3>2. Root \o AfterPrefix(path, context.pattern) \in Seq(STRING)
        <4>1. Len(context.pattern) \in 1 .. Len(path)
          BY <2>1, <3>1 DEF HasPrefix
        <4>2. Root \in Seq(STRING)
          BY FilesAssumption DEF FilesAssumption
        <4>3. AfterPrefix(path, context.pattern) \in Seq(STRING)
          BY <3>1, <4>1 DEF AfterPrefix
        <4> QED  BY <4>2, <4>3
      <3> QED  BY <2>1, <3>2, CleanUpright DEF Inside, Resolve
    <2> HIDE DEF p
    <2>3. /\ seen' = seen \cup {p} /\ path' = path /\ context' = context
          /\ pc' \in {"directory", "file"} => target' = p
      BY <2>1 DEF ErrorPage, FoundFile, placeVars
    <2> QED  BY <2>2, <2>3 DEF Rooted, Inside
  <1> QED  BY <1>1, <1>2, <1>3

LEMMA IndexRooted ==
    ASSUME Rooted, TypeOK, \A i \in DOMAIN IndexFiles : IndexFiles[i] # "..", TryIndex
    PROVE  Rooted'
  <1> DEFINE p == Enter(target, IndexFiles[index + 1])
  <1>1. /\ pc = "directory" /\ seen' = seen \cup {p} /\ UNCHANGED <<path, context>>
        /\ target' = p \/ UNCHANGED target
    BY DEF TryIndex, FoundFile
  <1>2. Inside(target) /\ Inside(p)
    <2>1. index + 1 \in DOMAIN IndexFiles /\ IndexFiles[index + 1] \in STRING
      BY SomeIndex DEF TryIndex, TypeOK
    <2> QED  BY <1>1, <2>1, EntryInside DEF Rooted
  <1> HIDE DEF p
  <1> QED  BY <1>1, <1>2 DEF Rooted, Inside

LEMMA StepRooted ==
    ASSUME Rooted, TypeOK, \A i \in DOMAIN IndexFiles : IndexFiles[i] # "..",
           Next \/ UNCHANGED vars
    PROVE  Rooted'
  <1>1. CASE Serve  BY <1>1, ServeRooted
  <1>2. CASE TryIndex  BY <1>2, IndexRooted
  <1>3. CASE Route
    BY <1>3 DEF Route, ErrorPage, placeVars, Rooted, Inside
  <1>4. CASE List \/ Open
    <2>1. /\ pc \in {"directory", "file"} /\ seen' \subseteq seen \cup {target}
          /\ UNCHANGED <<path, context, target>>
      BY <1>4 DEF List, Open, ErrorPage, placeVars
    <2> QED  BY <2>1 DEF Rooted, Inside
  <1>5. CASE \/ UNCHANGED vars \/ Refuse \/ Forbid \/ NotModified \/ FileHeaders \/ ReadChunk
             \/ SendChunk \/ EndOfFile \/ PageHeaders \/ PageBody \/ SendPage \/ ReadFails
             \/ EndBody \/ Reset \/ CloseConnection \/ Credit
             \/ (\E i \in Inodes : Resize(i)) \/ \E p \in DOMAIN Disk : Rename(p)
    <2>1. /\ UNCHANGED <<seen, placeVars>> \/ UNCHANGED <<seen, path, context, target>>
          /\ pc' = pc \/ pc' \notin {"directory", "file"}
      BY <1>5 DEF vars, Refuse, Forbid, NotModified, FileHeaders, ReadChunk, SendChunk, EndOfFile,
           PageHeaders, PageBody, SendPage, ReadFails, EndBody, Reset, CloseConnection, Credit,
           Resize, Rename, ErrorPage, placeVars
    <2> QED  BY <2>1 DEF Rooted, Inside, placeVars
  <1> QED  BY <1>1, <1>2, <1>3, <1>4, <1>5 DEF Next, Handler

LEMMA RootedStays == ASSUME Rooted PROVE StaysInRoot
  <1>1. SUFFICES ASSUME NEW p \in seen
                 PROVE  /\ \E n \in 0 .. Len(p) :
                               p = Clean(Root) \o SubSeq(p, Len(p) - n + 1, Len(p))
                        /\ \A i \in DOMAIN p : p[i] # ".."
    BY DEF StaysInRoot
  <1> DEFINE r == Clean(Root)
  <1>2. /\ p \in Seq(STRING) /\ \A i \in DOMAIN p : p[i] # ".."
        /\ Len(p) >= Len(r) /\ SubSeq(p, 1, Len(r)) = r /\ r \in Seq(STRING)
    BY CleanRoot DEF Rooted, Inside, Upright, IsWithinRoot
  <1> HIDE DEF r
  <1>3. Len(p) - Len(r) \in 0 .. Len(p) /\ Len(p) - (Len(p) - Len(r)) = Len(r)
        /\ Len(p) \in Nat /\ Len(r) \in Nat
    BY <1>2
  <1>4. p = SubSeq(p, 1, Len(r)) \o SubSeq(p, Len(r) + 1, Len(p))
    <2>1. 1 \in 1 .. Len(p) + 1 /\ Len(r) \in 1 - 1 .. Len(p) /\ Len(p) \in Len(r) .. Len(p)
      BY <1>2, <1>3
    <2>2. SubSeq(p, 1, Len(r)) \o SubSeq(p, Len(r) + 1, Len(p)) = SubSeq(p, 1, Len(p))
      BY <1>2, <2>1, ConcatAdjacentSubSeq
    <2> QED  BY <1>2, <2>2, SubSeqFull
  <1>5. p = r \o SubSeq(p, Len(p) - (Len(p) - Len(r)) + 1, Len(p))
    BY <1>2, <1>3, <1>4
  <1> QED  BY <1>2, <1>3, <1>5 DEF r

\* The file system is asked for nothing outside the document root, whatever the
\* request's path is (_resolvePath), when no index file is called "..": nothing
\* makes handleDirectory look at the path it joins, and validateConfig only
\* refuses an empty name.
THEOREM StaysInsideRoot ==
    ASSUME \A i \in DOMAIN IndexFiles : IndexFiles[i] # ".." PROVE Spec => []StaysInRoot
  <1>1. Init => Rooted
    BY InitRooted
  <1>2. Rooted /\ TypeOK /\ [Next]_vars => Rooted'
    BY StepRooted
  <1>3. Rooted => StaysInRoot
    BY RootedStays
  <1> QED  BY <1>1, <1>2, <1>3, FileTypes, PTL DEF Spec
====

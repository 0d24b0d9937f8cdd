----------------------------- MODULE FileServing -----------------------------
(***************************************************************************)
(* One request for a file: the router picks the handler and rewrites the   *)
(* path (internal/router/router.go), the static file handler resolves it   *)
(* against the document root and sends the file, a listing or an error     *)
(* page (internal/handlers/staticfile, internal/server/errors.go), while   *)
(* others change the files.  A file system path is the sequence of its     *)
(* names, a file its inode; the stream is whether it still takes frames,   *)
(* and what a write to it waits for.                                       *)
(***************************************************************************)
EXTENDS Routing, FiniteSets

CONSTANTS
    Requests,     \* [method, path, cached]: cached, its validators are current
    Callers,      \* "router", and "test": the package's tests call the handler
    Inodes,
    Root,         \* DocumentRoot
    IndexFiles,   \* names without a slash
    Listings,     \* the values of ServeDirectoryListing a route may have
    Disk, Sizes,  \* at the start: what each path names, how long each file is
    Chunk,        \* bytes a Read returns at most: 32768 in the code
    MaxSize,      \* bound: bytes of a file
    MaxChanges    \* bound: changes of the file system

ASSUME FilesAssumption ==
    /\ Callers \subseteq {"router", "test"} /\ Listings \subseteq BOOLEAN
    /\ Root \in Seq(STRING) /\ IndexFiles \in Seq(STRING)
    /\ \A r \in Requests : r.path \in Seq(STRING)
    /\ Disk \in [DOMAIN Disk -> Inodes \cup {"dir", "absent"}]
    /\ MaxSize \in Nat /\ Sizes \in [Inodes -> 0 .. MaxSize]
    /\ Chunk \in Nat \ {0} /\ MaxChanges \in Nat

VARIABLES
    prefixRoutes, \* r.prefixRoutes
    listing,      \* ServeDirectoryListing of the handler
    req,          \* the request, and who calls the handler
    body,         \* the request's body: "open" or "ended"
    reset,        \* the stream takes no more frames
    waits,        \* whose window AcquireSendSpace waits for: "stream", "conn" or "none"
    disk, size,   \* the file system
    changes,      \* how often it has changed
    pc,           \* where the handler's goroutine is
    path,         \* req.URL.Path as the handler sees it
    context,      \* the value of MatchedPathPatternKey: its type, its pattern
    target,       \* the path the handler is at
    info,         \* fileInfo: the inode, and the size that Stat returned
    index,        \* the entries of IndexFiles it has tried
    written,      \* writtenBytes
    status,       \* the status of the error page under way
    resp,         \* history: what the stream was given
    seen,         \* history: the paths given to Stat, ReadDir and Open
    disturbed     \* history: the file changed since its Stat, or a Read failed

requestVars == <<prefixRoutes, listing, req>>
diskVars == <<disk, size, changes>>
placeVars == <<path, context, target, info, index>>
clientVars == <<body, reset, waits>>
vars == <<requestVars, clientVars, diskVars, pc, placeVars, written, status, resp,
          seen, disturbed>>

NoContext == [type |-> "none", pattern |-> <<>>]
NoInfo == [inode |-> "none", size |-> 0]
NoResponse == [status |-> 0, announced |-> 0, sent |-> 0, ended |-> FALSE]

\* The tests of the package pass the path as the client sent it, and a pattern.
Init ==
    /\ prefixRoutes \in {l \in [1 .. Cardinality(Prefixes) -> Prefixes] : IsTable(l)}
    /\ \E r \in Requests, c \in Callers :
          /\ req = [method |-> r.method, path |-> r.path, cached |-> r.cached, by |-> c]
          /\ path = r.path
          /\ \/ c = "router" /\ pc = "route" /\ context = NoContext
             \/ /\ c = "test" /\ pc = "serve"
                /\ \E q \in Prefixes : context = [type |-> "string", pattern |-> q.pattern]
    /\ listing \in Listings /\ body \in {"open", "ended"} /\ reset = FALSE /\ waits = "none"
    /\ disk = Disk /\ size = Sizes /\ changes = 0
    /\ target = <<>> /\ info = NoInfo /\ index = 0 /\ written = 0 /\ status = 0
    /\ resp = NoResponse /\ seen = {} /\ disturbed = FALSE
----------------------------------------------------------------------------
(* The stream: SendHeaders and WriteData fail once it is reset or ended.    *)

SendHeaders(code, length, end) ==
    IF reset THEN UNCHANGED resp
    ELSE resp' = [status |-> code, announced |-> length, sent |-> 0, ended |-> end]

WriteFails == reset \/ resp.ended

WriteData(n, end) ==
    IF WriteFails THEN UNCHANGED resp
    ELSE resp' = [resp EXCEPT !.sent = @ + n, !.ended = end]

\* WriteData has found the stream open: it may have its credit at once or has to wait.  In
\* which parts it gets credit and sends is StreamWrite's subject.
Acquire == waits' \in {"none", "stream", "conn"} /\ UNCHANGED <<body, reset>>

\* SendDefaultErrorResponse: a page of one byte, whatever the method.
Page == 1
ErrorPage(code) == /\ pc' = "page" /\ status' = code
                   /\ UNCHANGED <<requestVars, clientVars, diskVars, placeVars, written,
                                  resp, disturbed>>

PageHeaders ==
    /\ pc = "page"
    /\ SendHeaders(status, Page, FALSE)
    /\ pc' = IF reset THEN "done" ELSE "pageBody"
    /\ UNCHANGED <<requestVars, clientVars, diskVars, placeVars, written, status, seen,
                   disturbed>>

PageBody ==
    /\ pc = "pageBody"
    /\ \/ WriteFails /\ pc' = "done" /\ UNCHANGED clientVars
       \/ ~ WriteFails /\ pc' = "pageWrite" /\ Acquire
    /\ UNCHANGED <<requestVars, diskVars, placeVars, written, status, resp, seen,
                   disturbed>>

SendPage ==
    /\ pc = "pageWrite" /\ waits = "none"
    /\ WriteData(Page, TRUE)
    /\ pc' = "done"
    /\ UNCHANGED <<requestVars, clientVars, diskVars, placeVars, written, status, seen,
                   disturbed>>
----------------------------------------------------------------------------
(* Router.ServeHTTP.  CreateHandler reads the route's configuration and its *)
(* MIME types anew for each request, and may fail.                          *)

Route ==
    /\ pc = "route"
    /\ LET r == FindRoute(prefixRoutes, req.path) IN
          \/ r = NoRoute /\ ErrorPage(404)
          \/ r # NoRoute /\ ErrorPage(500)
          \/ /\ r # NoRoute
             /\ path' = HandlerPath(r, req.path)
             /\ context' = [type |-> "Route", pattern |-> r.pattern]
             /\ pc' = "serve"
             /\ UNCHANGED <<requestVars, clientVars, diskVars, target, info, index, written,
                            status, resp, disturbed>>
    /\ UNCHANGED seen

\* filepath.Join: "" and "." add nothing, ".." goes up, at most to "/".
Enter(dir, name) ==
    CASE name \in {"", "."} -> dir
      [] name = ".."        -> SubSeq(dir, 1, Len(dir) - 1)
      [] OTHER              -> Append(dir, name)

\* filepath.Clean, and what Join and Abs do to a whole path.
Clean(p) ==
    LET upTo[i \in 0 .. Len(p)] == IF i = 0 THEN <<>> ELSE Enter(upTo[i - 1], p[i])
    IN upTo[Len(p)]

Resolve(sub) == Clean(Root \o sub)

\* Mutation of IsWithinRoot: nothing is checked after the path is made canonical.
IsAnywhere(p) == TRUE

\* The names of cleanedDocumentRoot, then others.
IsWithinRoot(p) == Len(p) >= Len(Clean(Root)) /\ SubSeq(p, 1, Len(Clean(Root))) = Clean(Root)

\* os.Stat: what is there, or an error of the file system.
Stat(p) == {IF p \in DOMAIN disk THEN disk[p] ELSE "absent", "denied", "faulty"}

\* The handler goes on to the file with the size it has at this moment.
FoundFile(p, inode) ==
    /\ target' = p /\ info' = [inode |-> inode, size |-> size[inode]]
    /\ disturbed' = FALSE
    /\ pc' = "file"

\* ServeHTTP2 up to the file or the directory.
Serve ==
    /\ pc = "serve"
    /\ IF req.method = "OPTIONS" THEN
          /\ SendHeaders(204, 0, TRUE) /\ pc' = "done"
          /\ UNCHANGED <<requestVars, clientVars, diskVars, placeVars, written, status,
                         seen, disturbed>>
       ELSE IF context.type # "string" \/ ~ HasPrefix(path, context.pattern) THEN
          ErrorPage(500) /\ UNCHANGED seen
       ELSE LET p == Resolve(AfterPrefix(path, context.pattern)) IN
          IF ~ IsWithinRoot(p) THEN ErrorPage(404) /\ UNCHANGED seen
          ELSE \E found \in Stat(p) :
             /\ seen' = seen \cup {p}
             /\ \/ found = "absent" /\ ErrorPage(404)
                \/ found = "denied" /\ ErrorPage(403)
                \/ found = "faulty" /\ ErrorPage(500)
                \/ /\ found \in Inodes \cup {"dir"}
                   /\ IF found = "dir" THEN target' = p /\ pc' = "directory"
                                            /\ UNCHANGED <<info, disturbed>>
                                       ELSE FoundFile(p, found)
                   /\ UNCHANGED <<requestVars, clientVars, diskVars, path, context, index,
                                  written, status, resp>>

\* A method that is neither GET nor HEAD is refused once its body is read.
Refuse ==
    /\ pc \in {"file", "directory"} /\ req.method \notin {"GET", "HEAD"}
    /\ body = "ended" \/ reset
    /\ ErrorPage(405)
    /\ UNCHANGED seen
----------------------------------------------------------------------------
(* handleDirectory                                                          *)

Asked == req.method \in {"GET", "HEAD"}

TryIndex ==
    /\ pc = "directory" /\ Asked /\ index < Len(IndexFiles)
    /\ LET p == Enter(target, IndexFiles[index + 1]) IN
       \E found \in Stat(p) :
          /\ seen' = seen \cup {p}
          /\ IF found \in Inodes THEN FoundFile(p, found) /\ UNCHANGED index
             ELSE index' = index + 1 /\ UNCHANGED <<pc, target, info, disturbed>>
    /\ UNCHANGED <<requestVars, clientVars, diskVars, path, context, written, status, resp>>

Forbid ==
    /\ pc = "directory" /\ Asked /\ index = Len(IndexFiles)
    /\ ~ listing /\ ErrorPage(403) /\ UNCHANGED seen

\* os.ReadDir, then a page of Page bytes, which a HEAD goes without.
List ==
    /\ pc = "directory" /\ Asked /\ index = Len(IndexFiles) /\ listing
    /\ seen' = seen \cup {target}
    /\ \/ ErrorPage(500)
       \/ /\ target \in DOMAIN disk /\ disk[target] = "dir"
          /\ SendHeaders(200, Page, req.method = "HEAD")
          /\ pc' = IF reset \/ req.method = "HEAD" THEN "done" ELSE "pageBody"
          /\ UNCHANGED <<requestVars, clientVars, diskVars, placeVars, written, status,
                         disturbed>>
----------------------------------------------------------------------------
(* handleFile                                                               *)

NotModified ==
    /\ pc = "file" /\ Asked /\ req.cached
    /\ SendHeaders(304, 0, TRUE) /\ pc' = "done"
    /\ UNCHANGED <<requestVars, clientVars, diskVars, placeVars, written, status, seen,
                   disturbed>>

\* A GET opens what the path names now, which need not be what Stat saw.
Open ==
    /\ pc = "file" /\ Asked /\ ~ req.cached
    /\ IF req.method = "HEAD" THEN pc' = "headers" /\ UNCHANGED <<info, seen, disturbed, status>>
       ELSE \E found \in Stat(target) :
          /\ seen' = seen \cup {target}
          /\ IF found \in Inodes
             THEN /\ info' = [info EXCEPT !.inode = found]
                  /\ disturbed' = (disturbed \/ found # info.inode)
                  /\ pc' = "headers" /\ UNCHANGED status
             ELSE /\ pc' = "page" /\ status' = IF found = "denied" THEN 403 ELSE 500
                  /\ UNCHANGED <<info, disturbed>>
    /\ UNCHANGED <<requestVars, clientVars, diskVars, path, context, target, index, written,
                   resp>>

\* Mutation of EndsWithHeaders: an empty file's response is left open.
EndsForHead == req.method = "HEAD"

EndsWithHeaders == req.method = "HEAD" \/ info.size = 0

FileHeaders ==
    /\ pc = "headers"
    /\ SendHeaders(200, info.size, EndsWithHeaders)
    /\ pc' = IF reset \/ EndsWithHeaders THEN "done" ELSE "read"
    /\ UNCHANGED <<requestVars, clientVars, diskVars, placeVars, written, status, seen,
                   disturbed>>

\* Mutation of IsLastChunk: the announced size may be passed.
IsLastChunkOrMore(total) == total >= info.size

IsLastChunk(total) == total = info.size

Read(left) == IF left < Chunk THEN left ELSE Chunk

\* A round of the loop: Read, and WriteData of what it returned.
ReadChunk ==
    /\ pc = "read"
    /\ written < size[info.inode]
    /\ written' = written + Read(size[info.inode] - written)
    /\ \/ WriteFails /\ pc' = "done" /\ UNCHANGED clientVars
       \/ ~ WriteFails /\ pc' = "write" /\ Acquire
    /\ UNCHANGED <<requestVars, diskVars, placeVars, status, resp, seen, disturbed>>

SendChunk ==
    /\ pc = "write" /\ waits = "none"
    /\ WriteData(written - resp.sent, IsLastChunk(written))
    /\ pc' = IF WriteFails THEN "done" ELSE "read"
    /\ UNCHANGED <<requestVars, clientVars, diskVars, placeVars, written, status, seen,
                   disturbed>>

\* Mutation of EndOfFile: the handler waits for the bytes it has announced.
EndOfWholeFile ==
    /\ pc = "read" /\ written >= size[info.inode] /\ written >= info.size
    /\ pc' = "done"
    /\ UNCHANGED <<requestVars, clientVars, diskVars, placeVars, written, status, resp, seen,
                   disturbed>>

EndOfFile ==
    /\ pc = "read" /\ written >= size[info.inode]
    /\ pc' = "done"
    /\ UNCHANGED <<requestVars, clientVars, diskVars, placeVars, written, status, resp, seen,
                   disturbed>>

ReadFails ==
    /\ pc = "read"
    /\ pc' = "done" /\ disturbed' = TRUE
    /\ UNCHANGED <<requestVars, clientVars, diskVars, placeVars, written, status, resp, seen>>
----------------------------------------------------------------------------
(* The client and the rest of the world, as long as the handler runs.       *)

EndBody ==
    /\ pc # "done"
    /\ body = "open" /\ body' = "ended"
    /\ UNCHANGED <<requestVars, reset, waits, diskVars, pc, placeVars, written, status, resp, seen,
                   disturbed>>

\* The stream is reset, and its window closed; the connection's is not.
Reset ==
    /\ pc # "done"
    /\ ~ reset /\ reset' = TRUE
    /\ waits' = IF waits = "stream" THEN "none" ELSE waits
    /\ UNCHANGED <<requestVars, body, diskVars, pc, placeVars, written, status, resp, seen,
                   disturbed>>

\* The connection closes, with its streams and windows.
CloseConnection ==
    /\ pc # "done"
    /\ ~ reset \/ waits # "none"
    /\ reset' = TRUE /\ waits' = "none"
    /\ UNCHANGED <<requestVars, body, diskVars, pc, placeVars, written, status, resp, seen,
                   disturbed>>

\* The client opens a window.
Credit ==
    /\ waits # "none" /\ waits' \in {"none", "stream", "conn"} \ {waits}
    /\ reset => waits' # "stream"
    /\ UNCHANGED <<requestVars, body, reset, diskVars, pc, placeVars, written, status, resp,
                   seen, disturbed>>

\* A program writes to a file or cuts it off.
Resize(i) ==
    /\ pc # "done"
    /\ changes < MaxChanges /\ changes' = changes + 1
    /\ \E n \in 0 .. MaxSize : n # size[i] /\ size' = [size EXCEPT ![i] = n]
    /\ disturbed' = (disturbed \/ i = info.inode)
    /\ UNCHANGED <<requestVars, clientVars, disk, pc, placeVars, written, status, resp, seen>>

\* A path is given to another file, or removed.
Rename(p) ==
    /\ pc # "done"
    /\ changes < MaxChanges /\ changes' = changes + 1
    /\ disk[p] # "dir"
    /\ \E i \in Inodes \cup {"absent"} : i # disk[p] /\ disk' = [disk EXCEPT ![p] = i]
    /\ UNCHANGED <<requestVars, clientVars, size, pc, placeVars, written, status, resp, seen,
                   disturbed>>

Handler ==
    \/ Route \/ Serve \/ Refuse \/ TryIndex \/ Forbid \/ List \/ NotModified \/ Open
    \/ FileHeaders \/ ReadChunk \/ SendChunk \/ EndOfFile \/ PageHeaders \/ PageBody \/ SendPage

Next ==
    \/ Handler \/ ReadFails \/ EndBody \/ Reset \/ CloseConnection \/ Credit
    \/ \E i \in Inodes : Resize(i)
    \/ \E p \in DOMAIN Disk : Rename(p)

\* The handler's goroutine runs while it can.  Nothing makes a client end its
\* body or open its windows, a Read fail, or anyone touch the files.
Fairness == WF_vars(Handler)

Spec == Init /\ [][Next]_vars /\ Fairness
----------------------------------------------------------------------------
(* Properties.                                                              *)

\* Types and ranges.
TypeOK ==
    /\ IsTable(prefixRoutes) /\ body \in {"open", "ended"} /\ reset \in BOOLEAN
    /\ waits \in {"none", "stream", "conn"}
    /\ disk \in [DOMAIN Disk -> Inodes \cup {"dir", "absent"}]
    /\ size \in [Inodes -> Nat] /\ changes \in 0 .. MaxChanges
    /\ pc \in {"route", "serve", "directory", "file", "headers", "read", "write", "page",
               "pageBody", "pageWrite", "done"}
    /\ info \in [inode : Inodes \cup {"none"}, size : Nat]
    /\ index \in 0 .. Len(IndexFiles) /\ written \in Nat
    /\ status \in {0, 403, 404, 405, 500} /\ disturbed \in BOOLEAN
    /\ resp \in [status : Nat, announced : Nat, sent : Nat, ended : BOOLEAN]

\* END_STREAM says that the content is complete: a response that has it, and is
\* not for a HEAD, brought exactly the bytes of its content-length, whatever
\* was done to the file between Stat, Open and the reads (handleFile's
\* isLastChunk; WriteErrorResponse; the listing).
EndMeansWhole ==
    resp.ended /\ req.method # "HEAD" => resp.sent = resp.announced

\* A handler that returns has ended its response, unless the stream was reset,
\* or the file changed under it or could not be read: no branch of ServeHTTP2,
\* handleDirectory and handleFile forgets END_STREAM.
CompleteUnlessDisturbed ==
    pc = "done" /\ ~ reset /\ ~ disturbed => resp.status # 0 /\ resp.ended

\* The file system is only asked for paths at or below the document root, with
\* no ".." left in them, whatever the request's path (_resolvePath).
StaysInRoot ==
    \A p \in seen :
        /\ \E n \in 0 .. Len(p) : p = Clean(Root) \o SubSeq(p, Len(p) - n + 1, Len(p))
        /\ \A i \in DOMAIN p : p[i] # ".."

\* The route found is the most specific one, in whatever order an unstable sort
\* left the table (NewRouter, FindRoute).
RoutedToMostSpecific ==
    req.by = "router" => MostSpecific(FindRoute(prefixRoutes, req.path), req.path)

\* Once the request's body has ended the handler returns, also when the file grows or
\* shrinks while it is read, unless it comes to wait, again and again, for credit that
\* the client need not give (AcquireSendSpace has no deadline).  Files change finitely
\* often here: one that grows for ever, and whose reads have passed the size announced,
\* is sent for ever.
HandlerReturns == body = "ended" ~> pc = "done" \/ waits # "none"

\* What the comment on MatchedPathPatternKey (router.go:20) and the one on its
\* use in ServeHTTP2 (staticfile.go:91) say: the handler gets the pattern from
\* the router, and so does not answer 500 before it has looked for a file.
FilesServed ==
    pc = "page" /\ status = 500 /\ seen = {} => context.type # "Route"

\* The answer to a HEAD has no content (specification 2.3.2).
HeadHasNoContent == req.method = "HEAD" => resp.sent = 0

\* No response brings more than it announced.
NeverMoreThanAnnounced == req.method # "HEAD" => resp.sent <= resp.announced

\* A response to which nothing happened but a change of its file ends.
EveryResponseEnds == pc = "done" /\ ~ reset => resp.ended
=============================================================================

------------------------------ MODULE ConnStreams ------------------------------
(***************************************************************************)
(* The streams of a server connection (internal/http2/conn.go): how the    *)
(* reader goroutine assembles header blocks, decides which stream a frame  *)
(* belongs to, creates and refuses streams, starts handlers and removes    *)
(* streams, while the handlers end or panic on their own.                  *)
(* The client is arbitrary: any frame on any stream at any time.  Ids are  *)
(* the odd stream identifiers, numbered in order; the frames' contents are *)
(* what the checks of the code tell apart.  Flow control is in RequestBody *)
(* and StreamWrite.                                                        *)
(***************************************************************************)
EXTENDS Integers, FiniteSets

CONSTANTS
    MaxId,      \* bound: the client uses streams 1..MaxId
    Limit,      \* ourMaxConcurrentStreams
    Restarting, \* bound: the streams on which the client gets more than one handler started
    MaxStarts   \* bound: and how many

ASSUME StreamsAssumption ==
    /\ MaxId \in Nat /\ Limit \in Nat
    /\ Restarting \subseteq 1..MaxId /\ MaxStarts \in Nat \ {0}

Ids == 1..MaxId

StartsOf(id) == IF id \in Restarting THEN MaxStarts ELSE 1

\* A decoded header block: are its pseudo-headers those of a request, wrong (unknown,
\* repeated, after other fields) or absent, as in trailers; is its content-length good.
Blocks == [pseudo : {"good", "bad", "none"}, length : BOOLEAN]

VARIABLES
    table,          \* the ids of c.streams
    state,          \* s.state of every stream, "idle" before it is created
    inbound,        \* concurrentStreamsInbound
    highest,        \* highestPeerInitiatedStreamID
    lastProcessed,  \* lastProcessedStreamID, which GOAWAY will carry
    peerRST,        \* the keys of peerRstStreamTimes
    parsed,         \* streams with requestHeaders
    ended,          \* streams with endStreamReceivedFromClient
    cutOff,         \* streams whose dataFrameChan a later header block has closed
    assembly,       \* the header block being assembled: its stream, 0 when there is none,
                    \* and the END_STREAM flag of its first frame
    rd,             \* the reader: at the top of its loop or in the handling of a DATA frame
    running,        \* handler goroutines of each stream
    sending,        \* of these, the ones that have checked the stream and have a frame with
                    \* END_STREAM in hand, s.mu released
    noting,         \* and the ones that have queued it and not taken s.mu again
    alive,          \* Serve has not returned an error
    started,        \* history: handlers started for each stream
    resets,         \* history: streams on which RST_STREAM was sent
    refused         \* history: streams refused because of the limit

tableVars == <<table, inbound, highest, lastProcessed, refused>>
streamVars == <<state, parsed, ended, cutOff>>
endVars == <<sending, noting>>
handlerVars == <<running, started, endVars>>
vars == <<tableVars, streamVars, handlerVars, peerRST, assembly, rd, alive, resets>>

NoBlock == [id |-> 0, end |-> FALSE]
AtTop == [pc |-> "top", id |-> 0, fits |-> TRUE, end |-> FALSE]

Init ==
    /\ table = {} /\ inbound = 0
    /\ highest = 0 /\ lastProcessed = 0
    /\ state = [id \in Ids |-> "idle"]
    /\ peerRST = {} /\ parsed = {} /\ ended = {} /\ cutOff = {}
    /\ assembly = NoBlock /\ rd = AtTop /\ alive = TRUE
    /\ running = [id \in Ids |-> 0]
    /\ sending = running /\ noting = running
    /\ started = [id \in Ids |-> 0]
    /\ resets = {} /\ refused = {}

Created == {id \in Ids : state[id] # "idle"}

--------------------------------------------------------------------------------
(* What a handler of frames may come to.                                       *)

\* An error that dispatchFrame returns and Serve does not answer with RST_STREAM.
Die == alive' = FALSE /\ UNCHANGED <<tableVars, streamVars, handlerVars, peerRST, resets>>

\* sendRSTStreamFrame, or a StreamError that Serve answers with it: the frame only, the
\* stream stays what it was.
QueueRST(id) ==
    /\ resets' = resets \union {id}
    /\ UNCHANGED <<tableVars, streamVars, handlerVars, peerRST, alive>>

Ignore == UNCHANGED <<tableVars, streamVars, handlerVars, peerRST, alive, resets>>

\* The reader is about to take a frame other than CONTINUATION; no header block is open.
Reading == alive /\ rd.pc = "top" /\ assembly = NoBlock

--------------------------------------------------------------------------------
(* Header blocks.                                                              *)

\* processRequestHeadersAndDispatch on stream id, whose other variables the caller sets:
\* a wrong content-length is a stream error before anything is noted, wrong
\* pseudo-headers are one afterwards, and missing ones end the connection.
Dispatch(id, block) ==
    IF ~block.length
    THEN /\ resets' = resets \union {id}
         /\ UNCHANGED <<parsed, running, started, alive>>
    ELSE /\ parsed' = parsed \union {id}
         /\ alive' = (block.pseudo # "none")
         /\ resets' = IF block.pseudo = "bad" THEN resets \union {id} ELSE resets
         /\ IF block.pseudo = "good"
            THEN /\ running' = [running EXCEPT ![id] = @ + 1]
                 /\ started' = [started EXCEPT ![id] = @ + 1]
            ELSE UNCHANGED <<running, started>>

\* Mutation of IsTrailers: END_STREAM is looked at, the earlier headers are not.
IsTrailersByFlag(id, end) == id \in table /\ end /\ id \in ended

\* A block on a stream whose request has been read and not ended.
IsTrailers(id, end) == id \in table /\ end /\ id \in parsed \ ended

\* A header block for a stream the connection knows.
MoreHeaders(id, block, end) ==
    CASE IsTrailers(id, end) /\ block.pseudo # "none" -> Die
      [] state[id] = "halfClosedRemote" -> QueueRST(id)
      [] state[id] = "closed" \/ ~end -> Die
      [] OTHER ->
           /\ Dispatch(id, block)
           /\ ended' = IF block.length THEN ended \union {id} ELSE ended
           /\ cutOff' = IF block.length THEN cutOff \union {id} ELSE cutOff
           /\ UNCHANGED <<tableVars, state, peerRST, endVars>>

\* Mutation of MayCreate: the limit itself is still allowed.
MayCreateOneMore == inbound <= Limit

\* canCreateStream
MayCreate == Limit > 0 /\ inbound < Limit

\* Mutation of Create: lastProcessedStreamID follows only streams without a body.
CreateLagging(id, end) ==
    /\ table' = table \union {id}
    /\ inbound' = inbound + 1
    /\ lastProcessed' = IF end THEN id ELSE lastProcessed
    /\ state' = [state EXCEPT ![id] = IF end THEN "halfClosedRemote" ELSE "open"]

\* createStream and the first transition of the new stream.
Create(id, end) ==
    /\ table' = table \union {id}
    /\ inbound' = inbound + 1
    /\ lastProcessed' = IF id > lastProcessed THEN id ELSE lastProcessed
    /\ state' = [state EXCEPT ![id] = IF end THEN "halfClosedRemote" ELSE "open"]

\* A header block for a stream the connection does not know: a new stream, if its
\* identifier is.  Its identifier is used up even when the stream is refused.
FirstHeaders(id, block, end) ==
    IF id <= highest THEN Die
    ELSE /\ highest' = id
         /\ IF ~MayCreate
            THEN /\ refused' = refused \union {id}
                 /\ resets' = resets \union {id}
                 /\ UNCHANGED <<table, inbound, lastProcessed, streamVars, handlerVars,
                                peerRST, alive>>
            ELSE /\ Create(id, end)
                 /\ ended' = IF end THEN ended \union {id} ELSE ended
                 /\ Dispatch(id, block)
                 /\ UNCHANGED <<refused, cutOff, peerRST, endVars>>

\* finalizeHeaderBlockAndDispatch and handleIncomingCompleteHeaders: the block cannot be
\* decoded, is too large or makes its stream depend on itself; it has a field HTTP/2
\* forbids; or it goes to its stream.
CompleteBlock(id, end) ==
    \/ Die
    \/ QueueRST(id)
    \/ \E block \in Blocks :
         /\ started[id] >= StartsOf(id) => block.pseudo # "good"
         /\ IF id \in peerRST THEN QueueRST(id)
            ELSE IF id \in table THEN MoreHeaders(id, block, end)
            ELSE FirstHeaders(id, block, end)

\* HEADERS: complete with END_HEADERS, or the start of a block.
ReceiveHeaders ==
    /\ Reading
    /\ \E id \in Ids, end \in BOOLEAN :
         \/ CompleteBlock(id, end) /\ UNCHANGED assembly
         \/ Ignore /\ assembly' = [id |-> id, end |-> end]
    /\ UNCHANGED rd

\* CONTINUATION: another part of the block or its last one.
ReceiveContinuation ==
    /\ alive /\ rd.pc = "top"
    /\ \E id \in Ids :
         IF assembly.id # id THEN Die /\ UNCHANGED assembly
         ELSE CompleteBlock(id, assembly.end) /\ assembly' = NoBlock
    /\ UNCHANGED rd

\* Any other frame within a header block ends the connection.
Interrupt ==
    /\ alive /\ rd.pc = "top" /\ assembly # NoBlock
    /\ Die /\ assembly' = NoBlock
    /\ UNCHANGED rd

\* A DATA, HEADERS or CONTINUATION frame longer than SETTINGS_MAX_FRAME_SIZE is skipped
\* when its stream is active; a header block it was part of stays open.
ReceiveOversized ==
    /\ alive /\ rd.pc = "top"
    /\ \E id \in Ids :
         IF id \in table /\ state[id] # "closed" THEN QueueRST(id) ELSE Die
    /\ UNCHANGED <<assembly, rd>>

--------------------------------------------------------------------------------
(* DATA and RST_STREAM.                                                        *)

\* dispatchDataFrame up to handleDataFrame.
ReceiveData ==
    /\ Reading
    /\ \E id \in Ids :
         \/ /\ id \notin table
            /\ IF id <= lastProcessed THEN QueueRST(id) ELSE Die
            /\ UNCHANGED rd
         \/ /\ id \in table /\ state[id] \notin {"open", "halfClosedLocal"}
            /\ QueueRST(id) /\ UNCHANGED rd
         \/ /\ id \in table /\ state[id] \in {"open", "halfClosedLocal"}
            /\ \E fits, end \in BOOLEAN :
                 rd' = [pc |-> "handle", id |-> id, fits |-> fits, end |-> end]
            /\ Ignore
    /\ UNCHANGED assembly

\* handleDataFrame.  On a stream a panic closed meanwhile it is a stream error or, seen
\* under the lock, the end of the connection; a frame that does not fit the
\* content-length or the window is a stream error, the former after END_STREAM is noted;
\* a send on a channel that trailers have closed panics, which ends the connection.
HandleData ==
    /\ alive /\ rd.pc = "handle"
    /\ \/ /\ state[rd.id] = "closed"
          /\ (QueueRST(rd.id) \/ Die) /\ rd' = AtTop
       \/ /\ state[rd.id] # "closed" /\ ~rd.fits
          /\ resets' = resets \union {rd.id}
          /\ ended' \in {ended, IF rd.end THEN ended \union {rd.id} ELSE ended}
          /\ UNCHANGED <<tableVars, state, parsed, cutOff, handlerVars, peerRST, alive>>
          /\ rd' = AtTop
       \/ /\ state[rd.id] # "closed" /\ rd.fits /\ rd.id \in cutOff
          /\ Die /\ rd' = AtTop
       \/ /\ state[rd.id] # "closed" /\ rd.fits /\ rd.id \notin cutOff
          /\ Ignore
          /\ rd' = IF rd.end THEN [rd EXCEPT !.pc = "end"] ELSE AtTop
    /\ UNCHANGED assembly

\* Its last part, under s.mu again: END_STREAM.
EndStream ==
    /\ alive /\ rd.pc = "end"
    /\ ended' = ended \union {rd.id}
    /\ state' = [state EXCEPT ![rd.id] = IF @ = "open" THEN "halfClosedRemote" ELSE "closed"]
    /\ resets' = IF state[rd.id] = "closed" THEN resets \union {rd.id} ELSE resets
    /\ rd' = AtTop
    /\ UNCHANGED <<tableVars, parsed, cutOff, handlerVars, peerRST, alive, assembly>>

\* removeClosedStream
Remove(id) ==
    /\ table' = table \ {id}
    /\ inbound' = IF id \in table /\ inbound > 0 THEN inbound - 1 ELSE inbound

\* Mutation of ReceiveReset: the stream is taken out of the table, and stays open.
ReceiveResetForgetful ==
    /\ Reading
    /\ \E id \in Ids :
         /\ peerRST' = peerRST \union {id}
         /\ Remove(id)
         /\ alive' = (id \in table \/ id <= highest)
    /\ UNCHANGED <<highest, lastProcessed, refused, streamVars, handlerVars, assembly, rd, resets>>

\* dispatchRSTStreamFrame, handleRSTStreamFrame.  The reset is noted first.
ReceiveReset ==
    /\ Reading
    /\ \E id \in Ids :
         /\ peerRST' = peerRST \union {id}
         /\ IF id \in table
            THEN Remove(id) /\ state' = [state EXCEPT ![id] = "closed"] /\ UNCHANGED alive
            ELSE alive' = (id <= highest) /\ UNCHANGED <<table, inbound, state>>
    /\ UNCHANGED <<highest, lastProcessed, refused, parsed, ended, cutOff, handlerVars, assembly, rd, resets>>

--------------------------------------------------------------------------------
(* Handlers.                                                                   *)

\* The handlers of a stream that have no frame with END_STREAM on its way.
Free(id) == running[id] - sending[id] - noting[id]

\* Steps of a handler leave the rest of the connection alone.
HandlerOnly ==
    UNCHANGED <<tableVars, parsed, ended, cutOff, peerRST, assembly, rd, alive, started>>

\* SendHeaders or WriteData finds the stream writable and comes to the frame that ends the
\* response; it gives s.mu up before the frame is queued.
HandlerChecks(id) ==
    /\ alive /\ Free(id) > 0
    /\ state[id] \in {"open", "halfClosedRemote"}
    /\ sending' = [sending EXCEPT ![id] = @ + 1]
    /\ HandlerOnly /\ UNCHANGED <<state, running, noting, resets>>

\* The frame is queued, whatever has become of the stream; or the closed stream's window
\* refuses it, or WriteData sees that another handler has ended the response.
HandlerSends(id) ==
    /\ alive /\ sending[id] > 0
    /\ sending' = [sending EXCEPT ![id] = @ - 1]
    /\ \/ noting' = [noting EXCEPT ![id] = @ + 1]
       \/ state[id] \in {"halfClosedLocal", "closed"} /\ UNCHANGED noting
    /\ HandlerOnly /\ UNCHANGED <<state, running, resets>>

\* transitionStateOnSendEndStream, under s.mu again.
HandlerNotes(id) ==
    /\ alive /\ noting[id] > 0
    /\ noting' = [noting EXCEPT ![id] = @ - 1]
    /\ state' = [state EXCEPT ![id] = CASE @ = "open" -> "halfClosedLocal"
                                        [] @ = "halfClosedRemote" -> "closed"
                                        [] OTHER -> @]
    /\ HandlerOnly /\ UNCHANGED <<running, sending, resets>>

\* A handler returns, its response ended or not.
HandlerReturns(id) ==
    /\ alive /\ Free(id) > 0
    /\ running' = [running EXCEPT ![id] = @ - 1]
    /\ HandlerOnly /\ UNCHANGED <<state, sending, noting, resets>>

\* A handler panics; its goroutine recovers and resets the stream (sendRSTStream).
HandlerPanics(id) ==
    /\ alive /\ Free(id) > 0
    /\ running' = [running EXCEPT ![id] = @ - 1]
    /\ state' = [state EXCEPT ![id] = "closed"]
    /\ resets' = resets \union {id}
    /\ HandlerOnly /\ UNCHANGED <<sending, noting>>

Handler(id) ==
    \/ HandlerChecks(id) \/ HandlerSends(id) \/ HandlerNotes(id)
    \/ HandlerReturns(id) \/ HandlerPanics(id)

Reader ==
    \/ ReceiveHeaders \/ ReceiveContinuation \/ Interrupt \/ ReceiveOversized
    \/ ReceiveData \/ HandleData \/ EndStream \/ ReceiveReset

Next == Reader \/ \E id \in Ids : Handler(id)

Spec == Init /\ [][Next]_vars

--------------------------------------------------------------------------------
TypeOK ==
    /\ table \subseteq Ids /\ peerRST \subseteq Ids /\ parsed \subseteq Ids
    /\ ended \subseteq Ids /\ resets \subseteq Ids
    /\ refused \subseteq Ids /\ cutOff \subseteq Ids
    /\ state \in [Ids -> {"idle", "open", "halfClosedLocal", "halfClosedRemote", "closed"}]
    /\ inbound \in Nat /\ highest \in 0..MaxId /\ lastProcessed \in 0..MaxId
    /\ assembly \in [id : Ids \union {0}, end : BOOLEAN]
    /\ rd \in [pc : {"top", "handle", "end"}, id : Ids \union {0}, fits : BOOLEAN, end : BOOLEAN]
    /\ running \in [Ids -> 0..MaxStarts] /\ started \in [Ids -> 0..MaxStarts]
    /\ sending \in [Ids -> 0..MaxStarts] /\ noting \in [Ids -> 0..MaxStarts]
    /\ alive \in BOOLEAN

\* concurrentStreamsInbound is the number of streams in the table and within the limit,
\* whatever order streams are opened, refused, reset and reset again in; a counter that
\* drifts refuses all requests or admits too many.
CountMatchesTable == inbound = Cardinality(table) /\ inbound <= Limit

\* The three horizons the frame handlers use to tell an idle stream from a closed one
\* agree: what was created lies at or below lastProcessedStreamID, the value GOAWAY
\* promises, and that at or below the highest identifier used; only a stream the client
\* reset leaves the table.
HorizonsAgree ==
    /\ \A id \in Created : id <= lastProcessed
    /\ lastProcessed \in Created \union {0}
    /\ lastProcessed <= highest
    /\ \A id \in Created \ table : state[id] = "closed" /\ id \in peerRST
    /\ refused \intersect Created = {}

\* At most one handler is started for a stream, whatever header blocks follow its first
\* one, unless the server has reset the stream.
OneHandler == \A id \in Ids \ resets : started[id] <= 1

\* A stream is created under an identifier above every one that was created or refused.
FreshIds ==
    [][\A id \in table' \ table : \A other \in Created \union refused : other < id]_vars

\* Once the client's reset of a stream has been handled, no handler is started for it and
\* none comes to the end of a response on it any more.  END_STREAM is still queued only by
\* a handler that had passed its check before: the check and the send are not one step.
ClientResetIsFinal ==
    [][\A id \in peerRST :
         /\ started'[id] = started[id] /\ sending'[id] <= sending[id]
         /\ noting'[id] > noting[id] => sending'[id] < sending[id]]_vars

\* A stream is refused only when Limit streams are open or half-closed.
NoUndueRefusal ==
    [][refused' # refused => Cardinality({id \in table : state[id] # "closed"}) >= Limit]_vars
================================================================================

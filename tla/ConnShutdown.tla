------------------------------ MODULE ConnShutdown ------------------------------
(***************************************************************************)
(* How a server connection ends (internal/http2/conn.go).  The reader      *)
(* (Serve) and the writer (writerLoop) each may fail, the server may close *)
(* the connection, the client may send GOAWAY or go away; whoever notices  *)
(* runs Close or initiateShutdown, several of them at once, while handlers *)
(* go on writing their responses.  shutdownChan tells everybody, and       *)
(* writerChan, which everybody sends on, is closed for the writer to end.  *)
(* A panic in a goroutine that does not recover ends the process.          *)
(* Streams and windows matter here only as things to be closed: they are   *)
(* the subjects of ConnStreams and StreamWrite.                            *)
(***************************************************************************)
EXTENDS Integers, Sequences

CONSTANTS
    MaxId,           \* bound: the client opens streams 1..MaxId, in order
    WriterCapacity,  \* capacity of writerChan: 64 in the code
    Closers,         \* the goroutines that may shut the connection down: "owner", others
    AdminErrors,     \* errors with which the server closes the connection
    MayFail          \* may the client be lost, or stop reading?

ASSUME ShutdownAssumption ==
    /\ MaxId \in Nat
    /\ WriterCapacity \in Nat \ {0}
    /\ AdminErrors \subseteq {"noError", "fatal"}
    /\ MayFail \in BOOLEAN

Ids == 1..MaxId

VARIABLES
    shutdown,    \* shutdownChan is closed
    chan,        \* the frames in writerChan
    chanClosed,  \* writerChan is closed
    goAwaySent,  \* c.goAwaySent
    goAwayRecv,  \* c.goAwayReceived
    connError,   \* what c.connError is: "none", a ConnectionError with NO_ERROR, io.EOF,
                 \* another error, or a ConnectionError with another code ("fatal")
    fatal,       \* fatalShutdownSignaled
    client,      \* "up", "gone", or "stalled": it no longer reads what we write
    net,         \* netConn is "open" or "closed"
    last,        \* lastProcessedStreamID: streams 1..last were created
    state,       \* s.state of each stream: "open" or "closed"
    fcClosed,    \* the connection's send window is closed
    rd,          \* where the reader is
    readerDone,  \* readerDone is closed
    wr,          \* where the writer is, the frame in hand, and what it drains for
    closer,      \* where each closer is and the last stream id it read
    handler,     \* where each stream's handler is
    crashed,     \* the process has died of a panic
    goAways,     \* history: the ids of GOAWAY frames queued
    delivered,   \* history: streams whose response was written to the client
    writeFailed, \* history: a write to the client failed
    late         \* history: streams created when shutdownChan was closed

channelVars == <<chan, chanClosed, goAwaySent, goAways>>
errorVars == <<shutdown, connError, fatal>>
streamVars == <<last, state, late>>
vars == <<channelVars, errorVars, streamVars, goAwayRecv, client, net, fcClosed, rd,
          readerDone, wr, closer, handler, crashed, delivered, writeFailed>>

GoAway(n) == [kind |-> "GOAWAY", id |-> n]
Response(s) == [kind |-> "DATA", id |-> s]
PingAck == [kind |-> "PING", id |-> 0]
NoFrame == [kind |-> "none", id |-> 0]

\* After ServerHandshake.
Init ==
    /\ shutdown = FALSE /\ chan = <<>> /\ chanClosed = FALSE
    /\ goAwaySent = FALSE /\ goAwayRecv = FALSE
    /\ connError = "none" /\ fatal = FALSE
    /\ client = "up" /\ net = "open"
    /\ last = 0 /\ state = [s \in Ids |-> "open"]
    /\ fcClosed = FALSE
    /\ rd = "read" /\ readerDone = FALSE
    /\ wr = [pc |-> "select", frame |-> NoFrame, discard |-> FALSE]
    /\ closer = [k \in Closers |-> [pc |-> "idle", last |-> 0]]
    /\ handler = [s \in Ids |-> "none"]
    /\ crashed = FALSE
    /\ goAways = <<>> /\ delivered = {} /\ writeFailed = FALSE /\ late = {}

\* c.connError is set once.
Blame(err) == connError' = IF connError = "none" THEN err ELSE connError

\* A send on writerChan can proceed; on a closed one it panics.
Room == ~chanClosed /\ Len(chan) < WriterCapacity
Queue(f) == Room /\ chan' = Append(chan, f)

--------------------------------------------------------------------------------
(* The reader.                                                                 *)

ReaderAt(pc) == ~crashed /\ rd = pc

\* The top of Serve's loop, where it arrives after every frame.
NextFrame == rd' = IF shutdown THEN "exit" ELSE "read"

\* HEADERS of a new request: nobody asks whether the connection is being shut down.
ReadRequest ==
    /\ ReaderAt("read") /\ net = "open" /\ client # "gone" /\ last < MaxId
    /\ last' = last + 1
    /\ handler' = [handler EXCEPT ![last + 1] = "stream"]
    /\ late' = IF shutdown THEN late \union {last + 1} ELSE late
    /\ NextFrame
    /\ UNCHANGED <<channelVars, errorVars, state, goAwayRecv, client, net, fcClosed,
                   readerDone, wr, closer, crashed, delivered, writeFailed>>

\* PING, or another frame the reader answers.
ReadPing ==
    /\ ReaderAt("read") /\ net = "open" /\ client # "gone"
    /\ rd' = "reply"
    /\ UNCHANGED <<channelVars, errorVars, streamVars, goAwayRecv, client, net, fcClosed,
                   readerDone, wr, closer, handler, crashed, delivered, writeFailed>>

\* The answer is queued, or fails as shutdownChan is closed, or panics on a closed
\* channel, which Serve recovers.
Reply ==
    /\ ReaderAt("reply")
    /\ \/ Queue(PingAck) /\ NextFrame /\ UNCHANGED <<connError, fatal>>
       \/ shutdown /\ Blame("fatal") /\ fatal' = TRUE /\ rd' = "exit" /\ UNCHANGED chan
       \/ chanClosed /\ rd' = "exit" /\ UNCHANGED <<chan, connError, fatal>>
    /\ UNCHANGED <<chanClosed, goAwaySent, goAways, shutdown, streamVars, goAwayRecv, client, net,
                   fcClosed, readerDone, wr, closer, handler, crashed, delivered, writeFailed>>

\* handleGoAwayFrame: the first GOAWAY starts a goroutine that shuts down.
ReadGoAway ==
    /\ ReaderAt("read") /\ net = "open" /\ client # "gone"
    /\ ~goAwayRecv /\ goAwayRecv' = TRUE
    /\ \E k \in Closers \ {"owner"} :
          /\ closer[k].pc = "idle"
          /\ closer' = [closer EXCEPT ![k] = [pc |-> "init", last |-> last]]
    /\ NextFrame
    /\ UNCHANGED <<channelVars, errorVars, streamVars, client, net, fcClosed,
                   readerDone, wr, handler, crashed, delivered, writeFailed>>

\* readFrame or dispatchFrame fails: the client's end, our own close of the
\* connection, or an error of the protocol.
ReadFails ==
    /\ ReaderAt("read")
    /\ \/ client = "gone" /\ \E err \in {"eof", "other"} : Blame(err) /\ UNCHANGED fatal
       \/ net = "closed" /\ Blame("other") /\ UNCHANGED fatal
       \/ net = "open" /\ client # "gone" /\ Blame("fatal") /\ fatal' = TRUE
    /\ rd' = "exit"
    /\ UNCHANGED <<channelVars, shutdown, streamVars, goAwayRecv, client, net, fcClosed,
                   readerDone, wr, closer, handler, crashed, delivered, writeFailed>>

\* The deferred part of Serve looks at readerDone and then closes it; a second close
\* panics, which handleTCPConnection recovers.
ReaderLooks ==
    /\ ReaderAt("exit")
    /\ rd' = IF readerDone THEN "done" ELSE "close"
    /\ UNCHANGED <<channelVars, errorVars, streamVars, goAwayRecv, client, net, fcClosed,
                   readerDone, wr, closer, handler, crashed, delivered, writeFailed>>

ReaderCloses ==
    /\ ReaderAt("close")
    /\ readerDone' = TRUE
    /\ rd' = "done"
    /\ UNCHANGED <<channelVars, errorVars, streamVars, goAwayRecv, client, net, fcClosed,
                   wr, closer, handler, crashed, delivered, writeFailed>>

Reader ==
    \/ ReadRequest \/ ReadPing \/ Reply \/ ReadGoAway \/ ReadFails
    \/ ReaderLooks \/ ReaderCloses

--------------------------------------------------------------------------------
(* The writer.                                                                 *)

WriterAt(pc) == ~crashed /\ wr.pc = pc
WriterGoes(pc, f) == wr' = [wr EXCEPT !.pc = pc, !.frame = f]

\* The main select of writerLoop: a frame, the end of the channel, or shutdownChan.  In
\* a fatal shutdown frames other than GOAWAY are discarded.
WriterSelects ==
    /\ WriterAt("select")
    /\ \/ /\ chan # <<>>
          /\ chan' = Tail(chan)
          /\ IF fatal /\ Head(chan).kind # "GOAWAY"
             THEN UNCHANGED wr ELSE WriterGoes("write", Head(chan))
       \/ chan = <<>> /\ chanClosed /\ WriterGoes("done", NoFrame) /\ UNCHANGED chan
       \/ /\ shutdown
          /\ wr' = [pc |-> "drain", frame |-> NoFrame,
                    discard |-> fatal \/ connError \in {"other", "fatal"}]
          /\ UNCHANGED chan
    /\ UNCHANGED <<chanClosed, goAwaySent, goAways, errorVars, streamVars, goAwayRecv, client, net,
                   fcClosed, rd, readerDone, closer, handler, crashed, delivered, writeFailed>>

Written(f) ==
    /\ delivered' = IF f.kind = "DATA" THEN delivered \union {f.id} ELSE delivered
    /\ UNCHANGED writeFailed

\* The write of the frame in hand.  One that fails, or is not done within 5 s, closes
\* shutdownChan, and the writer ends.
WriterWrites ==
    /\ WriterAt("write")
    /\ \/ /\ client = "up" /\ net = "open"
          /\ Written(wr.frame)
          /\ WriterGoes("select", NoFrame)
          /\ UNCHANGED errorVars
       \/ /\ client # "up" \/ net = "closed"
          /\ writeFailed' = TRUE /\ UNCHANGED delivered
          /\ Blame("other")
          /\ fatal' = (fatal \/ ~shutdown)
          /\ shutdown' = TRUE
          /\ WriterGoes("done", NoFrame)
    /\ UNCHANGED <<channelVars, streamVars, goAwayRecv, client, net, fcClosed, rd, readerDone,
                   closer, handler, crashed>>

\* DrainLoop: until the channel is closed and empty.
WriterDrains ==
    /\ WriterAt("drain")
    /\ \/ /\ chan # <<>>
          /\ chan' = Tail(chan)
          /\ IF wr.discard /\ Head(chan).kind # "GOAWAY"
             THEN UNCHANGED <<delivered, writeFailed>>
             ELSE IF client = "up" /\ net = "open"
                  THEN Written(Head(chan))
                  ELSE writeFailed' = TRUE /\ UNCHANGED delivered
          /\ UNCHANGED wr
       \/ /\ chan = <<>> /\ chanClosed
          /\ WriterGoes("done", NoFrame)
          /\ UNCHANGED <<chan, delivered, writeFailed>>
    /\ UNCHANGED <<chanClosed, goAwaySent, goAways, errorVars, streamVars, goAwayRecv, client, net,
                   fcClosed, rd, readerDone, closer, handler, crashed>>

Writer == WriterSelects \/ WriterWrites \/ WriterDrains

--------------------------------------------------------------------------------
(* The closers: "owner" is handleTCPConnection once Serve has returned, each of  *)
(* the others may become the server's Shutdown, the timer of the SETTINGS ACK,  *)
(* or the goroutine of handleGoAwayFrame, which starts at initiateShutdown.     *)

CloserAt(k, from) == ~crashed /\ closer[k].pc = from
CloserGoes(k, from, to) == CloserAt(k, from) /\ closer' = [closer EXCEPT ![k].pc = to]

\* Close, with its error and the last stream id for GOAWAY; another shutdown is only
\* waited for, with timeouts.
CloseBegins(k) ==
    /\ k = "owner" => rd = "done"
    /\ CloserAt(k, "idle")
    /\ IF shutdown
       THEN closer' = [closer EXCEPT ![k].pc = "returned"] /\ UNCHANGED connError
       ELSE /\ closer' = [closer EXCEPT ![k] = [pc |-> "init", last |-> last]]
            /\ \E err \in IF k = "owner" THEN {"other"} ELSE AdminErrors : Blame(err)
    /\ UNCHANGED <<channelVars, shutdown, fatal, streamVars, goAwayRecv, client, net, fcClosed,
                   rd, readerDone, wr, handler, crashed, delivered, writeFailed>>

\* Mutation of SendGoAway: it is looked at here and noted when the frame is queued.
SendGoAwayUnguarded(k) ==
    /\ CloserGoes(k, "init", IF shutdown THEN "returned"
                             ELSE IF goAways # <<>> THEN "signal" ELSE "enqueue")
    /\ goAwaySent' = (goAwaySent \/ ~shutdown)
    /\ UNCHANGED <<chan, chanClosed, goAways, errorVars, streamVars, goAwayRecv, client, net,
                   fcClosed, rd, readerDone, wr, handler, crashed, delivered, writeFailed>>

\* initiateShutdown looks at shutdownChan, and sendGoAway tests and sets goAwaySent: of
\* several only the first goes on to queue its frame, the others go ahead.
SendGoAway(k) ==
    /\ CloserGoes(k, "init", IF shutdown THEN "returned"
                             ELSE IF goAwaySent THEN "signal" ELSE "enqueue")
    /\ goAwaySent' = (goAwaySent \/ ~shutdown)
    /\ UNCHANGED <<chan, chanClosed, goAways, errorVars, streamVars, goAwayRecv, client, net,
                   fcClosed, rd, readerDone, wr, handler, crashed, delivered, writeFailed>>

\* Mutation of QueueGoAway: it waits for room and for nothing else.
QueueGoAwayStubborn(k) ==
    /\ CloserGoes(k, "enqueue", "signal")
    /\ Queue(GoAway(closer[k].last))
    /\ goAways' = Append(goAways, closer[k].last)
    /\ UNCHANGED <<chanClosed, goAwaySent, errorVars, streamVars, goAwayRecv, client, net,
                   fcClosed, rd, readerDone, wr, handler, crashed, delivered, writeFailed>>

\* The frame is queued, or given up as shutdownChan is closed, or the channel is closed:
\* nothing recovers that panic.
QueueGoAway(k) ==
    /\ CloserGoes(k, "enqueue", "signal")
    /\ \/ /\ Queue(GoAway(closer[k].last))
          /\ goAways' = Append(goAways, closer[k].last)
          /\ UNCHANGED <<connError, crashed>>
       \/ shutdown /\ Blame("fatal") /\ UNCHANGED <<chan, goAways, crashed>>
       \/ chanClosed /\ crashed' = TRUE /\ UNCHANGED <<chan, goAways, connError>>
    /\ UNCHANGED <<chanClosed, goAwaySent, shutdown, fatal, streamVars, goAwayRecv, client, net,
                   fcClosed, rd, readerDone, wr, handler, delivered, writeFailed>>

\* close(c.shutdownChan)
Signal(k) ==
    /\ CloserGoes(k, "signal", "closeChan")
    /\ shutdown' = TRUE
    /\ UNCHANGED <<channelVars, connError, fatal, streamVars, goAwayRecv, client, net, fcClosed,
                   rd, readerDone, wr, handler, crashed, delivered, writeFailed>>

\* close(c.writerChan)
CloseChannel(k) ==
    /\ CloserGoes(k, "closeChan", "writer")
    /\ chanClosed' = TRUE
    /\ UNCHANGED <<chan, goAwaySent, goAways, errorVars, streamVars, goAwayRecv, client, net,
                   fcClosed, rd, readerDone, wr, handler, crashed, delivered, writeFailed>>

\* Mutation of AwaitWriter: the writer is not waited for.
AwaitNobody(k) ==
    /\ CloserGoes(k, "writer", "streams")
    /\ UNCHANGED <<channelVars, errorVars, streamVars, goAwayRecv, client, net, fcClosed,
                   rd, readerDone, wr, handler, crashed, delivered, writeFailed>>

\* The wait for writerDone has no timeout.  The graceful wait that follows ends when the
\* streams have ended or with its timeout, 0 or 5 s.
AwaitWriter(k) ==
    /\ wr.pc = "done"
    /\ CloserGoes(k, "writer", "streams")
    /\ UNCHANGED <<channelVars, errorVars, streamVars, goAwayRecv, client, net, fcClosed,
                   rd, readerDone, wr, handler, crashed, delivered, writeFailed>>

\* Mutation of CloseStreams: streams above the one GOAWAY names are left alone.
CloseOldStreams(k) ==
    /\ CloserGoes(k, "streams", "net")
    /\ state' = [s \in Ids |-> IF s < closer[k].last THEN "closed" ELSE state[s]]
    /\ UNCHANGED <<channelVars, errorVars, last, late, goAwayRecv, client, net, fcClosed,
                   rd, readerDone, wr, handler, crashed, delivered, writeFailed>>

\* All streams there are at this moment are closed, with their windows.
CloseStreams(k) ==
    /\ CloserGoes(k, "streams", "net")
    /\ state' = [s \in Ids |-> IF s <= last THEN "closed" ELSE state[s]]
    /\ UNCHANGED <<channelVars, errorVars, last, late, goAwayRecv, client, net, fcClosed,
                   rd, readerDone, wr, handler, crashed, delivered, writeFailed>>

\* netConn.Close; a second Close of it is harmless.
CloseNet(k) ==
    /\ CloserGoes(k, "net", "windows")
    /\ net' = "closed"
    /\ UNCHANGED <<channelVars, errorVars, streamVars, goAwayRecv, client, fcClosed,
                   rd, readerDone, wr, handler, crashed, delivered, writeFailed>>

\* connFCManager.Close, and under initialSettingsMu a look at readerDone.
CloseWindows(k) ==
    /\ \A j \in Closers : closer[j].pc # "reader"
    /\ CloserGoes(k, "windows", IF readerDone THEN "returned" ELSE "reader")
    /\ fcClosed' = TRUE
    /\ UNCHANGED <<channelVars, errorVars, streamVars, goAwayRecv, client, net,
                   rd, readerDone, wr, handler, crashed, delivered, writeFailed>>

\* close(c.readerDone), still under that mutex, which the reader does not take: if it has
\* closed the channel since, the panic is recovered by nobody.
CloseReaderDone(k) ==
    /\ CloserGoes(k, "reader", "returned")
    /\ readerDone' = TRUE
    /\ crashed' = readerDone
    /\ UNCHANGED <<channelVars, errorVars, streamVars, goAwayRecv, client, net, fcClosed,
                   rd, wr, handler, delivered, writeFailed>>

ShutdownStep(k) ==
    \/ SendGoAway(k) \/ QueueGoAway(k) \/ Signal(k) \/ CloseChannel(k) \/ AwaitWriter(k)
    \/ CloseStreams(k) \/ CloseNet(k) \/ CloseWindows(k) \/ CloseReaderDone(k)

--------------------------------------------------------------------------------
(* Handlers: each writes its response in one frame, and what it needs is credit *)
(* of its stream, credit of the connection and a place in writerChan.           *)

HandlerAt(s, pc) == ~crashed /\ handler[s] = pc
HandlerGoes(s, pc) == handler' = [handler EXCEPT ![s] = pc]

\* The client's credit for the stream arrives.
Granted(s) ==
    /\ client # "gone"
    /\ HandlerAt(s, "stream") /\ state[s] = "open"
    /\ HandlerGoes(s, "conn")
    /\ UNCHANGED <<channelVars, errorVars, streamVars, goAwayRecv, client, net, fcClosed,
                   rd, readerDone, wr, closer, crashed, delivered, writeFailed>>

\* A window is closed under its waiter, and WriteData fails.
Refused(s) ==
    /\ \/ HandlerAt(s, "stream") /\ state[s] = "closed"
       \/ HandlerAt(s, "conn") /\ fcClosed
    /\ HandlerGoes(s, "failed")
    /\ UNCHANGED <<channelVars, errorVars, streamVars, goAwayRecv, client, net, fcClosed,
                   rd, readerDone, wr, closer, crashed, delivered, writeFailed>>

\* So does the connection's, and sendDataFrame looks at the connection: an error other
\* than NO_ERROR, shutdownChan when there is no error, a GOAWAY of the client, whose last
\* id is 0 as a server starts no streams.
CheckConnection(s) ==
    /\ client # "gone"
    /\ HandlerAt(s, "conn") /\ ~fcClosed
    /\ HandlerGoes(s, IF connError \in {"eof", "other", "fatal"}
                         \/ (shutdown /\ connError = "none") \/ goAwayRecv
                      THEN "failed" ELSE "send")
    /\ UNCHANGED <<channelVars, errorVars, streamVars, goAwayRecv, client, net, fcClosed,
                   rd, readerDone, wr, closer, crashed, delivered, writeFailed>>

\* The select: the frame is queued and the stream ends; or shutdownChan is closed; or the
\* send panics, which the handler's goroutine recovers and closes the stream.
SendResponse(s) ==
    /\ HandlerAt(s, "send")
    /\ \/ Queue(Response(s)) /\ HandlerGoes(s, "ended") /\ state' = [state EXCEPT ![s] = "closed"]
       \/ shutdown /\ HandlerGoes(s, "failed") /\ UNCHANGED <<chan, state>>
       \/ chanClosed /\ HandlerGoes(s, "failed") /\ state' = [state EXCEPT ![s] = "closed"]
          /\ UNCHANGED chan
    /\ UNCHANGED <<chanClosed, goAwaySent, goAways, errorVars, last, late, goAwayRecv, client, net,
                   fcClosed, rd, readerDone, wr, closer, crashed, delivered, writeFailed>>

HandlerStep(s) == Refused(s) \/ SendResponse(s)

ClientLost ==
    /\ MayFail /\ ~crashed /\ client = "up"
    /\ client' \in {"gone", "stalled"}
    /\ UNCHANGED <<channelVars, errorVars, streamVars, goAwayRecv, net, fcClosed,
                   rd, readerDone, wr, closer, handler, crashed, delivered, writeFailed>>

Next ==
    \/ Reader
    \/ Writer
    \/ \E k \in Closers : CloseBegins(k) \/ ShutdownStep(k)
    \/ \E s \in Ids : Granted(s) \/ CheckConnection(s) \/ HandlerStep(s)
    \/ ClientLost

\* Goroutines that can run do, the reader only when there is something to read; a sender
\* blocked on writerChan gets its turn, as a channel serves its senders in order.  The
\* server need not close the connection, and the client need not grant anything.
ReaderRuns == ReaderLooks \/ ReaderCloses
                \/ ((net = "closed" \/ client = "gone") /\ ReadFails)
Fairness ==
    /\ WF_vars(ReaderRuns) /\ SF_vars(Reply)
    /\ WF_vars(Writer)
    /\ \A k \in Closers : WF_vars(ShutdownStep(k)) /\ SF_vars(QueueGoAway(k))
    /\ "owner" \in Closers => WF_vars(CloseBegins("owner"))
    /\ \A s \in Ids : WF_vars(HandlerStep(s)) /\ SF_vars(SendResponse(s))

Spec == Init /\ [][Next]_vars /\ Fairness

--------------------------------------------------------------------------------
Pcs == {"idle", "init", "enqueue", "signal", "closeChan", "writer", "streams", "net", "windows",
        "reader", "returned"}

Frames == [kind : {"GOAWAY"}, id : 0..MaxId] \union [kind : {"DATA"}, id : Ids]
            \union {PingAck, NoFrame}

TypeOK ==
    /\ shutdown \in BOOLEAN /\ fatal \in BOOLEAN
    /\ connError \in {"none", "noError", "eof", "other", "fatal"}
    /\ chan \in Seq(Frames) /\ Len(chan) <= WriterCapacity /\ chanClosed \in BOOLEAN
    /\ goAwaySent \in BOOLEAN /\ goAwayRecv \in BOOLEAN /\ goAways \in Seq(0..MaxId)
    /\ client \in {"up", "gone", "stalled"} /\ net \in {"open", "closed"}
    /\ last \in 0..MaxId /\ state \in [Ids -> {"open", "closed"}]
    /\ fcClosed \in BOOLEAN
    /\ rd \in {"read", "reply", "exit", "close", "done"} /\ readerDone \in BOOLEAN
    /\ wr \in [pc : {"select", "write", "drain", "done"}, frame : Frames, discard : BOOLEAN]
    /\ closer \in [Closers -> [pc : Pcs, last : 0..MaxId]]
    /\ handler \in [Ids -> {"none", "stream", "conn", "send", "ended", "failed"}]
    /\ crashed \in BOOLEAN /\ writeFailed \in BOOLEAN
    /\ late \subseteq Ids /\ delivered \subseteq Ids

\* At most one GOAWAY is sent, however many goroutines shut the connection down.
GoAwayOnce == Len(goAways) <= 1

\* The writer never ends on its own: when it does, shutdownChan is closed, so its deferred
\* function never takes the end for a failure and starts another Close.
WriterEndsInShutdown == wr.pc = "done" => shutdown

\* A response that a handler took for sent has been written when we close the network
\* connection, unless a write failed or the shutdown is one that discards frames.
SentIsDelivered ==
    net = "closed" => \A s \in Ids : handler[s] = "ended" =>
        s \in delivered \/ writeFailed \/ fatal \/ connError \in {"other", "fatal"}

\* Every Close and every shutdown comes to its end, with writerChan full, a client that
\* reads nothing and others shutting down as well.
EveryCloseReturns ==
    \A k \in Closers : closer[k].pc # "idle" ~> closer[k].pc = "returned" \/ crashed

\* No handler outlives its connection: whatever it waits for when the shutdown is
\* signalled, it gets or is refused.
HandlersEnd ==
    \A s \in Ids :
        shutdown /\ handler[s] # "none" /\ s \notin late
            ~> handler[s] \in {"ended", "failed"} \/ writeFailed \/ crashed

\* The network connection is closed once the shutdown has been signalled.
ShutdownClosesNet == shutdown ~> net = "closed" \/ crashed

\* A graceful shutdown lets the responses that are under way come to their end.
GracefulResponses ==
    client = "up" /\ ~fatal /\ connError \in {"none", "noError"} =>
        \A s \in Ids \ late : handler[s] # "failed"

================================================================================

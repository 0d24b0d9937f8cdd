----------------------------- MODULE RequestBody -----------------------------
(***************************************************************************)
(* The path of request DATA from the wire to a handler, with the receive   *)
(* windows that meter it (internal/http2/stream.go, conn.go,               *)
(* flowcontrol.go).  Four kinds of process take part: the client, the      *)
(* connection's reader goroutine (Serve, dispatchDataFrame,                *)
(* handleDataFrame), and for each stream its pump                          *)
(* (processIncomingDataFrames) and its handler, which reads the body       *)
(* through requestBodyConsumedNotifier.  dataFrameChan joins reader and    *)
(* pump, an unbuffered io.Pipe joins pump and handler, and what the        *)
(* handler has read goes back to the client as WINDOW_UPDATE.              *)
(***************************************************************************)
EXTENDS Integers, Sequences, FiniteSets, Functions

CONSTANTS
    Streams,        \* streams whose request has a body
    Connection,     \* the scope of the connection's window (stream 0)
    StreamWindow,   \* our SETTINGS_INITIAL_WINDOW_SIZE
    ConnWindow,     \* 65535 in the code
    QueueCapacity,  \* 32 in the code
    MaxFrameSize,   \* the longest DATA payload a client sends
    WireCapacity,   \* bound: frames of the client that are on the wire at a time
    PadLengths,     \* octets of Pad Length and Padding a client may add
    Draining,       \* streams whose handler reads the body to its end
    Answering,      \* streams whose handler may end its response and go on
    Resetting,      \* streams the client may reset
    Panicking,      \* streams whose handler may panic
    Misdeclaring    \* streams whose content-length may turn out wrong

ASSUME BodyAssumption ==
    /\ IsFiniteSet(Streams) /\ Connection \notin Streams
    /\ {StreamWindow, ConnWindow, QueueCapacity, MaxFrameSize, WireCapacity}
         \subseteq Nat \ {0}
    /\ PadLengths \subseteq Nat
    /\ UNION {Draining, Answering, Resetting, Panicking, Misdeclaring} \subseteq Streams

Scopes == Streams \union {Connection}
InitialWindow(x) == IF x = Connection THEN ConnWindow ELSE StreamWindow

\* windowUpdateThreshold: half the window, at least 1.
Threshold(x) == IF InitialWindow(x) \div 2 = 0 THEN 1 ELSE InitialWindow(x) \div 2

VARIABLES
    window,      \* currentReceiveWindowSize of each scope
    owed,        \* bytesConsumedTotal - lastWindowUpdateSentAt of each scope
    grant,       \* WINDOW_UPDATE increments on their way to the client
    peer,        \* the windows as the client counts them
    clientDone,  \* streams on which the client has sent END_STREAM or RST_STREAM
    wire,        \* frames on their way from the client
    rd,          \* the reader goroutine: where it is and the frame it holds
    state,       \* s.state
    pendingRST,  \* s.pendingRSTCode # nil
    rstSent,     \* streams for which an RST_STREAM was queued to the client
    queue,       \* dataFrameChan: the lengths of the frames in it
    pump,        \* processIncomingDataFrames: "receive", "write", and once it has
                 \* ended what it closed the pipe with, "eof" or "error"
    pipe,        \* bytes of the Write that the pump is blocked in
    handler,     \* "run", "creditStream", "creditConn", "gone"
    read,        \* bytes of the Read the handler is in
    body,        \* what the handler has seen of the body's end: "open", "eof", "error"
    early        \* history: streams whose handler ended its response before it had seen
                 \* the end of the body

vars == <<window, owed, grant, peer, clientDone, wire, rd, state, pendingRST, rstSent,
          queue, pump, pipe, handler, read, body, early>>
clientVars == <<peer, clientDone>>
windowVars == <<window, owed, grant>>
streamVars == <<state, pendingRST, rstSent>>
bodyVars == <<queue, pump, pipe, handler, read, body, early>>

Data(s, n, p, e, f) ==
    [kind |-> "DATA", stream |-> s, data |-> n, pad |-> p, end |-> e, fits |-> f]
Rst(s) == [kind |-> "RST", stream |-> s]
NoFrame == [kind |-> "none"]

\* newStream and processRequestHeadersAndDispatch, after HEADERS without END_STREAM.
Init ==
    /\ window = [x \in Scopes |-> InitialWindow(x)]
    /\ peer = [x \in Scopes |-> InitialWindow(x)]
    /\ owed = [x \in Scopes |-> 0]
    /\ grant = [x \in Scopes |-> 0]
    /\ clientDone = {} /\ wire = <<>>
    /\ rd = [pc |-> "read", frame |-> NoFrame]
    /\ state = [s \in Streams |-> "open"]
    /\ pendingRST = {} /\ rstSent = {}
    /\ queue = [s \in Streams |-> <<>>]
    /\ pump = [s \in Streams |-> "receive"]
    /\ pipe = [s \in Streams |-> 0]
    /\ handler = [s \in Streams |-> "run"]
    /\ read = [s \in Streams |-> 0]
    /\ body = [s \in Streams |-> "open"]
    /\ early = {}

\* dataFrameChan is closed with END_STREAM and with the stream.
ChanClosed(s) == state[s] \in {"halfClosedRemote", "closed"}
\* cancelCtx is called with the stream.
CtxDone(s) == state[s] = "closed"

--------------------------------------------------------------------------------
(* The client keeps to the flow-control rules of RFC 7540 6.9.1, padding       *)
(* included, and sends nothing on a stream it has ended or reset.              *)

ClientData(s) ==
    /\ s \notin clientDone /\ Len(wire) < WireCapacity
    /\ \E n \in 0..MaxFrameSize, p \in PadLengths, e \in BOOLEAN, f \in BOOLEAN :
         /\ n + p <= peer[s] /\ n + p <= peer[Connection]
         /\ e \/ n > 0
         /\ f \/ s \in Misdeclaring
         /\ wire' = Append(wire, Data(s, n, p, e, f))
         /\ peer' = [peer EXCEPT ![s] = @ - n - p, ![Connection] = @ - n - p]
         /\ clientDone' = IF e THEN clientDone \union {s} ELSE clientDone
    /\ UNCHANGED <<windowVars, rd, streamVars, bodyVars>>

ClientReset(s) ==
    /\ s \in Resetting \ clientDone /\ Len(wire) < WireCapacity
    /\ clientDone' = clientDone \union {s}
    /\ wire' = Append(wire, Rst(s))
    /\ UNCHANGED <<peer, windowVars, rd, streamVars, bodyVars>>

\* WINDOW_UPDATE frames of a scope reach the client.
ClientGranted(x) ==
    /\ grant[x] > 0
    /\ peer' = [peer EXCEPT ![x] = @ + grant[x]]
    /\ grant' = [grant EXCEPT ![x] = 0]
    /\ UNCHANGED <<window, owed, clientDone, wire, rd, streamVars, bodyVars>>

--------------------------------------------------------------------------------
(* The reader goroutine.                                                       *)

ReaderAt(pc, frame) == rd' = [pc |-> pc, frame |-> frame]
Idle == ReaderAt("read", NoFrame)
\* A connection error or a panic: Serve ends.
Stopped == ReaderAt("stopped", NoFrame)

\* sendRSTStreamFrame of the connection: the frame only, the stream is not touched.
QueueRST(s) == rstSent' = rstSent \union {s} /\ UNCHANGED <<state, pendingRST>>

\* _setState(Closed): closeStreamResourcesProtected closes the channel and the context.
CloseStream(s) == state' = [state EXCEPT ![s] = "closed"]

\* handleRSTStreamFrame, with the removal of the stream from the connection.
ReceiveRST ==
    /\ rd.pc = "read" /\ wire # <<>> /\ Head(wire).kind = "RST"
    /\ LET s == Head(wire).stream IN
         IF state[s] = "closed" THEN UNCHANGED <<state, pendingRST>>
         ELSE CloseStream(s) /\ pendingRST' = pendingRST \union {s}
    /\ wire' = Tail(wire)
    /\ UNCHANGED <<clientVars, windowVars, rd, rstSent, bodyVars>>

\* Mutation of DispatchData: the connection's window is looked at after the stream.
DispatchUncounted ==
    /\ rd.pc = "read" /\ wire # <<>> /\ Head(wire).kind = "DATA"
    /\ LET f == Head(wire) IN
         IF state[f.stream] \notin {"open", "halfClosedLocal"}
         THEN QueueRST(f.stream) /\ Idle /\ UNCHANGED window
         ELSE /\ window' = [window EXCEPT ![Connection] = @ - f.data]
              /\ ReaderAt("handle", f)
              /\ UNCHANGED streamVars
    /\ wire' = Tail(wire)
    /\ UNCHANGED <<clientVars, owed, grant, bodyVars>>

\* dispatchDataFrame up to handleDataFrame: the data without its padding is charged to
\* the connection's window, whatever becomes of it; DATA on a stream that cannot
\* receive is answered with RST_STREAM.
DispatchData ==
    /\ rd.pc = "read" /\ wire # <<>> /\ Head(wire).kind = "DATA"
    /\ LET f == Head(wire) IN
         IF f.data > window[Connection]
         THEN Stopped /\ UNCHANGED <<window, streamVars>>
         ELSE /\ window' = [window EXCEPT ![Connection] = @ - f.data]
              /\ IF state[f.stream] \in {"open", "halfClosedLocal"}
                 THEN ReaderAt("handle", f) /\ UNCHANGED streamVars
                 ELSE QueueRST(f.stream) /\ Idle
    /\ wire' = Tail(wire)
    /\ UNCHANGED <<clientVars, owed, grant, bodyVars>>

\* The checks of handleDataFrame on a stream that was closed after dispatchDataFrame
\* looked: seen by the first look it is a stream error, seen by the second one
\* STREAM_CLOSED, which dispatchDataFrame turns into a connection error.
HandleOnClosed ==
    /\ rd.pc = "handle" /\ ChanClosed(rd.frame.stream)
    /\ \/ QueueRST(rd.frame.stream) /\ Idle
       \/ Stopped /\ UNCHANGED streamVars
    /\ UNCHANGED <<clientVars, wire, windowVars, bodyVars>>

\* handleDataFrame under s.mu: the stream's window, then the content-length.  A stream
\* error is answered with RST_STREAM, and the stream stays as it is.
HandleData ==
    /\ rd.pc = "handle" /\ ~ChanClosed(rd.frame.stream)
    /\ LET f == rd.frame
           s == rd.frame.stream
       IN  IF f.data > window[s]
           THEN QueueRST(s) /\ Idle /\ UNCHANGED window
           ELSE /\ window' = [window EXCEPT ![s] = @ - f.data]
                /\ IF f.fits THEN ReaderAt("enqueue", f) /\ UNCHANGED streamVars
                             ELSE QueueRST(s) /\ Idle
    /\ UNCHANGED <<clientVars, wire, owed, grant, bodyVars>>


\* The select on dataFrameChan and the stream's context, without s.mu: it waits while
\* the channel is full.
Enqueue ==
    /\ rd.pc = "enqueue" /\ ~ChanClosed(rd.frame.stream)
    /\ LET s == rd.frame.stream IN
         /\ Len(queue[s]) < QueueCapacity
         /\ queue' = [queue EXCEPT ![s] = Append(@, rd.frame.data)]
    /\ IF rd.frame.end THEN ReaderAt("end", rd.frame) ELSE Idle
    /\ UNCHANGED <<clientVars, wire, windowVars, streamVars, pump, pipe, handler, read, body, early>>

\* The stream was closed meanwhile: the context is seen, or the send panics on the
\* closed channel, which Serve recovers and ends the connection.
EnqueueOnClosed ==
    /\ rd.pc = "enqueue" /\ ChanClosed(rd.frame.stream)
    /\ \/ QueueRST(rd.frame.stream) /\ Idle
       \/ Stopped /\ UNCHANGED streamVars
    /\ UNCHANGED <<clientVars, wire, windowVars, bodyVars>>

\* END_STREAM, under s.mu again: the channel is closed and the state moves on.
EndStream ==
    /\ rd.pc = "end" /\ Idle
    /\ LET s == rd.frame.stream IN
         CASE state[s] = "open" ->
                state' = [state EXCEPT ![s] = "halfClosedRemote"]
                /\ UNCHANGED <<pendingRST, rstSent>>
           [] state[s] = "halfClosedLocal" ->
                CloseStream(s) /\ UNCHANGED <<pendingRST, rstSent>>
           [] OTHER -> QueueRST(s)
    /\ UNCHANGED <<clientVars, wire, windowVars, bodyVars>>

--------------------------------------------------------------------------------
(* The pump of a stream.                                                       *)

\* One turn of the loop of processIncomingDataFrames with a frame in the channel.  Its
\* Write to the pipe waits and does not fail: only the pump closes the pipe, and the file
\* handler, which closes the side it reads from, has read it to its end before
\* (staticfile.go:184, :306); ResponseHeaders has the reset that a failed Write leads to.
PumpReceive(s) ==
    /\ pump[s] = "receive" /\ queue[s] # <<>>
    /\ queue' = [queue EXCEPT ![s] = Tail(@)]
    /\ pipe' = [pipe EXCEPT ![s] = Head(queue[s])]
    /\ pump' = [pump EXCEPT ![s] = IF Head(queue[s]) = 0 THEN "receive" ELSE "write"]
    /\ UNCHANGED <<clientVars, wire, windowVars, rd, streamVars, handler, read, body, early>>

\* The deferred CloseWithError: the reset code, or EOF when no reset is pending.
ClosePipe(s) == pump' = [pump EXCEPT ![s] = IF s \in pendingRST THEN "error" ELSE "eof"]

\* Mutation of PumpDone: the loop ends at a closed channel that still holds frames.
PumpDoneEarly(s) ==
    /\ pump[s] = "receive"
    /\ ChanClosed(s)
    /\ ClosePipe(s)
    /\ UNCHANGED <<clientVars, wire, windowVars, rd, streamVars, queue, pipe, handler, read, body, early>>

\* The loop ends when the channel is closed and empty, or the context is done.
PumpDone(s) ==
    /\ pump[s] = "receive"
    /\ \/ CtxDone(s)
       \/ ChanClosed(s) /\ queue[s] = <<>>
    /\ ClosePipe(s)
    /\ UNCHANGED <<clientVars, wire, windowVars, rd, streamVars, queue, pipe, handler, read, body, early>>

--------------------------------------------------------------------------------
(* The handler.                                                                *)

\* requestBodyConsumedNotifier.Read: part of the pending Write is taken.
HandlerRead(s) ==
    /\ handler[s] = "run" /\ body[s] = "open" /\ pump[s] = "write"
    /\ \E n \in 1..pipe[s] :
         /\ read' = [read EXCEPT ![s] = n]
         /\ pipe' = [pipe EXCEPT ![s] = @ - n]
         /\ pump' = [pump EXCEPT ![s] = IF n = pipe[s] THEN "receive" ELSE "write"]
    /\ handler' = [handler EXCEPT ![s] = "creditStream"]
    /\ UNCHANGED <<clientVars, wire, windowVars, rd, streamVars, queue, body, early>>

\* Mutation of Consumed: what is still owed is forgotten below the threshold.
ConsumedForgetting(x, n) ==
    LET due == owed[x] + n IN
    /\ window' = [window EXCEPT ![x] = @ + n]
    /\ owed' = owed
    /\ grant' = [grant EXCEPT ![x] = IF due >= Threshold(x) THEN @ + due ELSE @]

\* ApplicationConsumedData and sendWindowUpdateFrame: our window opens at once, the
\* client is told when half a window has gathered.
Consumed(x, n) ==
    LET due == owed[x] + n IN
    /\ window' = [window EXCEPT ![x] = @ + n]
    /\ IF due >= Threshold(x)
       THEN /\ owed' = [owed EXCEPT ![x] = 0]
            /\ grant' = [grant EXCEPT ![x] = @ + due]
       ELSE /\ owed' = [owed EXCEPT ![x] = due]
            /\ UNCHANGED grant

\* SendWindowUpdateIfNeeded of the stream.
CreditStream(s) ==
    /\ handler[s] = "creditStream"
    /\ Consumed(s, read[s])
    /\ handler' = [handler EXCEPT ![s] = "creditConn"]
    /\ UNCHANGED <<clientVars, wire, rd, streamVars, queue, pump, pipe, read, body, early>>

\* The same for the connection, after the stream's.
CreditConnection(s) ==
    /\ handler[s] = "creditConn"
    /\ Consumed(Connection, read[s])
    /\ handler' = [handler EXCEPT ![s] = "run"]
    /\ read' = [read EXCEPT ![s] = 0]
    /\ UNCHANGED <<clientVars, wire, rd, streamVars, queue, pump, pipe, body, early>>

\* Read returns what the pump closed the pipe with.
HandlerSeesEnd(s) ==
    /\ handler[s] = "run" /\ body[s] = "open" /\ pump[s] \in {"eof", "error"}
    /\ body' = [body EXCEPT ![s] = pump[s]]
    /\ UNCHANGED <<clientVars, wire, windowVars, rd, streamVars, queue, pump, pipe, handler, read,
                   early>>

\* The handler ends its response, by SendHeaders, WriteData or WriteTrailers:
\* transitionStateOnSendEndStream.  It goes on, and may go on reading the body; with the
\* client's END_STREAM, before or after, the stream is closed under it.
EndResponse(s) ==
    /\ handler[s] = "run" /\ s \in Answering
    /\ \/ state[s] = "open" /\ state' = [state EXCEPT ![s] = "halfClosedLocal"]
       \/ state[s] = "halfClosedRemote" /\ CloseStream(s)
    /\ early' = IF body[s] = "open" THEN early \union {s} ELSE early
    /\ UNCHANGED <<clientVars, wire, windowVars, rd, pendingRST, rstSent, queue, pump, pipe, handler,
                   read, body>>

\* The handler returns, with or without having ended its response: streamHandlerDone does
\* nothing.  One that drains the body does so after its end, another one whenever it
\* likes; nobody reads or closes the pipe after it.
HandlerReturn(s) ==
    /\ handler[s] = "run"
    /\ s \in Draining => body[s] # "open"
    /\ handler' = [handler EXCEPT ![s] = "gone"]
    /\ UNCHANGED <<clientVars, wire, windowVars, rd, streamVars, queue, pump, pipe, read, body, early>>

\* The handler panics: its goroutine recovers and resets the stream (sendRSTStream).
HandlerPanic(s) ==
    /\ handler[s] = "run" /\ s \in Panicking
    /\ handler' = [handler EXCEPT ![s] = "gone"]
    /\ CloseStream(s)
    /\ pendingRST' = pendingRST \union {s}
    /\ rstSent' = rstSent \union {s}
    /\ UNCHANGED <<clientVars, wire, windowVars, rd, queue, pump, pipe, read, body, early>>

Reader == DispatchData \/ ReceiveRST \/ HandleOnClosed \/ HandleData
            \/ Enqueue \/ EnqueueOnClosed \/ EndStream
Pump(s) == PumpReceive(s) \/ PumpDone(s)
ReadBody(s) == HandlerRead(s) \/ CreditStream(s) \/ CreditConnection(s) \/ HandlerSeesEnd(s)

Next ==
    \/ \E s \in Streams : ClientData(s) \/ ClientReset(s)
    \/ \E x \in Scopes : ClientGranted(x)
    \/ Reader
    \/ \E s \in Streams : Pump(s) \/ ReadBody(s) \/ EndResponse(s) \/ HandlerReturn(s) \/ HandlerPanic(s)

\* Runnable goroutines run and queued frames are written; a handler that drains its body
\* goes on reading, another one returns in the end; nobody need end a response, and the
\* client need not do anything.
Fairness ==
    /\ WF_vars(Reader)
    /\ \A x \in Scopes : WF_vars(ClientGranted(x))
    /\ \A s \in Streams : WF_vars(Pump(s))
    /\ \A s \in Streams : WF_vars(CreditStream(s) \/ CreditConnection(s))
    /\ \A s \in Draining : WF_vars(ReadBody(s))
    /\ \A s \in Streams \ Draining : WF_vars(HandlerReturn(s))

Spec == Init /\ [][Next]_vars /\ Fairness

--------------------------------------------------------------------------------
\* The octets of a scope on the wire that flow control counts, padding included.
Octets(f, x) == IF f.kind = "DATA" /\ x \in {f.stream, Connection} THEN f.data + f.pad ELSE 0
OnWire(x) == SumFunction([i \in DOMAIN wire |-> Octets(wire[i], x)])
QueuedBytes(s) == SumFunction(queue[s])

\* Bytes of a stream on our side of the wire: with the reader, in the channel, in the
\* pipe and read but not yet credited to the window of scope x.
Holding(s, pcs) == IF rd.pc \in pcs /\ rd.frame.stream = s THEN rd.frame.data ELSE 0
Uncredited(s, pcs) == IF handler[s] \in pcs THEN read[s] ELSE 0
HeldForStream(s) ==
    Holding(s, {"enqueue"}) + QueuedBytes(s) + pipe[s] + Uncredited(s, {"creditStream"})
HeldForConnection(s) ==
    Holding(s, {"handle", "enqueue"}) + QueuedBytes(s) + pipe[s]
        + Uncredited(s, {"creditStream", "creditConn"})
Intact(s) == s \notin rstSent /\ state[s] # "closed"

TypeOK ==
    /\ window \in [Scopes -> Nat] /\ owed \in [Scopes -> Nat]
    /\ grant \in [Scopes -> Nat] /\ peer \in [Scopes -> Nat]
    /\ clientDone \subseteq Streams
    /\ rd.pc \in {"read", "handle", "enqueue", "end", "stopped"}
    /\ rd.pc \in {"handle", "enqueue", "end"} <=> rd.frame.kind = "DATA"
    /\ state \in [Streams -> {"open", "halfClosedLocal", "halfClosedRemote", "closed"}]
    /\ pendingRST \subseteq Streams /\ rstSent \subseteq Streams
    /\ \A s \in Streams : Len(queue[s]) <= QueueCapacity
    /\ \A s \in Streams : pump[s] = "write" <=> pipe[s] > 0
    /\ \A s \in Streams : handler[s] \in {"creditStream", "creditConn"} <=> read[s] > 0
    /\ handler \in [Streams -> {"run", "creditStream", "creditConn", "gone"}]
    /\ body \in [Streams -> {"open", "eof", "error"}]
    /\ early \subseteq Streams

\* What the client may still send, what is on the wire, what it is being granted and what it
\* will be granted later; a stream's window is charged a step after the connection's.
Account(x) ==
    peer[x] + grant[x] + owed[x] + OnWire(x)
        + (IF x = Connection THEN 0 ELSE Holding(x, {"handle"}))

\* Client and server agree on the windows: the client never counts on more than we are
\* ready to take, and on no less unless it has sent padding, which it counts and the code
\* does not.  The two sides count at different moments (on receipt, on reading, on
\* WINDOW_UPDATE) and in different goroutines.
WindowsAgree ==
    \A x \in Scopes : (x = Connection \/ Intact(x)) /\ rd.pc # "stopped" =>
        /\ Account(x) <= window[x]
        /\ PadLengths \subseteq {0} => Account(x) = window[x]

\* Received bytes are accounted for until a handler has read them: a stream's window is
\* short by exactly the bytes it buffers, so it never buffers more than its window, and
\* all streams together never more than the connection's window allows.
BufferedIsCharged ==
    /\ \A s \in Streams : Intact(s) /\ rd.pc # "stopped" =>
         StreamWindow - window[s] = HeldForStream(s)
    /\ SumFunction([s \in Streams |-> HeldForConnection(s)]) <= ConnWindow - window[Connection]

\* The reader waits for good: for room in the channel of a stream that is not closed and
\* whose handler has returned without reading its body, so that the pump stays in its
\* Write.
Abandoned ==
    /\ rd.pc = "enqueue" /\ ~ChanClosed(rd.frame.stream)
    /\ LET s == rd.frame.stream IN
         handler[s] = "gone" /\ pump[s] = "write" /\ Len(queue[s]) = QueueCapacity

\* A handler that is told EOF has been given the whole body, whatever raced: a request cut
\* short by a reset, a panic or the close of the channel does not look complete.  If the
\* handler has ended its response before, the end of the request closes the stream, and of
\* the body it may lose what is queued then (stream.go:1053, :1422), no more: the client
\* has ended the request and all of it has been received.
NoSilentTruncation ==
    \A s \in Streams : body[s] = "eof" =>
        /\ s \in clientDone /\ OnWire(s) = 0
        /\ pipe[s] = 0 /\ Holding(s, {"handle", "enqueue"}) = 0
        /\ s \notin early => queue[s] = <<>>

\* The same without the exception does not hold (README, known divergences).
EofMeansWhole == \A s \in Streams : body[s] = "eof" => queue[s] = <<>>


\* That it always comes free does not hold (README, known divergences).
ReaderComesFree == rd.pc = "enqueue" ~> rd.pc # "enqueue"

\* A client out of stream window gets more as the handler reads, however the thresholds
\* fall: so for handlers that read their body, unless the reader waits behind one that
\* did not.
StreamWindowReopens ==
    \A s \in Draining :
        peer[s] = 0 ~> \/ peer[s] > 0 \/ s \in clientDone \/ ~Intact(s)
                       \/ rd.pc = "stopped" \/ Abandoned
================================================================================

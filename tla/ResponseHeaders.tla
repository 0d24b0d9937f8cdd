---------------------------- MODULE ResponseHeaders ----------------------------
(***************************************************************************)
(* The calls of a response: SendHeaders, WriteData, WriteTrailers and the  *)
(* resets that cross them (internal/http2/stream.go), down to the encoder  *)
(* and the writer that all streams share (conn.go, hpack.go).  A stream's  *)
(* mutex guards its fields; SendHeaders gives it up while it encodes and   *)
(* queues, WriteTrailers keeps it.  The encoder has no lock.               *)
(* A handler calls what it likes in any order, and DATA is one frame of a  *)
(* call: its windows are the subject of StreamWrite.                       *)
(***************************************************************************)
EXTENDS Naturals, Sequences

CONSTANTS
    Streams,        \* streams with a handler
    Uploading,      \* those whose request is not at its end yet
    WriterCapacity, \* capacity of writerChan: 64 in the code
    MaxCalls        \* bound: calls of each handler

ASSUME HeadersAssumption ==
    /\ Uploading \subseteq Streams
    /\ WriterCapacity \in Nat \ {0} /\ MaxCalls \in [Streams -> Nat]

VARIABLES
    state,       \* s.state
    rst,         \* s.pendingRSTCode is set
    headersSent, \* s.responseHeadersSent
    ended,       \* s.endStreamSentToClient
    received,    \* s.endStreamReceivedFromClient
    handler,     \* each handler: where it is and the frame it is sending
    calls,       \* how many calls it has made
    pump,        \* the goroutine of the request body: "run", "rst" or "gone"
    rd,          \* the reader: where it is, with what frame of which stream
    todo,        \* streams the shutdown has still to close
    shutdown,    \* "no", or shutdownChan is closed with a "graceful" or "fatal" c.connError
    window,      \* the connection's send window: "open", "closing" in a shutdown, "closed"
    queued,      \* how many frames are in writerChan
    writer,      \* the writer: "idle", "busy" with a frame, or "done"
    encoding,    \* streams inside hpackAdapter.Encode
    unsent,      \* blocks in the encoder's table and not in writerChan: whose, in order
    inStep,      \* each block was queued whole and in the order of the table
    shape,       \* history: what the frames queued for a stream make up
    late         \* history: frames of a response queued after its reset

streamVars == <<state, rst, headersSent, ended, received>>
tableVars == <<encoding, unsent, inStep>>
connVars == <<todo, shutdown, window>>
vars == <<streamVars, handler, calls, pump, rd, connVars, queued, writer, tableVars,
          shape, late>>

Frame(kind, end) == [kind |-> kind, end |-> end]
Idle == [pc |-> "idle", frame |-> Frame("none", FALSE)]
Reading == [pc |-> "read", what |-> "none", of |-> {}]

Init ==
    /\ state = [s \in Streams |-> IF s \in Uploading THEN "open" ELSE "halfClosedRemote"]
    /\ received = [s \in Streams |-> s \notin Uploading]
    /\ rst = [s \in Streams |-> FALSE]
    /\ headersSent = [s \in Streams |-> FALSE] /\ ended = headersSent
    /\ handler = [s \in Streams |-> Idle] /\ calls = [s \in Streams |-> 0]
    /\ pump = [s \in Streams |-> IF s \in Uploading THEN "run" ELSE "gone"]
    /\ rd = Reading
    /\ todo = {} /\ shutdown = "no" /\ window = "open"
    /\ queued = 0 /\ writer = "idle"
    /\ encoding = {} /\ unsent = <<>> /\ inStep = TRUE
    /\ shape = [s \in Streams |-> "nothing"] /\ late = [s \in Streams |-> 0]

\* WriteTrailers holds s.mu from its checks to its end.
Locked(s) == handler[s].frame.kind = "TRAILERS"

Resetting(s) == state[s] = "closed" \/ rst[s]

\* The check that HEADERS and DATA begin with lets them pass in a graceful shutdown.  A
\* GOAWAY of the client refuses them as well: ConnShutdown.
Refused == shutdown = "fatal"

\* A send on writerChan, whoever makes it.
Enqueue == queued < WriterCapacity /\ queued' = queued + 1

--------------------------------------------------------------------------------
(* The calls of a handler.                                                     *)

Goto(s, pc) == handler' = [handler EXCEPT ![s].pc = pc]
Return(s) == handler' = [handler EXCEPT ![s] = Idle]

Call(s) ==
    /\ handler[s].pc = "idle" /\ calls[s] < MaxCalls[s]
    /\ calls' = [calls EXCEPT ![s] = @ + 1]

Begin(s, pc, kind, end) ==
    handler' = [handler EXCEPT ![s] = [pc |-> pc, frame |-> Frame(kind, end)]]

\* Mutation of SendHeaders: whether HEADERS have been sent is not looked at.
SendHeadersAgain(s) ==
    /\ Call(s)
    /\ \/ (Resetting(s) \/ state[s] = "halfClosedLocal") /\ UNCHANGED handler
       \/ /\ ~(Resetting(s) \/ state[s] = "halfClosedLocal")
          /\ \E end \in BOOLEAN : Begin(s, "check", "HEADERS", end)
    /\ UNCHANGED <<streamVars, pump, rd, connVars, queued, writer, tableVars, shape, late>>

\* SendHeaders up to s.mu.Unlock: an error, or the frame to be sent.
SendHeaders(s) ==
    /\ Call(s)
    /\ LET refused == headersSent[s] \/ Resetting(s) \/ state[s] = "halfClosedLocal" IN
         \/ refused /\ UNCHANGED handler
         \/ ~refused /\ \E end \in BOOLEAN : Begin(s, "check", "HEADERS", end)
    /\ UNCHANGED <<streamVars, pump, rd, connVars, queued, writer, tableVars, shape, late>>

\* WriteData up to its wait for credit; an empty frame that ends the stream needs none.
WriteData(s) ==
    /\ Call(s)
    /\ LET refused == \/ ~headersSent[s] \/ Resetting(s) \/ ended[s]
                      \/ state[s] = "halfClosedLocal" IN
         \/ refused /\ UNCHANGED handler
         \/ ~refused /\ \E end \in BOOLEAN : Begin(s, "credit", "DATA", end)
         \/ ~refused /\ Begin(s, "check", "DATA", TRUE)
    /\ UNCHANGED <<streamVars, pump, rd, connVars, queued, writer, tableVars, shape, late>>

\* Mutation of WriteTrailers: a reset is not looked at.
WriteTrailersRegardless(s) ==
    /\ Call(s)
    /\ \/ (~headersSent[s] \/ ended[s]) /\ UNCHANGED handler
       \/ ~(~headersSent[s] \/ ended[s]) /\ Begin(s, "check", "TRAILERS", TRUE)
    /\ UNCHANGED <<streamVars, pump, rd, connVars, queued, writer, tableVars, shape, late>>

\* WriteTrailers up to conn.sendHeadersFrame, with s.mu held from here on.
WriteTrailers(s) ==
    /\ Call(s)
    /\ LET refused == ~headersSent[s] \/ ended[s] \/ Resetting(s) IN
         \/ refused /\ UNCHANGED handler
         \/ ~refused /\ Begin(s, "check", "TRAILERS", TRUE)
    /\ UNCHANGED <<streamVars, pump, rd, connVars, queued, writer, tableVars, shape, late>>

\* AcquireSendSpace waits without a deadline: for the stream's window, then for the
\* connection's.  The client gives credit when it likes, if it ever does.
Credit(s) ==
    /\ \/ handler[s].pc = "credit" /\ state[s] # "closed" /\ Goto(s, "share")
       \/ handler[s].pc = "share" /\ window # "closed" /\ Goto(s, "check")
    /\ UNCHANGED <<streamVars, calls, pump, rd, connVars, queued, writer, tableVars,
                   shape, late>>

\* A stream's window is closed with it, the connection's at the end of initiateShutdown:
\* a handler whose stream is reset while it waits for the connection's share waits on.
CreditRefused(s) ==
    /\ \/ handler[s].pc = "credit" /\ state[s] = "closed"
       \/ handler[s].pc = "share" /\ window = "closed"
    /\ Return(s)
    /\ UNCHANGED <<streamVars, calls, pump, rd, connVars, queued, writer, tableVars,
                   shape, late>>

\* sendHeadersFrame and sendDataFrame look at the connection; a header block goes on into
\* Encode, where nothing keeps other handlers out.
Check(s) ==
    /\ handler[s].pc = "check"
    /\ \/ Refused /\ Return(s) /\ UNCHANGED encoding
       \/ /\ ~Refused
          /\ IF handler[s].frame.kind = "DATA"
             THEN Goto(s, "send") /\ UNCHANGED encoding
             ELSE Goto(s, "encode") /\ encoding' = encoding \union {s}
    /\ UNCHANGED <<streamVars, calls, pump, rd, connVars, queued, writer, unsent, inStep,
                   shape, late>>

\* What is left to send is of interest only as long as the client can follow.
Follows(ok, left) ==
    /\ inStep' = (inStep /\ ok)
    /\ unsent' = IF inStep /\ ok THEN left ELSE <<>>

\* Encode returns.  Two of them at once share one buffer and one table: a race.  A block
\* that is longer than the client's frames, or has a field without a name, is dropped after
\* the table has taken fields of it in.
Encode(s) ==
    /\ handler[s].pc = "encode"
    /\ encoding' = encoding \ {s}
    /\ \/ Goto(s, "send") /\ Follows(encoding = {s}, Append(unsent, s))
       \/ Return(s) /\ Follows(FALSE, <<>>)
    /\ UNCHANGED <<streamVars, calls, pump, rd, connVars, queued, writer, shape, late>>

\* A stream's frames: HEADERS, any number of DATA, and an end, once.
Shaped(was, f) ==
    IF (f.kind = "HEADERS") = (was = "nothing") /\ was \in {"nothing", "headers"}
    THEN IF f.end THEN "ended" ELSE "headers"
    ELSE "broken"

\* The frame is in writerChan.
Sent(s) ==
    /\ Enqueue /\ Goto(s, "record")
    /\ IF handler[s].frame.kind = "DATA" THEN UNCHANGED <<unsent, inStep>>
       ELSE Follows(unsent # <<>> /\ Head(unsent) = s, Tail(unsent))
    /\ shape' = [shape EXCEPT ![s] = Shaped(@, handler[s].frame)]
    /\ late' = [late EXCEPT ![s] = IF rst[s] THEN @ + 1 ELSE @]

\* Mutation of Send: nobody tells a sender that waits for room of the shutdown.
SendStubborn(s) ==
    /\ handler[s].pc = "send"
    /\ Sent(s)
    /\ UNCHANGED <<streamVars, calls, pump, rd, connVars, writer, encoding>>

\* The select: room in writerChan, or the shutdown.  The stream is not looked at again.
Send(s) ==
    /\ handler[s].pc = "send"
    /\ \/ Sent(s)
       \/ /\ shutdown # "no" /\ Return(s)
          /\ IF handler[s].frame.kind = "DATA" THEN UNCHANGED <<unsent, inStep>>
             ELSE Follows(FALSE, <<>>)
          /\ UNCHANGED <<queued, shape, late>>
    /\ UNCHANGED <<streamVars, calls, pump, rd, connVars, writer, encoding>>

\* transitionStateOnSendEndStream
AfterEnd(s) ==
    state' = [state EXCEPT ![s] = IF @ = "open" THEN "halfClosedLocal"
                                  ELSE IF @ = "halfClosedRemote" THEN "closed" ELSE @]

\* Mutation of Record: the state is taken for the one before the send.
RecordAsOpen(s) ==
    /\ handler[s].pc = "record"
    /\ headersSent' = [headersSent EXCEPT ![s] = TRUE]
    /\ IF handler[s].frame.end
       THEN /\ ended' = [ended EXCEPT ![s] = TRUE]
            /\ state' = [state EXCEPT ![s] = IF @ = "closed" THEN @ ELSE "halfClosedLocal"]
       ELSE UNCHANGED <<state, ended>>
    /\ Return(s)
    /\ UNCHANGED <<rst, received, calls, pump, rd, connVars, queued, writer, tableVars,
                   shape, late>>

\* s.mu is taken again, or still held: what was sent is noted.
Record(s) ==
    /\ handler[s].pc = "record"
    /\ headersSent' = [headersSent EXCEPT ![s] = TRUE]
    /\ IF handler[s].frame.end
       THEN ended' = [ended EXCEPT ![s] = TRUE] /\ AfterEnd(s)
       ELSE UNCHANGED <<state, ended>>
    /\ Return(s)
    /\ UNCHANGED <<rst, received, calls, pump, rd, connVars, queued, writer, tableVars,
                   shape, late>>

\* The steps of a call that do not depend on the client.
InCall(s) ==
    \/ CreditRefused(s)
    \/ Check(s)
    \/ Encode(s)
    \/ Send(s)
    \/ Record(s)

--------------------------------------------------------------------------------
(* Resets by the server, the end of a handler.                                 *)

\* sendRSTStream and Close up to s.mu.Unlock: the stream is closed before the frame goes.
MarkReset(s) ==
    /\ state' = [state EXCEPT ![s] = "closed"]
    /\ rst' = [rst EXCEPT ![s] = TRUE]
    /\ UNCHANGED <<headersSent, ended, received>>

\* sendRSTStreamFrame
QueueReset(s) ==
    /\ \/ shutdown = "no" /\ Enqueue
       \/ shutdown # "no" /\ UNCHANGED queued
    /\ UNCHANGED <<streamVars, writer, tableVars, shape, late>>

\* A handler returns; if its stream is still open, it stays so: streamHandlerDone is empty.
HandlerReturns(s) ==
    /\ handler[s].pc = "idle" /\ Goto(s, "gone")
    /\ UNCHANGED <<streamVars, calls, pump, rd, connVars, queued, writer, tableVars,
                   shape, late>>

\* A panic between two calls: the goroutine's deferred function resets the stream, or does
\* nothing if it has been reset with the same code.
HandlerPanics(s) ==
    /\ handler[s].pc = "idle"
    /\ \/ Goto(s, "rst")
       \/ rst[s] /\ Goto(s, "gone")
    /\ MarkReset(s)
    /\ UNCHANGED <<calls, pump, rd, connVars, queued, writer, tableVars, shape, late>>

HandlerResets(s) ==
    /\ handler[s].pc = "rst" /\ Goto(s, "gone")
    /\ QueueReset(s)
    /\ UNCHANGED <<calls, pump, rd, connVars>>

\* The pump's Write to the pipe fails, as the handler has closed the other end
\* (req.Body.Close, which it may call at any time).
PumpFails(s) ==
    /\ pump[s] = "run" /\ ~Locked(s)
    /\ pump' = [pump EXCEPT ![s] = "rst"]
    /\ MarkReset(s)
    /\ UNCHANGED <<handler, calls, rd, connVars, queued, writer, tableVars, shape, late>>

PumpResets(s) ==
    /\ pump[s] = "rst" /\ pump' = [pump EXCEPT ![s] = "gone"]
    /\ QueueReset(s)
    /\ UNCHANGED <<handler, calls, rd, connVars>>

--------------------------------------------------------------------------------
(* The reader, the writer and the shutdown.                                    *)

\* A frame of the client: END_STREAM, or RST_STREAM.
ReaderReads(s, what) ==
    /\ rd = Reading /\ shutdown # "fatal"
    /\ what = "END" => ~received[s]
    /\ rd' = [pc |-> "lock", what |-> what, of |-> {s}]
    /\ UNCHANGED <<streamVars, handler, calls, pump, connVars, queued, writer, tableVars,
                   shape, late>>

\* handleDataFrame: END_STREAM on a stream that is closed is answered with RST_STREAM.
ReaderEnds(s) ==
    /\ rd.pc = "lock" /\ rd.what = "END" /\ s \in rd.of /\ ~Locked(s)
    /\ received' = [received EXCEPT ![s] = TRUE]
    /\ \/ /\ state[s] \in {"open", "halfClosedLocal"}
          /\ state' = [state EXCEPT ![s] = IF @ = "open" THEN "halfClosedRemote" ELSE "closed"]
          /\ rd' = Reading
       \/ /\ state[s] = "closed"
          /\ rd' = [rd EXCEPT !.pc = "answer"]
          /\ UNCHANGED state
    /\ UNCHANGED <<rst, headersSent, ended, handler, calls, pump, connVars, queued, writer,
                   tableVars, shape, late>>

\* handleRSTStreamFrame
ReaderResets(s) ==
    /\ rd.pc = "lock" /\ rd.what = "RST" /\ s \in rd.of /\ ~Locked(s)
    /\ IF state[s] = "closed" THEN UNCHANGED streamVars ELSE MarkReset(s)
    /\ rd' = Reading
    /\ UNCHANGED <<handler, calls, pump, connVars, queued, writer, tableVars, shape, late>>

\* Serve answers a stream error; the stream's own state is left as it is.
ReaderAnswers(s) ==
    /\ rd.pc = "answer" /\ s \in rd.of
    /\ rd' = Reading
    /\ QueueReset(s)
    /\ UNCHANGED <<handler, calls, pump, connVars>>

Reader == \E s \in Streams : ReaderEnds(s) \/ ReaderResets(s) \/ ReaderAnswers(s)

WriterTakes ==
    /\ writer = "idle" /\ queued > 0
    /\ queued' = queued - 1 /\ writer' = "busy"
    /\ UNCHANGED <<streamVars, handler, calls, pump, rd, connVars, tableVars, shape, late>>

WriterWrites ==
    /\ writer = "busy" /\ writer' = "idle"
    /\ UNCHANGED <<streamVars, handler, calls, pump, rd, connVars, queued, tableVars, shape,
                   late>>

\* A write that fails or runs into its deadline: the writer sets c.connError, closes
\* shutdownChan and ends.  It does not run initiateShutdown, and nobody will who has not begun.
WriterFails ==
    /\ writer = "busy" /\ writer' = "done"
    /\ shutdown' = "fatal"
    /\ UNCHANGED <<streamVars, handler, calls, pump, rd, todo, window, queued, tableVars,
                   shape, late>>

\* initiateShutdown, with or without an error, closes shutdownChan and collects the streams.
Shutdown(e) ==
    /\ shutdown = "no" /\ shutdown' = e
    /\ todo' = Streams /\ window' = "closing"
    /\ UNCHANGED <<streamVars, handler, calls, pump, rd, queued, writer, tableVars, shape, late>>

\* Stream.Close; shutdownChan is closed, so that no RST_STREAM is queued.
CloseStream(s) ==
    /\ s \in todo /\ ~Locked(s)
    /\ todo' = todo \ {s}
    /\ IF state[s] = "closed" /\ rst[s] THEN UNCHANGED streamVars
       ELSE MarkReset(s)
    /\ UNCHANGED <<handler, calls, pump, rd, shutdown, window, queued, writer, tableVars,
                   shape, late>>

\* After the streams the connection's windows are closed.
CloseWindow ==
    /\ window = "closing" /\ todo = {}
    /\ window' = "closed"
    /\ UNCHANGED <<streamVars, handler, calls, pump, rd, todo, shutdown, queued, writer,
                   tableVars, shape, late>>

Next ==
    \/ \E s \in Streams :
         \/ SendHeaders(s)
         \/ WriteData(s)
         \/ WriteTrailers(s)
         \/ Credit(s)
         \/ InCall(s)
         \/ HandlerReturns(s)
         \/ HandlerPanics(s)
         \/ HandlerResets(s)
         \/ PumpFails(s)
         \/ PumpResets(s)
         \/ CloseStream(s)
         \/ \E what \in {"END", "RST"} : ReaderReads(s, what)
    \/ Reader
    \/ WriterTakes
    \/ WriterWrites
    \/ WriterFails
    \/ \E e \in {"graceful", "fatal"} : Shutdown(e)
    \/ CloseWindow

\* Goroutines that can run do run, and a write ends, at the latest by its deadline.  Nobody
\* has to call, to send, to give credit or to shut the connection down.
Fairness ==
    /\ \A s \in Streams : WF_vars(InCall(s)) /\ WF_vars(CloseStream(s))
    /\ WF_vars(Reader)
    /\ WF_vars(CloseWindow)
    /\ WF_vars(WriterTakes)
    /\ WF_vars(WriterWrites \/ WriterFails)

Spec == Init /\ [][Next]_vars /\ Fairness

--------------------------------------------------------------------------------
TypeOK ==
    /\ state \in [Streams -> {"open", "halfClosedLocal", "halfClosedRemote", "closed"}]
    /\ rst \in [Streams -> BOOLEAN]
    /\ headersSent \in [Streams -> BOOLEAN]
    /\ ended \in [Streams -> BOOLEAN]
    /\ received \in [Streams -> BOOLEAN]
    /\ handler \in [Streams -> [pc : {"idle", "credit", "share", "check", "encode", "send",
                                     "record", "rst", "gone"},
                                frame : [kind : {"none", "HEADERS", "DATA", "TRAILERS"},
                                         end : BOOLEAN]]]
    /\ pump \in [Streams -> {"run", "rst", "gone"}]
    /\ rd \in [pc : {"read", "lock", "answer"}, what : {"none", "END", "RST"},
               of : SUBSET Streams]
    /\ todo \subseteq Streams /\ shutdown \in {"no", "graceful", "fatal"}
    /\ window \in {"open", "closing", "closed"}
    /\ queued \in 0..WriterCapacity /\ writer \in {"idle", "busy", "done"}
    /\ encoding \subseteq Streams /\ unsent \in Seq(Streams) /\ inStep \in BOOLEAN
    /\ shape \in [Streams -> {"nothing", "headers", "ended", "broken"}]
    /\ late \in [Streams -> Nat]

\* Whatever a handler calls, in whatever order, with whatever failing in between, what is
\* queued for its stream is a response: HEADERS first and once, DATA, one end, nothing after.
ResponsesWellFormed == \A s \in Streams : shape[s] # "broken"

\* A stream is closed if and only if it was reset or both sides have ended it, although
\* the two ends cross: SendHeaders and WriteData note theirs after the frame has gone, when
\* the client's may have changed the state they looked at.
ClosedForAReason ==
    \A s \in Streams :
        /\ state[s] = "closed" <=> rst[s] \/ (ended[s] /\ received[s])
        /\ handler[s].pc = "idle" => (ended[s] <=> shape[s] = "ended")

\* A reset overtakes at most the one frame its handler has in hand: from then on every call
\* finds the stream closed.
OneFrameAfterReset == \A s \in Streams : late[s] <= 1

\* A handler that waits for credit, which only the client can give.
Starved(s) ==
    \/ handler[s].pc = "credit" /\ state[s] # "closed"
    \/ handler[s].pc = "share" /\ window # "closed"

\* WriteTrailers keeps the mutex while it waits for room, and the reader waits for the
\* mutex: neither waits for ever, as a write has a deadline and its failure ends the wait
\* for room.  Nor does a handler in any other place, but in the one wait that has no
\* deadline, for credit; and that ends as well once the window is closed.
NobodyStaysBlocked ==
    /\ rd.pc # "read" ~> rd.pc = "read"
    /\ \A s \in Streams :
         handler[s].pc # "idle" /\ ~Starved(s) ~> handler[s].pc \in {"idle", "rst", "gone"}
    /\ \A s \in Streams : s \in todo ~> s \notin todo
    /\ window = "closing" ~> window = "closed"

\* RFC 7541 2.2: the client meets header blocks in the order they were encoded in, each
\* whole.  Without a lock around encoder and queue it does not.
DecoderInStep == inStep

\* RFC 7540 5.1: no frame but PRIORITY on a stream that has been reset.
NothingAfterReset == \A s \in Streams : late[s] = 0

\* A handler that has returned has ended its response.
ResponsesEnd == \A s \in Streams : handler[s].pc = "gone" => state[s] = "closed" \/ ended[s]
================================================================================

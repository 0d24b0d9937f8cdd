------------------------------ MODULE StreamWrite ------------------------------
(***************************************************************************)
(* The path of response DATA from a handler to the client: the loop of     *)
(* Stream.WriteData with the two send windows it draws on, against the     *)
(* reader goroutine that meanwhile handles the client's WINDOW_UPDATE,     *)
(* SETTINGS and RST_STREAM frames (internal/http2/stream.go, conn.go).     *)
(* A window is used as SendCredit describes it: a request for credit is    *)
(* granted in one step or waits; FlowControlWindow is shown to do that.    *)
(* Every stream has sent its response HEADERS.                             *)
(***************************************************************************)
EXTENDS Integers, Sequences, FiniteSets, FiniteSetsExt, Functions

CONSTANTS
    Streams,        \* streams whose handler writes a response
    Connection,     \* the scope of the connection's window (stream 0)
    Bodies,         \* the lengths of the responses: functions on Streams
    MaxFrameSize,   \* the client's SETTINGS_MAX_FRAME_SIZE
    ConnWindow,     \* the connection's send window, 65535 at first
    InitialSizes,   \* values of SETTINGS_INITIAL_WINDOW_SIZE the client announces
    WriterCapacity, \* capacity of writerChan: 64 in the code
    WireCapacity,   \* bound: frames of the client on the wire at a time
    SettingsBound,  \* bound: SETTINGS frames the client sends
    Resetting       \* streams the client may reset

ASSUME WriteAssumption ==
    /\ IsFiniteSet(Streams) /\ Connection \notin Streams
    /\ Bodies \subseteq [Streams -> Nat]
    /\ {MaxFrameSize, ConnWindow, WriterCapacity, WireCapacity} \subseteq Nat \ {0}
    /\ InitialSizes \subseteq Nat /\ InitialSizes # {} /\ IsFiniteSet(InitialSizes)
    /\ SettingsBound \in Nat
    /\ Resetting \subseteq Streams

Scopes == Streams \union {Connection}
Smaller(a, b) == IF a < b THEN a ELSE b

VARIABLES
    body,        \* the bytes of each stream's response
    sendWindow,  \* available of each scope's FlowControlWindow
    base,        \* initialWindowSize of each stream's window
    state,       \* s.state
    table,       \* c.streams
    writer,      \* each handler in WriteData: where it is, the bytes it has left,
                 \* those it asks its window for and those it holds
    out,         \* frames on writerChan and on the wire to the client
    wire,        \* frames on the wire from the client
    rd,          \* the reader goroutine: where it is and the streams it has to visit
    alive,       \* the connection has not failed
    announced,   \* the client's latest SETTINGS_INITIAL_WINDOW_SIZE
    settings,    \* how many SETTINGS frames the client has sent
    owed,        \* bytes the client has received and not given back as credit
    got,         \* bytes of each response the client has received
    seen         \* the client's view of a response: "open", "ended" or "reset"

vars == <<body, sendWindow, base, state, table, writer, out, wire, rd, alive, announced, settings,
          owed, got, seen>>
streamVars == <<body, base, state, table>>
clientVars == <<announced, settings, owed, got, seen>>

Data(s, n, e) == [kind |-> "DATA", stream |-> s, n |-> n, end |-> e]
Update(x, n) == [kind |-> "WINDOW_UPDATE", scope |-> x, n |-> n]
Settings(v) == [kind |-> "SETTINGS", value |-> v]
Rst(s) == [kind |-> "RST", stream |-> s]
Ack == [kind |-> "ACK"]

ReaderIdle == [pc |-> "read", left |-> {}]

Init ==
    /\ body \in Bodies
    /\ announced \in InitialSizes
    /\ base = [s \in Streams |-> announced]
    /\ sendWindow = [x \in Scopes |-> IF x = Connection THEN ConnWindow ELSE announced]
    /\ state \in [Streams -> {"open", "halfClosedRemote"}]
    /\ table = Streams
    /\ writer = [s \in Streams |-> [pc |-> "loop", todo |-> body[s], want |-> 0, held |-> 0]]
    /\ out = <<>> /\ wire = <<>>
    /\ rd = ReaderIdle
    /\ alive = TRUE
    /\ settings = 0
    /\ owed = [x \in Scopes |-> 0]
    /\ got = [s \in Streams |-> 0]
    /\ seen = [s \in Streams |-> "open"]

\* closeStreamResourcesProtected closes the window with the stream.
Closed(s) == state[s] = "closed"

--------------------------------------------------------------------------------
(* The handler of stream s in WriteData(p, true).                              *)

Goto(s, pc, want, held) ==
    writer' = [writer EXCEPT ![s].pc = pc, ![s].want = want, ![s].held = held]

\* WriteData returns an error; what it held has been released.
Fail(s) == Goto(s, "failed", 0, 0)

Ideal(s) == Smaller(writer[s].todo, MaxFrameSize)

\* The top of the loop: the state is checked and the stream's window is looked at.  How
\* much to ask for is decided here; the window may have changed when it is asked.
Begin(s) ==
    /\ writer[s].pc = "loop"
    /\ \/ Closed(s) /\ Fail(s)
       \/ ~Closed(s) /\ writer[s].todo = 0 /\ Goto(s, "send", 0, 0)
       \/ /\ ~Closed(s) /\ writer[s].todo > 0
          /\ IF sendWindow[s] <= 0
             THEN Goto(s, "one", 1, 0)
             ELSE Goto(s, "all", Smaller(Ideal(s), sendWindow[s]), 0)
    /\ UNCHANGED <<sendWindow, streamVars, out, wire, rd, alive, clientVars>>

\* AcquireSendSpace of the stream: waits until the window covers the request.
AcquireStream(s) ==
    /\ writer[s].pc \in {"one", "all"}
    /\ \/ Closed(s) /\ Fail(s) /\ UNCHANGED sendWindow
       \/ /\ ~Closed(s) /\ sendWindow[s] >= writer[s].want
          /\ sendWindow' = [sendWindow EXCEPT ![s] = @ - writer[s].want]
          /\ Goto(s, IF writer[s].pc = "one" /\ Ideal(s) > 1 THEN "more" ELSE "conn",
                  0, writer[s].want)
    /\ UNCHANGED <<streamVars, out, wire, rd, alive, clientVars>>

\* With one byte in hand the window is looked at again.  A SETTINGS frame may have made
\* it negative in between, which WriteData takes for a logic error.
LookForMore(s) ==
    /\ writer[s].pc = "more"
    /\ LET available == sendWindow[s] + 1 IN
         \/ /\ available <= 0
            /\ sendWindow' = [sendWindow EXCEPT ![s] = @ + 1]
            /\ Fail(s)
         \/ /\ available > 0
            /\ Goto(s, "rest", Smaller(Ideal(s), available) - 1, 1)
            /\ UNCHANGED sendWindow
    /\ UNCHANGED <<streamVars, out, wire, rd, alive, clientVars>>

\* Mutation of AcquireRest: the first byte is forgotten when the rest is refused, and
\* asked for again with the rest.
AcquireRestTwice(s) ==
    /\ writer[s].pc = "rest"
    /\ \/ Closed(s) /\ Fail(s) /\ UNCHANGED sendWindow
       \/ /\ ~Closed(s) /\ sendWindow[s] >= writer[s].want
          /\ sendWindow' = [sendWindow EXCEPT ![s] = @ - writer[s].want - 1]
          /\ Goto(s, "conn", 0, writer[s].want + 1)
    /\ UNCHANGED <<streamVars, out, wire, rd, alive, clientVars>>

\* AcquireAdditionalSendSpace; an error gives the first byte back.
AcquireRest(s) ==
    /\ writer[s].pc = "rest"
    /\ \/ /\ Closed(s) /\ Fail(s)
          /\ sendWindow' = [sendWindow EXCEPT ![s] = @ + 1]
       \/ /\ ~Closed(s) /\ sendWindow[s] >= writer[s].want
          /\ sendWindow' = [sendWindow EXCEPT ![s] = @ - writer[s].want]
          /\ Goto(s, "conn", 0, writer[s].want + 1)
    /\ UNCHANGED <<streamVars, out, wire, rd, alive, clientVars>>

\* Mutation of AcquireConnection: only one byte is asked of the connection.
AcquireConnectionOne(s) ==
    /\ writer[s].pc = "conn" /\ alive /\ sendWindow[Connection] >= 1
    /\ sendWindow' = [sendWindow EXCEPT ![Connection] = @ - writer[s].held]
    /\ Goto(s, "send", 0, writer[s].held)
    /\ UNCHANGED <<streamVars, out, wire, rd, alive, clientVars>>

\* The connection's window must cover the whole frame.
AcquireConnection(s) ==
    /\ writer[s].pc = "conn"
    /\ \/ /\ ~alive /\ Fail(s)
          /\ sendWindow' = [sendWindow EXCEPT ![s] = @ + writer[s].held]
       \/ /\ alive /\ sendWindow[Connection] >= writer[s].held
          /\ sendWindow' = [sendWindow EXCEPT ![Connection] = @ - writer[s].held]
          /\ Goto(s, "send", 0, writer[s].held)
    /\ UNCHANGED <<streamVars, out, wire, rd, alive, clientVars>>

\* Mutation of SendData: END_STREAM goes with the last full frame.
SendDataEarlyEnd(s) ==
    /\ writer[s].pc = "send" /\ alive /\ Len(out) < WriterCapacity
    /\ out' = Append(out, Data(s, writer[s].held, writer[s].todo - writer[s].held < MaxFrameSize))
    /\ writer' = [writer EXCEPT ![s].pc = "record"]
    /\ UNCHANGED <<sendWindow, streamVars, wire, rd, alive, clientVars>>

\* sendDataFrame: the connection is checked, the stream is not, and the frame goes to
\* the writer.  A failure releases both windows.
SendData(s) ==
    /\ writer[s].pc = "send"
    /\ \/ /\ ~alive /\ Fail(s)
          /\ sendWindow' = [sendWindow EXCEPT ![s] = @ + writer[s].held,
                                              ![Connection] = @ + writer[s].held]
          /\ UNCHANGED out
       \/ /\ alive /\ Len(out) < WriterCapacity
          /\ out' = Append(out, Data(s, writer[s].held, writer[s].held = writer[s].todo))
          /\ writer' = [writer EXCEPT ![s].pc = "record"]
          /\ UNCHANGED sendWindow
    /\ UNCHANGED <<streamVars, wire, rd, alive, clientVars>>

\* transitionStateOnSendEndStream
AfterEnd(s) ==
    state' = [state EXCEPT ![s] = IF @ = "open" THEN "halfClosedLocal"
                                  ELSE IF @ = "halfClosedRemote" THEN "closed" ELSE @]

\* The frame is queued: what is left shrinks, and END_STREAM changes the state.
Record(s) ==
    /\ writer[s].pc = "record"
    /\ LET left == writer[s].todo - writer[s].held IN
         IF left = 0
         THEN AfterEnd(s)
              /\ writer' = [writer EXCEPT ![s] = [pc |-> "done", todo |-> 0, want |-> 0, held |-> 0]]
         ELSE UNCHANGED state
              /\ writer' = [writer EXCEPT ![s] = [pc |-> "loop", todo |-> left, want |-> 0, held |-> 0]]
    /\ UNCHANGED <<body, sendWindow, base, table, out, wire, rd, alive, clientVars>>

Handler(s) ==
    \/ Begin(s)
    \/ AcquireStream(s)
    \/ LookForMore(s)
    \/ AcquireRest(s)
    \/ AcquireConnection(s)
    \/ SendData(s)
    \/ Record(s)

--------------------------------------------------------------------------------
(* The reader goroutine: Serve and the handlers of the frames it reads.        *)

NextFrame(kind) == alive /\ rd.pc = "read" /\ wire # <<>> /\ Head(wire).kind = kind

\* A connection error: Serve returns and the connection is closed with its streams and
\* windows (step by step in initiateShutdown, which is not this module's subject).
Die ==
    /\ alive' = FALSE
    /\ state' = [s \in Streams |-> "closed"]
    /\ rd' = ReaderIdle

\* Mutation of ReceiveUpdate: an update counts only while the client may still send.
UpdateOpenOnly ==
    /\ NextFrame("WINDOW_UPDATE")
    /\ LET f == Head(wire) IN
         \/ /\ f.scope = Connection \/ (f.scope \in table /\ state[f.scope] = "open")
            /\ sendWindow' = [sendWindow EXCEPT ![f.scope] = @ + f.n]
         \/ /\ f.scope # Connection /\ state[f.scope] = "halfClosedRemote"
            /\ UNCHANGED sendWindow
    /\ wire' = Tail(wire)
    /\ UNCHANGED <<streamVars, writer, out, rd, alive, clientVars>>

\* dispatchWindowUpdateFrame: an update of a stream that is closed or unknown is a
\* connection error.
ReceiveUpdate ==
    /\ NextFrame("WINDOW_UPDATE")
    /\ LET f == Head(wire) IN
         \/ /\ f.scope = Connection \/ (f.scope \in table /\ ~Closed(f.scope))
            /\ sendWindow' = [sendWindow EXCEPT ![f.scope] = @ + f.n]
            /\ UNCHANGED <<state, rd, alive>>
         \/ /\ f.scope # Connection /\ (f.scope \notin table \/ Closed(f.scope))
            /\ Die
            /\ UNCHANGED sendWindow
    /\ wire' = Tail(wire)
    /\ UNCHANGED <<body, base, table, writer, out, clientVars>>

\* dispatchRSTStreamFrame: the stream is closed and leaves the connection.
ReceiveReset ==
    /\ NextFrame("RST")
    /\ LET s == Head(wire).stream IN
         /\ state' = [state EXCEPT ![s] = "closed"]
         /\ table' = table \ {s}
    /\ wire' = Tail(wire)
    /\ UNCHANGED <<body, sendWindow, base, writer, out, rd, alive, clientVars>>

\* handleSettingsFrame: the new value is taken and the streams are collected, whatever
\* their state.
ReceiveSettings ==
    /\ NextFrame("SETTINGS")
    /\ rd' = [pc |-> "visit", left |-> table, value |-> Head(wire).value]
    /\ wire' = Tail(wire)
    /\ UNCHANGED <<sendWindow, streamVars, writer, out, alive, clientVars>>

\* The windows are adjusted one by one, in the order of a Go map.  The window of a stream
\* that has finished refuses: that ends the frame's handling with a stream error.
AdjustWindow ==
    /\ alive /\ rd.pc = "visit"
    /\ \E s \in rd.left :
         \/ /\ ~Closed(s)
            /\ sendWindow' = [sendWindow EXCEPT ![s] = @ + rd.value - base[s]]
            /\ base' = [base EXCEPT ![s] = rd.value]
            /\ rd' = [rd EXCEPT !.left = @ \ {s}]
         \/ /\ Closed(s)
            /\ rd' = [pc |-> "reset", left |-> {s}]
            /\ UNCHANGED <<sendWindow, base>>
    /\ UNCHANGED <<body, state, table, writer, out, wire, alive, clientVars>>

\* Serve answers a stream error with RST_STREAM and reads on; no ACK is sent.
AnswerStreamError ==
    /\ alive /\ rd.pc = "reset" /\ Len(out) < WriterCapacity
    /\ out' = Append(out, Rst(CHOOSE s \in rd.left : TRUE))
    /\ rd' = ReaderIdle
    /\ UNCHANGED <<sendWindow, streamVars, writer, wire, alive, clientVars>>

\* The ACK is queued, or the connection fails when writerChan is full at that moment.
Acknowledge ==
    /\ alive /\ rd.pc = "visit" /\ rd.left = {}
    /\ \/ /\ Len(out) < WriterCapacity
          /\ out' = Append(out, Ack)
          /\ rd' = ReaderIdle
          /\ UNCHANGED <<state, alive>>
       \/ /\ Len(out) = WriterCapacity
          /\ Die
          /\ UNCHANGED out
    /\ UNCHANGED <<body, sendWindow, base, table, writer, wire, clientVars>>

Reader ==
    \/ ReceiveUpdate
    \/ ReceiveReset
    \/ ReceiveSettings
    \/ AdjustWindow
    \/ AnswerStreamError
    \/ Acknowledge

--------------------------------------------------------------------------------
(* A client that keeps to RFC 7540: it returns what it has received as credit, *)
(* of a stream only while it takes the stream for open.                        *)

ClientReceive ==
    /\ out # <<>>
    /\ LET f == Head(out) IN
         \/ /\ f.kind = "DATA"
            /\ owed' = [owed EXCEPT ![Connection] = @ + f.n, ![f.stream] = @ + f.n]
            /\ got' = [got EXCEPT ![f.stream] = @ + f.n]
            /\ seen' = IF f.end /\ seen[f.stream] = "open"
                       THEN [seen EXCEPT ![f.stream] = "ended"] ELSE seen
         \/ /\ f.kind = "RST"
            /\ seen' = IF seen[f.stream] = "open"
                       THEN [seen EXCEPT ![f.stream] = "reset"] ELSE seen
            /\ UNCHANGED <<owed, got>>
         \/ f.kind = "ACK" /\ UNCHANGED <<owed, got, seen>>
    /\ out' = Tail(out)
    /\ UNCHANGED <<sendWindow, streamVars, writer, wire, rd, alive, announced, settings>>

ClientSends(f) == alive /\ Len(wire) < WireCapacity /\ wire' = Append(wire, f)

ClientCredit(x) ==
    /\ owed[x] > 0
    /\ x # Connection => seen[x] = "open"
    /\ ClientSends(Update(x, owed[x]))
    /\ owed' = [owed EXCEPT ![x] = 0]
    /\ UNCHANGED <<sendWindow, streamVars, writer, out, rd, alive, announced, settings, got, seen>>

ClientReset(s) ==
    /\ s \in Resetting /\ seen[s] = "open"
    /\ ClientSends(Rst(s))
    /\ seen' = [seen EXCEPT ![s] = "reset"]
    /\ UNCHANGED <<sendWindow, streamVars, writer, out, rd, alive, announced, settings, owed, got>>

ClientSettings(v) ==
    /\ settings < SettingsBound /\ v # announced
    /\ ClientSends(Settings(v))
    /\ announced' = v
    /\ settings' = settings + 1
    /\ UNCHANGED <<sendWindow, streamVars, writer, out, rd, alive, owed, got, seen>>

Next ==
    \/ \E s \in Streams : Handler(s)
    \/ Reader
    \/ ClientReceive
    \/ \E x \in Scopes : ClientCredit(x)
    \/ \E s \in Streams : ClientReset(s)
    \/ \E v \in InitialSizes : ClientSettings(v)

\* Goroutines that can run do run (a waiter of a window is served: SendCredit); the
\* client reads what arrives and gives the credit back.
Fairness ==
    /\ \A s \in Streams : WF_vars(Handler(s))
    /\ WF_vars(Reader)
    /\ WF_vars(ClientReceive)
    /\ \A x \in Scopes : WF_vars(ClientCredit(x))

Spec == Init /\ [][Next]_vars /\ Fairness

--------------------------------------------------------------------------------
TypeOK ==
    /\ sendWindow \in [Scopes -> Int]
    /\ base \in [Streams -> InitialSizes]
    /\ state \in [Streams -> {"open", "halfClosedLocal", "halfClosedRemote", "closed"}]
    /\ table \subseteq Streams
    /\ \A s \in Streams :
         /\ writer[s].pc \in {"loop", "one", "all", "more", "rest", "conn", "send",
                              "record", "done", "failed"}
         /\ writer[s].todo \in 0..body[s]
         /\ writer[s].want \in 0..MaxFrameSize
         /\ writer[s].held \in 0..Smaller(MaxFrameSize, writer[s].todo)
    /\ rd.pc \in {"read", "visit", "reset"} /\ rd.left \subseteq Streams
    /\ Len(out) <= WriterCapacity /\ Len(wire) <= WireCapacity

\* Bytes of a scope in the DATA frames on their way to the client, and in the
\* increments on their way back.
Bytes(f, x) == IF f.kind = "DATA" /\ x \in {f.stream, Connection} THEN f.n ELSE 0
Increment(f, x) == IF f.kind = "WINDOW_UPDATE" /\ f.scope = x THEN f.n ELSE 0
Flying(x) == SumFunction([i \in DOMAIN out |-> Bytes(out[i], x)])
Returning(x) == SumFunction([i \in DOMAIN wire |-> Increment(wire[i], x)])

\* Credit that handlers have taken for frames they have not queued yet.
HeldOf(s) == IF writer[s].pc = "record" THEN 0 ELSE writer[s].held
HeldOfBoth(s) == IF writer[s].pc = "send" THEN writer[s].held ELSE 0
Held(x) ==
    IF x # Connection THEN HeldOf(x) ELSE SumFunction([s \in Streams |-> HeldOfBoth(s)])

\* Credit is neither lost nor invented: what a window offers, what handlers hold, what
\* flies and what the client has still to give back add up to the window's initial size,
\* across partial acquisitions, rollbacks of WriteData, resets in the middle of a write
\* and shrinking SETTINGS.  A reset stream's own window is out of use; the connection's
\* account must balance even then.
CreditAddsUp ==
    /\ \A s \in Streams : ~Closed(s) =>
         sendWindow[s] + Held(s) + Flying(s) + Returning(s) + owed[s] = base[s]
    /\ alive => sendWindow[Connection] + Held(Connection) + Flying(Connection)
                  + Returning(Connection) + owed[Connection] = ConnWindow

\* The client is never sent more than it allows: what it has not yet given back stays
\* within the connection's window and within the largest window it ever announced.
NeverOverruns ==
    /\ owed[Connection] + Flying(Connection) <= ConnWindow
    /\ \A s \in Streams : owed[s] + Flying(s) <= Max(InitialSizes)

\* No response is truncated silently: a client that sees END_STREAM has every byte, and
\* no RST_STREAM reaches a response that was still going on.
NothingTruncated ==
    \A s \in Streams :
        /\ seen[s] = "ended" => got[s] = body[s]
        /\ seen[s] = "reset" => s \in Resetting

\* A step that queues DATA of s.
QueuesData(s) ==
    Len(out') > Len(out) /\ LET f == out'[Len(out')] IN f.kind = "DATA" /\ f.stream = s

\* sendDataFrame does not look at the stream, so a handler that had its stream credit when
\* the stream was closed still queues that frame: all that keeps a second one back is the
\* state check of the next round and the closed window.  On a closed stream DATA is queued
\* only by such a handler, which then goes to its bookkeeping; and no handler that is not
\* already on its way to the queue gets there.
QuietAfterClose ==
    [][\A s \in Streams : Closed(s) =>
         /\ writer[s].pc \notin {"conn", "send"} => writer'[s].pc \notin {"conn", "send"}
         /\ QueuesData(s) => writer[s].pc = "send" /\ writer'[s].pc = "record"]_vars

\* Every response reaches its end at the client, or its handler is told that it failed,
\* as long as the client gives credit back.
ResponsesArrive ==
    \A s \in Streams : <>(seen[s] # "open" \/ writer[s].pc = "failed" \/ ~alive)

\* RFC 7540 6.9: a client that keeps to the protocol does not lose its connection over a
\* WINDOW_UPDATE for a stream that the server has meanwhile ended.
ConnectionSurvives == alive

\* RFC 7540 6.9.2: once the client's SETTINGS are handled, every open stream's window
\* has been adjusted to them.
SettingsReachEveryStream ==
    alive /\ rd.pc = "read" /\ (\A i \in DOMAIN wire : wire[i].kind # "SETTINGS") =>
        \A s \in table : ~Closed(s) => base[s] = announced
================================================================================

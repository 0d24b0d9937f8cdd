------------------------------ MODULE Handshake ------------------------------
(***************************************************************************)
(* How a server connection begins (internal/http2/conn.go), that is,       *)
(* ServerHandshake in the goroutine of handleTCPConnection, the writer of  *)
(* its frames, the timer of the SETTINGS acknowledgement, and those who    *)
(* may close the connection meanwhile.  The client sends what it likes, or *)
(* nothing.                                                                *)
(* A shutdown is told in the steps that meet the handshake; the races of   *)
(* closers with each other are in ConnShutdown.                            *)
(***************************************************************************)
EXTENDS Naturals, Sequences

CONSTANTS
    AdminErrors, \* errors with which Server.Shutdown closes a connection
    MaxSent      \* bound: what the client sends

ASSUME HandshakeAssumption ==
    AdminErrors \subseteq {"graceful", "fatal"} /\ MaxSent \in Nat

VARIABLES
    hs,        \* where the goroutine of handleTCPConnection is
    chan,      \* writerChan
    sealed,    \* writerChan is closed
    written,   \* initialSettingsWritten is closed
    wr,        \* the writer: "select", "drain", "discard" or "done"
    shutdown,  \* shutdownChan is closed
    connError, \* c.connError: "none", "graceful" or "fatal"
    goAwaySent,
    timer,     \* settingsAckTimeoutTimer: "off", "armed" or "fired"
    lost,      \* settingsMu was locked by a goroutine that has panicked
    net,       \* netConn is "open" or "closed"
    closer,    \* where each closer is
    input,     \* what can be read next, or "none" (what waits behind it is left out)
    clientSent,      \* how much it has sent
    gone,      \* it has closed its side
    acked,     \* its acknowledgement of our SETTINGS was handled
    wire,      \* history: the frames written to the client
    cleaned,   \* history: an initiateShutdown has cleaned up
    broken     \* history: a failed write, and no Close, has closed shutdownChan

writerVars == <<chan, sealed, written, wr, wire>>
endVars == <<shutdown, connError, goAwaySent, net, closer, cleaned, broken>>
settingsVars == <<timer, lost, acked>>
clientVars == <<input, clientSent, gone>>
handshakeVars == <<hs, writerVars, endVars, settingsVars, clientVars>>

\* "owner" is the deferred Close of handleTCPConnection, "admin" Server.Shutdown,
\* "timer" the function of the acknowledgement's timer.
Closers == {"owner", "admin", "timer"}
\* "other" is any other frame, and SETTINGS that are not valid.
Items == {"preface", "settings", "ack", "other"}

HandshakeInit ==
    /\ hs = "preface"
    /\ chan = <<>> /\ sealed = FALSE /\ written = FALSE /\ wr = "select" /\ wire = <<>>
    /\ shutdown = FALSE /\ connError = "none" /\ goAwaySent = FALSE /\ net = "open"
    /\ closer = [k \in Closers |-> "idle"] /\ cleaned = FALSE /\ broken = FALSE
    /\ timer = "off" /\ lost = FALSE /\ acked = FALSE
    /\ input = "none" /\ clientSent = 0 /\ gone = FALSE

Queue(f) == ~ sealed /\ chan' = Append(chan, f)

\* A read of the connection finds its end.
ReadEnds == net = "closed" \/ (gone /\ input = "none")
ReadItem(what) ==
    net = "open" /\ input \in what /\ input' = "none"
----------------------------------------------------------------------------
(* ServerHandshake.                                                         *)

Go(from, to) == hs = from /\ hs' = to

ReadPreface ==
    /\ Go("preface", "send") /\ ReadItem({"preface"})
    /\ UNCHANGED <<writerVars, endVars, settingsVars, clientSent, gone>>

\* Anything else is answered with GOAWAY.  A send on a closed channel panics, which
\* handleTCPConnection recovers.
RejectPreface ==
    /\ Go("preface", "failed") /\ ReadItem(Items \ {"preface"})
    /\ goAwaySent' = TRUE
    /\ \/ ~ goAwaySent /\ Queue("GOAWAY")
       \/ (goAwaySent \/ shutdown \/ sealed) /\ UNCHANGED chan
    /\ UNCHANGED <<sealed, written, wr, wire, shutdown, connError, net, closer, cleaned,
                   broken, settingsVars, clientSent, gone>>

\* The client is gone, or its preface is not there after 5 s.
PrefaceFails ==
    /\ Go("preface", "failed") /\ (ReadEnds \/ input = "none")
    /\ UNCHANGED <<writerVars, endVars, settingsVars, clientVars>>

\* Mutation of SettingsQueued: nobody watches for the acknowledgement.
SettingsUntimed == Go("send", "await") /\ Queue("SETTINGS") /\ UNCHANGED <<timer, lost>>

\* sendInitialSettings, under settingsMu: queue the frame and arm the timer, or find the
\* shutdown.  A panic, as the channel is closed, leaves the mutex locked.
SettingsQueued == Go("send", "await") /\ Queue("SETTINGS") /\ timer' = "armed"
                  /\ UNCHANGED lost

\* Mutation of SettingsRefused: the timer is started before the frame is queued.
SettingsRefusedTimed == Go("send", "failed") /\ shutdown /\ timer' = "armed"
                        /\ UNCHANGED <<chan, lost>>

SettingsRefused == Go("send", "failed") /\ shutdown /\ UNCHANGED <<chan, timer, lost>>
SettingsPanic == Go("send", "failed") /\ sealed /\ lost' = TRUE /\ UNCHANGED <<chan, timer>>

SendInitialSettings ==
    /\ SettingsQueued \/ SettingsRefused \/ SettingsPanic
    /\ UNCHANGED <<sealed, written, wr, wire, endVars, acked, clientVars>>

\* The frame has been handled by the writer, or 2 s have passed, or a shutdown began.
AwaitSettings ==
    /\ \/ written /\ Go("await", "check")
       \/ ~ written /\ Go("await", "failed")
       \/ shutdown /\ Go("await", "failed")
    /\ UNCHANGED <<writerVars, endVars, settingsVars, clientVars>>

\* Mutation of CheckShutdown: the frame that was "written" is taken for sent.
CheckNothing ==
    /\ Go("check", "read")
    /\ UNCHANGED <<writerVars, endVars, settingsVars, clientVars>>

CheckShutdown ==
    /\ Go("check", IF shutdown THEN "failed" ELSE "read")
    /\ UNCHANGED <<writerVars, endVars, settingsVars, clientVars>>

\* No deadline: the timer's Close ends the wait for a client that sends nothing.
ReadSettings ==
    /\ \/ Go("read", "ack") /\ ReadItem({"settings"})
       \/ Go("read", "failed") /\ ReadItem(Items \ {"settings"})
       \/ Go("read", "failed") /\ ReadEnds /\ UNCHANGED input
    /\ UNCHANGED <<writerVars, endVars, settingsVars, clientSent, gone>>

\* The end of handleSettingsFrame.
QueueAck ==
    /\ \/ Go("ack", "serving") /\ Queue("ACK")
       \/ Go("ack", "failed") /\ (shutdown \/ sealed) /\ UNCHANGED chan
    /\ UNCHANGED <<sealed, written, wr, wire, endVars, settingsVars, clientVars>>
----------------------------------------------------------------------------
(* Serve, as far as the handshake's timer goes on.                          *)

ServeAck ==
    /\ Go("serving", "serving") /\ ReadItem({"ack"})
    /\ acked' = TRUE /\ timer' = IF timer = "armed" THEN "off" ELSE timer
    /\ UNCHANGED <<writerVars, endVars, lost, clientSent, gone>>

\* SETTINGS may come again.
ServeFrame ==
    /\ \/ Go("serving", "ack") /\ ReadItem({"settings"})
       \/ Go("serving", "serving") /\ ReadItem({"other"})
       \/ Go("serving", "over") /\ ReadItem({"preface", "other"})
    /\ UNCHANGED <<writerVars, endVars, settingsVars, clientSent, gone>>

ServeEnds ==
    /\ Go("serving", "over") /\ (shutdown \/ ReadEnds)
    /\ UNCHANGED <<writerVars, endVars, settingsVars, clientVars>>
----------------------------------------------------------------------------
(* writerLoop.  A fatal shutdown leaves only GOAWAY to be written; SETTINGS  *)
(* that are thrown away count as written for whoever waits for them.        *)

WriteFrame ==
    /\ wr = "select" /\ chan # <<>>
    /\ wire' = Append(wire, Head(chan)) /\ chan' = Tail(chan)
    /\ written' = (written \/ Head(chan) = "SETTINGS")
    /\ UNCHANGED <<hs, sealed, wr, endVars, settingsVars, clientVars>>

\* A write fails: the client is gone, or has not read for 5 s.  The writer leaves, and
\* closes shutdownChan without the rest of initiateShutdown.
WriteFails ==
    /\ wr = "select" /\ chan # <<>>
    /\ chan' = Tail(chan) /\ wr' = "done"
    /\ connError' = IF connError = "none" THEN "fatal" ELSE connError
    /\ shutdown' = TRUE /\ broken' = (broken \/ ~ shutdown)
    /\ UNCHANGED <<hs, sealed, written, wire, goAwaySent, net, closer, cleaned, settingsVars,
                   clientVars>>

NoticeShutdown ==
    /\ wr = "select"
    /\ \/ shutdown /\ wr' = IF connError = "fatal" THEN "discard" ELSE "drain"
       \/ sealed /\ chan = <<>> /\ wr' = "done"
    /\ UNCHANGED <<hs, chan, sealed, written, wire, endVars, settingsVars, clientVars>>

\* A write that fails here is logged.
Drain ==
    /\ wr \in {"drain", "discard"} /\ chan # <<>>
    /\ chan' = Tail(chan)
    /\ \/ /\ wr = "drain" \/ Head(chan) = "GOAWAY"
          /\ wire' = Append(wire, Head(chan))
       \/ UNCHANGED wire
    /\ written' = (written \/ (wr = "discard" /\ Head(chan) = "SETTINGS"))
    /\ UNCHANGED <<hs, sealed, wr, endVars, settingsVars, clientVars>>

DrainEnds ==
    /\ wr \in {"drain", "discard"} /\ chan = <<>> /\ sealed
    /\ wr' = "done"
    /\ UNCHANGED <<hs, chan, sealed, written, wire, endVars, settingsVars, clientVars>>
----------------------------------------------------------------------------
(* Close and initiateShutdown.                                              *)

Step(k, from, to) == closer[k] = from /\ closer' = [closer EXCEPT ![k] = to]

\* The error with which Close is called.
ErrorsOf(k) == IF k = "admin" THEN AdminErrors
               ELSE IF k = "owner" /\ hs = "over" THEN {"graceful", "fatal"} ELSE {"fatal"}

Close(k) ==
    /\ k = "owner" => hs \in {"failed", "over"}
    /\ k = "timer" => timer = "fired"
    /\ Step(k, "idle", IF shutdown THEN "returned" ELSE "goaway")
    /\ \/ ~ shutdown /\ connError = "none" /\ connError' \in ErrorsOf(k)
       \/ (shutdown \/ connError # "none") /\ UNCHANGED connError
    /\ UNCHANGED <<hs, writerVars, shutdown, goAwaySent, net, cleaned, broken, settingsVars,
                   clientVars>>

QueueGoAway(k) ==
    /\ Step(k, "goaway", IF shutdown THEN "returned" ELSE "signal")
    /\ goAwaySent' = (goAwaySent \/ ~ shutdown)
    /\ IF shutdown \/ goAwaySent THEN UNCHANGED chan ELSE Queue("GOAWAY")
    /\ UNCHANGED <<hs, sealed, written, wr, wire, shutdown, connError, net, cleaned,
                   broken, settingsVars, clientVars>>

Signal(k) ==
    /\ Step(k, "signal", "seal") /\ shutdown' = TRUE
    /\ UNCHANGED <<hs, writerVars, connError, goAwaySent, net, cleaned, broken, settingsVars,
                   clientVars>>

Seal(k) ==
    /\ Step(k, "seal", "net") /\ sealed' = TRUE
    /\ UNCHANGED <<hs, chan, written, wr, wire, shutdown, connError, goAwaySent, net, cleaned,
                   broken, settingsVars, clientVars>>

\* Once the writer is done.
CloseNet(k) ==
    /\ wr = "done"
    /\ Step(k, "net", "clean") /\ net' = "closed"
    /\ UNCHANGED <<hs, writerVars, shutdown, connError, goAwaySent, cleaned, broken, settingsVars,
                   clientVars>>

\* The timer is stopped under settingsMu; readerDone is closed after it.  The waits of
\* Close for the reader and the writer have timeouts and end in any case.
CleanUp(k) ==
    /\ ~ lost
    /\ Step(k, "clean", "returned") /\ cleaned' = TRUE
    /\ timer' = IF timer = "armed" THEN "off" ELSE timer
    /\ UNCHANGED <<hs, writerVars, shutdown, connError, goAwaySent, net, broken, lost, acked,
                   clientVars>>

TimerFires ==
    /\ timer = "armed" /\ timer' = "fired"
    /\ UNCHANGED <<hs, writerVars, endVars, lost, acked, clientVars>>
----------------------------------------------------------------------------
ClientSends ==
    /\ ~ gone /\ clientSent < MaxSent /\ net = "open" /\ input = "none"
    /\ input' \in Items
    /\ clientSent' = clientSent + 1
    /\ UNCHANGED <<hs, writerVars, endVars, settingsVars, gone>>

ClientLeaves ==
    /\ ~ gone /\ gone' = TRUE
    /\ UNCHANGED <<hs, writerVars, endVars, settingsVars, input, clientSent>>

Owner ==
    \/ ReadPreface \/ RejectPreface \/ PrefaceFails \/ SendInitialSettings \/ AwaitSettings
    \/ CheckShutdown \/ ReadSettings \/ QueueAck \/ ServeAck \/ ServeFrame
    \/ ServeEnds

Writer == WriteFrame \/ WriteFails \/ NoticeShutdown \/ Drain \/ DrainEnds

Closer(k) ==
    Close(k) \/ QueueGoAway(k) \/ Signal(k) \/ Seal(k) \/ CloseNet(k) \/ CleanUp(k)

HandshakeNext ==
    \/ Owner \/ Writer \/ TimerFires
    \/ \E k \in Closers : Closer(k)
    \/ ClientSends \/ ClientLeaves

\* Goroutines run while they can and timers run out.  Nothing makes a client send or
\* leave, or the server shut down; a shutdown that has begun goes on.
HandshakeFairness ==
    /\ WF_handshakeVars(Owner) /\ WF_handshakeVars(Writer) /\ WF_handshakeVars(TimerFires)
    /\ \A k \in Closers : WF_handshakeVars((closer[k] # "idle" \/ k # "admin") /\ Closer(k))

HandshakeSpec == HandshakeInit /\ [][HandshakeNext]_handshakeVars /\ HandshakeFairness
----------------------------------------------------------------------------
(* Properties.                                                              *)

\* Types and ranges.
HandshakeTypeOK ==
    /\ hs \in {"preface", "send", "await", "check", "read", "ack", "serving", "failed", "over"}
    /\ chan \in Seq({"SETTINGS", "ACK", "GOAWAY"}) /\ wire \in Seq({"SETTINGS", "ACK", "GOAWAY"})
    /\ wr \in {"select", "drain", "discard", "done"}
    /\ connError \in {"none", "graceful", "fatal"} /\ net \in {"open", "closed"}
    /\ sealed \in BOOLEAN /\ written \in BOOLEAN /\ shutdown \in BOOLEAN
    /\ goAwaySent \in BOOLEAN /\ lost \in BOOLEAN /\ cleaned \in BOOLEAN
    /\ gone \in BOOLEAN /\ acked \in BOOLEAN /\ broken \in BOOLEAN
    /\ timer \in {"off", "armed", "fired"}
    /\ closer \in [Closers -> {"idle", "goaway", "signal", "seal", "net", "clean", "returned"}]
    /\ input \in Items \cup {"none"} /\ clientSent \in 0 .. MaxSent

\* Requests are served only to a client that was sent our SETTINGS: the signal
\* initialSettingsWritten is also given for SETTINGS that a shutdown discarded, and only
\* the look at shutdownChan after it keeps such a handshake from going on.
ServedAfterSettings == hs = "serving" => \E i \in DOMAIN wire : wire[i] = "SETTINGS"

\* When a shutdown has cleaned up, no timer is left that would close the connection
\* again: arming it and stopping it exclude each other, and the channel on which SETTINGS
\* are queued was closed before (sendInitialSettings, initiateShutdown).
NoTimerLeft == cleaned => timer # "armed"

\* A connection settles: the exchange of SETTINGS is complete, or the connection is
\* closed, even if the client sends nothing at all (the deadline of the preface, the
\* timeout of the write, the timer of the acknowledgement, the deferred Close).  Not so
\* when a write has failed before any Close had closed shutdownChan: each Close then takes
\* the shutdown for running and returns, and the connection is left open.
ConnectionSettles == <>(net = "closed" \/ (hs = "serving" /\ acked) \/ broken)

\* What the comment on Close promises: it waits for the connection's goroutines, with
\* timeouts, and comes back (conn.go:2556-2560).
CloseReturns == \A k \in Closers : closer[k] # "idle" ~> closer[k] = "returned"
=============================================================================

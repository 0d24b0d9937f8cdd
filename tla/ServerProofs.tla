---------------------------- MODULE ServerProofs ----------------------------
(***************************************************************************)
(* What holds of every server process, for any number of connections and   *)
(* signals, and of the handshake that each connection's goroutine begins   *)
(* with, whatever the client sends (module Handshake).                     *)
(***************************************************************************)
EXTENDS Server, Handshake, TLAPS

Working == {"listeners", "snapshot", "waits", "ticks", "cleanup"}

\* Shutdown: at most one call does the work, from the moment it has closed shutdownChan
\* until doneChan is closed; whoever returns does so after that, and nothing else stops
\* the process.
Calling ==
    /\ \A k, l \in Calls : shutter[k] \in Working /\ shutter[l] \in Working => k = l
    /\ \A k \in Calls :
         /\ shutter[k] \in Working => stopping /\ ~done
         /\ shutter[k] \in {"follows", "returned"} => stopping
         /\ shutter[k] = "returned" => done
    /\ done \/ handler = "gone" \/ exited => stopping
    /\ stopping => \E k \in Calls : shutter[k] \notin {"none", "called"}

\* Signals and children: what is handled was sent, each call of Shutdown and each child
\* belongs to a signal taken, and while the handler waits for a child there is none of
\* the two yet but that child.
Handing ==
    /\ \A k \in Calls :
         /\ k > taken => shutter[k] = "none" /\ child[k] = "none" /\ k \notin terms
         /\ k \in terms => child[k] = "none"
         /\ child[k] = "killed" => shutter[k] = "none"
         /\ shutter[k] # "none" => k \in terms \/ child[k] # "none"
    /\ handler \in {"hup", "waits"} => taken >= 1 /\ shutter[taken] = "none" /\ taken \notin terms
    /\ handler = "hup" => child[taken] = "none"
    /\ handler = "waits" => child[taken] \in {"starting", "ready", "failed"}
    /\ taken + (IF reloadChan = "empty" THEN 0 ELSE 1) <= sent

\* A connection is in activeConns just while it is served.  Those that were told to close
\* never come back, and by a regular end of the wait they have left.
Telling ==
    /\ activeConns = {c \in Conns : conn[c] = "serving"}
    /\ \A c \in told : conn[c] \in {"serving", "closing", "gone"}
    /\ ~timedOut /\ (done \/ \E k \in Calls : shutter[k] = "cleanup") =>
         \A c \in told : conn[c] \in {"closing", "gone"}

IInv == TypeOK /\ Calling /\ Handing /\ Telling

LEMMA InitInv == ASSUME ServerAssumption, Init PROVE IInv
  <1>1. TypeOK
    <2>1. 0 \in 0 .. MaxSignals  BY DEF ServerAssumption
    <2>2. /\ conn \in [Conns -> {"none"}]
          /\ shutter \in [Calls -> {"none"}] /\ child \in [Calls -> {"none"}]
      BY DEF Init
    <2> QED  BY <2>1, <2>2 DEF Init, TypeOK
  <1>2. Calling
    BY DEF Init, Calling, Working
  <1>3. Handing
    BY DEF ServerAssumption, Init, Handing
  <1>4. Telling
    BY DEF Init, Telling
  <1> QED
    BY <1>1, <1>2, <1>3, <1>4 DEF IInv

\* Connections come and go.
LEMMA ConnectionKeeps ==
    ASSUME ServerAssumption, IInv, NEW c \in Conns, Connection(c) PROVE IInv'
  <1> USE DEF IInv, shutVars, signalVars, Move
  <1>1. UNCHANGED <<shutVars, signalVars, exited, sent, term>>
    BY DEF Connection, Arrive, AcceptorAccepts, AcceptorPasses, PeekEnds, Register, Leave,
         LeaveClose
  <1>2. Calling' /\ Handing'
    BY <1>1 DEF Calling, Handing
  <1>3. TypeOK'
    BY <1>1 DEF TypeOK, Connection, Arrive, AcceptorAccepts, AcceptorPasses, PeekEnds,
         Register, Leave, LeaveClose
  <1>4. Telling'
    <2> USE DEF TypeOK, Telling
    <2>1. CASE Arrive(c) \/ AcceptorAccepts(c) \/ AcceptorPasses(c) \/ PeekEnds(c)
      BY <1>1, <2>1 DEF Arrive, AcceptorAccepts, AcceptorPasses, PeekEnds
    <2>2. CASE Register(c)
      BY <1>1, <2>2 DEF Register
    <2>3. CASE Leave(c)
      BY <1>1, <2>3 DEF Leave
    <2>4. CASE LeaveClose(c)
      BY <1>1, <2>4 DEF LeaveClose
    <2> QED  BY <2>1, <2>2, <2>3, <2>4 DEF Connection
  <1> QED  BY <1>2, <1>3, <1>4

\* The accept loop only moves itself.
LEMMA AcceptorKeeps ==
    ASSUME ServerAssumption, IInv, AcceptorLooks \/ AcceptorFails PROVE IInv'
  BY DEF IInv, TypeOK, Calling, Handing, Telling, shutVars, signalVars, AcceptorLooks,
       AcceptorFails

\* A step of one call of Shutdown.
LEMMA ShutdownKeeps ==
    ASSUME ServerAssumption, IInv, NEW k \in Calls, Shutdown(k) PROVE IInv'
  <1> USE DEF IInv, connVars, signalVars
  <1>1. UNCHANGED <<signalVars, exited, sent, term>>
    BY DEF Shutdown, Enter, CloseListeners, TellConnections, AllLeft, SomeLeft, Tick, GiveUp,
         Finish, FollowerReturns
  <1>2. \E pc \in Working \union {"follows", "returned"} :
          shutter[k] # "none" /\ shutter' = [shutter EXCEPT ![k] = pc]
    BY DEF Shutdown, Enter, CloseListeners, TellConnections, AllLeft, SomeLeft, Tick, GiveUp,
         Finish, FollowerReturns, Working
  <1>3. TypeOK'
    <2> USE DEF TypeOK
    <2>1. CASE CloseListeners(k)
      BY <1>1, <2>1 DEF CloseListeners
    <2>2. CASE TellConnections(k)
      BY <1>1, <2>2 DEF TellConnections
    <2>3. CASE \/ Enter(k) \/ AllLeft(k) \/ SomeLeft(k) \/ Tick(k)
               \/ GiveUp(k) \/ Finish(k) \/ FollowerReturns(k)
      <3>1. UNCHANGED <<conn, activeConns, acceptor, listening, told>>
        BY <2>3 DEF Enter, AllLeft, SomeLeft, Tick, GiveUp, Finish, FollowerReturns
      <3>2. stopping' \in BOOLEAN /\ done' \in BOOLEAN /\ timedOut' \in BOOLEAN
        BY <2>3 DEF Enter, AllLeft, SomeLeft, Tick, GiveUp, Finish, FollowerReturns
      <3>3. shutter' \in [Calls -> {"none", "called"} \union Working
                                     \union {"follows", "returned"}]
        BY <1>2 DEF Working
      <3> QED  BY <1>1, <3>1, <3>2, <3>3 DEF Working
    <2> QED  BY <2>1, <2>2, <2>3 DEF Shutdown
  <1>4. Handing'
    BY <1>1, <1>2 DEF TypeOK, Handing
  <1>5. Calling'
    <2> USE DEF TypeOK, Calling, Working
    <2>1. CASE Enter(k)
      BY <1>1, <2>1 DEF Enter
    <2>2. CASE Finish(k)
      BY <1>1, <2>2 DEF Finish
    <2>3. CASE FollowerReturns(k)
      BY <1>1, <2>3 DEF FollowerReturns
    <2>4. CASE CloseListeners(k) \/ TellConnections(k) \/ AllLeft(k) \/ SomeLeft(k) \/ Tick(k)
                   \/ GiveUp(k)
      <3>1. /\ UNCHANGED <<stopping, done>> /\ shutter[k] \in Working
            /\ \E pc \in Working : shutter' = [shutter EXCEPT ![k] = pc]
        BY <2>4 DEF CloseListeners, TellConnections, AllLeft, SomeLeft, Tick, GiveUp
      <3> QED  BY <1>1, <3>1
    <2> QED  BY <2>1, <2>2, <2>3, <2>4 DEF Shutdown
  <1>6. Telling'
    <2> USE DEF TypeOK, Telling
    <2>1. CASE Enter(k)
      BY <2>1 DEF Enter
    <2>2. CASE CloseListeners(k)
      BY <2>2 DEF CloseListeners
    <2>3. CASE TellConnections(k)
      BY <2>3 DEF TellConnections, Calling, Working
    <2>4. CASE AllLeft(k)
      BY <2>4 DEF AllLeft
    <2>5. CASE SomeLeft(k) \/ Tick(k)
      BY <2>5 DEF SomeLeft, Tick
    <2>6. CASE GiveUp(k)
      BY <2>6 DEF GiveUp
    <2>7. CASE Finish(k)
      BY <2>7 DEF Finish
    <2>8. CASE FollowerReturns(k)
      BY <2>8 DEF FollowerReturns
    <2> QED  BY <2>1, <2>2, <2>3, <2>4, <2>5, <2>6, <2>7, <2>8 DEF Shutdown
  <1> QED  BY <1>3, <1>4, <1>5, <1>6

\* A signal reaches the process, or ends it.
LEMMA SendKeeps ==
    ASSUME ServerAssumption, IInv, NEW sig \in {"TERM", "HUP"}, Send(sig) PROVE IInv'
  <1> USE DEF IInv, connVars, shutVars, Send
  <1>1. TypeOK'
    BY DEF TypeOK, ServerAssumption
  <1>2. Calling'  BY DEF Calling
  <1>3. Handing'
    <2> USE DEF TypeOK, Handing, ServerAssumption
    <2>1. taken' + (IF reloadChan' = "empty" THEN 0 ELSE 1) <= sent'
      <3>1. taken \in Int /\ sent \in Int  OBVIOUS
      <3> QED  BY <3>1
    <2> QED  BY <2>1
  <1>4. Telling'  BY DEF Telling
  <1> QED  BY <1>1, <1>2, <1>3, <1>4

\* The handler takes a signal: there is a call for it, as fewer were taken than sent.
LEMMA HandlerKeeps == ASSUME ServerAssumption, IInv, Handler PROVE IInv'
  <1> USE DEF IInv, connVars, shutVars
  <1>1. CASE TakeSignal
    <2>1. /\ taken + 1 \in Calls /\ taken' = taken + 1 /\ taken + 1 <= sent
          /\ shutter[taken + 1] = "none" /\ child[taken + 1] = "none"
      BY <1>1 DEF TakeSignal, TypeOK, Handing, Calls, ServerAssumption
    <2>2. CASE reloadChan = "TERM"
      <3>1. /\ shutter' = [shutter EXCEPT ![taken + 1] = "called"] /\ UNCHANGED handler
            /\ terms' = terms \union {taken + 1}
        BY <1>1, <2>1, <2>2 DEF TakeSignal, Handing
      <3>2. TypeOK'  BY <1>1, <2>1, <3>1 DEF TakeSignal, TypeOK, Calls
      <3>3. Calling'  BY <1>1, <2>1, <3>1 DEF TakeSignal, TypeOK, Calling, Working
      <3>4. Handing'  BY <1>1, <2>1, <3>1 DEF TakeSignal, TypeOK, Handing, Calls
      <3>5. Telling'  BY <1>1, <2>1, <3>1 DEF TakeSignal, TypeOK, Telling
      <3> QED  BY <3>2, <3>3, <3>4, <3>5
    <2>3. CASE reloadChan # "TERM"
      <3>1. handler' = "hup" /\ UNCHANGED <<shutter, terms>> /\ taken + 1 \notin terms
        BY <1>1, <2>1, <2>3 DEF TakeSignal, TypeOK, Handing
      <3>2. TypeOK'  BY <1>1, <2>1, <3>1 DEF TakeSignal, TypeOK, Calls
      <3>3. Calling'  BY <1>1, <2>1, <3>1 DEF TakeSignal, TypeOK, Calling, Working
      <3>4. Handing'  BY <1>1, <2>1, <3>1 DEF TakeSignal, TypeOK, Handing, Calls
      <3>5. Telling'  BY <1>1, <2>1, <3>1 DEF TakeSignal, TypeOK, Telling
      <3> QED  BY <3>2, <3>3, <3>4, <3>5
    <2> QED  BY <2>2, <2>3
  <1>2. CASE HandlerEnds \/ ReloadFails
    BY <1>2 DEF HandlerEnds, ReloadFails, TypeOK, Calling, Handing, Telling
  <1>3. CASE StartChild
    <2>1. taken \in Calls  BY <1>3 DEF StartChild, TypeOK, Handing, Calls
    <2> QED  BY <1>3, <2>1 DEF StartChild, TypeOK, Calling, Handing, Telling, Calls
  <1>4. CASE ReadEOF
    <2>1. taken \in Calls  BY <1>4 DEF ReadEOF, TypeOK, Handing, Calls
    <2>2. TypeOK'  BY <1>4, <2>1 DEF ReadEOF, TypeOK
    <2>3. Calling'  BY <1>4, <2>1 DEF ReadEOF, TypeOK, Calling, Handing, Working
    <2>4. Handing'  BY <1>4, <2>1 DEF ReadEOF, TypeOK, Handing, Calls
    <2>5. Telling'  BY <1>4, <2>1 DEF ReadEOF, TypeOK, Telling
    <2> QED  BY <2>2, <2>3, <2>4, <2>5
  <1>5. CASE KillChild
    <2>1. taken \in Calls  BY <1>5 DEF KillChild, TypeOK, Handing, Calls
    <2> QED  BY <1>5, <2>1 DEF KillChild, TypeOK, Calling, Handing, Telling, Calls
  <1> QED  BY <1>1, <1>2, <1>3, <1>4, <1>5 DEF Handler

\* A child comes up or fails.
LEMMA ChildKeeps ==
    ASSUME ServerAssumption, IInv, NEW k \in Calls, ChildReady(k) \/ ChildFails(k) PROVE IInv'
  <1> USE DEF IInv, connVars, shutVars, ChildReady, ChildFails
  <1>1. TypeOK'  BY DEF TypeOK
  <1>2. Calling'  BY DEF Calling
  <1>3. Handing'  BY DEF TypeOK, Handing, Calls
  <1>4. Telling'  BY DEF Telling
  <1> QED  BY <1>1, <1>2, <1>3, <1>4

LEMMA NextInv == ASSUME ServerAssumption, IInv, [Next]_vars PROVE IInv'
  <1>1. CASE Exit
    BY <1>1 DEF Exit, IInv, TypeOK, Calling, Handing, Telling, connVars, shutVars, signalVars
  <1>2. CASE UNCHANGED vars
    BY <1>2 DEF vars, IInv, TypeOK, Calling, Handing, Telling, connVars, shutVars, signalVars
  <1> QED
    BY <1>1, <1>2, ConnectionKeeps, AcceptorKeeps, ShutdownKeeps, SendKeeps, HandlerKeeps, ChildKeeps DEF
         Next

LEMMA Invariance == ASSUME ServerAssumption PROVE Spec => []IInv
  <1>1. Init => IInv  BY ServerAssumption, InitInv
  <1>2. IInv /\ [Next]_vars => IInv'  BY ServerAssumption, NextInv
  <1> QED  BY <1>1, <1>2, PTL DEF Spec

\* The variables of the server keep their types.
THEOREM ServerTypes == ASSUME ServerAssumption PROVE Spec => []TypeOK
  <1>1. IInv => TypeOK  BY DEF IInv
  <1> QED  BY <1>1, Invariance, ServerAssumption, PTL

\* However many signals and reloads call Shutdown, one call does the work and no other
\* returns before it has finished (Server.Shutdown).
THEOREM OnlyOneShutdown == ASSUME ServerAssumption PROVE Spec => []OneShutdown
  <1>1. IInv => OneShutdown  BY DEF IInv, Calling, OneShutdown, Working
  <1> QED  BY <1>1, Invariance, ServerAssumption, PTL

\* A shutdown that ends before its timeout leaves none of the connections it has told to
\* close in Serve (the wait of Shutdown for activeConns).
THEOREM ToldConnectionsLeave == ASSUME ServerAssumption PROVE Spec => []ToldHaveLeft
  <1>1. IInv => ToldHaveLeft  BY DEF IInv, Telling, ToldHaveLeft
  <1> QED  BY <1>1, Invariance, ServerAssumption, PTL

\* Each call of Shutdown is one for a SIGTERM that was taken, or for a child that was
\* started and not killed; reloads that fail before or are given up never make one
\* (handleSignals, handleSIGHUP).  That the child is ready is not said, and not so.
THEOREM AbortedReloadsStay == ASSUME ServerAssumption PROVE Spec => []AbortedReloadStays
  <1>1. IInv => AbortedReloadStays
    BY DEF IInv, TypeOK, Calling, Handing, AbortedReloadStays
  <1> QED  BY <1>1, Invariance, ServerAssumption, PTL
-----------------------------------------------------------------------------
(* The handshake of a connection, however much the client sends             *)
(* (module Handshake): ServedAfterSettings and NoTimerLeft.                 *)

Frames == {"SETTINGS", "ACK", "GOAWAY"}
HasSettings == \E i \in DOMAIN wire : wire[i] = "SETTINGS"

\* The writer leaves its select for a shutdown only; what it counts as written was
\* written, or a shutdown has begun; beyond the look at shutdownChan it was written.
Sending ==
    /\ wr \in {"drain", "discard"} => shutdown
    /\ written => HasSettings \/ shutdown
    /\ hs = "check" => written
    /\ hs \in {"read", "ack", "serving"} => HasSettings

\* Whoever cleans up has closed writerChan before.
Sealing ==
    /\ \A k \in Closers : closer[k] \in {"net", "clean"} => sealed
    /\ cleaned => sealed /\ timer # "armed"

HandshakeInv == HandshakeTypeOK /\ Sending /\ Sealing

LEMMA HandshakeInitInv == ASSUME HandshakeAssumption, HandshakeInit PROVE HandshakeInv
  <1>1. <<>> \in Seq({"SETTINGS", "ACK", "GOAWAY"})  OBVIOUS
  <1>2. closer \in [Closers -> {"idle", "goaway", "signal", "seal", "net", "clean", "returned"}]
    BY DEF HandshakeInit
  <1>3. HandshakeTypeOK
    <2>1. /\ hs = "preface" /\ chan = <<>> /\ wire = <<>> /\ wr = "select"
          /\ connError = "none" /\ net = "open" /\ timer = "off" /\ input = "none" /\ clientSent = 0
      BY DEF HandshakeInit
    <2>2. /\ sealed \in BOOLEAN /\ written \in BOOLEAN /\ shutdown \in BOOLEAN
          /\ goAwaySent \in BOOLEAN /\ lost \in BOOLEAN /\ cleaned \in BOOLEAN
          /\ gone \in BOOLEAN /\ acked \in BOOLEAN /\ broken \in BOOLEAN
      BY DEF HandshakeInit
    <2>3. clientSent \in 0 .. MaxSent  BY <2>1 DEF HandshakeAssumption
    <2> QED  BY <1>1, <1>2, <2>1, <2>2, <2>3 DEF HandshakeTypeOK
  <1>4. Sending  BY DEF HandshakeInit, Sending, HasSettings
  <1>5. Sealing  BY DEF HandshakeInit, Sealing
  <1> QED  BY <1>3, <1>4, <1>5 DEF HandshakeInv

\* What goes out stays on the wire.
LEMMA WireGrows ==
    ASSUME wire \in Seq(Frames), NEW f \in Frames, wire' = Append(wire, f)
    PROVE  /\ wire' \in Seq(Frames)
           /\ HasSettings => HasSettings'
           /\ f = "SETTINGS" => HasSettings'
  <1>1. /\ DOMAIN wire' = 1 .. Len(wire) + 1 /\ DOMAIN wire = 1 .. Len(wire)
        /\ Len(wire) \in Nat /\ wire'[Len(wire) + 1] = f
        /\ \A i \in 1 .. Len(wire) : wire'[i] = wire[i]
    OBVIOUS
  <1> QED  BY <1>1 DEF HasSettings

LEMMA OwnerKeeps == ASSUME HandshakeAssumption, HandshakeInv, Owner PROVE HandshakeInv'
  <1> USE DEF HandshakeInv, writerVars, endVars, settingsVars, clientVars, Go, Closers, Items, Queue
  <1> SUFFICES HandshakeTypeOK' /\ Sending' /\ Sealing'
    OBVIOUS
  <1>1. CASE ReadPreface
    BY <1>1 DEF ReadPreface, ReadItem, HandshakeTypeOK, Sending, Sealing, HasSettings
  <1>2. CASE RejectPreface
    BY <1>2 DEF RejectPreface, ReadItem, HandshakeTypeOK, Sending, Sealing, HasSettings
  <1>3. CASE PrefaceFails
    BY <1>3 DEF PrefaceFails, HandshakeTypeOK, Sending, Sealing, HasSettings
  <1>4. CASE SendInitialSettings
    <2> USE <1>4 DEF SendInitialSettings
    <2>1. CASE SettingsQueued  BY <2>1 DEF SettingsQueued, HandshakeTypeOK, Sending, Sealing, HasSettings
    <2>2. CASE SettingsRefused
      BY <2>2 DEF SettingsRefused, HandshakeTypeOK, Sending, Sealing, HasSettings
    <2>3. CASE SettingsPanic  BY <2>3 DEF SettingsPanic, HandshakeTypeOK, Sending, Sealing, HasSettings
    <2> QED  BY <2>1, <2>2, <2>3
  <1>5. CASE AwaitSettings
    BY <1>5 DEF AwaitSettings, HandshakeTypeOK, Sending, Sealing, HasSettings
  <1>6. CASE CheckShutdown
    BY <1>6 DEF CheckShutdown, HandshakeTypeOK, Sending, Sealing, HasSettings
  <1>7. CASE ReadSettings
    BY <1>7 DEF ReadSettings, ReadItem, HandshakeTypeOK, Sending, Sealing, HasSettings
  <1>8. CASE QueueAck
    <2>1. CASE Go("ack", "serving") /\ Queue("ACK")
      BY <1>8, <2>1 DEF QueueAck, HandshakeTypeOK, Sending, Sealing, HasSettings
    <2>2. CASE Go("ack", "failed") /\ UNCHANGED chan
      BY <1>8, <2>2 DEF QueueAck, HandshakeTypeOK, Sending, Sealing, HasSettings
    <2> QED  BY <1>8, <2>1, <2>2 DEF QueueAck
  <1>9. CASE ServeAck
    BY <1>9 DEF ServeAck, ReadItem, HandshakeTypeOK, Sending, Sealing, HasSettings
  <1>10. CASE ServeFrame
    BY <1>10 DEF ServeFrame, ReadItem, HandshakeTypeOK, Sending, Sealing, HasSettings
  <1>11. CASE ServeEnds
    BY <1>11 DEF ServeEnds, HandshakeTypeOK, Sending, Sealing, HasSettings
  <1> QED
    BY <1>1, <1>2, <1>3, <1>4, <1>5, <1>6, <1>7, <1>8, <1>9, <1>10, <1>11 DEF Owner

LEMMA WriterKeeps == ASSUME HandshakeAssumption, HandshakeInv, Writer PROVE HandshakeInv'
  <1> USE DEF HandshakeInv, endVars, settingsVars, clientVars
  <1>1. CASE WriteFrame
    <2>1. /\ Head(chan) \in Frames /\ Tail(chan) \in Seq(Frames)
          /\ wire' = Append(wire, Head(chan))
      BY <1>1 DEF WriteFrame, HandshakeTypeOK, Frames
    <2>2. /\ wire' \in Seq(Frames) /\ HasSettings => HasSettings'
          /\ Head(chan) = "SETTINGS" => HasSettings'
      BY <2>1, WireGrows DEF HandshakeTypeOK, Frames
    <2> QED  BY <1>1, <2>1, <2>2 DEF WriteFrame, HandshakeTypeOK, Sending, Sealing, Frames
  <1>2. CASE NoticeShutdown
    BY <1>2 DEF NoticeShutdown, HandshakeTypeOK, Sending, Sealing, HasSettings
  <1>3. CASE Drain
    <2>1. /\ Head(chan) \in Frames /\ Tail(chan) \in Seq(Frames)
          /\ wire' = Append(wire, Head(chan)) \/ wire' = wire
      BY <1>3 DEF Drain, HandshakeTypeOK, Frames
    <2>2. wire' \in Seq(Frames) /\ (HasSettings => HasSettings')
      BY <2>1, WireGrows DEF HandshakeTypeOK, Frames, HasSettings
    <2> QED  BY <1>3, <2>1, <2>2 DEF Drain, HandshakeTypeOK, Sending, Sealing, Frames
  <1>4. CASE DrainEnds
    BY <1>4 DEF DrainEnds, HandshakeTypeOK, Sending, Sealing, HasSettings
  <1>5. CASE WriteFails
    <2>1. Tail(chan) \in Seq(Frames)  BY <1>5 DEF WriteFails, HandshakeTypeOK, Frames
    <2> QED  BY <1>5, <2>1 DEF WriteFails, HandshakeTypeOK, Sending, Sealing, HasSettings, Frames
  <1> QED  BY <1>1, <1>2, <1>3, <1>4, <1>5 DEF Writer

LEMMA CloserKeeps ==
    ASSUME HandshakeAssumption, HandshakeInv, NEW k \in Closers, Closer(k) PROVE HandshakeInv'
  <1> USE DEF HandshakeInv, writerVars, settingsVars, clientVars, Step, Queue, ErrorsOf
  <1>1. CASE Close(k)
    <2>1. connError' \in {"none", "graceful", "fatal"}
      BY <1>1 DEF Close, HandshakeAssumption, HandshakeTypeOK
    <2>2. closer' = [closer EXCEPT ![k] = IF shutdown THEN "returned" ELSE "goaway"]
      BY <1>1 DEF Close
    <2>3. UNCHANGED <<hs, chan, sealed, written, wr, wire, shutdown, goAwaySent, net, cleaned,
                      broken, timer, lost, acked, input, clientSent, gone>>
      BY <1>1 DEF Close
    <2> QED  BY <2>1, <2>2, <2>3 DEF HandshakeTypeOK, Sending, Sealing, HasSettings
  <1>2. CASE QueueGoAway(k)
    <2>1. goAwaySent' \in BOOLEAN  BY <1>2 DEF QueueGoAway, HandshakeTypeOK
    <2>2. chan' \in Seq({"SETTINGS", "ACK", "GOAWAY"})  BY <1>2 DEF QueueGoAway, HandshakeTypeOK
    <2>3. closer' = [closer EXCEPT ![k] = IF shutdown THEN "returned" ELSE "signal"]
      BY <1>2 DEF QueueGoAway
    <2>4. UNCHANGED <<hs, sealed, written, wr, wire, shutdown, connError, net, cleaned,
                      broken, timer, lost, acked, input, clientSent, gone>>
      BY <1>2 DEF QueueGoAway
    <2> QED  BY <2>1, <2>2, <2>3, <2>4 DEF HandshakeTypeOK, Sending, Sealing, HasSettings
  <1>3. CASE Signal(k)
    BY <1>3 DEF Signal, HandshakeTypeOK, Sending, Sealing, HasSettings
  <1>4. CASE Seal(k)
    BY <1>4 DEF Seal, HandshakeTypeOK, Sending, Sealing, HasSettings
  <1>5. CASE CloseNet(k)
    BY <1>5 DEF CloseNet, HandshakeTypeOK, Sending, Sealing, HasSettings
  <1>6. CASE CleanUp(k)
    BY <1>6 DEF CleanUp, HandshakeTypeOK, Sending, Sealing, HasSettings
  <1> QED  BY <1>1, <1>2, <1>3, <1>4, <1>5, <1>6 DEF Closer

LEMMA RestKeeps ==
    ASSUME HandshakeAssumption, HandshakeInv,
           TimerFires \/ ClientSends \/ ClientLeaves \/ UNCHANGED handshakeVars
    PROVE  HandshakeInv'
  <1> USE DEF HandshakeInv, writerVars, endVars, settingsVars, clientVars, HasSettings
  <1>1. CASE TimerFires  BY <1>1 DEF TimerFires, HandshakeTypeOK, Sending, Sealing
  <1>2. CASE ClientSends
    BY <1>2 DEF ClientSends, HandshakeAssumption, HandshakeTypeOK, Sending, Sealing
  <1>3. CASE ClientLeaves  BY <1>3 DEF ClientLeaves, HandshakeTypeOK, Sending, Sealing
  <1>4. CASE UNCHANGED handshakeVars  BY <1>4 DEF handshakeVars, HandshakeTypeOK, Sending, Sealing
  <1> QED  BY <1>1, <1>2, <1>3, <1>4

LEMMA HandshakeInvariance == HandshakeSpec => []HandshakeInv
  <1>1. HandshakeInit => HandshakeInv  BY HandshakeInitInv, HandshakeAssumption
  <1>2. HandshakeInv /\ [HandshakeNext]_handshakeVars => HandshakeInv'
    BY OwnerKeeps, WriterKeeps, CloserKeeps, RestKeeps, HandshakeAssumption DEF HandshakeNext
  <1> QED  BY <1>1, <1>2, PTL DEF HandshakeSpec

\* The variables of a handshake keep their types, whatever the client sends.
THEOREM HandshakeTypes == HandshakeSpec => []HandshakeTypeOK
  <1>1. HandshakeInv => HandshakeTypeOK  BY DEF HandshakeInv
  <1> QED  BY <1>1, HandshakeInvariance, PTL

\* No request is served before our SETTINGS were written to the client, although SETTINGS
\* that a shutdown throws away are signalled like written ones (ServerHandshake).
THEOREM ServesAfterSettings == HandshakeSpec => []ServedAfterSettings
  <1>1. HandshakeInv => ServedAfterSettings
    BY DEF HandshakeInv, Sending, HasSettings, ServedAfterSettings
  <1> QED  BY <1>1, HandshakeInvariance, PTL

\* A shutdown that has cleaned up leaves no timer behind: nobody arms one afterwards, as
\* writerChan is closed (sendInitialSettings, initiateShutdown).
THEOREM LeavesNoTimer == HandshakeSpec => []NoTimerLeft
  <1>1. HandshakeInv => NoTimerLeft  BY DEF HandshakeInv, Sealing, NoTimerLeft
  <1> QED  BY <1>1, HandshakeInvariance, PTL
=============================================================================

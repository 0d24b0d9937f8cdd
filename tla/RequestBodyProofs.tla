------------------------- MODULE RequestBodyProofs --------------------------
(***************************************************************************)
(* The bytes of a request's body (module RequestBody), for any number of   *)
(* streams and any sizes of windows, frames and queues: what is buffered is*)
(* charged to the windows, a body that its handler sees end is whole unless*)
(* the handler ended its response first, and the two sides' windows agree. *)
(* The inductive invariant BodyInv says                                    *)
(* where the frame with END_STREAM is (LastFrame) and what each of the     *)
(* actors of a stream, the reader, the pump and the handler, knows about it*)
(* (Ends).                                                                 *)
(***************************************************************************)
EXTENDS RequestBody, SumLemmas, TLAPS

-----------------------------------------------------------------------------
(* The inductive invariant.                                                *)

\* The frames that a client may send.
DataFrames ==
    [kind : {"DATA"}, stream : Streams, data : Nat, pad : PadLengths, end : BOOLEAN, fits : BOOLEAN]
ClientFrames == DataFrames \union [kind : {"RST"}, stream : Streams]

\* The types of the variables, with what each actor has in its hands at each of its places.
BodyTypes ==
    /\ window \in [Scopes -> Nat] /\ owed \in [Scopes -> Nat]
    /\ grant \in [Scopes -> Nat] /\ peer \in [Scopes -> Nat]
    /\ clientDone \subseteq Streams
    /\ wire \in Seq(ClientFrames)
    /\ rd \in [pc : {"read", "stopped"}, frame : {NoFrame}]
               \union [pc : {"handle", "enqueue", "end"}, frame : DataFrames]
    /\ state \in [Streams -> {"open", "halfClosedLocal", "halfClosedRemote", "closed"}]
    /\ pendingRST \subseteq Streams /\ rstSent \subseteq Streams
    /\ queue \in [Streams -> Seq(Nat)] /\ \A s \in Streams : Len(queue[s]) <= QueueCapacity
    /\ pump \in [Streams -> {"receive", "write", "eof", "error"}]
    /\ pipe \in [Streams -> Nat] /\ \A s \in Streams : pump[s] = "write" <=> pipe[s] > 0
    /\ handler \in [Streams -> {"run", "creditStream", "creditConn", "gone"}]
    /\ read \in [Streams -> Nat]
    /\ \A s \in Streams : handler[s] \in {"creditStream", "creditConn"} <=> read[s] > 0
    /\ body \in [Streams -> {"open", "eof", "error"}]
    /\ early \subseteq Streams

\* Where the frames of a stream can be.
CarriesData(f, s) == f.kind = "DATA" /\ f.stream = s
WithReader(s, pcs) == rd.pc \in pcs /\ rd.frame.stream = s

\* Nothing of the request's body is on the wire or with the reader any more.
AllRead(s) ==
    /\ s \in clientDone
    /\ \A i \in DOMAIN wire : ~ CarriesData(wire[i], s)
    /\ ~ WithReader(s, {"handle", "enqueue"})

\* The frame with END_STREAM is the last one of its stream, wherever it is.
LastFrame ==
    /\ \A i \in DOMAIN wire : wire[i].kind = "DATA" /\ wire[i].end =>
         /\ wire[i].stream \in clientDone
         /\ \A j \in DOMAIN wire : i < j => ~ CarriesData(wire[j], wire[i].stream)
    /\ rd.pc \in {"handle", "enqueue", "end"} /\ rd.frame.end =>
         /\ rd.frame.stream \in clientDone
         /\ \A j \in DOMAIN wire : ~ CarriesData(wire[j], rd.frame.stream)
    /\ rd.pc = "end" => rd.frame.end

\* A stream that is half closed by the client has been read to its end.  One that is closed
\* has a reset pending, or has been read to its end, and its handler has ended the response
\* before or after it saw that; a pump ends with its stream or after the last frame.
EndsOf(s) ==
    /\ state[s] = "halfClosedRemote" => AllRead(s)
    /\ state[s] = "halfClosedLocal" => s \in early
    /\ state[s] = "closed" => s \in pendingRST \/ (AllRead(s) /\ (s \in early \/ body[s] # "open"))
    /\ pump[s] \in {"eof", "error"} => state[s] \in {"halfClosedRemote", "closed"}
    /\ pump[s] = "eof" => AllRead(s) /\ (s \in early \/ queue[s] = <<>>)
    /\ body[s] # "open" => body[s] = pump[s]
Ends == \A s \in Streams : EndsOf(s)

BodyInv == BodyTypes /\ LastFrame /\ Ends /\ BufferedIsCharged

\* What the assumption says of the constants.
LEMMA BodyConstants ==
    ASSUME BodyAssumption
    PROVE  /\ IsFiniteSet(Streams) /\ Connection \notin Streams
           /\ Connection \in Scopes /\ \A s \in Streams : s \in Scopes /\ s # Connection
           /\ \A x \in Scopes : x = Connection \/ x \in Streams
           /\ StreamWindow \in Nat /\ ConnWindow \in Nat /\ QueueCapacity \in Nat
           /\ MaxFrameSize \in Nat /\ \A p \in PadLengths : p \in Nat
           /\ \A x \in Scopes : InitialWindow(x) \in Nat
  BY DEF BodyAssumption, Scopes, InitialWindow

-----------------------------------------------------------------------------
(* Types.                                                                  *)

\* Every step keeps the types.
LEMMA BodyTypesStep ==
    ASSUME BodyAssumption, BodyTypes, [Next]_vars PROVE BodyTypes'
  <1>1. ASSUME NEW s \in Streams, ClientData(s) PROVE BodyTypes'
    <2>1. PICK n \in 0 .. MaxFrameSize, p \in PadLengths, e \in BOOLEAN, f \in BOOLEAN :
            /\ n + p <= peer[s] /\ n + p <= peer[Connection]
            /\ wire' = Append(wire, Data(s, n, p, e, f))
            /\ peer' = [peer EXCEPT ![s] = @ - n - p, ![Connection] = @ - n - p]
            /\ clientDone' = IF e THEN clientDone \union {s} ELSE clientDone
      BY <1>1 DEF ClientData
    <2>2. Data(s, n, p, e, f) \in ClientFrames /\ n \in Nat /\ p \in Nat
      <3>1. n \in Nat /\ p \in Nat
        BY BodyConstants
      <3> QED  BY <3>1 DEF Data, ClientFrames, DataFrames
    <2>3. peer' \in [Scopes -> Nat]
      <3>1. /\ peer \in [Scopes -> Nat] /\ s \in Scopes /\ Connection \in Scopes /\ s # Connection
        BY BodyConstants DEF BodyTypes
      <3> QED  BY <2>1, <2>2, <3>1
    <2>4. wire' \in Seq(ClientFrames)
      BY <2>1, <2>2 DEF BodyTypes
    <2>5. clientDone' \subseteq Streams
      BY <2>1 DEF BodyTypes
    <2> QED  BY <1>1, <2>3, <2>4, <2>5 DEF ClientData, BodyTypes, windowVars, streamVars, bodyVars
  <1>2. ASSUME NEW s \in Streams, ClientReset(s) PROVE BodyTypes'
    <2>1. Rst(s) \in ClientFrames
      BY DEF Rst, ClientFrames
    <2> QED  BY <1>2, <2>1 DEF ClientReset, BodyTypes, windowVars, streamVars, bodyVars
  <1>3. ASSUME NEW x \in Scopes, ClientGranted(x) PROVE BodyTypes'
    <2>1. /\ peer' = [peer EXCEPT ![x] = @ + grant[x]] /\ grant' = [grant EXCEPT ![x] = 0]
          /\ UNCHANGED <<window, owed, clientDone, wire, rd, streamVars, bodyVars>>
      BY <1>3 DEF ClientGranted
    <2>2. peer' \in [Scopes -> Nat] /\ grant' \in [Scopes -> Nat]
      BY <2>1 DEF BodyTypes
    <2> QED  BY <2>1, <2>2 DEF BodyTypes, streamVars, bodyVars
  <1>4. ASSUME wire # <<>>, wire' = Tail(wire)
        PROVE  /\ wire' \in Seq(ClientFrames) /\ Head(wire) \in ClientFrames
               /\ Head(wire).stream \in Streams
               /\ Head(wire).kind = "DATA" => Head(wire) \in DataFrames /\ Head(wire).data \in Nat
    <2>1. wire' \in Seq(ClientFrames) /\ Head(wire) \in ClientFrames
      BY <1>4 DEF BodyTypes
    <2> QED  BY <2>1 DEF ClientFrames, DataFrames
  <1>5. CASE ReceiveRST
    <2>1. /\ state' \in [Streams -> {"open", "halfClosedLocal", "halfClosedRemote", "closed"}]
          /\ pendingRST' \subseteq Streams /\ wire' \in Seq(ClientFrames)
      <3>1. /\ wire' \in Seq(ClientFrames) /\ Head(wire).stream \in Streams
        BY <1>4, <1>5 DEF ReceiveRST
      <3>2. \/ UNCHANGED <<state, pendingRST>>
            \/ /\ state' = [state EXCEPT ![Head(wire).stream] = "closed"]
               /\ pendingRST' = pendingRST \union {Head(wire).stream}
        BY <1>5 DEF ReceiveRST, CloseStream
      <3> QED  BY <3>1, <3>2 DEF BodyTypes
    <2> QED  BY <1>5, <2>1 DEF ReceiveRST, BodyTypes, clientVars, windowVars, bodyVars
  <1>6. CASE DispatchData
    <2> DEFINE f == Head(wire)
    <2>1. /\ wire' \in Seq(ClientFrames) /\ f \in DataFrames /\ f.stream \in Streams /\ f.data \in Nat
          /\ window \in [Scopes -> Nat] /\ Connection \in Scopes
      BY <1>4, <1>6, BodyConstants DEF DispatchData, BodyTypes
    <2>2. window' \in [Scopes -> Nat]
      <3>1. \/ window' = window
            \/ f.data <= window[Connection] /\ window' = [window EXCEPT ![Connection] = @ - f.data]
        BY <1>6, <2>1 DEF DispatchData
      <3> QED  BY <2>1, <3>1
    <2>3. /\ rd' \in [pc : {"read", "stopped"}, frame : {NoFrame}]
                      \union [pc : {"handle", "enqueue", "end"}, frame : DataFrames]
          /\ rstSent' \subseteq Streams /\ UNCHANGED <<state, pendingRST>>
      BY <1>6, <2>1 DEF DispatchData, ReaderAt, Idle, Stopped, QueueRST, streamVars, BodyTypes
    <2> QED  BY <1>6, <2>1, <2>2, <2>3 DEF DispatchData, BodyTypes, clientVars, bodyVars
  <1>7. rd.pc \in {"handle", "enqueue", "end"} =>
          rd.frame \in DataFrames /\ rd.frame.stream \in Streams /\ rd.frame.data \in Nat
    BY DEF BodyTypes, DataFrames
  <1>8. CASE HandleOnClosed
    <2>1. /\ rd' \in [pc : {"read", "stopped"}, frame : {NoFrame}]
          /\ rstSent' \subseteq Streams /\ UNCHANGED <<state, pendingRST>>
      BY <1>7, <1>8 DEF HandleOnClosed, ReaderAt, Idle, Stopped, QueueRST, streamVars, BodyTypes
    <2> QED  BY <1>8, <2>1 DEF HandleOnClosed, BodyTypes, clientVars, windowVars, bodyVars
  <1>9. CASE HandleData
    <2>1. window' \in [Scopes -> Nat]
      <3>1. \/ window' = window
            \/ /\ ~ (rd.frame.data > window[rd.frame.stream])
               /\ window' = [window EXCEPT ![rd.frame.stream] = @ - rd.frame.data]
        BY <1>9 DEF HandleData
      <3>2. /\ window \in [Scopes -> Nat] /\ rd.frame.stream \in Scopes /\ rd.frame.data \in Nat
        BY <1>7, <1>9, BodyConstants DEF BodyTypes, HandleData
      <3> QED  BY <3>1, <3>2
    <2>2. /\ rd' \in [pc : {"read", "stopped"}, frame : {NoFrame}]
                      \union [pc : {"handle", "enqueue", "end"}, frame : DataFrames]
          /\ rstSent' \subseteq Streams /\ UNCHANGED <<state, pendingRST>>
      BY <1>7, <1>9 DEF HandleData, ReaderAt, Idle, Stopped, QueueRST, streamVars, BodyTypes
    <2> QED  BY <1>9, <2>1, <2>2 DEF HandleData, BodyTypes, clientVars, bodyVars
  <1>10. CASE Enqueue
    <2> DEFINE s == rd.frame.stream
    <2>1. /\ s \in Streams /\ rd.frame.data \in Nat /\ queue \in [Streams -> Seq(Nat)]
          /\ Len(queue[s]) < QueueCapacity /\ queue' = [queue EXCEPT ![s] = Append(@, rd.frame.data)]
      BY <1>7, <1>10 DEF Enqueue, BodyTypes
    <2> HIDE DEF s
    <2>2. queue' \in [Streams -> Seq(Nat)] /\ \A t \in Streams : Len(queue'[t]) <= QueueCapacity
      <3>1. Append(queue[s], rd.frame.data) \in Seq(Nat)
        BY <2>1
      <3>2. Len(Append(queue[s], rd.frame.data)) <= QueueCapacity
        BY <2>1
      <3> QED  BY <2>1, <3>1, <3>2 DEF BodyTypes
    <2>3. rd' \in [pc : {"read", "stopped"}, frame : {NoFrame}]
                      \union [pc : {"handle", "enqueue", "end"}, frame : DataFrames]
      BY <1>7, <1>10 DEF Enqueue, ReaderAt, Idle
    <2> QED  BY <1>10, <2>2, <2>3 DEF Enqueue, BodyTypes, clientVars, windowVars, streamVars
  <1>11. CASE EnqueueOnClosed
    <2>1. /\ rd' \in [pc : {"read", "stopped"}, frame : {NoFrame}]
          /\ rstSent' \subseteq Streams /\ UNCHANGED <<state, pendingRST>>
      BY <1>7, <1>11 DEF EnqueueOnClosed, ReaderAt, Idle, Stopped, QueueRST, streamVars, BodyTypes
    <2> QED  BY <1>11, <2>1 DEF EnqueueOnClosed, BodyTypes, clientVars, windowVars, bodyVars
  <1>12. CASE EndStream
    <2>1. /\ state' \in [Streams -> {"open", "halfClosedLocal", "halfClosedRemote", "closed"}]
          /\ pendingRST' = pendingRST /\ rstSent' \subseteq Streams
      <3>1. rd.pc = "end" /\ rd.frame.stream \in Streams
        BY <1>7, <1>12 DEF EndStream
      <3>2. \/ /\ state' = [state EXCEPT ![rd.frame.stream] = "halfClosedRemote"]
               /\ UNCHANGED <<pendingRST, rstSent>>
            \/ /\ state' = [state EXCEPT ![rd.frame.stream] = "closed"]
               /\ UNCHANGED <<pendingRST, rstSent>>
            \/ rstSent' = rstSent \union {rd.frame.stream} /\ UNCHANGED <<state, pendingRST>>
        BY <1>12 DEF EndStream, CloseStream, QueueRST
      <3> QED  BY <3>1, <3>2 DEF BodyTypes
    <2> QED  BY <1>12, <2>1 DEF EndStream, ReaderAt, Idle, BodyTypes, clientVars, windowVars, bodyVars
  <1>13. ASSUME NEW s \in Streams, PumpReceive(s) PROVE BodyTypes'
    <2>1. queue[s] \in Seq(Nat) /\ queue[s] # <<>> /\ Len(queue[s]) <= QueueCapacity
      BY <1>13 DEF PumpReceive, BodyTypes
    <2>2. /\ Head(queue[s]) \in Nat /\ Tail(queue[s]) \in Seq(Nat)
          /\ Len(Tail(queue[s])) <= QueueCapacity
      BY <2>1
    <2>3. queue' \in [Streams -> Seq(Nat)] /\ \A t \in Streams : Len(queue'[t]) <= QueueCapacity
      BY <1>13, <2>2 DEF PumpReceive, BodyTypes
    <2>4. /\ pump' \in [Streams -> {"receive", "write", "eof", "error"}]
          /\ pipe' \in [Streams -> Nat] /\ \A t \in Streams : pump'[t] = "write" <=> pipe'[t] > 0
      BY <1>13, <2>2 DEF PumpReceive, BodyTypes
    <2> QED  BY <1>13, <2>3, <2>4 DEF PumpReceive, BodyTypes, clientVars, windowVars, streamVars
  <1>14. ASSUME NEW s \in Streams, PumpDone(s) PROVE BodyTypes'
    BY <1>14 DEF PumpDone, ClosePipe, BodyTypes, clientVars, windowVars, streamVars
  <1>15. ASSUME NEW s \in Streams, HandlerRead(s) PROVE BodyTypes'
    <2>1. PICK n \in 1 .. pipe[s] :
            /\ read' = [read EXCEPT ![s] = n]
            /\ pipe' = [pipe EXCEPT ![s] = @ - n]
            /\ pump' = [pump EXCEPT ![s] = IF n = pipe[s] THEN "receive" ELSE "write"]
      BY <1>15 DEF HandlerRead
    <2>2. /\ pump' \in [Streams -> {"receive", "write", "eof", "error"}]
          /\ pipe' \in [Streams -> Nat] /\ \A t \in Streams : pump'[t] = "write" <=> pipe'[t] > 0
      BY <2>1 DEF BodyTypes
    <2>3. /\ handler' \in [Streams -> {"run", "creditStream", "creditConn", "gone"}]
          /\ read' \in [Streams -> Nat]
          /\ \A t \in Streams : handler'[t] \in {"creditStream", "creditConn"} <=> read'[t] > 0
      BY <1>15, <2>1 DEF HandlerRead, BodyTypes
    <2> QED  BY <1>15, <2>2, <2>3 DEF HandlerRead, BodyTypes, clientVars, windowVars, streamVars
  <1>16. ASSUME NEW x \in Scopes, NEW n \in Nat, Consumed(x, n)
         PROVE  window' \in [Scopes -> Nat] /\ owed' \in [Scopes -> Nat] /\ grant' \in [Scopes -> Nat]
    <2>1. /\ window \in [Scopes -> Nat] /\ owed \in [Scopes -> Nat] /\ grant \in [Scopes -> Nat]
          /\ owed[x] + n \in Nat
      BY DEF BodyTypes
    <2>2. window' \in [Scopes -> Nat]
      BY <1>16, <2>1 DEF Consumed
    <2>3. \/ owed' = [owed EXCEPT ![x] = 0] /\ grant' = [grant EXCEPT ![x] = @ + (owed[x] + n)]
          \/ owed' = [owed EXCEPT ![x] = owed[x] + n] /\ grant' = grant
      BY <1>16 DEF Consumed
    <2>4. owed' \in [Scopes -> Nat]
      BY <2>1, <2>3
    <2>5. grant' \in [Scopes -> Nat]
      BY <2>1, <2>3
    <2> QED  BY <2>2, <2>4, <2>5
  <1>17. ASSUME NEW s \in Streams, CreditStream(s) PROVE BodyTypes'
    <2>1. window' \in [Scopes -> Nat] /\ owed' \in [Scopes -> Nat] /\ grant' \in [Scopes -> Nat]
      <3>1. Consumed(s, read[s])
        BY <1>17 DEF CreditStream
      <3>2. s \in Scopes /\ read[s] \in Nat
        BY BodyConstants DEF BodyTypes
      <3> QED  BY <1>16, <3>1, <3>2
    <2> QED  BY <1>17, <2>1 DEF CreditStream, BodyTypes, clientVars, streamVars
  <1>18. ASSUME NEW s \in Streams, CreditConnection(s) PROVE BodyTypes'
    <2>1. window' \in [Scopes -> Nat] /\ owed' \in [Scopes -> Nat] /\ grant' \in [Scopes -> Nat]
      <3>1. Consumed(Connection, read[s])
        BY <1>18 DEF CreditConnection
      <3>2. Connection \in Scopes /\ read[s] \in Nat
        BY BodyConstants DEF BodyTypes
      <3> QED  BY <1>16, <3>1, <3>2
    <2> QED  BY <1>18, <2>1 DEF CreditConnection, BodyTypes, clientVars, streamVars
  <1>19. ASSUME NEW s \in Streams, HandlerSeesEnd(s) PROVE BodyTypes'
    BY <1>19 DEF HandlerSeesEnd, BodyTypes, clientVars, windowVars, streamVars
  <1>20. ASSUME NEW s \in Streams, EndResponse(s) PROVE BodyTypes'
    BY <1>20 DEF EndResponse, CloseStream, BodyTypes, clientVars, windowVars
  <1>21. ASSUME NEW s \in Streams, HandlerReturn(s) PROVE BodyTypes'
    BY <1>21 DEF HandlerReturn, BodyTypes, clientVars, windowVars, streamVars
  <1>22. ASSUME NEW s \in Streams, HandlerPanic(s) PROVE BodyTypes'
    BY <1>22 DEF HandlerPanic, CloseStream, BodyTypes, clientVars, windowVars
  <1>23. CASE UNCHANGED vars
    BY <1>23 DEF vars, BodyTypes
  <1> QED
    BY <1>1, <1>2, <1>3, <1>5, <1>6, <1>8, <1>9, <1>10, <1>11, <1>12, <1>13, <1>14, <1>15, <1>17,
       <1>18, <1>19, <1>20, <1>21, <1>22, <1>23 DEF Next, Reader, Pump, ReadBody

-----------------------------------------------------------------------------
(* The end of a body.                                                      *)

\* The frames of the wire, one more and one less.
LEMMA WireLonger ==
    ASSUME wire \in Seq(ClientFrames), NEW f \in ClientFrames, wire' = Append(wire, f)
    PROVE  /\ Len(wire) \in Nat /\ DOMAIN wire = 1 .. Len(wire) /\ DOMAIN wire' = 1 .. Len(wire) + 1
           /\ \A i \in 1 .. Len(wire) : wire'[i] = wire[i]
           /\ wire'[Len(wire) + 1] = f
  OBVIOUS

LEMMA WireShorter ==
    ASSUME wire \in Seq(ClientFrames), wire # <<>>, wire' = Tail(wire)
    PROVE  /\ Len(wire) \in Nat \ {0} /\ DOMAIN wire = 1 .. Len(wire)
           /\ DOMAIN wire' = 1 .. Len(wire) - 1
           /\ \A i \in 1 .. Len(wire) - 1 : wire'[i] = wire[i + 1] /\ i + 1 \in 1 .. Len(wire)
           /\ Head(wire) = wire[1] /\ Head(wire) \in ClientFrames
  OBVIOUS

\* A frame that is taken from the wire leaves no later one of a stream that was not there.
LEMMA StillNone ==
    ASSUME wire \in Seq(ClientFrames), wire # <<>>, wire' = Tail(wire), NEW s,
           \A i \in DOMAIN wire : ~ CarriesData(wire[i], s)
    PROVE  \A i \in DOMAIN wire' : ~ CarriesData(wire'[i], s)
  BY WireShorter

\* The client sends nothing on a stream after its last frame.
LEMMA LastFrameSent ==
    ASSUME BodyAssumption, BodyTypes, LastFrame, NEW s \in Streams, s \notin clientDone,
           NEW f \in ClientFrames, f.stream = s, wire' = Append(wire, f), UNCHANGED rd,
           clientDone \subseteq clientDone',
           f.kind = "DATA" /\ f.end => s \in clientDone'
    PROVE  LastFrame'
  <1>1. /\ Len(wire) \in Nat /\ DOMAIN wire = 1 .. Len(wire) /\ DOMAIN wire' = 1 .. Len(wire) + 1
        /\ \A i \in 1 .. Len(wire) : wire'[i] = wire[i]
        /\ wire'[Len(wire) + 1] = f
    BY WireLonger DEF BodyTypes
  <1>2. \A t : t # s => ~ CarriesData(f, t)
    BY DEF CarriesData
  <1>3. ASSUME NEW i \in DOMAIN wire', wire'[i].kind = "DATA", wire'[i].end
        PROVE  /\ wire'[i].stream \in clientDone'
               /\ \A j \in DOMAIN wire' : i < j => ~ CarriesData(wire'[j], wire'[i].stream)
    <2>1. CASE i = Len(wire) + 1
      BY <1>1, <1>3, <2>1
    <2>2. CASE i \in DOMAIN wire
      <3>1. wire[i] = wire'[i] /\ wire[i].stream \in clientDone /\ wire[i].stream # s
        BY <1>1, <1>3, <2>2 DEF LastFrame
      <3>2. ASSUME NEW j \in DOMAIN wire', i < j PROVE ~ CarriesData(wire'[j], wire'[i].stream)
        <4>1. CASE j = Len(wire) + 1
          BY <1>1, <1>2, <3>1, <4>1
        <4>2. CASE j \in DOMAIN wire
          BY <1>1, <1>3, <2>2, <3>2, <4>2 DEF LastFrame
        <4> QED  BY <1>1, <4>1, <4>2
      <3> QED  BY <3>1, <3>2
    <2> QED  BY <1>1, <2>1, <2>2
  <1>4. ASSUME rd.pc \in {"handle", "enqueue", "end"}, rd.frame.end
        PROVE  /\ rd.frame.stream \in clientDone'
               /\ \A j \in DOMAIN wire' : ~ CarriesData(wire'[j], rd.frame.stream)
    <2>1. /\ rd.frame.stream \in clientDone /\ rd.frame.stream # s
          /\ \A j \in DOMAIN wire : ~ CarriesData(wire[j], rd.frame.stream)
      BY <1>4 DEF LastFrame
    <2> QED  BY <1>1, <1>2, <2>1
  <1> QED  BY <1>3, <1>4 DEF LastFrame

\* The reader takes the first frame of the wire, and perhaps keeps it.
LEMMA LastFrameTaken ==
    ASSUME BodyAssumption, BodyTypes, LastFrame, wire # <<>>, wire' = Tail(wire),
           UNCHANGED clientDone, rd.pc = "read",
           \/ rd'.pc \in {"read", "stopped"}
           \/ rd'.pc = "handle" /\ rd'.frame = Head(wire) /\ Head(wire).kind = "DATA"
    PROVE  LastFrame'
  <1>1. /\ Len(wire) \in Nat \ {0} /\ DOMAIN wire = 1 .. Len(wire)
        /\ DOMAIN wire' = 1 .. Len(wire) - 1
        /\ \A i \in 1 .. Len(wire) - 1 : wire'[i] = wire[i + 1] /\ i + 1 \in 1 .. Len(wire)
        /\ Head(wire) = wire[1]
    BY WireShorter DEF BodyTypes
  <1>2. ASSUME NEW i \in DOMAIN wire', wire'[i].kind = "DATA", wire'[i].end
        PROVE  /\ wire'[i].stream \in clientDone'
               /\ \A j \in DOMAIN wire' : i < j => ~ CarriesData(wire'[j], wire'[i].stream)
    <2>1. /\ wire'[i] = wire[i + 1] /\ i + 1 \in DOMAIN wire
          /\ wire[i + 1].stream \in clientDone
          /\ \A j \in DOMAIN wire : i + 1 < j => ~ CarriesData(wire[j], wire[i + 1].stream)
      BY <1>1, <1>2 DEF LastFrame
    <2>2. ASSUME NEW j \in DOMAIN wire', i < j PROVE ~ CarriesData(wire'[j], wire'[i].stream)
      <3>1. j + 1 \in DOMAIN wire /\ i + 1 < j + 1 /\ wire'[j] = wire[j + 1]
        BY <1>1, <2>2
      <3> QED  BY <2>1, <3>1
    <2> QED  BY <2>1, <2>2
  <1>3. ASSUME rd'.pc \in {"handle", "enqueue", "end"}, rd'.frame.end
        PROVE  /\ rd'.frame.stream \in clientDone'
               /\ \A j \in DOMAIN wire' : ~ CarriesData(wire'[j], rd'.frame.stream)
    <2>1. 1 \in DOMAIN wire /\ rd'.frame = wire[1] /\ wire[1].kind = "DATA" /\ wire[1].end
      BY <1>1, <1>3
    <2>2. /\ wire[1].stream \in clientDone
          /\ \A j \in DOMAIN wire : 1 < j => ~ CarriesData(wire[j], wire[1].stream)
      BY <2>1 DEF LastFrame
    <2>3. ASSUME NEW j \in DOMAIN wire' PROVE ~ CarriesData(wire'[j], rd'.frame.stream)
      <3>1. j + 1 \in DOMAIN wire /\ 1 < j + 1 /\ wire'[j] = wire[j + 1]
        BY <1>1
      <3> QED  BY <2>1, <2>2, <3>1
    <2> QED  BY <2>1, <2>2, <2>3
  <1> QED  BY <1>2, <1>3 DEF LastFrame

\* Every step keeps the last frame last.
LEMMA LastFrameStep ==
    ASSUME BodyAssumption, BodyTypes, LastFrame, [Next]_vars PROVE LastFrame'
  <1>1. ASSUME UNCHANGED <<clientDone, wire>>,
               \/ rd' = rd
               \/ rd'.pc \in {"read", "stopped"}
               \/ /\ rd.pc = "handle" /\ rd'.pc = "enqueue" /\ rd'.frame = rd.frame
               \/ /\ rd.pc = "enqueue" /\ rd'.pc = "end" /\ rd'.frame = rd.frame /\ rd.frame.end
        PROVE  LastFrame'
    BY <1>1 DEF LastFrame
  <1>2. ASSUME NEW s \in Streams, ClientData(s) PROVE LastFrame'
    <2>1. PICK n \in 0 .. MaxFrameSize, p \in PadLengths, e \in BOOLEAN, f \in BOOLEAN :
            /\ wire' = Append(wire, Data(s, n, p, e, f))
            /\ clientDone' = IF e THEN clientDone \union {s} ELSE clientDone
      BY <1>2 DEF ClientData
    <2> DEFINE d == Data(s, n, p, e, f)
    <2>2. d \in ClientFrames /\ d.stream = s /\ d.end = e
      <3>1. n \in Nat /\ p \in Nat
        BY BodyConstants
      <3> QED  BY <3>1 DEF Data, ClientFrames, DataFrames
    <2>3. s \notin clientDone /\ rd' = rd /\ wire' = Append(wire, d)
      BY <1>2, <2>1 DEF ClientData
    <2> HIDE DEF d
    <2>4. clientDone \subseteq clientDone' /\ (d.end => s \in clientDone')
      BY <2>1, <2>2
    <2> QED  BY <2>2, <2>3, <2>4, LastFrameSent
  <1>3. ASSUME NEW s \in Streams, ClientReset(s) PROVE LastFrame'
    <2>1. Rst(s) \in ClientFrames /\ Rst(s).stream = s /\ Rst(s).kind # "DATA"
      BY DEF Rst, ClientFrames
    <2>2. /\ s \notin clientDone /\ rd' = rd /\ wire' = Append(wire, Rst(s))
          /\ clientDone' = clientDone \union {s}
      BY <1>3 DEF ClientReset
    <2> QED  BY <2>1, <2>2, LastFrameSent
  <1>4. CASE ReceiveRST
    BY <1>4, LastFrameTaken DEF ReceiveRST, clientVars
  <1>5. CASE DispatchData
    BY <1>5, LastFrameTaken DEF DispatchData, clientVars, ReaderAt, Idle, Stopped
  <1>6. CASE HandleOnClosed \/ HandleData
    BY <1>1, <1>6 DEF HandleOnClosed, HandleData, clientVars, ReaderAt, Idle, Stopped
  <1>7. CASE Enqueue \/ EnqueueOnClosed
    BY <1>1, <1>7 DEF Enqueue, EnqueueOnClosed, clientVars, ReaderAt, Idle, Stopped
  <1>8. CASE EndStream
    BY <1>1, <1>8 DEF EndStream, clientVars, ReaderAt, Idle
  <1>9. ASSUME NEW x, ClientGranted(x) PROVE LastFrame'
    BY <1>1, <1>9 DEF ClientGranted
  <1>10. ASSUME NEW s \in Streams,
                Pump(s) \/ ReadBody(s) \/ EndResponse(s) \/ HandlerReturn(s) \/ HandlerPanic(s)
         PROVE  LastFrame'
    BY <1>1, <1>10 DEF Pump, PumpReceive, PumpDone, ReadBody, HandlerRead, CreditStream,
       CreditConnection, HandlerSeesEnd, EndResponse, HandlerReturn, HandlerPanic, clientVars
  <1>11. CASE UNCHANGED vars
    BY <1>1, <1>11 DEF vars
  <1> QED
    BY <1>2, <1>3, <1>4, <1>5, <1>6, <1>7, <1>8, <1>9, <1>10, <1>11 DEF Next, Reader

\* A stream that is closed with a reset pending keeps what it has to.
LEMMA ClosedEnds ==
    ASSUME Ends, NEW s \in Streams, AllRead(s) => AllRead(s)', state'[s] = "closed",
           s \in pendingRST', UNCHANGED <<body, queue, pump, early>>
    PROVE  EndsOf(s)'
  <1>1. /\ pump[s] = "eof" => AllRead(s)' /\ (s \in early \/ queue[s] = <<>>)
        /\ body[s] # "open" => body[s] = pump[s]
    BY DEF Ends, EndsOf
  <1> QED  BY <1>1 DEF EndsOf

\* Every step keeps what the actors know of the end of a body.
LEMMA EndsStep ==
    ASSUME BodyAssumption, BodyTypes, LastFrame, Ends, [Next]_vars PROVE Ends'
  <1> USE DEF WithReader
  <1>0. /\ state \in [Streams -> {"open", "halfClosedLocal", "halfClosedRemote", "closed"}]
        /\ handler \in [Streams -> {"run", "creditStream", "creditConn", "gone"}]
        /\ pump \in [Streams -> {"receive", "write", "eof", "error"}]
        /\ body \in [Streams -> {"open", "eof", "error"}]
        /\ queue \in [Streams -> Seq(Nat)]
        /\ wire \in Seq(ClientFrames)
    BY DEF BodyTypes
  \* What is not touched stays as it was.
  <1>1. ASSUME NEW s \in Streams, AllRead(s) => AllRead(s)', pendingRST \subseteq pendingRST',
               state'[s] = state[s], early' = early, pump'[s] = pump[s],
               body'[s] = body[s], queue'[s] = queue[s]
        PROVE  EndsOf(s)'
    BY <1>1 DEF Ends, EndsOf
  <1>2. ASSUME UNCHANGED <<clientDone, wire>>,
               \/ rd' = rd
               \/ rd'.pc \notin {"handle", "enqueue"}
               \/ rd.pc = "handle" /\ rd'.pc = "enqueue" /\ rd'.frame = rd.frame
        PROVE  \A s \in Streams : AllRead(s) => AllRead(s)'
    BY <1>2 DEF AllRead
  <1>3. ASSUME wire # <<>>, wire' = Tail(wire), UNCHANGED clientDone, rd.pc = "read",
               \/ rd'.pc \in {"read", "stopped"}
               \/ rd'.pc = "handle" /\ rd'.frame = Head(wire) /\ Head(wire).kind = "DATA"
        PROVE  \A s \in Streams : AllRead(s) => AllRead(s)'
    <2>1. ASSUME NEW s \in Streams, AllRead(s) PROVE AllRead(s)'
      <3>1. \A i \in DOMAIN wire' : ~ CarriesData(wire'[i], s)
        BY <1>0, <1>3, <2>1, StillNone DEF AllRead
      <3>2. ~ CarriesData(Head(wire), s)
        BY <1>0, <1>3, <2>1, WireShorter DEF AllRead
      <3> QED  BY <1>3, <2>1, <3>1, <3>2 DEF AllRead, CarriesData
    <2> QED  BY <2>1
  <1>4. ASSUME NEW t \in Streams, t \notin clientDone, NEW f \in ClientFrames, f.stream = t,
               wire' = Append(wire, f), UNCHANGED rd, clientDone \subseteq clientDone'
        PROVE  \A s \in Streams : AllRead(s) => AllRead(s)'
    <2>1. ASSUME NEW s \in Streams, AllRead(s) PROVE AllRead(s)'
      <3>1. s # t
        BY <1>4, <2>1 DEF AllRead
      <3>2. \A i \in DOMAIN wire' : ~ CarriesData(wire'[i], s)
        <4>1. ~ CarriesData(f, s)
          BY <1>4, <3>1 DEF CarriesData
        <4>2. /\ Len(wire) \in Nat /\ DOMAIN wire = 1 .. Len(wire)
              /\ DOMAIN wire' = 1 .. Len(wire) + 1 /\ wire'[Len(wire) + 1] = f
              /\ \A i \in 1 .. Len(wire) : wire'[i] = wire[i]
          BY <1>0, <1>4, WireLonger
        <4>3. \A i \in 1 .. Len(wire) : ~ CarriesData(wire'[i], s)
          BY <2>1, <4>2 DEF AllRead, CarriesData
        <4> QED  BY <4>1, <4>2, <4>3
      <3> QED  BY <1>4, <2>1, <3>2 DEF AllRead
    <2> QED  BY <2>1
  <1>5. ASSUME NEW t \in Streams, ClientData(t) PROVE Ends'
    <2>1. PICK n \in 0 .. MaxFrameSize, p \in PadLengths, e \in BOOLEAN, f \in BOOLEAN :
            /\ wire' = Append(wire, Data(t, n, p, e, f))
            /\ clientDone' = IF e THEN clientDone \union {t} ELSE clientDone
      BY <1>5 DEF ClientData
    <2>2. Data(t, n, p, e, f) \in ClientFrames /\ Data(t, n, p, e, f).stream = t
      <3>1. n \in Nat /\ p \in Nat
        BY BodyConstants
      <3> QED  BY <3>1 DEF Data, ClientFrames, DataFrames
    <2>3. \A s \in Streams : AllRead(s) => AllRead(s)'
      BY <1>4, <1>5, <2>1, <2>2 DEF ClientData
    <2> QED  BY <1>1, <1>5, <2>3 DEF ClientData, streamVars, bodyVars, Ends
  <1>6. ASSUME NEW t \in Streams, ClientReset(t) PROVE Ends'
    <2>1. Rst(t) \in ClientFrames /\ Rst(t).stream = t
      BY DEF Rst, ClientFrames
    <2>2. \A s \in Streams : AllRead(s) => AllRead(s)'
      BY <1>4, <1>6, <2>1 DEF ClientReset
    <2> QED  BY <1>1, <1>6, <2>2 DEF ClientReset, streamVars, bodyVars, Ends
  <1>7. ASSUME NEW x, ClientGranted(x) PROVE Ends'
    BY <1>1, <1>2, <1>7 DEF ClientGranted, streamVars, bodyVars, Ends
  <1>8. CASE ReceiveRST
    <2> DEFINE t == Head(wire).stream
    <2>1. \A s \in Streams : AllRead(s) => AllRead(s)'
      BY <1>3, <1>8 DEF ReceiveRST, clientVars
    <2>2. UNCHANGED bodyVars
      BY <1>8 DEF ReceiveRST
    <2>3. \/ UNCHANGED <<state, pendingRST>>
          \/ state' = [state EXCEPT ![t] = "closed"] /\ pendingRST' = pendingRST \union {t}
      BY <1>8 DEF ReceiveRST, CloseStream
    <2> HIDE DEF t
    <2>4. ASSUME NEW s \in Streams PROVE EndsOf(s)'
      <3>1. \/ state'[s] = state[s] /\ pendingRST \subseteq pendingRST'
            \/ state'[s] = "closed" /\ s \in pendingRST'
        BY <1>0, <2>3
      <3>2. UNCHANGED <<queue, pump, body, early>>
        BY <2>2 DEF bodyVars
      <3>3. CASE state'[s] = state[s] /\ pendingRST \subseteq pendingRST'
        BY <1>1, <2>1, <3>2, <3>3
      <3>4. CASE state'[s] = "closed" /\ s \in pendingRST'
        BY <2>1, <3>2, <3>4, ClosedEnds
      <3> QED  BY <3>1, <3>3, <3>4
    <2> QED  BY <2>4 DEF Ends
  <1>9. CASE DispatchData
    <2>1. \A s \in Streams : AllRead(s) => AllRead(s)'
      BY <1>3, <1>9 DEF DispatchData, clientVars, ReaderAt, Idle, Stopped
    <2>2. UNCHANGED <<state, pendingRST, bodyVars>>
      BY <1>9 DEF DispatchData, QueueRST, streamVars
    <2> QED  BY <1>1, <2>1, <2>2 DEF bodyVars, Ends
  <1>10. CASE HandleOnClosed \/ HandleData \/ EnqueueOnClosed
    <2>1. \A s \in Streams : AllRead(s) => AllRead(s)'
      BY <1>2, <1>10 DEF HandleOnClosed, HandleData, EnqueueOnClosed, clientVars, ReaderAt, Idle,
         Stopped
    <2>2. UNCHANGED <<state, pendingRST, bodyVars>>
      BY <1>10 DEF HandleOnClosed, HandleData, EnqueueOnClosed, QueueRST, streamVars
    <2> QED  BY <1>1, <2>1, <2>2 DEF bodyVars, Ends
  <1>11. CASE Enqueue
    <2> DEFINE t == rd.frame.stream
    <2>1. \A s \in Streams : AllRead(s) => AllRead(s)'
      BY <1>2, <1>11 DEF Enqueue, clientVars, ReaderAt, Idle
    <2>2. /\ UNCHANGED <<state, pendingRST, pump, body, early>> /\ ~ AllRead(t)
          /\ queue' = [queue EXCEPT ![t] = Append(@, rd.frame.data)]
      BY <1>11 DEF Enqueue, streamVars, AllRead
    <2> HIDE DEF t
    <2>3. ASSUME NEW s \in Streams PROVE EndsOf(s)'
      <3>1. queue'[s] = queue[s] \/ ~ AllRead(s)
        BY <1>0, <2>2
      <3> QED  BY <2>1, <2>2, <3>1 DEF Ends, EndsOf
    <2> QED  BY <2>3 DEF Ends
  <1>12. CASE EndStream
    <2>0. PICK t \in Streams : t = rd.frame.stream
      BY <1>12 DEF EndStream, BodyTypes, DataFrames
    <2>1. \A s \in Streams : AllRead(s) => AllRead(s)'
      BY <1>2, <1>12 DEF EndStream, clientVars, ReaderAt, Idle
    <2>2. AllRead(t)'
      <3>1. /\ t \in clientDone /\ \A j \in DOMAIN wire : ~ CarriesData(wire[j], t)
        BY <1>12, <2>0 DEF EndStream, LastFrame
      <3>2. UNCHANGED <<clientDone, wire>> /\ rd'.pc = "read"
        BY <1>12 DEF EndStream, clientVars, ReaderAt, Idle
      <3> QED  BY <3>1, <3>2 DEF AllRead
    <2>3. /\ UNCHANGED <<pendingRST, bodyVars>>
          /\ \/ state[t] = "open" /\ state' = [state EXCEPT ![t] = "halfClosedRemote"]
             \/ state[t] = "halfClosedLocal" /\ state' = [state EXCEPT ![t] = "closed"]
             \/ state' = state
      BY <1>12, <2>0 DEF EndStream, CloseStream, QueueRST
    <2>4. ASSUME NEW s \in Streams PROVE EndsOf(s)'
      <3>1. \/ state'[s] = state[s]
            \/ s = t /\ state'[s] = "halfClosedRemote" /\ state[s] = "open"
            \/ s = t /\ state[s] = "halfClosedLocal" /\ state'[s] = "closed"
        BY <1>0, <2>3
      <3> QED  BY <2>1, <2>2, <2>3, <3>1 DEF Ends, EndsOf, bodyVars
    <2> QED  BY <2>4 DEF Ends
  <1>13. ASSUME NEW t \in Streams, PumpReceive(t) PROVE Ends'
    <2>1. \A s \in Streams : AllRead(s) => AllRead(s)'
      BY <1>2, <1>13 DEF PumpReceive, clientVars
    <2>2. UNCHANGED <<state, pendingRST, body, early>>
      BY <1>13 DEF PumpReceive, streamVars
    <2>3. ASSUME NEW s \in Streams PROVE EndsOf(s)'
      <3>1. CASE s # t
        <4>1. queue'[s] = queue[s] /\ pump'[s] = pump[s]
          BY <1>0, <1>13, <3>1 DEF PumpReceive
        <4> QED  BY <1>1, <2>1, <2>2, <4>1
      <3>2. CASE s = t
        <4>1. pump[s] = "receive" /\ pump'[s] \in {"receive", "write"}
          BY <1>0, <1>13, <3>2 DEF PumpReceive
        <4>2. body[s] = "open"
          BY <1>0, <4>1 DEF Ends, EndsOf
        <4> QED  BY <2>1, <2>2, <4>1, <4>2 DEF Ends, EndsOf
      <3> QED  BY <3>1, <3>2
    <2> QED  BY <2>3 DEF Ends
  <1>14. ASSUME NEW t \in Streams, PumpDone(t) PROVE Ends'
    <2>1. \A s \in Streams : AllRead(s) => AllRead(s)'
      BY <1>2, <1>14 DEF PumpDone, clientVars
    <2>2. UNCHANGED <<state, pendingRST, body, queue, early>>
      BY <1>14 DEF PumpDone, streamVars
    <2>3. ASSUME NEW s \in Streams PROVE EndsOf(s)'
      <3>1. CASE s # t
        <4>1. pump'[s] = pump[s]
          BY <1>0, <1>14, <3>1 DEF PumpDone, ClosePipe
        <4> QED  BY <1>1, <2>1, <2>2, <4>1
      <3>2. CASE s = t
        <4>1. /\ pump[s] = "receive"
              /\ pump'[s] = IF s \in pendingRST THEN "error" ELSE "eof"
              /\ \/ state[s] = "closed"
                 \/ state[s] = "halfClosedRemote" /\ queue[s] = <<>>
          BY <1>0, <1>14, <3>2 DEF PumpDone, ClosePipe, CtxDone, ChanClosed
        <4>2. body[s] = "open"
          BY <1>0, <4>1 DEF Ends, EndsOf
        <4> QED  BY <2>1, <2>2, <4>1, <4>2 DEF Ends, EndsOf
      <3> QED  BY <3>1, <3>2
    <2> QED  BY <2>3 DEF Ends
  <1>15. ASSUME NEW t \in Streams, HandlerRead(t) PROVE Ends'
    <2>1. \A s \in Streams : AllRead(s) => AllRead(s)'
      BY <1>2, <1>15 DEF HandlerRead, clientVars
    <2>2. UNCHANGED <<state, pendingRST, body, queue, early>> /\ pump[t] = "write"
      BY <1>15 DEF HandlerRead, streamVars
    <2>3. \A s \in Streams : \/ pump'[s] = pump[s]
                             \/ s = t /\ pump'[s] \in {"receive", "write"}
      BY <1>0, <1>15 DEF HandlerRead
    <2>4. body[t] = "open"
      BY <1>0, <2>2 DEF Ends, EndsOf
    <2> QED  BY <2>1, <2>2, <2>3, <2>4 DEF Ends, EndsOf
  <1>16. ASSUME NEW t \in Streams, CreditStream(t) \/ CreditConnection(t) PROVE Ends'
    <2>1. \A s \in Streams : AllRead(s) => AllRead(s)'
      BY <1>2, <1>16 DEF CreditStream, CreditConnection, clientVars
    <2>2. UNCHANGED <<state, pendingRST, body, queue, pump, early>>
      BY <1>16 DEF CreditStream, CreditConnection, streamVars
    <2> QED  BY <1>1, <2>1, <2>2 DEF Ends
  <1>17. ASSUME NEW t \in Streams, HandlerSeesEnd(t) PROVE Ends'
    <2>1. \A s \in Streams : AllRead(s) => AllRead(s)'
      BY <1>2, <1>17 DEF HandlerSeesEnd, clientVars
    <2>2. UNCHANGED <<state, pendingRST, queue, pump, early>>
      BY <1>17 DEF HandlerSeesEnd, streamVars
    <2>3. ASSUME NEW s \in Streams
          PROVE  \/ body'[s] = body[s]
                 \/ body'[s] = pump[s] /\ pump[s] # "open"
      BY <1>0, <1>17 DEF HandlerSeesEnd
    <2> QED  BY <2>1, <2>2, <2>3 DEF Ends, EndsOf
  <1>18. ASSUME NEW t \in Streams, EndResponse(t) PROVE Ends'
    <2>1. \A s \in Streams : AllRead(s) => AllRead(s)'
      BY <1>2, <1>18 DEF EndResponse, clientVars
    <2>2. UNCHANGED <<pendingRST, body, queue, pump>> /\ early \subseteq early'
      BY <1>18 DEF EndResponse
    <2>3. ASSUME NEW s \in Streams
          PROVE  \/ state'[s] = state[s]
                 \/ /\ s \in early' \/ body[s] # "open"
                    /\ \/ state[s] = "open" /\ state'[s] = "halfClosedLocal"
                       \/ state[s] = "halfClosedRemote" /\ state'[s] = "closed"
      BY <1>0, <1>18 DEF EndResponse, CloseStream
    <2>4. ASSUME NEW s \in Streams, state[s] = "open" PROVE body[s] = "open"
      BY <1>0, <2>4 DEF Ends, EndsOf
    <2> QED  BY <2>1, <2>2, <2>3, <2>4 DEF Ends, EndsOf
  <1>19. ASSUME NEW t \in Streams, HandlerReturn(t) PROVE Ends'
    <2>1. \A s \in Streams : AllRead(s) => AllRead(s)'
      BY <1>2, <1>19 DEF HandlerReturn, clientVars
    <2> QED  BY <1>1, <1>19, <2>1 DEF HandlerReturn, streamVars, Ends
  <1>20. ASSUME NEW t \in Streams, HandlerPanic(t) PROVE Ends'
    <2>1. \A s \in Streams : AllRead(s) => AllRead(s)'
      BY <1>2, <1>20 DEF HandlerPanic, clientVars
    <2>2. UNCHANGED <<body, queue, pump, early>> /\ pendingRST \subseteq pendingRST'
      BY <1>20 DEF HandlerPanic
    <2>3. ASSUME NEW s \in Streams
          PROVE  state'[s] = state[s] \/ (state'[s] = "closed" /\ s \in pendingRST')
      <3>1. /\ state' = [state EXCEPT ![t] = "closed"] /\ t \in pendingRST'
            /\ DOMAIN state = Streams
        BY <1>0, <1>20 DEF HandlerPanic, CloseStream
      <3> QED  BY <3>1
    <2>4. ASSUME NEW s \in Streams PROVE EndsOf(s)'
      <3>1. CASE state'[s] = state[s]
        BY <1>1, <2>1, <2>2, <3>1
      <3>2. CASE state'[s] = "closed" /\ s \in pendingRST'
        BY <2>1, <2>2, <3>2, ClosedEnds
      <3> QED  BY <2>3, <3>1, <3>2
    <2> QED  BY <2>4 DEF Ends
  <1>21. CASE UNCHANGED vars
    BY <1>1, <1>2, <1>21 DEF vars, Ends
  <1> QED
    BY <1>5, <1>6, <1>7, <1>8, <1>9, <1>10, <1>11, <1>12, <1>13, <1>14, <1>15, <1>16, <1>17, <1>18,
       <1>19, <1>20, <1>21 DEF Next, Reader, Pump, ReadBody

-----------------------------------------------------------------------------
(* The bytes that are buffered.                                            *)

\* The sum over a queue of chunks.
LEMMA SeqSum ==
    ASSUME NEW q \in Seq(Nat)
    PROVE  /\ SumFunction(q) \in Nat
           /\ \A n \in Nat : SumFunction(Append(q, n)) = SumFunction(q) + n
           /\ q # <<>> => SumFunction(Tail(q)) = SumFunction(q) - Head(q)
  <1>1. Len(q) \in Nat /\ DOMAIN q = 1 .. Len(q) /\ \A i \in 1 .. Len(q) : q[i] \in Nat
    OBVIOUS
  <1>2. IsFiniteSet(1 .. Len(q)) /\ SumFunction(q) = SumFunctionOnSet(q, 1 .. Len(q))
    BY <1>1, FS_Interval DEF SumFunction
  <1>3. SumFunction(q) \in Nat
    BY <1>1, <1>2, SumNat
  <1>4. ASSUME NEW n \in Nat PROVE SumFunction(Append(q, n)) = SumFunction(q) + n
    <2> DEFINE g == Append(q, n)
    <2>1. /\ DOMAIN g = 1 .. Len(q) + 1 /\ \A i \in 1 .. Len(q) : q[i] \in Int /\ g[i] = q[i]
          /\ g[Len(q) + 1] = n /\ n \in Int
      BY <1>1
    <2>2. SumFunction(g) = SumFunctionOnSet(g, 1 .. Len(q) + 1)
      BY <2>1 DEF SumFunction
    <2> HIDE DEF g
    <2>3. SumFunctionOnSet(g, 1 .. Len(q) + 1) = SumFunctionOnSet(q, 1 .. Len(q)) + g[Len(q) + 1]
      BY <1>1, <2>1, SumLonger
    <2> QED  BY <1>2, <2>1, <2>2, <2>3 DEF g
  <1>5. ASSUME q # <<>> PROVE SumFunction(Tail(q)) = SumFunction(q) - Head(q)
    <2> DEFINE g == Tail(q)
    <2>1. /\ Len(q) > 0 /\ DOMAIN g = 1 .. Len(q) - 1 /\ \A i \in 1 .. Len(q) - 1 : g[i] = q[i + 1]
          /\ \A i \in 1 .. Len(q) : q[i] \in Int
          /\ Head(q) = q[1]
      BY <1>1, <1>5
    <2>2. SumFunction(g) = SumFunctionOnSet(g, 1 .. Len(q) - 1)
      BY <2>1 DEF SumFunction
    <2> HIDE DEF g
    <2>3. SumFunctionOnSet(g, 1 .. Len(q) - 1) = SumFunctionOnSet(q, 1 .. Len(q)) - q[1]
      BY <1>1, <2>1, SumShorter
    <2> QED  BY <1>2, <2>1, <2>2, <2>3 DEF g
  <1> QED  BY <1>3, <1>4, <1>5

\* What a frame is worth, and what one more and one less does to the wire.
LEMMA OctetsType ==
    ASSUME BodyAssumption, NEW f \in ClientFrames, NEW x PROVE Octets(f, x) \in Nat
  <1>1. f.kind = "DATA" => f.data \in Nat /\ f.pad \in Nat
    BY BodyConstants DEF ClientFrames, DataFrames
  <1> QED  BY <1>1 DEF Octets

LEMMA OnWireType ==
    ASSUME BodyAssumption, wire \in Seq(ClientFrames), NEW x PROVE OnWire(x) \in Nat
  <1> DEFINE F == [i \in DOMAIN wire |-> Octets(wire[i], x)]
  <1>1. DOMAIN F = 1 .. Len(wire) /\ Len(wire) \in Nat
    OBVIOUS
  <1>2. \A i \in 1 .. Len(wire) : F[i] \in Nat
    BY OctetsType
  <1>3. IsFiniteSet(1 .. Len(wire)) /\ OnWire(x) = SumFunctionOnSet(F, 1 .. Len(wire))
    BY <1>1, FS_Interval DEF OnWire, SumFunction
  <1> HIDE DEF F
  <1> QED  BY <1>2, <1>3, SumNat

LEMMA OnWireLonger ==
    ASSUME BodyAssumption, wire \in Seq(ClientFrames), NEW f \in ClientFrames,
           wire' = Append(wire, f), NEW x
    PROVE  OnWire(x)' = OnWire(x) + Octets(f, x)
  <1> DEFINE F == [i \in DOMAIN wire |-> Octets(wire[i], x)]
             G == [i \in DOMAIN wire' |-> Octets(wire'[i], x)]
             n == Len(wire)
  <1>1. n \in Nat /\ DOMAIN F = 1 .. n /\ DOMAIN G = 1 .. n + 1
    OBVIOUS
  <1>2. \A i \in 1 .. n : F[i] \in Int /\ G[i] = F[i]
    BY OctetsType
  <1>3. G[n + 1] = Octets(f, x) /\ G[n + 1] \in Int
    BY OctetsType
  <1>4. OnWire(x) = SumFunctionOnSet(F, 1 .. n)
    BY <1>1 DEF OnWire, SumFunction
  <1>5. OnWire(x)' = SumFunctionOnSet(G, 1 .. n + 1)
    BY <1>1 DEF OnWire, SumFunction, Octets
  <1> HIDE DEF F, G, n
  <1> QED  BY <1>1, <1>2, <1>3, <1>4, <1>5, SumLonger

LEMMA OnWireShorter ==
    ASSUME BodyAssumption, wire \in Seq(ClientFrames), wire # <<>>, wire' = Tail(wire), NEW x
    PROVE  OnWire(x)' = OnWire(x) - Octets(Head(wire), x)
  <1> DEFINE F == [i \in DOMAIN wire |-> Octets(wire[i], x)]
             G == [i \in DOMAIN wire' |-> Octets(wire'[i], x)]
             n == Len(wire)
  <1>1. n \in Nat /\ n > 0 /\ DOMAIN F = 1 .. n /\ DOMAIN G = 1 .. n - 1
    OBVIOUS
  <1>2. \A i \in 1 .. n : F[i] \in Int
    BY OctetsType
  <1>3. \A i \in 1 .. n - 1 : G[i] = F[i + 1]
    OBVIOUS
  <1>4. OnWire(x) = SumFunctionOnSet(F, 1 .. n)
    BY <1>1 DEF OnWire, SumFunction
  <1>5. OnWire(x)' = SumFunctionOnSet(G, 1 .. n - 1)
    BY <1>1 DEF OnWire, SumFunction, Octets
  <1>6. F[1] = Octets(Head(wire), x)
    BY <1>1
  <1> HIDE DEF F, G, n
  <1>7. SumFunctionOnSet(G, 1 .. n - 1) = SumFunctionOnSet(F, 1 .. n) - F[1]
    BY <1>1, <1>2, <1>3, SumShorter
  <1> QED  BY <1>4, <1>5, <1>6, <1>7

\* What is added up for a stream are natural numbers.
LEMMA HeldParts ==
    BodyTypes => \A s \in Streams :
        /\ Holding(s, {"handle"}) \in Nat /\ Holding(s, {"enqueue"}) \in Nat
        /\ Holding(s, {"handle", "enqueue"}) = Holding(s, {"handle"}) + Holding(s, {"enqueue"})
        /\ QueuedBytes(s) \in Nat /\ pipe[s] \in Nat /\ read[s] \in Nat
        /\ Uncredited(s, {"creditStream"}) \in Nat
        /\ Uncredited(s, {"creditStream", "creditConn"}) \in Nat
        /\ HeldForStream(s) \in Nat /\ HeldForConnection(s) \in Nat
  <1> SUFFICES ASSUME BodyTypes, NEW s \in Streams
               PROVE  /\ Holding(s, {"handle"}) \in Nat /\ Holding(s, {"enqueue"}) \in Nat
                      /\ Holding(s, {"handle", "enqueue"})
                           = Holding(s, {"handle"}) + Holding(s, {"enqueue"})
                      /\ QueuedBytes(s) \in Nat /\ pipe[s] \in Nat /\ read[s] \in Nat
                      /\ Uncredited(s, {"creditStream"}) \in Nat
                      /\ Uncredited(s, {"creditStream", "creditConn"}) \in Nat
                      /\ HeldForStream(s) \in Nat /\ HeldForConnection(s) \in Nat
    OBVIOUS
  <1>1. /\ Holding(s, {"handle"}) \in Nat /\ Holding(s, {"enqueue"}) \in Nat
        /\ Holding(s, {"handle", "enqueue"}) = Holding(s, {"handle"}) + Holding(s, {"enqueue"})
    <2>1. rd.pc \in {"handle", "enqueue"} => rd.frame.data \in Nat
      BY DEF BodyTypes, DataFrames
    <2> QED  BY <2>1 DEF Holding
  <1>2. QueuedBytes(s) \in Nat
    <2>1. queue[s] \in Seq(Nat)
      BY DEF BodyTypes
    <2> QED  BY <2>1, SeqSum DEF QueuedBytes
  <1>3. pipe[s] \in Nat /\ read[s] \in Nat
    BY DEF BodyTypes
  <1>4. /\ Uncredited(s, {"creditStream"}) \in Nat
        /\ Uncredited(s, {"creditStream", "creditConn"}) \in Nat
    BY <1>3 DEF Uncredited
  <1> QED  BY <1>1, <1>2, <1>3, <1>4 DEF HeldForStream, HeldForConnection

LEMMA HeldPartsNext ==
    BodyTypes' => \A s \in Streams :
        /\ HeldForStream(s)' \in Nat /\ HeldForConnection(s)' \in Nat
        /\ Holding(s, {"handle", "enqueue"})'
             = Holding(s, {"handle"})' + Holding(s, {"enqueue"})'
  <1>1. BodyTypes => \A s \in Streams :
          /\ HeldForStream(s) \in Nat /\ HeldForConnection(s) \in Nat
          /\ Holding(s, {"handle", "enqueue"}) = Holding(s, {"handle"}) + Holding(s, {"enqueue"})
    BY HeldParts
  <1>2. (BodyTypes => \A s \in Streams :
          /\ HeldForStream(s) \in Nat /\ HeldForConnection(s) \in Nat
          /\ Holding(s, {"handle", "enqueue"})
               = Holding(s, {"handle"}) + Holding(s, {"enqueue"}))'
    BY <1>1, PTL
  <1> QED  BY <1>2

\* The parts of a window's account.
LEMMA WindowParts ==
    ASSUME BodyAssumption, BodyTypes, NEW x \in Scopes
    PROVE  /\ window[x] \in Nat /\ owed[x] \in Nat /\ grant[x] \in Nat /\ peer[x] \in Nat
           /\ OnWire(x) \in Nat
  <1>1. OnWire(x) \in Nat
    BY OnWireType DEF BodyTypes
  <1> QED  BY <1>1 DEF BodyTypes

\* Bytes move within one stream t, or leave it: all the others are as they were.
LEMMA ChargeMoves ==
    ASSUME BodyAssumption, BodyTypes, BodyTypes', BufferedIsCharged, NEW t \in Streams,
           \A s \in Streams \ {t} :
               /\ HeldForStream(s)' = HeldForStream(s)
               /\ HeldForConnection(s)' = HeldForConnection(s)
               /\ window'[s] = window[s],
           \A s \in Streams : Intact(s)' => Intact(s),
           rd.pc = "stopped" => rd'.pc = "stopped",
           Intact(t)' /\ rd'.pc # "stopped" =>
               window'[t] + HeldForStream(t)' = window[t] + HeldForStream(t),
           window'[Connection] + HeldForConnection(t)' <= window[Connection] + HeldForConnection(t)
    PROVE  BufferedIsCharged'
  <1>1. ASSUME NEW s \in Streams, Intact(s)', rd'.pc # "stopped"
        PROVE  StreamWindow - window'[s] = HeldForStream(s)'
    <2>1. StreamWindow - window[s] = HeldForStream(s)
      BY <1>1 DEF BufferedIsCharged
    <2>2. CASE s # t
      BY <2>1, <2>2
    <2>3. CASE s = t
      <3>1. /\ window[t] \in Nat /\ HeldForStream(t) \in Nat
            /\ window'[t] \in Nat /\ HeldForStream(t)' \in Nat /\ StreamWindow \in Nat
        <4>1. t \in Scopes /\ StreamWindow \in Nat
          BY BodyConstants
        <4>2. window[t] \in Nat /\ window'[t] \in Nat
          BY <4>1 DEF BodyTypes
        <4> QED  BY <4>1, <4>2, HeldParts, HeldPartsNext
      <3>2. window'[t] + HeldForStream(t)' = window[t] + HeldForStream(t)
        BY <1>1, <2>3
      <3> QED  BY <2>1, <2>3, <3>1, <3>2
    <2> QED  BY <2>2, <2>3
  <1> DEFINE F == [s \in Streams |-> HeldForConnection(s)]
             G == [s \in Streams |-> HeldForConnection(s)']
             before == SumFunctionOnSet(F, Streams)
             after == SumFunctionOnSet(G, Streams)
  <1>2. /\ \A s \in Streams : F[s] \in Int /\ G[s] \in Int
        /\ \A s \in Streams : s # t => G[s] = F[s]
        /\ F[t] = HeldForConnection(t) /\ G[t] = HeldForConnection(t)'
    BY HeldParts, HeldPartsNext
  <1>3. /\ SumFunction([s \in Streams |-> HeldForConnection(s)]) = before
        /\ SumFunction([s \in Streams |-> HeldForConnection(s)])' = after
    BY DEF SumFunction
  <1> HIDE DEF F, G
  <1>4. after = before - F[t] + G[t] /\ before \in Int
    <2>1. IsFiniteSet(Streams)
      BY BodyConstants
    <2>2. before \in Int
      BY <1>2, <2>1, SumInt
    <2>3. after = before - F[t] + G[t]
      BY <1>2, <2>1, SumChange
    <2> QED  BY <2>2, <2>3
  <1> HIDE DEF before, after
  <1>5. before <= ConnWindow - window[Connection]
    BY <1>3 DEF BufferedIsCharged
  <1>6. window[Connection] \in Nat /\ window'[Connection] \in Nat /\ ConnWindow \in Nat
    BY BodyConstants DEF BodyTypes
  <1>7. after <= ConnWindow - window'[Connection]
    BY <1>2, <1>4, <1>5, <1>6
  <1> QED  BY <1>1, <1>3, <1>7 DEF BufferedIsCharged

\* Nothing is received, taken or credited.
LEMMA ChargeStays ==
    ASSUME BodyTypes, BodyTypes', BufferedIsCharged,
           UNCHANGED <<window, queue, pipe, handler, read>>,
           \A s \in Streams : /\ Holding(s, {"handle"})' = Holding(s, {"handle"})
                              /\ Holding(s, {"enqueue"})' = Holding(s, {"enqueue"}),
           \A s \in Streams : Intact(s)' => Intact(s),
           rd.pc = "stopped" => rd'.pc = "stopped"
    PROVE  BufferedIsCharged'
  <1>1. ASSUME NEW s \in Streams
        PROVE  /\ HeldForStream(s)' = HeldForStream(s)
               /\ HeldForConnection(s)' = HeldForConnection(s)
    <2>1. Holding(s, {"handle", "enqueue"})' = Holding(s, {"handle", "enqueue"})
      <3>1. Holding(s, {"handle", "enqueue"}) = Holding(s, {"handle"}) + Holding(s, {"enqueue"})
        BY HeldParts
      <3>2. Holding(s, {"handle", "enqueue"})'
              = Holding(s, {"handle"})' + Holding(s, {"enqueue"})'
        BY HeldPartsNext
      <3> QED  BY <3>1, <3>2
    <2> QED  BY <2>1 DEF HeldForStream, HeldForConnection, QueuedBytes, Uncredited
  <1>2. [s \in Streams |-> HeldForConnection(s)]' = [s \in Streams |-> HeldForConnection(s)]
    BY <1>1
  <1>3. SumFunction([s \in Streams |-> HeldForConnection(s)])'
          = SumFunction([s \in Streams |-> HeldForConnection(s)])
    BY <1>2
  <1> QED  BY <1>1, <1>3 DEF BufferedIsCharged

\* A stream that a step leaves alone.
LEMMA HeldSame ==
    ASSUME BodyTypes, BodyTypes', NEW s \in Streams,
           queue'[s] = queue[s], pipe'[s] = pipe[s], handler'[s] = handler[s], read'[s] = read[s],
           Holding(s, {"handle"})' = Holding(s, {"handle"}),
           Holding(s, {"enqueue"})' = Holding(s, {"enqueue"})
    PROVE  HeldForStream(s)' = HeldForStream(s) /\ HeldForConnection(s)' = HeldForConnection(s)
  <1>1. Holding(s, {"handle", "enqueue"})' = Holding(s, {"handle", "enqueue"})
    <2>1. Holding(s, {"handle", "enqueue"}) = Holding(s, {"handle"}) + Holding(s, {"enqueue"})
      BY HeldParts
    <2>2. Holding(s, {"handle", "enqueue"})' = Holding(s, {"handle"})' + Holding(s, {"enqueue"})'
      BY HeldPartsNext
    <2> QED  BY <2>1, <2>2
  <1> QED  BY <1>1 DEF HeldForStream, HeldForConnection, QueuedBytes, Uncredited

\* A stream that was given up stays so, and a reader that has stopped.
LEMMA NeverMended ==
    ASSUME BodyTypes, [Next]_vars
    PROVE  /\ \A s \in Streams : Intact(s)' => Intact(s)
           /\ rd.pc = "stopped" => rd'.pc = "stopped"
  <1>0. state \in [Streams -> {"open", "halfClosedLocal", "halfClosedRemote", "closed"}]
    BY DEF BodyTypes
  <1>1. ASSUME rstSent \subseteq rstSent',
               \A s \in Streams : state[s] = "closed" => state'[s] = "closed",
               rd.pc = "stopped" => rd'.pc = "stopped"
        PROVE  /\ \A s \in Streams : Intact(s)' => Intact(s)
               /\ rd.pc = "stopped" => rd'.pc = "stopped"
    BY <1>1 DEF Intact
  <1>2. ASSUME NEW t \in Streams, ClientData(t) \/ ClientReset(t)
        PROVE  UNCHANGED <<rstSent, state, rd>>
    BY <1>2 DEF ClientData, ClientReset, streamVars
  <1>3. ASSUME NEW x, ClientGranted(x) PROVE UNCHANGED <<rstSent, state, rd>>
    BY <1>3 DEF ClientGranted, streamVars
  <1>4. CASE ReceiveRST
    BY <1>0, <1>1, <1>4 DEF ReceiveRST, CloseStream
  <1>5. CASE DispatchData
    <2>1. rd.pc = "read" /\ rstSent \subseteq rstSent' /\ state' = state
      BY <1>5 DEF DispatchData, QueueRST, streamVars
    <2> QED  BY <1>1, <2>1
  <1>6. CASE HandleOnClosed \/ HandleData \/ EnqueueOnClosed \/ Enqueue
    <2>1. rd.pc # "stopped" /\ rstSent \subseteq rstSent' /\ state' = state
      BY <1>6 DEF HandleOnClosed, HandleData, EnqueueOnClosed, Enqueue, QueueRST, streamVars
    <2> QED  BY <1>1, <2>1
  <1>7. CASE EndStream
    <2>1. /\ rd.pc # "stopped" /\ rstSent \subseteq rstSent'
          /\ \/ /\ state[rd.frame.stream] = "open"
                /\ state' = [state EXCEPT ![rd.frame.stream] = "halfClosedRemote"]
             \/ state' = [state EXCEPT ![rd.frame.stream] = "closed"]
             \/ state' = state
      BY <1>7 DEF EndStream, CloseStream, QueueRST
    <2> QED  BY <1>0, <1>1, <2>1
  <1>8. ASSUME NEW t \in Streams, Pump(t) \/ ReadBody(t) PROVE UNCHANGED <<rstSent, state, rd>>
    BY <1>8 DEF Pump, PumpReceive, PumpDone, ReadBody, HandlerRead, CreditStream, CreditConnection,
       HandlerSeesEnd, streamVars
  <1>9. ASSUME NEW t \in Streams, EndResponse(t) \/ HandlerReturn(t)
        PROVE  /\ UNCHANGED <<rstSent, rd>>
               /\ \A s \in Streams : state[s] = "closed" => state'[s] = "closed"
    BY <1>0, <1>9 DEF EndResponse, CloseStream, HandlerReturn, streamVars
  <1>10. ASSUME NEW t \in Streams, HandlerPanic(t)
         PROVE  /\ rstSent \subseteq rstSent' /\ rd' = rd
                /\ \A s \in Streams : state[s] = "closed" => state'[s] = "closed"
    BY <1>0, <1>10 DEF HandlerPanic, CloseStream
  <1>11. CASE UNCHANGED vars
    BY <1>1, <1>11 DEF vars
  <1> QED
    BY <1>1, <1>2, <1>3, <1>4, <1>5, <1>6, <1>7, <1>8, <1>9, <1>10, <1>11 DEF Next, Reader

\* The reader holds a frame while it handles and enqueues it.
HoldsFor(s, n, m) ==
    /\ Holding(s, {"handle"}) = n /\ Holding(s, {"enqueue"}) = m
    /\ Holding(s, {"handle", "enqueue"}) = n + m

\* What the reader holds at its places, before and after a step.
LEMMA ReaderHolds ==
    BodyTypes => \A s :
        /\ rd.pc \notin {"handle", "enqueue"} => HoldsFor(s, 0, 0)
        /\ rd.pc = "handle" => HoldsFor(s, IF s = rd.frame.stream THEN rd.frame.data ELSE 0, 0)
        /\ rd.pc = "enqueue" => HoldsFor(s, 0, IF s = rd.frame.stream THEN rd.frame.data ELSE 0)
        /\ rd.pc \in {"handle", "enqueue", "end"} =>
             rd.frame.data \in Nat /\ rd.frame.stream \in Streams
  <1> SUFFICES ASSUME BodyTypes, NEW s
               PROVE  /\ rd.pc \notin {"handle", "enqueue"} => HoldsFor(s, 0, 0)
                      /\ rd.pc = "handle" =>
                           HoldsFor(s, IF s = rd.frame.stream THEN rd.frame.data ELSE 0, 0)
                      /\ rd.pc = "enqueue" =>
                           HoldsFor(s, 0, IF s = rd.frame.stream THEN rd.frame.data ELSE 0)
                      /\ rd.pc \in {"handle", "enqueue", "end"} =>
                           rd.frame.data \in Nat /\ rd.frame.stream \in Streams
    OBVIOUS
  <1>1. rd.pc \in {"handle", "enqueue", "end"} =>
          rd.frame.data \in Nat /\ rd.frame.stream \in Streams
    BY DEF BodyTypes, DataFrames
  <1> QED  BY <1>1 DEF HoldsFor, Holding

LEMMA ReaderHoldsNext ==
    BodyTypes' => \A s :
        /\ rd'.pc \notin {"handle", "enqueue"} => HoldsFor(s, 0, 0)'
        /\ rd'.pc = "handle" => HoldsFor(s, IF s = rd.frame.stream THEN rd.frame.data ELSE 0, 0)'
        /\ rd'.pc = "enqueue" => HoldsFor(s, 0, IF s = rd.frame.stream THEN rd.frame.data ELSE 0)'
  <1>1. (BodyTypes => \A s :
          /\ rd.pc \notin {"handle", "enqueue"} => HoldsFor(s, 0, 0)
          /\ rd.pc = "handle" => HoldsFor(s, IF s = rd.frame.stream THEN rd.frame.data ELSE 0, 0)
          /\ rd.pc = "enqueue" => HoldsFor(s, 0, IF s = rd.frame.stream THEN rd.frame.data ELSE 0)
          /\ rd.pc \in {"handle", "enqueue", "end"} =>
               rd.frame.data \in Nat /\ rd.frame.stream \in Streams)'
    BY ReaderHolds, PTL
  <1> QED  BY <1>1

\* What the reader does with a DATA frame, in numbers.
LEMMA DispatchEffect ==
    ASSUME BodyAssumption, BodyTypes, DispatchData
    PROVE  /\ rd.pc = "read" /\ wire # <<>> /\ wire' = Tail(wire)
           /\ Head(wire) \in DataFrames /\ Head(wire).stream \in Streams /\ Head(wire).data \in Nat
           /\ UNCHANGED <<peer, clientDone, owed, grant, state>>
           /\ UNCHANGED <<queue, pump, pipe, handler, read, body>>
           /\ \A s \in Streams : window'[s] = window[s]
           /\ \/ rd'.pc = "stopped" /\ window' = window
              \/ /\ window'[Connection] = window[Connection] - Head(wire).data
                 /\ rd'.pc = "read" /\ Head(wire).stream \in rstSent'
              \/ /\ window'[Connection] = window[Connection] - Head(wire).data
                 /\ rd'.pc = "handle" /\ rd'.frame = Head(wire)
  <1>1. Head(wire) \in DataFrames /\ wire # <<>> /\ wire' = Tail(wire) /\ rd.pc = "read"
    <2>1. Head(wire) \in ClientFrames /\ Head(wire).kind = "DATA"
      BY DEF DispatchData, BodyTypes
    <2> QED  BY <2>1 DEF ClientFrames, DataFrames, DispatchData
  <1>2. Head(wire).stream \in Streams /\ Head(wire).data \in Nat
    BY <1>1 DEF DataFrames
  <1>3. /\ UNCHANGED <<peer, clientDone, owed, grant, state>>
        /\ UNCHANGED <<queue, pump, pipe, handler, read, body>>
    BY DEF DispatchData, clientVars, bodyVars, QueueRST, streamVars
  <1>4. /\ \/ window' = window
           \/ window' = [window EXCEPT ![Connection] = @ - Head(wire).data]
        /\ window \in [Scopes -> Nat] /\ Connection \in Scopes
    BY BodyConstants DEF DispatchData, BodyTypes
  <1>5. \A s \in Streams : window'[s] = window[s]
    BY <1>4, BodyConstants
  <1>6. CASE Head(wire).data > window[Connection]
    <2>1. rd'.pc = "stopped" /\ window' = window
      BY <1>6 DEF DispatchData, Stopped, ReaderAt
    <2> QED  BY <1>1, <1>2, <1>3, <1>5, <2>1
  <1>7. CASE ~ (Head(wire).data > window[Connection])
    <2>1. window' = [window EXCEPT ![Connection] = @ - Head(wire).data]
      BY <1>7 DEF DispatchData
    <2>2. window'[Connection] = window[Connection] - Head(wire).data
      BY <1>4, <2>1
    <2>3. \/ rd'.pc = "read" /\ Head(wire).stream \in rstSent'
          \/ rd'.pc = "handle" /\ rd'.frame = Head(wire)
      BY <1>7 DEF DispatchData, ReaderAt, Idle, QueueRST
    <2> QED  BY <1>1, <1>2, <1>3, <1>5, <2>2, <2>3
  <1> QED  BY <1>6, <1>7

LEMMA HandleEffect ==
    ASSUME BodyAssumption, BodyTypes, HandleData
    PROVE  /\ rd.pc = "handle" /\ rd.frame \in DataFrames /\ rd.frame.stream \in Streams
           /\ rd.frame.data \in Nat
           /\ UNCHANGED <<peer, clientDone, wire, owed, grant, state>>
           /\ UNCHANGED <<queue, pump, pipe, handler, read, body>>
           /\ \A x \in Scopes \ {rd.frame.stream} : window'[x] = window[x]
           /\ \/ rd'.pc = "read" /\ rd.frame.stream \in rstSent'
              \/ /\ window'[rd.frame.stream] = window[rd.frame.stream] - rd.frame.data
                 /\ rd'.pc = "enqueue" /\ rd'.frame = rd.frame
  <1>1. /\ rd.pc = "handle" /\ rd.frame \in DataFrames /\ rd.frame.stream \in Streams
        /\ rd.frame.data \in Nat
    BY DEF HandleData, BodyTypes, DataFrames
  <1>2. /\ UNCHANGED <<peer, clientDone, wire, owed, grant, state>>
        /\ UNCHANGED <<queue, pump, pipe, handler, read, body>>
    BY DEF HandleData, clientVars, bodyVars, QueueRST, streamVars
  <1>3. \/ /\ window' = window /\ rd'.pc = "read" /\ rd.frame.stream \in rstSent'
        \/ /\ window' = [window EXCEPT ![rd.frame.stream] = @ - rd.frame.data]
           /\ rd'.pc = "read" /\ rd.frame.stream \in rstSent'
        \/ /\ window' = [window EXCEPT ![rd.frame.stream] = @ - rd.frame.data]
           /\ rd'.pc = "enqueue" /\ rd'.frame = rd.frame
    BY DEF HandleData, QueueRST, ReaderAt, Idle
  <1>4. window \in [Scopes -> Nat] /\ rd.frame.stream \in Scopes
    BY <1>1, BodyConstants DEF BodyTypes
  <1> QED  BY <1>1, <1>2, <1>3, <1>4

LEMMA RefuseEffect ==
    ASSUME BodyAssumption, BodyTypes, HandleOnClosed \/ EnqueueOnClosed
    PROVE  /\ rd.pc \in {"handle", "enqueue"} /\ rd.frame.stream \in Streams
           /\ UNCHANGED <<peer, clientDone, wire, window, owed, grant, state>>
           /\ UNCHANGED <<queue, pump, pipe, handler, read, body>>
           /\ \/ rd'.pc = "read" /\ rd.frame.stream \in rstSent'
              \/ rd'.pc = "stopped"
  <1>1. rd.pc \in {"handle", "enqueue"} /\ rd.frame.stream \in Streams
    BY DEF HandleOnClosed, EnqueueOnClosed, BodyTypes, DataFrames
  <1>2. /\ UNCHANGED <<peer, clientDone, wire, window, owed, grant, state>>
        /\ UNCHANGED <<queue, pump, pipe, handler, read, body>>
    BY DEF HandleOnClosed, EnqueueOnClosed, clientVars, windowVars, bodyVars, QueueRST, streamVars
  <1>3. \/ rd'.pc = "read" /\ rd.frame.stream \in rstSent'
        \/ rd'.pc = "stopped"
    BY DEF HandleOnClosed, EnqueueOnClosed, QueueRST, ReaderAt, Idle, Stopped
  <1> QED  BY <1>1, <1>2, <1>3

LEMMA EnqueueEffect ==
    ASSUME BodyAssumption, BodyTypes, Enqueue
    PROVE  /\ rd.pc = "enqueue" /\ rd.frame.stream \in Streams /\ rd.frame.data \in Nat
           /\ rd'.pc \in {"read", "end"}
           /\ UNCHANGED <<peer, clientDone, wire, window, owed, grant, state, rstSent>>
           /\ UNCHANGED <<pump, pipe, handler, read, body>>
           /\ \A s \in Streams \ {rd.frame.stream} : queue'[s] = queue[s]
           /\ \A s \in Streams :
                s = rd.frame.stream => QueuedBytes(s)' = QueuedBytes(s) + rd.frame.data
  <1>1. rd.pc = "enqueue" /\ rd.frame.stream \in Streams /\ rd.frame.data \in Nat
    BY DEF Enqueue, BodyTypes, DataFrames
  <1>2. /\ rd'.pc \in {"read", "end"}
        /\ UNCHANGED <<peer, clientDone, wire, window, owed, grant, state, rstSent>>
        /\ UNCHANGED <<pump, pipe, handler, read, body>>
    BY DEF Enqueue, clientVars, windowVars, streamVars, ReaderAt, Idle
  <1>3. /\ queue \in [Streams -> Seq(Nat)]
        /\ queue' = [queue EXCEPT ![rd.frame.stream] = Append(@, rd.frame.data)]
    BY DEF Enqueue, BodyTypes
  <1>4. ASSUME NEW s \in Streams, s = rd.frame.stream
        PROVE  QueuedBytes(s)' = QueuedBytes(s) + rd.frame.data
    <2>1. queue[s] \in Seq(Nat) /\ queue'[s] = Append(queue[s], rd.frame.data)
      BY <1>3, <1>4
    <2> QED  BY <1>1, <2>1, SeqSum DEF QueuedBytes
  <1> QED  BY <1>1, <1>2, <1>3, <1>4

\* A step of the reader keeps the buffers charged.
LEMMA ChargeReader ==
    ASSUME BodyAssumption, BodyTypes, BodyTypes', BufferedIsCharged, Reader, [Next]_vars
    PROVE  BufferedIsCharged'
  <1>0. /\ \A s \in Streams : Intact(s)' => Intact(s)
        /\ rd.pc = "stopped" => rd'.pc = "stopped"
    BY NeverMended
  <1>c. window[Connection] \in Nat /\ \A s \in Streams : window[s] \in Nat
    BY BodyConstants, WindowParts
  <1>1. CASE ReceiveRST
    <2>1. UNCHANGED <<window, queue, pipe, handler, read, rd>>
      BY <1>1 DEF ReceiveRST, windowVars, bodyVars
    <2> QED  BY <1>0, <2>1, ChargeStays DEF Holding
  <1>2. CASE EndStream
    <2>1. UNCHANGED <<window, queue, pipe, handler, read>> /\ rd.pc = "end" /\ rd'.pc = "read"
      BY <1>2 DEF EndStream, windowVars, bodyVars, ReaderAt, Idle
    <2> QED  BY <1>0, <2>1, ChargeStays, ReaderHolds, ReaderHoldsNext DEF HoldsFor
  <1>3. CASE DispatchData
    <2>1. PICK t \in Streams, n \in Nat : t = Head(wire).stream /\ n = Head(wire).data
      BY <1>3, DispatchEffect
    <2>2. /\ rd.pc = "read" /\ UNCHANGED <<queue, pipe, handler, read>>
          /\ \A s \in Streams : window'[s] = window[s]
          /\ \/ rd'.pc = "stopped" /\ window' = window
             \/ /\ window'[Connection] = window[Connection] - n
                /\ rd'.pc = "read"
             \/ /\ window'[Connection] = window[Connection] - n
                /\ rd'.pc = "handle" /\ rd'.frame.stream = t /\ rd'.frame.data = n
      BY <1>3, <2>1, DispatchEffect
    <2>3. \A s \in Streams : HoldsFor(s, 0, 0)
      BY <2>2, ReaderHolds
    <2>4. /\ \A s \in Streams \ {t} : HoldsFor(s, 0, 0)'
          /\ \/ HoldsFor(t, 0, 0)'
             \/ HoldsFor(t, n, 0)' /\ window'[Connection] = window[Connection] - n
      BY <2>2, ReaderHoldsNext
    <2>5. \A s \in Streams \ {t} : /\ HeldForStream(s)' = HeldForStream(s)
                                   /\ HeldForConnection(s)' = HeldForConnection(s)
      BY <2>2, <2>3, <2>4 DEF HoldsFor, HeldForStream, HeldForConnection, QueuedBytes, Uncredited
    <2>6. HeldForStream(t)' = HeldForStream(t)
      BY <2>2, <2>3, <2>4 DEF HoldsFor, HeldForStream, QueuedBytes, Uncredited
    <2>7. window'[Connection] + HeldForConnection(t)' <= window[Connection] + HeldForConnection(t)
      <3>1. /\ HeldForConnection(t) = 0 + QueuedBytes(t) + pipe[t]
                 + Uncredited(t, {"creditStream", "creditConn"})
            /\ \/ HeldForConnection(t)' = HeldForConnection(t)
               \/ /\ HeldForConnection(t)' = n + QueuedBytes(t) + pipe[t]
                       + Uncredited(t, {"creditStream", "creditConn"})
                  /\ window'[Connection] = window[Connection] - n
        BY <2>2, <2>3, <2>4 DEF HoldsFor, HeldForConnection, QueuedBytes, Uncredited
      <3>2. window'[Connection] = window[Connection] \/ window'[Connection] = window[Connection] - n
        BY <2>2
      <3> QED  BY <1>c, <3>1, <3>2, HeldParts
    <2> QED  BY <1>0, <2>2, <2>5, <2>6, <2>7, ChargeMoves
  <1>4. CASE HandleData
    <2>1. PICK t \in Streams, n \in Nat : t = rd.frame.stream /\ n = rd.frame.data
      BY <1>4, HandleEffect
    <2>2. /\ rd.pc = "handle" /\ UNCHANGED <<queue, pipe, handler, read>>
          /\ \A x \in Scopes \ {t} : window'[x] = window[x]
          /\ \/ rd'.pc = "read" /\ t \in rstSent'
             \/ /\ window'[t] = window[t] - n
                /\ rd'.pc = "enqueue" /\ rd'.frame.stream = t /\ rd'.frame.data = n
      BY <1>4, <2>1, HandleEffect
    <2>3. (\A s \in Streams \ {t} : HoldsFor(s, 0, 0)) /\ HoldsFor(t, n, 0)
      BY <2>1, <2>2, ReaderHolds
    <2>4. /\ \A s \in Streams \ {t} : HoldsFor(s, 0, 0)'
          /\ \/ HoldsFor(t, 0, 0)' /\ t \in rstSent'
             \/ HoldsFor(t, 0, n)' /\ window'[t] = window[t] - n
      BY <2>2, ReaderHoldsNext
    <2>5. \A s \in Streams \ {t} : /\ HeldForStream(s)' = HeldForStream(s)
                                   /\ HeldForConnection(s)' = HeldForConnection(s)
      BY <2>2, <2>3, <2>4 DEF HoldsFor, HeldForStream, HeldForConnection, QueuedBytes, Uncredited
    <2>6. Intact(t)' => window'[t] + HeldForStream(t)' = window[t] + HeldForStream(t)
      <3>1. ASSUME Intact(t)'
            PROVE  /\ HeldForStream(t) = 0 + QueuedBytes(t) + pipe[t] + Uncredited(t, {"creditStream"})
                   /\ HeldForStream(t)' = n + QueuedBytes(t) + pipe[t] + Uncredited(t, {"creditStream"})
                   /\ window'[t] = window[t] - n
        BY <2>2, <2>3, <2>4, <3>1 DEF HoldsFor, HeldForStream, QueuedBytes, Uncredited, Intact
      <3> QED  BY <1>c, <3>1, HeldParts
    <2>7. window'[Connection] + HeldForConnection(t)' <= window[Connection] + HeldForConnection(t)
      <3>1. /\ HeldForConnection(t) = n + QueuedBytes(t) + pipe[t]
                 + Uncredited(t, {"creditStream", "creditConn"})
            /\ \/ HeldForConnection(t)' = 0 + QueuedBytes(t) + pipe[t]
                       + Uncredited(t, {"creditStream", "creditConn"})
               \/ HeldForConnection(t)' = 0 + n + QueuedBytes(t) + pipe[t]
                       + Uncredited(t, {"creditStream", "creditConn"})
        BY <2>2, <2>3, <2>4 DEF HoldsFor, HeldForConnection, QueuedBytes, Uncredited
      <3>2. window'[Connection] = window[Connection]
        BY <2>2, BodyConstants
      <3> QED  BY <1>c, <3>1, <3>2, HeldParts
    <2>8. \A s \in Streams \ {t} : window'[s] = window[s]
      BY <2>2, BodyConstants
    <2> QED  BY <1>0, <2>2, <2>5, <2>6, <2>7, <2>8, ChargeMoves
  <1>5. CASE HandleOnClosed \/ EnqueueOnClosed
    <2>1. PICK t \in Streams : t = rd.frame.stream
      BY <1>5, RefuseEffect
    <2>2. /\ rd.pc \in {"handle", "enqueue"} /\ UNCHANGED <<window, queue, pipe, handler, read>>
          /\ \/ rd'.pc = "read" /\ t \in rstSent'
             \/ rd'.pc = "stopped"
      BY <1>5, <2>1, RefuseEffect
    <2>3. \A s \in Streams \ {t} : HoldsFor(s, 0, 0)
      BY <2>1, <2>2, ReaderHolds
    <2>4. \A s \in Streams : HoldsFor(s, 0, 0)'
      BY <2>2, ReaderHoldsNext
    <2>5. \A s \in Streams \ {t} : /\ HeldForStream(s)' = HeldForStream(s)
                                   /\ HeldForConnection(s)' = HeldForConnection(s)
      BY <2>2, <2>3, <2>4 DEF HoldsFor, HeldForStream, HeldForConnection, QueuedBytes, Uncredited
    <2>6. ~ (Intact(t)' /\ rd'.pc # "stopped")
      BY <2>2 DEF Intact
    <2>7. window'[Connection] + HeldForConnection(t)' <= window[Connection] + HeldForConnection(t)
      <3>1. /\ HeldForConnection(t)' = 0 + QueuedBytes(t) + pipe[t]
                 + Uncredited(t, {"creditStream", "creditConn"})
            /\ HeldForConnection(t) = Holding(t, {"handle", "enqueue"}) + QueuedBytes(t) + pipe[t]
                 + Uncredited(t, {"creditStream", "creditConn"})
        BY <2>2, <2>4 DEF HoldsFor, HeldForConnection, QueuedBytes, Uncredited
      <3> QED  BY <1>c, <2>2, <3>1, HeldParts
    <2> QED  BY <1>0, <2>2, <2>5, <2>6, <2>7, ChargeMoves
  <1>6. CASE Enqueue
    <2>1. PICK t \in Streams, n \in Nat : t = rd.frame.stream /\ n = rd.frame.data
      BY <1>6, EnqueueEffect
    <2>2. /\ rd.pc = "enqueue" /\ rd'.pc \in {"read", "end"} /\ UNCHANGED <<window, pipe, handler, read>>
          /\ \A s \in Streams \ {t} : queue'[s] = queue[s]
          /\ QueuedBytes(t)' = QueuedBytes(t) + n
      BY <1>6, <2>1, EnqueueEffect
    <2>3. (\A s \in Streams \ {t} : HoldsFor(s, 0, 0)) /\ HoldsFor(t, 0, n)
      BY <2>1, <2>2, ReaderHolds
    <2>4. \A s \in Streams : HoldsFor(s, 0, 0)'
      BY <2>2, ReaderHoldsNext
    <2>5. \A s \in Streams \ {t} : /\ HeldForStream(s)' = HeldForStream(s)
                                   /\ HeldForConnection(s)' = HeldForConnection(s)
      BY <2>2, <2>3, <2>4 DEF HoldsFor, HeldForStream, HeldForConnection, QueuedBytes, Uncredited
    <2>6. HeldForStream(t)' = HeldForStream(t) /\ HeldForConnection(t)' = HeldForConnection(t)
      <3>1. /\ HeldForStream(t) = n + QueuedBytes(t) + pipe[t] + Uncredited(t, {"creditStream"})
            /\ HeldForStream(t)' = 0 + (QueuedBytes(t) + n) + pipe[t] + Uncredited(t, {"creditStream"})
            /\ HeldForConnection(t) = 0 + n + QueuedBytes(t) + pipe[t]
                 + Uncredited(t, {"creditStream", "creditConn"})
            /\ HeldForConnection(t)' = 0 + (QueuedBytes(t) + n) + pipe[t]
                 + Uncredited(t, {"creditStream", "creditConn"})
        BY <2>2, <2>3, <2>4 DEF HoldsFor, HeldForStream, HeldForConnection, Uncredited
      <3> QED  BY <3>1, HeldParts
    <2>7. /\ window'[t] + HeldForStream(t)' = window[t] + HeldForStream(t)
          /\ window'[Connection] + HeldForConnection(t)' <= window[Connection] + HeldForConnection(t)
      BY <1>c, <2>2, <2>6, HeldParts
    <2> QED  BY <1>0, <2>2, <2>5, <2>7, ChargeMoves
  <1> QED  BY <1>1, <1>2, <1>3, <1>4, <1>5, <1>6 DEF Reader

\* Consumed bytes go back to their window at once, and are owed to the client.
LEMMA ConsumedEffect ==
    ASSUME BodyAssumption, BodyTypes, NEW x \in Scopes, NEW n \in Nat, Consumed(x, n)
    PROVE  /\ \A y \in Scopes \ {x} : window'[y] = window[y] /\ owed'[y] = owed[y]
                  /\ grant'[y] = grant[y]
           /\ window'[x] = window[x] + n
           /\ grant'[x] + owed'[x] = grant[x] + owed[x] + n
  <1>1. /\ window \in [Scopes -> Nat] /\ owed \in [Scopes -> Nat] /\ grant \in [Scopes -> Nat]
    BY DEF BodyTypes
  <1>2. window' = [window EXCEPT ![x] = @ + n]
    BY DEF Consumed
  <1>3. \/ owed' = [owed EXCEPT ![x] = 0] /\ grant' = [grant EXCEPT ![x] = @ + (owed[x] + n)]
        \/ owed' = [owed EXCEPT ![x] = owed[x] + n] /\ grant' = grant
    BY DEF Consumed
  <1>4. \/ owed'[x] = 0 /\ grant'[x] = grant[x] + (owed[x] + n)
        \/ owed'[x] = owed[x] + n /\ grant'[x] = grant[x]
    BY <1>1, <1>3
  <1>5. grant'[x] + owed'[x] = grant[x] + owed[x] + n
    <2>1. grant[x] \in Nat /\ owed[x] \in Nat
      BY <1>1
    <2> QED  BY <1>4, <2>1
  <1> QED  BY <1>1, <1>2, <1>3, <1>5

\* So does a step of the pump or of the handler.
LEMMA ChargeHandler ==
    ASSUME BodyAssumption, BodyTypes, BodyTypes', BufferedIsCharged, [Next]_vars, NEW t \in Streams,
           Pump(t) \/ ReadBody(t) \/ EndResponse(t) \/ HandlerReturn(t) \/ HandlerPanic(t)
    PROVE  BufferedIsCharged'
  <1>0. /\ \A s \in Streams : Intact(s)' => Intact(s)
        /\ rd.pc = "stopped" => rd'.pc = "stopped"
    BY NeverMended
  <1>r. rd' = rd
    BY DEF Pump, PumpReceive, PumpDone, ReadBody, HandlerRead, CreditStream, CreditConnection,
       HandlerSeesEnd, EndResponse, HandlerReturn, HandlerPanic
  <1>c. /\ window[Connection] \in Nat /\ window[t] \in Nat /\ t \in Scopes /\ t # Connection
        /\ Connection \in Scopes /\ \A s \in Streams : s \in Scopes /\ s # Connection
    BY BodyConstants, WindowParts
  <1>t. /\ queue \in [Streams -> Seq(Nat)] /\ pipe \in [Streams -> Nat] /\ read \in [Streams -> Nat]
        /\ handler \in [Streams -> {"run", "creditStream", "creditConn", "gone"}]
        /\ pump[t] = "write" <=> pipe[t] > 0
    BY DEF BodyTypes
  <1>h. \A s \in Streams : /\ Holding(s, {"handle"})' = Holding(s, {"handle"})
                           /\ Holding(s, {"enqueue"})' = Holding(s, {"enqueue"})
                           /\ Holding(s, {"handle", "enqueue"})' = Holding(s, {"handle", "enqueue"})
    BY <1>r DEF Holding
  \* It is enough to look at the stream itself.
  <1>s. ASSUME \A s \in Streams \ {t} : /\ queue'[s] = queue[s] /\ pipe'[s] = pipe[s]
                                        /\ handler'[s] = handler[s] /\ read'[s] = read[s]
                                        /\ window'[s] = window[s],
               window'[t] + HeldForStream(t)' = window[t] + HeldForStream(t),
               window'[Connection] + HeldForConnection(t)'
                   <= window[Connection] + HeldForConnection(t)
        PROVE  BufferedIsCharged'
    <2>1. \A s \in Streams \ {t} : /\ HeldForStream(s)' = HeldForStream(s)
                                   /\ HeldForConnection(s)' = HeldForConnection(s)
      BY <1>h, <1>s, HeldSame
    <2> QED  BY <1>0, <1>s, <2>1, ChargeMoves
  <1>1. CASE PumpReceive(t)
    <2>1. /\ queue[t] # <<>> /\ pump[t] = "receive" /\ window' = window /\ handler' = handler
          /\ read' = read /\ queue' = [queue EXCEPT ![t] = Tail(@)]
          /\ pipe' = [pipe EXCEPT ![t] = Head(queue[t])]
      BY <1>1 DEF PumpReceive, windowVars
    <2>2. /\ QueuedBytes(t)' = QueuedBytes(t) - Head(queue[t]) /\ Head(queue[t]) \in Nat
          /\ pipe'[t] = Head(queue[t]) /\ pipe[t] = 0
      <3>1. queue[t] \in Seq(Nat) /\ queue'[t] = Tail(queue[t]) /\ pipe'[t] = Head(queue[t])
        BY <1>t, <2>1
      <3>2. pipe[t] = 0
        BY <1>t, <2>1
      <3>3. Head(queue[t]) \in Nat
        BY <2>1, <3>1
      <3>4. SumFunction(Tail(queue[t])) = SumFunction(queue[t]) - Head(queue[t])
        BY <2>1, <3>1, SeqSum
      <3> QED  BY <3>1, <3>2, <3>3, <3>4 DEF QueuedBytes
    <2>3. /\ HeldForStream(t) = Holding(t, {"enqueue"}) + QueuedBytes(t) + 0
               + Uncredited(t, {"creditStream"})
          /\ HeldForStream(t)' = Holding(t, {"enqueue"}) + (QueuedBytes(t) - Head(queue[t]))
               + Head(queue[t]) + Uncredited(t, {"creditStream"})
          /\ HeldForConnection(t) = Holding(t, {"handle", "enqueue"}) + QueuedBytes(t) + 0
               + Uncredited(t, {"creditStream", "creditConn"})
          /\ HeldForConnection(t)' = Holding(t, {"handle", "enqueue"})
               + (QueuedBytes(t) - Head(queue[t])) + Head(queue[t])
               + Uncredited(t, {"creditStream", "creditConn"})
      BY <1>h, <2>1, <2>2 DEF HeldForStream, HeldForConnection, Uncredited
    <2>4. HeldForStream(t)' = HeldForStream(t) /\ HeldForConnection(t)' = HeldForConnection(t)
      BY <2>2, <2>3, HeldParts
    <2>5. \A s \in Streams \ {t} : queue'[s] = queue[s] /\ pipe'[s] = pipe[s]
      BY <1>t, <2>1
    <2> QED  BY <1>c, <1>s, <2>1, <2>4, <2>5, HeldParts
  <1>2. CASE PumpDone(t) \/ HandlerSeesEnd(t) \/ EndResponse(t)
    <2>1. UNCHANGED <<window, queue, pipe, handler, read>>
      BY <1>2 DEF PumpDone, HandlerSeesEnd, EndResponse, windowVars
    <2> QED  BY <1>0, <1>h, <2>1, ChargeStays
  <1>3. CASE HandlerRead(t)
    <2>1. PICK n \in 1 .. pipe[t] : read' = [read EXCEPT ![t] = n] /\ pipe' = [pipe EXCEPT ![t] = @ - n]
      BY <1>3 DEF HandlerRead
    <2>2. /\ handler[t] = "run" /\ handler' = [handler EXCEPT ![t] = "creditStream"]
          /\ window' = window /\ queue' = queue
      BY <1>3 DEF HandlerRead, windowVars
    <2>3. /\ n \in Nat /\ pipe[t] \in Nat /\ pipe'[t] = pipe[t] - n /\ read'[t] = n
          /\ handler'[t] = "creditStream"
      BY <1>t, <2>1, <2>2
    <2>4. /\ HeldForStream(t) = Holding(t, {"enqueue"}) + QueuedBytes(t) + pipe[t] + 0
          /\ HeldForStream(t)' = Holding(t, {"enqueue"}) + QueuedBytes(t) + (pipe[t] - n) + n
          /\ HeldForConnection(t) = Holding(t, {"handle", "enqueue"}) + QueuedBytes(t) + pipe[t] + 0
          /\ HeldForConnection(t)' = Holding(t, {"handle", "enqueue"}) + QueuedBytes(t)
               + (pipe[t] - n) + n
      BY <1>h, <2>2, <2>3 DEF HeldForStream, HeldForConnection, Uncredited, QueuedBytes
    <2>5. HeldForStream(t)' = HeldForStream(t) /\ HeldForConnection(t)' = HeldForConnection(t)
      BY <2>3, <2>4, HeldParts
    <2>6. \A s \in Streams \ {t} : handler'[s] = handler[s] /\ pipe'[s] = pipe[s] /\ read'[s] = read[s]
      BY <1>t, <2>1, <2>2
    <2> QED  BY <1>c, <1>s, <2>2, <2>5, <2>6, HeldParts
  <1>4. CASE CreditStream(t)
    <2>1. /\ Consumed(t, read[t]) /\ handler[t] = "creditStream" /\ read[t] \in Nat
          /\ handler' = [handler EXCEPT ![t] = "creditConn"] /\ UNCHANGED <<queue, pipe, read>>
      BY <1>4, <1>t DEF CreditStream
    <2>2. window'[t] = window[t] + read[t] /\ \A y \in Scopes \ {t} : window'[y] = window[y]
      BY <1>c, <2>1, ConsumedEffect
    <2>3. handler'[t] = "creditConn" /\ \A s \in Streams \ {t} : handler'[s] = handler[s]
      BY <1>t, <2>1
    <2>4. /\ HeldForStream(t) = Holding(t, {"enqueue"}) + QueuedBytes(t) + pipe[t] + read[t]
          /\ HeldForStream(t)' = Holding(t, {"enqueue"}) + QueuedBytes(t) + pipe[t] + 0
          /\ HeldForConnection(t)' = HeldForConnection(t)
      BY <1>h, <2>1, <2>3 DEF HeldForStream, HeldForConnection, Uncredited, QueuedBytes
    <2>5. window'[t] + HeldForStream(t)' = window[t] + HeldForStream(t)
      BY <1>c, <2>1, <2>2, <2>4, HeldParts
    <2>6. window'[Connection] + HeldForConnection(t)' <= window[Connection] + HeldForConnection(t)
      <3>1. window'[Connection] = window[Connection]
        BY <1>c, <2>2
      <3> QED  BY <1>c, <3>1, <2>4, HeldParts
    <2>7. \A s \in Streams \ {t} : window'[s] = window[s]
      BY <1>c, <2>2
    <2> QED  BY <1>s, <2>1, <2>3, <2>5, <2>6, <2>7
  <1>5. CASE CreditConnection(t)
    <2>1. /\ Consumed(Connection, read[t]) /\ handler[t] = "creditConn" /\ read[t] \in Nat
          /\ handler' = [handler EXCEPT ![t] = "run"] /\ UNCHANGED <<queue, pipe>>
          /\ read' = [read EXCEPT ![t] = 0]
      BY <1>5, <1>t DEF CreditConnection
    <2>2. /\ window'[Connection] = window[Connection] + read[t]
          /\ \A s \in Streams : window'[s] = window[s]
      BY <1>c, <2>1, ConsumedEffect
    <2>3. /\ handler'[t] = "run"
          /\ \A s \in Streams \ {t} : handler'[s] = handler[s] /\ read'[s] = read[s]
      BY <1>t, <2>1
    <2>4. /\ HeldForConnection(t) = Holding(t, {"handle", "enqueue"}) + QueuedBytes(t)
                 + pipe[t] + read[t]
          /\ HeldForConnection(t)' = Holding(t, {"handle", "enqueue"}) + QueuedBytes(t) + pipe[t] + 0
          /\ HeldForStream(t)' = HeldForStream(t)
      BY <1>h, <2>1, <2>3 DEF HeldForStream, HeldForConnection, Uncredited, QueuedBytes
    <2>5. window'[t] + HeldForStream(t)' = window[t] + HeldForStream(t)
      BY <2>2, <2>4
    <2>6. window'[Connection] + HeldForConnection(t)' <= window[Connection] + HeldForConnection(t)
      BY <1>c, <2>1, <2>2, <2>4, HeldParts
    <2> QED  BY <1>s, <2>1, <2>2, <2>3, <2>5, <2>6
  <1>6. CASE HandlerReturn(t) \/ HandlerPanic(t)
    <2>1. /\ handler[t] = "run" /\ handler' = [handler EXCEPT ![t] = "gone"]
          /\ UNCHANGED <<window, queue, pipe, read>>
      BY <1>6 DEF HandlerReturn, HandlerPanic, windowVars
    <2>2. handler'[t] = "gone" /\ \A s \in Streams \ {t} : handler'[s] = handler[s]
      BY <1>t, <2>1
    <2>3. HeldForStream(t)' = HeldForStream(t) /\ HeldForConnection(t)' = HeldForConnection(t)
      BY <1>h, <2>1, <2>2 DEF HeldForStream, HeldForConnection, Uncredited, QueuedBytes
    <2>4. /\ window'[t] + HeldForStream(t)' = window[t] + HeldForStream(t)
          /\ window'[Connection] + HeldForConnection(t)' <= window[Connection] + HeldForConnection(t)
      BY <1>c, <2>1, <2>3, HeldParts
    <2> QED  BY <1>s, <2>1, <2>2, <2>4
  <1> QED  BY <1>1, <1>2, <1>3, <1>4, <1>5, <1>6 DEF Pump, ReadBody

\* Every step does.
LEMMA ChargeStep ==
    ASSUME BodyAssumption, BodyTypes, BodyTypes', BufferedIsCharged, [Next]_vars
    PROVE  BufferedIsCharged'
  <1>0. /\ \A s \in Streams : Intact(s)' => Intact(s)
        /\ rd.pc = "stopped" => rd'.pc = "stopped"
    BY NeverMended
  <1>1. ASSUME UNCHANGED <<window, queue, pipe, handler, read, rd>> PROVE BufferedIsCharged'
    BY <1>0, <1>1, ChargeStays DEF Holding
  <1>2. ASSUME NEW s \in Streams, ClientData(s) \/ ClientReset(s) PROVE BufferedIsCharged'
    BY <1>1, <1>2 DEF ClientData, ClientReset, windowVars, bodyVars
  <1>3. ASSUME NEW x \in Scopes, ClientGranted(x) PROVE BufferedIsCharged'
    BY <1>1, <1>3 DEF ClientGranted, bodyVars
  <1>4. CASE UNCHANGED vars
    BY <1>1, <1>4 DEF vars
  <1> QED  BY <1>2, <1>3, <1>4, ChargeReader, ChargeHandler DEF Next

-----------------------------------------------------------------------------
(* The windows of the two sides.                                           *)

\* The account of one scope.
Balanced(x) ==
    /\ Account(x) <= window[x]
    /\ PadLengths \subseteq {0} => Account(x) = window[x]

\* Padding counts for the client and not for the code: a step may take it from the account
\* and leave the window, and changes both alike otherwise.
LEMMA AccountStep ==
    ASSUME BodyAssumption, BodyTypes, BodyTypes', WindowsAgree, [Next]_vars
    PROVE  WindowsAgree'
  <1>0. /\ \A s \in Streams : Intact(s)' => Intact(s)
        /\ rd.pc = "stopped" => rd'.pc = "stopped"
    BY NeverMended
  <1>c. Connection \in Scopes /\ \A s \in Streams : s \in Scopes /\ s # Connection
    BY BodyConstants
  <1>t. /\ window \in [Scopes -> Nat] /\ owed \in [Scopes -> Nat]
        /\ grant \in [Scopes -> Nat] /\ peer \in [Scopes -> Nat]
        /\ wire \in Seq(ClientFrames)
    BY DEF BodyTypes
  <1>p. \A x \in Scopes : /\ window[x] \in Nat /\ owed[x] \in Nat /\ grant[x] \in Nat
                          /\ peer[x] \in Nat /\ OnWire(x) \in Nat
                          /\ x # Connection => x \in Streams /\ Holding(x, {"handle"}) \in Nat
    BY WindowParts, HeldParts, BodyConstants
  <1>b. ASSUME NEW x \in Scopes, x = Connection \/ Intact(x)', rd'.pc # "stopped"
        PROVE  Balanced(x)
    BY <1>0, <1>b, BodyConstants DEF WindowsAgree, Balanced
  <1>a. \A x \in Scopes : Account(x) \in Nat
    BY <1>p DEF Account
  <1>k. ASSUME NEW x \in Scopes, Balanced(x), NEW n \in Int, NEW p \in Nat,
               PadLengths \subseteq {0} => p = 0,
               Account(x)' = Account(x) + n - p, window'[x] = window[x] + n
        PROVE  Balanced(x)'
    <2>1. Account(x) \in Nat /\ window[x] \in Nat
      BY <1>a, <1>p
    <2>2. Account(x) + n - p <= window[x] + n
      BY <1>k, <2>1 DEF Balanced
    <2>3. ASSUME PadLengths \subseteq {0} PROVE Account(x) + n - p = window[x] + n
      BY <1>k, <2>1, <2>3 DEF Balanced
    <2> QED  BY <1>k, <2>2, <2>3 DEF Balanced
  <1>s. ASSUME NEW x \in Scopes, Balanced(x), Account(x)' = Account(x), window'[x] = window[x]
        PROVE  Balanced(x)'
    BY <1>s DEF Balanced
  <1>1. ASSUME UNCHANGED <<window, owed, grant, peer>>,
               \A x \in Scopes : OnWire(x)' = OnWire(x),
               \A s \in Streams : Intact(s)' /\ rd'.pc # "stopped" =>
                   Holding(s, {"handle"})' = Holding(s, {"handle"})
        PROVE  WindowsAgree'
    <2>1. ASSUME NEW x \in Scopes, x = Connection \/ Intact(x)', rd'.pc # "stopped"
          PROVE  Balanced(x)'
      <3>1. Account(x)' = Account(x)
        BY <1>1, <1>p, <2>1 DEF Account
      <3> QED  BY <1>1, <1>b, <1>s, <2>1, <3>1
    <2> QED  BY <2>1 DEF WindowsAgree, Balanced
  <1>2. wire' = wire => \A x : OnWire(x)' = OnWire(x)
    BY DEF OnWire
  <1>3. rd' = rd => \A s : Holding(s, {"handle"})' = Holding(s, {"handle"})
    BY DEF Holding
  <1>4. ASSUME NEW s \in Streams, ClientData(s) PROVE WindowsAgree'
    <2>1. PICK n \in 0 .. MaxFrameSize, p \in PadLengths, e \in BOOLEAN, f \in BOOLEAN :
            /\ n + p <= peer[s] /\ n + p <= peer[Connection]
            /\ wire' = Append(wire, Data(s, n, p, e, f))
            /\ peer' = [peer EXCEPT ![s] = @ - n - p, ![Connection] = @ - n - p]
      BY <1>4 DEF ClientData
    <2>2. n \in Nat /\ p \in Nat
      BY BodyConstants
    <2>3. Data(s, n, p, e, f) \in ClientFrames
      BY <2>2 DEF Data, ClientFrames, DataFrames
    <2>4. \A x \in Scopes : OnWire(x)' = OnWire(x) + (IF x \in {s, Connection} THEN n + p ELSE 0)
      <3>1. \A x \in Scopes : OnWire(x)' = OnWire(x) + Octets(Data(s, n, p, e, f), x)
        BY <1>t, <2>1, <2>3, OnWireLonger
      <3>2. \A x : Octets(Data(s, n, p, e, f), x) = IF x \in {s, Connection} THEN n + p ELSE 0
        BY DEF Octets, Data
      <3> QED  BY <3>1, <3>2
    <2>5. UNCHANGED <<window, owed, grant, rd, rstSent, state>>
      BY <1>4 DEF ClientData, windowVars, streamVars
    <2>6. \A x \in Scopes : peer'[x] = IF x \in {s, Connection} THEN peer[x] - n - p ELSE peer[x]
      BY <1>c, <1>t, <2>1
    <2>7. ASSUME NEW x \in Scopes, x = Connection \/ Intact(x)', rd'.pc # "stopped"
          PROVE  Balanced(x)'
      <3>1. Account(x)' = Account(x)
        <4> DEFINE h == IF x = Connection THEN 0 ELSE Holding(x, {"handle"})
        <4>1. h \in Nat
          BY <1>p
        <4>2. Account(x) = peer[x] + grant[x] + owed[x] + OnWire(x) + h
          BY DEF Account
        <4>3. Account(x)' = peer'[x] + grant[x] + owed[x] + OnWire(x)' + h
          BY <1>3, <2>5 DEF Account
        <4> HIDE DEF h
        <4>4. CASE x \in {s, Connection}
          <5>1. peer'[x] = peer[x] - n - p /\ OnWire(x)' = OnWire(x) + (n + p)
            BY <2>4, <2>6, <4>4
          <5> QED  BY <1>p, <2>2, <4>1, <4>2, <4>3, <5>1
        <4>5. CASE x \notin {s, Connection}
          <5>1. peer'[x] = peer[x] /\ OnWire(x)' = OnWire(x) + 0
            BY <2>4, <2>6, <4>5
          <5> QED  BY <1>p, <4>1, <4>2, <4>3, <5>1
        <4> QED  BY <4>4, <4>5
      <3> QED  BY <1>b, <1>s, <2>5, <2>7, <3>1
    <2> QED  BY <2>7 DEF WindowsAgree, Balanced
  <1>5. ASSUME NEW s \in Streams, ClientReset(s) PROVE WindowsAgree'
    <2>1. Rst(s) \in ClientFrames /\ wire' = Append(wire, Rst(s))
      BY <1>5 DEF ClientReset, Rst, ClientFrames
    <2>2. \A x \in Scopes : OnWire(x)' = OnWire(x)
      <3>1. \A x \in Scopes : OnWire(x)' = OnWire(x) + Octets(Rst(s), x)
        BY <1>t, <2>1, OnWireLonger
      <3>2. \A x : Octets(Rst(s), x) = 0
        BY DEF Octets, Rst
      <3> QED  BY <1>p, <3>1, <3>2
    <2> QED  BY <1>1, <1>3, <1>5, <2>2 DEF ClientReset, windowVars
  <1>6. ASSUME NEW y \in Scopes, ClientGranted(y) PROVE WindowsAgree'
    <2>1. /\ peer' = [peer EXCEPT ![y] = @ + grant[y]] /\ grant' = [grant EXCEPT ![y] = 0]
          /\ UNCHANGED <<window, owed, wire, rd, rstSent, state>>
      BY <1>6 DEF ClientGranted, streamVars
    <2>2. ASSUME NEW x \in Scopes, x = Connection \/ Intact(x)', rd'.pc # "stopped"
          PROVE  Balanced(x)'
      <3>1. Account(x)' = Account(x)
        <4> DEFINE h == IF x = Connection THEN 0 ELSE Holding(x, {"handle"})
        <4>1. h \in Nat
          BY <1>p
        <4>2. Account(x) = peer[x] + grant[x] + owed[x] + OnWire(x) + h
          BY DEF Account
        <4>3. Account(x)' = peer'[x] + grant'[x] + owed[x] + OnWire(x) + h
          BY <1>2, <1>3, <2>1 DEF Account
        <4> HIDE DEF h
        <4>4. peer'[x] + grant'[x] = peer[x] + grant[x]
          <5>1. \/ peer'[x] = peer[x] + grant[x] /\ grant'[x] = 0
                \/ peer'[x] = peer[x] /\ grant'[x] = grant[x]
            BY <1>t, <2>1
          <5> QED  BY <1>p, <5>1
        <4> QED  BY <4>2, <4>3, <4>4
      <3> QED  BY <1>b, <1>s, <2>1, <2>2, <3>1
    <2> QED  BY <2>2 DEF WindowsAgree, Balanced
  <1>7. CASE ReceiveRST
    <2>1. wire # <<>> /\ wire' = Tail(wire) /\ Head(wire).kind = "RST"
          /\ UNCHANGED <<window, owed, grant, peer, rd>>
      BY <1>7 DEF ReceiveRST, clientVars, windowVars
    <2>2. \A x \in Scopes : OnWire(x)' = OnWire(x)
      <3>1. \A x \in Scopes : OnWire(x)' = OnWire(x) - Octets(Head(wire), x)
        BY <1>t, <2>1, OnWireShorter
      <3>2. \A x : Octets(Head(wire), x) = 0
        BY <2>1 DEF Octets
      <3> QED  BY <1>p, <3>1, <3>2
    <2> QED  BY <1>1, <1>3, <2>1, <2>2
  <1>8. CASE DispatchData
    <2>0. Head(wire) \in DataFrames
      BY <1>8, DispatchEffect
    <2>1. PICK t \in Streams, n \in Nat, p \in PadLengths :
            t = Head(wire).stream /\ n = Head(wire).data /\ p = Head(wire).pad
      BY <2>0 DEF DataFrames
    <2>p. n \in Int /\ p \in Nat /\ (PadLengths \subseteq {0} => p = 0)
      BY BodyConstants
    <2>2. /\ rd.pc = "read" /\ wire # <<>> /\ wire' = Tail(wire) /\ Head(wire) \in DataFrames
          /\ UNCHANGED <<owed, grant, peer>> /\ \A s \in Streams : window'[s] = window[s]
          /\ \/ rd'.pc = "stopped" /\ window' = window
             \/ /\ window'[Connection] = window[Connection] - n
                /\ rd'.pc = "read" /\ t \in rstSent'
             \/ /\ window'[Connection] = window[Connection] - n
                /\ rd'.pc = "handle" /\ rd'.frame.stream = t /\ rd'.frame.data = n
      BY <1>8, <2>1, DispatchEffect
    <2>3. \A x \in Scopes : OnWire(x)' = OnWire(x) - (IF x \in {t, Connection} THEN n + p ELSE 0)
      <3>1. \A x \in Scopes : OnWire(x)' = OnWire(x) - Octets(Head(wire), x)
        BY <1>t, <2>2, OnWireShorter
      <3>2. Head(wire).kind = "DATA"
        BY <2>2 DEF DataFrames
      <3>3. \A x : Octets(Head(wire), x) = IF x \in {t, Connection} THEN n + p ELSE 0
        BY <2>1, <3>2 DEF Octets
      <3> QED  BY <3>1, <3>3
    <2>4. /\ \A s \in Streams : Holding(s, {"handle"}) = 0
          /\ rd'.pc # "stopped" => \A s \in Streams :
                \/ s # t /\ Holding(s, {"handle"})' = 0
                \/ s = t /\ t \in rstSent'
                \/ s = t /\ Holding(s, {"handle"})' = n
      BY <2>2, ReaderHolds, ReaderHoldsNext DEF HoldsFor
    <2>5. ASSUME NEW x \in Scopes, x = Connection \/ Intact(x)', rd'.pc # "stopped"
          PROVE  Balanced(x)'
      <3>0. /\ peer[x] \in Nat /\ grant[x] \in Nat /\ owed[x] \in Nat /\ OnWire(x) \in Nat
            /\ window[x] \in Nat
        BY <1>p
      <3>1. Balanced(x)
        BY <1>b, <2>5
      <3>2. CASE x = Connection
        <4>1. Account(x) = peer[x] + grant[x] + owed[x] + OnWire(x) + 0
          BY <3>2 DEF Account
        <4>2. Account(x)' = peer[x] + grant[x] + owed[x] + (OnWire(x) - (n + p)) + 0
          BY <2>2, <2>3, <3>2 DEF Account
        <4>3. window'[x] = window[x] - n
          BY <2>2, <2>5, <3>2
        <4>4. n \in Nat
          OBVIOUS
        <4>5. Account(x)' = Account(x) + (-n) - p
          BY <2>p, <3>0, <4>1, <4>2, <4>4
        <4>6. window'[x] = window[x] + (-n) /\ -n \in Int
          BY <3>0, <4>3, <4>4
        <4> QED  BY <1>k, <2>p, <3>1, <4>5, <4>6
      <3>3. CASE x = t
        <4>1. Account(x) = peer[x] + grant[x] + owed[x] + OnWire(x) + 0
          BY <1>c, <2>4, <3>3 DEF Account
        <4>2. Account(x)' = peer[x] + grant[x] + owed[x] + (OnWire(x) - (n + p)) + n
          BY <1>c, <2>2, <2>3, <2>4, <2>5, <3>3 DEF Account, Intact
        <4>3. window'[x] = window[x]
          BY <2>2, <3>3
        <4>4. n \in Nat
          OBVIOUS
        <4>5. Account(x)' = Account(x) - p
          BY <2>p, <3>0, <4>1, <4>2, <4>4
        <4> QED  BY <1>a, <2>p, <3>0, <3>1, <4>3, <4>5 DEF Balanced
      <3>4. CASE x # Connection /\ x # t
        <4>1. Account(x) = peer[x] + grant[x] + owed[x] + OnWire(x) + 0
          BY <1>p, <2>4, <3>4 DEF Account
        <4>2. Account(x)' = peer[x] + grant[x] + owed[x] + (OnWire(x) - 0) + 0
          BY <1>p, <2>2, <2>3, <2>4, <2>5, <3>4 DEF Account
        <4>3. window'[x] = window[x]
          BY <1>p, <2>2, <3>4
        <4>4. n \in Nat
          OBVIOUS
        <4>5. Account(x)' = Account(x)
          BY <3>0, <4>1, <4>2, <4>4
        <4> QED  BY <1>s, <3>1, <4>3, <4>5
      <3> QED  BY <3>2, <3>3, <3>4
    <2> QED  BY <2>5 DEF WindowsAgree, Balanced
  <1>9. CASE HandleData
    <2>1. PICK t \in Streams, n \in Nat : t = rd.frame.stream /\ n = rd.frame.data
      BY <1>9, HandleEffect
    <2>2. /\ rd.pc = "handle" /\ UNCHANGED <<peer, owed, grant, wire>>
          /\ \A x \in Scopes \ {t} : window'[x] = window[x]
          /\ \/ rd'.pc = "read" /\ t \in rstSent'
             \/ /\ window'[t] = window[t] - n
                /\ rd'.pc = "enqueue" /\ rd'.frame.stream = t /\ rd'.frame.data = n
      BY <1>9, <2>1, HandleEffect
    <2>3. /\ \A s \in Streams : Holding(s, {"handle"}) = IF s = t THEN n ELSE 0
          /\ \A s \in Streams : Holding(s, {"handle"})' = 0
      BY <2>1, <2>2, ReaderHolds, ReaderHoldsNext DEF HoldsFor
    <2>4. ASSUME NEW x \in Scopes, x = Connection \/ Intact(x)', rd'.pc # "stopped"
          PROVE  Balanced(x)'
      <3>0. /\ peer[x] \in Nat /\ grant[x] \in Nat /\ owed[x] \in Nat /\ OnWire(x) \in Nat
            /\ window[x] \in Nat
        BY <1>p
      <3>1. Balanced(x)
        BY <1>b, <2>4
      <3>2. CASE x = t
        <4>1. Account(x) = peer[x] + grant[x] + owed[x] + OnWire(x) + n
          BY <1>c, <2>3, <3>2 DEF Account
        <4>2. Account(x)' = peer[x] + grant[x] + owed[x] + OnWire(x) + 0
          BY <1>2, <1>c, <2>2, <2>3, <3>2 DEF Account
        <4>3. window'[x] = window[x] - n
          BY <1>c, <2>2, <2>4, <3>2 DEF Intact
        <4>4. n \in Nat
          OBVIOUS
        <4>5. Account(x)' = Account(x) + (-n) - 0 /\ window'[x] = window[x] + (-n) /\ -n \in Int
          BY <3>0, <4>1, <4>2, <4>3, <4>4
        <4> QED  BY <1>k, <3>1, <4>5
      <3>3. CASE x # t
        <4>1. Account(x)' = Account(x)
          BY <1>2, <1>p, <2>2, <2>3, <3>3 DEF Account
        <4> QED  BY <1>s, <2>2, <3>1, <3>3, <4>1
      <3> QED  BY <3>2, <3>3
    <2> QED  BY <2>4 DEF WindowsAgree, Balanced
  <1>10. CASE HandleOnClosed \/ EnqueueOnClosed
    <2>1. PICK t \in Streams : t = rd.frame.stream
      BY <1>10, RefuseEffect
    <2>2. /\ rd.pc \in {"handle", "enqueue"} /\ UNCHANGED <<peer, owed, grant, wire, window>>
          /\ \/ rd'.pc = "read" /\ t \in rstSent'
             \/ rd'.pc = "stopped"
      BY <1>10, <2>1, RefuseEffect
    <2>3. \A s \in Streams : Intact(s)' /\ rd'.pc # "stopped" =>
            Holding(s, {"handle"})' = Holding(s, {"handle"})
      BY <2>1, <2>2, ReaderHolds, ReaderHoldsNext DEF HoldsFor, Intact
    <2> QED  BY <1>1, <1>2, <2>2, <2>3
  <1>11. CASE Enqueue \/ EndStream
    <2>1. /\ rd.pc \in {"enqueue", "end"} /\ rd'.pc \in {"read", "end"}
          /\ UNCHANGED <<peer, owed, grant, wire, window>>
      BY <1>11 DEF Enqueue, EndStream, clientVars, windowVars, ReaderAt, Idle
    <2>2. \A s \in Streams : Holding(s, {"handle"})' = Holding(s, {"handle"})
      BY <2>1, ReaderHolds, ReaderHoldsNext DEF HoldsFor
    <2> QED  BY <1>1, <1>2, <2>1, <2>2
  <1>12. ASSUME NEW y \in Scopes, NEW n \in Nat, Consumed(y, n), UNCHANGED <<peer, wire, rd>>
         PROVE  WindowsAgree'
    <2>1. /\ \A x \in Scopes \ {y} : window'[x] = window[x] /\ owed'[x] = owed[x] /\ grant'[x] = grant[x]
          /\ window'[y] = window[y] + n
          /\ grant'[y] + owed'[y] = grant[y] + owed[y] + n
      BY <1>12, ConsumedEffect
    <2>2. \A x \in Scopes : grant'[x] \in Nat /\ owed'[x] \in Nat
      BY DEF BodyTypes
    <2>3. ASSUME NEW x \in Scopes, x = Connection \/ Intact(x)', rd'.pc # "stopped"
          PROVE  Balanced(x)'
      <3> DEFINE h == IF x = Connection THEN 0 ELSE Holding(x, {"handle"})
      <3>1. h \in Nat
        BY <1>p
      <3>2. Account(x) = peer[x] + grant[x] + owed[x] + OnWire(x) + h
        BY DEF Account
      <3>3. Account(x)' = peer[x] + grant'[x] + owed'[x] + OnWire(x) + h
        BY <1>2, <1>3, <1>12 DEF Account
      <3>4. Balanced(x)
        BY <1>b, <2>3
      <3> HIDE DEF h
      <3>5. CASE x = y
        <4>1. window'[x] = window[x] + n /\ grant'[x] + owed'[x] = grant[x] + owed[x] + n
          BY <2>1, <3>5
        <4>2. Account(x)' = Account(x) + n - 0
          BY <1>p, <2>2, <3>1, <3>2, <3>3, <4>1
        <4> QED  BY <1>k, <3>4, <4>1, <4>2
      <3>6. CASE x # y
        <4>1. window'[x] = window[x] /\ grant'[x] = grant[x] /\ owed'[x] = owed[x]
          BY <2>1, <3>6
        <4> QED  BY <1>s, <3>2, <3>3, <3>4, <4>1
      <3> QED  BY <3>5, <3>6
    <2> QED  BY <2>3 DEF WindowsAgree, Balanced
  <1>13. ASSUME NEW s \in Streams, CreditStream(s) \/ CreditConnection(s) PROVE WindowsAgree'
    <2>1. /\ \E y \in Scopes : Consumed(y, read[s])
          /\ UNCHANGED <<peer, wire, rd>>
      BY <1>13, <1>c DEF CreditStream, CreditConnection, clientVars
    <2>2. read[s] \in Nat
      BY DEF BodyTypes
    <2> QED  BY <1>12, <2>1, <2>2
  <1>14. ASSUME NEW s \in Streams,
                \/ Pump(s) \/ HandlerRead(s) \/ HandlerSeesEnd(s)
                \/ EndResponse(s) \/ HandlerReturn(s) \/ HandlerPanic(s)
         PROVE  WindowsAgree'
    <2>1. UNCHANGED <<peer, owed, grant, wire, window, rd>>
      BY <1>14 DEF Pump, PumpReceive, PumpDone, HandlerRead, HandlerSeesEnd, EndResponse,
         HandlerReturn, HandlerPanic, clientVars, windowVars
    <2> QED  BY <1>1, <1>2, <1>3, <2>1
  <1>15. CASE UNCHANGED vars
    BY <1>1, <1>2, <1>3, <1>15 DEF vars
  <1> QED
    BY <1>4, <1>5, <1>6, <1>7, <1>8, <1>9, <1>10, <1>11, <1>13, <1>14, <1>15
    DEF Next, Reader, ReadBody

\* An empty wire.
LEMMA NothingOnWire == ASSUME wire = <<>>, NEW x PROVE OnWire(x) = 0
  <1> DEFINE F == [i \in DOMAIN wire |-> Octets(wire[i], x)]
  <1>1. DOMAIN F = {}
    OBVIOUS
  <1>2. OnWire(x) = SumFunctionOnSet(F, {})
    BY <1>1 DEF OnWire, SumFunction
  <1> HIDE DEF F
  <1> QED  BY <1>2, SumEmpty

-----------------------------------------------------------------------------
(* The invariant, and what follows from it.                                *)

\* The invariant holds at the start, and every step preserves it.
LEMMA BodyInit == ASSUME BodyAssumption, Init PROVE BodyInv /\ WindowsAgree
  <1>1. BodyTypes
    <2>1. /\ window \in [Scopes -> Nat] /\ owed \in [Scopes -> Nat]
          /\ grant \in [Scopes -> Nat] /\ peer \in [Scopes -> Nat]
      BY BodyConstants DEF Init
    <2>2. queue \in [Streams -> Seq(Nat)] /\ \A s \in Streams : Len(queue[s]) <= QueueCapacity
      BY BodyConstants DEF Init
    <2>3. wire \in Seq(ClientFrames) /\ rd \in [pc : {"read", "stopped"}, frame : {NoFrame}]
      BY DEF Init
    <2> QED  BY <2>1, <2>2, <2>3 DEF Init, BodyTypes
  <1>2. LastFrame
    BY DEF Init, LastFrame
  <1>3. Ends
    BY DEF Init, Ends, EndsOf
  <1>4. \A s \in Streams : HeldForStream(s) = 0 /\ HeldForConnection(s) = 0
    <2>1. ASSUME NEW s \in Streams PROVE HeldForStream(s) = 0 /\ HeldForConnection(s) = 0
      <3>1. queue[s] = <<>> /\ pipe[s] = 0 /\ handler[s] = "run" /\ rd.pc = "read"
        BY DEF Init
      <3>2. QueuedBytes(s) = 0
        <4>1. DOMAIN queue[s] = {}
          BY <3>1
        <4> QED  BY <4>1, SumEmpty DEF QueuedBytes, SumFunction
      <3>3. \A pcs : rd.pc \notin pcs => Holding(s, pcs) = 0
        BY DEF Holding
      <3>4. \A pcs : handler[s] \notin pcs => Uncredited(s, pcs) = 0
        BY DEF Uncredited
      <3> QED  BY <3>1, <3>2, <3>3, <3>4 DEF HeldForStream, HeldForConnection
    <2> QED  BY <2>1
  <1>5. BufferedIsCharged
    <2>1. \A x \in Scopes : window[x] = InitialWindow(x)
      BY DEF Init
    <2>2. /\ window[Connection] = ConnWindow /\ ConnWindow \in Nat /\ StreamWindow \in Nat
          /\ \A s \in Streams : window[s] = StreamWindow
      BY <2>1, BodyConstants DEF InitialWindow
    <2> DEFINE F == [s \in Streams |-> HeldForConnection(s)]
    <2>3. SumFunction(F) = SumFunctionOnSet(F, Streams) /\ \A s \in Streams : F[s] = 0
      BY <1>4 DEF SumFunction
    <2> HIDE DEF F
    <2>4. SumFunction(F) = 0
      BY <2>3, BodyConstants, SumZero
    <2> QED  BY <1>4, <2>2, <2>4 DEF BufferedIsCharged, F
  <1>6. WindowsAgree
    <2>1. ASSUME NEW x \in Scopes PROVE Account(x) = window[x]
      <3>1. /\ peer[x] = InitialWindow(x) /\ window[x] = InitialWindow(x) /\ grant[x] = 0
            /\ owed[x] = 0 /\ rd.pc = "read" /\ OnWire(x) = 0 /\ InitialWindow(x) \in Nat
        BY BodyConstants, NothingOnWire DEF Init
      <3>2. Holding(x, {"handle"}) = 0
        BY <3>1 DEF Holding
      <3> QED  BY <3>1, <3>2 DEF Account
    <2>2. \A x \in Scopes : window[x] \in Nat
      BY <1>1 DEF BodyTypes
    <2> QED  BY <2>1, <2>2 DEF WindowsAgree
  <1> QED  BY <1>1, <1>2, <1>3, <1>5, <1>6 DEF BodyInv

LEMMA BodyNext == ASSUME BodyAssumption, BodyInv, [Next]_vars PROVE BodyInv'
  <1>1. BodyTypes'
    BY BodyTypesStep DEF BodyInv
  <1>2. LastFrame' /\ Ends'
    BY LastFrameStep, EndsStep DEF BodyInv
  <1>3. BufferedIsCharged'
    BY <1>1, ChargeStep DEF BodyInv
  <1> QED  BY <1>1, <1>2, <1>3 DEF BodyInv

LEMMA BodyInvariance == ASSUME BodyAssumption PROVE Spec => []BodyInv
  <1>1. Init => BodyInv
    BY BodyInit
  <1>2. BodyInv /\ [Next]_vars => BodyInv'
    BY BodyNext
  <1> QED  BY <1>1, <1>2, PTL DEF Spec

\* The type invariant of the module.
THEOREM BodyTypesHold == ASSUME BodyAssumption PROVE Spec => []TypeOK
  <1>1. BodyInv => TypeOK
    <2> SUFFICES ASSUME BodyTypes PROVE TypeOK
      BY DEF BodyInv
    <2>1. /\ rd.pc \in {"read", "handle", "enqueue", "end", "stopped"}
          /\ rd.pc \in {"handle", "enqueue", "end"} <=> rd.frame.kind = "DATA"
      BY DEF BodyTypes, DataFrames, NoFrame
    <2> QED  BY <2>1 DEF BodyTypes, TypeOK
  <1> QED  BY <1>1, BodyInvariance, PTL

\* Every byte that the server buffers for a stream is charged to the stream's window and to
\* the connection's, so what a client can make it buffer is bounded by what was announced
\* (dispatchDataFrame, handleDataFrame, streamPipeReader.Read).
THEOREM BuffersAreCharged == ASSUME BodyAssumption PROVE Spec => []BufferedIsCharged
  <1>1. BodyInv => BufferedIsCharged
    BY DEF BodyInv
  <1> QED  BY <1>1, BodyInvariance, PTL

\* A handler that reads EOF has been given the whole body, unless it has ended its response
\* before it saw the end of the body, when it may miss what is queued as the stream closes;
\* in both cases the client has ended the request, and nothing of it is on the wire, with
\* the reader or in the pipe (processIncomingDataFrames, transitionStateOnSendEndStream).
THEOREM WholeBodiesOnly == ASSUME BodyAssumption PROVE Spec => []NoSilentTruncation
  <1>1. BodyInv => NoSilentTruncation
    <2> SUFFICES ASSUME BodyInv, NEW s \in Streams, body[s] = "eof"
                 PROVE  /\ s \in clientDone /\ OnWire(s) = 0
                        /\ pipe[s] = 0 /\ Holding(s, {"handle", "enqueue"}) = 0
                        /\ s \notin early => queue[s] = <<>>
      BY DEF NoSilentTruncation
    <2>1. AllRead(s) /\ (s \in early \/ queue[s] = <<>>) /\ pump[s] = "eof"
      BY DEF BodyInv, Ends, EndsOf
    <2>2. pipe[s] = 0
      BY <2>1 DEF BodyInv, BodyTypes
    <2>3. Holding(s, {"handle", "enqueue"}) = 0
      BY <2>1 DEF AllRead, WithReader, Holding
    <2>4. OnWire(s) = 0
      <3> DEFINE F == [i \in DOMAIN wire |-> Octets(wire[i], s)]
      <3>1. DOMAIN F = 1 .. Len(wire) /\ Len(wire) \in Nat
        BY DEF BodyInv, BodyTypes
      <3>2. s # Connection
        BY BodyConstants
      <3>3. \A i \in 1 .. Len(wire) : F[i] = 0
        BY <2>1, <3>1, <3>2 DEF AllRead, CarriesData, Octets
      <3>4. IsFiniteSet(1 .. Len(wire)) /\ OnWire(s) = SumFunctionOnSet(F, 1 .. Len(wire))
        BY <3>1, FS_Interval DEF OnWire, SumFunction
      <3> HIDE DEF F
      <3> QED  BY <3>3, <3>4, SumZero
    <2> QED  BY <2>1, <2>2, <2>3, <2>4 DEF AllRead
  <1> QED  BY <1>1, BodyInvariance, PTL

\* The client never counts on more of a window than the server is ready to take, and the
\* two agree but for padding, which the client counts and dispatchDataFrame does not: up to
\* what is on its way between them, and in whatever goroutine the bytes are.
THEOREM WindowsStayAgreed == ASSUME BodyAssumption PROVE Spec => []WindowsAgree
  <1>1. Init => BodyInv /\ WindowsAgree
    BY BodyInit
  <1>2. BodyInv /\ WindowsAgree /\ [Next]_vars => BodyInv' /\ WindowsAgree'
    BY BodyNext, AccountStep DEF BodyInv
  <1> QED  BY <1>1, <1>2, PTL DEF Spec

=============================================================================

------------------------- MODULE ResponseHeadersProofs -------------------------
(***************************************************************************)
(* What holds of every response, whatever its handler calls, however many  *)
(* streams share the connection and whatever resets cross the calls:       *)
(* types, ResponsesWellFormed, ClosedForAReason and OneFrameAfterReset.    *)
(***************************************************************************)
EXTENDS ResponseHeaders, TLAPS

Places ==
    {"idle", "credit", "share", "check", "encode", "send", "record", "rst", "gone"}
Handlers ==
    [Streams -> [pc : Places,
                 frame : [kind : {"none", "HEADERS", "DATA", "TRAILERS"}, end : BOOLEAN]]]
USE DEF Places, Handlers

Flight == {"credit", "share", "check", "encode", "send"}
Quiet == {"idle", "rst", "gone"}

\* The fields of the stream say what has been queued, but for the frame of a call that has
\* yet to note it; and the frame in hand is one that the stream may have next.
Noted(s) ==
    /\ shape[s] # "broken"
    /\ ended[s] <=> shape[s] = "ended" /\ handler[s].pc # "record"
    /\ handler[s].pc # "record" => (headersSent[s] <=> shape[s] # "nothing")
    /\ handler[s].pc \in Flight =>
         shape[s] = IF handler[s].frame.kind = "HEADERS" THEN "nothing" ELSE "headers"
    /\ handler[s].pc = "record" =>
         shape[s] = IF handler[s].frame.end THEN "ended" ELSE "headers"

\* The state is the one that the two ends and the reset make.
Agreed(s) ==
    /\ state[s] = "closed" <=> rst[s] \/ (ended[s] /\ received[s])
    /\ state[s] # "closed" =>
         /\ ended[s] <=> state[s] = "halfClosedLocal"
         /\ received[s] <=> state[s] = "halfClosedRemote"

\* The frame that followed a reset was the one in hand, and there is no other in hand.
Overtaken(s) ==
    /\ late[s] <= 1
    /\ late[s] = 1 => rst[s] /\ handler[s].pc \notin Flight

StreamInv(s) == Noted(s) /\ Agreed(s) /\ Overtaken(s)
IInv == TypeOK /\ \A s \in Streams : StreamInv(s)

LEMMA InitInv == ASSUME HeadersAssumption, Init PROVE IInv
  <1>1. TypeOK
    <2>1. /\ state \in [Streams -> {"open", "halfClosedLocal", "halfClosedRemote", "closed"}]
          /\ rst \in [Streams -> BOOLEAN] /\ headersSent \in [Streams -> BOOLEAN]
          /\ ended \in [Streams -> BOOLEAN] /\ received \in [Streams -> BOOLEAN]
          /\ pump \in [Streams -> {"run", "rst", "gone"}]
          /\ shape \in [Streams -> {"nothing", "headers", "ended", "broken"}]
          /\ late \in [Streams -> Nat]
      BY DEF Init
    <2>2. /\ rd \in [pc : {"read", "lock", "answer"}, what : {"none", "END", "RST"},
                     of : SUBSET Streams]
          /\ todo \subseteq Streams /\ shutdown \in {"no", "graceful", "fatal"}
          /\ window \in {"open", "closing", "closed"}
          /\ queued \in 0..WriterCapacity /\ writer \in {"idle", "busy", "done"}
          /\ encoding \subseteq Streams /\ unsent \in Seq(Streams) /\ inStep \in BOOLEAN
      BY DEF Init, Reading, HeadersAssumption
    <2>3. handler \in Handlers
      BY DEF Init, Idle, Frame
    <2> QED  BY <2>1, <2>2, <2>3 DEF TypeOK
  <1>2. ASSUME NEW s \in Streams PROVE StreamInv(s)
    <2>1. handler[s].pc = "idle" /\ shape[s] = "nothing" /\ late[s] = 0
      BY DEF Init, Idle
    <2>2. /\ headersSent[s] = FALSE /\ ended[s] = FALSE /\ rst[s] = FALSE
          /\ received[s] = (s \notin Uploading)
          /\ state[s] = IF s \in Uploading THEN "open" ELSE "halfClosedRemote"
      BY DEF Init
    <2>3. Noted(s)  BY <2>1, <2>2 DEF Noted, Flight
    <2>4. Agreed(s)
      <3>1. CASE s \in Uploading  BY <2>2, <3>1 DEF Agreed
      <3>2. CASE s \notin Uploading  BY <2>2, <3>2 DEF Agreed
      <3> QED  BY <3>1, <3>2
    <2>5. Overtaken(s)  BY <2>1 DEF Overtaken
    <2> QED  BY <2>3, <2>4, <2>5 DEF StreamInv
  <1> QED  BY <1>1, <1>2 DEF IInv

\* What the steps that move a handler do to the record of it.
LEMMA HandlerMoves ==
    ASSUME TypeOK, NEW s \in Streams
    PROVE  /\ \A pc \in Places :
                Goto(s, pc) =>
                  /\ handler' \in Handlers
                  /\ handler'[s].pc = pc /\ handler'[s].frame = handler[s].frame
                  /\ \A t \in Streams \ {s} : handler'[t] = handler[t]
           /\ Return(s) =>
                  /\ handler' \in Handlers
                  /\ handler'[s].pc = "idle"
                  /\ \A t \in Streams \ {s} : handler'[t] = handler[t]
           /\ \A pc \in {"check", "credit"}, kind \in {"HEADERS", "DATA", "TRAILERS"},
                 end \in BOOLEAN :
                Begin(s, pc, kind, end) =>
                  /\ handler' \in Handlers
                  /\ handler'[s].pc = pc
                  /\ handler'[s].frame.kind = kind /\ handler'[s].frame.end = end
                  /\ \A t \in Streams \ {s} : handler'[t] = handler[t]
  <1> DEFINE Pcs == Places
             Frames == [kind : {"none", "HEADERS", "DATA", "TRAILERS"}, end : BOOLEAN]
  <1>1. handler \in [Streams -> [pc : Pcs, frame : Frames]]  BY DEF TypeOK
  <1>2. ASSUME NEW pc \in Pcs, Goto(s, pc)
        PROVE  /\ handler' \in [Streams -> [pc : Pcs, frame : Frames]]
               /\ handler'[s].pc = pc /\ handler'[s].frame = handler[s].frame
               /\ \A t \in Streams \ {s} : handler'[t] = handler[t]
    <2>1. handler[s] \in [pc : Pcs, frame : Frames]  BY <1>1
    <2>2. [handler[s] EXCEPT !.pc = pc] \in [pc : Pcs, frame : Frames]  BY <2>1
    <2>3. handler' = [handler EXCEPT ![s] = [handler[s] EXCEPT !.pc = pc]]
      BY <1>2 DEF Goto
    <2> HIDE DEF Frames, Pcs
    <2> QED  BY <1>1, <2>1, <2>2, <2>3
  <1>3. ASSUME Return(s)
        PROVE  /\ handler' \in [Streams -> [pc : Pcs, frame : Frames]]
               /\ handler'[s].pc = "idle"
               /\ \A t \in Streams \ {s} : handler'[t] = handler[t]
    BY <1>1, <1>3 DEF Return, Idle, Frame
  <1>4. ASSUME NEW pc \in {"check", "credit"}, NEW kind \in {"HEADERS", "DATA", "TRAILERS"},
               NEW end \in BOOLEAN, Begin(s, pc, kind, end)
        PROVE  /\ handler' \in [Streams -> [pc : Pcs, frame : Frames]]
               /\ handler'[s].pc = pc
               /\ handler'[s].frame.kind = kind /\ handler'[s].frame.end = end
               /\ \A t \in Streams \ {s} : handler'[t] = handler[t]
    BY <1>1, <1>4 DEF Begin, Frame
  <1> QED  BY <1>2, <1>3, <1>4

\* A step that leaves alone what the invariant is about.
LEMMA Untouched ==
    ASSUME NEW s \in Streams, StreamInv(s), handler'[s] = handler[s], state'[s] = state[s],
           rst'[s] = rst[s], headersSent'[s] = headersSent[s], ended'[s] = ended[s],
           received'[s] = received[s], shape'[s] = shape[s], late'[s] = late[s]
    PROVE  StreamInv(s)'
  BY DEF StreamInv, Noted, Agreed, Overtaken

\* A call that begins: the frame it takes in hand is one the stream may have next.
LEMMA CallKeeps ==
    ASSUME HeadersAssumption, IInv, NEW s \in Streams,
           SendHeaders(s) \/ WriteData(s) \/ WriteTrailers(s)
    PROVE  IInv'
  <1>1. /\ UNCHANGED <<streamVars, pump, rd, connVars, queued, writer, tableVars, shape, late>>
        /\ handler[s].pc = "idle"
        /\ \/ UNCHANGED handler
           \/ /\ ~(Resetting(s) \/ state[s] = "halfClosedLocal") /\ ~headersSent[s]
              /\ \E end \in BOOLEAN : Begin(s, "check", "HEADERS", end)
           \/ /\ ~Resetting(s) /\ headersSent[s] /\ ~ended[s]
              /\ \E pc \in {"check", "credit"}, kind \in {"DATA", "TRAILERS"}, end \in BOOLEAN :
                   Begin(s, pc, kind, end)
    <2>1. CASE SendHeaders(s)  BY <2>1 DEF SendHeaders, Call
    <2>2. CASE WriteData(s)  BY <2>2, Zenon DEF WriteData, Call
    <2>3. CASE WriteTrailers(s)  BY <2>3, Zenon DEF WriteTrailers, Call
    <2> QED  BY <2>1, <2>2, <2>3
  <1>2. /\ UNCHANGED <<state, rst, headersSent, ended, received, pump, rd, todo>>
        /\ UNCHANGED <<shutdown, window, queued>>
        /\ UNCHANGED <<writer, encoding, unsent, inStep, shape, late>>
    BY <1>1 DEF streamVars, connVars, tableVars
  <1>3. CASE UNCHANGED handler
    BY <1>2, <1>3, Untouched DEF IInv, TypeOK
  <1>4. CASE ~(UNCHANGED handler)
    <2>1. PICK pc \in {"check", "credit"}, kind \in {"HEADERS", "DATA", "TRAILERS"},
               end \in BOOLEAN :
            /\ Begin(s, pc, kind, end) /\ ~Resetting(s)
            /\ kind = "HEADERS" => ~headersSent[s]
            /\ kind # "HEADERS" => headersSent[s] /\ ~ended[s]
      BY <1>1, <1>4
    <2>2. /\ handler' \in Handlers
          /\ handler'[s].pc = pc /\ handler'[s].frame.kind = kind
          /\ \A t \in Streams \ {s} : handler'[t] = handler[t]
      BY <2>1, HandlerMoves DEF IInv
    <2>3. TypeOK'  BY <1>2, <2>2 DEF IInv, TypeOK
    <2>4. StreamInv(s)'
      <3>1. StreamInv(s)  BY DEF IInv
      <3>2. late[s] \in Nat /\ shape[s] \in {"nothing", "headers", "ended", "broken"}
        BY DEF IInv, TypeOK
      <3>3. shape[s] = IF kind = "HEADERS" THEN "nothing" ELSE "headers"
        BY <1>1, <2>1, <3>1, <3>2 DEF StreamInv, Noted
      <3>4. Noted(s)'
        BY <1>1, <1>2, <2>2, <3>1, <3>3 DEF StreamInv, Noted, Flight
      <3>5. Agreed(s)'  BY <1>2, <3>1 DEF StreamInv, Agreed
      <3>6. Overtaken(s)'
        BY <1>2, <2>1, <3>1, <3>2 DEF StreamInv, Overtaken, Resetting
      <3> QED  BY <3>4, <3>5, <3>6 DEF StreamInv
    <2>5. ASSUME NEW t \in Streams \ {s} PROVE StreamInv(t)'
      BY <1>2, <2>2, Untouched DEF IInv
    <2> QED  BY <2>3, <2>4, <2>5 DEF IInv
  <1> QED  BY <1>3, <1>4

\* A step that moves one handler and has nothing to do with what its stream has sent.
LEMMA HandlerOnly ==
    ASSUME IInv, NEW s \in Streams,
           UNCHANGED <<state, rst, headersSent, ended, received, shape, late>>,
           \A t \in Streams \ {s} : handler'[t] = handler[t],
           /\ handler[s].pc # "record" /\ handler'[s].pc # "record"
           /\ handler'[s].pc \in Flight =>
                handler[s].pc \in Flight /\ handler'[s].frame = handler[s].frame
    PROVE  \A t \in Streams : StreamInv(t)'
  <1>1. StreamInv(s)'
    <2>1. StreamInv(s)  BY DEF IInv
    <2> QED  BY <2>1 DEF StreamInv, Noted, Agreed, Overtaken
  <1>2. ASSUME NEW t \in Streams \ {s} PROVE StreamInv(t)'
    BY <1>2, Untouched DEF IInv
  <1> QED  BY <1>1, <1>2

LEMMA FollowsTyped ==
    ASSUME TypeOK, NEW ok \in BOOLEAN, NEW left \in Seq(Streams), Follows(ok, left)
    PROVE  inStep' \in BOOLEAN /\ unsent' \in Seq(Streams)
  BY DEF TypeOK, Follows

LEMMA CreditKeeps ==
    ASSUME HeadersAssumption, IInv, NEW s \in Streams, Credit(s) \/ CreditRefused(s) PROVE IInv'
  <1>1. /\ UNCHANGED <<state, rst, headersSent, ended, received, pump, rd, todo, shutdown, window>>
        /\ UNCHANGED <<queued, writer, encoding, unsent, inStep, shape, late>>
        /\ handler[s].pc \in {"credit", "share"}
        /\ Goto(s, "share") \/ Goto(s, "check") \/ Return(s)
    BY DEF Credit, CreditRefused, streamVars, connVars, tableVars
  <1>2. TypeOK'  BY <1>1, HandlerMoves DEF IInv, TypeOK
  <1>3. \A t \in Streams : StreamInv(t)'
    <2>1. /\ \A t \in Streams \ {s} : handler'[t] = handler[t]
          /\ \/ handler'[s].pc \in {"share", "check"} /\ handler'[s].frame = handler[s].frame
             \/ handler'[s].pc = "idle"
      BY <1>1, HandlerMoves DEF IInv
    <2> QED  BY <1>1, <2>1, HandlerOnly DEF Flight
  <1> QED  BY <1>2, <1>3 DEF IInv

LEMMA CheckKeeps ==
    ASSUME HeadersAssumption, IInv, NEW s \in Streams, Check(s) PROVE IInv'
  <1>1. /\ UNCHANGED <<state, rst, headersSent, ended, received, pump, rd, todo>>
        /\ UNCHANGED <<shutdown, window, queued>>
        /\ UNCHANGED <<writer, unsent, inStep, shape, late>>
        /\ handler[s].pc = "check"
        /\ Goto(s, "encode") \/ Goto(s, "send") \/ Return(s)
        /\ encoding' \in {encoding, encoding \union {s}}
    BY DEF Check, streamVars, connVars
  <1>2. TypeOK'  BY <1>1, HandlerMoves DEF IInv, TypeOK
  <1>3. \A t \in Streams : StreamInv(t)'
    <2>1. /\ \A t \in Streams \ {s} : handler'[t] = handler[t]
          /\ \/ /\ handler'[s].pc \in {"encode", "send"}
                /\ handler'[s].frame = handler[s].frame
             \/ handler'[s].pc = "idle"
      BY <1>1, HandlerMoves DEF IInv
    <2> QED  BY <1>1, <2>1, HandlerOnly DEF Flight
  <1> QED  BY <1>2, <1>3 DEF IInv

LEMMA EncodeKeeps ==
    ASSUME HeadersAssumption, IInv, NEW s \in Streams, Encode(s) PROVE IInv'
  <1>1. /\ UNCHANGED <<state, rst, headersSent, ended, received, pump, rd, todo>>
        /\ UNCHANGED <<shutdown, window, queued>>
        /\ UNCHANGED <<writer, shape, late>>
        /\ handler[s].pc = "encode" /\ encoding' = encoding \ {s}
        /\ Goto(s, "send") \/ Return(s)
        /\ Follows(encoding = {s}, Append(unsent, s)) \/ Follows(FALSE, <<>>)
    BY DEF Encode, streamVars, connVars
  <1>2. inStep' \in BOOLEAN /\ unsent' \in Seq(Streams)
    <2>1. unsent \in Seq(Streams) /\ TypeOK  BY DEF IInv, TypeOK
    <2>2. Append(unsent, s) \in Seq(Streams) /\ <<>> \in Seq(Streams)  BY <2>1
    <2>3. (encoding = {s}) \in BOOLEAN  OBVIOUS
    <2>4. CASE Follows(encoding = {s}, Append(unsent, s))
      BY <2>1, <2>2, <2>3, <2>4, FollowsTyped
    <2>5. CASE Follows(FALSE, <<>>)  BY <2>1, <2>2, <2>5, FollowsTyped
    <2> QED  BY <1>1, <2>4, <2>5
  <1>3. TypeOK'  BY <1>1, <1>2, HandlerMoves DEF IInv, TypeOK
  <1>4. \A t \in Streams : StreamInv(t)'
    <2>1. /\ \A t \in Streams \ {s} : handler'[t] = handler[t]
          /\ \/ handler'[s].pc = "send" /\ handler'[s].frame = handler[s].frame
             \/ handler'[s].pc = "idle"
      BY <1>1, HandlerMoves DEF IInv
    <2> QED  BY <1>1, <2>1, HandlerOnly DEF Flight
  <1> QED  BY <1>3, <1>4 DEF IInv

LEMMA SendKeeps ==
    ASSUME HeadersAssumption, IInv, NEW s \in Streams, Send(s) PROVE IInv'
  <1>1. /\ UNCHANGED <<state, rst, headersSent, ended, received, calls, pump, rd, todo>>
        /\ UNCHANGED <<shutdown, window, writer, encoding>>
        /\ handler[s].pc = "send" /\ TypeOK /\ StreamInv(s)
    BY DEF Send, streamVars, connVars, IInv
  <1>2. inStep' \in BOOLEAN /\ unsent' \in Seq(Streams)
    <2>1. unsent \in Seq(Streams) /\ inStep \in BOOLEAN  BY <1>1 DEF TypeOK
    <2>2. CASE UNCHANGED <<unsent, inStep>>  BY <2>1, <2>2
    <2>3. CASE Follows(unsent # <<>> /\ Head(unsent) = s, Tail(unsent))
      <3>1. CASE unsent = <<>>  BY <2>1, <2>3, <3>1 DEF Follows
      <3>2. CASE unsent # <<>>
        <4>1. Tail(unsent) \in Seq(Streams)  BY <2>1, <3>2
        <4>2. (unsent # <<>> /\ Head(unsent) = s) \in BOOLEAN  OBVIOUS
        <4> QED  BY <1>1, <2>3, <4>1, <4>2, FollowsTyped
      <3> QED  BY <3>1, <3>2
    <2>4. CASE Follows(FALSE, <<>>)
      BY <2>4 DEF Follows
    <2> QED  BY <2>2, <2>3, <2>4 DEF Send, Sent
  <1>3. CASE Sent(s)
    <2>1. /\ handler' \in Handlers
          /\ handler'[s].pc = "record" /\ handler'[s].frame = handler[s].frame
          /\ \A t \in Streams \ {s} : handler'[t] = handler[t]
      BY <1>1, <1>3, HandlerMoves DEF Sent
    <2>2. queued' \in 0..WriterCapacity
      BY <1>1, <1>3 DEF Sent, Enqueue, TypeOK, HeadersAssumption
    <2>3. handler[s].frame.end \in BOOLEAN  BY <1>1 DEF TypeOK
    <2>4. shape[s] = IF handler[s].frame.kind = "HEADERS" THEN "nothing" ELSE "headers"
      BY <1>1 DEF StreamInv, Noted, Flight
    <2>5. Shaped(shape[s], handler[s].frame)
            = IF handler[s].frame.end THEN "ended" ELSE "headers"
      BY <2>4 DEF Shaped
    <2>6. /\ shape' \in [Streams -> {"nothing", "headers", "ended", "broken"}]
          /\ shape'[s] = IF handler[s].frame.end THEN "ended" ELSE "headers"
          /\ \A t \in Streams \ {s} : shape'[t] = shape[t]
      BY <1>1, <1>3, <2>3, <2>5 DEF Sent, TypeOK
    <2>7. /\ late' \in [Streams -> Nat]
          /\ late'[s] = IF rst[s] THEN late[s] + 1 ELSE late[s]
          /\ \A t \in Streams \ {s} : late'[t] = late[t]
      BY <1>1, <1>3 DEF Sent, TypeOK
    <2>8. TypeOK'  BY <1>1, <1>2, <2>1, <2>2, <2>6, <2>7 DEF TypeOK
    <2>9. StreamInv(s)'
      <3>1. ~ended[s] /\ late[s] = 0
        <4>1. late[s] \in Nat  BY <1>1 DEF TypeOK
        <4> QED  BY <1>1, <2>4, <4>1 DEF StreamInv, Noted, Overtaken, Flight
      <3>2. Noted(s)'  BY <1>1, <2>1, <2>3, <2>6, <3>1 DEF Noted, Flight
      <3>3. Agreed(s)'  BY <1>1 DEF StreamInv, Agreed
      <3>4. Overtaken(s)'  BY <1>1, <2>1, <2>7, <3>1 DEF Overtaken, Flight
      <3> QED  BY <3>2, <3>3, <3>4 DEF StreamInv
    <2>10. ASSUME NEW t \in Streams \ {s} PROVE StreamInv(t)'
      BY <1>1, <2>1, <2>6, <2>7, Untouched DEF IInv
    <2> QED  BY <2>8, <2>9, <2>10 DEF IInv
  <1>4. CASE ~Sent(s)
    <2>1. Return(s) /\ UNCHANGED <<queued, shape, late>>  BY <1>4 DEF Send
    <2>2. TypeOK'  BY <1>1, <1>2, <2>1, HandlerMoves DEF TypeOK
    <2>3. handler'[s].pc = "idle" /\ \A t \in Streams \ {s} : handler'[t] = handler[t]
      BY <1>1, <2>1, HandlerMoves
    <2>4. \A t \in Streams : StreamInv(t)'
      BY <1>1, <2>1, <2>3, HandlerOnly DEF Flight
    <2> QED  BY <2>2, <2>4 DEF IInv
  <1> QED  BY <1>3, <1>4

LEMMA RecordKeeps ==
    ASSUME HeadersAssumption, IInv, NEW s \in Streams, Record(s) PROVE IInv'
  <1>1. /\ UNCHANGED <<rst, received, calls, pump, rd, todo, shutdown, window, queued, writer>>
        /\ UNCHANGED <<encoding, unsent, inStep, shape, late>>
        /\ handler[s].pc = "record" /\ TypeOK /\ StreamInv(s)
    BY DEF Record, connVars, tableVars, IInv
  <1>2. /\ handler' \in Handlers
        /\ handler'[s].pc = "idle"
        /\ \A t \in Streams \ {s} : handler'[t] = handler[t]
    BY <1>1, HandlerMoves DEF Record
  <1>3. /\ headersSent' \in [Streams -> BOOLEAN] /\ headersSent'[s] = TRUE
        /\ \A t \in Streams \ {s} : headersSent'[t] = headersSent[t]
    BY <1>1 DEF Record, TypeOK
  <1>4. /\ ended' \in [Streams -> BOOLEAN]
        /\ ended'[s] = IF handler[s].frame.end THEN TRUE ELSE ended[s]
        /\ \A t \in Streams \ {s} : ended'[t] = ended[t]
    BY <1>1 DEF Record, TypeOK
  <1>5. /\ state' \in [Streams -> {"open", "halfClosedLocal", "halfClosedRemote", "closed"}]
        /\ \A t \in Streams \ {s} : state'[t] = state[t]
        /\ ~handler[s].frame.end => state'[s] = state[s]
        /\ handler[s].frame.end => state'[s] = IF state[s] = "open" THEN "halfClosedLocal"
             ELSE IF state[s] = "halfClosedRemote" THEN "closed" ELSE state[s]
    <2>1. state \in [Streams -> {"open", "halfClosedLocal", "halfClosedRemote", "closed"}]
      BY <1>1 DEF TypeOK
    <2>2. CASE handler[s].frame.end
      <3>1. AfterEnd(s)  BY <2>2 DEF Record
      <3> QED  BY <2>1, <2>2, <3>1 DEF AfterEnd
    <2>3. CASE ~handler[s].frame.end
      <3>1. UNCHANGED state  BY <2>3 DEF Record
      <3> QED  BY <2>1, <2>3, <3>1
    <2> QED  BY <2>2, <2>3
  <1>6. TypeOK'  BY <1>1, <1>2, <1>3, <1>4, <1>5 DEF TypeOK
  <1>7. StreamInv(s)'
    <2>1. /\ ~ended[s]
          /\ shape[s] = IF handler[s].frame.end THEN "ended" ELSE "headers"
      BY <1>1 DEF StreamInv, Noted
    <2>2. Noted(s)'  BY <1>1, <1>2, <1>3, <1>4, <2>1 DEF Noted, Flight
    <2>3. Agreed(s)'
      <3>1. state[s] \in {"open", "halfClosedLocal", "halfClosedRemote", "closed"}
        BY <1>1 DEF TypeOK
      <3>2. Agreed(s)  BY <1>1 DEF StreamInv
      <3> QED  BY <1>1, <1>4, <1>5, <2>1, <3>1, <3>2 DEF Agreed
    <2>4. Overtaken(s)'  BY <1>1, <1>2 DEF StreamInv, Overtaken, Flight
    <2> QED  BY <2>2, <2>3, <2>4 DEF StreamInv
  <1>8. ASSUME NEW t \in Streams \ {s} PROVE StreamInv(t)'
    BY <1>1, <1>2, <1>3, <1>4, <1>5, Untouched DEF IInv
  <1> QED  BY <1>6, <1>7, <1>8 DEF IInv

\* A reset closes the stream: whatever it had sent before stays as it was.
LEMMA ResetKeeps ==
    ASSUME IInv, NEW s \in Streams, MarkReset(s), UNCHANGED <<shape, late>>,
           handler' = handler \/ (\E pc \in {"rst", "gone"} : Goto(s, pc) /\ handler[s].pc = "idle")
    PROVE  /\ state' \in [Streams -> {"open", "halfClosedLocal", "halfClosedRemote", "closed"}]
           /\ rst' \in [Streams -> BOOLEAN]
           /\ UNCHANGED <<headersSent, ended, received>>
           /\ \A t \in Streams : StreamInv(t)'
  <1>1. TypeOK /\ StreamInv(s)  BY DEF IInv
  <1>2. /\ state' \in [Streams -> {"open", "halfClosedLocal", "halfClosedRemote", "closed"}]
        /\ state'[s] = "closed" /\ \A t \in Streams \ {s} : state'[t] = state[t]
        /\ rst' \in [Streams -> BOOLEAN]
        /\ rst'[s] = TRUE /\ \A t \in Streams \ {s} : rst'[t] = rst[t]
        /\ UNCHANGED <<headersSent, ended, received>>
    BY <1>1 DEF MarkReset, TypeOK
  <1>3. /\ \A t \in Streams \ {s} : handler'[t] = handler[t]
        /\ \/ handler'[s] = handler[s]
           \/ handler[s].pc = "idle" /\ handler'[s].pc \in {"rst", "gone"}
    BY <1>1, HandlerMoves
  <1>4. StreamInv(s)'
    <2>1. Noted(s)'  BY <1>1, <1>2, <1>3 DEF StreamInv, Noted, Flight
    <2>2. Agreed(s)'  BY <1>2 DEF Agreed
    <2>3. Overtaken(s)'  BY <1>1, <1>2, <1>3 DEF StreamInv, Overtaken, Flight
    <2> QED  BY <2>1, <2>2, <2>3 DEF StreamInv
  <1>5. ASSUME NEW t \in Streams \ {s} PROVE StreamInv(t)'
    BY <1>2, <1>3, Untouched DEF IInv
  <1> QED  BY <1>2, <1>4, <1>5

\* The steps that leave what is sent on a stream alone.
LEMMA OthersKeep ==
    ASSUME IInv,
           UNCHANGED <<state, rst, headersSent, ended, received, handler, shape, late>>
    PROVE  \A t \in Streams : StreamInv(t)'
  BY Untouched DEF IInv

LEMMA QueueTyped ==
    ASSUME HeadersAssumption, TypeOK, NEW s \in Streams, QueueReset(s)
    PROVE  queued' \in 0..WriterCapacity
  BY DEF HeadersAssumption, TypeOK, QueueReset, Enqueue

LEMMA HandlerEndsKeep ==
    ASSUME HeadersAssumption, IInv, NEW s \in Streams,
           HandlerReturns(s) \/ HandlerPanics(s) \/ HandlerResets(s)
    PROVE  IInv'
  <1>1. CASE HandlerReturns(s)
    <2>1. /\ UNCHANGED <<state, rst, headersSent, ended, received, calls, pump, rd, todo>>
          /\ UNCHANGED <<shutdown, window, queued, writer, encoding, unsent, inStep, shape, late>>
          /\ handler[s].pc = "idle" /\ Goto(s, "gone")
      BY <1>1 DEF HandlerReturns, streamVars, connVars, tableVars
    <2>2. TypeOK'  BY <2>1, HandlerMoves DEF IInv, TypeOK
    <2>3. handler'[s].pc = "gone" /\ \A t \in Streams \ {s} : handler'[t] = handler[t]
      BY <2>1, HandlerMoves DEF IInv
    <2>4. \A t \in Streams : StreamInv(t)'  BY <2>1, <2>3, HandlerOnly DEF Flight
    <2> QED  BY <2>2, <2>4 DEF IInv
  <1>2. CASE HandlerPanics(s)
    <2>1. /\ UNCHANGED <<calls, pump, rd, todo, shutdown, window, queued, writer, encoding, unsent>>
          /\ UNCHANGED <<inStep, shape, late>>
          /\ handler[s].pc = "idle" /\ MarkReset(s)
          /\ \E pc \in {"rst", "gone"} : Goto(s, pc)
      BY <1>2 DEF HandlerPanics, connVars, tableVars
    <2>2. /\ state' \in [Streams -> {"open", "halfClosedLocal", "halfClosedRemote", "closed"}]
          /\ rst' \in [Streams -> BOOLEAN]
          /\ UNCHANGED <<headersSent, ended, received>>
          /\ \A t \in Streams : StreamInv(t)'
      BY <2>1, ResetKeeps
    <2>3. TypeOK'  BY <2>1, <2>2, HandlerMoves DEF IInv, TypeOK
    <2> QED  BY <2>2, <2>3 DEF IInv
  <1>3. CASE HandlerResets(s)
    <2>1. /\ UNCHANGED <<state, rst, headersSent, ended, received, calls, pump, rd, todo>>
          /\ UNCHANGED <<shutdown, window, writer, encoding, unsent, inStep, shape, late>>
          /\ handler[s].pc = "rst" /\ Goto(s, "gone") /\ QueueReset(s)
      BY <1>3 DEF HandlerResets, QueueReset, streamVars, connVars, tableVars
    <2>2. queued' \in 0..WriterCapacity  BY <2>1, QueueTyped DEF IInv
    <2>3. TypeOK'  BY <2>1, <2>2, HandlerMoves DEF IInv, TypeOK
    <2>4. handler'[s].pc = "gone" /\ \A t \in Streams \ {s} : handler'[t] = handler[t]
      BY <2>1, HandlerMoves DEF IInv
    <2>5. \A t \in Streams : StreamInv(t)'  BY <2>1, <2>4, HandlerOnly DEF Flight
    <2> QED  BY <2>3, <2>5 DEF IInv
  <1> QED  BY <1>1, <1>2, <1>3

LEMMA PumpKeeps ==
    ASSUME HeadersAssumption, IInv, NEW s \in Streams, PumpFails(s) \/ PumpResets(s)
    PROVE  IInv'
  <1>1. CASE PumpFails(s)
    <2>1. /\ UNCHANGED <<handler, calls, rd, todo, shutdown, window, queued, writer, encoding, unsent>>
          /\ UNCHANGED <<inStep, shape, late>>
          /\ pump' = [pump EXCEPT ![s] = "rst"] /\ MarkReset(s)
      BY <1>1 DEF PumpFails, connVars, tableVars
    <2>2. /\ state' \in [Streams -> {"open", "halfClosedLocal", "halfClosedRemote", "closed"}]
          /\ rst' \in [Streams -> BOOLEAN]
          /\ UNCHANGED <<headersSent, ended, received>>
          /\ \A t \in Streams : StreamInv(t)'
      BY <2>1, ResetKeeps
    <2>3. TypeOK'  BY <2>1, <2>2 DEF IInv, TypeOK
    <2> QED  BY <2>2, <2>3 DEF IInv
  <1>2. CASE PumpResets(s)
    <2>1. /\ UNCHANGED <<state, rst, headersSent, ended, received, handler, rd, todo>>
          /\ UNCHANGED <<shutdown, window, writer, encoding, unsent, inStep, shape, late>>
          /\ pump' = [pump EXCEPT ![s] = "gone"] /\ QueueReset(s)
      BY <1>2 DEF PumpResets, QueueReset, streamVars, connVars, tableVars
    <2>2. queued' \in 0..WriterCapacity  BY <2>1, QueueTyped DEF IInv
    <2>3. TypeOK'  BY <2>1, <2>2 DEF IInv, TypeOK
    <2> QED  BY <2>1, <2>3, OthersKeep DEF IInv
  <1> QED  BY <1>1, <1>2

LEMMA ReaderKeeps ==
    ASSUME HeadersAssumption, IInv, NEW s \in Streams, NEW what \in {"END", "RST"},
           ReaderReads(s, what) \/ ReaderEnds(s) \/ ReaderResets(s) \/ ReaderAnswers(s)
    PROVE  IInv'
  <1>0. Reading \in [pc : {"read", "lock", "answer"}, what : {"none", "END", "RST"},
                     of : SUBSET Streams]
    BY DEF Reading
  <1>1. CASE ReaderReads(s, what)
    <2>1. /\ UNCHANGED <<state, rst, headersSent, ended, received, handler, pump, todo>>
          /\ UNCHANGED <<shutdown, window, queued, writer, encoding, unsent, inStep, shape, late>>
          /\ rd' = [pc |-> "lock", what |-> what, of |-> {s}]
      BY <1>1 DEF ReaderReads, streamVars, connVars, tableVars
    <2>2. TypeOK'  BY <2>1 DEF IInv, TypeOK
    <2> QED  BY <2>1, <2>2, OthersKeep DEF IInv
  <1>2. CASE ReaderEnds(s)
    <2>1. /\ UNCHANGED <<rst, headersSent, ended, handler, pump, todo, shutdown, window, queued>>
          /\ UNCHANGED <<writer, encoding, unsent, inStep, shape, late>>
          /\ received' = [received EXCEPT ![s] = TRUE]
      BY <1>2 DEF ReaderEnds, connVars, tableVars
    <2>2. rd' \in [pc : {"read", "lock", "answer"}, what : {"none", "END", "RST"},
                   of : SUBSET Streams]
      <3>1. rd \in [pc : {"read", "lock", "answer"}, what : {"none", "END", "RST"},
                    of : SUBSET Streams]
        BY DEF IInv, TypeOK
      <3>2. rd' = Reading \/ rd' = [rd EXCEPT !.pc = "answer"]  BY <1>2 DEF ReaderEnds
      <3> QED  BY <1>0, <3>1, <3>2
    <2>3. /\ state' \in [Streams -> {"open", "halfClosedLocal", "halfClosedRemote", "closed"}]
          /\ \A t \in Streams \ {s} : state'[t] = state[t]
          /\ \/ state[s] = "open" /\ state'[s] = "halfClosedRemote"
             \/ state[s] = "halfClosedLocal" /\ state'[s] = "closed"
             \/ state[s] = "closed" /\ state'[s] = "closed"
      <3>1. state \in [Streams -> {"open", "halfClosedLocal", "halfClosedRemote", "closed"}]
        BY DEF IInv, TypeOK
      <3> QED  BY <1>2, <3>1 DEF ReaderEnds
    <2>4. /\ received' \in [Streams -> BOOLEAN] /\ received'[s] = TRUE
          /\ \A t \in Streams \ {s} : received'[t] = received[t]
      BY <2>1 DEF IInv, TypeOK
    <2>5. TypeOK'  BY <2>1, <2>2, <2>3, <2>4 DEF IInv, TypeOK
    <2>6. StreamInv(s)'
      <3>1. StreamInv(s)  BY DEF IInv
      <3>2. Noted(s)'  BY <2>1, <3>1 DEF StreamInv, Noted
      <3>3. Agreed(s)'  BY <2>1, <2>3, <2>4, <3>1 DEF StreamInv, Agreed
      <3>4. Overtaken(s)'  BY <2>1, <3>1 DEF StreamInv, Overtaken
      <3> QED  BY <3>2, <3>3, <3>4 DEF StreamInv
    <2>7. ASSUME NEW t \in Streams \ {s} PROVE StreamInv(t)'
      BY <2>1, <2>3, <2>4, Untouched DEF IInv
    <2> QED  BY <2>5, <2>6, <2>7 DEF IInv
  <1>3. CASE ReaderResets(s)
    <2>1. /\ UNCHANGED <<handler, pump, todo, shutdown, window, queued, writer, encoding, unsent>>
          /\ UNCHANGED <<inStep, shape, late>>
          /\ rd' = Reading
          /\ UNCHANGED <<state, rst, headersSent, ended, received>> \/ MarkReset(s)
      BY <1>3 DEF ReaderResets, streamVars, connVars, tableVars
    <2>2. CASE UNCHANGED <<state, rst, headersSent, ended, received>>
      <3>1. TypeOK'  BY <1>0, <2>1, <2>2 DEF IInv, TypeOK
      <3> QED  BY <2>1, <2>2, <3>1, OthersKeep DEF IInv
    <2>3. CASE MarkReset(s)
      <3>1. /\ state' \in [Streams -> {"open", "halfClosedLocal", "halfClosedRemote", "closed"}]
            /\ rst' \in [Streams -> BOOLEAN]
            /\ UNCHANGED <<headersSent, ended, received>>
            /\ \A t \in Streams : StreamInv(t)'
        BY <2>1, <2>3, ResetKeeps
      <3>2. TypeOK'  BY <1>0, <2>1, <3>1 DEF IInv, TypeOK
      <3> QED  BY <3>1, <3>2 DEF IInv
    <2> QED  BY <2>1, <2>2, <2>3
  <1>4. CASE ReaderAnswers(s)
    <2>1. /\ UNCHANGED <<state, rst, headersSent, ended, received, handler, pump, todo>>
          /\ UNCHANGED <<shutdown, window, writer, encoding, unsent, inStep, shape, late>>
          /\ rd' = Reading /\ QueueReset(s)
      BY <1>4 DEF ReaderAnswers, QueueReset, streamVars, connVars, tableVars
    <2>2. queued' \in 0..WriterCapacity  BY <2>1, QueueTyped DEF IInv
    <2>3. TypeOK'  BY <1>0, <2>1, <2>2 DEF IInv, TypeOK
    <2> QED  BY <2>1, <2>3, OthersKeep DEF IInv
  <1> QED  BY <1>1, <1>2, <1>3, <1>4

LEMMA ConnectionKeeps ==
    ASSUME HeadersAssumption, IInv,
           \/ WriterTakes \/ WriterWrites \/ WriterFails \/ CloseWindow
           \/ \E e \in {"graceful", "fatal"} : Shutdown(e)
    PROVE  IInv'
  <1>1. UNCHANGED <<state, rst, headersSent, ended, received, handler, shape, late>>
    BY DEF WriterTakes, WriterWrites, WriterFails, CloseWindow, Shutdown, streamVars
  <1>2. TypeOK'
    <2>1. UNCHANGED <<pump, rd, encoding, unsent, inStep>>
      BY DEF WriterTakes, WriterWrites, WriterFails, CloseWindow, Shutdown, tableVars
    <2>2. /\ queued' \in 0..WriterCapacity /\ writer' \in {"idle", "busy", "done"}
          /\ todo' \subseteq Streams /\ shutdown' \in {"no", "graceful", "fatal"}
          /\ window' \in {"open", "closing", "closed"}
      BY DEF IInv, TypeOK, HeadersAssumption, connVars,
             WriterTakes, WriterWrites, WriterFails, CloseWindow, Shutdown
    <2> QED  BY <1>1, <2>1, <2>2 DEF IInv, TypeOK
  <1> QED  BY <1>1, <1>2, OthersKeep DEF IInv

LEMMA CloseKeeps ==
    ASSUME HeadersAssumption, IInv, NEW s \in Streams, CloseStream(s) PROVE IInv'
  <1>1. /\ UNCHANGED <<handler, pump, rd, shutdown, window, queued, writer, encoding, unsent>>
        /\ UNCHANGED <<inStep, shape, late>>
        /\ todo' = todo \ {s}
        /\ UNCHANGED <<state, rst, headersSent, ended, received>> \/ MarkReset(s)
    BY DEF CloseStream, streamVars, tableVars
  <1>2. CASE UNCHANGED <<state, rst, headersSent, ended, received>>
    <2>1. TypeOK'  BY <1>1, <1>2 DEF IInv, TypeOK
    <2> QED  BY <1>1, <1>2, <2>1, OthersKeep DEF IInv
  <1>3. CASE MarkReset(s)
    <2>1. /\ state' \in [Streams -> {"open", "halfClosedLocal", "halfClosedRemote", "closed"}]
          /\ rst' \in [Streams -> BOOLEAN]
          /\ UNCHANGED <<headersSent, ended, received>>
          /\ \A t \in Streams : StreamInv(t)'
      BY <1>1, <1>3, ResetKeeps
    <2>2. TypeOK'  BY <1>1, <2>1 DEF IInv, TypeOK
    <2> QED  BY <2>1, <2>2 DEF IInv
  <1> QED  BY <1>1, <1>2, <1>3

\* Every step preserves it.
LEMMA StepInv == ASSUME HeadersAssumption, IInv, [Next]_vars PROVE IInv'
  <1>1. CASE UNCHANGED vars
    <2>1. /\ UNCHANGED <<state, rst, headersSent, ended, received, handler, pump, rd, todo>>
          /\ UNCHANGED <<shutdown, window, queued, writer, encoding, unsent, inStep, shape, late>>
      BY <1>1 DEF vars, streamVars, tableVars, connVars
    <2>2. TypeOK'  BY <2>1 DEF IInv, TypeOK
    <2> QED  BY <2>1, <2>2, OthersKeep DEF IInv
  <1>2. CASE Next
    <2>1. ASSUME NEW s \in Streams,
                 SendHeaders(s) \/ WriteData(s) \/ WriteTrailers(s) \/ Credit(s) \/ InCall(s)
          PROVE  IInv'
      BY <2>1, CallKeeps, CreditKeeps, CheckKeeps, EncodeKeeps, SendKeeps, RecordKeeps DEF InCall
    <2>2. ASSUME NEW s \in Streams,
                 \/ HandlerReturns(s) \/ HandlerPanics(s) \/ HandlerResets(s)
                 \/ PumpFails(s) \/ PumpResets(s) \/ CloseStream(s)
          PROVE  IInv'
      BY <2>2, HandlerEndsKeep, PumpKeeps, CloseKeeps
    <2>3. ASSUME NEW s \in Streams, NEW what \in {"END", "RST"}, ReaderReads(s, what)
          PROVE  IInv'
      BY <2>3, ReaderKeeps
    <2>4. CASE Reader  BY <2>4, ReaderKeeps DEF Reader
    <2>5. CASE \/ WriterTakes \/ WriterWrites \/ WriterFails \/ CloseWindow
               \/ \E e \in {"graceful", "fatal"} : Shutdown(e)
      BY <2>5, ConnectionKeeps
    <2> QED  BY <1>2, <2>1, <2>2, <2>3, <2>4, <2>5 DEF Next
  <1> QED  BY <1>1, <1>2

LEMMA Inductive == ASSUME HeadersAssumption PROVE Spec => []IInv
  <1>1. Init => IInv  BY InitInv
  <1>2. IInv /\ [Next]_vars => IInv'  BY StepInv
  <1> QED  BY <1>1, <1>2, PTL DEF Spec

\* Every field keeps to its values, and the queue to its capacity.
THEOREM ResponseTypes == ASSUME HeadersAssumption PROVE Spec => []TypeOK
  <1>1. IInv => TypeOK  BY DEF IInv
  <1> QED  BY <1>1, Inductive, PTL

\* What is queued for a stream is a response, whatever the handler calls in whatever order.
THEOREM AlwaysWellFormed == ASSUME HeadersAssumption PROVE Spec => []ResponsesWellFormed
  <1>1. IInv => ResponsesWellFormed  BY DEF IInv, StreamInv, Noted, ResponsesWellFormed
  <1> QED  BY <1>1, Inductive, PTL

\* A stream is closed exactly if it was reset or ended from both sides.
THEOREM AlwaysForAReason == ASSUME HeadersAssumption PROVE Spec => []ClosedForAReason
  <1>1. IInv => ClosedForAReason
    BY DEF IInv, StreamInv, Noted, Agreed, ClosedForAReason
  <1> QED  BY <1>1, Inductive, PTL

\* At most one frame of a response follows a reset into the queue.
THEOREM AtMostOneAfterReset == ASSUME HeadersAssumption PROVE Spec => []OneFrameAfterReset
  <1>1. IInv => OneFrameAfterReset  BY DEF IInv, StreamInv, Overtaken, OneFrameAfterReset
  <1> QED  BY <1>1, Inductive, PTL

================================================================================

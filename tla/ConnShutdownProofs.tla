--------------------------- MODULE ConnShutdownProofs ---------------------------
(***************************************************************************)
(* What holds of the end of every connection, however many streams it has  *)
(* and however many goroutines shut it down: types, GoAwayOnce,            *)
(* WriterEndsInShutdown and SentIsDelivered.                               *)
(***************************************************************************)
EXTENDS ConnShutdown, FlowControlWindow, TLAPS

\* goAwaySent lets one closer through to the queue.
Announcing ==
    /\ Len(goAways) <= 1
    /\ ~goAwaySent => goAways = <<>>
    /\ \A k \in Closers : closer[k].pc = "enqueue" => goAwaySent /\ goAways = <<>>
    /\ \A j, k \in Closers : closer[j].pc = "enqueue" /\ closer[k].pc = "enqueue" => j = k

\* The channel is closed in a shutdown; the writer ends with the channel drained or with a
\* failed write, and nobody goes on to the network connection before.
Ending ==
    /\ chanClosed \/ wr.pc \in {"drain", "done"} => shutdown
    /\ wr.pc = "done" => writeFailed \/ (chan = <<>> /\ chanClosed)
    /\ net = "closed" => wr.pc = "done"
    /\ \A k \in Closers :
         /\ closer[k].pc = "closeChan" => shutdown
         /\ closer[k].pc \in {"streams", "net", "windows", "reader"} => wr.pc = "done"

Lost == writeFailed \/ fatal \/ connError \in {"other", "fatal"}
Discarding == wr.discard => fatal \/ connError \in {"other", "fatal"}

InChan(s) == \E i \in DOMAIN chan : chan[i] = Response(s)
InHand(s) == wr.pc = "write" /\ wr.frame = Response(s)

\* What a handler has queued is under way, written, or lost for a reason.
Carried(s) == handler[s] = "ended" => s \in delivered \/ Lost \/ InChan(s) \/ InHand(s)

IInv == TypeOK /\ Announcing /\ Ending /\ Discarding /\ \A s \in Ids : Carried(s)

LEMMA FramesTyped ==
    ASSUME ShutdownAssumption
    PROVE  /\ \A n \in 0..MaxId : GoAway(n) \in Frames
           /\ \A s \in Ids : Response(s) \in Frames /\ Response(s).kind = "DATA"
           /\ \A s \in Ids : Response(s).id = s
           /\ PingAck \in Frames /\ NoFrame \in Frames
  BY DEF ShutdownAssumption, Frames, GoAway, Response, PingAck, NoFrame, Ids

LEMMA InitInv == ASSUME ShutdownAssumption, Init PROVE IInv
  <1>1. TypeOK
    <2>1. wr \in [pc : {"select", "write", "drain", "done"}, frame : Frames, discard : BOOLEAN]
      BY FramesTyped DEF Init
    <2>2. closer \in [Closers -> [pc : Pcs, last : 0..MaxId]]
      BY DEF Init, Pcs, ShutdownAssumption
    <2>3. /\ state \in [Ids -> {"open", "closed"}] /\ last \in 0..MaxId
          /\ handler \in [Ids -> {"none", "stream", "conn", "send", "ended", "failed"}]
          /\ late \subseteq Ids /\ delivered \subseteq Ids
      BY DEF Init, ShutdownAssumption
    <2>4. /\ chan \in Seq(Frames) /\ Len(chan) <= WriterCapacity
          /\ goAways \in Seq(0..MaxId)
      BY DEF Init, ShutdownAssumption
    <2> QED  BY <2>1, <2>2, <2>3, <2>4 DEF Init, TypeOK
  <1>2. Announcing  BY DEF Init, Announcing
  <1>3. Ending  BY DEF Init, Ending
  <1>4. Discarding  BY DEF Init, Discarding
  <1>5. \A s \in Ids : Carried(s)  BY DEF Init, Carried
  <1> QED  BY <1>1, <1>2, <1>3, <1>4, <1>5 DEF IInv

-----------------------------------------------------------------------------
(* What the moves do to the channel, the writer and a closer.                  *)

LEMMA QueueFacts ==
    ASSUME ShutdownAssumption, TypeOK, NEW f \in Frames, Queue(f)
    PROVE  /\ chan' \in Seq(Frames) /\ Len(chan') <= WriterCapacity
           /\ ~chanClosed
           /\ \E i \in DOMAIN chan' : chan'[i] = f
           /\ \A s \in Ids : InChan(s) => InChan(s)'
  <1>1. /\ chan \in Seq(Frames) /\ Len(chan) \in Nat /\ Len(chan) < WriterCapacity
        /\ chan' = Append(chan, f) /\ ~chanClosed
    BY DEF TypeOK, Queue, Room
  <1>2. /\ chan' \in Seq(Frames) /\ Len(chan') = Len(chan) + 1
        /\ DOMAIN chan = 1..Len(chan) /\ DOMAIN chan' = 1..(Len(chan) + 1)
        /\ \A i \in 1..Len(chan) : chan'[i] = chan[i]
        /\ chan'[Len(chan) + 1] = f
    BY <1>1
  <1> QED  BY <1>1, <1>2 DEF InChan, ShutdownAssumption

LEMMA TakeFacts ==
    ASSUME ShutdownAssumption, TypeOK, chan # <<>>, chan' = Tail(chan)
    PROVE  /\ chan' \in Seq(Frames) /\ Len(chan') <= WriterCapacity
           /\ Head(chan) \in Frames
           /\ \A s \in Ids : InChan(s) => InChan(s)' \/ Head(chan) = Response(s)
  <1>1. chan \in Seq(Frames) /\ Len(chan) \in Nat /\ Len(chan) <= WriterCapacity /\ Len(chan) > 0
    BY DEF TypeOK
  <1>2. /\ chan' \in Seq(Frames) /\ Len(chan') = Len(chan) - 1
        /\ DOMAIN chan = 1..Len(chan) /\ DOMAIN chan' = 1..(Len(chan) - 1)
        /\ Head(chan) = chan[1] /\ Head(chan) \in Frames
        /\ \A i \in 1..(Len(chan) - 1) : chan'[i] = chan[i + 1]
    BY <1>1
  <1>3. ASSUME NEW s \in Ids, InChan(s) PROVE InChan(s)' \/ Head(chan) = Response(s)
    <2>1. PICK i \in 1..Len(chan) : chan[i] = Response(s)  BY <1>2, <1>3 DEF InChan
    <2>2. CASE i = 1  BY <1>2, <2>1, <2>2
    <2>3. CASE i > 1
      <3>1. i - 1 \in DOMAIN chan' /\ chan'[i - 1] = Response(s)
        BY <1>1, <1>2, <2>1, <2>3
      <3> QED  BY <3>1 DEF InChan, Response
    <2> QED  BY <2>1, <2>2, <2>3
  <1>4. Len(chan') <= WriterCapacity
    BY <1>1, <1>2 DEF ShutdownAssumption
  <1> QED  BY <1>2, <1>3, <1>4

LEMMA WriterMoves ==
    ASSUME TypeOK, NEW place \in {"select", "write", "drain", "done"}, NEW f \in Frames,
           WriterGoes(place, f)
    PROVE  /\ wr' \in [pc : {"select", "write", "drain", "done"}, frame : Frames,
                       discard : BOOLEAN]
           /\ wr'.pc = place /\ wr'.frame = f /\ wr'.discard = wr.discard
  BY DEF TypeOK, WriterGoes

LEMMA CloserMoves ==
    ASSUME TypeOK, NEW k \in Closers, NEW from, NEW to \in Pcs, CloserGoes(k, from, to)
    PROVE  /\ closer' \in [Closers -> [pc : Pcs, last : 0..MaxId]]
           /\ closer[k].pc = from /\ closer'[k].pc = to
           /\ \A j \in Closers \ {k} : closer'[j] = closer[j]
  <1>1. closer \in [Closers -> [pc : Pcs, last : 0..MaxId]]  BY DEF TypeOK
  <1>2. closer[k] \in [pc : Pcs, last : 0..MaxId]  BY <1>1
  <1>3. [closer[k] EXCEPT !.pc = to] \in [pc : Pcs, last : 0..MaxId]  BY <1>2
  <1>4. closer' = [closer EXCEPT ![k] = [closer[k] EXCEPT !.pc = to]]
    BY DEF CloserGoes
  <1>5. closer[k].pc = from  BY DEF CloserGoes, CloserAt
  <1> QED  BY <1>1, <1>2, <1>3, <1>4, <1>5

LEMMA CloserStarts ==
    ASSUME TypeOK, NEW k \in Closers, closer' = [closer EXCEPT ![k] = [pc |-> "init", last |-> last]]
    PROVE  /\ closer' \in [Closers -> [pc : Pcs, last : 0..MaxId]]
           /\ closer'[k].pc = "init"
           /\ \A j \in Closers \ {k} : closer'[j] = closer[j]
  <1>1. closer \in [Closers -> [pc : Pcs, last : 0..MaxId]] /\ last \in 0..MaxId
    BY DEF TypeOK
  <1>2. "init" \in Pcs  BY DEF Pcs
  <1> QED  BY <1>1, <1>2

\* Blame keeps an error that discards frames, and adds only one of the values.
LEMMA BlameFacts ==
    ASSUME TypeOK, NEW cause \in {"none", "noError", "eof", "other", "fatal"}, Blame(cause)
    PROVE  /\ connError' \in {"none", "noError", "eof", "other", "fatal"}
           /\ connError \in {"other", "fatal"} => connError' \in {"other", "fatal"}
  BY DEF TypeOK, Blame

\* The facts about the connection hold on when a step leaves what they speak of alone.
LEMMA Untouched ==
    ASSUME IInv,
           UNCHANGED <<chan, chanClosed, goAwaySent, goAways, shutdown, net, wr, closer>>,
           UNCHANGED writeFailed,
           fatal => fatal',
           connError \in {"other", "fatal"} => connError' \in {"other", "fatal"}
    PROVE  Announcing' /\ Ending' /\ Discarding'
  BY DEF IInv, Announcing, Ending, Discarding

\* What was queued stays under way when nothing is taken from the channel or the writer.
LEMMA CarriesOn ==
    ASSUME IInv,
           \A s \in Ids : handler'[s] = "ended" => handler[s] = "ended",
           delivered \subseteq delivered',
           Lost => Lost',
           \A s \in Ids : InChan(s) => InChan(s)' \/ InHand(s)' \/ s \in delivered' \/ Lost',
           \A s \in Ids : InHand(s) => InHand(s)' \/ s \in delivered' \/ Lost'
    PROVE  \A s \in Ids : Carried(s)'
  BY DEF IInv, Carried

-----------------------------------------------------------------------------
(* The reader.                                                                 *)

\* ReadRequest, ReadPing and the end of Serve: nothing of the shutdown changes.
LEMMA QuietReaderKeeps ==
    ASSUME ShutdownAssumption, IInv,
           ReadRequest \/ ReadPing \/ ReadFails \/ ReaderLooks \/ ReaderCloses
    PROVE  IInv'
  <1>1. /\ UNCHANGED <<chan, chanClosed, goAwaySent, goAways, shutdown, net, wr, closer>>
        /\ UNCHANGED <<writeFailed, delivered, goAwayRecv, client, state, fcClosed, crashed>>
    BY DEF ReadRequest, ReadPing, ReadFails, ReaderLooks, ReaderCloses, channelVars,
           errorVars, streamVars
  <1>2. /\ connError' \in {"none", "noError", "eof", "other", "fatal"} /\ fatal' \in BOOLEAN
        /\ fatal => fatal'
        /\ connError \in {"other", "fatal"} => connError' \in {"other", "fatal"}
    <2>1. connError \in {"none", "noError", "eof", "other", "fatal"} /\ fatal \in BOOLEAN
      BY DEF IInv, TypeOK
    <2> QED
      BY <2>1 DEF Blame, ReadRequest, ReadPing, ReadFails, ReaderLooks, ReaderCloses, errorVars
  <1>3. /\ last' \in 0..MaxId /\ late' \subseteq Ids
        /\ rd' \in {"read", "reply", "exit", "close", "done"} /\ readerDone' \in BOOLEAN
        /\ handler' \in [Ids -> {"none", "stream", "conn", "send", "ended", "failed"}]
        /\ \A s \in Ids : handler'[s] = "ended" => handler[s] = "ended"
    <2>1. /\ last \in 0..MaxId /\ late \subseteq Ids
          /\ rd \in {"read", "reply", "exit", "close", "done"} /\ readerDone \in BOOLEAN
          /\ handler \in [Ids -> {"none", "stream", "conn", "send", "ended", "failed"}]
      BY DEF IInv, TypeOK
    <2>2. CASE ReadRequest
      <3>1. last + 1 \in Ids /\ last + 1 \in 0..MaxId
        BY <2>1, <2>2 DEF ReadRequest, Ids, ShutdownAssumption
      <3> QED  BY <2>1, <2>2, <3>1 DEF ReadRequest, NextFrame
    <2> QED
      BY <2>1, <2>2 DEF ReadPing, ReadFails, ReaderLooks, ReaderCloses, streamVars
  <1>4. TypeOK'  BY <1>1, <1>2, <1>3 DEF IInv, TypeOK
  <1>5. \A s \in Ids : Carried(s)'
    BY <1>1, <1>2, <1>3, CarriesOn DEF Lost, InChan, InHand
  <1> QED  BY <1>1, <1>2, <1>4, <1>5, Untouched DEF IInv

LEMMA ReplyKeeps == ASSUME ShutdownAssumption, IInv, Reply PROVE IInv'
  <1>1. /\ UNCHANGED <<chanClosed, goAwaySent, goAways, shutdown, net, wr, closer, handler>>
        /\ UNCHANGED <<writeFailed, delivered, goAwayRecv, client, last, state, late>>
        /\ UNCHANGED <<fcClosed, readerDone, crashed>>
    BY DEF Reply, streamVars
  <1>2. /\ connError' \in {"none", "noError", "eof", "other", "fatal"} /\ fatal' \in BOOLEAN
        /\ fatal => fatal'
        /\ connError \in {"other", "fatal"} => connError' \in {"other", "fatal"}
        /\ rd' \in {"read", "reply", "exit", "close", "done"}
    <2>1. /\ connError \in {"none", "noError", "eof", "other", "fatal"} /\ fatal \in BOOLEAN
          /\ rd \in {"read", "reply", "exit", "close", "done"}
      BY DEF IInv, TypeOK
    <2>2. rd' \in {"read", "exit"}  BY DEF Reply, NextFrame
    <2>3. UNCHANGED <<connError, fatal>> \/ (Blame("fatal") /\ fatal' = TRUE)  BY DEF Reply
    <2> QED  BY <2>1, <2>2, <2>3 DEF Blame
  <1>3. UNCHANGED chan \/ Queue(PingAck)  BY DEF Reply
  <1>4. /\ chan' \in Seq(Frames) /\ Len(chan') <= WriterCapacity
        /\ \A s \in Ids : InChan(s) => InChan(s)'
        /\ chan' = chan \/ ~chanClosed
    <2>1. CASE UNCHANGED chan  BY <2>1 DEF IInv, TypeOK, InChan
    <2>2. CASE Queue(PingAck)  BY <2>2, QueueFacts, FramesTyped DEF IInv
    <2> QED  BY <1>3, <2>1, <2>2
  <1>5. TypeOK'  BY <1>1, <1>2, <1>4 DEF IInv, TypeOK
  <1>6. Announcing' /\ Ending' /\ Discarding'
    <2>1. Announcing'  BY <1>1 DEF IInv, Announcing
    <2>2. Discarding'  BY <1>1, <1>2 DEF IInv, Discarding
    <2>3. Ending'  BY <1>1, <1>4 DEF IInv, Ending
    <2> QED  BY <2>1, <2>2, <2>3
  <1>7. \A s \in Ids : Carried(s)'
    BY <1>1, <1>2, <1>4, CarriesOn DEF Lost, InHand
  <1> QED  BY <1>5, <1>6, <1>7 DEF IInv

LEMMA ReadGoAwayKeeps == ASSUME ShutdownAssumption, IInv, ReadGoAway PROVE IInv'
  <1>1. /\ UNCHANGED <<chan, chanClosed, goAwaySent, goAways, shutdown, connError, fatal, net>>
        /\ UNCHANGED <<wr, handler, writeFailed, delivered, client, last, state, late>>
        /\ UNCHANGED <<fcClosed, readerDone, crashed>>
        /\ goAwayRecv' = TRUE /\ rd' \in {"read", "exit"}
    BY DEF ReadGoAway, NextFrame, channelVars, errorVars, streamVars
  <1>2. PICK k \in Closers : closer' = [closer EXCEPT ![k] = [pc |-> "init", last |-> last]]
    BY DEF ReadGoAway
  <1>3. /\ closer' \in [Closers -> [pc : Pcs, last : 0..MaxId]] /\ closer'[k].pc = "init"
        /\ \A j \in Closers \ {k} : closer'[j] = closer[j]
    BY <1>2, CloserStarts DEF IInv
  <1>4. TypeOK'  BY <1>1, <1>3 DEF IInv, TypeOK
  <1>5. Announcing'  BY <1>1, <1>3 DEF IInv, Announcing
  <1>6. Ending' /\ Discarding'  BY <1>1, <1>3 DEF IInv, Ending, Discarding
  <1>7. \A s \in Ids : Carried(s)'
    BY <1>1, CarriesOn DEF Lost, InChan, InHand
  <1> QED  BY <1>4, <1>5, <1>6, <1>7 DEF IInv

-----------------------------------------------------------------------------
(* The writer.                                                                 *)

LEMMA WriterUnchanged ==
    ASSUME Writer
    PROVE  /\ UNCHANGED <<chanClosed, goAwaySent, goAways, goAwayRecv, client, net, last, state>>
           /\ UNCHANGED <<late, fcClosed, rd, readerDone, closer, handler, crashed>>
  BY DEF Writer, WriterSelects, WriterWrites, WriterDrains, streamVars, channelVars

LEMMA SelectsKeeps == ASSUME ShutdownAssumption, IInv, WriterSelects PROVE IInv'
  <1>1. /\ UNCHANGED <<chanClosed, goAwaySent, goAways, goAwayRecv, client, net, last, state>>
        /\ UNCHANGED <<late, fcClosed, rd, readerDone, closer, handler, crashed>>
        /\ UNCHANGED <<shutdown, connError, fatal, delivered, writeFailed>>
        /\ wr.pc = "select" /\ TypeOK
    BY WriterUnchanged DEF Writer, WriterSelects, WriterAt, errorVars, IInv
  <1>2. CASE /\ chan # <<>> /\ chan' = Tail(chan)
             /\ IF fatal /\ Head(chan).kind # "GOAWAY"
                THEN UNCHANGED wr ELSE WriterGoes("write", Head(chan))
    <2>1. /\ chan' \in Seq(Frames) /\ Len(chan') <= WriterCapacity /\ Head(chan) \in Frames
          /\ \A s \in Ids : InChan(s) => InChan(s)' \/ Head(chan) = Response(s)
      BY <1>1, <1>2, TakeFacts
    <2>2. /\ wr' \in [pc : {"select", "write", "drain", "done"}, frame : Frames,
                       discard : BOOLEAN]
          /\ wr'.pc \in {"select", "write"} /\ wr'.discard = wr.discard
          /\ fatal \/ (wr'.pc = "write" /\ wr'.frame = Head(chan))
      <3>1. CASE UNCHANGED wr
        BY <1>1, <1>2, <2>1, <3>1, WriterMoves DEF TypeOK
      <3>2. CASE WriterGoes("write", Head(chan))
        BY <1>1, <2>1, <3>2, WriterMoves
      <3>3. fatal \/ WriterGoes("write", Head(chan))  BY <1>2
      <3>4. fatal \/ (wr'.pc = "write" /\ wr'.frame = Head(chan))
        BY <1>1, <2>1, <3>3, WriterMoves
      <3> QED  BY <1>1, <1>2, <3>1, <3>2, <3>4
    <2>3. TypeOK'  BY <1>1, <2>1, <2>2 DEF TypeOK
    <2>4. Announcing' /\ Discarding'
      BY <1>1, <2>2 DEF IInv, Announcing, Discarding
    <2>5. Ending'  BY <1>1, <2>2 DEF IInv, Ending
    <2>6. \A s \in Ids : Carried(s)'
      <3>1. \A s \in Ids : InChan(s) => InChan(s)' \/ InHand(s)' \/ Lost'
        BY <1>1, <2>1, <2>2 DEF InHand, Lost, Response
      <3>2. \A s \in Ids : ~InHand(s)  BY <1>1 DEF InHand
      <3> QED  BY <1>1, <3>1, <3>2, CarriesOn DEF Lost
    <2> QED  BY <2>3, <2>4, <2>5, <2>6 DEF IInv
  <1>3. CASE chan = <<>> /\ chanClosed /\ WriterGoes("done", NoFrame) /\ UNCHANGED chan
    <2>1. /\ wr' \in [pc : {"select", "write", "drain", "done"}, frame : Frames,
                       discard : BOOLEAN]
          /\ wr'.pc = "done" /\ wr'.discard = wr.discard
      BY <1>1, <1>3, WriterMoves, FramesTyped
    <2>2. TypeOK'  BY <1>1, <1>3, <2>1 DEF TypeOK
    <2>3. Announcing' /\ Discarding'
      BY <1>1, <2>1 DEF IInv, Announcing, Discarding
    <2>4. Ending'  BY <1>1, <1>3, <2>1 DEF IInv, Ending
    <2>5. \A s \in Ids : Carried(s)'
      BY <1>1, <1>3, CarriesOn DEF Lost, InChan, InHand
    <2> QED  BY <2>2, <2>3, <2>4, <2>5 DEF IInv
  <1>4. CASE /\ shutdown /\ UNCHANGED chan
             /\ wr' = [pc |-> "drain", frame |-> NoFrame,
                       discard |-> fatal \/ connError \in {"other", "fatal"}]
    <2>1. (fatal \/ connError \in {"other", "fatal"}) \in BOOLEAN  OBVIOUS
    <2>2. /\ wr' \in [pc : {"select", "write", "drain", "done"}, frame : Frames,
                       discard : BOOLEAN]
          /\ wr'.pc = "drain"
          /\ wr'.discard = (fatal \/ connError \in {"other", "fatal"})
      BY <1>4, <2>1, FramesTyped
    <2>3. TypeOK'  BY <1>1, <1>4, <2>2 DEF TypeOK
    <2>4. Announcing'  BY <1>1 DEF IInv, Announcing
    <2>5. Discarding'  BY <1>1, <2>2 DEF Discarding
    <2>6. Ending'  BY <1>1, <1>4, <2>2 DEF IInv, Ending
    <2>7. \A s \in Ids : Carried(s)'
      BY <1>1, <1>4, CarriesOn DEF Lost, InChan, InHand
    <2> QED  BY <2>3, <2>4, <2>5, <2>6, <2>7 DEF IInv
  <1> QED  BY <1>2, <1>3, <1>4 DEF WriterSelects

LEMMA WritesKeeps == ASSUME ShutdownAssumption, IInv, WriterWrites PROVE IInv'
  <1>1. /\ UNCHANGED <<chanClosed, goAwaySent, goAways, goAwayRecv, client, net, last, state>>
        /\ UNCHANGED <<late, fcClosed, rd, readerDone, closer, handler, crashed, chan>>
        /\ wr.pc = "write" /\ TypeOK
    BY WriterUnchanged DEF Writer, WriterWrites, WriterAt, channelVars, IInv
  <1>2. CASE Written(wr.frame) /\ WriterGoes("select", NoFrame) /\ UNCHANGED errorVars
    <2>1. /\ UNCHANGED <<shutdown, connError, fatal, writeFailed>>
          /\ wr' \in [pc : {"select", "write", "drain", "done"}, frame : Frames,
                       discard : BOOLEAN]
          /\ wr'.pc = "select" /\ wr'.discard = wr.discard
      BY <1>1, <1>2, WriterMoves, FramesTyped DEF errorVars, Written
    <2>2. /\ delivered \subseteq delivered'
          /\ \A s \in Ids : InHand(s) => s \in delivered'
          /\ delivered' \subseteq Ids
      <3>1. wr.frame \in Frames /\ delivered \subseteq Ids  BY <1>1 DEF TypeOK
      <3>2. delivered' = IF wr.frame.kind = "DATA"
                         THEN delivered \union {wr.frame.id} ELSE delivered
        BY <1>2 DEF Written
      <3>3. wr.frame.kind = "DATA" => wr.frame.id \in Ids
        BY <3>1 DEF Frames, PingAck, NoFrame
      <3> QED  BY <3>1, <3>2, <3>3, FramesTyped DEF InHand
    <2>3. TypeOK'  BY <1>1, <2>1, <2>2 DEF TypeOK
    <2>4. Announcing' /\ Discarding'
      BY <1>1, <2>1 DEF IInv, Announcing, Discarding
    <2>5. Ending'  BY <1>1, <2>1 DEF IInv, Ending
    <2>6. \A s \in Ids : Carried(s)'
      BY <1>1, <2>1, <2>2, CarriesOn DEF Lost, InChan
    <2> QED  BY <2>3, <2>4, <2>5, <2>6 DEF IInv
  <1>3. CASE /\ writeFailed' = TRUE /\ UNCHANGED delivered /\ Blame("other")
             /\ fatal' = (fatal \/ ~shutdown) /\ shutdown' = TRUE
             /\ WriterGoes("done", NoFrame)
    <2>1. /\ wr' \in [pc : {"select", "write", "drain", "done"}, frame : Frames,
                       discard : BOOLEAN]
          /\ wr'.pc = "done" /\ wr'.discard = wr.discard
      BY <1>1, <1>3, WriterMoves, FramesTyped
    <2>2. /\ connError' \in {"none", "noError", "eof", "other", "fatal"}
          /\ connError \in {"other", "fatal"} => connError' \in {"other", "fatal"}
      BY <1>1, <1>3, BlameFacts
    <2>3. fatal' \in BOOLEAN /\ (fatal => fatal')
      BY <1>1, <1>3 DEF TypeOK
    <2>4. TypeOK'  BY <1>1, <1>3, <2>1, <2>2, <2>3 DEF TypeOK
    <2>5. Announcing' /\ Discarding'
      BY <1>1, <2>1, <2>2, <2>3 DEF IInv, Announcing, Discarding
    <2>6. Ending'  BY <1>1, <1>3, <2>1 DEF IInv, Ending
    <2>7. \A s \in Ids : Carried(s)'  BY <1>3 DEF Carried, Lost
    <2> QED  BY <2>4, <2>5, <2>6, <2>7 DEF IInv
  <1> QED  BY <1>2, <1>3 DEF WriterWrites

LEMMA DrainsKeeps == ASSUME ShutdownAssumption, IInv, WriterDrains PROVE IInv'
  <1>1. /\ UNCHANGED <<chanClosed, goAwaySent, goAways, goAwayRecv, client, net, last, state>>
        /\ UNCHANGED <<late, fcClosed, rd, readerDone, closer, handler, crashed>>
        /\ UNCHANGED <<shutdown, connError, fatal>>
        /\ wr.pc = "drain" /\ TypeOK
    BY WriterUnchanged DEF Writer, WriterDrains, WriterAt, errorVars, IInv
  <1>2. CASE /\ chan # <<>> /\ chan' = Tail(chan) /\ UNCHANGED wr
             /\ IF wr.discard /\ Head(chan).kind # "GOAWAY"
                THEN UNCHANGED <<delivered, writeFailed>>
                ELSE IF client = "up" /\ net = "open"
                     THEN Written(Head(chan))
                     ELSE writeFailed' = TRUE /\ UNCHANGED delivered
    <2>1. /\ chan' \in Seq(Frames) /\ Len(chan') <= WriterCapacity /\ Head(chan) \in Frames
          /\ \A s \in Ids : InChan(s) => InChan(s)' \/ Head(chan) = Response(s)
      BY <1>1, <1>2, TakeFacts
    <2>2. /\ delivered \subseteq delivered' /\ delivered' \subseteq Ids
          /\ writeFailed' \in BOOLEAN /\ (writeFailed => writeFailed')
          /\ \A s \in Ids : Head(chan) = Response(s) => s \in delivered' \/ Lost'
      <3>1. /\ delivered \subseteq Ids /\ writeFailed \in BOOLEAN
            /\ Head(chan).kind = "DATA" => Head(chan).id \in Ids
        BY <1>1, <2>1 DEF TypeOK, Frames, PingAck, NoFrame
      <3>2. CASE wr.discard /\ Head(chan).kind # "GOAWAY"
        BY <1>1, <1>2, <3>1, <3>2 DEF IInv, Discarding, Lost
      <3>3. CASE Written(Head(chan))
        BY <3>1, <3>3, FramesTyped DEF Written
      <3>4. CASE writeFailed' = TRUE /\ UNCHANGED delivered
        BY <3>1, <3>4 DEF Lost
      <3> QED  BY <1>2, <3>2, <3>3, <3>4
    <2>3. TypeOK'  BY <1>1, <1>2, <2>1, <2>2 DEF TypeOK
    <2>4. Announcing' /\ Discarding'
      BY <1>1, <1>2 DEF IInv, Announcing, Discarding
    <2>5. Ending'  BY <1>1, <1>2, <2>2 DEF IInv, Ending
    <2>6. \A s \in Ids : Carried(s)'
      <3>1. \A s \in Ids : InChan(s) => InChan(s)' \/ s \in delivered' \/ Lost'
        BY <2>1, <2>2
      <3>2. \A s \in Ids : ~InHand(s)  BY <1>1 DEF InHand
      <3>3. Lost => Lost'  BY <1>1, <2>2 DEF Lost
      <3> QED  BY <1>1, <2>2, <3>1, <3>2, <3>3, CarriesOn
    <2> QED  BY <2>3, <2>4, <2>5, <2>6 DEF IInv
  <1>3. CASE /\ chan = <<>> /\ chanClosed /\ WriterGoes("done", NoFrame)
             /\ UNCHANGED <<chan, delivered, writeFailed>>
    <2>1. /\ wr' \in [pc : {"select", "write", "drain", "done"}, frame : Frames,
                       discard : BOOLEAN]
          /\ wr'.pc = "done" /\ wr'.discard = wr.discard
      BY <1>1, <1>3, WriterMoves, FramesTyped
    <2>2. TypeOK'  BY <1>1, <1>3, <2>1 DEF TypeOK
    <2>3. Announcing' /\ Discarding'
      BY <1>1, <2>1 DEF IInv, Announcing, Discarding
    <2>4. Ending'  BY <1>1, <1>3, <2>1 DEF IInv, Ending
    <2>5. \A s \in Ids : Carried(s)'
      BY <1>1, <1>3, CarriesOn DEF Lost, InChan, InHand
    <2> QED  BY <2>2, <2>3, <2>4, <2>5 DEF IInv
  <1> QED  BY <1>2, <1>3 DEF WriterDrains

-----------------------------------------------------------------------------
(* The closers.                                                                *)

LEMMA BeginsKeeps ==
    ASSUME ShutdownAssumption, IInv, NEW k \in Closers, CloseBegins(k) PROVE IInv'
  <1>1. /\ UNCHANGED <<chan, chanClosed, goAwaySent, goAways, shutdown, fatal, net, wr, handler>>
        /\ UNCHANGED <<writeFailed, delivered, goAwayRecv, client, last, state, late>>
        /\ UNCHANGED <<fcClosed, rd, readerDone, crashed>>
        /\ closer[k].pc = "idle" /\ TypeOK
    BY DEF CloseBegins, CloserAt, channelVars, streamVars, IInv
  <1>2. /\ connError' \in {"none", "noError", "eof", "other", "fatal"}
        /\ connError \in {"other", "fatal"} => connError' \in {"other", "fatal"}
    <2>1. UNCHANGED connError \/ \E cause \in {"noError", "fatal", "other"} : Blame(cause)
      BY DEF CloseBegins, ShutdownAssumption
    <2> QED  BY <1>1, <2>1, BlameFacts DEF TypeOK
  <1>3. /\ closer' \in [Closers -> [pc : Pcs, last : 0..MaxId]]
        /\ closer'[k].pc \in {"init", "returned"}
        /\ \A j \in Closers \ {k} : closer'[j] = closer[j]
    <2>1. CASE closer' = [closer EXCEPT ![k].pc = "returned"]
      <3>1. CloserGoes(k, "idle", "returned")  BY <2>1 DEF CloseBegins, CloserGoes
      <3>2. "returned" \in Pcs  BY DEF Pcs
      <3> QED  BY <1>1, <3>1, <3>2, CloserMoves
    <2>2. CASE closer' = [closer EXCEPT ![k] = [pc |-> "init", last |-> last]]
      BY <1>1, <2>2, CloserStarts
    <2> QED  BY <2>1, <2>2 DEF CloseBegins
  <1>4. TypeOK'  BY <1>1, <1>2, <1>3 DEF TypeOK
  <1>5. Announcing'  BY <1>1, <1>3 DEF IInv, Announcing
  <1>6. Ending' /\ Discarding'  BY <1>1, <1>2, <1>3 DEF IInv, Ending, Discarding
  <1>7. \A s \in Ids : Carried(s)'
    BY <1>1, <1>2, CarriesOn DEF Lost, InChan, InHand
  <1> QED  BY <1>4, <1>5, <1>6, <1>7 DEF IInv

LEMMA SendGoAwayKeeps ==
    ASSUME ShutdownAssumption, IInv, NEW k \in Closers, SendGoAway(k) PROVE IInv'
  <1>1. /\ UNCHANGED <<chan, chanClosed, goAways, shutdown, connError, fatal, net, wr, handler>>
        /\ UNCHANGED <<writeFailed, delivered, goAwayRecv, client, last, state, late>>
        /\ UNCHANGED <<fcClosed, rd, readerDone, crashed>>
        /\ goAwaySent' = (goAwaySent \/ ~shutdown) /\ TypeOK
    BY DEF SendGoAway, errorVars, streamVars, IInv
  <1>2. PICK to \in {"returned", "signal", "enqueue"} :
          /\ CloserGoes(k, "init", to)
          /\ to = "enqueue" => ~shutdown /\ ~goAwaySent
    BY DEF SendGoAway
  <1>3. /\ closer' \in [Closers -> [pc : Pcs, last : 0..MaxId]]
        /\ closer[k].pc = "init" /\ closer'[k].pc = to
        /\ \A j \in Closers \ {k} : closer'[j] = closer[j]
    <2>1. to \in Pcs  BY DEF Pcs
    <2> QED  BY <1>1, <1>2, <2>1, CloserMoves
  <1>4. goAwaySent' \in BOOLEAN  BY <1>1 DEF TypeOK
  <1>5. TypeOK'  BY <1>1, <1>3, <1>4 DEF TypeOK
  <1>6. Announcing'
    <2>1. Announcing /\ goAwaySent \in BOOLEAN /\ shutdown \in BOOLEAN  BY <1>1 DEF IInv, TypeOK
    <2>2. CASE to = "enqueue"
      <3>1. \A j \in Closers : closer[j].pc # "enqueue"  BY <1>2, <2>1, <2>2 DEF Announcing
      <3> QED  BY <1>1, <1>2, <1>3, <2>1, <2>2, <3>1 DEF Announcing
    <2>3. CASE to # "enqueue"  BY <1>1, <1>3, <2>1, <2>3 DEF Announcing
    <2> QED  BY <2>2, <2>3
  <1>7. Ending' /\ Discarding'  BY <1>1, <1>2, <1>3 DEF IInv, Ending, Discarding
  <1>8. \A s \in Ids : Carried(s)'
    BY <1>1, CarriesOn DEF Lost, InChan, InHand
  <1> QED  BY <1>5, <1>6, <1>7, <1>8 DEF IInv

LEMMA QueueGoAwayKeeps ==
    ASSUME ShutdownAssumption, IInv, NEW k \in Closers, QueueGoAway(k) PROVE IInv'
  <1>1. /\ UNCHANGED <<chanClosed, goAwaySent, shutdown, fatal, net, wr, handler>>
        /\ UNCHANGED <<writeFailed, delivered, goAwayRecv, client, last, state, late>>
        /\ UNCHANGED <<fcClosed, rd, readerDone>> /\ TypeOK
    BY DEF QueueGoAway, streamVars, IInv
  <1>2. /\ closer' \in [Closers -> [pc : Pcs, last : 0..MaxId]]
        /\ closer[k].pc = "enqueue" /\ closer'[k].pc = "signal"
        /\ \A j \in Closers \ {k} : closer'[j] = closer[j]
    <2>1. "signal" \in Pcs  BY DEF Pcs
    <2> QED  BY <1>1, <2>1, CloserMoves DEF QueueGoAway
  <1>3. goAwaySent /\ goAways = <<>> /\ \A j \in Closers \ {k} : closer[j].pc # "enqueue"
    BY <1>2 DEF IInv, Announcing
  <1>4. /\ connError' \in {"none", "noError", "eof", "other", "fatal"}
        /\ connError \in {"other", "fatal"} => connError' \in {"other", "fatal"}
        /\ crashed' \in BOOLEAN
    <2>1. UNCHANGED connError \/ Blame("fatal")  BY DEF QueueGoAway
    <2>2. UNCHANGED crashed \/ crashed' = TRUE  BY DEF QueueGoAway
    <2> QED  BY <1>1, <2>1, <2>2, BlameFacts DEF TypeOK
  <1>5. /\ chan' \in Seq(Frames) /\ Len(chan') <= WriterCapacity
        /\ \A s \in Ids : InChan(s) => InChan(s)'
        /\ chan' = chan \/ ~chanClosed
        /\ goAways' \in Seq(0..MaxId) /\ Len(goAways') <= 1
    <2>1. CASE UNCHANGED <<chan, goAways>>
      <3>1. chan \in Seq(Frames) /\ Len(chan) <= WriterCapacity /\ goAways \in Seq(0..MaxId)
        BY <1>1 DEF TypeOK
      <3> QED  BY <1>3, <2>1, <3>1 DEF InChan
    <2>2. CASE Queue(GoAway(closer[k].last)) /\ goAways' = Append(goAways, closer[k].last)
      <3>1. closer[k].last \in 0..MaxId  BY <1>1 DEF TypeOK
      <3>2. GoAway(closer[k].last) \in Frames  BY <3>1, FramesTyped
      <3>3. goAways' = Append(<<>>, closer[k].last)  BY <1>3, <2>2
      <3>4. goAways' \in Seq(0..MaxId) /\ Len(goAways') <= 1  BY <3>1, <3>3
      <3> QED  BY <1>1, <2>2, <3>2, <3>4, QueueFacts
    <2> QED  BY <2>1, <2>2 DEF QueueGoAway
  <1>6. TypeOK'  BY <1>1, <1>2, <1>4, <1>5 DEF TypeOK
  <1>7. Announcing'  BY <1>1, <1>2, <1>3, <1>5 DEF Announcing
  <1>8. Discarding'  BY <1>1, <1>4 DEF IInv, Discarding
  <1>9. Ending'  BY <1>1, <1>2, <1>5 DEF IInv, Ending
  <1>10. \A s \in Ids : Carried(s)'
    BY <1>1, <1>4, <1>5, CarriesOn DEF Lost, InHand
  <1> QED  BY <1>6, <1>7, <1>8, <1>9, <1>10 DEF IInv

\* The rest of initiateShutdown.  From the wait for the writer on, the writer has ended.
LEMMA ShutdownKeeps ==
    ASSUME ShutdownAssumption, IInv, NEW k \in Closers,
           \/ Signal(k) \/ CloseChannel(k) \/ AwaitWriter(k) \/ CloseStreams(k)
           \/ CloseNet(k) \/ CloseWindows(k) \/ CloseReaderDone(k)
    PROVE  IInv'
  <1>1. /\ UNCHANGED <<chan, goAwaySent, goAways, connError, fatal, wr, handler>>
        /\ UNCHANGED <<writeFailed, delivered, goAwayRecv, client, last, late, rd>>
        /\ TypeOK
    BY DEF Signal, CloseChannel, AwaitWriter, CloseStreams, CloseNet, CloseWindows,
           CloseReaderDone, errorVars, streamVars, channelVars, IInv
  <1>2. PICK from \in Pcs, to \in Pcs :
          /\ CloserGoes(k, from, to)
          /\ from # "enqueue" /\ to # "enqueue"
          /\ to = "closeChan" => shutdown'
          /\ to \in {"streams", "net", "windows", "reader"} =>
               wr.pc = "done" \/ from \in {"streams", "net", "windows", "reader"}
    <2>1. CASE Signal(k)  BY <2>1 DEF Signal, Pcs
    <2>2. CASE CloseChannel(k)  BY <2>2 DEF CloseChannel, Pcs
    <2>3. CASE AwaitWriter(k)  BY <2>3 DEF AwaitWriter, Pcs
    <2>4. CASE CloseStreams(k)  BY <2>4 DEF CloseStreams, Pcs
    <2>5. CASE CloseNet(k)  BY <2>5 DEF CloseNet, Pcs
    <2>6. CASE CloseWindows(k)
      <3>1. PICK to \in {"returned", "reader"} : CloserGoes(k, "windows", to)
        BY <2>6 DEF CloseWindows
      <3> QED  BY <3>1 DEF Pcs
    <2>7. CASE CloseReaderDone(k)  BY <2>7 DEF CloseReaderDone, Pcs
    <2> QED  BY <2>1, <2>2, <2>3, <2>4, <2>5, <2>6, <2>7
  <1>3. /\ closer' \in [Closers -> [pc : Pcs, last : 0..MaxId]]
        /\ closer[k].pc = from /\ closer'[k].pc = to
        /\ \A j \in Closers \ {k} : closer'[j] = closer[j]
    BY <1>1, <1>2, CloserMoves
  <1>4. /\ shutdown' \in BOOLEAN /\ (shutdown => shutdown')
        /\ chanClosed' \in BOOLEAN /\ (chanClosed => chanClosed')
        /\ chanClosed' => chanClosed \/ closer[k].pc = "closeChan"
        /\ net' \in {"open", "closed"}
        /\ net' = "closed" => net = "closed" \/ closer[k].pc = "net"
    <2>1. shutdown \in BOOLEAN /\ chanClosed \in BOOLEAN /\ net \in {"open", "closed"}
      BY <1>1 DEF TypeOK
    <2>2. UNCHANGED shutdown \/ shutdown' = TRUE
      BY DEF Signal, CloseChannel, AwaitWriter, CloseStreams, CloseNet, CloseWindows,
             CloseReaderDone, errorVars
    <2>3. UNCHANGED chanClosed \/ (closer[k].pc = "closeChan" /\ chanClosed' = TRUE)
      <3>1. CASE CloseChannel(k)  BY <3>1 DEF CloseChannel, CloserGoes, CloserAt
      <3>2. CASE ~CloseChannel(k)
        BY <3>2 DEF Signal, AwaitWriter, CloseStreams, CloseNet, CloseWindows,
                    CloseReaderDone, channelVars
      <3> QED  BY <3>1, <3>2
    <2>4. UNCHANGED net \/ (closer[k].pc = "net" /\ net' = "closed")
      <3>1. CASE CloseNet(k)  BY <3>1 DEF CloseNet, CloserGoes, CloserAt
      <3>2. CASE ~CloseNet(k)
        BY <3>2 DEF Signal, CloseChannel, AwaitWriter, CloseStreams, CloseWindows,
                    CloseReaderDone
      <3> QED  BY <3>1, <3>2
    <2>5. shutdown' \in BOOLEAN /\ (shutdown => shutdown')  BY <2>1, <2>2
    <2>6. /\ chanClosed' \in BOOLEAN /\ (chanClosed => chanClosed')
          /\ chanClosed' => chanClosed \/ closer[k].pc = "closeChan"
      <3>1. CASE UNCHANGED chanClosed  BY <2>1, <3>1
      <3>2. CASE closer[k].pc = "closeChan" /\ chanClosed' = TRUE  BY <3>2, Zenon
      <3> QED  BY <2>3, <3>1, <3>2
    <2>7. /\ net' \in {"open", "closed"}
          /\ net' = "closed" => net = "closed" \/ closer[k].pc = "net"
      BY <2>1, <2>4
    <2> QED  BY <2>5, <2>6, <2>7
  <1>5. /\ state' \in [Ids -> {"open", "closed"}] /\ fcClosed' \in BOOLEAN
        /\ readerDone' \in BOOLEAN /\ crashed' \in BOOLEAN
    <2>1. /\ state \in [Ids -> {"open", "closed"}] /\ fcClosed \in BOOLEAN
          /\ readerDone \in BOOLEAN /\ crashed \in BOOLEAN
      BY <1>1 DEF TypeOK
    <2>2. UNCHANGED state \/ state' = [s \in Ids |-> IF s <= last THEN "closed" ELSE state[s]]
      BY DEF Signal, CloseChannel, AwaitWriter, CloseStreams, CloseNet, CloseWindows,
             CloseReaderDone, streamVars
    <2>3. state' \in [Ids -> {"open", "closed"}]  BY <2>1, <2>2
    <2>4. /\ UNCHANGED fcClosed \/ fcClosed' = TRUE
          /\ UNCHANGED readerDone \/ readerDone' = TRUE
          /\ UNCHANGED crashed \/ crashed' = readerDone
      BY DEF Signal, CloseChannel, AwaitWriter, CloseStreams, CloseNet, CloseWindows,
             CloseReaderDone
    <2> QED  BY <2>1, <2>3, <2>4
  <1>6. TypeOK'  BY <1>1, <1>3, <1>4, <1>5 DEF TypeOK
  <1>7. Announcing'  BY <1>1, <1>2, <1>3 DEF IInv, Announcing
  <1>8. Discarding'  BY <1>1 DEF IInv, Discarding
  <1>9. Ending'  BY <1>1, <1>2, <1>3, <1>4 DEF IInv, Ending
  <1>10. \A s \in Ids : Carried(s)'
    BY <1>1, CarriesOn DEF Lost, InChan, InHand
  <1> QED  BY <1>6, <1>7, <1>8, <1>9, <1>10 DEF IInv

-----------------------------------------------------------------------------
(* The handlers and the client.                                                *)

LEMMA WaitingKeeps ==
    ASSUME ShutdownAssumption, IInv, NEW s \in Ids,
           Granted(s) \/ Refused(s) \/ CheckConnection(s)
    PROVE  IInv'
  <1>1. /\ UNCHANGED <<chan, chanClosed, goAwaySent, goAways, shutdown, connError, fatal>>
        /\ UNCHANGED <<net, wr, closer, writeFailed, delivered, goAwayRecv, client, last>>
        /\ UNCHANGED <<late, state, fcClosed, rd, readerDone, crashed>>
        /\ TypeOK
    BY DEF Granted, Refused, CheckConnection, channelVars, errorVars, streamVars, IInv
  <1>2. \E place \in {"conn", "send", "failed"} : HandlerGoes(s, place)
    BY DEF Granted, Refused, CheckConnection
  <1>3. /\ handler' \in [Ids -> {"none", "stream", "conn", "send", "ended", "failed"}]
        /\ \A r \in Ids : handler'[r] = "ended" => handler[r] = "ended"
    BY <1>1, <1>2 DEF HandlerGoes, TypeOK
  <1>4. TypeOK'  BY <1>1, <1>3 DEF TypeOK
  <1>5. \A r \in Ids : Carried(r)'
    BY <1>1, <1>3, CarriesOn DEF Lost, InChan, InHand
  <1> QED  BY <1>1, <1>4, <1>5, Untouched DEF IInv

LEMMA SendsKeeps ==
    ASSUME ShutdownAssumption, IInv, NEW s \in Ids, SendResponse(s) PROVE IInv'
  <1>1. /\ UNCHANGED <<chanClosed, goAwaySent, goAways, shutdown, connError, fatal>>
        /\ UNCHANGED <<net, wr, closer, writeFailed, delivered, goAwayRecv, client, last>>
        /\ UNCHANGED <<late, fcClosed, rd, readerDone, crashed>>
        /\ TypeOK
    BY DEF SendResponse, errorVars, IInv
  <1>2. state' \in [Ids -> {"open", "closed"}]
    BY <1>1 DEF SendResponse, TypeOK
  <1>3. CASE Queue(Response(s)) /\ HandlerGoes(s, "ended")
    <2>1. /\ handler' \in [Ids -> {"none", "stream", "conn", "send", "ended", "failed"}]
          /\ \A r \in Ids \ {s} : handler'[r] = handler[r]
      BY <1>1, <1>3 DEF HandlerGoes, TypeOK
    <2>2. /\ chan' \in Seq(Frames) /\ Len(chan') <= WriterCapacity /\ ~chanClosed
          /\ \E i \in DOMAIN chan' : chan'[i] = Response(s)
          /\ \A r \in Ids : InChan(r) => InChan(r)'
      BY <1>1, <1>3, QueueFacts, FramesTyped
    <2>3. TypeOK'  BY <1>1, <1>2, <2>1, <2>2 DEF TypeOK
    <2>4. Announcing' /\ Discarding'  BY <1>1 DEF IInv, Announcing, Discarding
    <2>5. Ending'  BY <1>1, <2>2 DEF IInv, Ending
    <2>6. Carried(s)'  BY <2>2 DEF Carried, InChan, Response
    <2>7. ASSUME NEW r \in Ids \ {s} PROVE Carried(r)'
      BY <1>1, <2>1, <2>2 DEF IInv, Carried, Lost, InHand
    <2> QED  BY <2>3, <2>4, <2>5, <2>6, <2>7 DEF IInv
  <1>4. CASE HandlerGoes(s, "failed") /\ UNCHANGED chan
    <2>1. /\ handler' \in [Ids -> {"none", "stream", "conn", "send", "ended", "failed"}]
          /\ \A r \in Ids : handler'[r] = "ended" => handler[r] = "ended"
      BY <1>1, <1>4 DEF HandlerGoes, TypeOK
    <2>2. TypeOK'  BY <1>1, <1>2, <1>4, <2>1 DEF TypeOK
    <2>3. \A r \in Ids : Carried(r)'
      BY <1>1, <1>4, <2>1, CarriesOn DEF Lost, InChan, InHand
    <2> QED  BY <1>1, <1>4, <2>2, <2>3, Untouched DEF IInv
  <1> QED  BY <1>3, <1>4 DEF SendResponse

LEMMA ClientKeeps == ASSUME ShutdownAssumption, IInv, ClientLost PROVE IInv'
  <1>1. /\ UNCHANGED <<chan, chanClosed, goAwaySent, goAways, shutdown, connError, fatal>>
        /\ UNCHANGED <<net, wr, closer, handler, writeFailed, delivered, goAwayRecv, last>>
        /\ UNCHANGED <<late, state, fcClosed, rd, readerDone, crashed>>
        /\ client' \in {"gone", "stalled"} /\ TypeOK
    BY DEF ClientLost, channelVars, errorVars, streamVars, IInv
  <1>2. TypeOK'  BY <1>1 DEF TypeOK
  <1>3. \A r \in Ids : Carried(r)'
    BY <1>1, CarriesOn DEF Lost, InChan, InHand
  <1> QED  BY <1>1, <1>2, <1>3, Untouched DEF IInv

LEMMA StutterKeeps == ASSUME IInv, UNCHANGED vars PROVE IInv'
  <1>1. /\ UNCHANGED <<chan, chanClosed, goAwaySent, goAways, shutdown, connError, fatal>>
        /\ UNCHANGED <<net, wr, closer, handler, writeFailed, delivered, goAwayRecv, last>>
        /\ UNCHANGED <<late, state, fcClosed, rd, readerDone, crashed, client>>
    BY DEF vars, channelVars, errorVars, streamVars
  <1>2. TypeOK'  BY <1>1 DEF IInv, TypeOK
  <1>3. \A r \in Ids : Carried(r)'
    BY <1>1, CarriesOn DEF Lost, InChan, InHand
  <1> QED  BY <1>1, <1>2, <1>3, Untouched DEF IInv

\* Every step preserves it.
LEMMA StepInv == ASSUME ShutdownAssumption, IInv, [Next]_vars PROVE IInv'
  <1>1. CASE Reader
    BY <1>1, QuietReaderKeeps, ReplyKeeps, ReadGoAwayKeeps DEF Reader
  <1>2. CASE Writer
    BY <1>2, SelectsKeeps, WritesKeeps, DrainsKeeps DEF Writer
  <1>3. ASSUME NEW k \in Closers, CloseBegins(k) \/ ShutdownStep(k) PROVE IInv'
    BY <1>3, BeginsKeeps, SendGoAwayKeeps, QueueGoAwayKeeps, ShutdownKeeps DEF ShutdownStep
  <1>4. ASSUME NEW s \in Ids, Granted(s) \/ CheckConnection(s) \/ HandlerStep(s) PROVE IInv'
    BY <1>4, WaitingKeeps, SendsKeeps DEF HandlerStep
  <1>5. CASE ClientLost  BY <1>5, ClientKeeps
  <1>6. CASE UNCHANGED vars  BY <1>6, StutterKeeps
  <1> QED  BY <1>1, <1>2, <1>3, <1>4, <1>5, <1>6 DEF Next

LEMMA Inductive == ASSUME ShutdownAssumption PROVE Spec => []IInv
  <1>1. Init => IInv  BY InitInv
  <1>2. IInv /\ [Next]_vars => IInv'  BY StepInv
  <1> QED  BY <1>1, <1>2, PTL DEF Spec

\* Every field keeps to its values, and writerChan to its capacity.
THEOREM ShutdownTypes == ASSUME ShutdownAssumption PROVE Spec => []TypeOK
  <1>1. IInv => TypeOK  BY DEF IInv
  <1> QED  BY <1>1, Inductive, PTL

\* However many goroutines shut the connection down, one GOAWAY is queued at most.
THEOREM OneGoAway == ASSUME ShutdownAssumption PROVE Spec => []GoAwayOnce
  <1>1. IInv => GoAwayOnce  BY DEF IInv, Announcing, GoAwayOnce
  <1> QED  BY <1>1, Inductive, PTL

\* The writer ends only when a shutdown has been signalled.
THEOREM WriterEnds == ASSUME ShutdownAssumption PROVE Spec => []WriterEndsInShutdown
  <1>1. IInv => WriterEndsInShutdown  BY DEF IInv, Ending, WriterEndsInShutdown
  <1> QED  BY <1>1, Inductive, PTL

\* When the network connection is closed, every response that was queued has been written,
\* or a write failed, or the shutdown is one that discards.
THEOREM QueuedIsDelivered == ASSUME ShutdownAssumption PROVE Spec => []SentIsDelivered
  <1>1. ASSUME IInv, net = "closed", NEW s \in Ids, handler[s] = "ended"
        PROVE  s \in delivered \/ Lost
    <2>1. wr.pc = "done" /\ (writeFailed \/ chan = <<>>)  BY <1>1 DEF IInv, Ending
    <2>2. ~InHand(s)  BY <2>1 DEF InHand
    <2>3. InChan(s) => writeFailed  BY <2>1 DEF InChan
    <2> QED  BY <1>1, <2>2, <2>3 DEF IInv, Carried, Lost
  <1>2. IInv => SentIsDelivered  BY <1>1 DEF SentIsDelivered, Lost
  <1> QED  BY <1>2, Inductive, PTL
-----------------------------------------------------------------------------
(* A send window, which the end of its stream or connection closes (module  *)
(* FlowControlWindow), for any number of senders, any limit and any peer.   *)
(* One inductive invariant carries all its theorems.                        *)

\* What the invariants rest on: every error closes the window; up to an overflow the
\* two ends agree on the window, and afterwards we can only have less of it; the
\* SETTINGS part of the window moves with initialWindowSize, and what is left of it
\* after an acquisition is never negative.
Books ==
    /\ err # "nil" <=> closed
    /\ err # "overflow" => available + outstanding = peerWindow
    /\ available + outstanding <= peerWindow
    /\ peerWindow <= MaxWindowSize + PeerOverrun
    /\ available >= initialWindowSize - MaxWindowSize

WindowInv == WindowTypeOK /\ Books /\ NoLostWakeup

LEMMA Constants ==
    /\ \A n \in Demands : n \in Nat /\ n > 0
    /\ \A v \in InitialSizes : v \in Nat /\ v <= MaxWindowSize
    /\ MaxWindowSize \in Nat /\ PeerOverrun \in Nat
  BY WindowAssumption DEF WindowAssumption

\* A wakeup leaves nobody asleep and nobody's request changed.
LEMMA BroadcastWakes ==
    ASSUME WindowTypeOK, Broadcast
    PROVE  /\ pc' \in [Senders -> {"idle", "asleep", "woken"}]
           /\ \A t \in Senders : pc'[t] # "asleep"
           /\ \A t \in Senders : pc'[t] = "idle" <=> pc[t] = "idle"
  BY DEF WindowTypeOK, Broadcast

LEMMA WindowInitInv == WindowInit => WindowInv
<1> SUFFICES ASSUME WindowInit PROVE WindowInv
  OBVIOUS
<1> USE Constants
<1>1. WindowTypeOK
  <2>1. available \in Int /\ peerWindow \in Int /\ outstanding \in Nat
    BY DEF WindowInit
  <2>2. closed \in BOOLEAN /\ err \in Errors /\ initialWindowSize \in InitialSizes
    BY DEF WindowInit, Errors
  <2>3. pc \in [Senders -> {"idle", "asleep", "woken"}]
    BY DEF WindowInit
  <2>4. need \in [Senders -> Demands \union {0}]
    BY DEF WindowInit
  <2>5. \A t \in Senders : pc[t] # "idle" <=> need[t] # 0
    BY DEF WindowInit
  <2> QED
    BY <2>1, <2>2, <2>3, <2>4, <2>5 DEF WindowTypeOK
<1>2. Books
  BY DEF WindowInit, Books
<1>3. NoLostWakeup
  BY DEF WindowInit, NoLostWakeup
<1> QED
  BY <1>1, <1>2, <1>3 DEF WindowInv

LEMMA WindowNextInv == WindowInv /\ [WindowNext]_windowVars => WindowInv'
<1> SUFFICES ASSUME WindowInv, [WindowNext]_windowVars PROVE WindowInv'
  OBVIOUS
<1> USE Constants DEF WindowInv
<1>1. ASSUME NEW t \in Senders, NEW n \in Demands, Acquire(t, n) PROVE WindowInv'
  <2>1. WindowTypeOK'
    BY <1>1 DEF WindowTypeOK, Acquire, TakeSpace
  <2>2. Books'
    BY <1>1 DEF WindowTypeOK, Books, Acquire, TakeSpace
  <2>3. NoLostWakeup'
    BY <1>1 DEF WindowTypeOK, NoLostWakeup, Failed, Acquire, TakeSpace
  <2> QED
    BY <2>1, <2>2, <2>3
<1>2. ASSUME NEW t \in Senders, Resume(t) PROVE WindowInv'
  <2>1. WindowTypeOK'
    BY <1>2 DEF WindowTypeOK, Resume, TakeSpace
  <2>2. Books'
    BY <1>2 DEF WindowTypeOK, Books, Resume, TakeSpace
  <2>3. NoLostWakeup'
    BY <1>2 DEF WindowTypeOK, NoLostWakeup, Failed, Resume, TakeSpace
  <2> QED
    BY <2>1, <2>2, <2>3
<1>3. ASSUME NEW t \in Senders, WaitAgain(t) PROVE WindowInv'
  <2>1. WindowTypeOK'
    BY <1>3 DEF WindowTypeOK, WaitAgain
  <2>2. Books'
    BY <1>3 DEF Books, WaitAgain
  <2>3. NoLostWakeup'
    BY <1>3 DEF WindowTypeOK, NoLostWakeup, Failed, WaitAgain
  <2> QED
    BY <2>1, <2>2, <2>3
<1>4. ASSUME NEW i \in Demands, Increase(i) PROVE WindowInv'
  <2>1. Broadcast
    BY <1>4 DEF Increase, SetError
  <2>2. WindowTypeOK'
    <3>1. available' \in Int /\ peerWindow' \in Int
      BY <1>4 DEF WindowTypeOK, Increase
    <3>2. closed' \in BOOLEAN /\ err' \in Errors
      BY <1>4 DEF WindowTypeOK, Errors, Increase, SetError
    <3> QED
      BY <1>4, <2>1, <3>1, <3>2, BroadcastWakes DEF WindowTypeOK, Increase
  <2>3. Books'
    BY <1>4 DEF WindowTypeOK, Books, Increase, SetError
  <2>4. NoLostWakeup'
    BY <2>1, BroadcastWakes DEF NoLostWakeup
  <2> QED
    BY <2>2, <2>3, <2>4
<1>5. ASSUME NEW v \in InitialSizes, UpdateInitialWindowSize(v) PROVE WindowInv'
  <2>1. WindowTypeOK'
    BY <1>5, BroadcastWakes DEF WindowTypeOK, UpdateInitialWindowSize, NoBroadcast
  <2>2. Books'
    BY <1>5 DEF WindowTypeOK, Books, UpdateInitialWindowSize
  <2>3. NoLostWakeup'
    <3>1. CASE v - initialWindowSize > 0
      BY <1>5, <3>1, BroadcastWakes DEF NoLostWakeup, UpdateInitialWindowSize
    <3>2. CASE ~(v - initialWindowSize > 0)
      BY <1>5, <3>2 DEF WindowTypeOK, NoLostWakeup, Failed, UpdateInitialWindowSize, NoBroadcast
    <3> QED
      BY <3>1, <3>2
  <2> QED
    BY <2>1, <2>2, <2>3
<1>6. ASSUME NEW n \in Demands, Release(n) PROVE WindowInv'
  <2>1. Broadcast
    BY <1>6 DEF Release
  <2>2. WindowTypeOK'
    BY <1>6, <2>1, BroadcastWakes DEF WindowTypeOK, Release
  <2>3. Books'
    BY <1>6 DEF WindowTypeOK, Books, Release
  <2>4. NoLostWakeup'
    BY <2>1, BroadcastWakes DEF NoLostWakeup
  <2> QED
    BY <2>2, <2>3, <2>4
<1>7. ASSUME NEW n \in Demands, Transmit(n) PROVE WindowInv'
  <2>1. WindowTypeOK'
    BY <1>7 DEF WindowTypeOK, Transmit
  <2>2. Books'
    BY <1>7 DEF WindowTypeOK, Books, Transmit
  <2>3. NoLostWakeup'
    BY <1>7 DEF NoLostWakeup, Failed, Transmit
  <2> QED
    BY <2>1, <2>2, <2>3
<1>8. ASSUME Close PROVE WindowInv'
  <2>1. Broadcast
    BY <1>8 DEF Close
  <2>2. WindowTypeOK'
    BY <1>8, <2>1, BroadcastWakes DEF WindowTypeOK, Errors, Close
  <2>3. Books'
    BY <1>8 DEF WindowTypeOK, Books, Close
  <2>4. NoLostWakeup'
    BY <2>1, BroadcastWakes DEF NoLostWakeup
  <2> QED
    BY <2>2, <2>3, <2>4
<1>9. CASE UNCHANGED windowVars
  BY <1>9 DEF windowVars, WindowTypeOK, Books, NoLostWakeup, Failed
<1> QED
  BY <1>1, <1>2, <1>3, <1>4, <1>5, <1>6, <1>7, <1>8, <1>9 DEF WindowNext

LEMMA WindowInductive == WindowSpec => []WindowInv
  BY WindowInitInv, WindowNextInv, PTL DEF WindowSpec

\* The window's variables keep their types: in particular no call takes more than it
\* returns, and a goroutine waits exactly when it has a request.
THEOREM WindowTypes == WindowSpec => []WindowTypeOK
<1>1. WindowInv => WindowTypeOK
  BY DEF WindowInv
<1> QED
  BY <1>1, WindowInductive, PTL

\* We and the peer agree on the window after any sequence of calls.
THEOREM WindowConservation == WindowSpec => []Conservation
<1>1. WindowInv => Conservation
  BY DEF WindowInv, Books, Conservation
<1> QED
  BY <1>1, WindowInductive, PTL

\* No sender sleeps on a window that could serve it or that is closed.
THEOREM WindowNoLostWakeup == WindowSpec => []NoLostWakeup
<1>1. WindowInv => NoLostWakeup
  BY DEF WindowInv
<1> QED
  BY <1>1, WindowInductive, PTL

\* The window never leaves the range of RFC 7540 6.9 by more than the peer overran it.
THEOREM WindowRange == WindowSpec => []WindowInRange
<1>1. WindowInv => WindowInRange
  BY Constants DEF WindowInv, WindowTypeOK, Books, WindowInRange
<1> QED
  BY <1>1, WindowInductive, PTL

\* After Close or an overflow no call of Acquire succeeds any more.
THEOREM WindowNoGrantAfterClose == WindowSpec => NoGrantAfterClose
<1>1. WindowInv /\ [WindowNext]_windowVars => [closed => outstanding' <= outstanding
          /\ closed']_windowVars
  <2> SUFFICES ASSUME WindowInv, WindowNext, closed
               PROVE  outstanding' <= outstanding /\ closed'
    BY DEF NoGrantAfterClose
  <2> USE Constants DEF WindowInv, WindowTypeOK, Failed
  <2>1. ASSUME NEW t \in Senders, NEW n \in Demands, Acquire(t, n) PROVE FALSE
    BY <2>1 DEF Acquire
  <2>2. ASSUME NEW t \in Senders, Resume(t) \/ WaitAgain(t)
        PROVE  outstanding' <= outstanding /\ closed'
    BY <2>2 DEF Resume, WaitAgain
  <2>3. ASSUME NEW i \in Demands, Increase(i) PROVE FALSE
    BY <2>3 DEF Increase, Books
  <2>4. ASSUME NEW v \in InitialSizes, UpdateInitialWindowSize(v) PROVE FALSE
    BY <2>4 DEF UpdateInitialWindowSize
  <2>5. ASSUME NEW n \in Demands, Release(n) PROVE outstanding' <= outstanding /\ closed'
    <3>1. outstanding' = outstanding - n /\ n \in Nat /\ outstanding \in Nat
      BY <2>5 DEF Release
    <3>2. closed'
      BY <2>5, Zenon DEF Release
    <3> QED
      BY <3>1, <3>2
  <2>6. ASSUME NEW n \in Demands, Transmit(n) PROVE outstanding' <= outstanding /\ closed'
    <3>1. outstanding' = outstanding - n /\ n \in Nat /\ outstanding \in Nat
      BY <2>6 DEF Transmit
    <3>2. closed'
      BY <2>6, Zenon DEF Transmit
    <3> QED
      BY <3>1, <3>2
  <2> QED
    BY <2>1, <2>2, <2>3, <2>4, <2>5, <2>6 DEF WindowNext, Close
<1> QED
  BY <1>1, WindowInductive, PTL DEF WindowSpec, NoGrantAfterClose

\* Every step of the window is a step of the abstract credit counter or invisible in it.
\* (That waiting ends is liveness, which the model checker shows.)
THEOREM WindowRefinesCredit == WindowSpec => Credit!Init /\ [][Credit!Next]_(Credit!vars)
<1>1. WindowInit => Credit!Init
  BY Constants DEF WindowInit, Credit!Init
<1>2. WindowInv /\ [WindowNext]_windowVars => [Credit!Next]_(Credit!vars)
  <2> SUFFICES ASSUME WindowInv, [WindowNext]_windowVars PROVE [Credit!Next]_(Credit!vars)
    OBVIOUS
  <2> USE Constants DEF WindowInv, Books, WindowTypeOK, Failed
  <2>1. ASSUME NEW t \in Senders, NEW n \in Demands, Acquire(t, n) PROVE Credit!Next
    <3>1. Credit!Take(t, n) \/ Credit!Wait(t, n)
      BY <2>1 DEF Acquire, TakeSpace, Credit!Take, Credit!Wait
    <3> QED
      BY <3>1 DEF Credit!Next
  <2>2. ASSUME NEW t \in Senders, Resume(t) PROVE Credit!Next
    <3>1. Credit!Serve(t)
      BY <2>2 DEF Resume, TakeSpace, Credit!Serve
    <3> QED
      BY <3>1 DEF Credit!Next
  <2>3. ASSUME NEW t \in Senders, WaitAgain(t) PROVE UNCHANGED Credit!vars
    BY <2>3 DEF WaitAgain, Credit!vars
  <2>4. ASSUME NEW i \in Demands, Increase(i) PROVE Credit!Next
    <3>1. Credit!Adjust \/ Credit!Kill
      BY <2>4 DEF Increase, SetError, Credit!Adjust, Credit!Kill
    <3> QED
      BY <3>1 DEF Credit!Next
  <2>5. ASSUME NEW v \in InitialSizes, UpdateInitialWindowSize(v) PROVE Credit!Next
    <3>1. Credit!Adjust
      BY <2>5 DEF UpdateInitialWindowSize, Credit!Adjust
    <3> QED
      BY <3>1 DEF Credit!Next
  <2>6. ASSUME NEW n \in Demands, Release(n) PROVE Credit!Next
    <3>1. Credit!GiveBack(n)
      BY <2>6 DEF Release, Credit!GiveBack
    <3> QED
      BY <3>1 DEF Credit!Next
  <2>7. ASSUME NEW n \in Demands, Transmit(n) PROVE Credit!Next
    <3>1. Credit!Spend(n)
      BY <2>7 DEF Transmit, Credit!Spend
    <3> QED
      BY <3>1 DEF Credit!Next
  <2>8. ASSUME Close PROVE Credit!Next
    <3>1. Credit!Kill
      BY <2>8 DEF Close, Credit!Kill
    <3> QED
      BY <3>1 DEF Credit!Next
  <2>9. CASE UNCHANGED windowVars
    BY <2>9 DEF windowVars, Credit!vars
  <2> QED
    BY <2>1, <2>2, <2>3, <2>4, <2>5, <2>6, <2>7, <2>8, <2>9 DEF WindowNext
<1> QED
  BY <1>1, <1>2, WindowInductive, PTL DEF WindowSpec
=============================================================================

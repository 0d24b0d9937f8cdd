------------------------------- MODULE Frames -------------------------------
(***************************************************************************)
(* How the reader of a connection takes frames off the client's octets:    *)
(* ReadFrame, the ParsePayload of each frame type and WriteFrame           *)
(* (internal/http2/frame.go), in Serve's loop (conn.go), which looks at    *)
(* the size of a frame only when it has read it.                           *)
(* A payload is a number of octets.  Numbers are uint32 and wrap around    *)
(* at Word, as in the code.  What the handlers of a frame do is modelled   *)
(* in their own modules (ConnStreams, RequestBody, Handshake, ...); here   *)
(* they let the connection go on, or not.                                  *)
(***************************************************************************)
EXTENDS Integers

CONSTANTS
    Word,         \* 2^32
    Lengths,      \* payload lengths the client declares
    Pads,         \* values of an octet read as Pad Length
    MaxFrameSize  \* ourCurrentMaxFrameSize

ASSUME FramesAssumption ==
    /\ Word \in Nat /\ MaxFrameSize \in Nat
    /\ Lengths \subseteq Nat /\ Pads \subseteq Nat
    /\ \A n \in Lengths \cup Pads \cup {0} : n + 10 < Word

Sized == [RST_STREAM |-> 4, WINDOW_UPDATE |-> 4, PRIORITY |-> 5, PING |-> 8]
Types == DOMAIN Sized \cup
    {"DATA", "HEADERS", "PUSH_PROMISE", "CONTINUATION", "SETTINGS", "GOAWAY", "UNKNOWN"}
\* Stream 0, a stream that is open or half closed, or any other.
StreamKinds == {"zero", "active", "other"}
FlagsOf(type) ==
    CASE type = "HEADERS" -> {"PADDED", "PRIORITY", "END_HEADERS"}
      [] type \in {"DATA", "PUSH_PROMISE"} -> {"PADDED"}
      [] type = "CONTINUATION" -> {"END_HEADERS"}
      [] type = "SETTINGS" -> {"ACK"}
      [] OTHER -> {} \* a flag the frame does not know is ignored
FrameHeader == UNION {[type : {t}, stream : StreamKinds, flags : SUBSET FlagsOf(t),
                       length : Lengths] : t \in Types}

Padded(f) == "PADDED" \in f.flags
CarriesBlock(f) == f.type \in {"HEADERS", "CONTINUATION"}

VARIABLES
    reader,    \* what Serve is about to do
    frame,     \* the frame in hand
    arrived,   \* all of it is there to be read
    unread,    \* its octets that were not read; below 0 the reader is in the next frame
    rest,      \* payloadLen of ParsePayload
    padLength, \* f.PadLength
    size,      \* the data, block fragment or debug data, or the number of settings
    block,     \* activeHeaderBlockStreamID is not 0
    dropped    \* history: a fragment of a header block was dropped

parseVars == <<rest, padLength, size>>
connVars == <<block, dropped>>
framesVars == <<reader, frame, arrived, unread, parseVars, connVars>>

NoFrame == [type |-> "UNKNOWN", stream |-> "zero", flags |-> {}, length |-> 0]

FramesInit ==
    /\ reader = "header" /\ frame = NoFrame /\ arrived = TRUE /\ unread = 0
    /\ rest = 0 /\ padLength = 0 /\ size = 0
    /\ block = FALSE /\ dropped = FALSE

Minus(a, b) == IF a >= b THEN a - b ELSE a + Word - b
Wrapped(a) == IF a >= Word THEN a - Word ELSE a
----------------------------------------------------------------------------
(* WriteFrame.                                                              *)

\* What stands before the data: the priority, the promised stream, all of a frame of
\* a fixed size, the fixed part of GOAWAY.
Fields(f) ==
    CASE f.type \in DOMAIN Sized -> Sized[f.type]
      [] "PRIORITY" \in f.flags -> 5
      [] f.type = "PUSH_PROMISE" -> 4
      [] f.type = "GOAWAY" -> 8
      [] OTHER -> 0

\* PayloadLen of a frame of the type and flags of f.
PayloadLen(f, pad, data) ==
    IF f.type = "SETTINGS"
    THEN IF "ACK" \in f.flags THEN 0 ELSE 6 * data
    ELSE Wrapped((IF Padded(f) THEN 1 + pad ELSE 0) + Fields(f) + data)
----------------------------------------------------------------------------
(* ReadFrame.                                                               *)

\* A PRIORITY frame of a wrong length on a stream is a stream error, which is found
\* before its payload is read.
SkipsPayload(f) == f.type = "PRIORITY" /\ f.length # 5 /\ f.stream # "zero"

\* The connection errors which the header of a frame shows.
RefusedByHeader(f) ==
    \/ f.type \in {"DATA", "PUSH_PROMISE", "CONTINUATION"} /\ f.stream = "zero"
    \/ f.type = "DATA" /\ Padded(f) /\ f.length = 0
    \/ f.type \in DOMAIN Sized /\ f.length # Sized[f.type]
    \/ f.type = "SETTINGS" /\ (f.length % 6 # 0 \/ ("ACK" \in f.flags /\ f.length # 0))
    \/ f.type = "GOAWAY" /\ f.length < 8

\* A stream error found in the header is answered with RST_STREAM, unless that fails.
AfterHeader(f) ==
    CASE SkipsPayload(f) -> {"header", "over"}
      [] RefusedByHeader(f) /\ ~ SkipsPayload(f) -> {"over"}
      [] OTHER -> {IF Padded(f) THEN "pad" ELSE "fields"}

\* The client starts a frame; its octets come when they come.
ReadHeader ==
    /\ reader = "header" /\ unread = 0
    /\ \E f \in FrameHeader :
        /\ frame' = f /\ unread' = f.length /\ rest' = f.length
        /\ reader' \in AfterHeader(f)
    /\ arrived' = FALSE /\ padLength' = 0 /\ size' = 0
    /\ UNCHANGED connVars

Arrives == ~ arrived /\ arrived' = TRUE
           /\ UNCHANGED <<reader, frame, unread, parseVars, connVars>>

\* io.ReadFull of n octets.  What is beyond this frame is in frames that follow it,
\* if the client sends them.
Consume(n) == (arrived \/ n = 0) /\ unread' = unread - n

\* Mutation of TooMuchPadding: the check of DATA forgets the octet of the length itself.
TooMuchPaddingByOne(f, pad, left) ==
    IF f.type = "DATA" THEN pad > f.length ELSE pad > left

TooMuchPadding(f, pad, left) ==
    IF f.type = "DATA" THEN pad + 1 > f.length ELSE pad > left

\* The Pad Length may be any octet; it is one of the next frame if this one is empty.
ReadPadLength ==
    /\ reader = "pad" /\ Consume(1)
    /\ padLength' \in Pads
    /\ rest' = Minus(rest, 1)
    /\ reader' = IF TooMuchPadding(frame, padLength', rest') THEN "over" ELSE "fields"
    /\ UNCHANGED <<frame, arrived, size, connVars>>

ReadFields ==
    /\ reader = "fields"
    /\ \/ rest < Fields(frame) /\ reader' = "over" /\ UNCHANGED <<unread, rest>>
       \/ rest >= Fields(frame) /\ reader' = "data" /\ Consume(Fields(frame))
          /\ rest' = rest - Fields(frame)
    /\ UNCHANGED <<frame, arrived, padLength, size, connVars>>

\* Mutation of DataLength: the padding is read as data, too.
PaddedDataLength == rest

DataLength == IF Padded(frame) THEN Minus(rest, padLength) ELSE rest

ReadData ==
    /\ reader = "data" /\ Consume(DataLength)
    /\ size' = IF frame.type = "SETTINGS" THEN DataLength \div 6 ELSE DataLength
    /\ reader' = IF Padded(frame) THEN "padding" ELSE "parsed"
    /\ UNCHANGED <<frame, arrived, rest, padLength, connVars>>

\* HEADERS and PUSH_PROMISE compare what was read with the length declared, modulo Word.
ReadPadding ==
    /\ reader = "padding" /\ Consume(padLength)
    /\ reader' = IF frame.type # "DATA" /\ PayloadLen(frame, padLength, size) # frame.length
                 THEN "over" ELSE "parsed"
    /\ UNCHANGED <<frame, arrived, parseVars, connVars>>
----------------------------------------------------------------------------
(* Serve.                                                                   *)

Oversized(f) == f.length > MaxFrameSize

\* An oversized frame of a stream in use costs the stream, not the connection.
CostsTheStream(f) ==
    (f.type = "DATA" \/ CarriesBlock(f)) /\ f.stream = "active"

RejectSize ==
    /\ reader = "parsed" /\ Oversized(frame)
    /\ \/ CostsTheStream(frame) /\ reader' = "header"
          /\ dropped' = (dropped \/ CarriesBlock(frame))
       \/ reader' = "over" /\ UNCHANGED dropped
    /\ UNCHANGED <<frame, arrived, unread, parseVars, block>>

\* The handler of the frame, and RST_STREAM for the stream error it may return.  An
\* error that costs the connection is possible in each of them.
DispatchFrame ==
    /\ reader = "parsed" /\ ~ Oversized(frame)
    /\ \/ /\ block => frame.type = "CONTINUATION"
          /\ frame.type = "CONTINUATION" => block
          /\ frame.type # "PUSH_PROMISE"
          /\ reader' = "header"
          /\ block' = IF CarriesBlock(frame) THEN "END_HEADERS" \notin frame.flags ELSE block
       \/ frame.type # "UNKNOWN" /\ reader' = "over" /\ UNCHANGED block
       \/ block /\ reader' = "over" /\ UNCHANGED block
    /\ UNCHANGED <<frame, arrived, unread, parseVars, dropped>>

\* The connection is closed, by either side.
ConnectionEnds ==
    /\ reader # "over" /\ reader' = "over"
    /\ UNCHANGED <<frame, arrived, unread, parseVars, connVars>>
----------------------------------------------------------------------------
Parse == ReadPadLength \/ ReadFields \/ ReadData \/ ReadPadding
Serve == RejectSize \/ DispatchFrame
FramesNext == ReadHeader \/ Arrives \/ Parse \/ Serve \/ ConnectionEnds

\* The goroutine of Serve runs while what it reads is there.  The client owes nobody
\* the rest of a frame, or a frame after this one.
FramesFairness ==
    /\ WF_framesVars(Parse /\ unread' >= 0)
    /\ WF_framesVars(Serve)

FramesSpec == FramesInit /\ [][FramesNext]_framesVars /\ FramesFairness
----------------------------------------------------------------------------
FramesTypeOK ==
    /\ reader \in {"header", "pad", "fields", "data", "padding", "parsed", "over"}
    /\ frame \in FrameHeader \cup {NoFrame}
    /\ arrived \in BOOLEAN /\ unread \in Int
    /\ rest \in 0 .. Word - 1 /\ padLength \in Pads \cup {0} /\ size \in 0 .. Word - 1
    /\ block \in BOOLEAN /\ dropped \in BOOLEAN

\* What the checks of ParsePayload let through: a PRIORITY frame whose payload nobody
\* reads, a padded block without its Pad Length, and padding that needs the place of the
\* fields before the block.
Misread(f, pad) ==
    \/ SkipsPayload(f)
    \/ /\ f.type \in {"HEADERS", "PUSH_PROMISE"} /\ Padded(f)
       /\ \/ f.length = 0
          \/ pad < f.length /\ f.length \in 1 + Fields(f) .. pad + Fields(f)

\* Frames stay apart: whatever the client sends, and wherever padding, priority fields
\* and fixed parts stand, a frame that is handed on was read to its last octet and no
\* further, it is what would be written with this length, and the next header is read
\* where the next frame begins.  (The frames for which this fails are those of Misread,
\* see FramesReadWhole.)
FramesKeptApart ==
    ~ Misread(frame, padLength) =>
        /\ reader \in {"header", "parsed"} => unread = 0
        /\ reader = "parsed" => PayloadLen(frame, padLength, size) = frame.length

\* The reader never waits for octets that are not in the frame: a frame that has arrived
\* is handed on or refused, without the client having to send anything else.
FrameIsAnswered ==
    (reader \notin {"header", "over"} /\ arrived /\ ~ Misread(frame, padLength))
        ~> (reader \in {"header", "over"} \/ Misread(frame, padLength))

\* frame.go:946 "ReadFrame reads a full HTTP/2 frame from the reader."  Not so for the
\* frames of Misread.
FramesReadWhole == reader = "header" => unread = 0

\* spec/spec_1-4_basics.txt:125: a frame size error in a frame that carries a field block
\* is a connection error.  Here the stream is reset and the fragment is dropped.
BlocksArriveWhole == ~ dropped
=============================================================================

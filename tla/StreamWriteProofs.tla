------------------------- MODULE StreamWriteProofs --------------------------
(***************************************************************************)
(* The credit of flow control on its way (module StreamWrite), for any     *)
(* number of streams and any sizes of windows, bodies, frames and queues.  *)
(* One inductive invariant carries the theorems: the account of every      *)
(* window (CreditAddsUp) holds because of what a handler may hold at each  *)
(* place of its loop (Loop), and the bounds it yields (Within), together   *)
(* with the order of the frames of a response (Whole, LateReset), say that *)
(* no window is overrun and no response is cut.                            *)
(***************************************************************************)
EXTENDS StreamWrite, SumLemmas, TLAPS

-----------------------------------------------------------------------------
(* The inductive invariant.                                                *)

\* The frames of the writer's queue and of the client's wire.
OutFrames ==
    [kind : {"DATA"}, stream : Streams, n : Nat, end : BOOLEAN]
      \union [kind : {"RST"}, stream : Streams] \union [kind : {"ACK"}]
WireFrames ==
    [kind : {"WINDOW_UPDATE"}, scope : Scopes, n : Nat]
      \union [kind : {"SETTINGS"}, value : InitialSizes] \union [kind : {"RST"}, stream : Resetting]

Places == {"loop", "one", "all", "more", "rest", "conn", "send", "record", "done", "failed"}

\* The types of the variables, with the frames that can be in the queues.
Types ==
    /\ body \in [Streams -> Nat]
    /\ sendWindow \in [Scopes -> Int] /\ base \in [Streams -> InitialSizes]
    /\ state \in [Streams -> {"open", "halfClosedLocal", "halfClosedRemote", "closed"}]
    /\ table \subseteq Streams
    /\ writer \in [Streams -> [pc : Places, todo : Nat, want : Nat, held : Nat]]
    /\ out \in Seq(OutFrames) /\ wire \in Seq(WireFrames)
    /\ Len(out) <= WriterCapacity /\ Len(wire) <= WireCapacity
    /\ rd \in [pc : {"read", "reset"}, left : SUBSET Streams]
               \union [pc : {"visit"}, left : SUBSET Streams, value : InitialSizes]
    /\ alive \in BOOLEAN /\ announced \in InitialSizes /\ settings \in 0 .. SettingsBound
    /\ owed \in [Scopes -> Nat] /\ got \in [Streams -> Nat]
    /\ seen \in [Streams -> {"open", "ended", "reset"}]

\* What a handler asks for and holds at each point of the loop.
Loop ==
    \A s \in Streams :
        /\ writer[s].pc \in {"loop", "one", "all", "done", "failed"} => writer[s].held = 0
        /\ writer[s].pc \in {"one", "all"} => writer[s].want <= Ideal(s)
        /\ writer[s].pc = "one" => writer[s].want = 1
        /\ writer[s].pc = "more" => writer[s].held = 1 /\ Ideal(s) > 1
        /\ writer[s].pc = "rest" => writer[s].held = 1 /\ writer[s].want + 1 <= Ideal(s)
        /\ writer[s].pc \in {"conn", "send", "record"} => writer[s].held <= Ideal(s)
        /\ writer[s].pc = "done" => writer[s].todo = 0
        /\ writer[s].pc \notin {"one", "all", "rest"} => writer[s].want = 0

\* A connection that has failed has closed its streams; another stream is closed in the
\* table only once its response has been queued to the end.
Closing ==
    /\ ~alive => \A s \in Streams : Closed(s)
    /\ alive /\ rd.pc # "read" => rd.left \subseteq table
    /\ \A s \in Streams \ table : Closed(s)
    /\ \A s \in table : alive /\ Closed(s) => writer[s].pc = "done"
    /\ alive /\ rd.pc = "reset" => rd.left # {} /\ \A s \in rd.left : writer[s].pc = "done"

\* No more is out than the client announced: of the connection's window, or of the
\* largest initial size there is.
Within ==
    /\ sendWindow[Connection] >= 0
    /\ owed[Connection] + Flying(Connection) <= ConnWindow
    /\ \A s \in Streams :
         HeldOf(s) + Flying(s) + Returning(s) + owed[s] <= Max(InitialSizes)

IsData(f, s) == f.kind = "DATA" /\ f.stream = s
IsEnd(f, s) == IsData(f, s) /\ f.end
Ended(s) ==
    \/ writer[s].pc = "done"
    \/ writer[s].pc = "record" /\ writer[s].held = writer[s].todo
EndOut(s) == \E i \in DOMAIN out : IsEnd(out[i], s)

\* The bytes of a response: none is lost, the frame with END_STREAM is the last one.
Whole ==
    \A s \in Streams :
        /\ body[s] = got[s] + Flying(s) + writer[s].todo
                       - (IF writer[s].pc = "record" THEN writer[s].held ELSE 0)
        /\ writer[s].pc = "record" => writer[s].held <= got[s] + Flying(s)
        /\ EndOut(s) \/ seen[s] = "ended" => Ended(s)
        /\ Ended(s) => EndOut(s) \/ seen[s] # "open"
        /\ \A i, j \in DOMAIN out : i < j /\ IsEnd(out[i], s) => ~ IsData(out[j], s)
        /\ seen[s] = "ended" => \A i \in DOMAIN out : ~ IsData(out[i], s)
        /\ seen[s] = "reset" => s \in Resetting

\* An RST_STREAM of ours stands behind the end of the response.
LateReset ==
    \A i \in DOMAIN out : out[i].kind = "RST" =>
        \/ seen[out[i].stream] # "open"
        \/ \E j \in DOMAIN out : j < i /\ IsEnd(out[j], out[i].stream)

IInv == Types /\ Loop /\ Closing /\ CreditAddsUp /\ Within /\ Whole /\ LateReset

-----------------------------------------------------------------------------
(* The sums.                                                               *)

\* Sums over the two queues: what a frame is worth, and what a frame more or less does.
LEMMA BytesType ==
    ASSUME NEW f \in OutFrames, NEW x \in Scopes PROVE Bytes(f, x) \in Nat
  BY DEF OutFrames, Bytes

LEMMA IncrementType ==
    ASSUME NEW f \in WireFrames, NEW x \in Scopes PROVE Increment(f, x) \in Nat
  BY DEF WireFrames, Increment

LEMMA FlyingType ==
    ASSUME out \in Seq(OutFrames), NEW x \in Scopes PROVE Flying(x) \in Nat
  <1> DEFINE F == [i \in DOMAIN out |-> Bytes(out[i], x)]
  <1>1. DOMAIN F = 1 .. Len(out) /\ Len(out) \in Nat  OBVIOUS
  <1>2. \A i \in 1 .. Len(out) : F[i] \in Nat  BY BytesType
  <1>3. IsFiniteSet(1 .. Len(out))  BY <1>1, FS_Interval
  <1>4. Flying(x) = SumFunctionOnSet(F, 1 .. Len(out))
    BY <1>1 DEF Flying, SumFunction
  <1> HIDE DEF F
  <1> QED  BY <1>2, <1>3, <1>4, SumNat

\* A frame that is queued flies.
LEMMA FlyingMore ==
    ASSUME out \in Seq(OutFrames), NEW f \in OutFrames, out' = Append(out, f), NEW x \in Scopes
    PROVE  Flying(x)' = Flying(x) + Bytes(f, x)
  <1> DEFINE F == [i \in DOMAIN out |-> Bytes(out[i], x)]
             G == [i \in DOMAIN out' |-> Bytes(out'[i], x)]
             n == Len(out)
  <1>1. n \in Nat /\ DOMAIN F = 1 .. n /\ DOMAIN G = 1 .. n + 1  OBVIOUS
  <1>2. \A i \in 1 .. n : F[i] \in Int /\ G[i] = F[i]
    BY BytesType
  <1>3. G[n + 1] = Bytes(f, x) /\ G[n + 1] \in Int  BY BytesType
  <1>4. Flying(x) = SumFunctionOnSet(F, 1 .. n)  BY <1>1 DEF Flying, SumFunction
  <1>5. Flying(x)' = SumFunctionOnSet(G, 1 .. n + 1)  BY <1>1 DEF Flying, SumFunction
  <1> HIDE DEF F, G, n
  <1> QED  BY <1>1, <1>2, <1>3, <1>4, <1>5, SumLonger

\* A frame that leaves the queue does not fly any more.
LEMMA FlyingLess ==
    ASSUME out \in Seq(OutFrames), out # <<>>, out' = Tail(out), NEW x \in Scopes
    PROVE  Flying(x)' = Flying(x) - Bytes(Head(out), x)
  <1> DEFINE F == [i \in DOMAIN out |-> Bytes(out[i], x)]
             G == [i \in DOMAIN out' |-> Bytes(out'[i], x)]
             n == Len(out)
  <1>1. n \in Nat /\ n > 0 /\ DOMAIN F = 1 .. n /\ DOMAIN G = 1 .. n - 1  OBVIOUS
  <1>2. \A i \in 1 .. n : F[i] \in Int
    BY BytesType
  <1>3. \A i \in 1 .. n - 1 : G[i] = F[i + 1]  OBVIOUS
  <1>4. Flying(x) = SumFunctionOnSet(F, 1 .. n)  BY <1>1 DEF Flying, SumFunction
  <1>5. Flying(x)' = SumFunctionOnSet(G, 1 .. n - 1)  BY <1>1 DEF Flying, SumFunction
  <1>6. F[1] = Bytes(Head(out), x)  BY <1>1
  <1> HIDE DEF F, G, n
  <1>7. SumFunctionOnSet(G, 1 .. n - 1) = SumFunctionOnSet(F, 1 .. n) - F[1]
    BY <1>1, <1>2, <1>3, SumShorter
  <1> QED  BY <1>4, <1>5, <1>6, <1>7

LEMMA ReturningType ==
    ASSUME wire \in Seq(WireFrames), NEW x \in Scopes PROVE Returning(x) \in Nat
  <1> DEFINE F == [i \in DOMAIN wire |-> Increment(wire[i], x)]
  <1>1. DOMAIN F = 1 .. Len(wire) /\ Len(wire) \in Nat  OBVIOUS
  <1>2. \A i \in 1 .. Len(wire) : F[i] \in Nat  BY IncrementType
  <1>3. IsFiniteSet(1 .. Len(wire))  BY <1>1, FS_Interval
  <1>4. Returning(x) = SumFunctionOnSet(F, 1 .. Len(wire))
    BY <1>1 DEF Returning, SumFunction
  <1> HIDE DEF F
  <1> QED  BY <1>2, <1>3, <1>4, SumNat

\* A WINDOW_UPDATE that the client sends is on its way back.
LEMMA ReturningMore ==
    ASSUME wire \in Seq(WireFrames), NEW f \in WireFrames, wire' = Append(wire, f), NEW x \in Scopes
    PROVE  Returning(x)' = Returning(x) + Increment(f, x)
  <1> DEFINE F == [i \in DOMAIN wire |-> Increment(wire[i], x)]
             G == [i \in DOMAIN wire' |-> Increment(wire'[i], x)]
             n == Len(wire)
  <1>1. n \in Nat /\ DOMAIN F = 1 .. n /\ DOMAIN G = 1 .. n + 1  OBVIOUS
  <1>2. \A i \in 1 .. n : F[i] \in Int /\ G[i] = F[i]
    BY IncrementType
  <1>3. G[n + 1] = Increment(f, x) /\ G[n + 1] \in Int  BY IncrementType
  <1>4. Returning(x) = SumFunctionOnSet(F, 1 .. n)  BY <1>1 DEF Returning, SumFunction
  <1>5. Returning(x)' = SumFunctionOnSet(G, 1 .. n + 1)  BY <1>1 DEF Returning, SumFunction
  <1> HIDE DEF F, G, n
  <1> QED  BY <1>1, <1>2, <1>3, <1>4, <1>5, SumLonger

\* A frame that is taken from the wire is not on its way any more.
LEMMA ReturningLess ==
    ASSUME wire \in Seq(WireFrames), wire # <<>>, wire' = Tail(wire), NEW x \in Scopes
    PROVE  Returning(x)' = Returning(x) - Increment(Head(wire), x)
  <1> DEFINE F == [i \in DOMAIN wire |-> Increment(wire[i], x)]
             G == [i \in DOMAIN wire' |-> Increment(wire'[i], x)]
             n == Len(wire)
  <1>1. n \in Nat /\ n > 0 /\ DOMAIN F = 1 .. n /\ DOMAIN G = 1 .. n - 1  OBVIOUS
  <1>2. \A i \in 1 .. n : F[i] \in Int
    BY IncrementType
  <1>3. \A i \in 1 .. n - 1 : G[i] = F[i + 1]  OBVIOUS
  <1>4. Returning(x) = SumFunctionOnSet(F, 1 .. n)  BY <1>1 DEF Returning, SumFunction
  <1>5. Returning(x)' = SumFunctionOnSet(G, 1 .. n - 1)  BY <1>1 DEF Returning, SumFunction
  <1>6. F[1] = Increment(Head(wire), x)  BY <1>1
  <1> HIDE DEF F, G, n
  <1>7. SumFunctionOnSet(G, 1 .. n - 1) = SumFunctionOnSet(F, 1 .. n) - F[1]
    BY <1>1, <1>2, <1>3, SumShorter
  <1> QED  BY <1>4, <1>5, <1>6, <1>7

\* The sums read nothing but their own variable.
LEMMA SumsStay ==
    ASSUME NEW x
    PROVE  /\ UNCHANGED out => Flying(x)' = Flying(x)
           /\ UNCHANGED wire => Returning(x)' = Returning(x)
           /\ UNCHANGED writer => Held(x)' = Held(x)
  BY DEF Flying, Returning, Held, HeldOf, HeldOfBoth

\* What a handler's place in its loop can be.
Writers == [Streams -> [pc : Places, todo : Nat, want : Nat, held : Nat]]

\* What the handlers hold of the connection's window is at least what one of them holds.
LEMMA HeldType ==
    ASSUME WriteAssumption, writer \in Writers
    PROVE  /\ \A t \in Streams : HeldOf(t) \in Nat /\ HeldOfBoth(t) \in Nat
           /\ \A t \in Streams : HeldOfBoth(t) <= Held(Connection)
           /\ Held(Connection) \in Nat
  <1> DEFINE F == [s \in Streams |-> HeldOfBoth(s)]
  <1>1. \A t \in Streams : HeldOf(t) \in Nat /\ HeldOfBoth(t) \in Nat
    BY DEF Writers, HeldOf, HeldOfBoth
  <1>2. Held(Connection) = SumFunctionOnSet(F, Streams)
    BY DEF Held, SumFunction
  <1>3. \A t \in Streams : F[t] \in Nat /\ F[t] = HeldOfBoth(t)  BY <1>1
  <1>4. IsFiniteSet(Streams)  BY DEF WriteAssumption
  <1> HIDE DEF F
  <1>5. SumFunctionOnSet(F, Streams) \in Nat
    BY <1>3, <1>4, SumNat
  <1>6. \A t \in Streams : F[t] <= SumFunctionOnSet(F, Streams)
    BY <1>3, <1>4, SumAtLeast
  <1> QED  BY <1>1, <1>2, <1>3, <1>5, <1>6

\* One handler moves: the connection's sum changes by what it took or let go.
LEMMA HeldChange ==
    ASSUME WriteAssumption, writer \in Writers, writer' \in Writers, NEW s \in Streams,
           \A t \in Streams : t # s => writer'[t] = writer[t]
    PROVE  Held(Connection)' = Held(Connection) - HeldOfBoth(s) + HeldOfBoth(s)'
  <1> DEFINE F == [t \in Streams |-> HeldOfBoth(t)]
             G == [t \in Streams |-> HeldOfBoth(t)']
  <1>1. \A t \in Streams : F[t] \in Int /\ G[t] \in Int
    BY DEF Writers, HeldOfBoth
  <1>2. \A t \in Streams : t # s => G[t] = F[t]
    BY DEF HeldOfBoth
  <1>3. IsFiniteSet(Streams)  BY DEF WriteAssumption
  <1>4. Held(Connection) = SumFunctionOnSet(F, Streams)
    BY DEF Held, SumFunction
  <1>5. Held(Connection)' = SumFunctionOnSet(G, Streams)
    BY DEF Held, SumFunction
  <1>6. F[s] = HeldOfBoth(s) /\ G[s] = HeldOfBoth(s)'  OBVIOUS
  <1> HIDE DEF F, G
  <1>7. SumFunctionOnSet(G, Streams) = SumFunctionOnSet(F, Streams) - F[s] + G[s]
    BY <1>1, <1>2, <1>3, SumChange
  <1> QED  BY <1>4, <1>5, <1>6, <1>7

\* The largest initial size that Within speaks of exists.
LEMMA LargestSize ==
    ASSUME WriteAssumption
    PROVE  Max(InitialSizes) \in Nat /\ \A v \in InitialSizes : v <= Max(InitialSizes)
  <1>1. /\ InitialSizes # {} /\ IsFiniteSet(InitialSizes)
        /\ \A v \in InitialSizes : v \in Nat
    BY DEF WriteAssumption
  <1>2. \E x \in InitialSizes : \A y \in InitialSizes : x >= y
    BY <1>1, LargestElement
  <1> QED  BY <1>1, <1>2 DEF Max

-----------------------------------------------------------------------------
(* Handlers.                                                               *)

\* A handler moves between the points of its loop without touching frames or states.
LEMMA HandlerMoves ==
    ASSUME WriteAssumption, IInv, NEW s \in Streams,
           UNCHANGED <<body, base, state, table, out, wire, rd, alive, announced, settings,
                       owed, got, seen>>,
           writer[s].pc \notin {"record", "done"},
           NEW p \in Places \ {"record", "done"}, NEW w \in Nat, NEW h \in Nat,
           Goto(s, p, w, h),
           p \in {"loop", "one", "all", "failed"} => h = 0,
           p \in {"one", "all"} => w <= Ideal(s),
           p = "one" => w = 1, p \notin {"one", "all", "rest"} => w = 0,
           p = "more" => h = 1 /\ Ideal(s) > 1,
           p = "rest" => h = 1 /\ w + 1 <= Ideal(s),
           p \in {"conn", "send"} => h <= Ideal(s),
           sendWindow' \in [Scopes -> Int],
           \A t \in Streams : t # s => sendWindow'[t] = sendWindow[t],
           ~ Closed(s) => sendWindow'[s] + h = sendWindow[s] + writer[s].held,
           alive => sendWindow'[Connection] + (IF p = "send" THEN h ELSE 0)
                      = sendWindow[Connection] + HeldOfBoth(s),
           sendWindow'[Connection] >= 0,
           h <= writer[s].held \/ (~ Closed(s) /\ sendWindow'[s] >= 0)
    PROVE  IInv'
  <1>1. writer \in Writers /\ writer[s] \in [pc : Places, todo : Nat, want : Nat, held : Nat]
    BY DEF IInv, Types, Writers
  <1>2. /\ writer' = [writer EXCEPT ![s] = writer'[s]]
        /\ \A t \in Streams : t # s => writer'[t] = writer[t]
        /\ writer'[s].pc = p /\ writer'[s].todo = writer[s].todo
        /\ writer'[s].want = w /\ writer'[s].held = h
        /\ writer' \in Writers
    BY <1>1 DEF Goto, Writers
  <1>3. Types'
    BY <1>2 DEF IInv, Types, Writers
  <1>4. Loop'
    <2>1. \A t \in Streams : Ideal(t)' = Ideal(t)
      BY <1>2 DEF Ideal
    <2> QED  BY <1>2, <2>1 DEF IInv, Loop
  <1>5. Closing'
    <2>1. \A t \in Streams : writer'[t].pc = "done" <=> writer[t].pc = "done"
      BY <1>2
    <2>2. \A t : Closed(t)' <=> Closed(t)
      BY DEF Closed
    <2>3. table \subseteq Streams /\ rd.left \subseteq Streams
      BY DEF IInv, Types
    <2>4. rd' = rd /\ table' = table /\ alive' = alive
      OBVIOUS
    <2> QED  BY <2>1, <2>2, <2>3, <2>4 DEF IInv, Closing
  <1>6. /\ \A x : Flying(x)' = Flying(x) /\ Returning(x)' = Returning(x)
        /\ Held(Connection)' = Held(Connection) - HeldOfBoth(s) + (IF p = "send" THEN h ELSE 0)
        /\ HeldOf(s)' = h /\ HeldOf(s) = writer[s].held
        /\ \A t \in Streams : t # s => HeldOf(t)' = HeldOf(t)
        /\ \A t \in Streams : Held(t)' = HeldOf(t)' /\ Held(t) = HeldOf(t)
    <2>1. HeldOfBoth(s)' = (IF p = "send" THEN h ELSE 0)  BY <1>2 DEF HeldOfBoth
    <2>2. Held(Connection)' = Held(Connection) - HeldOfBoth(s) + HeldOfBoth(s)'
      BY <1>1, <1>2, HeldChange
    <2> QED  BY <1>1, <1>2, <2>1, <2>2, SumsStay DEF HeldOf, Held, WriteAssumption
  <1>7. /\ Held(Connection) \in Nat /\ HeldOfBoth(s) \in Nat
        /\ \A t \in Streams : HeldOf(t) \in Nat
        /\ \A x \in Scopes : Flying(x) \in Nat /\ Returning(x) \in Nat
        /\ Connection \in Scopes /\ Streams \subseteq Scopes
    BY <1>1, HeldType, FlyingType, ReturningType DEF IInv, Types, Scopes
  <1>8. CreditAddsUp'
    <2>1. ASSUME alive'
          PROVE  sendWindow'[Connection] + Held(Connection)' + Flying(Connection)'
                   + Returning(Connection)' + owed'[Connection] = ConnWindow
      <3>1. sendWindow[Connection] + Held(Connection) + Flying(Connection)
              + Returning(Connection) + owed[Connection] = ConnWindow
        BY <2>1 DEF IInv, CreditAddsUp
      <3>2. sendWindow[Connection] \in Int /\ sendWindow'[Connection] \in Int /\ owed[Connection] \in Nat
        BY <1>7 DEF IInv, Types
      <3> QED  BY <1>6, <1>7, <2>1, <3>1, <3>2
    <2>2. ASSUME NEW t \in Streams, ~ Closed(t)'
          PROVE  sendWindow'[t] + Held(t)' + Flying(t)' + Returning(t)' + owed'[t] = base'[t]
      <3>1. ~ Closed(t)  BY <2>2 DEF Closed
      <3>2. sendWindow[t] + Held(t) + Flying(t) + Returning(t) + owed[t] = base[t]
        BY <3>1 DEF IInv, CreditAddsUp
      <3>3. sendWindow[t] \in Int /\ sendWindow'[t] \in Int /\ owed[t] \in Nat /\ t \in Scopes
        BY <1>7 DEF IInv, Types
      <3> QED  BY <1>6, <1>7, <3>1, <3>2, <3>3, <1>1 DEF Writers
    <2> QED  BY <2>1, <2>2 DEF CreditAddsUp
  <1>9. Within'
    <2>1. ASSUME NEW t \in Streams
          PROVE  HeldOf(t)' + Flying(t)' + Returning(t)' + owed'[t] <= Max(InitialSizes)
      <3>1. HeldOf(t) + Flying(t) + Returning(t) + owed[t] <= Max(InitialSizes)
        BY DEF IInv, Within
      <3>2. /\ Max(InitialSizes) \in Nat /\ \A v \in InitialSizes : v <= Max(InitialSizes)
            /\ owed[t] \in Nat /\ owed' = owed /\ HeldOf(t)' \in Nat /\ HeldOf(t) \in Nat
            /\ Flying(t) \in Nat /\ Returning(t) \in Nat
        BY <1>6, <1>7, LargestSize DEF IInv, Types
      <3>3. CASE HeldOf(t)' <= HeldOf(t)
        BY <1>6, <3>1, <3>2, <3>3
      <3>4. CASE t = s /\ ~ Closed(s) /\ sendWindow'[s] >= 0
        <4>1. sendWindow'[t] + Held(t)' + Flying(t)' + Returning(t)' + owed'[t] = base'[t]
          BY <1>8, <3>4 DEF CreditAddsUp, Closed
        <4>2. base'[t] \in InitialSizes /\ sendWindow'[t] \in Int /\ base'[t] \in Nat
          BY <1>3, <1>7 DEF Types, WriteAssumption
        <4> QED  BY <1>6, <3>2, <3>4, <4>1, <4>2
      <3> QED  BY <1>6, <1>7, <3>3, <3>4
    <2> QED  BY <1>6, <2>1 DEF IInv, Within
  <1>10. Whole'
    <2>1. /\ EndOut(s)' = EndOut(s) /\ \A t \in Streams : EndOut(t)' = EndOut(t)
          /\ \A t \in Streams : Ended(t)' = Ended(t)
      BY <1>1, <1>2 DEF EndOut, Ended
    <2> QED  BY <1>2, <1>6, <2>1 DEF IInv, Whole
  <1>11. LateReset'
    BY DEF IInv, LateReset
  <1> QED  BY <1>3, <1>4, <1>5, <1>8, <1>9, <1>10, <1>11 DEF IInv

\* What the invariant says of one handler.
LEMMA WriterFacts ==
    ASSUME WriteAssumption, IInv, NEW s \in Streams
    PROVE  /\ writer[s].pc \in Places /\ writer[s].todo \in Nat
           /\ writer[s].want \in Nat /\ writer[s].held \in Nat
           /\ sendWindow \in [Scopes -> Int] /\ sendWindow[s] \in Int
           /\ sendWindow[Connection] \in Int /\ sendWindow[Connection] >= 0
           /\ Connection \in Scopes /\ s \in Scopes /\ s # Connection
           /\ MaxFrameSize \in Nat \ {0}
           /\ Ideal(s) \in Nat /\ Ideal(s) <= writer[s].todo
           /\ writer[s].todo > 0 => Ideal(s) > 0
  BY DEF IInv, Types, Within, Scopes, WriteAssumption, Ideal, Smaller

\* The steps of a handler's loop.
LEMMA BeginInv ==
    ASSUME WriteAssumption, IInv, NEW s \in Streams, Begin(s) PROVE IInv'
  <1>1. /\ writer[s].pc = "loop" /\ writer[s].held = 0
        /\ UNCHANGED <<body, base, state, table, out, wire, rd, alive, announced, settings,
                       owed, got, seen>>
        /\ sendWindow' = sendWindow /\ HeldOfBoth(s) = 0
    BY DEF Begin, streamVars, clientVars, IInv, Loop, HeldOfBoth
  <1>2. CASE Goto(s, "failed", 0, 0)
    BY <1>1, <1>2, WriterFacts, HandlerMoves DEF Places
  <1>3. CASE ~ Closed(s) /\ Goto(s, "send", 0, 0)
    BY <1>1, <1>3, WriterFacts, HandlerMoves DEF Places
  <1>4. CASE ~ Closed(s) /\ writer[s].todo > 0 /\ Goto(s, "one", 1, 0)
    BY <1>1, <1>4, WriterFacts, HandlerMoves DEF Places
  <1>5. CASE /\ ~ Closed(s) /\ sendWindow[s] > 0
             /\ Goto(s, "all", Smaller(Ideal(s), sendWindow[s]), 0)
    <2>1. Smaller(Ideal(s), sendWindow[s]) \in Nat /\ Smaller(Ideal(s), sendWindow[s]) <= Ideal(s)
      BY <1>5, WriterFacts DEF Smaller
    <2> QED  BY <1>1, <1>5, <2>1, WriterFacts, HandlerMoves DEF Places
  <1> QED  BY <1>2, <1>3, <1>4, <1>5, WriterFacts DEF Begin, Fail

LEMMA AcquireStreamInv ==
    ASSUME WriteAssumption, IInv, NEW s \in Streams, AcquireStream(s) PROVE IInv'
  <1>1. /\ writer[s].pc \in {"one", "all"} /\ writer[s].held = 0 /\ writer[s].want <= Ideal(s)
        /\ writer[s].pc = "one" => writer[s].want = 1
        /\ UNCHANGED <<body, base, state, table, out, wire, rd, alive, announced, settings,
                       owed, got, seen>>
        /\ HeldOfBoth(s) = 0
    BY DEF AcquireStream, streamVars, clientVars, IInv, Loop, HeldOfBoth
  <1>2. CASE Goto(s, "failed", 0, 0) /\ sendWindow' = sendWindow
    BY <1>1, <1>2, WriterFacts, HandlerMoves DEF Places
  <1>3. CASE /\ ~ Closed(s) /\ sendWindow[s] >= writer[s].want
             /\ sendWindow' = [sendWindow EXCEPT ![s] = @ - writer[s].want]
             /\ Goto(s, IF writer[s].pc = "one" /\ Ideal(s) > 1 THEN "more" ELSE "conn",
                     0, writer[s].want)
    <2>1. /\ sendWindow' \in [Scopes -> Int]
          /\ \A x \in Scopes : x # s => sendWindow'[x] = sendWindow[x]
          /\ sendWindow'[s] = sendWindow[s] - writer[s].want
      BY <1>3, WriterFacts
    <2>2. CASE Goto(s, "more", 0, writer[s].want) /\ Ideal(s) > 1 /\ writer[s].pc = "one"
      BY <1>1, <1>3, <2>1, <2>2, WriterFacts, HandlerMoves DEF Places
    <2>3. CASE Goto(s, "conn", 0, writer[s].want)
      BY <1>1, <1>3, <2>1, <2>3, WriterFacts, HandlerMoves DEF Places, Scopes
    <2> QED  BY <1>3, <2>2, <2>3
  <1> QED  BY <1>2, <1>3 DEF AcquireStream, Fail

LEMMA LookForMoreInv ==
    ASSUME WriteAssumption, IInv, NEW s \in Streams, LookForMore(s) PROVE IInv'
  <1>1. /\ writer[s].pc = "more" /\ writer[s].held = 1 /\ Ideal(s) > 1
        /\ UNCHANGED <<body, base, state, table, out, wire, rd, alive, announced, settings,
                       owed, got, seen>>
        /\ HeldOfBoth(s) = 0
    BY DEF LookForMore, streamVars, clientVars, IInv, Loop, HeldOfBoth
  <1>2. CASE /\ Goto(s, "failed", 0, 0)
             /\ sendWindow' = [sendWindow EXCEPT ![s] = @ + 1]
    <2>1. /\ sendWindow' \in [Scopes -> Int]
          /\ \A x \in Scopes : x # s => sendWindow'[x] = sendWindow[x]
          /\ sendWindow'[s] = sendWindow[s] + 1
      BY <1>2, WriterFacts
    <2> QED  BY <1>1, <1>2, <2>1, WriterFacts, HandlerMoves DEF Places, Scopes
  <1>3. CASE /\ sendWindow[s] + 1 > 0
             /\ Goto(s, "rest", Smaller(Ideal(s), sendWindow[s] + 1) - 1, 1)
             /\ sendWindow' = sendWindow
    <2>1. /\ Smaller(Ideal(s), sendWindow[s] + 1) - 1 \in Nat
          /\ Smaller(Ideal(s), sendWindow[s] + 1) - 1 + 1 <= Ideal(s)
      BY <1>1, <1>3, WriterFacts DEF Smaller
    <2> QED  BY <1>1, <1>3, <2>1, WriterFacts, HandlerMoves DEF Places
  <1> QED  BY <1>2, <1>3 DEF LookForMore, Fail

LEMMA AcquireRestInv ==
    ASSUME WriteAssumption, IInv, NEW s \in Streams, AcquireRest(s) PROVE IInv'
  <1>1. /\ writer[s].pc = "rest" /\ writer[s].held = 1 /\ writer[s].want + 1 <= Ideal(s)
        /\ UNCHANGED <<body, base, state, table, out, wire, rd, alive, announced, settings,
                       owed, got, seen>>
        /\ HeldOfBoth(s) = 0
    BY DEF AcquireRest, streamVars, clientVars, IInv, Loop, HeldOfBoth
  <1>2. CASE /\ Goto(s, "failed", 0, 0)
             /\ sendWindow' = [sendWindow EXCEPT ![s] = @ + 1]
    <2>1. /\ sendWindow' \in [Scopes -> Int]
          /\ \A x \in Scopes : x # s => sendWindow'[x] = sendWindow[x]
          /\ sendWindow'[s] = sendWindow[s] + 1
      BY <1>2, WriterFacts
    <2> QED  BY <1>1, <1>2, <2>1, WriterFacts, HandlerMoves DEF Places, Scopes
  <1>3. CASE /\ ~ Closed(s) /\ sendWindow[s] >= writer[s].want
             /\ sendWindow' = [sendWindow EXCEPT ![s] = @ - writer[s].want]
             /\ Goto(s, "conn", 0, writer[s].want + 1)
    <2>1. /\ sendWindow' \in [Scopes -> Int]
          /\ \A x \in Scopes : x # s => sendWindow'[x] = sendWindow[x]
          /\ sendWindow'[s] = sendWindow[s] - writer[s].want
          /\ writer[s].want + 1 \in Nat
      BY <1>3, WriterFacts
    <2>2. /\ \A t \in Streams : t # s => sendWindow'[t] = sendWindow[t]
          /\ sendWindow'[s] >= 0 /\ sendWindow'[Connection] = sendWindow[Connection]
          /\ sendWindow'[Connection] >= 0
          /\ sendWindow'[s] + (writer[s].want + 1) = sendWindow[s] + writer[s].held
      BY <1>1, <1>3, <2>1, WriterFacts DEF Scopes
    <2> QED  BY <1>1, <1>3, <2>1, <2>2, HandlerMoves DEF Places
  <1> QED  BY <1>2, <1>3 DEF AcquireRest, Fail

LEMMA AcquireConnectionInv ==
    ASSUME WriteAssumption, IInv, NEW s \in Streams, AcquireConnection(s) PROVE IInv'
  <1>1. /\ writer[s].pc = "conn" /\ writer[s].held <= Ideal(s)
        /\ UNCHANGED <<body, base, state, table, out, wire, rd, alive, announced, settings,
                       owed, got, seen>>
        /\ HeldOfBoth(s) = 0
    BY DEF AcquireConnection, streamVars, clientVars, IInv, Loop, HeldOfBoth
  <1>2. CASE /\ ~ alive /\ Goto(s, "failed", 0, 0)
             /\ sendWindow' = [sendWindow EXCEPT ![s] = @ + writer[s].held]
    <2>1. /\ sendWindow' \in [Scopes -> Int]
          /\ \A x \in Scopes : x # s => sendWindow'[x] = sendWindow[x]
          /\ sendWindow'[s] = sendWindow[s] + writer[s].held
      BY <1>2, WriterFacts
    <2> QED  BY <1>1, <1>2, <2>1, WriterFacts, HandlerMoves DEF Places, Scopes
  <1>3. CASE /\ alive /\ sendWindow[Connection] >= writer[s].held
             /\ sendWindow' = [sendWindow EXCEPT ![Connection] = @ - writer[s].held]
             /\ Goto(s, "send", 0, writer[s].held)
    <2>1. /\ sendWindow' \in [Scopes -> Int]
          /\ \A x \in Scopes : x # Connection => sendWindow'[x] = sendWindow[x]
          /\ sendWindow'[Connection] = sendWindow[Connection] - writer[s].held
      BY <1>3, WriterFacts
    <2>2. \A t \in Streams : sendWindow'[t] = sendWindow[t]
      BY <2>1 DEF Scopes, WriteAssumption
    <2> QED  BY <1>1, <1>3, <2>1, <2>2, WriterFacts, HandlerMoves DEF Places, Scopes
  <1> QED  BY <1>2, <1>3 DEF AcquireConnection, Fail

\* The frames of a queue, one more and one less.
LEMMA Appended ==
    ASSUME out \in Seq(OutFrames), NEW f \in OutFrames, out' = Append(out, f)
    PROVE  /\ Len(out) \in Nat /\ DOMAIN out = 1 .. Len(out) /\ DOMAIN out' = 1 .. Len(out) + 1
           /\ \A i \in 1 .. Len(out) : out'[i] = out[i]
           /\ out'[Len(out) + 1] = f
           /\ out' \in Seq(OutFrames) /\ Len(out') = Len(out) + 1
  OBVIOUS

LEMMA TakenOut ==
    ASSUME out \in Seq(OutFrames), out # <<>>, out' = Tail(out)
    PROVE  /\ Len(out) \in Nat \ {0} /\ DOMAIN out = 1 .. Len(out)
           /\ DOMAIN out' = 1 .. Len(out) - 1
           /\ \A i \in 1 .. Len(out) - 1 : out'[i] = out[i + 1] /\ i + 1 \in 1 .. Len(out)
           /\ Head(out) = out[1] /\ Head(out) \in OutFrames
           /\ out' \in Seq(OutFrames) /\ Len(out') = Len(out) - 1
  OBVIOUS

\* The account at a step: what leaves one place of a scope arrives at another.
LEMMA Sums ==
    ASSUME WriteAssumption, IInv
    PROVE  /\ out \in Seq(OutFrames) /\ wire \in Seq(WireFrames) /\ writer \in Writers
           /\ sendWindow \in [Scopes -> Int] /\ owed \in [Scopes -> Nat]
           /\ Connection \in Scopes /\ \A t \in Streams : t \in Scopes /\ t # Connection
           /\ \A x \in Scopes : /\ Flying(x) \in Nat /\ Returning(x) \in Nat /\ owed[x] \in Nat
                                /\ sendWindow[x] \in Int
           /\ \A t \in Streams : /\ HeldOf(t) \in Nat /\ HeldOfBoth(t) \in Nat
                                 /\ HeldOfBoth(t) <= Held(Connection) /\ Held(t) = HeldOf(t)
           /\ Held(Connection) \in Nat
           /\ Max(InitialSizes) \in Nat /\ \A v \in InitialSizes : v <= Max(InitialSizes) /\ v \in Nat
           /\ ConnWindow \in Nat
  <1>1. /\ out \in Seq(OutFrames) /\ wire \in Seq(WireFrames) /\ writer \in Writers
        /\ sendWindow \in [Scopes -> Int] /\ owed \in [Scopes -> Nat]
        /\ Connection \in Scopes /\ \A t \in Streams : t \in Scopes /\ t # Connection
        /\ ConnWindow \in Nat
    BY DEF IInv, Types, Writers, Scopes, WriteAssumption
  <1>2. \A t \in Streams : Held(t) = HeldOf(t)
    BY <1>1 DEF Held
  <1> QED  BY <1>1, <1>2, FlyingType, ReturningType, HeldType, LargestSize DEF WriteAssumption

\* The account of one stream.
LEMMA StreamSums ==
    ASSUME WriteAssumption, IInv, NEW t \in Streams
    PROVE  /\ t \in Scopes /\ t # Connection
           /\ Flying(t) \in Nat /\ Returning(t) \in Nat /\ owed[t] \in Nat /\ sendWindow[t] \in Int
           /\ HeldOf(t) \in Nat /\ HeldOfBoth(t) \in Nat
           /\ HeldOfBoth(t) <= Held(Connection) /\ Held(t) = HeldOf(t)
           /\ base[t] \in InitialSizes /\ base[t] \in Nat
           /\ Max(InitialSizes) \in Nat /\ base[t] <= Max(InitialSizes)
           /\ got[t] \in Nat /\ body[t] \in Nat
           /\ writer[t].pc \in Places /\ writer[t].todo \in Nat
           /\ writer[t].want \in Nat /\ writer[t].held \in Nat
  <1>1. base[t] \in InitialSizes /\ got[t] \in Nat /\ body[t] \in Nat
    BY DEF IInv, Types
  <1> QED  BY <1>1, Sums, WriterFacts

\* The account of the connection.
LEMMA ConnectionSums ==
    ASSUME WriteAssumption, IInv
    PROVE  /\ Connection \in Scopes /\ Connection \notin Streams
           /\ Flying(Connection) \in Nat /\ Returning(Connection) \in Nat
           /\ owed[Connection] \in Nat /\ sendWindow[Connection] \in Nat
           /\ Held(Connection) \in Nat /\ ConnWindow \in Nat
           /\ owed[Connection] + Flying(Connection) <= ConnWindow
           /\ alive => sendWindow[Connection] + Held(Connection) + Flying(Connection)
                         + Returning(Connection) + owed[Connection] = ConnWindow
  <1>1. /\ sendWindow[Connection] >= 0
        /\ owed[Connection] + Flying(Connection) <= ConnWindow
        /\ alive => sendWindow[Connection] + Held(Connection) + Flying(Connection)
                      + Returning(Connection) + owed[Connection] = ConnWindow
    BY DEF IInv, Within, CreditAddsUp
  <1> QED  BY <1>1, Sums DEF WriteAssumption

\* A DATA frame takes what its handler held along.
LEMMA SendDataInv ==
    ASSUME WriteAssumption, IInv, NEW s \in Streams, SendData(s) PROVE IInv'
  <1>1. /\ writer[s].pc = "send" /\ writer[s].held <= Ideal(s)
        /\ UNCHANGED <<body, base, state, table, wire, rd, alive, announced, settings, owed, got, seen>>
        /\ HeldOfBoth(s) = writer[s].held /\ HeldOf(s) = writer[s].held
    BY DEF SendData, streamVars, clientVars, IInv, Loop, HeldOfBoth, HeldOf
  <1>2. CASE /\ ~ alive /\ Goto(s, "failed", 0, 0)
             /\ sendWindow' = [sendWindow EXCEPT ![s] = @ + writer[s].held,
                                                 ![Connection] = @ + writer[s].held]
             /\ out' = out
    <2>1. /\ sendWindow' \in [Scopes -> Int]
          /\ \A t \in Streams : t # s => sendWindow'[t] = sendWindow[t]
          /\ sendWindow'[s] = sendWindow[s] + writer[s].held
          /\ sendWindow'[Connection] = sendWindow[Connection] + writer[s].held
      <3>1. /\ \A t \in Streams : t \in Scopes /\ t # Connection
            /\ Connection \in Scopes /\ sendWindow \in [Scopes -> Int]
            /\ writer[s].held \in Nat
        BY WriterFacts, Sums
      <3> QED  BY <1>2, <3>1
    <2>2. sendWindow'[Connection] >= 0
      BY <2>1, WriterFacts
    <2> QED  BY <1>1, <1>2, <2>1, <2>2, WriterFacts, HandlerMoves DEF Places
  <1>3. CASE /\ alive /\ Len(out) < WriterCapacity
             /\ out' = Append(out, Data(s, writer[s].held, writer[s].held = writer[s].todo))
             /\ writer' = [writer EXCEPT ![s].pc = "record"]
             /\ sendWindow' = sendWindow
    <2> DEFINE f == Data(s, writer[s].held, writer[s].held = writer[s].todo)
    <2>1. /\ f \in OutFrames /\ f.kind = "DATA" /\ f.stream = s /\ f.n = writer[s].held
          /\ f.end = (writer[s].held = writer[s].todo)
      BY WriterFacts DEF OutFrames, Data
    <2>2. /\ \A t \in Streams : t # s => writer'[t] = writer[t]
          /\ writer'[s].pc = "record" /\ writer'[s].todo = writer[s].todo
          /\ writer'[s].want = writer[s].want /\ writer'[s].held = writer[s].held
          /\ writer' \in Writers
      BY <1>3, Sums DEF Writers, Places
    <2>3. out' = Append(out, f)
      BY <1>3
    <2> HIDE DEF f
    <2>4. /\ Len(out) \in Nat /\ DOMAIN out = 1 .. Len(out) /\ DOMAIN out' = 1 .. Len(out) + 1
          /\ \A i \in 1 .. Len(out) : out'[i] = out[i]
          /\ out'[Len(out) + 1] = f
          /\ out' \in Seq(OutFrames) /\ Len(out') = Len(out) + 1
      BY <2>1, <2>3, Sums, Appended
    <2>5. \A x \in Scopes : Flying(x)' = Flying(x) + Bytes(f, x)
      BY <2>1, <2>3, Sums, FlyingMore
    <2>6. \A t \in Streams : Bytes(f, t) = IF t = s THEN writer[s].held ELSE 0
      BY <2>1, Sums DEF Bytes
    <2>7. Bytes(f, Connection) = writer[s].held
      BY <2>1, Sums DEF Bytes
    <2>8. /\ \A x \in Scopes : Returning(x)' = Returning(x)
          /\ HeldOf(s)' = 0 /\ HeldOfBoth(s)' = 0
          /\ \A t \in Streams : t # s => HeldOf(t)' = HeldOf(t)
          /\ \A t \in Streams : Held(t)' = HeldOf(t)'
          /\ Held(Connection)' = Held(Connection) - writer[s].held
      <3>1. HeldOf(s)' = 0 /\ HeldOfBoth(s)' = 0
        BY <2>2 DEF HeldOf, HeldOfBoth
      <3>2. Held(Connection)' = Held(Connection) - HeldOfBoth(s) + HeldOfBoth(s)'
        BY <2>2, Sums, HeldChange
      <3>3. \A t \in Streams : t # s => HeldOf(t)' = HeldOf(t)
        BY <2>2 DEF HeldOf
      <3>4. \A t \in Streams : Held(t)' = HeldOf(t)'
        BY ConnectionSums DEF Held
      <3>5. \A x \in Scopes : Returning(x)' = Returning(x)
        BY <1>1, SumsStay
      <3>6. Held(Connection) \in Nat /\ writer[s].held \in Nat
        BY ConnectionSums, WriterFacts
      <3> QED  BY <1>1, <3>1, <3>2, <3>3, <3>4, <3>5, <3>6
    <2>9. Types'
      <3>1. WriterCapacity \in Nat  BY DEF WriteAssumption
      <3>2. Len(out') <= WriterCapacity  BY <1>3, <2>4, <3>1
      <3> QED  BY <1>1, <1>3, <2>2, <2>4, <3>2 DEF IInv, Types, Writers
    <2>10. Loop'
      BY <1>1, <2>2 DEF IInv, Loop, Ideal
    <2>11. Closing'
      <3>1. \A t \in Streams : writer'[t].pc = "done" <=> writer[t].pc = "done"
        BY <1>1, <2>2
      <3>2. \A t : Closed(t)' <=> Closed(t)
        BY <1>1 DEF Closed
      <3>3. table \subseteq Streams /\ rd.left \subseteq Streams
        BY DEF IInv, Types
      <3>4. rd' = rd /\ table' = table /\ alive' = alive
        BY <1>1
      <3> QED  BY <3>1, <3>2, <3>3, <3>4 DEF IInv, Closing
    <2>12. CreditAddsUp'
      <3>1. sendWindow[Connection] + Held(Connection) + Flying(Connection)
              + Returning(Connection) + owed[Connection] = ConnWindow
        BY <1>3 DEF IInv, CreditAddsUp
      <3>2. sendWindow'[Connection] + Held(Connection)' + Flying(Connection)'
              + Returning(Connection)' + owed'[Connection] = ConnWindow
        <4>1. Flying(Connection)' = Flying(Connection) + writer[s].held
          BY <2>5, <2>7, ConnectionSums
        <4>2. Returning(Connection)' = Returning(Connection)
          BY <2>8, ConnectionSums
        <4>3. writer[s].held \in Nat
          BY WriterFacts
        <4>4. /\ sendWindow'[Connection] = sendWindow[Connection]
              /\ owed'[Connection] = owed[Connection]
              /\ Held(Connection)' = Held(Connection) - writer[s].held
          BY <1>1, <1>3, <2>8
        <4> QED  BY <3>1, <4>1, <4>2, <4>3, <4>4, ConnectionSums
      <3>3. ASSUME NEW t \in Streams, ~ Closed(t)'
            PROVE  sendWindow'[t] + Held(t)' + Flying(t)' + Returning(t)' + owed'[t] = base'[t]
        <4>1. sendWindow[t] + Held(t) + Flying(t) + Returning(t) + owed[t] = base[t]
          BY <1>1, <3>3 DEF IInv, CreditAddsUp, Closed
        <4>2. Held(t)' + Flying(t)' = Held(t) + Flying(t) /\ Returning(t)' = Returning(t)
          BY <1>1, <2>5, <2>6, <2>8, StreamSums
        <4>3. Held(t)' \in Int /\ Flying(t)' \in Int
          BY <1>1, <2>5, <2>6, <2>8, StreamSums
        <4>4. sendWindow'[t] = sendWindow[t] /\ owed'[t] = owed[t] /\ base'[t] = base[t]
          BY <1>1, <1>3
        <4> QED  BY <4>1, <4>2, <4>3, <4>4, StreamSums
      <3> QED  BY <3>2, <3>3 DEF CreditAddsUp
    <2>13. Within'
      <3>1. owed[Connection] + Flying(Connection) + writer[s].held <= ConnWindow
        <4>1. sendWindow[Connection] + Held(Connection) + Flying(Connection)
                + Returning(Connection) + owed[Connection] = ConnWindow
          BY <1>3 DEF IInv, CreditAddsUp
        <4>2. sendWindow[Connection] >= 0 /\ Held(Connection) >= writer[s].held
          BY <1>1, Sums DEF IInv, Within
        <4>3. writer[s].held \in Nat
          BY WriterFacts
        <4> QED  BY <4>1, <4>2, <4>3, ConnectionSums
      <3>2. ASSUME NEW t \in Streams
            PROVE  HeldOf(t)' + Flying(t)' + Returning(t)' + owed'[t] <= Max(InitialSizes)
        <4>1. HeldOf(t) + Flying(t) + Returning(t) + owed[t] <= Max(InitialSizes)
          BY DEF IInv, Within
        <4>2. HeldOf(t)' + Flying(t)' = HeldOf(t) + Flying(t) /\ Returning(t)' = Returning(t)
          BY <1>1, <2>5, <2>6, <2>8, StreamSums
        <4>3. HeldOf(t)' \in Int /\ Flying(t)' \in Int
          BY <1>1, <2>5, <2>6, <2>8, StreamSums
        <4> QED  BY <1>1, <4>1, <4>2, <4>3, StreamSums
      <3>3. Flying(Connection)' = Flying(Connection) + writer[s].held /\ writer[s].held \in Nat
        BY <2>5, <2>7, ConnectionSums, WriterFacts
      <3>4. owed'[Connection] + Flying(Connection)' <= ConnWindow
        BY <1>1, <3>1, <3>3, ConnectionSums
      <3>5. sendWindow'[Connection] >= 0
        BY <1>3, ConnectionSums
      <3> QED  BY <3>2, <3>4, <3>5 DEF Within
    <2>14. Whole'
      <3>1. ~ Ended(s) /\ ~ EndOut(s) /\ seen[s] # "ended"
        BY <1>1 DEF IInv, Whole, Ended
      <3>2. /\ \A t \in Streams : t # s => EndOut(t)' = EndOut(t) /\ Ended(t)' = Ended(t)
            /\ EndOut(s)' = (writer[s].held = writer[s].todo)
            /\ Ended(s)' = (writer[s].held = writer[s].todo)
        <4>1. \A t \in Streams : t # s => ~ IsEnd(f, t)
          BY <2>1 DEF IsEnd, IsData
        <4>2. IsEnd(f, s) = (writer[s].held = writer[s].todo)
          BY <2>1 DEF IsEnd, IsData
        <4>3. \A t \in Streams : EndOut(t)' <=> EndOut(t) \/ IsEnd(f, t)
          BY <2>4 DEF EndOut
        <4>4. \A t \in Streams : t # s => Ended(t)' = Ended(t)
          BY <2>2 DEF Ended
        <4>5. Ended(s)' = (writer[s].held = writer[s].todo)
          BY <2>2 DEF Ended
        <4> QED  BY <3>1, <4>1, <4>2, <4>3, <4>4, <4>5 DEF EndOut
      <3>3. ASSUME NEW t \in Streams
            PROVE  \A i, j \in DOMAIN out' : i < j /\ IsEnd(out'[i], t) => ~ IsData(out'[j], t)
        <4>1. CASE t = s
          BY <2>4, <3>1, <4>1 DEF EndOut
        <4>2. CASE t # s
          <5>1. ~ IsData(f, t)
            BY <2>1, <4>2 DEF IsData
          <5>2. \A i, j \in DOMAIN out : i < j /\ IsEnd(out[i], t) => ~ IsData(out[j], t)
            BY DEF IInv, Whole
          <5> QED  BY <2>4, <5>1, <5>2
        <4> QED  BY <4>1, <4>2
      <3>4. ASSUME NEW t \in Streams, seen'[t] = "ended"
            PROVE  \A i \in DOMAIN out' : ~ IsData(out'[i], t)
        <4>1. t # s /\ ~ IsData(f, t)
          BY <1>1, <2>1, <3>1, <3>4 DEF IsData
        <4>2. \A i \in DOMAIN out : ~ IsData(out[i], t)
          BY <1>1, <3>4 DEF IInv, Whole
        <4> QED  BY <2>4, <4>1, <4>2
      <3>5. ASSUME NEW t \in Streams
            PROVE  body'[t] = got'[t] + Flying(t)' + writer'[t].todo
                       - (IF writer'[t].pc = "record" THEN writer'[t].held ELSE 0)
        <4>1. body[t] = got[t] + Flying(t) + writer[t].todo
                       - (IF writer[t].pc = "record" THEN writer[t].held ELSE 0)
          BY DEF IInv, Whole
        <4>2. Flying(t)' = Flying(t) + (IF t = s THEN writer[s].held ELSE 0)
          BY <2>5, <2>6, StreamSums
        <4>3. CASE t = s
          BY <1>1, <2>2, <4>1, <4>2, <4>3, StreamSums
        <4>4. CASE t # s
          <5>1. Flying(t)' = Flying(t)
            BY <4>2, <4>4, StreamSums
          <5> QED  BY <1>1, <2>2, <4>1, <4>4, <5>1
        <4> QED  BY <4>3, <4>4
      <3>6. \A t \in Streams : seen'[t] = "reset" => t \in Resetting
        BY <1>1 DEF IInv, Whole
      <3>7. \A t \in Streams : /\ EndOut(t)' \/ seen'[t] = "ended" => Ended(t)'
                               /\ Ended(t)' => EndOut(t)' \/ seen'[t] # "open"
        BY <1>1, <3>1, <3>2 DEF IInv, Whole
      <3>8. ASSUME NEW t \in Streams, writer'[t].pc = "record"
            PROVE  writer'[t].held <= got'[t] + Flying(t)'
        <4>1. CASE t = s
          <5>1. /\ Flying(s)' = Flying(s) + writer[s].held /\ got'[s] = got[s]
                /\ writer'[s].held = writer[s].held
            BY <1>1, <2>2, <2>5, <2>6, StreamSums
          <5> QED  BY <4>1, <5>1, StreamSums
        <4>2. CASE t # s
          <5>1. /\ Flying(t)' = Flying(t) /\ got'[t] = got[t] /\ writer'[t] = writer[t]
            BY <1>1, <2>2, <2>5, <2>6, <4>2, StreamSums
          <5> QED  BY <3>8, <5>1 DEF IInv, Whole
        <4> QED  BY <4>1, <4>2
      <3> QED  BY <3>3, <3>4, <3>5, <3>6, <3>7, <3>8 DEF Whole
    <2>15. LateReset'
      <3>1. ASSUME NEW i \in DOMAIN out', out'[i].kind = "RST"
            PROVE  \/ seen'[out'[i].stream] # "open"
                   \/ \E j \in DOMAIN out' : j < i /\ IsEnd(out'[j], out'[i].stream)
        <4>1. i \in DOMAIN out /\ out'[i] = out[i]
          BY <2>1, <2>4, <3>1
        <4>2. \/ seen[out[i].stream] # "open"
              \/ \E j \in DOMAIN out : j < i /\ IsEnd(out[j], out[i].stream)
          BY <3>1, <4>1 DEF IInv, LateReset
        <4> QED  BY <1>1, <2>4, <4>1, <4>2
      <3> QED  BY <3>1 DEF LateReset
    <2> QED  BY <2>9, <2>10, <2>11, <2>12, <2>13, <2>14, <2>15 DEF IInv
  <1> QED  BY <1>2, <1>3 DEF SendData, Fail

\* The handler notes what it has sent, and whether that was all.
LEMMA RecordInv ==
    ASSUME WriteAssumption, IInv, NEW s \in Streams, Record(s) PROVE IInv'
  <1> DEFINE left == writer[s].todo - writer[s].held
             p == IF left = 0 THEN "done" ELSE "loop"
  <1>1. /\ writer[s].pc = "record" /\ writer[s].held <= Ideal(s)
        /\ UNCHANGED <<body, sendWindow, base, table, out, wire, rd, alive, announced,
                       settings, owed, got, seen>>
        /\ HeldOfBoth(s) = 0 /\ HeldOf(s) = 0
    BY DEF Record, clientVars, IInv, Loop, HeldOfBoth, HeldOf
  <1>2. left \in Nat
    BY <1>1, WriterFacts
  <1>3. writer' = [writer EXCEPT ![s] = [pc |-> p, todo |-> left, want |-> 0, held |-> 0]]
    BY DEF Record
  <1>4. /\ p \in Places /\ p \in {"done", "loop"} /\ (p = "done" <=> left = 0)
    BY DEF Places
  <1>5. /\ state' \in [Streams -> {"open", "halfClosedLocal", "halfClosedRemote", "closed"}]
        /\ \A t \in Streams : Closed(t) => Closed(t)'
        /\ \A t \in Streams : Closed(t)' => Closed(t) \/ (t = s /\ p = "done")
    BY DEF Record, AfterEnd, Closed, IInv, Types
  <1> HIDE DEF p, left
  <1>6. /\ \A t \in Streams : t # s => writer'[t] = writer[t]
        /\ writer'[s].pc = p /\ writer'[s].todo = left
        /\ writer'[s].want = 0 /\ writer'[s].held = 0
        /\ writer' \in Writers
    BY <1>2, <1>3, <1>4, Sums DEF Writers
  <1>7. Types'
    BY <1>1, <1>5, <1>6 DEF IInv, Types, Writers
  <1>8. Loop'
    <2>1. \A t \in Streams : t # s => Ideal(t)' = Ideal(t)
      BY <1>6 DEF Ideal
    <2> QED  BY <1>4, <1>6, <2>1 DEF IInv, Loop
  <1>9. Closing'
    <2>1. table \subseteq Streams /\ rd.left \subseteq Streams
      BY DEF IInv, Types
    <2>2. \A t \in Streams : writer[t].pc = "done" => writer'[t].pc = "done"
      BY <1>1, <1>6
    <2>3. ASSUME NEW t \in table, alive', Closed(t)' PROVE writer'[t].pc = "done"
      BY <1>1, <1>5, <1>6, <2>1, <2>2, <2>3 DEF IInv, Closing
    <2>4. ~ alive' => \A t \in Streams : Closed(t)'
      BY <1>1, <1>5 DEF IInv, Closing
    <2>5. \A t \in Streams \ table' : Closed(t)'
      BY <1>1, <1>5 DEF IInv, Closing
    <2>6. /\ alive' /\ rd'.pc # "read" => rd'.left \subseteq table'
          /\ alive' /\ rd'.pc = "reset" => rd'.left # {} /\ \A t \in rd'.left : writer'[t].pc = "done"
      BY <1>1, <2>1, <2>2 DEF IInv, Closing
    <2> QED  BY <1>1, <2>3, <2>4, <2>5, <2>6 DEF Closing
  <1>10. /\ \A x : Flying(x)' = Flying(x) /\ Returning(x)' = Returning(x)
         /\ \A t \in Streams : HeldOf(t)' = HeldOf(t)
         /\ \A t \in Streams : Held(t)' = HeldOf(t)'
         /\ Held(Connection)' = Held(Connection)
    <2>1. HeldOf(s)' = 0 /\ HeldOfBoth(s)' = 0
      BY <1>4, <1>6 DEF HeldOf, HeldOfBoth
    <2>2. Held(Connection)' = Held(Connection) - HeldOfBoth(s) + HeldOfBoth(s)'
      BY <1>6, Sums, HeldChange
    <2>3. Held(Connection)' = Held(Connection)
      BY <1>1, <2>1, <2>2, ConnectionSums
    <2>4. \A t \in Streams : t # s => HeldOf(t)' = HeldOf(t)
      BY <1>6 DEF HeldOf
    <2>5. \A t \in Streams : Held(t)' = HeldOf(t)'
      BY ConnectionSums DEF Held
    <2> QED  BY <1>1, <2>1, <2>3, <2>4, <2>5, SumsStay
  <1>11. CreditAddsUp'
    <2>1. ASSUME NEW t \in Streams, ~ Closed(t)'
          PROVE  sendWindow'[t] + Held(t)' + Flying(t)' + Returning(t)' + owed'[t] = base'[t]
      <3>1. ~ Closed(t) /\ Held(t)' = Held(t)
        BY <1>5, <1>10, <2>1, StreamSums
      <3> QED  BY <1>1, <1>10, <3>1 DEF IInv, CreditAddsUp
    <2> QED  BY <1>1, <1>10, <2>1 DEF IInv, CreditAddsUp
  <1>12. Within'
    BY <1>1, <1>10 DEF IInv, Within
  <1>13. Whole'
    <2>1. \A t \in Streams : EndOut(t)' = EndOut(t)
      BY <1>1 DEF EndOut
    <2>2. Ended(s)' <=> Ended(s)
      BY <1>1, <1>2, <1>4, <1>6, WriterFacts DEF Ended, left
    <2>3. \A t \in Streams : t # s => Ended(t)' = Ended(t)
      BY <1>6 DEF Ended
    <2>4. ASSUME NEW t \in Streams
          PROVE  body'[t] = got'[t] + Flying(t)' + writer'[t].todo
                    - (IF writer'[t].pc = "record" THEN writer'[t].held ELSE 0)
      <3>1. body[t] = got[t] + Flying(t) + writer[t].todo
                    - (IF writer[t].pc = "record" THEN writer[t].held ELSE 0)
        BY DEF IInv, Whole
      <3>2. CASE t # s
        BY <1>1, <1>6, <1>10, <3>1, <3>2
      <3>3. CASE t = s
        <4>1. /\ body'[s] = body[s] /\ got'[s] = got[s] /\ Flying(s)' = Flying(s)
              /\ writer'[s].pc # "record" /\ writer'[s].todo = writer[s].todo - writer[s].held
          BY <1>1, <1>4, <1>6, <1>10 DEF left
        <4> QED  BY <1>1, <3>1, <3>3, <4>1, StreamSums
      <3> QED  BY <3>2, <3>3
    <2>5. ASSUME NEW t \in Streams
          PROVE  /\ EndOut(t)' \/ seen'[t] = "ended" => Ended(t)'
                 /\ Ended(t)' => EndOut(t)' \/ seen'[t] # "open"
                 /\ \A i, j \in DOMAIN out' : i < j /\ IsEnd(out'[i], t) => ~ IsData(out'[j], t)
                 /\ seen'[t] = "ended" => \A i \in DOMAIN out' : ~ IsData(out'[i], t)
                 /\ seen'[t] = "reset" => t \in Resetting
      BY <1>1, <2>1, <2>2, <2>3 DEF IInv, Whole
    <2>6. ASSUME NEW t \in Streams, writer'[t].pc = "record"
          PROVE  writer'[t].held <= got'[t] + Flying(t)'
      <3>1. /\ t # s /\ Flying(t)' = Flying(t) /\ got'[t] = got[t] /\ writer'[t] = writer[t]
        BY <1>1, <1>4, <1>6, <1>10, <2>6
      <3> QED  BY <2>6, <3>1 DEF IInv, Whole
    <2> QED  BY <2>4, <2>5, <2>6 DEF Whole
  <1>14. LateReset'
    BY <1>1 DEF IInv, LateReset
  <1> QED  BY <1>7, <1>8, <1>9, <1>11, <1>12, <1>13, <1>14 DEF IInv

-----------------------------------------------------------------------------
(* The reader of the connection.                                           *)

\* The reader and the client leave the handlers' loops alone.
LEMMA HandlersStay ==
    ASSUME WriteAssumption, IInv, UNCHANGED writer
    PROVE  /\ Loop' /\ Held(Connection)' = Held(Connection)
           /\ \A t \in Streams : /\ HeldOf(t)' = HeldOf(t) /\ Held(t)' = Held(t)
                                 /\ Ended(t)' = Ended(t)
  <1>1. \A t \in Streams : Ideal(t)' = Ideal(t) /\ HeldOf(t)' = HeldOf(t) /\ Ended(t)' = Ended(t)
    BY DEF Ideal, HeldOf, Ended
  <1>2. Held(Connection)' = Held(Connection) /\ \A t \in Streams : Held(t)' = Held(t)
    BY SumsStay
  <1> QED  BY <1>1, <1>2 DEF IInv, Loop

\* A step that leaves the frames of the responses alone.
LEMMA ResponsesStay ==
    ASSUME WriteAssumption, IInv, UNCHANGED <<out, body, got, seen, writer>>
    PROVE  Whole' /\ LateReset'
  <1>1. \A t \in Streams : /\ EndOut(t)' = EndOut(t) /\ Ended(t)' = Ended(t)
                           /\ Flying(t)' = Flying(t)
    BY HandlersStay, SumsStay DEF EndOut
  <1>2. Whole'
    BY <1>1 DEF IInv, Whole
  <1>3. LateReset'
    BY DEF IInv, LateReset
  <1> QED  BY <1>2, <1>3

\* The types of the sums, after a step.
LEMMA SumTypesNext ==
    /\ out' \in Seq(OutFrames) => \A x \in Scopes : Flying(x)' \in Nat
    /\ wire' \in Seq(WireFrames) => \A x \in Scopes : Returning(x)' \in Nat
  <1>1. out \in Seq(OutFrames) => \A x \in Scopes : Flying(x) \in Nat
    BY FlyingType
  <1>2. wire \in Seq(WireFrames) => \A x \in Scopes : Returning(x) \in Nat
    BY ReturningType
  <1>3. (out \in Seq(OutFrames) => \A x \in Scopes : Flying(x) \in Nat)'
    BY <1>1, PTL
  <1>4. (wire \in Seq(WireFrames) => \A x \in Scopes : Returning(x) \in Nat)'
    BY <1>2, PTL
  <1> QED  BY <1>3, <1>4

\* The reader takes a frame, the client sends one, the reader queues one.
LEMMA FrameTaken ==
    ASSUME WriteAssumption, IInv, wire # <<>>, wire' = Tail(wire)
    PROVE  /\ wire' \in Seq(WireFrames) /\ Len(wire') <= WireCapacity
           /\ Head(wire) \in WireFrames
           /\ Head(wire).kind = "WINDOW_UPDATE" => Head(wire).scope \in Scopes /\ Head(wire).n \in Nat
           /\ Head(wire).kind = "SETTINGS" => Head(wire).value \in InitialSizes
           /\ Head(wire).kind = "RST" => Head(wire).stream \in Streams
           /\ \A x \in Scopes : /\ Returning(x)' = Returning(x) - Increment(Head(wire), x)
                                /\ Returning(x)' \in Nat
                                /\ Increment(Head(wire), x) \in Nat
  <1>1. wire \in Seq(WireFrames) /\ Len(wire) <= WireCapacity /\ WireCapacity \in Nat
    BY DEF IInv, Types, WriteAssumption
  <1>2. wire' \in Seq(WireFrames) /\ Len(wire') <= WireCapacity /\ Head(wire) \in WireFrames
    BY <1>1
  <1>3. /\ Head(wire).kind = "WINDOW_UPDATE" => Head(wire).scope \in Scopes /\ Head(wire).n \in Nat
        /\ Head(wire).kind = "SETTINGS" => Head(wire).value \in InitialSizes
        /\ Head(wire).kind = "RST" => Head(wire).stream \in Streams
    BY <1>2 DEF WireFrames, WriteAssumption
  <1>4. \A x \in Scopes : Returning(x)' = Returning(x) - Increment(Head(wire), x)
    BY <1>1, ReturningLess
  <1>5. \A x \in Scopes : Returning(x)' \in Nat
    BY <1>2, SumTypesNext
  <1>6. \A x \in Scopes : Increment(Head(wire), x) \in Nat
    BY <1>2, IncrementType
  <1> QED  BY <1>2, <1>3, <1>4, <1>5, <1>6

LEMMA FrameSent ==
    ASSUME WriteAssumption, IInv, NEW f \in WireFrames, ClientSends(f)
    PROVE  /\ wire' \in Seq(WireFrames) /\ Len(wire') <= WireCapacity
           /\ \A x \in Scopes : /\ Returning(x)' = Returning(x) + Increment(f, x)
                                /\ Returning(x)' \in Nat /\ Increment(f, x) \in Nat
  <1>1. /\ wire \in Seq(WireFrames) /\ Len(wire) < WireCapacity /\ WireCapacity \in Nat
        /\ wire' = Append(wire, f)
    BY DEF IInv, Types, WriteAssumption, ClientSends
  <1>2. wire' \in Seq(WireFrames) /\ Len(wire') <= WireCapacity
    BY <1>1
  <1> QED  BY <1>1, <1>2, ReturningMore, SumTypesNext, IncrementType

\* A frame without DATA goes out.
LEMMA FrameQueued ==
    ASSUME WriteAssumption, IInv, NEW f \in OutFrames, f.kind # "DATA",
           out' = Append(out, f), Len(out) < WriterCapacity,
           UNCHANGED <<writer, seen, body, got>>,
           f.kind = "RST" => EndOut(f.stream) \/ seen[f.stream] # "open"
    PROVE  /\ out' \in Seq(OutFrames) /\ Len(out') <= WriterCapacity
           /\ \A x \in Scopes : Flying(x)' = Flying(x)
           /\ Whole' /\ LateReset'
  <1>1. /\ Len(out) \in Nat /\ DOMAIN out = 1 .. Len(out) /\ DOMAIN out' = 1 .. Len(out) + 1
        /\ \A i \in 1 .. Len(out) : out'[i] = out[i]
        /\ out'[Len(out) + 1] = f
        /\ out' \in Seq(OutFrames) /\ Len(out') = Len(out) + 1
    BY Sums, Appended
  <1>2. Len(out') <= WriterCapacity
    BY <1>1 DEF WriteAssumption
  <1>3. \A x \in Scopes : Flying(x)' = Flying(x)
    <2>1. \A x \in Scopes : Flying(x)' = Flying(x) + Bytes(f, x) /\ Flying(x) \in Nat
      BY Sums, FlyingMore
    <2>2. \A x : Bytes(f, x) = 0
      BY DEF Bytes
    <2> QED  BY <2>1, <2>2
  <1>4. \A t : ~ IsData(f, t) /\ ~ IsEnd(f, t)
    BY DEF IsData, IsEnd
  <1>5. \A t \in Streams : EndOut(t)' <=> EndOut(t)
    BY <1>1, <1>4 DEF EndOut
  <1>6. Whole'
    <2>1. ASSUME NEW t \in Streams
          PROVE  /\ \A i, j \in DOMAIN out' : i < j /\ IsEnd(out'[i], t) => ~ IsData(out'[j], t)
                 /\ seen'[t] = "ended" => \A i \in DOMAIN out' : ~ IsData(out'[i], t)
      <3>1. /\ \A i, j \in DOMAIN out : i < j /\ IsEnd(out[i], t) => ~ IsData(out[j], t)
            /\ seen'[t] = "ended" => \A i \in DOMAIN out : ~ IsData(out[i], t)
        BY DEF IInv, Whole
      <3> QED  BY <1>1, <1>4, <3>1
    <2>2. ASSUME NEW t \in Streams
          PROVE  /\ body'[t] = got'[t] + Flying(t)' + writer'[t].todo
                       - (IF writer'[t].pc = "record" THEN writer'[t].held ELSE 0)
                 /\ writer'[t].pc = "record" => writer'[t].held <= got'[t] + Flying(t)'
                 /\ EndOut(t)' \/ seen'[t] = "ended" => Ended(t)'
                 /\ Ended(t)' => EndOut(t)' \/ seen'[t] # "open"
                 /\ seen'[t] = "reset" => t \in Resetting
      BY <1>3, <1>5, StreamSums, HandlersStay DEF IInv, Whole
    <2> QED  BY <2>1, <2>2 DEF Whole
  <1>7. LateReset'
    <2>1. ASSUME NEW i \in DOMAIN out', out'[i].kind = "RST"
          PROVE  \/ seen'[out'[i].stream] # "open"
                 \/ \E j \in DOMAIN out' : j < i /\ IsEnd(out'[j], out'[i].stream)
      <3>1. CASE i \in DOMAIN out
        <4>1. \/ seen[out[i].stream] # "open"
              \/ \E j \in DOMAIN out : j < i /\ IsEnd(out[j], out[i].stream)
          BY <1>1, <2>1, <3>1 DEF IInv, LateReset
        <4> QED  BY <1>1, <3>1, <4>1
      <3>2. CASE i = Len(out) + 1
        <4>1. out'[i] = f
          BY <1>1, <3>2
        <4>2. EndOut(f.stream) \/ seen[f.stream] # "open"
          BY <2>1, <4>1
        <4> QED  BY <1>1, <3>2, <4>1, <4>2 DEF EndOut
      <3> QED  BY <1>1, <3>1, <3>2
    <2> QED  BY <2>1 DEF LateReset
  <1> QED  BY <1>1, <1>2, <1>3, <1>6, <1>7

\* The account of each scope stays as long as what leaves one of its places arrives at
\* another; a scope that is closed is not accounted for.
LEMMA AccountStays ==
    ASSUME WriteAssumption, IInv, UNCHANGED writer, alive' => alive,
           \A t \in Streams : Closed(t) => Closed(t)',
           sendWindow' \in [Scopes -> Int], owed' \in [Scopes -> Nat],
           base' \in [Streams -> InitialSizes],
           \A x \in Scopes : Flying(x)' \in Nat /\ Returning(x)' \in Nat,
           \A t \in Streams : ~ Closed(t)' =>
              sendWindow'[t] + Flying(t)' + Returning(t)' + owed'[t] + base[t]
                = sendWindow[t] + Flying(t) + Returning(t) + owed[t] + base'[t],
           alive' =>
              sendWindow'[Connection] + Flying(Connection)' + Returning(Connection)' + owed'[Connection]
                = sendWindow[Connection] + Flying(Connection) + Returning(Connection) + owed[Connection],
           owed'[Connection] + Flying(Connection)' <= owed[Connection] + Flying(Connection),
           sendWindow'[Connection] >= 0,
           \A t \in Streams :
              Flying(t)' + Returning(t)' + owed'[t] <= Flying(t) + Returning(t) + owed[t]
    PROVE  CreditAddsUp' /\ Within'
  <1>1. ASSUME alive'
        PROVE  sendWindow'[Connection] + Held(Connection)' + Flying(Connection)'
                 + Returning(Connection)' + owed'[Connection] = ConnWindow
    <2>1. /\ Flying(Connection)' \in Nat /\ Returning(Connection)' \in Nat
          /\ sendWindow'[Connection] \in Int /\ owed'[Connection] \in Nat
          /\ Held(Connection)' = Held(Connection)
      BY ConnectionSums, HandlersStay
    <2>2. sendWindow'[Connection] + Flying(Connection)' + Returning(Connection)' + owed'[Connection]
           = sendWindow[Connection] + Flying(Connection) + Returning(Connection) + owed[Connection]
      BY <1>1
    <2>3. sendWindow[Connection] + Held(Connection) + Flying(Connection)
            + Returning(Connection) + owed[Connection] = ConnWindow
      BY <1>1, ConnectionSums
    <2>4. /\ Flying(Connection) \in Nat /\ Returning(Connection) \in Nat
          /\ sendWindow[Connection] \in Int /\ owed[Connection] \in Nat
          /\ Held(Connection) \in Nat
      BY ConnectionSums
    <2> QED  BY ONLY <2>1, <2>2, <2>3, <2>4
  <1>2. ASSUME NEW t \in Streams, ~ Closed(t)'
        PROVE  sendWindow'[t] + Held(t)' + Flying(t)' + Returning(t)' + owed'[t] = base'[t]
    <2>1. /\ Flying(t)' \in Nat /\ Returning(t)' \in Nat
          /\ sendWindow'[t] \in Int /\ owed'[t] \in Nat /\ base'[t] \in Nat
          /\ Held(t)' = Held(t)
      BY StreamSums, HandlersStay, Sums
    <2>2. sendWindow'[t] + Flying(t)' + Returning(t)' + owed'[t] + base[t]
            = sendWindow[t] + Flying(t) + Returning(t) + owed[t] + base'[t]
      BY <1>2
    <2>3. sendWindow[t] + Held(t) + Flying(t) + Returning(t) + owed[t] = base[t]
      BY <1>2 DEF IInv, CreditAddsUp
    <2>4. /\ Flying(t) \in Nat /\ Returning(t) \in Nat
          /\ sendWindow[t] \in Int /\ owed[t] \in Nat /\ base[t] \in Nat
          /\ Held(t) \in Nat
      BY StreamSums
    <2> DEFINE here == sendWindow[t] + Flying(t) + Returning(t) + owed[t]
               next == sendWindow'[t] + Flying(t)' + Returning(t)' + owed'[t]
    <2>5. here \in Int /\ next \in Int
      BY <2>1, <2>4
    <2>6. next + base[t] = here + base'[t]
      BY <2>2
    <2>7. here + Held(t) = base[t]
      BY ONLY <2>3, <2>4
    <2> HIDE DEF here, next
    <2>8. next + Held(t) = base'[t]
      BY ONLY <2>1, <2>4, <2>5, <2>6, <2>7
    <2> QED  BY ONLY <2>1, <2>4, <2>8 DEF next
  <1>3. owed'[Connection] + Flying(Connection)' <= ConnWindow
    <2>1. Flying(Connection)' \in Nat /\ owed'[Connection] \in Nat
      BY ConnectionSums
    <2> QED  BY <2>1, ConnectionSums
  <1>4. ASSUME NEW t \in Streams
        PROVE  HeldOf(t)' + Flying(t)' + Returning(t)' + owed'[t] <= Max(InitialSizes)
    <2>1. /\ Flying(t)' \in Nat /\ Returning(t)' \in Nat /\ owed'[t] \in Nat
          /\ HeldOf(t)' = HeldOf(t)
      BY StreamSums, HandlersStay
    <2>2. Flying(t)' + Returning(t)' + owed'[t] <= Flying(t) + Returning(t) + owed[t]
      OBVIOUS
    <2>3. HeldOf(t) + Flying(t) + Returning(t) + owed[t] <= Max(InitialSizes)
      BY DEF IInv, Within
    <2>4. /\ Flying(t) \in Nat /\ Returning(t) \in Nat /\ owed[t] \in Nat
          /\ HeldOf(t) \in Nat /\ Max(InitialSizes) \in Nat
      BY StreamSums
    <2> QED  BY ONLY <2>1, <2>2, <2>3, <2>4
  <1> QED  BY <1>1, <1>2, <1>3, <1>4 DEF CreditAddsUp, Within

\* A connection that has just failed: every stream is closed, nothing is accounted for.
LEMMA DieInv ==
    ASSUME WriteAssumption, IInv, Die, rd' \in [pc : {"read"}, left : SUBSET Streams],
           UNCHANGED <<body, sendWindow, base, table, writer, out, announced, settings, owed,
                       got, seen>>,
           wire' \in Seq(WireFrames), Len(wire') <= WireCapacity,
           \A x \in Scopes : Returning(x)' \in Nat /\ Returning(x)' <= Returning(x)
    PROVE  IInv'
  <1>1. /\ ~ alive' /\ alive' \in BOOLEAN /\ rd'.pc = "read"
        /\ \A t \in Streams : Closed(t)'
        /\ state' \in [Streams -> {"open", "halfClosedLocal", "halfClosedRemote", "closed"}]
    BY DEF Die, Closed
  <1>2. Types'
    BY <1>1 DEF IInv, Types
  <1>3. Closing'
    BY <1>1 DEF IInv, Closing, Types
  <1>4. CreditAddsUp' /\ Within'
    <2>1. \A x \in Scopes : Flying(x)' = Flying(x)
      BY SumsStay
    <2>2. ASSUME NEW t \in Streams
          PROVE  Flying(t)' + Returning(t)' + owed'[t] <= Flying(t) + Returning(t) + owed[t]
      <3>1. Flying(t)' = Flying(t) /\ owed'[t] = owed[t] /\ Returning(t)' <= Returning(t)
            /\ Returning(t)' \in Nat
        BY <2>1, StreamSums
      <3> QED  BY <3>1, StreamSums
    <2>3. /\ owed'[Connection] + Flying(Connection)' <= owed[Connection] + Flying(Connection)
          /\ sendWindow'[Connection] >= 0
      BY <2>1, ConnectionSums
    <2> QED  BY <1>1, <1>2, <2>1, <2>2, <2>3, Sums, AccountStays DEF Types
  <1> QED  BY <1>2, <1>3, <1>4, HandlersStay, ResponsesStay DEF IInv

\* The steps of the reader.
LEMMA ReceiveUpdateInv ==
    ASSUME WriteAssumption, IInv, ReceiveUpdate PROVE IInv'
  <1> DEFINE f == Head(wire)
  <1>1. /\ alive /\ rd.pc = "read" /\ wire # <<>> /\ f.kind = "WINDOW_UPDATE"
        /\ UNCHANGED <<body, base, table, writer, out, announced, settings, owed, got, seen>>
        /\ wire' = Tail(wire)
    BY DEF ReceiveUpdate, NextFrame, clientVars
  <1>2. /\ wire' \in Seq(WireFrames) /\ Len(wire') <= WireCapacity
        /\ f.scope \in Scopes /\ f.n \in Nat
        /\ \A x \in Scopes : /\ Returning(x)' = Returning(x) - Increment(f, x)
                             /\ Returning(x)' \in Nat
                             /\ Increment(f, x) \in Nat
    BY <1>1, FrameTaken
  <1>3. \A x \in Scopes : Increment(f, x) = IF x = f.scope THEN f.n ELSE 0
    BY <1>1 DEF Increment
  <1> HIDE DEF f
  <1>4. CASE /\ f.scope = Connection \/ (f.scope \in table /\ ~ Closed(f.scope))
             /\ sendWindow' = [sendWindow EXCEPT ![f.scope] = @ + f.n]
             /\ UNCHANGED <<state, rd, alive>>
    <2>1. /\ sendWindow' \in [Scopes -> Int]
          /\ \A x \in Scopes : sendWindow'[x] = sendWindow[x] + Increment(f, x)
      <3>1. sendWindow \in [Scopes -> Int] /\ f.scope \in Scopes /\ f.n \in Nat
        BY <1>2, Sums
      <3>2. \A x \in Scopes : sendWindow'[x] = sendWindow[x] + (IF x = f.scope THEN f.n ELSE 0)
        BY <1>4, <3>1
      <3> QED  BY <1>3, <1>4, <3>1, <3>2
    <2>2. Types'
      BY <1>1, <1>2, <1>4, <2>1 DEF IInv, Types
    <2>3. Closing'
      BY <1>1, <1>4 DEF IInv, Closing, Closed
    <2>4. \A x \in Scopes : Flying(x)' = Flying(x)
      BY <1>1, SumsStay
    <2>5. ASSUME NEW t \in Streams
          PROVE  /\ sendWindow'[t] + Flying(t)' + Returning(t)' + owed'[t] + base[t]
                      = sendWindow[t] + Flying(t) + Returning(t) + owed[t] + base'[t]
                 /\ Flying(t)' + Returning(t)' + owed'[t] <= Flying(t) + Returning(t) + owed[t]
      <3>1. /\ Flying(t)' = Flying(t) /\ owed'[t] = owed[t] /\ base'[t] = base[t]
            /\ Returning(t)' = Returning(t) - Increment(f, t) /\ Increment(f, t) \in Nat
            /\ sendWindow'[t] = sendWindow[t] + Increment(f, t)
        BY <1>1, <1>2, <2>1, <2>4, StreamSums
      <3> QED  BY <3>1, StreamSums
    <2>6. /\ sendWindow'[Connection] + Flying(Connection)' + Returning(Connection)' + owed'[Connection]
               = sendWindow[Connection] + Flying(Connection) + Returning(Connection) + owed[Connection]
          /\ owed'[Connection] + Flying(Connection)' <= owed[Connection] + Flying(Connection)
          /\ sendWindow'[Connection] >= 0
      <3>1. /\ Flying(Connection)' = Flying(Connection) /\ owed'[Connection] = owed[Connection]
            /\ Returning(Connection)' = Returning(Connection) - Increment(f, Connection)
            /\ Increment(f, Connection) \in Nat
            /\ sendWindow'[Connection] = sendWindow[Connection] + Increment(f, Connection)
        BY <1>1, <1>2, <2>1, <2>4, ConnectionSums
      <3> QED  BY <3>1, ConnectionSums
    <2>7. \A t \in Streams : Closed(t) => Closed(t)'
      BY <1>4 DEF Closed
    <2>8. \A x \in Scopes : Flying(x)' \in Nat /\ Returning(x)' \in Nat
      BY <1>2, <2>4, Sums
    <2>9. base' \in [Streams -> InitialSizes] /\ owed' \in [Scopes -> Nat] /\ alive' = alive
      BY <1>4, <2>2 DEF Types
    <2>10. CreditAddsUp' /\ Within'
      BY <1>1, <2>1, <2>5, <2>6, <2>7, <2>8, <2>9, AccountStays
    <2> QED  BY <1>1, <2>2, <2>3, <2>10, HandlersStay, ResponsesStay DEF IInv
  <1>5. CASE Die /\ sendWindow' = sendWindow
    <2>1. ASSUME NEW x \in Scopes
          PROVE  Returning(x)' \in Nat /\ Returning(x)' <= Returning(x)
      <3>1. Returning(x) \in Nat
        BY Sums
      <3> QED  BY <1>2, <3>1
    <2>2. rd' \in [pc : {"read"}, left : SUBSET Streams]
      BY <1>5 DEF Die, ReaderIdle
    <2> QED  BY <1>1, <1>2, <1>5, <2>1, <2>2, DieInv
  <1> QED  BY <1>4, <1>5 DEF ReceiveUpdate, f

\* What every step keeps that neither queues nor takes credit.
LEMMA NoCredit ==
    ASSUME WriteAssumption, IInv,
           UNCHANGED <<sendWindow, base, writer, owed>>,
           Types', alive' => alive, \A t \in Streams : Closed(t) => Closed(t)',
           \A x \in Scopes : Flying(x)' = Flying(x) /\ Returning(x)' = Returning(x)
    PROVE  CreditAddsUp' /\ Within'
  <1>1. ASSUME NEW t \in Streams
        PROVE  /\ sendWindow'[t] + Flying(t)' + Returning(t)' + owed'[t] + base[t]
                    = sendWindow[t] + Flying(t) + Returning(t) + owed[t] + base'[t]
               /\ Flying(t)' + Returning(t)' + owed'[t] <= Flying(t) + Returning(t) + owed[t]
    BY StreamSums
  <1>2. /\ sendWindow'[Connection] + Flying(Connection)' + Returning(Connection)' + owed'[Connection]
             = sendWindow[Connection] + Flying(Connection) + Returning(Connection) + owed[Connection]
        /\ owed'[Connection] + Flying(Connection)' <= owed[Connection] + Flying(Connection)
        /\ sendWindow'[Connection] >= 0
    BY ConnectionSums
  <1>3. \A x \in Scopes : Flying(x)' \in Nat /\ Returning(x)' \in Nat
    BY Sums
  <1> QED  BY <1>1, <1>2, <1>3, Sums, AccountStays DEF Types

LEMMA ReceiveResetInv ==
    ASSUME WriteAssumption, IInv, ReceiveReset PROVE IInv'
  <1> DEFINE s == Head(wire).stream
  <1>1. /\ alive /\ rd.pc = "read" /\ wire # <<>> /\ Head(wire).kind = "RST"
        /\ UNCHANGED <<body, sendWindow, base, writer, out, rd, alive, announced, settings,
                       owed, got, seen>>
        /\ wire' = Tail(wire)
        /\ state' = [state EXCEPT ![s] = "closed"] /\ table' = table \ {s}
    BY DEF ReceiveReset, NextFrame, clientVars
  <1>2. /\ wire' \in Seq(WireFrames) /\ Len(wire') <= WireCapacity /\ s \in Streams
        /\ \A x \in Scopes : Returning(x)' = Returning(x) - Increment(Head(wire), x)
    BY <1>1, FrameTaken
  <1>3. \A x \in Scopes : Returning(x)' = Returning(x) /\ Flying(x)' = Flying(x)
    <2>1. \A x : Increment(Head(wire), x) = 0
      BY <1>1 DEF Increment
    <2>2. \A x \in Scopes : Flying(x)' = Flying(x)
      BY <1>1, SumsStay
    <2>3. \A x \in Scopes : Returning(x) \in Nat
      BY Sums
    <2> QED  BY <1>2, <2>1, <2>2, <2>3
  <1> HIDE DEF s
  <1>4. Types'
    BY <1>1, <1>2 DEF IInv, Types
  <1>5. \A t \in Streams : Closed(t)' <=> Closed(t) \/ t = s
    BY <1>1, <1>2 DEF Closed, IInv, Types
  <1>6. Closing'
    BY <1>1, <1>5 DEF IInv, Closing, Types
  <1>7. CreditAddsUp' /\ Within'
    BY <1>1, <1>3, <1>4, <1>5, NoCredit
  <1> QED  BY <1>1, <1>4, <1>6, <1>7, HandlersStay, ResponsesStay DEF IInv

LEMMA ReceiveSettingsInv ==
    ASSUME WriteAssumption, IInv, ReceiveSettings PROVE IInv'
  <1>1. /\ alive /\ rd.pc = "read" /\ wire # <<>> /\ Head(wire).kind = "SETTINGS"
        /\ UNCHANGED <<body, sendWindow, base, state, table, writer, out, alive, announced, settings,
                       owed, got, seen>>
        /\ wire' = Tail(wire)
        /\ rd' = [pc |-> "visit", left |-> table, value |-> Head(wire).value]
    BY DEF ReceiveSettings, NextFrame, clientVars, streamVars
  <1>2. /\ wire' \in Seq(WireFrames) /\ Len(wire') <= WireCapacity /\ Head(wire).value \in InitialSizes
        /\ \A x \in Scopes : Returning(x)' = Returning(x) - Increment(Head(wire), x)
    BY <1>1, FrameTaken
  <1>3. \A x \in Scopes : Returning(x)' = Returning(x) /\ Flying(x)' = Flying(x)
    <2>1. \A x : Increment(Head(wire), x) = 0
      BY <1>1 DEF Increment
    <2>2. \A x \in Scopes : Flying(x)' = Flying(x)
      BY <1>1, SumsStay
    <2>3. \A x \in Scopes : Returning(x) \in Nat
      BY Sums
    <2> QED  BY <1>2, <2>1, <2>2, <2>3
  <1>4. Types'
    BY <1>1, <1>2 DEF IInv, Types
  <1>5. \A t \in Streams : Closed(t)' <=> Closed(t)
    BY <1>1 DEF Closed
  <1>6. Closing'
    BY <1>1, <1>5 DEF IInv, Closing, Types
  <1>7. CreditAddsUp' /\ Within'
    BY <1>1, <1>3, <1>4, <1>5, NoCredit
  <1> QED  BY <1>1, <1>4, <1>6, <1>7, HandlersStay, ResponsesStay DEF IInv

\* The window and its base move by the same amount.
LEMMA AdjustWindowInv ==
    ASSUME WriteAssumption, IInv, AdjustWindow PROVE IInv'
  <1>1. /\ alive /\ rd.pc = "visit" /\ rd.value \in InitialSizes /\ rd.left \subseteq Streams
        /\ UNCHANGED <<body, state, table, writer, out, wire, alive, announced, settings, owed,
                       got, seen>>
    BY DEF AdjustWindow, clientVars, IInv, Types
  <1>2. PICK s \in rd.left :
          \/ /\ ~ Closed(s)
             /\ sendWindow' = [sendWindow EXCEPT ![s] = @ + rd.value - base[s]]
             /\ base' = [base EXCEPT ![s] = rd.value]
             /\ rd' = [rd EXCEPT !.left = @ \ {s}]
          \/ /\ Closed(s)
             /\ rd' = [pc |-> "reset", left |-> {s}]
             /\ UNCHANGED <<sendWindow, base>>
    BY DEF AdjustWindow
  <1>3. \A x \in Scopes : Returning(x)' = Returning(x) /\ Flying(x)' = Flying(x)
    BY <1>1, SumsStay
  <1>4. s \in Streams /\ s \in Scopes /\ s # Connection
    BY <1>1, Sums
  <1>5. \A t \in Streams : Closed(t)' <=> Closed(t)
    BY <1>1 DEF Closed
  <1>6. CASE /\ ~ Closed(s)
             /\ sendWindow' = [sendWindow EXCEPT ![s] = @ + rd.value - base[s]]
             /\ base' = [base EXCEPT ![s] = rd.value]
             /\ rd' = [rd EXCEPT !.left = @ \ {s}]
    <2>1. /\ base \in [Streams -> InitialSizes] /\ sendWindow \in [Scopes -> Int]
          /\ rd.value \in Int /\ base[s] \in Int
      <3>1. base \in [Streams -> InitialSizes] /\ sendWindow \in [Scopes -> Int]
        BY DEF IInv, Types
      <3>2. rd.value \in Nat
        BY <1>1, Sums
      <3> QED  BY <1>4, <3>1, <3>2, StreamSums
    <2>2. /\ sendWindow' \in [Scopes -> Int] /\ base' \in [Streams -> InitialSizes]
          /\ \A x \in Scopes : x # s => sendWindow'[x] = sendWindow[x]
          /\ \A t \in Streams : t # s => base'[t] = base[t]
          /\ sendWindow'[s] = sendWindow[s] + rd.value - base[s] /\ base'[s] = rd.value
      BY <1>1, <1>4, <1>6, <2>1
    <2>3. /\ rd' \in [pc : {"visit"}, left : SUBSET Streams, value : InitialSizes]
          /\ rd'.pc = "visit" /\ rd'.left \subseteq rd.left
      BY <1>1, <1>6 DEF IInv, Types
    <2>4. Types'
      BY <1>1, <2>2, <2>3 DEF IInv, Types
    <2>5. Closing'
      BY <1>1, <1>5, <2>3 DEF IInv, Closing, Types
    <2>6. ASSUME NEW t \in Streams
          PROVE  /\ sendWindow'[t] + Flying(t)' + Returning(t)' + owed'[t] + base[t]
                      = sendWindow[t] + Flying(t) + Returning(t) + owed[t] + base'[t]
                 /\ Flying(t)' + Returning(t)' + owed'[t] <= Flying(t) + Returning(t) + owed[t]
      <3>1. /\ Flying(t)' = Flying(t) /\ owed'[t] = owed[t] /\ Returning(t)' = Returning(t)
        BY <1>1, <1>3, StreamSums
      <3>2. sendWindow'[t] - base'[t] = sendWindow[t] - base[t]
        BY <2>1, <2>2, StreamSums
      <3>3. sendWindow'[t] \in Int /\ base'[t] \in Int
        <4>1. t \in Scopes /\ base'[t] \in InitialSizes
          BY <2>2, StreamSums
        <4>2. \A v \in InitialSizes : v \in Nat
          BY Sums
        <4>3. sendWindow'[t] \in Int
          BY <2>2, <4>1
        <4>4. base'[t] \in Nat
          BY <4>1, <4>2
        <4> QED  BY <4>3, <4>4
      <3> QED  BY <3>1, <3>2, <3>3, StreamSums
    <2>7. /\ sendWindow'[Connection] + Flying(Connection)' + Returning(Connection)' + owed'[Connection]
               = sendWindow[Connection] + Flying(Connection) + Returning(Connection) + owed[Connection]
          /\ owed'[Connection] + Flying(Connection)' <= owed[Connection] + Flying(Connection)
          /\ sendWindow'[Connection] >= 0
      <3>1. sendWindow'[Connection] = sendWindow[Connection]
        BY <1>4, <2>2, ConnectionSums
      <3> QED  BY <1>1, <1>3, <3>1, ConnectionSums
    <2>8. \A x \in Scopes : Flying(x)' \in Nat /\ Returning(x)' \in Nat
      BY <1>3, Sums
    <2>9. owed' \in [Scopes -> Nat] /\ alive' = alive
      BY <1>1, Sums
    <2>10. CreditAddsUp' /\ Within'
      BY <1>1, <1>5, <2>2, <2>6, <2>7, <2>8, <2>9, AccountStays
    <2> QED  BY <1>1, <2>4, <2>5, <2>10, HandlersStay, ResponsesStay DEF IInv
  <1>7. CASE /\ Closed(s) /\ rd' = [pc |-> "reset", left |-> {s}]
             /\ UNCHANGED <<sendWindow, base>>
    <2>1. Types'
      BY <1>1, <1>4, <1>7 DEF IInv, Types
    <2>2. rd.left \subseteq table /\ writer[s].pc = "done"
      BY <1>1, <1>2, <1>7 DEF IInv, Closing
    <2>3. Closing'
      BY <1>1, <1>2, <1>5, <1>7, <2>2 DEF IInv, Closing, Types
    <2>4. CreditAddsUp' /\ Within'
      BY <1>1, <1>3, <1>5, <1>7, <2>1, NoCredit
    <2> QED  BY <1>1, <2>1, <2>3, <2>4, HandlersStay, ResponsesStay DEF IInv
  <1> QED  BY <1>2, <1>6, <1>7

LEMMA AnswerInv ==
    ASSUME WriteAssumption, IInv, AnswerStreamError PROVE IInv'
  <1> DEFINE s == CHOOSE s \in rd.left : TRUE
  <1>1. /\ alive /\ rd.pc = "reset" /\ Len(out) < WriterCapacity /\ out' = Append(out, Rst(s))
        /\ UNCHANGED <<body, sendWindow, base, state, table, writer, wire, alive, announced, settings,
                       owed, got, seen>>
        /\ rd' = ReaderIdle
    BY DEF AnswerStreamError, streamVars, clientVars
  <1>2. s \in Streams /\ writer[s].pc = "done"
    BY <1>1 DEF IInv, Closing, Types
  <1>3. EndOut(s) \/ seen[s] # "open"
    BY <1>2 DEF IInv, Whole, Ended
  <1> HIDE DEF s
  <1>4. Rst(s) \in OutFrames /\ Rst(s).kind = "RST" /\ Rst(s).stream = s
    BY <1>2 DEF OutFrames, Rst
  <1>5. /\ out' \in Seq(OutFrames) /\ Len(out') <= WriterCapacity
        /\ \A x \in Scopes : Flying(x)' = Flying(x)
        /\ Whole' /\ LateReset'
    BY <1>1, <1>3, <1>4, FrameQueued
  <1>6. Types'
    BY <1>1, <1>5 DEF IInv, Types, ReaderIdle
  <1>7. \A t \in Streams : Closed(t)' <=> Closed(t)
    BY <1>1 DEF Closed
  <1>8. Closing'
    BY <1>1, <1>7 DEF IInv, Closing, Types, ReaderIdle
  <1>9. CreditAddsUp' /\ Within'
    BY <1>1, <1>5, <1>6, <1>7, SumsStay, NoCredit
  <1> QED  BY <1>1, <1>5, <1>6, <1>8, <1>9, HandlersStay DEF IInv

LEMMA AcknowledgeInv ==
    ASSUME WriteAssumption, IInv, Acknowledge PROVE IInv'
  <1>1. /\ alive /\ rd.pc = "visit"
        /\ UNCHANGED <<body, sendWindow, base, table, writer, wire, announced, settings, owed,
                       got, seen>>
    BY DEF Acknowledge, clientVars
  <1>2. CASE /\ Len(out) < WriterCapacity /\ out' = Append(out, Ack)
             /\ rd' = ReaderIdle /\ UNCHANGED <<state, alive>>
    <2>1. Ack \in OutFrames /\ Ack.kind = "ACK"
      BY DEF OutFrames, Ack
    <2>2. /\ out' \in Seq(OutFrames) /\ Len(out') <= WriterCapacity
          /\ \A x \in Scopes : Flying(x)' = Flying(x)
          /\ Whole' /\ LateReset'
      BY <1>1, <1>2, <2>1, FrameQueued
    <2>3. Types'
      BY <1>1, <1>2, <2>2 DEF IInv, Types, ReaderIdle
    <2>4. \A t \in Streams : Closed(t)' <=> Closed(t)
      BY <1>2 DEF Closed
    <2>5. Closing'
      BY <1>1, <1>2, <2>4 DEF IInv, Closing, Types, ReaderIdle
    <2>6. CreditAddsUp' /\ Within'
      BY <1>1, <1>2, <2>2, <2>3, <2>4, SumsStay, NoCredit
    <2> QED  BY <1>1, <2>2, <2>3, <2>5, <2>6, HandlersStay DEF IInv
  <1>3. CASE Die /\ out' = out
    <2>1. wire \in Seq(WireFrames) /\ Len(wire) <= WireCapacity
      BY DEF IInv, Types
    <2>2. \A x \in Scopes : Returning(x)' \in Nat /\ Returning(x)' <= Returning(x)
      BY <1>1, Sums, SumsStay
    <2>3. rd' \in [pc : {"read"}, left : SUBSET Streams]
      BY <1>3 DEF Die, ReaderIdle
    <2> QED  BY <1>1, <1>3, <2>1, <2>2, <2>3, DieInv
  <1> QED  BY <1>2, <1>3 DEF Acknowledge

-----------------------------------------------------------------------------
(* The client.                                                             *)

\* The steps of the client.
LEMMA ClientCreditInv ==
    ASSUME WriteAssumption, IInv, NEW x \in Scopes, ClientCredit(x) PROVE IInv'
  <1> DEFINE f == Update(x, owed[x])
  <1>1. /\ ClientSends(f) /\ owed' = [owed EXCEPT ![x] = 0]
        /\ UNCHANGED <<body, sendWindow, base, state, table, writer, out, rd, alive, announced, settings,
                       got, seen>>
    BY DEF ClientCredit, streamVars
  <1>2. f \in WireFrames /\ \A y \in Scopes : Increment(f, y) = IF y = x THEN owed[x] ELSE 0
    BY Sums DEF WireFrames, Update, Increment
  <1> HIDE DEF f
  <1>3. /\ wire' \in Seq(WireFrames) /\ Len(wire') <= WireCapacity
        /\ \A y \in Scopes : /\ Returning(y)' = Returning(y) + Increment(f, y)
                             /\ Returning(y)' \in Nat
    BY <1>1, <1>2, FrameSent
  <1>4. \A y \in Scopes : Flying(y)' = Flying(y)
    BY <1>1, SumsStay
  <1>5. /\ owed' \in [Scopes -> Nat]
        /\ \A y \in Scopes : owed'[y] = owed[y] - Increment(f, y)
    BY <1>1, <1>2, Sums
  <1>6. Types'
    BY <1>1, <1>3, <1>5 DEF IInv, Types
  <1>7. \A t \in Streams : Closed(t)' <=> Closed(t)
    BY <1>1 DEF Closed
  <1>8. Closing'
    BY <1>1, <1>7 DEF IInv, Closing, Types
  <1>9. \A y \in Scopes : Increment(f, y) \in Nat
    BY <1>2, IncrementType
  <1>10. ASSUME NEW t \in Streams
        PROVE  /\ sendWindow'[t] + Flying(t)' + Returning(t)' + owed'[t] + base[t]
                    = sendWindow[t] + Flying(t) + Returning(t) + owed[t] + base'[t]
               /\ Flying(t)' + Returning(t)' + owed'[t] <= Flying(t) + Returning(t) + owed[t]
    <2>1. /\ Flying(t)' = Flying(t) /\ owed'[t] = owed[t] - Increment(f, t)
          /\ Returning(t)' = Returning(t) + Increment(f, t) /\ Increment(f, t) \in Nat
      BY <1>3, <1>4, <1>5, <1>9, StreamSums
    <2> QED  BY <1>1, <2>1, StreamSums
  <1>11. /\ sendWindow'[Connection] + Flying(Connection)' + Returning(Connection)' + owed'[Connection]
              = sendWindow[Connection] + Flying(Connection) + Returning(Connection) + owed[Connection]
         /\ owed'[Connection] + Flying(Connection)' <= owed[Connection] + Flying(Connection)
         /\ sendWindow'[Connection] >= 0
    <2>1. /\ Flying(Connection)' = Flying(Connection)
          /\ owed'[Connection] = owed[Connection] - Increment(f, Connection)
          /\ Returning(Connection)' = Returning(Connection) + Increment(f, Connection)
          /\ Increment(f, Connection) \in Nat
      BY <1>3, <1>4, <1>5, <1>9, ConnectionSums
    <2> QED  BY <1>1, <2>1, ConnectionSums
  <1>12. CreditAddsUp' /\ Within'
    <2>1. \A y \in Scopes : Flying(y)' \in Nat /\ Returning(y)' \in Nat
      BY <1>3, <1>4, Sums
    <2> QED  BY <1>1, <1>5, <1>6, <1>7, <1>10, <1>11, <2>1, AccountStays DEF Types
  <1> QED  BY <1>1, <1>6, <1>8, <1>12, HandlersStay, ResponsesStay DEF IInv

LEMMA ClientResetInv ==
    ASSUME WriteAssumption, IInv, NEW s \in Streams, ClientReset(s) PROVE IInv'
  <1>1. /\ s \in Resetting /\ seen[s] = "open" /\ ClientSends(Rst(s))
        /\ seen' = [seen EXCEPT ![s] = "reset"]
        /\ UNCHANGED <<body, sendWindow, base, state, table, writer, out, rd, alive, announced, settings,
                       owed, got>>
    BY DEF ClientReset, streamVars
  <1>2. Rst(s) \in WireFrames /\ \A x : Increment(Rst(s), x) = 0
    BY <1>1 DEF WireFrames, Rst, Increment
  <1>3. /\ wire' \in Seq(WireFrames) /\ Len(wire') <= WireCapacity
        /\ \A x \in Scopes : Returning(x)' = Returning(x) + Increment(Rst(s), x)
    BY <1>1, <1>2, FrameSent
  <1>4. \A x \in Scopes : Flying(x)' = Flying(x) /\ Returning(x)' = Returning(x)
    BY <1>1, <1>2, <1>3, Sums, SumsStay
  <1>5. seen' \in [Streams -> {"open", "ended", "reset"}]
    BY <1>1 DEF IInv, Types
  <1>6. Types'
    BY <1>1, <1>3, <1>5 DEF IInv, Types
  <1>7. \A t \in Streams : Closed(t)' <=> Closed(t)
    BY <1>1 DEF Closed
  <1>8. Closing'
    BY <1>1, <1>7 DEF IInv, Closing, Types
  <1>9. CreditAddsUp' /\ Within'
    BY <1>1, <1>4, <1>6, <1>7, NoCredit
  <1>10. \A t : seen[t] # "open" => seen'[t] = seen[t]
    BY <1>1 DEF IInv, Types
  <1>11. Whole'
    <2>1. \A t \in Streams : EndOut(t)' = EndOut(t)
      BY <1>1 DEF EndOut
    <2>2. \A t \in Streams : Ended(t)' = Ended(t) /\ Flying(t)' = Flying(t)
      BY <1>1, <1>4, HandlersStay, Sums
    <2>3. \A t \in Streams : /\ seen'[t] = "ended" => seen[t] = "ended"
                             /\ seen'[t] = "reset" => t = s \/ seen[t] = "reset"
      BY <1>1 DEF IInv, Types
    <2> QED  BY <1>1, <1>10, <2>1, <2>2, <2>3 DEF IInv, Whole
  <1>12. LateReset'
    BY <1>1, <1>10 DEF IInv, LateReset
  <1> QED  BY <1>1, <1>6, <1>8, <1>9, <1>11, <1>12, HandlersStay DEF IInv

LEMMA ClientSettingsInv ==
    ASSUME WriteAssumption, IInv, NEW v \in InitialSizes, ClientSettings(v) PROVE IInv'
  <1>1. /\ settings < SettingsBound /\ ClientSends(Settings(v))
        /\ announced' = v /\ settings' = settings + 1
        /\ UNCHANGED <<body, sendWindow, base, state, table, writer, out, rd, alive, owed, got, seen>>
    BY DEF ClientSettings, streamVars
  <1>2. Settings(v) \in WireFrames /\ \A x : Increment(Settings(v), x) = 0
    BY DEF WireFrames, Settings, Increment
  <1>3. /\ wire' \in Seq(WireFrames) /\ Len(wire') <= WireCapacity
        /\ \A x \in Scopes : Returning(x)' = Returning(x) + Increment(Settings(v), x)
    BY <1>1, <1>2, FrameSent
  <1>4. \A x \in Scopes : Flying(x)' = Flying(x) /\ Returning(x)' = Returning(x)
    BY <1>1, <1>2, <1>3, Sums, SumsStay
  <1>5. settings' \in 0 .. SettingsBound
    BY <1>1 DEF IInv, Types, WriteAssumption
  <1>6. Types'
    BY <1>1, <1>3, <1>5 DEF IInv, Types
  <1>7. \A t \in Streams : Closed(t)' <=> Closed(t)
    BY <1>1 DEF Closed
  <1>8. Closing'
    BY <1>1, <1>7 DEF IInv, Closing, Types
  <1>9. CreditAddsUp' /\ Within'
    BY <1>1, <1>4, <1>6, <1>7, NoCredit
  <1> QED  BY <1>1, <1>6, <1>8, <1>9, HandlersStay, ResponsesStay DEF IInv

\* What the client takes from the connection is owed to it from then on.
LEMMA ClientReceiveInv ==
    ASSUME WriteAssumption, IInv, ClientReceive PROVE IInv'
  <1> DEFINE f == Head(out)
  <1>1. /\ out # <<>> /\ out' = Tail(out)
        /\ UNCHANGED <<body, sendWindow, base, state, table, writer, wire, rd, alive,
                       announced, settings>>
    BY DEF ClientReceive, streamVars
  <1>2. /\ Len(out) \in Nat \ {0} /\ DOMAIN out = 1 .. Len(out)
        /\ DOMAIN out' = 1 .. Len(out) - 1
        /\ \A i \in 1 .. Len(out) - 1 : out'[i] = out[i + 1] /\ i + 1 \in 1 .. Len(out)
        /\ f = out[1] /\ f \in OutFrames
        /\ out' \in Seq(OutFrames) /\ Len(out') = Len(out) - 1
    BY <1>1, Sums, TakenOut
  <1>3. /\ f.kind = "DATA" => f.stream \in Streams /\ f.n \in Nat /\ f.end \in BOOLEAN
        /\ f.kind = "RST" => f.stream \in Streams
    BY <1>2 DEF OutFrames
  <1>4. \A x \in Scopes : Flying(x)' = Flying(x) - Bytes(f, x)
    BY <1>1, Sums, FlyingLess
  <1>5. \A x \in Scopes : Bytes(f, x) \in Nat
    BY <1>2, BytesType
  <1>6. /\ owed' \in [Scopes -> Nat] /\ \A x \in Scopes : owed'[x] = owed[x] + Bytes(f, x)
        /\ got' \in [Streams -> Nat] /\ \A t \in Streams : got'[t] = got[t] + Bytes(f, t)
    <2>1. /\ owed \in [Scopes -> Nat] /\ got \in [Streams -> Nat]
          /\ Connection \in Scopes /\ \A t \in Streams : t \in Scopes /\ t # Connection
          /\ \A x \in Scopes : x = Connection \/ x \in Streams
      BY Sums DEF IInv, Types, Scopes
    <2>2. CASE f.kind = "DATA"
      <3>1. /\ owed' = [owed EXCEPT ![Connection] = @ + f.n, ![f.stream] = @ + f.n]
            /\ got' = [got EXCEPT ![f.stream] = @ + f.n]
        BY <2>2 DEF ClientReceive
      <3>2. \A x : Bytes(f, x) = IF x \in {f.stream, Connection} THEN f.n ELSE 0
        BY <2>2 DEF Bytes
      <3> HIDE DEF f
      <3>3. owed' \in [Scopes -> Nat] /\ got' \in [Streams -> Nat]
        BY <1>3, <2>1, <2>2, <3>1
      <3>4. \A x \in Scopes : owed'[x] = owed[x] + (IF x \in {f.stream, Connection} THEN f.n ELSE 0)
        BY <1>3, <2>1, <2>2, <3>1
      <3>5. \A t \in Streams : got'[t] = got[t] + (IF t = f.stream THEN f.n ELSE 0)
        BY <1>3, <2>1, <2>2, <3>1
      <3> QED  BY <2>1, <3>2, <3>3, <3>4, <3>5
    <2>3. CASE f.kind # "DATA"
      <3>1. owed' = owed /\ got' = got
        BY <2>3 DEF ClientReceive
      <3>2. \A x : Bytes(f, x) = 0
        BY <2>3 DEF Bytes
      <3> QED  BY <2>1, <3>1, <3>2
    <2> QED  BY <2>2, <2>3
  <1>7. /\ seen' \in [Streams -> {"open", "ended", "reset"}]
        /\ \A t \in Streams : seen[t] # "open" => seen'[t] = seen[t]
        /\ \A t \in Streams : seen'[t] # seen[t] => seen[t] = "open" /\ t = f.stream
        /\ \A t \in Streams : IsEnd(f, t) => seen'[t] # "open"
        /\ \A t \in Streams : seen[t] = "open" /\ seen'[t] = "ended" => IsEnd(f, t)
        /\ \A t \in Streams : seen[t] = "open" /\ seen'[t] = "reset" => f.kind = "RST"
    <2>1. seen \in [Streams -> {"open", "ended", "reset"}]
      BY DEF IInv, Types
    <2>2. CASE f.kind = "DATA" /\ f.end /\ seen[f.stream] = "open"
      <3>1. seen' = [seen EXCEPT ![f.stream] = "ended"]
        BY <2>2 DEF ClientReceive
      <3> HIDE DEF f
      <3> QED  BY <1>3, <2>1, <2>2, <3>1 DEF IsEnd, IsData
    <2>3. CASE f.kind = "DATA" /\ ~ (f.end /\ seen[f.stream] = "open")
      <3>1. seen' = seen
        BY <2>3 DEF ClientReceive
      <3> HIDE DEF f
      <3> QED  BY <1>3, <2>1, <2>3, <3>1 DEF IsEnd, IsData
    <2>4. CASE f.kind = "RST" /\ seen[f.stream] = "open"
      <3>1. seen' = [seen EXCEPT ![f.stream] = "reset"]
        BY <2>4 DEF ClientReceive
      <3> HIDE DEF f
      <3> QED  BY <1>3, <2>1, <2>4, <3>1 DEF IsEnd, IsData
    <2>5. CASE f.kind = "RST" /\ seen[f.stream] # "open"
      <3>1. seen' = seen
        BY <2>5 DEF ClientReceive
      <3> HIDE DEF f
      <3> QED  BY <1>3, <2>1, <2>5, <3>1 DEF IsEnd, IsData
    <2>6. CASE f.kind = "ACK"
      <3>1. seen' = seen
        BY <2>6 DEF ClientReceive
      <3> HIDE DEF f
      <3> QED  BY <1>3, <2>1, <2>6, <3>1 DEF IsEnd, IsData
    <2> QED  BY <2>2, <2>3, <2>4, <2>5, <2>6 DEF ClientReceive
  <1> HIDE DEF f
  <1>8. Types'
    <2>1. Len(out') <= WriterCapacity
      BY <1>2 DEF IInv, Types, WriteAssumption
    <2> QED  BY <1>1, <1>2, <1>6, <1>7, <2>1 DEF IInv, Types
  <1>9. \A t \in Streams : Closed(t)' <=> Closed(t)
    BY <1>1 DEF Closed
  <1>10. Closing'
    BY <1>1, <1>9 DEF IInv, Closing, Types
  <1>11. CreditAddsUp' /\ Within'
    <2>1. \A x \in Scopes : /\ Flying(x)' \in Nat
                            /\ Returning(x)' \in Nat /\ Returning(x)' = Returning(x)
      BY <1>1, <1>2, Sums, SumsStay, SumTypesNext
    <2>2. ASSUME NEW t \in Streams
          PROVE  /\ sendWindow'[t] + Flying(t)' + Returning(t)' + owed'[t] + base[t]
                      = sendWindow[t] + Flying(t) + Returning(t) + owed[t] + base'[t]
                 /\ Flying(t)' + Returning(t)' + owed'[t] <= Flying(t) + Returning(t) + owed[t]
      <3>1. /\ Flying(t)' = Flying(t) - Bytes(f, t) /\ owed'[t] = owed[t] + Bytes(f, t)
            /\ Returning(t)' = Returning(t) /\ Bytes(f, t) \in Nat
        BY <1>4, <1>5, <1>6, <2>1, StreamSums
      <3>2. sendWindow'[t] = sendWindow[t] /\ base'[t] = base[t]
        BY <1>1
      <3> QED  BY <3>1, <3>2, StreamSums
    <2>3. /\ sendWindow'[Connection] + Flying(Connection)' + Returning(Connection)' + owed'[Connection]
               = sendWindow[Connection] + Flying(Connection) + Returning(Connection) + owed[Connection]
          /\ owed'[Connection] + Flying(Connection)' <= owed[Connection] + Flying(Connection)
          /\ sendWindow'[Connection] >= 0
      <3>1. /\ Flying(Connection)' = Flying(Connection) - Bytes(f, Connection)
            /\ owed'[Connection] = owed[Connection] + Bytes(f, Connection)
            /\ Returning(Connection)' = Returning(Connection) /\ Bytes(f, Connection) \in Nat
        BY <1>4, <1>5, <1>6, <2>1, ConnectionSums
      <3>2. sendWindow'[Connection] = sendWindow[Connection]
        BY <1>1
      <3> QED  BY <3>1, <3>2, ConnectionSums
    <2> QED  BY <1>1, <1>8, <1>9, <2>1, <2>2, <2>3, AccountStays DEF Types
  <1>12. Whole'
    <2>1. \A t \in Streams : Ended(t)' = Ended(t)
      BY <1>1, HandlersStay
    <2>2. \A t \in Streams : /\ EndOut(t)' => EndOut(t)
                             /\ EndOut(t) => EndOut(t)' \/ IsEnd(f, t)
      <3>1. ASSUME NEW t \in Streams, NEW i \in DOMAIN out, IsEnd(out[i], t), ~ IsEnd(f, t)
            PROVE  \E j \in DOMAIN out' : IsEnd(out'[j], t)
        <4>1. i # 1 /\ i - 1 \in DOMAIN out' /\ out'[i - 1] = out[i]
          BY <1>2, <3>1
        <4> QED  BY <3>1, <4>1
      <3> QED  BY <1>2, <3>1 DEF EndOut
    <2>3. ASSUME NEW t \in Streams
          PROVE  body'[t] = got'[t] + Flying(t)' + writer'[t].todo
                    - (IF writer'[t].pc = "record" THEN writer'[t].held ELSE 0)
      <3>1. body[t] = got[t] + Flying(t) + writer[t].todo
                    - (IF writer[t].pc = "record" THEN writer[t].held ELSE 0)
        BY DEF IInv, Whole
      <3>2. /\ Flying(t)' = Flying(t) - Bytes(f, t) /\ got'[t] = got[t] + Bytes(f, t)
            /\ Bytes(f, t) \in Nat
        BY <1>4, <1>5, <1>6, StreamSums
      <3> QED  BY <1>1, <3>1, <3>2, StreamSums
    <2>4. ASSUME NEW t \in Streams
          PROVE  \A i, j \in DOMAIN out' : i < j /\ IsEnd(out'[i], t) => ~ IsData(out'[j], t)
      <3>1. \A i, j \in DOMAIN out : i < j /\ IsEnd(out[i], t) => ~ IsData(out[j], t)
        BY DEF IInv, Whole
      <3>2. ASSUME NEW i \in DOMAIN out', NEW j \in DOMAIN out', i < j, IsEnd(out'[i], t)
            PROVE  ~ IsData(out'[j], t)
        <4>1. /\ i + 1 \in DOMAIN out /\ j + 1 \in DOMAIN out /\ i + 1 < j + 1
              /\ out'[i] = out[i + 1] /\ out'[j] = out[j + 1]
          BY <1>2, <3>2
        <4> QED  BY <3>1, <3>2, <4>1
      <3> QED  BY <3>2
    <2>5. ASSUME NEW t \in Streams, seen'[t] = "ended"
          PROVE  \A i \in DOMAIN out' : ~ IsData(out'[i], t)
      <3>1. CASE seen[t] = "ended"
        <4>1. \A i \in DOMAIN out : ~ IsData(out[i], t)
          BY <3>1 DEF IInv, Whole
        <4> QED  BY <1>2, <4>1
      <3>2. CASE seen[t] = "open"
        <4>1. IsEnd(out[1], t) /\ 1 \in DOMAIN out
          BY <1>2, <1>7, <2>5, <3>2
        <4>2. \A i, j \in DOMAIN out : i < j /\ IsEnd(out[i], t) => ~ IsData(out[j], t)
          BY DEF IInv, Whole
        <4>3. ASSUME NEW i \in DOMAIN out' PROVE ~ IsData(out'[i], t)
          <5>1. i + 1 \in DOMAIN out /\ 1 < i + 1 /\ out'[i] = out[i + 1]
            BY <1>2
          <5> QED  BY <4>1, <4>2, <5>1
        <4> QED  BY <4>3
      <3> QED  BY <1>7, <2>5, <3>1, <3>2
    <2>6. ASSUME NEW t \in Streams, seen'[t] = "reset" PROVE t \in Resetting
      <3>1. CASE seen[t] = "reset"
        BY <3>1 DEF IInv, Whole
      <3>2. CASE seen[t] # "reset"
        <4>1. seen[t] = "open" /\ f.kind = "RST" /\ t = f.stream
          BY <1>7, <2>6, <3>2
        <4>2. 1 \in DOMAIN out /\ ~ \E j \in DOMAIN out : j < 1
          BY <1>2
        <4>3. seen[f.stream] # "open"
          BY <1>2, <4>1, <4>2 DEF IInv, LateReset
        <4> QED  BY <4>1, <4>3
      <3> QED  BY <3>1, <3>2
    <2>7. ASSUME NEW t \in Streams
          PROVE  /\ EndOut(t)' \/ seen'[t] = "ended" => Ended(t)'
                 /\ Ended(t)' => EndOut(t)' \/ seen'[t] # "open"
      <3>1. /\ EndOut(t) \/ seen[t] = "ended" => Ended(t)
            /\ Ended(t) => EndOut(t) \/ seen[t] # "open"
        BY DEF IInv, Whole
      <3>2. IsEnd(f, t) => EndOut(t)
        BY <1>2 DEF EndOut
      <3> QED  BY <1>7, <2>1, <2>2, <3>1, <3>2
    <2>8. ASSUME NEW t \in Streams, writer'[t].pc = "record"
          PROVE  writer'[t].held <= got'[t] + Flying(t)'
      <3>1. got'[t] + Flying(t)' = got[t] + Flying(t)
        <4>1. /\ Flying(t)' = Flying(t) - Bytes(f, t) /\ got'[t] = got[t] + Bytes(f, t)
              /\ Bytes(f, t) \in Nat
          BY <1>4, <1>5, <1>6, StreamSums
        <4> QED  BY <4>1, StreamSums
      <3> QED  BY <1>1, <2>8, <3>1 DEF IInv, Whole
    <2> QED  BY <2>3, <2>4, <2>5, <2>6, <2>7, <2>8 DEF Whole
  <1>13. LateReset'
    <2>1. ASSUME NEW i \in DOMAIN out', out'[i].kind = "RST"
          PROVE  \/ seen'[out'[i].stream] # "open"
                 \/ \E j \in DOMAIN out' : j < i /\ IsEnd(out'[j], out'[i].stream)
      <3>1. i + 1 \in DOMAIN out /\ out'[i] = out[i + 1] /\ i \in Nat
        BY <1>2
      <3>2. out[i + 1] \in OutFrames /\ out[i + 1].stream \in Streams
        BY <2>1, <3>1, Sums DEF OutFrames
      <3>3. CASE seen[out[i + 1].stream] # "open"
        BY <1>7, <3>1, <3>2, <3>3
      <3>4. CASE \E j \in DOMAIN out : j < i + 1 /\ IsEnd(out[j], out[i + 1].stream)
        <4>1. PICK j \in DOMAIN out : j < i + 1 /\ IsEnd(out[j], out[i + 1].stream)
          BY <3>4
        <4>2. CASE j = 1
          BY <1>2, <1>7, <3>1, <3>2, <4>1, <4>2
        <4>3. CASE j # 1
          <5>1. j - 1 \in DOMAIN out' /\ out'[j - 1] = out[j] /\ j - 1 < i
            BY <1>2, <3>1, <4>1, <4>3
          <5> QED  BY <3>1, <4>1, <5>1
        <4> QED  BY <4>2, <4>3
      <3> QED  BY <2>1, <3>1, <3>3, <3>4 DEF IInv, LateReset
    <2> QED  BY <2>1 DEF LateReset
  <1> QED  BY <1>1, <1>8, <1>10, <1>11, <1>12, <1>13, HandlersStay DEF IInv

-----------------------------------------------------------------------------
(* The invariant, and what follows from it.                                *)

\* The invariant holds at the start, and every step preserves it.
LEMMA InitInv == ASSUME WriteAssumption, Init PROVE IInv
  <1>1. Types
    <2>1. body \in [Streams -> Nat]
      BY DEF Init, WriteAssumption
    <2>2. base \in [Streams -> InitialSizes] /\ announced \in InitialSizes
      BY DEF Init
    <2>3. sendWindow \in [Scopes -> Int]
      BY DEF Init, WriteAssumption
    <2>4. writer \in [Streams -> [pc : Places, todo : Nat, want : Nat, held : Nat]]
      BY <2>1 DEF Init, Places
    <2>5. /\ out \in Seq(OutFrames) /\ wire \in Seq(WireFrames) /\ Len(out) = 0 /\ Len(wire) = 0
          /\ WriterCapacity \in Nat /\ WireCapacity \in Nat
      BY DEF Init, WriteAssumption
    <2>6. settings \in 0 .. SettingsBound
      BY DEF Init, WriteAssumption
    <2>7. /\ rd \in [pc : {"read", "reset"}, left : SUBSET Streams]
          /\ table \subseteq Streams /\ alive \in BOOLEAN
          /\ state \in [Streams -> {"open", "halfClosedLocal", "halfClosedRemote", "closed"}]
          /\ owed \in [Scopes -> Nat] /\ got \in [Streams -> Nat]
          /\ seen \in [Streams -> {"open", "ended", "reset"}]
      BY DEF Init, ReaderIdle
    <2> QED  BY <2>1, <2>2, <2>3, <2>4, <2>5, <2>6, <2>7 DEF Types
  <1>2. \A s \in Streams : /\ writer[s].pc = "loop" /\ writer[s].held = 0 /\ writer[s].want = 0
                           /\ writer[s].todo = body[s]
    BY DEF Init
  <1>3. Loop
    BY <1>2 DEF Loop
  <1>4. Closing
    BY DEF Init, Closing, Closed, ReaderIdle
  <1>5. \A x : Flying(x) = 0 /\ Returning(x) = 0
    <2>1. ASSUME NEW x PROVE Flying(x) = 0
      <3>1. DOMAIN [i \in DOMAIN out |-> Bytes(out[i], x)] = {}
        BY DEF Init
      <3> QED  BY <3>1, SumEmpty DEF Flying, SumFunction
    <2>2. ASSUME NEW x PROVE Returning(x) = 0
      <3>1. DOMAIN [i \in DOMAIN wire |-> Increment(wire[i], x)] = {}
        BY DEF Init
      <3> QED  BY <3>1, SumEmpty DEF Returning, SumFunction
    <2> QED  BY <2>1, <2>2
  <1>6. Held(Connection) = 0 /\ \A s \in Streams : HeldOf(s) = 0 /\ Held(s) = 0
    <2>1. \A s \in Streams : HeldOf(s) = 0 /\ HeldOfBoth(s) = 0
      BY <1>2 DEF HeldOf, HeldOfBoth
    <2> DEFINE F == [s \in Streams |-> HeldOfBoth(s)]
    <2>2. Held(Connection) = SumFunctionOnSet(F, Streams)
      BY DEF Held, SumFunction
    <2>3. IsFiniteSet(Streams) /\ Connection \notin Streams
      BY DEF WriteAssumption
    <2>4. \A s \in Streams : F[s] = 0
      BY <2>1
    <2> HIDE DEF F
    <2>5. SumFunctionOnSet(F, Streams) = 0
      BY <2>3, <2>4, SumZero
    <2> QED  BY <2>1, <2>2, <2>3, <2>5 DEF Held
  <1>7. /\ sendWindow[Connection] = ConnWindow /\ owed[Connection] = 0 /\ ConnWindow \in Nat
        /\ \A s \in Streams : /\ sendWindow[s] = announced /\ owed[s] = 0 /\ base[s] = announced
                              /\ got[s] = 0 /\ seen[s] = "open" /\ body[s] \in Nat
        /\ announced \in Nat
    BY <1>1 DEF Init, Scopes, WriteAssumption, Types
  <1>8. CreditAddsUp
    BY <1>5, <1>6, <1>7 DEF CreditAddsUp
  <1>9. Within
    BY <1>5, <1>6, <1>7, LargestSize DEF Within
  <1>10. Whole
    <2>1. \A s \in Streams : ~ EndOut(s) /\ ~ Ended(s)
      BY <1>2 DEF Init, EndOut, Ended
    <2>2. DOMAIN out = {}
      BY DEF Init
    <2> QED  BY <1>2, <1>5, <1>7, <2>1, <2>2 DEF Whole
  <1>11. LateReset
    BY DEF Init, LateReset
  <1> QED  BY <1>1, <1>3, <1>4, <1>8, <1>9, <1>10, <1>11 DEF IInv

LEMMA NextInv == ASSUME WriteAssumption, IInv, [Next]_vars PROVE IInv'
  <1>1. ASSUME NEW s \in Streams, Handler(s) PROVE IInv'
    BY <1>1, BeginInv, AcquireStreamInv, LookForMoreInv, AcquireRestInv, AcquireConnectionInv,
       SendDataInv, RecordInv DEF Handler
  <1>2. CASE Reader
    BY <1>2, ReceiveUpdateInv, ReceiveResetInv, ReceiveSettingsInv, AdjustWindowInv, AnswerInv,
       AcknowledgeInv DEF Reader
  <1>3. CASE UNCHANGED vars
    <2>1. /\ UNCHANGED <<body, sendWindow, base, state, table, writer, out, wire, rd, alive, announced,
                         settings, owed, got, seen>>
      BY <1>3 DEF vars
    <2>2. Types' /\ \A t \in Streams : Closed(t)' <=> Closed(t)
      BY <2>1 DEF IInv, Types, Closed
    <2>3. Closing'
      BY <2>1, <2>2 DEF IInv, Closing, Types
    <2>4. CreditAddsUp' /\ Within'
      BY <2>1, <2>2, SumsStay, NoCredit
    <2> QED  BY <2>1, <2>2, <2>3, <2>4, HandlersStay, ResponsesStay DEF IInv
  <1> QED
    BY <1>1, <1>2, <1>3, ClientReceiveInv, ClientCreditInv, ClientResetInv, ClientSettingsInv DEF Next

LEMMA Invariance == ASSUME WriteAssumption PROVE Spec => []IInv
  <1>1. Init => IInv
    BY InitInv
  <1>2. IInv /\ [Next]_vars => IInv'
    BY NextInv
  <1> QED  BY <1>1, <1>2, PTL DEF Spec

\* The type invariant of the module: the frames in the queues, the places of the handlers
\* (sendResponseBody, Stream.WriteData) and what they hold are of the kinds the code knows.
THEOREM WriteTypes == ASSUME WriteAssumption PROVE Spec => []TypeOK
  <1>1. IInv => TypeOK
    <2> SUFFICES ASSUME IInv PROVE TypeOK
      OBVIOUS
    <2>1. ASSUME NEW s \in Streams
          PROVE  /\ writer[s].todo \in 0 .. body[s]
                 /\ writer[s].want \in 0 .. MaxFrameSize
                 /\ writer[s].held \in 0 .. Smaller(MaxFrameSize, writer[s].todo)
      <3>1. body[s] = got[s] + Flying(s) + writer[s].todo
                       - (IF writer[s].pc = "record" THEN writer[s].held ELSE 0)
        BY DEF IInv, Whole
      <3>2. writer[s].pc = "record" => writer[s].held <= got[s] + Flying(s)
        BY DEF IInv, Whole
      <3>3. writer[s].todo \in 0 .. body[s]
        BY <3>1, <3>2, StreamSums
      <3>4. /\ Ideal(s) = Smaller(MaxFrameSize, writer[s].todo) /\ Ideal(s) \in Nat
            /\ Ideal(s) <= MaxFrameSize /\ MaxFrameSize \in Nat
        BY WriterFacts DEF Ideal, Smaller
      <3>5. writer[s].held <= Ideal(s) /\ writer[s].want <= Ideal(s)
        BY <3>4, WriterFacts DEF IInv, Loop, Places
      <3> QED  BY <3>3, <3>4, <3>5, WriterFacts
    <2>2. \A s \in Streams : writer[s].pc \in Places
      BY WriterFacts
    <2> QED  BY <2>1, <2>2 DEF IInv, Types, TypeOK, Places
  <1> QED  BY <1>1, Invariance, PTL

\* No credit of flow control is lost or doubled between the windows of the connection, the
\* handlers that acquire it, the frames on their way, and the client that gives it back
\* (FlowControlWindow.Acquire, Increase and UpdateInitialWindowSize).
THEOREM CreditIsKept == ASSUME WriteAssumption PROVE Spec => []CreditAddsUp
  <1>1. IInv => CreditAddsUp
    BY DEF IInv
  <1> QED  BY <1>1, Invariance, PTL

\* The server never has more DATA on its way than the client announced, for a stream or for
\* the connection, whatever SETTINGS and WINDOW_UPDATEs cross it.
THEOREM WindowsHold == ASSUME WriteAssumption PROVE Spec => []NeverOverruns
  <1>1. IInv => NeverOverruns
    <2> SUFFICES ASSUME IInv PROVE NeverOverruns
      OBVIOUS
    <2>1. ASSUME NEW s \in Streams PROVE owed[s] + Flying(s) <= Max(InitialSizes)
      <3>1. HeldOf(s) + Flying(s) + Returning(s) + owed[s] <= Max(InitialSizes)
        BY DEF IInv, Within
      <3> QED  BY <3>1, StreamSums
    <2> QED  BY <2>1 DEF IInv, Within, NeverOverruns
  <1> QED  BY <1>1, Invariance, PTL

\* A response that the client has seen end is the whole one: nothing of it is left in a
\* queue or with its handler, and it was not cut by a lack of credit.
THEOREM ResponsesAreWhole == ASSUME WriteAssumption PROVE Spec => []NothingTruncated
  <1>1. IInv => NothingTruncated
    <2> SUFFICES ASSUME IInv PROVE NothingTruncated
      OBVIOUS
    <2>1. ASSUME NEW s \in Streams, seen[s] = "ended" PROVE got[s] = body[s]
      <3>1. Ended(s) /\ \A i \in DOMAIN out : ~ IsData(out[i], s)
        BY <2>1 DEF IInv, Whole
      <3>2. Flying(s) = 0
        <4> DEFINE F == [i \in DOMAIN out |-> Bytes(out[i], s)]
        <4>1. DOMAIN F = 1 .. Len(out) /\ Len(out) \in Nat
          BY Sums
        <4>2. \A i \in 1 .. Len(out) : F[i] = 0
          BY <3>1, Sums, StreamSums DEF Bytes, IsData
        <4>3. Flying(s) = SumFunctionOnSet(F, 1 .. Len(out))
          BY <4>1 DEF Flying, SumFunction
        <4>4. IsFiniteSet(1 .. Len(out))
          BY <4>1, FS_Interval
        <4> HIDE DEF F
        <4> QED  BY <4>2, <4>3, <4>4, SumZero
      <3>3. writer[s].todo - (IF writer[s].pc = "record" THEN writer[s].held ELSE 0) = 0
        BY <3>1, StreamSums DEF IInv, Loop, Ended
      <3>4. body[s] = got[s] + Flying(s) + writer[s].todo
                       - (IF writer[s].pc = "record" THEN writer[s].held ELSE 0)
        BY DEF IInv, Whole
      <3> QED  BY <3>2, <3>3, <3>4, StreamSums
    <2> QED  BY <2>1 DEF IInv, Whole, NothingTruncated
  <1> QED  BY <1>1, Invariance, PTL

\* An action property: of a closed stream only the frame is queued that its handler had in
\* hand when the stream was closed; then the handler does not come to the queue again.
THEOREM ClosedStreamsAreQuiet == ASSUME WriteAssumption PROVE Spec => QuietAfterClose
  <1>1. ASSUME IInv, [Next]_vars
        PROVE  \A s \in Streams :
                 Closed(s) /\ writer[s].pc \notin {"conn", "send"}
                     => writer'[s].pc \notin {"conn", "send"}
    <2> SUFFICES ASSUME NEW s \in Streams, Closed(s), writer[s].pc \notin {"conn", "send"},
                        writer'[s].pc \in {"conn", "send"}
                 PROVE  FALSE
      OBVIOUS
    <2>1. writer \in [Streams -> [pc : Places, todo : Nat, want : Nat, held : Nat]]
      BY <1>1, Sums DEF Writers
    <2>2. ~ UNCHANGED writer
      OBVIOUS
    <2>3. PICK t \in Streams : Handler(t)
      BY <1>1, <2>2 DEF Next, Reader, ReceiveUpdate, ReceiveReset, ReceiveSettings, AdjustWindow,
         AnswerStreamError, Acknowledge, ClientReceive, ClientCredit, ClientReset, ClientSettings, vars
    <2>4. ASSUME NEW p, NEW w, NEW h, Goto(t, p, w, h)
          PROVE  IF t = s THEN writer'[s].pc = p ELSE writer'[s] = writer[s]
      BY <2>1, <2>4 DEF Goto
    <2>5. t = s
      <3>1. SUFFICES ASSUME t # s PROVE writer'[s] = writer[s]
        OBVIOUS
      <3>2. CASE Begin(t) \/ AcquireStream(t) \/ LookForMore(t)
        BY <2>4, <3>1, <3>2 DEF Begin, AcquireStream, LookForMore, Fail
      <3>3. CASE AcquireRest(t) \/ AcquireConnection(t)
        BY <2>4, <3>1, <3>3 DEF AcquireRest, AcquireConnection, Fail
      <3>4. CASE SendData(t)
        BY <2>1, <2>4, <3>1, <3>4 DEF SendData, Fail
      <3>5. CASE Record(t)
        BY <2>1, <3>1, <3>5 DEF Record
      <3> QED  BY <2>3, <3>2, <3>3, <3>4, <3>5 DEF Handler
    <2>6. CASE Begin(s)
      BY <2>4, <2>5, <2>6 DEF Begin, Fail
    <2>7. CASE AcquireStream(s)
      BY <2>4, <2>5, <2>7 DEF AcquireStream, Fail
    <2>8. CASE LookForMore(s)
      BY <2>4, <2>5, <2>8 DEF LookForMore, Fail
    <2>9. CASE AcquireRest(s)
      BY <2>4, <2>5, <2>9 DEF AcquireRest, Fail
    <2>10. CASE Record(s)
      BY <2>1, <2>10 DEF Record
    <2> QED
      BY <2>3, <2>5, <2>6, <2>7, <2>8, <2>9, <2>10 DEF Handler, AcquireConnection, SendData
  <1>2. ASSUME IInv, [Next]_vars, NEW s \in Streams, QueuesData(s)
        PROVE  writer[s].pc = "send" /\ writer'[s].pc = "record"
    <2>1. Len(out') > Len(out)
      BY <1>2 DEF QueuesData
    <2>2. writer \in [Streams -> [pc : Places, todo : Nat, want : Nat, held : Nat]]
      BY <1>2, Sums DEF Writers
    <2>3. /\ Len(out) \in Nat
          /\ out # <<>> => Len(Tail(out)) = Len(out) - 1
          /\ \A f : /\ Len(Append(out, f)) = Len(out) + 1
                    /\ Append(out, f)[Len(out) + 1] = f
      BY <1>2, Sums
    <2>4. PICK t \in Streams : SendData(t) \/ AnswerStreamError \/ Acknowledge
      BY <1>2, <2>1, <2>3 DEF Next, Reader, ReceiveUpdate, ReceiveReset, ReceiveSettings,
         AdjustWindow, ClientReceive, ClientCredit, ClientReset, ClientSettings, ClientSends,
         Handler, Begin, AcquireStream, LookForMore, AcquireRest, AcquireConnection, Record, vars
    <2>5. ASSUME NEW f, out' = Append(out, f) PROVE f.kind = "DATA" /\ f.stream = s
      BY <1>2, <2>3, <2>5 DEF QueuesData
    <2>6. ~ AnswerStreamError /\ ~ Acknowledge
      BY <2>1, <2>5 DEF AnswerStreamError, Acknowledge, Rst, Ack
    <2>7. SendData(t)
      BY <2>4, <2>6
    <2>8. t = s
      BY <2>1, <2>5, <2>7 DEF SendData, Data
    <2> QED  BY <2>1, <2>2, <2>7, <2>8 DEF SendData
  <1>3. ASSUME IInv, [Next]_vars
        PROVE  \A s \in Streams : Closed(s) =>
                 /\ writer[s].pc \notin {"conn", "send"} => writer'[s].pc \notin {"conn", "send"}
                 /\ QueuesData(s) => writer[s].pc = "send" /\ writer'[s].pc = "record"
    BY <1>1, <1>2, <1>3
  <1> QED  BY <1>3, Invariance, PTL DEF Spec, QuietAfterClose

=============================================================================

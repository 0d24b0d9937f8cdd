--------------------------- MODULE ConnStreamsProofs ---------------------------
(***************************************************************************)
(* The streams of a connection, for any number of identifiers and any      *)
(* limit.  One inductive invariant carries all theorems: the checked ones  *)
(* and what they rest on, in Known.                                        *)
(***************************************************************************)
EXTENDS ConnStreams, Frames, PriorityTree, FiniteSetTheorems, TLAPS

\* The part of TypeOK about streams, without the reader's own position.
StreamTypes ==
    /\ table \subseteq Ids /\ peerRST \subseteq Ids /\ parsed \subseteq Ids
    /\ ended \subseteq Ids /\ resets \subseteq Ids
    /\ refused \subseteq Ids /\ cutOff \subseteq Ids
    /\ state \in [Ids -> {"idle", "open", "halfClosedLocal", "halfClosedRemote", "closed"}]
    /\ inbound \in Nat /\ highest \in 0..MaxId /\ lastProcessed \in 0..MaxId
    /\ running \in [Ids -> Nat] /\ started \in [Ids -> 0..MaxStarts]
    /\ sending \in [Ids -> Nat] /\ noting \in [Ids -> Nat]
    /\ alive \in BOOLEAN

\* What is known of a stream: only created ones are in the table and have handlers, a
\* refused one lies below the horizon, and one the client has reset is closed for good.
Known ==
    /\ table \subseteq Created /\ ended \subseteq Created
    /\ \A id \in refused : id <= highest
    /\ \A id \in Ids : /\ running[id] <= started[id] /\ (started[id] > 0 => id \in Created)
                       /\ sending[id] + noting[id] <= running[id]
    /\ \A id \in peerRST : id \notin table /\ state[id] \in {"idle", "closed"}

\* Why a stream has one handler: unless the server has reset it, its first header block
\* was parsed, and once its request has ended it takes no further block.
Orderly ==
    /\ OneHandler
    /\ alive => \A id \in Created \ resets :
         id \in parsed /\ (id \in ended => state[id] \in {"halfClosedRemote", "closed"})

Core == StreamTypes /\ CountMatchesTable /\ HorizonsAgree /\ Known /\ Orderly

\* The reader's position: the stream of a DATA frame in hand stays in the table.
ReaderInv ==
    /\ assembly \in [id : Ids \union {0}, end : BOOLEAN]
    /\ rd \in [pc : {"top", "handle", "end"}, id : Ids \union {0}, fits : BOOLEAN, end : BOOLEAN]
    /\ rd.pc # "top" => rd.id \in table

IInv == Core /\ ReaderInv

\* What StreamsAssumption says, spelt out.
LEMMA Constants == MaxId \in Nat /\ Limit \in Nat /\ MaxStarts \in Nat \ {0}
  BY StreamsAssumption DEF StreamsAssumption

\* c.streams is finite, so its cardinality counts.
LEMMA TableIsFinite == ASSUME table \subseteq Ids PROVE IsFiniteSet(table)
<1>1. IsFiniteSet(Ids)
  BY Constants, FS_Interval DEF Ids
<1>2. QED
  BY <1>1, FS_Subset

\* Steps that change no stream: an error, RST_STREAM queued, or nothing.
Quiet ==
    /\ UNCHANGED <<tableVars, streamVars, handlerVars, peerRST>>
    /\ resets \subseteq resets' /\ resets' \subseteq Ids
    /\ alive' \in BOOLEAN /\ (alive' => alive)

\* What the connection knows of its streams survives such a step.
LEMMA QuietKeepsCore == ASSUME Core, Quiet PROVE Core'
<1> USE DEF Core, Quiet, tableVars, streamVars, handlerVars, endVars
<1>1. StreamTypes'
  BY DEF StreamTypes
<1>2. CountMatchesTable'
  BY DEF CountMatchesTable
<1>3. HorizonsAgree'
  BY DEF HorizonsAgree, Created
<1>4. Known'
  BY DEF Known, Created
<1>5. Orderly'
  BY DEF Orderly, OneHandler, Created
<1>6. QED
  BY <1>1, <1>2, <1>3, <1>4, <1>5

\* An error, a queued RST_STREAM and an ignored frame are such steps.
LEMMA QuietSteps ==
    ASSUME Core, NEW id \in Ids, Die \/ QueueRST(id) \/ Ignore
    PROVE  Quiet
<1>1. resets \subseteq Ids /\ alive \in BOOLEAN
  BY DEF Core, StreamTypes
<1>2. CASE Die
  BY <1>1, <1>2 DEF Die, Quiet
<1>3. CASE QueueRST(id)
  BY <1>1, <1>3 DEF QueueRST, Quiet
<1>4. CASE Ignore
  BY <1>1, <1>4 DEF Ignore, Quiet
<1>5. QED
  BY <1>2, <1>3, <1>4

\* The invariant holds when the connection is set up.
LEMMA InitIInv == Init => IInv
<1> SUFFICES ASSUME Init PROVE IInv
  OBVIOUS
<1> USE Constants DEF Init
<1>1. StreamTypes
  BY DEF StreamTypes, Ids
<1>2. CountMatchesTable
  BY FS_EmptySet DEF CountMatchesTable
<1>3. HorizonsAgree
  BY DEF HorizonsAgree, Created
<1>4. Known
  BY DEF Known, Created
<1>5. Orderly
  BY DEF Orderly, OneHandler, Created
<1>6. ReaderInv
  BY DEF ReaderInv, NoBlock, AtTop
<1>7. QED
  BY <1>1, <1>2, <1>3, <1>4, <1>5, <1>6 DEF IInv, Core

\* What Dispatch may do: at most one handler is started, on the stream itself, and a stream
\* that comes out of it unscathed has its block parsed.
LEMMA DispatchFacts ==
    ASSUME StreamTypes, NEW id \in Ids, NEW headers \in Blocks, alive,
           started[id] >= StartsOf(id) => headers.pseudo # "good",
           Dispatch(id, headers)
    PROVE  /\ parsed \subseteq parsed' /\ parsed' \subseteq Ids
           /\ resets \subseteq resets' /\ resets' \subseteq Ids
           /\ running' \in [Ids -> Nat] /\ started' \in [Ids -> 0..MaxStarts]
           /\ alive' \in BOOLEAN
           /\ \A j \in Ids \ {id} : running'[j] = running[j] /\ started'[j] = started[j]
           /\ \/ running'[id] = running[id] /\ started'[id] = started[id]
              \/ /\ running'[id] = running[id] + 1 /\ started'[id] = started[id] + 1
                 /\ alive' /\ resets' = resets
           /\ (id \notin resets' /\ alive') =>
                id \in parsed' /\ headers.length /\ headers.pseudo = "good"
<1> USE DEF StreamTypes
<1>0. headers.length \in BOOLEAN /\ headers.pseudo \in {"good", "bad", "none"}
  BY DEF Blocks
<1>1. CASE ~headers.length
  BY <1>1 DEF Dispatch
<1>2. CASE headers.length /\ headers.pseudo = "good"
  <2>1. started[id] + 1 \in 0..MaxStarts /\ running[id] + 1 \in Nat
    BY <1>2, Constants DEF StartsOf
  <2>2. /\ running' = [running EXCEPT ![id] = @ + 1]
        /\ started' = [started EXCEPT ![id] = @ + 1]
        /\ parsed' = parsed \union {id} /\ alive' = TRUE /\ resets' = resets
    BY <1>2 DEF Dispatch
  <2>3. QED
    BY <1>2, <2>1, <2>2
<1>3. CASE headers.length /\ headers.pseudo # "good"
  <2>1. /\ parsed' = parsed \union {id} /\ alive' = (headers.pseudo # "none")
        /\ resets' = IF headers.pseudo = "bad" THEN resets \union {id} ELSE resets
        /\ UNCHANGED <<running, started>>
    BY <1>3 DEF Dispatch
  <2>2. alive' => id \in resets'
    BY <1>0, <1>3, <2>1
  <2>3. QED
    BY <1>3, <2>1, <2>2
<1>4. QED
  BY <1>0, <1>1, <1>2, <1>3

\* A header block for a stream of the table.
LEMMA MoreHeadersKeepsCore ==
    ASSUME Core, NEW id \in table \ peerRST, NEW headers \in Blocks, NEW end \in BOOLEAN, alive,
           started[id] >= StartsOf(id) => headers.pseudo # "good",
           MoreHeaders(id, headers, end)
    PROVE  Core' /\ table' = table
<1>0. id \in Ids
  BY DEF Core, StreamTypes
<1>1. CASE Die \/ QueueRST(id)
  BY <1>0, <1>1, QuietSteps, QuietKeepsCore DEF Quiet, tableVars
<1>2. CASE /\ ~(IsTrailers(id, end) /\ headers.pseudo # "none")
           /\ state[id] \notin {"halfClosedRemote", "closed"} /\ end
           /\ Dispatch(id, headers)
           /\ ended' = IF headers.length THEN ended \union {id} ELSE ended
           /\ cutOff' = IF headers.length THEN cutOff \union {id} ELSE cutOff
           /\ UNCHANGED <<tableVars, state, peerRST, endVars>>
  <2> USE DEF Core
  <2>1. UNCHANGED <<table, inbound, highest, lastProcessed, refused, state, peerRST, endVars>>
    BY <1>2 DEF tableVars
  <2>2. StreamTypes'
    BY <1>0, <1>2, <2>1, DispatchFacts DEF StreamTypes, endVars
  <2>3. CountMatchesTable'
    BY <2>1 DEF CountMatchesTable
  <2>4. HorizonsAgree'
    BY <2>1 DEF HorizonsAgree, Created
  <2>5. Known'
    <3>1. id \in Created
      BY DEF Known
    <3>2. \A j \in Ids : /\ running'[j] <= started'[j] /\ (started'[j] > 0 => j \in Created)
                         /\ sending'[j] + noting'[j] <= running'[j]
      BY <1>0, <1>2, <2>1, <3>1, DispatchFacts DEF Known, StreamTypes, endVars
    <3>3. QED
      BY <1>2, <2>1, <3>1, <3>2 DEF Known, Created
  <2>6. Orderly'
    <3>1. id \notin resets' /\ alive' => id \in parsed \ ended /\ id \notin resets
      BY <1>0, <1>2, DispatchFacts DEF Orderly, Known, Created
    <3>2. id \notin resets' /\ alive' => FALSE
      BY <1>0, <1>2, <3>1, DispatchFacts DEF IsTrailers
    <3>3. ASSUME NEW j \in Ids \ resets' PROVE started'[j] <= 1
      <4>1. started'[j] = started[j] /\ j \notin resets
        BY <1>0, <1>2, <3>2, DispatchFacts
      <4>2. QED
        BY <4>1 DEF Orderly, OneHandler
    <3>4. \A j \in Created \ resets' : alive' =>
            j \in parsed' /\ (j \in ended' => state[j] \in {"halfClosedRemote", "closed"})
      BY <1>0, <1>2, <3>2, DispatchFacts DEF Orderly
    <3>5. QED
      BY <2>1, <3>3, <3>4 DEF Orderly, OneHandler, Created
  <2>7. QED
    BY <2>1, <2>2, <2>3, <2>4, <2>5, <2>6
<1>3. QED
  BY <1>1, <1>2 DEF MoreHeaders

\* A header block for a stream that is not in the table.
LEMMA FirstHeadersKeepsCore ==
    ASSUME Core, NEW id \in Ids, id \notin table, id \notin peerRST,
           NEW headers \in Blocks, NEW end \in BOOLEAN, alive,
           started[id] >= StartsOf(id) => headers.pseudo # "good",
           FirstHeaders(id, headers, end)
    PROVE  Core'
<1>1. CASE Die
  BY <1>1, QuietSteps, QuietKeepsCore
<1>2. CASE /\ id > highest /\ highest' = id
           /\ refused' = refused \union {id}
           /\ resets' = resets \union {id}
           /\ UNCHANGED <<table, inbound, lastProcessed, streamVars, handlerVars, peerRST, alive>>
  <2> USE <1>2 DEF Core, streamVars, handlerVars, endVars
  <2>1. StreamTypes'
    BY DEF StreamTypes, Ids
  <2>2. CountMatchesTable'
    BY DEF CountMatchesTable
  <2>3. HorizonsAgree'
    BY DEF HorizonsAgree, Created, StreamTypes, Ids
  <2>4. Known'
    BY DEF Known, Created, StreamTypes, Ids
  <2>5. Orderly'
    BY DEF Orderly, OneHandler, Created
  <2>6. QED
    BY <2>1, <2>2, <2>3, <2>4, <2>5
<1>3. CASE /\ id > highest /\ highest' = id /\ MayCreate
           /\ Create(id, end)
           /\ ended' = IF end THEN ended \union {id} ELSE ended
           /\ Dispatch(id, headers)
           /\ UNCHANGED <<refused, cutOff, peerRST, endVars>>
  <2> USE DEF Core
  <2>1. /\ id > lastProcessed /\ id \notin Created /\ id \notin refused
        /\ id \notin ended /\ started[id] = 0 /\ running[id] = 0
    BY <1>3 DEF HorizonsAgree, Created, StreamTypes, Ids, Known
  <2>2. /\ table' = table \union {id} /\ inbound' = inbound + 1 /\ lastProcessed' = id
        /\ state' = [state EXCEPT ![id] = IF end THEN "halfClosedRemote" ELSE "open"]
        /\ Created' = Created \union {id}
    <3>1. /\ table' = table \union {id} /\ inbound' = inbound + 1 /\ lastProcessed' = id
          /\ state' = [state EXCEPT ![id] = IF end THEN "halfClosedRemote" ELSE "open"]
      BY <1>3, <2>1 DEF Create
    <3>2. Created' = Created \union {id}
      BY <3>1 DEF Created, StreamTypes
    <3>3. QED
      BY <3>1, <3>2
  <2>3. StreamTypes'
    <3>1. /\ started' \in [Ids -> 0..MaxStarts] /\ running' \in [Ids -> Nat]
          /\ parsed' \subseteq Ids /\ resets' \subseteq Ids /\ alive' \in BOOLEAN
      BY <1>3, DispatchFacts
    <3>2. ended' \subseteq Ids
      BY <1>3 DEF StreamTypes
    <3>3. highest' \in 0..MaxId /\ lastProcessed' \in 0..MaxId
      BY <1>3, <2>2, Constants DEF Ids
    <3>4. /\ table' \subseteq Ids /\ inbound' \in Nat
          /\ state' \in [Ids -> {"idle", "open", "halfClosedLocal", "halfClosedRemote", "closed"}]
      BY <2>2 DEF StreamTypes
    <3>5. UNCHANGED <<refused, cutOff, peerRST, sending, noting>>
      BY <1>3 DEF endVars
    <3>6. QED
      BY <3>1, <3>2, <3>3, <3>4, <3>5 DEF StreamTypes
  <2>4. CountMatchesTable'
    <3>1. Cardinality(table \union {id}) = Cardinality(table) + 1
      BY TableIsFinite, FS_AddElement DEF StreamTypes
    <3>2. inbound' = Cardinality(table')
      BY <2>2, <3>1 DEF CountMatchesTable
    <3>3. inbound' <= Limit
      BY <1>3, <2>2, Constants DEF MayCreate, StreamTypes
    <3>4. QED
      BY <3>2, <3>3 DEF CountMatchesTable
  <2>5. HorizonsAgree'
    BY <1>3, <2>1, <2>2 DEF HorizonsAgree, StreamTypes, Ids, Known
  <2>6. Known'
    <3>1. \A j \in Ids : /\ running'[j] <= started'[j] /\ (started'[j] > 0 => j \in Created')
                         /\ sending'[j] + noting'[j] <= running'[j]
      BY <1>3, <2>1, <2>2, DispatchFacts DEF Known, StreamTypes, endVars
    <3>2. \A j \in refused' : j <= highest'
      BY <1>3 DEF Known, StreamTypes, Ids
    <3>3. ended' \subseteq Created'
      BY <1>3, <2>2 DEF Known
    <3>4. \A j \in peerRST' : j \notin table' /\ state'[j] \in {"idle", "closed"}
      BY <1>3, <2>2 DEF Known, StreamTypes
    <3>5. QED
      BY <2>2, <3>1, <3>2, <3>3, <3>4 DEF Known
  <2>7. Orderly'
    <3>1. OneHandler'
      BY <1>3, <2>1, DispatchFacts DEF Orderly, OneHandler, StreamTypes
    <3>2. ASSUME NEW j \in Created' \ resets', alive'
          PROVE  j \in parsed' /\ (j \in ended' => state'[j] \in {"halfClosedRemote", "closed"})
      <4>1. CASE j = id
        <5>1. j \in parsed'
          BY <1>3, <3>2, <4>1, DispatchFacts
        <5>2. j \in ended' => end
          BY <1>3, <2>1, <4>1
        <5>3. state'[j] = IF end THEN "halfClosedRemote" ELSE "open"
          BY <2>2, <4>1 DEF StreamTypes
        <5>4. QED
          BY <5>1, <5>2, <5>3
      <4>2. CASE j # id
        BY <1>3, <2>2, <3>2, <4>2, DispatchFacts DEF StreamTypes, Orderly, Created
      <4>3. QED
        BY <4>1, <4>2
    <3>3. QED
      BY <3>1, <3>2 DEF Orderly
  <2>8. QED
    BY <2>3, <2>4, <2>5, <2>6, <2>7
<1>4. CASE id <= highest
  BY <1>1, <1>4 DEF FirstHeaders
<1>5. CASE id > highest
  <2>1. ~(id <= highest)
    BY <1>5 DEF Core, StreamTypes, Ids
  <2>2. CASE MayCreate
    BY <1>3, <1>5, <2>1, <2>2 DEF FirstHeaders
  <2>3. CASE ~MayCreate
    BY <1>2, <1>5, <2>1, <2>3 DEF FirstHeaders
  <2>4. QED
    BY <2>2, <2>3
<1>6. id \in Int /\ highest \in Int
  BY DEF Core, StreamTypes, Ids
<1>7. QED
  BY <1>4, <1>5, <1>6

\* Any outcome of a complete header block keeps what is known of the streams.
LEMMA CompleteBlockKeepsCore ==
    ASSUME Core, NEW id \in Ids, NEW end \in BOOLEAN, alive, CompleteBlock(id, end)
    PROVE  Core'
<1>1. CASE Die \/ QueueRST(id)
  BY <1>1, QuietSteps, QuietKeepsCore
<1>2. ASSUME NEW headers \in Blocks, started[id] >= StartsOf(id) => headers.pseudo # "good",
             id \notin peerRST, id \in table, MoreHeaders(id, headers, end)
      PROVE  Core'
  BY <1>2, MoreHeadersKeepsCore
<1>3. ASSUME NEW headers \in Blocks, started[id] >= StartsOf(id) => headers.pseudo # "good",
             id \notin peerRST, id \notin table, FirstHeaders(id, headers, end)
      PROVE  Core'
  BY <1>3, FirstHeadersKeepsCore
<1>4. QED
  BY <1>1, <1>2, <1>3 DEF CompleteBlock

\* Steps that leave the table alone and move streams on from states other than idle.
LEMMA SameTable ==
    ASSUME Core, UNCHANGED <<tableVars, peerRST>>,
           \A id \in Ids : \/ state'[id] = state[id]
                           \/ /\ id \in Created
                              /\ state'[id] # "idle" /\ (state[id] = "closed" => state'[id] = "closed")
    PROVE  Created' = Created /\ CountMatchesTable' /\ HorizonsAgree'
<1> USE DEF Core, tableVars
<1>1. Created' = Created
  BY DEF Created
<1>2. CountMatchesTable'
  BY DEF CountMatchesTable
<1>3. HorizonsAgree'
  BY <1>1 DEF HorizonsAgree, Created
<1>4. QED
  BY <1>1, <1>2, <1>3

\* The first part of handleDataFrame keeps the invariant.
LEMMA HandleDataKeepsIInv == ASSUME IInv, HandleData PROVE IInv'
<1> USE DEF IInv, Core
<1>1. rd.id \in table /\ rd.id \in Ids /\ rd.id \in Created
  BY DEF HandleData, ReaderInv, StreamTypes, Known
<1>2. table' = table
  BY DEF HandleData, QueueRST, Die, Ignore, tableVars
<1>3. ReaderInv'
  <2>1. rd' = AtTop \/ rd' = [rd EXCEPT !.pc = "end"]
    BY DEF HandleData
  <2>2. CASE rd' = AtTop
    BY <2>2 DEF HandleData, ReaderInv, AtTop
  <2>3. CASE rd' = [rd EXCEPT !.pc = "end"]
    <3>1. rd'.id \in table' /\ UNCHANGED assembly
      BY <1>1, <1>2, <2>3 DEF HandleData, ReaderInv
    <3>2. QED
      BY <2>3, <3>1 DEF ReaderInv
  <2>4. QED
    BY <2>1, <2>2, <2>3
<1>4. CASE Die \/ QueueRST(rd.id) \/ Ignore
  BY <1>1, <1>3, <1>4, QuietSteps, QuietKeepsCore
<1>5. CASE /\ resets' = resets \union {rd.id}
           /\ ended' \in {ended, IF rd.end THEN ended \union {rd.id} ELSE ended}
           /\ UNCHANGED <<tableVars, state, parsed, cutOff, handlerVars, peerRST, alive>>
  <2>1. Created' = Created /\ CountMatchesTable' /\ HorizonsAgree'
    BY <1>5, SameTable
  <2>2. StreamTypes'
    BY <1>1, <1>5 DEF StreamTypes, tableVars, handlerVars, endVars
  <2>3. Known'
    BY <1>1, <1>5, <2>1 DEF Known, tableVars, handlerVars, endVars
  <2>4. Orderly'
    BY <1>1, <1>5, <2>1 DEF Orderly, OneHandler, handlerVars, endVars
  <2>5. QED
    BY <1>3, <2>1, <2>2, <2>3, <2>4
<1>6. QED
  BY <1>4, <1>5 DEF HandleData

\* Its END_STREAM part keeps the invariant, also on a stream a panic has closed.
LEMMA EndStreamKeepsIInv == ASSUME IInv, EndStream PROVE IInv'
<1> USE DEF IInv, Core, EndStream
<1>1. rd.id \in table /\ rd.id \in Ids /\ rd.id \in Created /\ rd.id \notin peerRST
  BY DEF ReaderInv, StreamTypes, Known
<1>2. /\ \A id \in Ids \ {rd.id} : state'[id] = state[id]
      /\ state'[rd.id] \in {"halfClosedRemote", "closed"}
      /\ state[rd.id] = "closed" => state'[rd.id] = "closed"
  BY <1>1 DEF StreamTypes
<1>3. Created' = Created /\ CountMatchesTable' /\ HorizonsAgree'
  BY <1>1, <1>2, SameTable
<1>4. StreamTypes'
  BY <1>1 DEF StreamTypes, tableVars, handlerVars, endVars
<1>5. Known'
  BY <1>1, <1>2, <1>3 DEF Known, tableVars, handlerVars, endVars
<1>6. Orderly'
  BY <1>1, <1>2, <1>3 DEF Orderly, OneHandler, handlerVars, endVars, Created
<1>7. ReaderInv'
  BY <1>1 DEF ReaderInv, AtTop
<1>8. QED
  BY <1>3, <1>4, <1>5, <1>6, <1>7

\* RST_STREAM keeps the invariant, repeated or for a stream not in the table too.
LEMMA ReceiveResetKeepsIInv == ASSUME IInv, ReceiveReset PROVE IInv'
<1> USE DEF IInv, Core
<1>1. /\ rd.pc = "top" /\ alive
      /\ UNCHANGED <<highest, lastProcessed, refused, parsed, ended, cutOff, handlerVars,
                     assembly, rd, resets>>
  BY DEF ReceiveReset, Reading
<1>2. PICK id \in Ids :
        /\ peerRST' = peerRST \union {id}
        /\ IF id \in table
           THEN Remove(id) /\ state' = [state EXCEPT ![id] = "closed"] /\ UNCHANGED alive
           ELSE alive' = (id <= highest) /\ UNCHANGED <<table, inbound, state>>
  BY DEF ReceiveReset
<1>3. ReaderInv'
  BY <1>1 DEF ReaderInv
<1>4. CASE id \in table
  <2>1. IsFiniteSet(table) /\ Cardinality(table) > 0
    BY <1>4, TableIsFinite, FS_CardinalityType, FS_EmptySet DEF StreamTypes
  <2>2. /\ table' = table \ {id} /\ inbound' = inbound - 1
        /\ state' = [state EXCEPT ![id] = "closed"] /\ alive' = alive
    BY <1>2, <1>4, <2>1 DEF Remove, CountMatchesTable
  <2>3. Created' = Created
    BY <1>4, <2>2 DEF Known, Created, StreamTypes
  <2>4. StreamTypes'
    BY <1>1, <1>2, <2>1, <2>2 DEF StreamTypes, handlerVars, endVars, CountMatchesTable
  <2>5. CountMatchesTable'
    <3>1. Cardinality(table \ {id}) = Cardinality(table) - 1
      BY <1>4, <2>1, FS_RemoveElement
    <3>2. inbound = Cardinality(table) /\ inbound <= Limit /\ inbound \in Nat /\ Limit \in Nat
      BY Constants DEF CountMatchesTable, StreamTypes
    <3>3. QED
      BY <2>2, <3>1, <3>2 DEF CountMatchesTable
  <2>6. HorizonsAgree'
    BY <1>1, <1>2, <1>4, <2>2, <2>3 DEF HorizonsAgree, StreamTypes
  <2>7. Known'
    BY <1>1, <1>2, <2>2, <2>3 DEF Known, StreamTypes, handlerVars, endVars
  <2>8. Orderly'
    BY <1>1, <1>2, <2>2, <2>3 DEF Orderly, OneHandler, StreamTypes, handlerVars, endVars, Created
  <2>9. QED
    BY <1>3, <2>4, <2>5, <2>6, <2>7, <2>8
<1>5. CASE id \notin table
  <2>1. /\ UNCHANGED <<table, inbound, state>>
        /\ alive' \in BOOLEAN /\ (alive' => alive)
    BY <1>1, <1>2, <1>5 DEF StreamTypes, Ids
  <2>2. Created' = Created
    BY <2>1 DEF Created
  <2>3. state[id] \in {"idle", "closed"}
    BY <1>5 DEF HorizonsAgree, Created
  <2>4. StreamTypes'
    BY <1>1, <1>2, <2>1 DEF StreamTypes, handlerVars, endVars
  <2>5. CountMatchesTable' /\ HorizonsAgree'
    BY <1>1, <1>2, <2>1, <2>2 DEF CountMatchesTable, HorizonsAgree
  <2>6. Known'
    BY <1>1, <1>2, <1>5, <2>1, <2>2, <2>3 DEF Known, handlerVars, endVars
  <2>7. Orderly'
    BY <1>1, <2>1, <2>2 DEF Orderly, OneHandler, handlerVars, endVars
  <2>8. QED
    BY <1>3, <2>4, <2>5, <2>6, <2>7
<1>6. QED
  BY <1>4, <1>5

\* What a step of a handler does: to the handlers of its stream, and to the state.
LEMMA HandlerFacts ==
    ASSUME IInv, NEW id \in Ids, Handler(id)
    PROVE  /\ HandlerOnly /\ id \in Created
           /\ running' \in [Ids -> Nat] /\ sending' \in [Ids -> Nat] /\ noting' \in [Ids -> Nat]
           /\ state' \in [Ids -> {"idle", "open", "halfClosedLocal", "halfClosedRemote", "closed"}]
           /\ \A j \in Ids \ {id} : /\ state'[j] = state[j] /\ running'[j] = running[j]
                                    /\ sending'[j] = sending[j] /\ noting'[j] = noting[j]
           /\ running'[id] <= running[id] /\ sending'[id] + noting'[id] <= running'[id]
           /\ state'[id] # "idle"
           /\ state[id] = "closed" => state'[id] = "closed"
           /\ state[id] = "halfClosedRemote" => state'[id] \in {"halfClosedRemote", "closed"}
           /\ resets \subseteq resets' /\ resets' \subseteq Ids
           /\ noting'[id] > noting[id] => sending'[id] < sending[id]
           /\ sending'[id] > sending[id] => state[id] \in {"open", "halfClosedRemote"}
<1> DEFINE States == {"idle", "open", "halfClosedLocal", "halfClosedRemote", "closed"}
<1>1. /\ running \in [Ids -> Nat] /\ sending \in [Ids -> Nat] /\ noting \in [Ids -> Nat]
      /\ state \in [Ids -> States] /\ resets \subseteq Ids
      /\ started[id] \in Nat /\ running[id] <= started[id]
      /\ sending[id] + noting[id] <= running[id]
      /\ started[id] > 0 => id \in Created
  BY Constants DEF IInv, Core, StreamTypes, Known
<1>2. CASE HandlerChecks(id)
  BY <1>1, <1>2 DEF HandlerChecks, Free, Created
<1>3. CASE HandlerSends(id)
  BY <1>1, <1>3 DEF HandlerSends, Created
<1>4. CASE HandlerNotes(id)
  BY <1>1, <1>4 DEF HandlerNotes, Created
<1>5. CASE HandlerReturns(id)
  BY <1>1, <1>5 DEF HandlerReturns, Free, Created
<1>6. CASE HandlerPanics(id)
  BY <1>1, <1>6 DEF HandlerPanics, Free, Created
<1>7. QED
  BY <1>2, <1>3, <1>4, <1>5, <1>6 DEF Handler

\* A step of a handler keeps the invariant.
LEMMA HandlerKeepsIInv == ASSUME IInv, NEW id \in Ids, Handler(id) PROVE IInv'
<1> USE DEF IInv, Core
<1>1. /\ UNCHANGED <<table, inbound, highest, lastProcessed, refused, parsed, ended, cutOff>>
      /\ UNCHANGED <<peerRST, assembly, rd, alive, started>>
  BY HandlerFacts DEF HandlerOnly, tableVars
<1>2. Created' = Created /\ CountMatchesTable' /\ HorizonsAgree'
  BY <1>1, HandlerFacts, SameTable DEF tableVars
<1>3. StreamTypes'
  BY <1>1, HandlerFacts DEF StreamTypes
<1>4. Known'
  <2>1. \A j \in Ids : /\ running'[j] <= started'[j] /\ (started'[j] > 0 => j \in Created')
                       /\ sending'[j] + noting'[j] <= running'[j]
    <3>1. running[id] \in Nat /\ running'[id] \in Nat /\ started[id] \in Nat
      BY HandlerFacts, Constants DEF StreamTypes
    <3>2. running'[id] <= started[id]
      BY <3>1, HandlerFacts DEF Known
    <3>3. QED
      BY <1>1, <1>2, <3>2, HandlerFacts DEF Known
  <2>2. \A j \in peerRST : j \notin table /\ state'[j] \in {"idle", "closed"}
    BY HandlerFacts DEF Known, Created, StreamTypes
  <2>3. QED
    BY <1>1, <1>2, <2>1, <2>2 DEF Known
<1>5. Orderly'
  BY <1>1, <1>2, HandlerFacts DEF Orderly, OneHandler, Created
<1>6. ReaderInv'
  BY <1>1 DEF ReaderInv
<1>7. QED
  BY <1>2, <1>3, <1>4, <1>5, <1>6

\* The invariant is inductive.
LEMMA NextKeepsIInv == ASSUME IInv, [Next]_vars PROVE IInv'
<1> USE DEF IInv
<1>1. CASE ReceiveHeaders
  <2>1. PICK id \in Ids, end \in BOOLEAN :
          \/ CompleteBlock(id, end) /\ UNCHANGED assembly
          \/ Ignore /\ assembly' = [id |-> id, end |-> end]
    BY <1>1 DEF ReceiveHeaders
  <2>2. Core'
    BY <1>1, <2>1, CompleteBlockKeepsCore, QuietSteps, QuietKeepsCore DEF ReceiveHeaders, Reading
  <2>3. QED
    BY <1>1, <2>1, <2>2 DEF ReceiveHeaders, Reading, ReaderInv
<1>2. CASE ReceiveContinuation
  <2>1. PICK id \in Ids :
          IF assembly.id # id THEN Die /\ UNCHANGED assembly
          ELSE CompleteBlock(id, assembly.end) /\ assembly' = NoBlock
    BY <1>2 DEF ReceiveContinuation
  <2>2. Core'
    BY <1>2, <2>1, CompleteBlockKeepsCore, QuietSteps, QuietKeepsCore
       DEF ReceiveContinuation, ReaderInv
  <2>3. (assembly' = assembly \/ assembly' = NoBlock) /\ rd' = rd /\ rd.pc = "top"
    BY <1>2, <2>1 DEF ReceiveContinuation
  <2>4. assembly' \in [id : Ids \union {0}, end : BOOLEAN]
    <3>1. CASE assembly' = assembly
      BY <3>1 DEF ReaderInv
    <3>2. CASE assembly' = NoBlock
      BY <3>2 DEF NoBlock
    <3>3. QED
      BY <2>3, <3>1, <3>2
  <2>5. QED
    BY <2>2, <2>3, <2>4 DEF ReaderInv
<1>3. CASE Interrupt
  <2>1. Core'
    BY <1>3, QuietKeepsCore DEF Interrupt, Die, Quiet, Core, StreamTypes
  <2>2. QED
    BY <1>3, <2>1 DEF Interrupt, ReaderInv, NoBlock
<1>4. CASE ReceiveOversized
  <2>1. Core'
    BY <1>4, QuietSteps, QuietKeepsCore DEF ReceiveOversized
  <2>2. QED
    BY <1>4, <2>1 DEF ReceiveOversized, ReaderInv
<1>5. CASE ReceiveData
  <2>1. PICK id \in Ids :
          \/ (Die \/ QueueRST(id)) /\ UNCHANGED rd
          \/ /\ id \in table /\ Ignore
             /\ rd' \in [pc : {"handle"}, id : {id}, fits : BOOLEAN, end : BOOLEAN]
    BY <1>5 DEF ReceiveData
  <2>2. Core'
    BY <2>1, QuietSteps, QuietKeepsCore
  <2>3. table' = table /\ UNCHANGED assembly
    BY <1>5, <2>1 DEF ReceiveData, Die, QueueRST, Ignore, tableVars
  <2>4. QED
    BY <2>1, <2>2, <2>3 DEF ReaderInv
<1>6. CASE HandleData
  BY <1>6, HandleDataKeepsIInv
<1>7. CASE EndStream
  BY <1>7, EndStreamKeepsIInv
<1>8. CASE ReceiveReset
  BY <1>8, ReceiveResetKeepsIInv
<1>9. ASSUME NEW id \in Ids, Handler(id) PROVE IInv'
  BY <1>9, HandlerKeepsIInv
<1>10. CASE UNCHANGED vars
  <2>1. Core'
    BY <1>10, QuietKeepsCore DEF vars, Quiet, Core, StreamTypes
  <2>2. QED
    BY <1>10, <2>1 DEF vars, tableVars, ReaderInv
<1>11. QED
  BY <1>1, <1>2, <1>3, <1>4, <1>5, <1>6, <1>7, <1>8, <1>9, <1>10 DEF Next, Reader

\* IInv holds in every state.
THEOREM Inductive == Spec => []IInv
<1>1. IInv /\ [Next]_vars => IInv'
  BY NextKeepsIInv
<1>2. QED
  BY InitIInv, <1>1, PTL DEF Spec

-----------------------------------------------------------------------------
\* Every variable keeps its type; handlers that run were started.
THEOREM TypeCorrect == Spec => []TypeOK
<1>1. IInv => TypeOK
  <2> SUFFICES ASSUME IInv PROVE TypeOK
    OBVIOUS
  <2>1. ASSUME NEW id \in Ids
        PROVE  /\ running[id] \in 0..MaxStarts /\ sending[id] \in 0..MaxStarts
               /\ noting[id] \in 0..MaxStarts
    BY Constants DEF IInv, Core, Known, StreamTypes
  <2>2. /\ running \in [Ids -> 0..MaxStarts] /\ sending \in [Ids -> 0..MaxStarts]
        /\ noting \in [Ids -> 0..MaxStarts]
    BY <2>1 DEF IInv, Core, StreamTypes
  <2>3. QED
    BY <2>2 DEF TypeOK, IInv, Core, StreamTypes, ReaderInv
<1>2. QED
  BY Inductive, <1>1, PTL

\* concurrentStreamsInbound is the size of the table and within the limit, for every limit.
THEOREM CountIsExact == Spec => []CountMatchesTable
<1>1. IInv => CountMatchesTable
  BY DEF IInv, Core
<1>2. QED
  BY Inductive, <1>1, PTL

\* The horizons by which the frame handlers tell idle from closed streams agree.
THEOREM HorizonsAlwaysAgree == Spec => []HorizonsAgree
<1>1. IInv => HorizonsAgree
  BY DEF IInv, Core
<1>2. QED
  BY Inductive, <1>1, PTL

\* No stream that the server has not reset has had two handlers.
THEOREM NoSecondHandler == Spec => []OneHandler
<1>1. IInv => OneHandler
  BY DEF IInv, Core, Orderly
<1>2. QED
  BY Inductive, <1>1, PTL

-----------------------------------------------------------------------------
\* What a header block may do to the table and to the handlers.
LEMMA CompleteBlockFacts ==
    ASSUME Core, NEW id \in Ids, NEW end \in BOOLEAN, alive, CompleteBlock(id, end)
    PROVE  /\ UNCHANGED endVars
           /\ \A j \in Ids : j # id \/ id \in peerRST => started'[j] = started[j]
           /\ table' = table \/ (table' = table \union {id} /\ id > highest)
<1>1. CASE Die \/ QueueRST(id)
  BY <1>1 DEF Die, QueueRST, tableVars, handlerVars, endVars
<1>2. ASSUME NEW headers \in Blocks, started[id] >= StartsOf(id) => headers.pseudo # "good",
             id \notin peerRST, Dispatch(id, headers), UNCHANGED endVars,
             table' = table \/ (table' = table \union {id} /\ id > highest)
      PROVE  /\ UNCHANGED endVars
             /\ \A j \in Ids : j # id \/ id \in peerRST => started'[j] = started[j]
             /\ table' = table \/ (table' = table \union {id} /\ id > highest)
  BY <1>2, DispatchFacts DEF Core
<1>3. ASSUME NEW headers \in Blocks, started[id] >= StartsOf(id) => headers.pseudo # "good",
             id \notin peerRST, MoreHeaders(id, headers, end)
      PROVE  \/ Die \/ QueueRST(id)
             \/ Dispatch(id, headers) /\ UNCHANGED endVars /\ table' = table
  BY <1>3 DEF MoreHeaders, tableVars
<1>4. ASSUME NEW headers \in Blocks, started[id] >= StartsOf(id) => headers.pseudo # "good",
             id \notin peerRST, FirstHeaders(id, headers, end)
      PROVE  \/ Die
             \/ UNCHANGED <<table, handlerVars>>
             \/ /\ Dispatch(id, headers) /\ UNCHANGED endVars
                /\ table' = table \union {id} /\ id > highest
  <2>1. CASE id <= highest
    BY <1>4, <2>1 DEF FirstHeaders
  <2>2. CASE ~(id <= highest) /\ ~MayCreate
    BY <1>4, <2>2 DEF FirstHeaders, handlerVars, endVars
  <2>3. CASE ~(id <= highest) /\ MayCreate
    <3>1. id > highest
      BY <2>3 DEF Core, StreamTypes, Ids
    <3>2. QED
      BY <1>4, <2>3, <3>1 DEF FirstHeaders, Create
  <2>4. QED
    BY <2>1, <2>2, <2>3
<1>5. QED
  BY <1>1, <1>2, <1>3, <1>4 DEF CompleteBlock, handlerVars, endVars

\* Of the ends of a response only those that handlers have in hand are still queued.
OnlyInHand(id) ==
    sending'[id] <= sending[id] /\ (noting'[id] > noting[id] => sending'[id] < sending[id])

\* Steps other than a header block's start no handler, add nothing to the table, and leave
\* a stream the client has reset to the handlers that have its end in hand.
LEMMA OtherSteps ==
    ASSUME IInv, Next, ~(ReceiveHeaders \/ ReceiveContinuation)
    PROVE  table' \subseteq table /\ started' = started
           /\ \A id \in peerRST : OnlyInHand(id)
<1> USE DEF tableVars, handlerVars, endVars
<1>0. ASSUME UNCHANGED endVars PROVE \A id \in peerRST : OnlyInHand(id)
  BY <1>0 DEF OnlyInHand, IInv, Core, StreamTypes
<1>1. CASE Interrupt \/ ReceiveOversized \/ ReceiveData
  BY <1>0, <1>1 DEF Interrupt, ReceiveOversized, ReceiveData, Die, QueueRST, Ignore
<1>2. CASE HandleData
  BY <1>0, <1>2 DEF HandleData, Die, QueueRST, Ignore
<1>3. CASE EndStream
  BY <1>0, <1>3 DEF EndStream
<1>4. CASE ReceiveReset
  BY <1>0, <1>4 DEF ReceiveReset, Remove
<1>5. ASSUME NEW id \in Ids, Handler(id)
      PROVE  /\ table' \subseteq table /\ started' = started
             /\ \A j \in peerRST : OnlyInHand(j)
  <2>1. ASSUME NEW j \in peerRST PROVE OnlyInHand(j)
    <3>1. j \in Ids /\ state[j] \in {"idle", "closed"} /\ sending[j] \in Nat /\ noting[j] \in Nat
      BY DEF IInv, Core, Known, StreamTypes
    <3>2. sending'[j] \in Nat /\ noting'[j] \in Nat
      BY <1>5, <3>1, HandlerFacts
    <3>3. QED
      BY <1>5, <3>1, <3>2, HandlerFacts DEF OnlyInHand
  <2>2. QED
    BY <1>5, <2>1, HandlerFacts DEF HandlerOnly
<1>6. QED
  BY <1>1, <1>2, <1>3, <1>4, <1>5 DEF Next, Reader

\* A stream gets an identifier above every one that was created or refused before.
THEOREM IdsAreFresh == Spec => FreshIds
<1>1. ASSUME IInv, [Next]_vars, NEW id \in table' \ table, NEW other \in Created \union refused
      PROVE  other < id
  <2>1. other <= highest /\ other \in Int /\ highest \in Int
    BY <1>1 DEF IInv, Core, HorizonsAgree, Known, StreamTypes, Ids, Created
  <2>2. PICK j \in Ids, end \in BOOLEAN : alive /\ CompleteBlock(j, end)
    BY <1>1, OtherSteps DEF vars, tableVars, ReceiveHeaders, ReceiveContinuation, Reading, Ignore,
       Die, IInv, ReaderInv
  <2>3. id > highest /\ id \in Int
    BY <1>1, <2>2, CompleteBlockFacts DEF IInv, Ids
  <2>4. QED
    BY <2>1, <2>3
<1>2. IInv /\ [Next]_vars =>
        [\A id \in table' \ table : \A other \in Created \union refused : other < id]_vars
  BY <1>1
<1>3. QED
  BY Inductive, <1>2, PTL DEF Spec, FreshIds

\* A stream the client has reset gets no further handler, and its response no end but one
\* that a handler had in hand when the reset was handled.
THEOREM ClientResetsAreFinal == Spec => ClientResetIsFinal
<1>1. ASSUME IInv, [Next]_vars, NEW id \in peerRST
      PROVE  started'[id] = started[id] /\ OnlyInHand(id)
  <2>1. id \in Ids /\ sending[id] \in Nat /\ noting[id] \in Nat
    BY <1>1 DEF IInv, Core, StreamTypes
  <2>2. CASE UNCHANGED vars
    BY <2>1, <2>2 DEF vars, handlerVars, endVars, OnlyInHand
  <2>3. CASE Next /\ ~(ReceiveHeaders \/ ReceiveContinuation)
    BY <1>1, <2>3, OtherSteps
  <2>4. CASE ReceiveHeaders \/ ReceiveContinuation
    <3>1. CASE Die \/ Ignore
      BY <2>1, <3>1 DEF Die, Ignore, handlerVars, endVars, OnlyInHand
    <3>2. CASE \E j \in Ids, end \in BOOLEAN : alive /\ CompleteBlock(j, end)
      BY <1>1, <2>1, <3>2, CompleteBlockFacts DEF IInv, OnlyInHand, endVars
    <3>3. QED
      BY <1>1, <2>4, <3>1, <3>2 DEF ReceiveHeaders, ReceiveContinuation, Reading, IInv, ReaderInv
  <2>5. QED
    BY <1>1, <2>2, <2>3, <2>4
<1>2. IInv /\ [Next]_vars =>
        [\A id \in peerRST :
           /\ started'[id] = started[id] /\ sending'[id] <= sending[id]
           /\ noting'[id] > noting[id] => sending'[id] < sending[id]]_vars
  BY <1>1 DEF OnlyInHand
<1>3. QED
  BY Inductive, <1>2, PTL DEF Spec, ClientResetIsFinal
-----------------------------------------------------------------------------
(* The frames the reader takes off the client's octets (module Frames), for *)
(* every length, Pad Length and word size: FramesKeptApart.  Between the    *)
(* reads of ParsePayload the octets not read and payloadLen agree, and what *)
(* is left is the data and the padding (Measured).                          *)

\* Where the reader is in a frame that is not misread, and what is left of it.
Measured ==
    LET own == IF Padded(frame) THEN 1 ELSE 0
    IN  ~ Misread(frame, padLength) =>
        /\ reader \in {"header", "parsed"} => unread = 0
        /\ reader = "pad" => unread = frame.length /\ rest = frame.length
        /\ reader = "fields" => unread = frame.length - own /\ rest = unread
                                /\ padLength <= rest
        /\ reader = "data" => unread = frame.length - own - Fields(frame) /\ rest = unread
                              /\ padLength <= rest
        /\ reader = "padding" => unread = padLength /\ PayloadLen(frame, padLength, size) = frame.length
        /\ reader = "parsed" => PayloadLen(frame, padLength, size) = frame.length

\* What the checks of the header leave.
Checked ==
    /\ reader \notin {"header", "over"} => frame \in FrameHeader /\ ~ RefusedByHeader(frame)
                                          /\ ~ SkipsPayload(frame)
    /\ reader \in {"pad", "padding"} => Padded(frame)
    /\ reader # "over" /\ ~ Padded(frame) => padLength = 0
    /\ reader = "pad" => padLength = 0

FramesInv == FramesTypeOK /\ Checked /\ Measured

LEMMA HeaderFacts ==
    ASSUME NEW f \in FrameHeader
    PROVE  /\ f.length \in Lengths /\ f.length \in Nat /\ f.length + 10 < Word
           /\ f.type \in Types
           /\ Padded(f) => f.type \in {"DATA", "HEADERS", "PUSH_PROMISE"}
           /\ "PRIORITY" \in f.flags => f.type = "HEADERS"
  <1>1. PICK t \in Types : f \in [type : {t}, stream : StreamKinds, flags : SUBSET FlagsOf(t),
                                  length : Lengths]
    BY DEF FrameHeader
  <1>2. f.type = t /\ f.flags \subseteq FlagsOf(t) /\ f.length \in Lengths
    BY <1>1
  <1>3. f.length \in Nat /\ f.length + 10 < Word
    BY <1>2, FramesAssumption
  <1>4. "PADDED" \in FlagsOf(t) => t \in {"DATA", "HEADERS", "PUSH_PROMISE"}
    BY DEF FlagsOf
  <1>5. "PRIORITY" \in FlagsOf(t) => t = "HEADERS"
    BY DEF FlagsOf
  <1> QED BY <1>1, <1>2, <1>3, <1>4, <1>5 DEF Padded

LEMMA FieldsFacts ==
    ASSUME NEW f \in FrameHeader
    PROVE  /\ Fields(f) \in {0, 4, 5, 8}
           /\ f.type = "HEADERS" => Fields(f) \in {0, 5}
           /\ f.type = "PUSH_PROMISE" => Fields(f) = 4
           /\ f.type = "GOAWAY" => Fields(f) = 8
           /\ f.type \in {"DATA", "SETTINGS", "CONTINUATION", "UNKNOWN"} => Fields(f) = 0
           /\ f.type \in DOMAIN Sized => Fields(f) = Sized[f.type]
  BY HeaderFacts DEF Fields, Sized, Types

LEMMA FramesInitInv == ASSUME FramesAssumption, FramesInit PROVE FramesInv
  <1> 0 \in 0 .. Word - 1
    BY FramesAssumption
  <1>1. FramesTypeOK
    <2>1. arrived \in BOOLEAN /\ block \in BOOLEAN /\ dropped \in BOOLEAN
      BY DEF FramesInit
    <2>2. /\ reader = "header" /\ frame = NoFrame /\ unread \in Int
          /\ rest = 0 /\ padLength = 0 /\ size = 0
      BY DEF FramesInit
    <2> QED  BY <2>1, <2>2 DEF FramesTypeOK
  <1>2. Checked
    BY DEF FramesInit, Checked, NoFrame, Padded
  <1>3. Measured
    BY DEF FramesInit, Measured
  <1> QED  BY <1>1, <1>2, <1>3 DEF FramesInv

LEMMA ReadHeaderKeeps == ASSUME FramesAssumption, FramesInv, ReadHeader PROVE FramesInv'
  <1>1. PICK f \in FrameHeader :
            /\ frame' = f /\ unread' = f.length /\ rest' = f.length
            /\ reader' \in AfterHeader(f)
            /\ arrived' = FALSE /\ padLength' = 0 /\ size' = 0
            /\ block' = block /\ dropped' = dropped
    BY DEF ReadHeader, connVars
  <1>2. /\ f.length \in Nat /\ f.length < Word /\ 0 \in 0 .. Word - 1
    BY HeaderFacts, FramesAssumption
  <1>3. \/ SkipsPayload(f) /\ reader' \in {"header", "over"}
        \/ RefusedByHeader(f) /\ reader' = "over"
        \/ /\ ~ SkipsPayload(f) /\ ~ RefusedByHeader(f)
           /\ reader' = IF Padded(f) THEN "pad" ELSE "fields"
    BY <1>1 DEF AfterHeader
  <1>4. FramesTypeOK'
    <2>1. reader' \in {"header", "over", "pad", "fields"}
      BY <1>3
    <2>2. unread' \in Int /\ rest' \in 0 .. Word - 1
      BY <1>1, <1>2
    <2> QED  BY <1>1, <1>2, <2>1, <2>2 DEF FramesInv, FramesTypeOK
  <1>5. Checked'
    BY <1>1, <1>3 DEF Checked
  <1>6. Measured'
    BY <1>1, <1>2, <1>3 DEF Measured, Misread
  <1> QED  BY <1>4, <1>5, <1>6 DEF FramesInv

LEMMA ArrivesKeeps == ASSUME FramesInv, Arrives PROVE FramesInv'
  BY DEF Arrives, FramesInv, FramesTypeOK, Checked, Measured, parseVars, connVars

LEMMA ReadPadLengthKeeps == ASSUME FramesAssumption, FramesInv, ReadPadLength PROVE FramesInv'
  <1>1. /\ reader = "pad" /\ unread' = unread - 1 /\ padLength' \in Pads
        /\ rest' = Minus(rest, 1)
        /\ reader' = IF TooMuchPadding(frame, padLength', rest') THEN "over" ELSE "fields"
        /\ frame' = frame /\ arrived' = arrived /\ size' = size
        /\ block' = block /\ dropped' = dropped
    BY DEF ReadPadLength, Consume, connVars
  <1>2. /\ frame \in FrameHeader /\ ~ RefusedByHeader(frame) /\ ~ SkipsPayload(frame) /\ Padded(frame)
    BY <1>1 DEF FramesInv, Checked
  <1>3. /\ frame.length \in Nat /\ frame.length + 10 < Word /\ padLength' \in Nat
        /\ frame.type \in {"DATA", "HEADERS", "PUSH_PROMISE"}
    BY <1>1, <1>2, HeaderFacts, FramesAssumption
  <1>4. rest' \in 0 .. Word - 1
    BY <1>1, FramesAssumption DEF FramesInv, FramesTypeOK, Minus
  <1>5. FramesTypeOK'
    BY <1>1, <1>4 DEF FramesInv, FramesTypeOK
  <1>6. Checked'
    BY <1>1, <1>2 DEF Checked
  <1>7. Measured'
    <2> SUFFICES ASSUME reader' = "fields", ~ Misread(frame, padLength')
                 PROVE  /\ unread' = frame.length - 1 /\ rest' = unread'
                        /\ padLength' <= rest'
      BY <1>1, <1>2 DEF Measured
    <2>1. frame.length > 0
      BY <1>2, <1>3 DEF Misread, RefusedByHeader
    <2>2. ~ Misread(frame, padLength)
      <3>1. padLength = 0
        BY <1>1 DEF FramesInv, Checked
      <3>2. Fields(frame) \in {0, 4, 5, 8}
        BY <1>2, FieldsFacts
      <3> QED  BY <1>2, <2>1, <3>1, <3>2 DEF Misread
    <2>3. unread = frame.length /\ rest = frame.length
      BY <1>1, <2>2 DEF FramesInv, Measured
    <2>4. rest' = frame.length - 1
      BY <1>1, <1>3, <2>1, <2>3 DEF Minus
    <2>5. padLength' <= rest'
      BY <1>1, <1>3, <2>4 DEF TooMuchPadding
    <2> QED  BY <1>1, <2>3, <2>4, <2>5
  <1> QED  BY <1>5, <1>6, <1>7 DEF FramesInv
LEMMA ReadFieldsKeeps == ASSUME FramesAssumption, FramesInv, ReadFields PROVE FramesInv'
  <1>1. /\ reader = "fields" /\ frame' = frame /\ arrived' = arrived /\ size' = size
        /\ padLength' = padLength /\ block' = block /\ dropped' = dropped
        /\ \/ reader' = "over" /\ unread' = unread /\ rest' = rest
           \/ /\ rest >= Fields(frame) /\ reader' = "data"
              /\ unread' = unread - Fields(frame) /\ rest' = rest - Fields(frame)
    BY DEF ReadFields, Consume, connVars
  <1>2. /\ frame \in FrameHeader /\ ~ RefusedByHeader(frame) /\ ~ SkipsPayload(frame)
        /\ rest \in 0 .. Word - 1 /\ Word \in Nat /\ unread \in Int
    BY <1>1, FramesAssumption DEF FramesInv, Checked, FramesTypeOK
  <1>3. /\ frame.length \in Nat /\ Fields(frame) \in {0, 4, 5, 8}
        /\ Padded(frame) => frame.type \in {"DATA", "HEADERS", "PUSH_PROMISE"}
    BY <1>2, HeaderFacts, FieldsFacts
  <1>4. FramesTypeOK'
    <2>1. rest' \in 0 .. Word - 1 /\ unread' \in Int
      BY <1>1, <1>2, <1>3
    <2> QED  BY <1>1, <2>1 DEF FramesInv, FramesTypeOK
  <1>5. Checked'
    BY <1>1, <1>2 DEF FramesInv, Checked
  <1>6. Measured'
    <2> SUFFICES ASSUME reader' = "data", ~ Misread(frame, padLength)
                 PROVE  /\ unread' = frame.length - (IF Padded(frame) THEN 1 ELSE 0)
                                     - Fields(frame)
                        /\ rest' = unread' /\ padLength' <= rest'
      BY <1>1, <1>2 DEF Measured
    <2>1. /\ unread = frame.length - (IF Padded(frame) THEN 1 ELSE 0) /\ rest = unread
          /\ padLength <= rest
      BY <1>1 DEF FramesInv, Measured
    <2>2. padLength \in Nat
      BY FramesAssumption DEF FramesInv, FramesTypeOK
    <2>3. CASE ~ Padded(frame)
      BY <1>1, <1>2, <1>3, <2>1, <2>2, <2>3 DEF FramesInv, Checked
    <2>4. CASE Padded(frame)
      <3>1. frame.type = "DATA" => Fields(frame) = 0
        BY <1>2, FieldsFacts
      <3>2. padLength <= rest - Fields(frame)
        BY <1>1, <1>2, <1>3, <2>1, <2>2, <2>4, <3>1 DEF Misread
      <3> QED  BY <1>1, <1>2, <1>3, <2>1, <2>4, <3>2
    <2> QED  BY <2>3, <2>4
  <1> QED  BY <1>4, <1>5, <1>6 DEF FramesInv

\* The data that is read and the octets before and after it are the whole frame.
LEMMA DataIsTheRest ==
    ASSUME FramesAssumption, NEW f \in FrameHeader, ~ RefusedByHeader(f), ~ SkipsPayload(f),
           NEW pad \in Nat, NEW data \in Nat,
           data + pad = f.length - (IF Padded(f) THEN 1 ELSE 0) - Fields(f),
           ~ Padded(f) => pad = 0
    PROVE  /\ f.type # "SETTINGS" => PayloadLen(f, pad, data) = f.length
           /\ f.type = "SETTINGS" => PayloadLen(f, pad, data \div 6) = f.length
  <1>1. /\ f.length \in Nat /\ f.length + 10 < Word /\ Word \in Nat
        /\ Fields(f) \in {0, 4, 5, 8}
        /\ f.type = "SETTINGS" => Fields(f) = 0 /\ ~ Padded(f)
    BY HeaderFacts, FieldsFacts, FramesAssumption
  <1>2. CASE f.type # "SETTINGS"
    <2>1. (IF Padded(f) THEN 1 + pad ELSE 0) + Fields(f) + data = f.length
      BY <1>1
    <2> QED  BY <1>1, <1>2, <2>1 DEF PayloadLen, Wrapped
  <1>3. CASE f.type = "SETTINGS"
    <2>1. data = f.length
      BY <1>1, <1>3
    <2>2. f.length % 6 = 0 /\ ("ACK" \in f.flags => f.length = 0)
      BY <1>3 DEF RefusedByHeader
    <2>3. 6 * (f.length \div 6) = f.length
      BY <1>1, <2>2
    <2> QED  BY <1>1, <1>3, <2>1, <2>2, <2>3 DEF PayloadLen
  <1> QED  BY <1>2, <1>3

LEMMA ReadDataKeeps == ASSUME FramesAssumption, FramesInv, ReadData PROVE FramesInv'
  <1>1. /\ reader = "data" /\ frame' = frame /\ arrived' = arrived /\ rest' = rest
        /\ padLength' = padLength /\ block' = block /\ dropped' = dropped
        /\ unread' = unread - DataLength
        /\ size' = IF frame.type = "SETTINGS" THEN DataLength \div 6 ELSE DataLength
        /\ reader' = IF Padded(frame) THEN "padding" ELSE "parsed"
    BY DEF ReadData, Consume, connVars
  <1>2. /\ frame \in FrameHeader /\ ~ RefusedByHeader(frame) /\ ~ SkipsPayload(frame)
        /\ rest \in 0 .. Word - 1 /\ Word \in Nat /\ unread \in Int
        /\ padLength \in 0 .. Word - 1 /\ (~ Padded(frame) => padLength = 0)
    BY <1>1, FramesAssumption DEF FramesInv, Checked, FramesTypeOK
  <1>3. /\ frame.length \in Nat /\ Fields(frame) \in {0, 4, 5, 8}
        /\ Padded(frame) => frame.type \in {"DATA", "HEADERS", "PUSH_PROMISE"}
    BY <1>2, HeaderFacts, FieldsFacts
  <1>4. DataLength \in 0 .. Word - 1
    BY <1>2 DEF DataLength, Minus
  <1>5. FramesTypeOK'
    <2>1. size' \in 0 .. Word - 1
      BY <1>1, <1>2, <1>4
    <2> QED  BY <1>1, <1>2, <1>4, <2>1 DEF FramesInv, FramesTypeOK
  <1>6. Checked'
    BY <1>1, <1>2 DEF FramesInv, Checked
  <1>7. Measured'
    <2> SUFFICES ASSUME ~ Misread(frame, padLength)
                 PROVE  /\ unread' = padLength
                        /\ PayloadLen(frame, padLength, size') = frame.length
      BY <1>1, <1>2 DEF Measured
    <2>1. /\ unread = frame.length - (IF Padded(frame) THEN 1 ELSE 0) - Fields(frame)
          /\ rest = unread /\ padLength <= rest
      BY <1>1 DEF FramesInv, Measured
    <2>2. DataLength = rest - padLength
      BY <1>2, <2>1 DEF DataLength, Minus
    <2>3. DataLength \in Nat /\ padLength \in Nat
      BY <1>2, <1>4
    <2>4. DataLength + padLength = frame.length - (IF Padded(frame) THEN 1 ELSE 0) - Fields(frame)
      BY <1>2, <1>3, <2>1, <2>2
    <2>5. PayloadLen(frame, padLength, size') = frame.length
      BY <1>1, <1>2, <2>3, <2>4, DataIsTheRest
    <2> QED  BY <1>1, <1>2, <2>1, <2>2, <2>5
  <1> QED  BY <1>5, <1>6, <1>7 DEF FramesInv

LEMMA ReadPaddingKeeps == ASSUME FramesAssumption, FramesInv, ReadPadding PROVE FramesInv'
  <1>1. /\ reader = "padding" /\ reader' \in {"over", "parsed"} /\ unread' = unread - padLength
        /\ frame' = frame /\ arrived' = arrived /\ rest' = rest /\ size' = size
        /\ padLength' = padLength /\ block' = block /\ dropped' = dropped
    BY DEF ReadPadding, Consume, connVars, parseVars
  <1>2. padLength \in Nat /\ unread \in Int
    BY FramesAssumption DEF FramesInv, FramesTypeOK
  <1>3. FramesTypeOK'
    BY <1>1, <1>2 DEF FramesInv, FramesTypeOK
  <1>4. Checked'
    BY <1>1 DEF FramesInv, Checked
  <1>5. Measured'
    BY <1>1, <1>2 DEF FramesInv, Measured
  <1> QED  BY <1>3, <1>4, <1>5 DEF FramesInv

\* What Serve does with a frame, and the end of the connection, read nothing.
LEMMA ServeKeeps ==
    ASSUME FramesInv, Serve \/ ConnectionEnds
    PROVE  FramesInv'
  <1>1. /\ frame' = frame /\ arrived' = arrived /\ unread' = unread /\ rest' = rest
        /\ padLength' = padLength /\ size' = size
        /\ reader' = "over" \/ (reader = "parsed" /\ reader' = "header")
    BY DEF Serve, RejectSize, DispatchFrame, ConnectionEnds, parseVars
  <1>2. block' \in BOOLEAN /\ dropped' \in BOOLEAN
    BY DEF Serve, RejectSize, DispatchFrame, ConnectionEnds, connVars, FramesInv, FramesTypeOK
  <1> QED  BY <1>1, <1>2 DEF FramesInv, FramesTypeOK, Checked, Measured

LEMMA StutterKeeps == ASSUME FramesInv, UNCHANGED framesVars PROVE FramesInv'
  BY DEF FramesInv, FramesTypeOK, Checked, Measured, framesVars, parseVars, connVars

LEMMA FramesInductive == FramesSpec => []FramesInv
  <1>1. FramesInit => FramesInv
    BY FramesInitInv, FramesAssumption
  <1>2. FramesInv /\ [FramesNext]_framesVars => FramesInv'
    BY FramesAssumption, ReadHeaderKeeps, ArrivesKeeps, ReadPadLengthKeeps, ReadFieldsKeeps,
       ReadDataKeeps, ReadPaddingKeeps, ServeKeeps, StutterKeeps DEF FramesNext, Parse
  <1> QED  BY <1>1, <1>2, PTL DEF FramesSpec

\* Types, for every run.
THEOREM FrameTypes == FramesSpec => []FramesTypeOK
  <1>1. FramesInv => FramesTypeOK
    BY DEF FramesInv
  <1> QED  BY <1>1, FramesInductive, PTL

\* Whatever frames a client sends, of whatever lengths and with whatever Pad Lengths: a
\* frame that is not of Misread is handed on whole, and the next one is found.
THEOREM KeepsFramesApart == FramesSpec => []FramesKeptApart
  <1>1. FramesInv => FramesKeptApart
    BY DEF FramesInv, Measured, FramesKeptApart
  <1> QED  BY <1>1, FramesInductive, PTL
-----------------------------------------------------------------------------
(* The tree of the streams' priorities (module PriorityTree) stays a tree,  *)
(* for every set of streams.  The inductive invariant is the conjunction of *)
(* the three checked ones: a node added below the root keeps it, and so does*)
(* a node placed below one that does not depend on it, and a node spliced   *)
(* out.                                                                     *)

\* The invariant as a predicate on a pair of maps, since an operation goes through
\* intermediate ones (getOrCreateNodeNoLock, twice, and the move).
WellTyped(par, kids) ==
    /\ DOMAIN par \subseteq NodeIds /\ Root \in DOMAIN par
    /\ par \in [DOMAIN par -> DOMAIN par]
    /\ kids \in [DOMAIN par -> SUBSET (DOMAIN par \ {Root})]
    /\ par[Root] = Root
Matching(par, kids) ==
    \A n \in DOMAIN par \ {Root}, p \in DOMAIN par : n \in kids[p] <=> par[n] = p
NoRing(par) == \A S \in SUBSET (DOMAIN par \ {Root}) : S # {} => ~UpwardClosed(S, par)

Tree(par, kids) == WellTyped(par, kids) /\ Matching(par, kids) /\ NoRing(par)

TreeInv == Tree(parent, children)

\* The invariant of the module and the predicate on maps are the same.
LEMMA TreeIsInvariant == TreeInv <=> TreeTypeOK /\ ListsMatchParents /\ Rooted
BY DEF TreeInv, Tree, WellTyped, Matching, NoRing, TreeTypeOK, ListsMatchParents, Rooted, Nodes

\* getOrCreateNodeNoLock keeps the tree and makes the node.
LEMMA CreationKeepsTree ==
    ASSUME NEW par, NEW kids, Tree(par, kids), NEW s \in NodeIds
    PROVE  /\ Tree(ParentsWith(s, par), ChildrenWith(s, kids))
           /\ DOMAIN ParentsWith(s, par) = DOMAIN par \union {s}
<1> DEFINE p1 == ParentsWith(s, par)
           k1 == ChildrenWith(s, kids)
<1>1. CASE s \in DOMAIN par
  <2>1. par \in [DOMAIN par -> DOMAIN par] /\ kids \in [DOMAIN par -> SUBSET (DOMAIN par \ {Root})]
    BY DEF Tree, WellTyped
  <2>2. DOMAIN par \union {s} = DOMAIN par /\ DOMAIN kids \union {s} = DOMAIN kids
    BY <1>1, <2>1
  <2>3. p1 = par
    BY <2>1, <2>2 DEF ParentsWith
  <2>4. k1 = kids
    BY <1>1, <2>1, <2>2 DEF ChildrenWith
  <2> QED BY <2>2, <2>3, <2>4
<1>2. CASE s \notin DOMAIN par
  <2>1. /\ DOMAIN par \subseteq NodeIds /\ Root \in DOMAIN par /\ par[Root] = Root
        /\ par \in [DOMAIN par -> DOMAIN par]
        /\ kids \in [DOMAIN par -> SUBSET (DOMAIN par \ {Root})]
        /\ DOMAIN kids = DOMAIN par
        /\ s # Root
    BY <1>2 DEF Tree, WellTyped
  <2>2. /\ p1 = [n \in DOMAIN par \union {s} |-> IF n \in DOMAIN par THEN par[n] ELSE Root]
        /\ DOMAIN p1 = DOMAIN par \union {s}
        /\ \A n \in DOMAIN par \union {s} :
              p1[n] = IF n \in DOMAIN par THEN par[n] ELSE Root
    BY DEF ParentsWith
  <2>3. /\ DOMAIN k1 = DOMAIN par \union {s}
        /\ \A n \in DOMAIN par \union {s} :
              k1[n] = IF n \notin DOMAIN par THEN {}
                      ELSE IF n = Root THEN kids[n] \union {s} ELSE kids[n]
        /\ k1 = [n \in DOMAIN par \union {s} |-> k1[n]]
    BY <1>2, <2>1 DEF ChildrenWith
  <2> HIDE DEF p1, k1
  <2>4. WellTyped(p1, k1)
    <3>1. \A n \in DOMAIN p1 : p1[n] \in DOMAIN p1
      BY <2>1, <2>2
    <3>2. ASSUME NEW n \in DOMAIN p1 PROVE k1[n] \in SUBSET (DOMAIN p1 \ {Root})
      <4>1. n \in DOMAIN par => kids[n] \subseteq DOMAIN par \ {Root}
        BY <2>1
      <4>2. s \in DOMAIN p1 \ {Root} /\ DOMAIN par \subseteq DOMAIN p1
        BY <2>1, <2>2
      <4>3. \/ k1[n] = {}
            \/ n \in DOMAIN par /\ k1[n] = kids[n]
            \/ n \in DOMAIN par /\ k1[n] = kids[n] \union {s}
        BY <2>2, <2>3
      <4> QED BY <4>1, <4>2, <4>3
    <3> QED BY <2>1, <2>2, <2>3, <3>1, <3>2 DEF WellTyped
  <2>5. Matching(p1, k1)
    <3>1. SUFFICES ASSUME NEW n \in DOMAIN p1 \ {Root}, NEW p \in DOMAIN p1
                   PROVE  n \in k1[p] <=> p1[n] = p
      BY DEF Matching
    <3>2. \A m \in DOMAIN par \ {Root}, q \in DOMAIN par : m \in kids[q] <=> par[m] = q
      BY DEF Tree, Matching
    <3>3. CASE n = s
      <4>1. p1[s] = Root
        BY <1>2, <2>2
      <4>2. \A q \in DOMAIN par : s \notin kids[q]
        BY <1>2, <2>1
      <4>3. CASE p = Root
        BY <3>3, <4>1, <4>3, <2>1, <2>3
      <4>4. CASE p # Root
        <5>1. k1[p] = {} \/ (p \in DOMAIN par /\ k1[p] = kids[p])
          BY <4>4, <2>2, <2>3
        <5> QED BY <3>3, <4>1, <4>2, <4>4, <5>1
      <4> QED BY <4>3, <4>4
    <3>4. CASE n # s
      <4>1. CASE p = s
        BY <3>4, <4>1, <1>2, <2>1, <2>2, <2>3
      <4>2. CASE p # s
        <5>1. n \in DOMAIN par \ {Root} /\ p \in DOMAIN par
          BY <3>1, <3>4, <4>2, <2>2
        <5>2. p1[n] = par[n]
          BY <5>1, <2>2
        <5>3. k1[p] = kids[p] \/ k1[p] = kids[p] \union {s}
          BY <5>1, <2>3
        <5> QED BY <5>1, <5>2, <5>3, <3>2, <3>4
      <4> QED BY <4>1, <4>2
    <3> QED BY <3>3, <3>4
  <2>6. NoRing(p1)
    <3>1. SUFFICES ASSUME NEW S \in SUBSET (DOMAIN p1 \ {Root}), S # {}, UpwardClosed(S, p1)
                   PROVE  FALSE
      BY DEF NoRing
    <3>2. s \notin S
      BY <3>1, <1>2, <2>1, <2>2 DEF UpwardClosed
    <3>3. S \in SUBSET (DOMAIN par \ {Root}) /\ UpwardClosed(S, par)
      BY <3>1, <3>2, <2>2 DEF UpwardClosed
    <3> QED BY <3>1, <3>3 DEF Tree, NoRing
  <2> QED BY <2>2, <2>4, <2>5, <2>6 DEF Tree, p1, k1
<1> QED BY <1>1, <1>2

\* Steps 1 to 4 of UpdatePriority keep the tree when d does not depend on s.
LEMMA PlacementKeepsTree ==
    ASSUME NEW par, NEW kids, Tree(par, kids), NEW x \in BOOLEAN,
           NEW s \in DOMAIN par, s # Root, NEW d \in DOMAIN par, d # s,
           ~DependsOn(d, s, par), Place(s, d, x, par, kids)
    PROVE  Tree(parent', children')
<1> DEFINE adopted == IF x THEN kids[d] \ {s} ELSE {}
<1>1. /\ DOMAIN par \subseteq NodeIds /\ Root \in DOMAIN par /\ par[Root] = Root
      /\ par \in [DOMAIN par -> DOMAIN par]
      /\ kids \in [DOMAIN par -> SUBSET (DOMAIN par \ {Root})]
      /\ DOMAIN kids = DOMAIN par
  BY DEF Tree, WellTyped
<1>2. \A n \in DOMAIN par \ {Root}, p \in DOMAIN par : n \in kids[p] <=> par[n] = p
  BY DEF Tree, Matching
<1>3. \A n \in adopted : n \in DOMAIN par \ {Root} /\ n # s /\ par[n] = d
  BY <1>1, <1>2
<1>4. /\ parent' = [n \in DOMAIN par |->
                      IF n = s THEN d ELSE IF n \in adopted THEN s ELSE par[n]]
      /\ children' = [n \in DOMAIN par |->
                      IF n = s THEN kids[s] \union adopted
                      ELSE IF n = d THEN (kids[d] \ adopted) \union {s}
                      ELSE kids[n] \ {s}]
  BY <1>1 DEF Place
<1> HIDE DEF adopted
<1>5. WellTyped(parent', children')
  <2>1. DOMAIN parent' = DOMAIN par
    BY <1>4
  <2>2. \A n \in DOMAIN par : parent'[n] \in DOMAIN par
    BY <1>1, <1>4
  <2>3. \A n \in DOMAIN par : children'[n] \in SUBSET (DOMAIN par \ {Root})
    BY <1>1, <1>3, <1>4
  <2>4. parent'[Root] = Root
    BY <1>1, <1>3, <1>4
  <2>5. parent' \in [DOMAIN par -> DOMAIN par]
    BY <1>4, <2>2
  <2>6. children' \in [DOMAIN par -> SUBSET (DOMAIN par \ {Root})]
    BY <1>4, <2>3
  <2> QED BY <1>1, <2>1, <2>4, <2>5, <2>6 DEF WellTyped
<1>6. Matching(parent', children')
  <2>1. SUFFICES ASSUME NEW n \in DOMAIN par \ {Root}, NEW p \in DOMAIN par
                 PROVE  n \in children'[p] <=> parent'[n] = p
    BY <1>4 DEF Matching
  <2>2. n \in kids[p] <=> par[n] = p
    BY <1>2
  <2>3. CASE n = s
    <3>1. par[s] # s
      <4>1. SUFFICES ASSUME par[s] = s PROVE FALSE
        OBVIOUS
      <4>2. UpwardClosed({s}, par)
        BY <4>1 DEF UpwardClosed
      <4> QED BY <4>2 DEF Tree, NoRing
    <3>2. s \notin kids[s]
      BY <1>2, <3>1
    <3> QED BY <1>3, <1>4, <2>3, <3>2
  <2>4. CASE n # s /\ n \in adopted
    BY <1>2, <1>3, <1>4, <2>4
  <2>5. CASE n # s /\ n \notin adopted
    BY <1>4, <2>2, <2>5
  <2> QED BY <2>3, <2>4, <2>5
<1>7. NoRing(parent')
  <2>1. SUFFICES ASSUME NEW S \in SUBSET (DOMAIN par \ {Root}), S # {},
                        UpwardClosed(S, parent')
                 PROVE  FALSE
    BY <1>4 DEF NoRing
  <2>2. \A B \in SUBSET (DOMAIN par \ {Root}) : B # {} => ~UpwardClosed(B, par)
    BY DEF Tree, NoRing
  <2>3. CASE s \notin S
    <3>1. \A n \in S : parent'[n] = par[n]
      BY <1>4, <2>1, <2>3 DEF UpwardClosed
    <3> QED BY <2>1, <2>2, <3>1 DEF UpwardClosed
  <2>4. CASE s \in S
    <3>1. d \in S
      BY <1>4, <2>1, <2>4 DEF UpwardClosed
    <3>2. PICK T \in SUBSET (DOMAIN par) : d \in T /\ UpwardClosed(T, par) /\ s \notin T
      BY DEF DependsOn
    <3>3. \A n \in S \intersect T : par[n] \in S \intersect T
      <4>1. TAKE n \in S \intersect T
      <4>2. par[n] \in T /\ n # s /\ n \in DOMAIN par
        BY <3>2 DEF UpwardClosed
      <4>3. CASE n \in adopted
        BY <1>3, <3>1, <3>2, <4>3
      <4>4. CASE n \notin adopted
        BY <1>4, <2>1, <4>2, <4>4 DEF UpwardClosed
      <4> QED BY <4>3, <4>4
    <3> QED BY <2>2, <3>1, <3>2, <3>3 DEF UpwardClosed
  <2> QED BY <2>3, <2>4
<1> QED BY <1>5, <1>6, <1>7 DEF Tree

\* A node just made depends on nobody but the root, and making one gives nobody a new
\* dependency: a stream that did not depend on s before does not after.
LEMMA CreationAddsNoDependency ==
    ASSUME NEW par, NEW kids, Tree(par, kids), NEW s \in Streams, NEW d \in NodeIds, d # s,
           ~(d \in DOMAIN par /\ DependsOn(d, s, par))
    PROVE  LET par1 == ParentsWith(s, par)
           IN  ~DependsOn(d, s, ParentsWith(d, par1))
<1> DEFINE par1 == ParentsWith(s, par)
           par2 == ParentsWith(d, par1)
<1>1. /\ Root \in DOMAIN par /\ par[Root] = Root
      /\ par \in [DOMAIN par -> DOMAIN par]
      /\ s # Root
  BY TreeAssumption DEF Tree, WellTyped
<1>2. /\ DOMAIN par1 = DOMAIN par \union {s}
      /\ DOMAIN par2 = DOMAIN par \union {s, d}
      /\ \A n \in DOMAIN par : par2[n] = par[n]
      /\ d \notin DOMAIN par => par2[d] = Root
  BY <1>1 DEF ParentsWith
<1>3. SUFFICES \E S \in SUBSET (DOMAIN par2) : d \in S /\ UpwardClosed(S, par2) /\ s \notin S
  BY DEF DependsOn
<1>4. CASE d \in DOMAIN par
  <2>1. PICK S \in SUBSET (DOMAIN par) : d \in S /\ UpwardClosed(S, par) /\ s \notin S
    BY <1>4 DEF DependsOn
  <2>2. S \in SUBSET (DOMAIN par2) /\ UpwardClosed(S, par2)
    BY <1>2, <2>1 DEF UpwardClosed
  <2> QED BY <2>1, <2>2
<1>5. CASE d \notin DOMAIN par
  <2>1. UpwardClosed({d, Root}, par2)
    BY <1>1, <1>2, <1>5 DEF UpwardClosed
  <2>2. {d, Root} \in SUBSET (DOMAIN par2)
    BY <1>1, <1>2
  <2> QED BY <1>1, <2>1, <2>2
<1> QED BY <1>4, <1>5

\* UpdatePriority keeps the tree unless it refuses.
LEMMA UpdateKeepsTree ==
    ASSUME NEW par, NEW kids, Tree(par, kids), NEW x \in BOOLEAN,
           NEW s \in Streams, NEW d \in NodeIds,
           ~Refused(s, d, par), UpdatePriority(s, d, x, par, kids)
    PROVE  Tree(parent', children')
<1> DEFINE p1 == ParentsWith(s, par)
           k1 == ChildrenWith(s, kids)
           p2 == ParentsWith(d, p1)
           k2 == ChildrenWith(d, k1)
<1>1. s \in NodeIds /\ s # Root /\ d # s /\ ~(d \in DOMAIN par /\ DependsOn(d, s, par))
  BY TreeAssumption DEF Refused, NodeIds
<1>2. Tree(p1, k1) /\ DOMAIN p1 = DOMAIN par \union {s}
  BY <1>1, CreationKeepsTree
<1>3. ~DependsOn(d, s, p2)
  BY <1>1, CreationAddsNoDependency
<1>4. Place(s, d, x, p2, k2)
  BY DEF UpdatePriority
<1> HIDE DEF p1, k1
<1>5. Tree(p2, k2) /\ DOMAIN p2 = DOMAIN p1 \union {d}
  BY <1>2, CreationKeepsTree
<1> HIDE DEF p2, k2
<1>6. s \in DOMAIN p2 /\ d \in DOMAIN p2
  BY <1>2, <1>5
<1> QED BY <1>1, <1>3, <1>4, <1>5, <1>6, PlacementKeepsTree

\* Splicing out a node keeps the tree.
LEMMA RemovalKeepsTree ==
    ASSUME Tree(parent, children), NEW s \in Streams, RemoveStream(s)
    PROVE  Tree(parent', children')
<1>1. /\ Nodes \subseteq NodeIds /\ Root \in Nodes /\ parent[Root] = Root
      /\ parent \in [Nodes -> Nodes]
      /\ children \in [Nodes -> SUBSET (Nodes \ {Root})]
      /\ s \in Nodes /\ s # Root
  BY TreeAssumption DEF Tree, WellTyped, Nodes, RemoveStream
<1>2. \A n \in Nodes \ {Root}, p \in Nodes : n \in children[p] <=> parent[n] = p
  BY DEF Tree, Matching, Nodes
<1>3. \A B \in SUBSET (Nodes \ {Root}) : B # {} => ~UpwardClosed(B, parent)
  BY DEF Tree, NoRing, Nodes
<1>4. /\ parent' = [n \in Nodes \ {s} |-> IF n \in children[s] THEN parent[s] ELSE parent[n]]
      /\ children' = [n \in Nodes \ {s} |->
                        IF n = parent[s] THEN (children[n] \ {s}) \union children[s]
                        ELSE children[n]]
      /\ DOMAIN parent' = Nodes \ {s}
  BY DEF RemoveStream
<1>5. parent[s] # s
  <2>1. SUFFICES ASSUME parent[s] = s PROVE FALSE
    OBVIOUS
  <2>2. UpwardClosed({s}, parent)
    BY <2>1 DEF UpwardClosed
  <2> QED BY <1>1, <1>3, <2>2
<1>6. s \notin children[s]
  BY <1>1, <1>2, <1>5
<1>7. WellTyped(parent', children')
  <2>1. \A n \in Nodes \ {s} : parent'[n] \in Nodes \ {s}
    BY <1>1, <1>2, <1>4, <1>5
  <2>2. \A n \in Nodes \ {s} : children'[n] \in SUBSET ((Nodes \ {s}) \ {Root})
    BY <1>1, <1>2, <1>4, <1>6
  <2>3. parent'[Root] = Root
    BY <1>1, <1>2, <1>4
  <2>4. parent' \in [Nodes \ {s} -> Nodes \ {s}]
    BY <1>4, <2>1
  <2>5. children' \in [Nodes \ {s} -> SUBSET ((Nodes \ {s}) \ {Root})]
    BY <1>4, <2>2
  <2> QED BY <1>1, <1>4, <2>3, <2>4, <2>5 DEF WellTyped
<1>8. Matching(parent', children')
  <2>1. SUFFICES ASSUME NEW n \in (Nodes \ {s}) \ {Root}, NEW p \in Nodes \ {s}
                 PROVE  n \in children'[p] <=> parent'[n] = p
    BY <1>4 DEF Matching
  <2>2. (n \in children[p] <=> parent[n] = p) /\ (n \in children[s] <=> parent[n] = s)
    BY <1>1, <1>2
  <2> QED BY <1>4, <2>2
<1>9. NoRing(parent')
  <2>1. SUFFICES ASSUME NEW S \in SUBSET ((Nodes \ {s}) \ {Root}), S # {},
                        UpwardClosed(S, parent')
                 PROVE  FALSE
    BY <1>4 DEF NoRing
  <2>2. CASE S \intersect children[s] = {}
    <3>1. UpwardClosed(S, parent)
      BY <1>4, <2>1, <2>2 DEF UpwardClosed
    <3> QED BY <1>3, <2>1, <3>1
  <2>3. CASE S \intersect children[s] # {}
    <3>1. parent[s] \in S
      BY <1>4, <2>1, <2>3 DEF UpwardClosed
    <3>2. \A n \in S : parent[n] \in S \union {s}
      BY <1>1, <1>2, <1>4, <2>1 DEF UpwardClosed
    <3>3. UpwardClosed(S \union {s}, parent)
      BY <3>1, <3>2 DEF UpwardClosed
    <3> QED BY <1>1, <1>3, <2>1, <3>3
  <2> QED BY <2>2, <2>3
<1> QED BY <1>7, <1>8, <1>9 DEF Tree

LEMMA InitTree == TreeInit => TreeInv
<1> SUFFICES ASSUME TreeInit PROVE Tree(parent, children)
  BY DEF TreeInv
<1>1. DOMAIN parent = {Root} /\ parent[Root] = Root /\ children[Root] = {}
  BY DEF TreeInit
<1>2. WellTyped(parent, children)
  BY <1>1 DEF WellTyped, TreeInit, NodeIds
<1>3. Matching(parent, children) /\ NoRing(parent)
  BY <1>1 DEF Matching, NoRing
<1> QED BY <1>2, <1>3 DEF Tree

LEMMA NextTree == TreeInv /\ [TreeNext]_treeVars => TreeInv'
<1> SUFFICES ASSUME Tree(parent, children), [TreeNext]_treeVars PROVE Tree(parent', children')
  BY DEF TreeInv
<1>1. ASSUME NEW s \in Streams, NEW d \in NodeIds, NEW x \in BOOLEAN, AddStream(s, d, x)
      PROVE  Tree(parent', children')
  <2> DEFINE par == ParentsWith(s, parent)
             kids == ChildrenWith(s, children)
  <2>1. Tree(par, kids)
    BY CreationKeepsTree DEF NodeIds
  <2>2. CASE Refused(s, d, par)
    BY <1>1, <2>1, <2>2 DEF AddStream
  <2>3. CASE ~Refused(s, d, par)
    <3>1. UpdatePriority(s, d, x, par, kids)
      BY <1>1, <2>3 DEF AddStream
    <3> HIDE DEF par, kids
    <3> QED BY <2>1, <2>3, <3>1, UpdateKeepsTree
  <2> QED BY <2>2, <2>3
<1>2. ASSUME NEW s \in Streams, NEW d \in NodeIds, NEW x \in BOOLEAN,
             ProcessPriorityFrame(s, d, x)
      PROVE  Tree(parent', children')
  BY <1>2, UpdateKeepsTree DEF ProcessPriorityFrame
<1>3. ASSUME NEW s \in Streams, RemoveStream(s)
      PROVE  Tree(parent', children')
  BY <1>3, RemovalKeepsTree
<1>4. CASE UNCHANGED treeVars
  BY <1>4 DEF treeVars
<1> QED BY <1>1, <1>2, <1>3, <1>4 DEF TreeNext

LEMMA AlwaysTree == TreeSpec => []TreeInv
BY InitTree, NextTree, PTL DEF TreeSpec

\* No operation of the tree leaves an ID without a node behind it.
THEOREM TreeTypes == TreeSpec => []TreeTypeOK
BY AlwaysTree, TreeIsInvariant, PTL

\* The parent pointers and the child lists never come apart.
THEOREM TreeListsMatchParents == TreeSpec => []ListsMatchParents
BY AlwaysTree, TreeIsInvariant, PTL

\* No frame of a client makes streams depend on one another in a ring.
THEOREM TreeIsRooted == TreeSpec => []Rooted
BY AlwaysTree, TreeIsInvariant, PTL
\* A node spliced out of the tree changes nothing about who depends on whom among the others.
LEMMA RemovalKeepsDependencies ==
    ASSUME Tree(parent, children), NEW s \in Streams, RemoveStream(s),
           NEW a \in DOMAIN parent', NEW b \in DOMAIN parent'
    PROVE  DependsOn(b, a, parent') <=> DependsOn(b, a, parent)
<1>1. /\ parent[Root] = Root /\ s # Root /\ s \in Nodes
      /\ parent \in [Nodes -> Nodes] /\ children[s] \subseteq Nodes \ {Root}
      /\ \A n \in Nodes \ {Root} : n \in children[s] <=> parent[n] = s
  BY TreeAssumption DEF Tree, WellTyped, Matching, Nodes, RemoveStream
<1>2. /\ DOMAIN parent' = Nodes \ {s}
      /\ \A n \in Nodes \ {s} :
            parent'[n] = IF n \in children[s] THEN parent[s] ELSE parent[n]
  BY DEF RemoveStream
<1>3. parent[s] # s
  <2>1. SUFFICES ASSUME parent[s] = s PROVE FALSE
    OBVIOUS
  <2>2. {s} \in SUBSET (Nodes \ {Root}) /\ UpwardClosed({s}, parent)
    BY <1>1, <2>1 DEF UpwardClosed
  <2> QED BY <2>2 DEF Tree, NoRing, Nodes
<1>4. ASSUME DependsOn(b, a, parent') PROVE DependsOn(b, a, parent)
  <2>1. SUFFICES ASSUME NEW T \in SUBSET Nodes, b \in T, UpwardClosed(T, parent) PROVE a \in T
    BY DEF DependsOn, Nodes
  <2>2. UpwardClosed(T \ {s}, parent')
    <3>1. SUFFICES ASSUME NEW n \in T \ {s} PROVE parent'[n] \in T \ {s}
      BY DEF UpwardClosed
    <3>2. parent[n] \in T
      BY <2>1 DEF UpwardClosed
    <3>3. CASE n \in children[s]
      <4>1. parent[n] = s
        BY <1>1, <3>3
      <4>2. parent[s] \in T
        BY <2>1, <3>2, <4>1 DEF UpwardClosed
      <4> QED BY <1>2, <1>3, <3>3, <4>2
    <3>4. CASE n \notin children[s]
      BY <1>1, <1>2, <3>2, <3>4
    <3> QED BY <3>3, <3>4
  <2>3. T \ {s} \in SUBSET (DOMAIN parent') /\ b \in T \ {s}
    BY <1>2, <2>1
  <2> QED BY <1>4, <2>2, <2>3 DEF DependsOn
<1>5. ASSUME DependsOn(b, a, parent) PROVE DependsOn(b, a, parent')
  <2>1. SUFFICES ASSUME NEW T \in SUBSET (Nodes \ {s}), b \in T, UpwardClosed(T, parent')
                 PROVE  a \in T
    BY <1>2 DEF DependsOn
  <2>2. CASE T \intersect children[s] = {}
    <3>1. UpwardClosed(T, parent)
      BY <1>2, <2>1, <2>2 DEF UpwardClosed
    <3> QED BY <1>5, <2>1, <3>1 DEF DependsOn, Nodes
  <2>3. CASE T \intersect children[s] # {}
    <3>1. parent[s] \in T
      BY <1>2, <2>1, <2>3 DEF UpwardClosed
    <3>2. \A n \in T : parent[n] \in T \union {s}
      BY <1>1, <1>2, <2>1 DEF UpwardClosed
    <3>3. UpwardClosed(T \union {s}, parent) /\ T \union {s} \in SUBSET Nodes
      BY <1>1, <3>1, <3>2 DEF UpwardClosed
    <3>4. a \in T \union {s}
      BY <1>5, <2>1, <3>3 DEF DependsOn, Nodes
    <3> QED BY <1>2, <3>4
  <2> QED BY <2>2, <2>3
<1> QED BY <1>4, <1>5

\* Only RemoveStream takes a node away.
LEMMA OthersKeepNodes ==
    ASSUME [TreeNext]_treeVars, \A s \in Streams : ~RemoveStream(s)
    PROVE  Nodes \ DOMAIN parent' = {}
<1>1. \A par, s : DOMAIN par \subseteq DOMAIN ParentsWith(s, par)
  BY DEF ParentsWith
<1>2. ASSUME NEW par, NEW kids, NEW s \in Streams, NEW d \in NodeIds, NEW x \in BOOLEAN,
             UpdatePriority(s, d, x, par, kids)
      PROVE  DOMAIN par \subseteq DOMAIN parent'
  <2>1. DOMAIN parent' = DOMAIN ParentsWith(d, ParentsWith(s, par))
    BY <1>2 DEF UpdatePriority, Place
  <2> QED BY <1>1, <2>1
<1>3. ASSUME NEW s \in Streams, NEW d \in NodeIds, NEW x \in BOOLEAN, AddStream(s, d, x)
      PROVE  DOMAIN parent \subseteq DOMAIN parent'
  <2>1. CASE Refused(s, d, ParentsWith(s, parent))
    BY <1>1, <1>3, <2>1 DEF AddStream
  <2>2. CASE ~Refused(s, d, ParentsWith(s, parent))
    <3>1. DOMAIN ParentsWith(s, parent) \subseteq DOMAIN parent'
      BY <1>2, <1>3, <2>2 DEF AddStream
    <3> QED BY <1>1, <3>1
  <2> QED BY <2>1, <2>2
<1>4. ASSUME NEW s \in Streams, NEW d \in NodeIds, NEW x \in BOOLEAN,
             ProcessPriorityFrame(s, d, x)
      PROVE  DOMAIN parent \subseteq DOMAIN parent'
  BY <1>2, <1>4 DEF ProcessPriorityFrame
<1> QED BY <1>3, <1>4 DEF TreeNext, Nodes, treeVars

\* Whatever streams are closed, the order of those that stay is the one it was.
THEOREM RemovalsKeepOrder == TreeSpec => RemovalKeepsOrder
<1> DEFINE Kept == Nodes \ DOMAIN parent' # {} =>
              \A a, b \in DOMAIN parent' :
                  DependsOn(b, a, parent') <=> DependsOn(b, a, parent)
<1>1. TreeInv /\ [TreeNext]_treeVars => [Kept]_treeVars
  <2> SUFFICES ASSUME TreeInv, [TreeNext]_treeVars PROVE Kept
    OBVIOUS
  <2> QED BY RemovalKeepsDependencies, OthersKeepNodes DEF TreeInv
<1> QED BY <1>1, AlwaysTree, PTL DEF TreeSpec, RemovalKeepsOrder
=============================================================================

--------------------------------- MODULE Server ---------------------------------
(***************************************************************************)
(* A server process from the end of its start (internal/server/server.go): *)
(* the accept loop, the goroutine of each connection, Shutdown called      *)
(* several times, the signal handler, and the handover to a child process  *)
(* on SIGHUP.  What a connection does is ConnShutdown's subject; here it   *)
(* is served until its client or Close ends it.                            *)
(***************************************************************************)
EXTENDS Integers, FiniteSets

CONSTANTS
    Conns,       \* the connections that clients open
    TLS,         \* tlsConfig # nil: the accept loop itself does the handshake
    MaxSignals   \* bound: signals sent to the process

ASSUME ServerAssumption == TLS \in BOOLEAN /\ MaxSignals \in Nat

\* Each signal that is taken may lead to one call of Shutdown, and to one child.
Calls == 1..MaxSignals

VARIABLES
    conn,         \* where each connection is
    activeConns,  \* s.activeConns
    acceptor,     \* the accept loop
    listening,    \* the listener is open
    stopping,     \* shutdownChan and stopAccepting are closed
    done,         \* doneChan is closed
    exited,       \* the process has ended
    shutter,      \* where each call of Shutdown is
    told,         \* connections that Shutdown has called Close for
    reloadChan,   \* the signal in s.reloadChan, "empty" if none: its capacity is one
    handler,      \* handleSignals
    taken,        \* signals taken from the channel
    terms,        \* which of them were SIGINT or SIGTERM
    child,        \* the child started for each signal, if one was
    timedOut,     \* history: Shutdown has given up waiting
    sent,         \* history: signals sent
    term          \* history: one of them was SIGINT or SIGTERM

connVars == <<conn, activeConns, acceptor>>
shutVars == <<listening, stopping, done, shutter, told, timedOut>>
signalVars == <<reloadChan, handler, taken, terms, child>>
vars == <<connVars, shutVars, signalVars, exited, sent, term>>

Init ==
    /\ conn = [c \in Conns |-> "none"] /\ activeConns = {}
    /\ acceptor = "loop" /\ listening = TRUE
    /\ stopping = FALSE /\ done = FALSE /\ exited = FALSE
    /\ shutter = [k \in Calls |-> "none"] /\ told = {}
    /\ reloadChan = "empty" /\ handler = "select" /\ taken = 0 /\ terms = {}
    /\ child = [k \in Calls |-> "none"]
    /\ timedOut = FALSE /\ sent = 0 /\ term = FALSE

Move(c, from, to) == conn[c] = from /\ conn' = [conn EXCEPT ![c] = to]

--------------------------------------------------------------------------------
(* The accept loop and the goroutines of connections.                          *)

\* A client connects; the connection waits to be accepted.
Arrive(c) ==
    /\ ~exited /\ listening
    /\ Move(c, "none", "backlog")
    /\ UNCHANGED <<activeConns, acceptor, shutVars, signalVars, exited, sent, term>>

\* The top of the loop.
AcceptorLooks ==
    /\ ~exited /\ acceptor = "loop"
    /\ acceptor' = IF stopping THEN "gone" ELSE "accept"
    /\ UNCHANGED <<conn, activeConns, shutVars, signalVars, exited, sent, term>>

AcceptorAccepts(c) ==
    /\ ~exited /\ acceptor = "accept" /\ listening
    /\ Move(c, "backlog", "held")
    /\ acceptor' = "busy"
    /\ UNCHANGED <<activeConns, shutVars, signalVars, exited, sent, term>>

\* Accept fails, for now or because Shutdown has closed the listener.
AcceptorFails ==
    /\ ~exited /\ acceptor = "accept"
    /\ acceptor' = IF stopping THEN "gone" ELSE "loop"
    /\ UNCHANGED <<conn, activeConns, shutVars, signalVars, exited, sent, term>>

\* With the connection in hand the loop looks at stopAccepting once more.
AcceptorPasses(c) ==
    /\ ~exited /\ acceptor = "busy"
    /\ IF stopping THEN Move(c, "held", "gone") /\ acceptor' = "gone"
       ELSE /\ Move(c, "held", IF TLS THEN "peeked" ELSE "spawned")
            /\ acceptor' = IF TLS THEN "busy" ELSE "loop"
    /\ UNCHANGED <<activeConns, shutVars, signalVars, exited, sent, term>>

\* The look at the first bytes and the TLS handshake end, whenever the client lets them.
PeekEnds(c) ==
    /\ ~exited /\ acceptor = "busy"
    /\ (Move(c, "peeked", "spawned") \/ Move(c, "peeked", "gone"))
    /\ acceptor' = "loop"
    /\ UNCHANGED <<activeConns, shutVars, signalVars, exited, sent, term>>

\* handleTCPConnection enters the connection in activeConns and serves it.
Register(c) ==
    /\ ~exited
    /\ Move(c, "spawned", "serving")
    /\ activeConns' = activeConns \union {c}
    /\ UNCHANGED <<acceptor, shutVars, signalVars, exited, sent, term>>

\* Handshake or Serve returns or panics: the deferred function first strikes the
\* connection off and then closes it.
Leave(c) ==
    /\ ~exited
    /\ Move(c, "serving", "closing")
    /\ activeConns' = activeConns \ {c}
    /\ UNCHANGED <<acceptor, shutVars, signalVars, exited, sent, term>>

LeaveClose(c) ==
    /\ ~exited
    /\ Move(c, "closing", "gone")
    /\ UNCHANGED <<activeConns, acceptor, shutVars, signalVars, exited, sent, term>>

--------------------------------------------------------------------------------
(* Shutdown, call k.                                                           *)

\* Mutation of Enter: the call looks whether a shutdown is done, not whether one began.
EnterUnlessDone(k) ==
    /\ ~exited /\ shutter[k] = "called"
    /\ shutter' = [shutter EXCEPT ![k] = IF done THEN "follows" ELSE "listeners"]
    /\ stopping' = TRUE
    /\ UNCHANGED <<listening, done, told, timedOut, connVars, signalVars, exited, sent, term>>

\* Under s.mu: the first call closes both channels, the others wait for it.
Enter(k) ==
    /\ ~exited /\ shutter[k] = "called"
    /\ shutter' = [shutter EXCEPT ![k] = IF stopping THEN "follows" ELSE "listeners"]
    /\ stopping' = TRUE
    /\ UNCHANGED <<listening, done, told, timedOut, connVars, signalVars, exited, sent, term>>

\* Connections nobody has accepted are the child's, if there is one, or are refused.
CloseListeners(k) ==
    /\ ~exited /\ shutter[k] = "listeners"
    /\ shutter' = [shutter EXCEPT ![k] = "snapshot"]
    /\ listening' = FALSE
    /\ conn' = [c \in Conns |-> IF conn[c] = "backlog" THEN "gone" ELSE conn[c]]
    /\ UNCHANGED <<activeConns, acceptor, stopping, done, told, timedOut, signalVars,
                   exited, sent, term>>

\* Close is called for the connections that are active now.
TellConnections(k) ==
    /\ ~exited /\ shutter[k] = "snapshot"
    /\ shutter' = [shutter EXCEPT ![k] = "waits"]
    /\ told' = activeConns
    /\ UNCHANGED <<listening, stopping, done, timedOut, connVars, signalVars, exited, sent, term>>

\* activeConns is empty: the wait is over.
AllLeft(k) ==
    /\ ~exited /\ shutter[k] = "waits" /\ activeConns = {}
    /\ shutter' = [shutter EXCEPT ![k] = "cleanup"]
    /\ UNCHANGED <<listening, stopping, done, told, timedOut, connVars, signalVars, exited, sent, term>>

\* Somebody is left: the loop waits for the ticker or the timer, and asks nobody meanwhile.
SomeLeft(k) ==
    /\ ~exited /\ shutter[k] = "waits" /\ activeConns # {}
    /\ shutter' = [shutter EXCEPT ![k] = "ticks"]
    /\ UNCHANGED <<listening, stopping, done, told, timedOut, connVars, signalVars, exited, sent, term>>

Tick(k) ==
    /\ ~exited /\ shutter[k] = "ticks"
    /\ shutter' = [shutter EXCEPT ![k] = "waits"]
    /\ UNCHANGED <<listening, stopping, done, told, timedOut, connVars, signalVars, exited, sent, term>>

\* Mutation of GiveUp: the timer is started anew as long as there are connections.
GiveUpWhenIdle(k) ==
    /\ ~exited /\ shutter[k] = "ticks" /\ activeConns = {}
    /\ shutter' = [shutter EXCEPT ![k] = "cleanup"]
    /\ timedOut' = TRUE
    /\ UNCHANGED <<listening, stopping, done, told, connVars, signalVars, exited, sent, term>>

\* The timer has fired.
GiveUp(k) ==
    /\ ~exited /\ shutter[k] = "ticks"
    /\ shutter' = [shutter EXCEPT ![k] = "cleanup"]
    /\ timedOut' = TRUE
    /\ UNCHANGED <<listening, stopping, done, told, connVars, signalVars, exited, sent, term>>

\* Log files and doneChan are closed.
Finish(k) ==
    /\ ~exited /\ shutter[k] = "cleanup"
    /\ shutter' = [shutter EXCEPT ![k] = "returned"]
    /\ done' = TRUE
    /\ UNCHANGED <<listening, stopping, told, timedOut, connVars, signalVars, exited, sent, term>>

FollowerReturns(k) ==
    /\ ~exited /\ shutter[k] = "follows" /\ done
    /\ shutter' = [shutter EXCEPT ![k] = "returned"]
    /\ UNCHANGED <<listening, stopping, done, told, timedOut, connVars, signalVars, exited, sent, term>>

\* Start returns to main, which ends the process; the goroutine of a reload does it too.
Exit ==
    /\ ~exited /\ done
    /\ exited' = TRUE
    /\ UNCHANGED <<connVars, shutVars, signalVars, sent, term>>

--------------------------------------------------------------------------------
(* Signals and the handover to a child.                                        *)

\* A signal is dropped when the channel is full; once the handler has called
\* signal.Stop, it ends the process.
Send(sig) ==
    /\ ~exited /\ sent < MaxSignals
    /\ sent' = sent + 1
    /\ term' = (term \/ sig = "TERM")
    /\ exited' = (handler = "gone")
    /\ reloadChan' = IF reloadChan = "empty" /\ handler # "gone" THEN sig ELSE reloadChan
    /\ UNCHANGED <<connVars, shutVars, handler, taken, terms, child>>

\* SIGINT and SIGTERM start Shutdown on the side, SIGHUP is handled in place.
TakeSignal ==
    /\ ~exited /\ handler = "select" /\ reloadChan # "empty"
    /\ taken' = taken + 1 /\ reloadChan' = "empty"
    /\ IF reloadChan = "TERM"
       THEN /\ shutter' = [shutter EXCEPT ![taken'] = "called"] /\ UNCHANGED handler
            /\ terms' = terms \union {taken'}
       ELSE handler' = "hup" /\ UNCHANGED <<shutter, terms>>
    /\ UNCHANGED <<listening, stopping, done, told, timedOut, connVars, child, exited, sent, term>>

HandlerEnds ==
    /\ ~exited /\ handler = "select" /\ stopping
    /\ handler' = "gone"
    /\ UNCHANGED <<connVars, shutVars, reloadChan, taken, terms, child, exited, sent, term>>

\* Mutation of ReloadFails: its return ends handleSignals too.
ReloadFailsForGood ==
    /\ ~exited /\ handler = "hup"
    /\ handler' = "gone"
    /\ UNCHANGED <<connVars, shutVars, reloadChan, taken, terms, child, exited, sent, term>>

\* The new configuration, the pipe or the start of the child fails.
ReloadFails ==
    /\ ~exited /\ handler = "hup"
    /\ handler' = "select"
    /\ UNCHANGED <<connVars, shutVars, reloadChan, taken, terms, child, exited, sent, term>>

StartChild ==
    /\ ~exited /\ handler = "hup"
    /\ handler' = "waits"
    /\ child' = [child EXCEPT ![taken] = "starting"]
    /\ UNCHANGED <<connVars, shutVars, reloadChan, taken, terms, exited, sent, term>>

\* The child has its listeners and signals, or fails before.
ChildReady(k) ==
    /\ child[k] = "starting"
    /\ child' = [child EXCEPT ![k] = "ready"]
    /\ UNCHANGED <<connVars, shutVars, reloadChan, handler, taken, terms, exited, sent, term>>

ChildFails(k) ==
    /\ child[k] = "starting"
    /\ child' = [child EXCEPT ![k] = "failed"]
    /\ UNCHANGED <<connVars, shutVars, reloadChan, handler, taken, terms, exited, sent, term>>

\* The end of file that the parent takes for readiness.  No state of the child is asked:
\* CreateReadinessPipe has closed the write end before the child was started, so the child
\* has none to inherit and nobody ever writes or holds the pipe open.
ReadEOF ==
    /\ ~exited /\ handler = "waits"
    /\ handler' = "select"
    /\ shutter' = [shutter EXCEPT ![taken] = "called"]
    /\ UNCHANGED <<listening, stopping, done, told, timedOut, connVars, reloadChan, taken, terms,
                   child, exited, sent, term>>

\* Mutation of KillChild: the return at its end is missing.
KillAndLeave ==
    /\ ~exited /\ handler = "waits"
    /\ handler' = "select"
    /\ child' = [child EXCEPT ![taken] = IF @ = "failed" THEN @ ELSE "killed"]
    /\ shutter' = [shutter EXCEPT ![taken] = "called"]
    /\ UNCHANGED <<listening, stopping, done, told, timedOut, connVars, reloadChan, taken, terms,
                   exited, sent, term>>

\* The timeout, or a read that fails otherwise: the child is killed, ready or not.
KillChild ==
    /\ ~exited /\ handler = "waits"
    /\ handler' = "select"
    /\ child' = [child EXCEPT ![taken] = IF @ = "failed" THEN @ ELSE "killed"]
    /\ UNCHANGED <<connVars, shutVars, reloadChan, taken, terms, exited, sent, term>>

--------------------------------------------------------------------------------
Connection(c) ==
    \/ Arrive(c) \/ AcceptorAccepts(c) \/ AcceptorPasses(c) \/ PeekEnds(c)
    \/ Register(c) \/ Leave(c) \/ LeaveClose(c)

Shutdown(k) ==
    \/ Enter(k) \/ CloseListeners(k) \/ TellConnections(k)
    \/ AllLeft(k) \/ SomeLeft(k) \/ Tick(k) \/ GiveUp(k) \/ Finish(k) \/ FollowerReturns(k)

Handler == TakeSignal \/ HandlerEnds \/ ReloadFails \/ StartChild \/ ReadEOF \/ KillChild

Next ==
    \/ AcceptorLooks \/ AcceptorFails
    \/ \E c \in Conns : Connection(c)
    \/ \E k \in Calls : Shutdown(k) \/ ChildReady(k) \/ ChildFails(k)
    \/ Exit
    \/ \E sig \in {"TERM", "HUP"} : Send(sig)
    \/ Handler

Spec == Init /\ [][Next]_vars

\* Goroutines that can go on do.  Once the timer has fired its case of the select stays
\* ready, and select chooses at random between ready cases.  Clients need do nothing, and
\* a child need not come up.
FairSpec ==
    /\ Spec
    /\ WF_vars(Handler) /\ WF_vars(Exit)
    /\ \A k \in Calls : WF_vars(Shutdown(k)) /\ SF_vars(GiveUp(k))

--------------------------------------------------------------------------------
TypeOK ==
    /\ conn \in [Conns -> {"none", "backlog", "held", "peeked", "spawned", "serving", "closing", "gone"}]
    /\ activeConns \subseteq Conns /\ told \subseteq Conns
    /\ acceptor \in {"loop", "accept", "busy", "gone"}
    /\ listening \in BOOLEAN /\ stopping \in BOOLEAN /\ done \in BOOLEAN /\ exited \in BOOLEAN
    /\ shutter \in [Calls -> {"none", "called", "listeners", "snapshot", "waits", "ticks",
                              "cleanup", "follows", "returned"}]
    /\ reloadChan \in {"empty", "TERM", "HUP"} /\ handler \in {"select", "hup", "waits", "gone"}
    /\ taken \in 0..MaxSignals /\ terms \subseteq Calls /\ sent \in 0..MaxSignals
    /\ child \in [Calls -> {"none", "starting", "ready", "failed", "killed"}]
    /\ timedOut \in BOOLEAN /\ term \in BOOLEAN

\* One call does the shutdown, however many signals and reloads call it, and no other
\* call returns before it has finished.
OneShutdown ==
    /\ \A k, l \in Calls :
         {shutter[k], shutter[l]} \subseteq {"listeners", "snapshot", "waits", "ticks", "cleanup"} => k = l
    /\ \A k \in Calls : shutter[k] = "returned" => done

\* When a shutdown ends before its timeout, the connections it has told to close have
\* all left Serve.
ToldHaveLeft == done /\ ~timedOut => \A c \in told : conn[c] \in {"closing", "gone"}

\* The process stops serving only for SIGTERM, or for a child that was started and that it
\* has not killed; a reload that fails before a child is started, or that ends with the
\* child's kill, calls no Shutdown.  It does not end before a Shutdown has begun.  Whether
\* the child lives is not asked: ReloadOnlyWhenReady, below, does not hold.
AbortedReloadStays ==
    /\ \A k \in Calls : shutter[k] # "none" =>
         (k \in terms /\ child[k] = "none") \/ child[k] \in {"starting", "ready", "failed"}
    /\ stopping => \E k \in Calls : shutter[k] \notin {"none", "called"}
    /\ exited => stopping

\* A shutdown that has begun ends the process: the timer sees to it when connections that
\* came too late to be told, or clients, do not leave.
ShutdownEnds == stopping ~> exited

\* SIGTERM in the channel is obeyed, even behind a reload that waits for its child.
QueuedTermObeyed == (reloadChan = "TERM") ~> stopping

--------------------------------------------------------------------------------
\* What the documentation of Shutdown says: it waits for active connections to finish.
\* None has a goroutine left when a shutdown ends before its timeout.
ShutdownWaits == done /\ ~timedOut => \A c \in Conns : conn[c] \notin {"spawned", "serving", "closing"}

\* What the project's specification demands: the parent leaves for a child only when the
\* child is ready.
ReloadOnlyWhenReady ==
    \A k \in Calls : shutter[k] # "none" /\ child[k] # "none" => child[k] = "ready"

\* What handleSignals says of its direct call: that SIGTERM is obeyed with it too.
TermObeyed == term ~> stopping
================================================================================

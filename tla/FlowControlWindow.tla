--------------------------- MODULE FlowControlWindow ---------------------------
(***************************************************************************)
(* The send window of a stream or of the connection (type                  *)
(* FlowControlWindow of internal/http2/flowcontrol.go): a counter under a  *)
(* mutex, with a condition variable on which Acquire waits for space.      *)
(* Every method body holds fcw.mu throughout, so a method is one step; a   *)
(* call of Acquire that has to wait is two: the part up to cond.Wait and   *)
(* the turn of its loop after a Broadcast.  The peer's own view of the     *)
(* window (what it granted less what reached the wire) is kept beside it.  *)
(***************************************************************************)
EXTENDS Integers

CONSTANTS
    Senders,        \* goroutines that call Acquire
    MaxWindowSize,  \* 2^31 - 1 in the code
    Demands,        \* byte counts a caller acquires, releases or puts on the wire
    InitialSizes,   \* values of SETTINGS_INITIAL_WINDOW_SIZE
    IsConnection,   \* the connection's window: SETTINGS does not change it
    PeerOverrun     \* how far a peer may push the window, as it sees it, beyond
                    \* MaxWindowSize: 0 for a peer that keeps to RFC 7540 6.9.1

ASSUME WindowAssumption ==
    /\ MaxWindowSize \in Nat \ {0}
    /\ Demands \subseteq 1..MaxWindowSize
    /\ InitialSizes \subseteq 0..MaxWindowSize
    /\ IsConnection \in BOOLEAN
    /\ PeerOverrun \in Nat

VARIABLES
    available,          \* fcw.available
    initialWindowSize,  \* fcw.initialWindowSize
    closed,             \* fcw.closed
    err,                \* fcw.err: "nil", "overflow" or the reason given to Close
    pc,                 \* "idle", "asleep" in cond.Wait, or "woken" by a Broadcast
    need,               \* need[t]: the n of t's call of Acquire (0 when idle)
    outstanding,        \* bytes acquired, not yet released or put on the wire
    peerWindow          \* the window as the peer counts it

windowVars == <<available, initialWindowSize, closed, err, pc, need, outstanding, peerWindow>>

Errors == {"nil", "overflow", "closed"}

\* NewFlowControlWindow
WindowInit ==
    /\ initialWindowSize \in InitialSizes
    /\ available = initialWindowSize
    /\ peerWindow = initialWindowSize
    /\ closed = FALSE /\ err = "nil"
    /\ pc = [t \in Senders |-> "idle"]
    /\ need = [t \in Senders |-> 0]
    /\ outstanding = 0

\* No wakeup: the step of a method that does not broadcast.
NoBroadcast == UNCHANGED pc

\* cond.Broadcast: every goroutine in the wait set becomes runnable.
Broadcast == pc' = [t \in Senders |-> IF pc[t] = "asleep" THEN "woken" ELSE pc[t]]

Failed == closed \/ err # "nil"

\* Mutation of TakeSpace: the space is handed out without being deducted.
TakeForFree(n) ==
    /\ outstanding' = outstanding + n
    /\ UNCHANGED available

TakeSpace(n) ==
    /\ available' = available - n
    /\ outstanding' = outstanding + n

\* Acquire and AcquireAdditionalSendSpace: the window is checked, then the space is
\* taken or the goroutine waits.  A refused call returns and changes nothing.
Acquire(t, n) ==
    /\ pc[t] = "idle" /\ ~Failed
    /\ \/ /\ available >= n
          /\ TakeSpace(n)
          /\ UNCHANGED <<pc, need>>
       \/ /\ available < n
          /\ pc' = [pc EXCEPT ![t] = "asleep"]
          /\ need' = [need EXCEPT ![t] = n]
          /\ UNCHANGED <<available, outstanding>>
    /\ UNCHANGED <<initialWindowSize, closed, err, peerWindow>>

\* The loop of Acquire after cond.Wait: an error is returned before space is looked at.
Resume(t) ==
    /\ pc[t] = "woken"
    /\ \/ Failed /\ UNCHANGED <<available, outstanding>>
       \/ ~Failed /\ available >= need[t] /\ TakeSpace(need[t])
    /\ pc' = [pc EXCEPT ![t] = "idle"]
    /\ need' = [need EXCEPT ![t] = 0]
    /\ UNCHANGED <<initialWindowSize, closed, err, peerWindow>>

WaitAgain(t) ==
    /\ pc[t] = "woken" /\ ~Failed /\ available < need[t]
    /\ pc' = [pc EXCEPT ![t] = "asleep"]
    /\ UNCHANGED <<available, initialWindowSize, closed, err, need, outstanding, peerWindow>>

\* setErrorLocked: only the first error is kept, and it closes the window.
SetError(e) ==
    /\ err' = (IF err = "nil" THEN e ELSE err)
    /\ closed' = TRUE
    /\ Broadcast

\* Increase: a WINDOW_UPDATE of the peer.  A window with an error is left as it is.
\* The peer may send whatever it likes; PeerOverrun bounds how far it goes.
Increase(i) ==
    /\ err = "nil"
    /\ peerWindow + i <= MaxWindowSize + PeerOverrun
    /\ peerWindow' = peerWindow + i
    /\ \/ /\ available + i > MaxWindowSize
          /\ SetError("overflow")
          /\ UNCHANGED available
       \/ /\ available + i <= MaxWindowSize
          /\ available' = available + i
          /\ Broadcast
          /\ UNCHANGED <<closed, err>>
    /\ UNCHANGED <<initialWindowSize, need, outstanding>>

\* Mutation of UpdateInitialWindowSize: the new value is not remembered.
UpdateFromStaleSize(v) ==
    LET delta == v - initialWindowSize IN
    /\ ~IsConnection /\ ~Failed /\ delta # 0
    /\ available + delta <= MaxWindowSize
    /\ peerWindow + delta <= MaxWindowSize + PeerOverrun
    /\ available' = available + delta
    /\ peerWindow' = peerWindow + delta
    /\ IF delta > 0 THEN Broadcast ELSE NoBroadcast
    /\ UNCHANGED <<initialWindowSize, closed, err, need, outstanding>>

\* UpdateInitialWindowSize: the difference is applied, upwards or downwards.  A value
\* that would overflow the window is a connection error that changes nothing here.
UpdateInitialWindowSize(v) ==
    LET delta == v - initialWindowSize IN
    /\ ~IsConnection /\ ~Failed /\ delta # 0
    /\ available + delta <= MaxWindowSize
    /\ peerWindow + delta <= MaxWindowSize + PeerOverrun
    /\ available' = available + delta
    /\ peerWindow' = peerWindow + delta
    /\ initialWindowSize' = v
    /\ IF delta > 0 THEN Broadcast ELSE NoBroadcast
    /\ UNCHANGED <<closed, err, need, outstanding>>

\* Release: an acquisition is rolled back.  The window may be closed by then.
Release(n) ==
    /\ n <= outstanding
    /\ available' = available + n
    /\ outstanding' = outstanding - n
    /\ Broadcast
    /\ UNCHANGED <<initialWindowSize, closed, err, need, peerWindow>>

\* The caller's DATA frame goes out: the bytes are spent.
Transmit(n) ==
    /\ n <= outstanding
    /\ outstanding' = outstanding - n
    /\ peerWindow' = peerWindow - n
    /\ UNCHANGED <<available, initialWindowSize, closed, err, pc, need>>

\* Close: both managers pass a reason, so err is set with closed.
Close ==
    /\ ~closed /\ closed' = TRUE
    /\ err' = (IF err = "nil" THEN "closed" ELSE err)
    /\ Broadcast
    /\ UNCHANGED <<available, initialWindowSize, need, outstanding, peerWindow>>

WindowNext ==
    \/ \E t \in Senders, n \in Demands : Acquire(t, n)
    \/ \E t \in Senders : Resume(t)
    \/ \E t \in Senders : WaitAgain(t)
    \/ \E i \in Demands : Increase(i)
    \/ \E v \in InitialSizes : UpdateInitialWindowSize(v)
    \/ \E n \in Demands : Release(n)
    \/ \E n \in Demands : Transmit(n)
    \/ Close

\* The Go scheduler runs a runnable goroutine eventually and sync.Mutex does not
\* starve one, so a woken waiter gets its turn.
WindowFairness == \A t \in Senders : WF_windowVars(Resume(t) \/ WaitAgain(t))

WindowSpec == WindowInit /\ [][WindowNext]_windowVars /\ WindowFairness

--------------------------------------------------------------------------------
WindowTypeOK ==
    /\ available \in Int
    /\ initialWindowSize \in InitialSizes
    /\ closed \in BOOLEAN
    /\ err \in Errors
    /\ pc \in [Senders -> {"idle", "asleep", "woken"}]
    /\ need \in [Senders -> Demands \union {0}]
    /\ \A t \in Senders : pc[t] # "idle" <=> need[t] # 0
    /\ outstanding \in Nat
    /\ peerWindow \in Int

\* No byte of credit is lost or counted twice: what the window still offers and what
\* its callers hold is exactly the window the peer believes we have, whatever mix of
\* WINDOW_UPDATE, SETTINGS, rollbacks and sends led here.  (After an overflowing
\* WINDOW_UPDATE the window is dead and the two sides disagree for good.)
Conservation == err # "overflow" => available + outstanding = peerWindow

\* No waiter is forgotten: a goroutine left asleep in cond.Wait wants more than there
\* is, and the window is not closed (flowcontrol.go broadcasts on each change that can
\* help a waiter, but not on one that only shrinks the window).
NoLostWakeup ==
    \A t \in Senders : pc[t] = "asleep" => ~Failed /\ available < need[t]

\* The window stays in the range the 31-bit limit and the negative windows of RFC 7540
\* 6.9.2 allow, up to what a peer that breaks the limit itself can add through Release,
\* which has no check against MaxWindowSize.
WindowInRange ==
    /\ available <= MaxWindowSize + PeerOverrun
    /\ available >= initialWindowSize - MaxWindowSize

\* Once closed, a window hands out nothing, even to a waiter whose space came just
\* before: Acquire looks at closed first after each wakeup.
NoGrantAfterClose == [][closed => outstanding' <= outstanding /\ closed']_windowVars

\* The window implements the abstract credit counter: the wait set and the wakeups
\* are invisible, every request is served at once or waits, and waiting ends.
Credit == INSTANCE SendCredit WITH
    credit <- available, taken <- outstanding, demand <- need, dead <- closed
ImplementsCredit == Credit!Spec
================================================================================
